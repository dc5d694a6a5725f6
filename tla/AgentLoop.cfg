SPECIFICATION Spec
CONSTANTS
    Calls = {c1, c2}
    MaxExchanges = 2
    Bounded = TRUE
    AutoCompact = TRUE
    EditHooks = TRUE
    MaxSequence = 2
    MaxEntries = 4
INVARIANTS
    Continuable
    HonestResults
    EffectsAccounted
PROPERTIES
    OnlySettledRemoved
