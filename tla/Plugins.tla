------------------------------- MODULE Plugins -------------------------------
(***************************************************************************)
(* Dynamic extensions: discovery, loading and verification of modules, the *)
(* provider dispatcher and the tool/hook loaders, and the lifetime of a    *)
(* library under the objects minted from it                                *)
(*   src/extensions/include/extensions/extensions.hpp, plugin_magic.hpp    *)
(*   src/llm/include/llm/models.hpp (LLMModelExtensionContext, dispatcher) *)
(*   src/tools/extensions/src/plugin.cpp, src/loop/extensions/src/...      *)
(*   src/load/src/plugins.cpp                                              *)
(*                                                                         *)
(* A module file has a directory and what loading it would meet.  An       *)
(* object created inside a library is destroyed in two steps: its          *)
(* destructor runs in the library's code, then its owner lets go of the    *)
(* library handle.  That the handle is opened with RTLD_NODELETE is left   *)
(* out: the ownership alone has to keep the code mapped.                   *)
(***************************************************************************)
EXTENDS Integers, Sequences, FiniteSets, SequencesExt

CONSTANTS
    Files,          \* module files
    Module,         \* file -> [dir, name, priority, opens, magic,
                    \*          abi, factory, mints]
    Directories,    \* plugin directories
    Selections,     \* the `enable` lists a configuration may hold
    MaxModels       \* provider models alive at a time

ASSUME PluginBounds ==
    /\ IsFiniteSet(Files)
    /\ \A f \in Files : Module[f].dir \in Directories
    /\ MaxModels \in Nat

VARIABLES
    plScanned,     \* directories the dispatcher has loaded
    plContexts,    \* ExtensionDispatcher::_contexts
    plByName,      \* _by_name: name -> file
    plWarmed,      \* per file: "no", "valid" or "invalid" (_warmed, _valid)
    plUsable,      \* LLMDispatcher::_usable
    plLoader,      \* the extension loader's contexts_
    plLoadStep,    \* construct_selected: where it is
    plQueue,       \* directories or selections it has left
    plObjects,     \* objects whose code lies in a library
    plExtensions   \* what load_extensions returned

plVars == <<plScanned, plContexts, plByName, plWarmed, plUsable, plLoader,
            plLoadStep, plQueue, plObjects, plExtensions>>

Object(kind, file, n) == [kind |-> kind, file |-> file, n |-> n, dying |-> FALSE]

PlInit ==
    /\ plScanned = {}
    /\ plContexts = <<>>
    /\ plByName = [n \in {} |-> ""]
    /\ plWarmed = [f \in Files |-> "no"]
    /\ plUsable = 0
    /\ plLoader = <<>>
    /\ plLoadStep = "idle"
    /\ plQueue = <<>>
    /\ plObjects = {}
    /\ plExtensions = <<>>

-----------------------------------------------------------------------------
(* load_modules_directory and verify_after_loaded                           *)

\* check_module_magic: the block is absent, foreign (another toolchain, standard
\* library ABI, boost or build profile) or the host's own.
MagicOk(f) == Module[f].magic = "ok"

\* get_library_ref and create_object_from_library: a library that does not open,
\* whose magic is not the host's or whose context factory is missing or returns
\* null is dropped, with its error logged; it does not stop the scan.
Loads(f) == Module[f].opens /\ MagicOk(f)

\* The survivors, highest priority first; equal priorities keep discovery order,
\* which is the directory iterator's and so any.
Scans(d) ==
    LET found == {f \in Files : Module[f].dir = d /\ Loads(f)}
    IN  {s \in SetToSeqs(found) :
            \A i, j \in DOMAIN s : i < j => Module[s[i]].priority >= Module[s[j]].priority}

\* Each loaded context is an object of its library, pinned by its own deleter.
ContextsOf(files) == {Object("context", f, 0) : f \in files}

-----------------------------------------------------------------------------
(* The provider dispatcher                                                  *)

\* A plausible slip: a later context takes the name over.
MutantIndexed(byName, files) ==
    [n \in DOMAIN byName \cup {Module[f].name : f \in Range(files)} |->
        IF \E f \in Range(files) : Module[f].name = n
        THEN files[CHOOSE i \in DOMAIN files : Module[files[i]].name = n]
        ELSE byName[n]]

\* _by_name.emplace for each imported context in turn: the first name wins.
Indexed(byName, files) ==
    [n \in DOMAIN byName \cup {Module[f].name : f \in Range(files)} |->
        IF n \in DOMAIN byName THEN byName[n]
        ELSE files[CHOOSE i \in DOMAIN files :
                      /\ Module[files[i]].name = n
                      /\ \A j \in 1 .. i - 1 : Module[files[j]].name # n]]

\* warm(): the factory is resolved once and the outcome kept.
Warm(warmed, f) ==
    IF warmed[f] # "no" THEN warmed[f]
    ELSE IF Module[f].factory THEN "valid" ELSE "invalid"

\* verify_llm_context reaches warm() only for the right ABI.
Verified(warmed, f) == Module[f].abi /\ warmed[f] = "valid"

\* A plausible slip: every verified context counts, also the shadowed ones.
MutantRoutable(contexts, byName) == Range(contexts)
Routable(contexts, byName) == {f \in Range(contexts) : byName[Module[f].name] = f}

\* load_models: import one directory, then recount the routable names.
LoadProviders(d) ==
    /\ d \notin plScanned
    /\ \E files \in Scans(d) :
          LET contexts == plContexts \o files
              byName   == Indexed(plByName, files)
              counted  == Routable(contexts, byName)
              warmed   == [f \in Files |-> IF f \in counted /\ Module[f].abi
                                           THEN Warm(plWarmed, f) ELSE plWarmed[f]]
          IN  /\ plContexts' = contexts
              /\ plByName' = byName
              /\ plWarmed' = warmed
              /\ plUsable' = Cardinality({f \in counted : Verified(warmed, f)})
              /\ plObjects' = plObjects \cup ContextsOf(Range(files))
    /\ plScanned' = plScanned \cup {d}
    /\ UNCHANGED <<plLoader, plLoadStep, plQueue, plExtensions>>

Models == {o \in plObjects : o.kind = "model"}

\* create_model: find by name, verify, mint, build; a model that does not build
\* is destroyed and null is returned.
CreateModel(name) ==
    /\ Cardinality(Models) < MaxModels
    /\ name \in DOMAIN plByName
    /\ LET f == plByName[name]
           warmed == IF Module[f].abi THEN [plWarmed EXCEPT ![f] = Warm(plWarmed, f)]
                     ELSE plWarmed
       IN  /\ plWarmed' = warmed
           /\ plObjects' = IF Verified(warmed, f) /\ Module[f].mints
                           THEN plObjects \cup {Object("model", f, Cardinality(Models))}
                           ELSE plObjects
    /\ UNCHANGED <<plScanned, plContexts, plByName, plUsable, plLoader, plLoadStep,
                   plQueue, plExtensions>>

\* The dispatcher goes away (or is cleared); models minted earlier stay.
ClearDispatcher ==
    /\ plContexts # <<>>
    /\ plContexts' = <<>>
    /\ plByName' = [n \in {} |-> ""]
    /\ UNCHANGED <<plScanned, plWarmed, plUsable, plLoader, plLoadStep, plQueue,
                   plObjects, plExtensions>>

-----------------------------------------------------------------------------
(* load_extensions: scan, then construct every selected plugin or none.     *)

BeginExtensions ==
    /\ plLoadStep = "idle"
    /\ plExtensions = <<>>
    /\ \E selection \in Selections :
          /\ plQueue' = selection
          /\ plLoadStep' = IF selection = <<>> THEN "returned" ELSE "scan"
    /\ UNCHANGED <<plScanned, plContexts, plByName, plWarmed, plUsable, plLoader,
                   plObjects, plExtensions>>

\* ToolSetExtensionLoader::load accepts a context of the right ABI and type whose
\* name is new and whose factory resolves.
Accepted(loader, f) ==
    /\ Module[f].abi
    /\ Module[f].factory
    /\ \A g \in Range(loader) : Module[g].name # Module[f].name

LoadInto(loader, files) ==
    FoldLeft(LAMBDA acc, f : IF Accepted(acc, f) THEN Append(acc, f) ELSE acc,
             loader, files)

ScanExtensions ==
    /\ plLoadStep = "scan"
    /\ \E order \in SetToSeqs(Directories) :
       \E scans \in [DOMAIN order -> UNION {Scans(d) : d \in Directories}] :
          /\ \A i \in DOMAIN order : scans[i] \in Scans(order[i])
          /\ plLoader' = FoldLeft(LAMBDA acc, i : LoadInto(acc, scans[i]),
                                  <<>>, [i \in DOMAIN order |-> i])
    /\ plObjects' = plObjects \cup {[o EXCEPT !.kind = "extension_context"] :
                                       o \in ContextsOf(Range(plLoader'))}
    /\ plLoadStep' = "construct"
    /\ UNCHANGED <<plScanned, plContexts, plByName, plWarmed, plUsable, plQueue,
                   plExtensions>>

\* create(): the first context of the name; its toolset is handed out wrapped.
ConstructNext ==
    /\ plLoadStep = "construct"
    /\ plQueue # <<>>
    /\ LET hits == {f \in Range(plLoader) : Module[f].name = Head(plQueue)}
       IN  IF \E f \in hits : Module[f].mints
           THEN LET f == CHOOSE g \in hits : Module[g].mints
                IN  /\ plExtensions' = Append(plExtensions, f)
                    /\ plObjects' = plObjects \cup {Object("toolset", f, 0)}
                    /\ plQueue' = Tail(plQueue)
                    /\ UNCHANGED plLoadStep
           ELSE /\ plLoadStep' = "failing"
                /\ UNCHANGED <<plExtensions, plObjects, plQueue>>
    /\ UNCHANGED <<plScanned, plContexts, plByName, plWarmed, plUsable, plLoader>>

\* The loader is a local of construct_selected: it dies when that returns or
\* throws, and a throw takes the products constructed so far with it.
LoaderReturns ==
    /\ plLoadStep = "construct" /\ plQueue = <<>>
    /\ plLoadStep' = "returned"
    /\ plLoader' = <<>>
    /\ UNCHANGED <<plScanned, plContexts, plByName, plWarmed, plUsable, plQueue,
                   plObjects, plExtensions>>

LoaderThrows ==
    /\ plLoadStep = "failing"
    /\ plLoadStep' = "threw"
    /\ plLoader' = <<>>
    /\ plExtensions' = <<>>
    /\ plQueue' = <<>>
    /\ UNCHANGED <<plScanned, plContexts, plByName, plWarmed, plUsable, plObjects>>

\* A tool handle of a loaded toolset: PinnedTool owns the toolset with it.
PrepareTool(f) ==
    /\ plLoadStep = "returned"
    /\ f \in Range(plExtensions)
    /\ plObjects' = plObjects \cup {Object("tool", f, 0)}
    /\ UNCHANGED <<plScanned, plContexts, plByName, plWarmed, plUsable, plLoader,
                   plLoadStep, plQueue, plExtensions>>

DropExtension ==
    /\ plLoadStep = "returned"
    /\ plExtensions # <<>>
    /\ plExtensions' = Tail(plExtensions)
    /\ UNCHANGED <<plScanned, plContexts, plByName, plWarmed, plUsable, plLoader,
                   plLoadStep, plQueue, plObjects>>

-----------------------------------------------------------------------------
(* Ownership *)

\* Who still holds a strong reference to an object.
Owned(o) ==
    CASE o.kind = "context"           -> o.file \in Range(plContexts)
      [] o.kind = "extension_context" -> o.file \in Range(plLoader)
      [] o.kind = "toolset"           -> \/ o.file \in Range(plExtensions)
                                         \/ \E t \in plObjects :
                                               t.kind = "tool" /\ t.file = o.file
      [] OTHER                        -> FALSE

\* Models and tools are held by callers who let go of them at any time; the rest
\* die with their last owner.  The destructor runs first.
Destroy(o) ==
    /\ ~o.dying /\ ~Owned(o)
    /\ plObjects' = (plObjects \ {o}) \cup {[o EXCEPT !.dying = TRUE]}
    /\ UNCHANGED <<plScanned, plContexts, plByName, plWarmed, plUsable, plLoader,
                   plLoadStep, plQueue, plExtensions>>

\* Then the deleter's captured handle is released with the object gone.
ReleaseHandle(o) ==
    /\ o.dying
    /\ plObjects' = plObjects \ {o}
    /\ UNCHANGED <<plScanned, plContexts, plByName, plWarmed, plUsable, plLoader,
                   plLoadStep, plQueue, plExtensions>>

\* A plausible slip: the handle is only a member of the context, and is let go
\* of by the destructor that runs inside the library; products rely on it.
MutantHoldsHandle(o) == o.kind \in {"context", "extension_context"} /\ ~o.dying

\* Which objects keep the handle of their library: contexts and minted objects
\* by their deleters, until after their destructors have returned; a tool by the
\* toolset it owns.
HoldsHandle(o) == o.kind # "tool"

Mapped(f) == \E o \in plObjects : o.file = f /\ HoldsHandle(o)

PlNext ==
    \/ \E d \in Directories : LoadProviders(d)
    \/ \E n \in {Module[f].name : f \in Files} : CreateModel(n)
    \/ ClearDispatcher
    \/ BeginExtensions \/ ScanExtensions \/ ConstructNext
    \/ LoaderReturns \/ LoaderThrows
    \/ \E f \in Files : PrepareTool(f)
    \/ DropExtension
    \/ \E o \in plObjects : Destroy(o) \/ ReleaseHandle(o)

PlSpec == PlInit /\ [][PlNext]_plVars

-----------------------------------------------------------------------------
(* Properties *)

\* A library stays mapped while any object whose code it holds exists, through
\* the end of that object's destructor: in whatever order the dispatcher, the
\* loader, models, toolsets and tool handles are let go of.
CodeStaysMapped == \A o \in plObjects : Mapped(o.file)

\* The number of usable providers is the number of names create_model can serve,
\* also after several directories with repeated and broken modules.
UsableCountsNames ==
    plContexts # <<>> =>
        plUsable = Cardinality({n \in DOMAIN plByName :
                        LET f == plByName[n] IN Module[f].abi /\ Module[f].factory})

\* A provider name never moves to another module while the dispatcher lives.
RouteStable ==
    [][\A n \in DOMAIN plByName : n \in DOMAIN plByName' => plByName'[n] = plByName[n]]_plVars
=============================================================================
