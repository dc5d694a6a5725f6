SPECIFICATION SpSpec
CONSTANTS
    Launches = {"local"}
    MaxStarts = 2
    MaxHubDeaths = 1
INVARIANT SettledIsOver
CHECK_DEADLOCK FALSE
