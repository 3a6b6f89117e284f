SPECIFICATION FairSpec
CONSTANTS
    Launches = {l1, l2}
    MaxProcesses = 2
    Mods = {m1}
    ValidProfiles = {{m1}}
    MaxEdits = 1
INVARIANTS
    TicketForOneProcess
    SuccessTruthful
    VanillaStaysVanilla
    NoReusableIntent
PROPERTIES
    LaunchEnds
CHECK_DEADLOCK FALSE
