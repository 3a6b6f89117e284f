SPECIFICATION Spec
CONSTANTS
    Towers = {t1}
    Files = {Game, Odyssey}
    MaxSaves = 2
    MaxOlder = 1
INVARIANTS
    SaveKeptOnce
    LiveSavesKnown
