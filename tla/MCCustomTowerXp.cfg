SPECIFICATION XpSpec
CONSTANTS
    XpTowers = {t1, t2}
    Addresses = {1, 2}
    Gains = {1, 2}
    Pops = {0, 1}
    MaxGained = 3
INVARIANTS
    XpSound
PROPERTIES
    FileKeepsXp
