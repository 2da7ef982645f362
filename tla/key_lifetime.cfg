CONSTANTS
    MaxDraws = 6
    MaxLag = 2
    MaxEdits = 3
SPECIFICATION FairSpec
INVARIANTS TypeOK
PROPERTIES NeverRewritten KeepsLifetime KeySettles
CHECK_DEADLOCK FALSE
