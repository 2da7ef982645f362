CONSTANTS
    Specs <- AllSpecs
    Surroundings <- SomeSurroundings
    Auth = TRUE
    PodCounts <- SomePodCounts
    MaxEdits = 2
SPECIFICATION FairSpec
INVARIANTS TypeOK NeverReadyUnserved
PROPERTIES ReportSettles WatchesSuffice
CHECK_DEADLOCK FALSE
