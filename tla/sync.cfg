CONSTANTS
    Specs <- AllSpecs
    Charts <- AllCharts
    Drifting <- AnyKind
    MaxEdits = 3
SPECIFICATION FairSpec
INVARIANTS TypeOK ReferencesExist RouteHasBackends OneWayIn OverlapPasses GoneMeansRemoved
PROPERTIES RouteComesAfterKey Converges DriftIsRepaired
CHECK_DEADLOCK FALSE
