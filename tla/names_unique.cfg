CONSTANTS
    GatewayName = "gw"
    GatewayNamespace = "sys"
    ValidIds = {"k_1"}
    Instances <- MCInstances
    Models = {"m", "n"}
    MaxLag = 1
    MaxEdits = 4
SPECIFICATION FairSpec
INVARIANTS TypeOK OneRoutePerModel
PROPERTIES CollisionsOnlyFromLag CollisionIsReported FreeNameIsServed
CHECK_DEADLOCK FALSE
