CONSTANTS
    GatewayName = "gw"
    GatewayNamespace = "sys"
    ValidIds = {"k_1"}
    Instances <- MCInstances
    Models = {"m", "n"}
    MaxLag = 1
    MaxEdits = 4
SPECIFICATION FairSpec
PROPERTIES UniqueNameIsServed
CHECK_DEADLOCK FALSE
