CONSTANTS
    GatewayName <- Gw
    GatewayNamespace <- GwNs
    ValidIds <- MCValidIds
    KeySecrets <- LabelSecrets
    SecretContent <- LabelSecretContent
    RouteNames <- LabelRoutes
    RouteContent <- LabelRouteContent
    NewKeys = {"p1"}
    AuthModes = {TRUE, FALSE}
    AllowUnlabel = FALSE
    AllowRemoval = TRUE
    MaxLag = 1
    MaxGateways = 2
    MaxEdits = 4
SPECIFICATION FairSpec
PROPERTY Converges
CHECK_DEADLOCK FALSE
