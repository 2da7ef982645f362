CONSTANTS
    GatewayName <- Gw
    GatewayNamespace <- GwNs
    ValidIds <- MCValidIds
    KeySecrets <- LabelSecrets
    SecretContent <- LabelSecretContent
    RouteNames <- LabelRoutes
    RouteContent <- LabelRouteContent
    NewKeys = {"p1"}
    AuthModes = {TRUE}
    AllowUnlabel = FALSE
    AllowRemoval = FALSE
    MaxLag = 1
    MaxGateways = 1
    MaxEdits = 2
SPECIFICATION Spec
INVARIANT RoutesAreGuarded
CHECK_DEADLOCK FALSE
