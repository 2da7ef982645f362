CONSTANTS
    GatewayName <- Gw
    GatewayNamespace <- GwNs
    ValidIds <- MCValidIds
    KeySecrets <- LabelSecrets
    SecretContent <- LabelSecretContent
    RouteNames <- LabelRoutes
    RouteContent <- LabelRouteContent
    NewKeys = {"p1"}
    AuthModes = {TRUE}
    AllowUnlabel = TRUE
    AllowRemoval = FALSE
    MaxLag = 1
    MaxGateways = 1
    MaxEdits = 3
SPECIFICATION Spec
INVARIANT QuietMeansUpToDate
CHECK_DEADLOCK FALSE
