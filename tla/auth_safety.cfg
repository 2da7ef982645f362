CONSTANTS
    GatewayName <- Gw
    GatewayNamespace <- GwNs
    ValidIds <- MCValidIds
    KeySecrets <- SharedSecrets
    SecretContent <- SharedSecretContent
    RouteNames <- SharedRoutes
    RouteContent <- SharedRouteContent
    NewKeys = {"p1"}
    AuthModes = {TRUE, FALSE}
    AllowUnlabel = FALSE
    AllowRemoval = FALSE
    MaxLag = 1
    MaxGateways = 1
    MaxEdits = 4
SPECIFICATION Spec
INVARIANTS TypeOK EnvoyAcceptsCredentials RulesFailClosed KeysStayInNamespace
    PolicyHasCredentials QuietMeansUpToDate
CHECK_DEADLOCK FALSE
