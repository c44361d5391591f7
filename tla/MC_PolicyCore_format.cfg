CONSTANTS
    Dispatchers <- MCDispatchers
    GroupIds <- MCGroupIds
    Ips <- MCIps
    Ports <- MCPorts
    Epcs <- MCEpcs
    Actions <- MCActions
    Acls <- MCAcls
    GroupConfigs <- MCGroupConfigs
    Keys <- MCKeys
    CheckFlags = {TRUE}
    POLICY = TRUE
    FastDisable = FALSE
    MapSize = 3
SPECIFICATION Spec
INVARIANT
    FastAgreesWithFirst
