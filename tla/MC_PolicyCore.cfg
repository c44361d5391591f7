CONSTANTS
    Dispatchers <- MCOneDispatcher
    GroupIds <- MCGroupIds
    Ips <- MCIps
    Ports <- MCPorts
    Epcs <- MCEpcs
    Actions <- MCActions
    Acls <- MCAcls
    GroupConfigs <- MCGroupConfigs
    Keys <- MCKeys
    CheckFlags = {TRUE}
    POLICY = TRUE
    FastDisable = FALSE
    MapSize = 3
SPECIFICATION Spec
INVARIANTS
    TypeOK
    NoPanic
PROPERTIES
    ReverseStoresAgree
