CONSTANTS
    Dispatchers <- MCDispatchers
    GroupIds <- MCWideGroupIds
    Ips <- MCIps
    Ports <- MCPorts
    Epcs <- MCEpcs
    Actions <- MCActions
    Acls <- MCWideAcls
    GroupConfigs <- MCGroupConfigs
    Keys <- MCKeys
    CheckFlags = {TRUE}
    POLICY = TRUE
    FastDisable = FALSE
    MapSize = 3
SPECIFICATION Spec
INVARIANT StrictCheckRejectsUnknownGroups
