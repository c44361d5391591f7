CONSTANTS
    TapModes <- MCTapModes
    RuntimeConfigs <- MCPanicRuntimes
    InitRuntime <- MCDisabled
    K8sCluster = FALSE
    SysCpus = 4
    MemChecks = {TRUE}
    CgroupApplies = {TRUE, FALSE}
    BlockSizeMB = 1
SPECIFICATION FairSpec
INVARIANT NoPanic
