CONSTANTS
    TapModes <- MCTapModes
    RuntimeConfigs <- MCRuntimes
    InitRuntime <- MCDisabled
    K8sCluster = FALSE
    SysCpus = 4
    MemChecks = {TRUE}
    CgroupApplies = {TRUE, FALSE}
    BlockSizeMB = 1
SPECIFICATION FairSpec
INVARIANT MemoryUnlimitedWhenCleared
