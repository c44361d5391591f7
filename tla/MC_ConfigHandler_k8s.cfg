CONSTANTS
    TapModes <- MCTapModes
    RuntimeConfigs <- MCRuntimes
    InitRuntime <- MCDisabled
    K8sCluster = TRUE
    SysCpus = 4
    MemChecks = {TRUE}
    CgroupApplies = {TRUE, FALSE}
    BlockSizeMB = 1
SPECIFICATION FairSpec
PROPERTY EnabledEventuallyRuns
