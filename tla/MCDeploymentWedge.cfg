\* A setup job may fail while the engine is in use.
SPECIFICATION FairSpec
CONSTANTS
    Main = main
    Jobs = {job}
    HostOps = {"setup"}
    SyncModes = {FALSE}
    MaxDeploys = 2
    NoSession = NoSession
INVARIANTS
    SwallowingIsRetried
