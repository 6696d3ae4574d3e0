\* A deployment may end at once.
SPECIFICATION FairSpec
CONSTANTS
    Main = main
    Jobs = {}
    HostOps = {"deploy"}
    SyncModes = {FALSE}
    MaxDeploys = 2
    NoSession = NoSession
INVARIANTS
    SuccessSticks
