\* The host ends the worker while a setup job runs.
SPECIFICATION FairSpec
CONSTANTS
    Main = main
    Jobs = {job}
    HostOps = {"setup"}
    SyncModes = {FALSE}
    MaxDeploys = 2
    NoSession = NoSession
INVARIANTS
    QuietTeardown
