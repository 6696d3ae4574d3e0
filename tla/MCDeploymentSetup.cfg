\* One setup job next to the host's requests.
SPECIFICATION FairSpec
CONSTANTS
    Main = main
    Jobs = {job}
    HostOps = {"setup"}
    SyncModes = {TRUE, FALSE}
    MaxDeploys = 2
    NoSession = NoSession
INVARIANTS
    QuietButForSetup
PROPERTIES
    FreedButForSetup
    PreparingResolves
    TeardownEnds
