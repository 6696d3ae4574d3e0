\* Without setup threads, in every interleaving, both ways to deploy.
SPECIFICATION FairSpec
CONSTANTS
    Main = main
    Jobs = {}
    HostOps = {"deploy", "deactivate"}
    SyncModes = {TRUE, FALSE}
    MaxDeploys = 3
    NoSession = NoSession
INVARIANTS
    TypeOK
    QuietTeardown
    FreshSession
    ReadyHasBuild
    SyncBlocks
PROPERTIES
    FreedStateUntouched
    ImplementsService
    SuccessSticksButForRace
    PreparingResolves
    TeardownEnds
