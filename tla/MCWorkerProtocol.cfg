\* The worker with every request it serves, two schemas, edits and restarts.
SPECIFICATION WorkerSpec
SYMMETRY Symmetry
CONSTANTS
    Ctx = c1
    Ctxs = {c1}
    Schemas = {luna, ice}
    NoSchema = NoSchema
    NoSession = NoSession
    NoCtx = NoCtx
    HostOps = {"deactivate", "set_mode", "edit", "reload"}
    TracksFocus = FALSE
    MaxDeploys = 2
INVARIANTS
    WorkerTypeOK
    TreeIsLive
    CachedIsLive
PROPERTIES
    SchemaSurvives
