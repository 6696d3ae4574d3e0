\* The smallest case: one context, one schema, one deployment.
SPECIFICATION Spec
CONSTANTS
    Ctxs = {c1}
    Schemas = {luna}
    NoSchema = NoSchema
    NoSession = NoSession
    NoCtx = NoCtx
    HostOps = {"deploy"}
    TracksFocus = TRUE
    MaxDeploys = 1
INVARIANTS
    NothingStale
