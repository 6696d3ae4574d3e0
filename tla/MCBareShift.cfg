\* One context and one schema, without deployments: Shift and the other keys.
SPECIFICATION Spec
CONSTANTS
    Ctxs = {c1}
    Schemas = {luna}
    NoSchema = NoSchema
    NoSession = NoSession
    NoCtx = NoCtx
    HostOps = {}
    TracksFocus = TRUE
    MaxDeploys = 1
PROPERTIES
    ShiftAloneToggles
