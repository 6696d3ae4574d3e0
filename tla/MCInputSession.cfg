\* Two contexts share the engine, with everything the host may ask of it.
SPECIFICATION Spec
SYMMETRY Symmetry
VIEW View
CONSTANTS
    Ctxs = {c1, c2}
    Schemas = {luna, ice}
    NoSchema = NoSchema
    NoSession = NoSession
    NoCtx = NoCtx
    HostOps = {"deploy", "setup", "deactivate", "set_mode", "edit", "reload",
               "destroy"}
    TracksFocus = TRUE
    MaxDeploys = 2
INVARIANTS
    TypeOK
    NothingHidden
    ReportedIsLive
    TreeIsLive
PROPERTIES
    ShiftAloneTogglesButForEscape
    AsciiSurvives
