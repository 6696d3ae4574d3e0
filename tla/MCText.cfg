\* Every path of up to five characters in three environments; the mode ids of
\* every schema name of up to five bytes, in buffers of five.
SPECIFICATION TextSpec
CONSTANTS
    Letters = {"a"}
    Digits = {"1"}
    MaxPath = 5
    Envs <- MCEnvs
    FirstSize = 2
    Bytes = {58, 97}
    MaxId = 5
    Width = 5
    Suffix <- MCSuffix
    Null = Null
    NotHex = NotHex
INVARIANTS
    PathTypeOK
    ExpansionIsRight
    NulFits
    WireTypeOK
    TreeNamesSchema
PROPERTIES
    ScanEnds
    SchemaIsRestored
    AsciiIsRestored
CHECK_DEADLOCK FALSE
