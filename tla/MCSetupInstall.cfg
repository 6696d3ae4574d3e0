\* Two setup threads, overlapping or not, and two ends of the process.
SPECIFICATION FairSpec
CONSTANTS
    Jobs = {j1, j2}
    Absent = Absent
    MaxRestarts = 2
INVARIANTS
    TypeOK
    SchemasKept
    MarkerIsTrue
PROPERTIES
    SuccessIsInstalled
    SetupConverges
