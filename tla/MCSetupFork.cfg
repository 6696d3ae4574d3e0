\* One setup thread, and nothing else that could disturb it.
SPECIFICATION Spec
CONSTANTS
    Jobs = {j1}
    Absent = Absent
    MaxRestarts = 0
PROPERTIES
    SuccessIsTrue
