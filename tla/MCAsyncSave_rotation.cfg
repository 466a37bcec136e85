SPECIFICATION Spec
CONSTANTS
    Caller = {c1}
    Path <- Rotation
    MaxSaves = 3
    SpawnCanFail = FALSE
    JobCanFail = FALSE
    ProcessCanExit = FALSE
    QuietDirect = TRUE
    QuietCopy = FALSE
INVARIANT Transparent
