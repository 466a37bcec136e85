SPECIFICATION Spec
CONSTANTS
    Caller = {c1}
    Path <- Rotation
    MaxSaves = 3
    SpawnCanFail = FALSE
    JobCanFail = TRUE
    ProcessCanExit = TRUE
    QuietDirect = TRUE
    QuietCopy = TRUE
PROPERTY ImplementsSaveStore
