SPECIFICATION Spec
CONSTANTS
    Caller = {c1, c2}
    Path <- SlotAndGlobal
    MaxSaves = 1
    SpawnCanFail = TRUE
    JobCanFail = FALSE
    ProcessCanExit = FALSE
    QuietDirect = TRUE
    QuietCopy = TRUE
INVARIANT NoPlaceholderOnDisk
