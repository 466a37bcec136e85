SPECIFICATION Spec
CONSTANTS
    Caller = {c1, c2}
    Path <- RotationAndGlobal
    MaxSaves = 3
    SpawnCanFail = FALSE
    JobCanFail = FALSE
    ProcessCanExit = FALSE
    QuietDirect = TRUE
    QuietCopy = TRUE
INVARIANT Transparent
INVARIANT NoPlaceholderOnDisk
SYMMETRY CallerSymmetry
