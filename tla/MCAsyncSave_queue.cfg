SPECIFICATION Spec
CONSTANTS
    Caller = {c1, c2}
    Path <- OneFile
    MaxSaves = 3
    SpawnCanFail = TRUE
    JobCanFail = TRUE
    ProcessCanExit = TRUE
    QuietDirect = FALSE
    QuietCopy = FALSE
INVARIANT TypeOK
INVARIANT QueueOrder
PROPERTY NeverOlder
PROPERTY CallersReturn
PROPERTY SavesFinish
