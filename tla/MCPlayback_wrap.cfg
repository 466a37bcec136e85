SPECIFICATION Spec
CONSTANTS
    HeadGuard = 2
    TailGuard = 2
    MaxFrames = 2
    Packets = 4
    Interval = 2
    Keyframes = {0}
    Ahead = 4
    DecodeCanFail = FALSE
    SeekCanFail = FALSE
    WorkerCanPanic = FALSE
    Threshold = 0
    MaxStep = 2
    MaxCommands = 2
    CanSeek = FALSE
    CanEndLoop = FALSE
    CanDestroy = FALSE
PROPERTY WrapResumes
CHECK_DEADLOCK FALSE
