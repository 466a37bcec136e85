SPECIFICATION Spec
CONSTANTS
    HeadGuard = 2
    TailGuard = 2
    MaxFrames = 2
    Packets = 4
    Interval = 2
    Keyframes = {0, 2}
    Ahead = 2
    DecodeCanFail = FALSE
    SeekCanFail = FALSE
    WorkerCanPanic = FALSE
    Threshold = 0
    MaxStep = 2
    MaxCommands = 2
    CanSeek = TRUE
    CanEndLoop = TRUE
    CanDestroy = FALSE
PROPERTY CatchesUp
PROPERTY PicturesAdvance
CHECK_DEADLOCK FALSE
