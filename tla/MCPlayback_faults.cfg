SPECIFICATION Spec
CONSTANTS
    HeadGuard = 1
    TailGuard = 1
    MaxFrames = 2
    Packets = 2
    Interval = 2
    Keyframes = {0, 1}
    Ahead = 2
    DecodeCanFail = TRUE
    SeekCanFail = TRUE
    WorkerCanPanic = TRUE
    Threshold = 0
    MaxStep = 3
    MaxCommands = 2
    CanSeek = TRUE
    CanEndLoop = TRUE
    CanDestroy = TRUE
INVARIANT TypeOK
INVARIANT ShownInTime
INVARIANT NeverBothAsleep
PROPERTY CallsReturn
PROPERTY MovieEnds
CHECK_DEADLOCK FALSE
