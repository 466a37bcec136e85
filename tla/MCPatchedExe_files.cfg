SPECIFICATION WindowSpec
CONSTANTS
    Images <- AllImages
    Updates <- SomeUpdates
    IOCanFail = TRUE
    CanCrash = TRUE
INVARIANT WindowTypeOK
INVARIANT LayoutSound
INVARIANT ImportsKept
INVARIANT GameKept
INVARIANT StatusTrue
INVARIANT DoneIsDone
