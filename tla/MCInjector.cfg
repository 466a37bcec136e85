SPECIFICATION Spec
CONSTANTS
    Processes = {game, other}
    Loaders = {i1, i2}
    Nobody = Nobody
    ExeDir = "game"
    Environments <- Paths
    Game = game
    Free = Free
    Archs = {"x86", "x64"}
INVARIANT TypeOK
INVARIANT PathThere
INVARIANT NothingLeft
INVARIANT ThreadFits
INVARIANT InjectedIsLoaded
INVARIANT PathPrepended
PROPERTY InjectorsEnd
CHECK_DEADLOCK FALSE
