SPECIFICATION Spec
CONSTANTS
    Texts = {t1, t2}
    NoText = NoText
    CreateCanFail = TRUE
    UserCanClose = TRUE
    MaxMessages = 2
    Files <- AllFiles
    NoMovie = NoMovie
    Avx2 = TRUE
    SpawnCanFail = TRUE
INVARIANT TypeOK
INVARIANT ThreadsOwned
INVARIANT ErrorTells
INVARIANT PictureRight
INVARIANT AcceptedShows
PROPERTY CallsReturn
PROPERTY WindowFollows
PROPERTY PaintsLatest
