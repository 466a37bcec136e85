SPECIFICATION Spec
CONSTANTS
    Threads = {t1, t2}
    Names = {"cg", "wide"}
    WideNames = {"wide"}
    Disks <- SomeDisks
    MaxChanges = 2
SYMMETRY Symmetry
INVARIANT TypeOK
INVARIANT PlaceholderMeetsHook
INVARIANT MovieMeetsItsOwn
INVARIANT CacheWasTrue
