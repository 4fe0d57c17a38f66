SPECIFICATION Spec
CONSTANTS
    BUFFER_SIZE = 3
    TABLE_COUNT = 2
    MaxPage = 1
    Name = {nameA, nameB, nameC}
    nameA = nameA
    nameB = nameB
    nameC = nameC
SYMMETRY NameSymmetry
INVARIANTS
    TypeOK
    DirtyIsPinned
    LostOnlyUnmarked
    FramesShowTheirPage
    CrashesOnlyWhenFull
    FollowsChange
    OneFramePerPage
PROPERTIES
    ImplementsLRUPool
CHECK_DEADLOCK FALSE
