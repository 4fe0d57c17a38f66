SPECIFICATION Spec
CONSTANTS
    MaxPage = 4
    MaxFrees = 2
    MaxCrash = 2
INVARIANTS
    TypeOK
    FreshUntilFirstFree
    TwoOwnersNeedTwoFrees
    NumPagesCountsOwners
