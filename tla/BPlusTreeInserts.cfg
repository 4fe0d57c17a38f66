SPECIFICATION Spec
CONSTANTS
    LeafOrder = 3
    InternalOrder = 3
    Key = {1, 2, 3, 4, 5, 6, 7, 8}
    Deletable = {}
    MaxPage = 13
    IntMod = 32
    KeyMod = 64
    MaxCrash = 0
INVARIANTS
    WellFormed
    InsertKeepsFileSearchable
    KillLosesOneRange
PROPERTIES
    ImplementsDictionary
CHECK_DEADLOCK FALSE
