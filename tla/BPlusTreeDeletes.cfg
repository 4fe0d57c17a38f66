SPECIFICATION Spec
CONSTANTS
    LeafOrder = 3
    InternalOrder = 3
    Key = {1, 2, 3, 4, 5}
    Deletable = {1, 2, 3, 4, 5}
    MaxPage = 8
    IntMod = 8
    KeyMod = 32
    MaxCrash = 1
INVARIANTS
    TypeOK
    WellFormed
    FrontierAhead
    InsertKeepsFileSearchable
    KillLosesOneRange
PROPERTIES
    ImplementsDictionary
CHECK_DEADLOCK FALSE
