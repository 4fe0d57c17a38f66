SPECIFICATION Spec
VIEW View
CONSTANTS
    BUFFER_SIZE = 7
    TABLE_COUNT = 2
    MaxPage = 7
    LeafOrder = 2
    InternalOrder = 3
    Key = {1, 2, 3, 4}
    IntMod = 8
    KeyMod = 32
    MaxRecords = 4
    Sought = {1, 3}
INVARIANTS
    TypeOK
    FitsIsSafe
    VictimIsPointedTo
    PromptIsSaved
    FindTellsTheFile
    FilesHoldWhatWasTyped
CHECK_DEADLOCK FALSE
