SPECIFICATION FairSpec
CONSTANTS
    BUFFER_SIZE = 3
    TABLE_COUNT = 1
    MaxPage = 1
    Name = {nameA}
    nameA = nameA
PROPERTIES
    EndOfInputEnds
CHECK_DEADLOCK FALSE
