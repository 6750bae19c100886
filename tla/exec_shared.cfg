SPECIFICATION FairSpec
CONSTANTS
    Requests = {"first", "second"}
    Free = Free
    MaxLines <- LineOfSecond
    Kinds = {"line", "long", "limit"}
    MayHang = FALSE
    MayStall = {"second"}
CHECK_DEADLOCK FALSE
PROPERTIES
    FinishedRunEnds
    LeftRequestEnds
