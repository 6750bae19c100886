SPECIFICATION FairSpec
CONSTANTS
    Requests = {"first"}
    Free = Free
    MaxLines <- TwoLines
    Kinds = {"line", "long", "limit"}
    MayHang = TRUE
    MayStall = {"first"}
CHECK_DEADLOCK FALSE
INVARIANTS
    DoneMeansComplete
    OutcomeTold
PROPERTIES
    LeftRequestEnds
    ImplementsContract
