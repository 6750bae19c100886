SPECIFICATION Spec
CONSTANTS
    MaxBytes <- TwoUpOneDown
    Window = 1
CHECK_DEADLOCK FALSE
INVARIANTS
    RelayInv
    CleanEndComplete
PROPERTIES
    ConnectionsEnd
    CancelEndsProxy
