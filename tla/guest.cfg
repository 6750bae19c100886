SPECIFICATION Spec
CONSTANTS
    Senders = {monitor, handler}
    MaxStops = 3
    MaxCrashes = 2
    MayFail = TRUE
INVARIANTS
    OneStopSyncs
PROPERTIES
    OneStopEnds
    LoneStopHandled
    ReadinessPosted
    ImplementsContract
