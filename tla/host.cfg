SPECIFICATION Spec
CONSTANTS
    Networks = {"gvisor", "tsi"}
    Faulty <- NetworkOnly
    MaxSignals = 1
INVARIANTS
    CancelledGuestIsTold
    
PROPERTIES
    CaughtSignalEnds
    OrphanEndsUnlessUnwatched
    PodmanReadyReported
