SPECIFICATION Spec
CONSTANTS
    SpecLists <- MCSpecLists
    Blank = Blank
    Malformed = Malformed
    FileOf <- MCFileOf
    HostPaths = {"agent", "h1", "h2", "h3", "h4", "h5"}
    AgentGuest = 3
    AgentHost = "agent"
    Patches <- MCPatches
    BasePort = 25900
    MaxPort = 25903
    None = None
CHECK_DEADLOCK FALSE
INVARIANTS
    ForwardInv
    RoutedAsConfigured
    SocketsServed
