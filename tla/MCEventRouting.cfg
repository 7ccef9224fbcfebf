SPECIFICATION RoutingSpec
CONSTANTS
    Sockets = {u1, u2}
    NoSocket = NoSocket
    Priorities = {10, 50}
    HeartbeatTimeout = 1
    MaintenanceInterval = 1
    Ids = {s1, s2}
    MaxQueue = 2
    MaxEmitted = 5
    MaxWaiters = 2
SYMMETRY ClientAndIdSymmetry
INVARIANTS
    NobodyWaitsInVain
    QueueHoldsTheRest
    ListenersAreUpToDate
PROPERTIES
    KeepsRegistry
