SPECIFICATION FairFailoverSpec
CONSTANTS
    Sockets = {ui1, ui2, shell}
    Rivals = {shell}
    NoSocket = NoSocket
    Priorities = {50}
    FallbackPriority = 10
    HeartbeatTimeout = 0
    MaintenanceInterval = 1
    MaxToDaemon = 1
    MaxToClient = 2
INVARIANTS
    BeliefIsAuthority
    ShownAfterFailover
PROPERTIES
    ReturnsToUsableUI
