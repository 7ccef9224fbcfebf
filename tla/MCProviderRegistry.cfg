SPECIFICATION RegistrySpec
CONSTANTS
    Sockets = {u1, u2, u3}
    NoSocket = NoSocket
    Priorities = {10, 50}
    HeartbeatTimeout = 6
    MaintenanceInterval = 2
SYMMETRY SocketSymmetry
INVARIANTS
    RegistryTypeOK
    ExactlyOneDecider
    ActiveIsBest
    ToldTheTruth
    SilenceIsBounded
PROPERTIES
    LiveProviderIsKept
