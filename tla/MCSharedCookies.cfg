SPECIFICATION FairSpec
CONSTANTS
    a = a
    b = b
    pa = pa
    pb = pb
    shared = shared
    other = other
    key = key
    NoSocket = NoSocket
    NoPid = NoPid
    NoKeyinfo = NoKeyinfo
    NoAttempt = NoAttempt
    Sockets = {a, b}
    Pids = {pa, pb}
    PidOf <- MCPidOf
    Cookies = {shared, other}
    Requests <- MCRequests
    Keyinfos = {key}
    KeyinfosOf <- MCKeyinfosOf
    Attempts = {1}
INVARIANTS
    NoTimeoutWhileAsking
PROPERTIES
    OnlyOwnerReports
    AnsweredFlowResolves
