SPECIFICATION FairFlowSpec
CONSTANTS
    gpg = gpg
    NoSocket = NoSocket
    NoPid = NoPid
    NoKeyinfo = NoKeyinfo
    NoAttempt = NoAttempt
    NoFlow = NoFlow
    Sockets = {s1, s2, s3}
    Pids = {gpg}
    PidOf <- MCPidOf
    Cookies = {c1, c2}
    Requests <- MCRequests
    Keyinfos = {}
    KeyinfosOf <- MCKeyinfosOf
    Attempts = {}
INVARIANTS
    ClientKeepsTheRules
    WaitsForItsPrompt
    NothingLeftBehind
PROPERTIES
    PromptsEndWithTheProgram
CHECK_DEADLOCK FALSE
