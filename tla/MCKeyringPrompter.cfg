SPECIFICATION FairPrompterSpec
CONSTANTS
    prompter = prompter
    NoSocket = NoSocket
    NoPid = NoPid
    NoKeyinfo = NoKeyinfo
    NoAttempt = NoAttempt
    NoCookie = NoCookie
    Sockets = {s1, s2, s3}
    Pids = {prompter}
    PidOf <- MCPidOf
    Cookies = {c1, c2}
    Requests <- MCRequests
    Keyinfos = {}
    KeyinfosOf <- MCKeyinfosOf
    Attempts = {}
INVARIANTS
    PromptsAreWaitedFor
    PasswordForItsOwnPrompt
    
PROPERTIES
    MainLoopComesBack
    AbandonedPromptsGo
