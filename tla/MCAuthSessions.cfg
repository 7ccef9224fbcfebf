SPECIFICATION Spec
CONSTANTS
    gpg1 = gpg1
    again1 = again1
    gpg2 = gpg2
    prompter = prompter
    p1 = p1
    p2 = p2
    p3 = p3
    flow1 = flow1
    flow2 = flow2
    login = login
    su = su
    key = key
    NoSocket = NoSocket
    NoPid = NoPid
    NoKeyinfo = NoKeyinfo
    NoAttempt = NoAttempt
    Sockets = {gpg1, again1, gpg2, prompter}
    Pids = {p1, p2, p3}
    PidOf <- MCPidOf
    Cookies = {flow1, flow2, login, su}
    Requests <- MCRequests
    Keyinfos = {key}
    KeyinfosOf <- MCKeyinfosOf
    Attempts = {1}
    NoName = NoName
    Unreadable = Unreadable
    NoDesktop = NoDesktop
    AgentIsRoot = FALSE
    MaxHops = 3
    DesktopIndex <- MCDesktopIndex
    LowerCase <- MCLowerCase
    Readings <- MCReadings
INVARIANTS
    AuthTypeOK
    NoRequestForgotten
    EveryPromptHasItsManager
    RepeatedQuestionShowsError
    AttemptsDieWithTheFlow
    
PROPERTIES
    KeepsPromise
