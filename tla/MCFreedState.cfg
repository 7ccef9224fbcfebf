SPECIFICATION ListenerSpec
CONSTANTS
    Cookies = {su}
    NoCookie = NoCookie
    Helpers = {h1, h2, h3}
    NoHelper = NoHelper
    MaxAuthRetries = 3
CHECK_DEADLOCK FALSE
INVARIANT FinishOnlyInProgress
