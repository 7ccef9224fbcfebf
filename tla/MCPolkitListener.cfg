SPECIFICATION ListenerSpec
CONSTANTS
    Cookies = {su, mount}
    NoCookie = NoCookie
    Helpers = {h1, h2, h3, h4}
    NoHelper = NoHelper
    MaxAuthRetries = 3
\* A crashed daemon does nothing more.
CHECK_DEADLOCK FALSE
INVARIANTS
    CurrentSessionOnly
    RepliedExactlyOnce
    HelpersBelong
PROPERTY
    KeepsSessions
