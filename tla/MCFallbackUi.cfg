SPECIFICATION FairUiSpec
CONSTANTS
    Sessions = {a, b}
    None = None
    Absent = Absent
    WrongType = WrongType
    Fraction = Fraction
    Executables = {"ui", "shell", "builtin"}
    Programs = {Absent, "builtin", "gone"}
    Layouts <- MCLayouts
    SearchDirs <- DisabledProvider
    OverridePath = Absent
    DefaultPath = "builtin"
    MaxStarting = 2
    MaxEvents = 3
    MaxSuccessTimers = 1
INVARIANTS
    DisplayedIsOpen
    HiddenHeals
    LaunchesTheBestCandidate
PROPERTIES
    PromptReachesUser
