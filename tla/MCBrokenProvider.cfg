SPECIFICATION FairUiSpec
CONSTANTS
    Sessions = {a}
    None = None
    Absent = Absent
    WrongType = WrongType
    Fraction = Fraction
    Executables = {"ui", "shell", "builtin"}
    Programs = {Absent, "builtin", "gone"}
    Layouts = {}
    SearchDirs <- InstalledProvider
    OverridePath = Absent
    DefaultPath = "builtin"
    MaxStarting = 1
    MaxEvents = 2
    MaxSuccessTimers = 1
PROPERTIES
    PromptReachesUser
