CONSTANTS
    MaxStops <- MCMaxStops
    ReverseDebugging = FALSE
    ConsoleResume = FALSE
    LaunchRace = FALSE
SPECIFICATION Spec
CHECK_DEADLOCK FALSE
INVARIANT DebuggeeReleased
