CONSTANTS
    MaxStops <- MCMaxStops
    ReverseDebugging = FALSE
    ConsoleResume = FALSE
    LaunchRace = TRUE
SPECIFICATION Spec
CHECK_DEADLOCK FALSE
INVARIANT StoppedOnce
