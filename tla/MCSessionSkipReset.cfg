CONSTANTS
    MaxStops <- MCMaxStops
    ReverseDebugging = TRUE
    ConsoleResume = TRUE
    LaunchRace = FALSE
SPECIFICATION Spec
CHECK_DEADLOCK FALSE
INVARIANT HandlesCurrent
