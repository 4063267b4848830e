CONSTANTS
    MaxStops <- MCMaxStops
    ReverseDebugging = TRUE
    ConsoleResume = FALSE
    LaunchRace = FALSE
SPECIFICATION Spec
CHECK_DEADLOCK FALSE
PROPERTIES StopShown
