CONSTANTS
    MaxStops <- MCMaxStops
    ReverseDebugging = TRUE
    ConsoleResume = TRUE
    LaunchRace = TRUE
SPECIFICATION Spec
CHECK_DEADLOCK FALSE
PROPERTIES StopReported
