CONSTANTS
    MaxStops <- MCMaxStops
    ReverseDebugging = FALSE
    ConsoleResume = FALSE
    LaunchRace = FALSE
SPECIFICATION Spec
CHECK_DEADLOCK FALSE
INVARIANTS TypeOK HandlesCurrent LaunchAnsweredOnce CallbackOnce
PROPERTIES StopShown
