SPECIFICATION Spec
CONSTANTS
    nMaxMessages = 1
    MaxEndpoints = 2
    MaxConns = 2
    MaxLines = 1
    MaxStarts = 2
INVARIANTS
    TimerPrimed
    OpenAreRead
    NoThreadOutlives
PROPERTIES
    CallsReturn
    EveryLineHandled
\* The supervisor may be destroyed, which ends the program.
CHECK_DEADLOCK FALSE
