SPECIFICATION Spec
CONSTANTS
    ttyUSB0 = ttyUSB0
    NoPort = NoPort
    Ports <- MCPorts
    MaxConns = 2
    MaxLines = 2
    MaxRequests = 3
    MaxStarts = 2
INVARIANTS
    TypeOK
    OnlyCurrentOpen
    ConnectedMeansReading
    RequestsServedBeforeStop
    StoppedIsQuiet
    LinesInOrder
PROPERTIES
    ImplementsExclusivePort
    StopReturns
    DroppedReadsEnd
    EveryLineHanded
\* The program may end, and the user may do nothing more.
CHECK_DEADLOCK FALSE
