SPECIFICATION Spec
CONSTANTS
    ttyUSB0 = ttyUSB0
    NoPort = NoPort
    Ports <- MCPorts
    MaxConns = 1
    MaxLines = 2
    MaxRequests = 1
    MaxSaves = 1
INVARIANTS
    JoinedAtReturn
PROPERTIES
    ImplementsLinePipe
\* The program may end, or sleep with nobody left to wake it.
CHECK_DEADLOCK FALSE
