SPECIFICATION Spec
CONSTANTS
    ttyUSB0 = ttyUSB0
    ttyUSB1 = ttyUSB1
    Ports <- MCPorts
INVARIANTS
    ScannerExclusive
    OldListIsNext
PROPERTIES
    UpToDate
    CallsReturn
