SPECIFICATION PanelSpec
CONSTANTS
    Names = {ttyUSB0}
    Settings = {b9600, b115200}
    NoPort = NoPort
    MaxConns = 2
    MaxLines = 1
    MaxRequests = 2
INVARIANTS
    LastRequestWins
    OpenIsShown
PROPERTIES
    ConnectTakesEffect
\* The program may end, and the user may ask for nothing more.
CHECK_DEADLOCK FALSE
