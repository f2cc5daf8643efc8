SPECIFICATION LogSpec
CONSTANTS
    c_size <- MCSize
    MaxLines <- MCLines
INVARIANTS
    LogIsLatest
PROPERTIES
    CopyIsHighlight
