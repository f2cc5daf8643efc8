SPECIFICATION Spec
CONSTANTS
    MaxMessages <- MCMessagesFew
    MaxSaves <- MCSavesFew
INVARIANTS
    SaverFindsMessage
\* The program may end, and nothing makes a message arrive.
CHECK_DEADLOCK FALSE
