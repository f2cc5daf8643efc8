SPECIFICATION Spec
CONSTANTS
    MaxMessages <- MCMessagesFew
    MaxSaves <- MCSavesFew
INVARIANTS
    FlagTracksThread
\* The program may end, and nothing makes a message arrive.
CHECK_DEADLOCK FALSE
