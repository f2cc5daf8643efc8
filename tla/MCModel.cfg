SPECIFICATION Spec
CONSTANTS
    MaxMessages <- MCMessages
    MaxSaves <- MCSaves
INVARIANTS
    TypeOK
    ViewFifo
    FileInOrder
    NoSleepBesideMessage
    NoTerminate
    RunningWhileAlive
    StopLeavesAtMostOne
PROPERTIES
    EveryMessageViewed
    EveryQueuedSaved
\* The program may end, and nothing makes a message arrive.
CHECK_DEADLOCK FALSE
