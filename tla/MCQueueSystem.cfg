SPECIFICATION Spec
CONSTANTS
    p1 = p1
    p2 = p2
    waiter = waiter
    timedWaiter = timedWaiter
    Producers <- MCProducers
    Consumers <- MCConsumers
    Timed <- MCTimed
    MaxItems = 4
INVARIANTS
    NotAllAsleep
PROPERTIES
    EveryItemTaken
