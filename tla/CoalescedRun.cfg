SPECIFICATION FairSpec
CONSTANTS
    Callers = {c1, c2}
    Loops = {l1, l2, l3}
    MaxRequests = 4
CHECK_DEADLOCK FALSE
INVARIANTS
    OneOwner
    SomebodyLooks
PROPERTIES
    ImplementsCoalescer
    EveryRequestIsServed
