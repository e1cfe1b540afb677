\* The main thread and two handlers.
SPECIFICATION BFairSpec
CONSTANTS
    m = m
    h1 = h1
    h2 = h2
    Thread <- MCThread
    Main = m
    NoThread = NoThread
    Calls <- MCCalls
INVARIANTS BTypeOK Balanced UsedIsOwned
PROPERTIES CallEnds ExitEnds
CHECK_DEADLOCK FALSE
