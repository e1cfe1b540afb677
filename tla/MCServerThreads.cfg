\* Two connections, everything may fail; the scheduler is fair.
SPECIFICATION HFairSpec
CONSTANTS
    c1 = c1
    c2 = c2
    Main = Main
    Listen = 3
    Client <- MCTwo
    Faults <- MCAll
INVARIANTS TypeOK CountIsExact OneLateAccept NotLeftBlocked
PROPERTIES StopEndsServer QueuedClientIsTaken
CHECK_DEADLOCK FALSE
