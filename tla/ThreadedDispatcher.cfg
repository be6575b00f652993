\* Two workers and three runnables, armed timers due at once or later.
SPECIFICATION FairSpec
CONSTANTS
    Workers = {w1, w2}
    Timer = timer
    Main = main
    Delays = {"now", "later"}
    MaxRunnables = 3
INVARIANTS
    InflightCounts
    NoLostNotify
PROPERTIES
    ReturnsQuiescent
    RunUntilIdleReturns
    DueTimerFires
