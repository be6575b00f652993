\* Every timer is due when it is armed: time plays no part.
SPECIFICATION Spec
CONSTANTS
    Workers = {w1}
    Timer = timer
    Main = main
    Delays = {"now"}
    MaxRunnables = 2
PROPERTY ReturnsWithNoDueTimer
