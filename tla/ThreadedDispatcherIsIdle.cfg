SPECIFICATION Spec
CONSTANTS
    Workers = {w1}
    Timer = timer
    Main = main
    Delays = {}
    MaxRunnables = 2
PROPERTY IdleMeansQuiescent
