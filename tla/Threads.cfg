SPECIFICATION Spec
CONSTANTS
    Parts = {"linux", "dedicated", "clipboard", "handover", "read", "ring", "readers", "trace", "dialogs", "flush"}
    None = None
    Workers = {w1, w2}
    Timer = timer
    Main = main
    MaxRunnables = 4
    MaxPolls = 2
    Requesters = {"manager", "peer"}
    ManagerTargets = {"UTF8_MIME_0"}
    MaxWrites = 2
    HandoverTargets = {"UTF8_STRING"}
    HandoverWrites = 3
    MaxLosses = 1
    MaxRequests = 1
    Large = {"image/png", "UTF8_STRING"}
    Chunks = 3
    Capacity = 2
    PendingCapacity = 1
    Collectors = {c1}
    MaxEntries = 4
    ReadersCollectors = {c1, c2}
    ReadersEntries = 3
    TracedThreads = {t1}
    Users = {u1, u2}
    TraceCapacity = 2
    MaxEvents = 3
    MaxPeriods = 2
    Windows = {w1, w2}
    Entities = {e1}
    MaxSubs = 2
    MaxCalls = 2
INVARIANTS
    HandoffIsSound
    ClipboardIsWhole
    CopiesItsEntry
    CollectedOnce
PROPERTIES
    EverythingRuns
    CallEnds
