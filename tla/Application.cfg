SPECIFICATION Spec
CONSTANTS
    None = None
    Entities = {e1, e2}
    MaxSubs = 2
    MaxCalls = 4
    Created = {e1}
    OwnersCalls = 2
    NoContext = NoContext
    Contexts = {"workspace", "editor"}
    MaxBindings = 3
    NullKeys = {"a"}
    NullStrokes = 2
    NullNames = {"Alpha", "Beta"}
    NullMetas = {0, 1}
    SequenceKeys = {"a", "b"}
    SequenceStrokes = 3
    SequenceNames = {"Alpha"}
    SequenceMetas = {0}
    InputKeys = {"a", "b", "shift", "ctrl"}
    ModifierKeys = {"shift", "ctrl"}
    InputStrokes = 2
    InputKinds = {"Action", "NoAction"}
    InputContexts = {"workspace", "editor"}
    InputBindings = 2
    Owners = {"view"}
    MaxKeys = 3
    TappedKeys = {"a", "shift", "ctrl"}
    TappedBindings = 1
    TappedMax = 2
    a1 = a1
    a2 = a2
    b1 = b1
    c1 = c1
    Parts = {"entity", "owners", "nulls", "sequences", "ambiguous", "focusing", "modifiers", "sessions", "background", "timers"}
INVARIANTS
    ReleasedOnce
    ReachableIsPending
    StillCompletes
PROPERTIES
    NoneMissed
    SessionOrder
