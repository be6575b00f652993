SPECIFICATION Spec
CONSTANTS
    Nobody = Nobody
    p1 = p1
    p2 = p2
    w1 = w1
    Parts = {"panels", "popovers", "top", "bottom", "dragged", "wide", "deep", "sprites", "replay", "touch", "intervals", "polls", "lossy", "samples"}
CHECK_DEADLOCK FALSE
INVARIANTS
    CacheInvisible
    OrderIsLeast
    LaterIsAbove
PROPERTIES
    TravelExact
    ScrollKept
    WorkEndsInInterval
