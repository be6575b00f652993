SPECIFICATION Spec
CONSTANTS
    Parts = {"tree", "reentrant", "keys", "text", "pointer", "drag", "size", "serials", "link", "screens"}
    None = None
    TreeWindows = {w1, w2, w3}
    ReentrantWindows = {w1, w2}
    Windows = {w1, w2}
    Closable = {w1}
    Blockable = {w2}
    Keys = {k1, k2}
    PointerKeys = {k1}
    DeadKeys = {k1}
    Buttons = {b1}
    KeysMaxId = 4
    TextMaxId = 3
    PointerMaxId = 2
    MaxOffers = 3
    Sizes = {2, 4}
    Inset = 1
    MaxConfigures = 3
    Rollover = 4
    MaxEvents = 4
    LinkWindows = {w1, w2}
    Displays = {d1}
    ScreenWindows = {w1}
    Screens = {d1, d2}
INVARIANTS
    NoDanglingWindow
    InputStaysInItsWindow
    PressIsAdmitted
    DragIsCurrent
    SettlesOnConfigured
    GrabCitesLatestPress
    PacedByItsScreen
