\* One toplevel, two geometries.
SPECIFICATION FairSpec
CONSTANTS
    w1 = w1
    g1 = g1
    g2 = g2
    Windows = {w1}
    Toplevels = {w1}
    Geometries = {g1, g2}
    NoGeometry = NoGeometry
    NoWindow = NoWindow
INVARIANTS
    WakeOwned
    ParkedOwesNothing
    GeometryMatchesBuffer
PROPERTIES
    ClosedIsFinal
    DemandIsPresented
    ImplementsFrameDemand
