\* Two windows without xdg geometry share the ping and the event loop.
SPECIFICATION Spec
CONSTANTS
    w1 = w1
    w2 = w2
    g1 = g1
    Windows = {w1, w2}
    Toplevels = {}
    Geometries = {g1}
    NoGeometry = NoGeometry
    NoWindow = NoWindow
SYMMETRY WindowSymmetry
PROPERTY RefinesFrameDemand
