SPECIFICATION Spec
CONSTANTS
    Views = {"root", "a", "b"}
    Root = "root"
    Inputs = {"a"}
    MaxUpdates = 2
    Nobody = Nobody
    Shapes <- ReadingSibling
INVARIANT CacheInvisible
