CONSTANTS
    None = None
    Segments <- Words
    Nodes <- TwoNodes
    Resources <- Affine
    Ticks <- OneTick
SPECIFICATION Spec
INVARIANT BoundToItsNode
CHECK_DEADLOCK FALSE
