CONSTANTS
    None = None
    Segments <- Words
    Nodes <- JoinedNodes
    Resources <- JoinedSets
    Ticks <- OneTick
SPECIFICATION Spec
PROPERTY SetsServed
CHECK_DEADLOCK FALSE
