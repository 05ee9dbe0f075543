CONSTANTS
    None = None
    Segments <- Words
    Nodes <- OneNode
    Resources <- Joined
    Ticks <- OneTick
SPECIFICATION Spec
INVARIANT BindsOwn
CHECK_DEADLOCK FALSE
