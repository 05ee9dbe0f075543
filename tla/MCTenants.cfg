CONSTANTS
    None = None
    Segments <- Words
    Nodes <- OneNode
    Resources <- Namesakes
    Ticks <- OneTick
SPECIFICATION Spec
INVARIANTS OwnersInv BindsOwn
PROPERTIES HandsOff PreviewIsTrue
CHECK_DEADLOCK FALSE
