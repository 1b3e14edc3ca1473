\* Four frames and a slot left over: any two plain scripts can start, three can
\* be one frame too many; clear_frame reaches the first variable.
CONSTANTS
    Script <- AllScripts
    Batches <- AllBatches
    Names = {v, w}
    NoName = none
    FRAME_STORE_SIZE = 13
    VAR_STORE_SIZE = 2
    NameRoom = 3
SPECIFICATION Spec
CHECK_DEADLOCK FALSE
INVARIANTS
    QueueIntegrity
    ScanFindsPage
    LRUMatchesFrames
    NeededPagesStay
    ExecutesScript
    FramesReturned
PROPERTIES
    VariablesBehindKept
    PromptReturns
