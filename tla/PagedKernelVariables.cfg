\* As in PagedKernel.cfg, with plain scripts only.
CONSTANTS
    Script <- PlainScripts
    Batches <- PlainBatches
    Names = {v, w}
    NoName = none
    FRAME_STORE_SIZE = 13
    VAR_STORE_SIZE = 2
    NameRoom = 3
SPECIFICATION Spec
CHECK_DEADLOCK FALSE
INVARIANTS
    VariablesKept
