\* Sectors of three bytes; eight bytes are three sectors, the last one not full.
\* An access in front of the file ends a behaviour: no check for deadlock.
CONSTANTS
    Char = {"a", "b"}
    NUL = "0"
    MaxLength = 8
    BLOCK_SECTOR_SIZE = 3
    Texts <- SmallTexts
    Sizes = {0, 1, 4, 8}
    SeekOffsets <- SmallSeekOffsets
    MinPosition <- SmallMinPosition
SPECIFICATION Spec
CHECK_DEADLOCK FALSE
INVARIANTS
    WritesConcatenate
    SlackIsZero
    LastByteNull
    PositionValid
PROPERTIES
    RefinesByteFile
    CallReturns
