\* Writing until the disk is full.
CONSTANTS
    Names = {f, g}
    NumSectors = 13
    DIRECT_BLOCKS_COUNT = 1
    INDIRECT_BLOCKS_PER_SECTOR = 2
    Lengths = {1, 3, 5}
SPECIFICATION Spec
INVARIANTS
    SystemInodesIntact
