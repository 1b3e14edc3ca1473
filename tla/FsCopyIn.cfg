\* copy_in of a file that fits the disk, but not together with its overhead.
CONSTANTS
    Names = {f, g}
    NumSectors = 12
    DIRECT_BLOCKS_COUNT = 1
    INDIRECT_BLOCKS_PER_SECTOR = 2
    Lengths = {1, 3}
    BLOCK_SECTOR_SIZE = 4
    CopySizes = {16, 17}
SPECIFICATION ExtSpec
INVARIANTS
    CopyInFits
