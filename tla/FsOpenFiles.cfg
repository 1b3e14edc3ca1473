\* find_file while a file is open.
CONSTANTS
    Names = {f, g}
    NumSectors = 12
    DIRECT_BLOCKS_COUNT = 1
    INDIRECT_BLOCKS_PER_SECTOR = 2
    Lengths = {1, 3}
    BLOCK_SECTOR_SIZE = 4
    CopySizes = {16, 17}
SPECIFICATION ExtSpec
INVARIANTS
    OpenFilesLive
