\* The eight free sectors hold a file of three sectors and one of one, or one
\* file that needs the doubly indirect block (16 bytes); 16 and 17 bytes reach
\* every branch of get_write_size but the first as the disk fills up.
CONSTANTS
    Names = {f, g}
    NumSectors = 12
    DIRECT_BLOCKS_COUNT = 1
    INDIRECT_BLOCKS_PER_SECTOR = 2
    Lengths = {1, 3}
    BLOCK_SECTOR_SIZE = 4
    CopySizes = {16, 17}
SPECIFICATION ExtSpec
CONSTRAINT Explored
VIEW View
SYMMETRY NameSymmetry
INVARIANTS
    TableInodesLive
    OpenInodeCurrent
    FilesStayApart
    DefragmentKeepsFiles
    DefragmentCompacts
    CopyInCreates
PROPERTIES
    RecoverUndoesRemove
