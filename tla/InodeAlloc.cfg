\* One direct block and two pointers per block: a file of 2 sectors needs the
\* indirect block, one of 4 the doubly indirect one.  The nine free sectors are
\* exactly what a file of 5 takes, so two files run out in every phase.
CONSTANTS
    Names = {f, g}
    NumSectors = 13
    DIRECT_BLOCKS_COUNT = 1
    INDIRECT_BLOCKS_PER_SECTOR = 2
    Lengths = {1, 3, 5}
SPECIFICATION Spec
CONSTRAINT MapInodeIntact
VIEW InUse
SYMMETRY NameSymmetry
INVARIANTS
    NoSharedSector
    OwnedIsMarked
    NothingLost
    SectorListsAgree
