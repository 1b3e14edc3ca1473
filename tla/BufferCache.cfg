\* Three sectors over two slots: every miss of a full cache evicts, and a
\* sector can leave the cache dirty and come back.
CONSTANTS
    NumSectors = 3
    Data = {z, a}
    Zeros = z
    BUFFER_CACHE_SIZE = 2
SPECIFICATION Spec
INVARIANTS
    IInv
    OneCopy
PROPERTIES
    RefinesBlockStore
    CloseIsDurable
    CallReturns
