\* Descriptors that adjoin in virtual memory, sizes 1, 3 and 4 over alignments 2 and 4.
SPECIFICATION DmaSpec
CONSTANTS
    Descs <- MCDescs
    DmaSizes = {1, 3, 4}
    DmaAligns = {1, 4}
    MinAlign = 2
    Morecore = TRUE
CHECK_DEADLOCK FALSE
INVARIANTS
    Ownership
    LookupFindsOwner
    
PROPERTY ReclaimFindsIdle
