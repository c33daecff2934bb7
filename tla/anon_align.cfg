\* One anonymous region of two pages and a request that, like the BAR of a PCI
\* device, is aligned to its size.
SPECIFICATION Spec
CONSTANTS
    Limit = 16
    Page = 2
    MaxIo = 0
    MaxFaults = 0
    Sizes = {4, 8}
    Aligns = {8}
    Starts = {2}
    MaxRegions = 1
CHECK_DEADLOCK FALSE
INVARIANT AnonymousIsAnonymous
