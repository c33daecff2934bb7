\* Two pages, mapped at once or on the first fault, one IO space.
SPECIFICATION Spec
CONSTANTS
    Limit = 4
    Page = 2
    MaxIo = 1
    MaxFaults = 1
    Sizes = {1, 2, 4}
    Aligns = {2}
    Starts = {0, 2}
    MaxRegions = 3
CHECK_DEADLOCK FALSE
INVARIANTS
    ReservationsDisjoint
    FaultFindsReservation
    
    
    RamIsReserved
