SPECIFICATION Spec
CONSTANTS
  VCPUS = {0, 1}
  BOOT_VCPU = 0
  SGIS = {0}
  PPIS = {27}
  SPIS = {32}
  PlatIrqs = {0, 27}
  NumListRegs = 2
  MaxIrqQueueLen = 2
  NumSlotsSpi = 1
  LevelIrqs = {}
  ReinjectIrqs = {}
  GuestOps <- OpsNoClear
INVARIANTS
  ResidentIsPending
  NeverTwice
  PendingIsResident
  MaskedPpiInFlight
  NoOverflow
