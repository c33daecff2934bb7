SPECIFICATION Spec
CONSTANTS
  VCPUS = {0}
  BOOT_VCPU = 0
  SGIS = {}
  PPIS = {}
  SPIS = {32, 33, 34}
  PlatIrqs = {}
  NumListRegs = 1
  MaxIrqQueueLen = 4
  NumSlotsSpi = 3
  LevelIrqs = {32}
  ReinjectIrqs = {}
  GuestOps <- OpsLive
INVARIANTS
  PendingIsResident
