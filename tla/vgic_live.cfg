SPECIFICATION FairSpec
CONSTANTS
  VCPUS = {0}
  BOOT_VCPU = 0
  SGIS = {}
  PPIS = {27}
  SPIS = {32, 33}
  PlatIrqs = {27}
  NumListRegs = 1
  MaxIrqQueueLen = 4
  NumSlotsSpi = 2
  LevelIrqs = {}
  ReinjectIrqs = {}
  GuestOps <- OpsLive
PROPERTIES
  QueuedIsLoaded
  InjectedIsAcknowledged
