SPECIFICATION FairSpec
CONSTANTS
  VCPUS = {0}
  BOOT_VCPU = 0
  SGIS = {}
  PPIS = {}
  SPIS = {32}
  PlatIrqs = {}
  NumListRegs = 1
  MaxIrqQueueLen = 2
  NumSlotsSpi = 1
  LevelIrqs = {}
  ReinjectIrqs = {}
  GuestOps <- OpsWFI
PROPERTIES
  InjectedIsAcknowledged
