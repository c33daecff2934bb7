SPECIFICATION Spec
CONSTANTS
  VCPUS = {0}
  BOOT_VCPU = 0
  SGIS = {}
  PPIS = {}
  SPIS = {32, 33}
  PlatIrqs = {}
  NumListRegs = 2
  MaxIrqQueueLen = 2
  NumSlotsSpi = 2
  LevelIrqs = {32}
  ReinjectIrqs = {33}
  GuestOps <- OpsLevel
INVARIANTS
  QueueMeansFull
  ShadowMirrorsHardware
PROPERTIES
  LevelNotForgotten
  DisabledNotDelivered
