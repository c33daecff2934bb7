SPECIFICATION Spec
CONSTANTS
  QSize = 4
  IdxMod = 8
  Hdr = 1
  RxDesc <- MCRx
  TxDesc <- MCTx
  BlkDesc <- MCBlk
  Packets = {1, 2}
  Heap = 2
  MaxPorts = 2
  Uses <- MCUses
  Slots = 3
  PortMod = 32
  PortSize = 4
  PortBits = 2
  AllocStart = 8
  FixedPorts = {4, 12}
  MaxDevices = 3
  Layouts <- MCLayouts
  PhysBars <- MCPhysBars
INVARIANTS
  Conserved
  UsedIsAnnounced
  DeferredIsRetried
  ConsoleHandshake
  RxStaysInChain
  DeviceReachable
  MsiHidden
CHECK_DEADLOCK FALSE
