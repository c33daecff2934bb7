SPECIFICATION FairSpec
CONSTANTS
  Byte = {0, 1}
  BufSize = 2
  PosLimit = 4
  Messages <- MCMessages
INVARIANTS
  RoomIsStable
  CopiesDisjoint
  NoLostAlert
PROPERTIES
  WaitEnds
  ImplementsFifo
