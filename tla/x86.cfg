\* An x86 guest with its 8259s, its local APIC and its control registers.
SPECIFICATION Spec
CONSTANTS
  PicWrites <- MCPicWrites
  PicReads <- MCPicReads
  PulsePins = {10}
  LevelPins = {3}
  ApicWrites <- MCApicWrites
  IpiWrites <- MCIpiWrites
  Cr0Values <- MCCr0Values
  Cr3Values <- MCCr3Values
  Cr4Values <- MCCr4Values
INVARIANTS
  PendingIsNoticed
  InServiceNested
  
  GuestCrView
  EdgeNotForgotten
\* The loop ends on an error.
CHECK_DEADLOCK FALSE
