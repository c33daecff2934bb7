SPECIFICATION Spec
CONSTANTS
    VcpuIds <- MCVcpuIds
    BOOT_VCPU = 0
    Errata766422 = TRUE
    GacMask <- MCGacMask
    GacMaskSize = 4
    VUART_BUFLEN = 2
    MAX_ACTIVE_URB = 2
    Connections = {c1, c2}
    MaxEvent = 2
CHECK_DEADLOCK FALSE
  
PROPERTY CpuOnTruthful
