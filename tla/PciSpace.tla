------------------------------- MODULE PciSpace -------------------------------
(***************************************************************************)
(* How a guest finds and reaches the devices of libsel4vmmplatsupport: the *)
(* I/O port list (ioports.c), the virtual PCI bus (pci.c), the emulation   *)
(* of configuration space (pci_helper.c), its two ways in, the x86 ports   *)
(* (vmm_pci_helper.c) and the ARM windows (vpci.c), and the construction   *)
(* of the virtio devices (virtio_net.c, virtio_con.c, virtio_blk.c,        *)
(* virtio_vsock.c).                                                        *)
(*                                                                         *)
(* A register value is four bytes, 0 the lowest.  Configuration space is a *)
(* function on the offsets that hold something; the others read 0.  The    *)
(* guest makes naturally aligned accesses, one at a time.                  *)
(***************************************************************************)
EXTENDS Integers, SequencesExt, Bitwise

CONSTANTS Slots,       \* 32 device slots on bus 0
          PortMod,     \* 2^16: ports are uint16_t
          PortSize,    \* ioport_range.size of every device, a power of 2
          PortBits,    \* its log2
          AllocStart,  \* ioport_alloc_addr
          FixedPorts,  \* starts of the ranges a VMM asks for itself
          MaxDevices,  \* devices a VMM tries to create
          Layouts,     \* capabilities of a physical device, in list order
          PhysBars     \* its six BARs

(* "Address must be size aligned": vmm_pci_bar_t.                          *)
ASSUME PciAssumption ==
    /\ PortSize = 2^PortBits /\ PortBits \in 2..7 /\ PortMod % PortSize = 0
    /\ \A start \in FixedPorts \cup {AllocStart} : start % PortSize = 0 /\ start < PortMod

VARIABLES arch,        \* "x86", "arm" or "arm-ecam"
          phase,       \* "setup", "run", or "failed"
          ports,       \* the sorted list of I/O port entries
          alloc_addr,  \* its bump allocator
          bus0,        \* [slot -> entry], function 0
          hdr,         \* [slot -> header of a memory device]
          bar_writes,  \* [slot -> [bar -> what the guest wrote]]
          phys,        \* configuration space of the physical device
          layout,      \* and its capabilities
          conf,        \* conf_port_addr, four bytes
          irq_map,     \* the interrupt-map of the device tree
          made,        \* devices the VMM tried to create
          driver       \* the guest: slot being sized, measured size, capability walk

pci_vars == <<arch, phase, ports, alloc_addr, bus0, hdr, bar_writes, phys, layout, conf, irq_map,
              made, driver>>

STATUS == 6
HEADER_TYPE == 14
BASE_ADDRESS_0 == 16
BASE_ADDRESS_5 == 36
CAPABILITY_LIST == 52
INTERRUPT_LINE == 60
INTERRUPT_PIN == 61
CAPABILITY_SPACE == 64
CAP_ID_MSI == 5
CAP_ID_MSIX == 17
STATUS_CAP_LIST == 16

Zero == [i \in 0..3 |-> 0]
Ones == [i \in 0..3 |-> 255]
Bytes(n) == [i \in 0..3 |-> (n \div 256^i) % 256]
\* The three lower bytes: TLC's integers have 32 bits, and no address here needs the fourth.
Word(b) == b[0] + 256 * b[1] + 65536 * b[2]
At(space, k) == IF k \in DOMAIN space THEN space[k] ELSE 0
Load(space, offset, size) == [i \in 0..3 |-> IF i < size THEN At(space, offset + i) ELSE 0]
Store(space, offset, size, value) ==
    [k \in offset..offset + size - 1 |-> value[k - offset]] @@ space
\* A byte of a result is replaced, counted from where the read began.
Patch(value, i, byte) == [value EXCEPT ![i] = byte]
Covers(offset, size, k) == offset <= k /\ offset + size > k

-----------------------------------------------------------------------------
(***************************************************************************)
(* ioports.c.  A range [start, end]; entries sorted by start.              *)
(***************************************************************************)
\* The C library's: t is the middle of the n entries from b.
bsearch(list, port) ==
    LET search[b \in 1..Len(list) + 1, n \in 0..Len(list)] ==
            LET t == b + (n \div 2)
            IN  IF n = 0 THEN 0
                ELSE IF port < list[t].start THEN search[b, n \div 2]
                ELSE IF port > list[t].end THEN search[t + 1, n - (n \div 2) - 1]
                ELSE t
    IN  search[1, Len(list)]
search_port(port) == bsearch(ports, port)

\* The handler's cookie knows its iobase; an unsupported port is ignored.
NoDevice == [device |-> 0, offset |-> 0]
Handler(entry, port) == [device |-> entry.device, offset |-> port - entry.iobase]
emulate_io_handler(port) ==
    IF search_port(port) = 0 THEN NoDevice ELSE Handler(ports[search_port(port)], port)

add_io_port_range_Unsorted(list, entry) == Append(list, entry)
add_io_port_range(list, entry) == SortSeq(Append(list, entry), LAMBDA a, b : a.start < b.start)
Overlaps(list, entry) ==
    \E i \in DOMAIN list : list[i].end >= entry.start /\ list[i].start <= entry.end

\* int arithmetic: the test for overflow of the code is never true.
alloc_free_io_port_range == (alloc_addr + PortSize) % PortMod
\* Also what a failure does to a range that was not allocated.
free_io_port_range(addr) == (addr - PortSize) % PortMod

Entry(device, start) ==
    [device |-> device, iobase |-> start, start |-> start, end |-> (start + PortSize - 1) % PortMod]

-----------------------------------------------------------------------------
(***************************************************************************)
(* pci_helper.c: an entry is a stack of emulation layers over a header in  *)
(* memory or a physical device.                                            *)
(***************************************************************************)
vmm_pci_mem_device_read(h, offset, size) ==
    IF offset + size > CAPABILITY_SPACE THEN Zero ELSE Load(h, offset, size)
vmm_pci_mem_device_write(h, offset, size, value) ==
    IF offset + size > CAPABILITY_SPACE THEN h ELSE Store(h, offset, size, value)
vmm_pci_entry_ignore_write(h, offset, size, value) == h

pci_bar_emul_check_range(offset, size) == offset < BASE_ADDRESS_0 \/ offset + size > BASE_ADDRESS_5 + 4

\* The byte i of x & ~MASK(bits).
ClearLow(x, i, bits) ==
    IF bits >= 8 * (i + 1) THEN 0
    ELSE IF bits <= 8 * i THEN x
    ELSE x - (x % 2^(bits - 8 * i))
TypeBits(bar, i) == CASE i > 0 -> 0 [] bar.mem_type = "io" -> 1 [] bar.mem_type = "prefetch" -> 8 [] OTHER -> 0
pci_make_bar(bars, writes, n) ==
    IF n >= Len(bars) THEN Zero
    ELSE [i \in 0..3 |-> (Bytes(bars[n + 1].address)[i] | TypeBits(bars[n + 1], i))
                            | ClearLow(writes[n][i], i, bars[n + 1].size_bits)]
BarNo(offset) == (offset - BASE_ADDRESS_0) \div 4

pci_bar_emul_read(bars, writes, offset, size, below) ==
    IF pci_bar_emul_check_range(offset, size) THEN below
    ELSE LET raw == pci_make_bar(bars, writes, BarNo(offset))
         IN  [i \in 0..3 |-> IF i < size THEN raw[(offset % 4) + i] ELSE 0]
pci_bar_emul_write(writes, offset, size, value) ==
    [writes EXCEPT ![BarNo(offset)] =
        [i \in 0..3 |-> IF i \in offset % 4..(offset % 4) + size - 1 THEN value[i - (offset % 4)] ELSE @[i]]]

pci_irq_emul_read(irq, offset, size, below) ==
    IF Covers(offset, size, INTERRUPT_LINE) THEN Patch(below, INTERRUPT_LINE - offset, irq) ELSE below

\* The status bit, the head of the list and the links are replaced; the rest passes.
Link(caps, i) == IF i + 1 <= Len(caps) THEN caps[i + 1] ELSE 0
pci_cap_emul_read(caps, ignore, offset, size, below) ==
    CASE Covers(offset, size, STATUS) ->
            Patch(below, STATUS - offset,
                  (below[STATUS - offset] & (255 - STATUS_CAP_LIST))
                     | (IF caps # <<>> THEN STATUS_CAP_LIST ELSE 0))
      [] ~Covers(offset, size, STATUS) /\ Covers(offset, size, CAPABILITY_LIST) ->
            Patch(below, CAPABILITY_LIST - offset, Link(caps, 0))
      [] OTHER ->
            IF \E r \in ToSet(ignore) : offset <= r[1] /\ offset + size > r[2] THEN Zero
            ELSE LET hit == SelectInSeq(caps, LAMBDA c : Covers(offset, size, c + 1))
                 IN  IF hit = 0 THEN below ELSE Patch(below, caps[hit] + 1 - offset, Link(caps, hit))

\* Every entry is one of: the bridge, a virtio device, a physical device behind all layers.
NoEntry == [kind |-> "none", device |-> 0, writable |-> FALSE, bars |-> <<>>, irq |-> 0,
            caps |-> <<>>, ignore |-> <<>>]
CapLayer(e, offset, size, below) ==
    IF e.ignore = <<>> THEN below ELSE pci_cap_emul_read(e.caps, e.ignore, offset, size, below)
EntryRead(e, h, writes, offset, size) ==
    CASE e.kind = "bridge" -> vmm_pci_mem_device_read(h, offset, size)
      [] e.kind = "virtio" ->
            pci_bar_emul_read(e.bars, writes, offset, size, vmm_pci_mem_device_read(h, offset, size))
      [] e.kind = "phys" ->
            CapLayer(e, offset, size,
                pci_irq_emul_read(e.irq, offset, size,
                    pci_bar_emul_read(e.bars, writes, offset, size, Load(phys, offset, size))))

\* The physical device's list, followed through the layers below.
ByteOf(e, writes, offset) == EntryRead(e, <<>>, writes, offset, 1)[0]
CapList(e, writes) ==
    LET from[v \in 0..255] == IF v = 0 THEN <<>> ELSE <<v>> \o from[ByteOf(e, writes, v + 1)]
        head == ByteOf(e, writes, CAPABILITY_LIST)
    IN  IF (ByteOf(e, writes, STATUS) & STATUS_CAP_LIST) = 0 THEN <<>> ELSE from[head - (head % 4)]
IsMsi(id) == id \in {CAP_ID_MSI, CAP_ID_MSIX}
WithoutMsi(e, writes, list) ==
    [e EXCEPT !.caps = SelectSeq(list, LAMBDA v : ~IsMsi(ByteOf(e, writes, v))),
              !.ignore = LET msi == SelectSeq(list, LAMBDA v : IsMsi(ByteOf(e, writes, v)))
                         IN  [i \in DOMAIN msi |->
                                <<msi[i], msi[i] + (IF ByteOf(e, writes, msi[i]) = CAP_ID_MSI THEN 20 ELSE 8)>>]]
vmm_pci_no_msi_cap_emulation_OneKind(e, writes) ==
    [WithoutMsi(e, writes, CapList(e, writes)) EXCEPT
        !.caps = SelectSeq(CapList(e, writes), LAMBDA v : ByteOf(e, writes, v) # CAP_ID_MSI)]
vmm_pci_no_msi_cap_emulation(e, writes) == WithoutMsi(e, writes, CapList(e, writes))

-----------------------------------------------------------------------------
(***************************************************************************)
(* pci.c: the bus.                                                         *)
(***************************************************************************)
FreeSlots == {i \in 0..Slots - 1 : bus0[i].kind = "none"}
HasSlot == FreeSlots # {}
NewSlot == CHOOSE i \in FreeSlots : \A j \in FreeSlots : i <= j

vmm_pci_cam_address(c) ==
    [bus |-> (c \div 65536) % 256, dev |-> (c \div 2048) % 32, fun |-> (c \div 256) % 8, reg |-> c % 256]
vmm_pci_ecam_address(c) ==
    [bus |-> (c \div 1048576) % 256, dev |-> (c \div 32768) % 32, fun |-> (c \div 4096) % 8, reg |-> c % 4096]
make_addr_reg_from_config(c) ==
    IF arch = "arm-ecam" THEN vmm_pci_ecam_address(c) ELSE vmm_pci_cam_address(c)
vmm_pci_config_size == IF arch = "arm-ecam" THEN 4096 ELSE 256
find_device(addr) ==
    IF addr.bus # 0 \/ addr.dev >= Slots \/ addr.fun # 0 THEN NoEntry ELSE bus0[addr.dev]

\* What the guest computes to address a register.
Config(slot, fun, reg) ==
    IF arch = "arm-ecam" THEN slot * 32768 + fun * 4096 + reg ELSE slot * 2048 + fun * 256 + reg

-----------------------------------------------------------------------------
(***************************************************************************)
(* The ways in.  On x86 the register's address goes to conf_port_addr and  *)
(* the access to the data port; on ARM a fault carries both.               *)
(***************************************************************************)
AddressPort(value) == [value EXCEPT ![0] = @ - (@ % 4)]

\* The multi-function bit is not reported.
SingleFunction(reg, size, value) ==
    IF Covers(reg, size, HEADER_TYPE)
    THEN Patch(value, HEADER_TYPE - reg, value[HEADER_TYPE - reg] & 127) ELSE value
ReadAt(addr, reg, size) ==
    IF find_device(addr).kind = "none" THEN Ones
    ELSE EntryRead(find_device(addr), hdr[addr.dev], bar_writes[addr.dev], reg, size)

vmm_pci_io_port_in(cf, offset, size) ==
    LET addr == make_addr_reg_from_config(Word(cf))
    IN  SingleFunction(addr.reg + offset, size, ReadAt(addr, addr.reg + offset, size))
pci_cfg_read_fault(addr, size) ==
    IF addr.reg >= vmm_pci_config_size THEN Ones ELSE ReadAt(addr, addr.reg, size)
ConfigRead(slot, fun, reg, size) ==
    IF arch = "x86" THEN vmm_pci_io_port_in(AddressPort(Bytes(Config(slot, fun, reg))), reg % 4, size)
    ELSE pci_cfg_read_fault(make_addr_reg_from_config(Config(slot, fun, reg)), size)

\* The register a write reaches: the x86 handler adds the port's offset twice.
WriteReg(reg) == IF arch = "x86" THEN reg + (reg % 4) ELSE reg
AddressedBy(slot, reg) == conf' = IF arch = "x86" THEN AddressPort(Bytes(Config(slot, 0, reg))) ELSE conf

BarWrite(slot, reg, size, value) ==
    /\ bar_writes' = [bar_writes EXCEPT ![slot] = pci_bar_emul_write(@, reg, size, value)]
    /\ UNCHANGED <<phase, hdr, phys>>
HeaderWrite(slot, reg, size, value) ==
    /\ hdr' = [hdr EXCEPT ![slot] = IF bus0[slot].writable THEN vmm_pci_mem_device_write(@, reg, size, value)
                                    ELSE vmm_pci_entry_ignore_write(@, reg, size, value)]
    /\ UNCHANGED <<phase, bar_writes, phys>>
PhysWrite(reg, size, value) ==
    /\ phys' = Store(phys, reg, size, value)
    /\ UNCHANGED <<phase, bar_writes, hdr>>
IgnoredWrite == UNCHANGED <<phase, bar_writes, hdr, phys>>
\* A write that ends at the interrupt line fails an assertion.
UnsupportedWrite == phase' = "failed" /\ UNCHANGED <<bar_writes, hdr, phys>>

pci_cap_emul_write(e, reg, size) == \E r \in ToSet(e.ignore) : reg <= r[1] /\ reg + size > r[2]
EntryWrite(slot, reg, size, value) ==
    LET e == bus0[slot]
    IN  CASE e.kind = "virtio" ->
                IF pci_bar_emul_check_range(reg, size) THEN HeaderWrite(slot, reg, size, value)
                ELSE BarWrite(slot, reg, size, value)
          [] e.kind = "phys" ->
                IF pci_cap_emul_write(e, reg, size) \/ (reg = INTERRUPT_LINE /\ size = 1) THEN IgnoredWrite
                ELSE IF reg < INTERRUPT_LINE /\ reg + size >= INTERRUPT_LINE THEN UnsupportedWrite
                ELSE IF pci_bar_emul_check_range(reg, size) THEN PhysWrite(reg, size, value)
                ELSE BarWrite(slot, reg, size, value)
          [] OTHER -> IgnoredWrite
ConfigWrite(slot, reg, size, value) ==
    AddressedBy(slot, reg) /\ EntryWrite(slot, WriteReg(reg), size, value)

-----------------------------------------------------------------------------
(***************************************************************************)
(* The VMM builds the bus.                                                 *)
(***************************************************************************)
PhysSpace(caps) ==
    LET cell(i) == 64 + 16 * (i - 1)
    IN  (STATUS :> (IF caps = <<>> THEN 0 ELSE STATUS_CAP_LIST)) @@ (HEADER_TYPE :> 128)
          @@ (CAPABILITY_LIST :> (IF caps = <<>> THEN 0 ELSE 64)) @@ (INTERRUPT_LINE :> 9)
          @@ [k \in {cell(i) : i \in DOMAIN caps} |-> caps[((k - 64) \div 16) + 1]]
          @@ [k \in {cell(i) + 1 : i \in 1..Len(caps) - 1} |-> k + 15]

vmm_pci_init == [i \in 0..Slots - 1 |-> IF i = 0 THEN [NoEntry EXCEPT !.kind = "bridge"] ELSE NoEntry]

PciInit ==
    /\ arch \in {"x86", "arm", "arm-ecam"} /\ phase = "setup"
    /\ ports = <<>> /\ alloc_addr = AllocStart
    /\ bus0 = vmm_pci_init
    /\ hdr = [i \in 0..Slots - 1 |-> <<>>]
    /\ bar_writes = [i \in 0..Slots - 1 |-> [b \in 0..5 |-> Zero]]
    /\ layout \in Layouts /\ phys = PhysSpace(layout)
    /\ conf = Zero /\ irq_map = <<>> /\ made = 0
    /\ driver = [slot |-> 0, saved |-> Zero, size |-> 0, at |-> 0, seen |-> <<>>, done |-> FALSE]

(* Interrupt pin 1, line 32 + device; the pin and the line are the VMM's   *)
(* choice.  The network and the console let the guest write their header.  *)
Header(device, start, command) ==
    (4 :> command) @@ (12 :> 64) @@ (13 :> 64) @@ (INTERRUPT_PIN :> 1) @@ (INTERRUPT_LINE :> 32 + device)
      @@ [k \in BASE_ADDRESS_0..BASE_ADDRESS_0 + 3 |->
             Bytes(start)[k - BASE_ADDRESS_0] | (IF k = BASE_ADDRESS_0 THEN 1 ELSE 0)]
BarEntry(device, start, writable) ==
    [NoEntry EXCEPT !.kind = "virtio", !.device = device, !.writable = writable,
                    !.bars = <<[mem_type |-> "io", address |-> start, size_bits |-> PortBits]>>]
vmm_virtio_net_pci_bar(device, start) == <<BarEntry(device, start, TRUE), Header(device, start, 3)>>
vmm_virtio_console_pci_bar(device, start) == <<BarEntry(device, start, TRUE), Header(device, start, 3)>>
vmm_virtio_blk_pci_bar(device, start) == <<BarEntry(device, start, FALSE), Header(device, start, 1)>>
vmm_virtio_vsock_pci_bar(device, start) == <<BarEntry(device, start, FALSE), Header(device, start, 1)>>

\* A full bus is not reported: the device is made without an entry.
vmm_pci_add_entry(e, h) ==
    IF HasSlot
    THEN bus0' = [bus0 EXCEPT ![NewSlot] = e] /\ hdr' = [hdr EXCEPT ![NewSlot] = h]
    ELSE UNCHANGED <<bus0, hdr>>

(* A range is allocated or the caller's; calloc may fail, and a range that *)
(* overlaps is refused.  The bus entry is made before the device: if that  *)
(* cannot be initialised an assertion fails.                               *)
Registered(range, pci, init_ok) ==
    /\ ports' = add_io_port_range(ports, Entry(made + 1, range.start))
    /\ alloc_addr' = range.alloc_addr
    /\ vmm_pci_add_entry(pci[1], pci[2])
    /\ phase' = IF init_ok THEN phase ELSE "failed"
Refused(range) ==
    /\ alloc_addr' = free_io_port_range(range.alloc_addr)
    /\ UNCHANGED <<ports, bus0, hdr, phase>>
vmm_io_port_add_handler(range, calloc_ok, pci, init_ok) ==
    /\ phase = "setup" /\ made < MaxDevices
    /\ IF calloc_ok /\ ~Overlaps(ports, Entry(made + 1, range.start))
       THEN Registered(range, pci, init_ok) ELSE Refused(range)
    /\ made' = made + 1
    /\ UNCHANGED <<arch, bar_writes, phys, layout, conf, irq_map, driver>>

common_make_virtio_net(range, calloc_ok, init_ok) ==
    vmm_io_port_add_handler(range, calloc_ok, vmm_virtio_net_pci_bar(made + 1, range.start), init_ok)
common_make_virtio_con(range, calloc_ok, init_ok) ==
    vmm_io_port_add_handler(range, calloc_ok, vmm_virtio_console_pci_bar(made + 1, range.start), init_ok)
common_make_virtio_blk(range, calloc_ok, init_ok) ==
    vmm_io_port_add_handler(range, calloc_ok, vmm_virtio_blk_pci_bar(made + 1, range.start), init_ok)
common_make_virtio_vsock(range, calloc_ok, init_ok) ==
    vmm_io_port_add_handler(range, calloc_ok, vmm_virtio_vsock_pci_bar(made + 1, range.start), init_ok)

Ranges == {[start |-> alloc_addr, alloc_addr |-> alloc_free_io_port_range]}
             \cup {[start |-> start, alloc_addr |-> alloc_addr] : start \in FixedPorts}

(* The physical device's BARs, packed: a memory BAR gets a reservation,    *)
(* which may fail, of aligned guest memory; a port BAR keeps its address.  *)
vmm_pci_helper_map_bars ==
    LET used == SelectSeq(PhysBars, LAMBDA b : b.address # 0)
    IN  [i \in DOMAIN used |->
            [mem_type |-> used[i].mem_type, size_bits |-> used[i].size_bits,
             address |-> IF used[i].mem_type = "io" THEN used[i].address ELSE 65536 * i]]
AddPassthrough ==
    /\ phase = "setup" /\ made < MaxDevices
    /\ \A i \in DOMAIN bus0 : bus0[i].kind # "phys"
    /\ made' = made + 1
    /\ vmm_pci_add_entry(
          vmm_pci_no_msi_cap_emulation(
             [NoEntry EXCEPT !.kind = "phys", !.device = made + 1, !.irq = 32 + made + 1,
                             !.bars = vmm_pci_helper_map_bars], [b \in 0..5 |-> Zero]), <<>>)
    /\ UNCHANGED <<arch, phase, ports, alloc_addr, bar_writes, phys, layout, conf, irq_map, driver>>
AddPassthroughFails ==
    /\ phase = "setup" /\ made < MaxDevices /\ \E i \in DOMAIN PhysBars : PhysBars[i].mem_type # "io"
    /\ made' = made + 1
    /\ UNCHANGED <<arch, phase, ports, alloc_addr, bus0, hdr, bar_writes, phys, layout, conf, irq_map, driver>>

\* Devices 1, 2, ... up to the first gap.
fdt_generate_vpci_node ==
    [i \in 1..(Min(FreeSlots \cup {Slots}) - 1) |->
        [slot |-> i, pin |-> EntryRead(bus0[i], hdr[i], bar_writes[i], INTERRUPT_PIN, 1)[0],
         irq |-> EntryRead(bus0[i], hdr[i], bar_writes[i], INTERRUPT_LINE, 1)[0] - 32]]

\* On ARM two windows are reserved and the device tree is generated.
vm_install_vpci(reserved) ==
    /\ phase = "setup"
    /\ phase' = IF arch # "x86" /\ ~reserved THEN "failed" ELSE "run"
    /\ irq_map' = IF arch # "x86" /\ reserved THEN fdt_generate_vpci_node ELSE irq_map
    /\ UNCHANGED <<arch, ports, alloc_addr, bus0, hdr, bar_writes, phys, layout, conf, made, driver>>

-----------------------------------------------------------------------------
(***************************************************************************)
(* The guest: it sizes a BAR, writes other registers, and walks a list of  *)
(* capabilities.                                                           *)
(***************************************************************************)
Quiet == UNCHANGED <<arch, ports, alloc_addr, bus0, layout, irq_map, made>>

GuestSizes(slot) ==
    /\ phase = "run" /\ driver.slot = 0 /\ bus0[slot].kind = "virtio"
    /\ driver' = [driver EXCEPT !.slot = slot, !.size = 0, !.saved = ConfigRead(slot, 0, BASE_ADDRESS_0, 4)]
    /\ ConfigWrite(slot, BASE_ADDRESS_0, 4, Ones)
    /\ Quiet

Measure(bar) == 2^(CHOOSE k \in 2..7 : (bar[0] \div 2^k) % 2 = 1 /\ \A j \in 2..k - 1 : (bar[0] \div 2^j) % 2 = 0)
GuestRestores ==
    /\ phase = "run" /\ driver.slot # 0
    /\ driver' = [driver EXCEPT !.slot = 0, !.size = Measure(ConfigRead(driver.slot, 0, BASE_ADDRESS_0, 4))]
    /\ ConfigWrite(driver.slot, BASE_ADDRESS_0, 4, driver.saved)
    /\ Quiet

GuestWrites(slot, reg, size, value) ==
    /\ phase = "run" /\ driver.slot = 0 /\ bus0[slot].kind # "none"
    /\ ConfigWrite(slot, reg, size, value)
    /\ UNCHANGED driver /\ Quiet

GuestWalks(slot, size) ==
    /\ phase = "run" /\ bus0[slot].kind = "phys" /\ ~driver.done
    /\ IF driver.at = 0
       THEN LET status == ConfigRead(slot, 0, 4, 4)[2]
                head == ConfigRead(slot, 0, CAPABILITY_LIST, size)[0]
            IN  driver' = [driver EXCEPT !.at = head, !.done = (status & STATUS_CAP_LIST) = 0 \/ head = 0]
       ELSE LET cap == ConfigRead(slot, 0, driver.at, size)
                next == IF size = 1 THEN ConfigRead(slot, 0, driver.at + 1, 1)[0] ELSE cap[1]
            IN  driver' = [driver EXCEPT !.at = next, !.seen = Append(@, cap[0]), !.done = next = 0]
    /\ AddressedBy(slot, IF driver.at = 0 THEN CAPABILITY_LIST ELSE driver.at)
    /\ UNCHANGED <<phase, hdr, bar_writes, phys>> /\ Quiet

\* Registers a driver writes, with their sizes: latency timer, interrupt line, BAR 0, reserved.
Registers(slot) ==
    CASE bus0[slot].kind = "virtio" -> {<<13, 1>>, <<INTERRUPT_LINE, 1>>}
      [] bus0[slot].kind = "phys" -> {<<13, 1>>, <<INTERRUPT_LINE, 1>>, <<BASE_ADDRESS_0, 4>>, <<56, 4>>}
      [] OTHER -> {<<INTERRUPT_LINE, 1>>}

PciNext ==
    \/ \E range \in Ranges, calloc_ok, init_ok \in BOOLEAN :
          \/ common_make_virtio_net(range, calloc_ok, init_ok)
          \/ common_make_virtio_con(range, calloc_ok, init_ok)
          \/ common_make_virtio_blk(range, calloc_ok, init_ok)
          \/ common_make_virtio_vsock(range, calloc_ok, init_ok)
    \/ AddPassthrough \/ AddPassthroughFails
    \/ \E reserved \in BOOLEAN : vm_install_vpci(reserved)
    \/ \E slot \in 1..Slots - 1 :
          \/ GuestSizes(slot)
          \/ \E size \in {1, 2, 4} : GuestWalks(slot, size)
    \/ \E slot \in 0..Slots - 1 : \E w \in Registers(slot) : GuestWrites(slot, w[1], w[2], Ones)
    \/ GuestRestores

-----------------------------------------------------------------------------
(* Every virtio device on the bus is where its BAR says: the ports the     *)
(* guest computes from BAR 0 are routed to that device, at the right       *)
(* offset, whatever ranges were allocated, asked for or refused before,    *)
(* and after the guest sized the BAR and wrote the address back; the size  *)
(* it measures is the range's; and on ARM its slot is in the interrupt map *)
(* with its own line (ioports.c, pci_make_bar, fdt_generate_vpci_node).    *)
DeviceReachable ==
    /\ driver.size \in {0, PortSize}
    /\ \A slot \in 1..Slots - 1 :
         bus0[slot].kind = "virtio" /\ driver.slot # slot =>
            /\ LET bar == ConfigRead(slot, 0, BASE_ADDRESS_0, 4)
               IN  /\ bar[0] % 4 = 1
                   /\ \A i \in 0..PortSize - 1 :
                        emulate_io_handler(Word(bar) - 1 + i) = [device |-> bus0[slot].device, offset |-> i]
            /\ phase = "run" /\ arch # "x86" =>
                   slot <= Len(irq_map) /\ irq_map[slot] = [slot |-> slot, pin |-> 1, irq |-> bus0[slot].device]

(* A guest that walks the capability list of a physical device, with       *)
(* accesses of any size, meets its capabilities in order except MSI and    *)
(* MSI-X, and the walk ends (vmm_pci_no_msi_cap_emulation, pci_cap_emul_   *)
(* read).                                                                  *)
MsiHidden ==
    LET visible == SelectSeq(layout, LAMBDA id : ~IsMsi(id))
    IN  IsPrefix(driver.seen, visible) /\ (driver.done => driver.seen = visible)
=============================================================================
