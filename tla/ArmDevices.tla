------------------------------ MODULE ArmDevices ------------------------------
(***************************************************************************)
(* The fault handlers of emulated ARM devices                              *)
(* (libsel4vmmplatsupport: arch/arm/devices, plat/exynos5/devices,         *)
(* device_utils.c).  A handler takes the vcpu and the device to the vcpu,  *)
(* the device and its memory_fault_result_t.  Every device is cut down to  *)
(* two words of registers, the bytes 0 to 7; the register a handler treats *)
(* in its own way is the first one.                                        *)
(***************************************************************************)
EXTENDS ArmFault

CONSTANTS GacMask,          \* the bytes of an access-controlled device the guest may write
          GacMaskSize,      \* the bytes the mask speaks of
          VUART_BUFLEN

Offsets == 0..7
DeviceFresh == [o \in Offsets |-> <<"dev", 0, o>>]

\* A 32-bit access of the VMM at regs + offset.
At(d, offset) == [i \in Lanes |-> d.regs[offset + i]]
Store(d, offset, w) ==
    [d EXCEPT !.regs = [o \in Offsets |-> IF o - offset \in Lanes THEN w[o - offset] ELSE @[o]]]

Result(v, d, res) == [v |-> v, d |-> d, res |-> res]
Handled(v, d) == Result(advance_fault(v), d, "HANDLED")
ReadFrom(v, d) == fault_set_data(v, At(d, v.msg.addr))
\* *reg = emulate_vcpu_fault(vcpu, *reg), for a vcpu that is Ready.
Emulate(v, d) == Store(d, v.msg.addr, fault_emulate(v, At(d, v.msg.addr)))
Emulated(v, d) == Handled(v, IF v.dead THEN d ELSE Emulate(v, d))

handle_vsysreg_fault(v, d) ==
    IF fault_is_read(v) THEN Handled(ReadFrom(v, d), d) ELSE Emulated(Ready(v), d)

\* These two also print the data, for which they load the mask and the data.
handle_listening_fault(v, d) ==
    IF fault_is_read(v) THEN Handled(Ready(ReadFrom(v, d)), d) ELSE Emulated(Ready(v), d)
handle_listening_ram_fault(v, d) ==
    IF fault_is_read(v) THEN Handled(ReadFrom(v, d), d) ELSE Emulated(Ready(v), d)

\* The registers of the VGIC distributor that only hold what was written.  Its
\* handlers find the register of a byte, and a write ends with ignore_fault.
DistRead(v, d) == Handled(fault_set_data(v, Masked(At(d, v.msg.addr - Lane(v)), MaskLanes(v))), d)
emulate_reg_write_access(v, d) ==
    LET base == v.msg.addr - Lane(v) IN Store(d, base, fault_emulate(v, At(d, base)))
DistWrite(v, d) == Result(ignore_fault(v), IF v.dead THEN d ELSE emulate_reg_write_access(v, d), "HANDLED")
handle_vgic_dist_fault(v, d) ==
    IF fault_is_read(v) THEN DistRead(fault_get_data_mask(v), d) ELSE DistWrite(Ready(v), d)

(***************************************************************************)
(* Generic access control: a write may change only what the mask allows.   *)
(***************************************************************************)
Allowed(offset) == {i \in Lanes : offset + i \in GacMask}
Denied(old, new, offset) == \E i \in Lanes \ Allowed(offset) : new[i] # old[i]
GacResult(old, new, offset, action) ==
    IF Denied(old, new, offset) /\ action \in {"REPORT_AND_MASK", "MASK_ONLY"}
    THEN Merge(old, new, Allowed(offset)) ELSE new
GacWrite(v, d) ==
    Store(d, v.msg.addr,
          GacResult(At(d, v.msg.addr), fault_emulate(v, At(d, v.msg.addr)), v.msg.addr, v.msg.dev.action))
GacWritten(v, d) == Handled(v, IF v.dead THEN d ELSE GacWrite(v, d))
handle_gac_fault(v, d) ==
    IF fault_is_read(v) THEN Handled(ReadFrom(v, d), d)
    ELSE IF v.msg.addr < GacMaskSize THEN GacWritten(Ready(assert(v, v.msg.addr % 4 = 0)), d)
    ELSE Handled(v, d)

(***************************************************************************)
(* Generic forwarding.  read_fn and write_fn belong to the user of the     *)
(* library: word registers at the given offset.                            *)
(***************************************************************************)
read_fn(d, offset) == At(d, offset)
write_fn(d, offset, w) == Store(d, offset, w)
Forwarded(v, d) ==
    Handled(v, IF v.dead \/ v.msg.dev.action = "no_fn" THEN d ELSE write_fn(d, v.msg.addr, v.fault.data))
handle_gf_fault(v, d) ==
    IF fault_is_read(v)
    THEN Handled(fault_set_data(v, IF v.msg.dev.action = "no_fn" THEN Zero ELSE read_fn(d, v.msg.addr)), d)
    ELSE Forwarded(IF v.msg.dev.action = "no_fn" THEN v ELSE fault_get_data(v), d)

(***************************************************************************)
(* The power controller.  Register 0 resets the machine or powers it down  *)
(* when the value written says so (msg.cmd); the callback may fail         *)
(* (msg.err).  Other registers are not written.                            *)
(***************************************************************************)
Callback(v, d) == IF v.msg.err THEN Result(v, d, "ERROR") ELSE Handled(v, d)
SoftwareReset(v, d) == IF v.msg.cmd THEN Callback(v, d) ELSE Handled(v, d)
PowerDown(v, d) == IF v.msg.cmd THEN Callback(v, d) ELSE Emulated(v, d)
handle_vpower_fault(v, d) ==
    IF fault_is_read(v) THEN Handled(ReadFrom(v, d), d)
    ELSE IF v.msg.addr \notin Lanes THEN Handled(v, d)
    ELSE IF v.msg.dev.action = "swrst" THEN SoftwareReset(fault_get_data(v), d)
    ELSE PowerDown(Ready(v), d)

(***************************************************************************)
(* The Exynos UART.  Register 0 is UTXH; register 4 is past its end.  The  *)
(* character may be a newline (msg.cmd).                                   *)
(***************************************************************************)
UTXH == 0
UART_SIZE == 4
flush_vconsole_device(d) == [d EXCEPT !.buf_pos = 0]
Buffered(d, newline) ==
    IF newline THEN flush_vconsole_device(d) ELSE [d EXCEPT !.buf_pos = @ + 1]
vuart_putchar(d, newline) ==
    Buffered(IF d.buf_pos = VUART_BUFLEN THEN flush_vconsole_device(d) ELSE d, newline)
UartStore(v, d) == Store(d, v.msg.addr, Merge(At(d, v.msg.addr), v.fault.data, MaskLanes(v)))
UartWritten(v, d) ==
    IF v.dead THEN Result(v, d, "HANDLED")
    ELSE IF v.msg.addr = UTXH
    THEN Handled(assert(v, d.buf_pos <= VUART_BUFLEN), vuart_putchar(UartStore(v, d), v.msg.cmd))
    ELSE Handled(v, UartStore(v, d))
UartAccess(v, d) ==
    IF v.msg.addr >= UART_SIZE THEN Result(fault_set_data(v, Zero), d, "IGNORE")
    ELSE IF fault_is_read(v) THEN Handled(ReadFrom(v, d), d)
    ELSE UartWritten(fault_get_data(v), d)
handle_vuart_fault(v, d) == UartAccess(fault_get_data_mask(v), d)

(***************************************************************************)
(* The SD host controller: words only, and the DMA address registers (here *)
(* register 4) are not written.  A 32-bit build has no doubleword access.  *)
(***************************************************************************)
SdhcWord(v) == assert(v, fault_get_width_size(v) = 4)
SdhcStored(v, d) == Handled(v, IF v.dead THEN d ELSE Store(d, v.msg.addr, v.fault.data))
handle_sdhc_fault(v, d) ==
    IF fault_is_read(v) THEN Handled(ReadFrom(SdhcWord(v), d), d)
    ELSE IF v.msg.addr >= 4 THEN Handled(v, d)
    ELSE SdhcStored(fault_get_data(SdhcWord(v)), d)

(***************************************************************************)
(* vm_memory_handle_fault: memory mapped on the first fault, a reservation *)
(* nothing should fault on, no reservation, or a device.                   *)
(***************************************************************************)
DeferredMapping(v, d) == Result(v, d, IF v.msg.err THEN "ERROR" ELSE "RESTART")
passthrough_device_fault(v, d) == Result(v, d, "ERROR")
vm_memory_handle_fault(v, d) ==
    CASE v.msg.dev.kind = "ram" -> DeferredMapping(v, d)
      [] v.msg.dev.kind = "passthrough" -> passthrough_device_fault(v, d)
      [] v.msg.dev.kind = "none" -> Result(v, d, "UNHANDLED")
      [] v.msg.dev.kind = "gac" -> handle_gac_fault(v, d)
      [] v.msg.dev.kind = "gf" -> handle_gf_fault(v, d)
      [] v.msg.dev.kind = "sysreg" -> handle_vsysreg_fault(v, d)
      [] v.msg.dev.kind = "vdist" -> handle_vgic_dist_fault(v, d)
      [] v.msg.dev.kind = "listening" -> handle_listening_fault(v, d)
      [] v.msg.dev.kind = "listening_ram" -> handle_listening_ram_fault(v, d)
      [] v.msg.dev.kind = "power" -> handle_vpower_fault(v, d)
      [] v.msg.dev.kind = "uart" -> handle_vuart_fault(v, d)
      [] v.msg.dev.kind = "sdhc" -> handle_sdhc_fault(v, d)
=============================================================================
