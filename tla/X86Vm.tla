-------------------------------- MODULE X86Vm --------------------------------
(***************************************************************************)
(* A running x86 guest: the exit loop vm_run_arch                          *)
(* (libsel4vm/src/arch/x86/vm.c) with its exit handlers, the guest and the *)
(* devices.  Every state is one at the head of the loop, just before       *)
(* seL4_VMEnter or seL4_Wait.  A step is an instruction of the guest that  *)
(* the hardware handles, or one whole turn of the loop: the event that     *)
(* ended VMEnter or Wait, the handler, the check for an external           *)
(* interrupt, vm_resume.                                                   *)
(*                                                                         *)
(* focus and bits64 are chosen at the start and kept: what the guest       *)
(* drives in this behaviour (its 8259s with edge-triggered pins only, or   *)
(* with level-triggered ones, the priorities of its local APIC, the        *)
(* destinations of IPIs, its control registers, other exits), and the      *)
(* build (CONFIG_X86_64_VTX_64BIT_GUESTS, which makes a difference to the  *)
(* control registers only).                                                *)
(* wrote records the values the guest last gave its control registers.     *)
(***************************************************************************)
EXTENDS Lapic

CONSTANTS PicWrites,    \* {<<port, value>>}: what the guest writes to the 8259s
          PicReads,     \* the 8259 ports it reads
          PulsePins,    \* pins of devices that call vm_inject_irq
          LevelPins,    \* pins of devices that call vm_set_irq_level
          ApicWrites,   \* {<<register, value>>}: what it writes to the local APIC
          IpiWrites,    \* the same, when it is about destinations and resets
          Cr0Values, Cr3Values, Cr4Values

\* The offset is in the local APIC's page; what the task priority, LVT0 and the interrupt
\* command register may be given.
IsApicWrite(reg, val) ==
    /\ reg \in Nat /\ reg < 4096
    /\ reg = 128 => val \in 0..255
    /\ reg = 848 => DOMAIN val = {"masked", "mode"}
    /\ reg = 768 /\ val.mode \in {"fixed", "lowest"} => val.vector \in 16..255

\* Pin 2 is the cascade; a pin is pulsed or driven, never both.
ASSUME PinAssumption == PulsePins \subseteq 0..15 \ {2} /\ LevelPins \subseteq 0..15 \ PulsePins

\* The guest writes bytes to the 8259s, and asks for no vector below 16: they are reserved.
ASSUME WriteAssumption ==
    /\ \A w \in PicWrites : w[1] \in PicPorts \union ElcrPorts /\ w[2] \in Int
    /\ \A w \in ApicWrites \union IpiWrites : IsApicWrite(w[1], w[2])

VARIABLES pic, apic, hw, gs, run, failed, wrote, bits64, focus

vars == <<pic, apic, hw, gs, run, failed, wrote, bits64, focus>>

Machine == [pic |-> pic, apic |-> apic, hw |-> hw, gs |-> gs, run |-> run, failed |-> failed]

Become(v) ==
    /\ pic' = v.pic /\ apic' = v.apic /\ hw' = v.hw /\ gs' = v.gs
    /\ run' = v.run /\ failed' = v.failed
    /\ UNCHANGED <<bits64, focus>>

(***************************************************************************)
(* Creation: vm_create_vcpu_arch with the masks of boot.c, the execution   *)
(* controls of vmcs.c, and the start of vm_run_arch, which writes the      *)
(* initial state back.                                                     *)
(***************************************************************************)
VM_VMCS_CR0_MASK == {"PG", "PE"}
VM_VMCS_CR4_MASK(b) == IF b THEN {"VMXE"} ELSE {"PSE", "PAE", "VMXE"}
VM_VMCS_CR4_VALUE(b) == IF b THEN {"PAE"} ELSE {"PSE", "VMXE"}

\* A 32-bit guest starts without paging of its own, so the VMM intercepts CR3.
vm_vmcs_init_guest(v, b) ==
    [v EXCEPT !.hw["rflags"] = FALSE, !.gs.cr3_exiting = ~b, !.gs.window = FALSE, !.gs.entry = 0]

vm_create_vcpu_arch(b) ==
    LET v == [pic |-> i8259_init_state, apic |-> vm_create_lapic, run |-> "running", failed |-> {},
              hw |-> Zero,
              gs |-> [machine |-> vm_guest_state_initialise,
                      cr |-> [cr0_mask |-> VM_VMCS_CR0_MASK, cr0_host_bits |-> VM_VMCS_CR0_MASK,
                              cr0_shadow |-> IF b THEN VM_VMCS_CR0_MASK ELSE {},
                              cr4_mask |-> VM_VMCS_CR4_MASK(b),
                              cr4_host_bits |-> VM_VMCS_CR4_VALUE(b),
                              cr4_shadow |-> {}, cr3_guest |-> 0],
                      entry |-> 0, window |-> FALSE, cr3_exiting |-> FALSE,
                      halt |-> FALSE, in_exit |-> FALSE]]
    IN  vm_vmcs_init_guest(
          Set(Set(Set(v, "cr0", VM_VMCS_CR0_MASK), "cr3", 0), "cr4", VM_VMCS_CR4_VALUE(b)), b)

Started(v) ==
    vm_guest_state_invalidate_all(vm_sync_guest_context(vm_sync_guest_vmcs_state(v)))

Init ==
    /\ focus \in {"pic", "level", "apic", "ipi", "cr", "other"}
    /\ bits64 \in BOOLEAN
    /\ focus # "cr" => ~bits64
    /\ LET v == Started(vm_create_vcpu_arch(bits64))
       IN  /\ pic = v.pic /\ apic = v.apic /\ hw = v.hw /\ gs = v.gs
           /\ run = v.run /\ failed = v.failed
           /\ wrote = [cr0 |-> GuestCr0(v), cr3 |-> GuestCr3(v), cr4 |-> GuestCr4(v)]

(***************************************************************************)
(* The loop                                                                *)
(***************************************************************************)
\* The loop enters the guest; otherwise it waits for a notification.
Entered == run = "running" /\ ~gs.halt /\ ~gs.in_exit

vm_update_guest_state_from_fault(v) ==
    [v EXCEPT !.gs.machine = [f \in Fields |->
        IF f \in {"rflags", "guest_interruptibility", "cr3", "context"}
        THEN Valid(v.hw[f])
        ELSE v.gs.machine[f]]]

\* Mutant: the registers are not written back before the guest resumes.
vm_resume_NoContext(v) ==
    IF v.gs.in_exit /\ ~v.gs.halt
    THEN [vm_guest_state_invalidate_all(vm_sync_guest_vmcs_state(v)) EXCEPT !.gs.in_exit = FALSE]
    ELSE vm_sync_guest_vmcs_state(v)

Resumed(v) == [vm_guest_state_invalidate_all(vm_sync_guest_context(v)) EXCEPT !.gs.in_exit = FALSE]
vm_resume(v) ==
    IF v.gs.in_exit /\ ~v.gs.halt
    THEN Resumed(vm_sync_guest_vmcs_state(v))
    ELSE vm_sync_guest_vmcs_state(v)

\* VMEnter has returned a fault, and the handler is about to be called.
Exited == vm_update_guest_state_from_fault(
            [vm_guest_state_invalidate_all(Machine) EXCEPT !.gs.in_exit = TRUE])

(* The rest of the turn, from the handler's result: 1 handled, 0 not       *)
(* handled (the loop ends), -1 error (the vcpu goes offline).              *)
Continue(v, ret) ==
    IF v.run = "aborted" THEN v
    ELSE IF ret = -1 THEN [v EXCEPT !.run = "error"]
    ELSE IF ret = 0 THEN [vm_resume(v) EXCEPT !.run = "stopped"]
    ELSE vm_resume(v)
AfterHandler(r) == Continue(vm_check_external_interrupt(r.v), r.ret)

HandledAs(v, ret) == [v |-> v, ret |-> ret]
Turn(r) == Become(AfterHandler(r))

(***************************************************************************)
(* The guest, between exits.  With an event to inject it is delivered      *)
(* first; with the window exit requested and interrupts enabled the exit   *)
(* comes first.                                                            *)
(***************************************************************************)
\* The guest enables interrupts only once its 8259s have their vectors.
Vectored == \A n \in 0..1 : pic.pics[n].irq_base >= 16
Programmed == Vectored /\ \A n \in 0..1 : pic.pics[n].init_state = 0
Booted == focus \in {"pic", "level"} \/ Programmed

WindowOpen == hw["rflags"] /\ ~hw["guest_interruptibility"]
Executes == Entered /\ gs.entry = 0 /\ ~(gs.window /\ WindowOpen)
\* The guest, when its focus is on f, is about to execute an instruction that exits.
In(f) == focus \in f /\ Programmed /\ Executes

\* The interrupt or exception is taken through a gate that clears the interrupt flag.
DeliverEvent ==
    /\ Entered /\ gs.entry # 0
    /\ gs' = [gs EXCEPT !.entry = 0]
    /\ hw' = [hw EXCEPT !["rflags"] = FALSE, !["guest_interruptibility"] = FALSE]
    /\ UNCHANGED <<pic, apic, run, failed, wrote, bits64, focus>>

SetInterruptFlag(on, shadow) ==
    /\ Executes /\ Booted
    /\ on => Vectored
    /\ hw' = [hw EXCEPT !["rflags"] = on, !["guest_interruptibility"] = shadow]
    /\ UNCHANGED <<pic, apic, gs, run, failed, wrote, bits64, focus>>

Sti == ~hw["rflags"] /\ SetInterruptFlag(TRUE, TRUE)
Cli == hw["rflags"] /\ SetInterruptFlag(FALSE, FALSE)
Iret == ~hw["rflags"] /\ SetInterruptFlag(TRUE, FALSE)
OtherInstruction == hw["guest_interruptibility"] /\ SetInterruptFlag(hw["rflags"], FALSE)

(***************************************************************************)
(* Notifications: a device's callback changes its line, or fails, or has   *)
(* nothing to say.  Halted, the loop has been waiting for one.             *)
(***************************************************************************)
AfterCallback(v, err) ==
    IF err THEN [v EXCEPT !.run = "error"]
    ELSE vm_resume(IF i8259_has_interrupt(v.pic) THEN vm_check_external_interrupt(v) ELSE v)

Notified(newpic, err) ==
    /\ run = "running" /\ Booted
    /\ Become(AfterCallback(
         [(IF Entered THEN vm_guest_state_invalidate_all(Machine) ELSE Machine)
            EXCEPT !.pic = newpic], err))
    /\ UNCHANGED wrote

DevicePulse(irq) == focus = "pic" /\ Notified(vm_inject_irq(pic, irq), FALSE)
DeviceLevel(irq, level) == focus # "ipi" /\ Notified(vm_set_irq_level(pic, irq, level), FALSE)
CallbackFails == focus = "other" /\ Notified(pic, TRUE)

(***************************************************************************)
(* Exits on interrupts and halts                                           *)
(***************************************************************************)
PendingInterruptExit ==
    /\ Entered /\ gs.entry = 0 /\ gs.window /\ WindowOpen
    /\ Turn(HandledAs(vm_pending_interrupt_handler(Exited), 1))
    /\ UNCHANGED wrote

\* Mutant: the guest halts without a look at what is pending.
vm_hlt_handler_NoCheck(v) == [Read(v, "rflags") EXCEPT !.gs.halt = TRUE]

vm_hlt_handler(v) == [Read(v, "rflags") EXCEPT !.gs.halt = @ \/ vm_apic_has_interrupt(v) = -1]

HltExit ==
    /\ Executes /\ Booted
    /\ Turn(HandledAs(vm_hlt_handler(Exited), 1))
    /\ UNCHANGED wrote

(***************************************************************************)
(* IO instructions.  A handler takes single-byte accesses to the 8259's    *)
(* ports; other ports belong to another handler, to the unhandled-port     *)
(* callback or to nobody: the value read goes to the guest's registers.    *)
(***************************************************************************)
Registers(v) == Set(Read(v, "context"), "context", 0)

vm_io_instruction_handler(v, newpic, is_in, res) ==
    LET called == [(IF is_in THEN v ELSE Read(v, "context")) EXCEPT !.pic = newpic]
    IN  HandledAs(IF is_in THEN Registers(called) ELSE called, IF res = "error" THEN -1 ELSE 1)

(* The guest gives the 8259s vectors outside the exceptions' range.  When  *)
(* the focus is elsewhere it programs them first, one after the other, and *)
(* then only ends interrupts.                                              *)
BootWrite ==
    LET n == Min({k \in 0..1 : pic.pics[k].irq_base = 0 \/ pic.pics[k].init_state # 0})
    IN  IF pic.pics[n].init_state = 0 THEN <<32 + 128 * n, 16 + n>> ELSE <<33 + 128 * n, 32>>

PicOut(port, val) ==
    /\ Executes
    /\ focus = "pic" => port \in PicPorts
    /\ focus \notin {"pic", "level"} => <<port, val>> = IF Programmed THEN <<32, 32>> ELSE BootWrite
    /\ port \in PicPorts /\ port % 2 = 1 /\ pic.pics[port \div 128].init_state = 1 => val >= 16
    /\ Turn(vm_io_instruction_handler(Exited, i8259_port_out(pic, port, val), FALSE, "handled"))
    /\ UNCHANGED wrote

PicIn(port) ==
    /\ focus \in {"pic", "level"} /\ Executes
    /\ Turn(vm_io_instruction_handler(Exited, i8259_port_in(pic, port), TRUE, "handled"))
    /\ UNCHANGED wrote

\* A wider access to the 8259's ports, and a string or repeated instruction, are errors.
OtherPort(is_in, res) ==
    /\ In({"other"})
    /\ Turn(vm_io_instruction_handler(Exited, pic, is_in, res))
    /\ UNCHANGED wrote

StringIo ==
    /\ In({"other"})
    /\ Turn(HandledAs(Exited, -1))
    /\ UNCHANGED wrote

(***************************************************************************)
(* EPT violations: the local APIC's page, and everything else by the       *)
(* result of the memory fault handlers.                                    *)
(***************************************************************************)
ApicWrite(reg, val) ==
    /\ In({"apic", "ipi"})
    /\ Turn(HandledAs(vm_apic_mmio_write(Read(Exited, "context"), (0 - reg) % 4096, val), 1))
    /\ UNCHANGED wrote

\* Every read returns the uninitialised data of apic_fault_callback.
ApicRead ==
    /\ In({"apic"})
    /\ Turn(HandledAs(Registers(Exited), 1))
    /\ UNCHANGED wrote

(* result: what vm_memory_handle_fault returned; unhandled: the result of  *)
(* the unhandled-fault handler, "none" when none is registered.            *)
vm_ept_violation_handler(v, is_fetch, result, unhandled) ==
    CASE is_fetch -> HandledAs(v, -1)
      [] ~is_fetch /\ result = "handled" -> HandledAs(Registers(v), 1)
      [] ~is_fetch /\ result = "ignore" -> HandledAs(v, 1)
      [] ~is_fetch /\ result = "unhandled" /\ unhandled \in {"handled", "ignore"} -> HandledAs(v, 0)
      [] OTHER -> HandledAs(v, -1)

EptExit(is_fetch, result, unhandled) ==
    /\ In({"other"})
    /\ Turn(vm_ept_violation_handler(Exited, is_fetch, result, unhandled))
    /\ UNCHANGED wrote

(***************************************************************************)
(* MSRs, CPUID, VMCALL and the preemption timer                            *)
(***************************************************************************)
\* An unsupported register makes a general-protection fault.
vm_rdmsr_handler(v, msr) ==
    IF msr = "unsupported" THEN vm_inject_exception(Read(v, "context")) ELSE Registers(v)

vm_wrmsr_handler(v, msr, enable) ==
    LET r == Read(v, "context")
    IN  CASE msr = "unsupported" -> vm_inject_exception(r)
          [] msr = "apicbase" -> vm_lapic_set_base_msr(r, enable)
          [] OTHER -> r

MsrReadExit(msr) ==
    /\ In({"ipi", "other"})
    /\ Turn(HandledAs(vm_rdmsr_handler(Exited, msr), 1))
    /\ UNCHANGED wrote

MsrWriteExit(msr, enable) ==
    /\ In({"ipi", "other"})
    /\ Turn(HandledAs(vm_wrmsr_handler(Exited, msr, enable), 1))
    /\ UNCHANGED wrote

\* A leaf is passed through, masked or zeroed; one that is not listed is an error.
vm_cpuid_virt(leaf) == IF leaf = "unlisted" THEN -1 ELSE 0

vm_cpuid_handler(v, leaf) ==
    IF vm_cpuid_virt(leaf) = 0 THEN HandledAs(Registers(v), 1) ELSE HandledAs(Read(v, "context"), -1)

CpuidExit(leaf) ==
    /\ In({"other"})
    /\ Turn(vm_cpuid_handler(Exited, leaf))
    /\ UNCHANGED wrote

\* vm_vmcall_handler: an unknown token is skipped, a registered handler may fail.
VmcallExit(res) ==
    /\ In({"other"})
    /\ Turn(HandledAs(Exited, IF res = "failed" THEN -1 ELSE 1))
    /\ UNCHANGED wrote

\* vm_vmx_timer_handler, with or without CONFIG_LIB_VM_VMX_TIMER_DEBUG; and an
\* exit reason without a handler.
OtherExit(rearmed) ==
    /\ In({"other"})
    /\ Turn(HandledAs(Exited, IF rearmed THEN 1 ELSE -1))
    /\ UNCHANGED wrote

(***************************************************************************)
(* Control registers.  A write of CR0 or CR4 exits when a bit the VMM owns *)
(* would differ from the read shadow; otherwise the hardware changes the   *)
(* bits the guest owns.  CR3 exits as long as cr3_exiting is set.          *)
(***************************************************************************)
CrTurn(r, newwrote) ==
    /\ Turn(HandledAs(r.v, IF r.ret = 0 THEN 1 ELSE -1))
    /\ wrote' = IF r.ret = 0 THEN newwrote ELSE wrote

CrDirect(f, value) ==
    /\ hw' = [hw EXCEPT ![f] = value]
    /\ wrote' = [wrote EXCEPT ![f] = value]
    /\ UNCHANGED <<pic, apic, gs, run, failed, bits64, focus>>

Owned(value, mask, shadow) == value \intersect mask # shadow \intersect mask

MovToCr0(value, werr) ==
    /\ In({"cr"})
    /\ IF Owned(value, gs.cr.cr0_mask, gs.cr.cr0_shadow)
       THEN CrTurn(vm_cr_set_cr0(Exited, value, werr), [wrote EXCEPT !.cr0 = value])
       ELSE /\ RESERVED \notin value /\ werr = "none"
            /\ hw' = [hw EXCEPT !["cr0"] = (@ \intersect gs.cr.cr0_mask)
                                           \union (value \ gs.cr.cr0_mask)]
            /\ wrote' = [wrote EXCEPT !.cr0 = value]
            /\ UNCHANGED <<pic, apic, gs, run, failed, bits64, focus>>

MovToCr4(value, werr) ==
    /\ In({"cr"})
    /\ IF Owned(value, gs.cr.cr4_mask, gs.cr.cr4_shadow)
       THEN CrTurn(vm_cr_set_cr4(Exited, value, werr), [wrote EXCEPT !.cr4 = value])
       ELSE /\ RESERVED \notin value /\ werr = "none"
            /\ hw' = [hw EXCEPT !["cr4"] = (@ \intersect gs.cr.cr4_mask)
                                           \union (value \ gs.cr.cr4_mask)]
            /\ wrote' = [wrote EXCEPT !.cr4 = value]
            /\ UNCHANGED <<pic, apic, gs, run, failed, bits64, focus>>

MovToCr3(value) ==
    /\ In({"cr"})
    /\ IF gs.cr3_exiting
       THEN CrTurn(vm_cr_set_cr3(Exited, value), [wrote EXCEPT !.cr3 = value])
       ELSE CrDirect("cr3", value)

MovFromCr3 ==
    /\ In({"cr"}) /\ gs.cr3_exiting
    /\ CrTurn(HandledAs(Registers(Read(Exited, "cr3")), 0), wrote)

\* clts, lmsw and the other control registers: the handler fails.
OtherCrAccess ==
    /\ In({"cr"})
    /\ CrTurn(HandledAs(Exited, -1), wrote)

-----------------------------------------------------------------------------
Next ==
    \/ DeliverEvent \/ Sti \/ Cli \/ Iret \/ OtherInstruction
    \/ \E irq \in PulsePins : DevicePulse(irq)
    \/ \E irq \in LevelPins, level \in BOOLEAN : DeviceLevel(irq, level)
    \/ CallbackFails
    \/ PendingInterruptExit \/ HltExit
    \/ \E w \in PicWrites : PicOut(w[1], w[2])
    \/ \E port \in PicReads : PicIn(port)
    \/ \E is_in \in BOOLEAN, res \in {"handled", "unhandled", "error"} : OtherPort(is_in, res)
    \/ StringIo
    \/ \E w \in (IF focus = "ipi" THEN IpiWrites ELSE ApicWrites) : ApicWrite(w[1], w[2])
    \/ ApicRead
    \/ \E is_fetch \in BOOLEAN, result \in {"handled", "ignore", "unhandled", "restart", "error"},
          unhandled \in {"none", "handled", "ignore", "error"} : EptExit(is_fetch, result, unhandled)
    \/ \E msr \in {"unsupported", "other"} : MsrReadExit(msr)
    \/ \E msr \in {"unsupported", "apicbase", "other"}, enable \in BOOLEAN : MsrWriteExit(msr, enable)
    \/ \E leaf \in {"passed", "masked", "zeroed", "unlisted"} : CpuidExit(leaf)
    \/ \E res \in {"unknown", "done", "failed"} : VmcallExit(res)
    \/ \E rearmed \in BOOLEAN : OtherExit(rearmed)
    \/ \E value \in Cr0Values, werr \in {"none", "mask", "shadow"} : MovToCr0(value, werr)
    \/ \E value \in Cr4Values, werr \in {"none", "shadow"} : MovToCr4(value, werr)
    \/ \E value \in Cr3Values : MovToCr3(value)
    \/ MovFromCr3 \/ OtherCrAccess

Spec == Init /\ [][Next]_vars

-----------------------------------------------------------------------------
(* A deliverable interrupt is never left unnoticed.  When the loop is      *)
(* about to enter the guest or to wait and vm_apic_has_interrupt reports   *)
(* an interrupt, the vcpu is not halted, and the interrupt-window exit is  *)
(* requested: no order of device pulses, masks, priority changes, halts    *)
(* and end-of-interrupts makes the VMM sleep on it (interrupt.c, halt.c,   *)
(* the checks in vm_run_arch).                                             *)
PendingIsNoticed ==
    run = "running" /\ vm_apic_has_interrupt(Machine) >= 0 => ~gs.halt /\ gs.window

(* Nested interrupts of the local APIC end in the order the hardware       *)
(* prescribes: a vector accepted while another is in service is of a       *)
(* higher class, so that the end-of-interrupt (which clears the highest)   *)
(* retires the latest one, and the cached irr_pending, isr_count and       *)
(* priority agree with the registers.  Said until the guest resets its     *)
(* APIC with an INIT IPI, which leaves most of IRR and ISR behind.         *)
(* (apic_set_isr's comment, apic_update_ppr.)                              *)
InServiceNested ==
    apic.state = "new" =>
        /\ \A p \in apic.nested : Class(p[1]) < Class(p[2])
        /\ apic.isr_count = Cardinality(apic.isr)
        /\ apic.irr_pending = (apic.irr # {})
        /\ apic.ppr = PprOf(apic)

(* The VMM never reads a cached value the guest has changed since, never   *)
(* drops a value it emulated before it reached the VMCS or the vcpu's      *)
(* registers, never injects over an injection, never injects a vector      *)
(* below 16, and finds the window open on a window exit: the assertions    *)
(* of interrupt.c and vm.c (guest_state.h).                                *)
AssertionsHold == failed = {}

(* What the guest reads back from CR0, CR3 and CR4 is what it last wrote,  *)
(* through the hand-over of CR3 and of CR4's bits to the guest when it     *)
(* turns paging on (vm_cr_set_cr0 and the masks of boot.c).  CR0.PE and    *)
(* PG read as the guest wrote them although the hardware keeps them set.   *)
GuestCrView ==
    run = "running" =>
        /\ GuestCr0(Machine) = wrote.cr0
        /\ GuestCr3(Machine) = wrote.cr3
        /\ GuestCr4(Machine) = wrote.cr4

(* An edge-triggered interrupt whose acknowledgement its device still      *)
(* waits for is still requested or in service in the 8259: no sequence of  *)
(* resets, polls, masks and end-of-interrupts forgets it, which would      *)
(* leave the device silent for ever (pic_clear_isr, pic_reset).            *)
EdgeNotForgotten ==
    \A irq \in pic.owed :
        LET s == pic.pics[irq \div 8] IN irq % 8 \in s.irr \union s.isr
=============================================================================
