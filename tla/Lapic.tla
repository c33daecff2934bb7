-------------------------------- MODULE Lapic --------------------------------
(***************************************************************************)
(* The emulated local APIC of the boot vcpu                                *)
(* (libsel4vm/src/arch/x86/processor/lapic.c) and the injection of         *)
(* interrupts into the vcpu (libsel4vm/src/arch/x86/interrupt.c), which    *)
(* call each other.  Operators take and return a machine state v: the      *)
(* record of X86GuestState with the fields                                 *)
(*   pic   the state of I8259;                                             *)
(*   apic  irr, isr sets of vectors; irr_pending, isr_count, ppr the       *)
(*         values cached beside them; tpr; sw_enabled, hw_enabled; lvt0;   *)
(*         id, ldr, dfr, icr2; state; and nested, the pairs <<x, y>> of    *)
(*         vectors in service of which y was accepted while x was          *)
(*         (bookkeeping for the properties).                               *)
(* Left out: the timer and error registers and the other LVT entries,      *)
(* which hold what is written and cause nothing; arb_prio and sipi_vector, *)
(* never read; highest_isr_cache, which is always -1.                      *)
(***************************************************************************)
EXTENDS I8259, X86GuestState

Class(vec) == (vec \div 16) * 16
Highest(vs) == IF vs = {} THEN -1 ELSE Max(vs)

vm_apic_enabled(a) == a.sw_enabled /\ a.hw_enabled

\* Virtual wire mode, with the LVT0 entry passing the 8259's interrupts.
vm_create_lapic ==
    [irr |-> {}, isr |-> {}, irr_pending |-> FALSE, isr_count |-> 0, ppr |-> 0, tpr |-> 0,
     sw_enabled |-> TRUE, hw_enabled |-> TRUE, lvt0 |-> [masked |-> FALSE, mode |-> "extint"],
     id |-> 0, ldr |-> {}, dfr |-> "flat", icr2 |-> 0, state |-> "new", nested |-> {}]

(***************************************************************************)
(* Is an interrupt waiting, and which                                      *)
(***************************************************************************)
apic_find_highest_irr(a) == IF a.irr_pending THEN Highest(a.irr) ELSE -1
apic_find_highest_isr(a) == IF a.isr_count = 0 THEN -1 ELSE Highest(a.isr)

vm_apic_accept_pic_intr(a) == ~a.lvt0.masked /\ a.lvt0.mode = "extint" /\ a.sw_enabled

\* Mutant: the class of a vector is compared with >=.
vm_apic_has_interrupt_SameClass(v) ==
    LET highest_irr == apic_find_highest_irr(v.apic)
    IN  IF vm_apic_accept_pic_intr(v.apic) /\ i8259_has_interrupt(v.pic) THEN 1
        ELSE IF highest_irr = -1 \/ Class(highest_irr) < v.apic.ppr THEN -1
        ELSE highest_irr

\* 1 stands for the 8259's interrupt.
vm_apic_has_interrupt(v) ==
    LET highest_irr == apic_find_highest_irr(v.apic)
    IN  IF vm_apic_accept_pic_intr(v.apic) /\ i8259_has_interrupt(v.pic) THEN 1
        ELSE IF highest_irr = -1 \/ Class(highest_irr) <= v.apic.ppr THEN -1
        ELSE highest_irr

\* The priority apic_update_ppr computes.
PprOf(a) ==
    LET isr == apic_find_highest_isr(a)
        isrv == IF isr = -1 THEN 0 ELSE isr
    IN  IF Class(a.tpr) >= Class(isrv) THEN a.tpr ELSE Class(isrv)

apic_set_isr(a, vec) ==
    IF vec \in a.isr THEN a
    ELSE [a EXCEPT !.isr = @ \union {vec}, !.isr_count = @ + 1,
                   !.nested = @ \union (a.isr \X {vec})]

apic_clear_isr(a, vec) ==
    IF vec \notin a.isr THEN a
    ELSE [a EXCEPT !.isr = @ \ {vec}, !.isr_count = @ - 1,
                   !.nested = {p \in @ : p[1] # vec /\ p[2] # vec}]

apic_set_irr(a, vec) == [a EXCEPT !.irr_pending = TRUE, !.irr = @ \union {vec}]

apic_clear_irr(a, vec) ==
    [a EXCEPT !.irr = @ \ {vec}, !.irr_pending = (a.irr \ {vec}) # {}]

(* A vector goes into service, which can only raise the priority: the call *)
(* of vm_vcpu_accept_interrupt in apic_update_ppr is not reached from      *)
(* here.                                                                   *)
Serve(a, vector) == apic_clear_irr([a EXCEPT !.ppr = PprOf(a)], vector)

\* The result is the machine state and the vector, -1 for none.
GetVector(v, vector) ==
    [v |-> [v EXCEPT !.apic = Serve(apic_set_isr(@, vector), vector)], vector |-> vector]
GetFromPic(v, got) == [v |-> [v EXCEPT !.pic = got.pic], vector |-> got.vector]

vm_apic_get_interrupt(v) ==
    LET vector == vm_apic_has_interrupt(v)
    IN  CASE vector = 1 -> GetFromPic(v, i8259_get_interrupt(v.pic))
          [] vector = -1 -> [v |-> v, vector |-> -1]
          [] OTHER -> GetVector(v, vector)

(***************************************************************************)
(* interrupt.c                                                             *)
(***************************************************************************)
wait_for_guest_ready(v) == [v EXCEPT !.gs.window = TRUE]
resume_guest(v) == [v EXCEPT !.gs.window = FALSE]

inject_irq(v, irq) ==
    LET u == IF irq >= 16 THEN v ELSE Complain(v, "vector below 16")
    IN  [u EXCEPT !.gs.entry = irq]

\* The general-protection fault, with an error code, is the exception injected.
vm_inject_exception(v) ==
    LET u == IF v.gs.entry = 0 THEN v ELSE Complain(v, "exception over an injection")
    IN  [Set(u, "entry_exception_error_code", 0) EXCEPT !.gs.entry = 13]

\* The two fields can_inject reads, and its answer once they are read.
InjectionState(v) == Read(Read(v, "rflags"), "guest_interruptibility")
can_inject(v) ==
    Value(v, "rflags") /\ ~Value(v, "guest_interruptibility") /\ v.gs.entry = 0

\* "See if there are more."
AwaitMore(v) == IF vm_apic_has_interrupt(v) >= 0 THEN wait_for_guest_ready(v) ELSE v
InjectGot(got) == AwaitMore(inject_irq(got.v, got.vector))
InjectOrWait(v) ==
    IF v.gs.halt \/ ~can_inject(v)
    THEN [wait_for_guest_ready(v) EXCEPT !.gs.halt = FALSE]
    ELSE InjectGot(vm_apic_get_interrupt(v))

vm_have_pending_interrupt(v) ==
    IF vm_apic_has_interrupt(v) >= 0 THEN InjectOrWait(InjectionState(v)) ELSE v

vm_vcpu_accept_interrupt(v) ==
    IF vm_apic_has_interrupt(v) = -1 THEN v ELSE vm_have_pending_interrupt(v)

\* i8259_has_interrupt never returns -1, so the code's test of it holds always.
vm_check_external_interrupt(v) ==
    IF vm_apic_accept_pic_intr(v.apic) THEN vm_vcpu_accept_interrupt(v) ELSE v

CloseUnlessMore(v) == IF vm_apic_has_interrupt(v) >= 0 THEN v ELSE resume_guest(v)
InjectPending(got) ==
    IF got.vector = -1
    THEN resume_guest(got.v)
    ELSE [CloseUnlessMore(inject_irq(got.v, got.vector)) EXCEPT !.gs.halt = FALSE]

vm_pending_interrupt_handler(v) ==
    InjectPending(vm_apic_get_interrupt(
        InjectionState(IF can_inject(v) THEN v ELSE Complain(v, "window exit without a window"))))

(***************************************************************************)
(* Register writes                                                         *)
(***************************************************************************)
\* A lower priority may have unmasked a pending interrupt.
Unmasked(v, old_ppr) == IF v.apic.ppr < old_ppr THEN vm_vcpu_accept_interrupt(v) ELSE v

apic_update_ppr(v) == Unmasked([v EXCEPT !.apic.ppr = PprOf(v.apic)], v.apic.ppr)

apic_set_tpr(v, tpr) == apic_update_ppr([v EXCEPT !.apic.tpr = tpr])

apic_set_eoi(v) ==
    LET vector == apic_find_highest_isr(v.apic)
    IN  IF vector = -1 THEN v
        ELSE vm_vcpu_accept_interrupt(
               apic_update_ppr([v EXCEPT !.apic = apic_clear_isr(@, vector)]))

(* The loop that clears IRR and ISR steps by 16 bytes through arrays of    *)
(* consecutive words, so only words 0 and 4 of each are cleared; the       *)
(* cached irr_pending and isr_count are reset.  apic_base and state are    *)
(* kept.                                                                   *)
vm_lapic_reset(v) ==
    LET a == v.apic
        cleared == 0..31 \union 128..159
        reset == [a EXCEPT !.irr = @ \ cleared, !.isr = @ \ cleared,
                           !.irr_pending = FALSE, !.isr_count = 0, !.nested = {},
                           !.tpr = 0, !.sw_enabled = FALSE,
                           !.lvt0 = [masked |-> TRUE, mode |-> "fixed"],
                           !.id = 0, !.ldr = {}, !.dfr = "flat", !.icr2 = 0]
        updated == apic_update_ppr([v EXCEPT !.apic = reset])
    IN  [updated EXCEPT !.apic.lvt0 = [masked |-> FALSE, mode |-> "extint"],
                        !.apic.sw_enabled = TRUE]

(***************************************************************************)
(* Inter-processor interrupts.  The boot vcpu is the only target.  An ICR  *)
(* value is a record with a vector, a delivery mode, an assert flag, a     *)
(* shorthand and a destination mode; logical ids are sets of bits.         *)
(***************************************************************************)
vm_apic_match_logical_addr(a, mda) ==
    \/ a.dfr = "flat" /\ a.ldr \intersect mda # {}
    \/ /\ a.dfr = "cluster"
       /\ a.ldr \intersect 4..7 = mda \intersect 4..7
       /\ a.ldr \intersect mda \intersect 0..3 # {}

vm_apic_match_dest(a, irq) ==
    CASE irq.shorthand = "none" /\ irq.dest_mode = "physical" -> a.icr2 \in {255, a.id}
      [] irq.shorthand = "none" /\ irq.dest_mode = "logical" ->
            vm_apic_match_logical_addr(a, Bits(a.icr2))
      [] irq.shorthand = "allinc" -> TRUE
      [] OTHER -> FALSE

\* The trampoline is emulated, and the assertion that the vcpu has a thread fails.
vm_start_ap_vcpu(v) ==
    [vm_sync_guest_vmcs_state(vm_sync_guest_context(v)) EXCEPT !.run = "aborted"]

\* An external-interrupt IPI ends in assert(0).
__apic_accept_irq(v, irq) ==
    LET a == v.apic
    IN  CASE irq.mode \in {"fixed", "lowest"} /\ vm_apic_enabled(a) ->
               vm_vcpu_accept_interrupt([v EXCEPT !.apic = apic_set_irr(a, irq.vector)])
          [] irq.mode \in {"nmi", "remrd"} -> vm_vcpu_accept_interrupt(v)
          [] irq.mode = "init" /\ irq.assert /\ a.state # "run" ->
               [vm_lapic_reset(v) EXCEPT !.apic.state = "waitsipi"]
          [] irq.mode = "startup" /\ a.state = "waitsipi" ->
               vm_start_ap_vcpu([v EXCEPT !.apic.state = "run"])
          [] irq.mode = "extint" -> [v EXCEPT !.run = "aborted"]
          [] OTHER -> v

vm_irq_delivery_to_apic(v, irq) ==
    IF \/ irq.shorthand = "self"
       \/ /\ v.apic.hw_enabled
          /\ vm_apic_match_dest(v.apic, irq)
          /\ irq.mode # "lowest" \/ vm_apic_enabled(v.apic)
    THEN __apic_accept_irq(v, irq)
    ELSE v

(***************************************************************************)
(* The register page.  apic_fault_callback computes the register's offset  *)
(* as the page's base minus the faulting address, so an access at byte x   *)
(* of the page reaches the register at 4096 - x, which is a register of    *)
(* the APIC only for x from 16_c10 up; elsewhere a write changes nothing.  *)
(***************************************************************************)
RegisterAt(x) == (0 - x) % 4096

apic_reg_write(v, reg, val) ==
    CASE reg = 32 -> [v EXCEPT !.apic.id = val]
      [] reg = 128 -> apic_set_tpr(v, val)
      [] reg = 176 -> apic_set_eoi(v)
      [] reg = 208 -> [v EXCEPT !.apic.ldr = Bits(val)]
      [] reg = 224 -> [v EXCEPT !.apic.dfr = val]
      [] reg = 240 -> [v EXCEPT !.apic = [v.apic EXCEPT !.sw_enabled = val,
                                !.lvt0.masked = v.apic.lvt0.masked \/ ~val]]
      [] reg = 768 -> vm_irq_delivery_to_apic(v, val)
      [] reg = 784 -> [v EXCEPT !.apic.icr2 = val]
      [] reg = 848 -> [v EXCEPT !.apic.lvt0 =
                          [val EXCEPT !.masked = @ \/ ~v.apic.sw_enabled]]
      [] OTHER -> v

\* A misaligned write is dropped.
vm_apic_mmio_write(v, x, val) ==
    IF x % 16 # 0 THEN v ELSE apic_reg_write(v, RegisterAt(x), val)

vm_lapic_set_base_msr(v, enable) == [v EXCEPT !.apic.hw_enabled = enable]
=============================================================================
