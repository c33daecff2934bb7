-------------------------------- MODULE VGIC --------------------------------
(***************************************************************************)
(* The virtual interrupt controller that libsel4vm gives an ARM guest:     *)
(* libsel4vm/src/arch/arm/vgic/{virq.h, vdist.h, vgic_v2.c}, with the      *)
(* messages of vm.c that reach it (vGIC maintenance, virtual PPI) and the  *)
(* WFI fault that an injection ends.                                       *)
(*                                                                         *)
(* The VMM is one thread: it handles one message at a time.  The guest's   *)
(* vCPUs run beside it.  A distributor write that names several            *)
(* interrupts is a loop in the VMM, one iteration per step, during which   *)
(* other vCPUs keep running but the VMM takes no other message.            *)
(***************************************************************************)
EXTENDS Integers, Sequences, FiniteSets

CONSTANTS
  VCPUS,          \* ids of the VM's vCPUs (vm->vcpus[0 .. num_vcpus-1])
  BOOT_VCPU,      \* the vCPU that is online from the start
  SGIS,           \* software generated interrupts in use (0 .. 15)
  PPIS,           \* private peripheral interrupts in use (16 .. 31)
  SPIS,           \* shared peripheral interrupts in use (32 .. )
  PlatIrqs,       \* SGIs and PPIs registered when a vCPU is created
  NumListRegs,    \* NUM_LIST_REGS
  MaxIrqQueueLen, \* MAX_IRQ_QUEUE_LEN
  NumSlotsSpi,    \* NUM_SLOTS_SPI_VIRQ
  LevelIrqs,      \* interrupts whose device drives vm_set_irq_level
  ReinjectIrqs,   \* SPIs whose ack callback may call vm_inject_irq again
  GuestOps        \* what the guest does: distributor registers it writes, WFI

NoIrq  == -1      \* a NULL virq_handle_t
Shared == -1      \* "bank" of an SPI: one line for the whole VM
Locals == SGIS \cup PPIS
Irqs   == Locals \cup SPIS
LRs    == 0 .. NumListRegs - 1
BitOps == {"ISENABLER", "ICENABLER", "ISPENDR", "ICPENDR"}

ASSUME ConstantsAssumption ==
  /\ VCPUS \subseteq Nat /\ BOOT_VCPU \in VCPUS
  /\ SGIS \subseteq 0 .. 15 /\ PPIS \subseteq 16 .. 31
  /\ SPIS \subseteq Nat \ (0 .. 31)
  /\ PlatIrqs \subseteq SGIS \cup PPIS
  /\ NumListRegs \in Nat \ {0}
  /\ MaxIrqQueueLen \in Nat \ {0, 1}
  /\ NumSlotsSpi \in Nat
  /\ LevelIrqs \subseteq PPIS \cup SPIS /\ ReinjectIrqs \subseteq SPIS
  /\ GuestOps \subseteq BitOps \cup {"CTLR", "ICFGR", "SGIR", "WFI"}

\* SGIs and PPIs are banked per vCPU, an SPI is one line of the whole VM.  The
\* code finds the same virq_handle for a line every time (handles are never
\* removed and the first SPI slot that matches wins), so a line stands for its
\* handle, its pending bit, its enable bit and its level.
Line(v, i) == IF i \in Locals THEN <<v, i>> ELSE <<Shared, i>>
Lines == (VCPUS \X Locals) \cup ({Shared} \X SPIS)

VARIABLES
  vm,      \* record, see Fields
  write,   \* the distributor write the VMM is in the middle of, or Idle
  online   \* vcpu_online

vars == <<vm, write, online>>

Exits == {<<"run">>, <<"wfi">>, <<"parked">>, <<"unanswered">>}
           \cup ({"maint"} \X LRs) \cup ({"vppi"} \X PPIS)

Idle == [op |-> "idle"]
Writes == {Idle}
  \cup [op : BitOps, vcpu : VCPUS, todo : SUBSET Irqs]
  \cup [op : {"SGIR"}, vcpu : VCPUS, irq : SGIS, todo : SUBSET VCPUS]

Fields ==
  [enable      : BOOLEAN,             \* dist->enable
   enabled     : SUBSET Lines,        \* dist->enable_set0 / enable_set
   pending     : SUBSET Lines,        \* dist->pending_set0 / pending_set
   edge        : SUBSET SPIS,         \* SPIs configured edge triggered in dist->config
   level       : SUBSET Lines,        \* lines whose handle has level = 1
   local_virqs : SUBSET (VCPUS \X Locals),
   vspis       : Seq(SPIS),           \* the used prefix of vgic->vspis
   lr_shadow   : [VCPUS -> [LRs -> Irqs \cup {NoIrq}]],
   irq_queue   : [VCPUS -> Seq(Irqs)],
   dropped     : SUBSET Lines,        \* lines whose enqueue failed (logged by the code)
   lr          : [VCPUS -> [LRs -> {"invalid", "pending", "active"}]],
                                      \* the hardware's list registers
   masked      : SUBSET (VCPUS \X PPIS), \* virtual PPIs seL4 has masked
   exit        : [VCPUS -> Exits]]    \* "run"; a message the VMM has not received yet
                                      \* (maint, vppi, wfi); a WFI fault the VMM keeps
                                      \* (parked); a message it never answers (unanswered)

-----------------------------------------------------------------------------
(* virq.h *)

\* virq_find_irq_data(...) != NULL
virq_find_irq_data(s, v, i) ==
  IF i \in Locals THEN <<v, i>> \in s.local_virqs
                  ELSE \E k \in 1 .. Len(s.vspis) : s.vspis[k] = i

\* A second handle for an SPI takes a slot of its own; one for an SGI or PPI is refused.
virq_add(s, v, i) ==
  IF i \in Locals
    THEN [s EXCEPT !.local_virqs = @ \cup {<<v, i>>}]
    ELSE IF Len(s.vspis) < NumSlotsSpi THEN [s EXCEPT !.vspis = Append(@, i)] ELSE s

\* Mutant: full one entry too early.
QueueFull_Early(s, v) == Len(s.irq_queue[v]) >= MaxIrqQueueLen - 2

\* One slot of the ring always stays free (IRQ_QUEUE_NEXT(tail) == head is "full").
QueueFull(s, v) == Len(s.irq_queue[v]) >= MaxIrqQueueLen - 1

SetQueue(s, v, q) == [s EXCEPT !.irq_queue[v] = q]

vgic_irq_enqueue(s, v, i) == SetQueue(s, v, Append(s.irq_queue[v], i))

vgic_irq_dequeue(s, v) == SetQueue(s, v, Tail(s.irq_queue[v]))

EmptyListRegs(s, v) == {idx \in LRs : s.lr_shadow[v][idx] = NoIrq}

vgic_find_empty_list_reg(s, v) ==
  CHOOSE idx \in EmptyListRegs(s, v) : \A j \in EmptyListRegs(s, v) : idx <= j

\* seL4_ARM_VCPU_InjectIRQ refuses a list register whose interrupt is active.
InjectIRQ_ok(s, v, idx) == s.lr[v][idx] # "active"

vgic_vcpu_load_list_reg(s, v, idx, i) ==
  IF InjectIRQ_ok(s, v, idx)
    THEN [s EXCEPT !.lr[v][idx] = "pending", !.lr_shadow[v][idx] = i]
    ELSE s

-----------------------------------------------------------------------------
(* vdist.h *)

Deliverable(s, v, i) ==
  virq_find_irq_data(s, v, i) /\ s.enable /\ Line(v, i) \in s.enabled

set_pending(s, v, i, p) ==
  [s EXCEPT !.pending = IF p THEN @ \cup {Line(v, i)} ELSE @ \ {Line(v, i)}]

set_enable(s, v, i, e) ==
  [s EXCEPT !.enabled = IF e THEN @ \cup {Line(v, i)} ELSE @ \ {Line(v, i)}]

\* Queue the interrupt, then move the head of the queue to a free list register.
EnqueueAndLoad(s, v, i) ==
  LET q   == vgic_irq_enqueue(s, v, i)
      idx == vgic_find_empty_list_reg(q, v)
  IN IF EmptyListRegs(q, v) = {}
       THEN q
       ELSE vgic_vcpu_load_list_reg(vgic_irq_dequeue(q, v), v, idx, Head(q.irq_queue[v]))

\* Mutants: the pending bit is not set; not tested; the enable bits are not tested.
set_pending_irq_NotSet(s, v, i) ==
  IF ~Deliverable(s, v, i) \/ Line(v, i) \in s.pending \/ QueueFull(s, v)
    THEN s ELSE EnqueueAndLoad(s, v, i)
set_pending_irq_Again(s, v, i) ==
  IF ~Deliverable(s, v, i) \/ QueueFull(s, v)
    THEN s ELSE EnqueueAndLoad(set_pending(s, v, i, TRUE), v, i)
set_pending_irq_Disabled(s, v, i) ==
  IF ~virq_find_irq_data(s, v, i) \/ Line(v, i) \in s.pending \/ QueueFull(s, v)
    THEN s ELSE EnqueueAndLoad(set_pending(s, v, i, TRUE), v, i)

vgic_dist_set_pending_irq(s, v, i) ==
  IF ~Deliverable(s, v, i) \/ Line(v, i) \in s.pending
    THEN s
    ELSE IF QueueFull(s, v)
           THEN [set_pending(s, v, i, TRUE) EXCEPT !.dropped = @ \cup {Line(v, i)}]
           ELSE EnqueueAndLoad(set_pending(s, v, i, TRUE), v, i)

\* The call above returns an error.
set_pending_fails(s, v, i) ==
  \/ ~Deliverable(s, v, i)
  \/ /\ Line(v, i) \notin s.pending
     /\ \/ QueueFull(s, v)
        \/ /\ EmptyListRegs(s, v) # {}
           /\ ~InjectIRQ_ok(s, v, vgic_find_empty_list_reg(s, v))

vgic_dist_clr_pending_irq(s, v, i) == set_pending(s, v, i, FALSE)

\* SGIs are edge triggered, PPIs are not, SPIs as the guest configured them.
vgic_dist_is_edge_triggered(s, i) == i \in SGIS \cup s.edge

-----------------------------------------------------------------------------
(* vgic_v2.c *)

\* An injection also answers a WFI fault the vCPU is parked on.
vm_inject_irq(s, v, i) ==
  LET p == vgic_dist_set_pending_irq(s, v, i)
  IN IF p.exit[v] = <<"parked">> THEN [p EXCEPT !.exit[v] = <<"run">>] ELSE p

vgic_handle_level(s, v, i) ==
  IF Line(v, i) \notin s.level
    THEN s
    ELSE IF vgic_dist_is_edge_triggered(s, i)
           THEN [s EXCEPT !.level = @ \ {Line(v, i)}]
           ELSE vm_inject_irq(s, v, i)

\* Mutant: the PPI stays masked.
virq_ack_NoUnmask(s, v, i, again) ==
  IF i \notin PPIS /\ again /\ i \in ReinjectIrqs THEN vm_inject_irq(s, BOOT_VCPU, i) ELSE s

\* The registered callbacks: a PPI's unmasks it in seL4, an SGI's does nothing, a
\* device's may inject its interrupt again on the boot vCPU ("again").
virq_ack(s, v, i, again) ==
  IF i \in PPIS THEN [s EXCEPT !.masked = @ \ {<<v, i>>}]
  ELSE IF again /\ i \in ReinjectIrqs THEN vm_inject_irq(s, BOOT_VCPU, i) ELSE s

vgic_irq_ack(s, v, i, again) == vgic_handle_level(virq_ack(s, v, i, again), v, i)

\* Mutants: the pending bit or the shadow is not cleared.
Retire_KeepPending(s, v, idx) ==
  [s EXCEPT !.lr_shadow[v][idx] = NoIrq, !.exit[v] = <<"unanswered">>]
Retire_KeepShadow(s, v, idx) ==
  [set_pending(s, v, s.lr_shadow[v][idx], FALSE) EXCEPT !.exit[v] = <<"unanswered">>]

\* The maintenance message is received: the interrupt of list register idx is over.
Retire(s, v, idx) ==
  [set_pending(s, v, s.lr_shadow[v][idx], FALSE) EXCEPT
     !.lr_shadow[v][idx] = NoIrq, !.exit[v] = <<"unanswered">>]

\* Mutants: the queue is not looked at; the guest is not answered when it is empty.
Refill_NoLoad(s, v, idx) == [s EXCEPT !.exit[v] = <<"run">>]
Refill_NoReply(s, v, idx) ==
  IF s.irq_queue[v] = <<>>
    THEN s
    ELSE [vgic_vcpu_load_list_reg(vgic_irq_dequeue(s, v), v, idx, Head(s.irq_queue[v]))
            EXCEPT !.exit[v] = <<"run">>]

\* The list register is loaded from the queue, and the guest is answered unless
\* that fails.
Refill(s, v, idx) ==
  IF s.irq_queue[v] = <<>>
    THEN [s EXCEPT !.exit[v] = <<"run">>]
    ELSE [vgic_vcpu_load_list_reg(vgic_irq_dequeue(s, v), v, idx, Head(s.irq_queue[v]))
            EXCEPT !.exit[v] = IF InjectIRQ_ok(s, v, idx) THEN <<"run">> ELSE @]

handle_vgic_maintenance(s, v, idx, again) ==
  Refill(vgic_irq_ack(Retire(s, v, idx), v, s.lr_shadow[v][idx], again), v, idx)

\* Mutant: an asserted level is not looked at when the interrupt is enabled.
enable_irq_NoAck(s, v, i, again) == set_enable(s, v, i, TRUE)

vgic_dist_enable_irq(s, v, i, again) ==
  LET e == set_enable(s, v, i, TRUE)
  IN IF virq_find_irq_data(e, v, i) /\ Line(v, i) \notin e.pending
       THEN vgic_irq_ack(e, v, i, again)
       ELSE e

\* Disabling an SGI is ignored.
vgic_dist_disable_irq(s, v, i) ==
  IF i \in SGIS THEN s ELSE set_enable(s, v, i, FALSE)

-----------------------------------------------------------------------------
(* Actions of the VMM.  Each handles one message, call or loop iteration. *)

VmmIdle == write = Idle

Running(v) == /\ v \in online /\ vm.exit[v] = <<"run">>
              /\ write = Idle \/ (write # Idle /\ write.vcpu # v)

vm_register_irq(v, i) ==
  /\ VmmIdle
  /\ vm' = virq_add(vm, v, i)
  /\ UNCHANGED <<write, online>>

\* A device of the VMM injects an interrupt.
DeviceInject(v, i) ==
  /\ VmmIdle
  /\ vm' = vm_inject_irq(vm, v, i)
  /\ UNCHANGED <<write, online>>

vm_set_irq_level(v, i, irq_level) ==
  /\ VmmIdle
  /\ virq_find_irq_data(vm, v, i)
  /\ vm' = IF irq_level
             THEN IF Line(v, i) \in vm.level
                    THEN vm
                    ELSE vm_inject_irq([vm EXCEPT !.level = @ \cup {Line(v, i)}], v, i)
             ELSE [vm EXCEPT !.level = @ \ {Line(v, i)}]
  /\ UNCHANGED <<write, online>>

vm_vgic_maintenance_handler(v) ==
  /\ VmmIdle
  /\ \E idx \in LRs, again \in BOOLEAN :
       /\ vm.exit[v] = <<"maint", idx>>
       /\ vm.lr_shadow[v][idx] # NoIrq
       /\ vm' = handle_vgic_maintenance(vm, v, idx, again)
  /\ UNCHANGED <<write, online>>

\* A PPI that cannot be injected is unmasked at once.
vm_vppi_event_handler(v) ==
  /\ VmmIdle
  /\ \E i \in PPIS :
       /\ vm.exit[v] = <<"vppi", i>>
       /\ LET p == vm_inject_irq(vm, v, i)
          IN vm' = [p EXCEPT !.exit[v] = <<"run">>,
                             !.masked = IF set_pending_fails(vm, v, i)
                                          THEN @ \ {<<v, i>>} ELSE @]
  /\ UNCHANGED <<write, online>>

\* vm_vcpu_handler with the default WFI handler ignore_exception: the fault is
\* recorded and not answered.
vm_vcpu_handler_wfi(v) ==
  /\ VmmIdle
  /\ vm.exit[v] = <<"wfi">>
  /\ vm' = [vm EXCEPT !.exit[v] = <<"parked">>]
  /\ UNCHANGED <<write, online>>

\* PSCI CPU_ON for a vCPU that is still off.
vcpu_start(v) ==
  /\ VmmIdle /\ v \notin online
  /\ online' = online \cup {v}
  /\ UNCHANGED <<vm, write>>

-----------------------------------------------------------------------------
(* Distributor writes: vgic_dist_reg_write *)

WriteCTLR(v, e) ==
  /\ VmmIdle /\ Running(v) /\ "CTLR" \in GuestOps
  /\ vm' = [vm EXCEPT !.enable = e]
  /\ UNCHANGED <<write, online>>

\* Only SPIs can be reconfigured (ICFGR0 and ICFGR1 ignore writes); a register
\* covers 16 interrupts, e are those the guest wants edge triggered.
WriteICFGR(v, reg, e) ==
  /\ VmmIdle /\ Running(v) /\ "ICFGR" \in GuestOps
  /\ vm' = [vm EXCEPT !.edge = {i \in SPIS : i \in IF i \div 16 = reg THEN e ELSE @}]
  /\ UNCHANGED <<write, online>>

\* ISENABLER, ICENABLER, ISPENDR, ICPENDR: one register covers 32 interrupts.
SameRegister(irqs) == \A i, j \in irqs : i \div 32 = j \div 32

WriteBits(v, op, irqs) ==
  /\ VmmIdle /\ Running(v) /\ op \in GuestOps
  /\ irqs # {} /\ SameRegister(irqs)
  /\ write' = [op |-> op, vcpu |-> v, todo |-> irqs]
  /\ UNCHANGED <<vm, online>>

WriteSGIR(v, i, targets) ==
  /\ VmmIdle /\ Running(v) /\ "SGIR" \in GuestOps
  /\ targets # {}
  /\ write' = [op |-> "SGIR", vcpu |-> v, irq |-> i, todo |-> targets]
  /\ UNCHANGED <<vm, online>>

\* The fault is answered once the loop is done.
NextWrite(x) == IF write.todo = {x} THEN Idle ELSE [write EXCEPT !.todo = @ \ {x}]

Lowest(x) == x \in write.todo /\ \A y \in write.todo : x <= y

WriteBitsStep ==
  /\ write.op \in BitOps
  /\ \E i \in Irqs, again \in BOOLEAN :
       /\ Lowest(i)
       /\ vm' = CASE write.op = "ISENABLER" -> vgic_dist_enable_irq(vm, write.vcpu, i, again)
                  [] write.op = "ICENABLER" -> vgic_dist_disable_irq(vm, write.vcpu, i)
                  [] write.op = "ISPENDR"   -> vgic_dist_set_pending_irq(vm, write.vcpu, i)
                  [] write.op = "ICPENDR"   -> vgic_dist_clr_pending_irq(vm, write.vcpu, i)
       /\ write' = NextWrite(i)
  /\ UNCHANGED online

WriteSGIRStep ==
  /\ write.op = "SGIR"
  /\ \E t \in VCPUS :
       /\ Lowest(t)
       /\ vm' = IF t \in online THEN vm_inject_irq(vm, t, write.irq) ELSE vm
       /\ write' = NextWrite(t)
  /\ UNCHANGED online

-----------------------------------------------------------------------------
(* The guest and the hardware (external) *)

\* A vCPU takes a pending interrupt from a list register.
GuestTake(v, idx) ==
  /\ Running(v) /\ vm.lr[v][idx] = "pending"
  /\ vm' = [vm EXCEPT !.lr[v][idx] = "active"]
  /\ UNCHANGED <<write, online>>

\* It ends it; the maintenance interrupt stops the vCPU until the VMM replies.
GuestEOI(v, idx) ==
  /\ Running(v) /\ vm.lr[v][idx] = "active"
  /\ vm' = [vm EXCEPT !.lr[v][idx] = "invalid", !.exit[v] = <<"maint", idx>>]
  /\ UNCHANGED <<write, online>>

\* A virtual PPI (the vCPU's timer) fires: seL4 masks it and stops the vCPU.
VppiFires(v, i) ==
  /\ Running(v) /\ <<v, i>> \notin vm.masked
  /\ vm' = [vm EXCEPT !.masked = @ \cup {<<v, i>>}, !.exit[v] = <<"vppi", i>>]
  /\ UNCHANGED <<write, online>>

\* WFI traps only when no interrupt is pending for the vCPU.
GuestWFI(v) ==
  /\ Running(v) /\ "WFI" \in GuestOps
  /\ \A idx \in LRs : vm.lr[v][idx] # "pending"
  /\ vm' = [vm EXCEPT !.exit[v] = <<"wfi">>]
  /\ UNCHANGED <<write, online>>

-----------------------------------------------------------------------------
\* vgic_dist_reset: everything off but the SGIs, which are always enabled.
\* create_vmm_plat_vcpu has registered the platform's SGIs and PPIs.
Init ==
  /\ vm = [enable      |-> FALSE,
           enabled     |-> VCPUS \X SGIS,
           pending     |-> {},
           edge        |-> {},
           level       |-> {},
           local_virqs |-> VCPUS \X PlatIrqs,
           vspis       |-> <<>>,
           lr_shadow   |-> [v \in VCPUS |-> [idx \in LRs |-> NoIrq]],
           irq_queue   |-> [v \in VCPUS |-> <<>>],
           dropped     |-> {},
           lr          |-> [v \in VCPUS |-> [idx \in LRs |-> "invalid"]],
           masked      |-> {},
           exit        |-> [v \in VCPUS |-> <<"run">>]]
  /\ write = Idle
  /\ online = {BOOT_VCPU}

VmmHandler(v) == \/ vm_vgic_maintenance_handler(v)
                 \/ vm_vppi_event_handler(v)
                 \/ vm_vcpu_handler_wfi(v)

WriteStep == WriteBitsStep \/ WriteSGIRStep

DistWrite(v) ==
  \/ \E e \in BOOLEAN : WriteCTLR(v, e)
  \/ \E reg \in {i \div 16 : i \in SPIS}, e \in SUBSET SPIS : WriteICFGR(v, reg, e)
  \/ \E op \in BitOps, irqs \in SUBSET Irqs : WriteBits(v, op, irqs)
  \/ \E i \in SGIS, targets \in SUBSET VCPUS : WriteSGIR(v, i, targets)

Guest(v) == \/ \E idx \in LRs : GuestTake(v, idx) \/ GuestEOI(v, idx)
            \/ \E i \in PPIS : VppiFires(v, i)
            \/ GuestWFI(v)

Device(v) ==
  \/ \E i \in Irqs : vm_register_irq(v, i)
  \/ \E i \in SPIS : DeviceInject(v, i)
  \/ \E i \in LevelIrqs, irq_level \in BOOLEAN : vm_set_irq_level(v, i, irq_level)

Next == \/ \E v \in VCPUS : \/ VmmHandler(v) \/ vcpu_start(v)
                            \/ DistWrite(v) \/ Guest(v) \/ Device(v)
        \/ WriteStep

Spec == Init /\ [][Next]_vars

\* The VMM goes on handling messages, and a running guest takes and ends the
\* interrupts it is given.
FairSpec ==
  /\ Spec
  /\ WF_vars(WriteStep)
  /\ \A v \in VCPUS :
       /\ WF_vars(VmmHandler(v))
       /\ \A idx \in LRs : SF_vars(GuestTake(v, idx)) /\ SF_vars(GuestEOI(v, idx))

-----------------------------------------------------------------------------
(* Properties *)

InListReg(s, v, i) == \E idx \in LRs : s.lr_shadow[v][idx] = i
InQueue(s, v, i)   == \E k \in 1 .. Len(s.irq_queue[v]) : s.irq_queue[v][k] = i
Resident(s, v, i)  == InListReg(s, v, i) \/ InQueue(s, v, i)

\* The state stays in its type, the queue below its capacity and the SPI
\* handles within the slot table.
TypeOK ==
  /\ vm \in Fields
  /\ write \in Writes
  /\ online \in SUBSET VCPUS
  /\ \A v \in VCPUS : Len(vm.irq_queue[v]) < MaxIrqQueueLen
  /\ Len(vm.vspis) <= NumSlotsSpi

\* An interrupt line that sits in a list register or in the overflow queue has
\* its pending bit set: vgic_dist_set_pending_irq relies on the bit alone to
\* decide that the line is not there yet.
RIP(s) == \A v \in VCPUS, i \in Irqs : Resident(s, v, i) => Line(v, i) \in s.pending
ResidentIsPending == RIP(vm)

\* A line is in at most one list register or queue slot of the whole VM (for an
\* SPI) or of its vCPU, so that one interrupt is delivered and acknowledged once.
Once(s) ==
  /\ \A v \in VCPUS : \A a, b \in LRs :
       a # b /\ s.lr_shadow[v][a] = s.lr_shadow[v][b] => s.lr_shadow[v][a] = NoIrq
  /\ \A v \in VCPUS : \A j, k \in 1 .. Len(s.irq_queue[v]) :
       j # k => s.irq_queue[v][j] # s.irq_queue[v][k]
  /\ \A v \in VCPUS, i \in Irqs : ~(InListReg(s, v, i) /\ InQueue(s, v, i))
  /\ \A v, w \in VCPUS, i \in SPIS : Resident(s, v, i) /\ Resident(s, w, i) => v = w
NeverTwice == Once(vm)

\* "If the IRQ is already pending, we can assume that the VM has yet to ACK the
\* IRQ" (vgic_v2.c): a line whose pending bit is set is on its way to a vCPU,
\* unless the code has reported a queue overflow for it.
PIR(s) ==
  \A v \in VCPUS, i \in Irqs :
    Line(v, i) \in s.pending \ s.dropped =>
      \E w \in VCPUS : Line(w, i) = Line(v, i) /\ Resident(s, w, i)
PendingIsResident == PIR(vm)

\* Interrupts wait in the queue only while every list register is taken, also
\* between an end-of-interrupt and its maintenance message.
QueueMeansFull ==
  \A v \in VCPUS : vm.irq_queue[v] # <<>> => EmptyListRegs(vm, v) = {}

\* lr_shadow mirrors the hardware: a register differs from its shadow exactly
\* while its maintenance message is under way.  It follows that the assertion
\* on the slot in handle_vgic_maintenance holds, that seL4 never refuses a load
\* and that every maintenance message is answered.
Mirror(s) ==
  \A v \in VCPUS, idx \in LRs :
    IF s.exit[v] = <<"maint", idx>>
      THEN s.lr[v][idx] = "invalid" /\ s.lr_shadow[v][idx] # NoIrq
      ELSE s.lr[v][idx] = "invalid" <=> s.lr_shadow[v][idx] = NoIrq
Answered(s) == \A v \in VCPUS : s.exit[v] # <<"unanswered">>
ShadowMirrorsHardware == Mirror(vm) /\ Answered(vm)

\* A virtual PPI that seL4 has masked will be unmasked: its event is waiting for
\* the VMM, or it is resident and its end-of-interrupt will acknowledge it.
MPF(s) ==
  \A v \in VCPUS, i \in PPIS :
    <<v, i>> \in s.masked \ s.dropped => s.exit[v] = <<"vppi", i>> \/ Resident(s, v, i)
MaskedPpiInFlight == MPF(vm)

\* No interrupt is lost to a queue overflow.
NoOverflow == vm.dropped = {}

\* An asserted level-triggered line that the guest can receive.
Asserted(s, v, i) ==
  /\ Line(v, i) \in s.level /\ ~vgic_dist_is_edge_triggered(s, i)
  /\ Deliverable(s, v, i)

\* The guest itself changed what it wants to receive in this step.
GuestReconfigures ==
  \/ vm'.enable # vm.enable \/ vm'.edge # vm.edge
  \/ write.op = "ICPENDR"

\* No step of the VMM leaves an asserted level-triggered line without its pending
\* bit: raising the level, enabling the interrupt and ending it all re-inject.
LevelNotForgotten ==
  [][\A v \in VCPUS, i \in Irqs :
       Asserted(vm', v, i) /\ ~GuestReconfigures =>
         \/ Line(v, i) \in vm'.pending
         \/ Asserted(vm, v, i) /\ Line(v, i) \notin vm.pending]_vars

\* "subsequent IRQs will not be delivered" (state g): a line becomes resident
\* only while the distributor and the interrupt are enabled.
DisabledNotDelivered ==
  [][\A v \in VCPUS, i \in Irqs :
       Resident(vm', v, i) /\ ~Resident(vm, v, i) => Deliverable(vm', v, i)]_vars

\* "eventually the vGIC maintenance code will load it to a list register from
\* the queue" (vdist.h): a queued interrupt of an online vCPU is loaded.
QueuedIsLoaded ==
  \A v \in VCPUS, i \in Irqs : InQueue(vm, v, i) /\ v \in online ~> InListReg(vm, v, i)

\* States c) and d) of vgic_v2.c: an interrupt that has been injected leads to
\* the VM acknowledging it.
InjectedIsAcknowledged ==
  \A v \in VCPUS, idx \in LRs :
    vm.lr[v][idx] = "pending" /\ v \in online ~> vm.exit[v] = <<"maint", idx>>
=============================================================================
