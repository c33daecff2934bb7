----------------------------- MODULE VGICLossProofs -----------------------------
(***************************************************************************)
(* Proofs about VGIC, second part: nothing is lost to a full queue if the   *)
(* interrupts in use fit, nothing that is disabled is delivered and no     *)
(* level is forgotten.                                                     *)
(***************************************************************************)
EXTENDS VGICProofs, FiniteSetTheorems

\* Leaves that name no prover go to Zenon.
USE ZenonT(30)

(***************************************************************************)
(* No interrupt is lost to a queue overflow, if the list registers and the *)
(* queue of a vCPU have room for the interrupts in use                     *)
(***************************************************************************)
\* The guest clears no pending bits, and the interrupts in use fit: the ring holds
\* MaxIrqQueueLen - 1 of them.  Where an acknowledgement can inject, one more
\* place is needed: it runs while the register just vacated is still empty.
QueueRoom ==
  /\ "ICPENDR" \notin GuestOps
  /\ IsFiniteSet(Irqs) /\ Cardinality(Irqs) < NumListRegs + MaxIrqQueueLen
  /\ LevelIrqs # {} \/ ReinjectIrqs # {} =>
       Cardinality(Irqs) + 1 < NumListRegs + MaxIrqQueueLen

\* The room is enough while the registers of X may be empty beside a queue.
HasRoom(X) ==
  \A v \in VCPUS :
    \/ X[v] = {}
    \/ /\ Cardinality(Irqs) + 1 < NumListRegs + MaxIrqQueueLen
       /\ \E e \in LRs : X[v] = {e}

\* Where interrupt number k of vCPU v is kept: list registers, then the queue;
\* the number behind the last place is the interrupt i that is to be queued.
Place(s, v, i, k) ==
  IF k \in LRs THEN s.lr_shadow[v][k]
  ELSE IF k - NumListRegs + 1 \in 1 .. Len(s.irq_queue[v])
         THEN s.irq_queue[v][k - NumListRegs + 1] ELSE i

\* The places of a vCPU, an interrupt that is at none of them included, hold
\* different interrupts.
LEMMA PlacesDiffer ==
  ASSUME NEW s \in Fields, Once(s), NEW v \in VCPUS, NEW i \in Irqs, ~Resident(s, v, i),
         NEW k \in 0 .. NumListRegs + Len(s.irq_queue[v]), k \notin EmptyListRegs(s, v),
         NEW l \in 0 .. NumListRegs + Len(s.irq_queue[v]), l \notin EmptyListRegs(s, v), k < l
  PROVE  Place(s, v, i, k) # Place(s, v, i, l)
<1> DEFINE q == s.irq_queue[v]
           n == NumListRegs
           a == k - n + 1
           b == l - n + 1
<1>0. q \in Seq(Irqs) /\ Len(q) \in Nat /\ n \in Nat /\ \A c \in 1 .. Len(q) : q[c] \in Irqs
  BY ConstantsAssumption, SMTT(30) DEF Fields
<1>1. \A c \in LRs : c \notin EmptyListRegs(s, v) => s.lr_shadow[v][c] \in Irqs
  BY SMTT(30) DEF Fields, EmptyListRegs
<1>2. CASE k \in LRs /\ l \in LRs
  BY <1>2, SMTT(30) DEF Place, Once, EmptyListRegs
<1>3. CASE k \in LRs /\ l \notin LRs
  <2>1. CASE b \in 1 .. Len(q)
    <3>1. Place(s, v, i, k) = s.lr_shadow[v][k] /\ Place(s, v, i, l) = q[b]
      BY <1>3, <2>1 DEF Place
    <3>2. InQueue(s, v, q[b]) /\ q[b] \in Irqs
      BY <1>0, <2>1 DEF InQueue
    <3>3. ~InListReg(s, v, q[b])
      BY <3>2 DEF Once
    <3> QED BY <1>3, <3>1, <3>3 DEF InListReg
  <2>2. CASE b \notin 1 .. Len(q)
    <3>1. Place(s, v, i, k) = s.lr_shadow[v][k] /\ Place(s, v, i, l) = i
      BY <1>3, <2>2 DEF Place
    <3> QED BY <1>3, <3>1 DEF Resident, InListReg
  <2> QED BY <2>1, <2>2
<1>4. CASE k \notin LRs
  <2>1. l \notin LRs /\ a \in 1 .. Len(q) /\ a < b
    BY <1>0, <1>4, SMTT(30) DEF LRs
  <2>2. Place(s, v, i, k) = q[a]
    BY <1>4, <2>1 DEF Place
  <2>3. CASE b \in 1 .. Len(q)
    <3>1. Place(s, v, i, l) = q[b]
      BY <2>1, <2>3 DEF Place
    <3>2. a # b
      BY <1>0, <2>1, SMTT(30)
    <3> QED BY <2>1, <2>2, <2>3, <3>1, <3>2 DEF Once
  <2>4. CASE b \notin 1 .. Len(q)
    <3>1. Place(s, v, i, l) = i
      BY <2>1, <2>4 DEF Place
    <3> QED BY <2>1, <2>2, <3>1 DEF Resident, InQueue
  <2> QED BY <2>3, <2>4, SMTT(30)
<1> QED BY <1>2, <1>3, <1>4

\* A vCPU's queue has room for an interrupt that is not pending.
LEMMA QueueHasRoom ==
  ASSUME QueueRoom, NEW X, HasRoom(X), NEW s, GoodA(s, X), GoodB(s),
         NEW v \in VCPUS, NEW i \in Irqs, Line(v, i) \notin s.pending
  PROVE  ~QueueFull(s, v)
<1> SUFFICES ASSUME QueueFull(s, v) PROVE FALSE
  OBVIOUS
<1> DEFINE len == Len(s.irq_queue[v])
           E == EmptyListRegs(s, v)
           top == NumListRegs + len
           A == 0 .. top
           S == A \ E
           f == [k \in S |-> Place(s, v, i, k)]
<1>1. /\ s \in Fields /\ Once(s) /\ ~Resident(s, v, i)
      /\ s.irq_queue[v] \in Seq(Irqs) /\ len \in Nat
  BY NotPendingNowhere, SMTT(30) DEF GoodA, GoodB, TypeS, Fields
<1>2. /\ NumListRegs \in Nat /\ MaxIrqQueueLen \in Nat /\ MaxIrqQueueLen > 1
      /\ len >= MaxIrqQueueLen - 1
  BY ConstantsAssumption, SMTT(30) DEF QueueFull
<1>3. s.irq_queue[v] # <<>>
  BY <1>1, <1>2, SMTT(30)
<1>4. E \subseteq X[v]
  BY <1>3 DEF GoodA, QF
<1>5. top \in Nat /\ top + 1 >= NumListRegs + MaxIrqQueueLen
  BY <1>1, <1>2, SMTT(30)
<1>6. IsFiniteSet(Irqs) /\ Cardinality(Irqs) \in Nat
  BY FS_CardinalityType DEF QueueRoom
<1>7. f \in [S -> Irqs]
  <2> SUFFICES ASSUME NEW k \in S PROVE Place(s, v, i, k) \in Irqs
    OBVIOUS
  <2>1. k \in LRs => s.lr_shadow[v][k] \in Irqs
    BY <1>1, SMTT(30) DEF Fields, EmptyListRegs
  <2> QED BY <1>1, <2>1, SMTT(30) DEF Place
<1>8. \A k, l \in S : k # l => Place(s, v, i, k) # Place(s, v, i, l)
  <2>1. \A k, l \in S : k < l => Place(s, v, i, k) # Place(s, v, i, l)
    BY <1>1, PlacesDiffer
  <2> QED BY <1>5, <2>1, SMTT(30)
<1> HIDE DEF E, top
<1>9. IsFiniteSet(A) /\ Cardinality(A) = top + 1
  <2>1. 0 \in Int /\ top \in Int /\ ~(0 > top)
    BY <1>5, SMTT(30)
  <2>2. IsFiniteSet(0 .. top) /\ Cardinality(0 .. top) = IF 0 > top THEN 0 ELSE top - 0 + 1
    BY <2>1, FS_Interval
  <2> QED BY <1>5, <2>1, <2>2, SMTT(30)
<1> HIDE DEF A, f
<1>10. \/ S = A
       \/ /\ Cardinality(Irqs) + 1 < NumListRegs + MaxIrqQueueLen
          /\ \E e \in LRs : S = A \ {e}
  <2>1. CASE E = {}
    BY <2>1
  <2>2. CASE E # {}
    <3>1. X[v] # {}
      BY <1>4, <2>2
    <3>2. PICK e \in LRs : X[v] = {e} /\ Cardinality(Irqs) + 1 < NumListRegs + MaxIrqQueueLen
      BY <3>1 DEF HasRoom
    <3> QED BY <1>4, <2>2, <3>2
  <2> QED BY <2>1, <2>2
<1> HIDE DEF S
<1>11. IsFiniteSet(S) /\ Cardinality(Irqs) < Cardinality(S)
  <2>1. CASE S = A
    <3>1. Cardinality(Irqs) < NumListRegs + MaxIrqQueueLen
      BY DEF QueueRoom
    <3> QED BY <1>2, <1>5, <1>6, <1>9, <2>1, <3>1, SMTT(30)
  <2>2. CASE /\ Cardinality(Irqs) + 1 < NumListRegs + MaxIrqQueueLen
             /\ \E e \in LRs : S = A \ {e}
    <3>1. PICK e \in LRs : S = A \ {e}
      BY <2>2
    <3>2. IsFiniteSet(S) /\ (Cardinality(S) = Cardinality(A) - 1 \/ Cardinality(S) = Cardinality(A))
      BY <1>9, <3>1, FS_RemoveElement
    <3> QED BY <1>2, <1>5, <1>6, <1>9, <2>2, <3>2, SMTT(30)
  <2> QED BY <1>10, <2>1, <2>2
<1>12. \E k, l \in S : k # l /\ f[k] = f[l]
  BY <1>6, <1>7, <1>11, FS_PigeonHole
<1> QED BY <1>8, <1>12 DEF f

\* No interrupt has been lost, and no level is asserted unless a device uses levels.
GoodD(s) == s.dropped = {} /\ (LevelIrqs = {} => s.level = {})

\* What a step leaves of dropped and level keeps GoodD.
LEMMA SameGoodD ==
  ASSUME NEW s, GoodD(s), NEW r, r.dropped = s.dropped, r.level \subseteq s.level
  PROVE  GoodD(r)
BY DEF GoodD

\* Injections lose nothing.
LEMMA InjectGoodD ==
  ASSUME QueueRoom, NEW X, HasRoom(X), NEW s, GoodA(s, X), GoodB(s), GoodD(s),
         NEW v \in VCPUS, NEW i \in Irqs
  PROVE  GoodD(vgic_dist_set_pending_irq(s, v, i)) /\ GoodD(vm_inject_irq(s, v, i))
<1> DEFINE p == vgic_dist_set_pending_irq(s, v, i)
           r == vm_inject_irq(s, v, i)
<1>1. GoodA(p, X)
  BY SetPendingGoodA
<1>2. \/ p = s
      \/ Line(v, i) \notin s.pending /\ QueueFull(s, v)
      \/ Injected(p, s, v, i)
  BY SetPendingOutcome
<1>3. \/ p.exit[v] = <<"parked">> /\ r = SetExit(p, v, <<"run">>)
      \/ p.exit[v] # <<"parked">> /\ r = p
  BY WakeCases
<1> HIDE DEF p, r
<1>4. p = s \/ Injected(p, s, v, i)
  BY <1>2, QueueHasRoom
<1>5. GoodD(p)
  BY <1>4 DEF Injected, GoodD
<1>6. CASE r = SetExit(p, v, <<"run">>)
  <2>1. OnlyExit(r, p, v, <<"run">>)
    BY <1>1, <1>6, SetExitEffect DEF GoodA, TypeS, Exits
  <2>2. GoodD(r)
    BY <1>5, <2>1 DEF OnlyExit, GoodD
  <2> QED BY <1>5, <2>2 DEF p, r
<1> QED BY <1>3, <1>5, <1>6 DEF p, r

\* The callbacks and the level handling lose nothing.
LEMMA IrqAckGoodD ==
  ASSUME QueueRoom, NEW X, HasRoom(X), NEW s, GoodA(s, X), GoodB(s), GoodD(s),
         NEW v \in VCPUS, NEW i \in Irqs, NEW again
  PROVE  GoodD(vgic_irq_ack(s, v, i, again))
<1> DEFINE a == virq_ack(s, v, i, again)
           r == vgic_handle_level(a, v, i)
           m == s.masked \ {<<v, i>>}
           l == a.level \ {Line(v, i)}
<1>0. s \in Fields /\ m \in SUBSET (VCPUS \X PPIS) /\ BOOT_VCPU \in VCPUS
  BY ConstantsAssumption DEF GoodA, TypeS, Fields
<1>1. a = s \/ a = SetMasked(s, m) \/ a = vm_inject_irq(s, BOOT_VCPU, i)
  BY SMTT(30) DEF virq_ack, SetMasked
<1>2. GoodA(a, X)
  BY VirqAckGoodA, SMTT(30)
<1>3. r = a \/ r = SetLevel(a, l) \/ r = vm_inject_irq(a, v, i)
  BY DEF vgic_handle_level, SetLevel
<1>4. vgic_irq_ack(s, v, i, again) = r
  BY DEF vgic_irq_ack
<1> HIDE DEF a, r, m
<1>5. GoodB(a) /\ GoodD(a)
  <2>1. CASE a = SetMasked(s, m)
    <3>1. OnlyCfg(a, s, s.level, m, s.enabled)
      BY <1>0, <2>1, CfgEffects
    <3>2. a.dropped = s.dropped /\ a.level \subseteq s.level
      BY <3>1 DEF OnlyCfg
    <3> QED BY <3>1, <3>2, CfgGoodB, SameGoodD
  <2> QED BY <1>0, <1>1, <2>1, InjectGoodB, InjectGoodD
<1>6. a \in Fields /\ l \in SUBSET Lines /\ l \subseteq a.level
  BY <1>2 DEF GoodA, TypeS, Fields
<1> HIDE DEF l
<1>7. GoodD(r)
  <2>1. CASE r = SetLevel(a, l)
    <3>1. OnlyCfg(r, a, l, a.masked, a.enabled)
      BY <1>6, <2>1, CfgEffects
    <3>2. r.dropped = a.dropped /\ r.level \subseteq a.level
      BY <1>6, <3>1 DEF OnlyCfg
    <3> QED BY <1>5, <3>2, SameGoodD
  <2> QED BY <1>2, <1>3, <1>5, <2>1, InjectGoodD
<1> QED BY <1>4, <1>7

\* Between two messages there is room.
LEMMA RoomNoX == HasRoom(NoX)
BY DEF HasRoom, NoX

\* The maintenance handler loses nothing, also when the acknowledgement of the
\* interrupt that ended injects while its register is empty.
LEMMA MaintenanceGoodD ==
  ASSUME QueueRoom, NEW s, GoodA(s, NoX), GoodB(s), GoodD(s),
         NEW v \in VCPUS, NEW idx \in LRs, NEW again, s.exit[v] = <<"maint", idx>>
  PROVE  GoodD(handle_vgic_maintenance(s, v, idx, again))
<1> DEFINE i == s.lr_shadow[v][idx]
           a == Retire(s, v, idx)
           b == vgic_irq_ack(a, v, i, again)
           r == handle_vgic_maintenance(s, v, idx, again)
           m == IF i \in PPIS THEN a.masked \ {<<v, i>>} ELSE a.masked
<1>1. s \in Fields /\ i \in Irqs /\ i # NoIrq
  BY SMTT(30) DEF GoodA, TypeS, Fields, Mirror
<1>2. Retired(a, s, v, idx)
  BY <1>1, RetireEffect
<1>3. r = Refill(b, v, idx)
  BY DEF handle_vgic_maintenance
<1> HIDE DEF a, r
<1>4. GoodA(a, OneX(v, idx)) /\ a.lr[v][idx] = "invalid" /\ a \in Fields
  BY <1>2, RetireGoodA DEF GoodA, TypeS
<1>5. GoodB(a)
  BY <1>1, <1>2, RetireGoodB
<1>6. GoodD(a)
  BY <1>2 DEF Retired, GoodD
<1> HIDE DEF i
<1>7. GoodA(b, OneX(v, idx)) /\ Quiet(b, a)
  BY <1>1, <1>4, IrqAckGoodA
<1>8. GoodD(b)
  <2>1. CASE Cardinality(Irqs) + 1 < NumListRegs + MaxIrqQueueLen
    <3>1. HasRoom(OneX(v, idx))
      BY <2>1 DEF HasRoom, OneX
    <3> QED BY <1>1, <1>4, <1>5, <1>6, <3>1, IrqAckGoodD
  <2>2. CASE ~(Cardinality(Irqs) + 1 < NumListRegs + MaxIrqQueueLen)
    <3>1. NoReinjection /\ a.level = {}
      BY <1>6, <2>2 DEF QueueRoom, NoReinjection, GoodD
    <3>2. OnlyCfg(b, a, {}, m, a.enabled)
      BY <1>1, <1>4, <3>1, QuietAck
    <3> HIDE DEF b, m
    <3>3. b.dropped = a.dropped /\ b.level \subseteq a.level
      BY <3>2 DEF OnlyCfg
    <3> QED BY <1>6, <3>3, SameGoodD DEF b
  <2> QED BY <2>1, <2>2
<1> HIDE DEF b
<1>9. InjectIRQ_ok(b, v, idx) /\ b \in Fields
  BY <1>4, <1>7 DEF Quiet, InjectIRQ_ok, GoodA, TypeS
<1>10. Refilled(r, b, v, idx)
  BY <1>3, <1>9, RefillEffect
<1>11. r.dropped = b.dropped /\ r.level \subseteq b.level
  BY <1>9, <1>10, RefillHomes, SMTT(30)
<1> QED BY <1>8, <1>11, SameGoodD DEF r

\* Enabling and disabling lose nothing.
LEMMA EnableGoodD ==
  ASSUME QueueRoom, NEW s, GoodA(s, NoX), GoodB(s), GoodD(s),
         NEW v \in VCPUS, NEW i \in Irqs, NEW again
  PROVE  /\ GoodD(vgic_dist_enable_irq(s, v, i, again))
         /\ GoodD(vgic_dist_disable_irq(s, v, i))
<1> DEFINE on == s.enabled \cup {Line(v, i)}
           off == s.enabled \ {Line(v, i)}
           e == set_enable(s, v, i, TRUE)
           d == set_enable(s, v, i, FALSE)
<1>0. s \in Fields /\ on \in SUBSET Lines /\ off \in SUBSET Lines
  BY LineType DEF GoodA, TypeS, Fields
<1>1. e = SetEnabled(s, on) /\ d = SetEnabled(s, off)
  BY DEF set_enable, SetEnabled
<1> HIDE DEF on, off
<1>2. OnlyCfg(e, s, s.level, s.masked, on) /\ OnlyCfg(d, s, s.level, s.masked, off)
  BY <1>0, <1>1, CfgEffects
<1>3. /\ vgic_dist_enable_irq(s, v, i, again) \in {e, vgic_irq_ack(e, v, i, again)}
      /\ vgic_dist_disable_irq(s, v, i) \in {s, d}
  BY DEF vgic_dist_enable_irq, vgic_dist_disable_irq
<1> HIDE DEF e, d
<1>4. GoodA(e, NoX) /\ GoodB(e)
  BY <1>2, CfgGoodA, CfgGoodB
<1>5. GoodD(e) /\ GoodD(d)
  BY <1>2 DEF OnlyCfg, GoodD
<1>6. GoodD(vgic_irq_ack(e, v, i, again))
  BY <1>4, <1>5, RoomNoX, IrqAckGoodD
<1> QED BY <1>3, <1>5, <1>6

\* The inductive invariant behind NoOverflow.
IndD == IndB /\ GoodD(vm)

\* Handlers lose nothing.
LEMMA HandlerIndD ==
  ASSUME QueueRoom, IndD, NEW v \in VCPUS, VmmHandler(v)
  PROVE  GoodD(vm')
<1>0. GoodA(vm, NoX) /\ vm \in Fields /\ GoodB(vm) /\ GoodD(vm)
  BY DEF IndD, IndB, IndA, GoodA, TypeS
<1>1. CASE vm_vgic_maintenance_handler(v)
  <2>1. PICK idx \in LRs, again \in BOOLEAN :
          /\ vm.exit[v] = <<"maint", idx>>
          /\ vm' = handle_vgic_maintenance(vm, v, idx, again)
    BY <1>1 DEF vm_vgic_maintenance_handler
  <2> QED BY <1>0, <2>1, MaintenanceGoodD
<1>2. CASE vm_vppi_event_handler(v)
  <2>1. PICK i \in PPIS :
          LET p == vm_inject_irq(vm, v, i)
          IN vm' = [p EXCEPT !.exit[v] = <<"run">>,
                             !.masked = IF set_pending_fails(vm, v, i)
                                          THEN @ \ {<<v, i>>} ELSE @]
    BY <1>2 DEF vm_vppi_event_handler
  <2> DEFINE p == vm_inject_irq(vm, v, i)
  <2>2. i \in Irqs
    BY DEF Irqs, Locals
  <2>3. GoodA(p, NoX) /\ GoodD(p)
    BY <1>0, <2>2, RoomNoX, InjectGoodA, InjectGoodD
  <2>4. p \in Fields
    BY <2>3 DEF GoodA, TypeS
  <2> HIDE DEF p
  <2>5. vm'.dropped = p.dropped /\ vm'.level \subseteq p.level
    BY <2>1, <2>4 DEF Fields, p
  <2> QED BY <2>3, <2>5, SameGoodD
<1>3. CASE vm_vcpu_handler_wfi(v)
  <2>1. vm'.dropped = vm.dropped /\ vm'.level \subseteq vm.level
    BY <1>0, <1>3 DEF vm_vcpu_handler_wfi, Fields
  <2> QED BY <1>0, <2>1, SameGoodD
<1> QED BY <1>1, <1>2, <1>3 DEF VmmHandler

\* Devices lose nothing.
LEMMA DeviceIndD ==
  ASSUME QueueRoom, IndD, NEW v \in VCPUS, Device(v)
  PROVE  GoodD(vm')
<1>0. GoodA(vm, NoX) /\ vm \in Fields /\ GoodB(vm) /\ GoodD(vm)
  BY SMTT(30) DEF IndD, IndB, IndA, GoodA, TypeS
<1>a. LevelIrqs \subseteq Irqs /\ SPIS \subseteq Irqs
  BY ConstantsAssumption DEF Irqs, Locals
<1>1. ASSUME NEW i \in Irqs, vm_register_irq(v, i) PROVE GoodD(vm')
  <2>1. vm'.dropped = vm.dropped /\ vm'.level \subseteq vm.level
    BY <1>0, <1>1 DEF vm_register_irq, virq_add, Fields
  <2> QED BY <1>0, <2>1, SameGoodD
<1>2. ASSUME NEW i \in SPIS, DeviceInject(v, i) PROVE GoodD(vm')
  BY <1>0, <1>a, <1>2, RoomNoX, InjectGoodD DEF DeviceInject
<1>3. ASSUME NEW i \in LevelIrqs, NEW up \in BOOLEAN, vm_set_irq_level(v, i, up)
      PROVE  GoodD(vm')
  <2> DEFINE hi == vm.level \cup {Line(v, i)}
             lo == vm.level \ {Line(v, i)}
             a == SetLevel(vm, hi)
             b == SetLevel(vm, lo)
  <2>1. hi \in SUBSET Lines /\ lo \in SUBSET Lines /\ i \in Irqs
    BY <1>0, <1>a, LineType DEF Fields
  <2>2. OnlyCfg(a, vm, hi, vm.masked, vm.enabled) /\ OnlyCfg(b, vm, lo, vm.masked, vm.enabled)
    BY <1>0, <2>1, CfgEffects
  <2>3. vm' \in {vm, vm_inject_irq(a, v, i), b}
    BY <1>3 DEF vm_set_irq_level, SetLevel
  <2> HIDE DEF a, b
  <2>4. GoodA(a, NoX) /\ GoodB(a)
    BY <1>0, <2>2, CfgGoodA, CfgGoodB
  <2>5. GoodD(a) /\ GoodD(b)
    BY <1>0, <2>2 DEF OnlyCfg, GoodD
  <2>6. GoodD(vm_inject_irq(a, v, i))
    BY <2>1, <2>4, <2>5, RoomNoX, InjectGoodD
  <2> QED BY <1>0, <2>3, <2>5, <2>6
<1> QED BY <1>1, <1>2, <1>3 DEF Device

\* The iterations of distributor writes lose nothing.
LEMMA WriteStepIndD ==
  ASSUME QueueRoom, IndD, WriteStep
  PROVE  GoodD(vm')
<1>0. GoodA(vm, NoX) /\ GoodB(vm) /\ GoodD(vm) /\ write \in Writes
  BY DEF IndD, IndB, IndA
<1>1. CASE WriteBitsStep
  <2>1. PICK i \in Irqs, again \in BOOLEAN :
          vm' = CASE write.op = "ISENABLER" -> vgic_dist_enable_irq(vm, write.vcpu, i, again)
                  [] write.op = "ICENABLER" -> vgic_dist_disable_irq(vm, write.vcpu, i)
                  [] write.op = "ISPENDR"   -> vgic_dist_set_pending_irq(vm, write.vcpu, i)
                  [] write.op = "ICPENDR"   -> vgic_dist_clr_pending_irq(vm, write.vcpu, i)
    BY <1>1 DEF WriteBitsStep
  <2>2. write.op \in BitOps /\ write.op # "idle" /\ write.op # "ICPENDR"
    BY <1>1 DEF WriteBitsStep, BitOps, IndD, IndB, IndA, QueueRoom
  <2>3. write.vcpu \in VCPUS
    BY <1>0, <2>2, NextWriteType
  <2>4. /\ GoodD(vgic_dist_enable_irq(vm, write.vcpu, i, again))
        /\ GoodD(vgic_dist_disable_irq(vm, write.vcpu, i))
        /\ GoodD(vgic_dist_set_pending_irq(vm, write.vcpu, i))
    BY <1>0, <2>3, RoomNoX, EnableGoodD, InjectGoodD
  <2> QED BY <2>1, <2>2, <2>4 DEF BitOps
<1>2. CASE WriteSGIRStep
  <2>1. PICK t \in VCPUS : vm' = IF t \in online THEN vm_inject_irq(vm, t, write.irq) ELSE vm
    BY <1>2 DEF WriteSGIRStep
  <2>2. write.op \notin BitOps /\ write.op # "idle"
    BY <1>2 DEF WriteSGIRStep, BitOps
  <2>3. write.irq \in Irqs
    BY <1>0, <2>2, NextWriteType DEF Irqs, Locals
  <2> QED BY <1>0, <2>1, <2>3, RoomNoX, InjectGoodD
<1> QED BY <1>1, <1>2 DEF WriteStep

\* The guest's own steps lose nothing.
LEMMA GuestIndD ==
  ASSUME IndD, NEW v \in VCPUS, Guest(v) \/ DistWrite(v) \/ vcpu_start(v)
  PROVE  GoodD(vm')
<1>0. vm \in Fields /\ GoodD(vm)
  BY DEF IndD, IndB, IndA, GoodA, TypeS
<1>1. vm'.dropped = vm.dropped /\ vm'.level = vm.level
  BY <1>0 DEF Guest, DistWrite, vcpu_start, GuestTake, GuestEOI, VppiFires, GuestWFI,
              WriteCTLR, WriteICFGR, WriteBits, WriteSGIR, Fields
<1> QED BY <1>0, <1>1 DEF GoodD

\* Every step keeps IndD.
LEMMA NextIndD ==
  ASSUME QueueRoom
  PROVE  IndD /\ [Next]_vars => IndD'
<1> SUFFICES ASSUME IndD, [Next]_vars PROVE IndD'
  OBVIOUS
<1>1. IndB'
  BY NextIndB DEF IndD, QueueRoom
<1>2. ASSUME NEW v \in VCPUS, VmmHandler(v) PROVE GoodD(vm')
  BY <1>2, HandlerIndD
<1>3. ASSUME NEW v \in VCPUS, Guest(v) \/ DistWrite(v) \/ vcpu_start(v) PROVE GoodD(vm')
  BY <1>3, GuestIndD
<1>4. ASSUME NEW v \in VCPUS, Device(v) PROVE GoodD(vm')
  BY <1>4, DeviceIndD, SMTT(30)
<1>5. ASSUME WriteStep PROVE GoodD(vm')
  BY <1>5, WriteStepIndD
<1>6. ASSUME UNCHANGED vars PROVE GoodD(vm')
  BY <1>6 DEF vars, IndD
<1>7. GoodD(vm')
  BY <1>2, <1>3, <1>4, <1>5, <1>6 DEF Next
<1> QED BY <1>1, <1>7 DEF IndD

\* When the interrupts in use fit into the list registers and the queue of a vCPU,
\* vgic_dist_set_pending_irq never reports an overflow: each line takes one place
\* only, so the queue is never full when a line that is not pending is injected.
THEOREM NoOverflowCorrect ==
  ASSUME QueueRoom
  PROVE  Spec => []NoOverflow
<1>1. IndD => NoOverflow
  BY DEF IndD, GoodD, NoOverflow
<1>2. IndD /\ [Next]_vars => IndD'
  BY NextIndD
<1>3. Init => IndD
  BY InitIndB, SMTT(30) DEF Init, IndD, GoodD
<1> QED BY <1>1, <1>2, <1>3, PTL DEF Spec

(***************************************************************************)
(* What a step may not do: deliver a disabled interrupt, forget a level    *)
(***************************************************************************)
\* r and s can deliver the same interrupts.
SameCan(r, s) ==
  /\ r.enable = s.enable /\ r.enabled = s.enabled
  /\ r.local_virqs = s.local_virqs /\ r.vspis = s.vspis

\* From s to r only deliverable interrupts found a home, no pending bit was
\* cleared and no level raised.
Grows(r, s) ==
  /\ SameCan(r, s) /\ r.edge = s.edge
  /\ r.level \subseteq s.level /\ s.pending \subseteq r.pending
  /\ \A w \in VCPUS, j \in Irqs : Resident(r, w, j) => Resident(s, w, j) \/ Deliverable(s, w, j)

\* What can be delivered depends on these parts of the state only.
LEMMA SameCanDeliver ==
  ASSUME NEW r, NEW s, SameCan(r, s), NEW w, NEW j
  PROVE  Deliverable(r, w, j) <=> Deliverable(s, w, j)
BY DEF SameCan, Deliverable, virq_find_irq_data

\* Growing twice is growing.
LEMMA GrowsTrans ==
  ASSUME NEW s, NEW p, NEW r, Grows(p, s), Grows(r, p)
  PROVE  Grows(r, s)
<1>1. \A w \in VCPUS, j \in Irqs : Deliverable(p, w, j) <=> Deliverable(s, w, j)
  BY SameCanDeliver DEF Grows
<1> QED BY <1>1 DEF Grows, SameCan

\* So is leaving homes, configuration and pending bits alone.
LEMMA SameHomesGrows ==
  ASSUME NEW s, NEW r, SameHomes(r, s), SameCan(r, s), r.edge = s.edge,
         r.level \subseteq s.level, s.pending \subseteq r.pending
  PROVE  Grows(r, s)
BY SameHomesResident DEF Grows

\* An interrupt line is deliverable for one vCPU that shares it iff for the other.
LEMMA DeliverableLine ==
  ASSUME NEW s, NEW v \in VCPUS, NEW i \in Irqs, NEW w \in VCPUS, NEW j \in Irqs,
         Line(w, j) = Line(v, i)
  PROVE  /\ j = i /\ (Deliverable(s, w, j) <=> Deliverable(s, v, i))
         /\ virq_find_irq_data(s, w, j) <=> virq_find_irq_data(s, v, i)
<1>1. j = i /\ (i \in Locals => w = v)
  BY LineInjective DEF Line
<1> QED BY <1>1 DEF Deliverable, virq_find_irq_data

\* An injection grows, and a deliverable interrupt is pending after it.
LEMMA InjectGrows ==
  ASSUME NEW s, NEW X, GoodA(s, X), NEW v \in VCPUS, NEW i \in Irqs,
         NEW r, r \in {vgic_dist_set_pending_irq(s, v, i), vm_inject_irq(s, v, i)}
  PROVE  Grows(r, s) /\ r.level = s.level /\ (Deliverable(s, v, i) => Line(v, i) \in r.pending)
<1> DEFINE d == vgic_dist_set_pending_irq(s, v, i)
           p == set_pending(s, v, i, TRUE)
           u == vm_inject_irq(s, v, i)
           l == Line(v, i)
           Goal(x) == Grows(x, s) /\ x.level = s.level /\ (Deliverable(s, v, i) => l \in x.pending)
<1>0. s \in Fields
  BY DEF GoodA, TypeS
<1>1. /\ GoodA(d, X)
      /\ \/ d.exit[v] = <<"parked">> /\ u = SetExit(d, v, <<"run">>)
         \/ d.exit[v] # <<"parked">> /\ u = d
  BY SetPendingGoodA, WakeCases
<1>2. \/ d = s /\ (~Deliverable(s, v, i) \/ l \in s.pending)
      \/ d = Overflowed(s, v, i)
      \/ ~QueueFull(s, v) /\ d = EnqueueAndLoad(p, v, i)
  BY SetPendingCases
<1> HIDE DEF d, u
<1>3. ASSUME d = s /\ (~Deliverable(s, v, i) \/ l \in s.pending) PROVE Goal(d)
  <2>1. Grows(s, s)
    BY DEF Grows, SameCan
  <2> QED BY <1>3, <2>1
<1>4. ASSUME d = Overflowed(s, v, i) PROVE Goal(d)
  <2>1. DroppedAt(d, s, l)
    BY <1>0, <1>4, OverflowEffect
  <2>2. SameHomes(d, s) /\ SameCan(d, s)
    BY <2>1 DEF DroppedAt, SameHomes, SameCan
  <2>3. d.edge = s.edge /\ d.level = s.level /\ d.pending = s.pending \cup {l}
    BY <2>1 DEF DroppedAt
  <2>4. Grows(d, s)
    BY <2>2, <2>3, SameHomesGrows
  <2> QED BY <2>3, <2>4
<1>5. ASSUME ~QueueFull(s, v) /\ d = EnqueueAndLoad(p, v, i) PROVE Goal(d)
  <2>1. OnlyPending(p, s, s.pending \cup {l})
    BY <1>0, SetPendingEffect
  <2> HIDE DEF p, l
  <2>2. SameCore(p, s) /\ p \in Fields /\ SameHomes(p, s)
    BY <2>1 DEF OnlyPending, SameCore, SameHomes
  <2>3. GoodA(p, X) /\ Mirror(p)
    BY <2>2, SameCoreGoodA DEF GoodA
  <2>4. ~QueueFull(p, v)
    BY <1>5, <2>2 DEF QueueFull, SameCore
  <2>5. SameDist(d, p)
    BY <1>5, <2>3, <2>4, EnqueueGoodA
  <2>6. \A w \in VCPUS, j \in Irqs : Resident(d, w, j) <=> Resident(s, w, j) \/ (w = v /\ j = i)
    BY <1>5, <2>2, <2>3, EnqueueResident, SameHomesResident, SMTT(30)
  <2>7. /\ SameCan(d, s) /\ d.edge = s.edge /\ d.level = s.level
        /\ d.pending = s.pending \cup {l}
    BY <2>1, <2>5 DEF SameDist, OnlyPending, SameCan
  <2>8. CASE Deliverable(s, v, i)
    <3>1. Grows(d, s)
      BY <2>6, <2>7, <2>8 DEF Grows
    <3> QED BY <2>7, <3>1
  <2>9. CASE ~Deliverable(s, v, i)
    <3>1. d = s
      BY <2>9 DEF d, vgic_dist_set_pending_irq
    <3>2. Grows(s, s)
      BY SMTT(30) DEF Grows, SameCan
    <3> QED BY <2>9, <3>1, <3>2
  <2> QED BY <2>8, <2>9
<1>6. Goal(d)
  BY <1>2, <1>3, <1>4, <1>5
<1>7. CASE u = SetExit(d, v, <<"run">>)
  <2>1. OnlyExit(u, d, v, <<"run">>)
    BY <1>1, <1>7, SetExitEffect DEF GoodA, TypeS, Exits
  <2>2. SameHomes(u, d) /\ SameCan(u, d) /\ u.edge = d.edge /\ u.level = d.level /\ u.pending = d.pending
    BY <2>1 DEF OnlyExit, SameHomes, SameCan
  <2>3. Grows(u, d)
    BY <2>2, SameHomesGrows
  <2>4. Grows(u, s)
    BY <1>6, <2>3, GrowsTrans
  <2> QED BY <1>6, <2>2, <2>4 DEF d, u
<1> QED BY <1>1, <1>6, <1>7 DEF d, u

\* An acknowledgement grows, and a level that stays asserted is pending after it.
LEMMA AckGrows ==
  ASSUME NEW s, NEW X, GoodA(s, X), NEW v \in VCPUS, NEW i \in Irqs, NEW again,
         NEW r, r = vgic_irq_ack(s, v, i, again)
  PROVE  /\ Grows(r, s)
         /\ Line(v, i) \in r.level /\ ~vgic_dist_is_edge_triggered(r, i) /\ Deliverable(r, v, i) =>
              Line(v, i) \in r.pending
<1> DEFINE a == virq_ack(s, v, i, again)
           m == s.masked \ {<<v, i>>}
           l == a.level \ {Line(v, i)}
<1>0. s \in Fields /\ m \in SUBSET (VCPUS \X PPIS) /\ BOOT_VCPU \in VCPUS
  BY ConstantsAssumption DEF GoodA, TypeS, Fields
<1>1. a = s \/ a = SetMasked(s, m) \/ a = vm_inject_irq(s, BOOT_VCPU, i)
  BY DEF virq_ack, SetMasked
<1>2. GoodA(a, X)
  BY VirqAckGoodA
<1>3. \/ r = a /\ Line(v, i) \notin a.level
      \/ r = SetLevel(a, l) /\ Line(v, i) \in a.level
      \/ r = vm_inject_irq(a, v, i)
  BY DEF vgic_irq_ack, vgic_handle_level, SetLevel
<1> HIDE DEF a, m
<1>4. Grows(a, s)
  <2>1. CASE a = s
    BY <2>1 DEF Grows, SameCan
  <2>2. CASE a = SetMasked(s, m)
    <3>1. OnlyCfg(a, s, s.level, m, s.enabled)
      BY <1>0, <2>2, CfgEffects
    <3>2. SameHomes(a, s) /\ SameCan(a, s) /\ a.edge = s.edge /\ a.level = s.level /\ a.pending = s.pending
      BY <3>1 DEF OnlyCfg, SameHomes, SameCan
    <3> QED BY <3>2, SameHomesGrows
  <2>3. CASE a = vm_inject_irq(s, BOOT_VCPU, i)
    BY <1>0, <2>3, InjectGrows
  <2> QED BY <1>1, <2>1, <2>2, <2>3
<1>5. a \in Fields /\ l \in SUBSET Lines /\ l \subseteq a.level /\ Line(v, i) \notin l
  BY <1>2 DEF GoodA, TypeS, Fields
<1> HIDE DEF l
<1>6. CASE r = a /\ Line(v, i) \notin a.level
  BY <1>4, <1>6
<1>7. CASE r = SetLevel(a, l)
  <2>1. OnlyCfg(r, a, l, a.masked, a.enabled)
    BY <1>5, <1>7, CfgEffects
  <2>2. SameHomes(r, a) /\ SameCan(r, a) /\ r.edge = a.edge /\ r.level = l /\ r.pending = a.pending
    BY <2>1 DEF OnlyCfg, SameHomes, SameCan
  <2>3. Grows(r, a)
    BY <1>5, <2>2, SameHomesGrows
  <2>4. Grows(r, s)
    BY <1>4, <2>3, GrowsTrans
  <2> QED BY <1>5, <2>2, <2>4
<1>8. CASE r = vm_inject_irq(a, v, i)
  <2>1. Grows(r, a) /\ (Deliverable(a, v, i) => Line(v, i) \in r.pending)
    BY <1>2, <1>8, InjectGrows
  <2>2. Deliverable(r, v, i) <=> Deliverable(a, v, i)
    BY <2>1, SameCanDeliver DEF Grows
  <2>3. Grows(r, s)
    BY <1>4, <2>1, GrowsTrans
  <2> QED BY <2>1, <2>2, <2>3
<1> QED BY <1>3, <1>6, <1>7, <1>8

\* From s to r an interrupt found a home only if it can be delivered.
Admits(r, s) ==
  \A w \in VCPUS, j \in Irqs : Resident(r, w, j) /\ ~Resident(s, w, j) => Deliverable(r, w, j)

\* From s to r no asserted level came to be without its pending bit.
Remembers(r, s) ==
  \A w \in VCPUS, j \in Irqs :
    Asserted(r, w, j) => \/ Line(w, j) \in r.pending
                         \/ Asserted(s, w, j) /\ Line(w, j) \notin s.pending

\* A level is asserted only on a line that has a handle.
Registered(s) ==
  \A w \in VCPUS, j \in Irqs : Line(w, j) \in s.level => virq_find_irq_data(s, w, j)

\* Growing respects all three.
LEMMA GrowsOutcome ==
  ASSUME NEW s, NEW r, Grows(r, s)
  PROVE  Admits(r, s) /\ Remembers(r, s) /\ (Registered(s) => Registered(r))
<1>1. \A w \in VCPUS, j \in Irqs : Deliverable(r, w, j) <=> Deliverable(s, w, j)
  BY SameCanDeliver DEF Grows
<1>2. Admits(r, s)
  BY <1>1 DEF Grows, Admits
<1>3. \A j : vgic_dist_is_edge_triggered(r, j) <=> vgic_dist_is_edge_triggered(s, j)
  BY DEF Grows, vgic_dist_is_edge_triggered
<1>4. Remembers(r, s)
  BY <1>1, <1>3 DEF Grows, Remembers, Asserted
<1>5. Registered(s) => Registered(r)
  BY DEF Grows, SameCan, Registered, virq_find_irq_data
<1> QED BY <1>2, <1>4, <1>5

\* The second half of the maintenance handler grows.
LEMMA RefillGrows ==
  ASSUME NEW s \in Fields, NEW v \in VCPUS, NEW idx \in LRs, NEW r, Refilled(r, s, v, idx)
  PROVE  Grows(r, s)
<1>1. \A w \in VCPUS, j \in Irqs : Resident(r, w, j) => Resident(s, w, j)
  BY RefillHomes
<1>2. r.pending = s.pending /\ r.level = s.level
  BY RefillHomes, SMTT(30)
<1>3. SameCan(r, s) /\ r.edge = s.edge
  BY DEF Refilled, OnlyExit, Queued, Loaded, SameDist, SameCan
<1> QED BY <1>1, <1>2, <1>3 DEF Grows

\* Retiring an interrupt gives nothing a home and takes one pending bit.
LEMMA RetireAdmits ==
  ASSUME NEW s \in Fields, NEW v \in VCPUS, NEW idx \in LRs, NEW r, Retired(r, s, v, idx)
  PROVE  /\ \A w \in VCPUS, j \in Irqs : Resident(r, w, j) => Resident(s, w, j)
         /\ SameCan(r, s) /\ r.edge = s.edge /\ r.level = s.level
         /\ r.pending = s.pending \ {Line(v, s.lr_shadow[v][idx])}
<1>1. /\ \A w \in VCPUS, k \in LRs :
           r.lr_shadow[w][k] = NoIrq \/ r.lr_shadow[w][k] = s.lr_shadow[w][k]
      /\ r.irq_queue = s.irq_queue
  BY SMTT(30) DEF Retired, Fields
<1>2. \A w \in VCPUS, j \in Irqs : Resident(r, w, j) => Resident(s, w, j)
  BY <1>1, IrqNumbers, SMTT(30) DEF Resident, InListReg, InQueue
<1> QED BY <1>2, SMTT(30) DEF Retired, SameCan

\* The maintenance handler: when the level of the interrupt that ended is still
\* asserted, it is pending again.
LEMMA MaintenanceOutcome ==
  ASSUME NEW s, GoodA(s, NoX), Registered(s), NEW v \in VCPUS, NEW idx \in LRs, NEW again,
         s.exit[v] = <<"maint", idx>>, NEW r, r = handle_vgic_maintenance(s, v, idx, again)
  PROVE  Admits(r, s) /\ Remembers(r, s) /\ Registered(r)
<1> DEFINE i == s.lr_shadow[v][idx]
           a == Retire(s, v, idx)
           b == vgic_irq_ack(a, v, i, again)
<1>1. s \in Fields /\ i \in Irqs /\ i # NoIrq
  BY SMTT(30) DEF GoodA, TypeS, Fields, Mirror
<1>2. Retired(a, s, v, idx)
  BY <1>1, RetireEffect
<1>3. r = Refill(b, v, idx)
  BY DEF handle_vgic_maintenance
<1> HIDE DEF a
<1>4. GoodA(a, OneX(v, idx)) /\ a.lr[v][idx] = "invalid"
  BY <1>2, RetireGoodA
<1>5. /\ \A w \in VCPUS, j \in Irqs : Resident(a, w, j) => Resident(s, w, j)
      /\ SameCan(a, s) /\ a.edge = s.edge /\ a.level = s.level
      /\ a.pending = s.pending \ {Line(v, i)}
  BY <1>1, <1>2, RetireAdmits, SMTT(30)
<1> HIDE DEF i
<1>6. GoodA(b, OneX(v, idx)) /\ Quiet(b, a)
  BY <1>1, <1>4, IrqAckGoodA
<1>7. /\ Grows(b, a)
      /\ Line(v, i) \in b.level /\ ~vgic_dist_is_edge_triggered(b, i) /\ Deliverable(b, v, i) =>
           Line(v, i) \in b.pending
  BY <1>1, <1>4, AckGrows
<1> HIDE DEF b
<1>8. InjectIRQ_ok(b, v, idx) /\ b \in Fields
  BY <1>4, <1>6 DEF Quiet, InjectIRQ_ok, GoodA, TypeS
<1>9. Refilled(r, b, v, idx)
  BY <1>3, <1>8, RefillEffect
<1>10. Grows(r, b)
  BY <1>8, <1>9, RefillGrows
<1>11. Grows(r, a)
  BY <1>7, <1>10, GrowsTrans
<1>12. Registered(a)
  BY <1>5 DEF Registered, SameCan, virq_find_irq_data
<1>13. Admits(r, a) /\ Remembers(r, a) /\ Remembers(r, b) /\ Registered(r)
  BY <1>10, <1>11, <1>12, GrowsOutcome
<1>14. Admits(r, s)
  <2> SUFFICES ASSUME NEW w \in VCPUS, NEW j \in Irqs, Resident(r, w, j), ~Resident(s, w, j)
               PROVE  Deliverable(r, w, j)
    BY DEF Admits
  <2> QED BY <1>5, <1>13 DEF Admits
<1>15. Remembers(r, s)
  <2> SUFFICES ASSUME NEW w \in VCPUS, NEW j \in Irqs, Asserted(r, w, j), Line(w, j) \notin r.pending
               PROVE  Asserted(s, w, j) /\ Line(w, j) \notin s.pending
    BY DEF Remembers
  <2>1. Asserted(b, w, j) /\ Line(w, j) \notin b.pending
    BY <1>13 DEF Remembers
  <2>2. Line(w, j) # Line(v, i)
    <3>1. SUFFICES ASSUME Line(w, j) = Line(v, i) PROVE FALSE
      OBVIOUS
    <3>2. j = i /\ (Deliverable(b, w, j) <=> Deliverable(b, v, i))
      BY <1>1, <3>1, DeliverableLine
    <3> QED BY <1>7, <2>1, <3>1, <3>2 DEF Asserted
  <2>3. Asserted(a, w, j) /\ Line(w, j) \notin a.pending
    BY <1>13 DEF Remembers
  <2>4. Asserted(s, w, j)
    BY <1>5, <2>3, SameCanDeliver DEF Asserted, vgic_dist_is_edge_triggered
  <2> QED BY <1>5, <2>2, <2>3, <2>4
<1> QED BY <1>13, <1>14, <1>15

\* Enabling an interrupt looks at its level.
LEMMA EnableOutcome ==
  ASSUME NEW s, GoodA(s, NoX), Registered(s), NEW v \in VCPUS, NEW i \in Irqs, NEW again,
         NEW r, r = vgic_dist_enable_irq(s, v, i, again)
  PROVE  Admits(r, s) /\ Remembers(r, s) /\ Registered(r)
<1> DEFINE on == s.enabled \cup {Line(v, i)}
           e == set_enable(s, v, i, TRUE)
<1>0. s \in Fields /\ on \in SUBSET Lines
  BY LineType DEF GoodA, TypeS, Fields
<1>1. e = SetEnabled(s, on)
  BY DEF set_enable, SetEnabled
<1>2. \/ r = vgic_irq_ack(e, v, i, again)
      \/ r = e /\ (~virq_find_irq_data(e, v, i) \/ Line(v, i) \in e.pending)
  BY DEF vgic_dist_enable_irq
<1> HIDE DEF on, e
<1>3. OnlyCfg(e, s, s.level, s.masked, on)
  BY <1>0, <1>1, CfgEffects
<1>4. GoodA(e, NoX)
  BY <1>3, CfgGoodA
<1>5. /\ Grows(r, e)
      /\ Line(v, i) \in r.level /\ ~vgic_dist_is_edge_triggered(r, i) /\ Deliverable(r, v, i) =>
           Line(v, i) \in r.pending
  <2>1. CASE r = vgic_irq_ack(e, v, i, again)
    BY <1>4, <2>1, AckGrows
  <2>2. CASE r = e /\ (~virq_find_irq_data(e, v, i) \/ Line(v, i) \in e.pending)
    <3>1. Grows(e, e)
      BY DEF Grows, SameCan
    <3> QED BY <2>2, <3>1 DEF Deliverable
  <2> QED BY <1>2, <2>1, <2>2
<1>6. \A w \in VCPUS, j \in Irqs : virq_find_irq_data(e, w, j) <=> virq_find_irq_data(s, w, j)
  BY <1>3 DEF OnlyCfg, virq_find_irq_data
<1>7. Registered(e)
  BY <1>3, <1>6 DEF OnlyCfg, Registered
<1>8. Admits(r, e) /\ Remembers(r, e) /\ Registered(r)
  BY <1>5, <1>7, GrowsOutcome
<1>9. SameHomes(e, s)
  BY <1>3 DEF OnlyCfg, SameHomes
<1>10. Admits(r, s)
  BY <1>8, <1>9, SameHomesResident DEF Admits
<1>11. Remembers(r, s)
  <2> SUFFICES ASSUME NEW w \in VCPUS, NEW j \in Irqs, Asserted(r, w, j), Line(w, j) \notin r.pending
               PROVE  Asserted(s, w, j) /\ Line(w, j) \notin s.pending
    BY DEF Remembers
  <2>1. Asserted(e, w, j) /\ Line(w, j) \notin e.pending
    BY <1>8 DEF Remembers
  <2>2. Line(w, j) # Line(v, i)
    <3>1. SUFFICES ASSUME Line(w, j) = Line(v, i) PROVE FALSE
      OBVIOUS
    <3>2. j = i /\ (Deliverable(r, w, j) <=> Deliverable(r, v, i))
      BY <3>1, DeliverableLine
    <3> QED BY <1>5, <3>1, <3>2 DEF Asserted
  <2> QED BY <1>3, <1>6, <2>1, <2>2 DEF Asserted, Deliverable, OnlyCfg, on, vgic_dist_is_edge_triggered
<1> QED BY <1>8, <1>10, <1>11

\* The inductive invariant behind LevelNotForgotten.
IndE == IndA /\ Registered(vm)

\* Handlers deliver nothing disabled and forget no level.
LEMMA HandlerOutcome ==
  ASSUME IndE, NEW v \in VCPUS, VmmHandler(v)
  PROVE  Admits(vm', vm) /\ Remembers(vm', vm) /\ Registered(vm')
<1>0. GoodA(vm, NoX) /\ vm \in Fields /\ Registered(vm)
  BY DEF IndE, IndA, GoodA, TypeS
<1>1. CASE vm_vgic_maintenance_handler(v)
  <2>1. PICK idx \in LRs, again \in BOOLEAN :
          /\ vm.exit[v] = <<"maint", idx>>
          /\ vm' = handle_vgic_maintenance(vm, v, idx, again)
    BY <1>1 DEF vm_vgic_maintenance_handler
  <2> QED BY <1>0, <2>1, MaintenanceOutcome
<1>2. CASE vm_vppi_event_handler(v)
  <2>1. PICK i \in PPIS :
          LET p == vm_inject_irq(vm, v, i)
          IN vm' = [p EXCEPT !.exit[v] = <<"run">>,
                             !.masked = IF set_pending_fails(vm, v, i)
                                          THEN @ \ {<<v, i>>} ELSE @]
    BY <1>2 DEF vm_vppi_event_handler
  <2> DEFINE p == vm_inject_irq(vm, v, i)
  <2>2. i \in Irqs
    BY DEF Irqs, Locals
  <2>3. GoodA(p, NoX)
    BY <1>0, <2>2, InjectGoodA
  <2>4. p \in Fields
    BY <2>3 DEF GoodA, TypeS
  <2>5. Grows(p, vm)
    BY <1>0, <2>2, InjectGrows
  <2> HIDE DEF p
  <2>6. /\ SameHomes(vm', p) /\ SameCan(vm', p) /\ vm'.edge = p.edge
        /\ vm'.level = p.level /\ vm'.pending = p.pending
    BY <2>1, <2>4 DEF Fields, SameHomes, SameCan, p
  <2>7. Grows(vm', p)
    BY <2>6, SameHomesGrows
  <2>8. Grows(vm', vm)
    BY <2>5, <2>7, GrowsTrans
  <2> QED BY <1>0, <2>8, GrowsOutcome
<1>3. CASE vm_vcpu_handler_wfi(v)
  <2>1. /\ SameHomes(vm', vm) /\ SameCan(vm', vm) /\ vm'.edge = vm.edge
        /\ vm'.level = vm.level /\ vm'.pending = vm.pending
    BY <1>0, <1>3 DEF vm_vcpu_handler_wfi, SameHomes, SameCan, Fields
  <2>2. Grows(vm', vm)
    BY <2>1, SameHomesGrows
  <2> QED BY <1>0, <2>2, GrowsOutcome
<1> QED BY <1>1, <1>2, <1>3 DEF VmmHandler

\* A new handle is found, and old ones stay.
LEMMA RegisterOutcome ==
  ASSUME NEW s \in Fields, Registered(s), NEW v \in VCPUS, NEW i \in Irqs, NEW r, r = virq_add(s, v, i)
  PROVE  Admits(r, s) /\ Remembers(r, s) /\ Registered(r)
<1>1. /\ SameHomes(r, s) /\ r.enable = s.enable /\ r.enabled = s.enabled /\ r.edge = s.edge
      /\ r.level = s.level /\ r.pending = s.pending
  BY DEF virq_add, SameHomes, Fields
<1>2. s.local_virqs \subseteq r.local_virqs
  BY DEF virq_add, Fields
<1>3. \A k \in 1 .. Len(s.vspis) : k \in 1 .. Len(r.vspis) /\ r.vspis[k] = s.vspis[k]
  <2>1. s.vspis \in Seq(SPIS)
    BY DEF Fields
  <2>2. CASE i \in Locals \/ ~(Len(s.vspis) < NumSlotsSpi)
    BY <2>1, <2>2 DEF virq_add, Fields
  <2>3. CASE i \notin Locals /\ Len(s.vspis) < NumSlotsSpi
    <3>1. r.vspis = Append(s.vspis, i) /\ i \in SPIS
      BY <2>3 DEF virq_add, Fields, Irqs
    <3> QED BY <2>1, <3>1, SMTT(30)
  <2> QED BY <2>2, <2>3
<1>4. \A w \in VCPUS, j \in Irqs : virq_find_irq_data(s, w, j) => virq_find_irq_data(r, w, j)
  BY <1>2, <1>3 DEF virq_find_irq_data
<1>5. Registered(r)
  BY <1>1, <1>4 DEF Registered
<1>6. Admits(r, s)
  BY <1>1, SameHomesResident DEF Admits
<1>7. Remembers(r, s)
  BY <1>1 DEF Remembers, Registered, Asserted, Deliverable, vgic_dist_is_edge_triggered
<1> QED BY <1>5, <1>6, <1>7

\* vm_set_irq_level: a level that rises is injected.
LEMMA LevelOutcome ==
  ASSUME NEW s, GoodA(s, NoX), Registered(s), NEW v \in VCPUS, NEW i \in Irqs,
         virq_find_irq_data(s, v, i),
         NEW r, r \in {s, vm_inject_irq(SetLevel(s, s.level \cup {Line(v, i)}), v, i),
                       SetLevel(s, s.level \ {Line(v, i)})}
  PROVE  Admits(r, s) /\ Remembers(r, s) /\ Registered(r)
<1> DEFINE hi == s.level \cup {Line(v, i)}
           lo == s.level \ {Line(v, i)}
           a == SetLevel(s, hi)
           b == SetLevel(s, lo)
<1>1. s \in Fields /\ hi \in SUBSET Lines /\ lo \in SUBSET Lines
  BY LineType DEF GoodA, TypeS, Fields
<1>2. r = s \/ r = vm_inject_irq(a, v, i) \/ r = b
  OBVIOUS
<1> HIDE DEF hi, lo
<1>3. OnlyCfg(a, s, hi, s.masked, s.enabled) /\ OnlyCfg(b, s, lo, s.masked, s.enabled)
  BY <1>1, CfgEffects
<1> HIDE DEF a, b
<1>4. CASE r = s
  <2>1. Grows(s, s)
    BY DEF Grows, SameCan
  <2> QED BY <1>4, <2>1, GrowsOutcome
<1>5. CASE r = b
  <2>1. SameHomes(b, s) /\ SameCan(b, s) /\ b.edge = s.edge /\ b.level \subseteq s.level /\ b.pending = s.pending
    BY <1>3 DEF OnlyCfg, SameHomes, SameCan, lo
  <2>2. Grows(b, s)
    BY <2>1, SameHomesGrows
  <2> QED BY <1>5, <2>2, GrowsOutcome
<1>6. CASE r = vm_inject_irq(a, v, i)
  <2>1. GoodA(a, NoX)
    BY <1>3, CfgGoodA
  <2>2. Grows(r, a) /\ (Deliverable(a, v, i) => Line(v, i) \in r.pending)
    BY <1>6, <2>1, InjectGrows
  <2>3. SameHomes(a, s) /\ SameCan(a, s) /\ a.edge = s.edge /\ a.level = hi /\ a.pending = s.pending
    BY <1>3 DEF OnlyCfg, SameHomes, SameCan
  <2>4. \A w \in VCPUS, j \in Irqs : virq_find_irq_data(a, w, j) <=> virq_find_irq_data(s, w, j)
    BY <2>3 DEF SameCan, virq_find_irq_data
  <2>5. Registered(a)
    BY <2>3, <2>4, DeliverableLine DEF Registered, hi
  <2>6. Admits(r, a) /\ Remembers(r, a) /\ Registered(r)
    BY <2>2, <2>5, GrowsOutcome
  <2>7. Admits(r, s)
    BY <2>3, <2>6, SameHomesResident DEF Admits
  <2>8. Remembers(r, s)
    <3> SUFFICES ASSUME NEW w \in VCPUS, NEW j \in Irqs, Asserted(r, w, j), Line(w, j) \notin r.pending
                 PROVE  Asserted(s, w, j) /\ Line(w, j) \notin s.pending
      BY DEF Remembers
    <3>1. Asserted(a, w, j) /\ Line(w, j) \notin a.pending
      BY <2>6 DEF Remembers
    <3>2. Line(w, j) # Line(v, i)
      <4>1. SUFFICES ASSUME Line(w, j) = Line(v, i) PROVE FALSE
        OBVIOUS
      <4>2. Deliverable(a, w, j) <=> Deliverable(a, v, i)
        BY <4>1, DeliverableLine
      <4> QED BY <2>2, <3>1, <4>1, <4>2 DEF Asserted
    <3> QED BY <2>3, <3>1, <3>2, SameCanDeliver DEF Asserted, hi, vgic_dist_is_edge_triggered
  <2> QED BY <2>6, <2>7, <2>8
<1> QED BY <1>2, <1>4, <1>5, <1>6

\* Devices.
LEMMA DeviceOutcome ==
  ASSUME IndE, NEW v \in VCPUS, Device(v)
  PROVE  Admits(vm', vm) /\ Remembers(vm', vm) /\ Registered(vm')
<1>0. GoodA(vm, NoX) /\ vm \in Fields /\ Registered(vm)
  BY SMTT(30) DEF IndE, IndA, GoodA, TypeS
<1>a. LevelIrqs \subseteq Irqs /\ SPIS \subseteq Irqs
  BY ConstantsAssumption DEF Irqs, Locals
<1>1. ASSUME NEW i \in Irqs, vm_register_irq(v, i)
      PROVE  Admits(vm', vm) /\ Remembers(vm', vm) /\ Registered(vm')
  BY <1>0, <1>1, RegisterOutcome DEF vm_register_irq
<1>2. ASSUME NEW i \in SPIS, DeviceInject(v, i)
      PROVE  Admits(vm', vm) /\ Remembers(vm', vm) /\ Registered(vm')
  <2>1. Grows(vm', vm)
    BY <1>0, <1>a, <1>2, InjectGrows DEF DeviceInject
  <2> QED BY <1>0, <2>1, GrowsOutcome, SMTT(30)
<1>3. ASSUME NEW i \in LevelIrqs, NEW up \in BOOLEAN, vm_set_irq_level(v, i, up)
      PROVE  Admits(vm', vm) /\ Remembers(vm', vm) /\ Registered(vm')
  <2>1. vm' \in {vm, vm_inject_irq(SetLevel(vm, vm.level \cup {Line(v, i)}), v, i),
                 SetLevel(vm, vm.level \ {Line(v, i)})} /\ virq_find_irq_data(vm, v, i)
    BY <1>3 DEF vm_set_irq_level, SetLevel
  <2> QED BY <1>0, <1>a, <2>1, LevelOutcome
<1> QED BY <1>1, <1>2, <1>3 DEF Device

\* Iterations of distributor writes; clearing a pending bit forgets its level.
LEMMA WriteStepOutcome ==
  ASSUME IndE, WriteStep
  PROVE  /\ Admits(vm', vm) /\ Registered(vm')
         /\ write.op # "ICPENDR" => Remembers(vm', vm)
<1>0. GoodA(vm, NoX) /\ vm \in Fields /\ Registered(vm) /\ write \in Writes
  BY DEF IndE, IndA, GoodA, TypeS
<1>1. CASE WriteBitsStep
  <2>1. PICK i \in Irqs, again \in BOOLEAN :
          vm' = CASE write.op = "ISENABLER" -> vgic_dist_enable_irq(vm, write.vcpu, i, again)
                  [] write.op = "ICENABLER" -> vgic_dist_disable_irq(vm, write.vcpu, i)
                  [] write.op = "ISPENDR"   -> vgic_dist_set_pending_irq(vm, write.vcpu, i)
                  [] write.op = "ICPENDR"   -> vgic_dist_clr_pending_irq(vm, write.vcpu, i)
    BY <1>1 DEF WriteBitsStep
  <2>2. write.op \in BitOps /\ write.op # "idle"
    BY <1>1 DEF WriteBitsStep, BitOps
  <2>3. write.vcpu \in VCPUS
    BY <1>0, <2>2, NextWriteType
  <2>4. CASE write.op = "ISENABLER"
    <3>1. vm' = vgic_dist_enable_irq(vm, write.vcpu, i, again)
      BY <2>1, <2>4
    <3> QED BY <1>0, <2>3, <3>1, EnableOutcome
  <2>5. CASE write.op = "ISPENDR"
    <3>1. vm' = vgic_dist_set_pending_irq(vm, write.vcpu, i)
      BY <2>1, <2>5
    <3>2. Grows(vm', vm)
      BY <1>0, <2>3, <3>1, InjectGrows
    <3> QED BY <1>0, <3>2, GrowsOutcome
  <2>6. CASE write.op = "ICPENDR"
    <3>1. vm' = set_pending(vm, write.vcpu, i, FALSE)
      BY <2>1, <2>6 DEF vgic_dist_clr_pending_irq
    <3>2. OnlyPending(vm', vm, vm.pending \ {Line(write.vcpu, i)})
      BY <1>0, <2>3, <3>1, SetPendingEffect
    <3>3. SameHomes(vm', vm)
      BY <3>2 DEF OnlyPending, SameHomes
    <3>4. Admits(vm', vm)
      BY <3>3, SameHomesResident DEF Admits
    <3>5. Registered(vm')
      BY <1>0, <3>2 DEF OnlyPending, Registered, virq_find_irq_data
    <3> QED BY <2>6, <3>4, <3>5
  <2>7. CASE write.op = "ICENABLER"
    <3> DEFINE off == vm.enabled \ {Line(write.vcpu, i)}
               d == SetEnabled(vm, off)
    <3>1. vm' \in {vm, d}
      BY <2>1, <2>7 DEF vgic_dist_disable_irq, set_enable, SetEnabled
    <3>2. off \in SUBSET Lines /\ off \subseteq vm.enabled
      BY <1>0 DEF Fields
    <3> HIDE DEF off
    <3>3. OnlyCfg(d, vm, vm.level, vm.masked, off)
      BY <1>0, <3>2, CfgEffects
    <3> HIDE DEF d
    <3>4. SameHomes(vm', vm) /\ vm'.level = vm.level /\ vm'.pending = vm.pending /\ vm'.edge = vm.edge
      BY <3>1, <3>3 DEF OnlyCfg, SameHomes
    <3>5. /\ vm'.enabled \subseteq vm.enabled /\ vm'.enable = vm.enable
          /\ vm'.local_virqs = vm.local_virqs /\ vm'.vspis = vm.vspis
      BY <3>1, <3>2, <3>3 DEF OnlyCfg
    <3>6. Admits(vm', vm)
      BY <3>4, SameHomesResident DEF Admits
    <3>7. Registered(vm')
      BY <1>0, <3>4, <3>5 DEF Registered, virq_find_irq_data
    <3>8. Remembers(vm', vm)
      BY <3>4, <3>5 DEF Remembers, Asserted, Deliverable, virq_find_irq_data, vgic_dist_is_edge_triggered
    <3> QED BY <3>6, <3>7, <3>8
  <2> QED BY <2>2, <2>4, <2>5, <2>6, <2>7 DEF BitOps
<1>2. CASE WriteSGIRStep
  <2>1. PICK t \in VCPUS : vm' = IF t \in online THEN vm_inject_irq(vm, t, write.irq) ELSE vm
    BY <1>2 DEF WriteSGIRStep
  <2>2. write.op \notin BitOps /\ write.op # "idle"
    BY <1>2 DEF WriteSGIRStep, BitOps
  <2>3. write.irq \in Irqs
    BY <1>0, <2>2, NextWriteType DEF Irqs, Locals
  <2>4. Grows(vm, vm)
    BY DEF Grows, SameCan
  <2>5. Grows(vm', vm)
    BY <1>0, <2>1, <2>3, <2>4, InjectGrows
  <2> QED BY <1>0, <2>5, GrowsOutcome
<1> QED BY <1>1, <1>2 DEF WriteStep

\* The guest's own steps; only it switches the distributor or the trigger mode.
LEMMA GuestOutcome ==
  ASSUME IndE, NEW v \in VCPUS, Guest(v) \/ DistWrite(v) \/ vcpu_start(v)
  PROVE  /\ Admits(vm', vm) /\ Registered(vm')
         /\ vm'.enable = vm.enable /\ vm'.edge = vm.edge => Remembers(vm', vm)
<1>0. vm \in Fields /\ Registered(vm)
  BY DEF IndE, IndA, GoodA, TypeS
<1>1. SameHomes(vm', vm) /\ vm'.pending = vm.pending /\ vm'.level = vm.level
  BY <1>0 DEF Guest, DistWrite, vcpu_start, GuestTake, GuestEOI, VppiFires, GuestWFI,
              WriteCTLR, WriteICFGR, WriteBits, WriteSGIR, SameHomes, Fields
<1>2. vm'.enabled = vm.enabled /\ vm'.local_virqs = vm.local_virqs /\ vm'.vspis = vm.vspis
  BY <1>0 DEF Guest, DistWrite, vcpu_start, GuestTake, GuestEOI, VppiFires, GuestWFI,
              WriteCTLR, WriteICFGR, WriteBits, WriteSGIR, Fields
<1>3. Admits(vm', vm)
  BY <1>1, SameHomesResident DEF Admits
<1>4. Registered(vm')
  BY <1>0, <1>1, <1>2 DEF Registered, virq_find_irq_data
<1>5. ASSUME vm'.enable = vm.enable, vm'.edge = vm.edge PROVE Remembers(vm', vm)
  <2>1. Grows(vm', vm)
    BY <1>1, <1>2, <1>5, SameHomesGrows DEF SameCan
  <2> QED BY <2>1, GrowsOutcome
<1> QED BY <1>3, <1>4, <1>5

\* Every step of the system.
LEMMA NextOutcome ==
  ASSUME IndE, Next
  PROVE  /\ Admits(vm', vm) /\ Registered(vm')
         /\ ~GuestReconfigures => Remembers(vm', vm)
<1>1. ASSUME NEW v \in VCPUS, VmmHandler(v) PROVE Admits(vm', vm) /\ Remembers(vm', vm) /\ Registered(vm')
  BY <1>1, HandlerOutcome
<1>2. ASSUME NEW v \in VCPUS, Guest(v) \/ DistWrite(v) \/ vcpu_start(v)
      PROVE  /\ Admits(vm', vm) /\ Registered(vm')
             /\ vm'.enable = vm.enable /\ vm'.edge = vm.edge => Remembers(vm', vm)
  BY <1>2, GuestOutcome
<1>3. ASSUME NEW v \in VCPUS, Device(v) PROVE Admits(vm', vm) /\ Remembers(vm', vm) /\ Registered(vm')
  BY <1>3, DeviceOutcome, SMTT(30)
<1>4. ASSUME WriteStep
      PROVE  Admits(vm', vm) /\ Registered(vm') /\ (write.op # "ICPENDR" => Remembers(vm', vm))
  BY <1>4, WriteStepOutcome
<1> QED BY <1>1, <1>2, <1>3, <1>4 DEF Next, GuestReconfigures

\* IndE is an invariant.
LEMMA InductiveE == Spec => []IndE
<1>1. Init => IndE
  <2> SUFFICES ASSUME Init PROVE IndE
    OBVIOUS
  <2>1. vm.level = {}
    BY DEF Init
  <2>2. Registered(vm)
    BY <2>1 DEF Registered
  <2> QED BY <2>2, InitIndA DEF IndE
<1>2. IndE /\ [Next]_vars => IndE'
  <2> SUFFICES ASSUME IndE, [Next]_vars PROVE IndE'
    OBVIOUS
  <2>1. IndA'
    BY NextIndA DEF IndE
  <2>2. Registered(vm')
    BY NextOutcome DEF IndE, vars
  <2> QED BY <2>1, <2>2 DEF IndE
<1> QED BY <1>1, <1>2, PTL DEF Spec

\* An interrupt is put into a list register or queue only while the distributor and
\* the interrupt are enabled, whatever the guest and the devices do.
THEOREM DisabledNotDeliveredCorrect == Spec => DisabledNotDelivered
<1>1. IndE /\ [Next]_vars =>
        [\A v \in VCPUS, i \in Irqs :
           Resident(vm', v, i) /\ ~Resident(vm, v, i) => Deliverable(vm', v, i)]_vars
  <2> SUFFICES ASSUME IndE, Next
               PROVE  \A v \in VCPUS, i \in Irqs :
                        Resident(vm', v, i) /\ ~Resident(vm, v, i) => Deliverable(vm', v, i)
    OBVIOUS
  <2> QED BY NextOutcome DEF Admits
<1> QED BY <1>1, InductiveE, PTL DEF Spec, DisabledNotDelivered

\* No step but the guest's own reconfiguration leaves an asserted level-triggered
\* line without its pending bit: raising the level, enabling the interrupt and
\* ending it all inject it again.
THEOREM LevelNotForgottenCorrect == Spec => LevelNotForgotten
<1>1. IndE /\ [Next]_vars =>
        [\A v \in VCPUS, i \in Irqs :
           Asserted(vm', v, i) /\ ~GuestReconfigures =>
             \/ Line(v, i) \in vm'.pending
             \/ Asserted(vm, v, i) /\ Line(v, i) \notin vm.pending]_vars
  <2> SUFFICES ASSUME IndE, Next, ~GuestReconfigures, NEW v \in VCPUS, NEW i \in Irqs, Asserted(vm', v, i)
               PROVE  \/ Line(v, i) \in vm'.pending
                      \/ Asserted(vm, v, i) /\ Line(v, i) \notin vm.pending
    BY SMTT(30)
  <2> QED BY NextOutcome DEF Remembers
<1> QED BY <1>1, InductiveE, PTL DEF Spec, LevelNotForgotten
=============================================================================
