----------------------------- MODULE VGICProofs -----------------------------
(***************************************************************************)
(* Proofs about VGIC, for every set of vCPUs and interrupts and every      *)
(* number of list registers, queue length and slot count.  First the state *)
(* of the distributor: the shadow mirrors the list registers, and the      *)
(* queue is used only while they are full.  Then, as long as the guest does *)
(* not clear pending bits, no interrupt is delivered twice and none is     *)
(* forgotten.                                                              *)
(***************************************************************************)
EXTENDS VGIC, TLAPS, WellFoundedInduction

\* Leaves that name no prover go to Zenon.
USE ZenonT(30)

TypeS(s) ==
  /\ s \in Fields
  /\ \A v \in VCPUS : Len(s.irq_queue[v]) < MaxIrqQueueLen
  /\ Len(s.vspis) <= NumSlotsSpi

-----------------------------------------------------------------------------
(* Facts about lines, list registers and the queue *)

\* Every interrupt of every vCPU has a line; PPIs and SGIs are banked, SPIs are not.
LEMMA LineType ==
  ASSUME NEW v \in VCPUS, NEW i \in Irqs
  PROVE  Line(v, i) \in Lines
BY SMTT(30) DEF Line, Lines, Irqs

\* Two interrupts share a line only if they are the same interrupt, on the same
\* vCPU when it is banked.
LEMMA LineInjective ==
  ASSUME NEW v \in VCPUS, NEW w \in VCPUS, NEW i \in Irqs, NEW j \in Irqs,
         Line(v, i) = Line(w, j)
  PROVE  i = j /\ (i \in Locals => v = w)
BY ConstantsAssumption, SMTT(30) DEF Line, Irqs, Locals, Shared

\* An SGI or PPI number is never an SPI number, and NoIrq is neither.
LEMMA IrqNumbers == 
  /\ NoIrq \notin Irqs
  /\ Locals \cap SPIS = {}
  /\ SGIS \cap PPIS = {}
BY ConstantsAssumption, SMTT(30) DEF NoIrq, Irqs, Locals

\* A non-empty set of naturals has a least element.
LEMMA LeastElement ==
  ASSUME NEW S \in SUBSET Nat, S # {}
  PROVE  \E n \in S : \A m \in S : n <= m
<1> DEFINE R == {ss \in Nat \X Nat : ss[1] < ss[2]}
<1>1. IsWellFoundedOn(R, Nat)
  BY NatLessThanWellFounded DEF OpToRel
<1>2. \A x, y \in Nat : x < y => <<x, y>> \in R
  BY SMTT(30)
<1> HIDE DEF R
<1>3. \E n \in S : \A m \in S : ~ (<<m, n>> \in R)
  BY <1>1, WFMin
<1>4. PICK n \in S : \A m \in S : ~ (<<m, n>> \in R)
  BY <1>3, SMTT(30)
<1>5. ASSUME NEW m \in S PROVE n <= m
  <2>1. m \in Nat /\ n \in Nat
    BY SMTT(30)
  <2>2. ~(m < n)
    BY <1>2, <1>4, <2>1
  <2> QED BY <2>1, <2>2, SMTT(30)
<1> QED BY <1>5, SMTT(30)

\* The search for an empty list register finds one when there is one.
LEMMA FindEmpty ==
  ASSUME NEW s, NEW v, EmptyListRegs(s, v) # {}
  PROVE  vgic_find_empty_list_reg(s, v) \in EmptyListRegs(s, v)
<1>1. EmptyListRegs(s, v) \in SUBSET Nat
  BY ConstantsAssumption, SMTT(30) DEF EmptyListRegs, LRs
<1> QED BY <1>1, LeastElement, SMTT(30) DEF vgic_find_empty_list_reg

InSeq(q, x) == \E k \in 1 .. Len(q) : q[k] = x
Distinct(q) == \A j, k \in 1 .. Len(q) : j # k => q[j] # q[k]

\* What a queue holds after an append.
LEMMA AppendElems ==
  ASSUME NEW q \in Seq(Irqs), NEW i \in Irqs
  PROVE  /\ Append(q, i) \in Seq(Irqs) /\ Append(q, i) # <<>>
         /\ Len(Append(q, i)) = Len(q) + 1
         /\ \A x : InSeq(Append(q, i), x) <=> InSeq(q, x) \/ x = i
         /\ Distinct(q) /\ ~InSeq(q, i) => Distinct(Append(q, i))
<1> DEFINE a == Append(q, i)
<1>1. /\ a \in Seq(Irqs) /\ a # <<>> /\ Len(a) = Len(q) + 1 /\ Len(q) \in Nat
      /\ \A k \in 1 .. Len(q) : a[k] = q[k]
      /\ a[Len(q) + 1] = i
  BY SMTT(30)
<1> HIDE DEF a
<1>2. \A x : InSeq(a, x) <=> InSeq(q, x) \/ x = i
  BY <1>1, SMTT(30) DEF InSeq
<1>3. Distinct(q) /\ ~InSeq(q, i) => Distinct(a)
  BY <1>1, SMTT(30) DEF InSeq, Distinct
<1> QED BY <1>1, <1>2, <1>3, SMTT(30) DEF a

\* What a queue holds after its head is taken.
LEMMA TailElems ==
  ASSUME NEW q \in Seq(Irqs), q # <<>>
  PROVE  /\ Tail(q) \in Seq(Irqs) /\ Head(q) \in Irqs
         /\ Len(Tail(q)) = Len(q) - 1 /\ Len(q) > 0
         /\ \A x : InSeq(q, x) <=> InSeq(Tail(q), x) \/ x = Head(q)
         /\ Distinct(q) => Distinct(Tail(q)) /\ ~InSeq(Tail(q), Head(q))
<1> DEFINE t == Tail(q)
           h == Head(q)
<1>1. /\ t \in Seq(Irqs) /\ h \in Irqs /\ Len(t) = Len(q) - 1
      /\ Len(q) \in Nat /\ Len(q) > 0
      /\ h = q[1] /\ \A k \in 1 .. Len(t) : t[k] = q[k + 1]
  BY SMTT(30)
<1> HIDE DEF t, h
<1>2. ASSUME NEW x, InSeq(q, x) PROVE InSeq(t, x) \/ x = h
  <2>1. PICK k \in 1 .. Len(q) : q[k] = x
    BY <1>2, SMTT(30) DEF InSeq
  <2>2. CASE k = 1
    BY <2>1, <2>2, <1>1, SMTT(30)
  <2>3. CASE k # 1
    <3>1. k - 1 \in 1 .. Len(t) /\ t[k - 1] = q[(k - 1) + 1]
      BY <2>3, <1>1, SMTT(30)
    <3>2. q[(k - 1) + 1] = x
      BY <2>1, <1>1, SMTT(30)
    <3> QED BY <3>1, <3>2, SMTT(30) DEF InSeq
  <2> QED BY <2>2, <2>3, SMTT(30)
<1>3. ASSUME NEW x, InSeq(t, x) \/ x = h PROVE InSeq(q, x)
  BY <1>1, <1>3, SMTT(30) DEF InSeq
<1>4. Distinct(q) => Distinct(t) /\ ~InSeq(t, h)
  BY <1>1, SMTT(30) DEF InSeq, Distinct
<1> QED BY <1>1, <1>2, <1>3, <1>4, SMTT(30) DEF t, h

-----------------------------------------------------------------------------
(* What the queue and list register operations change *)

\* The fields that queueing and loading an interrupt leave alone.
SameDist(r, s) ==
  /\ r.enable = s.enable /\ r.enabled = s.enabled /\ r.edge = s.edge
  /\ r.level = s.level /\ r.local_virqs = s.local_virqs /\ r.vspis = s.vspis
  /\ r.masked = s.masked /\ r.dropped = s.dropped
  /\ r.pending = s.pending /\ r.exit = s.exit

\* r is s with list register idx of v loaded with i.
Loaded(r, s, v, idx, i) ==
  /\ r \in Fields /\ SameDist(r, s) /\ r.irq_queue = s.irq_queue
  /\ r.lr_shadow = [s.lr_shadow EXCEPT ![v][idx] = i]
  /\ r.lr = [s.lr EXCEPT ![v][idx] = "pending"]

\* r is s with the queue of v replaced by q.
Queued(r, s, v, q) ==
  /\ r \in Fields /\ SameDist(r, s)
  /\ r.irq_queue = [s.irq_queue EXCEPT ![v] = q]
  /\ r.lr_shadow = s.lr_shadow /\ r.lr = s.lr

\* vgic_vcpu_load_list_reg loads the register when seL4 accepts.
LEMMA LoadEffect ==
  ASSUME NEW s \in Fields, NEW v \in VCPUS, NEW idx \in LRs, NEW i \in Irqs,
         InjectIRQ_ok(s, v, idx)
  PROVE  Loaded(vgic_vcpu_load_list_reg(s, v, idx, i), s, v, idx, i)
<1> DEFINE r == vgic_vcpu_load_list_reg(s, v, idx, i)
<1>1. r = [s EXCEPT !.lr[v][idx] = "pending", !.lr_shadow[v][idx] = i]
  BY SMTT(30) DEF vgic_vcpu_load_list_reg
<1> HIDE DEF r
<1>2. /\ SameDist(r, s) /\ r.irq_queue = s.irq_queue
      /\ r.lr_shadow = [s.lr_shadow EXCEPT ![v][idx] = i]
      /\ r.lr = [s.lr EXCEPT ![v][idx] = "pending"]
  BY <1>1, SMTT(30) DEF Fields, SameDist
<1>3. r.lr \in [VCPUS -> [LRs -> {"invalid", "pending", "active"}]]
  BY <1>1, SMTT(30) DEF Fields
<1>4. r.lr_shadow \in [VCPUS -> [LRs -> Irqs \cup {NoIrq}]]
  BY <1>1, SMTT(30) DEF Fields
<1>5. r = [s EXCEPT !.lr = r.lr, !.lr_shadow = r.lr_shadow]
  BY <1>1, SMTT(30) DEF Fields
<1>6. r \in Fields
  BY <1>3, <1>4, <1>5 DEF Fields
<1> QED BY <1>2, <1>6, SMTT(30) DEF Loaded, r

\* Replacing a queue changes nothing else.
LEMMA SetQueueEffect ==
  ASSUME NEW s \in Fields, NEW v \in VCPUS, NEW q \in Seq(Irqs)
  PROVE  Queued(SetQueue(s, v, q), s, v, q)
<1> DEFINE r == SetQueue(s, v, q)
<1>1. /\ SameDist(r, s)
      /\ r.irq_queue = [s.irq_queue EXCEPT ![v] = q]
      /\ r.lr_shadow = s.lr_shadow /\ r.lr = s.lr
  BY SMTT(30) DEF Fields, SameDist, SetQueue
<1>2. r \in Fields
  BY DEF Fields, SetQueue
<1> QED BY <1>1, <1>2, SMTT(30) DEF Queued

\* Queueing an interrupt and loading the head of the queue, when seL4 accepts the
\* load: either every register is taken and the interrupt waits, or the head of
\* the extended queue moves to an empty register.
EnqueuedOrLoaded(r, s, v, i) ==
  LET a == Append(s.irq_queue[v], i)
  IN \/ EmptyListRegs(s, v) = {} /\ Queued(r, s, v, a)
     \/ \E idx \in EmptyListRegs(s, v), d \in Fields :
          Queued(d, s, v, Tail(a)) /\ Loaded(r, d, v, idx, Head(a))

\* EnqueueAndLoad has one of these two outcomes.
LEMMA EnqueueAndLoadEffect ==
  ASSUME NEW s \in Fields, NEW v \in VCPUS, NEW i \in Irqs,
         \A idx \in EmptyListRegs(s, v) : InjectIRQ_ok(s, v, idx)
  PROVE  EnqueuedOrLoaded(EnqueueAndLoad(s, v, i), s, v, i)
<1> DEFINE a == Append(s.irq_queue[v], i)
           q == vgic_irq_enqueue(s, v, i)
           d == vgic_irq_dequeue(q, v)
           idx == vgic_find_empty_list_reg(q, v)
           r == EnqueueAndLoad(s, v, i)
<1>a. s.irq_queue[v] \in Seq(Irqs)
  BY SMTT(30) DEF Fields
<1>b. a \in Seq(Irqs) /\ a # <<>>
  BY <1>a, AppendElems, SMTT(30)
<1>0. a \in Seq(Irqs) /\ a # <<>> /\ Head(a) \in Irqs /\ Tail(a) \in Seq(Irqs)
  BY <1>b, TailElems, SMTT(30)
<1>1. Queued(q, s, v, a)
  BY <1>0, SetQueueEffect DEF vgic_irq_enqueue
<1>2. q.irq_queue[v] = a
  BY <1>1 DEF Fields, Queued
<1>3. EmptyListRegs(q, v) = EmptyListRegs(s, v)
  BY <1>1, SMTT(30) DEF EmptyListRegs, Queued
<1>4. CASE EmptyListRegs(q, v) = {}
  <2>1. r = q
    BY <1>4 DEF EnqueueAndLoad
  <2> QED BY <1>1, <1>3, <1>4, <2>1 DEF EnqueuedOrLoaded
<1>5. CASE EmptyListRegs(q, v) # {}
  <2>1. r = vgic_vcpu_load_list_reg(d, v, idx, Head(a))
    BY <1>2, <1>5 DEF EnqueueAndLoad
  <2>2. idx \in EmptyListRegs(s, v) /\ idx \in LRs
    BY <1>3, <1>5, FindEmpty DEF EmptyListRegs
  <2>3. d = SetQueue(q, v, Tail(a)) /\ q \in Fields
    BY <1>1, <1>2, SMTT(30) DEF vgic_irq_dequeue, Queued
  <2>4. Queued(d, q, v, Tail(a))
    BY <1>0, <2>3, SetQueueEffect
  <2> HIDE DEF d, idx, r, q, a
  <2>5. Queued(d, s, v, Tail(a)) /\ d \in Fields
    BY <1>0, <1>1, <2>4, SMTT(30) DEF Queued, SameDist, Fields
  <2>6. InjectIRQ_ok(d, v, idx)
    BY <2>2, <2>5 DEF InjectIRQ_ok, Queued
  <2>7. Loaded(r, d, v, idx, Head(a))
    BY <1>0, <2>1, <2>2, <2>5, <2>6, LoadEffect
  <2> QED BY <2>2, <2>5, <2>7 DEF EnqueuedOrLoaded, a, r
<1> QED BY <1>4, <1>5, SMTT(30)

-----------------------------------------------------------------------------
(* The invariants of list registers and queue, for any state record *)

\* Interrupts wait only while no register outside X is empty.  X is empty between
\* two messages; while a maintenance message is handled it holds the register
\* that was just vacated.
QF(s, X) ==
  \A v \in VCPUS : s.irq_queue[v] # <<>> => EmptyListRegs(s, v) \subseteq X[v]

GoodA(s, X) == TypeS(s) /\ Mirror(s) /\ QF(s, X)

\* seL4 accepts a load into any register whose shadow is empty.
LEMMA EmptyIsLoadable ==
  ASSUME NEW s \in Fields, Mirror(s), NEW v \in VCPUS, NEW idx \in EmptyListRegs(s, v)
  PROVE  InjectIRQ_ok(s, v, idx) /\ s.exit[v] # <<"maint", idx>>
BY DEF Mirror, EmptyListRegs, InjectIRQ_ok

\* The registers of r are those of s with idx of v loaded with h.
LoadedRegs(r, s, v, idx, h) ==
  /\ r.lr_shadow = [s.lr_shadow EXCEPT ![v][idx] = h]
  /\ r.lr = [s.lr EXCEPT ![v][idx] = "pending"]
  /\ r.exit = s.exit

\* Loading a register whose shadow is empty keeps shadow and hardware together.
LEMMA LoadMirror ==
  ASSUME NEW s \in Fields, Mirror(s), NEW v \in VCPUS, NEW idx \in EmptyListRegs(s, v),
         NEW h \in Irqs, NEW r, LoadedRegs(r, s, v, idx, h)
  PROVE  Mirror(r)
<1> SUFFICES ASSUME NEW w \in VCPUS, NEW k \in LRs
             PROVE  IF r.exit[w] = <<"maint", k>>
                      THEN r.lr[w][k] = "invalid" /\ r.lr_shadow[w][k] # NoIrq
                      ELSE r.lr[w][k] = "invalid" <=> r.lr_shadow[w][k] = NoIrq
  BY DEF Mirror
<1>0. idx \in LRs /\ s.exit[v] # <<"maint", idx>> /\ h # NoIrq
  BY EmptyIsLoadable, IrqNumbers DEF EmptyListRegs
<1>1. CASE w = v /\ k = idx
  <2>1. r.lr[w][k] = "pending" /\ r.lr_shadow[w][k] = h
    BY <1>0, <1>1, SMTT(30) DEF Fields, LoadedRegs
  <2> QED BY <1>0, <1>1, <2>1 DEF LoadedRegs
<1>2. CASE ~(w = v /\ k = idx)
  <2>1. r.lr[w][k] = s.lr[w][k] /\ r.lr_shadow[w][k] = s.lr_shadow[w][k]
    BY <1>0, <1>2, SMTT(30) DEF Fields, LoadedRegs
  <2> QED BY <2>1, SMTT(30) DEF Mirror, LoadedRegs
<1> QED BY <1>1, <1>2

\* Queueing and loading keep the type, the mirror and the queue discipline.
LEMMA EnqueueGoodA ==
  ASSUME NEW s, NEW X, GoodA(s, X), NEW v \in VCPUS, NEW i \in Irqs, ~QueueFull(s, v)
  PROVE  GoodA(EnqueueAndLoad(s, v, i), X) /\ SameDist(EnqueueAndLoad(s, v, i), s)
<1> DEFINE a == Append(s.irq_queue[v], i)
           r == EnqueueAndLoad(s, v, i)
<1>1. s \in Fields /\ s.irq_queue[v] \in Seq(Irqs)
  BY DEF GoodA, TypeS, Fields
<1>2. /\ a \in Seq(Irqs) /\ a # <<>>
      /\ Len(a) = Len(s.irq_queue[v]) + 1
  BY <1>1, AppendElems
<1>3. /\ Tail(a) \in Seq(Irqs) /\ Head(a) \in Irqs
      /\ Len(Tail(a)) = Len(a) - 1
  BY <1>2, TailElems
<1>3a. Len(s.irq_queue[v]) \in Nat /\ Len(s.irq_queue[v]) + 1 < MaxIrqQueueLen
  BY <1>1, ConstantsAssumption, SMTT(30) DEF QueueFull
<1>4. EnqueuedOrLoaded(r, s, v, i)
  BY <1>1, EmptyIsLoadable, EnqueueAndLoadEffect DEF GoodA
<1> HIDE DEF r
<1>5. CASE EmptyListRegs(s, v) = {} /\ Queued(r, s, v, a)
  <2> HIDE DEF a
  <2>1. TypeS(r)
    BY <1>1, <1>2, <1>3a, <1>5 DEF GoodA, TypeS, Queued, SameDist, Fields
  <2>2. Mirror(r)
    BY <1>5, SMTT(30) DEF GoodA, Mirror, Queued, SameDist
  <2>3. QF(r, X)
    <3> SUFFICES ASSUME NEW w \in VCPUS, r.irq_queue[w] # <<>>
                 PROVE  EmptyListRegs(r, w) \subseteq X[w]
      BY DEF QF
    <3>1. EmptyListRegs(r, w) = EmptyListRegs(s, w)
      BY <1>5 DEF Queued, EmptyListRegs
    <3>2. CASE w = v
      BY <1>5, <3>1, <3>2
    <3>3. CASE w # v
      <4>1. r.irq_queue[w] = s.irq_queue[w]
        BY <1>1, <1>5, <3>3 DEF Queued, Fields
      <4> QED BY <3>1, <4>1 DEF GoodA, QF
    <3> QED BY <3>2, <3>3
  <2> QED BY <1>5, <2>1, <2>2, <2>3 DEF GoodA, Queued, r
<1>6. CASE \E idx \in EmptyListRegs(s, v), d \in Fields :
             Queued(d, s, v, Tail(a)) /\ Loaded(r, d, v, idx, Head(a))
  <2> PICK idx \in EmptyListRegs(s, v), d \in Fields :
             Queued(d, s, v, Tail(a)) /\ Loaded(r, d, v, idx, Head(a))
    BY <1>6
  <2> DEFINE t == Tail(a)
             h == Head(a)
  <2>0. Queued(d, s, v, t) /\ Loaded(r, d, v, idx, h) /\ idx \in LRs
    BY DEF EmptyListRegs
  <2>0a. t \in Seq(Irqs) /\ h \in Irqs /\ Len(t) = Len(s.irq_queue[v])
    BY <1>2, <1>3, <1>3a, SMTT(30)
  <2>0b. s.irq_queue[v] = <<>> => t = <<>>
    BY <1>1, <2>0a, SMTT(30)
  <2> HIDE DEF t, h, a
  <2>1. SameDist(r, s)
    BY <2>0 DEF Queued, Loaded, SameDist
  <2>2. /\ \A w \in VCPUS \ {v} : r.irq_queue[w] = s.irq_queue[w]
        /\ r.irq_queue[v] = t
    BY <1>1, <2>0, <2>0a, SMTT(30) DEF Queued, Loaded, Fields
  <2>3. TypeS(r)
    BY <1>1, <2>0, <2>0a, <2>1, <2>2 DEF GoodA, TypeS, Loaded, SameDist
  <2>4. /\ r.lr_shadow = [s.lr_shadow EXCEPT ![v][idx] = h]
        /\ r.lr = [s.lr EXCEPT ![v][idx] = "pending"]
        /\ r.exit = s.exit
    BY <2>0, <2>1 DEF Queued, Loaded, SameDist
  <2>5. Mirror(r)
    <3>1. LoadedRegs(r, s, v, idx, h)
      BY <2>4 DEF LoadedRegs
    <3> QED BY <1>1, <2>0a, <3>1, LoadMirror DEF GoodA
  <2>6. QF(r, X)
    <3> SUFFICES ASSUME NEW w \in VCPUS, r.irq_queue[w] # <<>>
                 PROVE  EmptyListRegs(r, w) \subseteq X[w]
      BY DEF QF
    <3>1. EmptyListRegs(r, w) \subseteq EmptyListRegs(s, w)
      BY <1>1, <2>0, <2>0a, <2>4, IrqNumbers, SMTT(30) DEF EmptyListRegs, Fields
    <3>2. s.irq_queue[w] # <<>>
      BY <2>0b, <2>2
    <3> QED BY <3>1, <3>2 DEF GoodA, QF
  <2> QED BY <2>1, <2>3, <2>5, <2>6 DEF GoodA, r
<1> QED BY <1>4, <1>5, <1>6 DEF EnqueuedOrLoaded

-----------------------------------------------------------------------------
(* Which lines are in a list register or a queue *)

\* Replacing the queue of v.
LEMMA QueuedElems ==
  ASSUME NEW s \in Fields, NEW v \in VCPUS, NEW q \in Seq(Irqs), NEW r, Queued(r, s, v, q),
         NEW w \in VCPUS, NEW j
  PROVE  /\ InListReg(r, w, j) <=> InListReg(s, w, j)
         /\ w # v => (InQueue(r, w, j) <=> InQueue(s, w, j))
         /\ w = v => (InQueue(r, w, j) <=> InSeq(q, j))
<1>1. r.lr_shadow = s.lr_shadow /\ r.irq_queue = [s.irq_queue EXCEPT ![v] = q]
  BY DEF Queued
<1>2. r.irq_queue[w] = IF w = v THEN q ELSE s.irq_queue[w]
  BY <1>1 DEF Fields
<1> QED BY <1>1, <1>2 DEF InListReg, InQueue, InSeq

\* Loading a register, whatever it held.
LEMMA LoadedElems ==
  ASSUME NEW s \in Fields, NEW v \in VCPUS, NEW idx \in LRs, NEW i \in Irqs,
         NEW r, Loaded(r, s, v, idx, i), NEW w \in VCPUS, NEW j \in Irqs
  PROVE  /\ InQueue(r, w, j) <=> InQueue(s, w, j)
         /\ w # v => (InListReg(r, w, j) <=> InListReg(s, w, j))
         /\ InListReg(r, v, j) => j = i \/ InListReg(s, v, j)
         /\ idx \in EmptyListRegs(s, v) => (InListReg(r, v, j) <=> j = i \/ InListReg(s, v, j))
<1>1. /\ r.irq_queue = s.irq_queue
      /\ r.lr_shadow = [s.lr_shadow EXCEPT ![v][idx] = i]
  BY DEF Loaded
<1>2. \A k \in LRs : r.lr_shadow[w][k] =
         IF w = v /\ k = idx THEN i ELSE s.lr_shadow[w][k]
  BY <1>1, SMTT(30) DEF Fields
<1>2a. \A k \in LRs : r.lr_shadow[v][k] = IF k = idx THEN i ELSE s.lr_shadow[v][k]
  BY <1>1, SMTT(30) DEF Fields
<1>3. InQueue(r, w, j) <=> InQueue(s, w, j)
  BY <1>1 DEF InQueue
<1>4. w # v => (InListReg(r, w, j) <=> InListReg(s, w, j))
  BY <1>2 DEF InListReg
<1>5. InListReg(r, v, j) => j = i \/ InListReg(s, v, j)
  BY <1>2a DEF InListReg
<1>6. ASSUME idx \in EmptyListRegs(s, v) PROVE j = i \/ InListReg(s, v, j) => InListReg(r, v, j)
  BY <1>2a, <1>6, IrqNumbers DEF InListReg, EmptyListRegs
<1> QED BY <1>3, <1>4, <1>5, <1>6

\* Queueing and loading make exactly the given interrupt resident.
LEMMA EnqueueResident ==
  ASSUME NEW s \in Fields, Mirror(s), NEW v \in VCPUS, NEW i \in Irqs,
         NEW w \in VCPUS, NEW j \in Irqs
  PROVE  LET r == EnqueueAndLoad(s, v, i)
         IN Resident(r, w, j) <=> Resident(s, w, j) \/ (w = v /\ j = i)
<1> DEFINE a == Append(s.irq_queue[v], i)
           r == EnqueueAndLoad(s, v, i)
<1>1. s.irq_queue[v] \in Seq(Irqs)
  BY DEF Fields
<1>2. /\ a \in Seq(Irqs) /\ a # <<>>
      /\ \A x : InSeq(a, x) <=> InSeq(s.irq_queue[v], x) \/ x = i
  BY <1>1, AppendElems, SMTT(30)
<1>3. /\ Tail(a) \in Seq(Irqs) /\ Head(a) \in Irqs
      /\ \A x : InSeq(a, x) <=> InSeq(Tail(a), x) \/ x = Head(a)
  BY <1>2, TailElems
<1>4. EnqueuedOrLoaded(r, s, v, i)
  BY EmptyIsLoadable, EnqueueAndLoadEffect
<1>5. InSeq(s.irq_queue[v], j) <=> InQueue(s, v, j)
  BY DEF InSeq, InQueue
<1> HIDE DEF r
<1>6. CASE EmptyListRegs(s, v) = {} /\ Queued(r, s, v, a)
  <2> HIDE DEF a
  <2>1. InSeq(a, j) <=> InQueue(s, v, j) \/ j = i
    BY <1>2, <1>5
  <2>2. /\ InListReg(r, w, j) <=> InListReg(s, w, j)
        /\ w # v => (InQueue(r, w, j) <=> InQueue(s, w, j))
        /\ w = v => (InQueue(r, w, j) <=> InSeq(a, j))
    BY <1>2, <1>6, QueuedElems
  <2> QED BY <2>1, <2>2 DEF Resident, r
<1>7. CASE \E idx \in EmptyListRegs(s, v), d \in Fields :
             Queued(d, s, v, Tail(a)) /\ Loaded(r, d, v, idx, Head(a))
  <2> PICK idx \in EmptyListRegs(s, v), d \in Fields :
             Queued(d, s, v, Tail(a)) /\ Loaded(r, d, v, idx, Head(a))
    BY <1>7
  <2> DEFINE t == Tail(a)
             h == Head(a)
  <2>1. Queued(d, s, v, t) /\ Loaded(r, d, v, idx, h) /\ idx \in LRs
    BY DEF EmptyListRegs
  <2>2. /\ t \in Seq(Irqs) /\ h \in Irqs
        /\ InSeq(t, j) \/ j = h <=> InSeq(s.irq_queue[v], j) \/ j = i
    BY <1>2, <1>3
  <2> HIDE DEF t, h, a
  <2>3. idx \in EmptyListRegs(d, v)
    BY <2>1 DEF Queued, EmptyListRegs
  <2>4. /\ InListReg(d, w, j) <=> InListReg(s, w, j)
        /\ w # v => (InQueue(d, w, j) <=> InQueue(s, w, j))
        /\ w = v => (InQueue(d, w, j) <=> InSeq(t, j))
    BY <2>1, <2>2, QueuedElems
  <2>5. /\ InQueue(r, w, j) <=> InQueue(d, w, j)
        /\ w # v => (InListReg(r, w, j) <=> InListReg(d, w, j))
        /\ w = v => (InListReg(r, w, j) <=> j = h \/ InListReg(d, w, j))
    BY <2>1, <2>2, <2>3, LoadedElems, SMTT(30)
  <2> QED BY <1>5, <2>2, <2>4, <2>5 DEF Resident, r
<1> QED BY <1>4, <1>6, <1>7 DEF EnqueuedOrLoaded

-----------------------------------------------------------------------------
(* Operations that only inject: they keep GoodA *)

\* r has the list registers, queues, handles and exits of s.
SameCore(r, s) ==
  /\ r \in Fields
  /\ r.lr_shadow = s.lr_shadow /\ r.irq_queue = s.irq_queue /\ r.lr = s.lr
  /\ r.exit = s.exit /\ r.vspis = s.vspis

\* From s to r the hardware only gained pending interrupts and a vCPU can only
\* have left its WFI.
Quiet(r, s) ==
  /\ \A w \in VCPUS, k \in LRs : r.lr[w][k] = s.lr[w][k] \/ r.lr[w][k] = "pending"
  /\ \A w \in VCPUS : \/ r.exit[w] = s.exit[w]
                      \/ s.exit[w] = <<"parked">> /\ r.exit[w] = <<"run">>

\* A step that leaves the core alone keeps the invariants about it.
LEMMA SameCoreGoodA ==
  ASSUME NEW s, NEW X, GoodA(s, X), NEW r, SameCore(r, s)
  PROVE  GoodA(r, X) /\ Quiet(r, s)
<1>1. TypeS(r)
  BY DEF GoodA, TypeS, SameCore
<1>2. Mirror(r)
  BY SMTT(30) DEF GoodA, SameCore, Mirror
<1>3. QF(r, X)
  BY DEF GoodA, SameCore, QF, EmptyListRegs
<1>4. Quiet(r, s)
  BY DEF SameCore, Quiet
<1> QED BY <1>1, <1>2, <1>3, <1>4 DEF GoodA

\* Quiet steps compose.
LEMMA QuietTrans ==
  ASSUME NEW s, NEW r, NEW u, Quiet(r, s), Quiet(u, r)
  PROVE  Quiet(u, s)
BY SMTT(30) DEF Quiet

\* r is s with other pending bits.
OnlyPending(r, s, p) ==
  /\ r \in Fields /\ r.pending = p
  /\ r.enable = s.enable /\ r.enabled = s.enabled /\ r.edge = s.edge
  /\ r.level = s.level /\ r.local_virqs = s.local_virqs /\ r.vspis = s.vspis
  /\ r.masked = s.masked /\ r.dropped = s.dropped /\ r.exit = s.exit
  /\ r.lr_shadow = s.lr_shadow /\ r.irq_queue = s.irq_queue /\ r.lr = s.lr

\* set_pending writes the line's pending bit and nothing else.
LEMMA SetPendingEffect ==
  ASSUME NEW s \in Fields, NEW v \in VCPUS, NEW i \in Irqs, NEW p \in BOOLEAN
  PROVE  OnlyPending(set_pending(s, v, i, p), s,
                     IF p THEN s.pending \cup {Line(v, i)} ELSE s.pending \ {Line(v, i)})
<1> DEFINE q == IF p THEN s.pending \cup {Line(v, i)} ELSE s.pending \ {Line(v, i)}
<1>1. q \in SUBSET Lines
  BY LineType, SMTT(30) DEF Fields
<1>2. set_pending(s, v, i, p) = [s EXCEPT !.pending = q]
  BY SMTT(30) DEF set_pending
<1> HIDE DEF q
<1>3. [s EXCEPT !.pending = q] \in Fields
  BY <1>1 DEF Fields
<1>4. OnlyPending([s EXCEPT !.pending = q], s, q)
  BY <1>3 DEF OnlyPending, Fields
<1> QED BY <1>2, <1>4 DEF q

\* A queue overflow is recorded beside the pending bit and changes nothing else.
Overflowed(s, v, i) == [set_pending(s, v, i, TRUE) EXCEPT !.dropped = @ \cup {Line(v, i)}]

\* r is s with line l pending and reported lost.
DroppedAt(r, s, l) ==
  /\ r \in Fields /\ r.pending = s.pending \cup {l} /\ r.dropped = s.dropped \cup {l}
  /\ r.enable = s.enable /\ r.enabled = s.enabled /\ r.edge = s.edge
  /\ r.level = s.level /\ r.local_virqs = s.local_virqs /\ r.vspis = s.vspis
  /\ r.masked = s.masked /\ r.exit = s.exit
  /\ r.lr_shadow = s.lr_shadow /\ r.irq_queue = s.irq_queue /\ r.lr = s.lr

\* What the overflow branch of vgic_dist_set_pending_irq leaves behind.
LEMMA OverflowEffect ==
  ASSUME NEW s \in Fields, NEW v \in VCPUS, NEW i \in Irqs
  PROVE  DroppedAt(Overflowed(s, v, i), s, Line(v, i))
<1> DEFINE p == set_pending(s, v, i, TRUE)
           l == Line(v, i)
<1>1. OnlyPending(p, s, s.pending \cup {l})
  BY SetPendingEffect
<1>2. Overflowed(s, v, i) = [p EXCEPT !.dropped = @ \cup {l}] /\ l \in Lines
  BY LineType DEF Overflowed
<1> HIDE DEF p, l
<1>3. p \in Fields
  BY <1>1, SMTT(30) DEF OnlyPending
<1>4. [p EXCEPT !.dropped = @ \cup {l}] \in Fields
  BY <1>2, <1>3 DEF Fields
<1>5. DroppedAt([p EXCEPT !.dropped = @ \cup {l}], s, l)
  BY <1>1, <1>3, <1>4 DEF OnlyPending, DroppedAt, Fields
<1> QED BY <1>2, <1>5 DEF l

\* The three outcomes of vgic_dist_set_pending_irq.
LEMMA SetPendingCases ==
  ASSUME NEW s, NEW v, NEW i
  PROVE  LET r == vgic_dist_set_pending_irq(s, v, i)
             p == set_pending(s, v, i, TRUE)
         IN \/ (~Deliverable(s, v, i) \/ Line(v, i) \in s.pending) /\ r = s
            \/ /\ Deliverable(s, v, i) /\ Line(v, i) \notin s.pending
               /\ QueueFull(s, v) /\ r = Overflowed(s, v, i)
            \/ /\ Deliverable(s, v, i) /\ Line(v, i) \notin s.pending
               /\ ~QueueFull(s, v) /\ r = EnqueueAndLoad(p, v, i)
BY DEF vgic_dist_set_pending_irq, Overflowed

\* Queueing and loading is quiet.
LEMMA EnqueueQuiet ==
  ASSUME NEW s \in Fields, Mirror(s), NEW v \in VCPUS, NEW i \in Irqs
  PROVE  Quiet(EnqueueAndLoad(s, v, i), s)
<1> DEFINE a == Append(s.irq_queue[v], i)
           r == EnqueueAndLoad(s, v, i)
<1>1. EnqueuedOrLoaded(r, s, v, i)
  BY EmptyIsLoadable, EnqueueAndLoadEffect
<1> HIDE DEF r
<1>2. CASE Queued(r, s, v, a)
  <2> HIDE DEF a
  <2> QED BY <1>2 DEF Queued, SameDist, Quiet, r
<1>3. CASE \E idx \in EmptyListRegs(s, v), d \in Fields :
             Queued(d, s, v, Tail(a)) /\ Loaded(r, d, v, idx, Head(a))
  <2> PICK idx \in EmptyListRegs(s, v), d \in Fields :
             Queued(d, s, v, Tail(a)) /\ Loaded(r, d, v, idx, Head(a))
    BY <1>3
  <2> DEFINE t == Tail(a)
             h == Head(a)
  <2>1. Queued(d, s, v, t) /\ Loaded(r, d, v, idx, h) /\ idx \in LRs
    BY DEF EmptyListRegs
  <2> HIDE DEF t, h, a
  <2>2. r.lr = [s.lr EXCEPT ![v][idx] = "pending"] /\ r.exit = s.exit
    BY <2>1 DEF Queued, Loaded, SameDist
  <2>3. \A w \in VCPUS, k \in LRs : r.lr[w][k] = s.lr[w][k] \/ r.lr[w][k] = "pending"
    BY <2>1, <2>2, SMTT(30) DEF Fields
  <2> QED BY <2>2, <2>3 DEF Quiet, r
<1> QED BY <1>1, <1>2, <1>3 DEF EnqueuedOrLoaded

\* vgic_dist_set_pending_irq keeps GoodA and is quiet.
LEMMA SetPendingGoodA ==
  ASSUME NEW s, NEW X, GoodA(s, X), NEW v \in VCPUS, NEW i \in Irqs
  PROVE  LET r == vgic_dist_set_pending_irq(s, v, i) IN GoodA(r, X) /\ Quiet(r, s)
<1> DEFINE r == vgic_dist_set_pending_irq(s, v, i)
           p == set_pending(s, v, i, TRUE)
<1>0. s \in Fields
  BY DEF GoodA, TypeS
<1>1. CASE r = s
  <2>1. SameCore(s, s)
    BY <1>0 DEF SameCore
  <2> HIDE DEF r
  <2>2. GoodA(r, X) /\ Quiet(r, s)
    BY <1>1, <2>1, SameCoreGoodA
  <2> QED BY <2>2 DEF r
<1>2. CASE r = Overflowed(s, v, i)
  <2>1. DroppedAt(r, s, Line(v, i))
    BY <1>0, <1>2, OverflowEffect
  <2> HIDE DEF r
  <2>2. SameCore(r, s)
    BY <2>1 DEF DroppedAt, SameCore
  <2>3. GoodA(r, X) /\ Quiet(r, s)
    BY <2>2, SameCoreGoodA
  <2> QED BY <2>3, SMTT(30) DEF r
<1>3. CASE ~QueueFull(s, v) /\ r = EnqueueAndLoad(p, v, i)
  <2>1. OnlyPending(p, s, s.pending \cup {Line(v, i)})
    BY <1>0, SetPendingEffect
  <2> HIDE DEF p, r
  <2>2. SameCore(p, s) /\ p \in Fields
    BY <2>1 DEF OnlyPending, SameCore
  <2>3. GoodA(p, X) /\ Quiet(p, s)
    BY <2>2, SameCoreGoodA
  <2>4. ~QueueFull(p, v)
    BY <1>3, <2>2 DEF QueueFull, SameCore
  <2>5. GoodA(r, X)
    BY <1>3, <2>3, <2>4, EnqueueGoodA
  <2>6. Quiet(r, p)
    BY <1>3, <2>2, <2>3, EnqueueQuiet DEF GoodA
  <2>7. Quiet(r, s)
    BY <2>3, <2>6, QuietTrans
  <2> QED BY <2>5, <2>7 DEF r
<1> QED BY <1>1, <1>2, <1>3, SetPendingCases

\* r is s with the exit of v replaced by x.
OnlyExit(r, s, v, x) ==
  /\ r \in Fields /\ r.exit = [s.exit EXCEPT ![v] = x]
  /\ r.enable = s.enable /\ r.enabled = s.enabled /\ r.edge = s.edge
  /\ r.level = s.level /\ r.local_virqs = s.local_virqs /\ r.vspis = s.vspis
  /\ r.masked = s.masked /\ r.dropped = s.dropped /\ r.pending = s.pending
  /\ r.lr_shadow = s.lr_shadow /\ r.irq_queue = s.irq_queue /\ r.lr = s.lr

SetExit(s, v, x) == [s EXCEPT !.exit[v] = x]

\* Setting an exit changes nothing else.
LEMMA SetExitEffect ==
  ASSUME NEW s \in Fields, NEW v \in VCPUS, NEW x \in Exits
  PROVE  OnlyExit(SetExit(s, v, x), s, v, x)
<1>1. SetExit(s, v, x) \in Fields
  BY DEF Fields, SetExit
<1> QED BY <1>1 DEF OnlyExit, SetExit, Fields

\* Leaving or entering an exit that is not a maintenance message keeps GoodA.
LEMMA ExitGoodA ==
  ASSUME NEW s, NEW X, GoodA(s, X), NEW v \in VCPUS, NEW x,
         NEW r, OnlyExit(r, s, v, x),
         \A idx \in LRs : s.exit[v] # <<"maint", idx>> /\ x # <<"maint", idx>>
  PROVE  GoodA(r, X)
<1>1. TypeS(r)
  BY DEF GoodA, TypeS, OnlyExit
<1>2. \A w \in VCPUS : r.exit[w] = IF w = v THEN x ELSE s.exit[w]
  BY DEF GoodA, TypeS, OnlyExit, Fields
<1>3. Mirror(r)
  <2> SUFFICES ASSUME NEW w \in VCPUS, NEW k \in LRs
               PROVE  IF r.exit[w] = <<"maint", k>>
                        THEN r.lr[w][k] = "invalid" /\ r.lr_shadow[w][k] # NoIrq
                        ELSE r.lr[w][k] = "invalid" <=> r.lr_shadow[w][k] = NoIrq
    BY DEF Mirror
  <2>1. r.exit[w] = <<"maint", k>> <=> s.exit[w] = <<"maint", k>>
    BY <1>2
  <2>2. r.lr[w][k] = s.lr[w][k] /\ r.lr_shadow[w][k] = s.lr_shadow[w][k]
    BY DEF OnlyExit
  <2> QED BY <2>1, <2>2 DEF GoodA, Mirror
<1>4. QF(r, X)
  BY DEF GoodA, QF, OnlyExit, EmptyListRegs
<1> QED BY <1>1, <1>3, <1>4 DEF GoodA

\* The wake-up of a parked vCPU.
LEMMA WakeCases ==
  ASSUME NEW s, NEW v, NEW i
  PROVE  LET p == vgic_dist_set_pending_irq(s, v, i)
             r == vm_inject_irq(s, v, i)
         IN \/ p.exit[v] = <<"parked">> /\ r = SetExit(p, v, <<"run">>)
            \/ p.exit[v] # <<"parked">> /\ r = p
BY DEF vm_inject_irq, SetExit

\* vm_inject_irq keeps GoodA and is quiet.
LEMMA InjectGoodA ==
  ASSUME NEW s, NEW X, GoodA(s, X), NEW v \in VCPUS, NEW i \in Irqs
  PROVE  LET r == vm_inject_irq(s, v, i) IN GoodA(r, X) /\ Quiet(r, s)
<1> DEFINE p == vgic_dist_set_pending_irq(s, v, i)
           r == vm_inject_irq(s, v, i)
<1>1. GoodA(p, X) /\ Quiet(p, s)
  BY SetPendingGoodA
<1>2. \/ p.exit[v] = <<"parked">> /\ r = SetExit(p, v, <<"run">>)
      \/ p.exit[v] # <<"parked">> /\ r = p
  BY WakeCases
<1> HIDE DEF p, r
<1>3. CASE r = p
  BY <1>1, <1>3 DEF r
<1>4. CASE p.exit[v] = <<"parked">> /\ r = SetExit(p, v, <<"run">>)
  <2>1. OnlyExit(r, p, v, <<"run">>)
    BY <1>1, <1>4, SetExitEffect DEF GoodA, TypeS, Exits
  <2>2. GoodA(r, X)
    BY <1>1, <1>4, <2>1, ExitGoodA, SMTT(30)
  <2>3. Quiet(r, p)
    BY <1>1, <1>4, <2>1 DEF OnlyExit, Quiet, GoodA, TypeS, Fields
  <2>4. Quiet(r, s)
    BY <1>1, <2>3, QuietTrans
  <2> QED BY <2>2, <2>4, SMTT(30) DEF r
<1> QED BY <1>2, <1>3, <1>4

SetLevel(s, l) == [s EXCEPT !.level = l]
SetMasked(s, m) == [s EXCEPT !.masked = m]
SetEnabled(s, e) == [s EXCEPT !.enabled = e]

\* r is s with other levels, masks or enable bits.
OnlyCfg(r, s, level, masked, enabled) ==
  /\ r \in Fields /\ r.level = level /\ r.masked = masked /\ r.enabled = enabled
  /\ r.enable = s.enable /\ r.edge = s.edge
  /\ r.local_virqs = s.local_virqs /\ r.vspis = s.vspis
  /\ r.dropped = s.dropped /\ r.pending = s.pending /\ r.exit = s.exit
  /\ r.lr_shadow = s.lr_shadow /\ r.irq_queue = s.irq_queue /\ r.lr = s.lr

\* The level, mask and enable updates change nothing else.
LEMMA CfgEffects ==
  ASSUME NEW s \in Fields
  PROVE  /\ \A l \in SUBSET Lines : OnlyCfg(SetLevel(s, l), s, l, s.masked, s.enabled)
         /\ \A m \in SUBSET (VCPUS \X PPIS) :
              OnlyCfg(SetMasked(s, m), s, s.level, m, s.enabled)
         /\ \A e \in SUBSET Lines : OnlyCfg(SetEnabled(s, e), s, s.level, s.masked, e)
<1>1. ASSUME NEW l \in SUBSET Lines PROVE OnlyCfg(SetLevel(s, l), s, l, s.masked, s.enabled)
  <2>1. SetLevel(s, l) \in Fields
    BY DEF SetLevel, Fields
  <2> QED BY <2>1 DEF SetLevel, OnlyCfg, Fields
<1>2. ASSUME NEW m \in SUBSET (VCPUS \X PPIS)
      PROVE  OnlyCfg(SetMasked(s, m), s, s.level, m, s.enabled)
  <2>1. SetMasked(s, m) \in Fields
    BY DEF SetMasked, Fields
  <2> QED BY <2>1 DEF SetMasked, OnlyCfg, Fields
<1>3. ASSUME NEW e \in SUBSET Lines PROVE OnlyCfg(SetEnabled(s, e), s, s.level, s.masked, e)
  <2>1. SetEnabled(s, e) \in Fields
    BY DEF SetEnabled, Fields
  <2> QED BY <2>1 DEF SetEnabled, OnlyCfg, Fields
<1> QED BY <1>1, <1>2, <1>3

\* Configuration updates keep GoodA.
LEMMA CfgGoodA ==
  ASSUME NEW s, NEW X, GoodA(s, X), NEW r, NEW l, NEW m, NEW e, OnlyCfg(r, s, l, m, e)
  PROVE  GoodA(r, X) /\ Quiet(r, s)
<1>1. SameCore(r, s)
  BY DEF OnlyCfg, SameCore
<1> QED BY <1>1, SameCoreGoodA

\* Doing nothing keeps GoodA.
LEMMA StutterGoodA ==
  ASSUME NEW s, NEW X, GoodA(s, X)
  PROVE  Quiet(s, s)
BY SMTT(30) DEF Quiet

\* What the level handling and the callbacks do, case by case.
LEMMA AckCases ==
  ASSUME NEW s, NEW v, NEW i, NEW again
  PROVE  LET r == vgic_handle_level(s, v, i)
             a == virq_ack(s, v, i, again)
         IN /\ \/ r = s
               \/ r = SetLevel(s, s.level \ {Line(v, i)})
               \/ Line(v, i) \in s.level /\ r = vm_inject_irq(s, v, i)
            /\ \/ a = SetMasked(s, s.masked \ {<<v, i>>}) /\ i \in PPIS
               \/ a = vm_inject_irq(s, BOOT_VCPU, i) /\ i \in ReinjectIrqs /\ i \notin PPIS
               \/ a = s /\ i \notin PPIS
BY SMTT(30) DEF vgic_handle_level, virq_ack, SetLevel, SetMasked

\* vgic_handle_level keeps GoodA and is quiet.
LEMMA HandleLevelGoodA ==
  ASSUME NEW s, NEW X, GoodA(s, X), NEW v \in VCPUS, NEW i \in Irqs
  PROVE  LET r == vgic_handle_level(s, v, i) IN GoodA(r, X) /\ Quiet(r, s)
<1> DEFINE r == vgic_handle_level(s, v, i)
           l == s.level \ {Line(v, i)}
<1>0. s \in Fields /\ l \in SUBSET Lines
  BY DEF GoodA, TypeS, Fields
<1>1. CASE r = s
  BY <1>1, StutterGoodA
<1>2. CASE r = SetLevel(s, l)
  <2>1. OnlyCfg(r, s, l, s.masked, s.enabled)
    BY <1>0, <1>2, CfgEffects
  <2> HIDE DEF r, l
  <2>2. GoodA(r, X) /\ Quiet(r, s)
    BY <2>1, CfgGoodA
  <2> QED BY <2>2, SMTT(30) DEF r
<1>3. CASE r = vm_inject_irq(s, v, i)
  BY <1>3, InjectGoodA
<1> QED BY <1>1, <1>2, <1>3, AckCases

\* The registered callbacks keep GoodA and are quiet.
LEMMA VirqAckGoodA ==
  ASSUME NEW s, NEW X, GoodA(s, X), NEW v \in VCPUS, NEW i \in Irqs, NEW again
  PROVE  LET r == virq_ack(s, v, i, again) IN GoodA(r, X) /\ Quiet(r, s)
<1> DEFINE r == virq_ack(s, v, i, again)
           m == s.masked \ {<<v, i>>}
<1>0. s \in Fields /\ m \in SUBSET (VCPUS \X PPIS) /\ BOOT_VCPU \in VCPUS
  BY ConstantsAssumption DEF GoodA, TypeS, Fields
<1>1. CASE r = s
  BY <1>1, StutterGoodA
<1>2. CASE r = SetMasked(s, m)
  <2>1. OnlyCfg(r, s, s.level, m, s.enabled)
    BY <1>0, <1>2, CfgEffects
  <2> HIDE DEF r, m
  <2>2. GoodA(r, X) /\ Quiet(r, s)
    BY <2>1, CfgGoodA
  <2> QED BY <2>2 DEF r
<1>3. CASE r = vm_inject_irq(s, BOOT_VCPU, i)
  BY <1>0, <1>3, InjectGoodA
<1>4. r = s \/ r = SetMasked(s, m) \/ r = vm_inject_irq(s, BOOT_VCPU, i)
  BY DEF virq_ack, SetMasked
<1> QED BY <1>1, <1>2, <1>3, <1>4

\* vgic_irq_ack keeps GoodA and is quiet.
LEMMA IrqAckGoodA ==
  ASSUME NEW s, NEW X, GoodA(s, X), NEW v \in VCPUS, NEW i \in Irqs, NEW again
  PROVE  LET r == vgic_irq_ack(s, v, i, again) IN GoodA(r, X) /\ Quiet(r, s)
<1> DEFINE a == virq_ack(s, v, i, again)
           r == vgic_irq_ack(s, v, i, again)
<1>1. GoodA(a, X) /\ Quiet(a, s)
  BY VirqAckGoodA
<1>2. r = vgic_handle_level(a, v, i)
  BY DEF vgic_irq_ack
<1> HIDE DEF a, r
<1>3. GoodA(r, X) /\ Quiet(r, a)
  BY <1>1, <1>2, HandleLevelGoodA
<1>4. Quiet(r, s)
  BY <1>1, <1>3, QuietTrans
<1> QED BY <1>3, <1>4 DEF r

-----------------------------------------------------------------------------
(* The maintenance handler *)

NoX == [w \in VCPUS |-> {}]
OneX(v, idx) == [w \in VCPUS |-> IF w = v THEN {idx} ELSE {}]

\* r is s with list register idx of v vacated, its line no longer pending and
\* the guest waiting for an answer.
Retired(r, s, v, idx) ==
  /\ r \in Fields
  /\ r.pending = s.pending \ {Line(v, s.lr_shadow[v][idx])}
  /\ r.lr_shadow = [s.lr_shadow EXCEPT ![v][idx] = NoIrq]
  /\ r.exit = [s.exit EXCEPT ![v] = <<"unanswered">>]
  /\ r.enable = s.enable /\ r.enabled = s.enabled /\ r.edge = s.edge
  /\ r.level = s.level /\ r.local_virqs = s.local_virqs /\ r.vspis = s.vspis
  /\ r.masked = s.masked /\ r.dropped = s.dropped
  /\ r.irq_queue = s.irq_queue /\ r.lr = s.lr

\* The first half of handle_vgic_maintenance.
LEMMA RetireEffect ==
  ASSUME NEW s \in Fields, NEW v \in VCPUS, NEW idx \in LRs, s.lr_shadow[v][idx] # NoIrq
  PROVE  Retired(Retire(s, v, idx), s, v, idx)
<1> DEFINE i == s.lr_shadow[v][idx]
           p == set_pending(s, v, i, FALSE)
           sh == [s.lr_shadow EXCEPT ![v][idx] = NoIrq]
           ex == [s.exit EXCEPT ![v] = <<"unanswered">>]
           r == Retire(s, v, idx)
<1>1. i \in Irqs
  BY SMTT(30) DEF Fields
<1>2. OnlyPending(p, s, s.pending \ {Line(v, i)})
  BY <1>1, SetPendingEffect
<1>3. sh \in [VCPUS -> [LRs -> Irqs \cup {NoIrq}]] /\ ex \in [VCPUS -> Exits]
  BY SMTT(30) DEF Fields, Exits
<1>4. r = [p EXCEPT !.lr_shadow[v][idx] = NoIrq, !.exit[v] = <<"unanswered">>]
  BY SMTT(30) DEF Retire
<1>5. p \in Fields /\ p.lr_shadow = s.lr_shadow /\ p.exit = s.exit
  BY <1>2 DEF OnlyPending
<1> HIDE DEF p, r, i
<1>6. r = [p EXCEPT !.lr_shadow = sh, !.exit = ex]
  BY <1>4, <1>5 DEF Fields
<1> HIDE DEF sh, ex
<1>7. r \in Fields
  BY <1>3, <1>5, <1>6 DEF Fields
<1>8. /\ r.lr_shadow = sh /\ r.exit = ex
      /\ r.pending = p.pending
      /\ r.enable = p.enable /\ r.enabled = p.enabled /\ r.edge = p.edge
      /\ r.level = p.level /\ r.local_virqs = p.local_virqs /\ r.vspis = p.vspis
      /\ r.masked = p.masked /\ r.dropped = p.dropped
      /\ r.irq_queue = p.irq_queue /\ r.lr = p.lr
  BY <1>5, <1>6 DEF Fields
<1> QED BY <1>2, <1>7, <1>8 DEF OnlyPending, Retired, sh, ex, i, r

\* Retiring keeps GoodA with the vacated register excepted.
LEMMA RetireGoodA ==
  ASSUME NEW s, GoodA(s, NoX), NEW v \in VCPUS, NEW idx \in LRs,
         s.exit[v] = <<"maint", idx>>, NEW r, Retired(r, s, v, idx)
  PROVE  /\ GoodA(r, OneX(v, idx))
         /\ r.exit[v] = <<"unanswered">> /\ r.lr[v][idx] = "invalid"
<1>0. s \in Fields
  BY DEF GoodA, TypeS
<1>1. /\ \A w \in VCPUS, k \in LRs : r.lr_shadow[w][k] =
                IF w = v /\ k = idx THEN NoIrq ELSE s.lr_shadow[w][k]
      /\ \A w \in VCPUS : r.exit[w] = IF w = v THEN <<"unanswered">> ELSE s.exit[w]
      /\ r.lr = s.lr /\ r.irq_queue = s.irq_queue /\ r.vspis = s.vspis
  BY <1>0, SMTT(30) DEF Retired, Fields
<1>2. s.lr[v][idx] = "invalid"
  BY SMTT(30) DEF GoodA, Mirror
<1>3. TypeS(r)
  BY <1>1 DEF GoodA, TypeS, Retired
<1>4. Mirror(r)
  <2> SUFFICES ASSUME NEW w \in VCPUS, NEW k \in LRs
               PROVE  IF r.exit[w] = <<"maint", k>>
                        THEN r.lr[w][k] = "invalid" /\ r.lr_shadow[w][k] # NoIrq
                        ELSE r.lr[w][k] = "invalid" <=> r.lr_shadow[w][k] = NoIrq
    BY DEF Mirror
  <2>1. CASE w # v
    BY <1>1, <2>1, SMTT(30) DEF GoodA, Mirror
  <2>2. CASE w = v /\ k = idx
    BY <1>1, <1>2, <2>2, SMTT(30)
  <2>3. CASE w = v /\ k # idx
    <3>1. s.exit[w] # <<"maint", k>> /\ r.exit[w] # <<"maint", k>>
      BY <1>1, <2>3, SMTT(30)
    <3> QED BY <1>1, <2>3, <3>1, SMTT(30) DEF GoodA, Mirror
  <2> QED BY <2>1, <2>2, <2>3
<1>5. QF(r, OneX(v, idx))
  BY <1>1, SMTT(30) DEF GoodA, QF, NoX, OneX, EmptyListRegs
<1> QED BY <1>1, <1>2, <1>3, <1>4, <1>5 DEF GoodA

\* The second half of handle_vgic_maintenance: with an empty queue the guest is
\* answered; otherwise the head of the queue goes to the register, whatever that
\* holds by then.
Refilled(r, s, v, idx) ==
  LET q == s.irq_queue[v]
  IN \/ q = <<>> /\ OnlyExit(r, s, v, <<"run">>)
     \/ /\ q # <<>>
        /\ \E d, l \in Fields : /\ Queued(d, s, v, Tail(q))
                                /\ Loaded(l, d, v, idx, Head(q))
                                /\ OnlyExit(r, l, v, <<"run">>)

\* What Refill leaves when seL4 accepts the load.
LEMMA RefillEffect ==
  ASSUME NEW s \in Fields, NEW v \in VCPUS, NEW idx \in LRs, InjectIRQ_ok(s, v, idx)
  PROVE  Refilled(Refill(s, v, idx), s, v, idx)
<1> DEFINE q == s.irq_queue[v]
           r == Refill(s, v, idx)
           d == vgic_irq_dequeue(s, v)
           l == vgic_vcpu_load_list_reg(d, v, idx, Head(q))
<1>0. q \in Seq(Irqs) /\ <<"run">> \in Exits
  BY DEF Fields, Exits
<1>1. CASE q = <<>>
  <2>1. r = SetExit(s, v, <<"run">>)
    BY <1>1 DEF Refill, SetExit
  <2>2. OnlyExit(r, s, v, <<"run">>)
    BY <1>0, <2>1, SetExitEffect
  <2> QED BY <1>1, <2>2 DEF Refilled
<1>2. CASE q # <<>>
  <2>1. Tail(q) \in Seq(Irqs) /\ Head(q) \in Irqs
    BY <1>0, <1>2, TailElems
  <2>2. Queued(d, s, v, Tail(q))
    BY <2>1, SetQueueEffect DEF vgic_irq_dequeue
  <2>3. r = SetExit(l, v, <<"run">>)
    BY <1>2 DEF Refill, SetExit
  <2> HIDE DEF d, r
  <2>4. d \in Fields /\ InjectIRQ_ok(d, v, idx)
    BY <2>2 DEF Queued, InjectIRQ_ok
  <2>5. Loaded(l, d, v, idx, Head(q))
    BY <2>1, <2>4, LoadEffect
  <2> HIDE DEF l
  <2>6. l \in Fields
    BY <2>5 DEF Loaded
  <2>7. OnlyExit(r, l, v, <<"run">>)
    BY <1>0, <2>3, <2>6, SetExitEffect
  <2> QED BY <1>2, <2>2, <2>4, <2>5, <2>6, <2>7 DEF Refilled, r
<1> QED BY <1>1, <1>2

\* Refilling ends the exception for the vacated register.
LEMMA RefillGoodA ==
  ASSUME NEW s, NEW v \in VCPUS, NEW idx \in LRs, GoodA(s, OneX(v, idx)),
         s.exit[v] = <<"unanswered">>, NEW r, Refilled(r, s, v, idx)
  PROVE  /\ GoodA(r, NoX)
         /\ \A w \in VCPUS : r.exit[w] = IF w = v THEN <<"run">> ELSE s.exit[w]
<1> DEFINE q == s.irq_queue[v]
<1>0. s \in Fields /\ q \in Seq(Irqs)
  BY DEF GoodA, TypeS, Fields
<1>1. CASE q = <<>> /\ OnlyExit(r, s, v, <<"run">>)
  <2>1. GoodA(r, OneX(v, idx))
    BY <1>1, ExitGoodA, SMTT(30)
  <2>2. r.irq_queue[v] = <<>>
    BY <1>1 DEF OnlyExit
  <2>3. QF(r, NoX)
    BY <2>1, <2>2 DEF GoodA, QF, OneX, NoX
  <2>4. \A w \in VCPUS : r.exit[w] = IF w = v THEN <<"run">> ELSE s.exit[w]
    BY <1>0, <1>1 DEF OnlyExit, Fields
  <2> QED BY <2>1, <2>3, <2>4 DEF GoodA
<1>2. CASE q # <<>> /\ \E d, l \in Fields : /\ Queued(d, s, v, Tail(q))
                                            /\ Loaded(l, d, v, idx, Head(q))
                                            /\ OnlyExit(r, l, v, <<"run">>)
  <2> DEFINE t == Tail(q)
             h == Head(q)
  <2>1. PICK d \in Fields, l \in Fields :
             Queued(d, s, v, t) /\ Loaded(l, d, v, idx, h) /\ OnlyExit(r, l, v, <<"run">>)
    BY <1>2
  <2>2. t \in Seq(Irqs) /\ h \in Irqs /\ h # NoIrq /\ Len(t) = Len(q) - 1
    BY <1>0, <1>2, TailElems, IrqNumbers
  <2>2a. Len(q) \in Nat /\ Len(q) < MaxIrqQueueLen
    BY <1>0, SMTT(30) DEF GoodA, TypeS
  <2> HIDE DEF t, h, q
  <2>3. /\ r \in Fields /\ r.vspis = s.vspis
        /\ r.irq_queue = [s.irq_queue EXCEPT ![v] = t]
        /\ r.lr_shadow = [s.lr_shadow EXCEPT ![v][idx] = h]
        /\ r.lr = [s.lr EXCEPT ![v][idx] = "pending"]
        /\ r.exit = [s.exit EXCEPT ![v] = <<"run">>]
    BY <2>1 DEF Queued, Loaded, OnlyExit, SameDist
  <2>4. /\ \A w \in VCPUS : r.irq_queue[w] = IF w = v THEN t ELSE s.irq_queue[w]
        /\ \A w \in VCPUS : r.exit[w] = IF w = v THEN <<"run">> ELSE s.exit[w]
        /\ \A w \in VCPUS, k \in LRs :
             /\ r.lr_shadow[w][k] = IF w = v /\ k = idx THEN h ELSE s.lr_shadow[w][k]
             /\ r.lr[w][k] = IF w = v /\ k = idx THEN "pending" ELSE s.lr[w][k]
    BY <1>0, <2>3, SMTT(30) DEF Fields
  <2>5. TypeS(r)
    <3>1. Len(t) < MaxIrqQueueLen
      BY <2>2, <2>2a, ConstantsAssumption, SMTT(30)
    <3> QED BY <2>3, <2>4, <3>1 DEF GoodA, TypeS
  <2>6. Mirror(r)
    <3> SUFFICES ASSUME NEW w \in VCPUS, NEW k \in LRs
                 PROVE  IF r.exit[w] = <<"maint", k>>
                          THEN r.lr[w][k] = "invalid" /\ r.lr_shadow[w][k] # NoIrq
                          ELSE r.lr[w][k] = "invalid" <=> r.lr_shadow[w][k] = NoIrq
      BY DEF Mirror
    <3>1. CASE w # v
      BY <2>4, <3>1, SMTT(30) DEF GoodA, Mirror
    <3>2. CASE w = v /\ k = idx
      BY <2>2, <2>4, <3>2, SMTT(30)
    <3>3. CASE w = v /\ k # idx
      <4>1. s.exit[w] # <<"maint", k>> /\ r.exit[w] # <<"maint", k>>
        BY <2>4, <3>3, SMTT(30)
      <4> QED BY <2>4, <3>3, <4>1, SMTT(30) DEF GoodA, Mirror
    <3> QED BY <3>1, <3>2, <3>3
  <2>7. QF(r, NoX)
    <3> SUFFICES ASSUME NEW w \in VCPUS, r.irq_queue[w] # <<>>, NEW k \in LRs
                 PROVE  r.lr_shadow[w][k] # NoIrq
      BY DEF QF, NoX, EmptyListRegs
    <3>1. s.irq_queue[w] # <<>>
      BY <1>2, <2>4 DEF q
    <3>2. s.lr_shadow[w][k] # NoIrq \/ (w = v /\ k = idx)
      BY <3>1, SMTT(30) DEF GoodA, QF, OneX, EmptyListRegs
    <3> QED BY <2>2, <2>4, <3>2
  <2> QED BY <2>4, <2>5, <2>6, <2>7 DEF GoodA
<1> QED BY <1>1, <1>2 DEF Refilled

\* The whole maintenance handler keeps GoodA and answers the guest.
LEMMA MaintenanceGoodA ==
  ASSUME NEW s, GoodA(s, NoX), Answered(s), NEW v \in VCPUS, NEW idx \in LRs, NEW again,
         s.exit[v] = <<"maint", idx>>
  PROVE  LET r == handle_vgic_maintenance(s, v, idx, again)
         IN GoodA(r, NoX) /\ Answered(r)
<1> DEFINE i == s.lr_shadow[v][idx]
           a == Retire(s, v, idx)
           b == vgic_irq_ack(a, v, i, again)
           r == handle_vgic_maintenance(s, v, idx, again)
<1>1. s \in Fields /\ i \in Irqs /\ i # NoIrq
  BY SMTT(30) DEF GoodA, TypeS, Fields, Mirror
<1>2. Retired(a, s, v, idx)
  BY <1>1, RetireEffect
<1>3. r = Refill(b, v, idx)
  BY DEF handle_vgic_maintenance
<1> HIDE DEF a, b, r, i
<1>4. GoodA(a, OneX(v, idx)) /\ a.exit[v] = <<"unanswered">> /\ a.lr[v][idx] = "invalid"
  BY <1>2, RetireGoodA
<1>5. GoodA(b, OneX(v, idx)) /\ Quiet(b, a)
  BY <1>1, <1>4, IrqAckGoodA DEF b
<1>6. b.exit[v] = <<"unanswered">> /\ InjectIRQ_ok(b, v, idx) /\ b \in Fields
  BY <1>4, <1>5, SMTT(30) DEF Quiet, InjectIRQ_ok, GoodA, TypeS
<1>7. Refilled(r, b, v, idx)
  BY <1>3, <1>6, RefillEffect
<1>8. /\ GoodA(r, NoX)
      /\ \A w \in VCPUS : r.exit[w] = IF w = v THEN <<"run">> ELSE b.exit[w]
  BY <1>5, <1>6, <1>7, RefillGoodA, SMTT(30)
<1>9. \A w \in VCPUS \ {v} : a.exit[w] = s.exit[w]
  BY <1>1, <1>2 DEF Retired, Fields
<1>10. Answered(r)
  BY <1>5, <1>8, <1>9, SMTT(30) DEF Quiet, Answered
<1> QED BY <1>8, <1>10 DEF r

-----------------------------------------------------------------------------
(* Type correctness, the shadow and the queue, for every step *)

\* Quiet steps answer nobody late.
LEMMA QuietAnswered ==
  ASSUME NEW s, NEW r, Answered(s), Quiet(r, s)
  PROVE  Answered(r)
BY SMTT(30) DEF Answered, Quiet

\* Registration touches only the handles.
LEMMA RegisterGoodA ==
  ASSUME NEW s, NEW X, GoodA(s, X), NEW v \in VCPUS, NEW i \in Irqs
  PROVE  LET r == virq_add(s, v, i) IN GoodA(r, X) /\ Quiet(r, s)
<1> DEFINE r == virq_add(s, v, i)
<1>0. s \in Fields /\ s.vspis \in Seq(SPIS) /\ Len(s.vspis) \in Nat
  BY SMTT(30) DEF GoodA, TypeS, Fields
<1>1. CASE i \in Locals
  <2> DEFINE l == s.local_virqs \cup {<<v, i>>}
  <2>1. r = [s EXCEPT !.local_virqs = l]
    BY <1>1 DEF virq_add
  <2>1a. l \in SUBSET (VCPUS \X Locals)
    BY <1>0, <1>1, SMTT(30) DEF Fields
  <2> HIDE DEF r, l
  <2>2. r \in Fields
    BY <1>0, <2>1, <2>1a DEF Fields
  <2>3. SameCore(r, s)
    BY <1>0, <2>1, <2>2 DEF SameCore, Fields
  <2> QED BY <2>3, SameCoreGoodA DEF r
<1>2. CASE i \notin Locals /\ Len(s.vspis) < NumSlotsSpi
  <2> DEFINE a == Append(s.vspis, i)
  <2>1. a \in Seq(SPIS) /\ Len(a) = Len(s.vspis) + 1
    BY <1>0, <1>2, SMTT(30) DEF Irqs
  <2>2. r = [s EXCEPT !.vspis = a]
    BY <1>2, SMTT(30) DEF virq_add
  <2> HIDE DEF r, a
  <2>3. r \in Fields
    BY <1>0, <2>1, <2>2 DEF Fields
  <2>4. /\ r.lr_shadow = s.lr_shadow /\ r.irq_queue = s.irq_queue /\ r.lr = s.lr
        /\ r.exit = s.exit /\ r.vspis = a
    BY <1>0, <2>2 DEF Fields
  <2>5. TypeS(r)
    BY <1>0, <1>2, <2>1, <2>3, <2>4, ConstantsAssumption, SMTT(30) DEF GoodA, TypeS
  <2>6. Mirror(r) /\ QF(r, X) /\ Quiet(r, s)
    BY <2>4, SMTT(30) DEF GoodA, Mirror, QF, EmptyListRegs, Quiet
  <2> QED BY <2>5, <2>6 DEF GoodA, r
<1>3. CASE i \notin Locals /\ ~(Len(s.vspis) < NumSlotsSpi)
  BY <1>3, StutterGoodA DEF virq_add
<1> QED BY <1>1, <1>2, <1>3

\* Enabling and disabling keep GoodA and are quiet.
LEMMA EnableGoodA ==
  ASSUME NEW s, NEW X, GoodA(s, X), NEW v \in VCPUS, NEW i \in Irqs, NEW again
  PROVE  /\ GoodA(vgic_dist_enable_irq(s, v, i, again), X)
         /\ Quiet(vgic_dist_enable_irq(s, v, i, again), s)
         /\ GoodA(vgic_dist_disable_irq(s, v, i), X)
         /\ Quiet(vgic_dist_disable_irq(s, v, i), s)
<1> DEFINE on == s.enabled \cup {Line(v, i)}
           off == s.enabled \ {Line(v, i)}
           e == set_enable(s, v, i, TRUE)
           d == set_enable(s, v, i, FALSE)
<1>0. s \in Fields /\ on \in SUBSET Lines /\ off \in SUBSET Lines
  BY LineType DEF GoodA, TypeS, Fields
<1>1. e = SetEnabled(s, on) /\ d = SetEnabled(s, off)
  BY SMTT(30) DEF set_enable, SetEnabled
<1> HIDE DEF on, off
<1>2. OnlyCfg(e, s, s.level, s.masked, on) /\ OnlyCfg(d, s, s.level, s.masked, off)
  BY <1>0, <1>1, CfgEffects
<1> HIDE DEF e, d
<1>3. GoodA(e, X) /\ Quiet(e, s) /\ GoodA(d, X) /\ Quiet(d, s)
  BY <1>2, CfgGoodA
<1>4. /\ vgic_dist_enable_irq(s, v, i, again) \in {e, vgic_irq_ack(e, v, i, again)}
      /\ vgic_dist_disable_irq(s, v, i) \in {s, d}
  BY DEF vgic_dist_enable_irq, vgic_dist_disable_irq, e, d
<1>5. /\ GoodA(vgic_irq_ack(e, v, i, again), X)
      /\ Quiet(vgic_irq_ack(e, v, i, again), s)
  BY <1>3, IrqAckGoodA, QuietTrans
<1>6. Quiet(s, s)
  BY StutterGoodA
<1> QED BY <1>3, <1>4, <1>5, <1>6

\* The inductive invariant behind TypeOK, ShadowMirrorsHardware and QueueMeansFull.
IndA ==
  /\ GoodA(vm, NoX) /\ Answered(vm)
  /\ write \in Writes /\ online \in SUBSET VCPUS
  /\ write.op \in GuestOps \cup {"idle"}

\* A quiet step of the VMM keeps IndA.
LEMMA QuietIndA ==
  ASSUME IndA, GoodA(vm', NoX), Quiet(vm', vm),
         write' \in Writes, write'.op \in GuestOps \cup {"idle"}, online' \in SUBSET VCPUS
  PROVE  IndA'
<1>1. Answered(vm')
  BY QuietAnswered DEF IndA
<1> QED BY <1>1 DEF IndA

\* IndA implies the properties.
LEMMA IndAProperties == IndA => TypeOK /\ ShadowMirrorsHardware /\ QueueMeansFull
<1> SUFFICES ASSUME IndA PROVE TypeOK /\ ShadowMirrorsHardware /\ QueueMeansFull
  OBVIOUS
<1>1. TypeOK
  BY DEF IndA, GoodA, TypeS, TypeOK
<1>2. ShadowMirrorsHardware
  BY DEF IndA, GoodA, ShadowMirrorsHardware
<1>3. QueueMeansFull
  BY DEF IndA, GoodA, QF, NoX, QueueMeansFull
<1> QED BY <1>1, <1>2, <1>3

\* The reset state satisfies IndA.
LEMMA InitIndA == Init => IndA
<1> SUFFICES ASSUME Init PROVE IndA
  OBVIOUS
<1>0a. <<>> \in Seq(Irqs) /\ <<>> \in Seq(SPIS)
  BY SMTT(30)
<1>0. /\ VCPUS \X SGIS \in SUBSET Lines
      /\ VCPUS \X PlatIrqs \in SUBSET (VCPUS \X Locals)
      /\ [v \in VCPUS |-> [idx \in LRs |-> NoIrq]] \in [VCPUS -> [LRs -> Irqs \cup {NoIrq}]]
      /\ [v \in VCPUS |-> <<>>] \in [VCPUS -> Seq(Irqs)]
      /\ [v \in VCPUS |-> [idx \in LRs |-> "invalid"]]
           \in [VCPUS -> [LRs -> {"invalid", "pending", "active"}]]
      /\ [v \in VCPUS |-> <<"run">>] \in [VCPUS -> Exits]
      /\ <<>> \in Seq(SPIS)
  BY <1>0a, ConstantsAssumption DEF Exits, Lines, Locals
<1>1. vm \in Fields
  BY <1>0 DEF Init, Fields
<1>2. \A v \in VCPUS, idx \in LRs :
        /\ vm.lr[v][idx] = "invalid" /\ vm.lr_shadow[v][idx] = NoIrq
        /\ vm.exit[v] = <<"run">> /\ vm.irq_queue[v] = <<>>
  BY DEF Init
<1>2a. vm.vspis = <<>> /\ \A v \in VCPUS : vm.exit[v] = <<"run">> /\ vm.irq_queue[v] = <<>>
  BY DEF Init
<1>3. TypeS(vm)
  BY <1>1, <1>2a, ConstantsAssumption, SMTT(30) DEF TypeS
<1>4. Mirror(vm) /\ QF(vm, NoX) /\ Answered(vm)
  <2>1. Mirror(vm)
    BY <1>2, SMTT(30) DEF Mirror
  <2>2. QF(vm, NoX)
    BY <1>2a DEF QF
  <2>3. Answered(vm)
    BY <1>2a, SMTT(30) DEF Answered
  <2> QED BY <2>1, <2>2, <2>3
<1>5. write \in Writes /\ online \in SUBSET VCPUS /\ write.op = "idle"
  BY ConstantsAssumption DEF Init, Writes, Idle
<1> QED BY <1>3, <1>4, <1>5 DEF IndA, GoodA

\* The hardware moving a register from one valid state to another, and ending it.
LEMMA GuestGoodA ==
  ASSUME NEW s, GoodA(s, NoX), Answered(s), NEW v \in VCPUS, NEW idx \in LRs,
         s.exit[v] = <<"run">>, s.lr[v][idx] # "invalid"
  PROVE  /\ LET r == [s EXCEPT !.lr[v][idx] = "active"] IN GoodA(r, NoX) /\ Answered(r)
         /\ LET r == [s EXCEPT !.lr[v][idx] = "invalid", !.exit[v] = <<"maint", idx>>]
            IN GoodA(r, NoX) /\ Answered(r)
<1>0. s \in Fields
  BY DEF GoodA, TypeS
<1>a. s.lr_shadow[v][idx] # NoIrq
  BY DEF GoodA, Mirror
<1>1. ASSUME NEW r, r = [s EXCEPT !.lr[v][idx] = "active"]
      PROVE  GoodA(r, NoX) /\ Answered(r)
  <2>1. /\ r.irq_queue = s.irq_queue /\ r.lr_shadow = s.lr_shadow /\ r.exit = s.exit
        /\ r.vspis = s.vspis
        /\ \A w \in VCPUS, k \in LRs :
             r.lr[w][k] = IF w = v /\ k = idx THEN "active" ELSE s.lr[w][k]
    BY <1>0, <1>1 DEF Fields
  <2>2. r.lr \in [VCPUS -> [LRs -> {"invalid", "pending", "active"}]]
    BY <1>0, <1>1 DEF Fields
  <2>3. r = [s EXCEPT !.lr = r.lr]
    BY <1>0, <1>1 DEF Fields
  <2>4. r \in Fields
    BY <1>0, <2>2, <2>3 DEF Fields
  <2>5. TypeS(r)
    BY <2>1, <2>4 DEF GoodA, TypeS
  <2>6. Mirror(r)
    <3> SUFFICES ASSUME NEW w \in VCPUS, NEW k \in LRs
                 PROVE  IF r.exit[w] = <<"maint", k>>
                          THEN r.lr[w][k] = "invalid" /\ r.lr_shadow[w][k] # NoIrq
                          ELSE r.lr[w][k] = "invalid" <=> r.lr_shadow[w][k] = NoIrq
      BY DEF Mirror
    <3>1. CASE w = v /\ k = idx
      <4>1. r.exit[w] = <<"run">> /\ r.lr[w][k] = "active" /\ r.lr_shadow[w][k] # NoIrq
        BY <1>a, <2>1, <3>1
      <4> QED BY <4>1, SMTT(30)
    <3>2. CASE ~(w = v /\ k = idx)
      <4>1. r.exit[w] = s.exit[w] /\ r.lr[w][k] = s.lr[w][k] /\ r.lr_shadow[w][k] = s.lr_shadow[w][k]
        BY <2>1, <3>2
      <4> QED BY <4>1 DEF GoodA, Mirror
    <3> QED BY <3>1, <3>2
  <2>7. QF(r, NoX) /\ Answered(r)
    BY <2>1 DEF GoodA, QF, EmptyListRegs, Answered
  <2> QED BY <2>5, <2>6, <2>7 DEF GoodA
<1>2. ASSUME NEW r, r = [s EXCEPT !.lr[v][idx] = "invalid", !.exit[v] = <<"maint", idx>>]
      PROVE  GoodA(r, NoX) /\ Answered(r)
  <2>1. /\ r.irq_queue = s.irq_queue /\ r.lr_shadow = s.lr_shadow
        /\ r.vspis = s.vspis
        /\ \A w \in VCPUS : r.exit[w] = IF w = v THEN <<"maint", idx>> ELSE s.exit[w]
        /\ \A w \in VCPUS, k \in LRs :
             r.lr[w][k] = IF w = v /\ k = idx THEN "invalid" ELSE s.lr[w][k]
    BY <1>0, <1>2 DEF Fields
  <2>2. /\ r.lr \in [VCPUS -> [LRs -> {"invalid", "pending", "active"}]]
        /\ r.exit \in [VCPUS -> Exits]
    BY <1>0, <1>2 DEF Fields, Exits
  <2>3. r = [s EXCEPT !.lr = r.lr, !.exit = r.exit]
    BY <1>0, <1>2 DEF Fields
  <2>4. r \in Fields
    BY <1>0, <2>2, <2>3 DEF Fields
  <2>5. TypeS(r)
    BY <2>1, <2>4 DEF GoodA, TypeS
  <2>6. Mirror(r)
    <3> SUFFICES ASSUME NEW w \in VCPUS, NEW k \in LRs
                 PROVE  IF r.exit[w] = <<"maint", k>>
                          THEN r.lr[w][k] = "invalid" /\ r.lr_shadow[w][k] # NoIrq
                          ELSE r.lr[w][k] = "invalid" <=> r.lr_shadow[w][k] = NoIrq
      BY SMTT(30) DEF Mirror
    <3>1. CASE w # v
      BY <2>1, <3>1, SMTT(30) DEF GoodA, Mirror
    <3>2. CASE w = v /\ k = idx
      BY <1>a, <2>1, <3>2
    <3>3. CASE w = v /\ k # idx
      <4>1. s.exit[w] # <<"maint", k>> /\ r.exit[w] # <<"maint", k>>
        BY <2>1, <3>3, SMTT(30)
      <4> QED BY <2>1, <3>3, <4>1, SMTT(30) DEF GoodA, Mirror
    <3> QED BY <3>1, <3>2, <3>3
  <2>7. QF(r, NoX) /\ Answered(r)
    BY <2>1, SMTT(30) DEF GoodA, QF, EmptyListRegs, Answered
  <2> QED BY <2>5, <2>6, <2>7, SMTT(30) DEF GoodA
<1> QED BY <1>1, <1>2

\* A step that sets an exit, and possibly masks, without touching registers.
LEMMA ExitMaskGoodA ==
  ASSUME NEW s, GoodA(s, NoX), Answered(s), NEW v \in VCPUS, NEW x \in Exits,
         NEW m \in SUBSET (VCPUS \X PPIS),
         x # <<"unanswered">>,
         \A idx \in LRs : s.exit[v] # <<"maint", idx>> /\ x # <<"maint", idx>>
  PROVE  LET r == SetMasked(SetExit(s, v, x), m)
         IN GoodA(r, NoX) /\ Answered(r) /\ GoodA(SetExit(s, v, x), NoX)
            /\ Answered(SetExit(s, v, x))
<1> DEFINE e == SetExit(s, v, x)
           r == SetMasked(e, m)
<1>0. s \in Fields
  BY DEF GoodA, TypeS
<1>1. OnlyExit(e, s, v, x)
  BY <1>0, SetExitEffect
<1> HIDE DEF e
<1>2a. GoodA(e, NoX)
  BY <1>1, ExitGoodA, SMTT(30)
<1>2. GoodA(e, NoX) /\ e \in Fields
  BY <1>2a DEF GoodA, TypeS
<1>3. OnlyCfg(r, e, e.level, m, e.enabled)
  BY <1>2, CfgEffects
<1> HIDE DEF r
<1>4. GoodA(r, NoX) /\ Quiet(r, e)
  BY <1>2, <1>3, CfgGoodA
<1>5. Answered(e)
  BY <1>0, <1>1 DEF OnlyExit, Answered, Fields
<1>6. Answered(r)
  BY <1>4, <1>5, QuietAnswered
<1> QED BY <1>2, <1>4, <1>5, <1>6 DEF e, r

\* The step that remains of a loop over a register's bits or an SGI's targets.
LEMMA NextWriteType ==
  ASSUME write \in Writes, write.op # "idle", NEW x
  PROVE  /\ NextWrite(x) \in Writes /\ NextWrite(x).op \in {write.op, "idle"}
         /\ write.vcpu \in VCPUS
         /\ write.op \in BitOps => write.todo \in SUBSET Irqs
         /\ write.op \notin BitOps => write.irq \in SGIS /\ write.todo \in SUBSET VCPUS
<1> DEFINE B == [op : BitOps, vcpu : VCPUS, todo : SUBSET Irqs]
           G == [op : {"SGIR"}, vcpu : VCPUS, irq : SGIS, todo : SUBSET VCPUS]
           y == write.todo \ {x}
           n == [write EXCEPT !.todo = y]
<1>1. NextWrite(x) = Idle \/ NextWrite(x) = n
  BY DEF NextWrite
<1>2. Idle \in Writes /\ Idle.op = "idle"
  BY SMTT(30) DEF Writes, Idle
<1>3. CASE write \in B
  <2>1. n \in B /\ n.op = write.op
    BY <1>3
  <2>2. n \in Writes
    BY <2>1 DEF Writes
  <2> QED BY <1>1, <1>2, <1>3, <2>1, <2>2
<1>4. CASE write \in G
  <2>1. n \in G /\ n.op = write.op /\ write.op \notin BitOps
    BY <1>4 DEF BitOps
  <2>2. n \in Writes
    BY <2>1 DEF Writes
  <2> QED BY <1>1, <1>2, <1>4, <2>1, <2>2
<1> QED BY <1>2, <1>3, <1>4 DEF Writes, Idle

\* Handlers of messages from the vCPUs keep IndA.
LEMMA HandlerIndA ==
  ASSUME IndA, NEW v \in VCPUS, VmmHandler(v)
  PROVE  IndA'
<1>0. /\ GoodA(vm, NoX) /\ Answered(vm) /\ vm \in Fields
      /\ write' = write /\ online' = online
  BY DEF IndA, GoodA, TypeS, VmmHandler, vm_vgic_maintenance_handler,
         vm_vppi_event_handler, vm_vcpu_handler_wfi
<1>1. CASE vm_vgic_maintenance_handler(v)
  <2>1. PICK idx \in LRs, again \in BOOLEAN :
          /\ vm.exit[v] = <<"maint", idx>>
          /\ vm' = handle_vgic_maintenance(vm, v, idx, again)
    BY <1>1 DEF vm_vgic_maintenance_handler
  <2>2. GoodA(vm', NoX) /\ Answered(vm')
    BY <1>0, <2>1, MaintenanceGoodA
  <2> QED BY <1>0, <2>2 DEF IndA
<1>2. CASE vm_vppi_event_handler(v)
  <2>1. PICK i \in PPIS :
          /\ vm.exit[v] = <<"vppi", i>>
          /\ LET p == vm_inject_irq(vm, v, i)
             IN vm' = [p EXCEPT !.exit[v] = <<"run">>,
                                !.masked = IF set_pending_fails(vm, v, i)
                                             THEN @ \ {<<v, i>>} ELSE @]
    BY <1>2 DEF vm_vppi_event_handler
  <2> DEFINE p == vm_inject_irq(vm, v, i)
             m == IF set_pending_fails(vm, v, i) THEN p.masked \ {<<v, i>>} ELSE p.masked
  <2>2. i \in Irqs
    BY DEF Irqs, Locals
  <2>3. GoodA(p, NoX) /\ Quiet(p, vm)
    BY <1>0, <2>2, InjectGoodA
  <2>4. vm' = SetMasked(SetExit(p, v, <<"run">>), m)
    <3>1. vm' = [p EXCEPT !.exit[v] = <<"run">>, !.masked = m]
      BY <2>1
    <3> HIDE DEF p, m
    <3>2. p \in Fields
      BY <2>3 DEF GoodA, TypeS
    <3> QED BY <3>1, <3>2 DEF SetMasked, SetExit, Fields
  <2> HIDE DEF p
  <2>5. p.masked \in SUBSET (VCPUS \X PPIS)
    BY <2>3 DEF GoodA, TypeS, Fields
  <2>6. m \in SUBSET (VCPUS \X PPIS)
    BY <2>5
  <2> HIDE DEF m
  <2>7. Answered(p) /\ p.exit[v] = <<"vppi", i>>
    BY <1>0, <2>1, <2>3, QuietAnswered, SMTT(30) DEF Quiet
  <2>7a. <<"run">> \in Exits
    BY DEF Exits
  <2>8. GoodA(vm', NoX) /\ Answered(vm')
    BY <2>3, <2>4, <2>6, <2>7, <2>7a, ExitMaskGoodA, SMTT(30)
  <2> QED BY <1>0, <2>8 DEF IndA
<1>3. CASE vm_vcpu_handler_wfi(v)
  <2>1. vm.exit[v] = <<"wfi">> /\ vm' = SetExit(vm, v, <<"parked">>)
    BY <1>3 DEF vm_vcpu_handler_wfi, SetExit
  <2>2. vm.masked \in SUBSET (VCPUS \X PPIS) /\ <<"parked">> \in Exits
    BY <1>0 DEF Fields, Exits
  <2>3a. /\ <<"parked">> # <<"unanswered">>
         /\ \A idx \in LRs : vm.exit[v] # <<"maint", idx>> /\ <<"parked">> # <<"maint", idx>>
    BY <2>1, SMTT(30)
  <2>3b. GoodA(SetExit(vm, v, <<"parked">>), NoX) /\ Answered(SetExit(vm, v, <<"parked">>))
    BY <1>0, <2>2, <2>3a, ExitMaskGoodA
  <2>3. GoodA(vm', NoX) /\ Answered(vm')
    BY <2>1, <2>3b
  <2> QED BY <1>0, <2>3 DEF IndA
<1> QED BY <1>1, <1>2, <1>3 DEF VmmHandler

\* Registrations and injections by devices keep IndA.
LEMMA DeviceIndA ==
  ASSUME IndA, NEW v \in VCPUS, Device(v)
  PROVE  IndA'
<1>0. /\ GoodA(vm, NoX) /\ vm \in Fields /\ write' = write /\ online' = online
  BY DEF IndA, GoodA, TypeS, Device, vm_register_irq, DeviceInject, vm_set_irq_level
<1>a. LevelIrqs \subseteq Irqs /\ SPIS \subseteq Irqs
  BY ConstantsAssumption DEF Irqs, Locals
<1>1. ASSUME NEW i \in Irqs, vm_register_irq(v, i)
      PROVE  GoodA(vm', NoX) /\ Quiet(vm', vm)
  BY <1>0, <1>1, RegisterGoodA DEF vm_register_irq
<1>2. ASSUME NEW i \in SPIS, DeviceInject(v, i)
      PROVE  GoodA(vm', NoX) /\ Quiet(vm', vm)
  BY <1>0, <1>a, <1>2, InjectGoodA DEF DeviceInject
<1>3. ASSUME NEW i \in LevelIrqs, NEW up \in BOOLEAN, vm_set_irq_level(v, i, up)
      PROVE  GoodA(vm', NoX) /\ Quiet(vm', vm)
  <2> DEFINE hi == vm.level \cup {Line(v, i)}
             lo == vm.level \ {Line(v, i)}
             a == SetLevel(vm, hi)
             b == SetLevel(vm, lo)
  <2>1. hi \in SUBSET Lines /\ lo \in SUBSET Lines /\ i \in Irqs
    BY <1>0, <1>a, LineType DEF Fields
  <2>2. OnlyCfg(a, vm, hi, vm.masked, vm.enabled) /\ OnlyCfg(b, vm, lo, vm.masked, vm.enabled)
    BY <1>0, <2>1, CfgEffects
  <2>3. vm' \in {vm, vm_inject_irq(a, v, i), b}
    BY <1>3 DEF vm_set_irq_level, SetLevel
  <2> HIDE DEF a, b
  <2>4. GoodA(a, NoX) /\ Quiet(a, vm) /\ GoodA(b, NoX) /\ Quiet(b, vm)
    BY <1>0, <2>2, CfgGoodA
  <2>5. GoodA(vm_inject_irq(a, v, i), NoX) /\ Quiet(vm_inject_irq(a, v, i), vm)
    BY <2>1, <2>4, InjectGoodA, QuietTrans
  <2>6. Quiet(vm, vm)
    BY <1>0, StutterGoodA
  <2> QED BY <1>0, <2>3, <2>4, <2>5, <2>6
<1>4. GoodA(vm', NoX) /\ Quiet(vm', vm)
  BY <1>1, <1>2, <1>3 DEF Device
<1> QED BY <1>0, <1>4, QuietIndA DEF IndA

\* Iterations of distributor writes keep IndA.
LEMMA WriteStepIndA ==
  ASSUME IndA, WriteStep
  PROVE  IndA'
<1>0. GoodA(vm, NoX) /\ online' = online /\ write \in Writes /\ online \in SUBSET VCPUS
  BY DEF IndA, WriteStep, WriteBitsStep, WriteSGIRStep
<1>1. CASE WriteBitsStep
  <2>1. PICK i \in Irqs, again \in BOOLEAN :
          /\ vm' = CASE write.op = "ISENABLER" -> vgic_dist_enable_irq(vm, write.vcpu, i, again)
                  [] write.op = "ICENABLER" -> vgic_dist_disable_irq(vm, write.vcpu, i)
                  [] write.op = "ISPENDR"   -> vgic_dist_set_pending_irq(vm, write.vcpu, i)
                  [] write.op = "ICPENDR"   -> vgic_dist_clr_pending_irq(vm, write.vcpu, i)
          /\ write' = NextWrite(i)
    BY <1>1 DEF WriteBitsStep
  <2>2. write.op \in BitOps /\ write.op # "idle"
    BY <1>1 DEF WriteBitsStep, BitOps
  <2>3. /\ write.vcpu \in VCPUS /\ write' \in Writes
        /\ write'.op \in {write.op, "idle"}
    BY <1>0, <2>1, <2>2, NextWriteType
  <2> DEFINE c == vgic_dist_clr_pending_irq(vm, write.vcpu, i)
  <2>4. GoodA(c, NoX) /\ Quiet(c, vm)
    <3>1. OnlyPending(c, vm, vm.pending \ {Line(write.vcpu, i)})
      BY <1>0, <2>3, SetPendingEffect DEF vgic_dist_clr_pending_irq, GoodA, TypeS
    <3> HIDE DEF c
    <3>2. SameCore(c, vm)
      BY <3>1 DEF OnlyPending, SameCore
    <3> QED BY <1>0, <3>2, SameCoreGoodA
  <2>5. GoodA(vm', NoX) /\ Quiet(vm', vm)
    BY <1>0, <2>1, <2>2, <2>3, <2>4, EnableGoodA, SetPendingGoodA DEF BitOps
  <2> QED BY <1>0, <2>3, <2>5, QuietIndA DEF IndA
<1>2. CASE WriteSGIRStep
  <2>1. PICK t \in VCPUS :
          /\ vm' = IF t \in online THEN vm_inject_irq(vm, t, write.irq) ELSE vm
          /\ write' = NextWrite(t)
    BY <1>2 DEF WriteSGIRStep
  <2>2. write.op \notin BitOps /\ write.op # "idle"
    BY <1>2 DEF WriteSGIRStep, BitOps
  <2>3. write.irq \in Irqs /\ write' \in Writes /\ write'.op \in {write.op, "idle"}
    BY <1>0, <2>1, <2>2, NextWriteType DEF Irqs, Locals
  <2>4. GoodA(vm', NoX) /\ Quiet(vm', vm)
    BY <1>0, <2>1, <2>3, InjectGoodA, StutterGoodA
  <2> QED BY <1>0, <2>3, <2>4, QuietIndA DEF IndA
<1> QED BY <1>1, <1>2 DEF WriteStep

\* Accesses that start a distributor write, and the one-step registers.
LEMMA DistWriteIndA ==
  ASSUME IndA, NEW v \in VCPUS, DistWrite(v)
  PROVE  IndA'
<1>0. GoodA(vm, NoX) /\ vm \in Fields /\ online' = online
  BY SMTT(30) DEF IndA, GoodA, TypeS, DistWrite, WriteCTLR, WriteICFGR, WriteBits, WriteSGIR
<1>1. ASSUME NEW e \in BOOLEAN, WriteCTLR(v, e) PROVE IndA'
  <2>1. vm' = [vm EXCEPT !.enable = e] /\ write' = write
    BY <1>1 DEF WriteCTLR
  <2>2. SameCore(vm', vm)
    BY <1>0, <2>1 DEF SameCore, Fields
  <2>3. GoodA(vm', NoX) /\ Quiet(vm', vm)
    BY <1>0, <2>2, SameCoreGoodA
  <2> QED BY <1>0, <2>1, <2>3, QuietIndA DEF IndA
<1>2. ASSUME NEW reg, NEW e, WriteICFGR(v, reg, e) PROVE IndA'
  <2> DEFINE g == {i \in SPIS : i \in IF i \div 16 = reg THEN e ELSE vm.edge}
  <2>1. vm' = [vm EXCEPT !.edge = g] /\ write' = write
    BY <1>2 DEF WriteICFGR
  <2>1a. g \in SUBSET SPIS
    OBVIOUS
  <2> HIDE DEF g
  <2>2. vm' \in Fields
    BY <1>0, <2>1, <2>1a DEF Fields
  <2>3. SameCore(vm', vm)
    BY <1>0, <2>1, <2>2 DEF SameCore, Fields
  <2>4. GoodA(vm', NoX) /\ Quiet(vm', vm)
    BY <1>0, <2>3, SameCoreGoodA
  <2> QED BY <1>0, <2>1, <2>4, QuietIndA DEF IndA
<1>3. ASSUME NEW op \in BitOps, NEW irqs \in SUBSET Irqs, WriteBits(v, op, irqs) PROVE IndA'
  <2>1. /\ vm' = vm /\ op \in GuestOps
        /\ write' = [op |-> op, vcpu |-> v, todo |-> irqs]
    BY <1>3 DEF WriteBits
  <2>2. write' \in Writes /\ write'.op = op
    BY <2>1 DEF Writes
  <2> QED BY <1>0, <2>1, <2>2 DEF IndA
<1>4. ASSUME NEW i \in SGIS, NEW ts \in SUBSET VCPUS, WriteSGIR(v, i, ts) PROVE IndA'
  <2>1. /\ vm' = vm /\ "SGIR" \in GuestOps
        /\ write' = [op |-> "SGIR", vcpu |-> v, irq |-> i, todo |-> ts]
    BY <1>4 DEF WriteSGIR
  <2>2. write' \in Writes /\ write'.op = "SGIR"
    BY <2>1 DEF Writes
  <2> QED BY <1>0, <2>1, <2>2 DEF IndA
<1> QED BY <1>1, <1>2, <1>3, <1>4 DEF DistWrite

\* Steps of the guest and the hardware keep IndA.
LEMMA GuestIndA ==
  ASSUME IndA, NEW v \in VCPUS, Guest(v)
  PROVE  IndA'
<1>0. /\ GoodA(vm, NoX) /\ Answered(vm) /\ vm \in Fields
      /\ write' = write /\ online' = online /\ vm.exit[v] = <<"run">>
  BY DEF IndA, GoodA, TypeS, Guest, GuestTake, GuestEOI, VppiFires, GuestWFI, Running
<1>1. ASSUME NEW idx \in LRs, GuestTake(v, idx) PROVE GoodA(vm', NoX) /\ Answered(vm')
  <2>1. vm.lr[v][idx] # "invalid" /\ vm' = [vm EXCEPT !.lr[v][idx] = "active"]
    BY <1>1 DEF GuestTake
  <2> QED BY <1>0, <2>1, GuestGoodA
<1>2. ASSUME NEW idx \in LRs, GuestEOI(v, idx) PROVE GoodA(vm', NoX) /\ Answered(vm')
  <2>1. /\ vm.lr[v][idx] # "invalid"
        /\ vm' = [vm EXCEPT !.lr[v][idx] = "invalid", !.exit[v] = <<"maint", idx>>]
    BY <1>2 DEF GuestEOI
  <2> QED BY <1>0, <2>1, GuestGoodA
<1>3. ASSUME NEW i \in PPIS, VppiFires(v, i) PROVE GoodA(vm', NoX) /\ Answered(vm')
  <2> DEFINE m == vm.masked \cup {<<v, i>>}
  <2>1. vm' = [vm EXCEPT !.masked = m, !.exit[v] = <<"vppi", i>>]
    BY <1>3 DEF VppiFires
  <2>2. m \in SUBSET (VCPUS \X PPIS) /\ <<"vppi", i>> \in Exits
    BY <1>0, SMTT(30) DEF Fields, Exits
  <2> HIDE DEF m
  <2>3. vm' = SetMasked(SetExit(vm, v, <<"vppi", i>>), m)
    BY <1>0, <2>1 DEF SetMasked, SetExit, Fields
  <2> QED BY <1>0, <2>2, <2>3, ExitMaskGoodA, SMTT(30)
<1>4. ASSUME GuestWFI(v) PROVE GoodA(vm', NoX) /\ Answered(vm')
  <2>1. vm' = SetExit(vm, v, <<"wfi">>)
    BY <1>4 DEF GuestWFI, SetExit
  <2>2. vm.masked \in SUBSET (VCPUS \X PPIS) /\ <<"wfi">> \in Exits
    BY <1>0 DEF Fields, Exits
  <2> QED BY <1>0, <2>1, <2>2, ExitMaskGoodA, SMTT(30)
<1>5. GoodA(vm', NoX) /\ Answered(vm')
  BY <1>1, <1>2, <1>3, <1>4 DEF Guest
<1> QED BY <1>0, <1>5 DEF IndA

\* Every step keeps IndA.
LEMMA NextIndA == IndA /\ [Next]_vars => IndA'
<1> SUFFICES ASSUME IndA, [Next]_vars PROVE IndA'
  OBVIOUS
<1>1. ASSUME NEW v \in VCPUS, VmmHandler(v) PROVE IndA'
  BY <1>1, HandlerIndA
<1>2. ASSUME NEW v \in VCPUS, vcpu_start(v) PROVE IndA'
  BY <1>2 DEF vcpu_start, IndA
<1>3. ASSUME NEW v \in VCPUS, DistWrite(v) PROVE IndA'
  BY <1>3, DistWriteIndA, SMTT(30)
<1>4. ASSUME NEW v \in VCPUS, Guest(v) PROVE IndA'
  BY <1>4, GuestIndA, SMTT(30)
<1>5. ASSUME NEW v \in VCPUS, Device(v) PROVE IndA'
  BY <1>5, DeviceIndA, SMTT(30)
<1>6. CASE WriteStep
  BY <1>6, WriteStepIndA
<1>7. CASE UNCHANGED vars
  BY <1>7 DEF vars, IndA
<1> QED BY <1>1, <1>2, <1>3, <1>4, <1>5, <1>6, <1>7 DEF Next

\* IndA is an invariant.
THEOREM Inductive == Spec => []IndA
BY InitIndA, NextIndA, PTL DEF Spec

\* Type correctness: the state record stays in Fields, no overflow queue reaches
\* MAX_IRQ_QUEUE_LEN entries and the SPI handles fit their slot table.
THEOREM TypeCorrect == Spec => []TypeOK
BY Inductive, IndAProperties, PTL

\* lr_shadow mirrors the hardware list registers except for a register whose
\* maintenance message is under way, and every maintenance message is answered.
THEOREM ShadowCorrect == Spec => []ShadowMirrorsHardware
BY Inductive, IndAProperties, PTL

\* Interrupts wait in the overflow queue only while every list register is taken.
THEOREM QueueCorrect == Spec => []QueueMeansFull
BY Inductive, IndAProperties, PTL

(***************************************************************************)
(* Delivery: no interrupt twice, and none forgotten                        *)
(***************************************************************************)
\* What decides whether an interrupt is injected again.
GoodB(s) == RIP(s) /\ Once(s)

\* Once, for one vCPU and without looking at the other vCPUs.
OnceAt(s, v) ==
  /\ \A a, b \in LRs :
       a # b /\ s.lr_shadow[v][a] = s.lr_shadow[v][b] => s.lr_shadow[v][a] = NoIrq
  /\ Distinct(s.irq_queue[v])
  /\ \A i \in Irqs : ~(InListReg(s, v, i) /\ InQueue(s, v, i))

\* Once is OnceAt for every vCPU, plus one home per SPI.
LEMMA OnceSplit ==
  ASSUME NEW s
  PROVE  Once(s) <=> /\ \A v \in VCPUS : OnceAt(s, v)
                     /\ \A v, w \in VCPUS, i \in SPIS :
                          Resident(s, v, i) /\ Resident(s, w, i) => v = w
BY SMTT(30) DEF Once, OnceAt, Distinct

\* r holds in its registers and queues what s holds.
SameHomes(r, s) == r.lr_shadow = s.lr_shadow /\ r.irq_queue = s.irq_queue

\* Homes decide residence.
LEMMA SameHomesResident ==
  ASSUME NEW s, NEW r, SameHomes(r, s)
  PROVE  /\ \A w \in VCPUS, j \in Irqs : /\ Resident(r, w, j) <=> Resident(s, w, j)
                                         /\ InListReg(r, w, j) <=> InListReg(s, w, j)
                                         /\ InQueue(r, w, j) <=> InQueue(s, w, j)
         /\ Once(s) => Once(r)
<1>1. \A w \in VCPUS, j \in Irqs : /\ InListReg(r, w, j) <=> InListReg(s, w, j)
                                   /\ InQueue(r, w, j) <=> InQueue(s, w, j)
                                   /\ Resident(r, w, j) <=> Resident(s, w, j)
  BY SMTT(30) DEF SameHomes, InListReg, InQueue, Resident
<1>2. ASSUME Once(s) PROVE Once(r)
  <2>1. \A v \in VCPUS : OnceAt(r, v)
    BY <1>1, <1>2, OnceSplit, SMTT(30) DEF OnceAt, SameHomes
  <2>2. \A v, w \in VCPUS, i \in SPIS : Resident(r, v, i) /\ Resident(r, w, i) => v = w
    BY <1>1, <1>2, OnceSplit DEF Irqs
  <2> QED BY <2>1, <2>2, OnceSplit
<1> QED BY <1>1, <1>2

\* Moving the queue on and loading its old head keeps a vCPU's entries distinct:
\* t is the queue's tail, h its head.
LEMMA LoadOnce ==
  ASSUME NEW s \in Fields, NEW v \in VCPUS, OnceAt(s, v),
         NEW t \in Seq(Irqs), NEW h \in Irqs, NEW idx \in LRs,
         Distinct(t), ~InSeq(t, h), ~InListReg(s, v, h),
         \A x \in Irqs : InSeq(t, x) => ~InListReg(s, v, x),
         NEW d \in Fields, NEW r, Queued(d, s, v, t), Loaded(r, d, v, idx, h)
  PROVE  OnceAt(r, v)
<1>1. \A k \in LRs : r.lr_shadow[v][k] = IF k = idx THEN h ELSE s.lr_shadow[v][k]
  BY SMTT(30) DEF Queued, Loaded, Fields
<1>2. r.irq_queue[v] = t
  BY SMTT(30) DEF Queued, Loaded, Fields
<1>3. \A k \in LRs : s.lr_shadow[v][k] # h
  BY DEF InListReg
<1>4. \A a, b \in LRs :
        a # b /\ r.lr_shadow[v][a] = r.lr_shadow[v][b] => r.lr_shadow[v][a] = NoIrq
  BY <1>1, <1>3 DEF OnceAt
<1>5. ASSUME NEW i \in Irqs, InListReg(r, v, i), InQueue(r, v, i) PROVE FALSE
  <2>1. InSeq(t, i)
    BY <1>2, <1>5 DEF InQueue, InSeq
  <2>2. i = h \/ InListReg(s, v, i)
    BY <1>1, <1>5 DEF InListReg
  <2> QED BY <2>1, <2>2
<1> QED BY <1>2, <1>4, <1>5 DEF OnceAt

\* Queueing and loading an interrupt that is nowhere yet.
LEMMA EnqueueOnceAt ==
  ASSUME NEW s \in Fields, Mirror(s), NEW v \in VCPUS, NEW i \in Irqs,
         OnceAt(s, v), ~Resident(s, v, i)
  PROVE  LET r == EnqueueAndLoad(s, v, i)
         IN OnceAt(r, v) /\ \A w \in VCPUS \ {v} : OnceAt(s, w) => OnceAt(r, w)
<1> DEFINE q == s.irq_queue[v]
           a == Append(q, i)
           r == EnqueueAndLoad(s, v, i)
<1>1. q \in Seq(Irqs)
  BY DEF Fields
<1>2. ~InSeq(q, i) /\ ~InListReg(s, v, i) /\ Distinct(q)
  BY DEF Resident, InQueue, InSeq, OnceAt
<1>3. \A x : InSeq(q, x) <=> InQueue(s, v, x)
  BY DEF InSeq, InQueue
<1> HIDE DEF q
<1>4. a \in Seq(Irqs) /\ a # <<>> /\ Distinct(a) /\ \A x : InSeq(a, x) <=> InSeq(q, x) \/ x = i
  BY <1>1, <1>2, AppendElems
<1>5. \A x \in Irqs : InSeq(a, x) => ~InListReg(s, v, x)
  BY <1>2, <1>3, <1>4 DEF OnceAt
<1>6. EnqueuedOrLoaded(r, s, v, i)
  BY EmptyIsLoadable, EnqueueAndLoadEffect
<1> HIDE DEF r
<1>7. CASE Queued(r, s, v, a)
  <2> HIDE DEF a
  <2>1. r.lr_shadow = s.lr_shadow /\ \A w \in VCPUS : r.irq_queue[w] = IF w = v THEN a ELSE s.irq_queue[w]
    BY <1>4, <1>7 DEF Queued, Fields
  <2>2. \A x : InListReg(r, v, x) <=> InListReg(s, v, x)
    BY <2>1 DEF InListReg
  <2>3. \A x : InQueue(r, v, x) <=> InSeq(a, x)
    BY <2>1 DEF InQueue, InSeq
  <2>4. OnceAt(r, v)
    BY <1>4, <1>5, <2>1, <2>2, <2>3 DEF OnceAt
  <2>5. \A w \in VCPUS \ {v} : OnceAt(s, w) => OnceAt(r, w)
    BY <2>1 DEF OnceAt, InListReg, InQueue
  <2> QED BY <2>4, <2>5 DEF r
<1>8. CASE \E idx \in EmptyListRegs(s, v), d \in Fields :
             Queued(d, s, v, Tail(a)) /\ Loaded(r, d, v, idx, Head(a))
  <2> PICK idx \in EmptyListRegs(s, v), d \in Fields :
             Queued(d, s, v, Tail(a)) /\ Loaded(r, d, v, idx, Head(a))
    BY <1>8
  <2> DEFINE t == Tail(a)
             h == Head(a)
  <2>1. Queued(d, s, v, t) /\ Loaded(r, d, v, idx, h) /\ idx \in LRs
    BY SMTT(30) DEF EmptyListRegs
  <2>2. /\ t \in Seq(Irqs) /\ h \in Irqs /\ Distinct(t) /\ ~InSeq(t, h)
        /\ \A x : InSeq(a, x) <=> InSeq(t, x) \/ x = h
    BY <1>4, TailElems
  <2> HIDE DEF t, h, a
  <2>3. ~InListReg(s, v, h) /\ \A x \in Irqs : InSeq(t, x) => ~InListReg(s, v, x)
    BY <1>5, <2>2
  <2>4. OnceAt(r, v)
    BY <2>1, <2>2, <2>3, LoadOnce
  <2>5. \A w \in VCPUS \ {v} : r.lr_shadow[w] = s.lr_shadow[w] /\ r.irq_queue[w] = s.irq_queue[w]
    BY <2>1, SMTT(30) DEF Queued, Loaded, Fields
  <2>6. \A w \in VCPUS \ {v} : OnceAt(s, w) => OnceAt(r, w)
    BY <2>5, SMTT(30) DEF OnceAt, InListReg, InQueue
  <2> QED BY <2>4, <2>6 DEF r
<1> QED BY <1>6, <1>7, <1>8 DEF EnqueuedOrLoaded, q

\* r is s after a successful injection of i on v.
Injected(r, s, v, i) ==
  /\ r.pending = s.pending \cup {Line(v, i)}
  /\ r.dropped = s.dropped /\ r.masked = s.masked /\ r.level = s.level
  /\ r.exit = s.exit
  /\ \A w \in VCPUS, j \in Irqs : Resident(r, w, j) <=> Resident(s, w, j) \/ (w = v /\ j = i)

\* A line without its pending bit, in a state where residence implies pending,
\* is resident on no vCPU that shares the line.
LEMMA NotPendingNowhere ==
  ASSUME NEW s, RIP(s), NEW v \in VCPUS, NEW i \in Irqs, Line(v, i) \notin s.pending
  PROVE  ~Resident(s, v, i) /\ (i \in SPIS => \A w \in VCPUS : ~Resident(s, w, i))
<1>1. i \in SPIS => \A w \in VCPUS : Line(w, i) = Line(v, i)
  BY IrqNumbers DEF Line
<1> QED BY <1>1 DEF RIP

\* The three outcomes of vgic_dist_set_pending_irq, by their effect.
LEMMA SetPendingOutcome ==
  ASSUME NEW s, NEW X, GoodA(s, X), NEW v \in VCPUS, NEW i \in Irqs
  PROVE  LET r == vgic_dist_set_pending_irq(s, v, i)
         IN \/ r = s /\ (~Deliverable(s, v, i) \/ Line(v, i) \in s.pending)
            \/ DroppedAt(r, s, Line(v, i)) /\ Line(v, i) \notin s.pending /\ QueueFull(s, v)
            \/ /\ Line(v, i) \notin s.pending
               /\ Injected(r, s, v, i)
               /\ GoodB(s) => GoodB(r)
<1> DEFINE r == vgic_dist_set_pending_irq(s, v, i)
           p == set_pending(s, v, i, TRUE)
           l == Line(v, i)
<1>0. s \in Fields
  BY DEF GoodA, TypeS
<1>1. CASE r = s /\ (~Deliverable(s, v, i) \/ l \in s.pending)
  BY <1>1
<1>2. CASE l \notin s.pending /\ QueueFull(s, v) /\ r = Overflowed(s, v, i)
  BY <1>0, <1>2, OverflowEffect
<1>3. CASE l \notin s.pending /\ ~QueueFull(s, v) /\ r = EnqueueAndLoad(p, v, i)
  <2>1. OnlyPending(p, s, s.pending \cup {l})
    BY <1>0, SetPendingEffect
  <2> HIDE DEF p, r, l
  <2>2. SameCore(p, s) /\ p \in Fields /\ SameHomes(p, s)
    BY <2>1 DEF OnlyPending, SameCore, SameHomes
  <2>3. GoodA(p, X) /\ Mirror(p)
    BY <2>2, SameCoreGoodA DEF GoodA
  <2>4. ~QueueFull(p, v)
    BY <1>3, <2>2 DEF QueueFull, SameCore
  <2>5. SameDist(r, p)
    BY <1>3, <2>3, <2>4, EnqueueGoodA
  <2>6. \A w \in VCPUS, j \in Irqs : Resident(r, w, j) <=> Resident(s, w, j) \/ (w = v /\ j = i)
    BY <1>3, <2>2, <2>3, EnqueueResident, SameHomesResident, SMTT(30)
  <2>7. Injected(r, s, v, i)
    BY <2>1, <2>5, <2>6 DEF Injected, SameDist, OnlyPending, l
  <2>8. ASSUME GoodB(s) PROVE GoodB(r)
    <3>1. ~Resident(s, v, i) /\ (i \in SPIS => \A w \in VCPUS : ~Resident(s, w, i))
      BY <1>3, <2>8, NotPendingNowhere DEF GoodB, l
    <3>2. Once(p) /\ ~Resident(p, v, i)
      BY <2>2, <2>8, <3>1, SameHomesResident DEF GoodB
    <3>3. \A w \in VCPUS : OnceAt(p, w)
      BY <3>2, OnceSplit
    <3>4. \A w \in VCPUS : OnceAt(r, w)
      BY <1>3, <2>2, <2>3, <3>2, <3>3, EnqueueOnceAt
    <3>5. \A w, u \in VCPUS, j \in SPIS : Resident(r, w, j) /\ Resident(r, u, j) => w = u
      <4> SUFFICES ASSUME NEW w \in VCPUS, NEW u \in VCPUS, NEW j \in SPIS,
                          Resident(r, w, j), Resident(r, u, j)
                   PROVE  w = u
        OBVIOUS
      <4>1. j \in Irqs
        BY DEF Irqs
      <4>2. Resident(s, w, j) /\ Resident(s, u, j) => w = u
        BY <2>8, OnceSplit DEF GoodB
      <4> QED BY <2>6, <3>1, <4>1, <4>2, SMTT(30)
    <3>6. Once(r)
      BY <3>4, <3>5, OnceSplit
    <3>7. RIP(r)
      BY <2>7, <2>8 DEF GoodB, RIP, Injected
    <3> QED BY <3>6, <3>7 DEF GoodB
  <2> QED BY <1>3, <2>7, <2>8 DEF r, l
<1> QED BY <1>1, <1>2, <1>3, SetPendingCases

\* A step that keeps the homes and clears no pending bit keeps GoodB.
LEMMA SameHomesGoodB ==
  ASSUME NEW s, GoodB(s), NEW r, SameHomes(r, s), s.pending \subseteq r.pending
  PROVE  GoodB(r)
<1>1. Once(r)
  BY SameHomesResident DEF GoodB
<1>2. RIP(r)
  BY SameHomesResident DEF GoodB, RIP
<1> QED BY <1>1, <1>2 DEF GoodB

\* vgic_dist_set_pending_irq and vm_inject_irq keep GoodB.
LEMMA InjectGoodB ==
  ASSUME NEW s, NEW X, GoodA(s, X), GoodB(s), NEW v \in VCPUS, NEW i \in Irqs
  PROVE  GoodB(vgic_dist_set_pending_irq(s, v, i)) /\ GoodB(vm_inject_irq(s, v, i))
<1> DEFINE p == vgic_dist_set_pending_irq(s, v, i)
           r == vm_inject_irq(s, v, i)
<1>1. GoodA(p, X)
  BY SetPendingGoodA
<1>2. \/ p = s
      \/ DroppedAt(p, s, Line(v, i))
      \/ GoodB(p)
  BY SetPendingOutcome
<1>3. \/ p.exit[v] = <<"parked">> /\ r = SetExit(p, v, <<"run">>)
      \/ p.exit[v] # <<"parked">> /\ r = p
  BY WakeCases
<1> HIDE DEF p, r
<1>4. DroppedAt(p, s, Line(v, i)) => SameHomes(p, s) /\ s.pending \subseteq p.pending
  BY DEF DroppedAt, SameHomes
<1>5. GoodB(p)
  BY <1>2, <1>4, SameHomesGoodB
<1>6. CASE r = SetExit(p, v, <<"run">>)
  <2>1. OnlyExit(r, p, v, <<"run">>)
    BY <1>1, <1>6, SetExitEffect DEF GoodA, TypeS, Exits
  <2>2. SameHomes(r, p) /\ p.pending \subseteq r.pending
    BY <2>1 DEF OnlyExit, SameHomes
  <2> QED BY <1>5, <2>2, SameHomesGoodB DEF p, r
<1> QED BY <1>3, <1>5, <1>6 DEF p, r

\* Configuration updates keep GoodB.
LEMMA CfgGoodB ==
  ASSUME NEW s, GoodB(s), NEW r, NEW l, NEW m, NEW e, OnlyCfg(r, s, l, m, e)
  PROVE  GoodB(r)
<1>1. SameHomes(r, s) /\ s.pending \subseteq r.pending
  BY DEF OnlyCfg, SameHomes
<1> QED BY <1>1, SameHomesGoodB

\* The callbacks and the level handling keep GoodB.
LEMMA IrqAckGoodB ==
  ASSUME NEW s, NEW X, GoodA(s, X), GoodB(s), NEW v \in VCPUS, NEW i \in Irqs, NEW again
  PROVE  GoodB(vgic_irq_ack(s, v, i, again))
<1> DEFINE a == virq_ack(s, v, i, again)
           r == vgic_handle_level(a, v, i)
           m == s.masked \ {<<v, i>>}
           l == a.level \ {Line(v, i)}
<1>0. s \in Fields /\ m \in SUBSET (VCPUS \X PPIS) /\ BOOT_VCPU \in VCPUS
  BY ConstantsAssumption DEF GoodA, TypeS, Fields
<1>1. a = s \/ a = SetMasked(s, m) \/ a = vm_inject_irq(s, BOOT_VCPU, i)
  BY SMTT(30) DEF virq_ack, SetMasked
<1>2. GoodA(a, X)
  BY VirqAckGoodA, SMTT(30)
<1>3. r = a \/ r = SetLevel(a, l) \/ r = vm_inject_irq(a, v, i)
  BY DEF vgic_handle_level, SetLevel
<1>4. vgic_irq_ack(s, v, i, again) = r
  BY DEF vgic_irq_ack
<1> HIDE DEF a, r, m
<1>5. GoodB(a)
  <2>1. CASE a = SetMasked(s, m)
    <3>1. OnlyCfg(a, s, s.level, m, s.enabled)
      BY <1>0, <2>1, CfgEffects
    <3> QED BY <3>1, CfgGoodB
  <2> QED BY <1>0, <1>1, <2>1, InjectGoodB
<1>6. a \in Fields /\ l \in SUBSET Lines
  BY <1>2 DEF GoodA, TypeS, Fields
<1> HIDE DEF l
<1>7. GoodB(r)
  <2>1. CASE r = SetLevel(a, l)
    <3>1. OnlyCfg(r, a, l, a.masked, a.enabled)
      BY <1>6, <2>1, CfgEffects
    <3> QED BY <1>5, <3>1, CfgGoodB
  <2> QED BY <1>2, <1>3, <1>5, <2>1, InjectGoodB
<1> QED BY <1>4, <1>7

\* What retiring a register does to the homes.
LEMMA RetireHomes ==
  ASSUME NEW s \in Fields, Once(s), NEW v \in VCPUS, NEW idx \in LRs, NEW r,
         Retired(r, s, v, idx), NEW i \in Irqs, i = s.lr_shadow[v][idx],
         NEW w \in VCPUS, NEW j \in Irqs
  PROVE  /\ InQueue(r, w, j) <=> InQueue(s, w, j)
         /\ InListReg(r, w, j) <=> InListReg(s, w, j) /\ ~(w = v /\ j = i)
         /\ Resident(r, w, j) <=> Resident(s, w, j) /\ ~(w = v /\ j = i)
<1>1. /\ \A k \in LRs : r.lr_shadow[w][k] =
                IF w = v /\ k = idx THEN NoIrq ELSE s.lr_shadow[w][k]
      /\ r.irq_queue = s.irq_queue
  BY SMTT(30) DEF Retired, Fields
<1>2. InQueue(r, w, j) <=> InQueue(s, w, j)
  BY <1>1 DEF InQueue
<1>3. InListReg(r, w, j) <=> InListReg(s, w, j) /\ ~(w = v /\ j = i)
  BY <1>1, IrqNumbers, SMTT(30) DEF InListReg, Once
<1>4. InListReg(s, v, i)
  BY DEF InListReg
<1>5. ~InQueue(s, v, i)
  BY <1>4 DEF Once
<1> QED BY <1>2, <1>3, <1>5 DEF Resident

\* Retiring keeps GoodB: the line leaves its only home with its pending bit.
LEMMA RetireGoodB ==
  ASSUME NEW s \in Fields, GoodB(s), NEW v \in VCPUS, NEW idx \in LRs,
         s.lr_shadow[v][idx] # NoIrq, NEW r, Retired(r, s, v, idx)
  PROVE  GoodB(r)
<1> DEFINE i == s.lr_shadow[v][idx]
<1>1. i \in Irqs /\ InListReg(s, v, i)
  BY SMTT(30) DEF Fields, InListReg
<1> HIDE DEF i
<1>2. \A w \in VCPUS, j \in Irqs :
        /\ InQueue(r, w, j) <=> InQueue(s, w, j)
        /\ InListReg(r, w, j) <=> InListReg(s, w, j) /\ ~(w = v /\ j = i)
        /\ Resident(r, w, j) <=> Resident(s, w, j) /\ ~(w = v /\ j = i)
  BY <1>1, RetireHomes, SMTT(30) DEF GoodB, i
<1>3. RIP(r)
  <2> SUFFICES ASSUME NEW w \in VCPUS, NEW j \in Irqs, Resident(r, w, j)
               PROVE  Line(w, j) \in r.pending
    BY DEF RIP
  <2>1. Resident(s, w, j) /\ Line(w, j) \in s.pending
    BY <1>2 DEF GoodB, RIP
  <2>2. ASSUME Line(w, j) = Line(v, i) PROVE FALSE
    <3>1. j = i /\ (i \in Locals => w = v)
      BY <1>1, <2>2, LineInjective, SMTT(30)
    <3>2. i \in SPIS => w = v
      BY <1>1, <2>1, <3>1 DEF GoodB, Once, Resident
    <3> QED BY <1>1, <1>2, <3>1, <3>2 DEF Irqs
  <2> QED BY <2>1, <2>2 DEF Retired, i
<1>4. /\ r.irq_queue = s.irq_queue
      /\ \A w \in VCPUS, k \in LRs : r.lr_shadow[w][k] =
                IF w = v /\ k = idx THEN NoIrq ELSE s.lr_shadow[w][k]
  BY SMTT(30) DEF Retired, Fields
<1>5. \A w \in VCPUS : OnceAt(r, w)
  <2> SUFFICES ASSUME NEW w \in VCPUS PROVE OnceAt(r, w)
    OBVIOUS
  <2>1. OnceAt(s, w)
    BY OnceSplit DEF GoodB
  <2>2. \A a, b \in LRs :
       a # b /\ r.lr_shadow[w][a] = r.lr_shadow[w][b] => r.lr_shadow[w][a] = NoIrq
    BY <1>4, <2>1 DEF OnceAt
  <2> QED BY <1>2, <1>4, <2>1, <2>2 DEF OnceAt
<1>6. \A w, u \in VCPUS, j \in SPIS : Resident(r, w, j) /\ Resident(r, u, j) => w = u
  BY <1>2, OnceSplit DEF GoodB, Irqs
<1> QED BY <1>3, <1>5, <1>6, OnceSplit DEF GoodB

\* What refilling does to the homes: nothing enters, and nothing leaves if the
\* register is still empty.
LEMMA RefillHomes ==
  ASSUME NEW s \in Fields, NEW v \in VCPUS, NEW idx \in LRs, NEW r, Refilled(r, s, v, idx)
  PROVE  /\ \A w \in VCPUS, j \in Irqs : Resident(r, w, j) => Resident(s, w, j)
         /\ idx \in EmptyListRegs(s, v) =>
              \A w \in VCPUS, j \in Irqs : Resident(s, w, j) => Resident(r, w, j)
         /\ Once(s) => Once(r)
         /\ r.pending = s.pending /\ r.dropped = s.dropped /\ r.masked = s.masked
         /\ r.level = s.level
<1> DEFINE q == s.irq_queue[v]
<1>0. q \in Seq(Irqs)
  BY DEF Fields
<1>1. CASE q = <<>> /\ OnlyExit(r, s, v, <<"run">>)
  <2>1. SameHomes(r, s)
    BY <1>1 DEF OnlyExit, SameHomes
  <2>2. /\ r.pending = s.pending /\ r.dropped = s.dropped /\ r.masked = s.masked
        /\ r.level = s.level
    BY <1>1 DEF OnlyExit
  <2> QED BY <2>1, <2>2, SameHomesResident
<1>2. CASE q # <<>> /\ \E d, l \in Fields : /\ Queued(d, s, v, Tail(q))
                                            /\ Loaded(l, d, v, idx, Head(q))
                                            /\ OnlyExit(r, l, v, <<"run">>)
  <2> DEFINE t == Tail(q)
             h == Head(q)
  <2>1. PICK d \in Fields, l \in Fields :
             Queued(d, s, v, t) /\ Loaded(l, d, v, idx, h) /\ OnlyExit(r, l, v, <<"run">>)
    BY <1>2
  <2>2. /\ t \in Seq(Irqs) /\ h \in Irqs
        /\ \A x : InSeq(q, x) <=> InSeq(t, x) \/ x = h
        /\ Distinct(q) => Distinct(t) /\ ~InSeq(t, h)
    BY <1>0, <1>2, TailElems
  <2>3. \A x : InSeq(q, x) <=> InQueue(s, v, x)
    BY DEF InSeq, InQueue
  <2> HIDE DEF t, h
  <2>4. SameHomes(r, l)
    BY <2>1 DEF OnlyExit, SameHomes
  <2>5. \A w \in VCPUS, j \in Irqs : Resident(r, w, j) <=> Resident(l, w, j)
    BY <2>4, SameHomesResident
  <2>6. idx \in EmptyListRegs(d, v) <=> idx \in EmptyListRegs(s, v)
    BY <2>1 DEF Queued, EmptyListRegs
  <2>7. ASSUME NEW w \in VCPUS, NEW j \in Irqs
        PROVE  /\ Resident(l, w, j) => Resident(s, w, j)
               /\ idx \in EmptyListRegs(s, v) /\ Resident(s, w, j) => Resident(l, w, j)
    <3>1. /\ InListReg(d, w, j) <=> InListReg(s, w, j)
          /\ w # v => (InQueue(d, w, j) <=> InQueue(s, w, j))
          /\ w = v => (InQueue(d, w, j) <=> InSeq(t, j))
      BY <2>1, <2>2, QueuedElems
    <3>2. /\ InQueue(l, w, j) <=> InQueue(d, w, j)
          /\ w # v => (InListReg(l, w, j) <=> InListReg(d, w, j))
          /\ w = v => (InListReg(l, w, j) => j = h \/ InListReg(d, w, j))
          /\ w = v /\ idx \in EmptyListRegs(d, v) =>
               (InListReg(l, w, j) <=> j = h \/ InListReg(d, w, j))
      BY <2>1, <2>2, LoadedElems, SMTT(30)
    <3> QED BY <2>2, <2>3, <2>6, <3>1, <3>2 DEF Resident
  <2>8. ASSUME Once(s) PROVE Once(r)
    <3>1. OnceAt(s, v) /\ Distinct(q)
      BY <2>8, OnceSplit DEF OnceAt
    <3>2. \A x \in Irqs : InSeq(q, x) => ~InListReg(s, v, x)
      BY <2>3, <3>1 DEF OnceAt
    <3>3. /\ Distinct(t) /\ ~InSeq(t, h) /\ ~InListReg(s, v, h)
          /\ \A x \in Irqs : InSeq(t, x) => ~InListReg(s, v, x)
      BY <2>2, <3>1, <3>2
    <3>4. OnceAt(l, v)
      BY <2>1, <2>2, <3>1, <3>3, LoadOnce
    <3>5. \A w \in VCPUS \ {v} : l.lr_shadow[w] = s.lr_shadow[w] /\ l.irq_queue[w] = s.irq_queue[w]
      BY <2>1 DEF Queued, Loaded, Fields
    <3>6. \A w \in VCPUS \ {v} : OnceAt(l, w)
      BY <2>8, <3>5, OnceSplit, SMTT(30) DEF OnceAt, InListReg, InQueue
    <3>7. \A w, u \in VCPUS, j \in SPIS : Resident(l, w, j) /\ Resident(l, u, j) => w = u
      BY <2>7, <2>8, OnceSplit, SMTT(30) DEF Irqs
    <3>8. Once(l)
      BY <3>4, <3>6, <3>7, OnceSplit
    <3> QED BY <2>4, <3>8, SameHomesResident
  <2>9. /\ r.pending = s.pending /\ r.dropped = s.dropped /\ r.masked = s.masked
        /\ r.level = s.level
    BY <2>1 DEF OnlyExit, Loaded, Queued, SameDist
  <2> QED BY <2>5, <2>7, <2>8, <2>9
<1> QED BY <1>1, <1>2 DEF Refilled

\* The maintenance handler keeps GoodB.
LEMMA MaintenanceGoodB ==
  ASSUME NEW s, GoodA(s, NoX), GoodB(s), NEW v \in VCPUS, NEW idx \in LRs, NEW again,
         s.exit[v] = <<"maint", idx>>
  PROVE  GoodB(handle_vgic_maintenance(s, v, idx, again))
<1> DEFINE i == s.lr_shadow[v][idx]
           a == Retire(s, v, idx)
           b == vgic_irq_ack(a, v, i, again)
           r == handle_vgic_maintenance(s, v, idx, again)
<1>1. s \in Fields /\ i \in Irqs /\ i # NoIrq
  BY SMTT(30) DEF GoodA, TypeS, Fields, Mirror
<1>2. Retired(a, s, v, idx)
  BY <1>1, RetireEffect
<1>3. r = Refill(b, v, idx)
  BY DEF handle_vgic_maintenance
<1> HIDE DEF a, b, r
<1>4. GoodA(a, OneX(v, idx)) /\ a.lr[v][idx] = "invalid"
  BY <1>2, RetireGoodA
<1>4a. GoodB(a)
  BY <1>1, <1>2, RetireGoodB
<1> HIDE DEF i
<1>5. GoodA(b, OneX(v, idx)) /\ Quiet(b, a)
  BY <1>1, <1>4, IrqAckGoodA DEF b
<1>5a. GoodB(b)
  BY <1>1, <1>4, <1>4a, IrqAckGoodB DEF b
<1>6. InjectIRQ_ok(b, v, idx) /\ b \in Fields
  BY <1>4, <1>5 DEF Quiet, InjectIRQ_ok, GoodA, TypeS
<1>7. Refilled(r, b, v, idx)
  BY <1>3, <1>6, RefillEffect
<1>8. Once(r) /\ RIP(r)
  BY <1>5a, <1>6, <1>7, RefillHomes, SMTT(30) DEF GoodB, RIP
<1> QED BY <1>8 DEF GoodB, r

-----------------------------------------------------------------------------
(* No interrupt is delivered twice, if the guest clears no pending bits *)

IndB == IndA /\ GoodB(vm)

\* Enabling and disabling keep GoodB.
LEMMA EnableGoodB ==
  ASSUME NEW s, NEW X, GoodA(s, X), GoodB(s), NEW v \in VCPUS, NEW i \in Irqs, NEW again
  PROVE  /\ GoodB(vgic_dist_enable_irq(s, v, i, again))
         /\ GoodB(vgic_dist_disable_irq(s, v, i))
<1> DEFINE on == s.enabled \cup {Line(v, i)}
           off == s.enabled \ {Line(v, i)}
           e == set_enable(s, v, i, TRUE)
           d == set_enable(s, v, i, FALSE)
<1>0. s \in Fields /\ on \in SUBSET Lines /\ off \in SUBSET Lines
  BY LineType DEF GoodA, TypeS, Fields
<1>1. e = SetEnabled(s, on) /\ d = SetEnabled(s, off)
  BY DEF set_enable, SetEnabled
<1> HIDE DEF on, off
<1>2. OnlyCfg(e, s, s.level, s.masked, on) /\ OnlyCfg(d, s, s.level, s.masked, off)
  BY <1>0, <1>1, CfgEffects
<1>3. /\ vgic_dist_enable_irq(s, v, i, again) \in {e, vgic_irq_ack(e, v, i, again)}
      /\ vgic_dist_disable_irq(s, v, i) \in {s, d}
  BY DEF vgic_dist_enable_irq, vgic_dist_disable_irq
<1> HIDE DEF e, d
<1>4. GoodA(e, X) /\ GoodB(e) /\ GoodB(d)
  BY <1>2, CfgGoodA, CfgGoodB
<1>5. GoodB(vgic_irq_ack(e, v, i, again))
  BY <1>4, IrqAckGoodB
<1> QED BY <1>3, <1>4, <1>5

\* Handlers keep GoodB.
LEMMA HandlerIndB ==
  ASSUME IndB, NEW v \in VCPUS, VmmHandler(v)
  PROVE  GoodB(vm')
<1>0. GoodA(vm, NoX) /\ vm \in Fields /\ GoodB(vm)
  BY DEF IndB, IndA, GoodA, TypeS
<1>1. CASE vm_vgic_maintenance_handler(v)
  <2>1. PICK idx \in LRs, again \in BOOLEAN :
          /\ vm.exit[v] = <<"maint", idx>>
          /\ vm' = handle_vgic_maintenance(vm, v, idx, again)
    BY <1>1 DEF vm_vgic_maintenance_handler
  <2> QED BY <1>0, <2>1, MaintenanceGoodB
<1>2. CASE vm_vppi_event_handler(v)
  <2>1. PICK i \in PPIS :
          LET p == vm_inject_irq(vm, v, i)
          IN vm' = [p EXCEPT !.exit[v] = <<"run">>,
                             !.masked = IF set_pending_fails(vm, v, i)
                                          THEN @ \ {<<v, i>>} ELSE @]
    BY <1>2 DEF vm_vppi_event_handler
  <2> DEFINE p == vm_inject_irq(vm, v, i)
  <2>2. i \in Irqs
    BY DEF Irqs, Locals
  <2>3. GoodA(p, NoX) /\ GoodB(p)
    BY <1>0, <2>2, InjectGoodA, InjectGoodB
  <2>4. p \in Fields
    BY <2>3 DEF GoodA, TypeS
  <2> HIDE DEF p
  <2>5. SameHomes(vm', p) /\ p.pending \subseteq vm'.pending
    BY <2>1, <2>4 DEF SameHomes, Fields, p
  <2> QED BY <2>3, <2>5, SameHomesGoodB
<1>3. CASE vm_vcpu_handler_wfi(v)
  <2>1. SameHomes(vm', vm) /\ vm.pending \subseteq vm'.pending
    BY <1>0, <1>3 DEF vm_vcpu_handler_wfi, SameHomes, Fields
  <2> QED BY <1>0, <2>1, SameHomesGoodB
<1> QED BY <1>1, <1>2, <1>3 DEF VmmHandler

\* Devices keep GoodB.
LEMMA DeviceIndB ==
  ASSUME IndB, NEW v \in VCPUS, Device(v)
  PROVE  GoodB(vm')
<1>0. GoodA(vm, NoX) /\ vm \in Fields /\ GoodB(vm)
  BY SMTT(30) DEF IndB, IndA, GoodA, TypeS
<1>a. LevelIrqs \subseteq Irqs /\ SPIS \subseteq Irqs
  BY ConstantsAssumption DEF Irqs, Locals
<1>1. ASSUME NEW i \in Irqs, vm_register_irq(v, i) PROVE GoodB(vm')
  <2>1. SameHomes(vm', vm) /\ vm.pending \subseteq vm'.pending
    BY <1>0, <1>1 DEF vm_register_irq, virq_add, SameHomes, Fields
  <2> QED BY <1>0, <2>1, SameHomesGoodB
<1>2. ASSUME NEW i \in SPIS, DeviceInject(v, i) PROVE GoodB(vm')
  BY <1>0, <1>a, <1>2, InjectGoodB DEF DeviceInject
<1>3. ASSUME NEW i \in LevelIrqs, NEW up \in BOOLEAN, vm_set_irq_level(v, i, up)
      PROVE  GoodB(vm')
  <2> DEFINE hi == vm.level \cup {Line(v, i)}
             lo == vm.level \ {Line(v, i)}
             a == SetLevel(vm, hi)
             b == SetLevel(vm, lo)
  <2>1. hi \in SUBSET Lines /\ lo \in SUBSET Lines /\ i \in Irqs
    BY <1>0, <1>a, LineType DEF Fields
  <2>2. OnlyCfg(a, vm, hi, vm.masked, vm.enabled) /\ OnlyCfg(b, vm, lo, vm.masked, vm.enabled)
    BY <1>0, <2>1, CfgEffects
  <2>3. vm' \in {vm, vm_inject_irq(a, v, i), b}
    BY <1>3 DEF vm_set_irq_level, SetLevel
  <2> HIDE DEF a, b
  <2>4. GoodA(a, NoX) /\ GoodB(a) /\ GoodB(b)
    BY <1>0, <2>2, CfgGoodA, CfgGoodB
  <2>5. GoodB(vm_inject_irq(a, v, i))
    BY <2>1, <2>4, InjectGoodB
  <2> QED BY <1>0, <2>3, <2>4, <2>5
<1> QED BY <1>1, <1>2, <1>3 DEF Device

\* The iterations of distributor writes other than ICPENDR keep GoodB.
LEMMA WriteStepIndB ==
  ASSUME "ICPENDR" \notin GuestOps, IndB, WriteStep
  PROVE  GoodB(vm')
<1>0. GoodA(vm, NoX) /\ GoodB(vm) /\ write \in Writes
  BY DEF IndB, IndA
<1>1. CASE WriteBitsStep
  <2>1. PICK i \in Irqs, again \in BOOLEAN :
          vm' = CASE write.op = "ISENABLER" -> vgic_dist_enable_irq(vm, write.vcpu, i, again)
                  [] write.op = "ICENABLER" -> vgic_dist_disable_irq(vm, write.vcpu, i)
                  [] write.op = "ISPENDR"   -> vgic_dist_set_pending_irq(vm, write.vcpu, i)
                  [] write.op = "ICPENDR"   -> vgic_dist_clr_pending_irq(vm, write.vcpu, i)
    BY <1>1 DEF WriteBitsStep
  <2>2. write.op \in BitOps /\ write.op # "idle" /\ write.op # "ICPENDR"
    BY <1>1 DEF WriteBitsStep, BitOps, IndB, IndA
  <2>3. write.vcpu \in VCPUS
    BY <1>0, <2>2, NextWriteType
  <2>4. /\ GoodB(vgic_dist_enable_irq(vm, write.vcpu, i, again))
        /\ GoodB(vgic_dist_disable_irq(vm, write.vcpu, i))
        /\ GoodB(vgic_dist_set_pending_irq(vm, write.vcpu, i))
    BY <1>0, <2>3, EnableGoodB, InjectGoodB
  <2> QED BY <2>1, <2>2, <2>4 DEF BitOps
<1>2. CASE WriteSGIRStep
  <2>1. PICK t \in VCPUS : vm' = IF t \in online THEN vm_inject_irq(vm, t, write.irq) ELSE vm
    BY <1>2 DEF WriteSGIRStep
  <2>2. write.op \notin BitOps /\ write.op # "idle"
    BY <1>2 DEF WriteSGIRStep, BitOps
  <2>3. write.irq \in Irqs
    BY <1>0, <2>2, NextWriteType DEF Irqs, Locals
  <2> QED BY <1>0, <2>1, <2>3, InjectGoodB
<1> QED BY <1>1, <1>2 DEF WriteStep

\* The guest's own steps do not touch what the VMM keeps.
LEMMA GuestIndB ==
  ASSUME IndB, NEW v \in VCPUS, Guest(v) \/ DistWrite(v) \/ vcpu_start(v)
  PROVE  GoodB(vm') /\ SameHomes(vm', vm) /\ vm'.pending = vm.pending
<1>0. vm \in Fields /\ GoodB(vm)
  BY DEF IndB, IndA, GoodA, TypeS
<1>1. SameHomes(vm', vm) /\ vm'.pending = vm.pending
  BY <1>0 DEF Guest, DistWrite, vcpu_start, GuestTake, GuestEOI, VppiFires, GuestWFI,
              WriteCTLR, WriteICFGR, WriteBits, WriteSGIR, SameHomes, Fields
<1> QED BY <1>0, <1>1, SameHomesGoodB

\* Every step keeps IndB.
LEMMA NextIndB ==
  ASSUME "ICPENDR" \notin GuestOps
  PROVE  IndB /\ [Next]_vars => IndB'
<1> SUFFICES ASSUME IndB, [Next]_vars PROVE IndB'
  OBVIOUS
<1>1. IndA'
  BY NextIndA DEF IndB
<1>2. ASSUME NEW v \in VCPUS, VmmHandler(v) PROVE GoodB(vm')
  BY <1>2, HandlerIndB
<1>3. ASSUME NEW v \in VCPUS, Guest(v) \/ DistWrite(v) \/ vcpu_start(v) PROVE GoodB(vm')
  BY <1>3, GuestIndB
<1>4. ASSUME NEW v \in VCPUS, Device(v) PROVE GoodB(vm')
  BY <1>4, DeviceIndB, SMTT(30)
<1>5. CASE WriteStep
  BY <1>1, <1>5, WriteStepIndB DEF IndB
<1>6. CASE UNCHANGED vars
  BY <1>1, <1>6 DEF vars, IndB
<1>7. CASE Next
  <2>1. GoodB(vm')
    BY <1>2, <1>3, <1>4, <1>5, <1>7, WriteStepIndB DEF Next
  <2> QED BY <1>1, <2>1 DEF IndB
<1> QED BY <1>6, <1>7

\* Nothing is resident after reset.
LEMMA InitIndB == Init => IndB
<1> SUFFICES ASSUME Init PROVE IndB
  OBVIOUS
<1>1. \A v \in VCPUS : /\ \A idx \in LRs : vm.lr_shadow[v][idx] = NoIrq
                       /\ vm.irq_queue[v] = <<>> /\ Len(vm.irq_queue[v]) = 0
  BY DEF Init
<1>2. \A v \in VCPUS, i \in Irqs : ~InListReg(vm, v, i) /\ ~InQueue(vm, v, i)
  BY <1>1, IrqNumbers, SMTT(30) DEF InListReg, InQueue
<1>3. GoodB(vm)
  BY <1>1, <1>2, SMTT(30) DEF GoodB, RIP, Once, Resident, Irqs
<1> QED BY <1>3, InitIndA DEF IndB

\* Unless the guest clears pending bits (ICPENDR), an interrupt in a list register
\* or queue has its pending bit set, so vgic_dist_set_pending_irq never queues it again.
THEOREM ResidentIsPendingCorrect ==
  ASSUME "ICPENDR" \notin GuestOps
  PROVE  Spec => []ResidentIsPending
<1>1. IndB => ResidentIsPending
  BY DEF IndB, GoodB, ResidentIsPending
<1>2. IndB /\ [Next]_vars => IndB'
  BY NextIndB
<1> QED BY <1>1, <1>2, InitIndB, PTL DEF Spec

\* Unless the guest clears pending bits (ICPENDR), a line is in at most one list
\* register or queue slot: one injection is delivered and acknowledged once.
THEOREM NeverTwiceCorrect ==
  ASSUME "ICPENDR" \notin GuestOps
  PROVE  Spec => []NeverTwice
<1>1. IndB => NeverTwice
  BY DEF IndB, GoodB, NeverTwice
<1>2. IndB /\ [Next]_vars => IndB'
  BY NextIndB, SMTT(30)
<1> QED BY <1>1, <1>2, InitIndB, PTL DEF Spec

(***************************************************************************)
(* No interrupt is forgotten, if moreover no callback and no level injects *)
(* an interrupt while another one ends                                     *)
(***************************************************************************)
\* The two drivers of re-injection are absent: no device uses vm_set_irq_level
\* and no ack callback injects its interrupt again.
NoReinjection == LevelIrqs = {} /\ ReinjectIrqs = {} /\ "ICPENDR" \notin GuestOps

GoodC(s) == s.level = {} /\ PIR(s) /\ MPF(s)

\* From s to r no home is given up, no pending bit or mask is gained and no
\* unanswered virtual PPI event is dropped.
Keeps(r, s) ==
  /\ \A w \in VCPUS, j \in Irqs : Resident(s, w, j) => Resident(r, w, j)
  /\ r.pending \subseteq s.pending /\ s.dropped \subseteq r.dropped
  /\ r.masked \subseteq s.masked /\ r.level = s.level
  /\ \A w \in VCPUS, j \in PPIS : s.exit[w] = <<"vppi", j>> => r.exit[w] = <<"vppi", j>>

\* Such a step keeps GoodC.
LEMMA KeepsGoodC ==
  ASSUME NEW s, GoodC(s), NEW r, Keeps(r, s)
  PROVE  GoodC(r)
<1>1. PIR(r)
  BY DEF GoodC, PIR, Keeps
<1>2. MPF(r)
  BY DEF GoodC, MPF, Keeps, Irqs, Locals
<1> QED BY <1>1, <1>2 DEF GoodC, Keeps

\* Enabling and disabling an interrupt are such steps.
LEMMA EnableKeeps ==
  ASSUME NEW s, NEW r, NEW e, OnlyCfg(r, s, s.level, s.masked, e)
  PROVE  Keeps(r, s)
<1>1. SameHomes(r, s)
  BY SMTT(30) DEF OnlyCfg, SameHomes
<1>2. \A w \in VCPUS, j \in Irqs : Resident(s, w, j) => Resident(r, w, j)
  BY <1>1, SameHomesResident
<1> QED BY <1>2 DEF OnlyCfg, Keeps

\* vgic_dist_set_pending_irq and vm_inject_irq keep GoodC and all homes.
LEMMA InjectGoodC ==
  ASSUME NEW s, NEW X, GoodA(s, X), GoodC(s), NEW v \in VCPUS, NEW i \in Irqs
  PROVE  GoodC(vgic_dist_set_pending_irq(s, v, i)) /\ GoodC(vm_inject_irq(s, v, i))
<1> DEFINE p == vgic_dist_set_pending_irq(s, v, i)
           r == vm_inject_irq(s, v, i)
           l == Line(v, i)
<1>1. GoodA(p, X)
  BY SetPendingGoodA, SMTT(30)
<1>2. p = s \/ DroppedAt(p, s, l) \/ Injected(p, s, v, i)
  BY SetPendingOutcome
<1>3. \/ p.exit[v] = <<"parked">> /\ r = SetExit(p, v, <<"run">>)
      \/ p.exit[v] # <<"parked">> /\ r = p
  BY WakeCases, SMTT(30)
<1> HIDE DEF p, r
<1>4. ASSUME DroppedAt(p, s, l) PROVE GoodC(p)
  <2>1. SameHomes(p, s)
    BY <1>4 DEF DroppedAt, SameHomes
  <2>2. \A w \in VCPUS, j \in Irqs : Resident(p, w, j) <=> Resident(s, w, j)
    BY <2>1, SameHomesResident
  <2>3. p.pending \ p.dropped \subseteq s.pending \ s.dropped
    BY <1>4 DEF DroppedAt
  <2>4. PIR(p)
    BY <2>2, <2>3 DEF GoodC, PIR
  <2>5. MPF(p)
    BY <1>4, <2>2 DEF GoodC, MPF, DroppedAt, Irqs, Locals
  <2> QED BY <1>4, <2>4, <2>5 DEF GoodC, DroppedAt
<1>5. ASSUME Injected(p, s, v, i) PROVE GoodC(p)
  <2>1. PIR(p)
    <3> SUFFICES ASSUME NEW w \in VCPUS, NEW j \in Irqs, Line(w, j) \in p.pending \ p.dropped
                 PROVE  \E u \in VCPUS : Line(u, j) = Line(w, j) /\ Resident(p, u, j)
      BY DEF PIR
    <3>1. CASE Line(w, j) = l
      <4>1. j = i
        BY <3>1, LineInjective, SMTT(30)
      <4> QED BY <1>5, <3>1, <4>1 DEF Injected
    <3>2. CASE Line(w, j) \in s.pending \ s.dropped
      BY <1>5, <3>2 DEF GoodC, PIR, Injected
    <3> QED BY <1>5, <3>1, <3>2 DEF Injected
  <2>2. MPF(p)
    BY <1>5 DEF GoodC, MPF, Injected, Irqs, Locals
  <2> QED BY <1>5, <2>1, <2>2 DEF GoodC, Injected
<1>6. GoodC(p)
  BY <1>2, <1>4, <1>5
<1>7. CASE p.exit[v] = <<"parked">> /\ r = SetExit(p, v, <<"run">>)
  <2>1. OnlyExit(r, p, v, <<"run">>) /\ p \in Fields
    BY <1>1, <1>7, SetExitEffect DEF GoodA, TypeS, Exits
  <2>2. SameHomes(r, p)
    BY <2>1 DEF OnlyExit, SameHomes
  <2>3. \A w \in VCPUS : r.exit[w] = IF w = v THEN <<"run">> ELSE p.exit[w]
    BY <2>1 DEF OnlyExit, Fields
  <2>4. \A w \in VCPUS, j \in Irqs : Resident(p, w, j) => Resident(r, w, j)
    BY <2>2, SameHomesResident
  <2>5. \A w \in VCPUS, j \in PPIS : p.exit[w] = <<"vppi", j>> => r.exit[w] = <<"vppi", j>>
    BY <1>7, <2>3, SMTT(30)
  <2>6. Keeps(r, p)
    BY <2>1, <2>4, <2>5 DEF OnlyExit, Keeps
  <2>7. GoodC(r)
    BY <1>6, <2>6, KeepsGoodC
  <2> QED BY <1>6, <2>7 DEF p, r
<1> QED BY <1>3, <1>6, <1>7 DEF p, r

\* Without re-injection an acknowledgement at most unmasks its PPI.
LEMMA QuietAck ==
  ASSUME NoReinjection, NEW s \in Fields, s.level = {}, NEW v \in VCPUS, NEW i \in Irqs, NEW again
  PROVE  LET r == vgic_irq_ack(s, v, i, again)
             m == IF i \in PPIS THEN s.masked \ {<<v, i>>} ELSE s.masked
         IN OnlyCfg(r, s, {}, m, s.enabled)
<1> DEFINE a == virq_ack(s, v, i, again)
           m == IF i \in PPIS THEN s.masked \ {<<v, i>>} ELSE s.masked
           r == vgic_irq_ack(s, v, i, again)
<1>1. s.masked \in SUBSET (VCPUS \X PPIS)
  BY DEF Fields
<1>2. m \in SUBSET (VCPUS \X PPIS)
  BY <1>1
<1>3. CASE i \in PPIS
  <2>1. a = SetMasked(s, m)
    BY <1>3 DEF virq_ack, SetMasked
  <2> HIDE DEF a, m
  <2>2. OnlyCfg(a, s, s.level, m, s.enabled)
    BY <1>2, <2>1, CfgEffects
  <2>3. r = a
    BY <2>2 DEF vgic_irq_ack, vgic_handle_level, OnlyCfg, a
  <2> QED BY <2>2, <2>3 DEF m
<1>4. CASE i \notin PPIS
  <2>1. a = s
    BY <1>4 DEF virq_ack, NoReinjection
  <2>2. r = s
    BY <2>1 DEF vgic_irq_ack, vgic_handle_level
  <2> QED BY <1>4, <2>2 DEF OnlyCfg
<1> QED BY <1>3, <1>4

\* The maintenance handler keeps GoodC: exactly the retired interrupt leaves.
LEMMA MaintenanceGoodC ==
  ASSUME NoReinjection, NEW s, GoodA(s, NoX), GoodB(s), GoodC(s),
         NEW v \in VCPUS, NEW idx \in LRs, NEW again, s.exit[v] = <<"maint", idx>>
  PROVE  GoodC(handle_vgic_maintenance(s, v, idx, again))
<1> DEFINE i == s.lr_shadow[v][idx]
           a == Retire(s, v, idx)
           b == vgic_irq_ack(a, v, i, again)
           m == IF i \in PPIS THEN a.masked \ {<<v, i>>} ELSE a.masked
           r == handle_vgic_maintenance(s, v, idx, again)
<1>1. s \in Fields /\ i \in Irqs /\ i # NoIrq
  BY SMTT(30) DEF GoodA, TypeS, Fields, Mirror
<1>2. Retired(a, s, v, idx)
  BY <1>1, RetireEffect
<1>3. r = Refill(b, v, idx)
  BY DEF handle_vgic_maintenance
<1> HIDE DEF a, r
<1>4. /\ a \in Fields /\ a.level = {} /\ a.masked = s.masked /\ a.dropped = s.dropped
      /\ a.pending = s.pending \ {Line(v, i)} /\ a.lr = s.lr
  BY <1>2 DEF Retired, GoodC
<1>5. OnlyCfg(b, a, {}, m, a.enabled)
  BY <1>1, <1>4, QuietAck
<1> HIDE DEF b, m
<1>6. /\ b \in Fields /\ b.level = {} /\ b.masked = m /\ b.dropped = s.dropped
      /\ b.pending = s.pending \ {Line(v, i)} /\ b.lr = s.lr /\ SameHomes(b, a)
      /\ b.exit = a.exit
  BY <1>4, <1>5 DEF OnlyCfg, SameHomes
<1>7. s.lr[v][idx] = "invalid"
  BY DEF GoodA, Mirror
<1>8. InjectIRQ_ok(b, v, idx)
  BY <1>6, <1>7 DEF InjectIRQ_ok
<1>9. Refilled(r, b, v, idx)
  BY <1>3, <1>6, <1>8, RefillEffect
<1>10. idx \in EmptyListRegs(b, v)
  <2>1. a.lr_shadow[v][idx] = NoIrq
    BY <1>1, <1>2, SMTT(30) DEF Retired, Fields
  <2> QED BY <1>6, <2>1 DEF EmptyListRegs, SameHomes
<1>11. \A w \in VCPUS, j \in Irqs : Resident(a, w, j) <=> Resident(s, w, j) /\ ~(w = v /\ j = i)
  <2>1. Once(s)
    BY DEF GoodB
  <2>2. i = s.lr_shadow[v][idx]
    OBVIOUS
  <2> HIDE DEF i
  <2> SUFFICES ASSUME NEW w \in VCPUS, NEW j \in Irqs
               PROVE  Resident(a, w, j) <=> Resident(s, w, j) /\ ~(w = v /\ j = i)
    OBVIOUS
  <2> QED BY <1>1, <1>2, <2>1, <2>2, RetireHomes, SMTT(30)
<1> HIDE DEF i
<1>12. /\ \A w \in VCPUS, j \in Irqs : Resident(b, w, j) => Resident(r, w, j)
       /\ r.pending = b.pending /\ r.dropped = b.dropped /\ r.masked = b.masked
       /\ r.level = b.level
  <2>1. b \in Fields
    BY <1>6, SMTT(30)
  <2> QED BY <1>9, <1>10, <2>1, RefillHomes
<1>13. \A w \in VCPUS, j \in Irqs : Resident(s, w, j) /\ ~(w = v /\ j = i) => Resident(r, w, j)
  BY <1>6, <1>11, <1>12, SameHomesResident
<1>14. PIR(r)
  <2> SUFFICES ASSUME NEW w \in VCPUS, NEW j \in Irqs, Line(w, j) \in r.pending \ r.dropped
               PROVE  \E u \in VCPUS : Line(u, j) = Line(w, j) /\ Resident(r, u, j)
    BY DEF PIR
  <2>1. Line(w, j) \in s.pending \ s.dropped /\ Line(w, j) # Line(v, i)
    BY <1>6, <1>12
  <2>2. PICK u \in VCPUS : Line(u, j) = Line(w, j) /\ Resident(s, u, j)
    BY <2>1 DEF GoodC, PIR
  <2> QED BY <1>13, <2>1, <2>2
<1>15. \A w \in VCPUS \ {v} : r.exit[w] = s.exit[w]
  <2>1. \A w \in VCPUS \ {v} : b.exit[w] = s.exit[w]
    <3>1. a.exit = [s.exit EXCEPT ![v] = <<"unanswered">>]
      BY <1>2 DEF Retired
    <3>2. s.exit = [w \in VCPUS |-> s.exit[w]]
      BY <1>1 DEF Fields
    <3>3. \A w \in VCPUS \ {v} : a.exit[w] = s.exit[w]
      BY <3>1, <3>2
    <3> QED BY <1>6, <3>3
  <2>2. \A w \in VCPUS \ {v} : r.exit[w] = b.exit[w]
    <3>1. GoodA(a, OneX(v, idx)) /\ a.exit[v] = <<"unanswered">>
      BY <1>2, RetireGoodA
    <3>2. GoodA(b, OneX(v, idx))
      BY <1>5, <3>1, CfgGoodA
    <3>3. b.exit[v] = <<"unanswered">>
      BY <1>6, <3>1
    <3> QED BY <1>9, <3>2, <3>3, RefillGoodA, SMTT(30)
  <2> QED BY <2>1, <2>2
<1>16. MPF(r)
  <2> SUFFICES ASSUME NEW w \in VCPUS, NEW j \in PPIS, <<w, j>> \in r.masked \ r.dropped
               PROVE  r.exit[w] = <<"vppi", j>> \/ Resident(r, w, j)
    BY DEF MPF
  <2>1. <<w, j>> \in s.masked \ s.dropped /\ ~(w = v /\ j = i) /\ j \in Irqs
    BY <1>4, <1>6, <1>12 DEF m, Irqs, Locals
  <2>2. s.exit[w] = <<"vppi", j>> \/ Resident(s, w, j)
    BY <2>1 DEF GoodC, MPF
  <2>3. CASE Resident(s, w, j)
    BY <1>13, <2>1, <2>3
  <2>4. CASE s.exit[w] = <<"vppi", j>>
    BY <1>15, <2>4, SMTT(30)
  <2> QED BY <2>2, <2>3, <2>4
<1> QED BY <1>6, <1>12, <1>14, <1>16 DEF GoodC, r

\* The inductive invariant behind PendingIsResident and MaskedPpiInFlight.
IndC == IndB /\ GoodC(vm)

\* Handlers keep GoodC.
LEMMA HandlerIndC ==
  ASSUME NoReinjection, IndC, NEW v \in VCPUS, VmmHandler(v)
  PROVE  GoodC(vm')
<1>0. GoodA(vm, NoX) /\ vm \in Fields /\ GoodB(vm) /\ GoodC(vm)
  BY SMTT(30) DEF IndC, IndB, IndA, GoodA, TypeS
<1>1. CASE vm_vgic_maintenance_handler(v)
  <2>1. PICK idx \in LRs, again \in BOOLEAN :
          /\ vm.exit[v] = <<"maint", idx>>
          /\ vm' = handle_vgic_maintenance(vm, v, idx, again)
    BY <1>1 DEF vm_vgic_maintenance_handler
  <2> QED BY <1>0, <2>1, MaintenanceGoodC
<1>2. CASE vm_vppi_event_handler(v)
  <2>1. PICK i \in PPIS :
          /\ vm.exit[v] = <<"vppi", i>>
          /\ LET p == vm_inject_irq(vm, v, i)
             IN vm' = [p EXCEPT !.exit[v] = <<"run">>,
                                !.masked = IF set_pending_fails(vm, v, i)
                                             THEN @ \ {<<v, i>>} ELSE @]
    BY <1>2 DEF vm_vppi_event_handler
  <2> DEFINE o == vgic_dist_set_pending_irq(vm, v, i)
             p == vm_inject_irq(vm, v, i)
             m == IF set_pending_fails(vm, v, i) THEN p.masked \ {<<v, i>>} ELSE p.masked
             l == Line(v, i)
  <2>2. i \in Irqs /\ i \in Locals /\ l = <<v, i>>
    BY DEF Irqs, Locals, Line
  <2>3. GoodA(o, NoX) /\ Quiet(o, vm) /\ GoodC(o)
    BY <1>0, <2>2, SetPendingGoodA, InjectGoodC
  <2>4. o.exit[v] = <<"vppi", i>>
    BY <2>1, <2>3, SMTT(30) DEF Quiet
  <2>5. p = o
    <3>1. o.exit[v] # <<"parked">>
      BY <2>4, SMTT(30)
    <3> QED BY <3>1, WakeCases
  <2>6. \/ o = vm /\ (~Deliverable(vm, v, i) \/ l \in vm.pending)
        \/ DroppedAt(o, vm, l)
        \/ Injected(o, vm, v, i)
    BY <1>0, <2>2, SetPendingOutcome
  <2>7. ~Deliverable(vm, v, i) => set_pending_fails(vm, v, i)
    BY DEF set_pending_fails
  <2>8. vm' = [o EXCEPT !.exit[v] = <<"run">>, !.masked = m] /\ o \in Fields
    BY <2>1, <2>3, <2>5 DEF GoodA, TypeS
  <2> HIDE DEF o, p, l
  <2>9. /\ m \subseteq o.masked
        /\ ~Deliverable(vm, v, i) => <<v, i>> \notin m
    BY <2>5, <2>7
  <2> HIDE DEF m
  <2>10. /\ vm'.pending = o.pending /\ vm'.dropped = o.dropped /\ vm'.masked = m
         /\ vm'.level = o.level /\ SameHomes(vm', o)
         /\ \A w \in VCPUS : vm'.exit[w] = IF w = v THEN <<"run">> ELSE o.exit[w]
    BY <2>8 DEF Fields, SameHomes
  <2>11. \A w \in VCPUS, j \in Irqs : Resident(vm', w, j) <=> Resident(o, w, j)
    BY <2>10, SameHomesResident
  <2>12. PIR(vm')
    BY <2>3, <2>10, <2>11 DEF GoodC, PIR
  <2>13. <<v, i>> \in m \ o.dropped => Resident(o, v, i)
    <3>1. CASE o = vm /\ l \in vm.pending
      <4>1. ASSUME l \notin vm.dropped PROVE Resident(vm, v, i)
        <5>1. PICK w \in VCPUS : Line(w, i) = Line(v, i) /\ Resident(vm, w, i)
          BY <1>0, <2>2, <3>1, <4>1 DEF GoodC, PIR, l
        <5>2. w = v
          BY <2>2, <5>1, LineInjective
        <5> QED BY <5>1, <5>2
      <4> QED BY <2>2, <3>1, <4>1
    <3>2. CASE DroppedAt(o, vm, l)
      BY <2>2, <3>2 DEF DroppedAt
    <3>3. CASE Injected(o, vm, v, i)
      BY <2>2, <3>3 DEF Injected
    <3>4. CASE ~Deliverable(vm, v, i)
      BY <2>9, <3>4
    <3> QED BY <2>6, <3>1, <3>2, <3>3, <3>4
  <2>14. MPF(vm')
    <3> SUFFICES ASSUME NEW w \in VCPUS, NEW j \in PPIS, <<w, j>> \in vm'.masked \ vm'.dropped
                 PROVE  vm'.exit[w] = <<"vppi", j>> \/ Resident(vm', w, j)
      BY DEF MPF
    <3>1. j \in Irqs /\ <<w, j>> \in m \ o.dropped /\ <<w, j>> \in o.masked
      BY <2>9, <2>10 DEF Irqs, Locals
    <3>2. o.exit[w] = <<"vppi", j>> \/ Resident(o, w, j)
      BY <2>3, <3>1 DEF GoodC, MPF
    <3>3. CASE w = v
      <4>1. o.exit[w] = <<"vppi", j>> => j = i
        BY <2>4, <3>3, SMTT(30)
      <4>2. Resident(o, w, j)
        BY <2>13, <3>1, <3>2, <3>3, <4>1
      <4> QED BY <2>11, <3>1, <4>2
    <3>4. CASE w # v
      BY <2>10, <2>11, <3>1, <3>2, <3>4
    <3> QED BY <3>3, <3>4
  <2>15. vm'.level = {}
    BY <2>3, <2>10 DEF GoodC
  <2> QED BY <2>12, <2>14, <2>15 DEF GoodC
<1>3. CASE vm_vcpu_handler_wfi(v)
  <2>1. /\ SameHomes(vm', vm) /\ vm'.pending = vm.pending /\ vm'.dropped = vm.dropped
        /\ vm'.masked = vm.masked /\ vm'.level = vm.level /\ vm.exit[v] = <<"wfi">>
        /\ \A w \in VCPUS : vm'.exit[w] = IF w = v THEN <<"parked">> ELSE vm.exit[w]
    BY <1>0, <1>3 DEF vm_vcpu_handler_wfi, SameHomes, Fields
  <2>2. Keeps(vm', vm)
    <3>1. \A w \in VCPUS, j \in Irqs : Resident(vm, w, j) => Resident(vm', w, j)
      BY <2>1, SameHomesResident
    <3>2. \A w \in VCPUS, j \in PPIS : vm.exit[w] = <<"vppi", j>> => vm'.exit[w] = <<"vppi", j>>
      BY <2>1, SMTT(30)
    <3> QED BY <2>1, <3>1, <3>2 DEF Keeps
  <2> QED BY <1>0, <2>2, KeepsGoodC
<1> QED BY <1>1, <1>2, <1>3 DEF VmmHandler

\* Devices keep GoodC.
LEMMA DeviceIndC ==
  ASSUME NoReinjection, IndC, NEW v \in VCPUS, Device(v)
  PROVE  GoodC(vm')
<1>0. GoodA(vm, NoX) /\ vm \in Fields /\ GoodC(vm)
  BY DEF IndC, IndB, IndA, GoodA, TypeS
<1>1. ASSUME NEW i \in Irqs, vm_register_irq(v, i) PROVE GoodC(vm')
  <2>1. /\ SameHomes(vm', vm) /\ vm'.pending = vm.pending /\ vm'.dropped = vm.dropped
        /\ vm'.masked = vm.masked /\ vm'.level = vm.level /\ vm'.exit = vm.exit
    BY <1>0, <1>1 DEF vm_register_irq, virq_add, SameHomes, Fields
  <2>2. Keeps(vm', vm)
    BY <2>1, SameHomesResident DEF Keeps
  <2> QED BY <1>0, <2>2, KeepsGoodC
<1>2. ASSUME NEW i \in SPIS, DeviceInject(v, i) PROVE GoodC(vm')
  <2>1. i \in Irqs /\ vm' = vm_inject_irq(vm, v, i)
    BY <1>2 DEF DeviceInject, Irqs
  <2> QED BY <1>0, <2>1, InjectGoodC
<1> QED BY <1>1, <1>2 DEF Device, NoReinjection

\* Iterations of distributor writes keep GoodC.
LEMMA WriteStepIndC ==
  ASSUME NoReinjection, IndC, WriteStep
  PROVE  GoodC(vm')
<1>0. GoodA(vm, NoX) /\ vm \in Fields /\ GoodC(vm) /\ write \in Writes
  BY DEF IndC, IndB, IndA, GoodA, TypeS
<1>1. CASE WriteBitsStep
  <2>1. PICK i \in Irqs, again \in BOOLEAN :
          vm' = CASE write.op = "ISENABLER" -> vgic_dist_enable_irq(vm, write.vcpu, i, again)
                  [] write.op = "ICENABLER" -> vgic_dist_disable_irq(vm, write.vcpu, i)
                  [] write.op = "ISPENDR"   -> vgic_dist_set_pending_irq(vm, write.vcpu, i)
                  [] write.op = "ICPENDR"   -> vgic_dist_clr_pending_irq(vm, write.vcpu, i)
    BY <1>1 DEF WriteBitsStep
  <2>2. write.op \in BitOps /\ write.op # "idle" /\ write.op # "ICPENDR"
    BY <1>1 DEF WriteBitsStep, BitOps, IndC, IndB, IndA, NoReinjection
  <2>3. write.vcpu \in VCPUS
    BY <1>0, <2>2, NextWriteType
  <2> DEFINE u == write.vcpu
             on == vm.enabled \cup {Line(u, i)}
             off == vm.enabled \ {Line(u, i)}
             e == set_enable(vm, u, i, TRUE)
             d == set_enable(vm, u, i, FALSE)
             a == vgic_irq_ack(e, u, i, again)
             m == IF i \in PPIS THEN e.masked \ {<<u, i>>} ELSE e.masked
  <2>4. on \in SUBSET Lines /\ off \in SUBSET Lines
    BY <1>0, <2>3, LineType DEF Fields
  <2>5. e = SetEnabled(vm, on) /\ d = SetEnabled(vm, off)
    BY DEF set_enable, SetEnabled
  <2>6. /\ vgic_dist_enable_irq(vm, u, i, again) \in {e, a}
        /\ vgic_dist_disable_irq(vm, u, i) \in {vm, d}
    BY DEF vgic_dist_enable_irq, vgic_dist_disable_irq
  <2> HIDE DEF on, off
  <2>7. OnlyCfg(e, vm, vm.level, vm.masked, on) /\ OnlyCfg(d, vm, vm.level, vm.masked, off)
    BY <1>0, <2>4, <2>5, CfgEffects
  <2> HIDE DEF e, d
  <2>8. e \in Fields /\ e.level = {}
    BY <1>0, <2>7 DEF OnlyCfg, GoodC
  <2>9. OnlyCfg(a, e, {}, m, e.enabled) /\ m \subseteq e.masked
    <3>1. OnlyCfg(a, e, {}, m, e.enabled)
      BY <2>3, <2>8, QuietAck
    <3>2. m \subseteq e.masked
      OBVIOUS
    <3> QED BY <3>1, <3>2
  <2> HIDE DEF a, m
  <2>10. SameHomes(e, vm) /\ SameHomes(d, vm) /\ SameHomes(a, e)
    BY <2>7, <2>9 DEF OnlyCfg, SameHomes
  <2>11. Keeps(e, vm)
    BY <2>7, EnableKeeps
  <2>12. Keeps(d, vm)
    BY <2>7, EnableKeeps
  <2>13. Keeps(a, e)
    BY <2>8, <2>9, <2>10, SameHomesResident DEF OnlyCfg, Keeps
  <2>14. GoodC(e) /\ GoodC(d)
    BY <1>0, <2>11, <2>12, KeepsGoodC
  <2>15. GoodC(a)
    BY <2>13, <2>14, KeepsGoodC
  <2>16. GoodC(vgic_dist_set_pending_irq(vm, u, i))
    BY <1>0, <2>3, InjectGoodC
  <2>17. /\ GoodC(vgic_dist_enable_irq(vm, write.vcpu, i, again))
         /\ GoodC(vgic_dist_disable_irq(vm, write.vcpu, i))
         /\ GoodC(vgic_dist_set_pending_irq(vm, write.vcpu, i))
    BY <1>0, <2>6, <2>14, <2>15, <2>16
  <2> QED BY <2>1, <2>2, <2>17 DEF BitOps
<1>2. CASE WriteSGIRStep
  <2>1. PICK t \in VCPUS : vm' = IF t \in online THEN vm_inject_irq(vm, t, write.irq) ELSE vm
    BY <1>2 DEF WriteSGIRStep
  <2>2. write.op \notin BitOps /\ write.op # "idle"
    BY <1>2 DEF WriteSGIRStep, BitOps
  <2>3. write.irq \in Irqs
    BY <1>0, <2>2, NextWriteType DEF Irqs, Locals
  <2> QED BY <1>0, <2>1, <2>3, InjectGoodC
<1> QED BY <1>1, <1>2 DEF WriteStep

\* The guest's steps keep GoodC; a virtual PPI is masked with its event waiting.
LEMMA GuestIndC ==
  ASSUME IndC, NEW v \in VCPUS, Guest(v) \/ DistWrite(v) \/ vcpu_start(v)
  PROVE  GoodC(vm')
<1>0. vm \in Fields /\ GoodC(vm)
  BY DEF IndC, IndB, IndA, GoodA, TypeS
<1>1. SameHomes(vm', vm) /\ vm'.pending = vm.pending
  BY GuestIndB DEF IndC
<1>2. \A w \in VCPUS, j \in Irqs : Resident(vm', w, j) <=> Resident(vm, w, j)
  BY <1>1, SameHomesResident
<1>3. vm'.dropped = vm.dropped /\ vm'.level = vm.level
  BY <1>0 DEF Guest, DistWrite, vcpu_start, GuestTake, GuestEOI, VppiFires, GuestWFI,
              WriteCTLR, WriteICFGR, WriteBits, WriteSGIR, Fields
<1>4. PIR(vm')
  BY <1>0, <1>1, <1>2, <1>3 DEF GoodC, PIR
<1>5. CASE \E i \in PPIS : VppiFires(v, i)
  <2>1. PICK i \in PPIS : VppiFires(v, i)
    BY <1>5
  <2>2. /\ vm.exit[v] = <<"run">> /\ vm'.masked = vm.masked \cup {<<v, i>>}
        /\ \A w \in VCPUS : vm'.exit[w] = IF w = v THEN <<"vppi", i>> ELSE vm.exit[w]
    BY <1>0, <2>1 DEF VppiFires, Running, Fields
  <2>3. MPF(vm')
    <3> SUFFICES ASSUME NEW w \in VCPUS, NEW j \in PPIS, <<w, j>> \in vm'.masked \ vm'.dropped
                 PROVE  vm'.exit[w] = <<"vppi", j>> \/ Resident(vm', w, j)
      BY DEF MPF
    <3>1. CASE w = v /\ j = i
      BY <2>2, <3>1
    <3>2. CASE ~(w = v /\ j = i)
      <4>1. j \in Irqs
        BY DEF Irqs, Locals
      <4>2. <<w, j>> \in vm.masked \ vm.dropped
        BY <1>3, <2>2, <3>2
      <4>3. vm.exit[w] = <<"vppi", j>> \/ Resident(vm, w, j)
        BY <1>0, <4>2 DEF GoodC, MPF
      <4>4. vm.exit[w] = <<"vppi", j>> => w # v
        BY <2>2, SMTT(30)
      <4>5. vm.exit[w] = <<"vppi", j>> => vm'.exit[w] = <<"vppi", j>>
        BY <2>2, <4>4
      <4> QED BY <1>2, <4>1, <4>3, <4>5
    <3> QED BY <3>1, <3>2
  <2> QED BY <1>0, <1>3, <1>4, <2>3 DEF GoodC
<1>6. CASE ~\E i \in PPIS : VppiFires(v, i)
  <2>1. vm'.masked = vm.masked
    BY <1>0, <1>6 DEF Guest, DistWrite, vcpu_start, GuestTake, GuestEOI, GuestWFI,
              WriteCTLR, WriteICFGR, WriteBits, WriteSGIR, Fields
  <2>2. \/ vm'.exit = vm.exit
        \/ /\ vm.exit[v] = <<"run">>
           /\ \A w \in VCPUS \ {v} : vm'.exit[w] = vm.exit[w]
    <3>1. DistWrite(v) \/ vcpu_start(v) => vm'.exit = vm.exit
      BY <1>0 DEF DistWrite, vcpu_start, WriteCTLR, WriteICFGR, WriteBits, WriteSGIR, Fields
    <3>2. ASSUME NEW idx \in LRs, GuestTake(v, idx) PROVE vm'.exit = vm.exit
      BY <1>0, <3>2 DEF GuestTake, Fields
    <3>3. ASSUME NEW idx \in LRs, GuestEOI(v, idx)
          PROVE  vm.exit[v] = <<"run">> /\ \A w \in VCPUS \ {v} : vm'.exit[w] = vm.exit[w]
      BY <1>0, <3>3 DEF GuestEOI, Running, Fields
    <3>4. ASSUME GuestWFI(v)
          PROVE  vm.exit[v] = <<"run">> /\ \A w \in VCPUS \ {v} : vm'.exit[w] = vm.exit[w]
      BY <1>0, <3>4 DEF GuestWFI, Running, Fields
    <3> QED BY <1>6, <3>1, <3>2, <3>3, <3>4 DEF Guest
  <2>3. Keeps(vm', vm)
    <3>1. \A w \in VCPUS, j \in PPIS : vm.exit[w] = <<"vppi", j>> => vm'.exit[w] = <<"vppi", j>>
      BY <2>2, SMTT(30)
    <3> QED BY <1>1, <1>2, <1>3, <2>1, <3>1 DEF Keeps
  <2> QED BY <1>0, <2>3, KeepsGoodC
<1> QED BY <1>5, <1>6

\* Every step keeps IndC.
LEMMA NextIndC ==
  ASSUME NoReinjection
  PROVE  IndC /\ [Next]_vars => IndC'
<1> SUFFICES ASSUME IndC, [Next]_vars PROVE IndC'
  OBVIOUS
<1>1. IndB'
  BY NextIndB DEF IndC, NoReinjection
<1>2. ASSUME NEW v \in VCPUS, VmmHandler(v) PROVE GoodC(vm')
  BY <1>2, HandlerIndC
<1>3. ASSUME NEW v \in VCPUS, Guest(v) \/ DistWrite(v) \/ vcpu_start(v) PROVE GoodC(vm')
  BY <1>3, GuestIndC
<1>4. ASSUME NEW v \in VCPUS, Device(v) PROVE GoodC(vm')
  BY <1>4, DeviceIndC, SMTT(30)
<1>5. ASSUME WriteStep PROVE GoodC(vm')
  BY <1>5, WriteStepIndC
<1>6. ASSUME UNCHANGED vars PROVE GoodC(vm')
  BY <1>6 DEF vars, IndC
<1>7. GoodC(vm')
  BY <1>2, <1>3, <1>4, <1>5, <1>6 DEF Next
<1> QED BY <1>1, <1>7 DEF IndC

\* Nothing is pending or masked after reset.
LEMMA InitIndC == Init => IndC
<1> SUFFICES ASSUME Init PROVE IndC
  BY SMTT(30)
<1>1. vm.pending = {} /\ vm.masked = {} /\ vm.level = {}
  BY DEF Init
<1>2. GoodC(vm)
  BY <1>1 DEF GoodC, PIR, MPF
<1> QED BY <1>2, InitIndB, SMTT(30) DEF IndC

\* When nothing re-injects from an acknowledgement, a line whose pending bit is set
\* is on its way to a vCPU: "we can assume that the VM has yet to ACK the IRQ".
THEOREM PendingIsResidentCorrect ==
  ASSUME NoReinjection
  PROVE  Spec => []PendingIsResident
<1>1. IndC => PendingIsResident
  BY DEF IndC, GoodC, PendingIsResident
<1>2. IndC /\ [Next]_vars => IndC'
  BY NextIndC
<1> QED BY <1>1, <1>2, InitIndC, PTL DEF Spec

\* When nothing re-injects from an acknowledgement, a virtual PPI that seL4 has
\* masked has its event waiting or is resident, so it will be unmasked.
THEOREM MaskedPpiCorrect ==
  ASSUME NoReinjection
  PROVE  Spec => []MaskedPpiInFlight
<1>1. IndC => MaskedPpiInFlight
  BY DEF IndC, GoodC, MaskedPpiInFlight
<1>2. IndC /\ [Next]_vars => IndC'
  BY NextIndC, SMTT(30)
<1> QED BY <1>1, <1>2, InitIndC, PTL DEF Spec
=============================================================================
