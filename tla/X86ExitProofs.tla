--------------------------- MODULE X86ExitProofs ----------------------------
(***************************************************************************)
(* Lemmas about what the exit loop of an x86 guest works with: the 8259    *)
(* pair (I8259), the cached guest state (X86GuestState), the local APIC and *)
(* the injection of interrupts (Lapic), and the turn of the loop (X86Vm):  *)
(* the handlers of the exits, the control registers, and the way back to   *)
(* the head of the loop.  Called for a vcpu on which the VMM may work      *)
(* (Handling), a handler leaves one that is Ready for the rest of the turn. *)
(*                                                                         *)
(* The 8259s.  The invariant PicInv says, of an edge-triggered pin whose   *)
(* device waits for its acknowledgement, that the request is in IRR or in  *)
(* ISR, that the pin has not become level triggered, and that its line is  *)
(* low between pulses, so that the next pulse is an edge.  Every operation *)
(* keeps it, and none but the second initialisation word moves the vector  *)
(* base of a chip.                                                         *)
(***************************************************************************)
EXTENDS X86Vm, FiniteSetTheorems, WellFoundedInduction, TLAPS

\* Leaves that name no prover go to Zenon.
USE ZenonT(30)

\* The state of a chip: its fields, and the values the proofs depend on.
IsChip(s) ==
    /\ DOMAIN s = {"last_irr", "irr", "imr", "isr", "elcr", "priority_add", "irq_base", "poll",
                   "init_state", "auto_eoi", "rotate_on_auto_eoi", "special_fully_nested_mode",
                   "init4"}
    /\ s.last_irr \in SUBSET Pins /\ s.irr \in SUBSET Pins /\ s.isr \in SUBSET Pins
    /\ s.elcr \in SUBSET Pins
    /\ s.priority_add \in Int /\ s.irq_base \in Int

IsPic(i) ==
    /\ DOMAIN i = {"pics", "output", "owed"} /\ DOMAIN i.pics = 0..1
    /\ \A n \in 0..1 : IsChip(i.pics[n])
    /\ i.owed \in SUBSET (0..15)

\* pulse: the pins that only pulses drive.
PicInv(i, pulse) ==
    /\ IsPic(i)
    /\ 2 \notin i.owed
    /\ \A n \in 0..1 : \A p \in Pins :
         /\ p + 8 * n \in i.owed =>
                p \notin i.pics[n].elcr /\ p \in i.pics[n].irr \union i.pics[n].isr
         /\ p + 8 * n \in pulse => p \notin i.pics[n].last_irr

\* Both chips keep their vector bases.
SameBases(i, j) == \A n \in 0..1 : j.pics[n].irq_base = i.pics[n].irq_base

(***************************************************************************)
(* Minima                                                                  *)
(***************************************************************************)
LEMMA MinExists ==
    ASSUME NEW S, S \subseteq Nat, S # {}
    PROVE  \E x \in S : \A y \in S : x <= y
<1>1. PICK x \in S : \A y \in S : ~ (<<y, x>> \in OpToRel(<, Nat))
  BY NatLessThanWellFounded, WFMin
<1>2. \A y \in S : ~ (y < x) BY <1>1 DEF OpToRel
<1> QED BY <1>2, SMTT(30)

\* A set of numbers that has a member has a least one.
LEMMA MinInSet ==
    ASSUME NEW S, S \subseteq Nat, S # {}
    PROVE  Min(S) \in S
BY MinExists DEF Min

\* The priority of a request is a number.
LEMMA PriorityType ==
    ASSUME NEW s, IsChip(s), NEW mask \in SUBSET Pins
    PROVE  get_priority(s, mask) \in Int
<1>1. CASE mask = {}
  BY <1>1, SMTT(30) DEF get_priority
<1>2. CASE mask # {}
  <2> DEFINE S == {(irq - s.priority_add) % 8 : irq \in mask}
  <2>a. s.priority_add \in Int
    BY SMTT(30) DEF IsChip
  <2>b. \A irq \in mask : (irq - s.priority_add) % 8 \in Nat
    BY <2>a, SMTT(30) DEF Pins
  <2>1. S \subseteq Nat /\ S # {}
    BY <1>2, <2>b, SMTT(30)
  <2> HIDE DEF S
  <2>2. Min(S) \in Nat
    BY <2>1, MinInSet
  <2> QED
    BY <1>2, <2>2, SMTT(30) DEF get_priority, S
<1> QED
  BY <1>1, <1>2, SMTT(30)

\* pic_get_irq finds a pin, or none.
LEMMA GetIrqType ==
    ASSUME NEW i, IsPic(i), NEW n \in 0..1
    PROVE  pic_get_irq(i, n) \in Pins \union {-1}
<1> DEFINE s == i.pics[n]
           p == get_priority(s, s.irr \ s.imr)
<1>1. IsChip(s)
  BY SMTT(30) DEF IsPic
<1>2. s.irr \ s.imr \in SUBSET Pins /\ s.priority_add \in Int
  BY <1>1, SMTT(30) DEF IsChip
<1>3. p \in Int
  BY <1>1, <1>2, PriorityType
<1> HIDE DEF p
<1>4. (p + s.priority_add) % 8 \in Pins
  BY <1>2, <1>3, SMTT(30) DEF Pins
<1> QED
  BY <1>4, SMTT(30) DEF pic_get_irq, p

(***************************************************************************)
(* Changes of one chip                                                     *)
(***************************************************************************)
\* In j chip n is t, the owed acknowledgements are o, and the other chip is as in i.
Changed(i, j, n, t, o) ==
    /\ IsPic(j) /\ j.pics[n] = t /\ j.owed = o
    /\ \A k \in 0..1 : k # n => j.pics[k] = i.pics[k]

\* An operation on one chip keeps PicInv if the chip keeps what is owed on its pins.
LEMMA ReplaceChip ==
    ASSUME NEW pulse, NEW i, PicInv(i, pulse), NEW n \in 0..1, NEW t, NEW o, NEW j,
           Changed(i, j, n, t, o), 2 \notin o,
           \A irq \in o : irq \in i.owed \/ irq - 8 * n \in Pins,
           \A p \in Pins :
             /\ p + 8 * n \in o => p \notin t.elcr /\ p \in t.irr \union t.isr
             /\ p + 8 * n \in pulse => p \notin t.last_irr
    PROVE  PicInv(j, pulse)
BY SMTT(30) DEF PicInv, Pins, Changed

\* A change of a chip that neither drops a request nor moves a line is harmless.
LEMMA HarmlessChange ==
    ASSUME NEW pulse, NEW i, PicInv(i, pulse), NEW n \in 0..1, NEW t, NEW j,
           Changed(i, j, n, t, i.owed),
           t.elcr = i.pics[n].elcr, t.last_irr \subseteq i.pics[n].last_irr,
           i.pics[n].irr \union i.pics[n].isr \subseteq t.irr \union t.isr
    PROVE  PicInv(j, pulse)
BY SMTT(30) DEF PicInv, Changed

\* A chip that keeps its base keeps the vectors of the pair.
LEMMA ChipBases ==
    ASSUME NEW i, NEW n \in 0..1, NEW t, NEW o, NEW j, Changed(i, j, n, t, o),
           t.irq_base = i.pics[n].irq_base
    PROVE  SameBases(i, j)
BY SMTT(30) DEF Changed, SameBases

\* Ending an interrupt keeps PicInv and the bases.
LEMMA PicClearIsr ==
    ASSUME NEW pulse, NEW i, PicInv(i, pulse), NEW n \in 0..1, NEW irq \in Int
    PROVE  PicInv(pic_clear_isr(i, n, irq), pulse) /\ SameBases(i, pic_clear_isr(i, n, irq))
<1> DEFINE j == pic_clear_isr(i, n, irq)
           t == [i.pics[n] EXCEPT !.isr = @ \ {irq}]
           o == IF irq + 8 * n = 2 THEN i.owed ELSE i.owed \ {irq + 8 * n}
<1>1. IsChip(i.pics[n]) /\ IsPic(i) /\ 2 \notin i.owed /\ i.owed \in SUBSET (0..15)
  BY SMTT(30) DEF PicInv, IsPic
<1>2. IsChip(t) /\ t.irq_base = i.pics[n].irq_base
  BY <1>1, SMTT(30) DEF IsChip
<1>3. Changed(i, j, n, t, o)
  BY <1>1, <1>2 DEF IsPic, pic_clear_isr, Changed
<1>4. o \subseteq i.owed /\ (irq + 8 * n \in o => irq + 8 * n = 2)
  BY <1>1
<1> HIDE DEF o, j
<1>5. \A p \in Pins :
        /\ p + 8 * n \in o => p \notin t.elcr /\ p \in t.irr \union t.isr
        /\ p + 8 * n \in pulse => p \notin t.last_irr
  BY <1>1, <1>4 DEF PicInv, IsChip, Pins
<1> HIDE DEF t
<1>6. PicInv(j, pulse)
  BY <1>1, <1>3, <1>4, <1>5, ReplaceChip
<1> QED
  BY <1>2, <1>3, <1>6, ChipBases DEF j

\* A line changes the request of its own pin only, and forgets no edge.
LEMMA PicSetIrq1 ==
    ASSUME NEW s, IsChip(s), NEW irq \in Pins, NEW level \in BOOLEAN
    PROVE  LET t == pic_set_irq1(s, irq, level) IN
           /\ IsChip(t)
           /\ t.isr = s.isr /\ t.elcr = s.elcr /\ t.irq_base = s.irq_base
           /\ \A p \in Pins : p \in s.irr /\ p \notin s.elcr => p \in t.irr
           /\ \A p \in Pins : p # irq => (p \in t.last_irr <=> p \in s.last_irr)
           /\ level <=> irq \in t.last_irr
BY SMTT(30) DEF IsChip, Pins, pic_set_irq1

(***************************************************************************)
(* Lines                                                                   *)
(***************************************************************************)
\* The edge-triggered requests of i are still there in j, and no line has risen.
Kept(i, j) ==
    \A n \in 0..1 :
        /\ j.pics[n].elcr = i.pics[n].elcr /\ j.pics[n].last_irr \subseteq i.pics[n].last_irr
        /\ \A p \in Pins : p \in i.pics[n].irr /\ p \notin i.pics[n].elcr => p \in j.pics[n].irr

\* The pulse on the cascade pin.
LEMMA Cascade ==
    ASSUME NEW s, IsChip(s)
    PROVE  LET t == pic_set_irq1(pic_set_irq1(s, 2, TRUE), 2, FALSE) IN
           /\ IsChip(t) /\ t.isr = s.isr /\ t.elcr = s.elcr /\ t.irq_base = s.irq_base
           /\ t.last_irr \subseteq s.last_irr
           /\ \A p \in Pins : p \in s.irr /\ p \notin s.elcr => p \in t.irr
<1> DEFINE r == pic_set_irq1(s, 2, TRUE)
           t == pic_set_irq1(r, 2, FALSE)
<1>1. 2 \in Pins
  BY SMTT(30) DEF Pins
<1>2. /\ IsChip(r) /\ r.isr = s.isr /\ r.elcr = s.elcr /\ r.irq_base = s.irq_base
      /\ \A p \in Pins : p \in s.irr /\ p \notin s.elcr => p \in r.irr
      /\ \A p \in Pins : p # 2 => (p \in r.last_irr <=> p \in s.last_irr)
  BY <1>1, PicSetIrq1
<1> HIDE DEF r
<1>3. /\ IsChip(t) /\ t.isr = r.isr /\ t.elcr = r.elcr /\ t.irq_base = r.irq_base
      /\ \A p \in Pins : p \in r.irr /\ p \notin r.elcr => p \in t.irr
      /\ \A p \in Pins : p # 2 => (p \in t.last_irr <=> p \in r.last_irr)
      /\ 2 \notin t.last_irr
  BY <1>1, <1>2, PicSetIrq1
<1> HIDE DEF t
<1>4. t.last_irr \subseteq Pins
  BY <1>3, SMTT(30) DEF IsChip
<1> QED
  BY <1>2, <1>3, <1>4 DEF t, r

\* The cascade raises pin 2 of the master and changes nothing that is owed.
LEMMA PicUpdateIrq ==
    ASSUME NEW pulse, NEW i, PicInv(i, pulse)
    PROVE  LET j == pic_update_irq(i) IN
           PicInv(j, pulse) /\ SameBases(i, j) /\ Kept(i, j) /\ j.owed = i.owed
<1> DEFINE t == pic_set_irq1(pic_set_irq1(i.pics[0], 2, TRUE), 2, FALSE)
           m == IF pic_get_irq(i, 1) >= 0 THEN [i EXCEPT !.pics[0] = t] ELSE i
           j == [m EXCEPT !.output = pic_get_irq(m, 0) >= 0]
<1>1. IsPic(i) /\ IsChip(i.pics[0])
  BY SMTT(30) DEF PicInv, IsPic
<1>2. /\ IsChip(t) /\ t.isr = i.pics[0].isr /\ t.elcr = i.pics[0].elcr
      /\ t.irq_base = i.pics[0].irq_base /\ t.last_irr \subseteq i.pics[0].last_irr
      /\ \A p \in Pins : p \in i.pics[0].irr /\ p \notin i.pics[0].elcr => p \in t.irr
  BY <1>1, Cascade
<1>3. pic_update_irq(i) = j
  BY <1>1, SMTT(30) DEF IsPic, pic_update_irq
<1> HIDE DEF t
<1>4. /\ IsPic(m) /\ m.owed = i.owed /\ m.pics[1] = i.pics[1]
      /\ m.pics[0] \in {t, i.pics[0]}
  BY <1>1, <1>2, SMTT(30) DEF IsPic
<1> HIDE DEF m
<1>a. (pic_get_irq(m, 0) >= 0) \in BOOLEAN
  BY SMTT(30)
<1>5. IsPic(j) /\ j.owed = i.owed /\ j.pics = m.pics
  BY <1>4, <1>a, SMTT(30) DEF IsPic
<1> HIDE DEF j
<1>6. SameBases(i, j) /\ Kept(i, j)
  BY <1>2, <1>4, <1>5, SMTT(30) DEF SameBases, Kept
<1>7. \A n \in 0..1 : j.pics[n].isr = i.pics[n].isr
  BY <1>2, <1>4, <1>5, SMTT(30)
<1>8. PicInv(j, pulse)
  BY <1>5, <1>6, <1>7, SMTT(30) DEF PicInv, Kept
<1> QED
  BY <1>3, <1>5, <1>6, <1>8, SMTT(30)

\* From i to j the line of pin p of chip n becomes level, and at most the cascade pin's falls.
Moved(i, j, n, p, level) ==
    /\ SameBases(i, j) /\ j.owed = i.owed
    /\ \A k \in 0..1 : /\ j.pics[k].elcr = i.pics[k].elcr
                       /\ \A q \in Pins : /\ q \in i.pics[k].irr /\ q \notin i.pics[k].elcr
                                                 => q \in j.pics[k].irr
                                          /\ q \in j.pics[k].last_irr =>
                                               q \in i.pics[k].last_irr \/ (q = p /\ k = n)
    /\ level /\ p \notin i.pics[n].elcr /\ p \notin i.pics[n].last_irr => p \in j.pics[n].irr
    /\ ~level => p \notin j.pics[n].last_irr

\* A device moves its line: a pulse leaves the request in IRR or in ISR.
LEMMA VmSetIrqLevel ==
    ASSUME NEW pulse, NEW i, PicInv(i, pulse), NEW n \in 0..1, NEW p \in Pins,
           NEW level \in BOOLEAN, level => p + 8 * n \notin pulse
    PROVE  LET j == vm_set_irq_level(i, p + 8 * n, level) IN
           PicInv(j, pulse) /\ Moved(i, j, n, p, level)
<1> DEFINE s == i.pics[n]
           t == pic_set_irq1(s, p, level)
           m == [i EXCEPT !.pics[n] = t]
           j == pic_update_irq(m)
<1>1. IsPic(i) /\ IsChip(s)
  BY SMTT(30) DEF PicInv, IsPic
<1>2. (p + 8 * n) \div 8 = n /\ (p + 8 * n) % 8 = p
  BY SMTT(30) DEF Pins
<1>3. vm_set_irq_level(i, p + 8 * n, level) = j
  BY <1>2 DEF vm_set_irq_level
<1>4. /\ IsChip(t) /\ t.isr = s.isr /\ t.elcr = s.elcr /\ t.irq_base = s.irq_base
      /\ \A q \in Pins : q \in s.irr /\ q \notin s.elcr => q \in t.irr
      /\ \A q \in Pins : q # p => (q \in t.last_irr <=> q \in s.last_irr)
      /\ level <=> p \in t.last_irr
  BY <1>1, PicSetIrq1, SMTT(30)
<1>5. level /\ p \notin s.elcr /\ p \notin s.last_irr => p \in t.irr
  BY <1>1 DEF pic_set_irq1, IsChip
<1> HIDE DEF t
<1>6. Changed(i, m, n, t, i.owed)
  BY <1>1, <1>4 DEF IsPic, Changed
<1>7. \A q \in Pins :
        /\ q + 8 * n \in i.owed => q \notin t.elcr /\ q \in t.irr \union t.isr
        /\ q + 8 * n \in pulse => q \notin t.last_irr
  BY <1>4 DEF PicInv
<1> HIDE DEF m
<1>a. 2 \notin i.owed
  BY SMTT(30) DEF PicInv
<1>8. PicInv(m, pulse)
  BY <1>6, <1>7, <1>a, ReplaceChip
<1>9. SameBases(i, m)
  BY <1>4, <1>6, ChipBases
<1>10. PicInv(j, pulse) /\ SameBases(m, j) /\ Kept(m, j) /\ j.owed = m.owed
  BY <1>8, PicUpdateIrq
<1> HIDE DEF j
<1>11. \A k \in 0..1 : j.pics[k].last_irr \subseteq Pins
  BY <1>10, SMTT(30) DEF PicInv, IsPic, IsChip
<1>12. SameBases(i, j)
  BY <1>9, <1>10 DEF SameBases
<1>13. \A k \in 0..1 : k # n => m.pics[k] = i.pics[k]
  BY <1>6 DEF Changed
<1>14. m.pics[n] = t /\ m.owed = i.owed
  BY <1>6 DEF Changed
<1>15. \A k \in 0..1 : /\ j.pics[k].elcr = i.pics[k].elcr
                       /\ \A q \in Pins : /\ q \in i.pics[k].irr /\ q \notin i.pics[k].elcr
                                                 => q \in j.pics[k].irr
                                          /\ q \in j.pics[k].last_irr =>
                                               q \in i.pics[k].last_irr \/ (q = p /\ k = n)
  BY <1>4, <1>10, <1>13, <1>14 DEF Kept
<1>16. level /\ p \notin s.elcr /\ p \notin s.last_irr => p \in j.pics[n].irr
  BY <1>4, <1>5, <1>10, <1>14 DEF Kept
<1>17. ~level => p \notin j.pics[n].last_irr
  BY <1>4, <1>10, <1>14 DEF Kept
<1> QED
  BY <1>3, <1>10, <1>12, <1>14, <1>15, <1>16, <1>17 DEF Moved

(***************************************************************************)
(* The guest's accesses                                                    *)
(***************************************************************************)
LEMMA PicReset ==
    ASSUME NEW pulse, NEW i, PicInv(i, pulse), NEW n \in 0..1
    PROVE  PicInv(pic_reset(i, n), pulse) /\ SameBases(i, pic_reset(i, n))
<1> DEFINE s == i.pics[n]
           edge == s.irr \ s.elcr
           t == [s EXCEPT !.last_irr = {}, !.irr = @ \intersect s.elcr, !.imr = {},
                          !.priority_add = 0, !.init_state = 1, !.isr = @ \ edge,
                          !.special_fully_nested_mode = IF s.init4 THEN @ ELSE FALSE,
                          !.auto_eoi = IF s.init4 THEN @ ELSE FALSE]
           o == i.owed \ {irq + 8 * n : irq \in edge \ {2 - 8 * n}}
           j == pic_reset(i, n)
<1>1. IsChip(s) /\ IsPic(i) /\ 2 \notin i.owed /\ i.owed \in SUBSET (0..15)
  BY DEF PicInv, IsPic
<1>2. /\ IsChip(t) /\ t.irq_base = s.irq_base /\ t.last_irr = {} /\ t.elcr = s.elcr
      /\ t.isr = s.isr \ edge
  <2>1. /\ DOMAIN t = DOMAIN s /\ t.last_irr = {} /\ t.irr = s.irr \intersect s.elcr
        /\ t.isr = s.isr \ edge /\ t.elcr = s.elcr /\ t.priority_add = 0
        /\ t.irq_base = s.irq_base
    BY <1>1 DEF IsChip
  <2> HIDE DEF t
  <2> QED
    BY <1>1, <2>1, SMTT(30) DEF IsChip
<1>3. Changed(i, j, n, t, o)
  <2>1. j = [i EXCEPT !.pics[n] = t, !.owed = o]
    BY DEF pic_reset
  <2> HIDE DEF t, o
  <2>2. o \in SUBSET (0..15)
    BY <1>1 DEF o
  <2> QED
    BY <1>1, <1>2, <2>1, <2>2 DEF IsPic, Changed
<1>4. o \subseteq i.owed
  BY SMTT(30)
<1>5. \A p \in Pins : p + 8 * n \in o => p \notin edge
  <2> SUFFICES ASSUME NEW p \in Pins, p + 8 * n \in i.owed, p \in edge
               PROVE  p + 8 * n \in {irq + 8 * n : irq \in edge \ {2 - 8 * n}}
    BY SMTT(30)
  <2>1. p # 2 - 8 * n
    BY <1>1, SMTT(30) DEF Pins
  <2> QED
    BY <2>1
<1> HIDE DEF o, j, t
<1>6. \A p \in Pins : p + 8 * n \in o => p \notin t.elcr /\ p \in t.irr \union t.isr
  BY <1>2, <1>4, <1>5 DEF PicInv
<1>7. PicInv(j, pulse)
  BY <1>1, <1>2, <1>3, <1>4, <1>6, ReplaceChip
<1> QED
  BY <1>2, <1>3, <1>7, ChipBases DEF j

\* Steps that keep the bases compose.
LEMMA SameBasesTrans ==
    ASSUME NEW i, NEW j, NEW k, SameBases(i, j), SameBases(j, k)
    PROVE  SameBases(i, k)
BY SMTT(30) DEF SameBases

\* Ending an interrupt and updating the cascade.
LEMMA ClearThenUpdate ==
    ASSUME NEW pulse, NEW i, PicInv(i, pulse), NEW n \in 0..1, NEW irq \in Int
    PROVE  LET j == pic_update_irq(pic_clear_isr(i, n, irq)) IN
           PicInv(j, pulse) /\ SameBases(i, j)
BY PicClearIsr, PicUpdateIrq, SameBasesTrans

\* A chip gets another priority.
LEMMA Reprioritised ==
    ASSUME NEW pulse, NEW i, PicInv(i, pulse), NEW n \in 0..1, NEW x \in Int
    PROVE  LET j == [i EXCEPT !.pics[n].priority_add = x] IN
           PicInv(j, pulse) /\ SameBases(i, j)
<1> DEFINE t == [i.pics[n] EXCEPT !.priority_add = x]
           j == [i EXCEPT !.pics[n].priority_add = x]
<1>1. IsChip(i.pics[n]) /\ IsPic(i)
  BY SMTT(30) DEF PicInv, IsPic
<1>2. /\ IsChip(t) /\ t.irq_base = i.pics[n].irq_base /\ t.elcr = i.pics[n].elcr
      /\ t.last_irr = i.pics[n].last_irr /\ t.irr = i.pics[n].irr /\ t.isr = i.pics[n].isr
  BY <1>1, SMTT(30) DEF IsChip
<1>3. Changed(i, j, n, t, i.owed)
  BY <1>1, <1>2 DEF IsPic, Changed
<1> HIDE DEF t, j
<1>4. PicInv(j, pulse)
  BY <1>2, <1>3, HarmlessChange
<1> QED
  BY <1>2, <1>3, <1>4, ChipBases DEF j

\* Every end-of-interrupt and rotation command keeps PicInv.
LEMMA Ocw2 ==
    ASSUME NEW pulse, NEW i, PicInv(i, pulse), NEW n \in 0..1, NEW cmd \in Int, NEW arg \in Int
    PROVE  PicInv(ocw2(i, n, cmd, arg), pulse) /\ SameBases(i, ocw2(i, n, cmd, arg))
<1> DEFINE s == i.pics[n]
           top == (get_priority(s, s.isr) + s.priority_add) % 8
           rotated == [i EXCEPT !.pics[n].priority_add = (top + 1) % 8]
           turned == [i EXCEPT !.pics[n].priority_add = (arg + 1) % 8]
           flagged == [i EXCEPT !.pics[n].rotate_on_auto_eoi = (cmd = 4)]
<1>1. IsChip(s) /\ IsPic(i)
  BY DEF PicInv, IsPic
<1>2. top \in Int
  <2>1. s.isr \in SUBSET Pins /\ s.priority_add \in Int
    BY <1>1 DEF IsChip
  <2>2. get_priority(s, s.isr) \in Int
    BY <1>1, <2>1, PriorityType
  <2> QED
    BY <2>1, <2>2, SMTT(30)
<1> HIDE DEF top
<1>3. (top + 1) % 8 \in Int /\ (arg + 1) % 8 \in Int
  BY <1>2, SMTT(30)
<1>4. PicInv(rotated, pulse) /\ SameBases(i, rotated)
  BY <1>3, Reprioritised
<1>5. PicInv(turned, pulse) /\ SameBases(i, turned)
  BY <1>3, Reprioritised
<1>6. PicInv(flagged, pulse) /\ SameBases(i, flagged)
  <2> DEFINE t == [s EXCEPT !.rotate_on_auto_eoi = (cmd = 4)]
  <2>1. /\ IsChip(t) /\ t.irq_base = s.irq_base /\ t.elcr = s.elcr
        /\ t.last_irr = s.last_irr /\ t.irr = s.irr /\ t.isr = s.isr
    BY <1>1, SMTT(30) DEF IsChip
  <2>2. Changed(i, flagged, n, t, i.owed)
    BY <1>1, <2>1 DEF IsPic, Changed
  <2> HIDE DEF t, flagged
  <2>3. PicInv(flagged, pulse)
    BY <2>1, <2>2, HarmlessChange
  <2> QED
    BY <2>1, <2>2, <2>3, ChipBases
<1>7. SameBases(i, i)
  BY SMTT(30) DEF SameBases
<1>8. /\ PicInv(pic_update_irq(pic_clear_isr(i, n, top)), pulse)
      /\ SameBases(i, pic_update_irq(pic_clear_isr(i, n, top)))
  BY <1>2, ClearThenUpdate
<1>9. /\ PicInv(pic_update_irq(pic_clear_isr(rotated, n, top)), pulse)
      /\ SameBases(i, pic_update_irq(pic_clear_isr(rotated, n, top)))
  <2> HIDE DEF rotated
  <2> QED BY <1>2, <1>4, ClearThenUpdate, SameBasesTrans
<1>10. /\ PicInv(pic_update_irq(pic_clear_isr(i, n, arg)), pulse)
       /\ SameBases(i, pic_update_irq(pic_clear_isr(i, n, arg)))
  BY ClearThenUpdate, SMTT(30)
<1>11. /\ PicInv(pic_update_irq(pic_clear_isr(turned, n, arg)), pulse)
       /\ SameBases(i, pic_update_irq(pic_clear_isr(turned, n, arg)))
  <2> HIDE DEF turned
  <2> QED BY <1>5, ClearThenUpdate, SameBasesTrans
<1>12. PicInv(pic_update_irq(turned), pulse) /\ SameBases(i, pic_update_irq(turned))
  <2> HIDE DEF turned
  <2> QED BY <1>5, PicUpdateIrq, SameBasesTrans
<1> QED
  BY <1>6, <1>7, <1>8, <1>9, <1>10, <1>11, <1>12 DEF ocw2, top

\* A change of a chip's mode only: poll, init4, imr, init_state and the like.
ModeChange(i, n, t) ==
    /\ IsChip(t) /\ t.elcr = i.pics[n].elcr /\ t.last_irr = i.pics[n].last_irr
    /\ t.irr = i.pics[n].irr /\ t.isr = i.pics[n].isr

\* So does a change of a mode, of the mask or of the base.
LEMMA ModeChanged ==
    ASSUME NEW pulse, NEW i, PicInv(i, pulse), NEW n \in 0..1, NEW t, ModeChange(i, n, t),
           NEW j, Changed(i, j, n, t, i.owed)
    PROVE  PicInv(j, pulse) /\ (t.irq_base = i.pics[n].irq_base => SameBases(i, j))
BY HarmlessChange, ChipBases DEF ModeChange

\* The vector bases are outside the exceptions' range.
BasesSet(i) == \A n \in 0..1 : i.pics[n].irq_base >= 16

\* Every write to a port of a chip keeps PicInv, and the bases above 15 if the second
\* initialisation word does.
LEMMA PicIoportWrite ==
    ASSUME NEW pulse, NEW i, PicInv(i, pulse), NEW n \in 0..1, NEW addr, NEW val \in Int
    PROVE  LET j == pic_ioport_write(i, n, addr, val) IN
           /\ PicInv(j, pulse)
           /\ BasesSet(i) /\ (addr = 1 /\ i.pics[n].init_state = 1 => val >= 16) => BasesSet(j)
<1> DEFINE s == i.pics[n]
           b0 == Bit(val, 0)
           b1 == Bit(val, 1)
           b2 == Bit(val, 2)
           b4 == Bit(val, 4)
           init == [i EXCEPT !.pics[n].init4 = b0]
           polled == [i EXCEPT !.pics[n].poll = IF b2 THEN TRUE ELSE @]
           masked == [i EXCEPT !.pics[n].imr = Bits(val)]
           icw2 == [i EXCEPT !.pics[n].irq_base = (val \div 8) * 8, !.pics[n].init_state = 2]
           icw3 == [i EXCEPT !.pics[n].init_state = IF s.init4 THEN 3 ELSE 0]
           icw4 == [i EXCEPT !.pics[n].special_fully_nested_mode = b4, !.pics[n].auto_eoi = b1,
                             !.pics[n].init_state = 0]
<1>1. IsChip(s) /\ IsPic(i)
  BY DEF PicInv, IsPic
<1>2. \A j : SameBases(i, j) /\ BasesSet(i) => BasesSet(j)
  BY DEF SameBases, BasesSet
<1>3. PicInv(pic_reset(init, n), pulse) /\ SameBases(i, pic_reset(init, n))
  <2> DEFINE t == [s EXCEPT !.init4 = b0]
  <2> HIDE DEF b0
  <2>1. ModeChange(i, n, t) /\ t.irq_base = s.irq_base
    BY <1>1 DEF IsChip, ModeChange
  <2>2. Changed(i, init, n, t, i.owed)
    BY <1>1, <2>1 DEF IsPic, Changed, ModeChange
  <2> HIDE DEF t, init
  <2> QED
    BY <2>1, <2>2, ModeChanged, PicReset, SameBasesTrans
<1>4. PicInv(polled, pulse) /\ SameBases(i, polled)
  <2> DEFINE t == [s EXCEPT !.poll = IF b2 THEN TRUE ELSE @]
  <2> HIDE DEF b2
  <2>1. ModeChange(i, n, t) /\ t.irq_base = s.irq_base
    BY <1>1, SMTT(30) DEF IsChip, ModeChange
  <2>2. Changed(i, polled, n, t, i.owed)
    BY <1>1, <2>1 DEF IsPic, Changed, ModeChange
  <2> HIDE DEF t, polled
  <2> QED
    BY <2>1, <2>2, ModeChanged
<1>5. PicInv(pic_update_irq(masked), pulse) /\ SameBases(i, pic_update_irq(masked))
  <2> DEFINE t == [s EXCEPT !.imr = Bits(val)]
  <2>1. ModeChange(i, n, t) /\ t.irq_base = s.irq_base
    BY <1>1, SMTT(30) DEF IsChip, ModeChange
  <2>2. Changed(i, masked, n, t, i.owed)
    BY <1>1, <2>1 DEF IsPic, Changed, ModeChange
  <2> HIDE DEF t, masked
  <2> QED
    BY <2>1, <2>2, ModeChanged, PicUpdateIrq, SameBasesTrans
<1>6. PicInv(icw2, pulse) /\ (BasesSet(i) /\ val >= 16 => BasesSet(icw2))
  <2> DEFINE base == (val \div 8) * 8
             t == [s EXCEPT !.irq_base = base, !.init_state = 2]
  <2>a. base \in Int /\ (val >= 16 => base >= 16)
    BY SMTT(30)
  <2> HIDE DEF base
  <2>1. ModeChange(i, n, t) /\ t.irq_base = base
    BY <1>1, <2>a, SMTT(30) DEF IsChip, ModeChange
  <2>2. Changed(i, icw2, n, t, i.owed)
    BY <1>1, <2>1 DEF IsPic, Changed, ModeChange, base
  <2> HIDE DEF t, icw2
  <2>3. PicInv(icw2, pulse)
    BY <2>1, <2>2, ModeChanged
  <2> QED
    BY <2>a, <2>1, <2>2, <2>3 DEF Changed, BasesSet
<1>7. PicInv(icw3, pulse) /\ SameBases(i, icw3)
  <2> DEFINE t == [s EXCEPT !.init_state = IF s.init4 THEN 3 ELSE 0]
  <2>1. ModeChange(i, n, t) /\ t.irq_base = s.irq_base
    BY <1>1 DEF IsChip, ModeChange
  <2>2. Changed(i, icw3, n, t, i.owed)
    BY <1>1, <2>1 DEF IsPic, Changed, ModeChange
  <2> HIDE DEF t, icw3
  <2> QED
    BY <2>1, <2>2, ModeChanged, SMTT(30)
<1>8. PicInv(icw4, pulse) /\ SameBases(i, icw4)
  <2> DEFINE t == [s EXCEPT !.special_fully_nested_mode = b4, !.auto_eoi = b1, !.init_state = 0]
  <2> HIDE DEF b1, b4
  <2>1. ModeChange(i, n, t) /\ t.irq_base = s.irq_base
    BY <1>1, SMTT(30) DEF IsChip, ModeChange
  <2>2. Changed(i, icw4, n, t, i.owed)
    BY <1>1, <2>1 DEF IsPic, Changed, ModeChange
  <2> HIDE DEF t, icw4
  <2> QED
    BY <2>1, <2>2, ModeChanged, SMTT(30)
<1>9. /\ PicInv(ocw2(i, n, val \div 32, val % 8), pulse)
      /\ SameBases(i, ocw2(i, n, val \div 32, val % 8))
  <2>1. val \div 32 \in Int /\ val % 8 \in Int
    BY SMTT(30)
  <2> QED
    BY <2>1, Ocw2, SMTT(30)
<1> DEFINE j == pic_ioport_write(i, n, addr, val)
<1>10. \/ j = pic_reset(init, n) \/ j = polled \/ j = ocw2(i, n, val \div 32, val % 8)
       \/ j = pic_update_irq(masked) \/ (addr = 1 /\ s.init_state = 1 /\ j = icw2)
       \/ j = icw3 \/ j = icw4
  BY SMTT(30) DEF pic_ioport_write
<1> HIDE DEF j, init, polled, masked, icw2, icw3, icw4
<1> QED
  BY <1>2, <1>3, <1>4, <1>5, <1>6, <1>7, <1>8, <1>9, <1>10 DEF j

\* Pin 2 of the master, to which no device is connected, is cleared.
LEMMA CascadeCleared ==
    ASSUME NEW pulse, NEW i, PicInv(i, pulse)
    PROVE  LET j == [i EXCEPT !.pics[0].isr = @ \ {2}, !.pics[0].irr = @ \ {2}] IN
           PicInv(j, pulse) /\ SameBases(i, j)
<1> DEFINE s == i.pics[0]
           t == [s EXCEPT !.isr = @ \ {2}, !.irr = @ \ {2}]
           j == [i EXCEPT !.pics[0].isr = @ \ {2}, !.pics[0].irr = @ \ {2}]
<1>1. IsChip(s) /\ IsPic(i) /\ 2 \notin i.owed
  BY SMTT(30) DEF PicInv, IsPic
<1>2. /\ IsChip(t) /\ t.irq_base = s.irq_base /\ t.elcr = s.elcr /\ t.last_irr = s.last_irr
      /\ t.irr = s.irr \ {2} /\ t.isr = s.isr \ {2}
  BY <1>1 DEF IsChip
<1>3. Changed(i, j, 0, t, i.owed)
  <2> DEFINE m == [i EXCEPT !.pics[0].isr = @ \ {2}]
  <2>1. /\ DOMAIN m = DOMAIN i /\ DOMAIN m.pics = DOMAIN i.pics /\ m.owed = i.owed
        /\ m.pics[0] = [s EXCEPT !.isr = @ \ {2}] /\ m.pics[1] = i.pics[1]
    BY <1>1, SMTT(30) DEF IsPic
  <2>2. j = [m EXCEPT !.pics[0].irr = @ \ {2}]
    OBVIOUS
  <2> HIDE DEF m, j
  <2>3. /\ DOMAIN j = DOMAIN m /\ DOMAIN j.pics = DOMAIN m.pics /\ j.owed = m.owed
        /\ j.pics[0] = [m.pics[0] EXCEPT !.irr = @ \ {2}] /\ j.pics[1] = m.pics[1]
    BY <1>1, <2>1, <2>2, SMTT(30) DEF IsPic
  <2>4. j.pics[0] = t
    BY <2>1, <2>3, SMTT(30)
  <2> QED
    BY <1>1, <1>2, <2>1, <2>3, <2>4, SMTT(30) DEF IsPic, Changed
<1> HIDE DEF t, j
<1>4. \A p \in Pins :
        /\ p + 8 * 0 \in i.owed => p \notin t.elcr /\ p \in t.irr \union t.isr
        /\ p + 8 * 0 \in pulse => p \notin t.last_irr
  BY <1>1, <1>2, SMTT(30) DEF PicInv, Pins
<1>5. PicInv(j, pulse)
  BY <1>1, <1>3, <1>4, ReplaceChip, SMTT(30)
<1> QED
  BY <1>2, <1>3, <1>5, ChipBases, SMTT(30) DEF j

\* A request leaves the chip together with the acknowledgement that is owed for it.
LEMMA RequestRetired ==
    ASSUME NEW pulse, NEW i, PicInv(i, pulse), NEW n \in 0..1, NEW irq \in Int
    PROVE  LET j == pic_clear_isr([i EXCEPT !.pics[n].irr = @ \ {irq}], n, irq) IN
           PicInv(j, pulse) /\ SameBases(i, j)
<1> DEFINE s == i.pics[n]
           u == [s EXCEPT !.irr = @ \ {irq}]
           m == [i EXCEPT !.pics[n].irr = @ \ {irq}]
           j == pic_clear_isr(m, n, irq)
           t == [u EXCEPT !.isr = @ \ {irq}]
           o == IF irq + 8 * n = 2 THEN i.owed ELSE i.owed \ {irq + 8 * n}
<1>1. IsChip(s) /\ IsPic(i) /\ 2 \notin i.owed /\ i.owed \in SUBSET (0..15)
  BY DEF PicInv, IsPic
<1>2. /\ IsChip(t) /\ t.irq_base = s.irq_base /\ t.elcr = s.elcr /\ t.last_irr = s.last_irr
      /\ t.irr = s.irr \ {irq} /\ t.isr = s.isr \ {irq}
  BY <1>1, SMTT(30) DEF IsChip
<1>3. /\ DOMAIN m = DOMAIN i /\ DOMAIN m.pics = DOMAIN i.pics /\ m.owed = i.owed
      /\ m.pics[n] = u /\ \A k \in 0..1 : k # n => m.pics[k] = i.pics[k]
  BY <1>1 DEF IsPic
<1> HIDE DEF m, u
<1>4. /\ DOMAIN j = DOMAIN m /\ DOMAIN j.pics = DOMAIN m.pics /\ j.owed = o
      /\ j.pics[n] = t /\ \A k \in 0..1 : k # n => j.pics[k] = m.pics[k]
  <2>1. /\ j = [m EXCEPT !.pics[n].isr = @ \ {irq}, !.owed = o]
        /\ DOMAIN m = {"pics", "output", "owed"} /\ DOMAIN m.pics = 0..1
    BY <1>1, <1>3 DEF IsPic, pic_clear_isr
  <2> HIDE DEF o, j
  <2> QED
    BY <1>3, <2>1, SMTT(30)
<1>5. o \subseteq i.owed /\ (irq + 8 * n \in o => irq + 8 * n = 2)
  BY <1>1
<1> HIDE DEF t, o, j
<1>6. Changed(i, j, n, t, o)
  BY <1>1, <1>2, <1>3, <1>4, <1>5, SMTT(30) DEF IsPic, Changed
<1>7. \A p \in Pins :
        /\ p + 8 * n \in o => p \notin t.elcr /\ p \in t.irr \union t.isr
        /\ p + 8 * n \in pulse => p \notin t.last_irr
  BY <1>1, <1>2, <1>5 DEF PicInv, Pins
<1>8. PicInv(j, pulse)
  BY <1>1, <1>5, <1>6, <1>7, ReplaceChip
<1> QED
  BY <1>2, <1>6, <1>8, ChipBases DEF j, m

\* Polling acknowledges like an interrupt does.
LEMMA PicPollRead ==
    ASSUME NEW pulse, NEW i, PicInv(i, pulse), NEW n \in 0..1
    PROVE  PicInv(pic_poll_read(i, n), pulse) /\ SameBases(i, pic_poll_read(i, n))
<1> DEFINE ret == pic_get_irq(i, n)
           cleared == [i EXCEPT !.pics[0].isr = @ \ {2}, !.pics[0].irr = @ \ {2}]
           master == IF n = 1 THEN cleared ELSE i
           acked == pic_clear_isr([master EXCEPT !.pics[n].irr = @ \ {ret}], n, ret)
<1>1. ret \in Int
  BY GetIrqType, SMTT(30) DEF PicInv, Pins
<1> HIDE DEF ret
<1>2. PicInv(cleared, pulse) /\ SameBases(i, cleared)
  BY CascadeCleared
<1> HIDE DEF cleared
<1>3. PicInv(master, pulse) /\ SameBases(i, master)
  BY <1>2 DEF SameBases
<1> HIDE DEF master
<1>4. PicInv(acked, pulse) /\ SameBases(master, acked)
  BY <1>1, <1>3, RequestRetired
<1> HIDE DEF acked
<1>5. SameBases(i, acked)
  BY <1>3, <1>4, SameBasesTrans
<1>6. PicInv(pic_update_irq(acked), pulse) /\ SameBases(i, pic_update_irq(acked))
  BY <1>4, <1>5, PicUpdateIrq, SameBasesTrans
<1>7. pic_poll_read(i, n) \in {acked, pic_update_irq(acked)}
  BY SMTT(30) DEF pic_poll_read, acked, master, cleared, ret
<1> QED
  BY <1>4, <1>5, <1>6, <1>7

\* A read of a port of a chip keeps PicInv and the bases.
LEMMA PicIoportRead ==
    ASSUME NEW pulse, NEW i, PicInv(i, pulse), NEW n \in 0..1
    PROVE  PicInv(pic_ioport_read(i, n), pulse) /\ SameBases(i, pic_ioport_read(i, n))
<1> DEFINE m == pic_poll_read(i, n)
           t == [m.pics[n] EXCEPT !.poll = FALSE]
           j == [m EXCEPT !.pics[n].poll = FALSE]
<1>1. PicInv(m, pulse) /\ SameBases(i, m)
  BY PicPollRead
<1> HIDE DEF m
<1>2. IsChip(m.pics[n]) /\ IsPic(m)
  BY <1>1 DEF PicInv, IsPic
<1>3. ModeChange(m, n, t) /\ t.irq_base = m.pics[n].irq_base
  BY <1>2, SMTT(30) DEF IsChip, ModeChange
<1>4. Changed(m, j, n, t, m.owed)
  BY <1>2, <1>3 DEF IsPic, Changed, ModeChange
<1> HIDE DEF t, j
<1>5. PicInv(j, pulse) /\ SameBases(i, j)
  BY <1>1, <1>3, <1>4, ModeChanged, SameBasesTrans
<1>6. SameBases(i, i)
  BY DEF SameBases
<1> QED
  BY <1>5, <1>6 DEF pic_ioport_read, j, m

\* A pin that becomes level triggered owes its device no acknowledgement any more.
LEMMA ElcrIoportWrite ==
    ASSUME NEW pulse, NEW i, PicInv(i, pulse), NEW n \in 0..1, NEW val
    PROVE  PicInv(elcr_ioport_write(i, n, val), pulse) /\ SameBases(i, elcr_ioport_write(i, n, val))
<1> DEFINE s == i.pics[n]
           level == Bits(val) \intersect elcr_mask(n)
           t == [s EXCEPT !.elcr = level]
           o == i.owed \ {irq + 8 * n : irq \in level}
           j == elcr_ioport_write(i, n, val)
<1>1. IsChip(s) /\ IsPic(i) /\ 2 \notin i.owed /\ i.owed \in SUBSET (0..15)
  BY SMTT(30) DEF PicInv, IsPic
<1>2. level \in SUBSET Pins
  BY SMTT(30) DEF Bits
<1>3. j = [i EXCEPT !.pics[n].elcr = level, !.owed = o]
  BY DEF elcr_ioport_write
<1>4. o \subseteq i.owed /\ \A p \in level : p + 8 * n \notin o
  OBVIOUS
<1> HIDE DEF level, o, j
<1>5. /\ IsChip(t) /\ t.irq_base = s.irq_base /\ t.elcr = level /\ t.last_irr = s.last_irr
      /\ t.irr = s.irr /\ t.isr = s.isr
  BY <1>1, <1>2 DEF IsChip
<1>6. Changed(i, j, n, t, o)
  BY <1>1, <1>3, <1>4, <1>5 DEF IsPic, Changed
<1> HIDE DEF t
<1>7. \A p \in Pins :
        /\ p + 8 * n \in o => p \notin t.elcr /\ p \in t.irr \union t.isr
        /\ p + 8 * n \in pulse => p \notin t.last_irr
  BY <1>4, <1>5 DEF PicInv
<1>8. PicInv(j, pulse)
  BY <1>1, <1>4, <1>6, <1>7, ReplaceChip
<1> QED
  BY <1>5, <1>6, <1>8, ChipBases DEF j

\* The guest writes and reads a port of the 8259s.
LEMMA PortOut ==
    ASSUME NEW pulse, NEW i, PicInv(i, pulse), NEW port \in PicPorts \union ElcrPorts,
           NEW val \in Int
    PROVE  LET j == i8259_port_out(i, port, val) IN
           /\ PicInv(j, pulse)
           /\ /\ BasesSet(i)
              /\ port \in PicPorts /\ port % 2 = 1 /\ i.pics[port \div 128].init_state = 1
                    => val >= 16
              => BasesSet(j)
<1>1. CASE port \in PicPorts
  <2>1. port \div 128 \in 0..1 /\ port \in Int
    BY <1>1, SMTT(30) DEF PicPorts
  <2> HIDE <1>1
  <2>2. LET j == pic_ioport_write(i, port \div 128, port % 2, val) IN
        /\ PicInv(j, pulse)
        /\ BasesSet(i) /\ (port % 2 = 1 /\ i.pics[port \div 128].init_state = 1 => val >= 16)
             => BasesSet(j)
    BY <2>1, PicIoportWrite
  <2> QED
    BY <1>1, <2>2 DEF i8259_port_out
<1>2. CASE port \notin PicPorts
  <2>1. port % 2 \in 0..1
    BY <1>2, SMTT(30) DEF ElcrPorts
  <2>2. LET j == elcr_ioport_write(i, port % 2, val) IN PicInv(j, pulse) /\ SameBases(i, j)
    BY <2>1, ElcrIoportWrite
  <2> QED
    BY <1>2, <2>2 DEF i8259_port_out, SameBases, BasesSet
<1> QED
  BY <1>1, <1>2

\* And so does the handler of a read, whatever the port.
LEMMA PortIn ==
    ASSUME NEW pulse, NEW i, PicInv(i, pulse), NEW port
    PROVE  PicInv(i8259_port_in(i, port), pulse) /\ SameBases(i, i8259_port_in(i, port))
<1>1. port \in PicPorts => port \div 128 \in 0..1
  BY SMTT(30) DEF PicPorts
<1>2. SameBases(i, i)
  BY DEF SameBases
<1> QED
  BY <1>1, <1>2, PicIoportRead DEF i8259_port_in

(***************************************************************************)
(* The vcpu takes an interrupt, a device pulses its line                   *)
(***************************************************************************)
LEMMA PicIntack ==
    ASSUME NEW pulse, NEW i, PicInv(i, pulse), NEW n \in 0..1, NEW irq \in Pins
    PROVE  PicInv(pic_intack(i, n, irq), pulse) /\ SameBases(i, pic_intack(i, n, irq))
<1> DEFINE s == i.pics[n]
           requests == IF irq \in s.elcr THEN s.irr ELSE s.irr \ {irq}
           t == [s EXCEPT !.isr = @ \union {irq}, !.irr = requests]
           served == [i EXCEPT !.pics[n].isr = @ \union {irq}, !.pics[n].irr = requests]
           rotated == IF s.rotate_on_auto_eoi
                      THEN [served EXCEPT !.pics[n].priority_add = (irq + 1) % 8]
                      ELSE served
<1>1. IsChip(s) /\ IsPic(i)
  BY SMTT(30) DEF PicInv, IsPic
<1>2. pic_intack(i, n, irq) = IF s.auto_eoi THEN pic_clear_isr(rotated, n, irq) ELSE served
  BY DEF pic_intack
<1>3. requests \subseteq s.irr /\ s.irr \ {irq} \subseteq requests
  OBVIOUS
<1> HIDE DEF requests
<1>4. /\ IsChip(t) /\ t.irq_base = s.irq_base /\ t.elcr = s.elcr /\ t.last_irr = s.last_irr
      /\ t.irr = requests /\ t.isr = s.isr \union {irq}
  BY <1>1, <1>3 DEF IsChip
<1>5. Changed(i, served, n, t, i.owed)
  <2> DEFINE m == [i EXCEPT !.pics[n].isr = @ \union {irq}]
  <2>1. /\ DOMAIN m = DOMAIN i /\ DOMAIN m.pics = DOMAIN i.pics /\ m.owed = i.owed
        /\ m.pics[n] = [s EXCEPT !.isr = @ \union {irq}]
        /\ \A k \in 0..1 : k # n => m.pics[k] = i.pics[k]
    BY <1>1, SMTT(30) DEF IsPic
  <2>2. served = [m EXCEPT !.pics[n].irr = requests]
    BY SMTT(30)
  <2> HIDE DEF m, served
  <2>3. /\ DOMAIN served = DOMAIN m /\ DOMAIN served.pics = DOMAIN m.pics
        /\ served.owed = m.owed /\ served.pics[n] = [m.pics[n] EXCEPT !.irr = requests]
        /\ \A k \in 0..1 : k # n => served.pics[k] = m.pics[k]
    BY <1>1, <2>1, <2>2 DEF IsPic
  <2>4. served.pics[n] = t
    BY <2>1, <2>3
  <2> QED
    BY <1>1, <1>4, <2>1, <2>3, <2>4, SMTT(30) DEF IsPic, Changed
<1> HIDE DEF t, served
<1>6. PicInv(served, pulse) /\ SameBases(i, served)
  BY <1>3, <1>4, <1>5, HarmlessChange, ChipBases
<1>7. (irq + 1) % 8 \in Int
  BY SMTT(30) DEF Pins
<1>8. PicInv(rotated, pulse) /\ SameBases(i, rotated)
  BY <1>6, <1>7, Reprioritised, SameBasesTrans
<1> HIDE DEF rotated
<1>9. /\ PicInv(pic_clear_isr(rotated, n, irq), pulse)
      /\ SameBases(i, pic_clear_isr(rotated, n, irq))
  BY <1>8, PicClearIsr, SameBasesTrans, SMTT(30) DEF Pins
<1> QED
  BY <1>2, <1>6, <1>9

\* The vector read is one of the 32 above the chips' bases.
LEMMA ReadIrq ==
    ASSUME NEW pulse, NEW i, PicInv(i, pulse)
    PROVE  LET got == i8259_read_irq(i) IN
           /\ PicInv(got.pic, pulse) /\ SameBases(i, got.pic)
           /\ got.vector \in Int /\ (BasesSet(i) => got.vector >= 16)
<1> DEFINE irq == pic_get_irq(i, 0)
           m == IF irq >= 0 THEN pic_intack(i, 0, irq) ELSE i
           irq2 == pic_get_irq(m, 1)
           k == IF irq = 2 /\ irq2 >= 0 THEN pic_intack(m, 1, irq2) ELSE m
           got == i8259_read_irq(i)
<1>1. got = ReadSlave(m, irq, irq2)
  BY SMTT(30) DEF i8259_read_irq, AckMaster, ReadMaster
<1>2. irq \in Pins \union {-1}
  BY GetIrqType, SMTT(30) DEF PicInv
<1> HIDE DEF irq
<1>3. irq >= 0 => irq \in Pins
  BY <1>2, SMTT(30) DEF Pins
<1>4. PicInv(m, pulse) /\ SameBases(i, m)
  BY <1>3, PicIntack, SMTT(30) DEF SameBases
<1> HIDE DEF m
<1>5. irq2 \in Pins \union {-1}
  BY <1>4, GetIrqType, SMTT(30) DEF PicInv
<1> HIDE DEF irq2
<1>6. irq2 >= 0 => irq2 \in Pins
  BY <1>5, SMTT(30) DEF Pins
<1>7. PicInv(k, pulse) /\ SameBases(m, k)
  BY <1>4, <1>6, PicIntack, SMTT(30) DEF SameBases
<1>8. got.pic = pic_update_irq(k)
  BY <1>1, SMTT(30) DEF ReadSlave
<1> HIDE DEF k
<1>9. PicInv(got.pic, pulse) /\ SameBases(k, got.pic)
  BY <1>7, <1>8, PicUpdateIrq
<1>10. SameBases(i, got.pic)
  BY <1>4, <1>7, <1>9, SameBasesTrans
<1>11. \A n \in 0..1 : m.pics[n].irq_base \in Int /\ (BasesSet(i) => m.pics[n].irq_base >= 16)
  BY <1>4 DEF PicInv, IsPic, IsChip, SameBases, BasesSet
<1>12. got.vector \in {m.pics[1].irq_base + (IF irq2 >= 0 THEN irq2 ELSE 7),
                       m.pics[0].irq_base + 7} \union
                      {m.pics[0].irq_base + irq : x \in {y \in {irq} : y >= 0}}
  BY <1>1, <1>2, SMTT(30) DEF ReadSlave, Pins
<1>13. got.vector \in Int /\ (BasesSet(i) => got.vector >= 16)
  BY <1>2, <1>5, <1>11, <1>12, SMTT(30) DEF Pins
<1> QED
  BY <1>9, <1>10, <1>13, SMTT(30)

\* A pulse leaves the request in IRR, and the line low.
LEMMA VmInjectIrq ==
    ASSUME NEW pulse, 2 \notin pulse, NEW i, PicInv(i, pulse), NEW n \in 0..1, NEW p \in Pins,
           p + 8 * n \in pulse
    PROVE  LET j == vm_inject_irq(i, p + 8 * n) IN PicInv(j, pulse) /\ SameBases(i, j)
<1> DEFINE rest == pulse \ {p + 8 * n}
           a == vm_set_irq_level(i, p + 8 * n, TRUE)
           b == vm_set_irq_level(a, p + 8 * n, FALSE)
           c == [b EXCEPT !.owed = @ \union {p + 8 * n}]
           j == vm_inject_irq(i, p + 8 * n)
<1>1. (p + 8 * n) \div 8 = n /\ (p + 8 * n) % 8 = p
  BY SMTT(30) DEF Pins
<1>2. j = IF p \in i.pics[n].elcr THEN b ELSE c
  BY <1>1 DEF vm_inject_irq
<1>3. PicInv(i, rest) /\ p \notin i.pics[n].last_irr
  BY SMTT(30) DEF PicInv
<1>4. p + 8 * n \notin rest
  BY SMTT(30)
<1> HIDE DEF rest
<1>5. PicInv(a, rest) /\ Moved(i, a, n, p, TRUE)
  BY <1>3, <1>4, VmSetIrqLevel
<1> HIDE DEF a
<1>6. PicInv(b, rest) /\ Moved(a, b, n, p, FALSE)
  BY <1>5, VmSetIrqLevel
<1> HIDE DEF b
<1>7. PicInv(b, pulse)
  <2>1. \A k \in 0..1 : \A q \in Pins : q + 8 * k \in pulse => q \notin b.pics[k].last_irr
    <3> SUFFICES ASSUME NEW k \in 0..1, NEW q \in Pins, q + 8 * k \in pulse
                 PROVE  q \notin b.pics[k].last_irr
      OBVIOUS
    <3>1. q \notin i.pics[k].last_irr
      BY DEF PicInv
    <3> QED
      BY <1>5, <1>6, <3>1 DEF Moved
  <2> QED
    BY <1>6, <2>1 DEF PicInv
<1>8. SameBases(i, b)
  BY <1>5, <1>6, SameBasesTrans DEF Moved
<1>9. ASSUME p \notin i.pics[n].elcr
      PROVE  PicInv(c, pulse) /\ SameBases(i, c)
  <2>1. p \in b.pics[n].irr /\ p \notin b.pics[n].elcr
    BY <1>3, <1>5, <1>6, <1>9 DEF Moved
  <2>2. DOMAIN c = DOMAIN b /\ c.pics = b.pics /\ c.owed = b.owed \union {p + 8 * n}
    BY <1>7 DEF PicInv, IsPic
  <2> HIDE DEF c
  <2>3. p + 8 * n \in 0..15 /\ p + 8 * n # 2
    BY SMTT(30) DEF Pins
  <2>4. IsPic(c) /\ 2 \notin c.owed
    BY <1>7, <2>2, <2>3 DEF PicInv, IsPic
  <2>5. \A k \in 0..1 : \A q \in Pins : q + 8 * k = p + 8 * n => q = p /\ k = n
    BY SMTT(30) DEF Pins
  <2>6. \A k \in 0..1 : \A q \in Pins : q + 8 * k \in c.owed =>
          q \notin c.pics[k].elcr /\ q \in c.pics[k].irr \union c.pics[k].isr
    BY <1>7, <2>1, <2>2, <2>5 DEF PicInv
  <2> QED
    BY <1>7, <1>8, <2>2, <2>4, <2>6 DEF PicInv, SameBases
<1> QED
  BY <1>2, <1>7, <1>8, <1>9

(***************************************************************************)
(* The vcpu.  Of the cached guest state the lemmas use three things only.  *)
(* CacheOk: a field that counts as valid has the value the hardware holds. *)
(* Eff: the value a field has for the VMM, the modified one before it is   *)
(* written back.  Dirty: the fields still to be written back.              *)
(***************************************************************************)
IsVcpu(v) ==
    /\ DOMAIN v = {"pic", "apic", "hw", "gs", "run", "failed"}
    /\ DOMAIN v.hw = Fields
    /\ DOMAIN v.gs = {"machine", "cr", "entry", "window", "cr3_exiting", "halt", "in_exit"}
    /\ DOMAIN v.gs.machine = Fields

\* The fields that no code of the VMM sets.
ReadOnly == {"rflags", "guest_interruptibility"}

Dirty(v) == {f \in Fields : v.gs.machine[f].status = "modified"}
Eff(v, f) == IF v.gs.machine[f].status = "modified" THEN v.gs.machine[f].value ELSE v.hw[f]

CacheOk(v) ==
    /\ IsVcpu(v)
    /\ \A f \in Fields :
         \/ v.gs.machine[f] = Unknown
         \/ v.gs.machine[f] = Valid(v.hw[f])
         \/ f \notin ReadOnly /\ v.gs.machine[f].status = "modified"

\* Nothing but the cache differs.
SameRest(v, w) ==
    /\ w.pic = v.pic /\ w.apic = v.apic /\ w.run = v.run /\ w.failed = v.failed
    /\ w.gs.cr = v.gs.cr /\ w.gs.entry = v.gs.entry /\ w.gs.window = v.gs.window
    /\ w.gs.cr3_exiting = v.gs.cr3_exiting /\ w.gs.halt = v.gs.halt
    /\ w.gs.in_exit = v.gs.in_exit

\* The cache holds the same values, with the same ones to be written back.
SameCache(v, w) ==
    /\ CacheOk(w) /\ Dirty(w) = Dirty(v)
    /\ \A f \in Fields : Eff(w, f) = Eff(v, f)

(***************************************************************************)
(* The cache                                                               *)
(***************************************************************************)
LEMMA ReadKeeps ==
    ASSUME NEW v, CacheOk(v), NEW f \in Fields
    PROVE  SameRest(v, Read(v, f)) /\ SameCache(v, Read(v, f)) /\ Value(v, f) = Eff(v, f)
<1> DEFINE w == [v EXCEPT !.gs.machine[f] = Valid(v.hw[f])]
<1>1. CASE v.gs.machine[f].status = "unknown"
  <2>1. Read(v, f) = w
    BY <1>1 DEF Read
  <2>2. /\ DOMAIN w = DOMAIN v /\ w.hw = v.hw /\ DOMAIN w.gs = DOMAIN v.gs
        /\ DOMAIN w.gs.machine = Fields /\ w.gs.machine[f] = Valid(v.hw[f])
        /\ \A g \in Fields : g # f => w.gs.machine[g] = v.gs.machine[g]
    BY SMTT(30) DEF CacheOk, IsVcpu
  <2>3. SameRest(v, w)
    BY DEF CacheOk, IsVcpu, SameRest
  <2> HIDE DEF w
  <2>4. w.gs.machine[f].status = "valid" /\ w.gs.machine[f].value = v.hw[f]
    BY <2>2, SMTT(30) DEF Valid
  <2>5. SameCache(v, w)
    BY <1>1, <2>2, <2>4, SMTT(30) DEF CacheOk, IsVcpu, SameCache, Dirty, Eff
  <2> QED
    BY <1>1, <2>1, <2>3, <2>4, <2>5 DEF Value, Eff
<1>2. CASE v.gs.machine[f].status # "unknown"
  <2>1. v.gs.machine[f] = Valid(v.hw[f]) \/ v.gs.machine[f].status = "modified"
    BY <1>2, SMTT(30) DEF CacheOk, Unknown
  <2>2. Read(v, f) = v
    BY <1>2, <2>1 DEF Read
  <2> QED
    BY <2>1, <2>2, SMTT(30) DEF SameRest, SameCache, Value, Eff, Valid
<1> QED
  BY <1>1, <1>2

\* Writing a cached field changes what the guest will see of this field only.
LEMMA SetKeeps ==
    ASSUME NEW v, CacheOk(v), NEW f \in Fields \ ReadOnly, NEW x
    PROVE  LET w == Set(v, f, x) IN
           /\ SameRest(v, w) /\ CacheOk(w) /\ Dirty(w) = Dirty(v) \union {f}
           /\ Eff(w, f) = x /\ \A g \in Fields : g # f => Eff(w, g) = Eff(v, g)
<1> DEFINE w == [v EXCEPT !.gs.machine[f] = Modified(x)]
<1>1. Set(v, f, x) = w
  BY DEF Set
<1>2. /\ DOMAIN w = DOMAIN v /\ w.hw = v.hw /\ DOMAIN w.gs = DOMAIN v.gs
      /\ DOMAIN w.gs.machine = Fields /\ w.gs.machine[f] = Modified(x)
      /\ \A g \in Fields : g # f => w.gs.machine[g] = v.gs.machine[g]
  BY DEF CacheOk, IsVcpu
<1>3. SameRest(v, w)
  BY DEF CacheOk, IsVcpu, SameRest
<1> HIDE DEF w
<1>4. w.gs.machine[f].status = "modified" /\ w.gs.machine[f].value = x
  BY <1>2, SMTT(30) DEF Modified
<1>5. CacheOk(w)
  BY <1>2, <1>4 DEF CacheOk, IsVcpu
<1> QED
  BY <1>1, <1>2, <1>3, <1>4, <1>5 DEF Dirty, Eff

\* Writing the cache back changes nothing the guest sees.
LEMMA SyncKeeps ==
    ASSUME NEW v, CacheOk(v), NEW fs \in SUBSET Fields
    PROVE  LET w == SyncFields(v, fs) IN
           /\ SameRest(v, w) /\ CacheOk(w) /\ Dirty(w) = Dirty(v) \ fs
           /\ \A f \in Fields : Eff(w, f) = Eff(v, f)
<1> DEFINE dirty == {f \in fs : v.gs.machine[f].status = "modified"}
           newhw == [f \in Fields |-> IF f \in dirty THEN v.gs.machine[f].value ELSE v.hw[f]]
           newmachine == [f \in Fields |-> IF f \in dirty THEN Valid(v.gs.machine[f].value)
                                           ELSE v.gs.machine[f]]
           w == [v EXCEPT !.hw = newhw, !.gs.machine = newmachine]
<1>1. SyncFields(v, fs) = w
  BY DEF SyncFields
<1>2. /\ DOMAIN newhw = Fields /\ DOMAIN newmachine = Fields
      /\ \A f \in Fields : IF f \in dirty
                           THEN /\ newhw[f] = v.gs.machine[f].value
                                /\ newmachine[f] = Valid(newhw[f])
                           ELSE newhw[f] = v.hw[f] /\ newmachine[f] = v.gs.machine[f]
  OBVIOUS
<1> HIDE DEF newhw, newmachine
<1>3. /\ DOMAIN w = DOMAIN v /\ w.hw = newhw /\ DOMAIN w.gs = DOMAIN v.gs
      /\ w.gs.machine = newmachine
  BY DEF CacheOk, IsVcpu
<1>4. SameRest(v, w)
  BY DEF CacheOk, IsVcpu, SameRest
<1> HIDE DEF w
<1>5. \A f \in dirty : /\ w.gs.machine[f] = Valid(w.hw[f]) /\ w.gs.machine[f].status = "valid"
                       /\ w.hw[f] = v.gs.machine[f].value
  BY <1>2, <1>3, SMTT(30) DEF Valid
<1>6. \A f \in Fields \ dirty : w.gs.machine[f] = v.gs.machine[f] /\ w.hw[f] = v.hw[f]
  BY <1>2, <1>3
<1>7. CacheOk(w)
  BY <1>2, <1>3, <1>5, <1>6, SMTT(30) DEF CacheOk, IsVcpu
<1>8. Dirty(w) = Dirty(v) \ fs /\ \A f \in Fields : Eff(w, f) = Eff(v, f)
  BY <1>5, <1>6 DEF Dirty, Eff
<1> QED
  BY <1>1, <1>4, <1>7, <1>8

\* A cache without dirty fields can be dropped.
LEMMA InvalidateKeeps ==
    ASSUME NEW v, IsVcpu(v), Dirty(v) = {}
    PROVE  LET w == vm_guest_state_invalidate_all(v) IN
           SameRest(v, w) /\ SameCache(v, w) /\ w.hw = v.hw
<1> DEFINE w == [v EXCEPT !.gs.machine = [f \in Fields |-> Unknown]]
<1>1. vm_guest_state_invalidate_all(v) = w
  BY DEF vm_guest_state_invalidate_all, vm_guest_state_no_modified, Dirty
<1>2. /\ DOMAIN w = DOMAIN v /\ w.hw = v.hw /\ DOMAIN w.gs = DOMAIN v.gs
      /\ DOMAIN w.gs.machine = Fields
      /\ \A f \in Fields : w.gs.machine[f] = Unknown /\ w.gs.machine[f].status = "unknown"
  BY SMTT(30) DEF IsVcpu, Unknown
<1>3. SameRest(v, w)
  BY DEF IsVcpu, SameRest
<1> HIDE DEF w
<1> QED
  BY <1>1, <1>2, <1>3 DEF SameCache, CacheOk, IsVcpu, Dirty, Eff

(***************************************************************************)
(* The registers of the local APIC                                         *)
(***************************************************************************)
Vectors == 16..255

IsApic(a) ==
    /\ DOMAIN a = {"irr", "isr", "irr_pending", "isr_count", "ppr", "tpr", "sw_enabled",
                   "hw_enabled", "lvt0", "id", "ldr", "dfr", "icr2", "state", "nested"}
    /\ a.irr \in SUBSET Vectors /\ a.isr \in SUBSET Vectors /\ a.irr_pending \in BOOLEAN
    /\ a.isr_count \in Int /\ a.ppr \in Nat /\ a.tpr \in Nat
    /\ DOMAIN a.lvt0 = {"masked", "mode"}

(* The bookkeeping beside IRR and ISR: nested relates vectors in service,  *)
(* and irr_pending and isr_count are what they cache.                      *)
Booked(a) ==
    /\ \A p \in a.nested : p[1] \in a.isr /\ p[2] \in a.isr /\ Class(p[1]) < Class(p[2])
    /\ a.isr_count = Cardinality(a.isr)
    /\ a.irr_pending = (a.irr # {})

Nested(a) == a.state = "new" => Booked(a) /\ a.ppr = PprOf(a)

\* A set of vectors that has a member has a greatest one.
LEMMA MaxExists ==
    ASSUME NEW S, S \subseteq Vectors, S # {}
    PROVE  \E x \in S : \A y \in S : x >= y
<1> DEFINE T == {255 - x : x \in S}
<1>1. \A x \in S : x \in Int /\ 255 - x \in Nat
  BY SMTT(30) DEF Vectors
<1>2. T \subseteq Nat /\ T # {}
  BY <1>1, SMTT(30)
<1>3. PICK t \in T : \A u \in T : t <= u
  BY <1>2, MinExists
<1>4. PICK x \in S : t = 255 - x
  OBVIOUS
<1>5. \A y \in S : 255 - x <= 255 - y
  BY <1>3, <1>4, SMTT(30)
<1> HIDE DEF T
<1> QED
  BY <1>1, <1>5, SMTT(30)

\* The highest vector of a set.
LEMMA HighestOf ==
    ASSUME NEW S, S \subseteq Vectors
    PROVE  /\ S = {} => Highest(S) = -1
           /\ S # {} => Highest(S) \in S /\ Highest(S) \in Vectors
                        /\ \A y \in S : y <= Highest(S)
<1>1. CASE S = {}
  BY <1>1 DEF Highest
<1>2. CASE S # {}
  <2>1. Highest(S) = CHOOSE x \in S : \A y \in S : x >= y
    BY <1>2 DEF Highest, Max
  <2>2. \E x \in S : \A y \in S : x >= y
    BY <1>2, MaxExists
  <2>3. Highest(S) \in S /\ \A y \in S : Highest(S) >= y
    BY <2>1, <2>2
  <2>4. Highest(S) \in Vectors
    BY <2>3
  <2> QED
    BY <1>2, <2>3, <2>4 DEF Vectors
<1> QED
  BY <1>1, <1>2

\* The priority class of a vector grows with the vector.
LEMMA ClassFacts ==
    /\ \A x \in Nat : Class(x) \in Nat /\ Class(x) <= x
    /\ \A x, y \in Nat : x <= y => Class(x) <= Class(y)
BY SMTT(30) DEF Class

\* The processor priority covers every vector in service.
LEMMA PprFacts ==
    ASSUME NEW a, IsApic(a)
    PROVE  /\ PprOf(a) \in Nat
           /\ a.isr_count # 0 => \A x \in a.isr : Class(x) <= PprOf(a)
<1> DEFINE isr == apic_find_highest_isr(a)
           isrv == IF isr = -1 THEN 0 ELSE isr
<1>1. a.tpr \in Nat /\ a.isr \subseteq Vectors
  BY DEF IsApic
<1>2. isr \in Vectors \union {-1} /\ (a.isr_count # 0 => \A x \in a.isr : x <= isr)
  BY <1>1, HighestOf DEF apic_find_highest_isr
<1> HIDE DEF isr
<1>3. isrv \in Nat /\ (a.isr_count # 0 => \A x \in a.isr : x <= isrv)
  BY <1>1, <1>2, SMTT(30) DEF Vectors
<1>4. PprOf(a) = IF Class(a.tpr) >= Class(isrv) THEN a.tpr ELSE Class(isrv)
  BY DEF PprOf, isr
<1> HIDE DEF isrv
<1>5. Class(isrv) \in Nat /\ Class(a.tpr) \in Nat /\ Class(a.tpr) <= a.tpr
  BY <1>1, <1>3, ClassFacts
<1>6. PprOf(a) \in Nat /\ Class(isrv) <= PprOf(a)
  BY <1>1, <1>4, <1>5, SMTT(30)
<1>7. ASSUME a.isr_count # 0, NEW x \in a.isr
      PROVE  Class(x) <= PprOf(a)
  <2>1. x \in Nat /\ x <= isrv
    BY <1>1, <1>3, <1>7, SMTT(30) DEF Vectors
  <2>2. Class(x) \in Nat /\ Class(x) <= Class(isrv)
    BY <1>3, <2>1, ClassFacts
  <2> QED
    BY <1>5, <1>6, <2>2, SMTT(30)
<1> QED
  BY <1>6, <1>7

\* The priority depends on TPR and ISR only.
LEMMA PprDepends ==
    ASSUME NEW a, NEW b, b.tpr = a.tpr, b.isr = a.isr, b.isr_count = a.isr_count
    PROVE  PprOf(b) = PprOf(a)
BY DEF PprOf, apic_find_highest_isr

\* What vm_apic_has_interrupt reports.
LEMMA HasInterrupt ==
    ASSUME NEW v, IsApic(v.apic)
    PROVE  LET has == vm_apic_has_interrupt(v) IN
           /\ has \in Vectors \union {-1, 1}
           /\ has = 1 => i8259_has_interrupt(v.pic)
           /\ has \in Vectors => has \in v.apic.irr /\ Class(has) > v.apic.ppr
<1> DEFINE top == apic_find_highest_irr(v.apic)
<1>1. v.apic.irr \subseteq Vectors /\ v.apic.ppr \in Nat
  BY DEF IsApic
<1>2. top = -1 \/ (top \in v.apic.irr /\ top \in Vectors)
  BY <1>1, HighestOf DEF apic_find_highest_irr
<1> HIDE DEF top
<1>3. top \in Vectors => Class(top) \in Nat
  BY ClassFacts, SMTT(30) DEF Vectors
<1>4. vm_apic_has_interrupt(v) =
        IF vm_apic_accept_pic_intr(v.apic) /\ i8259_has_interrupt(v.pic) THEN 1
        ELSE IF top = -1 \/ Class(top) <= v.apic.ppr THEN -1 ELSE top
  BY SMTT(30) DEF vm_apic_has_interrupt, top
<1>5. 1 \notin Vectors /\ -1 \notin Vectors
  BY SMTT(30) DEF Vectors
<1> QED
  BY <1>1, <1>2, <1>3, <1>4, <1>5, SMTT(30)

\* Whether an interrupt can be delivered depends on the controllers only.
LEMMA HasDepends ==
    ASSUME NEW v, NEW w, w.apic = v.apic, w.pic = v.pic
    PROVE  vm_apic_has_interrupt(w) = vm_apic_has_interrupt(v)
BY DEF vm_apic_has_interrupt

\* Sets of vectors are finite, so that isr_count tells whether ISR is empty.
LEMMA FiniteVectors ==
    ASSUME NEW S, S \subseteq Vectors
    PROVE  IsFiniteSet(S) /\ Cardinality(S) \in Nat /\ (Cardinality(S) = 0 <=> S = {})
<1>1. IsFiniteSet(Vectors)
  <2>1. 16 \in Int /\ 255 \in Int
    BY SMTT(30)
  <2>2. IsFiniteSet(16..255)
    BY <2>1, FS_Interval
  <2> QED
    BY <2>2 DEF Vectors
<1>2. IsFiniteSet(S)
  BY <1>1, FS_Subset, SMTT(30)
<1> QED
  BY <1>2, FS_CardinalityType, FS_EmptySet

\* A vector above the priority goes into service: it nests.
LEMMA ServeNests ==
    ASSUME NEW a, IsApic(a), NEW vec \in Vectors, Class(vec) > a.ppr
    PROVE  LET b == Serve(apic_set_isr(a, vec), vec) IN
           IsApic(b) /\ b.state = a.state /\ (Nested(a) => Nested(b))
<1> DEFINE c == apic_set_isr(a, vec)
           d == [c EXCEPT !.ppr = PprOf(c)]
           b == apic_clear_irr(d, vec)
<1>1. Serve(apic_set_isr(a, vec), vec) = b
  BY DEF Serve
<1>2. /\ DOMAIN c = DOMAIN a /\ c.irr = a.irr /\ c.irr_pending = a.irr_pending
      /\ c.ppr = a.ppr /\ c.tpr = a.tpr /\ c.lvt0 = a.lvt0 /\ c.state = a.state
      /\ vec \in a.isr => c = a
      /\ vec \notin a.isr => /\ c.isr = a.isr \union {vec} /\ c.isr_count = a.isr_count + 1
                             /\ c.nested = a.nested \union (a.isr \X {vec})
  BY DEF apic_set_isr, IsApic
<1> HIDE DEF c
<1>3. IsApic(c)
  BY <1>2, SMTT(30) DEF IsApic
<1>4. PprOf(c) \in Nat
  BY <1>3, PprFacts
<1>5. /\ DOMAIN d = DOMAIN c /\ d.irr = c.irr /\ d.irr_pending = c.irr_pending
      /\ d.tpr = c.tpr /\ d.lvt0 = c.lvt0 /\ d.state = c.state /\ d.ppr = PprOf(c)
      /\ d.isr = c.isr /\ d.isr_count = c.isr_count /\ d.nested = c.nested
  BY <1>3 DEF IsApic
<1> HIDE DEF d
<1>6. /\ DOMAIN b = DOMAIN d /\ b.irr = d.irr \ {vec} /\ b.irr_pending = (d.irr \ {vec} # {})
      /\ b.tpr = d.tpr /\ b.lvt0 = d.lvt0 /\ b.state = d.state /\ b.ppr = d.ppr
      /\ b.isr = d.isr /\ b.isr_count = d.isr_count /\ b.nested = d.nested
  BY <1>3, <1>5 DEF IsApic, apic_clear_irr
<1> HIDE DEF b
<1>7. IsApic(b)
  BY <1>3, <1>4, <1>5, <1>6 DEF IsApic
<1>8. b.ppr = PprOf(b)
  BY <1>5, <1>6, PprDepends
<1>9. ASSUME Nested(a), a.state = "new"
      PROVE  Booked(b)
  <2>1. Booked(a) /\ a.ppr = PprOf(a)
    BY <1>9 DEF Nested
  <2>2. a.isr \subseteq Vectors /\ a.ppr \in Nat
    BY DEF IsApic
  <2>3. a.isr_count = 0 <=> a.isr = {}
    BY <2>1, <2>2, FiniteVectors DEF Booked
  <2>4. \A x \in a.isr : Class(x) < Class(vec)
    <3> TAKE x \in a.isr
    <3>1. Class(x) <= a.ppr
      BY <2>1, <2>3, PprFacts
    <3>2. Class(x) \in Nat /\ Class(vec) \in Nat
      <4>1. x \in Nat /\ vec \in Nat
        BY <2>2, SMTT(30) DEF Vectors
      <4> QED
        BY <4>1, ClassFacts
    <3> QED
      BY <2>2, <3>1, <3>2, SMTT(30)
  <2>5. vec \notin a.isr
    <3>1. Class(vec) \in Nat
      BY ClassFacts, SMTT(30) DEF Vectors
    <3> QED
      BY <2>4, <3>1, SMTT(30)
  <2>6. Cardinality(a.isr \union {vec}) = Cardinality(a.isr) + 1
    BY <2>2, <2>5, FiniteVectors, FS_AddElement
  <2>7. b.isr_count = Cardinality(b.isr)
    BY <1>2, <1>5, <1>6, <2>1, <2>5, <2>6 DEF Booked
  <2>8. b.irr_pending = (b.irr # {})
    BY <1>6
  <2>9. \A p \in b.nested : p[1] \in b.isr /\ p[2] \in b.isr /\ Class(p[1]) < Class(p[2])
    <3> TAKE p \in b.nested
    <3>1. p \in a.nested \/ (p[1] \in a.isr /\ p[2] = vec)
      BY <1>2, <1>5, <1>6, <2>5, SMTT(30)
    <3>2. b.isr = a.isr \union {vec}
      BY <1>2, <1>5, <1>6, <2>5
    <3> QED
      BY <2>1, <2>4, <3>1, <3>2 DEF Booked
  <2> QED
    BY <2>7, <2>8, <2>9 DEF Booked
<1>10. b.state = a.state
  BY <1>2, <1>5, <1>6
<1> QED
  BY <1>1, <1>7, <1>8, <1>9, <1>10 DEF Nested

\* The end of an interrupt: a vector leaves ISR.
LEMMA ClearIsr ==
    ASSUME NEW a, IsApic(a), NEW vec
    PROVE  LET b == apic_clear_isr(a, vec) IN
           /\ IsApic(b) /\ b.state = a.state /\ b.irr = a.irr /\ b.irr_pending = a.irr_pending
           /\ b.ppr = a.ppr /\ b.lvt0 = a.lvt0 /\ b.sw_enabled = a.sw_enabled
           /\ Booked(a) => Booked(b)
<1> DEFINE b == apic_clear_isr(a, vec)
<1>1. /\ DOMAIN b = DOMAIN a /\ b.irr = a.irr /\ b.irr_pending = a.irr_pending
      /\ b.ppr = a.ppr /\ b.tpr = a.tpr /\ b.lvt0 = a.lvt0 /\ b.state = a.state
      /\ b.sw_enabled = a.sw_enabled
      /\ vec \notin a.isr => b = a
      /\ vec \in a.isr => /\ b.isr = a.isr \ {vec} /\ b.isr_count = a.isr_count - 1
                          /\ b.nested = {p \in a.nested : p[1] # vec /\ p[2] # vec}
  BY DEF apic_clear_isr, IsApic
<1> HIDE DEF b
<1>2. IsApic(b)
  BY <1>1, SMTT(30) DEF IsApic
<1>3. ASSUME Booked(a), vec \in a.isr
      PROVE  Booked(b)
  <2>1. Cardinality(a.isr \ {vec}) = Cardinality(a.isr) - 1
    BY <1>3, FiniteVectors, FS_RemoveElement DEF IsApic
  <2> QED
    BY <1>1, <1>3, <2>1 DEF Booked
<1> QED
  BY <1>1, <1>2, <1>3 DEF b

(***************************************************************************)
(* Injection                                                               *)
(***************************************************************************)
\* What the interrupt code leaves alone.
Quiet(v, w) ==
    /\ SameCache(v, w) /\ w.run = v.run /\ w.failed = v.failed
    /\ w.gs.cr = v.gs.cr /\ w.gs.cr3_exiting = v.gs.cr3_exiting
    /\ w.gs.in_exit = v.gs.in_exit

(* The invariant of the vcpu while the VMM works on it: with interrupts    *)
(* enabled the 8259s have their vectors.                                   *)
VcpuInv(v, pulse) ==
    /\ CacheOk(v) /\ PicInv(v.pic, pulse) /\ IsApic(v.apic)
    /\ Eff(v, "rflags") => BasesSet(v.pic)

\* An interrupt that can be delivered does not go unnoticed.
Noticed(v) == vm_apic_has_interrupt(v) >= 0 => ~v.gs.halt /\ v.gs.window

\* From v to w the interrupt code has worked on the vcpu.
Stayed(v, w, pulse) ==
    /\ VcpuInv(w, pulse) /\ Quiet(v, w) /\ (w.gs.halt => v.gs.halt)
    /\ w.apic.state = v.apic.state
Worked(v, w, pulse) == Stayed(v, w, pulse) /\ (Nested(v.apic) => Nested(w.apic))

\* A step that leaves the hardware and the cached fields alone.
LEMMA CacheFrame ==
    ASSUME NEW v, CacheOk(v), NEW w, DOMAIN w = DOMAIN v, w.hw = v.hw,
           DOMAIN w.gs = DOMAIN v.gs, w.gs.machine = v.gs.machine
    PROVE  SameCache(v, w)
BY DEF SameCache, CacheOk, IsVcpu, Dirty, Eff

\* Steps that keep the cache compose.
LEMMA SameCacheTrans ==
    ASSUME NEW u, NEW v, NEW w, SameCache(u, v), SameCache(v, w)
    PROVE  SameCache(u, w)
BY DEF SameCache

\* Steps of the injection compose.
LEMMA WorkedTrans ==
    ASSUME NEW pulse, NEW u, NEW v, NEW w, Worked(u, v, pulse), Worked(v, w, pulse)
    PROVE  Worked(u, w, pulse)
BY SameCacheTrans DEF Worked, Stayed, Quiet

\* The flags of the guest state change, the cache and the controllers do not.
LEMMA FlagsWorked ==
    ASSUME NEW pulse, NEW v, VcpuInv(v, pulse), NEW w, DOMAIN w = DOMAIN v, w.hw = v.hw,
           DOMAIN w.gs = DOMAIN v.gs, w.gs.machine = v.gs.machine,
           w.pic = v.pic, w.apic = v.apic, w.run = v.run, w.failed = v.failed,
           w.gs.cr = v.gs.cr, w.gs.cr3_exiting = v.gs.cr3_exiting, w.gs.in_exit = v.gs.in_exit,
           w.gs.halt => v.gs.halt
    PROVE  Worked(v, w, pulse) /\ vm_apic_has_interrupt(w) = vm_apic_has_interrupt(v)
<1>1. CacheOk(v)
  BY DEF VcpuInv
<1>2. SameCache(v, w)
  BY <1>1, CacheFrame
<1>3. "rflags" \in Fields
  BY DEF Fields
<1>4. VcpuInv(w, pulse)
  BY <1>2, <1>3 DEF VcpuInv, SameCache
<1> QED
  BY <1>2, <1>4, HasDepends DEF Worked, Stayed, Quiet

\* Nothing but the cache changes, and that only by reads and write-backs.
LEMMA CacheWorked ==
    ASSUME NEW pulse, NEW v, VcpuInv(v, pulse), NEW w, SameRest(v, w), SameCache(v, w)
    PROVE  Worked(v, w, pulse) /\ vm_apic_has_interrupt(w) = vm_apic_has_interrupt(v)
<1>3. "rflags" \in Fields
  BY DEF Fields
<1>4. VcpuInv(w, pulse)
  BY <1>3 DEF VcpuInv, SameCache, SameRest
<1> QED
  BY <1>4, HasDepends DEF Worked, Stayed, Quiet, SameRest

\* Asking for an interrupt window changes nothing else.
LEMMA WaitForGuestReady ==
    ASSUME NEW pulse, NEW v, VcpuInv(v, pulse)
    PROVE  LET w == wait_for_guest_ready(v) IN
           /\ Worked(v, w, pulse) /\ vm_apic_has_interrupt(w) = vm_apic_has_interrupt(v)
           /\ w.gs.window = TRUE /\ w.gs.halt = v.gs.halt /\ w.gs.entry = v.gs.entry
           /\ w.apic = v.apic
<1> DEFINE w == wait_for_guest_ready(v)
<1>1. /\ DOMAIN w = DOMAIN v /\ w.hw = v.hw /\ DOMAIN w.gs = DOMAIN v.gs
      /\ w.gs.machine = v.gs.machine /\ w.pic = v.pic /\ w.apic = v.apic /\ w.run = v.run
      /\ w.failed = v.failed /\ w.gs.cr = v.gs.cr /\ w.gs.cr3_exiting = v.gs.cr3_exiting
      /\ w.gs.in_exit = v.gs.in_exit /\ w.gs.window = TRUE /\ w.gs.halt = v.gs.halt
      /\ w.gs.entry = v.gs.entry
  BY DEF wait_for_guest_ready, VcpuInv, CacheOk, IsVcpu
<1> HIDE DEF w
<1> QED
  BY <1>1, FlagsWorked DEF w

\* resume_guest withdraws the request for a window and changes nothing else.
LEMMA ResumeGuest ==
    ASSUME NEW pulse, NEW v, VcpuInv(v, pulse)
    PROVE  LET w == resume_guest(v) IN
           /\ Worked(v, w, pulse) /\ vm_apic_has_interrupt(w) = vm_apic_has_interrupt(v)
           /\ w.gs.halt = v.gs.halt /\ w.apic = v.apic
<1> DEFINE w == resume_guest(v)
<1>1. /\ DOMAIN w = DOMAIN v /\ w.hw = v.hw /\ DOMAIN w.gs = DOMAIN v.gs
      /\ w.gs.machine = v.gs.machine /\ w.pic = v.pic /\ w.apic = v.apic /\ w.run = v.run
      /\ w.failed = v.failed /\ w.gs.cr = v.gs.cr /\ w.gs.cr3_exiting = v.gs.cr3_exiting
      /\ w.gs.in_exit = v.gs.in_exit /\ w.gs.halt = v.gs.halt
  BY DEF resume_guest, VcpuInv, CacheOk, IsVcpu
<1> HIDE DEF w
<1> QED
  BY <1>1, FlagsWorked DEF w

Unhalted(v) == [v EXCEPT !.gs.halt = FALSE]

\* Waking a halted vcpu changes nothing else.
LEMMA HaltCleared ==
    ASSUME NEW pulse, NEW v, VcpuInv(v, pulse)
    PROVE  LET w == Unhalted(v) IN
           /\ Worked(v, w, pulse) /\ vm_apic_has_interrupt(w) = vm_apic_has_interrupt(v)
           /\ w.gs.window = v.gs.window /\ ~w.gs.halt /\ w.apic = v.apic
<1> DEFINE w == Unhalted(v)
<1>1. /\ DOMAIN w = DOMAIN v /\ w.hw = v.hw /\ DOMAIN w.gs = DOMAIN v.gs
      /\ w.gs.machine = v.gs.machine /\ w.pic = v.pic /\ w.apic = v.apic /\ w.run = v.run
      /\ w.failed = v.failed /\ w.gs.cr = v.gs.cr /\ w.gs.cr3_exiting = v.gs.cr3_exiting
      /\ w.gs.in_exit = v.gs.in_exit /\ w.gs.window = v.gs.window /\ ~w.gs.halt
  BY DEF Unhalted, VcpuInv, CacheOk, IsVcpu
<1> HIDE DEF w
<1> QED
  BY <1>1, FlagsWorked DEF w

\* A vector above the exceptions' range is injected without a complaint.
LEMMA InjectIrq ==
    ASSUME NEW pulse, NEW v, VcpuInv(v, pulse), NEW irq \in Int, irq >= 16
    PROVE  LET w == inject_irq(v, irq) IN
           /\ Worked(v, w, pulse) /\ vm_apic_has_interrupt(w) = vm_apic_has_interrupt(v)
           /\ w.gs.window = v.gs.window /\ w.gs.halt = v.gs.halt /\ w.apic = v.apic
<1> DEFINE w == [v EXCEPT !.gs.entry = irq]
<1>1. /\ DOMAIN w = DOMAIN v /\ w.hw = v.hw /\ DOMAIN w.gs = DOMAIN v.gs
      /\ w.gs.machine = v.gs.machine /\ w.pic = v.pic /\ w.apic = v.apic /\ w.run = v.run
      /\ w.failed = v.failed /\ w.gs.cr = v.gs.cr /\ w.gs.cr3_exiting = v.gs.cr3_exiting
      /\ w.gs.in_exit = v.gs.in_exit /\ w.gs.window = v.gs.window /\ w.gs.halt = v.gs.halt
  BY SMTT(30) DEF VcpuInv, CacheOk, IsVcpu
<1>2. inject_irq(v, irq) = w
  BY DEF inject_irq
<1> HIDE DEF w
<1> QED
  BY <1>1, <1>2, FlagsWorked

\* With vectors in the 8259s an interrupt that is there is fetched with a usable vector.
LEMMA GetInterrupt ==
    ASSUME NEW pulse, NEW v, VcpuInv(v, pulse), BasesSet(v.pic), vm_apic_has_interrupt(v) >= 0
    PROVE  LET got == vm_apic_get_interrupt(v) IN
           /\ Worked(v, got.v, pulse) /\ got.v.gs = v.gs
           /\ got.vector \in Int /\ got.vector >= 16
<1> DEFINE has == vm_apic_has_interrupt(v)
           got == vm_apic_get_interrupt(v)
<1>1. CacheOk(v) /\ PicInv(v.pic, pulse) /\ IsApic(v.apic) /\ "rflags" \in Fields
  BY DEF VcpuInv, Fields
<1>2. /\ has \in Vectors \union {1}
      /\ has = 1 => i8259_has_interrupt(v.pic)
      /\ has \in Vectors => has \in v.apic.irr /\ Class(has) > v.apic.ppr
  BY <1>1, HasInterrupt, SMTT(30)
<1> HIDE DEF has
<1>3. CASE has = 1
  <2> DEFINE read == i8259_read_irq(v.pic)
             w == [v EXCEPT !.pic = read.pic]
  <2>1. got = [v |-> w, vector |-> read.vector]
    BY <1>2, <1>3, SMTT(30) DEF vm_apic_get_interrupt, GetFromPic, i8259_get_interrupt, has
  <2>2. /\ PicInv(read.pic, pulse) /\ SameBases(v.pic, read.pic)
        /\ read.vector \in Int /\ read.vector >= 16
    BY <1>1, ReadIrq
  <2> HIDE DEF read
  <2>3. /\ DOMAIN w = DOMAIN v /\ w.hw = v.hw /\ w.gs = v.gs /\ w.pic = read.pic
        /\ w.apic = v.apic /\ w.run = v.run /\ w.failed = v.failed
    BY <1>1 DEF CacheOk, IsVcpu
  <2> HIDE DEF w
  <2>4. SameCache(v, w)
    BY <1>1, <2>3, CacheFrame
  <2>5. VcpuInv(w, pulse)
    BY <1>1, <2>2, <2>3, <2>4 DEF VcpuInv, SameCache, SameBases, BasesSet
  <2>6. Worked(v, w, pulse)
    BY <2>3, <2>4, <2>5 DEF Worked, Stayed, Quiet
  <2> QED
    BY <2>1, <2>2, <2>3, <2>6, SMTT(30)
<1>4. CASE has \in Vectors
  <2> DEFINE b == Serve(apic_set_isr(v.apic, has), has)
             w == [v EXCEPT !.apic = b]
  <2>1. has # 1 /\ has # -1 /\ has \in Int /\ has >= 16
    BY <1>4, SMTT(30) DEF Vectors
  <2>2. got = [v |-> w, vector |-> has]
    BY <2>1 DEF vm_apic_get_interrupt, GetVector, has
  <2>3. IsApic(b) /\ b.state = v.apic.state /\ (Nested(v.apic) => Nested(b))
    BY <1>1, <1>2, <1>4, ServeNests
  <2> HIDE DEF b
  <2>4. /\ DOMAIN w = DOMAIN v /\ w.hw = v.hw /\ w.gs = v.gs /\ w.pic = v.pic
        /\ w.apic = b /\ w.run = v.run /\ w.failed = v.failed
    BY <1>1 DEF CacheOk, IsVcpu
  <2> HIDE DEF w
  <2>5. SameCache(v, w)
    BY <1>1, <2>4, CacheFrame
  <2>6. VcpuInv(w, pulse)
    BY <1>1, <2>3, <2>4, <2>5 DEF VcpuInv, SameCache
  <2>7. Worked(v, w, pulse)
    BY <2>3, <2>4, <2>5, <2>6 DEF Worked, Stayed, Quiet
  <2> QED
    BY <2>1, <2>2, <2>4, <2>7, SMTT(30)
<1> QED
  BY <1>2, <1>3, <1>4

\* Doing nothing is a step of the injection.
LEMMA WorkedRefl ==
    ASSUME NEW pulse, NEW v, VcpuInv(v, pulse)
    PROVE  Worked(v, v, pulse)
BY DEF Worked, Stayed, Quiet, SameCache, VcpuInv

\* can_inject decides by the interrupt flag and the blocking by STI.
LEMMA CanInject ==
    ASSUME NEW pulse, NEW v, VcpuInv(v, pulse)
    PROVE  can_inject(v) <=> Eff(v, "rflags") /\ ~Eff(v, "guest_interruptibility")
                             /\ v.gs.entry = 0
<1>1. "rflags" \in Fields /\ "guest_interruptibility" \in Fields
  BY DEF Fields
<1>2. Value(v, "rflags") = Eff(v, "rflags")
      /\ Value(v, "guest_interruptibility") = Eff(v, "guest_interruptibility")
  BY <1>1, ReadKeeps DEF VcpuInv
<1> QED
  BY <1>2 DEF can_inject

\* Reading what decides an injection changes nothing the guest sees.
LEMMA InjectionStateWorked ==
    ASSUME NEW pulse, NEW v, VcpuInv(v, pulse)
    PROVE  LET w == InjectionState(v) IN
           /\ Worked(v, w, pulse) /\ vm_apic_has_interrupt(w) = vm_apic_has_interrupt(v)
           /\ w.gs.window = v.gs.window /\ w.gs.halt = v.gs.halt /\ w.gs.entry = v.gs.entry
           /\ w.apic = v.apic
<1> DEFINE u == Read(v, "rflags")
           w == Read(u, "guest_interruptibility")
<1>1. "rflags" \in Fields /\ "guest_interruptibility" \in Fields
  BY SMTT(30) DEF Fields
<1>2. SameRest(v, u) /\ SameCache(v, u)
  BY <1>1, ReadKeeps DEF VcpuInv
<1>3. Worked(v, u, pulse) /\ vm_apic_has_interrupt(u) = vm_apic_has_interrupt(v)
  BY <1>2, CacheWorked
<1> HIDE DEF u
<1>4. SameRest(u, w) /\ SameCache(u, w)
  BY <1>1, <1>3, ReadKeeps DEF VcpuInv, Worked, Stayed
<1>5. Worked(u, w, pulse) /\ vm_apic_has_interrupt(w) = vm_apic_has_interrupt(u)
  BY <1>3, <1>4, CacheWorked DEF Worked, Stayed
<1>6. InjectionState(v) = w
  BY DEF InjectionState, u
<1> HIDE DEF w
<1>7. Worked(v, w, pulse)
  BY <1>3, <1>5, WorkedTrans
<1> QED
  BY <1>2, <1>3, <1>4, <1>5, <1>6, <1>7 DEF SameRest

\* "See if there are more."
LEMMA InjectGotNoticed ==
    ASSUME NEW pulse, NEW v, VcpuInv(v, pulse), BasesSet(v.pic), vm_apic_has_interrupt(v) >= 0,
           ~v.gs.halt
    PROVE  LET w == InjectGot(vm_apic_get_interrupt(v)) IN Worked(v, w, pulse) /\ Noticed(w)
<1> DEFINE got == vm_apic_get_interrupt(v)
           u == inject_irq(got.v, got.vector)
           w == AwaitMore(u)
<1>1. /\ Worked(v, got.v, pulse) /\ got.v.gs = v.gs
      /\ got.vector \in Int /\ got.vector >= 16
  BY GetInterrupt
<1> HIDE DEF got
<1>2. VcpuInv(got.v, pulse)
  BY <1>1 DEF Worked, Stayed
<1>3. Worked(got.v, u, pulse) /\ ~u.gs.halt
  BY <1>1, <1>2, InjectIrq, SMTT(30)
<1> HIDE DEF u
<1>4. Worked(v, u, pulse) /\ VcpuInv(u, pulse)
  BY <1>1, <1>3, WorkedTrans DEF Worked, Stayed
<1>5. CASE vm_apic_has_interrupt(u) >= 0
  <2> DEFINE x == wait_for_guest_ready(u)
  <2>1. w = x
    BY <1>5 DEF AwaitMore
  <2>2. Worked(u, x, pulse) /\ x.gs.window = TRUE /\ x.gs.halt = u.gs.halt
    BY <1>4, WaitForGuestReady
  <2> HIDE DEF x
  <2>3. Worked(v, x, pulse)
    BY <1>4, <2>2, WorkedTrans
  <2> QED
    BY <1>3, <2>1, <2>2, <2>3 DEF Noticed, InjectGot, u, got
<1>6. CASE ~ (vm_apic_has_interrupt(u) >= 0)
  <2>1. w = u
    BY <1>6 DEF AwaitMore
  <2> QED
    BY <1>4, <1>6, <2>1 DEF Noticed, InjectGot, u, got
<1> QED
  BY <1>5, <1>6

\* After vm_vcpu_accept_interrupt nothing deliverable is unnoticed, whatever came before.
LEMMA AcceptNoticed ==
    ASSUME NEW pulse, NEW v, VcpuInv(v, pulse)
    PROVE  LET w == vm_vcpu_accept_interrupt(v) IN Worked(v, w, pulse) /\ Noticed(w)
<1> DEFINE has == vm_apic_has_interrupt(v)
           u == InjectionState(v)
<1>1. has \in Vectors \union {-1, 1}
  BY HasInterrupt DEF VcpuInv
<1>2. CASE has = -1
  <2>1. vm_vcpu_accept_interrupt(v) = v
    BY <1>2 DEF vm_vcpu_accept_interrupt
  <2>2. Noticed(v)
    BY <1>2, SMTT(30) DEF Noticed
  <2> QED
    BY <2>1, <2>2, WorkedRefl
<1>3. CASE has # -1
  <2>1. has >= 0
    BY <1>1, <1>3, SMTT(30) DEF Vectors
  <2>2. vm_vcpu_accept_interrupt(v) = InjectOrWait(u)
    BY <1>3, <2>1 DEF vm_vcpu_accept_interrupt, vm_have_pending_interrupt
  <2>3. /\ Worked(v, u, pulse) /\ vm_apic_has_interrupt(u) = has
        /\ u.gs.window = v.gs.window /\ u.gs.halt = v.gs.halt /\ u.gs.entry = v.gs.entry
    BY InjectionStateWorked
  <2> HIDE DEF has, u
  <2>4. VcpuInv(u, pulse)
    BY <2>3 DEF Worked, Stayed
  <2>5. CASE u.gs.halt \/ ~can_inject(u)
    <3> DEFINE x == wait_for_guest_ready(u)
               w == Unhalted(x)
    <3>1. InjectOrWait(u) = w
      BY <2>5 DEF InjectOrWait, Unhalted
    <3>2. Worked(u, x, pulse) /\ x.gs.window = TRUE
      BY <2>4, WaitForGuestReady
    <3> HIDE DEF x
    <3>3. VcpuInv(x, pulse)
      BY <3>2 DEF Worked, Stayed
    <3>4. Worked(x, w, pulse) /\ w.gs.window = x.gs.window /\ ~w.gs.halt
      BY <3>3, HaltCleared
    <3> HIDE DEF w
    <3>5. Worked(v, w, pulse)
      BY <2>3, <3>2, <3>4, WorkedTrans
    <3> QED
      BY <2>2, <3>1, <3>2, <3>4, <3>5 DEF Noticed
  <2>6. CASE ~ (u.gs.halt \/ ~can_inject(u))
    <3>1. BasesSet(u.pic) /\ ~u.gs.halt
      BY <2>4, <2>6, CanInject DEF VcpuInv
    <3>2. InjectOrWait(u) = InjectGot(vm_apic_get_interrupt(u))
      BY <2>6 DEF InjectOrWait
    <3> DEFINE w == InjectGot(vm_apic_get_interrupt(u))
    <3>3. Worked(u, w, pulse) /\ Noticed(w)
      BY <2>1, <2>3, <2>4, <3>1, InjectGotNoticed
    <3> HIDE DEF w
    <3>4. Worked(v, w, pulse)
      BY <2>3, <3>3, WorkedTrans
    <3> QED
      BY <2>2, <3>2, <3>3, <3>4 DEF w
  <2> QED
    BY <2>5, <2>6
<1> QED
  BY <1>2, <1>3

(* The check after every handler.  What it finds unnoticed can only be an  *)
(* interrupt of the 8259s, which it then takes up.                         *)
LEMMA CheckExternal ==
    ASSUME NEW pulse, NEW v, VcpuInv(v, pulse), Noticed(v) \/ vm_apic_accept_pic_intr(v.apic)
    PROVE  LET w == vm_check_external_interrupt(v) IN Worked(v, w, pulse) /\ Noticed(w)
BY AcceptNoticed, WorkedRefl DEF vm_check_external_interrupt

\* The exit on an open window, which the VMM has asked for.
LEMMA PendingHandler ==
    ASSUME NEW pulse, NEW v, VcpuInv(v, pulse), Eff(v, "rflags"),
           ~Eff(v, "guest_interruptibility"), v.gs.entry = 0, v.gs.window
    PROVE  LET w == vm_pending_interrupt_handler(v) IN Worked(v, w, pulse) /\ Noticed(w)
<1> DEFINE u == InjectionState(v)
           got == vm_apic_get_interrupt(u)
<1>1. vm_pending_interrupt_handler(v) = InjectPending(got)
  BY CanInject DEF vm_pending_interrupt_handler
<1>2. /\ Worked(v, u, pulse) /\ vm_apic_has_interrupt(u) = vm_apic_has_interrupt(v)
      /\ u.gs.window = v.gs.window
  BY InjectionStateWorked
<1> HIDE DEF u
<1>3. VcpuInv(u, pulse)
  BY <1>2 DEF Worked, Stayed
<1>4. "rflags" \in Fields
  BY DEF Fields
<1>5. BasesSet(u.pic)
  BY <1>2, <1>3, <1>4 DEF VcpuInv, Worked, Stayed, Quiet, SameCache
<1>6. vm_apic_has_interrupt(u) \in Vectors \union {-1, 1}
  BY <1>3, HasInterrupt DEF VcpuInv
<1>7. CASE vm_apic_has_interrupt(u) = -1
  <2> DEFINE x == resume_guest(u)
  <2>1. got = [v |-> u, vector |-> -1]
    BY <1>7, SMTT(30) DEF vm_apic_get_interrupt
  <2>2. InjectPending(got) = x
    BY <2>1, SMTT(30) DEF InjectPending
  <2>3. Worked(u, x, pulse) /\ vm_apic_has_interrupt(x) = -1
    BY <1>3, <1>7, ResumeGuest
  <2> HIDE DEF x, got
  <2>4. Noticed(x)
    BY <2>3, SMTT(30) DEF Noticed
  <2>5. Worked(v, x, pulse)
    BY <1>2, <2>3, WorkedTrans
  <2> QED
    BY <1>1, <2>2, <2>4, <2>5
<1>8. CASE vm_apic_has_interrupt(u) # -1
  <2>1. vm_apic_has_interrupt(u) >= 0
    BY <1>6, <1>8, SMTT(30) DEF Vectors
  <2>2. /\ Worked(u, got.v, pulse) /\ got.v.gs = u.gs
        /\ got.vector \in Int /\ got.vector >= 16
    BY <1>3, <1>5, <2>1, GetInterrupt
  <2> HIDE DEF got
  <2> DEFINE i == inject_irq(got.v, got.vector)
             c == CloseUnlessMore(i)
             w == Unhalted(c)
  <2>3. got.vector # -1
    BY <2>2, SMTT(30)
  <2>4. InjectPending(got) = w
    BY <2>3 DEF InjectPending, Unhalted
  <2>5. VcpuInv(got.v, pulse)
    BY <2>2 DEF Worked, Stayed
  <2>6. Worked(got.v, i, pulse) /\ i.gs.window = got.v.gs.window
    BY <2>2, <2>5, InjectIrq
  <2> HIDE DEF i
  <2>7. VcpuInv(i, pulse) /\ i.gs.window = v.gs.window
    BY <1>2, <2>2, <2>6 DEF Worked, Stayed
  <2>8. Worked(i, c, pulse) /\ (vm_apic_has_interrupt(c) >= 0 => c.gs.window)
    <3>1. CASE vm_apic_has_interrupt(i) >= 0
      BY <2>7, <3>1, WorkedRefl DEF CloseUnlessMore
    <3>2. CASE ~ (vm_apic_has_interrupt(i) >= 0)
      <4> DEFINE x == resume_guest(i)
      <4>1. c = x
        BY <3>2 DEF CloseUnlessMore
      <4>2. Worked(i, x, pulse) /\ vm_apic_has_interrupt(x) = vm_apic_has_interrupt(i)
        BY <2>7, ResumeGuest
      <4> QED
        BY <3>2, <4>1, <4>2
    <3> QED
      BY <3>1, <3>2
  <2> HIDE DEF c
  <2>9. VcpuInv(c, pulse)
    BY <2>8 DEF Worked, Stayed
  <2>10. /\ Worked(c, w, pulse) /\ vm_apic_has_interrupt(w) = vm_apic_has_interrupt(c)
         /\ w.gs.window = c.gs.window /\ ~w.gs.halt
    BY <2>9, HaltCleared
  <2> HIDE DEF w
  <2>11. Noticed(w)
    BY <2>8, <2>10 DEF Noticed
  <2>12. Worked(v, i, pulse)
    BY <1>2, <2>2, <2>6, WorkedTrans
  <2>13. Worked(v, w, pulse)
    BY <2>8, <2>10, <2>12, WorkedTrans
  <2> QED
    BY <1>1, <2>4, <2>11, <2>13, SMTT(30)
<1> QED
  BY <1>7, <1>8

(***************************************************************************)
(* Writes to the local APIC                                                *)
(***************************************************************************)
WithApic(v, a) == [v EXCEPT !.apic = a]

\* A vcpu whose local APIC changes.
LEMMA ApicChanged ==
    ASSUME NEW pulse, NEW v, VcpuInv(v, pulse), NEW a, IsApic(a)
    PROVE  LET w == WithApic(v, a) IN
           /\ VcpuInv(w, pulse) /\ Quiet(v, w) /\ w.apic = a /\ w.gs = v.gs /\ w.pic = v.pic
           /\ a.state = v.apic.state => Stayed(v, w, pulse)
<1> DEFINE w == WithApic(v, a)
<1>1. CacheOk(v) /\ "rflags" \in Fields
  BY DEF VcpuInv, Fields
<1>2. /\ DOMAIN w = DOMAIN v /\ w.hw = v.hw /\ w.gs = v.gs /\ w.pic = v.pic
      /\ w.apic = a /\ w.run = v.run /\ w.failed = v.failed
  BY <1>1 DEF WithApic, CacheOk, IsVcpu
<1> HIDE DEF w
<1>3. SameCache(v, w)
  BY <1>1, <1>2, CacheFrame
<1>4. VcpuInv(w, pulse) /\ Quiet(v, w)
  BY <1>1, <1>2, <1>3 DEF VcpuInv, SameCache, Quiet
<1> QED
  BY <1>2, <1>4 DEF w, Stayed

(* Unless IRR grows or the priority falls, an interrupt left unnoticed is  *)
(* one of the 8259s, and is let through by the LVT0 entry.                 *)
LEMMA NoticedOrAccepts ==
    ASSUME NEW v, IsApic(v.apic), NEW w, IsApic(w.apic), Noticed(v), w.gs.halt = v.gs.halt,
           w.gs.window = v.gs.window, w.apic.irr = v.apic.irr,
           w.apic.irr_pending = v.apic.irr_pending, w.apic.ppr >= v.apic.ppr
    PROVE  Noticed(w) \/ (vm_apic_accept_pic_intr(w.apic) /\ i8259_has_interrupt(w.pic))
<1> DEFINE top == apic_find_highest_irr(v.apic)
<1>1. v.apic.irr \subseteq Vectors /\ v.apic.ppr \in Nat /\ w.apic.ppr \in Nat
  BY DEF IsApic
<1>2. top = -1 \/ top \in Vectors
  BY <1>1, HighestOf DEF apic_find_highest_irr
<1>3. apic_find_highest_irr(w.apic) = top
  BY DEF apic_find_highest_irr
<1> HIDE DEF top
<1>4. top \in Vectors => Class(top) \in Nat /\ top >= 0
  BY ClassFacts, SMTT(30) DEF Vectors
<1> SUFFICES ASSUME ~ (vm_apic_accept_pic_intr(w.apic) /\ i8259_has_interrupt(w.pic)),
                    vm_apic_has_interrupt(w) >= 0
             PROVE  vm_apic_has_interrupt(v) >= 0
  BY DEF Noticed
<1>5. vm_apic_has_interrupt(w) = IF top = -1 \/ Class(top) <= w.apic.ppr THEN -1 ELSE top
  BY <1>3 DEF vm_apic_has_interrupt
<1>6. top # -1 /\ ~ (Class(top) <= w.apic.ppr)
  BY <1>5, SMTT(30)
<1>7. ~ (Class(top) <= v.apic.ppr)
  BY <1>1, <1>2, <1>4, <1>6, SMTT(30)
<1>8. vm_apic_has_interrupt(v) \in {1, top}
  BY <1>6, <1>7 DEF vm_apic_has_interrupt, top
<1> QED
  BY <1>2, <1>4, <1>6, <1>8, SMTT(30)

\* What is noticed stays so while the priority does not drop and no request is new.
LEMMA NoticedKept ==
    ASSUME NEW v, IsApic(v.apic), NEW w, IsApic(w.apic), Noticed(v), w.gs.halt = v.gs.halt,
           w.gs.window = v.gs.window, w.apic.irr = v.apic.irr,
           w.apic.irr_pending = v.apic.irr_pending, w.apic.ppr >= v.apic.ppr,
           w.apic.lvt0 = v.apic.lvt0, w.apic.sw_enabled = v.apic.sw_enabled, w.pic = v.pic
    PROVE  Noticed(w)
<1>1. vm_apic_accept_pic_intr(w.apic) /\ i8259_has_interrupt(w.pic)
        => vm_apic_has_interrupt(v) = 1
  BY DEF vm_apic_accept_pic_intr, vm_apic_has_interrupt
<1> QED
  BY <1>1, NoticedOrAccepts, SMTT(30) DEF Noticed

\* Steps that keep the state of the local APIC compose.
LEMMA StayedTrans ==
    ASSUME NEW pulse, NEW u, NEW v, NEW w, Stayed(u, v, pulse), Stayed(v, w, pulse)
    PROVE  Stayed(u, w, pulse)
BY SameCacheTrans DEF Stayed, Quiet

\* What a write to the APIC leaves behind for the check that follows.
Wrote(v, w, pulse) ==
    /\ Stayed(v, w, pulse) /\ (Nested(v.apic) => Nested(w.apic))
    /\ Noticed(v) => Noticed(w) \/ vm_apic_accept_pic_intr(w.apic)

\* The priority is computed again, and a lower one lets a pending interrupt through.
LEMMA UpdatePpr ==
    ASSUME NEW pulse, NEW v, VcpuInv(v, pulse)
    PROVE  LET w == apic_update_ppr(v) IN
           /\ Stayed(v, w, pulse)
           /\ (v.apic.state = "new" => Booked(v.apic)) => Nested(w.apic)
           /\ Noticed(v) => Noticed(w)
<1> DEFINE a == [v.apic EXCEPT !.ppr = PprOf(v.apic)]
           u == WithApic(v, a)
           w == apic_update_ppr(v)
<1>1. IsApic(v.apic)
  BY DEF VcpuInv
<1>2. PprOf(v.apic) \in Nat
  BY <1>1, PprFacts
<1>3. w = Unmasked(u, v.apic.ppr)
  BY DEF apic_update_ppr, WithApic
<1>4. /\ IsApic(a) /\ a.state = v.apic.state /\ a.irr = v.apic.irr /\ a.isr = v.apic.isr
      /\ a.isr_count = v.apic.isr_count /\ a.irr_pending = v.apic.irr_pending
      /\ a.tpr = v.apic.tpr /\ a.nested = v.apic.nested /\ a.ppr = PprOf(v.apic)
      /\ a.lvt0 = v.apic.lvt0 /\ a.sw_enabled = v.apic.sw_enabled
  BY <1>1, <1>2 DEF IsApic
<1> HIDE DEF a
<1>5. PprOf(a) = PprOf(v.apic)
  BY <1>4, PprDepends
<1>6. /\ Stayed(v, u, pulse) /\ VcpuInv(u, pulse) /\ u.apic = a /\ u.gs = v.gs
      /\ u.pic = v.pic
  BY <1>4, ApicChanged, SMTT(30)
<1>7. (v.apic.state = "new" => Booked(v.apic)) => Nested(u.apic)
  BY <1>4, <1>5, <1>6 DEF Nested, Booked
<1> HIDE DEF u, w
<1>8. CASE u.apic.ppr < v.apic.ppr
  <2> DEFINE x == vm_vcpu_accept_interrupt(u)
  <2>1. w = x
    BY <1>3, <1>8 DEF Unmasked
  <2>2. Worked(u, x, pulse) /\ Noticed(x)
    BY <1>6, AcceptNoticed
  <2> HIDE DEF x
  <2>3. Stayed(v, x, pulse)
    BY <1>6, <2>2, SameCacheTrans DEF Worked, Stayed, Quiet
  <2> QED
    BY <1>7, <2>1, <2>2, <2>3 DEF Worked, w
<1>9. CASE ~ (u.apic.ppr < v.apic.ppr)
  <2>1. w = u
    BY <1>3, <1>9 DEF Unmasked
  <2>2. u.apic.ppr >= v.apic.ppr
    BY <1>1, <1>2, <1>4, <1>6, <1>9, SMTT(30) DEF IsApic
  <2>3. Noticed(v) => Noticed(u)
    BY <1>1, <1>4, <1>6, <2>2, NoticedKept
  <2> QED
    BY <1>6, <1>7, <2>1, <2>3 DEF w
<1> QED
  BY <1>8, <1>9

\* A new task priority is a write of a register.
LEMMA SetTpr ==
    ASSUME NEW pulse, NEW v, VcpuInv(v, pulse), NEW tpr \in Nat
    PROVE  Wrote(v, apic_set_tpr(v, tpr), pulse)
<1> DEFINE a == [v.apic EXCEPT !.tpr = tpr]
           u == WithApic(v, a)
           w == apic_update_ppr(u)
<1>1. IsApic(v.apic)
  BY DEF VcpuInv
<1>2. apic_set_tpr(v, tpr) = w
  BY DEF apic_set_tpr, WithApic
<1>3. /\ IsApic(a) /\ a.state = v.apic.state /\ a.irr = v.apic.irr /\ a.isr = v.apic.isr
      /\ a.isr_count = v.apic.isr_count /\ a.irr_pending = v.apic.irr_pending
      /\ a.nested = v.apic.nested /\ a.ppr = v.apic.ppr
      /\ a.lvt0 = v.apic.lvt0 /\ a.sw_enabled = v.apic.sw_enabled
  BY <1>1 DEF IsApic
<1> HIDE DEF a
<1>4. /\ Stayed(v, u, pulse) /\ VcpuInv(u, pulse) /\ u.apic = a /\ u.gs = v.gs
      /\ u.pic = v.pic
  BY <1>3, ApicChanged, SMTT(30)
<1>5. Nested(v.apic) => (u.apic.state = "new" => Booked(u.apic))
  BY <1>3, <1>4 DEF Nested, Booked
<1>6. v.apic.ppr \in Nat
  BY <1>1 DEF IsApic
<1>7. Noticed(v) => Noticed(u)
  BY <1>1, <1>3, <1>4, <1>6, NoticedKept, SMTT(30)
<1> HIDE DEF u
<1>8. /\ Stayed(u, w, pulse) /\ ((u.apic.state = "new" => Booked(u.apic)) => Nested(w.apic))
      /\ Noticed(u) => Noticed(w)
  BY <1>4, UpdatePpr
<1> HIDE DEF w
<1>9. Stayed(v, w, pulse)
  BY <1>4, <1>8, StayedTrans
<1> QED
  BY <1>2, <1>5, <1>7, <1>8, <1>9 DEF Wrote

\* So is the end of an interrupt.
LEMMA SetEoi ==
    ASSUME NEW pulse, NEW v, VcpuInv(v, pulse)
    PROVE  Wrote(v, apic_set_eoi(v), pulse)
<1> DEFINE vec == apic_find_highest_isr(v.apic)
           a == apic_clear_isr(v.apic, vec)
           u == WithApic(v, a)
           x == apic_update_ppr(u)
           w == vm_vcpu_accept_interrupt(x)
<1>1. IsApic(v.apic)
  BY SMTT(30) DEF VcpuInv
<1>2. apic_set_eoi(v) = IF vec = -1 THEN v ELSE w
  BY DEF apic_set_eoi, WithApic
<1> HIDE DEF vec
<1>3. /\ IsApic(a) /\ a.state = v.apic.state
      /\ Booked(v.apic) => Booked(a)
  BY <1>1, ClearIsr
<1> HIDE DEF a
<1>4. Stayed(v, u, pulse) /\ VcpuInv(u, pulse) /\ u.apic = a
  BY <1>3, ApicChanged, SMTT(30)
<1> HIDE DEF u
<1>5. Stayed(u, x, pulse) /\ ((u.apic.state = "new" => Booked(u.apic)) => Nested(x.apic))
  BY <1>4, UpdatePpr
<1> HIDE DEF x
<1>6. Worked(x, w, pulse) /\ Noticed(w)
  BY <1>5, AcceptNoticed DEF Stayed
<1> HIDE DEF w
<1>7. Stayed(v, w, pulse)
  BY <1>4, <1>5, <1>6, StayedTrans DEF Worked
<1>8. Nested(v.apic) => Nested(w.apic)
  BY <1>3, <1>4, <1>5, <1>6 DEF Nested, Worked
<1>9. Wrote(v, w, pulse)
  BY <1>6, <1>7, <1>8 DEF Wrote
<1>10. Wrote(v, v, pulse)
  BY WorkedRefl DEF Worked, Wrote
<1> QED
  BY <1>2, <1>9, <1>10

\* The vcpu that a handler is called for, and what it may leave to the rest of the turn.
Handling(v, pulse) ==
    /\ VcpuInv(v, pulse) /\ v.failed = {} /\ Nested(v.apic) /\ v.gs.in_exit
    /\ v.run = "running" /\ Noticed(v)
Ready(w, pulse) ==
    /\ VcpuInv(w, pulse) /\ w.failed = {} /\ Nested(w.apic) /\ w.gs.in_exit
    /\ \/ w.run = "aborted"
       \/ w.run = "running" /\ (Noticed(w) \/ vm_apic_accept_pic_intr(w.apic))

\* What the guest sees of its control registers has not changed.
SameCr(v, w) ==
    /\ w.gs.cr = v.gs.cr /\ w.gs.cr3_exiting = v.gs.cr3_exiting
    /\ \A f \in {"cr0", "cr3", "cr4"} : Eff(w, f) = Eff(v, f)
Handled(v, w, pulse) == Ready(w, pulse) /\ SameCr(v, w)

\* A step that is quiet leaves the control registers alone.
LEMMA QuietSameCr ==
    ASSUME NEW v, NEW w, Quiet(v, w)
    PROVE  SameCr(v, w)
BY DEF Quiet, SameCr, SameCache, Fields

\* A write to a register of the local APIC does what a handler may do.
LEMMA WroteHandled ==
    ASSUME NEW pulse, NEW v, Handling(v, pulse), NEW w, Wrote(v, w, pulse)
    PROVE  Handled(v, w, pulse)
BY QuietSameCr DEF Handling, Handled, Ready, Wrote, Stayed, Quiet

\* So does any step after which every deliverable interrupt is noticed.
LEMMA NoticedHandled ==
    ASSUME NEW pulse, NEW v, Handling(v, pulse), NEW w, Worked(v, w, pulse), Noticed(w)
    PROVE  Handled(v, w, pulse)
BY QuietSameCr DEF Handling, Handled, Ready, Worked, Stayed, Quiet

\* A handler after a step that keeps the control registers.
LEMMA HandledTrans ==
    ASSUME NEW pulse, NEW u, NEW v, NEW w, SameCr(u, v), Handled(v, w, pulse)
    PROVE  Handled(u, w, pulse)
BY DEF Handled, SameCr

\* A handler may do nothing.
LEMMA HandledRefl ==
    ASSUME NEW pulse, NEW v, Handling(v, pulse)
    PROVE  Handled(v, v, pulse)
BY DEF Handling, Handled, Ready, SameCr

\* A register that neither IRR, ISR nor the priorities depend on.
LEMMA PlainRegister ==
    ASSUME NEW pulse, NEW v, VcpuInv(v, pulse), NEW a, DOMAIN a = DOMAIN v.apic,
           DOMAIN a.lvt0 = {"masked", "mode"}, a.irr = v.apic.irr, a.isr = v.apic.isr,
           a.irr_pending = v.apic.irr_pending, a.isr_count = v.apic.isr_count,
           a.ppr = v.apic.ppr, a.tpr = v.apic.tpr, a.nested = v.apic.nested,
           a.state = v.apic.state
    PROVE  Wrote(v, WithApic(v, a), pulse)
<1> DEFINE w == WithApic(v, a)
<1>1. IsApic(v.apic)
  BY DEF VcpuInv
<1>2. IsApic(a)
  BY <1>1 DEF IsApic
<1>3. Stayed(v, w, pulse) /\ w.apic = a /\ w.gs = v.gs /\ w.pic = v.pic
  BY <1>2, ApicChanged, SMTT(30)
<1> HIDE DEF w
<1>4. PprOf(a) = PprOf(v.apic)
  BY PprDepends
<1>5. Nested(v.apic) => Nested(w.apic)
  BY <1>3, <1>4 DEF Nested, Booked
<1>6. w.apic.ppr >= v.apic.ppr
  BY <1>1, <1>3, SMTT(30) DEF IsApic
<1>7. Noticed(v) => Noticed(w) \/ vm_apic_accept_pic_intr(w.apic)
  BY <1>1, <1>2, <1>3, <1>6, NoticedOrAccepts
<1> QED
  BY <1>3, <1>5, <1>7 DEF Wrote, w

\* A fixed interrupt is requested, and taken up at once if it can be.
LEMMA SetIrr ==
    ASSUME NEW pulse, NEW v, Handling(v, pulse), NEW vec \in Vectors
    PROVE  LET u == WithApic(v, apic_set_irr(v.apic, vec))
           IN  Handled(v, vm_vcpu_accept_interrupt(u), pulse)
<1> DEFINE a == apic_set_irr(v.apic, vec)
           u == WithApic(v, a)
           w == vm_vcpu_accept_interrupt(u)
<1>1. VcpuInv(v, pulse) /\ IsApic(v.apic) /\ Nested(v.apic)
  BY DEF Handling, VcpuInv
<1>2. /\ DOMAIN a = DOMAIN v.apic /\ a.irr = v.apic.irr \union {vec} /\ a.isr = v.apic.isr
      /\ a.irr_pending = TRUE /\ a.isr_count = v.apic.isr_count /\ a.ppr = v.apic.ppr
      /\ a.tpr = v.apic.tpr /\ a.lvt0 = v.apic.lvt0 /\ a.nested = v.apic.nested
      /\ a.state = v.apic.state
  BY <1>1 DEF apic_set_irr, IsApic
<1> HIDE DEF a
<1>3. IsApic(a)
  BY <1>1, <1>2 DEF IsApic
<1>4. PprOf(a) = PprOf(v.apic)
  BY <1>2, PprDepends
<1>5. Nested(a)
  BY <1>1, <1>2, <1>4 DEF Nested, Booked
<1>6. Stayed(v, u, pulse) /\ VcpuInv(u, pulse) /\ u.apic = a
  BY <1>1, <1>2, <1>3, ApicChanged, SMTT(30)
<1> HIDE DEF u
<1>7. Worked(u, w, pulse) /\ Noticed(w)
  BY <1>6, AcceptNoticed
<1> HIDE DEF w
<1>8. Worked(v, w, pulse)
  BY <1>5, <1>6, <1>7, StayedTrans DEF Worked
<1> QED
  BY <1>7, <1>8, NoticedHandled DEF w, u, a

(* After a reset of the APIC its LVT0 entry lets the 8259s through, so     *)
(* that the check after the handler finds whatever is pending there.       *)
LEMMA LapicReset ==
    ASSUME NEW pulse, NEW v, Handling(v, pulse)
    PROVE  Handled(v, [vm_lapic_reset(v) EXCEPT !.apic.state = "waitsipi"], pulse)
<1> DEFINE cleared == 0..31 \union 128..159
           off == [masked |-> TRUE, mode |-> "fixed"]
           b == [v.apic EXCEPT !.irr = @ \ cleared, !.isr = @ \ cleared,
                           !.irr_pending = FALSE, !.isr_count = 0, !.nested = {}, !.tpr = 0]
           a == [b EXCEPT !.sw_enabled = FALSE, !.lvt0 = off,
                           !.id = 0, !.ldr = {}, !.dfr = "flat", !.icr2 = 0]
           u == WithApic(v, a)
           x == apic_update_ppr(u)
           y == [x EXCEPT !.apic.lvt0 = [masked |-> FALSE, mode |-> "extint"],
                          !.apic.sw_enabled = TRUE]
           w == [y EXCEPT !.apic.state = "waitsipi"]
<1>1. VcpuInv(v, pulse) /\ IsApic(v.apic)
  BY DEF Handling, VcpuInv
<1>2. vm_lapic_reset(v) = y
  BY DEF vm_lapic_reset, WithApic
<1> HIDE DEF cleared, off
<1>3. /\ DOMAIN b = DOMAIN v.apic /\ b.irr = v.apic.irr \ cleared /\ b.isr = v.apic.isr \ cleared
      /\ b.irr_pending = FALSE /\ b.isr_count = 0 /\ b.tpr = 0 /\ b.ppr = v.apic.ppr
      /\ b.state = v.apic.state
  BY <1>1 DEF IsApic
<1> HIDE DEF b
<1>4. /\ DOMAIN a = DOMAIN b /\ a.irr = b.irr /\ a.isr = b.isr /\ a.irr_pending = b.irr_pending
      /\ a.isr_count = b.isr_count /\ a.tpr = b.tpr /\ a.ppr = b.ppr /\ a.lvt0 = off
      /\ a.state = b.state
  BY <1>1, <1>3 DEF IsApic
<1> HIDE DEF a
<1>17. DOMAIN off = {"masked", "mode"}
  BY DEF off
<1>18. IsApic(a) /\ a.state = v.apic.state
  <2>1. a.irr_pending \in BOOLEAN
    BY <1>3, <1>4
  <2>2. a.irr \in SUBSET Vectors /\ a.isr \in SUBSET Vectors
    BY <1>1, <1>3, <1>4 DEF IsApic
  <2>3. a.isr_count \in Int /\ a.ppr \in Nat /\ a.tpr \in Nat
    BY <1>1, <1>3, <1>4, SMTT(30) DEF IsApic
  <2> QED
    BY <1>1, <1>3, <1>4, <1>17, <2>1, <2>2, <2>3 DEF IsApic
<1>5. Stayed(v, u, pulse) /\ VcpuInv(u, pulse)
  BY <1>1, <1>18, ApicChanged
<1> HIDE DEF u
<1>6. Stayed(u, x, pulse)
  BY <1>5, UpdatePpr
<1> HIDE DEF x
<1>7. Stayed(v, x, pulse) /\ VcpuInv(x, pulse) /\ IsApic(x.apic) /\ IsVcpu(x)
  BY <1>5, <1>6, StayedTrans DEF Stayed, VcpuInv, CacheOk
<1>8. /\ DOMAIN y = DOMAIN x /\ y.hw = x.hw /\ y.gs = x.gs /\ y.pic = x.pic
      /\ y.run = x.run /\ y.failed = x.failed
      /\ DOMAIN y.apic = DOMAIN x.apic /\ y.apic.irr = x.apic.irr /\ y.apic.isr = x.apic.isr
      /\ y.apic.irr_pending = x.apic.irr_pending /\ y.apic.isr_count = x.apic.isr_count
      /\ y.apic.ppr = x.apic.ppr /\ y.apic.tpr = x.apic.tpr
      /\ y.apic.lvt0 = [masked |-> FALSE, mode |-> "extint"] /\ y.apic.sw_enabled = TRUE
  BY <1>7 DEF IsVcpu, IsApic
<1> HIDE DEF y
<1>9. /\ DOMAIN w = DOMAIN x /\ w.hw = x.hw /\ w.gs = x.gs /\ w.pic = x.pic
      /\ w.run = x.run /\ w.failed = x.failed
      /\ DOMAIN w.apic = DOMAIN x.apic /\ w.apic.irr = x.apic.irr /\ w.apic.isr = x.apic.isr
      /\ w.apic.irr_pending = x.apic.irr_pending /\ w.apic.isr_count = x.apic.isr_count
      /\ w.apic.ppr = x.apic.ppr /\ w.apic.tpr = x.apic.tpr
      /\ w.apic.lvt0 = [masked |-> FALSE, mode |-> "extint"] /\ w.apic.sw_enabled = TRUE
      /\ w.apic.state = "waitsipi"
  BY <1>7, <1>8 DEF IsVcpu, IsApic
<1> HIDE DEF w
<1>10. IsApic(w.apic) /\ Nested(w.apic) /\ vm_apic_accept_pic_intr(w.apic)
  BY <1>7, <1>9, SMTT(30) DEF IsApic, Nested, vm_apic_accept_pic_intr
<1>11. SameCache(x, w)
  BY <1>7, <1>9, CacheFrame DEF VcpuInv
<1>12. "rflags" \in Fields
  BY DEF Fields
<1>13. VcpuInv(w, pulse)
  BY <1>7, <1>9, <1>10, <1>11, <1>12 DEF VcpuInv, SameCache
<1>14. Quiet(v, w)
  BY <1>7, <1>9, <1>11, SameCacheTrans DEF Quiet, Stayed
<1>15. SameCr(v, w)
  BY <1>14, QuietSameCr
<1>16. Ready(w, pulse)
  BY <1>10, <1>13, <1>14 DEF Ready, Handling, Quiet
<1> QED
  BY <1>2, <1>15, <1>16 DEF Handled, w

(***************************************************************************)
(* The local APIC's page                                                   *)
(***************************************************************************)
\* The vectors below 16 are reserved.
IsIcr(irq) == irq.mode \in {"fixed", "lowest"} => irq.vector \in Vectors

\* The vcpu changes its state but nothing else, and then the VMM aborts.
LEMMA StartAp ==
    ASSUME NEW pulse, NEW v, Handling(v, pulse)
    PROVE  Handled(v, vm_start_ap_vcpu([v EXCEPT !.apic.state = "run"]), pulse)
<1> DEFINE u == [v EXCEPT !.apic.state = "run"]
           x == SyncFields(u, {"context"})
           y == SyncFields(x, VmcsFields)
           w == [y EXCEPT !.run = "aborted"]
<1>1. VcpuInv(v, pulse) /\ IsApic(v.apic) /\ CacheOk(v) /\ IsVcpu(v)
  BY DEF Handling, VcpuInv, CacheOk
<1>2. vm_start_ap_vcpu(u) = w
  BY DEF vm_start_ap_vcpu, vm_sync_guest_vmcs_state, vm_sync_guest_context
<1>3. /\ DOMAIN u = DOMAIN v /\ u.hw = v.hw /\ u.gs = v.gs /\ u.pic = v.pic
      /\ u.run = v.run /\ u.failed = v.failed
      /\ DOMAIN u.apic = DOMAIN v.apic /\ u.apic.irr = v.apic.irr /\ u.apic.isr = v.apic.isr
      /\ u.apic.irr_pending = v.apic.irr_pending /\ u.apic.isr_count = v.apic.isr_count
      /\ u.apic.ppr = v.apic.ppr /\ u.apic.tpr = v.apic.tpr /\ u.apic.lvt0 = v.apic.lvt0
      /\ u.apic.state = "run"
  BY <1>1 DEF IsVcpu, IsApic
<1> HIDE DEF u
<1>4. IsApic(u.apic) /\ Nested(u.apic)
  BY <1>1, <1>3 DEF IsApic, Nested
<1>5. SameCache(v, u)
  BY <1>1, <1>3, CacheFrame
<1>6. CacheOk(u) /\ {"context"} \in SUBSET Fields /\ VmcsFields \in SUBSET Fields
  BY <1>5 DEF SameCache, Fields, VmcsFields
<1>7. SameRest(u, x) /\ CacheOk(x) /\ \A f \in Fields : Eff(x, f) = Eff(u, f)
  BY <1>6, SyncKeeps
<1> HIDE DEF x
<1>8. SameRest(x, y) /\ CacheOk(y) /\ \A f \in Fields : Eff(y, f) = Eff(x, f)
  BY <1>6, <1>7, SyncKeeps
<1> HIDE DEF y
<1>9. /\ DOMAIN w = DOMAIN y /\ w.hw = y.hw /\ w.gs = y.gs /\ w.pic = y.pic /\ w.apic = y.apic
      /\ w.failed = y.failed /\ w.run = "aborted"
  BY <1>8 DEF CacheOk, IsVcpu
<1> HIDE DEF w
<1>10. SameCache(y, w)
  BY <1>8, <1>9, CacheFrame
<1>11. \A f \in Fields : Eff(w, f) = Eff(v, f)
  BY <1>5, <1>7, <1>8, <1>10 DEF SameCache
<1>12. /\ w.pic = v.pic /\ w.apic = u.apic /\ w.failed = v.failed /\ w.gs.in_exit = v.gs.in_exit
       /\ w.gs.cr = v.gs.cr /\ w.gs.cr3_exiting = v.gs.cr3_exiting
  BY <1>3, <1>7, <1>8, <1>9 DEF SameRest
<1>13. CacheOk(w) /\ {"rflags", "cr0", "cr3", "cr4"} \subseteq Fields
  BY <1>10 DEF SameCache, Fields
<1>14. VcpuInv(w, pulse)
  BY <1>1, <1>4, <1>11, <1>12, <1>13 DEF VcpuInv
<1>15. SameCr(v, w)
  BY <1>11, <1>12, <1>13 DEF SameCr
<1>16. Ready(w, pulse)
  BY <1>4, <1>9, <1>12, <1>14 DEF Ready, Handling
<1> QED
  BY <1>2, <1>15, <1>16 DEF Handled, u

\* Every delivery mode of an interrupt does what a handler may do.
LEMMA AcceptIrq ==
    ASSUME NEW pulse, NEW v, Handling(v, pulse), NEW irq, IsIcr(irq)
    PROVE  Handled(v, __apic_accept_irq(v, irq), pulse)
<1> DEFINE w == __apic_accept_irq(v, irq)
<1>1. CASE irq.mode \in {"fixed", "lowest"} /\ vm_apic_enabled(v.apic)
  <2>1. w = vm_vcpu_accept_interrupt(WithApic(v, apic_set_irr(v.apic, irq.vector)))
    BY <1>1 DEF __apic_accept_irq, WithApic
  <2>2. irq.vector \in Vectors
    BY <1>1 DEF IsIcr
  <2> QED
    BY <2>1, <2>2, SetIrr
<1>2. CASE irq.mode \in {"nmi", "remrd"}
  <2>1. w = vm_vcpu_accept_interrupt(v)
    BY <1>2 DEF __apic_accept_irq
  <2> QED
    BY <2>1, AcceptNoticed, NoticedHandled DEF Handling
<1>3. CASE irq.mode = "init" /\ irq.assert /\ v.apic.state # "run"
  <2>1. w = [vm_lapic_reset(v) EXCEPT !.apic.state = "waitsipi"]
    BY <1>3 DEF __apic_accept_irq
  <2> QED
    BY <2>1, LapicReset
<1>4. CASE irq.mode = "startup" /\ v.apic.state = "waitsipi"
  <2>1. w = vm_start_ap_vcpu([v EXCEPT !.apic.state = "run"])
    BY <1>4 DEF __apic_accept_irq
  <2> QED
    BY <2>1, StartAp
<1>5. CASE irq.mode = "extint"
  <2> DEFINE x == [v EXCEPT !.run = "aborted"]
  <2>1. w = x
    BY <1>5 DEF __apic_accept_irq
  <2>2. VcpuInv(v, pulse) /\ CacheOk(v) /\ IsVcpu(v)
    BY DEF Handling, VcpuInv, CacheOk
  <2>3. /\ DOMAIN x = DOMAIN v /\ x.hw = v.hw /\ x.gs = v.gs /\ x.pic = v.pic /\ x.apic = v.apic
        /\ x.failed = v.failed /\ x.run = "aborted"
    BY <2>2 DEF IsVcpu
  <2> HIDE DEF x
  <2>4. SameCache(v, x) /\ {"rflags", "cr0", "cr3", "cr4"} \subseteq Fields
    BY <2>2, <2>3, CacheFrame DEF Fields
  <2>5. SameCr(v, x)
    BY <2>3, <2>4 DEF SameCr, SameCache
  <2>6. VcpuInv(x, pulse)
    BY <2>2, <2>3, <2>4 DEF VcpuInv, SameCache
  <2> QED
    BY <2>1, <2>3, <2>5, <2>6 DEF Handled, Ready, Handling
<1>6. CASE ~ \/ irq.mode \in {"fixed", "lowest"} /\ vm_apic_enabled(v.apic)
             \/ irq.mode \in {"nmi", "remrd"}
             \/ irq.mode = "init" /\ irq.assert /\ v.apic.state # "run"
             \/ irq.mode = "startup" /\ v.apic.state = "waitsipi"
             \/ irq.mode = "extint"
  <2>1. w = v
    BY <1>6 DEF __apic_accept_irq
  <2> QED
    BY <2>1, HandledRefl
<1> QED
  BY <1>1, <1>2, <1>3, <1>4, <1>5, <1>6

\* Every write to a register of the local APIC does.
LEMMA RegWrite ==
    ASSUME NEW pulse, NEW v, Handling(v, pulse), NEW reg, NEW val, IsApicWrite(reg, val)
    PROVE  Handled(v, apic_reg_write(v, reg, val), pulse)
<1> DEFINE w == apic_reg_write(v, reg, val)
           a == v.apic
<1>1. VcpuInv(v, pulse) /\ IsApic(v.apic)
  BY DEF Handling, VcpuInv
<1>2. CASE reg = 32
  <2> DEFINE b == [a EXCEPT !.id = val]
  <2>1. w = WithApic(v, b)
    BY <1>2, SMTT(30) DEF apic_reg_write, WithApic
  <2>2. /\ DOMAIN b = DOMAIN a /\ DOMAIN b.lvt0 = {"masked", "mode"} /\ b.irr = a.irr
        /\ b.isr = a.isr /\ b.irr_pending = a.irr_pending /\ b.isr_count = a.isr_count
        /\ b.ppr = a.ppr /\ b.tpr = a.tpr /\ b.nested = a.nested /\ b.state = a.state
    BY <1>1 DEF IsApic
  <2> HIDE DEF b
  <2> QED
    BY <1>1, <2>1, <2>2, PlainRegister, WroteHandled
<1>3. CASE reg = 128
  <2>1. w = apic_set_tpr(v, val) /\ val \in Nat
    BY <1>3, SMTT(30) DEF apic_reg_write, IsApicWrite
  <2> QED
    BY <1>1, <2>1, SetTpr, WroteHandled
<1>4. CASE reg = 176
  <2>1. w = apic_set_eoi(v)
    BY <1>4, SMTT(30) DEF apic_reg_write
  <2> QED
    BY <1>1, <2>1, SetEoi, WroteHandled
<1>5. CASE reg = 208
  <2> DEFINE b == [a EXCEPT !.ldr = Bits(val)]
  <2>1. w = WithApic(v, b)
    BY <1>5, SMTT(30) DEF apic_reg_write, WithApic
  <2>2. /\ DOMAIN b = DOMAIN a /\ DOMAIN b.lvt0 = {"masked", "mode"} /\ b.irr = a.irr
        /\ b.isr = a.isr /\ b.irr_pending = a.irr_pending /\ b.isr_count = a.isr_count
        /\ b.ppr = a.ppr /\ b.tpr = a.tpr /\ b.nested = a.nested /\ b.state = a.state
    BY <1>1 DEF IsApic
  <2> HIDE DEF b
  <2> QED
    BY <1>1, <2>1, <2>2, PlainRegister, WroteHandled, SMTT(30)
<1>6. CASE reg = 224
  <2> DEFINE b == [a EXCEPT !.dfr = val]
  <2>1. w = WithApic(v, b)
    BY <1>6, SMTT(30) DEF apic_reg_write, WithApic
  <2>2. /\ DOMAIN b = DOMAIN a /\ DOMAIN b.lvt0 = {"masked", "mode"} /\ b.irr = a.irr
        /\ b.isr = a.isr /\ b.irr_pending = a.irr_pending /\ b.isr_count = a.isr_count
        /\ b.ppr = a.ppr /\ b.tpr = a.tpr /\ b.nested = a.nested /\ b.state = a.state
    BY <1>1 DEF IsApic
  <2> HIDE DEF b
  <2> QED
    BY <1>1, <2>1, <2>2, PlainRegister, WroteHandled, SMTT(30)
<1>7. CASE reg = 240
  <2> DEFINE b == [a EXCEPT !.sw_enabled = val, !.lvt0.masked = a.lvt0.masked \/ ~val]
  <2>1. w = WithApic(v, b)
    BY <1>7, SMTT(30) DEF apic_reg_write, WithApic
  <2>2. /\ DOMAIN b = DOMAIN a /\ DOMAIN b.lvt0 = {"masked", "mode"} /\ b.irr = a.irr
        /\ b.isr = a.isr /\ b.irr_pending = a.irr_pending /\ b.isr_count = a.isr_count
        /\ b.ppr = a.ppr /\ b.tpr = a.tpr /\ b.nested = a.nested /\ b.state = a.state
    BY <1>1 DEF IsApic
  <2> HIDE DEF b
  <2> QED
    BY <1>1, <2>1, <2>2, PlainRegister, WroteHandled, SMTT(30)
<1>8. CASE reg = 768
  <2>1. w = vm_irq_delivery_to_apic(v, val) /\ IsIcr(val)
    BY <1>8, SMTT(30) DEF apic_reg_write, IsApicWrite, IsIcr, Vectors
  <2>2. w = v \/ w = __apic_accept_irq(v, val)
    BY <2>1 DEF vm_irq_delivery_to_apic
  <2> QED
    BY <2>1, <2>2, AcceptIrq, HandledRefl
<1>9. CASE reg = 784
  <2> DEFINE b == [a EXCEPT !.icr2 = val]
  <2>1. w = WithApic(v, b)
    BY <1>9, SMTT(30) DEF apic_reg_write, WithApic
  <2>2. /\ DOMAIN b = DOMAIN a /\ DOMAIN b.lvt0 = {"masked", "mode"} /\ b.irr = a.irr
        /\ b.isr = a.isr /\ b.irr_pending = a.irr_pending /\ b.isr_count = a.isr_count
        /\ b.ppr = a.ppr /\ b.tpr = a.tpr /\ b.nested = a.nested /\ b.state = a.state
    BY <1>1 DEF IsApic
  <2> HIDE DEF b
  <2> QED
    BY <1>1, <2>1, <2>2, PlainRegister, WroteHandled, SMTT(30)
<1>10. CASE reg = 848
  <2> DEFINE lvt == [val EXCEPT !.masked = @ \/ ~a.sw_enabled]
             b == [a EXCEPT !.lvt0 = lvt]
  <2>1. w = WithApic(v, b)
    BY <1>10, SMTT(30) DEF apic_reg_write, WithApic
  <2>2. DOMAIN lvt = {"masked", "mode"}
    BY <1>10, SMTT(30) DEF IsApicWrite
  <2> HIDE DEF lvt
  <2>3. /\ DOMAIN b = DOMAIN a /\ b.lvt0 = lvt /\ b.irr = a.irr
        /\ b.isr = a.isr /\ b.irr_pending = a.irr_pending /\ b.isr_count = a.isr_count
        /\ b.ppr = a.ppr /\ b.tpr = a.tpr /\ b.nested = a.nested /\ b.state = a.state
    BY <1>1 DEF IsApic
  <2> HIDE DEF b
  <2> QED
    BY <1>1, <2>1, <2>2, <2>3, PlainRegister, WroteHandled
<1>11. CASE reg \notin {32, 128, 176, 208, 224, 240, 768, 784, 848}
  <2>1. w = v
    BY <1>11, SMTT(30) DEF apic_reg_write
  <2> QED
    BY <2>1, HandledRefl
<1> QED
  BY <1>2, <1>3, <1>4, <1>5, <1>6, <1>7, <1>8, <1>9, <1>10, <1>11, SMTT(30)

\* Every write to its page does.
LEMMA MmioWrite ==
    ASSUME NEW pulse, NEW v, Handling(v, pulse), NEW reg, NEW val, IsApicWrite(reg, val),
           NEW x, x = (0 - reg) % 4096
    PROVE  Handled(v, vm_apic_mmio_write(v, x, val), pulse)
<1>1. RegisterAt(x) = reg
  <2> reg \in Nat /\ reg < 4096
    BY SMTT(30) DEF IsApicWrite
  <2>1. CASE reg = 0
    BY <2>1, SMTT(30) DEF RegisterAt
  <2>2. CASE reg # 0
    <3>1. (0 - reg) % 4096 = 4096 - reg
      BY <2>2, SMTT(30)
    <3>2. (0 - (4096 - reg)) % 4096 = reg
      BY <2>2, SMTT(30)
    <3> QED
      BY <3>1, <3>2, SMTT(30) DEF RegisterAt
  <2> QED
    BY <2>1, <2>2, SMTT(30)
<1> QED
  BY <1>1, RegWrite, HandledRefl, SMTT(30) DEF vm_apic_mmio_write

(***************************************************************************)
(* Handlers that leave the interrupt controllers alone                     *)
(***************************************************************************)
\* The cache changes, but not what rflags is for the VMM.
LEMMA CacheReady ==
    ASSUME NEW pulse, NEW v, NEW w, SameRest(v, w), CacheOk(w),
           Eff(w, "rflags") = Eff(v, "rflags")
    PROVE  /\ Ready(v, pulse) => Ready(w, pulse)
           /\ Handling(v, pulse) => Handling(w, pulse)
<1>1. VcpuInv(v, pulse) => VcpuInv(w, pulse)
  BY DEF VcpuInv, SameRest
<1>2. w.apic = v.apic /\ w.pic = v.pic /\ w.run = v.run /\ w.failed = v.failed
      /\ w.gs.halt = v.gs.halt /\ w.gs.window = v.gs.window /\ w.gs.in_exit = v.gs.in_exit
  BY DEF SameRest
<1>3. vm_apic_has_interrupt(w) = vm_apic_has_interrupt(v)
  BY <1>2, HasDepends
<1> QED
  BY <1>1, <1>2, <1>3 DEF Ready, Handling, Noticed

\* The guest's registers are read.
LEMMA ContextRead ==
    ASSUME NEW pulse, NEW v, CacheOk(v)
    PROVE  LET w == Read(v, "context") IN
           /\ SameRest(v, w) /\ SameCr(v, w) /\ CacheOk(w)
           /\ Ready(v, pulse) => Ready(w, pulse)
           /\ Handling(v, pulse) => Handling(w, pulse)
<1> DEFINE w == Read(v, "context")
<1>1. {"context", "rflags", "cr0", "cr3", "cr4"} \subseteq Fields
  BY DEF Fields
<1>2. SameRest(v, w) /\ SameCache(v, w)
  BY <1>1, ReadKeeps
<1> HIDE DEF w
<1>3. SameCr(v, w) /\ CacheOk(w) /\ Eff(w, "rflags") = Eff(v, "rflags")
  BY <1>1, <1>2 DEF SameCache, SameRest, SameCr
<1> QED
  BY <1>2, <1>3, CacheReady DEF w

\* The guest's registers are read and written.
LEMMA RegistersReady ==
    ASSUME NEW pulse, NEW v, Ready(v, pulse)
    PROVE  Handled(v, Registers(v), pulse)
<1> DEFINE u == Read(v, "context")
           w == Set(u, "context", 0)
<1>1. /\ {"context", "rflags", "cr0", "cr3", "cr4"} \subseteq Fields
      /\ "context" \in Fields \ ReadOnly
  BY DEF Fields, ReadOnly
<1>2. CacheOk(v)
  BY DEF Ready, VcpuInv
<1>3. SameRest(v, u) /\ SameCr(v, u) /\ CacheOk(u) /\ Ready(u, pulse)
  BY <1>2, ContextRead
<1>4. Registers(v) = w
  BY DEF Registers
<1> HIDE DEF u
<1>5. /\ SameRest(u, w) /\ CacheOk(w)
      /\ \A g \in Fields : g # "context" => Eff(w, g) = Eff(u, g)
  BY <1>1, <1>3, SetKeeps, SMTT(30)
<1> HIDE DEF w
<1>6. SameCr(u, w) /\ Eff(w, "rflags") = Eff(u, "rflags")
  BY <1>1, <1>5 DEF SameCr, SameRest
<1>7. Ready(w, pulse)
  BY <1>3, <1>5, <1>6, CacheReady
<1> QED
  BY <1>3, <1>4, <1>6, <1>7 DEF Handled, SameCr

\* The fault of an unsupported MSR.  Nothing is about to be injected: the guest ran.
LEMMA ExceptionReady ==
    ASSUME NEW pulse, NEW v, Handling(v, pulse), v.gs.entry = 0
    PROVE  Handled(v, vm_inject_exception(v), pulse)
<1> DEFINE e == "entry_exception_error_code"
           u == Set(v, e, 0)
           w == [u EXCEPT !.gs.entry = 13]
<1>1. {"rflags", "cr0", "cr3", "cr4"} \subseteq Fields /\ e \in Fields \ ReadOnly
  BY DEF Fields, ReadOnly
<1>2. CacheOk(v)
  BY DEF Handling, VcpuInv
<1>3. vm_inject_exception(v) = w
  BY DEF vm_inject_exception
<1>4. /\ SameRest(v, u) /\ CacheOk(u)
      /\ \A g \in Fields : g # e => Eff(u, g) = Eff(v, g)
  BY <1>1, <1>2, SetKeeps, SMTT(30)
<1> HIDE DEF u
<1>5. SameCr(v, u) /\ Eff(u, "rflags") = Eff(v, "rflags")
  BY <1>1, <1>4 DEF SameCr, SameRest
<1>6. Handling(u, pulse)
  BY <1>4, <1>5, CacheReady
<1>7. /\ DOMAIN w = DOMAIN u /\ w.hw = u.hw /\ DOMAIN w.gs = DOMAIN u.gs
      /\ w.gs.machine = u.gs.machine /\ w.pic = u.pic /\ w.apic = u.apic /\ w.run = u.run
      /\ w.failed = u.failed /\ w.gs.cr = u.gs.cr /\ w.gs.cr3_exiting = u.gs.cr3_exiting
      /\ w.gs.in_exit = u.gs.in_exit /\ w.gs.halt = u.gs.halt /\ w.gs.window = u.gs.window
  BY <1>4 DEF CacheOk, IsVcpu
<1> HIDE DEF w
<1>8. Worked(u, w, pulse) /\ vm_apic_has_interrupt(w) = vm_apic_has_interrupt(u)
  BY <1>6, <1>7, FlagsWorked DEF Handling
<1>9. Noticed(w)
  BY <1>6, <1>7, <1>8 DEF Noticed, Handling
<1>10. Handled(u, w, pulse)
  BY <1>6, <1>8, <1>9, NoticedHandled
<1> QED
  BY <1>3, <1>5, <1>10, HandledTrans DEF w, u

\* And so does the write of its base address.
LEMMA BaseMsrReady ==
    ASSUME NEW pulse, NEW v, Handling(v, pulse), NEW enable
    PROVE  Handled(v, vm_lapic_set_base_msr(v, enable), pulse)
<1> DEFINE a == v.apic
           b == [a EXCEPT !.hw_enabled = enable]
<1>1. VcpuInv(v, pulse) /\ IsApic(v.apic)
  BY DEF Handling, VcpuInv
<1>2. vm_lapic_set_base_msr(v, enable) = WithApic(v, b)
  BY DEF vm_lapic_set_base_msr, WithApic
<1>3. /\ DOMAIN b = DOMAIN a /\ DOMAIN b.lvt0 = {"masked", "mode"} /\ b.irr = a.irr
      /\ b.isr = a.isr /\ b.irr_pending = a.irr_pending /\ b.isr_count = a.isr_count
      /\ b.ppr = a.ppr /\ b.tpr = a.tpr /\ b.nested = a.nested /\ b.state = a.state
  BY <1>1 DEF IsApic
<1> HIDE DEF b
<1> QED
  BY <1>1, <1>2, <1>3, PlainRegister, WroteHandled

\* The guest halts only when nothing can be delivered.
LEMMA HltReady ==
    ASSUME NEW pulse, NEW v, Handling(v, pulse)
    PROVE  Handled(v, vm_hlt_handler(v), pulse)
<1> DEFINE u == Read(v, "rflags")
           halted == u.gs.halt \/ vm_apic_has_interrupt(v) = -1
           w == [u EXCEPT !.gs.halt = halted]
<1>1. {"rflags", "cr0", "cr3", "cr4"} \subseteq Fields
  BY DEF Fields
<1>2. VcpuInv(v, pulse) /\ CacheOk(v) /\ IsApic(v.apic)
  BY DEF Handling, VcpuInv
<1>3. vm_hlt_handler(v) = w
  BY DEF vm_hlt_handler
<1>4. SameRest(v, u) /\ SameCache(v, u)
  BY <1>1, <1>2, ReadKeeps
<1>5. Handling(u, pulse) /\ SameCr(v, u) /\ CacheOk(u)
  BY <1>1, <1>4, CacheReady DEF SameCache, SameCr, SameRest
<1>6. vm_apic_has_interrupt(u) = vm_apic_has_interrupt(v)
  BY <1>4, HasDepends DEF SameRest
<1> HIDE DEF u, halted
<1>7. /\ DOMAIN w = DOMAIN u /\ w.hw = u.hw /\ DOMAIN w.gs = DOMAIN u.gs
      /\ w.gs.machine = u.gs.machine /\ w.pic = u.pic /\ w.apic = u.apic /\ w.run = u.run
      /\ w.failed = u.failed /\ w.gs.cr = u.gs.cr /\ w.gs.cr3_exiting = u.gs.cr3_exiting
      /\ w.gs.in_exit = u.gs.in_exit /\ w.gs.halt = halted /\ w.gs.window = u.gs.window
  BY <1>5 DEF CacheOk, IsVcpu
<1> HIDE DEF w
<1>8. SameCache(u, w)
  BY <1>5, <1>7, CacheFrame
<1>9. VcpuInv(w, pulse)
  BY <1>1, <1>5, <1>7, <1>8 DEF Handling, VcpuInv, SameCache
<1>10. vm_apic_has_interrupt(w) = vm_apic_has_interrupt(u)
  BY <1>7, HasDepends
<1>11. Noticed(w)
  <2> SUFFICES ASSUME vm_apic_has_interrupt(w) >= 0
               PROVE  ~w.gs.halt /\ w.gs.window
    BY DEF Noticed
  <2>1. ~u.gs.halt /\ u.gs.window
    BY <1>5, <1>10 DEF Noticed, Handling
  <2>2. vm_apic_has_interrupt(v) # -1
    BY <1>6, <1>10, SMTT(30)
  <2>3. ~halted
    BY <2>1, <2>2 DEF halted
  <2> QED
    BY <1>7, <2>1, <2>3
<1>12. SameCr(u, w)
  BY <1>1, <1>7, <1>8 DEF SameCr, SameCache
<1>13. Ready(w, pulse)
  BY <1>5, <1>7, <1>9, <1>11 DEF Ready, Handling
<1> QED
  BY <1>3, <1>5, <1>12, <1>13, HandledTrans DEF Handled, w, u, halted

(***************************************************************************)
(* The 8259s change                                                        *)
(***************************************************************************)
WithPic(v, p) == [v EXCEPT !.pic = p]

\* A vcpu whose 8259s change: an interrupt is noticed or the 8259s ask for one.
LEMMA PicChanged ==
    ASSUME NEW pulse, NEW v, VcpuInv(v, pulse), NEW p, PicInv(p, pulse),
           Eff(v, "rflags") => BasesSet(p)
    PROVE  LET w == WithPic(v, p) IN
           /\ VcpuInv(w, pulse) /\ Quiet(v, w) /\ w.apic = v.apic /\ w.gs = v.gs /\ w.pic = p
           /\ Noticed(v) => \/ Noticed(w)
                            \/ vm_apic_accept_pic_intr(w.apic) /\ i8259_has_interrupt(p)
<1> DEFINE w == WithPic(v, p)
<1>1. CacheOk(v) /\ "rflags" \in Fields /\ IsApic(v.apic)
  BY DEF VcpuInv, Fields
<1>2. /\ DOMAIN w = DOMAIN v /\ w.hw = v.hw /\ w.gs = v.gs /\ w.pic = p
      /\ w.apic = v.apic /\ w.run = v.run /\ w.failed = v.failed
  BY <1>1 DEF WithPic, CacheOk, IsVcpu
<1> HIDE DEF w
<1>3. SameCache(v, w)
  BY <1>1, <1>2, CacheFrame
<1>4. VcpuInv(w, pulse) /\ Quiet(v, w)
  BY <1>1, <1>2, <1>3 DEF VcpuInv, SameCache, Quiet
<1>5. w.apic.ppr >= v.apic.ppr
  BY <1>1, <1>2, SMTT(30) DEF IsApic
<1>6. Noticed(v) => Noticed(w) \/ (vm_apic_accept_pic_intr(w.apic) /\ i8259_has_interrupt(w.pic))
  BY <1>1, <1>2, <1>5, NoticedOrAccepts
<1> QED
  BY <1>2, <1>4, <1>6 DEF w

\* The handler of an i/o exit, given what the 8259s or another device make of it.
LEMMA IoReady ==
    ASSUME NEW pulse, NEW v, Handling(v, pulse), NEW p, PicInv(p, pulse),
           Eff(v, "rflags") => BasesSet(p), NEW is_in \in BOOLEAN, NEW res
    PROVE  LET r == vm_io_instruction_handler(v, p, is_in, res) IN
           Handled(v, r.v, pulse) /\ r.ret \in {-1, 1}
<1> DEFINE u == IF is_in THEN v ELSE Read(v, "context")
           c == WithPic(u, p)
           w == IF is_in THEN Registers(c) ELSE c
           r == vm_io_instruction_handler(v, p, is_in, res)
<1>1. r.v = w /\ r.ret \in {-1, 1}
  BY DEF vm_io_instruction_handler, HandledAs, WithPic
<1>2. CacheOk(v) /\ VcpuInv(v, pulse)
  BY DEF Handling, VcpuInv
<1>3. Handling(u, pulse) /\ SameCr(v, u) /\ Eff(u, "rflags") = Eff(v, "rflags")
  <2>1. CASE is_in
    BY <2>1 DEF SameCr
  <2>2. CASE ~is_in
    <3>1. u = Read(v, "context") /\ {"context", "rflags"} \subseteq Fields
      BY <2>2 DEF Fields
    <3>2. SameCache(v, u)
      BY <1>2, <3>1, ReadKeeps
    <3> QED
      BY <1>2, <3>1, <3>2, ContextRead DEF SameCache
  <2> QED
    BY <2>1, <2>2
<1> HIDE DEF u
<1>4. VcpuInv(u, pulse) /\ Noticed(u)
  BY <1>3 DEF Handling
<1>5. /\ VcpuInv(c, pulse) /\ Quiet(u, c) /\ c.apic = u.apic /\ c.gs = u.gs
      /\ Noticed(c) \/ vm_apic_accept_pic_intr(c.apic)
  BY <1>3, <1>4, PicChanged, SMTT(30)
<1> HIDE DEF c
<1>6. Handled(u, c, pulse)
  BY <1>3, <1>5, QuietSameCr DEF Handled, Ready, Handling, Quiet
<1>7. Handled(u, w, pulse)
  <2>1. CASE is_in
    BY <1>6, <2>1, RegistersReady, HandledTrans DEF Handled
  <2>2. CASE ~is_in
    BY <1>6, <2>2
  <2> QED
    BY <2>1, <2>2
<1> HIDE DEF w
<1> QED
  BY <1>1, <1>3, <1>7, HandledTrans DEF r

(***************************************************************************)
(* Control registers.  CrView: what the guest reads back, with the values  *)
(* still to be written to the VMCS, is what it wrote; the VMM intercepts   *)
(* CR3 exactly as long as the guest has not turned paging on.              *)
(***************************************************************************)
CrView(v, wr) ==
    LET cr == v.gs.cr
    IN  /\ DOMAIN cr = {"cr0_mask", "cr0_host_bits", "cr0_shadow", "cr4_mask", "cr4_host_bits",
                        "cr4_shadow", "cr3_guest"}
        /\ DOMAIN wr = {"cr0", "cr3", "cr4"}
        /\ v.gs.cr3_exiting <=> "PG" \notin cr.cr0_shadow
        /\ wr.cr0 = (cr.cr0_shadow \intersect cr.cr0_mask) \union (Eff(v, "cr0") \ cr.cr0_mask)
        /\ wr.cr4 = (cr.cr4_shadow \intersect cr.cr4_mask) \union (Eff(v, "cr4") \ cr.cr4_mask)
        /\ wr.cr3 = IF v.gs.cr3_exiting THEN cr.cr3_guest ELSE Eff(v, "cr3")

\* The guest reads back what it wrote as long as the registers are left alone.
LEMMA CrKept ==
    ASSUME NEW v, NEW wr, CrView(v, wr), NEW w, SameCr(v, w)
    PROVE  CrView(w, wr)
BY DEF CrView, SameCr

\* The virtualised registers change, the cache and the controllers do not.
CrOnly(v, w) ==
    /\ DOMAIN w = DOMAIN v /\ w.hw = v.hw /\ DOMAIN w.gs = DOMAIN v.gs
    /\ w.gs.machine = v.gs.machine /\ w.pic = v.pic /\ w.apic = v.apic /\ w.run = v.run
    /\ w.failed = v.failed /\ w.gs.entry = v.gs.entry /\ w.gs.window = v.gs.window
    /\ w.gs.halt = v.gs.halt /\ w.gs.in_exit = v.gs.in_exit

\* A step on masks and shadows leaves the vcpu ready and its cached fields alone.
LEMMA CrOnlyKeeps ==
    ASSUME NEW pulse, NEW v, Handling(v, pulse), NEW w, CrOnly(v, w)
    PROVE  Handling(w, pulse) /\ Ready(w, pulse) /\ \A f \in Fields : Eff(w, f) = Eff(v, f)
<1>1. VcpuInv(v, pulse) /\ CacheOk(v) /\ "rflags" \in Fields
  BY DEF Handling, VcpuInv, Fields
<1>2. SameCache(v, w)
  BY <1>1, CacheFrame DEF CrOnly
<1>3. VcpuInv(w, pulse)
  BY <1>1, <1>2 DEF VcpuInv, SameCache, CrOnly
<1>4. vm_apic_has_interrupt(w) = vm_apic_has_interrupt(v)
  BY HasDepends DEF CrOnly
<1> QED
  BY <1>2, <1>3, <1>4 DEF Handling, Ready, Noticed, CrOnly, SameCache

\* A register is set.
LEMMA SetHandling ==
    ASSUME NEW pulse, NEW v, Handling(v, pulse), NEW f \in {"cr0", "cr3", "cr4"}, NEW x
    PROVE  LET w == Set(v, f, x) IN
           /\ Handling(w, pulse) /\ Ready(w, pulse)
           /\ w.gs.cr = v.gs.cr /\ w.gs.cr3_exiting = v.gs.cr3_exiting
           /\ Eff(w, f) = x /\ \A g \in {"cr0", "cr3", "cr4"} : g # f => Eff(w, g) = Eff(v, g)
<1> DEFINE w == Set(v, f, x)
<1>1. {"rflags", "cr0", "cr3", "cr4"} \subseteq Fields /\ f \in Fields \ ReadOnly /\ f # "rflags"
  BY DEF Fields, ReadOnly
<1>2. CacheOk(v)
  BY DEF Handling, VcpuInv
<1>3. /\ SameRest(v, w) /\ CacheOk(w) /\ Eff(w, f) = x
      /\ \A g \in Fields : g # f => Eff(w, g) = Eff(v, g)
  BY <1>1, <1>2, SetKeeps, SMTT(30)
<1> HIDE DEF w
<1>4. Handling(w, pulse)
  BY <1>1, <1>3, CacheReady
<1>5. Ready(w, pulse)
  BY <1>4, HandledRefl DEF Handled
<1> QED
  BY <1>1, <1>3, <1>4, <1>5 DEF SameRest, w

(* The guest turns paging on: the VMM hands the paging bits of CR4 over to *)
(* the guest with the values it has given them, and CR3 with its value.    *)
GuestMask(v) == v.gs.cr.cr4_mask \ {"PSE", "PAE"}
Masked(v) == [Read(v, "cr4") EXCEPT !.gs.cr.cr4_mask = GuestMask(v)]
HandedOver(v) ==
    LET cr == v.gs.cr
        cr4 == apply_cr_bits(Value(v, "cr4"), cr.cr4_mask \ GuestMask(v), cr.cr4_shadow)
    IN  [Set(Set(Masked(v), "cr4", cr4), "cr3", cr.cr3_guest) EXCEPT !.gs.cr3_exiting = FALSE]

\* When the guest turns paging on it takes over CR3 and the bits of CR4 it may own,
\* and reads from them what it wrote.
LEMMA HandOver ==
    ASSUME NEW pulse, NEW v, Handling(v, pulse), NEW wr, CrView(v, wr),
           "PG" \notin v.gs.cr.cr0_shadow
    PROVE  LET cr == v.gs.cr
               w == HandedOver(v)
           IN  /\ Ready(Masked(v), pulse) /\ Handling(w, pulse) /\ ~w.gs.cr3_exiting
               /\ DOMAIN w.gs.cr = DOMAIN cr /\ w.gs.cr.cr0_mask = cr.cr0_mask
               /\ w.gs.cr.cr4_shadow = cr.cr4_shadow /\ w.gs.cr.cr4_mask = GuestMask(v)
               /\ wr.cr4 = (cr.cr4_shadow \intersect GuestMask(v))
                           \union (Eff(w, "cr4") \ GuestMask(v))
               /\ wr.cr3 = Eff(w, "cr3")
<1> DEFINE cr == v.gs.cr
           new_mask == GuestMask(v)
           value == Value(v, "cr4")
           cr4 == apply_cr_bits(value, cr.cr4_mask \ new_mask, cr.cr4_shadow)
           u == Read(v, "cr4")
           m == [u EXCEPT !.gs.cr.cr4_mask = new_mask]
           a == Set(m, "cr4", cr4)
           b == Set(a, "cr3", cr.cr3_guest)
           w == [b EXCEPT !.gs.cr3_exiting = FALSE]
<1>1. {"rflags", "cr0", "cr3", "cr4"} \subseteq Fields
  BY DEF Fields
<1>2. CacheOk(v)
  BY DEF Handling, VcpuInv
<1>3. SameRest(v, u) /\ SameCache(v, u) /\ value = Eff(v, "cr4")
  BY <1>1, <1>2, ReadKeeps
<1> HIDE DEF u, value
<1>4. Handling(u, pulse) /\ IsVcpu(u) /\ u.gs.cr = cr
  BY <1>1, <1>3, CacheReady DEF SameCache, SameRest, CacheOk
<1>5. DOMAIN cr = {"cr0_mask", "cr0_host_bits", "cr0_shadow", "cr4_mask", "cr4_host_bits",
                   "cr4_shadow", "cr3_guest"}
  BY DEF CrView
<1> HIDE DEF new_mask
<1>6. /\ CrOnly(u, m) /\ DOMAIN m.gs.cr = DOMAIN cr /\ m.gs.cr.cr0_mask = cr.cr0_mask
      /\ m.gs.cr.cr4_shadow = cr.cr4_shadow /\ m.gs.cr.cr4_mask = new_mask
  BY <1>4, <1>5 DEF CrOnly, IsVcpu
<1> HIDE DEF m
<1>7. Handling(m, pulse) /\ Ready(m, pulse)
  BY <1>4, <1>6, CrOnlyKeeps
<1> HIDE DEF cr4
<1>8. Handling(a, pulse) /\ a.gs.cr = m.gs.cr /\ Eff(a, "cr4") = cr4
  BY <1>7, SetHandling, SMTT(30)
<1> HIDE DEF a
<1>9. /\ Handling(b, pulse) /\ b.gs.cr = m.gs.cr /\ Eff(b, "cr4") = cr4
      /\ Eff(b, "cr3") = cr.cr3_guest
  BY <1>8, SetHandling, SMTT(30)
<1>10. IsVcpu(b)
  BY <1>9 DEF Handling, VcpuInv, CacheOk
<1> HIDE DEF b
<1>11. CrOnly(b, w) /\ w.gs.cr = b.gs.cr /\ ~w.gs.cr3_exiting
  BY <1>10 DEF CrOnly, IsVcpu
<1> HIDE DEF w
<1>12. Handling(w, pulse) /\ Eff(w, "cr4") = cr4 /\ Eff(w, "cr3") = cr.cr3_guest
  BY <1>1, <1>9, <1>11, CrOnlyKeeps, SMTT(30)
<1>13. wr.cr3 = cr.cr3_guest
  BY DEF CrView
<1>14. wr.cr4 = (cr.cr4_shadow \intersect new_mask) \union (cr4 \ new_mask)
  BY <1>3 DEF CrView, cr4, new_mask, GuestMask, apply_cr_bits
<1> QED
  BY <1>6, <1>7, <1>9, <1>11, <1>12, <1>13, <1>14
      DEF w, b, a, m, u, cr4, value, new_mask, HandedOver, Masked

\* vm_cr_set_cr0: the guest reads back what it wrote, unless the write fails.
LEMMA SetCr0 ==
    ASSUME NEW pulse, NEW v, Handling(v, pulse), NEW wr, CrView(v, wr), NEW value, NEW werr
    PROVE  LET r == vm_cr_set_cr0(v, value, werr) IN
           /\ Ready(r.v, pulse) /\ r.ret \in {0, -1}
           /\ r.ret = 0 => CrView(r.v, [wr EXCEPT !.cr0 = value])
<1> DEFINE cr == v.gs.cr
           r == vm_cr_set_cr0(v, value, werr)
           enabling == "PG" \in value /\ "PG" \notin cr.cr0_shadow
           disabling == "PG" \notin value /\ "PG" \in cr.cr0_shadow
           taken == IF enabling THEN HandedOver(v) ELSE v
           s == [taken EXCEPT !.gs.cr.cr0_shadow = value]
           new == apply_cr_bits(value, cr.cr0_mask, cr.cr0_host_bits)
           w == Set(s, "cr0", new)
           wr2 == [wr EXCEPT !.cr0 = value]
<1>1. r = IF RESERVED \in value \/ disabling THEN [v |-> v, ret |-> -1]
          ELSE IF enabling /\ werr = "mask" THEN [v |-> Masked(v), ret |-> -1]
          ELSE IF werr = "shadow" THEN [v |-> s, ret |-> -1]
          ELSE [v |-> w, ret |-> 0]
  BY DEF vm_cr_set_cr0, HandedOver, Masked, GuestMask
<1>2. Ready(v, pulse)
  BY HandledRefl DEF Handled
<1>3. /\ Handling(taken, pulse) /\ DOMAIN taken.gs.cr = DOMAIN cr
      /\ taken.gs.cr.cr0_mask = cr.cr0_mask
      /\ enabling => ~taken.gs.cr3_exiting /\ Ready(Masked(v), pulse)
      /\ ~enabling => taken.gs.cr3_exiting = v.gs.cr3_exiting
                      /\ taken.gs.cr.cr3_guest = cr.cr3_guest
      /\ wr.cr4 = (taken.gs.cr.cr4_shadow \intersect taken.gs.cr.cr4_mask)
                  \union (Eff(taken, "cr4") \ taken.gs.cr.cr4_mask)
      /\ wr.cr3 = IF taken.gs.cr3_exiting THEN taken.gs.cr.cr3_guest ELSE Eff(taken, "cr3")
  <2>1. CASE enabling
    BY <2>1, HandOver
  <2>2. CASE ~enabling
    BY <2>2 DEF CrView
  <2> QED
    BY <2>1, <2>2
<1>4. IsVcpu(taken)
  BY <1>3 DEF Handling, VcpuInv, CacheOk
<1>5. /\ DOMAIN cr = {"cr0_mask", "cr0_host_bits", "cr0_shadow", "cr4_mask", "cr4_host_bits",
                      "cr4_shadow", "cr3_guest"}
      /\ DOMAIN wr = {"cr0", "cr3", "cr4"} /\ (v.gs.cr3_exiting <=> "PG" \notin cr.cr0_shadow)
  BY DEF CrView
<1> HIDE DEF taken, r
<1>6. /\ CrOnly(taken, s) /\ DOMAIN s.gs.cr = DOMAIN cr /\ s.gs.cr.cr0_mask = cr.cr0_mask
      /\ s.gs.cr.cr0_shadow = value /\ s.gs.cr.cr4_shadow = taken.gs.cr.cr4_shadow
      /\ s.gs.cr.cr4_mask = taken.gs.cr.cr4_mask /\ s.gs.cr.cr3_guest = taken.gs.cr.cr3_guest
      /\ s.gs.cr3_exiting = taken.gs.cr3_exiting
  BY <1>3, <1>4, <1>5 DEF CrOnly, IsVcpu
<1> HIDE DEF s
<1>7. /\ Handling(s, pulse) /\ Ready(s, pulse)
      /\ Eff(s, "cr3") = Eff(taken, "cr3") /\ Eff(s, "cr4") = Eff(taken, "cr4")
  BY <1>3, <1>6, CrOnlyKeeps DEF Fields
<1> HIDE DEF new
<1>8. /\ Ready(w, pulse) /\ w.gs.cr = s.gs.cr /\ w.gs.cr3_exiting = s.gs.cr3_exiting
      /\ Eff(w, "cr0") = new
      /\ Eff(w, "cr3") = Eff(taken, "cr3") /\ Eff(w, "cr4") = Eff(taken, "cr4")
  BY <1>7, SetHandling, SMTT(30)
<1> HIDE DEF w
<1>9. DOMAIN wr2 = DOMAIN wr /\ wr2.cr0 = value /\ wr2.cr3 = wr.cr3 /\ wr2.cr4 = wr.cr4
  BY <1>5, SMTT(30)
<1> HIDE DEF wr2
<1>10. value = (value \intersect cr.cr0_mask) \union (new \ cr.cr0_mask)
  BY SMTT(30) DEF new, apply_cr_bits
<1>11. ~disabling => (w.gs.cr3_exiting <=> "PG" \notin value)
  BY <1>3, <1>5, <1>6, <1>8
<1>12. ~disabling => CrView(w, wr2)
  BY <1>3, <1>5, <1>6, <1>8, <1>9, <1>10, <1>11 DEF CrView
<1>13. CASE RESERVED \in value \/ disabling
  BY <1>1, <1>2, <1>13, SMTT(30) DEF r
<1>14. CASE ~ (RESERVED \in value \/ disabling) /\ enabling /\ werr = "mask"
  BY <1>1, <1>3, <1>14, SMTT(30) DEF r
<1>15. CASE ~ (RESERVED \in value \/ disabling) /\ ~ (enabling /\ werr = "mask")
            /\ werr = "shadow"
  BY <1>1, <1>7, <1>15, SMTT(30) DEF r
<1>16. CASE ~ (RESERVED \in value \/ disabling) /\ ~ (enabling /\ werr = "mask")
            /\ werr # "shadow"
  BY <1>1, <1>8, <1>12, <1>16, SMTT(30) DEF r, wr2
<1> QED
  BY <1>13, <1>14, <1>15, <1>16

\* A write of CR4 the VMM accepts is what the guest then reads.
LEMMA SetCr4 ==
    ASSUME NEW pulse, NEW v, Handling(v, pulse), NEW wr, CrView(v, wr), NEW value, NEW werr
    PROVE  LET r == vm_cr_set_cr4(v, value, werr) IN
           /\ Ready(r.v, pulse) /\ r.ret \in {0, -1}
           /\ r.ret = 0 => CrView(r.v, [wr EXCEPT !.cr4 = value])
<1> DEFINE cr == v.gs.cr
           r == vm_cr_set_cr4(v, value, werr)
           s == [v EXCEPT !.gs.cr.cr4_shadow = value]
           new == apply_cr_bits(value, cr.cr4_mask, cr.cr4_host_bits)
           w == Set(s, "cr4", new)
           wr2 == [wr EXCEPT !.cr4 = value]
<1>1. r = IF RESERVED \in value THEN [v |-> v, ret |-> -1]
          ELSE IF werr = "shadow" THEN [v |-> s, ret |-> -1]
          ELSE [v |-> w, ret |-> 0]
  BY DEF vm_cr_set_cr4
<1>2. Ready(v, pulse) /\ IsVcpu(v)
  BY HandledRefl DEF Handled, Handling, VcpuInv, CacheOk
<1>5. /\ DOMAIN cr = {"cr0_mask", "cr0_host_bits", "cr0_shadow", "cr4_mask", "cr4_host_bits",
                      "cr4_shadow", "cr3_guest"}
      /\ DOMAIN wr = {"cr0", "cr3", "cr4"}
  BY DEF CrView
<1> HIDE DEF r
<1>6. /\ CrOnly(v, s) /\ DOMAIN s.gs.cr = DOMAIN cr /\ s.gs.cr.cr0_mask = cr.cr0_mask
      /\ s.gs.cr.cr0_shadow = cr.cr0_shadow /\ s.gs.cr.cr4_shadow = value
      /\ s.gs.cr.cr4_mask = cr.cr4_mask /\ s.gs.cr.cr3_guest = cr.cr3_guest
      /\ s.gs.cr3_exiting = v.gs.cr3_exiting
  BY <1>2, <1>5 DEF CrOnly, IsVcpu
<1> HIDE DEF s
<1>7. /\ Handling(s, pulse) /\ Ready(s, pulse)
      /\ Eff(s, "cr3") = Eff(v, "cr3") /\ Eff(s, "cr0") = Eff(v, "cr0")
  BY <1>6, CrOnlyKeeps, SMTT(30) DEF Fields
<1> HIDE DEF new
<1>8. /\ Ready(w, pulse) /\ w.gs.cr = s.gs.cr /\ w.gs.cr3_exiting = s.gs.cr3_exiting
      /\ Eff(w, "cr4") = new
      /\ Eff(w, "cr3") = Eff(v, "cr3") /\ Eff(w, "cr0") = Eff(v, "cr0")
  BY <1>7, SetHandling, SMTT(30)
<1> HIDE DEF w
<1>9. DOMAIN wr2 = DOMAIN wr /\ wr2.cr4 = value /\ wr2.cr3 = wr.cr3 /\ wr2.cr0 = wr.cr0
  BY <1>5
<1> HIDE DEF wr2
<1>10. value = (value \intersect cr.cr4_mask) \union (new \ cr.cr4_mask)
  BY DEF new, apply_cr_bits
<1>12. CrView(w, wr2)
  BY <1>5, <1>6, <1>8, <1>9, <1>10 DEF CrView
<1>13. CASE RESERVED \in value
  BY <1>1, <1>2, <1>13, SMTT(30) DEF r
<1>14. CASE RESERVED \notin value /\ werr = "shadow"
  BY <1>1, <1>7, <1>14, SMTT(30) DEF r
<1>15. CASE RESERVED \notin value /\ werr # "shadow"
  BY <1>1, <1>8, <1>12, <1>15, SMTT(30) DEF r, wr2
<1> QED
  BY <1>13, <1>14, <1>15

\* CR3 is written through the VMM only before the guest has turned paging on.
LEMMA SetCr3 ==
    ASSUME NEW pulse, NEW v, Handling(v, pulse), NEW wr, CrView(v, wr), v.gs.cr3_exiting, NEW value
    PROVE  LET r == vm_cr_set_cr3(v, value) IN
           /\ Ready(r.v, pulse) /\ r.ret = 0 /\ CrView(r.v, [wr EXCEPT !.cr3 = value])
<1> DEFINE cr == v.gs.cr
           s == [v EXCEPT !.gs.cr.cr3_guest = value]
           wr2 == [wr EXCEPT !.cr3 = value]
<1>1. vm_cr_set_cr3(v, value) = [v |-> s, ret |-> 0]
  BY DEF vm_cr_set_cr3, CrView
<1>2. IsVcpu(v)
  BY DEF Handling, VcpuInv, CacheOk
<1>3. /\ DOMAIN cr = {"cr0_mask", "cr0_host_bits", "cr0_shadow", "cr4_mask", "cr4_host_bits",
                      "cr4_shadow", "cr3_guest"}
      /\ DOMAIN wr = {"cr0", "cr3", "cr4"}
  BY DEF CrView
<1>4. /\ CrOnly(v, s) /\ DOMAIN s.gs.cr = DOMAIN cr /\ s.gs.cr.cr0_mask = cr.cr0_mask
      /\ s.gs.cr.cr0_shadow = cr.cr0_shadow /\ s.gs.cr.cr4_shadow = cr.cr4_shadow
      /\ s.gs.cr.cr4_mask = cr.cr4_mask /\ s.gs.cr.cr3_guest = value
      /\ s.gs.cr3_exiting = v.gs.cr3_exiting
  BY <1>2, <1>3 DEF CrOnly, IsVcpu
<1> HIDE DEF s
<1>5. /\ Ready(s, pulse)
      /\ Eff(s, "cr4") = Eff(v, "cr4") /\ Eff(s, "cr0") = Eff(v, "cr0")
  BY <1>4, CrOnlyKeeps, SMTT(30) DEF Fields
<1>6. DOMAIN wr2 = DOMAIN wr /\ wr2.cr3 = value /\ wr2.cr4 = wr.cr4 /\ wr2.cr0 = wr.cr0
  BY <1>3
<1> HIDE DEF wr2
<1>7. CrView(s, wr2)
  BY <1>3, <1>4, <1>5, <1>6 DEF CrView
<1> QED
  BY <1>1, <1>5, <1>7, SMTT(30) DEF wr2

(***************************************************************************)
(* The loop.  At its head, while the guest runs: it is halted exactly when *)
(* an exit is still to be finished.  Then nothing but the registers is to  *)
(* be written back and the cache is good; otherwise nothing is to be       *)
(* written back, and the cache is of no use since the guest may have run.  *)
(***************************************************************************)
AtHead(v, pulse) ==
    /\ PicInv(v.pic, pulse) /\ IsApic(v.apic) /\ Nested(v.apic) /\ v.failed = {}
    /\ v.run = "running" =>
         /\ IsVcpu(v) /\ Noticed(v)
         /\ Eff(v, "rflags") => BasesSet(v.pic)
         /\ v.gs.halt <=> v.gs.in_exit
         /\ v.gs.in_exit => CacheOk(v) /\ Dirty(v) \subseteq {"context"}
         /\ ~v.gs.in_exit => Dirty(v) = {}

\* vm_resume leads from a handled exit to the head of the loop.
LEMMA ResumeHead ==
    ASSUME NEW pulse, NEW v, VcpuInv(v, pulse), v.failed = {}, Nested(v.apic), Noticed(v),
           v.run = "running", ~v.gs.in_exit => ~v.gs.halt /\ Dirty(v) = {}
    PROVE  LET w == vm_resume(v) IN
           AtHead(w, pulse) /\ SameCr(v, w) /\ IsVcpu(w) /\ w.run = "running"
<1> DEFINE s == SyncFields(v, VmcsFields)
           c == SyncFields(s, {"context"})
           i == vm_guest_state_invalidate_all(c)
           x == [i EXCEPT !.gs.in_exit = FALSE]
           w == vm_resume(v)
<1>1. /\ {"context", "rflags", "cr0", "cr3", "cr4"} \subseteq Fields
      /\ VmcsFields \in SUBSET Fields /\ {"context"} \in SUBSET Fields
      /\ Fields \ VmcsFields = {"context"}
  BY DEF Fields, VmcsFields
<1>2. CacheOk(v) /\ PicInv(v.pic, pulse) /\ IsApic(v.apic) /\ (Eff(v, "rflags") => BasesSet(v.pic))
  BY DEF VcpuInv
<1>3. /\ SameRest(v, s) /\ CacheOk(s) /\ Dirty(s) = Dirty(v) \ VmcsFields
      /\ \A f \in Fields : Eff(s, f) = Eff(v, f)
  BY <1>1, <1>2, SyncKeeps
<1>4. w = IF v.gs.in_exit /\ ~v.gs.halt THEN x ELSE s
  BY DEF vm_resume, Resumed, vm_sync_guest_vmcs_state, vm_sync_guest_context
<1> HIDE DEF s, w
<1>5. Dirty(v) \subseteq Fields
  BY DEF Dirty
<1>6. Dirty(s) \subseteq {"context"} /\ (Dirty(v) = {} => Dirty(s) = {})
  BY <1>1, <1>3, <1>5
<1>7. CASE v.gs.in_exit /\ ~v.gs.halt
  <2>1. /\ SameRest(s, c) /\ CacheOk(c) /\ Dirty(c) = {}
        /\ \A f \in Fields : Eff(c, f) = Eff(s, f)
    BY <1>1, <1>3, <1>6, SyncKeeps, SMTT(30)
  <2> HIDE DEF c
  <2>2. SameRest(c, i) /\ SameCache(c, i)
    BY <2>1, InvalidateKeeps DEF CacheOk
  <2> HIDE DEF i
  <2>3. CacheOk(i) /\ IsVcpu(i)
    BY <2>2 DEF SameCache, CacheOk
  <2>4. /\ DOMAIN x = DOMAIN i /\ x.hw = i.hw /\ DOMAIN x.gs = DOMAIN i.gs
        /\ x.gs.machine = i.gs.machine /\ x.pic = i.pic /\ x.apic = i.apic /\ x.run = i.run
        /\ x.failed = i.failed /\ x.gs.cr = i.gs.cr /\ x.gs.cr3_exiting = i.gs.cr3_exiting
        /\ ~x.gs.in_exit /\ x.gs.halt = i.gs.halt /\ x.gs.window = i.gs.window
    BY <2>3 DEF IsVcpu
  <2> HIDE DEF x
  <2>5. SameCache(i, x)
    BY <2>3, <2>4, CacheFrame
  <2>6. IsVcpu(x) /\ Dirty(x) = {} /\ \A f \in Fields : Eff(x, f) = Eff(v, f)
    BY <1>3, <2>1, <2>2, <2>5 DEF SameCache, CacheOk
  <2>7. /\ x.pic = v.pic /\ x.apic = v.apic /\ x.run = v.run /\ x.failed = v.failed
        /\ x.gs.cr = v.gs.cr /\ x.gs.cr3_exiting = v.gs.cr3_exiting
        /\ x.gs.halt = v.gs.halt /\ x.gs.window = v.gs.window
    BY <1>3, <2>1, <2>2, <2>4 DEF SameRest
  <2>8. vm_apic_has_interrupt(x) = vm_apic_has_interrupt(v)
    BY <2>7, HasDepends
  <2>9. Noticed(x)
    BY <2>7, <2>8 DEF Noticed
  <2>10. SameCr(v, x)
    BY <1>1, <2>6, <2>7 DEF SameCr
  <2>11. AtHead(x, pulse)
    BY <1>1, <1>2, <1>7, <2>4, <2>6, <2>7, <2>9 DEF AtHead
  <2> QED
    BY <1>4, <1>7, <2>6, <2>7, <2>10, <2>11 DEF w
<1>8. CASE ~ (v.gs.in_exit /\ ~v.gs.halt)
  <2>1. /\ s.pic = v.pic /\ s.apic = v.apic /\ s.run = v.run /\ s.failed = v.failed
        /\ s.gs.cr = v.gs.cr /\ s.gs.cr3_exiting = v.gs.cr3_exiting
        /\ s.gs.halt = v.gs.halt /\ s.gs.window = v.gs.window /\ s.gs.in_exit = v.gs.in_exit
    BY <1>3 DEF SameRest
  <2>2. vm_apic_has_interrupt(s) = vm_apic_has_interrupt(v)
    BY <2>1, HasDepends
  <2>3. Noticed(s)
    BY <2>1, <2>2 DEF Noticed
  <2>4. SameCr(v, s)
    BY <1>1, <1>3, <2>1 DEF SameCr
  <2>5. IsVcpu(s) /\ (s.gs.halt <=> s.gs.in_exit)
    BY <1>3, <1>8, <2>1 DEF CacheOk
  <2>6. AtHead(s, pulse)
    BY <1>1, <1>2, <1>3, <1>6, <2>1, <2>3, <2>5 DEF AtHead
  <2> QED
    BY <1>4, <1>8, <2>1, <2>4, <2>5, <2>6 DEF w
<1> QED
  BY <1>7, <1>8

\* From the handler's result to the head of the loop.
LEMMA TurnHead ==
    ASSUME NEW pulse, NEW v, Ready(v, pulse), NEW ret \in {-1, 0, 1}
    PROVE  LET w == AfterHandler(HandledAs(v, ret)) IN
           AtHead(w, pulse) /\ (w.run = "running" => SameCr(v, w) /\ ret # -1)
<1> DEFINE c == vm_check_external_interrupt(v)
           w == Continue(c, ret)
<1>1. AfterHandler(HandledAs(v, ret)) = w
  BY DEF AfterHandler, HandledAs
<1>2. VcpuInv(v, pulse) /\ v.failed = {} /\ Nested(v.apic) /\ v.gs.in_exit
  BY DEF Ready
<1>3. Worked(v, c, pulse)
  BY <1>2, AcceptNoticed, WorkedRefl DEF vm_check_external_interrupt
<1>4. v.run # "aborted" => Noticed(c) /\ v.run = "running"
  BY <1>2, CheckExternal DEF Ready
<1> HIDE DEF c
<1>5. /\ VcpuInv(c, pulse) /\ Nested(c.apic) /\ c.failed = {} /\ c.run = v.run /\ c.gs.in_exit
      /\ Quiet(v, c)
  BY <1>2, <1>3 DEF Worked, Stayed, Quiet
<1>6. SameCr(v, c)
  BY <1>5, QuietSameCr
<1>7. CASE c.run = "aborted"
  <2>1. w = c
    BY <1>7 DEF Continue
  <2>2. AtHead(c, pulse)
    BY <1>5, <1>7 DEF AtHead, VcpuInv
  <2> QED
    BY <1>1, <1>7, <2>1, <2>2
<1>8. CASE c.run # "aborted" /\ ret = -1
  <2> DEFINE x == [c EXCEPT !.run = "error"]
  <2>1. w = x
    BY <1>8 DEF Continue
  <2>2. IsVcpu(c)
    BY <1>5 DEF VcpuInv, CacheOk
  <2>3. x.run = "error" /\ x.pic = c.pic /\ x.apic = c.apic /\ x.failed = c.failed
    BY <2>2 DEF IsVcpu
  <2> HIDE DEF x
  <2>4. AtHead(x, pulse)
    BY <1>5, <2>3 DEF AtHead, VcpuInv
  <2> QED
    BY <1>1, <2>1, <2>3, <2>4
<1>9. CASE c.run # "aborted" /\ ret # -1
  <2> DEFINE s == vm_resume(c)
             x == [s EXCEPT !.run = "stopped"]
  <2>1. w = IF ret = 0 THEN x ELSE s
    BY <1>9 DEF Continue
  <2>3. AtHead(s, pulse) /\ SameCr(c, s) /\ IsVcpu(s) /\ s.run = "running"
    BY <1>4, <1>5, <1>9, ResumeHead
  <2> HIDE DEF s
  <2>4. CASE ret = 0
    <3>1. x.run = "stopped" /\ x.pic = s.pic /\ x.apic = s.apic /\ x.failed = s.failed
      BY <2>3, <2>4 DEF IsVcpu
    <3> HIDE DEF x
    <3>2. AtHead(x, pulse)
      BY <2>3, <3>1 DEF AtHead
    <3> QED
      BY <1>1, <2>1, <2>4, <3>1, <3>2
  <2>5. CASE ret # 0
    <3>1. SameCr(v, s)
      BY <1>6, <2>3 DEF SameCr
    <3> QED
      BY <1>1, <1>9, <2>1, <2>3, <2>5, <3>1
  <2> QED
    BY <2>4, <2>5
<1> QED
  BY <1>7, <1>8, <1>9

\* VMEnter has returned: the cache holds what the fault message brought.
LEMMA ExitedHandling ==
    ASSUME AtHead(Machine, PulsePins), Entered
    PROVE  /\ Handling(Exited, PulsePins) /\ SameCr(Machine, Exited)
           /\ Exited.gs.entry = gs.entry /\ Exited.gs.window = gs.window
           /\ Exited.pic = pic
           /\ \A f \in Fields : Eff(Exited, f) = hw[f]
<1> DEFINE v == Machine
           i == vm_guest_state_invalidate_all(v)
           x == [i EXCEPT !.gs.in_exit = TRUE]
           fetched == {"rflags", "guest_interruptibility", "cr3", "context"}
           m == [f \in Fields |-> IF f \in fetched THEN Valid(x.hw[f]) ELSE x.gs.machine[f]]
           w == [x EXCEPT !.gs.machine = m]
<1>1. /\ v.pic = pic /\ v.apic = apic /\ v.hw = hw /\ v.gs = gs /\ v.run = run
      /\ v.failed = failed
  BY DEF Machine
<1>2. v.run = "running" /\ ~v.gs.halt /\ ~v.gs.in_exit
  BY <1>1 DEF Entered
<1> HIDE DEF v
<1>3. Exited = w
  BY DEF Exited, vm_update_guest_state_from_fault, v
<1>4. /\ IsVcpu(v) /\ Dirty(v) = {} /\ Noticed(v) /\ v.failed = {} /\ Nested(v.apic)
      /\ PicInv(v.pic, PulsePins) /\ IsApic(v.apic) /\ (Eff(v, "rflags") => BasesSet(v.pic))
  BY <1>2 DEF AtHead, v
<1>5. SameRest(v, i) /\ SameCache(v, i) /\ i.hw = v.hw
  BY <1>4, InvalidateKeeps
<1> HIDE DEF i
<1>6. IsVcpu(i) /\ CacheOk(i) /\ Dirty(i) = {}
  BY <1>4, <1>5 DEF SameCache, CacheOk
<1>7. /\ DOMAIN x = DOMAIN i /\ x.hw = i.hw /\ DOMAIN x.gs = DOMAIN i.gs
      /\ x.gs.machine = i.gs.machine /\ x.pic = i.pic /\ x.apic = i.apic /\ x.run = i.run
      /\ x.failed = i.failed /\ x.gs.cr = i.gs.cr /\ x.gs.cr3_exiting = i.gs.cr3_exiting
      /\ x.gs.in_exit /\ x.gs.halt = i.gs.halt /\ x.gs.window = i.gs.window
      /\ x.gs.entry = i.gs.entry
  BY <1>6 DEF IsVcpu
<1> HIDE DEF x
<1>8. IsVcpu(x) /\ CacheOk(x) /\ Dirty(x) = {}
  BY <1>6, <1>7, CacheFrame DEF SameCache, CacheOk
<1>9. /\ DOMAIN m = Fields /\ \A f \in fetched : m[f] = Valid(x.hw[f])
      /\ \A f \in Fields \ fetched : m[f] = x.gs.machine[f]
  BY DEF Fields
<1> HIDE DEF m
<1>10. /\ DOMAIN w = DOMAIN x /\ w.hw = x.hw /\ DOMAIN w.gs = DOMAIN x.gs
       /\ w.gs.machine = m /\ w.pic = x.pic /\ w.apic = x.apic /\ w.run = x.run
       /\ w.failed = x.failed /\ w.gs.cr = x.gs.cr /\ w.gs.cr3_exiting = x.gs.cr3_exiting
       /\ w.gs.in_exit = x.gs.in_exit /\ w.gs.halt = x.gs.halt /\ w.gs.window = x.gs.window
       /\ w.gs.entry = x.gs.entry
  BY <1>8 DEF IsVcpu
<1> HIDE DEF w
<1>11. \A f \in Fields : x.gs.machine[f].status # "modified"
  BY <1>8 DEF Dirty
<1>12. CacheOk(w) /\ \A f \in Fields : w.gs.machine[f].status # "modified"
  <2>1. \A f \in fetched : m[f] = Valid(w.hw[f]) /\ m[f].status # "modified"
    BY <1>9, <1>10, SMTT(30) DEF Valid
  <2>2. \A f \in Fields \ fetched : /\ m[f] = Unknown \/ m[f] = Valid(w.hw[f])
                                    /\ m[f].status # "modified"
    BY <1>8, <1>9, <1>10, <1>11 DEF CacheOk
  <2>3. IsVcpu(w)
    BY <1>8, <1>9, <1>10 DEF IsVcpu
  <2> HIDE DEF fetched
  <2> QED
    BY <1>10, <2>1, <2>2, <2>3 DEF CacheOk
<1>13. \A f \in Fields : Eff(w, f) = hw[f] /\ Eff(v, f) = hw[f]
  BY <1>1, <1>4, <1>5, <1>7, <1>10, <1>12 DEF Eff, Dirty
<1>14. /\ w.pic = v.pic /\ w.apic = v.apic /\ w.run = v.run /\ w.failed = v.failed
       /\ w.gs.cr = v.gs.cr /\ w.gs.cr3_exiting = v.gs.cr3_exiting
       /\ w.gs.halt = v.gs.halt /\ w.gs.window = v.gs.window /\ w.gs.entry = v.gs.entry
       /\ w.gs.in_exit
  BY <1>5, <1>7, <1>10 DEF SameRest
<1>15. vm_apic_has_interrupt(w) = vm_apic_has_interrupt(v)
  BY <1>14, HasDepends
<1>16. "rflags" \in Fields /\ {"cr0", "cr3", "cr4"} \subseteq Fields
  BY DEF Fields
<1>17. VcpuInv(w, PulsePins)
  BY <1>4, <1>12, <1>13, <1>14, <1>16 DEF VcpuInv
<1>18. Noticed(w)
  BY <1>4, <1>14, <1>15 DEF Noticed
<1>19. Handling(w, PulsePins)
  BY <1>2, <1>4, <1>14, <1>17, <1>18 DEF Handling
<1>20. SameCr(v, w)
  BY <1>13, <1>14, <1>16 DEF SameCr
<1> QED
  BY <1>1, <1>3, <1>13, <1>14, <1>19, <1>20 DEF v

\* A device has changed the 8259s, and the loop looks at them before it goes on.
LEMMA CallbackHead ==
    ASSUME NEW pulse, NEW v, VcpuInv(v, pulse), v.failed = {}, Nested(v.apic), Noticed(v),
           v.run = "running", v.gs.halt <=> v.gs.in_exit, ~v.gs.in_exit => Dirty(v) = {},
           NEW p, PicInv(p, pulse), Eff(v, "rflags") => BasesSet(p), NEW err
    PROVE  LET w == AfterCallback(WithPic(v, p), err) IN
           AtHead(w, pulse) /\ (w.run = "running" => SameCr(v, w))
<1> DEFINE u == WithPic(v, p)
           c == IF i8259_has_interrupt(u.pic) THEN vm_check_external_interrupt(u) ELSE u
           e == [u EXCEPT !.run = "error"]
<1>1. /\ VcpuInv(u, pulse) /\ Quiet(v, u) /\ u.apic = v.apic /\ u.gs = v.gs /\ u.pic = p
      /\ Noticed(u) \/ (vm_apic_accept_pic_intr(u.apic) /\ i8259_has_interrupt(p))
  BY PicChanged, SMTT(30)
<1> HIDE DEF u
<1>2. AfterCallback(u, err) = IF err THEN e ELSE vm_resume(c)
  BY DEF AfterCallback
<1>3. CASE err
  <2>1. IsVcpu(u)
    BY <1>1 DEF VcpuInv, CacheOk
  <2>2. e.run = "error" /\ e.pic = u.pic /\ e.apic = u.apic /\ e.failed = u.failed
    BY <2>1 DEF IsVcpu
  <2> HIDE DEF e
  <2>3. AtHead(e, pulse)
    BY <1>1, <2>2 DEF AtHead, VcpuInv, Quiet
  <2> QED
    BY <1>2, <1>3, <2>2, <2>3 DEF u
<1>4. CASE ~err
  <2>1. Worked(u, c, pulse) /\ Noticed(c)
    BY <1>1, CheckExternal, WorkedRefl
  <2> HIDE DEF c
  <2>2. /\ VcpuInv(c, pulse) /\ Nested(c.apic) /\ c.failed = {} /\ c.run = "running"
        /\ c.gs.in_exit = v.gs.in_exit /\ (c.gs.halt => v.gs.halt) /\ Dirty(c) = Dirty(v)
    BY <1>1, <2>1 DEF Worked, Stayed, Quiet, SameCache
  <2>3. SameCr(v, c)
    <3>1. Quiet(u, c)
      BY <2>1 DEF Worked, Stayed
    <3>2. SameCr(v, u) /\ SameCr(u, c)
      BY <1>1, <3>1, QuietSameCr
    <3> QED
      BY <3>2 DEF SameCr
  <2> DEFINE w == vm_resume(c)
  <2>4. AtHead(w, pulse) /\ SameCr(c, w)
    BY <2>1, <2>2, ResumeHead
  <2> HIDE DEF w
  <2>5. SameCr(v, w)
    BY <2>3, <2>4 DEF SameCr
  <2> QED
    BY <1>2, <1>4, <2>4, <2>5 DEF w, u
<1> QED
  BY <1>3, <1>4

(***************************************************************************)
(* The invariant of the loop's head                                        *)
(***************************************************************************)
LoopInv == AtHead(Machine, PulsePins) /\ (run = "running" => CrView(Machine, wrote))
=============================================================================
