----------------------------- MODULE DmaProofs ------------------------------
(***************************************************************************)
(* Proofs about DMA memory, for every set of descriptors, sizes and        *)
(* alignments: clients own what they hold, addresses are looked up to      *)
(* their owner, requests are refused only when no free run is long enough, *)
(* and idle descriptors are given back.                                    *)
(***************************************************************************)
EXTENDS Dma, TLAPS, WellFoundedInduction

\* Leaves that name no prover go to Zenon.
USE ZenonT(30)

\* A set of numbers has a least element, so the first region, the end of a
\* region and the first node that serves are well defined.
LEMMA LeastElement ==
  ASSUME NEW S, S \subseteq Nat, S # {}
  PROVE  Min(S) \in S /\ \A x \in S : Min(S) <= x
<1>1. \E x \in S : \A y \in S : ~ (<<y, x>> \in OpToRel(<, Nat))
  BY NatLessThanWellFounded, WFMin
<1>2. PICK x \in S : \A y \in S : ~ (<<y, x>> \in OpToRel(<, Nat)) BY <1>1
<1>3. \A y \in S : ~ (y < x) BY <1>2 DEF OpToRel
<1>4. \A y \in S : x <= y BY <1>3, SMTT(30)
<1> QED BY <1>4, ZenonT(60) DEF Min

\* A bounded set of numbers has a greatest element.
LEMMA GreatestElement ==
  ASSUME NEW S, S \subseteq Nat, S # {}, NEW b \in Nat, \A x \in S : x <= b
  PROVE  Max(S) \in S /\ \A x \in S : Max(S) >= x
<1> DEFINE T == {b - x : x \in S}
<1>1. T \subseteq Nat /\ T # {}
  <2>1. \A x \in S : b - x \in Nat BY SMTT(30)
  <2> QED BY <2>1
<1> HIDE DEF T
<1>2. Min(T) \in T /\ \A t \in T : Min(T) <= t BY <1>1, LeastElement
<1>3. PICK x \in S : Min(T) = b - x BY <1>2 DEF T
<1>4. \A y \in S : b - y \in T BY SMTT(30) DEF T
<1>5. \A y \in S : b - x <= b - y BY <1>2, <1>3, <1>4, SMTT(30)
<1>6. \A y \in S : x >= y BY <1>5, SMTT(30)
<1> QED BY <1>6, ZenonT(60) DEF Max

\* A multiple has no remainder.
LEMMA ModOfMultiple ==
  ASSUME NEW k \in Nat, NEW p \in Nat \ {0}
  PROVE  (k * p) % p = 0
BY SMTT(30)

\* A number without remainder is a multiple.
LEMMA MultipleOfMod ==
  ASSUME NEW x \in Nat, NEW p \in Nat \ {0}, x % p = 0
  PROVE  \E k \in Nat : x = k * p
BY SMTT(30)

(***************************************************************************)
(* One node                                                                *)
(***************************************************************************)
Node == [desc : Descs, regions : SUBSET Nat, used : SUBSET Nat]
GoodNode(n) ==
    /\ n \in Node /\ n.regions # {} /\ n.used \subseteq n.regions
    /\ \A p \in n.regions : p < n.desc.size

\* m is node n some time later: the allocations in keep are still there, and
\* have not become shorter.
Preserves(n, m, keep) ==
    /\ GoodNode(m) /\ m.desc = n.desc /\ keep \subseteq m.used
    /\ \A u \in keep : End(n, u) <= End(m, u)

\* The sizes of descriptors are positive.
LEMMA DescFacts ==
  ASSUME NEW d \in Descs
  PROVE  d.vaddr \in Nat /\ d.paddr \in Nat /\ d.size \in Nat \ {0}
BY DmaAssumption

\* A region ends behind its start, where the next one starts or with the node.
LEMMA EndFacts ==
  ASSUME NEW n, GoodNode(n), NEW o \in n.regions
  PROVE  /\ End(n, o) \in Nat /\ o \in Nat /\ o < End(n, o) /\ End(n, o) <= n.desc.size
         /\ \A p \in n.regions : o < p => End(n, o) <= p
         /\ End(n, o) = n.desc.size \/ End(n, o) \in n.regions
<1> DEFINE S == {p \in n.regions : p > o} \cup {n.desc.size}
<1>1. n.desc \in Descs /\ n.regions \subseteq Nat BY SMTT(30) DEF GoodNode, Node
<1>2. n.desc.size \in Nat \ {0} BY <1>1, DescFacts
<1>3. S \subseteq Nat /\ S # {} BY <1>1, <1>2, SMTT(30)
<1>4. n.desc.size \in S /\ \A p \in n.regions : p > o => p \in S BY SMTT(30)
<1>5. \A x \in S : o < x /\ (x = n.desc.size \/ x \in n.regions) BY <1>1, <1>2, SMTT(30) DEF GoodNode
<1> HIDE DEF S
<1>6. Min(S) \in S /\ \A x \in S : Min(S) <= x BY <1>3, LeastElement
<1>7. End(n, o) = Min(S) BY SMTT(30) DEF End, S
<1> QED BY <1>1, <1>2, <1>3, <1>4, <1>5, <1>6, <1>7

\* Nothing starts in the first x bytes behind o: its region is as long as that.
LEMMA EndBound ==
  ASSUME NEW n, GoodNode(n), NEW o \in n.regions, NEW x \in Nat, x <= n.desc.size,
         \A p \in n.regions : o < p => x <= p
  PROVE  x <= End(n, o)
<1>1. o \in Nat /\ o < End(n, o) /\ (End(n, o) = n.desc.size \/ End(n, o) \in n.regions) BY EndFacts
<1> QED BY <1>1

\* A node whose regions are some of those of another has longer regions.
LEMMA EndGrows ==
  ASSUME NEW n, GoodNode(n), NEW m, GoodNode(m), m.desc = n.desc, m.regions \subseteq n.regions,
         NEW o \in m.regions
  PROVE  End(n, o) <= End(m, o)
<1>1. o \in n.regions BY SMTT(30)
<1>2. /\ End(n, o) \in Nat /\ End(n, o) <= m.desc.size
      /\ \A p \in m.regions : o < p => End(n, o) <= p
  BY <1>1, EndFacts
<1> QED BY <1>2, EndBound

\* The first region.
LEMMA FirstFacts ==
  ASSUME NEW n, GoodNode(n)
  PROVE  FirstRegion(n) \in n.regions /\ \A p \in n.regions : FirstRegion(n) <= p
BY LeastElement DEF GoodNode, Node, FirstRegion

\* Joining free regions on the walk of dma_memd_alloc keeps every used region
\* and never shortens one.
LEMMA CompactPreserves ==
  ASSUME NEW n, GoodNode(n)
  PROVE  /\ Preserves(n, Compact(n), n.used) /\ Compact(n).used = n.used
         /\ Compact(n).regions \subseteq n.regions
         /\ \A p \in n.regions : p \in Compact(n).regions <=>
                                   \A o \in n.regions : _is_free(n, o) => ~Follows(n, o, p)
<1> DEFINE m == Compact(n)
           kept == {p \in n.regions : \A o \in n.regions : _is_free(n, o) => ~Follows(n, o, p)}
<1>1. n \in Node /\ n.used \subseteq n.regions /\ n.regions \subseteq Nat BY SMTT(30) DEF GoodNode, Node
<1>2. m \in Node /\ m.regions = kept /\ m.used = n.used /\ m.desc = n.desc BY <1>1, SMTT(30) DEF Compact, Node
<1>3. FirstRegion(n) \in kept BY FirstFacts, <1>1, SMTT(30) DEF Follows
<1>4. n.used \subseteq kept BY <1>1, SMTT(30) DEF Follows
<1> HIDE DEF m
<1>5. GoodNode(m) BY <1>2, <1>3, <1>4, SMTT(30) DEF GoodNode
<1>6. m.regions \subseteq n.regions BY <1>2, SMTT(30)
<1> HIDE DEF kept
<1>7. \A u \in n.used : End(n, u) <= End(m, u) BY <1>2, <1>4, <1>5, <1>6, EndGrows
<1>8. \A p \in n.regions : p \in m.regions <=> \A o \in n.regions : _is_free(n, o) => ~Follows(n, o, p)
  BY <1>2, SMTT(30) DEF kept
<1> QED BY <1>2, <1>5, <1>6, <1>7, <1>8, SMTT(30) DEF Preserves, m

\* So does _mem_compact, at whatever region it is called.
LEMMA MemCompactPreserves ==
  ASSUME NEW n, GoodNode(n), NEW o \in n.regions
  PROVE  Preserves(n, _mem_compact(n, o), n.used) /\ _mem_compact(n, o).used = n.used
<1> DEFINE m == _mem_compact(n, o)
           kept == {p \in n.regions : ~Follows(n, o, p)}
<1>1. n \in Node /\ n.used \subseteq n.regions /\ n.regions \subseteq Nat BY SMTT(30) DEF GoodNode, Node
<1>2. m \in Node /\ m.regions = kept /\ m.used = n.used /\ m.desc = n.desc BY <1>1, SMTT(30) DEF _mem_compact, Node
<1>3. o \in kept BY <1>1, SMTT(30) DEF Follows
<1>4. n.used \subseteq kept BY <1>1, SMTT(30) DEF Follows
<1> HIDE DEF m
<1>5. GoodNode(m) BY <1>2, <1>3, <1>4, SMTT(30) DEF GoodNode
<1>6. m.regions \subseteq n.regions BY <1>2, SMTT(30)
<1> HIDE DEF kept
<1>7. \A u \in n.used : End(n, u) <= End(m, u) BY <1>2, <1>4, <1>5, <1>6, EndGrows
<1> QED BY <1>2, <1>5, <1>6, <1>7, SMTT(30) DEF Preserves, m

\* Freeing a region leaves the others.
LEMMA FreePreserves ==
  ASSUME NEW n, GoodNode(n), NEW o \in n.regions
  PROVE  Preserves(n, Freed(n, o), n.used \ {o}) /\ Freed(n, o).used = n.used \ {o}
<1> DEFINE f == [n EXCEPT !.used = @ \ {o}]
<1>1. /\ f \in Node /\ f.desc = n.desc /\ f.regions = n.regions /\ f.used = n.used \ {o}
  BY SMTT(30) DEF GoodNode, Node
<1> HIDE DEF f
<1>2. GoodNode(f) BY <1>1, SMTT(30) DEF GoodNode
<1>3. Preserves(f, _mem_compact(f, o), f.used) /\ _mem_compact(f, o).used = f.used
  BY <1>1, <1>2, MemCompactPreserves
<1>4. \A u : End(f, u) = End(n, u) BY <1>1, SMTT(30) DEF End
<1>5. Preserves(n, _mem_compact(f, o), n.used \ {o}) BY <1>1, <1>3, <1>4 DEF Preserves
<1> QED BY <1>1, <1>3, <1>5 DEF f, Freed

(***************************************************************************)
(* Alignment                                                               *)
(***************************************************************************)
\* The bytes to skip are fewer than the alignment and lead to a multiple of it.
LEMMA SkipFacts ==
  ASSUME NEW x \in Nat, NEW a \in Nat \ {0}
  PROVE  (-x) % a \in Nat /\ (-x) % a < a /\ (x + ((-x) % a)) % a = 0
<1>1. (-x) % a \in 0 .. a - 1 BY SMTT(30)
<1>2. -x = a * ((-x) \div a) + ((-x) % a) /\ (-x) \div a \in Int BY SMTT(30)
<1> DEFINE q == (-x) \div a
           s == (-x) % a
<1> HIDE DEF q, s
<1>3. q \in Int /\ s \in 0 .. a - 1 /\ x + s = a * (-q) BY <1>1, <1>2, SMTT(30) DEF q, s
<1>4. -q \in Nat /\ x + s = (-q) * a
  <2>1. CASE -q < 0
    <3>1. a * (-q) < 0 BY <1>3, <2>1, SMTT(30)
    <3> QED BY <1>3, <3>1, SMTT(30)
  <2>2. CASE -q >= 0 BY <1>3, <2>2, SMTT(30)
  <2> QED BY <1>3, <2>1, <2>2, SMTT(30)
<1>5. (x + s) % a = 0 BY <1>4, ModOfMultiple
<1> QED BY <1>1, <1>5, SMTT(30) DEF s
\* The skipped bytes end at or before the next multiple.
LEMMA SkipLeast ==
  ASSUME NEW x \in Nat, NEW y \in Nat, x <= y, NEW a \in Nat \ {0}, y % a = 0
  PROVE  (-x) % a <= y - x
<1>1. (-x) % a \in 0 .. a - 1 BY SMTT(30)
<1>2. -x = a * ((-x) \div a) + ((-x) % a) /\ (-x) \div a \in Int BY SMTT(30)
<1>3. PICK k \in Nat : y = k * a BY MultipleOfMod
<1> DEFINE q == (-x) \div a
           s == (-x) % a
<1> HIDE DEF q, s
<1>4. q \in Int /\ s \in 0 .. a - 1 /\ y - x = a * (k + q) + s BY <1>1, <1>2, <1>3, SMTT(30) DEF q, s
<1>5. k + q >= 0
  <2>1. SUFFICES ASSUME k + q <= -1 PROVE FALSE BY <1>4, SMTT(30)
  <2>2. a * (k + q) <= -a BY <1>4, <2>1, SMTT(30)
  <2> QED BY <1>4, <2>2, SMTT(30)
<1>6. a * (k + q) >= 0 BY <1>4, <1>5, SMTT(30)
<1> QED BY <1>4, <1>6, SMTT(30) DEF s

\* An allocation r from node n: aligned and long enough, in memory that was
\* free; those that were there stay.
NewAllocation(n, r, size, align) ==
    /\ Preserves(n, r.node, n.used) /\ r.node.used = n.used \cup {r.offset}
    /\ r.offset \in Nat /\ r.offset \notin n.used
    /\ r.offset + size <= End(r.node, r.offset)
    /\ (n.desc.paddr + r.offset) % align = 0

\* What dma_memd_alloc returns.
LEMMA AllocPreserves ==
  ASSUME NEW n, GoodNode(n), NEW size \in Nat \ {0}, NEW align \in Nat \ {0}, NEW malloc \in BOOLEAN,
         Candidates(n, size, align) # {}, NEW r, r = dma_memd_alloc(n, size, align, malloc)
  PROVE  NewAllocation(n, r, size, align)
<1> DEFINE c == Compact(n)
           o == Min(Candidates(n, size, align))
           skip == Skip(c, o, align)
           offset == o + skip
           split == IF malloc /\ offset + size < End(c, o) THEN {offset + size} ELSE {}
           before == {p \in c.regions : p < o}
           behind == {p \in n.regions : p >= End(c, o)}
           regions == before \cup {offset} \cup split \cup behind
           m == [n EXCEPT !.regions = regions, !.used = @ \cup {offset}]
<1>1. r.node = m /\ r.offset = offset BY SMTT(30) DEF dma_memd_alloc
<1>2. /\ GoodNode(c) /\ c.desc = n.desc /\ c.used = n.used /\ c.regions \subseteq n.regions
      /\ \A u \in n.used : End(n, u) <= End(c, u)
  BY CompactPreserves DEF Preserves
<1>3. /\ n \in Node /\ n.regions \subseteq Nat /\ n.used \subseteq n.regions /\ n.desc \in Descs
      /\ c.used \subseteq c.regions /\ \A p \in n.regions : p < n.desc.size
  BY <1>2, SMTT(30) DEF GoodNode, Node
<1>4. n.desc.paddr \in Nat /\ n.desc.size \in Nat BY <1>3, DescFacts
<1>5. Candidates(n, size, align) \subseteq Nat BY <1>2, <1>3, SMTT(30) DEF Candidates
<1>6. o \in Candidates(n, size, align) BY <1>5, LeastElement
<1>7. o \in c.regions /\ Fits(c, o, size, align) BY <1>6, SMTT(30) DEF Candidates
<1>8. /\ End(c, o) \in Nat /\ o \in Nat /\ o < End(c, o) /\ End(c, o) <= n.desc.size
      /\ \A p \in c.regions : o < p => End(c, o) <= p
      /\ End(c, o) = n.desc.size \/ End(c, o) \in c.regions
  BY <1>2, <1>7, EndFacts
<1> HIDE DEF c, o
<1>9. skip \in Nat /\ (n.desc.paddr + offset) % align = 0
  <2>1. n.desc.paddr + o \in Nat BY <1>4, <1>8, SMTT(30)
  <2>2. /\ (-(n.desc.paddr + o)) % align \in Nat
        /\ ((n.desc.paddr + o) + ((-(n.desc.paddr + o)) % align)) % align = 0
    BY <2>1, SkipFacts
  <2>3. skip = (-(n.desc.paddr + o)) % align BY <1>2, SMTT(30) DEF Skip
  <2> HIDE DEF skip
  <2>4. skip \in Nat /\ ((n.desc.paddr + o) + skip) % align = 0 BY <2>2, <2>3
  <2>5. (n.desc.paddr + o) + skip = n.desc.paddr + offset BY <1>4, <1>8, <2>4, SMTT(30)
  <2> QED BY <2>4, <2>5
<1>10. o \notin n.used /\ offset + size <= End(c, o)
  BY <1>2, <1>7, <1>8, <1>9, SMTT(30) DEF Fits, _is_free, _mem_size
<1> HIDE DEF skip
<1>11. offset \in Nat /\ o <= offset /\ offset < End(c, o) BY <1>8, <1>9, <1>10, SMTT(30)
<1> HIDE DEF offset
<1>12. split \subseteq Nat /\ \A p \in split : p = offset + size /\ p < End(c, o)
  BY <1>11, SMTT(30)
<1> HIDE DEF split
<1>13. \A p \in regions :
                         \/ p \in c.regions /\ p < o
                         \/ p = offset
                         \/ p = offset + size /\ p < End(c, o)
                         \/ p \in n.regions /\ End(c, o) <= p
  BY <1>12
<1>14. regions \subseteq Nat /\ offset \in regions /\ \A p \in regions : p < n.desc.size
  BY <1>2, <1>3, <1>4, <1>8, <1>11, <1>13, SMTT(30)
<1>15. \A u \in n.used : u # offset /\ u \in regions /\ (u < o \/ End(c, o) <= u)
  <2> SUFFICES ASSUME NEW u \in n.used PROVE u # offset /\ u \in regions /\ (u < o \/ End(c, o) <= u)
    BY SMTT(30)
  <2>1. u \in c.regions /\ u \in n.regions /\ u # o /\ u \in Nat BY <1>2, <1>3, <1>10
  <2>2. u < o \/ End(c, o) <= u BY <1>8, <2>1, SMTT(30)
  <2>3. u # offset BY <1>8, <1>11, <2>1, <2>2, SMTT(30)
  <2>4. u \in before \/ u \in behind BY <2>1, <2>2, SMTT(30)
  <2> QED BY <2>2, <2>3, <2>4
<1> HIDE DEF regions
<1>16. m \in Node /\ m.regions = regions /\ m.used = n.used \cup {offset} /\ m.desc = n.desc
  BY <1>3, <1>11, <1>14 DEF Node
<1> HIDE DEF m
<1>17. GoodNode(m) BY <1>14, <1>15, <1>16 DEF GoodNode
<1>18. offset + size <= End(m, offset)
  <2>1. offset + size \in Nat /\ offset + size <= m.desc.size BY <1>4, <1>8, <1>10, <1>11, <1>16, SMTT(30)
  <2>2. ASSUME NEW p \in m.regions, offset < p PROVE offset + size <= p
    <3>1. p \in regions /\ p \in Nat BY <1>14, <1>16
    <3>2. CASE p < o BY <1>8, <1>11, <2>2, <3>1, <3>2, SMTT(30)
    <3>3. CASE p = offset + size BY <1>11, <3>3, SMTT(30)
    <3>4. CASE End(c, o) <= p BY <1>8, <1>10, <1>11, <3>1, <3>4, SMTT(30)
    <3> QED BY <1>13, <2>2, <3>1, <3>2, <3>3, <3>4, SMTT(30)
  <2> QED BY <1>14, <1>16, <1>17, <2>1, <2>2, EndBound
<1>19. \A u \in n.used : End(n, u) <= End(m, u)
  <2> SUFFICES ASSUME NEW u \in n.used PROVE End(n, u) <= End(m, u) BY SMTT(30)
  <2>1. u \in n.regions /\ u \in c.regions /\ u \in m.regions BY <1>2, <1>3, <1>15, <1>16
  <2>2. /\ End(n, u) \in Nat /\ u \in Nat /\ End(n, u) <= n.desc.size
        /\ \A p \in n.regions : u < p => End(n, u) <= p
    BY <2>1, EndFacts
  <2>3. \A p \in m.regions : u < p => End(n, u) <= p
    <3> SUFFICES ASSUME NEW p \in m.regions, u < p PROVE End(n, u) <= p BY SMTT(30)
    <3>0. p \in regions /\ p \in Nat BY <1>14, <1>16
    <3>1. CASE u < o
      <4>1. o \in n.regions BY <1>2, <1>7
      <4>2. End(n, u) <= o BY <2>2, <3>1, <4>1
      <4>3. CASE p \in c.regions BY <1>2, <2>2, <4>3
      <4>4. CASE o <= p BY <1>8, <2>2, <3>0, <4>2, <4>4, SMTT(30)
      <4> QED BY <1>8, <1>11, <1>13, <3>0, <4>3, <4>4, SMTT(30)
    <3>2. CASE End(c, o) <= u
      <4>1. p \in n.regions BY <1>2, <1>8, <1>11, <1>13, <2>2, <3>0, <3>2, SMTT(30)
      <4> QED BY <2>2, <4>1
    <3> QED BY <1>15, <3>1, <3>2
  <2> QED BY <1>16, <1>17, <2>1, <2>2, <2>3, EndBound
<1>20. Preserves(n, m, n.used) BY <1>16, <1>17, <1>19 DEF Preserves
<1>21. r.offset \notin n.used BY <1>1, <1>15
<1> QED BY <1>1, <1>9, <1>11, <1>16, <1>18, <1>20, <1>21 DEF NewAllocation

(***************************************************************************)
(* The allocator, and what a change of one node means for it               *)
(***************************************************************************)
Allocation == [desc : Descs, offset : Nat, size : Nat \ {0}, align : Nat \ {0}]

Holds(n, h) ==
    /\ n.desc = h.desc /\ h.offset \in n.used /\ h.offset + h.size <= End(n, h.offset)
    /\ (h.desc.paddr + h.offset) % h.align = 0

\* The invariant, of any list of nodes ns, pool pl and set hd of allocations:
\* every descriptor is in one place, every allocation is held by a node, and
\* every used region belongs to one allocation.
Consistent(ns, pl, hd) ==
    /\ ns \in Seq(Node) /\ pl \subseteq Descs /\ hd \subseteq Allocation
    /\ \A k \in 1..Len(ns) : GoodNode(ns[k]) /\ ns[k].desc \notin pl
    /\ \A j, k \in 1..Len(ns) : ns[j].desc = ns[k].desc => j = k
    /\ \A h \in hd : \E k \in 1..Len(ns) : Holds(ns[k], h)
    /\ \A g, h \in hd : g.desc = h.desc /\ g.offset = h.offset => g = h
    /\ \A k \in 1..Len(ns) : \A o \in ns[k].used : \E h \in hd : h.desc = ns[k].desc /\ h.offset = o

DmaInv == Consistent(nodes, pool, held)

\* A node that keeps a region keeps the allocation in it.
LEMMA HoldsLater ==
  ASSUME NEW n, GoodNode(n), NEW m, NEW keep, Preserves(n, m, keep), NEW h \in Allocation,
         Holds(n, h), h.offset \in keep
  PROVE  Holds(m, h)
<1>1. h.offset \in Nat /\ h.size \in Nat BY SMTT(30) DEF Allocation
<1>2. h.offset \in n.regions /\ h.offset \in m.regions /\ GoodNode(m)
  BY SMTT(30) DEF Holds, Preserves, GoodNode
<1>3. End(n, h.offset) \in Nat /\ End(m, h.offset) \in Nat BY <1>2, EndFacts
<1>4. End(n, h.offset) <= End(m, h.offset) BY SMTT(30) DEF Preserves
<1>5. h.offset + h.size <= End(m, h.offset) BY <1>1, <1>3, <1>4, SMTT(30) DEF Holds
<1> QED BY <1>5, SMTT(30) DEF Holds, Preserves

\* Walking the nodes changes nothing for anyone.
LEMMA WalkStep ==
  ASSUME NEW ns, NEW pl, NEW hd, Consistent(ns, pl, hd), NEW t \in Seq(Node), Len(t) = Len(ns),
         \A k \in 1..Len(ns) : Preserves(ns[k], t[k], ns[k].used) /\ t[k].used = ns[k].used
  PROVE  Consistent(t, pl, hd)
<1>1. \A k \in 1..Len(ns) : GoodNode(t[k]) /\ t[k].desc = ns[k].desc BY DEF Preserves
<1>2. \A k \in 1..Len(t) : GoodNode(t[k]) /\ t[k].desc \notin pl BY <1>1 DEF Consistent
<1>3. \A j, k \in 1..Len(t) : t[j].desc = t[k].desc => j = k BY <1>1 DEF Consistent
<1>4. ASSUME NEW h \in hd PROVE \E k \in 1..Len(t) : Holds(t[k], h)
  <2>1. PICK k \in 1..Len(ns) : Holds(ns[k], h) BY SMTT(30) DEF Consistent
  <2>2. h \in Allocation /\ GoodNode(ns[k]) BY SMTT(30) DEF Consistent
  <2>3. h.offset \in ns[k].used BY <2>1, SMTT(30) DEF Holds
  <2>4. Holds(t[k], h) BY <2>1, <2>2, <2>3, HoldsLater
  <2> QED BY <2>4
<1>5. \A k \in 1..Len(t) : \A o \in t[k].used : \E h \in hd : h.desc = t[k].desc /\ h.offset = o
  BY <1>1, SMTT(30) DEF Consistent
<1> QED BY <1>2, <1>3, <1>4, <1>5 DEF Consistent

\* A fresh node is one free region.
LEMMA NewNodeGood ==
  ASSUME NEW d \in Descs
  PROVE  GoodNode(NewNode(d)) /\ NewNode(d).desc = d /\ NewNode(d).used = {}
<1>1. d.size \in Nat \ {0} BY DescFacts
<1> QED BY <1>1, SMTT(30) DEF GoodNode, NewNode, Node

\* A descriptor that is handed out and lost.
LEMMA DropStep ==
  ASSUME NEW ns, NEW pl, NEW hd, Consistent(ns, pl, hd), NEW d
  PROVE  Consistent(ns, pl \ {d}, hd)
BY SMTT(30) DEF Consistent

\* A descriptor becomes a node in front of the others.
LEMMA ProvideStep ==
  ASSUME NEW ns, NEW pl, NEW hd, Consistent(ns, pl, hd), NEW d \in pl
  PROVE  Consistent(<<NewNode(d)>> \o ns, pl \ {d}, hd)
<1> DEFINE x == NewNode(d)
           t == <<x>> \o ns
<1>1. d \in Descs /\ ns \in Seq(Node) BY SMTT(30) DEF Consistent
<1>2. GoodNode(x) /\ x.desc = d /\ x.used = {} BY <1>1, NewNodeGood
<1>3. x \in Node BY <1>2, SMTT(30) DEF GoodNode
<1> HIDE DEF x
<1>4. /\ t \in Seq(Node) /\ Len(t) = Len(ns) + 1 /\ t[1] = x
      /\ \A k \in 1..Len(ns) : t[k + 1] = ns[k]
  BY <1>1, <1>3, SMTT(30)
<1>5. \A k \in 1..Len(t) : k = 1 \/ (k - 1 \in 1..Len(ns) /\ t[k] = ns[k - 1])
  BY <1>1, <1>4, SMTT(30)
<1> HIDE DEF t
<1>6. \A k \in 1..Len(t) : GoodNode(t[k]) /\ t[k].desc \notin pl \ {d} BY <1>2, <1>4, <1>5, SMTT(30) DEF Consistent
<1>7. ASSUME NEW j \in 1..Len(t), NEW k \in 1..Len(t), t[j].desc = t[k].desc PROVE j = k
  <2>1. CASE j = 1 /\ k = 1 BY <2>1, SMTT(30)
  <2>2. CASE j = 1 /\ k # 1 BY <1>2, <1>4, <1>5, <1>7, <2>2, SMTT(30) DEF Consistent
  <2>3. CASE j # 1 /\ k = 1 BY <1>2, <1>4, <1>5, <1>7, <2>3, SMTT(30) DEF Consistent
  <2>4. CASE j # 1 /\ k # 1
    <3>1. j - 1 = k - 1 BY <1>5, <1>7, <2>4, SMTT(30) DEF Consistent
    <3> QED BY <3>1, SMTT(30)
  <2> QED BY <2>1, <2>2, <2>3, <2>4, SMTT(30)
<1>8. ASSUME NEW h \in hd PROVE \E k \in 1..Len(t) : Holds(t[k], h)
  <2>1. PICK k \in 1..Len(ns) : Holds(ns[k], h) BY SMTT(30) DEF Consistent
  <2>2. k + 1 \in 1..Len(t) /\ Holds(t[k + 1], h) BY <1>1, <1>4, <2>1, SMTT(30)
  <2> QED BY <2>2
<1>9. ASSUME NEW k \in 1..Len(t), NEW o \in t[k].used PROVE \E h \in hd : h.desc = t[k].desc /\ h.offset = o
  <2>1. k - 1 \in 1..Len(ns) /\ t[k] = ns[k - 1] BY <1>2, <1>4, <1>5, <1>9
  <2> QED BY <1>9, <2>1, SMTT(30) DEF Consistent
<1> QED BY <1>4, <1>6, <1>7, <1>8, <1>9 DEF Consistent, t, x

\* An allocation from the node k.
LEMMA AllocStep ==
  ASSUME NEW ns, NEW pl, NEW hd, Consistent(ns, pl, hd), NEW k \in 1..Len(ns),
         NEW size \in Nat \ {0}, NEW align \in Nat \ {0}, NEW malloc \in BOOLEAN,
         Candidates(ns[k], size, align) # {},
         NEW t \in Seq(Node), Len(t) = Len(ns),
         t[k] = dma_memd_alloc(ns[k], size, align, malloc).node,
         \A j \in 1..Len(ns) : j # k => t[j] = ns[j]
  PROVE  Consistent(t, pl, hd \cup {[desc |-> ns[k].desc,
                                     offset |-> dma_memd_alloc(ns[k], size, align, malloc).offset,
                                     size |-> size, align |-> align]})
<1> DEFINE r == dma_memd_alloc(ns[k], size, align, malloc)
           new == [desc |-> ns[k].desc, offset |-> r.offset, size |-> size, align |-> align]
<1>1. GoodNode(ns[k]) /\ ns[k].desc \in Descs BY DEF Consistent, GoodNode, Node
<1>2. /\ Preserves(ns[k], t[k], ns[k].used) /\ t[k].used = ns[k].used \cup {r.offset}
      /\ r.offset \in Nat /\ r.offset \notin ns[k].used
      /\ r.offset + size <= End(t[k], r.offset)
      /\ (ns[k].desc.paddr + r.offset) % align = 0
  <2>1. /\ Preserves(ns[k], r.node, ns[k].used) /\ r.node.used = ns[k].used \cup {r.offset}
        /\ r.offset \in Nat /\ r.offset \notin ns[k].used
        /\ r.offset + size <= End(r.node, r.offset)
        /\ (ns[k].desc.paddr + r.offset) % align = 0
    <3>1. NewAllocation(ns[k], r, size, align) BY <1>1, AllocPreserves
    <3> QED BY <3>1 DEF NewAllocation
  <2> QED BY <2>1
<1> HIDE DEF r
<1>3. /\ new \in Allocation /\ new.desc = ns[k].desc /\ new.offset = r.offset
      /\ new.size = size /\ new.align = align
  BY <1>1, <1>2 DEF Allocation
<1> HIDE DEF new
<1>4. \A j \in 1..Len(ns) : GoodNode(t[j]) /\ t[j].desc = ns[j].desc
  BY <1>2 DEF Consistent, Preserves
<1>5. Holds(t[k], new)
  BY <1>2, <1>3, <1>4 DEF Holds
<1>6. ASSUME NEW h \in hd PROVE \E j \in 1..Len(ns) : Holds(t[j], h)
  <2>1. PICK j \in 1..Len(ns) : Holds(ns[j], h) BY SMTT(30) DEF Consistent
  <2>2. CASE j = k
    <3>1. h \in Allocation /\ h.offset \in ns[k].used BY <2>1, <2>2 DEF Consistent, Holds
    <3>2. Holds(t[k], h) BY <1>1, <1>2, <2>1, <2>2, <3>1, HoldsLater
    <3> QED BY <3>2
  <2>3. CASE j # k BY <2>1, <2>3
  <2> QED BY <2>2, <2>3
<1>7. ASSUME NEW h \in hd PROVE ~(h.desc = new.desc /\ h.offset = new.offset)
  <2>1. PICK j \in 1..Len(ns) : Holds(ns[j], h) BY SMTT(30) DEF Consistent
  <2>2. CASE j = k BY <1>2, <1>3, <2>1, <2>2 DEF Holds
  <2>3. CASE j # k BY <1>3, <2>1, <2>3 DEF Holds, Consistent
  <2> QED BY <2>2, <2>3, SMTT(30)
<1>8. ASSUME NEW j \in 1..Len(ns), NEW o \in t[j].used
      PROVE  \E h \in hd \cup {new} : h.desc = t[j].desc /\ h.offset = o
  <2>1. CASE j = k /\ o = r.offset BY <1>3, <1>4, <2>1, SMTT(30)
  <2>2. CASE j # k \/ o # r.offset
    <3>1. o \in ns[j].used /\ t[j].desc = ns[j].desc BY <1>2, <1>4, <1>8, <2>2
    <3> QED BY <3>1, SMTT(30) DEF Consistent
  <2> QED BY <2>1, <2>2
<1>9. \A g, h \in hd \cup {new} : g.desc = h.desc /\ g.offset = h.offset => g = h
  BY <1>7 DEF Consistent
<1>10. \A h \in hd \cup {new} : \E j \in 1..Len(ns) : Holds(t[j], h) BY <1>5, <1>6
<1>11. \A j \in 1..Len(ns) : GoodNode(t[j]) /\ t[j].desc \notin pl BY <1>4, SMTT(30) DEF Consistent
<1>12. \A i, j \in 1..Len(ns) : t[i].desc = t[j].desc => i = j BY <1>4, SMTT(30) DEF Consistent
<1>13. hd \cup {new} \subseteq Allocation /\ pl \subseteq Descs BY <1>3, SMTT(30) DEF Consistent
<1>14. Consistent(t, pl, hd \cup {new}) BY <1>8, <1>9, <1>10, <1>11, <1>12, <1>13 DEF Consistent
<1> QED BY <1>14, SMTT(30) DEF new, r

\* The allocation h is given back to the node k that holds it.
LEMMA FreeStep ==
  ASSUME NEW ns, NEW pl, NEW hd, Consistent(ns, pl, hd), NEW h \in hd,
         NEW k \in 1..Len(ns), ns[k].desc = h.desc,
         NEW t, t = [ns EXCEPT ![k] = Freed(@, h.offset)]
  PROVE  Consistent(t, pl, hd \ {h})
<1>1. /\ GoodNode(ns[k]) /\ ns \in Seq(Node)
  BY SMTT(30) DEF Consistent
<1>2. h.offset \in ns[k].used BY SMTT(30) DEF Consistent, Holds
<1>3. h.offset \in ns[k].regions BY <1>1, <1>2, SMTT(30) DEF GoodNode
<1> DEFINE x == Freed(ns[k], h.offset)
<1>4. Preserves(ns[k], x, ns[k].used \ {h.offset}) /\ x.used = ns[k].used \ {h.offset}
  BY <1>1, <1>3, FreePreserves
<1>5. x \in Node /\ GoodNode(x) /\ x.desc = ns[k].desc BY <1>4 DEF Preserves, GoodNode
<1>6. t = [ns EXCEPT ![k] = x] BY SMTT(30)
<1> HIDE DEF x
<1>7. /\ t \in Seq(Node) /\ Len(t) = Len(ns) /\ t[k] = x
      /\ \A j \in 1..Len(ns) : j # k => t[j] = ns[j]
  BY <1>1, <1>5, <1>6, SMTT(30)
<1>8. \A j \in 1..Len(ns) : GoodNode(t[j]) /\ t[j].desc = ns[j].desc BY <1>5, <1>7 DEF Consistent
<1>9. ASSUME NEW g \in hd \ {h} PROVE \E j \in 1..Len(ns) : Holds(t[j], g)
  <2>1. PICK j \in 1..Len(ns) : Holds(ns[j], g) BY SMTT(30) DEF Consistent
  <2>2. CASE j = k
    <3>1. g \in Allocation /\ g.offset \in ns[k].used /\ g.desc = h.desc
      BY <2>1, <2>2 DEF Consistent, Holds
    <3>2. g.offset # h.offset BY <1>9, <3>1 DEF Consistent
    <3>3. g.offset \in ns[k].used \ {h.offset} BY <3>1, <3>2
    <3>4. Holds(x, g) BY <1>1, <1>4, <2>1, <2>2, <3>1, <3>3, HoldsLater
    <3> QED BY <1>7, <3>4
  <2>3. CASE j # k BY <1>7, <2>1, <2>3
  <2> QED BY <2>2, <2>3
<1>10. ASSUME NEW j \in 1..Len(ns), NEW o \in t[j].used
       PROVE  \E g \in hd \ {h} : g.desc = t[j].desc /\ g.offset = o
  <2>1. o \in ns[j].used /\ t[j].desc = ns[j].desc /\ (j = k => o # h.offset)
    BY <1>4, <1>7, <1>8, <1>10
  <2>2. PICK g \in hd : g.desc = ns[j].desc /\ g.offset = o BY <2>1 DEF Consistent
  <2>3. g # h BY <2>1, <2>2, SMTT(30) DEF Consistent
  <2> QED BY <2>1, <2>2, <2>3
<1>11. \A j \in 1..Len(ns) : GoodNode(t[j]) /\ t[j].desc \notin pl BY <1>8 DEF Consistent
<1>12. \A i, j \in 1..Len(ns) : t[i].desc = t[j].desc => i = j BY <1>8 DEF Consistent
<1>13. /\ hd \ {h} \subseteq Allocation /\ pl \subseteq Descs
       /\ \A g, f \in hd \ {h} : g.desc = f.desc /\ g.offset = f.offset => g = f
  BY SMTT(30) DEF Consistent
<1> QED BY <1>7, <1>9, <1>10, <1>11, <1>12, <1>13, SMTT(30) DEF Consistent

\* The node k, which holds nothing, leaves the list.
LEMMA RemoveStep ==
  ASSUME NEW ns, NEW pl, NEW hd, Consistent(ns, pl, hd), NEW k \in 1..Len(ns), ns[k].used = {},
         NEW t \in Seq(Node), Len(t) = Len(ns) - 1,
         \A j \in 1..Len(t) : t[j] = IF j < k THEN ns[j] ELSE ns[j + 1]
  PROVE  Consistent(t, pl \cup {ns[k].desc}, hd)
<1> DEFINE at(j) == IF j < k THEN j ELSE j + 1
<1>1. ns \in Seq(Node) /\ Len(ns) \in Nat /\ Len(t) \in Nat BY SMTT(30) DEF Consistent
<1>2. \A j \in 1..Len(t) : at(j) \in 1..Len(ns) /\ at(j) # k /\ t[j] = ns[at(j)] BY <1>1, SMTT(30)
<1>3. \A i, j \in 1..Len(t) : at(i) = at(j) => i = j BY <1>1, SMTT(30)
<1>4. ASSUME NEW j \in 1..Len(ns), j # k PROVE \E i \in 1..Len(t) : at(i) = j
  <2>1. CASE j < k
    <3>1. j \in 1..Len(t) /\ at(j) = j BY <1>1, <2>1, SMTT(30)
    <3> QED BY <3>1, SMTT(30)
  <2>2. CASE j > k
    <3>1. j - 1 \in 1..Len(t) /\ at(j - 1) = j BY <1>1, <2>2, SMTT(30)
    <3> QED BY <3>1
  <2> QED BY <1>4, <2>1, <2>2, SMTT(30)
<1> HIDE DEF at
<1>5. \A j \in 1..Len(t) : GoodNode(t[j]) /\ t[j].desc \notin pl \cup {ns[k].desc}
  BY <1>2, SMTT(30) DEF Consistent
<1>6. \A i, j \in 1..Len(t) : t[i].desc = t[j].desc => i = j BY <1>2, <1>3, SMTT(30) DEF Consistent
<1>7. ASSUME NEW h \in hd PROVE \E j \in 1..Len(t) : Holds(t[j], h)
  <2>1. PICK j \in 1..Len(ns) : Holds(ns[j], h) BY DEF Consistent
  <2>2. j # k BY <2>1 DEF Holds
  <2> QED BY <1>2, <1>4, <2>1, <2>2
<1>8. \A j \in 1..Len(t) : \A o \in t[j].used : \E h \in hd : h.desc = t[j].desc /\ h.offset = o
  BY <1>2, SMTT(30) DEF Consistent
<1>9. pl \cup {ns[k].desc} \subseteq Descs BY DEF Consistent, GoodNode, Node
<1> QED BY <1>5, <1>6, <1>7, <1>8, <1>9 DEF Consistent

(***************************************************************************)
(* The operations                                                          *)
(***************************************************************************)
\* A node that is left alone is preserved.
LEMMA PreservesSame == ASSUME NEW n, GoodNode(n) PROVE Preserves(n, n, n.used)
<1>1. \A u \in n.used : End(n, u) \in Nat BY EndFacts DEF GoodNode
<1> QED BY <1>1, SMTT(30) DEF Preserves

\* The nodes after dma_alloc has walked the first ones in vain.
LEMMA WalkedNodes ==
  ASSUME DmaInv, NEW w, NEW D, w = [k \in 1..Len(nodes) |-> IF k \in D THEN Compact(nodes[k]) ELSE nodes[k]]
  PROVE  w \in Seq(Node) /\ Len(w) = Len(nodes) /\ Consistent(w, pool, held)
<1>1. nodes \in Seq(Node) /\ \A k \in 1..Len(nodes) : GoodNode(nodes[k]) BY SMTT(30) DEF DmaInv, Consistent
<1>2. ASSUME NEW k \in 1..Len(nodes)
      PROVE  Preserves(nodes[k], w[k], nodes[k].used) /\ w[k].used = nodes[k].used
  <2>1. CASE k \in D BY <1>1, <2>1, CompactPreserves
  <2>2. CASE k \notin D BY <1>1, <2>2, PreservesSame
  <2> QED BY <2>1, <2>2
<1>3. \A k \in 1..Len(nodes) : w[k] \in Node BY <1>2, SMTT(30) DEF Preserves, GoodNode
<1>4. w \in Seq(Node) /\ Len(w) = Len(nodes) BY <1>1, <1>3, SMTT(30)
<1>5. Consistent(nodes, pool, held) BY DEF DmaInv
<1> QED BY <1>2, <1>4, <1>5, WalkStep

\* The address of a byte of an allocation is looked up to its region.
LEMMA LookupLemma ==
  ASSUME DmaInv, NEW h \in held, NEW b \in Nat, b < h.size
  PROVE  \E k \in 1..Len(nodes) :
            nodes[k].desc = h.desc /\ dma_vlookup(h.desc.vaddr + h.offset + b) = <<k, h.offset>>
<1> DEFINE vaddr == h.desc.vaddr + h.offset + b
           in == {j \in 1..Len(nodes) : /\ nodes[j].desc.vaddr <= vaddr
                                        /\ vaddr < nodes[j].desc.vaddr + nodes[j].desc.size}
<1>1. PICK k \in 1..Len(nodes) : Holds(nodes[k], h) BY DEF DmaInv, Consistent
<1> DEFINE n == nodes[k]
           S == {FirstRegion(n)} \cup {o \in n.regions : o <= h.offset + b}
<1>2. GoodNode(n) BY DEF DmaInv, Consistent
<1>3. h.offset \in Nat /\ h.size \in Nat \ {0} /\ h.desc \in Descs BY DEF DmaInv, Consistent, Allocation
<1>4. /\ n.desc = h.desc /\ h.offset \in n.regions /\ h.offset + h.size <= End(n, h.offset)
  BY <1>1, <1>2, SMTT(30) DEF Holds, GoodNode
<1>5. /\ End(n, h.offset) \in Nat /\ End(n, h.offset) <= n.desc.size
      /\ \A p \in n.regions : h.offset < p => End(n, h.offset) <= p
  BY <1>2, <1>4, EndFacts
<1>6. h.desc.vaddr \in Nat /\ h.desc.size \in Nat BY <1>3, DescFacts
<1>7. vaddr \in Nat /\ h.desc.vaddr <= vaddr /\ vaddr < h.desc.vaddr + h.desc.size
  <2>1. h.offset + b < h.desc.size BY <1>3, <1>4, <1>5, <1>6, SMTT(30)
  <2> DEFINE v == h.desc.vaddr
             x == h.offset
             z == h.desc.size
  <2>2. v \in Nat /\ x \in Nat /\ z \in Nat /\ x + b < z BY <1>3, <1>6, <2>1, SMTT(30)
  <2> HIDE DEF v, x, z
  <2>3. v + x + b \in Nat /\ v <= v + x + b /\ v + x + b < v + z BY <2>2, SMTT(30)
  <2> QED BY <2>3 DEF v, x, z
<1>8. k \in in BY <1>4, <1>7, SMTT(30)
<1>9. ASSUME NEW j \in in PROVE j = k
  <2>1. SUFFICES ASSUME j # k PROVE FALSE BY SMTT(30)
  <2>2. nodes[j].desc # h.desc /\ nodes[j].desc \in Descs
    BY <1>4, <2>1 DEF DmaInv, Consistent, GoodNode, Node
  <2>3. \/ nodes[j].desc.vaddr + nodes[j].desc.size <= h.desc.vaddr
        \/ h.desc.vaddr + h.desc.size <= nodes[j].desc.vaddr
    BY <1>3, <2>2, DmaAssumption
  <2>4. nodes[j].desc.vaddr \in Nat /\ nodes[j].desc.size \in Nat BY <2>2, DescFacts
  <2> QED BY <1>6, <1>7, <1>9, <2>3, <2>4, SMTT(30)
<1>10. Min(in) = k
  <2>1. in \subseteq Nat /\ in # {} BY <1>8, SMTT(30)
  <2> HIDE DEF in
  <2>2. Min(in) \in in BY <2>1, LeastElement
  <2> QED BY <1>9, <2>2, SMTT(30)
<1>11. _find_mem(n, h.offset + b) = h.offset
  <2>1. h.offset \in S BY <1>3, <1>4, SMTT(30)
  <2>2. n.regions \subseteq Nat BY <1>2, SMTT(30) DEF GoodNode, Node
  <2>3. FirstRegion(n) \in n.regions /\ FirstRegion(n) <= h.offset BY <1>2, <1>4, FirstFacts
  <2>4. ASSUME NEW o \in S PROVE o \in Nat /\ o <= h.offset BY <1>3, <1>4, <1>5, <2>2, <2>3, SMTT(30)
  <2> HIDE DEF S
  <2>5. S \subseteq Nat /\ S # {} /\ \A o \in S : o <= h.offset BY <2>1, <2>4, SMTT(30)
  <2>6. Max(S) \in S /\ \A x \in S : Max(S) >= x BY <1>3, <2>5, GreatestElement
  <2>7. Max(S) \in Nat /\ Max(S) <= h.offset /\ Max(S) >= h.offset BY <2>1, <2>5, <2>6
  <2>8. Max(S) = h.offset BY <1>3, <2>7, SMTT(30)
  <2> QED BY <2>8, SMTT(30) DEF _find_mem, S
<1>12. vaddr - n.desc.vaddr = h.offset + b BY <1>3, <1>4, <1>6, SMTT(30)
<1>13. dma_vlookup(vaddr) =
         IF in = {} THEN <<0, 0>> ELSE <<Min(in), _find_mem(nodes[Min(in)], vaddr - nodes[Min(in)].desc.vaddr)>>
  BY DEF dma_vlookup
<1> HIDE DEF in, vaddr
<1>14. dma_vlookup(vaddr) = <<k, h.offset>> BY <1>8, <1>10, <1>11, <1>12, <1>13
<1> QED BY <1>4, <1>14 DEF vaddr

\* dma_alloc from one of the nodes.
LEMMA AllocFromInv ==
  ASSUME DmaInv, NEW size \in Nat \ {0}, NEW align \in Nat \ {0}, NEW malloc \in BOOLEAN,
         AllocFrom(size, align, malloc)
  PROVE  DmaInv'
<1> DEFINE can == {k \in 1..Len(nodes) : Candidates(nodes[k], size, align) # {}}
           k == Min(can)
           r == dma_memd_alloc(nodes[k], size, align, malloc)
           new == [desc |-> nodes[k].desc, offset |-> r.offset, size |-> size, align |-> align]
           D == {j \in 1..Len(nodes) : j < k}
           w == [j \in 1..Len(nodes) |-> IF j \in D THEN Compact(nodes[j]) ELSE nodes[j]]
<1>1. /\ can # {}
      /\ nodes' = [j \in 1..Len(nodes) |->
                      IF j < k THEN Compact(nodes[j]) ELSE IF j = k THEN r.node ELSE nodes[j]]
      /\ held' = held \cup {new} /\ pool' = pool
  BY DEF AllocFrom, Hold
<1>2. nodes \in Seq(Node) /\ \A j \in 1..Len(nodes) : GoodNode(nodes[j]) BY SMTT(30) DEF DmaInv, Consistent
<1>3. can \subseteq Nat BY <1>2, SMTT(30)
<1>4. k \in can BY <1>1, <1>3, LeastElement
<1>5. k \in 1..Len(nodes) /\ Candidates(nodes[k], size, align) # {} BY <1>4
<1> HIDE DEF can, k
<1>6. w \in Seq(Node) /\ Len(w) = Len(nodes) /\ Consistent(w, pool, held)
  BY WalkedNodes
<1>7. w[k] = nodes[k] BY <1>2, <1>5, SMTT(30)
<1>8. \A j \in 1..Len(nodes) : j # k => nodes'[j] = w[j] BY <1>1
<1>9. nodes'[k] = r.node BY <1>1, <1>2, <1>5, SMTT(30)
<1>10. r.node \in Node
  <2>1. NewAllocation(nodes[k], r, size, align) BY <1>2, <1>5, AllocPreserves
  <2> QED BY <2>1 DEF NewAllocation, Preserves, GoodNode
<1>11. nodes' \in Seq(Node) /\ Len(nodes') = Len(w)
  <2>1. \A j \in 1..Len(nodes) : nodes'[j] \in Node BY <1>2, <1>6, <1>8, <1>9, <1>10, SMTT(30)
  <2> QED BY <1>1, <1>2, <1>6, <2>1, SMTT(30)
<1> HIDE DEF w
<1>12. Consistent(nodes', pool, held \cup {new})
  <2>1. /\ k \in 1..Len(w) /\ Candidates(w[k], size, align) # {}
        /\ nodes'[k] = dma_memd_alloc(w[k], size, align, malloc).node
        /\ \A j \in 1..Len(w) : j # k => nodes'[j] = w[j]
    BY <1>5, <1>6, <1>7, <1>8, <1>9
  <2>2. Consistent(nodes', pool,
                   held \cup {[desc |-> w[k].desc, offset |-> dma_memd_alloc(w[k], size, align, malloc).offset,
                               size |-> size, align |-> align]})
    BY <1>6, <1>11, <2>1, AllocStep
  <2> QED BY <1>7, <2>2
<1> HIDE DEF new
<1> QED BY <1>1, <1>12 DEF DmaInv

\* What becomes of the nodes when morecore is called.
LEMMA AllocMorecoreInv ==
  ASSUME DmaInv, NEW size \in Nat \ {0}, NEW align \in Nat \ {0}, NEW malloc \in BOOLEAN,
         AllocMorecore(size, align, malloc)
  PROVE  DmaInv'
<1> DEFINE w == [k \in 1..Len(nodes) |-> Compact(nodes[k])]
<1>1. w \in Seq(Node) /\ Len(w) = Len(nodes) /\ Consistent(w, pool, held)
  <2>1. w = [k \in 1..Len(nodes) |-> IF k \in 1..Len(nodes) THEN Compact(nodes[k]) ELSE nodes[k]] BY SMTT(30)
  <2> HIDE DEF w
  <2> QED BY <2>1, WalkedNodes
<1>2. CASE nodes' = w /\ UNCHANGED <<pool, held>> BY <1>1, <1>2 DEF DmaInv
<1>3. ASSUME NEW d \in pool, pool' = pool \ {d}, nodes' = w, UNCHANGED held PROVE DmaInv'
  <2> HIDE DEF w
  <2>1. Consistent(w, pool \ {d}, held) BY <1>1, DropStep
  <2> QED BY <1>3, <2>1, SMTT(30) DEF DmaInv
<1>4. ASSUME NEW d \in pool, pool' = pool \ {d}, nodes' = <<NewNode(d)>> \o w, UNCHANGED held PROVE DmaInv'
  <2> HIDE DEF w
  <2>1. Consistent(<<NewNode(d)>> \o w, pool \ {d}, held) BY <1>1, ProvideStep
  <2> QED BY <1>4, <2>1, SMTT(30) DEF DmaInv
<1>5. ASSUME NEW d \in pool, pool' = pool \ {d}, Candidates(NewNode(d), size, align) # {},
             NEW r, r = dma_memd_alloc(NewNode(d), size, align, malloc),
             nodes' = <<r.node>> \o w, Hold(d, r.offset, size, align)
      PROVE  DmaInv'
  <2> DEFINE x == NewNode(d)
             ns == <<x>> \o w
  <2>1. Consistent(ns, pool \ {d}, held) BY <1>1, ProvideStep
  <2>2. d \in Descs BY SMTT(30) DEF DmaInv, Consistent
  <2>3. GoodNode(x) /\ x.desc = d BY <2>2, NewNodeGood
  <2>4. NewAllocation(x, r, size, align) BY <1>5, <2>3, AllocPreserves
  <2>5. r.node \in Node BY <2>4 DEF NewAllocation, Preserves, GoodNode
  <2>6. x \in Node BY <2>3 DEF GoodNode
  <2> HIDE DEF x, w
  <2>7. /\ nodes' \in Seq(Node) /\ Len(nodes') = Len(ns) /\ 1 \in 1..Len(ns)
        /\ ns[1] = x /\ nodes'[1] = r.node
        /\ \A j \in 1..Len(ns) : j # 1 => nodes'[j] = ns[j]
    BY <1>1, <1>5, <2>5, <2>6, SMTT(30)
  <2> HIDE DEF ns
  <2>8. /\ Candidates(ns[1], size, align) # {} /\ r = dma_memd_alloc(ns[1], size, align, malloc)
    BY <1>5, <2>7 DEF x
  <2>9. Consistent(nodes', pool \ {d},
                   held \cup {[desc |-> ns[1].desc, offset |-> dma_memd_alloc(ns[1], size, align, malloc).offset,
                               size |-> size, align |-> align]})
    BY <2>1, <2>7, <2>8, AllocStep
  <2>10. held' = held \cup {[desc |-> ns[1].desc, offset |-> dma_memd_alloc(ns[1], size, align, malloc).offset,
                             size |-> size, align |-> align]}
    BY <1>5, <2>3, <2>7, <2>8 DEF Hold
  <2> QED BY <1>5, <2>9, <2>10 DEF DmaInv
<1> HIDE DEF w
<1> QED BY <1>2, <1>3, <1>4, <1>5 DEF AllocMorecore, w

\* dma_free and dma_dma_free: the address of an allocation is looked up to the
\* region that dma_free is given, so both do the same.
LEMMA FreeInv ==
  ASSUME DmaInv, NEW h \in held, dma_free(h) \/ dma_dma_free(h)
  PROVE  DmaInv'
<1>1. h.size \in Nat \ {0} /\ h.offset \in Nat /\ h.desc \in Descs BY DEF DmaInv, Consistent, Allocation
<1>2. \E k \in 1..Len(nodes) : nodes[k].desc = h.desc /\ nodes' = [nodes EXCEPT ![k] = Freed(@, h.offset)]
  <2>1. CASE dma_free(h) BY <2>1 DEF dma_free, FreeRegion
  <2>2. CASE dma_dma_free(h)
    <3>1. h.desc.vaddr + h.offset + 0 = h.desc.vaddr + h.offset
      <4>1. h.desc.vaddr \in Nat BY <1>1, DescFacts
      <4> QED BY <1>1, <4>1, SMTT(30)
    <3>2. PICK k \in 1..Len(nodes) :
             nodes[k].desc = h.desc /\ dma_vlookup(h.desc.vaddr + h.offset + 0) = <<k, h.offset>>
      <4>1. 0 \in Nat /\ 0 < h.size BY <1>1, SMTT(30)
      <4> QED BY <4>1, LookupLemma
    <3>3. dma_vlookup(h.desc.vaddr + h.offset) = <<k, h.offset>> BY <3>1, <3>2
    <3>4. <<k, h.offset>> # <<0, 0>> /\ <<k, h.offset>>[1] = k /\ <<k, h.offset>>[2] = h.offset BY SMTT(30)
    <3> QED BY <2>2, <3>2, <3>3, <3>4 DEF dma_dma_free, FreeRegion
  <2> QED BY <2>1, <2>2
<1>3. held' = held \ {h} /\ pool' = pool BY SMTT(30) DEF dma_free, dma_dma_free
<1>4. PICK k \in 1..Len(nodes) : nodes[k].desc = h.desc /\ nodes' = [nodes EXCEPT ![k] = Freed(@, h.offset)]
  BY <1>2
<1>5. Consistent(nodes, pool, held) BY SMTT(30) DEF DmaInv
<1>6. Consistent(nodes', pool, held \ {h}) BY <1>4, <1>5, FreeStep
<1> QED BY <1>3, <1>6, SMTT(30) DEF DmaInv

\* dma_provide_mem.
LEMMA ProvideInv ==
  ASSUME DmaInv, NEW d \in pool, dma_provide_mem(d)
  PROVE  DmaInv'
<1>1. Consistent(<<NewNode(d)>> \o nodes, pool \ {d}, held) BY ProvideStep DEF DmaInv
<1> QED BY <1>1, SMTT(30) DEF DmaInv, dma_provide_mem

\* A node whose free regions join into one from its start has no used region.
LEMMA IdleNode ==
  ASSUME NEW n, GoodNode(n)
  PROVE  /\ _mem_compact(n, FirstRegion(n)).regions = {FirstRegion(n)} /\ _is_free(n, FirstRegion(n))
            <=> n.used = {}
<1> DEFINE f == FirstRegion(n)
<1>1. f \in n.regions /\ \A p \in n.regions : f <= p BY FirstFacts
<1>2. n.regions \subseteq Nat /\ n.used \subseteq n.regions BY SMTT(30) DEF GoodNode, Node
<1>3. _mem_compact(n, f).regions = {p \in n.regions : ~Follows(n, f, p)} BY SMTT(30) DEF _mem_compact, GoodNode, Node
<1> HIDE DEF f
<1>4. n.used \subseteq _mem_compact(n, f).regions BY <1>2, <1>3, SMTT(30) DEF Follows
<1>5. n.used = {} => _mem_compact(n, f).regions = {f}
  BY <1>1, <1>2, <1>3, SMTT(30) DEF Follows
<1> QED BY <1>4, <1>5 DEF f, _is_free

\* dma_reclaim_mem: the node that leaves held nothing.
LEMMA ReclaimInv == ASSUME DmaInv, dma_reclaim_mem PROVE DmaInv'
<1> DEFINE walked == [k \in 1..Len(nodes) |-> _mem_compact(nodes[k], FirstRegion(nodes[k]))]
           idle == {k \in 1..Len(nodes) : /\ walked[k].regions = {FirstRegion(nodes[k])}
                                          /\ _is_free(nodes[k], FirstRegion(nodes[k]))}
<1>1. nodes \in Seq(Node) /\ (\A k \in 1..Len(nodes) : GoodNode(nodes[k])) /\ Consistent(nodes, pool, held)
  BY SMTT(30) DEF DmaInv, Consistent
<1>2. ASSUME NEW k \in 1..Len(nodes)
      PROVE  /\ Preserves(nodes[k], walked[k], nodes[k].used) /\ walked[k].used = nodes[k].used
             /\ walked[k] \in Node
  <2>1. FirstRegion(nodes[k]) \in nodes[k].regions BY <1>1, FirstFacts
  <2>2. /\ Preserves(nodes[k], walked[k], nodes[k].used) /\ walked[k].used = nodes[k].used
    BY <1>1, <2>1, MemCompactPreserves
  <2> QED BY <2>2 DEF Preserves, GoodNode
<1>3. CASE idle = {}
  <2>1. nodes' = walked /\ pool' = pool /\ held' = held BY <1>3 DEF dma_reclaim_mem
  <2>2. walked \in Seq(Node) /\ Len(walked) = Len(nodes) BY <1>1, <1>2, SMTT(30)
  <2> HIDE DEF walked
  <2>3. Consistent(walked, pool, held) BY <1>1, <1>2, <2>2, WalkStep
  <2> QED BY <2>1, <2>3 DEF DmaInv
<1>4. CASE idle # {}
  <2> DEFINE k == Min(idle)
             w == [j \in 1..Len(nodes) |-> IF j < k THEN walked[j] ELSE nodes[j]]
             t == SubSeq(walked, 1, k - 1) \o SubSeq(nodes, k + 1, Len(nodes))
  <2>1. nodes' = t /\ pool' = pool \cup {nodes[k].desc} /\ held' = held
    BY <1>4 DEF dma_reclaim_mem
  <2>2. k \in idle
    <3>1. idle \subseteq Nat BY <1>1, SMTT(30)
    <3> HIDE DEF idle
    <3> QED BY <1>4, <3>1, LeastElement
  <2>3. k \in 1..Len(nodes) /\ nodes[k].used = {} BY <1>1, <2>2, IdleNode
  <2> HIDE DEF idle, k
  <2>4. walked \in Seq(Node) /\ Len(walked) = Len(nodes) BY <1>1, <1>2, SMTT(30)
  <2>5. w \in Seq(Node) /\ Len(w) = Len(nodes) /\ w[k] = nodes[k] BY <1>1, <1>2, <2>3, <2>4, SMTT(30)
  <2>6. \A j \in 1..Len(nodes) : Preserves(nodes[j], w[j], nodes[j].used) /\ w[j].used = nodes[j].used
    BY <1>1, <1>2, PreservesSame
  <2>7. \A j \in 1..Len(nodes) : w[j] = IF j < k THEN walked[j] ELSE nodes[j] BY SMTT(30)
  <2> HIDE DEF walked, w
  <2>8. Consistent(w, pool, held) BY <1>1, <2>5, <2>6, WalkStep
  <2>9. /\ t \in Seq(Node) /\ Len(t) = Len(w) - 1
        /\ \A j \in 1..Len(t) : t[j] = IF j < k THEN w[j] ELSE w[j + 1]
    <3> DEFINE a == SubSeq(walked, 1, k - 1)
               b == SubSeq(nodes, k + 1, Len(nodes))
    <3>1. a \in Seq(Node) /\ Len(a) = k - 1 /\ \A j \in 1..Len(a) : a[j] = walked[j]
      BY <2>3, <2>4, SMTT(30)
    <3>2. b \in Seq(Node) /\ Len(b) = Len(nodes) - k /\ \A j \in 1..Len(b) : b[j] = nodes[j + k]
      BY <1>1, <2>3, SMTT(30)
    <3> HIDE DEF a, b
    <3>3. /\ a \o b \in Seq(Node) /\ Len(a \o b) = Len(a) + Len(b)
          /\ \A j \in 1..Len(a) + Len(b) : (a \o b)[j] = IF j <= Len(a) THEN a[j] ELSE b[j - Len(a)]
      BY <3>1, <3>2, SMTT(30)
    <3>4. t = a \o b BY SMTT(30) DEF a, b
    <3> HIDE DEF t
    <3>5. Len(t) = Len(nodes) - 1
      <4>1. Len(t) = Len(a) + Len(b) BY <3>3, <3>4
      <4>2. Len(nodes) \in Nat BY <1>1, SMTT(30)
      <4> QED BY <2>3, <3>1, <3>2, <4>1, <4>2, SMTT(30)
    <3>6. ASSUME NEW j \in 1..Len(t) PROVE t[j] = IF j < k THEN w[j] ELSE w[j + 1]
      <4>0. t[j] = IF j <= Len(a) THEN a[j] ELSE b[j - Len(a)] BY <3>3, <3>4
      <4>1. CASE j < k
        <5>1. j <= Len(a) /\ j \in 1..Len(a) /\ j \in 1..Len(nodes) BY <1>1, <2>3, <3>1, <3>5, <4>1, SMTT(30)
        <5> QED BY <2>7, <3>1, <4>0, <4>1, <5>1
      <4>2. CASE j >= k
        <5>1. /\ j - (k - 1) \in 1..Len(b) /\ j + 1 \in 1..Len(nodes) /\ ~(j + 1 < k) /\ ~(j < k)
              /\ ~(j <= Len(a)) /\ j - Len(a) = j - (k - 1) /\ (j - (k - 1)) + k = j + 1
          BY <1>1, <2>3, <3>1, <3>2, <3>5, <4>2, SMTT(30)
        <5> QED BY <2>7, <3>2, <4>0, <5>1
      <4> QED BY <1>1, <2>3, <4>1, <4>2, SMTT(30)
    <3> QED BY <2>5, <3>3, <3>4, <3>5, <3>6
  <2> HIDE DEF t
  <2>10. Consistent(t, pool \cup {w[k].desc}, held)
    <3>1. k \in 1..Len(w) /\ w[k].used = {} BY <2>3, <2>5
    <3> QED BY <2>8, <2>9, <3>1, RemoveStep
  <2> QED BY <2>1, <2>5, <2>10 DEF DmaInv
<1> QED BY <1>3, <1>4

\* The invariant is inductive.
LEMMA DmaInitInv == DmaInit => DmaInv
BY DmaAssumption, SMTT(30) DEF DmaInit, DmaInv, Consistent

\* The alignment dma_alloc uses.
LEMMA AlignFacts == ASSUME NEW align \in DmaAligns PROVE Max({align, MinAlign}) \in Nat \ {0}
<1> DEFINE S == {align, MinAlign}
<1>0. align \in Nat \ {0} /\ MinAlign \in Nat \ {0} BY DmaAssumption, SMTT(30)
<1>1. S \subseteq Nat /\ S # {} /\ \A x \in S : x <= align + MinAlign BY <1>0, SMTT(30)
<1>2. S \subseteq Nat \ {0} /\ align + MinAlign \in Nat BY <1>0, SMTT(30)
<1> HIDE DEF S
<1>3. Max(S) \in S BY <1>1, <1>2, GreatestElement
<1> QED BY <1>2, <1>3 DEF S

\* Every operation keeps the invariant: an allocation is added with the region
\* that was marked for it, and nothing else touches a used region.
LEMMA DmaNextInv == DmaInv /\ [DmaNext]_dmaVars => DmaInv'
<1> SUFFICES ASSUME DmaInv, [DmaNext]_dmaVars PROVE DmaInv' BY SMTT(30)
<1>1. ASSUME NEW d \in pool, dma_provide_mem(d) PROVE DmaInv' BY <1>1, ProvideInv, SMTT(30)
<1>2. ASSUME NEW size \in DmaSizes, NEW align \in DmaAligns, dma_dma_alloc(size, align) PROVE DmaInv'
  <2> DEFINE al == Max({align, MinAlign})
  <2>1. size \in Nat \ {0} /\ align \in Nat \ {0} /\ MinAlign \in Nat \ {0} BY DmaAssumption, SMTT(30)
  <2>2. al \in Nat \ {0} BY AlignFacts, SMTT(30)
  <2>3. PICK malloc \in BOOLEAN : AllocFrom(size, al, malloc) \/ AllocMorecore(size, al, malloc)
    BY <1>2, SMTT(30) DEF dma_dma_alloc, dma_alloc
  <2> HIDE DEF al
  <2> QED BY <2>1, <2>2, <2>3, AllocFromInv, AllocMorecoreInv
<1>3. ASSUME NEW h \in held, dma_free(h) \/ dma_dma_free(h) PROVE DmaInv' BY <1>3, FreeInv
<1>4. CASE dma_reclaim_mem BY <1>4, ReclaimInv
<1>5. CASE UNCHANGED dmaVars BY <1>5, SMTT(30) DEF DmaInv, dmaVars
<1> QED BY <1>1, <1>2, <1>3, <1>4, <1>5 DEF DmaNext

\* The nodes and the allocations clients hold agree in every reachable state,
\* for every set of descriptors, sizes and alignments, with and without
\* morecore, and wherever memory for a region object runs out.
THEOREM DmaInvCorrect == DmaSpec => []DmaInv
<1> QED BY DmaInitInv, DmaNextInv, PTL DEF DmaSpec

\* Allocations of one node share no byte, as each ends where the next region
\* starts; those of two nodes share none as the descriptors do not.
LEMMA HeldApart ==
  ASSUME DmaInv, NEW g \in held, NEW h \in held, g # h
  PROVE  HeldBytes(g) \cap HeldBytes(h) = {}
<1>1. PICK j \in 1..Len(nodes) : Holds(nodes[j], g) BY DEF DmaInv, Consistent
<1>2. PICK k \in 1..Len(nodes) : Holds(nodes[k], h) BY DEF DmaInv, Consistent
<1>3. /\ g.offset \in Nat /\ g.size \in Nat \ {0} /\ g.desc \in Descs
      /\ h.offset \in Nat /\ h.size \in Nat \ {0} /\ h.desc \in Descs
  BY SMTT(30) DEF DmaInv, Consistent, Allocation
<1>4. GoodNode(nodes[j]) /\ GoodNode(nodes[k]) BY SMTT(30) DEF DmaInv, Consistent
<1>5. /\ g.offset \in nodes[j].regions /\ g.offset + g.size <= End(nodes[j], g.offset) /\ nodes[j].desc = g.desc
      /\ h.offset \in nodes[k].regions /\ h.offset + h.size <= End(nodes[k], h.offset) /\ nodes[k].desc = h.desc
  BY <1>1, <1>2, <1>4 DEF Holds, GoodNode
<1>6. /\ End(nodes[j], g.offset) \in Nat /\ End(nodes[j], g.offset) <= g.desc.size
      /\ \A p \in nodes[j].regions : g.offset < p => End(nodes[j], g.offset) <= p
  BY <1>4, <1>5, EndFacts
<1>7. /\ End(nodes[k], h.offset) \in Nat /\ End(nodes[k], h.offset) <= h.desc.size
      /\ \A p \in nodes[k].regions : h.offset < p => End(nodes[k], h.offset) <= p
  BY <1>4, <1>5, EndFacts
<1>8. g.desc.paddr \in Nat /\ g.desc.size \in Nat /\ h.desc.paddr \in Nat /\ h.desc.size \in Nat
  BY <1>3, DescFacts
<1> DEFINE gp == g.desc.paddr
           hp == h.desc.paddr
           gz == g.desc.size
           hz == h.desc.size
           go == g.offset
           ho == h.offset
           gs == g.size
           hs == h.size
<1>9. /\ gp \in Nat /\ hp \in Nat /\ gz \in Nat /\ hz \in Nat
      /\ go \in Nat /\ ho \in Nat /\ gs \in Nat /\ hs \in Nat
  BY <1>3, <1>8
<1>10. go + gs <= gz /\ ho + hs <= hz
  <2> DEFINE ge == End(nodes[j], g.offset)
             he == End(nodes[k], h.offset)
  <2>1. /\ ge \in Nat /\ go + gs <= ge /\ ge <= gz
        /\ he \in Nat /\ ho + hs <= he /\ he <= hz
    BY <1>5, <1>6, <1>7
  <2> HIDE DEF ge, he, gz, hz, go, ho, gs, hs
  <2> QED BY <1>9, <2>1, SMTT(30)
<1>11. \/ gp = hp /\ (go + gs <= ho \/ ho + hs <= go)
       \/ gp + gz <= hp \/ hp + hz <= gp
  <2>1. CASE g.desc = h.desc
    <3>1. j = k BY <1>5, <2>1, SMTT(30) DEF DmaInv, Consistent
    <3>2. g.offset # h.offset BY <2>1 DEF DmaInv, Consistent
    <3>3. go + gs <= ho \/ ho + hs <= go BY <1>3, <1>5, <1>6, <1>7, <3>1, <3>2, SMTT(30)
    <3> QED BY <2>1, <3>3
  <2>2. CASE g.desc # h.desc BY <1>3, <2>2, DmaAssumption
  <2> QED BY <2>1, <2>2
<1>12. HeldBytes(g) = gp + go .. gp + go + gs - 1 /\ HeldBytes(h) = hp + ho .. hp + ho + hs - 1
  BY SMTT(30) DEF HeldBytes
<1> HIDE DEF gp, hp, gz, hz, go, ho, gs, hs
<1>13. gp + go + gs <= hp + ho \/ hp + ho + hs <= gp + go BY <1>9, <1>10, <1>11, SMTT(30)
<1>14. \A x : ~(x \in gp + go .. gp + go + gs - 1 /\ x \in hp + ho .. hp + ho + hs - 1) BY <1>9, <1>13, SMTT(30)
<1> QED BY <1>12, <1>14

\* The invariant gives Ownership.
LEMMA InvOwnership == DmaInv => Ownership
<1> SUFFICES ASSUME DmaInv PROVE Ownership BY SMTT(30)
<1>1. ASSUME NEW h \in held
      PROVE  \E k \in 1..Len(nodes) :
                /\ nodes[k].desc = h.desc /\ h.offset \in nodes[k].regions \cap nodes[k].used
                /\ _mem_size(nodes[k], h.offset) >= h.size
                /\ (h.desc.paddr + h.offset) % h.align = 0
  <2>1. PICK k \in 1..Len(nodes) : Holds(nodes[k], h) BY DEF DmaInv, Consistent
  <2>2. GoodNode(nodes[k]) /\ h.offset \in Nat /\ h.size \in Nat BY DEF DmaInv, Consistent, Allocation
  <2>3. h.offset \in nodes[k].regions BY <2>1, <2>2, SMTT(30) DEF Holds, GoodNode
  <2>4. End(nodes[k], h.offset) \in Nat BY <2>2, <2>3, EndFacts
  <2>5. _mem_size(nodes[k], h.offset) >= h.size BY <2>1, <2>2, <2>4, SMTT(30) DEF Holds, _mem_size
  <2> QED BY <2>1, <2>3, <2>5 DEF Holds
<1>2. \A g, h \in held : g # h => HeldBytes(g) \cap HeldBytes(h) = {} BY HeldApart
<1>3. \A k \in 1..Len(nodes) : \A o \in nodes[k].used : \E h \in held : h.desc = nodes[k].desc /\ h.offset = o
  BY DEF DmaInv, Consistent
<1> QED BY <1>1, <1>2, <1>3 DEF Ownership

\* The invariant gives LookupFindsOwner.
LEMMA InvLookup == DmaInv => LookupFindsOwner
<1> SUFFICES ASSUME DmaInv, NEW h \in held, NEW b \in 0 .. h.size - 1
             PROVE  LET vaddr == h.desc.vaddr + h.offset + b
                        r == dma_vlookup(vaddr)
                    IN  /\ r # <<0, 0>>
                        /\ nodes[r[1]].desc = h.desc /\ r[2] = h.offset
                        /\ dma_dma_pin(vaddr) = h.desc.paddr + h.offset
  BY SMTT(30) DEF LookupFindsOwner
<1>1. b \in Nat /\ b < h.size
  <2>1. h.size \in Nat BY SMTT(30) DEF DmaInv, Consistent, Allocation
  <2> QED BY <2>1, SMTT(30)
<1> DEFINE vaddr == h.desc.vaddr + h.offset + b
<1>2. PICK k \in 1..Len(nodes) : nodes[k].desc = h.desc /\ dma_vlookup(vaddr) = <<k, h.offset>>
  BY <1>1, LookupLemma
<1> HIDE DEF vaddr
<1>3. <<k, h.offset>> # <<0, 0>> /\ <<k, h.offset>>[1] = k /\ <<k, h.offset>>[2] = h.offset BY SMTT(30)
<1>4. dma_dma_pin(vaddr) = h.desc.paddr + h.offset BY <1>2, <1>3 DEF dma_dma_pin, dma_paddr
<1> QED BY <1>2, <1>3, <1>4 DEF vaddr

\* When reclaiming gives nothing back every node has a used region.
LEMMA InvReclaim ==
  ASSUME DmaInv, dma_reclaim_mem, pool' = pool, NEW k \in 1..Len(nodes)
  PROVE  \E h \in held : h.desc = nodes[k].desc
<1> DEFINE walked == [j \in 1..Len(nodes) |-> _mem_compact(nodes[j], FirstRegion(nodes[j]))]
           idle == {j \in 1..Len(nodes) : /\ walked[j].regions = {FirstRegion(nodes[j])}
                                          /\ _is_free(nodes[j], FirstRegion(nodes[j]))}
<1>1. idle = {}
  <2>1. SUFFICES ASSUME idle # {} PROVE FALSE OBVIOUS
  <2>2. pool' = pool \cup {nodes[Min(idle)].desc} BY <2>1 DEF dma_reclaim_mem
  <2>3. idle \subseteq 1..Len(nodes) /\ idle \subseteq Nat BY SMTT(30) DEF DmaInv, Consistent
  <2> HIDE DEF idle
  <2>4. Min(idle) \in idle BY <2>1, <2>3, LeastElement
  <2>5. nodes[Min(idle)].desc \notin pool BY <2>3, <2>4 DEF DmaInv, Consistent
  <2> QED BY <2>2, <2>5
<1>2. GoodNode(nodes[k]) BY DEF DmaInv, Consistent
<1>3. ~(/\ _mem_compact(nodes[k], FirstRegion(nodes[k])).regions = {FirstRegion(nodes[k])}
        /\ _is_free(nodes[k], FirstRegion(nodes[k])))
  BY <1>1, SMTT(30)
<1>4. nodes[k].used # {} BY <1>2, <1>3, IdleNode
<1> QED BY <1>4 DEF DmaInv, Consistent

\* What a client holds is its own until it frees it: its region is kept, marked
\* used, long enough and aligned, whatever dma_memd_alloc splits and
\* _mem_compact and dma_reclaim_mem join or remove around it; no two clients
\* share a byte and no region stays marked that nobody holds.
THEOREM OwnershipCorrect == DmaSpec => []Ownership
<1> QED BY DmaInvCorrect, InvOwnership, PTL

\* Freeing and pinning by address hit the right region: dma_vlookup finds the
\* region of an allocation from every address inside it.
THEOREM LookupFindsOwnerCorrect == DmaSpec => []LookupFindsOwner
<1> QED BY DmaInvCorrect, InvLookup, PTL

\* dma_reclaim_mem returns nothing only when every node has a held allocation.
THEOREM ReclaimFindsIdleCorrect == DmaSpec => ReclaimFindsIdle
<1>1. DmaInv => [(dma_reclaim_mem /\ pool' = pool) =>
                    \A k \in 1..Len(nodes) : \E h \in held : h.desc = nodes[k].desc]_dmaVars
  BY InvReclaim
<1> QED BY <1>1, DmaInvCorrect, PTL DEF ReclaimFindsIdle

\* A node with an aligned run of free bytes has a region for the request once
\* its free regions have been joined.
LEMMA NodeFull ==
  ASSUME NEW n, GoodNode(n), NEW size \in Nat \ {0}, NEW align \in Nat \ {0}, NEW b \in Nat,
         (n.desc.paddr + b) % align = 0, b .. b + size - 1 \subseteq FreeBytes(n)
  PROVE  Candidates(n, size, align) # {}
<1> DEFINE c == Compact(n)
           S == {p \in c.regions : p <= b}
           o == Max(S)
           Q == {p \in n.regions : p <= b}
           q == Max(Q)
           T == {r \in n.regions : /\ r <= b /\ _is_free(n, r)
                                   /\ \A u \in n.used : ~(r < u /\ u <= b)}
           r == Min(T)
<1>1. /\ GoodNode(c) /\ c.desc = n.desc /\ c.used = n.used /\ c.regions \subseteq n.regions
      /\ \A p \in n.regions : p \in c.regions <=> \A x \in n.regions : _is_free(n, x) => ~Follows(n, x, p)
  BY CompactPreserves DEF Preserves
<1>2. /\ n.regions \subseteq Nat /\ n.used \subseteq n.regions /\ n.desc \in Descs
      /\ c.regions \subseteq Nat /\ c.used \subseteq c.regions
  BY <1>1, SMTT(30) DEF GoodNode, Node
<1>3. n.desc.paddr \in Nat /\ n.desc.size \in Nat BY <1>2, DescFacts
<1>4. FirstRegion(n) \in n.regions /\ \A p \in n.regions : FirstRegion(n) <= p BY FirstFacts
<1>5. \A x \in b .. b + size - 1 :
         FirstRegion(n) <= x /\ x < n.desc.size /\ \A p \in n.regions : p <= x /\ x < End(n, p) => p \notin n.used
  <2> SUFFICES ASSUME NEW x \in b .. b + size - 1
               PROVE  FirstRegion(n) <= x /\ x < n.desc.size
                      /\ \A p \in n.regions : p <= x /\ x < End(n, p) => p \notin n.used
    OBVIOUS
  <2>1. x \in FreeBytes(n) /\ x \in Nat BY SMTT(30)
  <2>2. FirstRegion(n) \in Nat BY <1>2, <1>4
  <2>3. x \in FirstRegion(n) .. n.desc.size - 1 /\ \A p \in n.regions : x \in p .. End(n, p) - 1 => p \notin n.used
    BY <2>1 DEF FreeBytes, _is_free
  <2>4. FirstRegion(n) <= x /\ x < n.desc.size BY <1>3, <2>1, <2>2, <2>3, SMTT(30)
  <2>5. ASSUME NEW p \in n.regions, p <= x, x < End(n, p) PROVE p \notin n.used
    <3>1. p \in Nat /\ End(n, p) \in Nat BY EndFacts
    <3>2. x \in p .. End(n, p) - 1 BY <2>1, <2>5, <3>1, SMTT(30)
    <3> QED BY <2>3, <3>2
  <2> QED BY <2>4, <2>5
<1>6. \A x \in b .. b + size - 1 : x \notin n.used
  <2> SUFFICES ASSUME NEW x \in b .. b + size - 1, x \in n.used PROVE FALSE OBVIOUS
  <2>1. x \in n.regions /\ x < End(n, x) /\ x <= x BY <1>2, EndFacts, SMTT(30)
  <2> QED BY <1>5, <2>1
<1>7. b \in b .. b + size - 1 /\ b + size - 1 \in b .. b + size - 1 BY SMTT(30)
<1>8. FirstRegion(n) <= b /\ b + size <= n.desc.size BY <1>3, <1>5, <1>7, SMTT(30)
<1>9. q \in Q /\ \A p \in Q : p <= q
  <2>1. Q \subseteq Nat /\ Q # {} /\ \A p \in Q : p <= b BY <1>2, <1>4, <1>8
  <2> HIDE DEF Q
  <2>2. Max(Q) \in Q /\ \A p \in Q : Max(Q) >= p BY <2>1, GreatestElement
  <2> QED BY <2>1, <2>2
<1>10. q \in T
  <2>1. q \in n.regions /\ q <= b BY <1>9, SMTT(30)
  <2>2. q \in Nat /\ End(n, q) \in Nat /\ (End(n, q) = n.desc.size \/ End(n, q) \in n.regions) /\ q < End(n, q)
    BY <2>1, EndFacts
  <2>3. b < End(n, q)
    <3>1. CASE End(n, q) = n.desc.size BY <1>3, <1>8, <3>1, SMTT(30)
    <3>2. CASE End(n, q) \in n.regions
      <4> HIDE DEF q
      <4>1. \A p \in n.regions : p <= b => p <= q BY <1>9
      <4> QED BY <2>2, <3>2, <4>1, SMTT(30)
    <3> QED BY <2>2, <3>1, <3>2
  <2>4. q \notin n.used BY <1>5, <1>7, <2>1, <2>3
  <2>5. \A u \in n.used : ~(q < u /\ u <= b)
    <3> SUFFICES ASSUME NEW u \in n.used, q < u, u <= b PROVE FALSE OBVIOUS
    <3> HIDE DEF q
    <3>1. u \in n.regions /\ u \in Nat BY <1>2
    <3>2. u <= q BY <1>9, <3>1
    <3> QED BY <2>2, <3>1, <3>2, SMTT(30)
  <2> QED BY <2>1, <2>4, <2>5 DEF _is_free
<1> HIDE DEF q
<1>11. r \in T /\ \A x \in T : r <= x
  <2>1. T \subseteq Nat /\ T # {} BY <1>2, <1>10
  <2> HIDE DEF T
  <2> QED BY <2>1, LeastElement
<1> HIDE DEF r, c
<1>12. r \in c.regions
  <2>1. ASSUME NEW x \in n.regions, _is_free(n, x), Follows(n, x, r) PROVE FALSE
    <3>1. x < r /\ x \in Nat /\ r \in Nat BY <1>2, <1>11, <2>1 DEF Follows
    <3>2. \A u \in n.used : ~(x < u /\ u <= b) BY <1>2, <1>11, <2>1, <3>1, SMTT(30) DEF Follows
    <3>3. x \in T BY <1>11, <2>1, <3>1, <3>2, SMTT(30)
    <3> QED BY <1>11, <3>1, <3>3, SMTT(30)
  <2> QED BY <1>1, <1>11, <2>1
<1>13. o \in S /\ \A p \in S : p <= o
  <2>1. r \in S BY <1>11, <1>12
  <2>2. S \subseteq Nat /\ S # {} /\ \A p \in S : p <= b BY <1>2, <2>1
  <2> HIDE DEF S
  <2>3. Max(S) \in S /\ \A p \in S : Max(S) >= p BY <2>2, GreatestElement
  <2> QED BY <2>2, <2>3
<1> HIDE DEF o
<1>14. o \in c.regions /\ o \in n.regions /\ o \in Nat /\ o <= b BY <1>1, <1>2, <1>13
<1>15. o \notin n.used
  <2>1. r <= o /\ r \in Nat BY <1>2, <1>11, <1>12, <1>13
  <2>2. r \notin n.used /\ \A u \in n.used : ~(r < u /\ u <= b) BY <1>11, SMTT(30) DEF _is_free
  <2> QED BY <1>14, <2>1, <2>2, SMTT(30)
<1>16. b + size <= End(c, o)
  <2>1. ASSUME NEW p \in c.regions, o < p PROVE b + size <= p
    <3>1. p \in Nat /\ p \in n.regions BY <1>1, <1>2
    <3>2. PICK u \in n.used : o < u /\ u <= p
      <4>1. ~Follows(n, o, p) BY <1>1, <1>14, <1>15, <3>1 DEF _is_free
      <4> QED BY <2>1, <4>1 DEF Follows
    <3>3. u \in Nat /\ u \in c.regions BY <1>1, <1>2
    <3>4. b < u BY <1>13, <1>14, <3>2, <3>3, SMTT(30)
    <3>5. ~(u \in b .. b + size - 1) BY <1>6
    <3> QED BY <3>1, <3>2, <3>3, <3>4, <3>5, SMTT(30)
  <2>2. b + size \in Nat /\ b + size <= c.desc.size BY <1>1, <1>8, SMTT(30)
  <2> QED BY <1>1, <1>14, <2>1, <2>2, EndBound
<1>17. Fits(c, o, size, align)
  <2>1. Skip(c, o, align) \in Nat /\ Skip(c, o, align) <= b - o
    <3> DEFINE x == n.desc.paddr + o
               y == n.desc.paddr + b
    <3>1. x \in Nat /\ y \in Nat /\ x <= y /\ y % align = 0 /\ y - x = b - o BY <1>3, <1>14, SMTT(30)
    <3>2. Skip(c, o, align) = (-x) % align BY <1>1 DEF Skip
    <3> HIDE DEF x, y
    <3>3. (-x) % align \in Nat /\ (-x) % align <= y - x BY <3>1, SkipFacts, SkipLeast
    <3> QED BY <3>1, <3>2, <3>3
  <2>2. End(c, o) \in Nat BY <1>1, <1>14, EndFacts
  <2> DEFINE e == End(c, o)
             s == Skip(c, o, align)
  <2>3. e - o > s /\ (e - o) - s >= size
    <3> HIDE DEF e, s
    <3> QED BY <1>14, <1>16, <2>1, <2>2, SMTT(30) DEF e, s
  <2> QED BY <1>1, <1>15, <2>3 DEF Fits, _is_free, _mem_size
<1> QED BY <1>14, <1>17 DEF Candidates, c

\* No node has a run of free bytes that the walk of dma_alloc would miss.
LEMMA InvRefused == DmaInv => RefusedOnlyWhenFull
<1> SUFFICES ASSUME DmaInv, NEW size \in DmaSizes, NEW align \in DmaAligns,
                    NothingFits(size, Max({align, MinAlign})), NEW k \in 1..Len(nodes),
                    NEW b \in 0 .. nodes[k].desc.size - 1,
                    (nodes[k].desc.paddr + b) % Max({align, MinAlign}) = 0,
                    b .. b + size - 1 \subseteq FreeBytes(nodes[k])
             PROVE  FALSE
  BY DEF RefusedOnlyWhenFull
<1> DEFINE al == Max({align, MinAlign})
<1>1. size \in Nat \ {0} /\ al \in Nat \ {0} BY AlignFacts, DmaAssumption
<1>2. GoodNode(nodes[k]) BY DEF DmaInv, Consistent
<1>3. b \in Nat
  <2>1. nodes[k].desc.size \in Nat BY <1>2, DescFacts DEF GoodNode, Node
  <2> QED BY <2>1, SMTT(30)
<1> HIDE DEF al
<1>4. Candidates(nodes[k], size, al) # {} BY <1>1, <1>2, <1>3, NodeFull DEF al
<1> QED BY <1>4 DEF NothingFits, al

\* dma_alloc finds no region only when no node has an aligned run of free bytes
\* of the size asked for, however its free memory is cut into regions.
THEOREM RefusedOnlyWhenFullCorrect == DmaSpec => []RefusedOnlyWhenFull
<1> QED BY DmaInvCorrect, InvRefused, PTL
=============================================================================
