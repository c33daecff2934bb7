------------------------- MODULE GuestMemoryProofs --------------------------
(***************************************************************************)
(* Proofs about the guest address space, for every number of pages, page   *)
(* size, sequence of requests and point of failure: reservations share no  *)
(* byte, a fault finds the one it belongs to, and the pages mapped are     *)
(* those of mapped reservations.  They hold when requests keep to pages:   *)
(* fixed addresses are page aligned and alignments divide a page.  Without *)
(* that the second part of ReservationsDisjoint fails, as run anon_align   *)
(* shows.                                                                  *)
(***************************************************************************)
EXTENDS GuestRam, TLAPS, WellFoundedInduction

\* Leaves that name no prover go to Zenon.
USE ZenonT(30)

\* A set of numbers has a least element.
LEMMA LeastElement ==
  ASSUME NEW S, S \subseteq Nat, S # {}
  PROVE  Min(S) \in S /\ \A x \in S : Min(S) <= x
<1>1. \E x \in S : \A y \in S : ~ (<<y, x>> \in OpToRel(<, Nat))
  BY NatLessThanWellFounded, WFMin
<1>2. PICK x \in S : \A y \in S : ~ (<<y, x>> \in OpToRel(<, Nat)) BY <1>1
<1>3. \A y \in S : ~ (y < x) BY <1>2 DEF OpToRel
<1>4. \A y \in S : x <= y BY <1>3, SMTT(30)
<1> QED BY <1>4, ZenonT(60) DEF Min

KeepsToPages ==
    /\ Starts \subseteq Nat /\ Sizes \subseteq Nat \ {0} /\ Aligns \subseteq Nat \ {0}
    /\ \A start \in Starts : start % Page = 0
    /\ \A align \in Aligns : Page % align = 0

(***************************************************************************)
(* Arithmetic of pages                                                     *)
(***************************************************************************)
\* A page has bytes.
LEMMA PageFacts == Page \in Nat \ {0}
BY GuestMemoryAssumption, SMTT(30)

\* Dividing by a page size keeps the order.
LEMMA DivMono ==
  ASSUME NEW x \in Nat, NEW y \in Nat, x <= y, NEW p \in Nat \ {0}
  PROVE  x \div p <= y \div p /\ x \div p \in Nat
BY SMTT(30)

\* The page of an address grows with the address.
LEMMA PageMono == \A x, y \in Nat : x <= y => x \div Page <= y \div Page /\ x \div Page \in Nat
BY DivMono, PageFacts

\* A multiple has no remainder.
LEMMA ModOfMultiple ==
  ASSUME NEW k \in Nat, NEW p \in Nat \ {0}
  PROVE  (k * p) % p = 0
BY SMTT(30)

\* A number without remainder is a multiple.
LEMMA MultipleOfMod ==
  ASSUME NEW x \in Nat, NEW p \in Nat \ {0}, x % p = 0
  PROVE  \E k \in Nat : x = k * p
BY SMTT(30)

\* The sum of two multiples is one.
LEMMA ModSum ==
  ASSUME NEW x \in Nat, NEW y \in Nat, NEW p \in Nat \ {0}, x % p = 0, y % p = 0
  PROVE  (x + y) % p = 0
<1>1. PICK k \in Nat : x = k * p BY MultipleOfMod
<1>2. PICK l \in Nat : y = l * p BY MultipleOfMod
<1>3. k + l \in Nat /\ x + y = (k + l) * p BY <1>1, <1>2, SMTT(30)
<1> QED BY <1>3, ModOfMultiple

\* ROUND_UP goes up, and to a multiple.
LEMMA RoundUpFacts ==
  ASSUME NEW x \in Nat, NEW p \in Nat \ {0}
  PROVE  ROUND_UP(x, p) \in Nat /\ ROUND_UP(x, p) >= x /\ ROUND_UP(x, p) % p = 0
<1>1. ROUND_UP(x, p) >= x BY SMTT(30) DEF ROUND_UP
<1>2. (x + p - 1) \div p \in Nat BY SMTT(30)
<1>3. ROUND_UP(x, p) % p = 0 BY <1>2, ModOfMultiple, SMTT(30) DEF ROUND_UP
<1> QED BY <1>1, <1>2, <1>3, SMTT(30) DEF ROUND_UP

\* A page boundary satisfies every alignment that divides a page.
LEMMA RoundUpBoundary ==
  ASSUME NEW x \in Nat, NEW p \in Nat \ {0}, NEW a \in Nat \ {0}, x % p = 0, p % a = 0
  PROVE  ROUND_UP(x, a) = x
<1>1. PICK k \in Nat : x = k * p BY MultipleOfMod
<1>2. PICK l \in Nat : p = l * a BY MultipleOfMod
<1>3. k * l \in Nat /\ x = (k * l) * a BY <1>1, <1>2, SMTT(30)
<1>4. PICK m \in Nat : x = m * a BY <1>3, SMTT(30)
<1>5. (m * a + a - 1) \div a = m BY SMTT(30)
<1> QED BY <1>4, <1>5, SMTT(30) DEF ROUND_UP

\* Ranges that share a byte share a page.
LEMMA SharedPage ==
  ASSUME NEW c, NEW d, NEW x \in Nat,
         c.addr \in Nat, c.size \in Nat \ {0}, c.addr <= x, x < c.addr + c.size,
         d.addr \in Nat, d.size \in Nat \ {0}, d.addr <= x, x < d.addr + d.size
  PROVE  PagesOf(c) \cap PagesOf(d) # {}
<1>1. c.addr + c.size - 1 \in Nat /\ x <= c.addr + c.size - 1 BY SMTT(30)
<1>2. d.addr + d.size - 1 \in Nat /\ x <= d.addr + d.size - 1 BY SMTT(30)
<1>3. /\ c.addr \div Page <= x \div Page /\ x \div Page <= (c.addr + c.size - 1) \div Page
      /\ d.addr \div Page <= x \div Page /\ x \div Page <= (d.addr + d.size - 1) \div Page
      /\ x \div Page \in Nat /\ c.addr \div Page \in Nat /\ (c.addr + c.size - 1) \div Page \in Nat
      /\ d.addr \div Page \in Nat /\ (d.addr + d.size - 1) \div Page \in Nat
  <2> DEFINE cl == c.addr + c.size - 1
             dl == d.addr + d.size - 1
  <2>1. cl \in Nat /\ x <= cl /\ dl \in Nat /\ x <= dl BY <1>1, <1>2, SMTT(30)
  <2> HIDE DEF cl, dl
  <2>2. c.addr \div Page <= x \div Page /\ c.addr \div Page \in Nat BY PageMono
  <2>3. d.addr \div Page <= x \div Page /\ d.addr \div Page \in Nat BY PageMono
  <2>4. x \div Page <= cl \div Page /\ x \div Page \in Nat BY <2>1, PageMono
  <2>5. x \div Page <= dl \div Page BY <2>1, PageMono
  <2>6. cl <= cl /\ dl <= dl BY <2>1, SMTT(30)
  <2>7. cl \div Page \in Nat /\ dl \div Page \in Nat BY <2>1, <2>6, PageMono
  <2> QED BY <2>2, <2>3, <2>4, <2>5, <2>7 DEF cl, dl
<1>4. x \div Page \in PagesOf(c) /\ x \div Page \in PagesOf(d)
  BY <1>3, SMTT(30) DEF PagesOf
<1> QED BY <1>4, SMTT(30)

(***************************************************************************)
(* The inductive invariant                                                 *)
(***************************************************************************)
Extent(r) == [addr |-> r.addr, size |-> r.size]
Claims == [addr : Nat, size : Nat \ {0}]
Reservation == [addr : Nat, size : Nat \ {0}, mapped : BOOLEAN, lazy : BOOLEAN]
AnonymousRegion == [addr : Nat, size : Nat \ {0}, alloc : Nat, subs : Seq(Reservation)]

\* The reservations of an anonymous region follow each other in order, below
\* the next free address, which is a page boundary within the region.
Packed(a) ==
    /\ a.alloc % Page = 0 /\ a.addr <= a.alloc /\ a.alloc <= a.addr + a.size
    /\ \A i \in 1 .. Len(a.subs) :
          a.addr <= a.subs[i].addr /\ a.subs[i].addr + a.subs[i].size <= a.alloc
    /\ \A i, j \in 1 .. Len(a.subs) : i < j => a.subs[i].addr + a.subs[i].size <= a.subs[j].addr

\* Claims share no page, and every node of the two trees has a claim to itself.
MemInv ==
    /\ claims \subseteq Claims /\ regular \subseteq Reservation /\ anon \subseteq AnonymousRegion
    /\ \A c, d \in claims : c # d => PagesOf(c) \cap PagesOf(d) = {}
    /\ \A r \in regular : Extent(r) \in claims
    /\ \A a \in anon : Extent(a) \in claims
    /\ \A r, s \in regular : Extent(r) = Extent(s) => r = s
    /\ \A a, b \in anon : Extent(a) = Extent(b) => a = b
    /\ \A r \in regular, a \in anon : Extent(r) # Extent(a)
    /\ \A a \in anon : Packed(a)

\* A range that is available shares no page with a claim, and is none itself.
LEMMA FreshClaim ==
  ASSUME MemInv, NEW addr \in Nat, NEW size \in Nat \ {0}, Available(addr, size)
  PROVE  LET new == [addr |-> addr, size |-> size]
         IN  /\ new \in Claims /\ new \notin claims
             /\ \A c, d \in claims \cup {new} : c # d => PagesOf(c) \cap PagesOf(d) = {}
<1> DEFINE new == [addr |-> addr, size |-> size]
<1>1. new \in Claims BY SMTT(30) DEF Claims
<1>2. \A c \in claims : PagesOf(c) \cap PagesOf(new) = {} BY SMTT(30) DEF Available
<1>3. PagesOf(new) \cap PagesOf(new) # {}
  <2>1. new.addr \in Nat /\ new.size \in Nat \ {0} /\ new.addr <= addr /\ addr < new.addr + new.size
    BY SMTT(30)
  <2> HIDE DEF new
  <2> QED BY <2>1, SharedPage, SMTT(30)
<1> HIDE DEF new
<1>4. \A c, d \in claims : c # d => PagesOf(c) \cap PagesOf(d) = {} BY SMTT(30) DEF MemInv
<1>5. \A c, d \in claims \cup {new} : c # d => PagesOf(c) \cap PagesOf(d) = {}
  BY <1>2, <1>4
<1> QED BY <1>1, <1>2, <1>3, <1>5 DEF new

\* A reservation at a fixed, available address keeps the invariant.
LEMMA AddRegular ==
  ASSUME MemInv, NEW r \in Reservation, Available(r.addr, r.size),
         claims' = Claim(r.addr, r.size), regular' = regular \cup {r}, anon' = anon
  PROVE  MemInv'
<1>1. r.addr \in Nat /\ r.size \in Nat \ {0} BY SMTT(30) DEF Reservation
<1>2. claims' = claims \cup {Extent(r)} BY SMTT(30) DEF Claim, Extent
<1>3. /\ Extent(r) \in Claims /\ Extent(r) \notin claims
      /\ \A c, d \in claims \cup {Extent(r)} : c # d => PagesOf(c) \cap PagesOf(d) = {}
  BY <1>1, FreshClaim DEF Extent
<1> QED BY <1>2, <1>3, SMTT(30) DEF MemInv

\* So does an anonymous region.
LEMMA AddAnonymous ==
  ASSUME MemInv, NEW a \in AnonymousRegion, Packed(a), Available(a.addr, a.size),
         claims' = Claim(a.addr, a.size), anon' = anon \cup {a}, regular' = regular
  PROVE  MemInv'
<1>1. a.addr \in Nat /\ a.size \in Nat \ {0} BY SMTT(30) DEF AnonymousRegion
<1>2. claims' = claims \cup {Extent(a)} BY SMTT(30) DEF Claim, Extent
<1>3. /\ Extent(a) \in Claims /\ Extent(a) \notin claims
      /\ \A c, d \in claims \cup {Extent(a)} : c # d => PagesOf(c) \cap PagesOf(d) = {}
  BY <1>1, FreshClaim DEF Extent
<1> QED BY <1>2, <1>3, SMTT(30) DEF MemInv

\* A claim that outlives its reservation or region (no memory for the object)
\* only keeps others away.
LEMMA AddClaim ==
  ASSUME MemInv, NEW addr \in Nat, NEW size \in Nat \ {0}, Available(addr, size),
         claims' = Claim(addr, size), UNCHANGED <<regular, anon>>
  PROVE  MemInv'
<1> DEFINE new == [addr |-> addr, size |-> size]
<1>1. /\ new \in Claims /\ new \notin claims
      /\ \A c, d \in claims \cup {new} : c # d => PagesOf(c) \cap PagesOf(d) = {}
  BY FreshClaim, SMTT(30)
<1>2. claims' = claims \cup {new} BY SMTT(30) DEF Claim
<1> HIDE DEF new
<1> QED BY <1>1, <1>2 DEF MemInv

\* vm_free_reserved_memory gives up the claim of the freed reservation and of no
\* other.
LEMMA FreeRegular ==
  ASSUME MemInv, NEW r \in regular, NEW c, Free(r, c), anon' = anon
  PROVE  MemInv'
<1>1. Extent(r) \in claims /\ r \in Reservation BY SMTT(30) DEF MemInv
<1>2. claims' = claims \ {Extent(r)} BY SMTT(30) DEF Free, Extent
<1>3. regular' \subseteq regular BY SMTT(30) DEF Free, remove_memory_reservation_node
<1>4. r \notin regular'
  BY <1>1, SMTT(30) DEF Free, remove_memory_reservation_node, Intersect, Reservation
<1>5. \A s \in regular' : Extent(s) \in claims' BY <1>2, <1>3, <1>4 DEF MemInv
<1>6. \A a \in anon' : Extent(a) \in claims' BY <1>2, SMTT(30) DEF MemInv
<1> QED BY <1>2, <1>3, <1>5, <1>6 DEF MemInv

(***************************************************************************)
(* Mapping a reservation changes its flags and nothing else.  f is what    *)
(* becomes of each reservation.                                            *)
(***************************************************************************)
Flagged(f) ==
    /\ f \in [Reservations -> Reservation]
    /\ \A q \in Reservations : f[q].addr = q.addr /\ f[q].size = q.size
WithSubs(a, f) == [a EXCEPT !.subs = [i \in DOMAIN @ |-> f[@[i]]]]
Relabels(f) ==
    /\ Flagged(f)
    /\ regular' = {f[r] : r \in regular}
    /\ anon' = {WithSubs(a, f) : a \in anon}

\* What was carved out of a region is a reservation.
LEMMA SubsAreReservations ==
  ASSUME NEW a \in anon, NEW i \in DOMAIN a.subs
  PROVE  a.subs[i] \in Reservations
BY SMTT(30) DEF Reservations, Range

\* New flags leave a region where it was, and packed.
LEMMA FlaggedRegion ==
  ASSUME MemInv, NEW f, Flagged(f), NEW a \in anon
  PROVE  /\ WithSubs(a, f) \in AnonymousRegion
         /\ Extent(WithSubs(a, f)) = Extent(a)
         /\ Packed(WithSubs(a, f))
<1> DEFINE b == WithSubs(a, f)
           subs == [i \in DOMAIN a.subs |-> f[a.subs[i]]]
<1>1. a \in AnonymousRegion /\ Packed(a) BY SMTT(30) DEF MemInv
<1>2. a.subs \in Seq(Reservation) BY <1>1, SMTT(30) DEF AnonymousRegion
<1>3. DOMAIN a.subs = 1 .. Len(a.subs) /\ Len(a.subs) \in Nat BY <1>2, SMTT(30)
<1>4. \A i \in 1 .. Len(a.subs) :
         subs[i] \in Reservation /\ subs[i].addr = a.subs[i].addr /\ subs[i].size = a.subs[i].size
  BY <1>3, SubsAreReservations DEF Flagged
<1>5. subs \in Seq(Reservation) /\ Len(subs) = Len(a.subs)
  <2>1. subs \in [1 .. Len(a.subs) -> Reservation] BY <1>3, <1>4
  <2> QED BY <1>3, <2>1, SMTT(30)
<1>6. b = [a EXCEPT !.subs = subs] BY SMTT(30) DEF WithSubs
<1> HIDE DEF b, subs
<1>7. b.addr = a.addr /\ b.size = a.size /\ b.alloc = a.alloc /\ b.subs = subs /\ b \in AnonymousRegion
  BY <1>1, <1>5, <1>6 DEF AnonymousRegion
<1>8. Packed(b) BY <1>1, <1>4, <1>5, <1>7, SMTT(30) DEF Packed
<1> QED BY <1>7, <1>8 DEF Extent, b

\* New flags on any reservations keep the invariant.
LEMMA Relabelled ==
  ASSUME MemInv, NEW f, Relabels(f), claims' = claims
  PROVE  MemInv'
<1>0. Flagged(f) /\ regular' = {f[r] : r \in regular} /\ anon' = {WithSubs(a, f) : a \in anon}
  BY SMTT(30) DEF Relabels
<1>1. \A r \in regular : r \in Reservations BY DEF Reservations
<1>2. \A r \in regular : f[r] \in Reservation /\ Extent(f[r]) = Extent(r)
  BY <1>0, <1>1 DEF Flagged, Extent
<1>3. \A a \in anon : /\ WithSubs(a, f) \in AnonymousRegion /\ Packed(WithSubs(a, f))
                      /\ Extent(WithSubs(a, f)) = Extent(a)
  BY <1>0, FlaggedRegion
<1>4. regular' \subseteq Reservation /\ anon' \subseteq AnonymousRegion
  BY <1>0, <1>2, <1>3
<1>5. (\A r \in regular' : Extent(r) \in claims) /\ (\A a \in anon' : Extent(a) \in claims /\ Packed(a))
  BY <1>0, <1>2, <1>3, SMTT(30) DEF MemInv
<1>6. \A r, s \in regular' : Extent(r) = Extent(s) => r = s
  BY <1>0, <1>2, SMTT(30) DEF MemInv
<1>7. \A a, b \in anon' : Extent(a) = Extent(b) => a = b
  BY <1>0, <1>3, SMTT(30) DEF MemInv
<1>8. \A r \in regular', a \in anon' : Extent(r) # Extent(a)
  BY <1>0, <1>2, <1>3, SMTT(30) DEF MemInv
<1> QED BY <1>4, <1>5, <1>6, <1>7, <1>8 DEF MemInv

\* Afterwards the reservations are those of before with their new flags.
LEMMA RelabelledReservations ==
  ASSUME MemInv, NEW f, Relabels(f)
  PROVE  Reservations' = {f[q] : q \in Reservations}
<1>1. \A a \in anon : WithSubs(a, f).subs = [i \in DOMAIN a.subs |-> f[a.subs[i]]]
  BY SMTT(30) DEF WithSubs, MemInv, AnonymousRegion
<1>2. ASSUME NEW q \in Reservations' PROVE \E r \in Reservations : q = f[r]
  <2>1. CASE q \in regular' BY <2>1 DEF Reservations, Relabels
  <2>2. CASE \E b \in anon' : q \in Range(b.subs)
    <3>1. PICK b \in anon' : q \in Range(b.subs) BY <2>2, SMTT(30)
    <3>2. PICK a \in anon : b = WithSubs(a, f) BY <3>1 DEF Relabels
    <3>3. PICK i \in DOMAIN a.subs : q = f[a.subs[i]] BY <1>1, <3>1, <3>2 DEF Range
    <3> QED BY <3>3, SubsAreReservations
  <2> QED BY <2>1, <2>2, SMTT(30) DEF Reservations
<1>3. ASSUME NEW q \in Reservations PROVE f[q] \in Reservations'
  <2>1. CASE q \in regular BY <2>1 DEF Reservations, Relabels
  <2>2. CASE \E a \in anon : q \in Range(a.subs)
    <3>1. PICK a \in anon : q \in Range(a.subs) BY <2>2, SMTT(30)
    <3>2. PICK i \in DOMAIN a.subs : q = a.subs[i] BY <3>1 DEF Range
    <3>3. f[q] \in Range(WithSubs(a, f).subs)
      <4>1. WithSubs(a, f).subs = [j \in DOMAIN a.subs |-> f[a.subs[j]]] BY <1>1
      <4>2. i \in DOMAIN WithSubs(a, f).subs /\ WithSubs(a, f).subs[i] = f[q]
        BY <3>2, <4>1
      <4> QED BY <4>2 DEF Range
    <3>4. WithSubs(a, f) \in anon' BY SMTT(30) DEF Relabels
    <3> QED BY <3>3, <3>4 DEF Reservations
  <2> QED BY <2>1, <2>2, SMTT(30) DEF Reservations
<1> QED BY <1>2, <1>3

(***************************************************************************)
(* A reservation carved out of an anonymous region.                        *)
(***************************************************************************)
\* Of a set of regions one has the smallest address.
LEMMA SmallestAddr ==
  ASSUME NEW S, S # {}, \A a \in S : a.addr \in Nat
  PROVE  \E a \in S : \A b \in S : a.addr <= b.addr
<1> DEFINE addrs == {a.addr : a \in S}
<1>1. addrs \subseteq Nat /\ addrs # {} BY SMTT(30)
<1> HIDE DEF addrs
<1>2. \E x \in addrs : \A y \in addrs : ~ (<<y, x>> \in OpToRel(<, Nat))
  BY <1>1, NatLessThanWellFounded, WFMin
<1>3. PICK x \in addrs : \A y \in addrs : ~ (<<y, x>> \in OpToRel(<, Nat)) BY <1>2
<1>4. \A y \in addrs : ~ (y < x) BY <1>1, <1>3 DEF OpToRel
<1>5. \A y \in addrs : x <= y BY <1>1, <1>4, SMTT(30)
<1> QED BY <1>5, SMTT(30) DEF addrs

\* The region find_allocable_anon_region settles on has room behind its next free
\* address, which needs no further alignment.
LEMMA AnonRegionFits ==
  ASSUME MemInv, NEW size \in Nat \ {0}, NEW align \in Nat \ {0}, Page % align = 0,
         Allocable(size, align) # {}
  PROVE  LET a == AnonRegion(size, align)
         IN  /\ a \in anon /\ ROUND_UP(a.alloc, align) = a.alloc
             /\ a.alloc + ROUND_UP(size, Page) <= a.addr + a.size
<1> DEFINE a == AnonRegion(size, align)
<1>1. Allocable(size, align) \subseteq anon BY SMTT(30) DEF Allocable
<1>2. \A b \in Allocable(size, align) : b.addr \in Nat BY <1>1, SMTT(30) DEF MemInv, AnonymousRegion
<1>3. \E b \in Allocable(size, align) : \A c \in Allocable(size, align) : b.addr <= c.addr
  BY <1>2, SmallestAddr
<1>4. a \in Allocable(size, align) BY <1>3 DEF AnonRegion
<1> HIDE DEF a
<1>5. a \in anon /\ a \in AnonymousRegion /\ Packed(a) BY <1>1, <1>4 DEF MemInv
<1>6. a.alloc \in Nat /\ a.addr \in Nat /\ a.size \in Nat BY <1>5 DEF AnonymousRegion
<1>7. ROUND_UP(a.alloc, align) = a.alloc BY <1>5, <1>6, PageFacts, RoundUpBoundary DEF Packed
<1>8. ROUND_UP(size, Page) \in Nat BY PageFacts, RoundUpFacts
<1>9. a.alloc - a.addr > a.size \/ ROUND_UP(size, Page) <= a.size - (a.alloc - a.addr)
  BY <1>4, <1>7 DEF Allocable
<1>10. a.alloc + ROUND_UP(size, Page) <= a.addr + a.size
  BY <1>5, <1>6, <1>8, <1>9, SMTT(30) DEF Packed
<1> QED BY <1>5, <1>7, <1>10 DEF a

\* A reservation at the next free address of a region, within the region, keeps
\* the invariant.
LEMMA Carved ==
  ASSUME MemInv, NEW a \in anon, NEW r \in Reservation, r.addr = a.alloc,
         r.addr + ROUND_UP(r.size, Page) <= a.addr + a.size,
         Carve(a, r), UNCHANGED <<claims, regular>>
  PROVE  MemInv'
<1> DEFINE b == [a EXCEPT !.alloc = r.addr + ROUND_UP(r.size, Page), !.subs = Append(@, r)]
           end == r.addr + ROUND_UP(r.size, Page)
<1>1. a \in AnonymousRegion /\ Packed(a) BY SMTT(30) DEF MemInv
<1>2. r.addr \in Nat /\ r.size \in Nat \ {0} BY DEF Reservation
<1>3. ROUND_UP(r.size, Page) \in Nat /\ ROUND_UP(r.size, Page) >= r.size /\ ROUND_UP(r.size, Page) % Page = 0
  BY <1>2, PageFacts, RoundUpFacts
<1>4. end \in Nat /\ r.addr + r.size <= end /\ end <= a.addr + a.size BY <1>2, <1>3, SMTT(30)
<1>5. end % Page = 0
  <2>1. r.addr % Page = 0 BY <1>1 DEF Packed
  <2> QED BY <1>2, <1>3, <2>1, PageFacts, ModSum
<1>6. a.subs \in Seq(Reservation) /\ a.addr \in Nat /\ a.size \in Nat \ {0} /\ a.alloc \in Nat
  BY <1>1 DEF AnonymousRegion
<1>7. /\ Append(a.subs, r) \in Seq(Reservation) /\ Len(Append(a.subs, r)) = Len(a.subs) + 1
      /\ \A i \in 1 .. Len(a.subs) : Append(a.subs, r)[i] = a.subs[i]
      /\ Append(a.subs, r)[Len(a.subs) + 1] = r
  BY <1>6, SMTT(30)
<1>8. anon' = (anon \ {a}) \cup {b} BY SMTT(30) DEF Carve
<1> HIDE DEF end
<1>9. b = [a EXCEPT !.alloc = end, !.subs = Append(a.subs, r)] BY SMTT(30) DEF end
<1> HIDE DEF b
<1>10. /\ b \in AnonymousRegion /\ b.addr = a.addr /\ b.size = a.size
       /\ b.alloc = end /\ b.subs = Append(a.subs, r)
  BY <1>1, <1>4, <1>7, <1>9 DEF AnonymousRegion
<1>11. Len(a.subs) \in Nat BY <1>6, SMTT(30)
<1>12. Packed(b)
  <2>1. b.alloc % Page = 0 /\ b.addr <= b.alloc /\ b.alloc <= b.addr + b.size
    BY <1>1, <1>2, <1>4, <1>5, <1>6, <1>10, SMTT(30) DEF Packed
  <2>2. \A i \in 1 .. Len(a.subs) : a.subs[i].addr \in Nat /\ a.subs[i].size \in Nat
    <3>1. \A i \in 1 .. Len(a.subs) : a.subs[i] \in Reservation BY <1>6, SMTT(30)
    <3> QED BY <3>1 DEF Reservation
  <2>3. ASSUME NEW i \in 1 .. Len(b.subs)
        PROVE  b.addr <= b.subs[i].addr /\ b.subs[i].addr + b.subs[i].size <= b.alloc
    <3>1. CASE i \in 1 .. Len(a.subs)
      <4>1. b.subs[i] = a.subs[i] BY <1>7, <1>10, <3>1
      <4>2. a.addr <= a.subs[i].addr /\ a.subs[i].addr + a.subs[i].size <= a.alloc
        BY <1>1, <3>1 DEF Packed
      <4>3. a.alloc <= end BY <1>2, <1>4, SMTT(30)
      <4>4. a.subs[i].addr + a.subs[i].size <= end BY <1>4, <1>6, <2>2, <3>1, <4>2, <4>3, SMTT(30)
      <4> QED BY <1>10, <4>1, <4>2, <4>4
    <3>2. CASE i = Len(a.subs) + 1
      BY <1>1, <1>4, <1>7, <1>10, <3>2, SMTT(30) DEF Packed
    <3> QED BY <1>7, <1>10, <1>11, <3>1, <3>2, SMTT(30)
  <2>4. ASSUME NEW i \in 1 .. Len(b.subs), NEW j \in 1 .. Len(b.subs), i < j
        PROVE  b.subs[i].addr + b.subs[i].size <= b.subs[j].addr
    <3>1. i \in 1 .. Len(a.subs) /\ (j \in 1 .. Len(a.subs) \/ j = Len(a.subs) + 1)
      BY <1>7, <1>10, <1>11, <2>4, SMTT(30)
    <3>2. b.subs[i] = a.subs[i] BY <1>7, <1>10, <3>1
    <3>3. CASE j \in 1 .. Len(a.subs)
      <4>1. b.subs[j] = a.subs[j] BY <1>7, <1>10, <3>3
      <4> QED BY <1>1, <2>4, <3>1, <3>2, <3>3, <4>1 DEF Packed
    <3>4. CASE j = Len(a.subs) + 1
      BY <1>1, <1>7, <1>10, <3>1, <3>2, <3>4 DEF Packed
    <3> QED BY <3>1, <3>3, <3>4
  <2> QED BY <2>1, <2>3, <2>4 DEF Packed
<1>13. Extent(b) = Extent(a) BY <1>10, SMTT(30) DEF Extent
<1> QED BY <1>8, <1>10, <1>12, <1>13 DEF MemInv

(***************************************************************************)
(* Every step of the guest address space and of guest RAM preserves the    *)
(* invariant                                                               *)
(***************************************************************************)
\* Mapping and arming set flags of a reservation and leave its bytes.
LEMMA ReservationFlags ==
  ASSUME NEW r \in Reservation, NEW ok \in BOOLEAN
  PROVE  /\ MapResult(r, ok) \in Reservation /\ Extent(MapResult(r, ok)) = Extent(r)
         /\ MapResult(r, ok).addr = r.addr /\ MapResult(r, ok).size = r.size
         /\ Armed(r) \in Reservation /\ Extent(Armed(r)) = Extent(r)
         /\ Armed(r).addr = r.addr /\ Armed(r).size = r.size
BY DEF Reservation, MapResult, Armed, Extent

\* A new reservation is well typed.
LEMMA NewReservation ==
  ASSUME NEW addr \in Nat, NEW size \in Nat \ {0}
  PROVE  New(addr, size) \in Reservation /\ New(addr, size).addr = addr /\ New(addr, size).size = size
BY SMTT(30) DEF New, Reservation

\* All reservations are well typed.
LEMMA ReservationsTyped == MemInv => Reservations \subseteq Reservation
<1> SUFFICES ASSUME MemInv, NEW r \in Reservations PROVE r \in Reservation
  OBVIOUS
<1>1. CASE r \in regular BY <1>1 DEF MemInv
<1>2. CASE \E a \in anon : r \in Range(a.subs)
  <2>1. PICK a \in anon : r \in Range(a.subs) BY <1>2
  <2>2. a.subs \in Seq(Reservation) BY DEF MemInv, AnonymousRegion
  <2>3. PICK i \in DOMAIN a.subs : r = a.subs[i] BY <2>1 DEF Range
  <2>4. i \in 1 .. Len(a.subs) BY <2>2, <2>3, SMTT(30)
  <2> QED BY <2>2, <2>3, <2>4, SMTT(30)
<1> QED BY <1>1, <1>2 DEF Reservations

\* MapNow maps one reservation, or gives up on it.
LEMMA MapNowFlags ==
  ASSUME MemInv, NEW r, NEW ok \in BOOLEAN, MapNow(r, ok)
  PROVE  Relabels([q \in Reservations |-> IF q = r THEN MapResult(q, ok) ELSE q])
<1> DEFINE f == [q \in Reservations |-> IF q = r THEN MapResult(q, ok) ELSE q]
<1>1. Flagged(f) BY ReservationsTyped, ReservationFlags DEF Flagged
<1>2. regular' = {f[q] : q \in regular}
  BY SMTT(30) DEF MapNow, UpdateAll, Reservations
<1>3. anon' = {WithSubs(a, f) : a \in anon}
  <2>1. \A a \in anon :
           [a EXCEPT !.subs = [i \in DOMAIN @ |-> IF @[i] = r THEN MapResult(r, ok) ELSE @[i]]]
               = WithSubs(a, f)
    <3> SUFFICES ASSUME NEW a \in anon
                 PROVE  [i \in DOMAIN a.subs |-> IF a.subs[i] = r THEN MapResult(r, ok) ELSE a.subs[i]]
                          = [i \in DOMAIN a.subs |-> f[a.subs[i]]]
      BY DEF WithSubs
    <3> QED BY SubsAreReservations
  <2> QED BY <2>1, ZenonT(60) DEF MapNow, UpdateAll
<1> HIDE DEF f
<1>4. Relabels(f) BY <1>1, <1>2, <1>3, SMTT(30) DEF Relabels
<1> QED BY <1>4 DEF f

\* Mapping a reservation keeps the invariant.
LEMMA MapNowInv ==
  ASSUME MemInv, NEW r, NEW ok \in BOOLEAN, MapNow(r, ok), claims' = claims
  PROVE  MemInv'
BY MapNowFlags, Relabelled

ArmAll(r) == UpdateAll(LAMBDA q : IF q = r THEN Armed(r) ELSE q)

\* vm_map_reservation with deferred mappings only sets the iterator.
LEMMA ArmFlags ==
  ASSUME MemInv, NEW r, ArmAll(r)
  PROVE  Relabels([q \in Reservations |-> IF q = r THEN Armed(q) ELSE q])
<1> DEFINE f == [q \in Reservations |-> IF q = r THEN Armed(q) ELSE q]
<1>1. Flagged(f) BY ReservationsTyped, ReservationFlags DEF Flagged
<1>2. regular' = {f[q] : q \in regular}
  BY SMTT(30) DEF ArmAll, UpdateAll, Reservations
<1>3. anon' = {WithSubs(a, f) : a \in anon}
  <2>1. \A a \in anon :
           [a EXCEPT !.subs = [i \in DOMAIN @ |-> IF @[i] = r THEN Armed(r) ELSE @[i]]]
               = WithSubs(a, f)
    <3> SUFFICES ASSUME NEW a \in anon
                 PROVE  [i \in DOMAIN a.subs |-> IF a.subs[i] = r THEN Armed(r) ELSE a.subs[i]]
                          = [i \in DOMAIN a.subs |-> f[a.subs[i]]]
      BY DEF WithSubs
    <3> QED BY SubsAreReservations
  <2> QED BY <2>1, ZenonT(60) DEF ArmAll, UpdateAll
<1> HIDE DEF f
<1>4. Relabels(f) BY <1>1, <1>2, <1>3, SMTT(30) DEF Relabels
<1> QED BY <1>4, SMTT(30) DEF f

\* Installing an iterator for later keeps the invariant.
LEMMA ArmInv ==
  ASSUME MemInv, NEW r, ArmAll(r), claims' = claims
  PROVE  MemInv'
BY ArmFlags, Relabelled

\* vm_ram_touch maps the reservations rs it meets on its way, up to one it
\* gives up on, bad.
Touches(rs, bad, addr, size) ==
    /\ Relabels([q \in Reservations |-> IF q \in rs THEN MapResult(q, TRUE)
                                       ELSE IF q = bad THEN MapResult(q, FALSE) ELSE q])
    /\ MapEffect(rs, IF bad # NULL /\ bad.lazy THEN bad ELSE NULL)
    /\ \A r \in rs \cup ({bad} \ {NULL}) :
          ~r.mapped /\ r # NULL /\ \E b \in Bytes(addr, size) : r = vm_reservation_find_by_addr(b)

\* Touching RAM is such a step.
LEMMA TouchFlags ==
  ASSUME MemInv, NEW addr, NEW size, vm_ram_touch(addr, size)
  PROVE  \E rs, bad : Touches(rs, bad, addr, size)
<1> DEFINE touched == {vm_reservation_find_by_addr(b) : b \in Bytes(addr, size)}
           due == {r \in touched : ~r.mapped}
           Rs(bad) == IF bad = NULL THEN due ELSE {r \in due : r.addr < bad.addr}
<1>1. PICK bad \in due \cup {NULL} :
         /\ MapEffect(Rs(bad), IF bad # NULL /\ bad.lazy THEN bad ELSE NULL)
         /\ UpdateAll(LAMBDA r : IF r \in Rs(bad) THEN MapResult(r, TRUE)
                                 ELSE IF r = bad THEN MapResult(r, FALSE) ELSE r)
  BY DEF vm_ram_touch, UpdateAll
<1>2. NULL \notin touched BY SMTT(30) DEF vm_ram_touch
<1> DEFINE rs == Rs(bad)
<1>3. \A r \in rs \cup ({bad} \ {NULL}) :
         ~r.mapped /\ r # NULL /\ \E b \in Bytes(addr, size) : r = vm_reservation_find_by_addr(b)
  BY <1>1, <1>2
<1> HIDE DEF touched, due, Rs
<1> DEFINE f == [q \in Reservations |-> IF q \in rs THEN MapResult(q, TRUE)
                                       ELSE IF q = bad THEN MapResult(q, FALSE) ELSE q]
<1>4. Flagged(f) BY ReservationsTyped, ReservationFlags DEF Flagged
<1>5. regular' = {f[q] : q \in regular}
  BY <1>1 DEF UpdateAll, Reservations
<1>6. anon' = {WithSubs(a, f) : a \in anon}
  <2>1. \A a \in anon :
           [a EXCEPT !.subs = [i \in DOMAIN @ |-> IF @[i] \in rs THEN MapResult(@[i], TRUE)
                                                 ELSE IF @[i] = bad THEN MapResult(@[i], FALSE)
                                                 ELSE @[i]]] = WithSubs(a, f)
    <3> SUFFICES ASSUME NEW a \in anon
                 PROVE  [i \in DOMAIN a.subs |-> IF a.subs[i] \in rs THEN MapResult(a.subs[i], TRUE)
                                                ELSE IF a.subs[i] = bad THEN MapResult(a.subs[i], FALSE)
                                                ELSE a.subs[i]]
                          = [i \in DOMAIN a.subs |-> f[a.subs[i]]]
      BY DEF WithSubs
    <3> QED BY SubsAreReservations
  <2> QED BY <1>1, <2>1, ZenonT(60) DEF UpdateAll
<1> HIDE DEF f
<1>7. Relabels(f) BY <1>4, <1>5, <1>6, SMTT(30) DEF Relabels
<1>8. Touches(rs, bad, addr, size) BY <1>1, <1>3, <1>7 DEF Touches, f
<1> QED BY <1>8, SMTT(30)

\* Touching guest RAM keeps the invariant.
LEMMA TouchInv ==
  ASSUME MemInv, NEW addr, NEW size, vm_ram_touch(addr, size)
  PROVE  MemInv'
<1>1. PICK rs, bad : Touches(rs, bad, addr, size) BY TouchFlags
<1>2. claims' = claims BY DEF vm_ram_touch
<1> QED BY <1>1, <1>2, Relabelled DEF Touches

\* Steps that leave claims and trees alone.
LEMMA SameInv == ASSUME MemInv, UNCHANGED <<claims, regular, anon>> PROVE MemInv'
BY SMTT(30) DEF MemInv

\* A reservation at a fixed address that is mapped when it is made.
LEMMA ReserveAndMapInv ==
  ASSUME MemInv, NEW addr \in Nat, NEW size \in Nat \ {0}, NEW ok \in BOOLEAN, ReserveAndMap(addr, size, ok)
  PROVE  MemInv'
<1>1. New(addr, size) \in Reservation /\ New(addr, size).addr = addr /\ New(addr, size).size = size
  BY NewReservation
<1>2. PICK made \in {Armed(New(addr, size)), MapResult(New(addr, size), ok)} :
         regular' = IF ok THEN regular \cup {made} ELSE regular
  BY DEF ReserveAndMap
<1>3. made \in Reservation /\ made.addr = addr /\ made.size = size
  BY <1>1, <1>2, ReservationFlags, SMTT(30)
<1>4. Available(addr, size) /\ anon' = anon /\ claims' = IF ok THEN Claim(addr, size) ELSE claims
  BY DEF ReserveAndMap
<1>5. CASE ok BY <1>2, <1>3, <1>4, <1>5, AddRegular
<1>6. CASE ~ok BY <1>2, <1>4, <1>6, SameInv
<1> QED BY <1>5, <1>6

\* A reservation carved out of an anonymous region; made is what becomes of it.
LEMMA CarveInv ==
  ASSUME MemInv, NEW size \in Nat \ {0}, NEW align \in Nat \ {0}, Page % align = 0,
         Allocable(size, align) # {}, NEW made \in Reservation,
         made.addr = ROUND_UP(AnonRegion(size, align).alloc, align), made.size = size,
         Carve(AnonRegion(size, align), made), UNCHANGED <<claims, regular>>
  PROVE  MemInv'
<1> DEFINE a == AnonRegion(size, align)
<1>1. a \in anon /\ ROUND_UP(a.alloc, align) = a.alloc /\ a.alloc + ROUND_UP(size, Page) <= a.addr + a.size
  BY AnonRegionFits
<1> HIDE DEF a
<1>2. made.addr = a.alloc /\ made.addr + ROUND_UP(made.size, Page) <= a.addr + a.size /\ Carve(a, made)
  BY <1>1 DEF a
<1> QED BY <1>1, <1>2, Carved

\* The address a carved reservation gets is one.
LEMMA CarveAddr ==
  ASSUME MemInv, NEW size \in Nat \ {0}, NEW align \in Nat \ {0}, Page % align = 0,
         Allocable(size, align) # {}
  PROVE  ROUND_UP(AnonRegion(size, align).alloc, align) \in Nat
<1> DEFINE a == AnonRegion(size, align)
<1>1. a \in anon /\ ROUND_UP(a.alloc, align) = a.alloc BY AnonRegionFits
<1> HIDE DEF a
<1>2. a.alloc \in Nat BY <1>1 DEF MemInv, AnonymousRegion
<1> QED BY <1>1, <1>2 DEF a

\* Reserving memory, fixed or anonymous.
LEMMA ReserveInv == ASSUME KeepsToPages, MemInv, Reserve PROVE MemInv'
<1>1. ASSUME NEW addr \in Starts, NEW size \in Sizes, vm_reserve_memory_at(addr, size) PROVE MemInv'
  <2>1. addr \in Nat /\ size \in Nat \ {0} BY DEF KeepsToPages
  <2>2. New(addr, size) \in Reservation /\ New(addr, size).addr = addr /\ New(addr, size).size = size
    BY <2>1, NewReservation
  <2>3. /\ Available(addr, size) /\ claims' = Claim(addr, size) /\ anon' = anon
        /\ regular' = regular \cup {New(addr, size)}
    BY <1>1 DEF vm_reserve_memory_at, add_memory_reservation_node
  <2> QED BY <2>2, <2>3, AddRegular
<1>2. ASSUME NEW addr \in Starts, NEW size \in Sizes,
             NEW malloc \in BOOLEAN, vm_memory_make_anon(addr, size, malloc)
      PROVE  MemInv'
  <2> DEFINE a == [addr |-> addr, size |-> size, alloc |-> addr, subs |-> <<>>]
  <2>1. addr \in Nat /\ size \in Nat \ {0} /\ addr % Page = 0 BY DEF KeepsToPages
  <2>2. Available(addr, size) /\ claims' = Claim(addr, size) /\ regular' = regular
    BY <1>2 DEF vm_memory_make_anon
  <2>3. CASE malloc
    <3>1. anon' = anon \cup {a} BY <1>2, <2>3 DEF vm_memory_make_anon, add_memory_reservation_node
    <3>2. a \in AnonymousRegion /\ a.addr = addr /\ a.size = size BY <2>1, SMTT(30) DEF AnonymousRegion
    <3>3. Packed(a) BY <2>1, SMTT(30) DEF Packed
    <3> HIDE DEF a
    <3> QED BY <2>2, <3>1, <3>2, <3>3, AddAnonymous
  <2>4. CASE ~malloc
    <3>1. anon' = anon BY <1>2, <2>4 DEF vm_memory_make_anon
    <3> QED BY <2>1, <2>2, <3>1, AddClaim
  <2> QED BY <2>3, <2>4
<1>3. ASSUME NEW size \in Sizes, NEW align \in Aligns, vm_reserve_anon_memory(size, align) PROVE MemInv'
  <2> DEFINE at == ROUND_UP(AnonRegion(size, align).alloc, align)
  <2>1. size \in Nat \ {0} /\ align \in Nat \ {0} /\ Page % align = 0 BY DEF KeepsToPages
  <2>2. /\ Allocable(size, align) # {} /\ Carve(AnonRegion(size, align), New(at, size))
        /\ UNCHANGED <<claims, regular>>
    BY <1>3 DEF vm_reserve_anon_memory
  <2>3. at \in Nat BY <2>1, <2>2, CarveAddr
  <2>4. New(at, size) \in Reservation /\ New(at, size).addr = at /\ New(at, size).size = size
    BY <2>1, <2>3, NewReservation
  <2> QED BY <2>1, <2>2, <2>4, CarveInv
<1> QED BY <1>1, <1>2, <1>3 DEF Reserve

\* Mapping or freeing a reservation.
LEMMA UseInv == ASSUME MemInv, Use PROVE MemInv'
<1>1. ASSUME NEW r \in Reservations, NEW ok \in BOOLEAN, map_frame_alloc_reservation(r, ok) PROVE MemInv'
  <2>1. claims' = claims BY <1>1 DEF map_frame_alloc_reservation, vm_map_reservation
  <2>2. CASE deferred \/ r.mapped
    <3>1. ArmAll(r)
      BY <1>1, <2>2 DEF map_frame_alloc_reservation, vm_map_reservation, ArmAll, UpdateAll
    <3> QED BY <2>1, <3>1, ArmInv
  <2>3. CASE ~(deferred \/ r.mapped)
    <3>1. MapNow(r, ok) BY <1>1, <2>3 DEF map_frame_alloc_reservation, vm_map_reservation
    <3> QED BY <2>1, <3>1, MapNowInv
  <2> QED BY <2>2, <2>3
<1>2. ASSUME NEW r \in Reservations, vm_free_reserved_memory(r) PROVE MemInv'
  <2>1. PICK c : Free(r, c) BY <1>2 DEF vm_free_reserved_memory
  <2>2. r \in regular /\ anon' = anon BY <1>2 DEF vm_free_reserved_memory
  <2> QED BY <2>1, <2>2, FreeRegular
<1> QED BY <1>1, <1>2 DEF Use

\* A fault, which may map its reservation.
LEMMA FaultInv == ASSUME MemInv, Fault PROVE MemInv'
<1>1. PICK addr, size, result : vm_memory_handle_fault(addr, size, result) BY SMTT(30) DEF Fault
<1> DEFINE r == vm_reservation_find_by_addr(addr)
<1>2. UNCHANGED memVars \/ \E ok \in BOOLEAN : map_vm_memory_reservation(r, ok)
  BY <1>1 DEF vm_memory_handle_fault
<1>3. CASE UNCHANGED memVars BY <1>3, SameInv DEF memVars
<1> HIDE DEF r
<1>4. ASSUME NEW ok \in BOOLEAN, map_vm_memory_reservation(r, ok) PROVE MemInv'
  <2>1. claims' = claims BY <1>4, SMTT(30) DEF map_vm_memory_reservation
  <2>2. UNCHANGED <<regular, anon>> \/ MapNow(r, ok) BY <1>4 DEF map_vm_memory_reservation
  <2> QED BY <2>1, <2>2, MapNowInv, SameInv
<1> QED BY <1>2, <1>3, <1>4

\* Frames shared with emulated devices.
LEMMA FramesInv == ASSUME KeepsToPages, MemInv, Frames PROVE MemInv'
<1>1. PICK addr \in Starts, ok \in BOOLEAN : ReserveAndMap(addr, Page, ok)
  BY SMTT(30) DEF Frames, create_allocated_reservation_frame, create_device_reservation_frame
<1>2. addr \in Nat BY DEF KeepsToPages
<1> QED BY <1>1, <1>2, PageFacts, ReserveAndMapInv

\* Registering, touching and allocating guest RAM.
LEMMA RamInv == ASSUME KeepsToPages, MemInv, RamNext PROVE MemInv'
<1>1. ASSUME NEW start \in Starts, NEW bytes \in Sizes,
             NEW ok \in BOOLEAN, vm_ram_register_at(start, bytes, ok)
      PROVE  MemInv'
  <2>1. start \in Nat /\ bytes \in Nat \ {0} BY DEF KeepsToPages
  <2> QED BY <1>1, <2>1, ReserveAndMapInv DEF vm_ram_register_at
<1>2. ASSUME NEW bytes \in Sizes, NEW ok \in BOOLEAN, vm_ram_register(bytes, ok) PROVE MemInv'
  <2> DEFINE at == ROUND_UP(AnonRegion(bytes, Page).alloc, Page)
  <2>1. bytes \in Nat \ {0} /\ Page \in Nat \ {0} /\ Page % Page = 0 BY PageFacts, SMTT(30) DEF KeepsToPages
  <2>2. PICK made \in {Armed(New(at, bytes)), MapResult(New(at, bytes), ok)} :
               Carve(AnonRegion(bytes, Page), made)
    BY <1>2 DEF vm_ram_register
  <2>3. Allocable(bytes, Page) # {} /\ UNCHANGED <<claims, regular>> BY <1>2 DEF vm_ram_register
  <2>4. at \in Nat BY <2>1, <2>3, CarveAddr
  <2>5. New(at, bytes) \in Reservation /\ New(at, bytes).addr = at /\ New(at, bytes).size = bytes
    BY <2>1, <2>4, NewReservation
  <2>6. made \in Reservation /\ made.addr = at /\ made.size = bytes
    BY <2>2, <2>5, ReservationFlags, SMTT(30)
  <2> QED BY <2>1, <2>2, <2>3, <2>6, CarveInv
<1>3. ASSUME NEW start, NEW bytes, vm_ram_touch(start, bytes) PROVE MemInv'
  BY <1>3, TouchInv
<1>4. CASE UNCHANGED <<claims, regular, anon>> BY <1>4, SameInv
<1> QED BY <1>1, <1>2, <1>3, <1>4 DEF RamNext

\* Nothing is reserved at first.
LEMMA InitInv == Init => MemInv
BY SMTT(30) DEF Init, MemInit, MemInv

\* Every step preserves the invariant.
LEMMA NextInv == KeepsToPages /\ MemInv /\ [Next]_vars => MemInv'
<1> SUFFICES ASSUME KeepsToPages, MemInv, [Next]_vars PROVE MemInv'
  OBVIOUS
<1>1. CASE vm_guest_add_iospace BY <1>1, SameInv DEF vm_guest_add_iospace
<1>2. CASE Reserve BY <1>2, ReserveInv
<1>3. CASE Use BY <1>3, UseInv
<1>4. CASE Fault BY <1>4, FaultInv
<1>5. CASE Frames BY <1>5, FramesInv, SMTT(30)
<1>6. CASE RamNext BY <1>6, RamInv, SMTT(30)
<1>7. CASE UNCHANGED vars BY <1>7, SameInv DEF vars, memVars
<1> QED BY <1>1, <1>2, <1>3, <1>4, <1>5, <1>6, <1>7 DEF Next

(***************************************************************************)
(* What the invariant says of reservations                                 *)
(***************************************************************************)
Within(r, c) == c.addr <= r.addr /\ r.addr + r.size <= c.addr + c.size

\* What a part holds the whole holds.
LEMMA WithinHolds ==
  ASSUME NEW r, NEW c, NEW x \in Nat, Within(r, c), r.addr <= x, x < r.addr + r.size,
         r.addr \in Nat, r.size \in Nat, c.addr \in Nat, c.size \in Nat
  PROVE  c.addr <= x /\ x < c.addr + c.size
BY SMTT(30) DEF Within

\* Typed facts about an anonymous region and its reservations.
LEMMA AnonFacts ==
  ASSUME MemInv, NEW a \in anon
  PROVE  /\ a.addr \in Nat /\ a.size \in Nat \ {0} /\ a.alloc \in Nat /\ Packed(a)
         /\ DOMAIN a.subs = 1 .. Len(a.subs) /\ Len(a.subs) \in Nat
         /\ \A i \in 1 .. Len(a.subs) : /\ a.subs[i] \in Reservation /\ Within(a.subs[i], a)
                                        /\ a.subs[i].addr \in Nat /\ a.subs[i].size \in Nat \ {0}
<1>1. a \in AnonymousRegion /\ Packed(a) BY DEF MemInv
<1>2. a.addr \in Nat /\ a.size \in Nat \ {0} /\ a.alloc \in Nat /\ a.subs \in Seq(Reservation)
  BY <1>1 DEF AnonymousRegion
<1>3. DOMAIN a.subs = 1 .. Len(a.subs) /\ Len(a.subs) \in Nat BY <1>2, SMTT(30)
<1>4. ASSUME NEW i \in 1 .. Len(a.subs)
      PROVE  /\ a.subs[i] \in Reservation /\ Within(a.subs[i], a)
             /\ a.subs[i].addr \in Nat /\ a.subs[i].size \in Nat \ {0}
  <2>1. a.subs[i] \in Reservation BY <1>2, SMTT(30)
  <2>2. a.subs[i].addr \in Nat /\ a.subs[i].size \in Nat \ {0} BY <2>1 DEF Reservation
  <2>3. a.addr <= a.subs[i].addr /\ a.subs[i].addr + a.subs[i].size <= a.alloc /\ a.alloc <= a.addr + a.size
    BY <1>1 DEF Packed
  <2>4. Within(a.subs[i], a) BY <1>2, <2>2, <2>3, SMTT(60) DEF Within
  <2> QED BY <2>1, <2>2, <2>4
<1> QED BY <1>1, <1>2, <1>3, <1>4

\* Two ranges with claims of their own share no byte.
LEMMA NodesDisjoint ==
  ASSUME MemInv, NEW u, NEW v, NEW x \in Nat,
         Extent(u) \in claims, Extent(v) \in claims, Extent(u) # Extent(v),
         u.addr <= x, x < u.addr + u.size, v.addr <= x, x < v.addr + v.size
  PROVE  FALSE
<1>1. Extent(u) \in Claims /\ Extent(v) \in Claims BY DEF MemInv
<1>2. u.addr \in Nat /\ u.size \in Nat \ {0} /\ v.addr \in Nat /\ v.size \in Nat \ {0}
  BY <1>1 DEF Extent, Claims
<1>3. PagesOf(Extent(u)) \cap PagesOf(Extent(v)) = {} BY DEF MemInv
<1>4. PagesOf(u) \cap PagesOf(v) # {} BY <1>2, SharedPage
<1> QED BY <1>3, <1>4, SMTT(30) DEF PagesOf, Extent

\* A byte lies in one reservation at most.
LEMMA OneHolder ==
  ASSUME MemInv, NEW r \in Reservations, NEW s \in Reservations, NEW x \in Nat,
         r.addr <= x, x < r.addr + r.size, s.addr <= x, x < s.addr + s.size
  PROVE  r = s
<1>1. CASE r \in regular /\ s \in regular
  BY <1>1, NodesDisjoint DEF MemInv
<1>2. ASSUME NEW u \in regular, NEW a \in anon, NEW i \in 1 .. Len(a.subs),
             u.addr <= x, x < u.addr + u.size,
             a.subs[i].addr <= x, x < a.subs[i].addr + a.subs[i].size
      PROVE  FALSE
  <2>1. a.addr <= x /\ x < a.addr + a.size
    <3>1. /\ a.addr \in Nat /\ a.size \in Nat /\ a.subs[i].addr \in Nat /\ a.subs[i].size \in Nat
          /\ Within(a.subs[i], a)
      BY AnonFacts
    <3> QED BY <1>2, <3>1, WithinHolds, ZenonT(60)
  <2>2. Extent(u) \in claims /\ Extent(a) \in claims /\ Extent(u) # Extent(a) BY DEF MemInv
  <2> QED BY <1>2, <2>1, <2>2, NodesDisjoint
<1>3. ASSUME NEW a \in anon, NEW i \in 1 .. Len(a.subs), NEW b \in anon, NEW j \in 1 .. Len(b.subs),
             a.subs[i].addr <= x, x < a.subs[i].addr + a.subs[i].size,
             b.subs[j].addr <= x, x < b.subs[j].addr + b.subs[j].size
      PROVE  a.subs[i] = b.subs[j]
  <2>1. a.addr <= x /\ x < a.addr + a.size
    <3>1. /\ a.addr \in Nat /\ a.size \in Nat /\ a.subs[i].addr \in Nat /\ a.subs[i].size \in Nat
          /\ Within(a.subs[i], a)
      BY AnonFacts, SMTT(30)
    <3> QED BY <1>3, <3>1, WithinHolds, ZenonT(60)
  <2>2. b.addr <= x /\ x < b.addr + b.size
    <3>1. /\ b.addr \in Nat /\ b.size \in Nat /\ b.subs[j].addr \in Nat /\ b.subs[j].size \in Nat
          /\ Within(b.subs[j], b)
      BY AnonFacts
    <3> QED BY <1>3, <3>1, WithinHolds, ZenonT(60)
  <2>3. Extent(a) \in claims /\ Extent(b) \in claims /\ (Extent(a) = Extent(b) => a = b) BY SMTT(30) DEF MemInv
  <2>4. a = b BY <2>1, <2>2, <2>3, NodesDisjoint, ZenonT(60)
  <2>5. ~(i < j) /\ ~(j < i)
    <3>1. /\ i < j => a.subs[i].addr + a.subs[i].size <= a.subs[j].addr
          /\ j < i => a.subs[j].addr + a.subs[j].size <= a.subs[i].addr
      <4>1. Packed(a) BY AnonFacts
      <4>2. j \in 1 .. Len(a.subs) BY <2>4
      <4> QED BY <4>1, <4>2 DEF Packed
    <3>2. /\ a.subs[i].addr \in Nat /\ a.subs[i].size \in Nat
          /\ a.subs[j].addr \in Nat /\ a.subs[j].size \in Nat
      BY <2>4, AnonFacts
    <3>3. a.subs[j].addr <= x /\ x < a.subs[j].addr + a.subs[j].size BY <1>3, <2>4
    <3>4. CASE i < j BY <1>3, <3>1, <3>2, <3>3, <3>4, SMTT(60)
    <3>5. CASE j < i BY <1>3, <3>1, <3>2, <3>3, <3>5, SMTT(60)
    <3> QED BY <3>4, <3>5
  <2>6. i = j BY <2>5, <2>4, AnonFacts, SMTT(30)
  <2> QED BY <2>4, <2>6
<1>4. \A q \in Reservations : q \in regular \/ \E a \in anon : \E i \in 1 .. Len(a.subs) : q = a.subs[i]
  <2> SUFFICES ASSUME NEW q \in Reservations, q \notin regular
               PROVE  \E a \in anon : \E i \in 1 .. Len(a.subs) : q = a.subs[i]
    BY SMTT(30)
  <2>1. PICK a \in anon : q \in Range(a.subs) BY DEF Reservations
  <2>2. PICK i \in DOMAIN a.subs : q = a.subs[i] BY <2>1 DEF Range
  <2> QED BY <2>2, AnonFacts, SMTT(60)
<1>5. CASE r \in regular /\ s \notin regular BY <1>2, <1>4, <1>5
<1>6. CASE r \notin regular /\ s \in regular BY <1>2, <1>4, <1>6
<1>7. CASE r \notin regular /\ s \notin regular
  <2>1. PICK a \in anon : \E i \in 1 .. Len(a.subs) : r = a.subs[i] BY <1>4, <1>7
  <2>2. PICK b \in anon : \E j \in 1 .. Len(b.subs) : s = b.subs[j] BY <1>4, <1>7
  <2> QED BY <1>3, <2>1, <2>2
<1> QED BY <1>1, <1>5, <1>6, <1>7

\* The invariant implies ReservationsDisjoint.
LEMMA InvDisjoint == MemInv => ReservationsDisjoint
<1> SUFFICES ASSUME MemInv PROVE ReservationsDisjoint
  OBVIOUS
<1>1. ASSUME NEW r \in Reservations, NEW s \in Reservations, r # s
      PROVE  Bytes(r.addr, r.size) \cap Bytes(s.addr, s.size) = {}
  <2> SUFFICES ASSUME NEW x \in Bytes(r.addr, r.size), x \in Bytes(s.addr, s.size) PROVE FALSE
    OBVIOUS
  <2>1. r \in Reservation /\ s \in Reservation BY ReservationsTyped
  <2>2. r.addr \in Nat /\ r.size \in Nat /\ s.addr \in Nat /\ s.size \in Nat BY <2>1 DEF Reservation
  <2>3. x \in Nat /\ r.addr <= x /\ x < r.addr + r.size /\ s.addr <= x /\ x < s.addr + s.size
    BY <2>2, SMTT(30) DEF Bytes
  <2> QED BY <1>1, <2>3, OneHolder
<1>2. \A r \in regular : [addr |-> r.addr, size |-> r.size] \in claims BY ZenonT(60) DEF MemInv, Extent
<1>3. \A a \in anon : [addr |-> a.addr, size |-> a.size] \in claims BY ZenonT(60) DEF MemInv, Extent
<1>4. ASSUME NEW a \in anon, NEW r \in Range(a.subs) PROVE is_subregion(a.addr, a.size, r.addr, r.size)
  <2>1. PICK i \in 1 .. Len(a.subs) : r = a.subs[i] BY AnonFacts DEF Range
  <2>2. Within(r, a) /\ r.addr \in Nat /\ r.size \in Nat /\ a.addr \in Nat /\ a.size \in Nat
    BY <2>1, AnonFacts
  <2> QED BY <2>2, SMTT(30) DEF Within, is_subregion
<1> QED BY <1>1, <1>2, <1>3, <1>4 DEF ReservationsDisjoint

\* The search for an address in a tree finds the nodes that hold it.
LEMMA TreeSearch ==
  ASSUME NEW u, u.addr \in Nat, u.size \in Nat \ {0}, NEW x \in Nat
  PROVE  Intersect(u, [addr |-> x, size |-> 0]) <=> u.addr <= x /\ x < u.addr + u.size
BY SMTT(30) DEF Intersect

\* The invariant implies FaultFindsReservation.
LEMMA FoundReservation ==
  ASSUME MemInv, NEW x \in Nat
  PROVE  LET hold == {r \in Reservations : x \in Bytes(r.addr, r.size)}
             r == vm_reservation_find_by_addr(x)
         IN  IF hold = {} THEN r = NULL ELSE r \in hold
<1> DEFINE hold == {r \in Reservations : x \in Bytes(r.addr, r.size)}
           inRegular == find_memory_reservation_by_addr(regular, x)
           inAnon == find_memory_reservation_by_addr(anon, x)
           found == vm_reservation_find_by_addr(x)
<1>1. x \in Nat BY SMTT(30)
<1>2. \A r \in Reservations : r \in hold <=> r.addr <= x /\ x < r.addr + r.size
  <2> SUFFICES ASSUME NEW r \in Reservations PROVE r \in hold <=> r.addr <= x /\ x < r.addr + r.size
    OBVIOUS
  <2>1. r.addr \in Nat /\ r.size \in Nat BY ReservationsTyped DEF Reservation
  <2> QED BY <1>1, <2>1, SMTT(30) DEF Bytes
<1>3. inRegular = {r \in regular : r.addr <= x /\ x < r.addr + r.size}
  <2>1. \A r \in regular : r.addr \in Nat /\ r.size \in Nat \ {0} BY DEF MemInv, Reservation
  <2> QED BY <1>1, <2>1, TreeSearch DEF find_memory_reservation_by_addr
<1>4. inAnon = {a \in anon : a.addr <= x /\ x < a.addr + a.size}
  <2>1. \A a \in anon : a.addr \in Nat /\ a.size \in Nat \ {0} BY AnonFacts
  <2> QED BY <1>1, <2>1, TreeSearch, SMTT(30) DEF find_memory_reservation_by_addr
<1>5. found = IF inRegular # {} THEN CHOOSE r \in inRegular : TRUE
              ELSE IF inAnon # {} THEN find_anon_reservation_by_addr(x, CHOOSE a \in inAnon : TRUE)
              ELSE NULL
  BY SMTT(30) DEF vm_reservation_find_by_addr
<1>6. regular \subseteq Reservations BY DEF Reservations
<1> HIDE DEF hold, inRegular, inAnon, found
<1>7. CASE inRegular # {}
  <2>1. found \in inRegular BY <1>5, <1>7
  <2> QED BY <1>2, <1>3, <1>6, <2>1 DEF hold, found
\* A reservation that is not in the regular tree lies in its anonymous region.
<1>8. ASSUME inRegular = {}, NEW r \in hold
      PROVE  \E a \in inAnon : \E i \in 1 .. Len(a.subs) :
                r = a.subs[i] /\ a.subs[i].addr <= x /\ x < a.subs[i].addr + a.subs[i].size
  <2>1. r \in Reservations /\ r.addr <= x /\ x < r.addr + r.size BY <1>2 DEF hold
  <2>2. r \notin regular BY <1>3, <1>8, <2>1
  <2>3. PICK a \in anon : r \in Range(a.subs) BY <2>1, <2>2 DEF Reservations
  <2>4. PICK i \in 1 .. Len(a.subs) : r = a.subs[i] BY <2>3, AnonFacts DEF Range
  <2>5. Within(r, a) /\ r.addr \in Nat /\ r.size \in Nat /\ a.addr \in Nat /\ a.size \in Nat
    BY <2>4, AnonFacts
  <2>6. a.addr <= x /\ x < a.addr + a.size BY <1>1, <2>1, <2>5, WithinHolds, ZenonT(60)
  <2>7. a \in inAnon BY <1>4, <2>6
  <2> QED BY <2>1, <2>4, <2>7
<1>9. CASE inRegular = {} /\ inAnon = {}
  <2>1. hold = {} BY <1>8, <1>9
  <2> QED BY <1>5, <1>9, <2>1 DEF hold, found
<1>10. CASE inRegular = {} /\ inAnon # {}
  <2> DEFINE a == CHOOSE a \in inAnon : TRUE
             hit == {i \in 1 .. Len(a.subs) : is_subregion(a.subs[i].addr, a.subs[i].size, x, 1)}
  <2>1. a \in inAnon BY <1>10
  <2>2. found = IF hit = {} THEN NULL ELSE a.subs[Min(hit)]
    BY <1>5, <1>10 DEF find_anon_reservation_by_addr
  <2> HIDE DEF a
  <2>3. a \in anon /\ a.addr <= x /\ x < a.addr + a.size BY <1>4, <2>1
  <2>4. \A i \in 1 .. Len(a.subs) : i \in hit <=> a.subs[i].addr <= x /\ x < a.subs[i].addr + a.subs[i].size
    <3> SUFFICES ASSUME NEW i \in 1 .. Len(a.subs)
                 PROVE  i \in hit <=> a.subs[i].addr <= x /\ x < a.subs[i].addr + a.subs[i].size
      BY SMTT(30)
    <3>1. a.subs[i].addr \in Nat /\ a.subs[i].size \in Nat \ {0} BY <2>3, AnonFacts
    <3> QED BY <1>1, <3>1, SMTT(60) DEF is_subregion
  <2>5. hit \subseteq 1 .. Len(a.subs) OBVIOUS
  <2> HIDE DEF hit
  <2>6. CASE hit = {}
    <3>1. ASSUME NEW r \in hold PROVE FALSE
      <4>1. PICK b \in inAnon : \E i \in 1 .. Len(b.subs) :
               r = b.subs[i] /\ b.subs[i].addr <= x /\ x < b.subs[i].addr + b.subs[i].size
        BY <1>8, <1>10
      <4>2. b \in anon /\ b.addr <= x /\ x < b.addr + b.size BY <1>4
      <4>3. Extent(a) \in claims /\ Extent(b) \in claims /\ (Extent(a) = Extent(b) => a = b)
        BY <2>3, <4>2 DEF MemInv
      <4>4. a = b BY <1>1, <2>3, <4>2, <4>3, NodesDisjoint
      <4> QED BY <2>4, <2>6, <4>1, <4>4
    <3> QED BY <2>2, <2>6, <3>1 DEF hold, found
  <2>7. CASE hit # {}
    <3>1. hit \subseteq Nat BY <2>3, <2>5, AnonFacts, SMTT(30)
    <3>2. Min(hit) \in hit BY <2>7, <3>1, LeastElement, ZenonT(60)
    <3>3. a.subs[Min(hit)] \in Reservations
      BY <2>3, <2>5, <3>2, AnonFacts, SubsAreReservations, ZenonT(60)
    <3>4. found \in hold BY <1>2, <2>2, <2>4, <2>5, <2>7, <3>2, <3>3, ZenonT(60)
    <3> QED BY <3>4 DEF hold, found
  <2> QED BY <2>6, <2>7
<1> QED BY <1>7, <1>9, <1>10

\* So every fault does.
LEMMA InvFault == MemInv => FaultFindsReservation
<1>1. \A x \in 0 .. Limit - 1 : x \in Nat BY GuestMemoryAssumption, SMTT(30)
<1> QED BY <1>1, FoundReservation DEF FaultFindsReservation

\* A search finds a reservation or nothing.
LEMMA FoundKind ==
  ASSUME MemInv, NEW x \in Nat
  PROVE  vm_reservation_find_by_addr(x) \in Reservations \cup {NULL}
BY FoundReservation

(***************************************************************************)
(* Mappings                                                                *)
(***************************************************************************)
Covered == {p \in Pages : \E r \in Reservations : r.mapped /\ p \in PagesOf(r)}

\* The pages c are mapped everywhere, the others nowhere, unless in fl.
Matching(c, sp, n, fl) ==
    /\ \A p \in c : sp[p] = 0 .. n
    /\ \A p \in Pages \ fl : sp[p] # {} => p \in c

MapInv ==
    /\ MemInv
    /\ \A c \in claims : c.addr + c.size <= Limit
    /\ io \in Nat
    /\ ~done => \A p \in Pages : space[p] = {}
    /\ Matching(Covered, space, io, failed)

\* An address below a multiple lies in an earlier page.
LEMMA DivBelow ==
  ASSUME NEW x \in Nat, NEW k \in Nat, NEW p \in Nat \ {0}, x < k * p
  PROVE  x \div p \in Nat /\ x \div p < k
BY SMTT(30)

\* Dividing a multiple.
LEMMA DivOfMultiple ==
  ASSUME NEW k \in Nat, NEW p \in Nat \ {0}
  PROVE  (k * p) \div p = k
BY SMTT(30)

\* What ends below the limit has its pages.
LEMMA PagesBelow ==
  ASSUME NEW c, c.addr \in Nat, c.size \in Nat \ {0}, c.addr + c.size <= Limit
  PROVE  PagesOf(c) \subseteq Pages
<1>1. Limit \in Nat /\ Page \in Nat \ {0} /\ Limit % Page = 0 BY GuestMemoryAssumption
<1>2. PICK k \in Nat : Limit = k * Page BY <1>1, MultipleOfMod
<1> DEFINE last == c.addr + c.size - 1
<1>3. last \in Nat /\ last < Limit /\ c.addr <= last BY <1>1, SMTT(30)
<1>4. PagesOf(c) = c.addr \div Page .. last \div Page BY SMTT(30) DEF PagesOf
<1> HIDE DEF last
<1>5. last \div Page \in Nat /\ last \div Page < k BY <1>1, <1>2, <1>3, DivBelow
<1>6. c.addr \div Page \in Nat BY <1>3, PageMono
<1>7. Limit \div Page = k BY <1>1, <1>2, DivOfMultiple
<1> HIDE DEF last
<1> QED BY <1>4, <1>5, <1>6, <1>7, SMTT(30) DEF Pages

\* A part has pages of the whole.
LEMMA WithinPages ==
  ASSUME NEW r, NEW c,
         Within(r, c), r.addr \in Nat, r.size \in Nat \ {0}, c.addr \in Nat, c.size \in Nat \ {0}
  PROVE  PagesOf(r) \subseteq PagesOf(c)
<1> DEFINE rl == r.addr + r.size - 1
           cl == c.addr + c.size - 1
<1>1. rl \in Nat /\ cl \in Nat /\ rl <= cl /\ c.addr <= r.addr BY SMTT(30) DEF Within
<1>2. PagesOf(r) = r.addr \div Page .. rl \div Page /\ PagesOf(c) = c.addr \div Page .. cl \div Page
  BY SMTT(30) DEF PagesOf
<1> HIDE DEF rl, cl
<1>3. c.addr \div Page <= r.addr \div Page /\ c.addr \div Page \in Nat BY <1>1, PageMono
<1>4. rl \div Page <= cl \div Page /\ rl \div Page \in Nat BY <1>1, PageMono
<1>5. r.addr <= r.addr /\ cl <= cl BY <1>1, SMTT(30)
<1>6. r.addr \div Page \in Nat /\ cl \div Page \in Nat BY <1>1, <1>5, PageMono
<1> QED BY <1>2, <1>3, <1>4, <1>6, SMTT(30)

\* The pages of a reservation are pages of a claim: its own, or that of the
\* anonymous region it was carved out of.
LEMMA PagesOfNode ==
  ASSUME MemInv, NEW r \in Reservations
  PROVE  \/ r \in regular
         \/ \E a \in anon : r \in Range(a.subs) /\ PagesOf(r) \subseteq PagesOf(a)
<1> SUFFICES ASSUME r \notin regular
  PROVE \E a \in anon : r \in Range(a.subs) /\ PagesOf(r) \subseteq PagesOf(a)
  BY SMTT(30)
<1>1. PICK a \in anon : r \in Range(a.subs) BY DEF Reservations
<1>2. PICK i \in 1 .. Len(a.subs) : r = a.subs[i] BY <1>1, AnonFacts DEF Range
<1>3. /\ Within(r, a) /\ r.addr \in Nat /\ r.size \in Nat \ {0}
      /\ a.addr \in Nat /\ a.size \in Nat \ {0}
  BY <1>2, AnonFacts
<1> QED BY <1>1, <1>3, WithinPages

\* Reservations lie in the guest's pages.
LEMMA ReservationPages ==
  ASSUME MapInv, NEW r \in Reservations
  PROVE  PagesOf(r) \subseteq Pages
<1> MemInv BY DEF MapInv
<1>1. ASSUME NEW q, Extent(q) \in claims PROVE PagesOf(q) \subseteq Pages
  <2>1. Extent(q) \in Claims /\ Extent(q).addr + Extent(q).size <= Limit BY <1>1 DEF MapInv, MemInv
  <2>2. q.addr \in Nat /\ q.size \in Nat \ {0} /\ q.addr + q.size <= Limit BY <2>1 DEF Extent, Claims
  <2> QED BY <2>2, PagesBelow
<1>2. CASE r \in regular BY <1>1, <1>2 DEF MemInv
<1>3. ASSUME NEW a \in anon, PagesOf(r) \subseteq PagesOf(a) PROVE PagesOf(r) \subseteq Pages
  <2>1. PagesOf(a) \subseteq Pages BY <1>1 DEF MemInv
  <2> QED BY <1>3, <2>1
<1> QED BY <1>2, <1>3, PagesOfNode

\* The page mappings are those of the mapped reservations.
LEMMA InvMappings == MapInv => MappingsMatchReservations
<1> SUFFICES ASSUME MapInv PROVE MappingsMatchReservations BY SMTT(30)
<1>1. \A r \in Reservations : r.mapped => \A p \in PagesOf(r) : p \in Covered
  BY ReservationPages DEF Covered
<1>2. Matching(Covered, space, io, failed) BY DEF MapInv
<1> QED BY <1>1, <1>2 DEF Matching, Covered, MappingsMatchReservations

(***************************************************************************)
(* What each kind of step does to the mappings                             *)
(***************************************************************************)
\* MapEffect maps the pages of rs.  A mapping that stops at bad leaves pages
\* behind that were mapped nowhere before.
LEMMA EffectMatching ==
  ASSUME io \in Nat, NEW c \in SUBSET Pages, Matching(c, space, io, failed),
         NEW rs, NEW bad, MapEffect(rs, bad), bad # NULL => bad \in Reservation
  PROVE  Matching(c \cup {p \in Pages : \E r \in rs : p \in PagesOf(r)}, space', io, failed')
<1> DEFINE new == {p \in Pages : \E r \in rs : p \in PagesOf(r)}
<1>1. 0 .. io # {} BY SMTT(30)
<1>2. PICK n \in Pages, j \in 0 .. (IF io = 0 THEN 0 ELSE io + 1) :
         /\ bad # NULL => StopsAt(bad, n, j)
         /\ space' = [p \in Pages |-> IF \E r \in rs : p \in PagesOf(r) THEN 0 .. io
                                      ELSE IF bad # NULL /\ p \in PagesOf(bad) THEN MapPages(bad, n, j)[p]
                                      ELSE space[p]]
  BY DEF MapEffect, guest_vspace_map
<1>3. failed' = IF bad = NULL THEN failed ELSE failed \cup {p \in PagesOf(bad) : space'[p] # {}}
  BY DEF MapEffect
<1>4. ASSUME NEW p \in PagesOf(bad), bad # NULL, p \in Pages, p \in c PROVE MapPages(bad, n, j)[p] = 0 .. io
  <2>1. space[p] = 0 .. io BY <1>4 DEF Matching
  <2>2. bad.addr \in Nat BY <1>4 DEF Reservation
  <2> DEFINE first == bad.addr \div Page
  <2>3. first \in Nat BY <2>2, PageFacts, SMTT(30)
  <2>4. n \in Nat /\ j \in Nat /\ p \in Nat
    <3>1. Limit \div Page \in Int BY GuestMemoryAssumption, SMTT(30)
    <3> QED BY <1>4, <3>1, SMTT(30) DEF Pages
  <2>5. ~(p = first + n /\ j > 0)
    <3> SUFFICES ASSUME p = first + n, j > 0 PROVE FALSE
      OBVIOUS
    <3>1. \A q \in first .. first + n : space[q] = {} BY <1>2, <1>4, <2>3, <2>4, SMTT(30) DEF StopsAt
    <3>2. p \in first .. first + n BY <2>3, <2>4, SMTT(30)
    <3> QED BY <1>1, <2>1, <3>1, <3>2
  <2> QED BY <1>4, <2>1, <2>5 DEF MapPages, frame_start, guest_vspace_map
<1>5. ASSUME NEW p \in c \cup new PROVE space'[p] = 0 .. io
  <2>1. p \in Pages BY <1>5 DEF new
  <2>2. CASE \E r \in rs : p \in PagesOf(r) BY <1>2, <2>1, <2>2
  <2>3. CASE ~(\E r \in rs : p \in PagesOf(r))
    <3>1. p \in c /\ space[p] = 0 .. io BY <1>5, <2>3 DEF new, Matching
    <3> QED BY <1>2, <1>4, <2>1, <2>3, <3>1
  <2> QED BY <2>2, <2>3
<1>6. ASSUME NEW p \in Pages, p \notin failed', space'[p] # {} PROVE p \in c \cup new
  <2>1. p \notin failed /\ ~(bad # NULL /\ p \in PagesOf(bad)) BY <1>3, <1>6
  <2>2. CASE \E r \in rs : p \in PagesOf(r) BY <2>2 DEF new
  <2>3. CASE ~(\E r \in rs : p \in PagesOf(r))
    <3>1. space'[p] = space[p] BY <1>2, <2>1, <2>3
    <3> QED BY <1>6, <2>1, <3>1 DEF Matching
  <2> QED BY <2>2, <2>3
<1> QED BY <1>5, <1>6 DEF Matching, new

\* A step that maps rs, and perhaps a part of bad.
LEMMA MapStep ==
  ASSUME MapInv, MemInv', io' = io, \A c \in claims' : c.addr + c.size <= Limit,
         NEW rs, NEW bad, MapEffect(rs, bad), bad # NULL => bad \in Reservation,
         Covered' = Covered \cup {p \in Pages : \E r \in rs : p \in PagesOf(r)}
  PROVE  MapInv'
<1>1. io \in Nat /\ Matching(Covered, space, io, failed) BY DEF MapInv
<1>2. Covered \in SUBSET Pages BY SMTT(30) DEF Covered
<1>3. Matching(Covered', space', io, failed') BY <1>1, <1>2, EffectMatching
<1>4. ~done' => \A p \in Pages : space'[p] = {} BY DEF MapInv, MapEffect
<1> QED BY <1>1, <1>3, <1>4 DEF MapInv

\* A step that maps nothing.
LEMMA StillStep ==
  ASSUME MapInv, MemInv',
         UNCHANGED <<io, space, done, failed>>, \A c \in claims' : c.addr + c.size <= Limit,
         Covered' = Covered
  PROVE  MapInv'
BY DEF MapInv

\* New flags cover the pages of the newly mapped reservations, rs, as well.
LEMMA CoveredRelabelled ==
  ASSUME MemInv, NEW f, Relabels(f), NEW rs \in SUBSET Reservations,
         \A q \in Reservations : f[q].mapped <=> (q.mapped \/ q \in rs)
  PROVE  Covered' = Covered \cup {p \in Pages : \E r \in rs : p \in PagesOf(r)}
<1>1. Reservations' = {f[q] : q \in Reservations} BY RelabelledReservations
<1>2. \A q \in Reservations : PagesOf(f[q]) = PagesOf(q) BY SMTT(30) DEF Relabels, Flagged, PagesOf
<1>3. ASSUME NEW p \in Covered' PROVE p \in Covered \cup {q \in Pages : \E r \in rs : q \in PagesOf(r)}
  <2>1. PICK s \in Reservations' : s.mapped /\ p \in PagesOf(s) BY <1>3 DEF Covered
  <2>2. PICK q \in Reservations : s = f[q] BY <1>1, <2>1
  <2>3. p \in Pages /\ p \in PagesOf(q) /\ (q.mapped \/ q \in rs)
    BY <1>2, <1>3, <2>1, <2>2 DEF Covered
  <2> QED BY <2>3 DEF Covered
<1>4. ASSUME NEW p \in Pages, NEW q \in Reservations, p \in PagesOf(q), q.mapped \/ q \in rs
  PROVE p \in Covered'
  <2>1. f[q] \in Reservations' /\ f[q].mapped /\ p \in PagesOf(f[q]) BY <1>1, <1>2, <1>4
  <2> QED BY <2>1 DEF Covered
<1> QED BY <1>3, <1>4 DEF Covered

(***************************************************************************)
(* Every step keeps the mappings                                           *)
(***************************************************************************)
\* NULL is no reservation; flags of a mapped or an armed reservation.
LEMMA FlagFacts ==
  ASSUME NEW r \in Reservation, NEW ok \in BOOLEAN
  PROVE  MapResult(r, ok).mapped = ok /\ Armed(r).mapped = r.mapped /\ r # NULL
<1>1. MapResult(r, ok).mapped = ok /\ Armed(r).mapped = r.mapped
  BY DEF MapResult, Armed, Reservation
<1>2. r # NULL BY SMTT(30) DEF NULL, Reservation
<1> QED BY <1>1, <1>2

\* Mapping an unmapped reservation, whether it succeeds or not.
LEMMA MapNowMap ==
  ASSUME MapInv, MemInv', NEW r \in Reservations, ~r.mapped, NEW ok \in BOOLEAN, MapNow(r, ok),
         UNCHANGED <<claims, io>>
  PROVE  MapInv'
<1> DEFINE rs == IF ok THEN {r} ELSE {}
           bad == IF ok THEN NULL ELSE r
           f == [q \in Reservations |-> IF q = r THEN MapResult(q, ok) ELSE q]
<1>1. MemInv /\ \A c \in claims : c.addr + c.size <= Limit BY DEF MapInv
<1>2. Relabels(f) BY <1>1, MapNowFlags
<1>3. r \in Reservation BY <1>1, ReservationsTyped
<1>4. \A q \in Reservations : f[q].mapped <=> (q.mapped \/ q \in rs) BY <1>3, FlagFacts
<1>5. MapEffect(rs, bad) BY DEF MapNow
<1>6. (bad # NULL => bad \in Reservation) /\ rs \in SUBSET Reservations BY <1>3
<1> HIDE DEF rs, bad, f
<1>7. Covered' = Covered \cup {p \in Pages : \E q \in rs : p \in PagesOf(q)}
  BY <1>1, <1>2, <1>4, <1>6, CoveredRelabelled
<1> QED BY <1>1, <1>5, <1>6, <1>7, MapStep

\* Setting the iterator.
LEMMA ArmMap ==
  ASSUME MapInv, MemInv', NEW r \in Reservations, ArmAll(r), UNCHANGED <<claims, io, space, done, failed>>
  PROVE  MapInv'
<1> DEFINE f == [q \in Reservations |-> IF q = r THEN Armed(q) ELSE q]
<1>1. MemInv /\ \A c \in claims : c.addr + c.size <= Limit BY DEF MapInv
<1>2. Relabels(f) BY <1>1, ArmFlags
<1>3. r \in Reservation BY <1>1, ReservationsTyped
<1> DEFINE none == {}
<1>4. none \in SUBSET Reservations /\ \A q \in Reservations : f[q].mapped <=> (q.mapped \/ q \in none)
  BY <1>3, FlagFacts
<1> HIDE DEF f, none
<1>5. Covered' = Covered \cup {p \in Pages : \E q \in none : p \in PagesOf(q)}
  BY <1>1, <1>2, <1>4, CoveredRelabelled
<1>6. Covered' = Covered BY <1>5 DEF none
<1> QED BY <1>1, <1>6, StillStep

\* Touching guest RAM.
LEMMA TouchMap ==
  ASSUME MapInv, MemInv', NEW addr \in Nat, NEW size \in Nat, vm_ram_touch(addr, size)
  PROVE  MapInv'
<1>1. MemInv /\ \A c \in claims : c.addr + c.size <= Limit BY DEF MapInv
<1>2. PICK rs, bad : Touches(rs, bad, addr, size) BY <1>1, TouchFlags
<1>3. \A b \in Bytes(addr, size) : b \in Nat BY SMTT(30) DEF Bytes
<1>4. \A r \in rs \cup ({bad} \ {NULL}) : ~r.mapped /\ r \in Reservations
  BY <1>1, <1>2, <1>3, FoundKind DEF Touches
<1>5. \A r \in Reservations : r \in Reservation BY <1>1, ReservationsTyped
<1> DEFINE f == [q \in Reservations |-> IF q \in rs THEN MapResult(q, TRUE)
                                       ELSE IF q = bad THEN MapResult(q, FALSE) ELSE q]
           gone == IF bad # NULL /\ bad.lazy THEN bad ELSE NULL
<1>6. Relabels(f) /\ MapEffect(rs, gone) BY <1>2 DEF Touches
<1>7. \A q \in Reservations : f[q].mapped <=> (q.mapped \/ q \in rs)
  BY <1>4, <1>5, FlagFacts
<1>8. (gone # NULL => gone \in Reservation) /\ rs \in SUBSET Reservations BY <1>4, <1>5
<1>9. UNCHANGED <<claims, io>> BY DEF vm_ram_touch
<1> HIDE DEF f, gone
<1>10. Covered' = Covered \cup {p \in Pages : \E q \in rs : p \in PagesOf(q)}
  BY <1>1, <1>6, <1>7, <1>8, CoveredRelabelled
<1> QED BY <1>1, <1>6, <1>8, <1>9, <1>10, MapStep

\* A claim ends below the limit.
LEMMA ClaimLimit ==
  ASSUME MapInv, NEW addr \in Nat, NEW size \in Nat, Available(addr, size)
  PROVE  \A c \in claims \cup Claim(addr, size) : c.addr + c.size <= Limit
BY SMTT(30) DEF MapInv, Available, Claim

\* A new reservation that is not mapped covers nothing; a mapped one its pages.
LEMMA CoveredAdded ==
  ASSUME NEW made, Reservations' = Reservations \cup {made}
  PROVE  Covered' = Covered \cup {p \in Pages : made.mapped /\ p \in PagesOf(made)}
<1>1. \A s : s \in Reservations' <=> s \in Reservations \/ s = made OBVIOUS
<1> QED BY <1>1 DEF Covered

\* One that was only made is not mapped.
LEMMA NewCovers ==
  ASSUME NEW addr, NEW size, Reservations' = Reservations \cup {New(addr, size)}
  PROVE  Covered' = Covered
<1>1. ~New(addr, size).mapped BY SMTT(30) DEF New
<1>2. Covered' = Covered \cup {p \in Pages : New(addr, size).mapped /\ p \in PagesOf(New(addr, size))}
  BY CoveredAdded
<1> QED BY <1>1, <1>2

\* A reservation that is mapped when it is made; gone when it is given up.
LEMMA FreshMap ==
  ASSUME MapInv, MemInv', io' = io, \A c \in claims' : c.addr + c.size <= Limit,
         NEW r \in Reservation, ~r.mapped, NEW ok \in BOOLEAN, NEW made, MapFresh(r, ok, made),
         Reservations' = Reservations \cup {made} \/ (~ok /\ Reservations' = Reservations)
  PROVE  MapInv'
<1> DEFINE rs == IF ok THEN {r} ELSE {}
           bad == IF ok THEN NULL ELSE r
<1>1. CASE deferred
  <2>1. ok /\ made = Armed(r) /\ UNCHANGED <<space, done, failed>> BY <1>1 DEF MapFresh
  <2>2. ~made.mapped BY <2>1, FlagFacts
  <2>3. Reservations' = Reservations \cup {made} BY <2>1
  <2>4. Covered' = Covered \cup {p \in Pages : made.mapped /\ p \in PagesOf(made)}
    BY <2>3, CoveredAdded
  <2>5. Covered' = Covered BY <2>2, <2>4
  <2> QED BY <2>1, <2>5, StillStep
<1>2. CASE ~deferred
  <2>1. MapEffect(rs, bad) /\ made = MapResult(r, ok) BY <1>2 DEF MapFresh
  <2>2. made.mapped = ok /\ PagesOf(made) = PagesOf(r) BY <2>1, FlagFacts, ReservationFlags, SMTT(30) DEF PagesOf
  <2>3. Covered' = Covered \cup {p \in Pages : \E q \in rs : p \in PagesOf(q)}
    <3>1. CASE Reservations' = Reservations \cup {made} BY <2>2, <3>1, CoveredAdded
    <3>2. CASE ~ok /\ Reservations' = Reservations BY <3>2 DEF Covered
    <3> QED BY <3>1, <3>2
  <2>4. bad # NULL => bad \in Reservation BY SMTT(30)
  <2> HIDE DEF rs, bad
  <2> QED BY <2>1, <2>3, <2>4, MapStep
<1> QED BY <1>1, <1>2

\* One at a fixed address.
LEMMA ReserveAndMapMap ==
  ASSUME MapInv, MemInv', NEW addr \in Nat, NEW size \in Nat \ {0}, NEW ok \in BOOLEAN,
         ReserveAndMap(addr, size, ok)
  PROVE  MapInv'
<1> DEFINE r == New(addr, size)
<1>1. r \in Reservation /\ ~r.mapped BY NewReservation DEF New
<1>2. PICK made : MapFresh(r, ok, made) /\ regular' = IF ok THEN regular \cup {made} ELSE regular
  BY DEF ReserveAndMap
<1>3. /\ Available(addr, size) /\ claims' = IF ok THEN Claim(addr, size) ELSE claims
      /\ anon' = anon /\ io' = io
  BY DEF ReserveAndMap
<1>4. \A c \in claims' : c.addr + c.size <= Limit BY <1>3, ClaimLimit
<1> HIDE DEF r
<1>5. Reservations' = Reservations \cup {made} \/ (~ok /\ Reservations' = Reservations)
  BY <1>2, <1>3 DEF Reservations
<1> QED BY <1>1, <1>2, <1>3, <1>4, <1>5, FreshMap

\* What Carve adds.
LEMMA CarvedReservations ==
  ASSUME MemInv, NEW a \in anon, NEW r \in Reservation, Carve(a, r), regular' = regular
  PROVE  Reservations' = Reservations \cup {r}
<1> DEFINE b == [a EXCEPT !.alloc = r.addr + ROUND_UP(r.size, Page), !.subs = Append(@, r)]
<1>1. anon' = (anon \ {a}) \cup {b} BY SMTT(30) DEF Carve
<1>2. a.subs \in Seq(Reservation) /\ b.subs = Append(a.subs, r) BY DEF MemInv, AnonymousRegion
<1> HIDE DEF b
<1>3. Range(b.subs) = Range(a.subs) \cup {r}
  <2>1. Len(a.subs) \in Nat /\ DOMAIN a.subs = 1 .. Len(a.subs) BY <1>2, SMTT(30)
  <2>2. DOMAIN b.subs = 1 .. Len(a.subs) + 1 BY <1>2, SMTT(30)
  <2>3. \A i \in 1 .. Len(a.subs) : b.subs[i] = a.subs[i] BY <1>2, SMTT(30)
  <2>4. b.subs[Len(a.subs) + 1] = r BY <1>2, SMTT(30)
  <2>5. /\ Len(a.subs) + 1 \in DOMAIN b.subs
        /\ \A i \in DOMAIN a.subs : i \in DOMAIN b.subs
        /\ \A i \in DOMAIN b.subs : i \in DOMAIN a.subs \/ i = Len(a.subs) + 1
    BY <2>1, <2>2, SMTT(30)
  <2>6. \A i \in DOMAIN a.subs : b.subs[i] = a.subs[i] BY <2>1, <2>3
  <2> QED BY <2>4, <2>5, <2>6 DEF Range
<1> QED BY <1>1, <1>3 DEF Reservations

\* A reservation at a fixed address shares no page with another one.
LEMMA RegularAlone ==
  ASSUME MemInv, NEW r \in regular, NEW s \in Reservations, s # r
  PROVE  PagesOf(r) \cap PagesOf(s) = {}
<1>1. ASSUME NEW u, Extent(u) \in claims, Extent(u) # Extent(r) PROVE PagesOf(r) \cap PagesOf(u) = {}
  <2>1. PagesOf(Extent(r)) \cap PagesOf(Extent(u)) = {} BY <1>1 DEF MemInv
  <2> QED BY <2>1 DEF PagesOf, Extent
<1>2. CASE s \in regular BY <1>1, <1>2 DEF MemInv
<1>3. ASSUME NEW a \in anon, PagesOf(s) \subseteq PagesOf(a) PROVE PagesOf(r) \cap PagesOf(s) = {}
  <2>1. PagesOf(r) \cap PagesOf(a) = {} BY <1>1 DEF MemInv
  <2> QED BY <1>3, <2>1
<1> QED BY <1>2, <1>3, PagesOfNode

\* Freeing a reservation covers the pages of the others as before.
LEMMA CoveredFreed ==
  ASSUME MemInv, NEW r \in regular, NEW c, Free(r, c), anon' = anon
  PROVE  Covered' = Covered \ PagesOf(r)
<1>1. r \in Reservation /\ r \in Reservations BY SMTT(30) DEF MemInv, Reservations
<1>2. regular' = regular \ {r}
  <2>1. \A s \in regular : s.addr = r.addr /\ s.size = r.size => s = r BY DEF MemInv, Extent
  <2>2. Intersect(r, r) BY <1>1, SMTT(30) DEF Intersect, Reservation
  <2> QED BY <2>1, <2>2 DEF Free, remove_memory_reservation_node
<1>3. \A a \in anon : r \notin Range(a.subs)
  <2> SUFFICES ASSUME NEW a \in anon, r \in Range(a.subs) PROVE FALSE
    OBVIOUS
  <2>1. PICK i \in 1 .. Len(a.subs) : r = a.subs[i] BY AnonFacts DEF Range
  <2>2. /\ Within(r, a) /\ r.addr \in Nat /\ r.size \in Nat \ {0}
        /\ a.addr \in Nat /\ a.size \in Nat \ {0}
    BY <2>1, AnonFacts
  <2>3. Extent(r) \in claims /\ Extent(a) \in claims /\ Extent(r) # Extent(a) BY DEF MemInv
  <2>4. r.addr <= r.addr /\ r.addr < r.addr + r.size BY <2>2, SMTT(30)
  <2>5. a.addr <= r.addr /\ r.addr < a.addr + a.size BY <2>2, <2>4, WithinHolds
  <2> QED BY <2>2, <2>3, <2>4, <2>5, NodesDisjoint
<1>4. \A s : s \in Reservations' <=> s \in Reservations /\ s # r BY <1>2, <1>3 DEF Reservations
<1>5. \A s \in Reservations : s # r => PagesOf(r) \cap PagesOf(s) = {} BY RegularAlone
<1>6. ASSUME NEW p \in Covered' PROVE p \in Covered \ PagesOf(r)
  <2>1. PICK s \in Reservations' : s.mapped /\ p \in PagesOf(s) BY <1>6 DEF Covered
  <2>2. p \in Pages BY <1>6 DEF Covered
  <2>3. p \notin PagesOf(r) BY <1>4, <1>5, <2>1
  <2> QED BY <1>4, <2>1, <2>2, <2>3 DEF Covered
<1>7. ASSUME NEW p \in Covered, p \notin PagesOf(r) PROVE p \in Covered'
  <2>1. PICK s \in Reservations : s.mapped /\ p \in PagesOf(s) BY DEF Covered
  <2>2. p \in Pages BY DEF Covered
  <2>3. s \in Reservations' BY <1>4, <1>7, <2>1
  <2> QED BY <2>1, <2>2, <2>3 DEF Covered
<1> QED BY <1>6, <1>7

\* Freeing unmaps; what could not be unmapped is known to have failed.
LEMMA FreeMap ==
  ASSUME MapInv, MemInv', NEW r \in regular, NEW c, Free(r, c), UNCHANGED <<anon, io, done>>
  PROVE  MapInv'
<1>1. MemInv /\ io \in Nat /\ Matching(Covered, space, io, failed) BY DEF MapInv
<1>2. Covered' = Covered \ PagesOf(r) BY <1>1, CoveredFreed
<1>3. \A d \in claims' : d.addr + d.size <= Limit BY SMTT(30) DEF MapInv, Free
<1>4. \A p \in Pages : p \notin PagesOf(r) => space'[p] = space[p]
  BY DEF Free, guest_vspace_unmap
<1>5. \A p \in Pages : space[p] = {} => space'[p] = {}
  <2>1. CASE ~r.mapped BY <2>1 DEF Free
  <2>2. CASE r.mapped
    <3>1. \A p \in Pages : \A s \in space'[p] : s \in space[p]
      BY <2>2 DEF Free, guest_vspace_unmap
    <3> QED BY <3>1
  <2> QED BY <2>1, <2>2
<1>6. failed' = failed \cup {p \in PagesOf(r) : space'[p] # {}} BY DEF Free
<1>7. Covered \subseteq Pages BY DEF Covered
<1>8. \A p \in Covered' : space'[p] = 0 .. io
  BY <1>1, <1>2, <1>4, <1>7 DEF Matching
<1>9. \A p \in Pages \ failed' : space'[p] # {} => p \in Covered'
  BY <1>1, <1>2, <1>4, <1>6 DEF Matching
<1>10. ~done' => \A p \in Pages : space'[p] = {} BY <1>5 DEF MapInv
<1>11. Matching(Covered', space', io, failed') BY <1>8, <1>9 DEF Matching
<1> QED BY <1>1, <1>3, <1>10, <1>11 DEF MapInv

\* An IO space is added before anything is mapped, so none lacks a mapping.
LEMMA IoMap == ASSUME MapInv, MemInv', vm_guest_add_iospace PROVE MapInv'
<1>1. /\ ~done /\ io' = io + 1
      /\ UNCHANGED <<claims, regular, anon, space, done, failed>>
  BY DEF vm_guest_add_iospace
<1>2. Covered' = Covered BY <1>1 DEF Covered, Reservations
<1>3. Covered = {}
  <2>1. io \in Nat /\ (\A p \in Pages : space[p] = {}) /\ \A p \in Covered : space[p] = 0 .. io
    BY <1>1 DEF MapInv, Matching
  <2>2. 0 .. io # {} BY <2>1, SMTT(30)
  <2> QED BY <2>1, <2>2 DEF Covered
<1>4. Matching(Covered', space', io', failed') BY <1>1, <1>2, <1>3 DEF MapInv, Matching
<1>5. io' \in Nat BY <1>1, SMTT(30) DEF MapInv
<1> QED BY <1>1, <1>4, <1>5 DEF MapInv

\* Reserving maps nothing.
LEMMA ReserveMap == ASSUME KeepsToPages, MapInv, MemInv', Reserve PROVE MapInv'
<1>0. MemInv /\ \A c \in claims : c.addr + c.size <= Limit BY SMTT(30) DEF MapInv
<1>1. ASSUME NEW addr \in Starts, NEW size \in Sizes, vm_reserve_memory_at(addr, size) PROVE MapInv'
  <2>1. addr \in Nat /\ size \in Nat BY DEF KeepsToPages
  <2>2. /\ Available(addr, size) /\ claims' = Claim(addr, size) /\ anon' = anon
        /\ regular' = regular \cup {New(addr, size)} /\ UNCHANGED <<io, space, done, failed>>
    BY <1>1 DEF vm_reserve_memory_at, add_memory_reservation_node
  <2>3. \A c \in claims' : c.addr + c.size <= Limit BY <2>1, <2>2, ClaimLimit
  <2>4. Reservations' = Reservations \cup {New(addr, size)} BY <2>2 DEF Reservations
  <2>5. Covered' = Covered BY <2>4, NewCovers
  <2> QED BY <2>2, <2>3, <2>5, StillStep
<1>2. ASSUME NEW addr \in Starts, NEW size \in Sizes,
             NEW malloc \in BOOLEAN, vm_memory_make_anon(addr, size, malloc)
      PROVE  MapInv'
  <2>1. addr \in Nat /\ size \in Nat BY DEF KeepsToPages
  <2> DEFINE a == [addr |-> addr, size |-> size, alloc |-> addr, subs |-> <<>>]
  <2>2. /\ Available(addr, size) /\ claims' = Claim(addr, size) /\ regular' = regular
        /\ anon' = anon \/ anon' = anon \cup {a}
    BY <1>2 DEF vm_memory_make_anon, add_memory_reservation_node
  <2>3. UNCHANGED <<io, space, done, failed>> BY <1>2 DEF vm_memory_make_anon
  <2>4. \A c \in claims' : c.addr + c.size <= Limit BY <2>1, <2>2, ClaimLimit
  <2>5. Range(a.subs) = {} BY SMTT(30) DEF Range
  <2> HIDE DEF a
  <2>6. Reservations' = Reservations BY <2>2, <2>5 DEF Reservations
  <2>7. Covered' = Covered BY <2>6, SMTT(30) DEF Covered
  <2> QED BY <2>3, <2>4, <2>7, StillStep
<1>3. ASSUME NEW size \in Sizes, NEW align \in Aligns, vm_reserve_anon_memory(size, align) PROVE MapInv'
  <2> DEFINE at == ROUND_UP(AnonRegion(size, align).alloc, align)
  <2>1. size \in Nat \ {0} /\ align \in Nat \ {0} /\ Page % align = 0 BY SMTT(30) DEF KeepsToPages
  <2>2. /\ Allocable(size, align) # {} /\ Carve(AnonRegion(size, align), New(at, size))
        /\ UNCHANGED <<claims, regular, io, space, done, failed>>
    BY <1>3 DEF vm_reserve_anon_memory
  <2>3. at \in Nat BY <1>0, <2>1, <2>2, CarveAddr
  <2>4. New(at, size) \in Reservation BY <2>1, <2>3, NewReservation
  <2>5. AnonRegion(size, align) \in anon BY <1>0, <2>1, <2>2, AnonRegionFits
  <2>6. Reservations' = Reservations \cup {New(at, size)} BY <1>0, <2>2, <2>4, <2>5, CarvedReservations
  <2>7. Covered' = Covered BY <2>6, NewCovers
  <2> QED BY <1>0, <2>2, <2>7, StillStep
<1> QED BY <1>1, <1>2, <1>3 DEF Reserve

\* Mapping or freeing a reservation.
LEMMA UseMap == ASSUME MapInv, MemInv', Use PROVE MapInv'
<1>1. ASSUME NEW r \in Reservations, NEW ok \in BOOLEAN, map_frame_alloc_reservation(r, ok) PROVE MapInv'
  <2>1. UNCHANGED <<claims, io>> BY <1>1 DEF map_frame_alloc_reservation, vm_map_reservation
  <2>2. CASE deferred \/ r.mapped
    <3>1. ArmAll(r) /\ UNCHANGED <<space, done, failed>>
      BY <1>1, <2>2 DEF map_frame_alloc_reservation, vm_map_reservation, ArmAll, UpdateAll
    <3> QED BY <2>1, <3>1, ArmMap
  <2>3. CASE ~(deferred \/ r.mapped)
    <3>1. MapNow(r, ok) BY <1>1, <2>3 DEF map_frame_alloc_reservation, vm_map_reservation
    <3> QED BY <2>1, <2>3, <3>1, MapNowMap
  <2> QED BY <2>2, <2>3
<1>2. ASSUME NEW r \in Reservations, vm_free_reserved_memory(r) PROVE MapInv'
  <2>1. PICK c : Free(r, c) BY <1>2 DEF vm_free_reserved_memory
  <2>2. r \in regular /\ UNCHANGED <<anon, io, done>> BY <1>2 DEF vm_free_reserved_memory
  <2> QED BY <2>1, <2>2, FreeMap
<1> QED BY <1>1, <1>2 DEF Use

\* A step that leaves reservations and mappings alone.
LEMMA SameMap ==
  ASSUME MapInv, MemInv', UNCHANGED <<claims, regular, anon, io, space, done, failed>>
  PROVE  MapInv'
<1>1. Covered' = Covered BY DEF Covered, Reservations
<1>2. \A c \in claims' : c.addr + c.size <= Limit BY DEF MapInv
<1> QED BY <1>1, <1>2, StillStep

\* A fault, which may map its reservation.
LEMMA FaultMap == ASSUME MapInv, MemInv', Fault PROVE MapInv'
<1>1. PICK addr \in 0 .. Limit - 1 : \E size, result : vm_memory_handle_fault(addr, size, result)
  BY DEF Fault
<1>9. PICK size, result : vm_memory_handle_fault(addr, size, result) BY <1>1
<1> DEFINE r == vm_reservation_find_by_addr(addr)
<1>2. UNCHANGED memVars \/ (r # NULL /\ ~r.mapped /\ \E ok \in BOOLEAN : map_vm_memory_reservation(r, ok))
  BY <1>9 DEF vm_memory_handle_fault
<1>3. CASE UNCHANGED memVars BY <1>3, SameMap DEF memVars
<1>4. MemInv BY DEF MapInv
<1>5. addr \in Nat BY GuestMemoryAssumption, SMTT(30)
<1>6. r \in Reservations \cup {NULL} BY <1>4, <1>5, FoundKind
<1> HIDE DEF r
<1>7. ASSUME r # NULL, ~r.mapped, NEW ok \in BOOLEAN, map_vm_memory_reservation(r, ok) PROVE MapInv'
  <2>1. UNCHANGED <<claims, io>> BY <1>7 DEF map_vm_memory_reservation
  <2>2. UNCHANGED <<regular, anon, space, done, failed>> \/ MapNow(r, ok)
    BY <1>7 DEF map_vm_memory_reservation
  <2>3. CASE MapNow(r, ok) BY <1>6, <1>7, <2>1, <2>3, MapNowMap
  <2> QED BY <2>1, <2>2, <2>3, SameMap
<1> QED BY <1>2, <1>3, <1>7

\* Guest RAM.
LEMMA RamMap == ASSUME KeepsToPages, MapInv, MemInv', RamNext PROVE MapInv'
<1>0. MemInv /\ \A c \in claims : c.addr + c.size <= Limit BY SMTT(30) DEF MapInv
<1>1. ASSUME NEW start \in Starts, NEW bytes \in Sizes,
             NEW ok \in BOOLEAN, vm_ram_register_at(start, bytes, ok)
      PROVE  MapInv'
  <2>1. start \in Nat /\ bytes \in Nat \ {0} BY DEF KeepsToPages
  <2> QED BY <1>1, <2>1, ReserveAndMapMap DEF vm_ram_register_at
<1>2. ASSUME NEW bytes \in Sizes, NEW ok \in BOOLEAN, vm_ram_register(bytes, ok) PROVE MapInv'
  <2> DEFINE at == ROUND_UP(AnonRegion(bytes, Page).alloc, Page)
             r == New(at, bytes)
  <2>1. bytes \in Nat \ {0} /\ Page \in Nat \ {0} /\ Page % Page = 0 BY PageFacts, SMTT(30) DEF KeepsToPages
  <2>2. PICK made \in {Armed(r), MapResult(r, ok)} :
               MapFresh(r, ok, made) /\ Carve(AnonRegion(bytes, Page), made)
    BY <1>2 DEF vm_ram_register
  <2>3. Allocable(bytes, Page) # {} /\ UNCHANGED <<claims, regular, io>> BY <1>2 DEF vm_ram_register
  <2>4. at \in Nat BY <1>0, <2>1, <2>3, CarveAddr
  <2>5. r \in Reservation /\ ~r.mapped BY <2>1, <2>4, NewReservation DEF New
  <2>6. made \in Reservation BY <2>2, <2>5, ReservationFlags
  <2>7. AnonRegion(bytes, Page) \in anon BY <1>0, <2>1, <2>3, AnonRegionFits
  <2> HIDE DEF r
  <2>8. Reservations' = Reservations \cup {made} BY <1>0, <2>2, <2>3, <2>6, <2>7, CarvedReservations
  <2> QED BY <1>0, <2>2, <2>3, <2>5, <2>8, FreshMap
<1>3. ASSUME NEW start \in 0 .. Limit - 1, NEW bytes \in Sizes, vm_ram_touch(start, bytes) PROVE MapInv'
  <2>1. start \in Nat /\ bytes \in Nat BY GuestMemoryAssumption, SMTT(30) DEF KeepsToPages
  <2> QED BY <1>3, <2>1, TouchMap
<1>4. CASE UNCHANGED <<claims, regular, anon, space, io, done, failed>> BY <1>4, SameMap
<1> QED BY <1>1, <1>2, <1>3, <1>4 DEF RamNext

\* Every step keeps the mappings.
LEMMA NextMap == KeepsToPages /\ MapInv /\ MemInv' /\ [Next]_vars => MapInv'
<1> SUFFICES ASSUME KeepsToPages, MapInv, MemInv', [Next]_vars PROVE MapInv'
  OBVIOUS
<1>1. CASE vm_guest_add_iospace BY <1>1, IoMap
<1>2. CASE Reserve BY <1>2, ReserveMap
<1>3. CASE Use BY <1>3, UseMap
<1>4. CASE Fault BY <1>4, FaultMap
<1>5. CASE Frames
  <2>1. PICK addr \in Starts, ok \in BOOLEAN : ReserveAndMap(addr, Page, ok)
    BY <1>5 DEF Frames, create_allocated_reservation_frame, create_device_reservation_frame
  <2>2. addr \in Nat BY DEF KeepsToPages
  <2> QED BY <2>1, <2>2, PageFacts, ReserveAndMapMap
<1>6. CASE RamNext BY <1>6, RamMap, SMTT(30)
<1>7. CASE UNCHANGED vars BY <1>7, SameMap DEF vars, memVars
<1> QED BY <1>1, <1>2, <1>3, <1>4, <1>5, <1>6, <1>7 DEF Next

\* Nothing is mapped at first.
LEMMA InitMap == Init => MapInv
<1> SUFFICES ASSUME Init PROVE MapInv OBVIOUS
<1>1. MemInv BY InitInv
<1>2. Covered = {} BY DEF Init, MemInit, Covered, Reservations
<1>3. \A p \in Pages : space[p] = {} BY SMTT(30) DEF Init, MemInit
<1> QED BY <1>1, <1>2, <1>3 DEF Init, MemInit, MapInv, Matching

(***************************************************************************)
(* Theorems                                                                *)
(***************************************************************************)
\* MemInv is an invariant, however many reservations, regions and frames are
\* made, mapped, touched and freed, and wherever a call fails.
THEOREM MemInvCorrect == ASSUME KeepsToPages PROVE Spec => []MemInv
<1>1. MemInv /\ [Next]_vars => MemInv' BY NextInv
<1> QED BY <1>1, InitInv, PTL DEF Spec

\* Live reservations share no byte, lie in ranges that were claimed in the
\* vspace, and stay within the anonymous region they were carved out of.
THEOREM ReservationsDisjointCorrect == ASSUME KeepsToPages PROVE Spec => []ReservationsDisjoint
BY MemInvCorrect, InvDisjoint, PTL

\* A fault reaches the reservation that holds its address, and none when no
\* reservation does.
THEOREM FaultFindsReservationCorrect == ASSUME KeepsToPages PROVE Spec => []FaultFindsReservation
BY MemInvCorrect, InvFault, PTL

\* Under the same condition the defect of run anon_align cannot happen: what is
\* reserved as anonymous memory was made anonymous.
THEOREM AnonymousIsAnonymousCorrect == ASSUME KeepsToPages PROVE Spec => []AnonymousIsAnonymous
<1>1. MemInv => AnonymousIsAnonymous
  BY InvDisjoint, ZenonT(60) DEF ReservationsDisjoint, AnonymousIsAnonymous
<1> QED BY <1>1, MemInvCorrect, PTL

\* The guest and its devices see the memory of the mapped reservations and no
\* other, but for pages whose mapping or unmapping has failed half way.  The
\* invariant adds that nothing is mapped until done_mapping is set, which is why
\* an IO space that comes later misses no page, and that claims end below the
\* limit, so that the pages of reservations are pages of the guest.
THEOREM MappingsMatchReservationsCorrect == ASSUME KeepsToPages PROVE Spec => []MappingsMatchReservations
<1>1. MapInv /\ [Next]_vars => MapInv'
  <2>1. MapInv => MemInv BY SMTT(30) DEF MapInv
  <2> QED BY <2>1, NextInv, NextMap
<1> QED BY <1>1, InitMap, InvMappings, PTL DEF Spec
=============================================================================
