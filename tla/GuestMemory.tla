---------------------------- MODULE GuestMemory ----------------------------
(***************************************************************************)
(* The guest address space of libsel4vm: reservations at fixed addresses,  *)
(* reservations carved out of anonymous regions, and the mapping of their  *)
(* pages into the guest and into every IO space of its devices, at once or *)
(* on the first fault.                                                     *)
(*                                                                         *)
(* Addresses and sizes are counted in units; a page has Page units.  The   *)
(* two reservation trees are sets: a tree finds the one member that        *)
(* intersects what is sought.  `failed' and `faults' are history: the      *)
(* pages whose mapping or unmapping stopped half way, and how many calls   *)
(* did so.                                                                 *)
(***************************************************************************)
EXTENDS Integers, Sequences, Functions, FiniteSetsExt

CONSTANTS
    Limit,      \* the addresses are 0 .. Limit - 1
    Page,       \* the size of a page
    MaxIo,      \* how many IO spaces the guest may be given
    MaxFaults   \* bound: how many calls fail half way

ASSUME GuestMemoryAssumption ==
    /\ Limit \in Nat /\ Page \in Nat \ {0} /\ Limit % Page = 0
    /\ MaxIo \in Nat /\ MaxFaults \in Nat

VARIABLES
    claims,     \* the ranges reserved in the guest's vspace
    regular,    \* regular_res_tree: reservations [addr, size, mapped, lazy]
    anon,       \* anon_res_tree: regions [addr, size, alloc, subs]
    space,      \* the address spaces each page is mapped in, 0 for the guest's own
    io,         \* num_iospaces
    done,       \* done_mapping
    failed, faults,
    deferred    \* CONFIG_LIB_SEL4VM_DEFER_MEMORY_MAP, which never changes

memVars == <<claims, regular, anon, space, io, done, failed, faults>>

\* Calls that fail half way are counted, up to the bound.
Fail(fails) ==
    /\ fails => faults < MaxFaults
    /\ faults' = IF fails THEN faults + 1 ELSE faults

Pages == 0 .. (Limit \div Page) - 1

ROUND_UP(x, align) == ((x + align - 1) \div align) * align

is_subregion(start, size, subStart, subSize) ==
    subStart >= start /\ subSize <= size /\ subStart - start <= size - subSize

PagesOf(r) == r.addr \div Page .. (r.addr + r.size - 1) \div Page

(***************************************************************************)
(* The vspace of the guest                                                 *)
(***************************************************************************)

\* A range can be reserved when none of its pages is reserved or mapped.
Available(addr, size) ==
    LET want == [addr |-> addr, size |-> size]
    IN  /\ addr + size <= Limit
        /\ \A c \in claims : PagesOf(c) \cap PagesOf(want) = {}
        /\ \A p \in PagesOf(want) : space[p] = {}

Claim(addr, size) == claims \cup {[addr |-> addr, size |-> size]}

guest_vspace_map_SkipLast == 0 .. io - 1

\* A page goes into the guest's page tables first and then into one IO space
\* after the other.
guest_vspace_map == 0 .. io

\* The frames the iterators give out are mapped at the start of a page.
frame_start(addr) == addr \div Page

\* The pages of r once n of them were mapped and the next one reached the
\* first j address spaces.
MapPages(r, n, j) ==
    LET first == frame_start(r.addr)
    IN  [p \in PagesOf(r) |-> IF p < first + n THEN guest_vspace_map
                              ELSE IF p = first + n /\ j > 0 THEN 0 .. j - 1
                              ELSE space[p]]

\* All pages leave the guest's page tables; then page by page the IO spaces
\* are cleared, until one of the kernel calls fails after c of them.
guest_vspace_unmap(r, c) ==
    LET first == r.addr \div Page
    IN  [p \in Pages |-> IF p \in PagesOf(r)
                         THEN {s \in space[p] : s > 0 /\ (p - first) * io + s > c}
                         ELSE space[p]]

\* IO spaces can be added until something is mapped, which the code asserts.
vm_guest_add_iospace ==
    /\ ~done /\ io < MaxIo
    /\ io' = io + 1
    /\ UNCHANGED <<claims, regular, anon, space, done, failed, faults>>

(***************************************************************************)
(* Finding reservations                                                    *)
(***************************************************************************)

Intersect_Inclusive(x, y) ==
    /\ ~(x.addr < y.addr /\ y.addr - x.addr > x.size)
    /\ ~(x.addr > y.addr /\ x.addr - y.addr > y.size)

\* reservation_node_cmp answers that the regions intersect.
Intersect(x, y) ==
    /\ ~(x.addr < y.addr /\ y.addr - x.addr >= x.size)
    /\ ~(x.addr > y.addr /\ x.addr - y.addr >= y.size)

NULL == [addr |-> -1, size |-> 0, mapped |-> FALSE, lazy |-> FALSE]

find_anon_reservation_by_addr(addr, region) ==
    LET hit == {i \in 1..Len(region.subs) : is_subregion(region.subs[i].addr, region.subs[i].size, addr, 1)}
    IN  IF hit = {} THEN NULL ELSE region.subs[Min(hit)]

find_memory_reservation_by_addr(tree, addr) ==
    {x \in tree : Intersect(x, [addr |-> addr, size |-> 0])}

\* The regular tree is searched before the anonymous one.
vm_reservation_find_by_addr(addr) ==
    LET inRegular == find_memory_reservation_by_addr(regular, addr)
        inAnon == find_memory_reservation_by_addr(anon, addr)
    IN  IF inRegular # {} THEN CHOOSE r \in inRegular : TRUE
        ELSE IF inAnon # {} THEN find_anon_reservation_by_addr(addr, CHOOSE a \in inAnon : TRUE)
        ELSE NULL

Reservations == regular \cup UNION {Range(a.subs) : a \in anon}

\* Every reservation r becomes F(r) wherever it is kept.
UpdateAll(F(_)) ==
    /\ regular' = {F(r) : r \in regular}
    /\ anon' = {[a EXCEPT !.subs = [i \in DOMAIN @ |-> F(@[i])]] : a \in anon}

\* A node is added only when nothing in the tree intersects it, and removed
\* only when the member found is exactly the one sought.
add_memory_reservation_node(tree, x, after) ==
    (\A y \in tree : ~Intersect(y, x)) /\ after = tree \cup {x}

remove_memory_reservation_node(tree, x) ==
    tree \ {y \in tree : Intersect(y, x) /\ y.addr = x.addr /\ y.size = x.size}

New(addr, size) == [addr |-> addr, size |-> size, mapped |-> FALSE, lazy |-> FALSE]

(***************************************************************************)
(* Reserving and freeing                                                   *)
(***************************************************************************)

\* When an object cannot be allocated or the node cannot be added, everything
\* is undone, so such a call changes nothing.
vm_reserve_memory_at(addr, size) ==
    /\ Available(addr, size)
    /\ claims' = Claim(addr, size)
    /\ add_memory_reservation_node(regular, New(addr, size), regular')
    /\ UNCHANGED <<anon, space, io, done, failed, faults>>

\* The claim stays when there is no memory for the region object.
vm_memory_make_anon(addr, size, malloc) ==
    /\ Available(addr, size)
    /\ claims' = Claim(addr, size)
    /\ LET region == [addr |-> addr, size |-> size, alloc |-> addr, subs |-> <<>>]
       IN  IF malloc THEN add_memory_reservation_node(anon, region, anon') ELSE UNCHANGED anon
    /\ Fail(~malloc)
    /\ UNCHANGED <<regular, space, io, done, failed>>

\* The first region, in address order, with room for the rounded size.  The
\* unsigned subtraction of the code wraps when aligning passes the end.
Allocable(size, align) ==
    {a \in anon : LET gap == ROUND_UP(a.alloc, align) - a.addr
                  IN  gap > a.size \/ ROUND_UP(size, Page) <= a.size - gap}

AnonRegion(size, align) ==
    CHOOSE a \in Allocable(size, align) : \A b \in Allocable(size, align) : a.addr <= b.addr

Carve_NoAdvance(region, r) ==
    anon' = (anon \ {region}) \cup {[region EXCEPT !.subs = Append(@, r)]}

Carve(region, r) ==
    anon' = (anon \ {region}) \cup {[region EXCEPT !.alloc = r.addr + ROUND_UP(r.size, Page),
                                                  !.subs = Append(@, r)]}

vm_reserve_anon_memory(size, align) ==
    LET region == AnonRegion(size, align)
    IN  /\ Allocable(size, align) # {}
        /\ Carve(region, New(ROUND_UP(region.alloc, align), size))
        /\ UNCHANGED <<claims, regular, space, io, done, failed, faults>>

\* Only a reservation that counts as mapped is unmapped.  An anonymous one
\* cannot be freed.
Free(r, c) ==
    /\ regular' = remove_memory_reservation_node(regular, r)
    /\ claims' = claims \ {[addr |-> r.addr, size |-> r.size]}
    /\ space' = IF r.mapped THEN guest_vspace_unmap(r, c) ELSE space
    /\ failed' = failed \cup {p \in PagesOf(r) : space'[p] # {}}

vm_free_reserved_memory(r) ==
    /\ r \in regular
    /\ LET calls == Cardinality(PagesOf(r)) * io
       IN  \E c \in 0 .. calls : Free(r, c) /\ Fail(r.mapped /\ c < calls)
    /\ UNCHANGED <<anon, io, done>>

(***************************************************************************)
(* Mapping                                                                 *)
(***************************************************************************)

\* The loop can take every frame: the size is a whole number of pages and no
\* page is still mapped.
Mappable(r) == r.size % Page = 0 /\ \A p \in PagesOf(r) : space[p] = {}

\* The loop stops at page n: the iterator has no frame, the frame is longer
\* than what is left, or the page could be mapped in the first j spaces only.
StopsAt(r, n, j) ==
    /\ n * Page < r.size /\ ((n + 1) * Page <= r.size \/ j = 0)
    /\ \A p \in r.addr \div Page .. (r.addr \div Page) + n - (IF j = 0 THEN 1 ELSE 0) : space[p] = {}

\* The iterator is dropped whatever happens; the reservation counts as mapped
\* only if the loop came to its end.
MapResult(r, ok) == [r EXCEPT !.mapped = ok, !.lazy = FALSE]

\* The reservations rs are mapped, then, if it is not NULL, the mapping of bad
\* stops half way.
MapEffect(rs, bad) ==
    /\ \A r \in rs : Mappable(r)
    /\ \E n \in Pages, j \in 0 .. (IF io = 0 THEN 0 ELSE io + 1) :
          LET part == MapPages(bad, n, j)
          IN  /\ IF bad = NULL THEN n = 0 /\ j = 0 ELSE StopsAt(bad, n, j)
              /\ space' = [p \in Pages |-> IF \E r \in rs : p \in PagesOf(r) THEN guest_vspace_map
                                           ELSE IF bad # NULL /\ p \in PagesOf(bad) THEN part[p]
                                           ELSE space[p]]
    /\ failed' = IF bad = NULL THEN failed ELSE failed \cup {p \in PagesOf(bad) : space'[p] # {}}
    /\ done' = (done \/ space' # space)
    /\ Fail(bad # NULL)

MapNow(r, ok) ==
    /\ MapEffect(IF ok THEN {r} ELSE {}, IF ok THEN NULL ELSE r)
    /\ UpdateAll(LAMBDA q : IF q = r THEN MapResult(r, ok) ELSE q)

map_vm_memory_reservation(r, ok) ==
    /\ IF r.mapped THEN ok /\ UNCHANGED <<regular, anon, space, done, failed, faults>>
       ELSE IF ~r.lazy THEN ~ok /\ UNCHANGED <<regular, anon, space, done, failed, faults>>
       ELSE MapNow(r, ok)
    /\ UNCHANGED <<claims, io>>

\* Sets the iterator and, unless mappings are deferred, maps at once.
Armed(r) == [r EXCEPT !.lazy = TRUE]

vm_map_reservation(r, ok) ==
    /\ IF deferred \/ r.mapped
       THEN /\ ok /\ UpdateAll(LAMBDA q : IF q = r THEN Armed(r) ELSE q)
            /\ UNCHANGED <<space, done, failed, faults>>
       ELSE MapNow(r, ok)
    /\ UNCHANGED <<claims, io>>

\* The same for a reservation that is being made; `made' is what becomes of it.
MapFresh(r, ok, made) ==
    IF deferred
    THEN ok /\ made = Armed(r) /\ UNCHANGED <<space, done, failed, faults>>
    ELSE /\ MapEffect(IF ok THEN {r} ELSE {}, IF ok THEN NULL ELSE r)
         /\ made = MapResult(r, ok)

\* A reservation at a fixed address is made and mapped; when the mapping fails
\* it is freed again, without unmapping what was mapped.
ReserveAndMap(addr, size, ok) ==
    LET r == New(addr, size)
    IN  /\ Available(addr, size)
        /\ \E made \in {Armed(r), MapResult(r, ok)} :
              /\ MapFresh(r, ok, made)
              /\ regular' = IF ok THEN regular \cup {made} ELSE regular
        /\ claims' = IF ok THEN Claim(addr, size) ELSE claims
        /\ UNCHANGED <<anon, io>>

(***************************************************************************)
(* Faults.  A reservation that is not mapped but has an iterator is mapped *)
(* and the access restarted; every other fault in it is for its callback.  *)
(***************************************************************************)

vm_memory_handle_fault(addr, size, result) ==
    LET r == vm_reservation_find_by_addr(addr)
    IN  IF r = NULL THEN result = "FAULT_UNHANDLED" /\ UNCHANGED memVars
        ELSE IF ~is_subregion(r.addr, r.size, addr, size) THEN result = "FAULT_ERROR" /\ UNCHANGED memVars
        ELSE IF ~r.mapped /\ r.lazy
        THEN \/ result = "FAULT_RESTART" /\ map_vm_memory_reservation(r, TRUE)
             \/ result = "FAULT_ERROR" /\ map_vm_memory_reservation(r, FALSE)
        ELSE result = "callback" /\ UNCHANGED memVars

MemInit ==
    /\ claims = {} /\ regular = {} /\ anon = {}
    /\ space = [p \in Pages |-> {}]
    /\ io = 0 /\ done = FALSE /\ failed = {} /\ faults = 0
    /\ deferred \in BOOLEAN
=============================================================================
