------------------------------ MODULE GuestRam ------------------------------
(***************************************************************************)
(* Guest RAM on top of the guest address space: the sorted list of RAM     *)
(* regions that registering extends and allocating splits, the access of   *)
(* the VMM to guest RAM, and the single frames that emulated devices share *)
(* with the guest.                                                         *)
(*                                                                         *)
(* `registered', `orphans', `given' and `oom' are history: the RAM that    *)
(* was ever registered, the part of it whose registration failed, the RAM  *)
(* handed out, and whether the list lost a piece for want of memory.       *)
(***************************************************************************)
EXTENDS GuestMemory, TLC

CONSTANTS
    Sizes,      \* the sizes asked for
    Aligns,     \* the alignments asked for
    Starts,     \* the addresses asked for
    MaxRegions  \* bound: how long the list of RAM regions gets

VARIABLES
    ram,        \* ram_regions: [start, size, allocated]
    registered, orphans, given, oom

ramVars == <<ram, registered, orphans, given, oom>>

vars == <<memVars, deferred, ramVars>>

Bytes(start, size) == start .. start + size - 1

(***************************************************************************)
(* The list of RAM regions                                                 *)
(***************************************************************************)

\* Starts are compared as ints: the guest's RAM spans less than 2 GiB.
sort_guest_ram_regions(rs) == SortSeq(rs, LAMBDA a, b : a.start < b.start)

guest_ram_remove_region(rs, i) == SubSeq(rs, 1, i - 1) \o SubSeq(rs, i + 1, Len(rs))

collapse_guest_ram_regions_AnyFlag(rs) ==
    LET Join(acc, r) ==
            LET n == Len(acc)
            IN  IF n > 0 /\ acc[n].start + acc[n].size = r.start
                THEN [acc EXCEPT ![n].size = @ + r.size]
                ELSE Append(acc, r)
        collapsed[i \in 0 .. Len(rs)] == IF i = 0 THEN <<>> ELSE Join(collapsed[i - 1], rs[i])
    IN  collapsed[Len(rs)]

\* Neighbours with the same flag that adjoin become one region.
collapse_guest_ram_regions(rs) ==
    LET Join(acc, r) ==
            LET n == Len(acc)
            IN  IF n > 0 /\ acc[n].allocated = r.allocated /\ acc[n].start + acc[n].size = r.start
                THEN [acc EXCEPT ![n].size = @ + r.size]
                ELSE Append(acc, r)
        collapsed[i \in 0 .. Len(rs)] == IF i = 0 THEN <<>> ELSE Join(collapsed[i - 1], rs[i])
    IN  collapsed[Len(rs)]

Normalised(rs) == collapse_guest_ram_regions(sort_guest_ram_regions(rs))

Region(start, size, allocated) == [start |-> start, size |-> size, allocated |-> allocated]

is_ram_region(addr, size) ==
    \E i \in 1..Len(ram) : is_subregion(ram[i].start, ram[i].size, addr, size)

expand_guest_ram_region_Rounded(r, ok) ==
    /\ Len(ram) < MaxRegions
    /\ ram' = Normalised(Append(ram, Region(r.addr, ROUND_UP(r.size, Page), FALSE)))
    /\ registered' = registered \cup Bytes(r.addr, r.size)
    /\ orphans' = IF ok THEN orphans ELSE orphans \cup Bytes(r.addr, ROUND_UP(r.size, Page))
    /\ UNCHANGED <<given, oom>>

expand_guest_ram_region(r, ok) ==
    /\ Len(ram) < MaxRegions
    /\ ram' = Normalised(Append(ram, Region(r.addr, r.size, FALSE)))
    /\ registered' = registered \cup Bytes(r.addr, r.size)
    /\ orphans' = IF ok THEN orphans ELSE orphans \cup Bytes(r.addr, r.size)
    /\ UNCHANGED <<given, oom>>

\* The pieces before, in and behind the allocated range.
Pieces(r, start, bytes) ==
    <<Region(r.start, start - r.start, FALSE), Region(start, bytes, TRUE),
      Region(start + bytes, r.size - bytes - (start - r.start), FALSE)>>

\* The first region that has the range is replaced by its pieces, unless it is
\* allocated already; a piece that cannot be pushed is lost.
vm_ram_mark_allocated(start, bytes) ==
    LET hit == {i \in 1..Len(ram) : is_subregion(ram[i].start, ram[i].size, start, bytes)}
        i == Min(hit)
    IN  IF hit = {} \/ ram[Min(hit)].allocated
        THEN UNCHANGED <<ramVars, faults>>
        ELSE LET split == Pieces(ram[i], start, bytes)
                 pieces == {p \in Range(split) : p.size > 0}
             IN  \E kept \in SUBSET pieces :
                   /\ ram' = Normalised(guest_ram_remove_region(ram, i) \o SelectSeq(split, LAMBDA p : p \in kept))
                   /\ given' = given \cup Bytes(start, bytes)
                   /\ oom' = (oom \/ kept # pieces)
                   /\ Fail(kept # pieces)
                   /\ UNCHANGED <<registered, orphans>>

\* First fit among the free regions.
vm_ram_allocate(bytes) ==
    LET fit == {i \in 1..Len(ram) : ~ram[i].allocated /\ ram[i].size >= bytes}
    IN  fit # {} /\ vm_ram_mark_allocated(ram[Min(fit)].start, bytes)

(***************************************************************************)
(* Registering and touching RAM                                            *)
(***************************************************************************)

\* The region list keeps the new region when the mapping fails and the
\* reservation is freed.
vm_ram_register_at(start, bytes, ok) ==
    ReserveAndMap(start, bytes, ok) /\ expand_guest_ram_region(New(start, bytes), ok)

\* A reservation in an anonymous region is not freed when its mapping fails.
vm_ram_register(bytes, ok) ==
    LET region == AnonRegion(bytes, Page)
        r == New(ROUND_UP(region.alloc, Page), bytes)
    IN  /\ Allocable(bytes, Page) # {}
        /\ \E made \in {Armed(r), MapResult(r, ok)} :
              MapFresh(r, ok, made) /\ Carve(region, made)
        /\ expand_guest_ram_region(r, TRUE)
        /\ UNCHANGED <<claims, regular, io>>

\* The VMM walks the pages of a range and has every reservation on the way
\* mapped first; it stops at one that cannot be mapped.  A range without a
\* reservation makes it follow a null pointer.
vm_ram_touch(addr, size) ==
    LET touched == {vm_reservation_find_by_addr(b) : b \in Bytes(addr, size)}
        due == {r \in touched : ~r.mapped}
        Before(bad) == {r \in due : r.addr < bad.addr}
    IN  /\ is_ram_region(addr, size) /\ NULL \notin touched
        /\ \E bad \in due \cup {NULL} :
              LET rs == IF bad = NULL THEN due ELSE Before(bad)
              IN  /\ \A r \in rs : r.lazy
                  /\ MapEffect(rs, IF bad # NULL /\ bad.lazy THEN bad ELSE NULL)
                  /\ UpdateAll(LAMBDA r : IF r \in rs THEN MapResult(r, TRUE)
                                         ELSE IF r = bad THEN MapResult(r, FALSE) ELSE r)
        /\ UNCHANGED <<claims, io, ramVars>>

(***************************************************************************)
(* Frames shared with emulated devices                                     *)
(***************************************************************************)

\* One page is reserved, a frame is allocated or looked up, mapped into the
\* VMM and then into the guest.  When a step before the last one fails the
\* reservation is freed and nothing is left.
create_allocated_reservation_frame(addr, ok) == ReserveAndMap(addr, Page, ok)

create_device_reservation_frame(addr, ok) == ReserveAndMap(addr, Page, ok)

\* The callers differ in where the frames come from.
map_frame_alloc_reservation(r, ok) == vm_map_reservation(r, ok)

Init == MemInit /\ ram = <<>> /\ registered = {} /\ orphans = {} /\ given = {} /\ oom = FALSE

Reserve ==
    \E addr \in Starts, size \in Sizes :
        \/ vm_reserve_memory_at(addr, size)
        \/ \E malloc \in BOOLEAN : vm_memory_make_anon(addr, size, malloc)
        \/ \E align \in Aligns : vm_reserve_anon_memory(size, align)

\* The owner of a reservation maps it or frees it; RAM is never freed.
Use ==
    \E r \in Reservations :
        \/ \E ok \in BOOLEAN : map_frame_alloc_reservation(r, ok)
        \/ Bytes(r.addr, r.size) \cap registered = {} /\ vm_free_reserved_memory(r)

Fault ==
    \E addr \in 0 .. Limit - 1, size \in {1, 2} :
        \E result \in {"FAULT_UNHANDLED", "FAULT_ERROR", "FAULT_RESTART", "callback"} :
            vm_memory_handle_fault(addr, size, result)

Frames ==
    \E addr \in Starts, ok \in BOOLEAN :
        create_allocated_reservation_frame(addr, ok) \/ create_device_reservation_frame(addr, ok)

RamNext ==
    \/ \E start \in Starts, bytes \in Sizes, ok \in BOOLEAN : vm_ram_register_at(start, bytes, ok)
    \/ \E bytes \in Sizes, ok \in BOOLEAN : vm_ram_register(bytes, ok)
    \/ \E start \in 0 .. Limit - 1, bytes \in Sizes : vm_ram_touch(start, bytes)
    \/ \E start \in 0 .. Limit - 1, bytes \in Sizes :
          vm_ram_mark_allocated(start, bytes) /\ UNCHANGED <<claims, regular, anon, space, io, done, failed>>
    \/ \E bytes \in Sizes :
          vm_ram_allocate(bytes) /\ UNCHANGED <<claims, regular, anon, space, io, done, failed>>

Next ==
    /\ \/ (vm_guest_add_iospace \/ Reserve \/ Use \/ Fault \/ Frames) /\ UNCHANGED ramVars
       \/ RamNext
    /\ UNCHANGED deferred

Spec == Init /\ [][Next]_vars

(***************************************************************************)
(* Properties                                                              *)
(***************************************************************************)

\* Guest memory is reserved at most once: live reservations share no byte,
\* each of them lies in a range its owner claimed in the vspace, and those
\* that were carved out of an anonymous region lie in that region
\* (vm_reserve_memory_at, vm_reserve_anon_memory, vm_free_reserved_memory).
ReservationsDisjoint ==
    /\ \A r, s \in Reservations : r # s => Bytes(r.addr, r.size) \cap Bytes(s.addr, s.size) = {}
    /\ \A r \in regular : [addr |-> r.addr, size |-> r.size] \in claims
    /\ \A a \in anon : /\ [addr |-> a.addr, size |-> a.size] \in claims
                       /\ \A r \in Range(a.subs) : is_subregion(a.addr, a.size, r.addr, r.size)

\* A fault reaches the reservation it belongs to: the search through the two
\* trees and the list of an anonymous region finds the reservation that holds
\* the address, and nothing when none does (guest_memory.c:94, 261, 292).
FaultFindsReservation ==
    \A addr \in 0 .. Limit - 1 :
        LET hold == {r \in Reservations : addr \in Bytes(r.addr, r.size)}
            r == vm_reservation_find_by_addr(addr)
        IN  IF hold = {} THEN r = NULL ELSE r \in hold

\* The guest and its devices see the same memory: every page of a mapped
\* reservation is mapped in the guest and in all its IO spaces, and a page
\* outside the mapped reservations is mapped nowhere, unless a mapping or an
\* unmapping of it has failed half way (guest_vspace.c:35, 86, 125,
\* guest_memory.c:459, 489).
MappingsMatchReservations ==
    /\ \A r \in Reservations : r.mapped => \A p \in PagesOf(r) : space[p] = 0 .. io
    /\ \A p \in Pages \ failed :
          space[p] # {} => \E r \in Reservations : r.mapped /\ p \in PagesOf(r)

RamBytes(is) == UNION {Bytes(ram[i].start, ram[i].size) : i \in is}

\* RAM is handed out once: as long as no registration has failed, which
\* leaves a region that a second attempt registers again, the list of RAM
\* regions stays sorted, disjoint and merged, what was handed out is in no
\* free region again, and no registered byte disappears unless the list ran
\* out of memory (guest_ram.c:27-104, 213-253).
RamHandedOutOnce ==
    orphans = {} =>
        /\ \A i \in 1 .. Len(ram) - 1 :
              LET r == ram[i] s == ram[i + 1]
              IN  r.start + r.size < s.start \/ (r.start + r.size = s.start /\ r.allocated # s.allocated)
        /\ RamBytes({i \in 1..Len(ram) : ~ram[i].allocated}) \cap given = {}
        /\ RamBytes({i \in 1..Len(ram) : ram[i].allocated}) \subseteq given
        /\ IF oom THEN RamBytes(1..Len(ram)) \subseteq registered ELSE RamBytes(1..Len(ram)) = registered

\* Guest RAM can be touched: every byte of the RAM regions belongs to a
\* reservation, so that vm_ram_touch does not follow a null pointer, except
\* for the bytes of a registration that failed, whose region stays in the
\* list (guest_ram.c:155, 363-375).
RamIsReserved ==
    \A b \in RamBytes(1..Len(ram)) \ orphans : vm_reservation_find_by_addr(b) # NULL

\* What the header of vm_reserve_anon_memory says: a reservation "uses memory
\* previously made anonymous".  When aligning the next free address passes the
\* end of the region, the size left wraps around and the reservation lies
\* behind the region (guest_memory.c:208-211).
AnonymousIsAnonymous ==
    \A a \in anon : \A r \in Range(a.subs) : is_subregion(a.addr, a.size, r.addr, r.size)
=============================================================================
