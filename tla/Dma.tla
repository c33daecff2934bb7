-------------------------------- MODULE Dma --------------------------------
(***************************************************************************)
(* The DMA memory manager of libsel4dma.  The allocator keeps a list of    *)
(* nodes, one per memory descriptor the application provided, and every    *)
(* node a list of regions in address order, the newest piece of a region   *)
(* linked in behind it.  A region runs to the start of the next one, so    *)
(* the list is the set of the offsets at which regions start and the set   *)
(* of those whose region is allocated.  A region is named by its offset.   *)
(* Clients hold allocations; `held' is the record of what they hold, which *)
(* the code itself does not keep.                                          *)
(***************************************************************************)
EXTENDS Integers, Sequences, FiniteSetsExt

CONSTANTS
    Descs,      \* the memory descriptors: records [vaddr, paddr, size]
    DmaSizes,   \* the sizes clients ask for
    DmaAligns,  \* the alignments clients ask for
    MinAlign,   \* DMA_MINALIGN_BYTES
    Morecore    \* whether the application gave the allocator a morecore function

\* Descriptors describe different memory.
ASSUME DmaAssumption ==
    /\ MinAlign \in Nat \ {0} /\ Morecore \in BOOLEAN
    /\ DmaSizes \subseteq Nat \ {0} /\ DmaAligns \subseteq Nat \ {0}
    /\ \A d \in Descs : d.vaddr \in Nat /\ d.paddr \in Nat /\ d.size \in Nat \ {0}
    /\ \A d, e \in Descs : d # e =>
          /\ d.vaddr + d.size <= e.vaddr \/ e.vaddr + e.size <= d.vaddr
          /\ d.paddr + d.size <= e.paddr \/ e.paddr + e.size <= d.paddr

VARIABLES
    nodes,      \* the allocator's list: [desc, regions, used] with used a subset of regions
    pool,       \* the descriptors that are with the application
    held        \* the allocations clients hold: [desc, offset, size, align]

dmaVars == <<nodes, pool, held>>

(***************************************************************************)
(* Region lists                                                            *)
(***************************************************************************)

FirstRegion(n) == Min(n.regions)

_is_free(n, o) == o \notin n.used

\* Where the region at o ends: the next region starts there, if there is one.
End(n, o) == Min({p \in n.regions : p > o} \cup {n.desc.size})

_mem_size(n, o) == End(n, o) - o

\* The last region that starts at or below offset, the first one if none does.
_find_mem(n, offset) == Max({FirstRegion(n)} \cup {o \in n.regions : o <= offset})

\* p is one of the free regions that follow the region at o.
Follows(n, o, p) == o < p /\ \A u \in n.used : ~(o < u /\ u <= p)

_mem_compact_Stop(n, o) == [n EXCEPT !.regions = @ \ ({End(n, o)} \ n.used)]

\* Region o takes in the free regions that follow it, whatever its own flag.
_mem_compact(n, o) == [n EXCEPT !.regions = {p \in @ : ~Follows(n, o, p)}]

\* What a walk leaves that compacts at every free region it visits.
Compact(n) ==
    [n EXCEPT !.regions = {p \in @ : \A o \in n.regions : _is_free(n, o) => ~Follows(n, o, p)}]

(***************************************************************************)
(* Allocation                                                              *)
(***************************************************************************)

\* The bytes skipped in front of an allocation to align its physical address.
Skip(n, o, align) == (-(n.desc.paddr + o)) % align

Fits_NoSkip(n, o, size, align) ==
    /\ _is_free(n, o)
    /\ _mem_size(n, o) >= size

Fits_Tight(n, o, size, align) ==
    /\ _is_free(n, o)
    /\ _mem_size(n, o) - Skip(n, o, align) > size

Fits(n, o, size, align) ==
    /\ _is_free(n, o)
    /\ _mem_size(n, o) > Skip(n, o, align)
    /\ _mem_size(n, o) - Skip(n, o, align) >= size

\* The regions of node n that the walk would settle on; it takes the first.
Candidates(n, size, align) == {o \in Compact(n).regions : Fits(Compact(n), o, size, align)}

\* Node n after an allocation, and the offset it returns.  The skipped bytes
\* fall to the region before, or to none when the region is the first.  The
\* regions behind the chosen one are not compacted.  Without memory for a
\* region object the client gets the whole region.
dma_memd_alloc(n, size, align, malloc) ==
    LET c == Compact(n)
        o == Min(Candidates(n, size, align))
        offset == o + Skip(c, o, align)
        spare == malloc /\ offset + size < End(c, o)
        split == IF spare THEN {offset + size} ELSE {}
        before == {p \in c.regions : p < o}
        behind == {p \in n.regions : p >= End(c, o)}
    IN  [node |-> [n EXCEPT !.regions = before \cup {offset} \cup split \cup behind,
                            !.used = @ \cup {offset}],
         offset |-> offset]

NewNode(d) == [desc |-> d, regions |-> {0}, used |-> {}]

Hold(d, offset, size, align) ==
    held' = held \cup {[desc |-> d, offset |-> offset, size |-> size, align |-> align]}

\* The first node that can serve the request serves it; the nodes in front of
\* it, all nodes if there is none, have been compacted by the walk.
AllocFrom(size, align, malloc) ==
    LET can == {k \in 1..Len(nodes) : Candidates(nodes[k], size, align) # {}}
        k == Min(can)
        r == dma_memd_alloc(nodes[k], size, align, malloc)
    IN  /\ can # {}
        /\ nodes' = [j \in 1..Len(nodes) |->
                        IF j < k THEN Compact(nodes[j]) ELSE IF j = k THEN r.node ELSE nodes[j]]
        /\ Hold(nodes[k].desc, r.offset, size, align)
        /\ UNCHANGED pool

NothingFits(size, align) ==
    \A k \in 1..Len(nodes) : Candidates(nodes[k], size, align) = {}

\* Every node was walked in vain.  morecore may fail, or provide a descriptor
\* of at least the size asked for; that descriptor is lost when there is no
\* memory for its node, and kept without an allocation when the alignment asks
\* for more than the new node has (the code asserts that it does not).
AllocMorecore(size, align, malloc) ==
    LET walked == [k \in 1..Len(nodes) |-> Compact(nodes[k])]
    IN  /\ NothingFits(size, align)
        /\ \/ nodes' = walked /\ UNCHANGED <<pool, held>>
           \/ \E d \in pool :
                /\ Morecore /\ d.size >= size
                /\ pool' = pool \ {d}
                /\ \/ /\ ~malloc
                      /\ nodes' = walked /\ UNCHANGED held
                   \/ /\ Candidates(NewNode(d), size, align) = {}
                      /\ nodes' = <<NewNode(d)>> \o walked /\ UNCHANGED held
                   \/ LET r == dma_memd_alloc(NewNode(d), size, align, malloc)
                      IN  /\ Candidates(NewNode(d), size, align) # {}
                          /\ nodes' = <<r.node>> \o walked
                          /\ Hold(d, r.offset, size, align)

dma_alloc(size, align) ==
    LET al == Max({align, MinAlign})
    IN  \E malloc \in BOOLEAN : AllocFrom(size, al, malloc) \/ AllocMorecore(size, al, malloc)

\* The platform support interface derives access flags that dma_alloc ignores.
dma_dma_alloc(size, align) == dma_alloc(size, align)

(***************************************************************************)
(* Looking up, freeing and reclaiming                                      *)
(***************************************************************************)

dma_vlookup_ByFrame(vaddr) ==
    LET in == {k \in 1..Len(nodes) : nodes[k].desc.vaddr <= vaddr}
        k == Min(in)
    IN  IF in = {} THEN <<0, 0>> ELSE <<k, _find_mem(nodes[k], vaddr - nodes[k].desc.vaddr)>>

\* The node and region an address belongs to, <<0, 0>> if it is in no node.
dma_vlookup(vaddr) ==
    LET in == {k \in 1..Len(nodes) : /\ nodes[k].desc.vaddr <= vaddr
                                     /\ vaddr < nodes[k].desc.vaddr + nodes[k].desc.size}
        k == Min(in)
    IN  IF in = {} THEN <<0, 0>> ELSE <<k, _find_mem(nodes[k], vaddr - nodes[k].desc.vaddr)>>

dma_paddr(k, o) == nodes[k].desc.paddr + o

\* The physical address a driver is told for an allocation.
dma_dma_pin(vaddr) == LET r == dma_vlookup(vaddr) IN IF r = <<0, 0>> THEN 0 ELSE dma_paddr(r[1], r[2])

Freed(n, o) == _mem_compact([n EXCEPT !.used = @ \ {o}], o)

FreeRegion(k, o) == nodes' = [nodes EXCEPT ![k] = Freed(@, o)]

\* A client frees by handle: the region object it was given.
dma_free(h) ==
    \E k \in 1..Len(nodes) :
        /\ nodes[k].desc = h.desc /\ h.offset \in nodes[k].regions
        /\ FreeRegion(k, h.offset)
        /\ held' = held \ {h}
        /\ UNCHANGED pool

\* A client of the platform support interface frees by virtual address.
dma_dma_free(h) ==
    LET r == dma_vlookup(h.desc.vaddr + h.offset)
    IN  /\ IF r = <<0, 0>> THEN UNCHANGED nodes ELSE FreeRegion(r[1], r[2])
        /\ held' = held \ {h}
        /\ UNCHANGED pool

dma_provide_mem(d) ==
    /\ pool' = pool \ {d}
    /\ nodes' = <<NewNode(d)>> \o nodes
    /\ UNCHANGED held

\* The first regions are compacted up to the first node that is one free
\* region; that node goes back to the application.
dma_reclaim_mem ==
    LET walked == [k \in 1..Len(nodes) |-> _mem_compact(nodes[k], FirstRegion(nodes[k]))]
        idle == {k \in 1..Len(nodes) : /\ walked[k].regions = {FirstRegion(nodes[k])}
                                       /\ _is_free(nodes[k], FirstRegion(nodes[k]))}
        k == Min(idle)
    IN  /\ IF idle = {}
           THEN nodes' = walked /\ UNCHANGED pool
           ELSE /\ nodes' = SubSeq(walked, 1, k - 1) \o SubSeq(nodes, k + 1, Len(nodes))
                /\ pool' = pool \cup {nodes[k].desc}
        /\ UNCHANGED held

DmaInit == nodes = <<>> /\ pool = Descs /\ held = {}

DmaNext ==
    \/ \E d \in pool : dma_provide_mem(d)
    \/ \E size \in DmaSizes, align \in DmaAligns : dma_dma_alloc(size, align)
    \/ \E h \in held : dma_free(h) \/ dma_dma_free(h)
    \/ dma_reclaim_mem

DmaSpec == DmaInit /\ [][DmaNext]_dmaVars

(***************************************************************************)
(* Properties                                                              *)
(***************************************************************************)

HeldBytes(h) == h.desc.paddr + h.offset .. h.desc.paddr + h.offset + h.size - 1

\* What a client holds is its own until it frees it: the region of every held
\* allocation is still in the allocator and marked used, whatever was split,
\* compacted or reclaimed around it, is long enough and aligned; no two
\* allocations share a byte; and no region stays marked that nobody holds
\* (dma_memd_alloc, _mem_compact, dma_reclaim_mem).
Ownership ==
    /\ \A h \in held : \E k \in 1..Len(nodes) :
          /\ nodes[k].desc = h.desc /\ h.offset \in nodes[k].regions \cap nodes[k].used
          /\ _mem_size(nodes[k], h.offset) >= h.size
          /\ (h.desc.paddr + h.offset) % h.align = 0
    /\ \A g, h \in held : g # h => HeldBytes(g) \cap HeldBytes(h) = {}
    /\ \A k \in 1..Len(nodes) : \A o \in nodes[k].used :
          \E h \in held : h.desc = nodes[k].desc /\ h.offset = o

\* Freeing and pinning by address hit the right region: every address inside a
\* held allocation looks up to that allocation's region, and pins to its
\* physical address (dma.c:407-426, 486-502).
LookupFindsOwner ==
    \A h \in held : \A b \in 0 .. h.size - 1 :
        LET vaddr == h.desc.vaddr + h.offset + b
            r == dma_vlookup(vaddr)
        IN  /\ r # <<0, 0>>
            /\ nodes[r[1]].desc = h.desc /\ r[2] = h.offset
            /\ dma_dma_pin(vaddr) = h.desc.paddr + h.offset

\* The bytes of a node that no used region covers, from its first region on.
FreeBytes(n) ==
    {b \in FirstRegion(n) .. n.desc.size - 1 :
        \A o \in n.regions : b \in o .. End(n, o) - 1 => _is_free(n, o)}

\* A request is refused only for want of memory: when the walk of dma_alloc
\* finds no region, no node has an aligned run of free bytes of that length,
\* however the free memory is cut up into regions (dma.c:221-264, 281-295).
RefusedOnlyWhenFull ==
    \A size \in DmaSizes, align \in DmaAligns :
        LET al == Max({align, MinAlign})
        IN  NothingFits(size, al) =>
               \A k \in 1..Len(nodes) : \A b \in 0 .. nodes[k].desc.size - 1 :
                  (nodes[k].desc.paddr + b) % al = 0 => ~(b .. b + size - 1 \subseteq FreeBytes(nodes[k]))

\* A descriptor whose memory nobody uses can be reclaimed: a call of
\* dma_reclaim_mem that returns nothing leaves no node without a held
\* allocation (dma.c:333-356).
ReclaimFindsIdle ==
    [][(dma_reclaim_mem /\ pool' = pool) =>
          \A k \in 1..Len(nodes) : \E h \in held : h.desc = nodes[k].desc]_dmaVars
=============================================================================
