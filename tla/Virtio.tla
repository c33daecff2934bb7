-------------------------------- MODULE Virtio --------------------------------
(***************************************************************************)
(* The emulated virtio PCI devices of libsel4vmmplatsupport: the rings     *)
(* (virtio_emul.c) and the network, console, block and socket devices      *)
(* behind them, with a guest driver in front and a backend behind.         *)
(*                                                                         *)
(* A handler runs to completion: it reads the guest's avail index once,    *)
(* and what the guest publishes later is the next notification's.  A step  *)
(* is a handler, or one access of the guest to its own memory.             *)
(*                                                                         *)
(* dev, chosen at the start and kept, is the device and the queues the     *)
(* guest uses in this behaviour (of the console: the control queues, or    *)
(* those of port 1).                                                       *)
(***************************************************************************)
EXTENDS Integers, SequencesExt

CONSTANTS QSize,      \* vring.num
          IdxMod,     \* 2^16: the ring indices are uint16_t; a multiple of QSize
          Hdr,        \* sizeof(struct virtio_net_hdr)
          RxDesc,     \* the guest's descriptor table for the buffers it offers
          TxDesc,     \* and for what it sends
          BlkDesc,    \* and for block requests: header, data, status
          Packets,    \* lengths of what a backend delivers
          Heap,       \* buffers the heap can hold
          MaxPorts,   \* VIRTIO_CON_MAX_PORTS
          Uses        \* devices, each with the queues the guest publishes in

ASSUME VirtioAssumption == QSize \in Nat \ {0} /\ IdxMod > QSize /\ IdxMod % QSize = 0

VARIABLES dev,        \* the device
          ring,       \* [queue -> ring], guest memory
          body,       \* [queue -> [head -> what the chain holds]], guest memory
          virtq,      \* vqueue_t, and the queue_num of the console and the socket
          mem,        \* the heap: free buffers, packets in flight, receive buffers, other users
          irq,        \* an interrupt is pending at the guest
          con_count,  \* the console's port counter
          guest,      \* the driver: free chains, used index, in its handler, its messages
          rx,         \* the last delivery
          lost,       \* chains whose transmission the backend refused
          starved,    \* the last allocation failed with nothing in flight
          dropped,    \* control messages for which the guest had no buffer
          notified,   \* the guest has announced all it published
          panicked    \* an assertion of the device failed

vars == <<dev, ring, body, virtq, mem, irq, con_count, guest, rx, lost, starved, dropped,
          notified, panicked>>

RX_QUEUE == 0
TX_QUEUE == 1
CTL_RX_QUEUE == 2
CTL_TX_QUEUE == 3
NUM_VRINGS == 2 * MaxPorts + 2

RxQueue == CASE dev.kind = "control" -> CTL_RX_QUEUE [] dev.kind = "port" -> 4 [] OTHER -> RX_QUEUE
TxQueue == CASE dev.kind = "block" -> 0 [] dev.kind = "control" -> CTL_TX_QUEUE [] dev.kind = "port" -> 5
             [] OTHER -> TX_QUEUE
Queues == IF dev.kind = "block" THEN {0} ELSE {RxQueue, TxQueue}
Table(q) == CASE dev.kind = "block" -> BlkDesc [] q = RxQueue -> RxDesc [] OTHER -> TxDesc
Nexts(table) == {table[d].next : d \in {e \in DOMAIN table : "next" \in table[e].flags}}
\* The heads of the guest's chains.
Heads(q) == {d \in DOMAIN Table(q) : d \notin Nexts(Table(q)) /\ Table(q)[d].head}

Chain[table \in {RxDesc, TxDesc, BlkDesc}, d \in 0..QSize - 1] ==
    IF "next" \in table[d].flags THEN <<d>> \o Chain[table, table[d].next] ELSE <<d>>
ChainOf(q, head) == Chain[Table(q), head]
SumLens(table, ds) == FoldLeft(LAMBDA n, d : n + table[d].len, 0, ds)
Indices(s) == [i \in 1..Len(s) |-> i]

\* What the handlers change.
State == [ring |-> ring, body |-> body, virtq |-> virtq, mem |-> mem, irq |-> irq,
          con_count |-> con_count, rx |-> rx, lost |-> lost, starved |-> starved,
          dropped |-> dropped, notified |-> notified, panicked |-> panicked]
Become(v) ==
    /\ ring' = v.ring /\ body' = v.body /\ virtq' = v.virtq /\ mem' = v.mem /\ irq' = v.irq
    /\ con_count' = v.con_count /\ rx' = v.rx /\ lost' = v.lost /\ starved' = v.starved
    /\ dropped' = v.dropped /\ notified' = v.notified /\ panicked' = v.panicked
    /\ UNCHANGED dev

EmptyRing == [avail |-> [i \in 0..QSize - 1 |-> 0], avail_idx |-> 0,
              used |-> [i \in 0..QSize - 1 |-> 0], used_idx |-> 0]

-----------------------------------------------------------------------------
(***************************************************************************)
(* virtio_emul.c: the rings.                                               *)
(***************************************************************************)
ring_avail_idx(v, q) == v.ring[q].avail_idx
ring_avail(v, q, idx) == v.ring[q].avail[idx % QSize]

ring_used_add(v, q, head) ==
    [v EXCEPT !.ring[q].used[v.ring[q].used_idx % QSize] = head,
              !.ring[q].used_idx = (@ + 1) % IdxMod]

\* The backend's raw_handleIRQ, handleIRQ or injectIRQ.
Interrupt(v) == [v EXCEPT !.irq = TRUE]

\* What the loops from last_idx to the avail index visit.
PendingHeads(v, q) ==
    [i \in 1..((ring_avail_idx(v, q) - v.virtq.last_idx[q]) % IdxMod) |->
        ring_avail(v, q, v.virtq.last_idx[q] + i - 1)]
Advance(v, q) == [v EXCEPT !.virtq.last_idx[q] = (@ + 1) % IdxMod]

-----------------------------------------------------------------------------
(***************************************************************************)
(* Receiving: the three devices fill a chain alike.  The loop leaves a     *)
(* full descriptor for its successor unless !desc.flags & F_NEXT, which C  *)
(* reads as (!desc.flags) & F_NEXT: unless the descriptor has no flag at   *)
(* all.                                                                    *)
(***************************************************************************)
Fill[table \in {RxDesc}, d \in 0..QSize - 1, left \in 0..Max(Packets) + Hdr] ==
    LET copy == Min({left, table[d].len})
        here == IF copy > 0 THEN {d} ELSE {}
    IN  IF copy = table[d].len /\ table[d].flags # {} /\ left > copy
        THEN LET rest == Fill[table, table[d].next, left - copy]
             IN  [on |-> here \cup rest.on, written |-> copy + rest.written]
        ELSE [on |-> here, written |-> copy]

DeliverTo_OneDesc(v, q, head, len, content) ==
    Interrupt(Advance(ring_used_add(
            [v EXCEPT !.rx = [q |-> q, head |-> head, len |-> len, on |-> {head},
                              written |-> Min({len, RxDesc[head].len})],
                      !.body[q][head] = content], q, head), q))
DeliverTo(v, q, head, len, content) ==
    LET f == Fill[RxDesc, head, len]
    IN  Interrupt(Advance(ring_used_add(
            [v EXCEPT !.rx = [q |-> q, head |-> head, len |-> len, on |-> f.on,
                              written |-> f.written],
                      !.body[q][head] = content], q, head), q))

\* Nothing happens without a chain: the packet is dropped.
Deliver(v, q, len, content) ==
    IF v.virtq.last_idx[q] # ring_avail_idx(v, q)
    THEN DeliverTo(v, q, ring_avail(v, q, v.virtq.last_idx[q]), len, content)
    ELSE v

FreeBuffer(v) == [v EXCEPT !.mem.free = @ + 1]

emul_rx_complete_KeepDropped(v, len) ==
    LET r == Deliver(v, RX_QUEUE, Hdr + len, "data")
    IN  [IF r = v THEN v ELSE FreeBuffer(r) EXCEPT !.mem.rx = @ - 1]
emul_rx_complete(v, len) ==
    [FreeBuffer(Deliver(v, RX_QUEUE, Hdr + len, "data")) EXCEPT !.mem.rx = @ - 1]

emul_vsock_rx_complete(v, len) == Deliver(v, RX_QUEUE, len, "data")

\* An empty ring buffer is nothing to deliver.
emul_con_rx_complete(v, q, len, content) == IF len = 0 THEN v ELSE Deliver(v, q, len, content)

virtio_console_putchar(v, port, len) ==
    emul_con_rx_complete(v, IF port > 0 THEN CTL_RX_QUEUE + 2 * port ELSE 0, len, "data")

-----------------------------------------------------------------------------
(***************************************************************************)
(* Transmitting.  What a chain holds is copied to a buffer of the heap, or *)
(* to the device's static one; the bytes are left out.  results[i] is what *)
(* the backend returns for the i-th packet of a loop.                      *)
(***************************************************************************)
InFlight(v) == \E h \in DOMAIN v.mem.sent : v.mem.sent[h] > 0

complete_virtio_blk_request(v, head) ==
    Interrupt(ring_used_add([FreeBuffer(v) EXCEPT !.mem.sent[head] = @ - 1], v.virtq.queue, head))

emul_tx_complete_Silent(v, head) ==
    ring_used_add([FreeBuffer(v) EXCEPT !.mem.sent[head] = @ - 1], TX_QUEUE, head)
emul_tx_complete(v, head) ==
    Interrupt(ring_used_add([FreeBuffer(v) EXCEPT !.mem.sent[head] = @ - 1], TX_QUEUE, head))

\* A buffer and a cookie are allocated and the packet is handed to the backend.
Shipped(v, head) == [v EXCEPT !.mem.free = @ - 1, !.mem.sent[head] = @ + 1]

\* The disk's result, good or bad, is the request's status.
raw_xfer(v, head, result) == complete_virtio_blk_request([v EXCEPT !.body[v.virtq.queue][head] = result], head)

raw_tx(v, head, result) ==
    CASE result = "complete" -> emul_tx_complete(v, head)
      [] result = "failed" -> [FreeBuffer(v) EXCEPT !.mem.sent[head] = @ - 1, !.lost[head] = @ + 1]
      [] result = "enqueued" -> v

Send(v, head, result) == IF dev.kind = "block" THEN raw_xfer(v, head, result) ELSE raw_tx(v, head, result)

\* The loop stops when no buffer can be allocated: "try again later".
SendPending(v, q, results) ==
    LET heads == PendingHeads(v, q)
        Step(acc, i) ==
            IF acc.stop THEN acc
            ELSE IF acc.v.mem.free = 0
            THEN [stop |-> TRUE, v |-> [acc.v EXCEPT !.starved = ~InFlight(acc.v)]]
            ELSE [stop |-> FALSE,
                  v |-> Advance(Send(Shipped(acc.v, heads[i]), heads[i], results[i]), q)]
    IN  FoldLeft(Step, [stop |-> FALSE, v |-> [v EXCEPT !.starved = FALSE]], Indices(heads)).v

emul_notify_tx(v, results) == SendPending(v, TX_QUEUE, results)
handle_virtio_blk_request(v, results) == SendPending(v, v.virtq.queue, results)

emul_tx_complete_external_NoRetry(v, head, results) == emul_tx_complete(v, head)
emul_tx_complete_external(v, head, results) == emul_notify_tx(emul_tx_complete(v, head), results)

(* The console's control messages.  The VMM announces its ports one by one *)
(* as the guest reports ready, then nominates them as consoles one by one  *)
(* as the guest opens them, with the same counter.                         *)
Control(v, event, n) ==
    LET r == emul_con_rx_complete(v, CTL_RX_QUEUE, 1, <<event, n>>)
    IN  IF r.virtq = v.virtq THEN [r EXCEPT !.dropped = 1] ELSE r

handle_control_message_NoReset(v, event) ==
    CASE event \in {"device_ready", "port_ready"} /\ v.con_count # MaxPorts ->
            [Control(v, "port_add", v.con_count) EXCEPT !.con_count = @ + 1]
      [] event \in {"device_ready", "port_ready"} /\ v.con_count = MaxPorts ->
            Control(v, "con_port", 0)
      [] event = "port_open" /\ v.con_count # MaxPorts ->
            Control([v EXCEPT !.con_count = @ + 1], "con_port", v.con_count)
      [] OTHER -> v
handle_control_message(v, event) ==
    CASE event \in {"device_ready", "port_ready"} /\ v.con_count # MaxPorts ->
            [Control(v, "port_add", v.con_count) EXCEPT !.con_count = @ + 1]
      [] event \in {"device_ready", "port_ready"} /\ v.con_count = MaxPorts ->
            Control([v EXCEPT !.con_count = 1], "con_port", 0)
      [] event = "port_open" /\ v.con_count # MaxPorts ->
            Control([v EXCEPT !.con_count = @ + 1], "con_port", v.con_count)
      [] OTHER -> v

\* port_write and vsock_handle_packet only call the backend.
ToBackend(v, content) == v
ConsoleData(v, content) ==
    IF v.virtq.queue_num = CTL_TX_QUEUE THEN handle_control_message(v, content) ELSE ToBackend(v, content)
Handle(v, content) == IF dev.kind = "vsock" THEN ToBackend(v, content) ELSE ConsoleData(v, content)

\* Console and socket: each packet is forwarded and its chain returned at once.
Forward(v, q) ==
    LET heads == PendingHeads(v, q)
        Step(w, i) ==
            Interrupt(Advance(ring_used_add(Handle(w, w.body[q][heads[i]]), q, heads[i]), q))
    IN  FoldLeft(Step, v, Indices(heads))

emul_con_notify_tx(v) == Forward(v, v.virtq.queue_num)
emul_vsock_notify_tx(v) == Forward(v, v.virtq.queue_num)

-----------------------------------------------------------------------------
(***************************************************************************)
(* The registers.  The device's hook comes first; an access that nobody    *)
(* handles, or that fails an assertion, stops the VMM.                     *)
(***************************************************************************)
Panic(v) == [v EXCEPT !.panicked = TRUE]

(* The devices' hooks.  A guest acknowledges the features it was offered;  *)
(* the block device asks for any of them.  A notification is the device's  *)
(* or, for the network, the generic one.                                   *)
Unhandled(v) == [handled |-> FALSE, v |-> v]
Handled(v) == [handled |-> TRUE, v |-> v]
AssertFeatures(v, ok) == Handled(IF ok THEN v ELSE Panic(v))

net_device_emul_io_out(v, reg, value) ==
    IF reg = "GUEST_FEATURES" THEN AssertFeatures(v, value = "offered") ELSE Unhandled(v)

ConsoleNotified(v) == IF v.virtq.queue_num % 2 = 0 THEN v ELSE emul_con_notify_tx(v)
console_device_emul_io_out(v, reg, value) ==
    CASE reg = "GUEST_FEATURES" -> AssertFeatures(v, value = "offered")
      [] reg = "QUEUE_NOTIFY" -> Handled(ConsoleNotified([v EXCEPT !.virtq.queue_num = value]))
      [] OTHER -> Unhandled(v)

EVENT_QUEUE == 2
SocketNotified(v) == IF v.virtq.queue_num \in {RX_QUEUE, EVENT_QUEUE} THEN v ELSE emul_vsock_notify_tx(v)
vsock_device_emul_io_out(v, reg, value) ==
    CASE reg = "GUEST_FEATURES" -> AssertFeatures(v, value = "offered")
      [] reg = "QUEUE_NOTIFY" -> Handled(SocketNotified([v EXCEPT !.virtq.queue_num = value]))
      [] OTHER -> Unhandled(v)

block_emul_io_out(v, reg, value, results) ==
    CASE reg = "GUEST_FEATURES" -> AssertFeatures(v, value \in {"offered", "some"})
      [] reg = "QUEUE_NOTIFY" -> Handled(handle_virtio_blk_request(v, results))
      [] OTHER -> Unhandled(v)

device_io_out(v, reg, value, results) ==
    CASE dev.kind = "net" -> net_device_emul_io_out(v, reg, value)
      [] dev.kind = "block" -> block_emul_io_out(v, reg, value, results)
      [] dev.kind = "vsock" -> vsock_device_emul_io_out(v, reg, value)
      [] OTHER -> console_device_emul_io_out(v, reg, value)

\* What nobody hooks; only the network's notifications come here.
GenericOut(v, reg, value, results) ==
    CASE reg = "STATUS" -> [v EXCEPT !.virtq.status = value]
      [] reg = "QUEUE_SEL" -> IF value < NUM_VRINGS THEN [v EXCEPT !.virtq.queue = value] ELSE Panic(v)
      [] reg = "QUEUE_PFN" -> [v EXCEPT !.virtq.pfn[v.virtq.queue] = value]
      [] reg = "QUEUE_NOTIFY" -> CASE value = RX_QUEUE -> v
                                   [] value = TX_QUEUE -> emul_notify_tx(v, results)
                                   [] OTHER -> Panic(v)
      [] OTHER -> Panic(v)
UnlessHandled(hook, reg, value, results) ==
    IF hook.handled THEN hook.v ELSE GenericOut(hook.v, reg, value, results)
emul_io_out(v, reg, value, results) ==
    UnlessHandled(device_io_out(v, reg, value, results), reg, value, results)

(* What the guest reads: its status, the size and the address of the       *)
(* selected queue, the interrupt status (always 1); of the device, its     *)
(* features and its configuration.  Nothing changes.                       *)
device_io_in == {"HOST_FEATURES", "CONFIG"}
emul_io_in(v, reg) ==
    IF reg \in device_io_in \cup {"STATUS", "QUEUE_NUM", "QUEUE_PFN", "ISR"} THEN v ELSE Panic(v)

-----------------------------------------------------------------------------
Init ==
    /\ dev \in Uses
    /\ ring = [q \in 0..NUM_VRINGS - 1 |-> EmptyRing]
    /\ body = [q \in 0..NUM_VRINGS - 1 |-> [d \in 0..QSize - 1 |-> "data"]]
    /\ virtq = [status |-> "reset", queue |-> 0, queue_num |-> 0,
                pfn |-> [q \in 0..NUM_VRINGS - 1 |-> FALSE],
                last_idx |-> [q \in 0..NUM_VRINGS - 1 |-> 0]]
    /\ mem = [free |-> Heap, sent |-> [d \in 0..QSize - 1 |-> 0], rx |-> 0, other |-> 0]
    /\ irq = FALSE /\ con_count = 0
    /\ guest = [free |-> [q \in Queues |-> Heads(q)], last_used |-> [q \in Queues |-> 0],
                serving |-> FALSE, todo |-> <<"device_ready">>, got |-> <<>>]
    /\ rx = [q |-> 0, head |-> 0, len |-> 0, on |-> {}, written |-> 0]
    /\ lost = [d \in 0..QSize - 1 |-> 0]
    /\ starved = FALSE /\ dropped = 0 /\ notified = TRUE /\ panicked = FALSE

Running == ~panicked
Ready == Running /\ virtq.status = "driver_ok"

(***************************************************************************)
(* The guest's driver.  It sets its queues up one by one, publishes the    *)
(* lowest of its free chains, and takes used chains in its interrupt       *)
(* handler.                                                                *)
(***************************************************************************)
Unset == {q \in Queues : ~virtq.pfn[q]}
GuestSetup ==
    /\ Running /\ virtq.status = "reset"
    /\ Become(CASE Unset # {} /\ virtq.queue # Min(Unset) ->
                      emul_io_out(State, "QUEUE_SEL", Min(Unset), <<>>)
                [] Unset # {} /\ virtq.queue = Min(Unset) ->
                      emul_io_out(State, "QUEUE_PFN", TRUE, <<>>)
                [] OTHER -> emul_io_out(State, "STATUS", "driver_ok", <<>>))
    /\ UNCHANGED guest

\* Other accesses a driver makes while it probes the device.
GuestProbe(reg, value) ==
    /\ Running /\ virtq.status = "reset"
    /\ Become(IF value = "read" THEN emul_io_in(State, reg) ELSE emul_io_out(State, reg, value, <<>>))
    /\ UNCHANGED guest

Publish(q, head, content) ==
    /\ ring' = [ring EXCEPT ![q].avail[ring[q].avail_idx % QSize] = head,
                            ![q].avail_idx = (@ + 1) % IdxMod]
    /\ body' = [body EXCEPT ![q][head] = content]
    /\ notified' = (notified /\ q # TxQueue)
    /\ UNCHANGED <<dev, virtq, mem, irq, con_count, rx, lost, starved, dropped, panicked>>

GuestPublish(q) ==
    /\ Ready /\ q \in dev.queues /\ guest.free[q] # {}
    /\ q = CTL_TX_QUEUE => guest.todo # <<>>
    /\ LET head == Min(guest.free[q])
       IN  /\ Publish(q, head, IF q = CTL_TX_QUEUE THEN guest.todo[1] ELSE "data")
           /\ guest' = [guest EXCEPT !.free[q] = @ \ {head},
                                     !.todo = IF q = CTL_TX_QUEUE THEN Tail(@) ELSE @]

GuestNotify(q, results) ==
    /\ Ready
    /\ Become([emul_io_out(State, "QUEUE_NOTIFY", q, results) EXCEPT !.notified = @ \/ q = TxQueue])
    /\ UNCHANGED guest

GuestInterrupt ==
    /\ Ready /\ irq /\ ~guest.serving
    /\ Become([emul_io_in(State, "ISR") EXCEPT !.irq = FALSE])
    /\ guest' = [guest EXCEPT !.serving = TRUE]

\* The driver of the console answers every control message.
Answer(content) == IF content[1] = "port_add" THEN "port_ready" ELSE "port_open"

GuestCollect(q) ==
    /\ Ready /\ guest.serving /\ guest.last_used[q] # ring[q].used_idx
    /\ LET head == ring[q].used[guest.last_used[q] % QSize]
       IN  guest' = [guest EXCEPT !.free[q] = @ \cup {head}, !.last_used[q] = (@ + 1) % IdxMod,
                         !.got = IF q = CTL_RX_QUEUE THEN Append(@, body[q][head]) ELSE @,
                         !.todo = IF q = CTL_RX_QUEUE THEN Append(@, Answer(body[q][head])) ELSE @]
    /\ Become(State)

GuestReturns ==
    /\ Ready /\ guest.serving /\ \A q \in Queues : guest.last_used[q] = ring[q].used_idx
    /\ guest' = [guest EXCEPT !.serving = FALSE]
    /\ Become(State)

-----------------------------------------------------------------------------
(***************************************************************************)
(* The backend, and the rest of the VMM on the same heap.                  *)
(***************************************************************************)
emul_allocate_rx_buf ==
    /\ Ready /\ dev.kind = "net" /\ mem.free > 0 /\ mem.rx = 0
    /\ Become([State EXCEPT !.mem.free = @ - 1, !.mem.rx = @ + 1])
    /\ UNCHANGED guest

BackendReceives(len) ==
    /\ Ready
    /\ \/ dev.kind = "net" /\ mem.rx > 0 /\ Become(emul_rx_complete(State, len))
       \/ dev.kind = "vsock" /\ Become(emul_vsock_rx_complete(State, len))
       \/ dev.kind = "port" /\ Become(virtio_console_putchar(State, 1, len))
    /\ UNCHANGED guest

BackendTransmitted(head, results) ==
    /\ Ready /\ dev.kind = "net" /\ mem.sent[head] > 0
    /\ Become(emul_tx_complete_external(State, head, results))
    /\ UNCHANGED guest

OtherAllocates ==
    /\ Ready /\ dev.kind \in {"net", "block"} /\ mem.free > 0
    /\ Become([State EXCEPT !.mem.free = @ - 1, !.mem.other = @ + 1])
    /\ UNCHANGED guest
OtherFrees ==
    /\ Ready /\ mem.other > 0
    /\ Become([State EXCEPT !.mem.free = @ + 1, !.mem.other = @ - 1])
    /\ UNCHANGED guest

Results == IF dev.kind = "net" THEN {"complete", "failed", "enqueued"} ELSE {"complete", "failed"}
ResultSeqs == IF dev.kind \in {"net", "block"} THEN [1..2 -> Results] ELSE {<<>>}

VirtioNext ==
    \/ GuestSetup
    \/ \E reg \in {"GUEST_FEATURES", "OTHER"}, value \in {"offered", "some", "read"} : GuestProbe(reg, value)
    \/ \E q \in Queues : GuestPublish(q) \/ GuestCollect(q)
    \/ \E q \in Queues, results \in ResultSeqs : GuestNotify(q, results)
    \/ GuestInterrupt \/ GuestReturns
    \/ emul_allocate_rx_buf
    \/ \E len \in Packets : BackendReceives(len)
    \/ \E head \in Heads(TxQueue), results \in ResultSeqs : BackendTransmitted(head, results)
    \/ OtherAllocates \/ OtherFrees

-----------------------------------------------------------------------------
Count(S) == Cardinality(S)
Uncollected(q) == (ring[q].used_idx - guest.last_used[q]) % IdxMod
SumSent == FoldFunction(+, 0, mem.sent)

(* Every chain the guest published is in exactly one place: still to be    *)
(* taken, with the backend, in the used ring, or lost with a packet the    *)
(* backend refused; and every buffer of the heap is free or has one owner. *)
(* So no chain is returned twice or handed out twice, across the wrap of   *)
(* the 16-bit indices, deferred transmissions and late completions         *)
(* (virtio_emul.c, last_idx, the cookies).                                 *)
Conserved ==
    /\ \A q \in Queues : \A h \in Heads(q) :
         (IF h \in guest.free[q] THEN 1 ELSE 0)
           + Count({i \in DOMAIN PendingHeads(State, q) : PendingHeads(State, q)[i] = h})
           + Count({i \in 0..Uncollected(q) - 1 : ring[q].used[(guest.last_used[q] + i) % QSize] = h})
           + (IF q = TxQueue THEN mem.sent[h] + lost[h] ELSE 0) = 1
    /\ mem.free + SumSent + mem.rx + mem.other = Heap

(* A used chain is never left unannounced: while the guest has one to      *)
(* collect, an interrupt is pending or its handler is running (the         *)
(* raw_handleIRQ after every ring_used_add).                               *)
UsedIsAnnounced ==
    (\E q \in Queues : Uncollected(q) > 0) => irq \/ guest.serving

(* "Try again later" comes: a transmission the guest announced and the     *)
(* device put off for want of a buffer is retried when a packet in flight  *)
(* completes; only with nothing in flight does it wait for the guest's     *)
(* next notification (virtio_net_emul.c emul_tx_complete_external).        *)
DeferredIsRetried ==
    dev.kind = "net" /\ notified /\ PendingHeads(State, TX_QUEUE) # <<>> => InFlight(State) \/ starved

(* The console's handshake: the guest is told of the ports in order, each  *)
(* once, and then of each as a console, and nothing is left out, as long   *)
(* as it has a buffer for every message (handle_control_message's counter, *)
(* used twice).                                                            *)
Handshake == [i \in 1..2 * MaxPorts |->
                 IF i <= MaxPorts THEN <<"port_add", i - 1>> ELSE <<"con_port", i - MaxPorts - 1>>]
Settled == virtq.last_idx[CTL_TX_QUEUE] # 0 /\ guest.todo = <<>> /\ Uncollected(CTL_RX_QUEUE) = 0
             /\ PendingHeads(State, CTL_TX_QUEUE) = <<>>
ConsoleHandshake ==
    dev.kind = "control" /\ dropped = 0 =>
        IsPrefix(guest.got, Handshake) /\ (Settled => guest.got = Handshake)

(* What is delivered into a chain that holds it stays in the chain's own   *)
(* descriptors and is all there.  Nothing is said of a packet that is too  *)
(* long: it is not truncated (virtio_net_emul.c:87).                       *)
RxStaysInChain ==
    rx.len > 0 /\ SumLens(RxDesc, ChainOf(rx.q, rx.head)) >= rx.len =>
        rx.on \subseteq ToSet(ChainOf(rx.q, rx.head)) /\ rx.written = rx.len
=============================================================================
