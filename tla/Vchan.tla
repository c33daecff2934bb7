------------------------------- MODULE Vchan -------------------------------
(***************************************************************************)
(* One direction of a vchan (libsel4vchan/src/vchan_component.c): a ring   *)
(* buffer in memory shared by the component that sends and the one that    *)
(* receives, with no lock.  Each component runs libvchan_readwrite or      *)
(* libvchan_wait in a thread of its own; the steps below are the reads and *)
(* writes of shared memory and the calls of the connector.                 *)
(***************************************************************************)
EXTENDS Integers, Sequences

CONSTANTS
  Byte,     \* contents of a byte
  BufSize,  \* VCHAN_BUF_SIZE
  PosLimit, \* read_pos and write_pos are ints in -PosLimit .. PosLimit - 1
  Messages  \* what the sender's callers send; bounds the sizes of calls

ASSUME VchanAssumption ==
  /\ BufSize \in Nat \ {0}
  /\ PosLimit \in Nat /\ PosLimit > BufSize /\ PosLimit % BufSize = 0
  /\ Messages \subseteq Seq(Byte) \ {<<>>}

Ends  == {"send", "recv"}
Peer(e) == IF e = "send" THEN "recv" ELSE "send"
Sizes == {Len(m) : m \in Messages}
Modes == {"none", "stream", "packet", "wait"}

VARIABLES
  pos,      \* pos.send is write_pos, pos.recv is read_pos
  buf,      \* sync_data
  pc,       \* where each component is in its call
  mode,     \* libvchan_read/write, libvchan_recv/send, libvchan_wait
  left,     \* data_sz
  n,        \* ssize, what this pass moves
  data,     \* send: the caller's bytes not yet sent; recv: those received
  tmp,      \* the receiver's bytes of this pass
  alerted   \* the connector's notification of each component

vars == <<pos, buf, pc, mode, left, n, data, tmp, alerted>>

Init ==
  /\ pos = [e \in Ends |-> 0]
  /\ buf \in {[i \in 0 .. BufSize - 1 |-> b] : b \in Byte}
  /\ pc = [e \in Ends |-> "idle"]
  /\ mode = [e \in Ends |-> "none"]
  /\ left = [e \in Ends |-> 0]
  /\ n = [e \in Ends |-> 0]
  /\ data = [e \in Ends |-> <<>>]
  /\ tmp = <<>>
  /\ alerted = [e \in Ends |-> FALSE]

-----------------------------------------------------------------------------
\* Mutant: an int that sticks at its limit.
Wrap_Saturate(x) == IF x >= PosLimit THEN PosLimit - 1 ELSE x

\* int arithmetic wraps.
Wrap(x) == ((x + PosLimit) % (2 * PosLimit)) - PosLimit

Abs(x) == IF x < 0 THEN -x ELSE x

Filled == Abs(Wrap(pos.send - pos.recv))

\* Mutant: room for one byte too many.
get_actionsize_OffByOne(e, size) ==
  LET room == IF e = "send" THEN BufSize + 1 - Filled ELSE Filled
  IN IF room < size THEN room ELSE size

get_actionsize(e, size) ==
  LET room == IF e = "send" THEN BufSize - Filled ELSE Filled
  IN IF room < size THEN room ELSE size

\* VCHAN_BUF_SIZE is unsigned, so a negative position has its remainder in range.
Start(e)  == pos[e] % BufSize
Remain(e) == IF Start(e) + n[e] > BufSize THEN Start(e) + n[e] - BufSize ELSE 0

Goto(e, l) == pc' = [pc EXCEPT ![e] = l]

\* The caller enters the library; a call whose buffer cannot be had returns -1
\* and changes nothing.
libvchan_readwrite(e, m, msg) ==
  /\ pc[e] = "idle"
  /\ Goto(e, "check")
  /\ mode' = [mode EXCEPT ![e] = m]
  /\ left' = [left EXCEPT ![e] = Len(msg)]
  /\ data' = [data EXCEPT ![e] = IF e = "send" THEN msg ELSE <<>>]
  /\ UNCHANGED <<pos, buf, n, tmp, alerted>>

libvchan_wait ==
  /\ pc["recv"] = "idle"
  /\ Goto("recv", "check")
  /\ mode' = [mode EXCEPT !["recv"] = "wait"]
  /\ UNCHANGED <<pos, buf, left, n, data, tmp, alerted>>

Check(e) ==
  /\ pc[e] = "check" /\ mode[e] # "wait"
  /\ LET size  == IF left[e] < BufSize THEN left[e] ELSE BufSize
         ssize == get_actionsize(e, size)
     IN /\ n' = [n EXCEPT ![e] = ssize]
        /\ Goto(e, IF ssize = 0 THEN "wait" ELSE "copy")
  /\ UNCHANGED <<pos, buf, mode, left, data, tmp, alerted>>

\* The loop of libvchan_wait.
CheckFilled(e) ==
  /\ pc[e] = "check" /\ mode[e] = "wait"
  /\ Goto(e, IF Filled = 0 THEN "wait" ELSE "idle")
  /\ mode' = IF Filled = 0 THEN mode ELSE [mode EXCEPT ![e] = "none"]
  /\ UNCHANGED <<pos, buf, left, n, data, tmp, alerted>>

\* Mutant: the size is not computed again after the wait.
Wait_NoRecheck(e) ==
  /\ pc[e] = "wait" /\ alerted[e]
  /\ alerted' = [alerted EXCEPT ![e] = FALSE]
  /\ Goto(e, "copy")
  /\ n' = [n EXCEPT ![e] = 1]
  /\ UNCHANGED <<pos, buf, mode, left, data, tmp>>

\* con->wait() returns once the component has been alerted.
Wait(e) ==
  /\ pc[e] = "wait" /\ alerted[e]
  /\ alerted' = [alerted EXCEPT ![e] = FALSE]
  /\ Goto(e, "check")
  /\ UNCHANGED <<pos, buf, mode, left, n, data, tmp>>

\* memcpy of k bytes between the caller, from its byte "from" on, and the ring.
Copy(e, from, slot, k) ==
  IF e = "send"
    THEN /\ buf' = [i \in DOMAIN buf |->
                      IF i \in slot .. slot + k - 1 THEN data[e][from + i - slot] ELSE buf[i]]
         /\ UNCHANGED tmp
    ELSE /\ tmp' = tmp \o [i \in 1 .. k |-> buf[slot + i - 1]]
         /\ UNCHANGED buf

CopyToEnd(e) ==
  /\ pc[e] = "copy"
  /\ Copy(e, 1, Start(e), n[e] - Remain(e))
  /\ Goto(e, IF Remain(e) = 0 THEN "update" ELSE "wrap")
  /\ UNCHANGED <<pos, mode, left, n, data, alerted>>

CopyWrapped(e) ==
  /\ pc[e] = "wrap"
  /\ Copy(e, n[e] - Remain(e) + 1, 0, Remain(e))
  /\ Goto(e, "update")
  /\ UNCHANGED <<pos, mode, left, n, data, alerted>>

Update(e) ==
  /\ pc[e] = "update"
  /\ pos' = [pos EXCEPT ![e] = Wrap(@ + n[e])]
  /\ left' = [left EXCEPT ![e] = @ - n[e]]
  /\ data' = [data EXCEPT ![e] = IF e = "send" THEN SubSeq(@, n[e] + 1, Len(@)) ELSE @ \o tmp]
  /\ tmp' = IF e = "recv" THEN <<>> ELSE tmp
  /\ Goto(e, "alert")
  /\ UNCHANGED <<buf, mode, n, alerted>>

\* Mutant: the peer is only alerted when the call returns.
Alert_Last(e) ==
  /\ pc[e] = "alert"
  /\ IF mode[e] = "stream" \/ left[e] = 0
       THEN /\ alerted' = [alerted EXCEPT ![Peer(e)] = TRUE]
            /\ Goto(e, "idle")
            /\ left' = [left EXCEPT ![e] = 0]
            /\ data' = [data EXCEPT ![e] = <<>>]
            /\ mode' = [mode EXCEPT ![e] = "none"]
       ELSE Goto(e, "check") /\ UNCHANGED <<left, data, mode, alerted>>
  /\ n' = [n EXCEPT ![e] = 0]
  /\ UNCHANGED <<pos, buf, tmp>>

\* Mutant: the peer is never alerted.
Alert_Never(e) ==
  /\ pc[e] = "alert"
  /\ Goto(e, "idle")
  /\ left' = [left EXCEPT ![e] = 0]
  /\ data' = [data EXCEPT ![e] = <<>>]
  /\ mode' = [mode EXCEPT ![e] = "none"]
  /\ n' = [n EXCEPT ![e] = 0]
  /\ UNCHANGED <<pos, buf, tmp, alerted>>

\* con->alert(), then the next pass or the return to the caller.
Alert(e) ==
  /\ pc[e] = "alert"
  /\ alerted' = [alerted EXCEPT ![Peer(e)] = TRUE]
  /\ IF mode[e] = "stream" \/ left[e] = 0
       THEN /\ Goto(e, "idle")
            /\ left' = [left EXCEPT ![e] = 0]
            /\ data' = [data EXCEPT ![e] = <<>>]
            /\ mode' = [mode EXCEPT ![e] = "none"]
       ELSE Goto(e, "check") /\ UNCHANGED <<left, data, mode>>
  /\ n' = [n EXCEPT ![e] = 0]
  /\ UNCHANGED <<pos, buf, tmp>>

\* The notification also serves the other direction: it may be raised for it at
\* any time, and consumed by it while this direction is idle.
OtherDirection(e) ==
  /\ \/ alerted' = [alerted EXCEPT ![e] = TRUE]
     \/ pc[e] = "idle" /\ alerted[e] /\ alerted' = [alerted EXCEPT ![e] = FALSE]
  /\ UNCHANGED <<pos, buf, pc, mode, left, n, data, tmp>>

\* A receiver only gives the size of its buffer.
Call(e) == \E m \in {"stream", "packet"}, msg \in Messages : libvchan_readwrite(e, m, msg)

\* What the library does by itself.
Step(e) == \/ Check(e) \/ CheckFilled(e) \/ Wait(e) \/ CopyToEnd(e) \/ CopyWrapped(e)
           \/ Update(e) \/ Alert(e)

Next == \/ \E e \in Ends : Call(e) \/ Step(e) \/ OtherDirection(e)
        \/ libvchan_wait

Spec == Init /\ [][Next]_vars

\* A component that is in the library goes on running.
FairSpec == Spec /\ \A e \in Ends : WF_vars(Step(e))

-----------------------------------------------------------------------------
(* Properties *)

Room(e) == IF e = "send" THEN BufSize - Filled ELSE Filled

\* The state is well typed, and a call accounts for every byte of its size: what
\* is left and what has been moved add up, also after a partial pass.
TypeOK ==
  /\ pos \in [Ends -> -PosLimit .. PosLimit - 1]
  /\ buf \in [0 .. BufSize - 1 -> Byte]
  /\ pc \in [Ends -> {"idle", "check", "wait", "copy", "wrap", "update", "alert"}]
  /\ mode \in [Ends -> Modes]
  /\ left \in [Ends -> Nat]
  /\ n \in [Ends -> 0 .. BufSize]
  /\ data \in [Ends -> Seq(Byte)]
  /\ tmp \in Seq(Byte)
  /\ alerted \in [Ends -> BOOLEAN]
  /\ left["send"] = Len(data["send"])
  /\ left["recv"] + Len(data["recv"]) \in Sizes \cup {0}

\* The fill level is never more than the buffer, also when the positions wrap
\* around, and the room a component has computed is still there when it uses it,
\* whatever its peer has done since (no lock is held).
RoomIsStable ==
  /\ Wrap(pos.send - pos.recv) \in 0 .. BufSize
  /\ \A e \in Ends : pc[e] \in {"copy", "wrap", "update"} => n[e] \in 1 .. Room(e)

\* The slots a component is copying in this pass.
Slots(e) ==
  IF pc[e] \in {"copy", "wrap", "update"} THEN {(pos[e] + k) % BufSize : k \in 0 .. n[e] - 1} ELSE {}

\* No byte is copied by both components at the same time.
CopiesDisjoint == Slots("send") \cap Slots("recv") = {}

\* A component waits without an alert only while there is nothing for it to do,
\* or its peer is just about to alert it.
NoLostAlert ==
  \A e \in Ends :
    pc[e] = "wait" /\ ~alerted[e] /\ Room(e) > 0 => pc[Peer(e)] = "alert"

\* A component that waits although its peer has made room goes on.
WaitEnds == \A e \in Ends : pc[e] = "wait" /\ Room(e) > 0 ~> pc[e] # "wait"

\* The bytes between the two positions.
Contents == [k \in 1 .. Filled |-> buf[(pos.recv + k - 1) % BufSize]]

Fifo == INSTANCE VchanFifo WITH
  Capacity <- BufSize, rest <- data.send, chan <- Contents, got <- data.recv

\* The ring buffer implements a bounded FIFO of bytes: what the receiver's caller
\* gets is what the sender's caller gave, in order and without gaps.
ImplementsFifo == Fifo!FifoSpec
=============================================================================
