---------------------------- MODULE CrossVmProofs -----------------------------
(***************************************************************************)
(* Proofs about what reaches a guest from another component.  Vchan, for   *)
(* every buffer size and every width of the positions: the room a          *)
(* component computed stays there while it uses it, the copies of the two  *)
(* components never meet, no alert is lost, and the ring buffer implements *)
(* the bounded FIFO of VchanFifo.  ArmEvents, for every number of requests,*)
(* connections and counted events: no event of a cross-VM connection or of *)
(* the virtual USB host waits without an interrupt.                        *)
(***************************************************************************)
EXTENDS Vchan, ArmEvents, TLAPS

\* Leaves that name no prover go to Zenon.
USE ZenonT(30)

(* Arithmetic: int positions wrap around. *)

\* No multiple of m lies strictly between -m and m but 0.
LEMMA SmallMultiple ==
  ASSUME NEW m \in Nat \ {0}, NEW q \in Int, -m < m * q, m * q < m
  PROVE  q = 0
<1>1. ASSUME q >= 1 PROVE FALSE
  <2>1. m * q = m + m * (q - 1) /\ m * (q - 1) >= 0
    BY <1>1, SMTT(30)
  <2> QED BY <2>1, SMTT(30)
<1>2. ASSUME q <= -1 PROVE FALSE
  <2>1. m * q = (-m) - m * (-q - 1) /\ m * (-q - 1) >= 0
    BY <1>2, SMTT(30)
  <2> QED BY <2>1, SMTT(30)
<1> QED BY <1>1, <1>2, SMTT(30)

\* What % means.
LEMMA ModDef ==
  ASSUME NEW m \in Nat \ {0}, NEW a \in Int
  PROVE  a % m \in 0 .. m - 1 /\ a = m * (a \div m) + (a % m) /\ a \div m \in Int
BY SMTT(30)

\* A remainder is determined by any quotient.
LEMMA ModUnique ==
  ASSUME NEW m \in Nat \ {0}, NEW a \in Int, NEW q \in Int, NEW r \in 0 .. m - 1,
         a = m * q + r
  PROVE  a % m = r
<1> DEFINE p == a \div m
           s == a % m
<1>1. s \in 0 .. m - 1 /\ a = m * p + s /\ p \in Int
  BY ModDef, SMTT(30)
<1> HIDE DEF p, s
<1>2. m * (p - q) = r - s
  BY <1>1, SMTT(30)
<1>3. p - q = 0
  BY <1>1, <1>2, SmallMultiple, SMTT(30)
<1>4. s = r
  BY <1>1, <1>2, <1>3, SMTT(30)
<1> QED BY <1>4, SMTT(30) DEF s

\* Wrap on the sums and differences of two positions.
LEMMA WrapCases ==
  ASSUME NEW x \in Int
  PROVE  /\ x \in -PosLimit .. PosLimit - 1 => Wrap(x) = x
         /\ x \in PosLimit .. 3 * PosLimit - 1 => Wrap(x) = x - 2 * PosLimit
         /\ x \in -(3 * PosLimit) .. -PosLimit - 1 => Wrap(x) = x + 2 * PosLimit
<1> DEFINE m == 2 * PosLimit
<1>0. m \in Nat \ {0} /\ PosLimit \in Nat
  BY VchanAssumption, SMTT(30)
<1>1. ASSUME x \in -PosLimit .. PosLimit - 1 PROVE (x + PosLimit) % m = x + PosLimit
  <2>1. x + PosLimit = m * 0 + (x + PosLimit) BY <1>0, SMTT(30)
  <2> QED BY <1>0, <1>1, <2>1, ModUnique, SMTT(30)
<1>2. ASSUME x \in PosLimit .. 3 * PosLimit - 1 PROVE (x + PosLimit) % m = x - PosLimit
  <2>1. x + PosLimit = m * 1 + (x - PosLimit) BY <1>0, SMTT(30)
  <2> QED BY <1>0, <1>2, <2>1, ModUnique, SMTT(30)
<1>3. ASSUME x \in -(3 * PosLimit) .. -PosLimit - 1
      PROVE  (x + PosLimit) % m = x + PosLimit + m
  <2>1. x + PosLimit = m * (-1) + (x + PosLimit + m) BY <1>0, SMTT(30)
  <2> QED BY <1>0, <1>3, <2>1, ModUnique, SMTT(30)
<1> QED BY <1>0, <1>1, <1>2, <1>3, SMTT(30) DEF Wrap

PosRange == -PosLimit .. PosLimit - 1

\* Wrap is onto the positions.
LEMMA WrapRange ==
  ASSUME NEW x \in -(2 * PosLimit) .. 2 * PosLimit
  PROVE  Wrap(x) \in PosRange
BY WrapCases, VchanAssumption, SMTT(30) DEF PosRange

\* Moving a position by what there is room for moves the distance by as much.
LEMMA Advance ==
  ASSUME NEW p \in PosRange, NEW q \in PosRange, NEW k \in 0 .. BufSize,
         Wrap(p - q) \in 0 .. BufSize
  PROVE  /\ Wrap(p + k) \in PosRange /\ Wrap(q + k) \in PosRange
         /\ k <= BufSize - Wrap(p - q) => Wrap(Wrap(p + k) - q) = Wrap(p - q) + k
         /\ k <= Wrap(p - q) => Wrap(p - Wrap(q + k)) = Wrap(p - q) - k
<1>0. BufSize \in Nat /\ PosLimit \in Nat /\ BufSize < PosLimit
  BY VchanAssumption, SMTT(30)
<1>1. PICK a \in Int : a = Wrap(p + k)
      /\ (p + k < PosLimit => a = p + k) /\ (p + k >= PosLimit => a = p + k - 2 * PosLimit)
  BY <1>0, WrapCases, SMTT(30) DEF PosRange
<1>2. PICK b \in Int : b = Wrap(q + k)
      /\ (q + k < PosLimit => b = q + k) /\ (q + k >= PosLimit => b = q + k - 2 * PosLimit)
  BY <1>0, WrapCases, SMTT(30) DEF PosRange
<1>3. PICK d \in Int : d = Wrap(p - q)
      /\ ((p - q >= 0 /\ d = p - q) \/ (p - q < 0 /\ d = p - q + 2 * PosLimit))
  <2>1. p - q \in -(2 * PosLimit) + 1 .. 2 * PosLimit - 1
    BY <1>0, SMTT(30) DEF PosRange
  <2> QED BY <1>0, <2>1, WrapCases, SMTT(30)
<1>4. a \in PosRange /\ b \in PosRange
  BY <1>0, <1>1, <1>2, SMTT(30) DEF PosRange
<1>5. ASSUME k <= BufSize - d PROVE Wrap(a - q) = d + k
  <2>1. a - q \in Int /\ (a - q = d + k \/ a - q = d + k - 2 * PosLimit)
    BY <1>0, <1>1, <1>3, <1>4, <1>5, SMTT(30) DEF PosRange
  <2> QED BY <1>0, <1>3, <1>5, <2>1, WrapCases, SMTT(30)
<1>6. ASSUME k <= d PROVE Wrap(p - b) = d - k
  <2>1. p - b \in Int /\ (p - b = d - k \/ p - b = d - k - 2 * PosLimit)
    BY <1>0, <1>2, <1>3, <1>4, <1>6, SMTT(30) DEF PosRange
  <2> QED BY <1>0, <1>3, <1>6, <2>1, WrapCases, SMTT(30)
<1> QED BY <1>1, <1>2, <1>3, <1>4, <1>5, <1>6, SMTT(30)

-----------------------------------------------------------------------------
(* The control of the two calls *)

Dist   == Wrap(pos["send"] - pos["recv"])
Labels == {"idle", "check", "wait", "copy", "wrap", "update", "alert"}
Using  == {"copy", "wrap", "update"}

CtlTypes ==
  /\ pos \in [Ends -> PosRange]
  /\ pc \in [Ends -> Labels]
  /\ mode \in [Ends -> Modes]
  /\ left \in [Ends -> Nat]
  /\ n \in [Ends -> 0 .. BufSize]
  /\ alerted \in [Ends -> BOOLEAN]

\* A component that may come to wait has bytes to move, so that it never waits
\* for a room of zero; only a receiver calls libvchan_wait.
Wants(e) ==
  /\ pc[e] \in {"check", "wait"} /\ mode[e] # "wait" => left[e] > 0
  /\ e = "send" => mode[e] # "wait"

\* What a pass moves is there, and was asked for.
Has(e) == pc[e] \in Using => n[e] \in 1 .. Room(e) /\ n[e] <= left[e]

Hears(e) == pc[e] = "wait" /\ ~alerted[e] /\ Room(e) > 0 => pc[Peer(e)] = "alert"

CtlInv ==
  /\ CtlTypes
  /\ Dist \in 0 .. BufSize
  /\ \A e \in Ends : Wants(e) /\ Has(e) /\ Hears(e)

\* A channel has two ends.
LEMMA EndsFacts ==
  /\ Ends = {"send", "recv"} /\ "send" # "recv"
  /\ Peer("send") = "recv" /\ Peer("recv") = "send"
  /\ \A e \in Ends : Peer(e) \in Ends /\ Peer(e) # e /\ Peer(Peer(e)) = e
                     /\ (\A f \in Ends : f = e \/ f = Peer(e))
BY SMTT(30) DEF Ends, Peer

\* What the two ends find filled and free, from the distance of the positions.
LEMMA RoomIs ==
  ASSUME Dist \in 0 .. BufSize
  PROVE  /\ Filled = Dist
         /\ Room("send") = BufSize - Dist /\ Room("recv") = Dist
         /\ \A e \in Ends : Room(e) \in 0 .. BufSize
<1>0. BufSize \in Nat BY VchanAssumption, SMTT(30)
<1>1. Filled = Abs(Dist) BY SMTT(30) DEF Filled, Dist
<1>2. Filled = Dist BY <1>0, <1>1, SMTT(30) DEF Abs
<1>3. Room("send") = BufSize - Dist /\ Room("recv") = Dist BY <1>2, SMTT(30) DEF Room
<1> QED BY <1>0, <1>2, <1>3, EndsFacts, SMTT(30)

\* The invariant of the positions holds at the start.
LEMMA CtlInit == Init => CtlInv
<1> SUFFICES ASSUME Init PROVE CtlInv BY SMTT(30)
<1>0. BufSize \in Nat \ {0} /\ PosLimit \in Nat /\ BufSize < PosLimit BY VchanAssumption, SMTT(30)
<1>1. CtlTypes BY <1>0, SMTT(30) DEF Init, CtlTypes, PosRange, Labels, Modes
<1>2. pos["send"] = 0 /\ pos["recv"] = 0 BY EndsFacts, SMTT(30) DEF Init
<1>3. Dist = 0
  <2>1. Wrap(0) = 0 BY <1>0, WrapCases, SMTT(30)
  <2> QED BY <1>2, <2>1, SMTT(30) DEF Dist
<1>4. \A e \in Ends : Wants(e) /\ Has(e) /\ Hears(e)
  BY SMTT(30) DEF Init, Wants, Has, Hears, Using
<1> QED BY <1>0, <1>1, <1>3, <1>4, SMTT(30) DEF CtlInv

\* Room is a matter of the positions.
LEMMA RoomKept ==
  ASSUME pos' = pos PROVE Dist' = Dist /\ \A e \in Ends : Room(e)' = Room(e)
BY SMTT(30) DEF Dist, Room, Filled

\* A pass that is done takes its bytes off the component's own room and gives
\* them to its peer.
LEMMA UpdateMoves ==
  ASSUME CtlInv, NEW e \in Ends, Update(e)
  PROVE  /\ pos' \in [Ends -> PosRange]
         /\ Dist' = IF e = "send" THEN Dist + n[e] ELSE Dist - n[e]
         /\ Dist' \in 0 .. BufSize
         /\ Room(Peer(e))' = Room(Peer(e)) + n[e]
         /\ n[e] \in 1 .. Room(e) /\ n[e] <= left[e]
<1>0. /\ BufSize \in Nat
      /\ CtlTypes /\ Dist \in 0 .. BufSize /\ Has(e) /\ pc[e] \in Using
  BY VchanAssumption, SMTT(30) DEF CtlInv, Update, Using
<1>1. n[e] \in 1 .. Room(e) /\ n[e] <= left[e] /\ n[e] \in 0 .. BufSize
  BY <1>0, SMTT(30) DEF Has, CtlTypes
<1>2. pos' = [pos EXCEPT ![e] = Wrap(pos[e] + n[e])] /\ pos \in [Ends -> PosRange]
  BY <1>0, SMTT(30) DEF Update, CtlTypes
<1>3. pos["send"] \in PosRange /\ pos["recv"] \in PosRange
  BY <1>2, EndsFacts, SMTT(30)
<1>4. Wrap(pos[e] + n[e]) \in PosRange
  BY <1>0, <1>1, <1>3, Advance, EndsFacts DEF Dist
<1>5. CASE e = "send"
  <2>1. pos'["send"] = Wrap(pos["send"] + n[e]) /\ pos'["recv"] = pos["recv"]
    BY <1>2, <1>5, EndsFacts
  <2>2. Wrap(Wrap(pos["send"] + n[e]) - pos["recv"]) = Dist + n[e]
    BY <1>0, <1>1, <1>3, <1>5, Advance, RoomIs, SMTT(30) DEF Dist
  <2>3. Dist' = Dist + n[e]
    BY <2>1, <2>2, SMTT(30) DEF Dist
  <2>4. Dist' \in 0 .. BufSize
    BY <1>0, <1>1, <1>5, <2>3, RoomIs, SMTT(30)
  <2>5. Room("recv") = Dist /\ Room("recv")' = Dist'
    BY <1>0, <2>4, RoomIs, SMTT(30) DEF Room, Filled, Abs, Dist
  <2> QED BY <1>1, <1>2, <1>4, <1>5, <2>3, <2>4, <2>5, EndsFacts, SMTT(30)
<1>6. CASE e = "recv"
  <2>1. pos'["recv"] = Wrap(pos["recv"] + n[e]) /\ pos'["send"] = pos["send"]
    BY <1>2, <1>6, EndsFacts
  <2>2. Wrap(pos["send"] - Wrap(pos["recv"] + n[e])) = Dist - n[e]
    BY <1>0, <1>1, <1>3, <1>6, Advance, RoomIs, SMTT(30) DEF Dist
  <2>3. Dist' = Dist - n[e]
    BY <2>1, <2>2, SMTT(30) DEF Dist
  <2>4. Dist' \in 0 .. BufSize
    BY <1>0, <1>1, <1>6, <2>3, RoomIs, SMTT(30)
  <2>5. Room("send") = BufSize - Dist /\ Room("send")' = BufSize - Dist'
    BY <1>0, <2>4, RoomIs, SMTT(30) DEF Room, Filled, Abs, Dist
  <2> QED BY <1>0, <1>1, <1>2, <1>4, <1>6, <2>3, <2>4, <2>5, EndsFacts, SMTT(30)
<1> QED BY <1>5, <1>6, EndsFacts

\* A step of e that leaves the positions and the peer's variables alone keeps
\* what the invariant says of the peer, unless it leaves "alert" silently.
LEMMA PeerKept ==
  ASSUME CtlInv, NEW e \in Ends, NEW f \in Ends, f = Peer(e), pos' = pos,
         pc'[f] = pc[f], mode'[f] = mode[f], left'[f] = left[f], n'[f] = n[f],
         alerted'[f] \/ (alerted'[f] = alerted[f] /\ (pc[e] = "alert" => pc'[e] = "alert"))
  PROVE  Wants(f)' /\ Has(f)' /\ Hears(f)'
<1>1. Wants(f) /\ Has(f) /\ Hears(f) BY SMTT(30) DEF CtlInv
<1>2. Room(f)' = Room(f) BY RoomKept, SMTT(30)
<1>3. Peer(f) = e BY EndsFacts
<1>4. Wants(f)' BY <1>1 DEF Wants
<1>5. Has(f)' BY <1>1, <1>2 DEF Has
<1>6. Hears(f)' BY <1>1, <1>2, <1>3, SMTT(30) DEF Hears
<1> QED BY <1>4, <1>5, <1>6, SMTT(30)

\* It suffices to look at each component.
LEMMA CtlSplit ==
  ASSUME NEW e \in Ends, CtlTypes', Dist' \in 0 .. BufSize,
         Wants(e)' /\ Has(e)' /\ Hears(e)',
         Wants(Peer(e))' /\ Has(Peer(e))' /\ Hears(Peer(e))'
  PROVE  CtlInv'
<1>1. \A f \in Ends : f = e \/ f = Peer(e) BY EndsFacts, SMTT(30)
<1>2. \A f \in Ends : Wants(f)' /\ Has(f)' /\ Hears(f)' BY <1>1, SMTT(30)
<1> QED BY <1>2, SMTT(30) DEF CtlInv

\* A call, of either kind, starts at "check" with something to do.
LEMMA CtlCall ==
  ASSUME CtlInv, NEW e \in Ends, NEW m \in {"stream", "packet"}, NEW msg \in Messages,
         libvchan_readwrite(e, m, msg)
  PROVE  CtlInv'
<1>0. Len(msg) \in Nat \ {0} BY VchanAssumption, SMTT(30)
<1>1. CtlTypes' BY <1>0 DEF CtlInv, CtlTypes, libvchan_readwrite, Goto, Labels, Modes
<1>2. Dist' \in 0 .. BufSize BY RoomKept, SMTT(30) DEF CtlInv, libvchan_readwrite
<1>3. Wants(e)' /\ Has(e)' /\ Hears(e)'
  BY <1>0, SMTT(30) DEF CtlInv, CtlTypes, libvchan_readwrite, Goto, Wants, Has, Hears, Using
<1>4. Wants(Peer(e))' /\ Has(Peer(e))' /\ Hears(Peer(e))'
  BY PeerKept, EndsFacts, SMTT(30) DEF CtlInv, CtlTypes, libvchan_readwrite, Goto
<1> QED BY <1>1, <1>2, <1>3, <1>4, CtlSplit, SMTT(30)

\* A call of libvchan_wait keeps it.
LEMMA CtlWaitCall ==
  ASSUME CtlInv, libvchan_wait PROVE CtlInv'
<1> DEFINE e == "recv"
<1>0. e \in Ends /\ Peer(e) \in Ends /\ Peer(e) # e BY EndsFacts, SMTT(30)
<1>1. CtlTypes' BY DEF CtlInv, CtlTypes, libvchan_wait, Goto, Labels, Modes
<1>2. Dist' \in 0 .. BufSize BY RoomKept DEF CtlInv, libvchan_wait
<1>3. Wants(e)' /\ Has(e)' /\ Hears(e)'
  BY <1>0 DEF CtlInv, CtlTypes, libvchan_wait, Goto, Wants, Has, Hears, Using
<1>4. Wants(Peer(e))' /\ Has(Peer(e))' /\ Hears(Peer(e))'
  BY <1>0, PeerKept, SMTT(30) DEF CtlInv, CtlTypes, libvchan_wait, Goto
<1> QED BY <1>0, <1>1, <1>2, <1>3, <1>4, CtlSplit, SMTT(30)

\* What get_actionsize returns.
LEMMA ActionSize ==
  ASSUME Dist \in 0 .. BufSize, NEW e \in Ends, NEW size \in Nat
  PROVE  /\ get_actionsize(e, size) \in 0 .. Room(e)
         /\ get_actionsize(e, size) <= size
         /\ get_actionsize(e, size) = 0 => Room(e) = 0 \/ size = 0
<1>0. BufSize \in Nat BY VchanAssumption, SMTT(30)
<1>1. Room(e) \in 0 .. BufSize BY RoomIs, SMTT(30)
<1>2. get_actionsize(e, size) = IF Room(e) < size THEN Room(e) ELSE size
  BY SMTT(30) DEF get_actionsize, Room
<1> QED BY <1>0, <1>1, <1>2, SMTT(30)

\* The room is computed; a component that finds none goes on to wait.
LEMMA CtlCheck ==
  ASSUME CtlInv, NEW e \in Ends, Check(e) PROVE CtlInv'
<1> DEFINE size  == IF left[e] < BufSize THEN left[e] ELSE BufSize
           ssize == get_actionsize(e, size)
<1>0. BufSize \in Nat \ {0} /\ left[e] \in Nat /\ Dist \in 0 .. BufSize /\ Wants(e)
  BY VchanAssumption DEF CtlInv, CtlTypes
<1>1. size \in 1 .. BufSize /\ size <= left[e]
  BY <1>0, SMTT(30) DEF Check, Wants
<1>2. /\ ssize \in 0 .. Room(e) /\ ssize <= size /\ ssize \in 0 .. BufSize
      /\ ssize = 0 => Room(e) = 0
  <2> HIDE DEF size
  <2> QED BY <1>0, <1>1, ActionSize, RoomIs, SMTT(30)
<1>3. /\ n' = [n EXCEPT ![e] = ssize]
      /\ pc' = [pc EXCEPT ![e] = IF ssize = 0 THEN "wait" ELSE "copy"]
      /\ pc[e] = "check" /\ mode[e] # "wait"
      /\ UNCHANGED <<pos, mode, left, alerted>>
  BY SMTT(30) DEF Check, Goto
<1> HIDE DEF size, ssize
<1>4. Dist' = Dist /\ Room(e)' = Room(e) BY <1>3, RoomKept
<1>5. CtlTypes' BY <1>2, <1>3 DEF CtlInv, CtlTypes, Labels
<1>6. Wants(e)' BY <1>0, <1>3 DEF Wants, CtlInv, CtlTypes
<1>7. Has(e)'
  <2>1. n'[e] = ssize /\ left'[e] = left[e] /\ (pc'[e] \in Using => ssize # 0)
    BY <1>3, SMTT(30) DEF CtlInv, CtlTypes, Using
  <2>2. Room(e) \in 0 .. BufSize BY <1>0, RoomIs
  <2> QED BY <1>0, <1>1, <1>2, <1>4, <2>1, <2>2, SMTT(30) DEF Has
<1>8. Hears(e)' 
  <2>1. pc'[e] = "wait" => ssize = 0 BY <1>3 DEF CtlInv, CtlTypes
  <2> QED BY <1>2, <1>4, <2>1, SMTT(30) DEF Hears
<1>9. Wants(Peer(e))' /\ Has(Peer(e))' /\ Hears(Peer(e))'
  BY <1>3, PeerKept, EndsFacts DEF CtlInv, CtlTypes
<1> QED BY <1>0, <1>4, <1>5, <1>6, <1>7, <1>8, <1>9, CtlSplit

\* Comparing with what is filled keeps it.
LEMMA CtlCheckFilled ==
  ASSUME CtlInv, NEW e \in Ends, CheckFilled(e) PROVE CtlInv'
<1>0. Dist \in 0 .. BufSize /\ Wants(e) /\ BufSize \in Nat
  BY VchanAssumption, SMTT(30) DEF CtlInv
<1>1. e = "recv" /\ Filled = Room(e)
  BY <1>0, EndsFacts, SMTT(30) DEF CheckFilled, Wants, Room
<1>2. /\ pc' = [pc EXCEPT ![e] = IF Filled = 0 THEN "wait" ELSE "idle"]
      /\ mode' = IF Filled = 0 THEN mode ELSE [mode EXCEPT ![e] = "none"]
      /\ pc[e] = "check" /\ mode[e] = "wait"
      /\ UNCHANGED <<pos, left, n, alerted>>
  BY SMTT(30) DEF CheckFilled, Goto
<1>3. Dist' = Dist /\ Room(e)' = Room(e) BY <1>2, RoomKept
<1>4. CtlTypes' BY <1>2, SMTT(30) DEF CtlInv, CtlTypes, Labels, Modes
<1>5. Wants(e)' /\ Has(e)' /\ Hears(e)'
  <2>1. \/ Filled = 0 /\ pc'[e] = "wait" /\ mode'[e] = "wait"
        \/ pc'[e] = "idle"
    BY <1>2 DEF CtlInv, CtlTypes
  <2> QED BY <1>1, <1>3, <2>1, SMTT(30) DEF Wants, Has, Hears, Using
<1>6. Wants(Peer(e))' /\ Has(Peer(e))' /\ Hears(Peer(e))'
  BY <1>2, PeerKept, EndsFacts, SMTT(30) DEF CtlInv, CtlTypes
<1> QED BY <1>0, <1>3, <1>4, <1>5, <1>6, CtlSplit, SMTT(30)

\* Waiting keeps it.
LEMMA CtlWait ==
  ASSUME CtlInv, NEW e \in Ends, Wait(e) PROVE CtlInv'
<1>1. /\ pc' = [pc EXCEPT ![e] = "check"] /\ alerted' = [alerted EXCEPT ![e] = FALSE]
      /\ pc[e] = "wait" /\ UNCHANGED <<pos, mode, left, n>>
  BY SMTT(30) DEF Wait, Goto
<1>2. Dist' \in 0 .. BufSize BY <1>1, RoomKept DEF CtlInv
<1>3. CtlTypes' BY <1>1 DEF CtlInv, CtlTypes, Labels
<1>4. Wants(e)' /\ Has(e)' /\ Hears(e)'
  BY <1>1, SMTT(30) DEF CtlInv, CtlTypes, Wants, Has, Hears, Using
<1>5. Wants(Peer(e))' /\ Has(Peer(e))' /\ Hears(Peer(e))'
  BY <1>1, PeerKept, EndsFacts DEF CtlInv, CtlTypes
<1> QED BY <1>2, <1>3, <1>4, <1>5, CtlSplit

\* The copies change neither a position nor what is to be moved.
LEMMA CtlCopy ==
  ASSUME CtlInv, NEW e \in Ends, CopyToEnd(e) \/ CopyWrapped(e) PROVE CtlInv'
<1>1. PICK l \in Using :
        /\ pc' = [pc EXCEPT ![e] = l] /\ pc[e] \in Using
        /\ UNCHANGED <<pos, mode, left, n, alerted>>
  BY SMTT(30) DEF CopyToEnd, CopyWrapped, Goto, Using
<1>2. Dist' \in 0 .. BufSize /\ Room(e)' = Room(e) BY <1>1, RoomKept DEF CtlInv
<1>3. CtlTypes' BY <1>1, SMTT(30) DEF CtlInv, CtlTypes, Labels, Using
<1>4. pc'[e] = l /\ l # "wait" /\ l # "check" BY <1>1 DEF CtlInv, CtlTypes, Using
<1>5. Wants(e)' /\ Has(e)' /\ Hears(e)'
  BY <1>1, <1>2, <1>4 DEF CtlInv, Wants, Has, Hears
<1>6. Wants(Peer(e))' /\ Has(Peer(e))' /\ Hears(Peer(e))'
  BY <1>1, PeerKept, EndsFacts DEF CtlInv, CtlTypes, Using
<1> QED BY <1>2, <1>3, <1>5, <1>6, CtlSplit

\* The one step that moves a position: the peer's room grows, and the alert that
\* tells it so is due.
LEMMA CtlUpdate ==
  ASSUME CtlInv, NEW e \in Ends, Update(e) PROVE CtlInv'
<1> DEFINE f == Peer(e)
<1>0. BufSize \in Nat /\ f \in Ends /\ f # e /\ Peer(f) = e /\ CtlTypes /\ Dist \in 0 .. BufSize
      /\ Wants(e) /\ Wants(f) /\ Has(f)
  BY VchanAssumption, EndsFacts DEF CtlInv
<1>1. /\ pos' \in [Ends -> PosRange] /\ Dist' \in 0 .. BufSize
      /\ Room(f)' = Room(f) + n[e] /\ n[e] \in 1 .. Room(e) /\ n[e] <= left[e]
  BY UpdateMoves
<1>2. /\ pc' = [pc EXCEPT ![e] = "alert"] /\ left' = [left EXCEPT ![e] = left[e] - n[e]]
      /\ UNCHANGED <<mode, n, alerted>>
  BY DEF Update, Goto
<1>3. left[e] \in Nat /\ n[e] \in Nat /\ Room(e) \in Nat /\ Room(f) \in Nat
  BY <1>0, RoomIs, SMTT(30) DEF CtlTypes
<1>4. CtlTypes' BY <1>0, <1>1, <1>2, <1>3, SMTT(30) DEF CtlTypes, Labels
<1>5. Wants(e)' /\ Has(e)' /\ Hears(e)'
  BY <1>0, <1>2 DEF CtlTypes, Wants, Has, Hears, Using
<1>6. pc'[f] = pc[f] /\ mode'[f] = mode[f] /\ left'[f] = left[f] /\ n'[f] = n[f] /\ pc'[e] = "alert"
  BY <1>0, <1>2 DEF CtlTypes
<1> HIDE DEF f
<1>7. Wants(f)' BY <1>0, <1>6 DEF Wants
<1>8. Has(f)' BY <1>0, <1>1, <1>3, <1>6, SMTT(30) DEF Has
<1>9. Hears(f)' BY <1>0, <1>6 DEF Hears
<1> QED BY <1>1, <1>4, <1>5, <1>7, <1>8, <1>9, CtlSplit DEF f

\* The alert reaches the peer before the component leaves "alert".
LEMMA CtlAlert ==
  ASSUME CtlInv, NEW e \in Ends, Alert(e) PROVE CtlInv'
<1>0. BufSize \in Nat /\ Peer(e) \in Ends /\ Peer(e) # e /\ CtlTypes /\ Wants(e)
  BY VchanAssumption, EndsFacts, SMTT(30) DEF CtlInv
<1>1. /\ pos' = pos /\ n' = [n EXCEPT ![e] = 0]
      /\ alerted' = [alerted EXCEPT ![Peer(e)] = TRUE]
      /\ \/ /\ pc' = [pc EXCEPT ![e] = "idle"] /\ left' = [left EXCEPT ![e] = 0]
            /\ mode' = [mode EXCEPT ![e] = "none"]
         \/ left[e] # 0 /\ pc' = [pc EXCEPT ![e] = "check"] /\ UNCHANGED <<left, mode>>
  BY SMTT(30) DEF Alert, Goto
<1>2. Dist' \in 0 .. BufSize BY <1>1, RoomKept DEF CtlInv
<1>3. CtlTypes' BY <1>0, <1>1, SMTT(30) DEF CtlTypes, Labels, Modes
<1>4. Wants(e)' /\ Has(e)' /\ Hears(e)'
  BY <1>0, <1>1, SMTT(30) DEF CtlTypes, Wants, Has, Hears, Using
<1>5. Wants(Peer(e))' /\ Has(Peer(e))' /\ Hears(Peer(e))'
  BY <1>0, <1>1, PeerKept DEF CtlTypes
<1> QED BY <1>2, <1>3, <1>4, <1>5, CtlSplit, SMTT(30)

\* Traffic in the other direction keeps it.
LEMMA CtlOther ==
  ASSUME CtlInv, NEW e \in Ends, OtherDirection(e) PROVE CtlInv'
<1>1. /\ UNCHANGED <<pos, pc, mode, left, n>>
      /\ \/ alerted' = [alerted EXCEPT ![e] = TRUE]
         \/ pc[e] = "idle" /\ alerted' = [alerted EXCEPT ![e] = FALSE]
  BY SMTT(30) DEF OtherDirection
<1>2. Dist' \in 0 .. BufSize /\ Room(e)' = Room(e) BY <1>1, RoomKept, SMTT(30) DEF CtlInv
<1>3. CtlTypes' BY <1>1 DEF CtlInv, CtlTypes
<1>4. Wants(e)' /\ Has(e)' /\ Hears(e)'
  BY <1>1, <1>2 DEF CtlInv, CtlTypes, Wants, Has, Hears
<1>5. Wants(Peer(e))' /\ Has(Peer(e))' /\ Hears(Peer(e))'
  BY <1>1, PeerKept, EndsFacts, SMTT(30) DEF CtlInv, CtlTypes
<1> QED BY <1>2, <1>3, <1>4, <1>5, CtlSplit

\* Every step keeps it.
LEMMA CtlNext == CtlInv /\ [Next]_vars => CtlInv'
<1> SUFFICES ASSUME CtlInv, [Next]_vars PROVE CtlInv' BY SMTT(30)
<1>1. ASSUME NEW e \in Ends, Call(e) PROVE CtlInv' BY <1>1, CtlCall, SMTT(30) DEF Call
<1>2. ASSUME NEW e \in Ends, Step(e) PROVE CtlInv'
  BY <1>2, CtlCheck, CtlCheckFilled, CtlWait, CtlCopy, CtlUpdate, CtlAlert, SMTT(30) DEF Step
<1>3. ASSUME NEW e \in Ends, OtherDirection(e) PROVE CtlInv' BY <1>3, CtlOther
<1>4. ASSUME UNCHANGED vars PROVE CtlInv'
  BY <1>4, SMTT(30) DEF vars, CtlInv, CtlTypes, Dist, Wants, Has, Hears, Room, Filled
<1> QED BY <1>1, <1>2, <1>3, <1>4, CtlWaitCall, SMTT(30) DEF Next

\* So it always holds.
LEMMA CtlCorrect == Spec => []CtlInv
BY CtlInit, CtlNext, PTL DEF Spec

-----------------------------------------------------------------------------
(* The ring *)

\* Two positions at a distance that is neither 0 nor a whole buffer are in
\* different slots.
LEMMA SlotsDiffer ==
  ASSUME NEW x \in Int, NEW y \in Int, NEW d \in 1 .. BufSize - 1, NEW c \in Int,
         x - y = d + BufSize * c
  PROVE  x % BufSize # y % BufSize
<1>0. BufSize \in Nat \ {0} BY VchanAssumption, SMTT(30)
<1> DEFINE p == x \div BufSize
           q == y \div BufSize
           r == x % BufSize
           s == y % BufSize
<1>1. /\ p \in Int /\ r \in Int /\ x = BufSize * p + r
      /\ q \in Int /\ s \in Int /\ y = BufSize * q + s
  BY <1>0, ModDef, SMTT(30)
<1> HIDE DEF p, q, r, s
<1> SUFFICES ASSUME r = s PROVE FALSE BY DEF r, s
<1>2. BufSize * (p - q - c) = d BY <1>0, <1>1, SMTT(30)
<1>3. p - q - c = 0 BY <1>0, <1>1, <1>2, SmallMultiple, SMTT(30)
<1> QED BY <1>0, <1>2, <1>3, SMTT(30)

\* The width of a position is a whole number of buffers.
LEMMA PosLimitIs == \E w \in Int : PosLimit = BufSize * w
<1>1. BufSize \in Nat \ {0} /\ PosLimit \in Int /\ PosLimit % BufSize = 0
  BY VchanAssumption, SMTT(30)
<1>2. PosLimit \div BufSize \in Int /\ PosLimit = BufSize * (PosLimit \div BufSize)
  BY <1>1, ModDef, SMTT(30)
<1> QED BY <1>2, SMTT(30)

\* The sender is Dist bytes ahead of the receiver, up to whole buffers.
LEMMA Ahead ==
  ASSUME CtlInv
  PROVE  \E c \in Int : pos["send"] - pos["recv"] = Dist + BufSize * c
<1>0. BufSize \in Nat \ {0} /\ PosLimit \in Nat \ {0} BY VchanAssumption, SMTT(30)
<1>1. pos["send"] \in PosRange /\ pos["recv"] \in PosRange
  BY EndsFacts, SMTT(30) DEF CtlInv, CtlTypes
<1> DEFINE x == pos["send"] - pos["recv"]
<1>2. x \in -(2 * PosLimit) .. 2 * PosLimit BY <1>0, <1>1, SMTT(30) DEF PosRange
<1> HIDE DEF x
<1>3. x = Wrap(x) \/ x = Wrap(x) + 2 * PosLimit \/ x = Wrap(x) - 2 * PosLimit
  <2>1. Wrap(x) \in Int /\ x \in Int BY <1>0, <1>2, WrapRange, SMTT(30) DEF PosRange
  <2> QED BY <1>0, <1>2, <2>1, WrapCases, SMTT(30)
<1>4. PICK w \in Int : PosLimit = BufSize * w BY PosLimitIs, SMTT(30)
<1>5. Dist = Wrap(x) /\ Dist \in Int BY <1>0, SMTT(30) DEF Dist, x, CtlInv
<1>6. x = Dist + BufSize * 0 \/ x = Dist + BufSize * (2 * w) \/ x = Dist + BufSize * (-2 * w)
  BY <1>0, <1>3, <1>4, <1>5, SMTT(30)
<1>7. \E c \in Int : x = Dist + BufSize * c BY <1>6, SMTT(30)
<1> QED BY <1>7, SMTT(30) DEF x

\* The two ends never copy the same bytes at once.
LEMMA CtlDisjoint == CtlInv => CopiesDisjoint
<1> SUFFICES ASSUME CtlInv,
                    NEW i \in Slots("send"), i \in Slots("recv")
             PROVE  FALSE
  BY SMTT(30) DEF CopiesDisjoint
<1>0. BufSize \in Nat \ {0} /\ Dist \in 0 .. BufSize BY VchanAssumption DEF CtlInv
<1>1. pc["send"] \in Using /\ pc["recv"] \in Using BY DEF Slots, Using
<1>2. n["send"] \in 1 .. BufSize - Dist /\ n["recv"] \in 1 .. Dist
  BY <1>0, <1>1, RoomIs, EndsFacts DEF CtlInv, Has
<1>3. PICK k \in 0 .. n["send"] - 1 : i = (pos["send"] + k) % BufSize
  BY SMTT(30) DEF Slots
<1>4. PICK j \in 0 .. n["recv"] - 1 : i = (pos["recv"] + j) % BufSize
  BY SMTT(30) DEF Slots
<1>5. PICK c \in Int : pos["send"] - pos["recv"] = Dist + BufSize * c BY Ahead
<1>6. pos["send"] \in Int /\ pos["recv"] \in Int
  BY EndsFacts, VchanAssumption, SMTT(30) DEF CtlInv, CtlTypes, PosRange
<1>7. Dist + k - j \in 1 .. BufSize - 1 BY <1>0, <1>2, SMTT(30)
<1>8. (pos["send"] + k) - (pos["recv"] + j) = (Dist + k - j) + BufSize * c
  BY <1>0, <1>2, <1>5, <1>6, SMTT(30)
<1>9. (pos["send"] + k) % BufSize # (pos["recv"] + j) % BufSize
  BY <1>2, <1>6, <1>7, <1>8, SlotsDiffer, SMTT(30)
<1> QED BY <1>3, <1>4, <1>9, SMTT(30)

-----------------------------------------------------------------------------
(* Theorems *)

\* For every buffer size and every width of the positions, what get_actionsize
\* found before the copies is still there when the position is moved, and the
\* fill level stays within the buffer.
THEOREM RoomIsStableCorrect == Spec => []RoomIsStable
<1>1. CtlInv => RoomIsStable
  BY DEF CtlInv, RoomIsStable, Dist, Has, Using
<1> QED BY <1>1, CtlCorrect, PTL

\* The memcpys of the two components never touch the same byte at the same time.
THEOREM CopiesDisjointCorrect == Spec => []CopiesDisjoint
BY CtlDisjoint, CtlCorrect, PTL

\* con->wait() is never entered, or slept through, with work to do and no alert
\* on its way.
THEOREM NoLostAlertCorrect == Spec => []NoLostAlert
<1>1. CtlInv => NoLostAlert
  BY SMTT(30) DEF CtlInv, NoLostAlert, Hears
<1> QED BY <1>1, CtlCorrect, PTL

(***************************************************************************)
(* The bytes: the ring buffer of Vchan implements the bounded FIFO of      *)
(* VchanFifo for every buffer size, width of the positions and message.    *)
(***************************************************************************)
(* Slots of the ring *)

\* The byte at a position.
Ring(x) == buf[x % BufSize]

\* The ring and the range of positions have members.
LEMMA SizeFacts == BufSize \in Nat \ {0} /\ PosLimit \in Nat \ {0}
BY VchanAssumption, SMTT(30)

\* A position has a slot of the ring.
LEMMA SlotRange ==
  ASSUME NEW x \in Int PROVE x % BufSize \in 0 .. BufSize - 1
BY SizeFacts, ModDef, SMTT(30)

\* Positions whole buffers apart share a slot.
LEMMA SameSlot ==
  ASSUME NEW x \in Int, NEW y \in Int, NEW c \in Int, x - y = BufSize * c
  PROVE  x % BufSize = y % BufSize
<1> DEFINE q == y \div BufSize
           s == y % BufSize
<1>1. q \in Int /\ s \in 0 .. BufSize - 1 /\ y = BufSize * q + s
  BY SizeFacts, ModDef, SMTT(30)
<1> HIDE DEF q, s
<1>2. x = BufSize * (q + c) + s BY <1>1, SizeFacts, SMTT(30)
<1>3. x % BufSize = s BY <1>1, <1>2, SizeFacts, ModUnique, SMTT(30)
<1> QED BY <1>3 DEF s

\* Wrapping a position around keeps the slots that follow it.
LEMMA WrapSlot ==
  ASSUME NEW x \in -(2 * PosLimit) .. 2 * PosLimit, NEW k \in Int
  PROVE  (Wrap(x) + k) % BufSize = (x + k) % BufSize
<1>1. Wrap(x) \in Int /\ x \in Int BY SizeFacts, WrapRange, SMTT(30) DEF PosRange
<1>2. x = Wrap(x) \/ x = Wrap(x) + 2 * PosLimit \/ x = Wrap(x) - 2 * PosLimit
  BY <1>1, SizeFacts, WrapCases, SMTT(30)
<1>3. PICK w \in Int : PosLimit = BufSize * w BY PosLimitIs
<1>4. \E c \in Int : (Wrap(x) + k) - (x + k) = BufSize * c
  <2>1. \/ (Wrap(x) + k) - (x + k) = BufSize * 0
        \/ (Wrap(x) + k) - (x + k) = BufSize * (2 * w)
        \/ (Wrap(x) + k) - (x + k) = BufSize * (-2 * w)
    BY <1>1, <1>2, <1>3, SizeFacts, SMTT(30)
  <2> QED BY <2>1, SMTT(30)
<1> QED BY <1>1, <1>4, SameSlot, SMTT(30)

\* The slots of a pass: up to the end of the buffer, then from its start.
LEMMA PassSlots ==
  ASSUME NEW p \in Int, NEW k \in 0 .. BufSize, NEW r \in Int,
         r = IF (p % BufSize) + k > BufSize THEN (p % BufSize) + k - BufSize ELSE 0
  PROVE  /\ r \in 0 .. k /\ r <= p % BufSize /\ (p % BufSize) + (k - r) <= BufSize
         /\ \A i \in 1 .. k - r : (p + i - 1) % BufSize = (p % BufSize) + i - 1
         /\ \A i \in k - r + 1 .. k : (p + i - 1) % BufSize = i - 1 - (k - r)
<1> DEFINE q == p \div BufSize
           s == p % BufSize
<1>1. q \in Int /\ s \in 0 .. BufSize - 1 /\ p = BufSize * q + s
  BY SizeFacts, ModDef
<1>2. r = IF s + k > BufSize THEN s + k - BufSize ELSE 0 OBVIOUS
<1> HIDE DEF q, s
<1>3. r \in 0 .. k /\ r <= s /\ s + (k - r) <= BufSize BY <1>1, <1>2, SizeFacts, SMTT(30)
<1>4. ASSUME NEW i \in 1 .. k - r PROVE (p + i - 1) % BufSize = s + i - 1
  <2>1. p + i - 1 = BufSize * q + (s + i - 1) BY <1>1, <1>3, SizeFacts, SMTT(30)
  <2>2. s + i - 1 \in 0 .. BufSize - 1 /\ p + i - 1 \in Int BY <1>1, <1>3, SizeFacts, SMTT(30)
  <2> QED BY <1>1, <2>1, <2>2, SizeFacts, ModUnique
<1>5. ASSUME NEW i \in k - r + 1 .. k PROVE (p + i - 1) % BufSize = i - 1 - (k - r)
  <2>1. r > 0 /\ k - r = BufSize - s BY <1>1, <1>2, <1>3, SizeFacts, SMTT(30)
  <2>2. p + i - 1 = BufSize * (q + 1) + (i - 1 - (k - r)) BY <1>1, <2>1, SizeFacts, SMTT(30)
  <2>3. i - 1 - (k - r) \in 0 .. BufSize - 1 /\ p + i - 1 \in Int /\ q + 1 \in Int
    BY <1>1, <1>3, <2>1, SizeFacts, SMTT(30)
  <2> DEFINE t == i - 1 - (k - r)
             a == p + i - 1
             u == q + 1
  <2>4. t \in 0 .. BufSize - 1 /\ a \in Int /\ u \in Int /\ a = BufSize * u + t BY <2>2, <2>3, SMTT(30)
  <2> HIDE DEF t, a, u
  <2>5. a % BufSize = t BY <2>4, SizeFacts, ModUnique
  <2> QED BY <2>5 DEF a, t
<1> QED BY <1>3, <1>4, <1>5, SMTT(30) DEF s

-----------------------------------------------------------------------------
(* The bytes of a pass *)

\* How much of its pass a component has copied.
Moved(e) == IF pc[e] = "wrap" THEN n[e] - Remain(e) ELSE IF pc[e] = "update" THEN n[e] ELSE 0

DataTypes ==
  /\ buf \in [0 .. BufSize - 1 -> Byte]
  /\ data \in [Ends -> Seq(Byte)]
  /\ tmp \in Seq(Byte)

\* The sender's bytes are in the ring before its position says so.
SendData ==
  /\ left["send"] = Len(data["send"])
  /\ \A i \in 1 .. Moved("send") : Ring(pos["send"] + i - 1) = data["send"][i]

\* The receiver's bytes are those after its position.
RecvData ==
  /\ left["recv"] + Len(data["recv"]) \in Sizes \cup {0}
  /\ Len(tmp) = Moved("recv")
  /\ \A i \in 1 .. Moved("recv") : tmp[i] = Ring(pos["recv"] + i - 1)

DataInv == CtlInv /\ DataTypes /\ SendData /\ RecvData

\* The facts about a component in a pass that the copies need.
LEMMA PassFacts ==
  ASSUME CtlInv, NEW e \in Ends
  PROVE  /\ pos[e] \in Int /\ pos[e] \in PosRange /\ n[e] \in 0 .. BufSize /\ left[e] \in Nat
         /\ Start(e) = pos[e] % BufSize /\ Start(e) \in 0 .. BufSize - 1
         /\ Remain(e) \in 0 .. n[e] /\ Remain(e) <= Start(e)
         /\ Start(e) + (n[e] - Remain(e)) <= BufSize
         /\ Moved(e) \in 0 .. n[e]
         /\ \A i \in 1 .. n[e] - Remain(e) : (pos[e] + i - 1) % BufSize = Start(e) + i - 1
         /\ \A i \in n[e] - Remain(e) + 1 .. n[e] :
              (pos[e] + i - 1) % BufSize = i - 1 - (n[e] - Remain(e))
<1>1. pos[e] \in PosRange /\ n[e] \in 0 .. BufSize /\ left[e] \in Nat
  BY DEF CtlInv, CtlTypes
<1>2. pos[e] \in Int BY <1>1, SizeFacts, SMTT(30) DEF PosRange
<1>3. Start(e) = pos[e] % BufSize /\ Start(e) \in 0 .. BufSize - 1
  BY <1>2, SlotRange DEF Start
<1> DEFINE r == Remain(e)
<1>4. r = (IF (pos[e] % BufSize) + n[e] > BufSize
             THEN (pos[e] % BufSize) + n[e] - BufSize ELSE 0)
  BY <1>3 DEF Remain
<1>5. r \in Int BY <1>1, <1>3, <1>4, SizeFacts, SMTT(30)
<1> HIDE DEF r
<1>6. /\ r \in 0 .. n[e] /\ r <= Start(e) /\ Start(e) + (n[e] - r) <= BufSize
      /\ \A i \in 1 .. n[e] - r : (pos[e] + i - 1) % BufSize = Start(e) + i - 1
      /\ \A i \in n[e] - r + 1 .. n[e] : (pos[e] + i - 1) % BufSize = i - 1 - (n[e] - r)
  BY <1>1, <1>2, <1>3, <1>4, <1>5, PassSlots, SMTT(30)
<1>7. Moved(e) \in 0 .. n[e] BY <1>1, <1>6, SizeFacts, SMTT(30) DEF Moved, r
<1> QED BY <1>1, <1>2, <1>3, <1>6, <1>7 DEF r

\* No slot of the sender's pass holds a byte under way.
LEMMA PassIsFree ==
  ASSUME CtlInv, pc["send"] \in Using, NEW i \in 1 .. n["send"], NEW j \in 1 .. Dist
  PROVE  (pos["send"] + i - 1) % BufSize # (pos["recv"] + j - 1) % BufSize
<1>0. BufSize \in Nat \ {0} /\ Dist \in 0 .. BufSize BY SizeFacts DEF CtlInv
<1>1. n["send"] \in 1 .. BufSize - Dist
  BY <1>0, RoomIs, EndsFacts, SMTT(30) DEF CtlInv, Has
<1>2. PICK c \in Int : pos["send"] - pos["recv"] = Dist + BufSize * c BY Ahead
<1>3. pos["send"] \in Int /\ pos["recv"] \in Int BY PassFacts, EndsFacts
<1> DEFINE x == pos["send"] + i - 1
           y == pos["recv"] + j - 1
           d == Dist + i - j
<1>4. x \in Int /\ y \in Int /\ d \in 1 .. BufSize - 1 BY <1>0, <1>1, <1>3, SMTT(30)
<1>5. x - y = d + BufSize * c BY <1>0, <1>1, <1>2, <1>3, SMTT(30)
<1> HIDE DEF x, y, d
<1>6. x % BufSize # y % BufSize BY <1>4, <1>5, SlotsDiffer
<1> QED BY <1>6, SMTT(30) DEF x, y

\* How much is copied after each of the two copies of a pass.
LEMMA CopyMoves ==
  ASSUME CtlInv, NEW e \in Ends
  PROVE  /\ CopyToEnd(e) => Moved(e) = 0 /\ Moved(e)' = n[e] - Remain(e)
         /\ CopyWrapped(e) => Moved(e) = n[e] - Remain(e) /\ Moved(e)' = n[e]
<1>1. n[e] \in Int /\ pc \in [Ends -> Labels] BY SizeFacts, SMTT(30) DEF CtlInv, CtlTypes
<1>2. ASSUME CopyToEnd(e) PROVE Moved(e) = 0 /\ Moved(e)' = n[e] - Remain(e)
  <2>1. n' = n /\ Remain(e)' = Remain(e) /\ pc[e] = "copy" BY <1>2, SMTT(30) DEF CopyToEnd, Remain, Start
  <2>2. pc'[e] = IF Remain(e) = 0 THEN "update" ELSE "wrap" BY <1>1, <1>2 DEF CopyToEnd, Goto
  <2> QED BY <1>1, <2>1, <2>2, SMTT(30) DEF Moved
<1>3. ASSUME CopyWrapped(e) PROVE Moved(e) = n[e] - Remain(e) /\ Moved(e)' = n[e]
  <2>1. n' = n /\ pc[e] = "wrap" BY <1>3 DEF CopyWrapped
  <2>2. pc'[e] = "update" BY <1>1, <1>3 DEF CopyWrapped, Goto
  <2> QED BY <1>1, <2>1, <2>2 DEF Moved
<1> QED BY <1>2, <1>3

\* The sender's copies put its bytes where its position will pass, and leave the
\* bytes under way alone.
LEMMA SendCopies ==
  ASSUME DataInv, CopyToEnd("send") \/ CopyWrapped("send")
  PROVE  /\ buf' \in [0 .. BufSize - 1 -> Byte] /\ tmp' = tmp
         /\ \A i \in 1 .. Moved("send")' : buf'[(pos["send"] + i - 1) % BufSize] = data["send"][i]
         /\ \A j \in 1 .. Dist : buf'[(pos["recv"] + j - 1) % BufSize] = Ring(pos["recv"] + j - 1)
<1> DEFINE p == pos["send"]
           k == n["send"]
           r == Remain("send")
           s == Start("send")
           d == data["send"]
<1>0. "send" \in Ends /\ "recv" \in Ends /\ BufSize \in Nat \ {0} BY EndsFacts, SizeFacts
<1>1. /\ p \in Int /\ k \in 0 .. BufSize /\ s \in 0 .. BufSize - 1 /\ r \in 0 .. k /\ r <= s
      /\ s + (k - r) <= BufSize
      /\ \A i \in 1 .. k - r : (p + i - 1) % BufSize = s + i - 1
      /\ \A i \in k - r + 1 .. k : (p + i - 1) % BufSize = i - 1 - (k - r)
  BY <1>0, PassFacts DEF DataInv
<1>2. pc["send"] \in Using /\ k <= Len(d)
  <2>1. pc["send"] \in Using BY SMTT(30) DEF CopyToEnd, CopyWrapped, Using
  <2> QED BY <1>0, <2>1 DEF DataInv, CtlInv, Has, SendData
<1>3. buf \in [0 .. BufSize - 1 -> Byte] /\ d \in Seq(Byte) BY <1>0 DEF DataInv, DataTypes
<1>4. \A j \in 1 .. Dist : pos["recv"] + j - 1 \in Int
  BY <1>0, PassFacts, SMTT(30) DEF DataInv, CtlInv
<1>5. CASE CopyToEnd("send")
  <2>1. /\ buf' = [i \in DOMAIN buf |-> IF i \in s .. s + (k - r) - 1 THEN d[1 + i - s] ELSE buf[i]]
        /\ tmp' = tmp
    BY <1>5 DEF CopyToEnd, Copy
  <2>2. Moved("send")' = k - r BY <1>0, <1>5, CopyMoves DEF DataInv
  <2> HIDE DEF p, k, r, s, d
  <2>3. buf' \in [0 .. BufSize - 1 -> Byte]
    <3>1. \A i \in 0 .. BufSize - 1 : i \in s .. s + (k - r) - 1 => 1 + i - s \in 1 .. Len(d)
      BY <1>0, <1>1, <1>2, SMTT(30)
    <3>2. \A i \in 1 .. Len(d) : d[i] \in Byte BY <1>3, SMTT(30)
    <3> QED BY <1>3, <2>1, <3>1, <3>2
  <2>4. ASSUME NEW i \in 1 .. k - r PROVE buf'[(p + i - 1) % BufSize] = d[i]
    <3>1. /\ (p + i - 1) % BufSize = s + i - 1 /\ s + i - 1 \in 0 .. BufSize - 1
          /\ s + i - 1 \in s .. s + (k - r) - 1 /\ 1 + (s + i - 1) - s = i
      BY <1>0, <1>1, SMTT(30)
    <3> QED BY <1>3, <2>1, <3>1
  <2>5. ASSUME NEW j \in 1 .. Dist
        PROVE  buf'[(pos["recv"] + j - 1) % BufSize] = buf[(pos["recv"] + j - 1) % BufSize]
    <3> DEFINE y == (pos["recv"] + j - 1) % BufSize
    <3>1. y \in 0 .. BufSize - 1 BY <1>4, SlotRange
    <3>2. \A i \in 1 .. k : (p + i - 1) % BufSize # y BY <1>2, PassIsFree, SMTT(30) DEF DataInv, p, k
    <3> HIDE DEF y
    <3>3. ASSUME y \in s .. s + (k - r) - 1 PROVE FALSE
      <4>1. y - s + 1 \in 1 .. k - r /\ y - s + 1 \in 1 .. k /\ s + (y - s + 1) - 1 = y
        BY <1>0, <1>1, <3>1, <3>3, SMTT(30)
      <4> QED BY <1>1, <3>2, <4>1
    <3>4. buf'[y] = buf[y] BY <1>3, <2>1, <3>1, <3>3
    <3> QED BY <3>4, SMTT(30) DEF y
  <2> QED BY <2>1, <2>2, <2>3, <2>4, <2>5 DEF p, d, Ring
<1>6. CASE CopyWrapped("send")
  <2>1. /\ buf' = [i \in DOMAIN buf |-> IF i \in 0 .. 0 + r - 1 THEN d[(k - r + 1) + i - 0] ELSE buf[i]]
        /\ tmp' = tmp
    BY <1>6 DEF CopyWrapped, Copy
  <2>2. Moved("send")' = k /\ Moved("send") = k - r BY <1>0, <1>6, CopyMoves DEF DataInv
  <2>3. \A i \in 1 .. k - r : buf[(p + i - 1) % BufSize] = d[i]
    BY <2>2 DEF DataInv, SendData, Ring
  <2> HIDE DEF p, k, r, s, d
  <2>4. buf' \in [0 .. BufSize - 1 -> Byte]
    <3>1. \A i \in 0 .. BufSize - 1 : i \in 0 .. 0 + r - 1 => (k - r + 1) + i - 0 \in 1 .. Len(d)
      BY <1>0, <1>1, <1>2, SMTT(30)
    <3>2. \A i \in 1 .. Len(d) : d[i] \in Byte BY <1>3, SMTT(30)
    <3> QED BY <1>3, <2>1, <3>1, <3>2
  <2>5. ASSUME NEW i \in 1 .. k PROVE buf'[(p + i - 1) % BufSize] = d[i]
    <3>1. CASE i \in 1 .. k - r
      <4>1. (p + i - 1) % BufSize = s + i - 1 /\ s + i - 1 \in 0 .. BufSize - 1
            /\ s + i - 1 \notin 0 .. 0 + r - 1
        BY <1>0, <1>1, <3>1, SMTT(30)
      <4> QED BY <1>3, <2>1, <2>3, <3>1, <4>1
    <3>2. CASE i \in k - r + 1 .. k
      <4> DEFINE t == i - 1 - (k - r)
      <4>1. (p + i - 1) % BufSize = t BY <1>1, <3>2
      <4>2. t \in 0 .. BufSize - 1 /\ t \in 0 .. 0 + r - 1 /\ (k - r + 1) + t - 0 = i
        <5>1. k \in Int /\ r \in Int /\ s \in Int /\ i \in Int /\ i <= k /\ i >= k - r + 1 /\ r <= s /\ s < BufSize
          BY <1>0, <1>1, <3>2, SMTT(30)
        <5> QED BY <1>0, <5>1, SMTT(30)
      <4> HIDE DEF t
      <4> QED BY <1>3, <2>1, <4>1, <4>2
    <3> QED BY <1>1, <3>1, <3>2, SMTT(30)
  <2>6. ASSUME NEW j \in 1 .. Dist
        PROVE  buf'[(pos["recv"] + j - 1) % BufSize] = buf[(pos["recv"] + j - 1) % BufSize]
    <3> DEFINE y == (pos["recv"] + j - 1) % BufSize
    <3>1. y \in 0 .. BufSize - 1 BY <1>4, SlotRange, SMTT(30)
    <3>2. \A i \in 1 .. k : (p + i - 1) % BufSize # y BY <1>2, PassIsFree, SMTT(30) DEF DataInv, p, k
    <3> HIDE DEF y
    <3>3. ASSUME y \in 0 .. 0 + r - 1 PROVE FALSE
      <4>1. y + (k - r) + 1 \in k - r + 1 .. k /\ y + (k - r) + 1 \in 1 .. k
            /\ (y + (k - r) + 1) - 1 - (k - r) = y
        BY <1>0, <1>1, <3>1, <3>3, SMTT(30)
      <4> QED BY <1>1, <3>2, <4>1
    <3>4. buf'[y] = buf[y] BY <1>3, <2>1, <3>1, <3>3, SMTT(30)
    <3> QED BY <3>4, SMTT(30) DEF y
  <2> QED BY <2>1, <2>2, <2>4, <2>5, <2>6 DEF p, d, Ring
<1> QED BY <1>5, <1>6, SMTT(30)

\* k bytes of the ring, from a slot on.
Stretch(slot, k) == [i \in 1 .. k |-> buf[slot + i - 1]]

\* The bytes of the ring that one memcpy reads.
LEMMA StretchFacts ==
  ASSUME buf \in [0 .. BufSize - 1 -> Byte],
         NEW slot \in 0 .. BufSize, NEW k \in 0 .. BufSize, slot + k <= BufSize
  PROVE  /\ Stretch(slot, k) \in Seq(Byte) /\ Len(Stretch(slot, k)) = k
         /\ \A i \in 1 .. k : Stretch(slot, k)[i] = buf[slot + i - 1]
<1>0. BufSize \in Nat /\ k \in Nat BY SizeFacts, SMTT(30)
<1>1. \A i \in 1 .. k : slot + i - 1 \in 0 .. BufSize - 1 BY <1>0, SMTT(30)
<1> QED BY <1>0, <1>1, SMTT(30) DEF Stretch

\* Appending a sequence.
LEMMA AppendFacts ==
  ASSUME NEW t \in Seq(Byte), NEW f \in Seq(Byte)
  PROVE  /\ t \o f \in Seq(Byte) /\ Len(t \o f) = Len(t) + Len(f)
         /\ \A i \in 1 .. Len(t) : (t \o f)[i] = t[i]
         /\ \A i \in Len(t) + 1 .. Len(t) + Len(f) : (t \o f)[i] = f[i - Len(t)]
<1>1. Len(t) \in Nat /\ Len(f) \in Nat BY SMTT(30)
<1> QED BY <1>1, SMTT(30)

\* The receiver's copies collect the bytes after its position.
LEMMA RecvCopies ==
  ASSUME DataInv, CopyToEnd("recv") \/ CopyWrapped("recv")
  PROVE  /\ buf' = buf /\ tmp' \in Seq(Byte)
         /\ Len(tmp') = Moved("recv")'
         /\ \A i \in 1 .. Moved("recv")' : tmp'[i] = Ring(pos["recv"] + i - 1)
<1> DEFINE p == pos["recv"]
           k == n["recv"]
           r == Remain("recv")
           s == Start("recv")
<1>0. "recv" \in Ends /\ "recv" # "send" /\ BufSize \in Nat \ {0} BY EndsFacts, SizeFacts
<1>1. /\ p \in Int /\ k \in 0 .. BufSize /\ s \in 0 .. BufSize - 1 /\ r \in 0 .. k /\ r <= s
      /\ s + (k - r) <= BufSize
      /\ \A i \in 1 .. k - r : (p + i - 1) % BufSize = s + i - 1
      /\ \A i \in k - r + 1 .. k : (p + i - 1) % BufSize = i - 1 - (k - r)
  BY <1>0, PassFacts DEF DataInv
<1>2. buf \in [0 .. BufSize - 1 -> Byte] /\ tmp \in Seq(Byte) BY SMTT(30) DEF DataInv, DataTypes
<1>3. CASE CopyToEnd("recv")
  <2>1. buf' = buf /\ tmp' = tmp \o Stretch(s, k - r)
    BY <1>0, <1>3 DEF CopyToEnd, Copy, Stretch
  <2>2. Moved("recv") = 0 /\ Moved("recv")' = k - r BY <1>0, <1>3, CopyMoves DEF DataInv
  <2>3. Len(tmp) = 0 BY <2>2 DEF DataInv, RecvData
  <2> HIDE DEF p, k, r, s
  <2>4. s \in 0 .. BufSize /\ k - r \in 0 .. BufSize BY <1>0, <1>1, SMTT(30)
  <2>5. /\ tmp' \in Seq(Byte) /\ Len(tmp') = Len(tmp) + (k - r)
        /\ \A i \in Len(tmp) + 1 .. Len(tmp) + (k - r) : tmp'[i] = buf[s + (i - Len(tmp)) - 1]
    <3> DEFINE g == Stretch(s, k - r)
    <3>1. g \in Seq(Byte) /\ Len(g) = k - r /\ \A i \in 1 .. k - r : g[i] = buf[s + i - 1]
      BY <1>1, <1>2, <2>4, StretchFacts
    <3> HIDE DEF g
    <3>2. tmp' = tmp \o g BY <2>1, SMTT(30) DEF g
    <3>3. /\ tmp' \in Seq(Byte) /\ Len(tmp') = Len(tmp) + (k - r)
          /\ \A i \in Len(tmp) + 1 .. Len(tmp) + (k - r) : tmp'[i] = g[i - Len(tmp)]
      <4>1. /\ tmp \o g \in Seq(Byte) /\ Len(tmp \o g) = Len(tmp) + Len(g)
            /\ \A i \in 1 .. Len(tmp) : (tmp \o g)[i] = tmp[i]
            /\ \A i \in Len(tmp) + 1 .. Len(tmp) + Len(g) : (tmp \o g)[i] = g[i - Len(tmp)]
        BY <1>2, <3>1, AppendFacts
      <4> QED BY <3>1, <3>2, <4>1
    <3>4. \A i \in Len(tmp) + 1 .. Len(tmp) + (k - r) : i - Len(tmp) \in 1 .. k - r
      BY <1>2, <2>3, <2>4, SMTT(30)
    <3> QED BY <3>1, <3>3, <3>4
  <2>6. \A i \in 1 .. k - r : tmp'[i] = buf[s + i - 1] BY <2>3, <2>4, <2>5, SMTT(30)
  <2>7. \A i \in 1 .. k - r : tmp'[i] = Ring(p + i - 1) BY <1>1, <2>6 DEF Ring
  <2>8. Len(tmp') = k - r BY <2>3, <2>4, <2>5, SMTT(30)
  <2> QED BY <2>1, <2>2, <2>5, <2>7, <2>8 DEF p
<1>4. CASE CopyWrapped("recv")
  <2>1. buf' = buf /\ tmp' = tmp \o Stretch(0, r)
    BY <1>0, <1>4 DEF CopyWrapped, Copy, Stretch
  <2>2. Moved("recv") = k - r /\ Moved("recv")' = k BY <1>0, <1>4, CopyMoves DEF DataInv
  <2>3. Len(tmp) = k - r /\ \A i \in 1 .. k - r : tmp[i] = Ring(p + i - 1)
    BY <2>2 DEF DataInv, RecvData
  <2> HIDE DEF p, k, r, s
  <2>4. 0 \in 0 .. BufSize /\ r \in 0 .. BufSize /\ 0 + r <= BufSize BY <1>0, <1>1, SMTT(30)
  <2>5. /\ tmp' \in Seq(Byte) /\ Len(tmp') = Len(tmp) + r
        /\ \A i \in 1 .. Len(tmp) : tmp'[i] = tmp[i]
        /\ \A i \in Len(tmp) + 1 .. Len(tmp) + r : tmp'[i] = buf[0 + (i - Len(tmp)) - 1]
    <3> DEFINE g == Stretch(0, r)
    <3>1. g \in Seq(Byte) /\ Len(g) = r /\ \A i \in 1 .. r : g[i] = buf[0 + i - 1]
      BY <1>2, <2>4, StretchFacts
    <3> HIDE DEF g
    <3>2. tmp' = tmp \o g BY <2>1, SMTT(30) DEF g
    <3>3. /\ tmp' \in Seq(Byte) /\ Len(tmp') = Len(tmp) + r
          /\ \A i \in 1 .. Len(tmp) : tmp'[i] = tmp[i]
          /\ \A i \in Len(tmp) + 1 .. Len(tmp) + r : tmp'[i] = g[i - Len(tmp)]
      <4>1. /\ tmp \o g \in Seq(Byte) /\ Len(tmp \o g) = Len(tmp) + Len(g)
            /\ \A i \in 1 .. Len(tmp) : (tmp \o g)[i] = tmp[i]
            /\ \A i \in Len(tmp) + 1 .. Len(tmp) + Len(g) : (tmp \o g)[i] = g[i - Len(tmp)]
        BY <1>2, <3>1, AppendFacts
      <4> QED BY <3>1, <3>2, <4>1
    <3>4. Len(tmp) \in Int /\ r \in Int BY <1>0, <1>1, <2>3, SMTT(30)
    <3>5. \A i \in Len(tmp) + 1 .. Len(tmp) + r : i - Len(tmp) \in 1 .. r
      BY <3>4, SMTT(30)
    <3> QED BY <3>1, <3>3, <3>5
  <2>6. k \in Int /\ r \in Int /\ Len(tmp) + r = k /\ Len(tmp) + 1 = k - r + 1 BY <1>0, <1>1, <2>3, SMTT(30)
  <2>7. ASSUME NEW i \in 1 .. k PROVE tmp'[i] = Ring(p + i - 1)
    <3>1. CASE i \in 1 .. k - r BY <2>3, <2>5, <3>1
    <3>2. CASE i \in k - r + 1 .. k
      <4>1. tmp'[i] = buf[0 + (i - (k - r)) - 1] BY <2>3, <2>5, <2>6, <3>2
      <4>2. 0 + (i - (k - r)) - 1 = i - 1 - (k - r) BY <2>6, SMTT(30)
      <4>3. (p + i - 1) % BufSize = i - 1 - (k - r) BY <1>1, <3>2
      <4> QED BY <4>1, <4>2, <4>3 DEF Ring
    <3> QED BY <1>1, <2>6, <3>1, <3>2, SMTT(30)
  <2> QED BY <2>1, <2>2, <2>5, <2>6, <2>7 DEF p
<1> QED BY <1>3, <1>4

-----------------------------------------------------------------------------
(* Every step keeps track of the bytes *)

\* What an end has copied and not yet published.
LEMMA MovedKept ==
  ASSUME NEW f \in Ends, pc'[f] = pc[f], n'[f] = n[f], pos'[f] = pos[f]
  PROVE  Moved(f)' = Moved(f)
BY DEF Moved, Remain, Start

\* A component outside the copies has copied nothing.
LEMMA MovedNone ==
  ASSUME NEW f \in Ends
  PROVE  /\ pc[f] \notin {"wrap", "update"} => Moved(f) = 0
         /\ pc'[f] \notin {"wrap", "update"} => Moved(f)' = 0
BY DEF Moved

\* What the invariant says of a component that no step of the peer changes.
LEMMA SendKept ==
  ASSUME DataInv, data'["send"] = data["send"], left'["send"] = left["send"], pos'["send"] = pos["send"],
         Moved("send")' = Moved("send") \/ Moved("send")' = 0, buf' = buf
  PROVE  SendData'
<1>1. SendData BY DEF DataInv
<1>2. \A i \in 1 .. Moved("send")' : i \in 1 .. Moved("send") BY SMT
<1> QED BY <1>1, <1>2 DEF SendData, Ring

\* A step that leaves the reader alone and changes no byte it has copied.
LEMMA RecvKept ==
  ASSUME DataInv, data'["recv"] = data["recv"], left'["recv"] = left["recv"], pos'["recv"] = pos["recv"],
         Moved("recv")' = Moved("recv"), tmp' = tmp,
         \A i \in 1 .. Moved("recv") : buf'[(pos["recv"] + i - 1) % BufSize] = Ring(pos["recv"] + i - 1)
  PROVE  RecvData'
<1>1. RecvData BY DEF DataInv
<1> QED BY <1>1 DEF RecvData, Ring

\* The steps that only decide what to do next.
LEMMA DataQuiet ==
  ASSUME DataInv, UNCHANGED <<pos, buf, left, data, tmp>>,
         \A e \in Ends : Moved(e)' = Moved(e)
  PROVE  DataTypes' /\ SendData' /\ RecvData'
<1>1. DataTypes' BY DEF DataInv, DataTypes
<1>2. SendData' BY EndsFacts, SendKept
<1>3. RecvData'
  <2>1. RecvData /\ Moved("recv")' = Moved("recv") BY EndsFacts DEF DataInv
  <2> QED BY <2>1 DEF RecvData, Ring
<1> QED BY <1>1, <1>2, <1>3

\* The steps of an end that copy nothing keep the invariant of the contents.
LEMMA DataControl ==
  ASSUME DataInv, NEW e \in Ends, Check(e) \/ CheckFilled(e) \/ Wait(e) \/ OtherDirection(e)
  PROVE  DataTypes' /\ SendData' /\ RecvData'
<1>0. pc \in [Ends -> Labels] /\ n \in [Ends -> 0 .. BufSize] BY DEF DataInv, CtlInv, CtlTypes
<1>1. UNCHANGED <<pos, buf, left, data, tmp>>
  BY DEF Check, CheckFilled, Wait, OtherDirection
<1>2. Moved(e)' = Moved(e)
  <2>1. CASE OtherDirection(e) BY <2>1, MovedKept DEF OtherDirection
  <2>2. CASE Check(e) \/ CheckFilled(e) \/ Wait(e)
    <3>1. pc[e] \in {"check", "wait"} /\ pc'[e] \in {"idle", "check", "wait", "copy"}
      BY <1>0, <2>2 DEF Check, CheckFilled, Wait, Goto
    <3> QED BY <3>1, MovedNone
  <2> QED BY <2>1, <2>2, SMTT(30)
<1>3. Moved(Peer(e))' = Moved(Peer(e))
  <2>1. Peer(e) \in Ends /\ Peer(e) # e BY EndsFacts
  <2>2. pc'[Peer(e)] = pc[Peer(e)] /\ n'[Peer(e)] = n[Peer(e)]
    BY <1>0, <2>1 DEF Check, CheckFilled, Wait, OtherDirection, Goto
  <2> QED BY <1>1, <2>1, <2>2, MovedKept
<1>4. \A f \in Ends : Moved(f)' = Moved(f) BY <1>2, <1>3, EndsFacts
<1> QED BY <1>1, <1>4, DataQuiet

\* So does a call of libvchan_wait.
LEMMA DataWaitCall ==
  ASSUME DataInv, libvchan_wait PROVE DataTypes' /\ SendData' /\ RecvData'
<1>0. pc \in [Ends -> Labels] /\ "send" \in Ends /\ "recv" \in Ends /\ "send" # "recv"
  BY EndsFacts DEF DataInv, CtlInv, CtlTypes
<1>1. UNCHANGED <<pos, buf, left, n, data, tmp>> BY DEF libvchan_wait
<1>2. /\ pc["recv"] = "idle" /\ pc'["recv"] = "check" /\ pc'["send"] = pc["send"]
  BY <1>0 DEF libvchan_wait, Goto
<1>3. Moved("recv")' = Moved("recv") BY <1>0, <1>2, MovedNone
<1>4. Moved("send")' = Moved("send") BY <1>0, <1>1, <1>2, MovedKept
<1>5. \A f \in Ends : Moved(f)' = Moved(f) BY <1>3, <1>4, EndsFacts
<1> QED BY <1>1, <1>5, DataQuiet

\* A call and a return: outside a pass, only the caller's bytes change.
LEMMA DataOutside ==
  ASSUME DataInv, NEW e \in Ends, UNCHANGED <<pos, buf, tmp>>,
         pc[e] \notin {"wrap", "update"}, pc'[e] \notin {"wrap", "update"},
         pc'[Peer(e)] = pc[Peer(e)], n'[Peer(e)] = n[Peer(e)],
         data'[Peer(e)] = data[Peer(e)], left'[Peer(e)] = left[Peer(e)],
         data' \in [Ends -> Seq(Byte)],
         e = "send" => left'[e] = Len(data'[e]),
         e = "recv" => left'[e] + Len(data'[e]) \in Sizes \cup {0}
  PROVE  DataTypes' /\ SendData' /\ RecvData'
<1>0. Peer(e) \in Ends BY EndsFacts
<1>1. DataTypes' BY DEF DataInv, DataTypes
<1>2. Moved(e) = 0 /\ Moved(e)' = 0 BY MovedNone
<1>3. Moved(Peer(e))' = Moved(Peer(e)) BY <1>0, MovedKept
<1>4. CASE e = "send"
  <2>1. SendData' BY <1>2, <1>4, SMTT(30) DEF SendData
  <2>2. RecvData /\ Peer(e) = "recv" BY <1>4, EndsFacts DEF DataInv
  <2>3. RecvData' BY <1>3, <2>2 DEF RecvData, Ring
  <2> QED BY <1>1, <2>1, <2>3
<1>5. CASE e = "recv"
  <2>1. RecvData BY DEF DataInv
  <2>2. RecvData' BY <1>2, <1>5, <2>1, SMTT(30) DEF RecvData
  <2>3. Peer(e) = "send" BY <1>5, EndsFacts
  <2>4. SendData' BY <1>3, <2>3, SendKept
  <2> QED BY <1>1, <2>2, <2>4
<1> QED BY <1>4, <1>5, EndsFacts

\* So does a call that sends or receives.
LEMMA DataCall ==
  ASSUME DataInv, NEW e \in Ends, NEW m \in {"stream", "packet"}, NEW msg \in Messages,
         libvchan_readwrite(e, m, msg)
  PROVE  DataTypes' /\ SendData' /\ RecvData'
<1>0. /\ pc \in [Ends -> Labels] /\ left \in [Ends -> Nat] /\ data \in [Ends -> Seq(Byte)]
      /\ msg \in Seq(Byte) /\ Len(msg) \in Sizes /\ Len(msg) \in Nat
      /\ Peer(e) \in Ends /\ Peer(e) # e
  BY VchanAssumption, EndsFacts, SMTT(30) DEF DataInv, DataTypes, CtlInv, CtlTypes, Sizes
<1>1. /\ UNCHANGED <<pos, buf, tmp, n>> /\ pc[e] = "idle" /\ pc' = [pc EXCEPT ![e] = "check"]
      /\ left' = [left EXCEPT ![e] = Len(msg)]
      /\ data' = [data EXCEPT ![e] = IF e = "send" THEN msg ELSE <<>>]
  BY DEF libvchan_readwrite, Goto
<1>2. data' \in [Ends -> Seq(Byte)] BY <1>0, <1>1, SMTT(30)
<1>3. left'[e] = Len(msg) /\ data'[e] = IF e = "send" THEN msg ELSE <<>> BY <1>0, <1>1
<1>4. e = "recv" => left'[e] + Len(data'[e]) \in Sizes \cup {0}
  <2>1. Len(msg) + Len(<<>>) = Len(msg) BY <1>0, SMTT(30)
  <2> QED BY <1>0, <1>3, <2>1
<1>5. pc'[e] = "check" /\ pc'[Peer(e)] = pc[Peer(e)] /\ n'[Peer(e)] = n[Peer(e)]
      /\ data'[Peer(e)] = data[Peer(e)] /\ left'[Peer(e)] = left[Peer(e)]
  BY <1>0, <1>1
<1> QED BY <1>1, <1>2, <1>3, <1>4, <1>5, DataOutside

\* So does alerting the peer.
LEMMA DataAlert ==
  ASSUME DataInv, NEW e \in Ends, Alert(e) PROVE DataTypes' /\ SendData' /\ RecvData'
<1>0. /\ pc \in [Ends -> Labels] /\ left \in [Ends -> Nat] /\ data \in [Ends -> Seq(Byte)]
      /\ n \in [Ends -> 0 .. BufSize] /\ SendData /\ RecvData
      /\ Peer(e) \in Ends /\ Peer(e) # e
  BY EndsFacts DEF DataInv, DataTypes, CtlInv, CtlTypes
<1>1. /\ UNCHANGED <<pos, buf, tmp>> /\ pc[e] = "alert" /\ n' = [n EXCEPT ![e] = 0]
      /\ \/ /\ pc' = [pc EXCEPT ![e] = "idle"] /\ left' = [left EXCEPT ![e] = 0]
            /\ data' = [data EXCEPT ![e] = <<>>]
         \/ pc' = [pc EXCEPT ![e] = "check"] /\ UNCHANGED <<left, data>>
  BY SMTT(30) DEF Alert, Goto
<1>2. data' \in [Ends -> Seq(Byte)]
  <2>1. <<>> \in Seq(Byte) BY SMTT(30)
  <2>2. data' = [data EXCEPT ![e] = <<>>] \/ data' = data BY <1>1
  <2> QED BY <1>0, <2>1, <2>2
<1>3. pc'[e] \in {"idle", "check"} /\ pc'[Peer(e)] = pc[Peer(e)] /\ n'[Peer(e)] = n[Peer(e)]
      /\ data'[Peer(e)] = data[Peer(e)] /\ left'[Peer(e)] = left[Peer(e)]
  BY <1>0, <1>1
<1>4. \/ left'[e] = 0 /\ data'[e] = <<>>
      \/ left'[e] = left[e] /\ data'[e] = data[e]
  BY <1>0, <1>1
<1>5. e = "send" => left'[e] = Len(data'[e]) BY <1>0, <1>4 DEF SendData
<1>6. e = "recv" => left'[e] + Len(data'[e]) \in Sizes \cup {0} BY <1>0, <1>4, SMTT(30) DEF RecvData
<1> QED BY <1>1, <1>2, <1>3, <1>5, <1>6, DataOutside

\* So does each memcpy.
LEMMA DataCopy ==
  ASSUME DataInv, NEW e \in Ends, CopyToEnd(e) \/ CopyWrapped(e)
  PROVE  DataTypes' /\ SendData' /\ RecvData'
<1>0. /\ pc \in [Ends -> Labels] /\ "send" \in Ends /\ "recv" \in Ends /\ "send" # "recv"
      /\ CtlInv /\ DataTypes /\ SendData /\ RecvData
  BY EndsFacts DEF DataInv, CtlInv, CtlTypes
<1>1. UNCHANGED <<pos, left, n, data>> BY DEF CopyToEnd, CopyWrapped
<1>2. CASE e = "send"
  <2>1. /\ buf' \in [0 .. BufSize - 1 -> Byte] /\ tmp' = tmp
        /\ \A i \in 1 .. Moved("send")' : buf'[(pos["send"] + i - 1) % BufSize] = data["send"][i]
        /\ \A j \in 1 .. Dist : buf'[(pos["recv"] + j - 1) % BufSize] = Ring(pos["recv"] + j - 1)
    BY <1>2, SendCopies
  <2>2. DataTypes' BY <1>0, <1>1, <2>1 DEF DataTypes
  <2>3. SendData' BY <1>0, <1>1, <2>1 DEF SendData, Ring
  <2>4. pc'["recv"] = pc["recv"] BY <1>0, <1>2 DEF CopyToEnd, CopyWrapped, Goto
  <2>5. Moved("recv")' = Moved("recv") BY <1>0, <1>1, <2>4, MovedKept
  <2>6. \A i \in 1 .. Moved("recv") : i \in 1 .. Dist
    <3>1. Moved("recv") \in 0 .. n["recv"] /\ n["recv"] \in 0 .. BufSize BY <1>0, PassFacts
    <3>2. pc["recv"] \in Using => n["recv"] \in 1 .. Dist
      BY <1>0, RoomIs DEF CtlInv, Has
    <3>3. pc["recv"] \notin Using => Moved("recv") = 0 BY DEF Moved, Using
    <3>4. Dist \in Int /\ BufSize \in Int BY <1>0, SizeFacts, SMTT(30) DEF CtlInv
    <3> QED BY <3>1, <3>2, <3>3, <3>4, SMTT(30)
  <2>7. RecvData' BY <1>1, <2>1, <2>5, <2>6, RecvKept
  <2> QED BY <2>2, <2>3, <2>7
<1>3. CASE e = "recv"
  <2>1. /\ buf' = buf /\ tmp' \in Seq(Byte) /\ Len(tmp') = Moved("recv")'
        /\ \A i \in 1 .. Moved("recv")' : tmp'[i] = Ring(pos["recv"] + i - 1)
    BY <1>3, RecvCopies
  <2>2. DataTypes' BY <1>0, <1>1, <2>1 DEF DataTypes
  <2>3. RecvData' BY <1>0, <1>1, <2>1 DEF RecvData, Ring
  <2>4. pc'["send"] = pc["send"] BY <1>0, <1>3 DEF CopyToEnd, CopyWrapped, Goto
  <2>5. Moved("send")' = Moved("send") BY <1>0, <1>1, <2>4, MovedKept
  <2>6. SendData' BY <1>1, <2>1, <2>5, SendKept
  <2> QED BY <2>2, <2>3, <2>6
<1> QED BY <1>2, <1>3, EndsFacts

\* Dropping the first k elements of a sequence.
LEMMA DropFacts ==
  ASSUME NEW s \in Seq(Byte), NEW k \in 0 .. Len(s)
  PROVE  /\ SubSeq(s, k + 1, Len(s)) \in Seq(Byte)
         /\ Len(SubSeq(s, k + 1, Len(s))) = Len(s) - k
         /\ \A i \in 1 .. Len(s) - k : SubSeq(s, k + 1, Len(s))[i] = s[k + i]
<1>1. Len(s) \in Nat BY SMTT(30)
<1> QED BY <1>1, SMTT(30)

\* Keeping the first k elements of a sequence.
LEMMA TakeFacts ==
  ASSUME NEW s \in Seq(Byte), NEW k \in 0 .. Len(s)
  PROVE  /\ SubSeq(s, 1, k) \in Seq(Byte) /\ Len(SubSeq(s, 1, k)) = k
         /\ \A i \in 1 .. k : SubSeq(s, 1, k)[i] = s[i]
<1>1. Len(s) \in Nat BY SMTT(30)
<1> QED BY <1>1, SMTT(30)

\* What a pass moved is taken off the sender's bytes, or added to the receiver's.
LEMMA DataUpdate ==
  ASSUME DataInv, NEW e \in Ends, Update(e) PROVE DataTypes' /\ SendData' /\ RecvData'
<1>0. /\ pc \in [Ends -> Labels] /\ left \in [Ends -> Nat] /\ data \in [Ends -> Seq(Byte)]
      /\ pos \in [Ends -> PosRange]
      /\ "send" \in Ends /\ "recv" \in Ends /\ "send" # "recv"
      /\ CtlInv /\ DataTypes /\ SendData /\ RecvData /\ tmp \in Seq(Byte)
  BY EndsFacts DEF DataInv, DataTypes, CtlInv, CtlTypes
<1>1. /\ pc[e] = "update" /\ pc' = [pc EXCEPT ![e] = "alert"]
      /\ pos' = [pos EXCEPT ![e] = Wrap(pos[e] + n[e])]
      /\ left' = [left EXCEPT ![e] = left[e] - n[e]]
      /\ data' = [data EXCEPT ![e] = IF e = "send" THEN SubSeq(data[e], n[e] + 1, Len(data[e]))
                                                 ELSE data[e] \o tmp]
      /\ tmp' = (IF e = "recv" THEN <<>> ELSE tmp)
      /\ UNCHANGED <<buf, n>>
  BY DEF Update, Goto
<1>2. n[e] \in Nat /\ n[e] <= left[e] /\ left[e] \in Nat
  <2>1. n[e] <= left[e] BY <1>0, UpdateMoves
  <2>2. n[e] \in 0 .. BufSize /\ left[e] \in Nat BY <1>0, PassFacts
  <2> QED BY <2>1, <2>2, SizeFacts, SMTT(30)
<1>3. pc'[e] = "alert" BY <1>0, <1>1
<1>4. Moved(e)' = 0 BY <1>3, MovedNone
<1>5. CASE e = "send"
  <2>1. n[e] \in 0 .. Len(data[e]) BY <1>0, <1>2, <1>5, SMTT(30) DEF SendData
  <2> DEFINE d == SubSeq(data[e], n[e] + 1, Len(data[e]))
  <2>2. d \in Seq(Byte) /\ Len(d) = Len(data[e]) - n[e] BY <1>0, <2>1, DropFacts
  <2>3. data' = [data EXCEPT ![e] = d] BY <1>1, <1>5
  <2> HIDE DEF d
  <2>4. DataTypes' BY <1>0, <1>1, <1>5, <2>2, <2>3 DEF DataTypes
  <2>5. left'["send"] = Len(data'["send"])
    BY <1>0, <1>1, <1>5, <2>2, <2>3 DEF SendData
  <2>6. SendData' BY <1>4, <1>5, <2>5, SMTT(30) DEF SendData
  <2>7. /\ pc'["recv"] = pc["recv"] /\ n'["recv"] = n["recv"] /\ pos'["recv"] = pos["recv"]
        /\ data'["recv"] = data["recv"] /\ left'["recv"] = left["recv"] /\ tmp' = tmp
    BY <1>0, <1>1, <1>5, SMTT(30)
  <2>8. Moved("recv")' = Moved("recv") BY <1>0, <2>7, MovedKept
  <2>9. RecvData' BY <1>1, <2>7, <2>8, RecvKept DEF Ring
  <2> QED BY <2>4, <2>6, <2>9
<1>6. CASE e = "recv"
  <2>1. Len(tmp) = n[e] BY <1>0, <1>1, <1>6 DEF RecvData, Moved
  <2> DEFINE d == data[e] \o tmp
  <2>2. d \in Seq(Byte) /\ Len(d) = Len(data[e]) + n[e]
    <3>1. data[e] \in Seq(Byte) BY <1>0
    <3>2. d \in Seq(Byte) /\ Len(d) = Len(data[e]) + Len(tmp) BY <1>0, <3>1, AppendFacts
    <3> QED BY <2>1, <3>2
  <2>3. data' = [data EXCEPT ![e] = d] BY <1>0, <1>1, <1>6
  <2> HIDE DEF d
  <2>4. tmp' = <<>> /\ tmp' \in Seq(Byte) /\ Len(tmp') = 0 BY <1>1, <1>6, SMTT(30)
  <2>5. DataTypes' BY <1>0, <1>1, <2>2, <2>3, <2>4 DEF DataTypes
  <2>6. left'[e] = left[e] - n[e] /\ data'[e] = d /\ Len(data[e]) \in Nat BY <1>0, <1>1, <2>3, SMTT(30)
  <2>7. left'[e] + Len(data'[e]) = left[e] + Len(data[e]) BY <1>2, <2>2, <2>6, SMTT(30)
  <2>8. RecvData' BY <1>0, <1>4, <1>6, <2>4, <2>7, SMTT(30) DEF RecvData
  <2>9. /\ pc'["send"] = pc["send"] /\ n'["send"] = n["send"] /\ pos'["send"] = pos["send"]
        /\ data'["send"] = data["send"] /\ left'["send"] = left["send"]
    BY <1>0, <1>1, <1>6
  <2>10. Moved("send")' = Moved("send") BY <1>0, <2>9, MovedKept
  <2>11. SendData' BY <1>1, <2>9, <2>10, SendKept
  <2> QED BY <2>5, <2>8, <2>11
<1> QED BY <1>5, <1>6, EndsFacts

\* The invariant of the contents holds at the start.
LEMMA DataInit == Init => DataInv
<1> SUFFICES ASSUME Init PROVE DataInv BY SMTT(30)
<1>1. CtlInv BY CtlInit
<1>2. DataTypes
  <2>1. buf \in [0 .. BufSize - 1 -> Byte] BY SMTT(30) DEF Init
  <2>2. <<>> \in Seq(Byte) BY SMTT(30)
  <2> QED BY <2>1, <2>2 DEF Init, DataTypes
<1>3. "send" \in Ends /\ "recv" \in Ends BY EndsFacts
<1>4. Moved("send") = 0 /\ Moved("recv") = 0 BY <1>3 DEF Init, Moved
<1>5. SendData BY <1>3, <1>4, SMTT(30) DEF Init, SendData
<1>6. RecvData BY <1>3, <1>4, SMTT(30) DEF Init, RecvData
<1> QED BY <1>1, <1>2, <1>5, <1>6 DEF DataInv

\* Every step keeps it.
LEMMA DataNext == DataInv /\ [Next]_vars => DataInv'
<1> SUFFICES ASSUME DataInv, [Next]_vars PROVE DataInv' BY SMTT(30)
<1>0. CtlInv' BY CtlNext DEF DataInv
<1> DEFINE G == DataTypes' /\ SendData' /\ RecvData'
<1>1. ASSUME NEW e \in Ends, Call(e) PROVE G BY <1>1, DataCall DEF Call
<1>2. ASSUME NEW e \in Ends, Step(e) PROVE G
  BY <1>2, DataControl, DataCopy, DataUpdate, DataAlert DEF Step
<1>3. ASSUME NEW e \in Ends, OtherDirection(e) PROVE G BY <1>3, DataControl
<1>4. ASSUME UNCHANGED vars PROVE G
  <2>1. \A e \in Ends : Moved(e)' = Moved(e) BY <1>4, MovedKept DEF vars
  <2> QED BY <1>4, <2>1, DataQuiet DEF vars
<1>5. G BY <1>1, <1>2, <1>3, <1>4, DataWaitCall DEF Next
<1> QED BY <1>0, <1>5 DEF DataInv

\* So it always holds.
LEMMA DataCorrect == Spec => []DataInv
BY DataInit, DataNext, PTL DEF Spec

-----------------------------------------------------------------------------
(* Refinement *)

\* Sequences of the same length and members are equal.
LEMMA SameSeq ==
  ASSUME NEW s \in Seq(Byte), NEW t \in Seq(Byte), Len(s) = Len(t),
         \A i \in 1 .. Len(s) : s[i] = t[i]
  PROVE  s = t
BY SMTT(30)

ContentsOK ==
  /\ Contents \in Seq(Byte) /\ Len(Contents) = Dist
  /\ \A k \in 1 .. Dist : Contents[k] = Ring(pos["recv"] + k - 1)

\* What the invariant says of the bytes in the ring.
LEMMA ContentsFacts == DataInv => ContentsOK
<1> SUFFICES ASSUME DataInv PROVE ContentsOK BY SMTT(30)
<1>0. Dist \in 0 .. BufSize /\ Dist \in Nat /\ buf \in [0 .. BufSize - 1 -> Byte]
  BY SizeFacts, SMTT(30) DEF DataInv, DataTypes, CtlInv
<1>1. Filled = Dist BY <1>0, RoomIs
<1>2. Contents = [k \in 1 .. Dist |-> Ring(pos["recv"] + k - 1)] BY <1>1 DEF Contents, Ring
<1>3. \A k \in 1 .. Dist : Ring(pos["recv"] + k - 1) \in Byte
  <2>1. pos["recv"] \in Int BY PassFacts, EndsFacts DEF DataInv
  <2>2. \A k \in 1 .. Dist : pos["recv"] + k - 1 \in Int BY <1>0, <2>1, SMTT(30)
  <2>3. \A k \in 1 .. Dist : (pos["recv"] + k - 1) % BufSize \in 0 .. BufSize - 1
    BY <2>2, SlotRange
  <2> QED BY <1>0, <2>3 DEF Ring
<1> QED BY <1>0, <1>2, <1>3, SMTT(30) DEF ContentsOK

\* And after a step.
LEMMA ContentsFactsNext == DataInv' => ContentsOK'
BY ContentsFacts, PTL

\* A step that moves no position and no byte under way is not seen.
LEMMA ContentsKept ==
  ASSUME DataInv, DataInv', pos' = pos,
         \A j \in 1 .. Dist : buf'[(pos["recv"] + j - 1) % BufSize] = Ring(pos["recv"] + j - 1)
  PROVE  Contents' = Contents
<1>1. ContentsOK /\ ContentsOK' BY ContentsFacts, ContentsFactsNext
<1>2. Dist' = Dist BY RoomKept
<1>3. Contents \in Seq(Byte) /\ Contents' \in Seq(Byte) /\ Len(Contents') = Dist /\ Len(Contents) = Dist
  BY <1>1, <1>2 DEF ContentsOK
<1>4. \A k \in 1 .. Dist : Contents'[k] = Contents[k]
  BY <1>1, <1>2 DEF ContentsOK, Ring
<1> QED BY <1>3, <1>4, SameSeq

\* The sender's position makes its bytes part of the channel.
LEMMA SendPuts ==
  ASSUME DataInv, DataInv', Update("send")
  PROVE  Fifo!Put
<1> DEFINE k == n["send"]
           d == data["send"]
<1>0. /\ "send" \in Ends /\ "recv" \in Ends /\ "send" # "recv" /\ CtlInv /\ SendData
      /\ pc["send"] = "update" /\ BufSize \in Nat \ {0}
  BY EndsFacts, SizeFacts DEF DataInv, Update
<1>1. Dist' = Dist + k /\ Dist' \in 0 .. BufSize /\ Dist \in 0 .. BufSize /\ k \in 1 .. Len(d) /\ k \in Nat
  <2>1. /\ Dist' = Dist + k /\ Dist' \in 0 .. BufSize /\ k \in 1 .. Room("send") /\ k <= left["send"]
    BY <1>0, UpdateMoves
  <2>2. k \in 0 .. BufSize /\ left["send"] = Len(d) /\ left["send"] \in Nat /\ Dist \in 0 .. BufSize
    BY <1>0, PassFacts DEF SendData, CtlInv
  <2>3. Room("send") \in Int BY <1>0, <2>2, RoomIs, SMTT(30)
  <2> QED BY <1>0, <2>1, <2>2, <2>3, SMTT(30)
<1>2. /\ buf' = buf /\ pos'["recv"] = pos["recv"] /\ data'["recv"] = data["recv"]
      /\ data'["send"] = SubSeq(d, k + 1, Len(d))
  <2>1. pos \in [Ends -> PosRange] /\ data \in [Ends -> Seq(Byte)]
    BY DEF DataInv, CtlInv, CtlTypes, DataTypes
  <2> QED BY <1>0, <2>1 DEF Update
<1>3. ContentsOK /\ ContentsOK' BY ContentsFacts, ContentsFactsNext
<1>4. d \in Seq(Byte) BY <1>0 DEF DataInv, DataTypes
<1>5. \A i \in 1 .. k : Ring(pos["send"] + i - 1) = d[i]
  BY <1>0 DEF SendData, Moved
<1>6. \A i \in 1 .. k : Ring(pos["recv"] + (Dist + i) - 1) = d[i]
  <2> TAKE i \in 1 .. k
  <2>1. PICK c \in Int : pos["send"] - pos["recv"] = Dist + BufSize * c BY <1>0, Ahead
  <2>2. pos["send"] \in Int /\ pos["recv"] \in Int BY <1>0, PassFacts
  <2> DEFINE x == pos["send"] + i - 1
             y == pos["recv"] + (Dist + i) - 1
  <2>3. x \in Int /\ y \in Int /\ x - y = BufSize * c
    <3>1. Dist \in Int /\ i \in Int /\ BufSize * c \in Int BY <1>0, <1>1, SMTT(30)
    <3> DEFINE b == BufSize * c
    <3> HIDE DEF b
    <3>2. b \in Int /\ pos["send"] - pos["recv"] = Dist + b BY <2>1, <3>1 DEF b
    <3>3. x \in Int /\ y \in Int /\ x - y = b BY <2>2, <3>1, <3>2, SMTT(30)
    <3> QED BY <3>3 DEF b
  <2> HIDE DEF x, y
  <2>4. x % BufSize = y % BufSize BY <2>3, SameSlot
  <2> QED BY <1>5, <2>4 DEF x, y, Ring
<1> DEFINE t == SubSeq(d, 1, k)
<1>7. t \in Seq(Byte) /\ Len(t) = k /\ \A i \in 1 .. k : t[i] = d[i]
  BY <1>1, <1>4, TakeFacts, SMTT(30)
<1> HIDE DEF k, d, t
<1>8. Contents' = Contents \o t
  <2>1. /\ Contents \in Seq(Byte) /\ Len(Contents) = Dist
        /\ Contents' \in Seq(Byte) /\ Len(Contents') = Dist + k
    BY <1>1, <1>3 DEF ContentsOK
  <2> DEFINE u == Contents \o t
  <2>2. /\ u \in Seq(Byte) /\ Len(u) = Dist + k
        /\ \A i \in 1 .. Dist : u[i] = Contents[i]
        /\ \A i \in Dist + 1 .. Dist + k : u[i] = t[i - Dist]
    BY <1>7, <2>1, AppendFacts
  <2> HIDE DEF u
  <2>3. \A i \in 1 .. Dist + k : Contents'[i] = Ring(pos["recv"] + i - 1)
    BY <1>1, <1>2, <1>3 DEF ContentsOK, Ring
  <2>4. ASSUME NEW i \in 1 .. Dist + k PROVE Contents'[i] = u[i]
    <3>1. CASE i \in 1 .. Dist BY <1>3, <2>2, <2>3, <3>1 DEF ContentsOK
    <3>2. CASE i \in Dist + 1 .. Dist + k
      <4>1. i - Dist \in 1 .. k /\ Dist + (i - Dist) = i BY <1>1, <3>2, SMTT(30)
      <4>2. u[i] = d[i - Dist] BY <1>7, <2>2, <3>2, <4>1
      <4>3. Ring(pos["recv"] + i - 1) = d[i - Dist] BY <1>6, <4>1
      <4> QED BY <2>3, <4>2, <4>3
    <3> QED BY <1>1, <3>1, <3>2, SMTT(30)
  <2>5. Contents' = u BY <2>1, <2>2, <2>4, SameSeq
  <2> QED BY <2>5 DEF u
<1>9. Len(Contents) + k <= BufSize BY <1>1, <1>3, SMTT(30) DEF ContentsOK
<1> QED BY <1>1, <1>2, <1>8, <1>9 DEF Fifo!Put, t, d

\* The receiver's position takes the bytes it copied off the channel.
LEMMA RecvTakes ==
  ASSUME DataInv, DataInv', Update("recv")
  PROVE  Fifo!Take
<1> DEFINE k == n["recv"]
           p == pos["recv"]
           g == SubSeq(Contents, 1, k)
           h == SubSeq(Contents, k + 1, Len(Contents))
<1>0. /\ "send" \in Ends /\ "recv" \in Ends /\ "send" # "recv" /\ CtlInv /\ RecvData
      /\ pc["recv"] = "update" /\ tmp \in Seq(Byte) /\ BufSize \in Nat \ {0}
  BY EndsFacts, SizeFacts DEF DataInv, DataTypes, Update
<1>1. Dist' = Dist - k /\ Dist \in 0 .. BufSize /\ k \in 1 .. Dist /\ k \in Nat /\ Dist \in Nat
  <2>1. Dist' = Dist - k /\ k \in 1 .. Room("recv") BY <1>0, UpdateMoves
  <2>2. Dist \in 0 .. BufSize BY <1>0 DEF CtlInv
  <2>3. Room("recv") = Dist BY <2>2, RoomIs
  <2> QED BY <1>0, <2>1, <2>2, <2>3, SMTT(30)
<1>2. /\ buf' = buf /\ pos'["recv"] = Wrap(p + k) /\ data'["send"] = data["send"]
      /\ data'["recv"] = data["recv"] \o tmp
  <2>1. pos \in [Ends -> PosRange] /\ data \in [Ends -> Seq(Byte)]
    BY SMTT(30) DEF DataInv, CtlInv, CtlTypes, DataTypes
  <2> QED BY <1>0, <2>1 DEF Update
<1>3. ContentsOK /\ ContentsOK' BY ContentsFacts, ContentsFactsNext
<1>4. /\ Contents \in Seq(Byte) /\ Len(Contents) = Dist
      /\ Contents' \in Seq(Byte) /\ Len(Contents') = Dist - k
  BY <1>1, <1>3 DEF ContentsOK
<1>5. p \in Int /\ p + k \in -(2 * PosLimit) .. 2 * PosLimit
  <2>1. p \in PosRange /\ p \in Int BY <1>0, PassFacts
  <2>2. PosLimit \in Nat /\ BufSize < PosLimit BY VchanAssumption
  <2>3. k \in 0 .. PosLimit BY <1>0, <1>1, <2>2, SMTT(30)
  <2> HIDE DEF k, p
  <2> QED BY <2>1, <2>2, <2>3, SMTT(30) DEF PosRange
<1>6. Len(tmp) = k /\ \A i \in 1 .. k : tmp[i] = Ring(p + i - 1)
  BY <1>0 DEF RecvData, Moved
<1>7. /\ g \in Seq(Byte) /\ Len(g) = k /\ \A i \in 1 .. k : g[i] = Contents[i]
  BY <1>1, <1>4, TakeFacts, SMTT(30)
<1>8. /\ h \in Seq(Byte) /\ Len(h) = Dist - k /\ \A i \in 1 .. Dist - k : h[i] = Contents[k + i]
  <2>1. k \in 0 .. Len(Contents) BY <1>1, <1>4, SMTT(30)
  <2> HIDE DEF k
  <2> QED BY <1>4, <2>1, DropFacts
<1> HIDE DEF g, h
<1>9. tmp = g
  <2>1. \A i \in 1 .. k : i \in 1 .. Dist BY <1>1, SMTT(30)
  <2>2. \A i \in 1 .. k : tmp[i] = g[i] BY <1>3, <1>6, <1>7, <2>1 DEF ContentsOK
  <2> QED BY <1>0, <1>6, <1>7, <2>2, SameSeq
<1>10. Contents' = h
  <2>1. ASSUME NEW i \in 1 .. Dist - k PROVE Contents'[i] = h[i]
    <3>1. k + i \in 1 .. Dist /\ i - 1 \in Int BY <1>1, SMTT(30)
    <3>2. Contents'[i] = buf[(Wrap(p + k) + i - 1) % BufSize]
      BY <1>1, <1>2, <1>3 DEF ContentsOK, Ring
    <3>3. Wrap(p + k) \in Int BY <1>5, WrapRange, SizeFacts, SMTT(30) DEF PosRange
    <3>4. (Wrap(p + k) + (i - 1)) % BufSize = ((p + k) + (i - 1)) % BufSize
      BY <1>5, <3>1, WrapSlot
    <3>5. Wrap(p + k) + (i - 1) = Wrap(p + k) + i - 1 /\ (p + k) + (i - 1) = p + (k + i) - 1
      BY <1>1, <1>5, <3>3, SMTT(30)
    <3>6. Contents[k + i] = buf[(p + (k + i) - 1) % BufSize]
      BY <1>3, <3>1 DEF ContentsOK, Ring
    <3>7. (Wrap(p + k) + i - 1) % BufSize = (p + (k + i) - 1) % BufSize BY <3>4, <3>5
    <3> QED BY <1>8, <3>2, <3>6, <3>7
  <2> QED BY <1>4, <1>8, <2>1, SameSeq
<1>11. k \in 1 .. Len(Contents) BY <1>1, <1>4
<1> QED BY <1>2, <1>9, <1>10, <1>11 DEF Fifo!Take, g, h

\* Every step of the ring is a step of the queue or is not seen.
LEMMA StepRefines ==
  DataInv /\ DataInv' /\ [Next]_vars => [Fifo!FifoNext]_(Fifo!fifoVars)
<1> SUFFICES ASSUME DataInv, DataInv', [Next]_vars PROVE [Fifo!FifoNext]_(Fifo!fifoVars)
  OBVIOUS
<1>0. /\ "send" \in Ends /\ "recv" \in Ends /\ "send" # "recv"
      /\ data \in [Ends -> Seq(Byte)] /\ data' \in [Ends -> Seq(Byte)]
  BY EndsFacts DEF DataInv, DataTypes
\* Contents is kept when the ring is.
<1>1. ASSUME pos' = pos, buf' = buf PROVE Contents' = Contents
  BY <1>1, ContentsKept DEF Ring
<1>2. ASSUME data'["send"] = data["send"], data'["recv"] = data["recv"], Contents' = Contents
      PROVE  UNCHANGED Fifo!fifoVars
  BY <1>2 DEF Fifo!fifoVars
\* A call or a return changes what the caller has.
<1>3. ASSUME NEW e \in Ends, data'[Peer(e)] = data[Peer(e)], Contents' = Contents,
             e = "recv" => data'[e] = <<>>
      PROVE  Fifo!Submit \/ Fifo!Begin
  <2>1. CASE e = "send"
    <3>1. data'["recv"] = data["recv"] /\ data'["send"] \in Seq(Byte)
      BY <1>0, <1>3, <2>1, EndsFacts
    <3> QED BY <1>3, <3>1 DEF Fifo!Submit
  <2>2. CASE e = "recv"
    <3>1. data'["send"] = data["send"] /\ data'["recv"] = <<>> BY <1>3, <2>2, EndsFacts
    <3> QED BY <1>3, <3>1 DEF Fifo!Begin
  <2> QED BY <2>1, <2>2, EndsFacts
<1>4. ASSUME NEW e \in Ends, Call(e) PROVE Fifo!Submit \/ Fifo!Begin
  <2>1. pos' = pos /\ buf' = buf BY <1>4 DEF Call, libvchan_readwrite
  <2>2. data'[Peer(e)] = data[Peer(e)] /\ (e = "recv" => data'[e] = <<>>)
    BY <1>0, <1>4, EndsFacts DEF Call, libvchan_readwrite
  <2> QED BY <1>1, <1>3, <2>1, <2>2
<1>5. ASSUME NEW e \in Ends, Alert(e) PROVE Fifo!Submit \/ Fifo!Begin \/ UNCHANGED Fifo!fifoVars
  <2>1. pos' = pos /\ buf' = buf /\ (data' = data \/ data' = [data EXCEPT ![e] = <<>>])
    BY <1>5 DEF Alert
  <2>2. CASE data' = data BY <1>1, <1>2, <2>1, <2>2
  <2>3. CASE data' = [data EXCEPT ![e] = <<>>]
    <3>1. data'[Peer(e)] = data[Peer(e)] /\ data'[e] = <<>> BY <1>0, <2>3, EndsFacts
    <3> QED BY <1>1, <1>3, <2>1, <3>1
  <2> QED BY <2>1, <2>2, <2>3
<1>6. ASSUME NEW e \in Ends, Update(e) PROVE Fifo!Put \/ Fifo!Take
  BY <1>6, SendPuts, RecvTakes, EndsFacts
<1>7. ASSUME NEW e \in Ends, CopyToEnd(e) \/ CopyWrapped(e) PROVE UNCHANGED Fifo!fifoVars
  <2>1. pos' = pos /\ data' = data BY <1>7 DEF CopyToEnd, CopyWrapped
  <2>2. CASE e = "send"
    <3>1. \A j \in 1 .. Dist : buf'[(pos["recv"] + j - 1) % BufSize] = Ring(pos["recv"] + j - 1)
      BY <1>7, <2>2, SendCopies
    <3> QED BY <1>2, <2>1, <3>1, ContentsKept
  <2>3. CASE e = "recv" BY <1>1, <1>2, <1>7, <2>1, <2>3, RecvCopies
  <2> QED BY <2>2, <2>3, EndsFacts
<1>8. ASSUME NEW e \in Ends, Check(e) \/ CheckFilled(e) \/ Wait(e) \/ OtherDirection(e)
      PROVE  UNCHANGED Fifo!fifoVars
  BY <1>1, <1>2, <1>8 DEF Check, CheckFilled, Wait, OtherDirection
<1>9. ASSUME libvchan_wait \/ UNCHANGED vars PROVE UNCHANGED Fifo!fifoVars
  BY <1>1, <1>2, <1>9 DEF libvchan_wait, vars
<1>10. ASSUME NEW e \in Ends, Step(e)
       PROVE  Fifo!FifoNext \/ UNCHANGED Fifo!fifoVars
  BY <1>5, <1>6, <1>7, <1>8, <1>10 DEF Step, Fifo!FifoNext
<1> QED BY <1>4, <1>8, <1>9, <1>10 DEF Next, Fifo!FifoNext

\* The channel starts as an empty queue.
LEMMA InitRefines == Init => Fifo!FifoInit
<1> SUFFICES ASSUME Init PROVE Fifo!FifoInit BY SMTT(30)
<1>1. data["send"] = <<>> /\ data["recv"] = <<>> BY EndsFacts DEF Init
<1>2. Contents \in Seq(Byte) /\ Len(Contents) = Dist BY DataInit, ContentsFacts DEF ContentsOK
<1>3. Dist = 0
  <2>1. pos["send"] = 0 /\ pos["recv"] = 0 BY EndsFacts, SMTT(30) DEF Init
  <2>2. Wrap(0) = 0 BY SizeFacts, WrapCases, SMTT(30)
  <2> QED BY <2>1, <2>2, SMTT(30) DEF Dist
<1>4. Contents = <<>> BY <1>2, <1>3, SMTT(30)
<1> QED BY <1>1, <1>4 DEF Fifo!FifoInit

-----------------------------------------------------------------------------
(* Theorems *)

\* The state stays well typed and a call accounts for every byte of its size,
\* for every buffer size and every set of messages.
THEOREM TypeOKCorrect == Spec => []TypeOK
<1>1. DataInv => TypeOK
  BY EndsFacts DEF DataInv, CtlInv, CtlTypes, DataTypes, SendData, RecvData, TypeOK, PosRange, Labels
<1> QED BY <1>1, DataCorrect, PTL

\* libvchan_readwrite implements a bounded FIFO of bytes: what is received is
\* what was sent, in order and without gaps, whatever the sizes of the buffer,
\* the positions and the messages.
THEOREM ImplementsFifoCorrect == Spec => ImplementsFifo
<1>1. Spec => [][Fifo!FifoNext]_(Fifo!fifoVars)
  BY StepRefines, DataCorrect, PTL DEF Spec
<1>2. Spec => Fifo!FifoInit BY InitRefines DEF Spec
<1> QED BY <1>1, <1>2, SMTT(30) DEF ImplementsFifo, Fifo!FifoSpec

(***************************************************************************)
(* The virtual USB host                                                    *)
(***************************************************************************)
UsbType ==
    /\ urb \in [Urbs -> {"INVALID", "PENDING", "ACTIVE"} \cup Complete]
    /\ intr \in {0, 1} /\ int_pending \in {0, 1}
    /\ usb_irq \in {"idle", "raised", "active"}
    /\ usb_todo \subseteq Urbs
    /\ usb_guest \in {"idle", "taken", "scan"}

\* The inductive invariant.  int_pending is 1 exactly while the interrupt is
\* raised or active, so that vusb_inject_irq may trust it; the driver is at work
\* exactly while the interrupt is active; and a completed request that the
\* driver has not still to look at has set the interrupt register.
UsbInv ==
    /\ UsbType
    /\ int_pending = 0 <=> usb_irq = "idle"
    /\ intr = 1 => int_pending = 1
    /\ usb_guest = "idle" <=> usb_irq # "active"
    /\ usb_todo # {} => usb_guest = "scan"
    /\ \A i \in Urbs : urb[i] \in Complete => i \in usb_todo \/ intr = 1

\* vusb_inject_irq leaves the interrupt register set and the interrupt on its way.
LEMMA InjectUsb ==
  ASSUME UsbInv, vusb_inject_irq
  PROVE  /\ intr' = 1 /\ int_pending' = 1
         /\ usb_irq' \in {"raised", "active"}
         /\ usb_irq' = "active" <=> usb_irq = "active"
BY DEF UsbInv, UsbType, vusb_inject_irq, Inject

\* No request is complete and no interrupt is up when the VM starts.
LEMMA InitUsb == EventInit => UsbInv
BY DEF EventInit, UsbInv, UsbType, Complete

\* Every step of the USB host and of its driver preserves UsbInv; those of the
\* connections leave the USB host alone.
LEMMA NextUsb == UsbInv /\ [EventNext]_event_vars => UsbInv'
<1> SUFFICES ASSUME UsbInv, [EventNext]_event_vars PROVE UsbInv'
  BY SMTT(30)
<1>1. ASSUME NEW outcome \in [Urbs -> {"ok", "refused", "bad"}], vm_vusb_notify(outcome)
      PROVE  UsbInv'
  <2>1. urb' \in [Urbs -> {"INVALID", "PENDING", "ACTIVE"} \cup Complete]
    BY <1>1 DEF UsbInv, UsbType, vm_vusb_notify, Complete
  <2>2. CASE \E i \in Walked(outcome) : outcome[i] # "ok"
    <3>1. vusb_inject_irq
      BY <1>1, <2>2 DEF vm_vusb_notify
    <3> QED BY <1>1, <2>1, <3>1, InjectUsb, SMTT(30) DEF UsbInv, UsbType, vm_vusb_notify
  <2>3. CASE ~ \E i \in Walked(outcome) : outcome[i] # "ok"
    <3>1. UNCHANGED <<intr, int_pending, usb_irq, usb_todo, usb_guest>>
      BY <1>1, <2>3 DEF vm_vusb_notify
    <3>2. ASSUME NEW i \in Urbs, urb'[i] \in Complete PROVE urb[i] \in Complete
      BY <1>1, <2>3, <3>2 DEF vm_vusb_notify, Complete
    <3> QED BY <2>1, <3>1, <3>2 DEF UsbInv, UsbType
  <2> QED BY <2>2, <2>3
<1>2. ASSUME NEW i \in Urbs, NEW s \in Complete, vusb_complete_cb(i, s)
      PROVE  UsbInv'
  BY <1>2, InjectUsb, SMTT(30) DEF UsbInv, UsbType, vusb_complete_cb
<1>3. ASSUME NEW i \in Urbs, vm_vusb_cancel(i)
      PROVE  UsbInv'
  BY <1>2, <1>3 DEF vm_vusb_cancel, Complete
<1>4. ASSUME NEW i \in Urbs, UsbSubmit(i)
      PROVE  UsbInv'
  BY <1>4 DEF UsbInv, UsbType, UsbSubmit, Complete
<1>5. ASSUME NEW i \in Urbs, UsbCollect(i)
      PROVE  UsbInv'
  <2>1. \A k \in Urbs : urb'[k] \in Complete => urb[k] \in Complete /\ (k # i \/ urb[i] \notin Complete)
    BY <1>5 DEF UsbInv, UsbType, UsbCollect, Complete
  <2> QED BY <1>5, <2>1 DEF UsbInv, UsbType, UsbCollect, Complete
<1>6. CASE ClearIntr
  BY <1>6 DEF UsbInv, UsbType, ClearIntr
<1>7. CASE UsbTake
  BY <1>7 DEF UsbInv, UsbType, UsbTake
<1>8. CASE UsbEnd
  BY <1>8 DEF UsbInv, UsbType, UsbEnd, vusb_ack
<1>9. CASE UNCHANGED usb_vars
  BY <1>9 DEF UsbInv, UsbType, usb_vars
<1>10. ASSUME NEW c \in Connections,
              consume_connection_event(c) \/ ConsumeRegister(c) \/ EmitRegister(c)
       PROVE  UsbInv'
  BY <1>9, <1>10 DEF consume_connection_event, ConsumeRegister, EmitRegister
<1>11. CASE XvmTake \/ XvmEnd
  BY <1>9, <1>11 DEF XvmTake, XvmEnd
<1>12. CASE UNCHANGED event_vars
  BY <1>9, <1>12 DEF event_vars
<1> QED BY <1>1, <1>2, <1>3, <1>4, <1>5, <1>6, <1>7, <1>8, <1>10, <1>11, <1>12 DEF EventNext

(***************************************************************************)
(* Cross-VM connections                                                    *)
(***************************************************************************)
\* The inductive invariant: drivers only look while the shared interrupt is
\* active, and an event nobody is about to look at is announced or swallowed.
XvmInv ==
    /\ event \in [Connections -> Nat]
    /\ xvm_irq \in {"idle", "raised", "active"}
    /\ xvm_todo # {} => xvm_irq = "active"
    /\ \A c \in Connections : event[c] # 0 => xvm_irq = "raised" \/ c \in xvm_todo \cup swallowed

\* No event is counted when the VM starts.
LEMMA InitXvm == EventInit => XvmInv
BY SMTT(30) DEF EventInit, XvmInv

\* Every step of the connections and their drivers preserves XvmInv.
LEMMA NextXvm == XvmInv /\ [EventNext]_event_vars => XvmInv'
<1> SUFFICES ASSUME XvmInv, [EventNext]_event_vars PROVE XvmInv'
  BY SMTT(30)
<1>1. ASSUME NEW c \in Connections, consume_connection_event(c) PROVE XvmInv'
  BY <1>1, SMTT(30) DEF XvmInv, consume_connection_event, Inject
<1>2. ASSUME NEW c \in Connections, ConsumeRegister(c) PROVE XvmInv'
  BY <1>2 DEF XvmInv, ConsumeRegister
<1>3. ASSUME NEW c \in Connections, EmitRegister(c) PROVE XvmInv'
  BY <1>3 DEF XvmInv, EmitRegister
<1>4. CASE XvmTake
  BY <1>4 DEF XvmInv, XvmTake
<1>5. CASE XvmEnd
  BY <1>5 DEF XvmInv, XvmEnd
<1>6. CASE UNCHANGED xvm_vars
  BY <1>6 DEF XvmInv, xvm_vars
<1>7. ASSUME NEW outcome \in [Urbs -> {"ok", "refused", "bad"}], vm_vusb_notify(outcome) PROVE XvmInv'
  BY <1>6, <1>7 DEF vm_vusb_notify
<1>8. ASSUME NEW i \in Urbs, NEW s \in Complete, vusb_complete_cb(i, s) PROVE XvmInv'
  BY <1>6, <1>8 DEF vusb_complete_cb
<1>9. ASSUME NEW i \in Urbs, vm_vusb_cancel(i) \/ UsbSubmit(i) \/ UsbCollect(i) PROVE XvmInv'
  BY <1>6, <1>9 DEF vm_vusb_cancel, vusb_complete_cb, UsbSubmit, UsbCollect
<1>10. CASE ClearIntr \/ UsbTake \/ UsbEnd
  BY <1>6, <1>10 DEF ClearIntr, UsbTake, UsbEnd
<1>11. CASE UNCHANGED event_vars
  BY <1>6, <1>11 DEF event_vars
<1> QED BY <1>1, <1>2, <1>3, <1>4, <1>5, <1>7, <1>8, <1>9, <1>10, <1>11 DEF EventNext

(***************************************************************************)
(* Theorem                                                                 *)
(***************************************************************************)
\* A completed USB request and an event of a cross-VM connection are announced
\* by an interrupt or about to be looked at, in whatever order completions,
\* register writes and interrupts come; the one exception is the event that
\* arrives between a driver's look and the end of the interrupt.
THEOREM EventNoticedCorrect == EventSpec => []EventNoticed
<1>1. UsbInv /\ XvmInv => EventNoticed
  BY SMTT(30) DEF UsbInv, UsbType, XvmInv, EventNoticed, UsbNoticed
<1> QED BY <1>1, InitUsb, NextUsb, InitXvm, NextXvm, PTL DEF EventSpec
=============================================================================
