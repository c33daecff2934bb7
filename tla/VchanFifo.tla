----------------------------- MODULE VchanFifo -----------------------------
(***************************************************************************)
(* What a vchan promises, one direction: a bounded first-in first-out      *)
(* queue of bytes.  A writer puts prefixes of the message it was given, a  *)
(* reader takes bytes from the front (libvchan.h).                         *)
(***************************************************************************)
EXTENDS Naturals, Sequences

CONSTANTS Byte, Capacity

VARIABLES
  rest,  \* what the writer's call has still to put
  chan,  \* the bytes under way
  got    \* what the reader's call has taken

fifoVars == <<rest, chan, got>>

FifoInit == rest = <<>> /\ chan = <<>> /\ got = <<>>

\* A new call; a stream write may have left a part of its message unsent.
Submit == rest' \in Seq(Byte) /\ UNCHANGED <<chan, got>>
Begin  == got' = <<>> /\ UNCHANGED <<rest, chan>>

Put == \E n \in 1 .. Len(rest) :
  /\ Len(chan) + n <= Capacity
  /\ chan' = chan \o SubSeq(rest, 1, n)
  /\ rest' = SubSeq(rest, n + 1, Len(rest))
  /\ UNCHANGED got

Take == \E n \in 1 .. Len(chan) :
  /\ got' = got \o SubSeq(chan, 1, n)
  /\ chan' = SubSeq(chan, n + 1, Len(chan))
  /\ UNCHANGED rest

FifoNext == Submit \/ Begin \/ Put \/ Take

FifoSpec == FifoInit /\ [][FifoNext]_fifoVars
=============================================================================
