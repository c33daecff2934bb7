------------------------------ MODULE MCVchan ------------------------------
(* An instance of Vchan for TLC. *)
EXTENDS Vchan

\* One message is longer than the buffer.
MCMessages == {<<0>>, <<1>>, <<0, 1>>, <<1, 0, 0>>}
=============================================================================
