--------------------------- MODULE MCGuestMemory ---------------------------
(***************************************************************************)
(* A guest of a few pages of two units, at most one IO space.              *)
(***************************************************************************)
EXTENDS GuestRam
=============================================================================
