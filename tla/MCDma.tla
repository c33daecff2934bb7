------------------------------- MODULE MCDma -------------------------------
(***************************************************************************)
(* Two descriptors of different size, not aligned to the largest alignment *)
(* asked for, so that one of them may be too small once aligned.  Sizes    *)
(* that are no multiple of the minimum alignment make the allocator skip   *)
(* bytes.                                                                  *)
(***************************************************************************)
EXTENDS Dma

MCDescs == {[vaddr |-> 100, paddr |-> 10, size |-> 8], [vaddr |-> 108, paddr |-> 26, size |-> 4]}
=============================================================================
