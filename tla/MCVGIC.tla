------------------------------- MODULE MCVGIC -------------------------------
(* Instances of VGIC for TLC. *)
EXTENDS VGIC

\* A guest that leaves the pending bits alone, as vgic_v2.c assumes.
OpsNoClear == {"CTLR", "ISENABLER", "ISPENDR", "SGIR"}
OpsLevel   == {"CTLR", "ISENABLER", "ICENABLER", "ICPENDR", "ICFGR", "WFI"}
OpsWFI     == {"CTLR", "ISENABLER", "WFI"}
OpsLive    == {"CTLR", "ISENABLER", "ICENABLER"}
=============================================================================
