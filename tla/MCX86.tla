-------------------------------- MODULE MCX86 --------------------------------
(***************************************************************************)
(* X86Vm for TLC.  A device pulses pin 10 (a slave pin), another drives    *)
(* pin 3.  The guest initialises both chips, masks and unmasks, ends       *)
(* interrupts in three ways, polls, and makes pin 3 level triggered; it    *)
(* sends itself IPIs of two priority classes.                              *)
(***************************************************************************)
EXTENDS X86Vm

\* ICW1, with ICW4 for the slave; the data writes are ICW2, ICW3, ICW4 (one of them
\* with automatic end of interrupt) or a mask.
MCPicWrites ==
    {<<32, 16>>, <<160, 17>>, <<33, 32>>, <<161, 32>>, <<161, 38>>,
     <<32, 32>>, <<160, 32>>, <<160, 98>>, <<160, 12>>, <<1232, 8>>}
MCPicReads == {160}

Ipi(vector, mode, shorthand, dest_mode) ==
    [vector |-> vector, mode |-> mode, assert |-> TRUE, shorthand |-> shorthand,
     dest_mode |-> dest_mode]
MCApicWrites ==
    {<<128, 0>>, <<128, 69>>, <<176, 0>>, <<240, TRUE>>, <<240, FALSE>>,
     <<848, [masked |-> FALSE, mode |-> "extint"]>>,
     <<768, Ipi(49, "fixed", "self", "physical")>>,
     <<768, Ipi(65, "fixed", "allinc", "physical")>>,
     <<768, Ipi(66, "lowest", "self", "physical")>>}
MCIpiWrites ==
    {<<768, Ipi(49, "fixed", "none", "physical")>>,
     <<768, Ipi(66, "lowest", "none", "logical")>>,
     <<768, Ipi(0, "nmi", "allinc", "physical")>>,
     <<768, Ipi(0, "init", "self", "physical")>>,
     <<768, Ipi(0, "startup", "self", "physical")>>,
     <<768, Ipi(0, "extint", "self", "physical")>>,
     <<176, 0>>, <<32, 1>>, <<208, 1>>, <<784, 1>>, <<784, 255>>, <<224, "cluster">>}

MCCr0Values == {{"PE"}, {"PE", "PG"}, {"PE", "PG", "WP"}, {"WP"}, {"RES", "PE"}}
MCCr3Values == {0, 1}
MCCr4Values == {{}, {"PAE"}, {"PSE", "PGE"}, {"PAE", "PGE"}, {"VMXE", "PAE"}, {"RES"}}
=============================================================================
