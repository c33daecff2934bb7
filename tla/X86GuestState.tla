--------------------------- MODULE X86GuestState ---------------------------
(***************************************************************************)
(* The vcpu state the x86 VMM caches (libsel4vm/src/arch/x86/guest_state.h *)
(* and guest_x86_context.c) and the virtualised control registers          *)
(* (processor/cr.c).                                                       *)
(*                                                                         *)
(* Operators take and return a machine state v, a record with              *)
(*   hw   the values the hardware holds, by field (in the VMCS, and for    *)
(*        "context" in the kernel's VCPU object);                          *)
(*   gs   guest_state_t: machine, the cached fields with their status;     *)
(*        cr, the virtualised control registers; the always-valid entry    *)
(*        (control_entry) and window and cr3_exiting (bits of control_ppc);*)
(*        halt (interrupt_halt), in_exit;                                  *)
(*   failed  what went wrong: assertions of the code that failed, stale    *)
(*           values read, modified values dropped (bookkeeping).           *)
(* rflags is the interrupt flag, guest_interruptibility the blocking by    *)
(* STI, a control register a set of its bits, CR3 a token.  Of context and *)
(* of the error code only the status is kept, their value is 0.            *)
(* Left out: the descriptor-table, selector and stack-pointer fields,      *)
(* which are cached in the same way, and eip.                              *)
(***************************************************************************)
EXTENDS Integers

Fields == {"context", "cr0", "cr3", "cr4", "rflags", "guest_interruptibility",
           "entry_exception_error_code"}
VmcsFields == Fields \ {"context"}

\* The bits told apart: owned by the VMM at some time, owned by the guest, reserved.
Cr0Bits == {"PE", "PG", "WP", "RES"}
Cr4Bits == {"PSE", "PAE", "VMXE", "PGE", "RES"}
RESERVED == "RES"

\* A field whose status is unknown holds no value the code reads.
Unknown == [status |-> "unknown"]
Valid(x) == [status |-> "valid", value |-> x]
Modified(x) == [status |-> "modified", value |-> x]

Complain(v, what) == [v EXCEPT !.failed = @ \union {what}]

(***************************************************************************)
(* The cache                                                               *)
(***************************************************************************)
\* The getters: read the field from the VMCS when its status is unknown.
Read(v, f) ==
    IF v.gs.machine[f].status = "unknown"
    THEN [v EXCEPT !.gs.machine[f] = Valid(v.hw[f])]
    ELSE IF v.gs.machine[f] = Valid(v.hw[f]) \/ v.gs.machine[f].status = "modified"
         THEN v
         ELSE Complain(v, "stale read")
Value(v, f) == Read(v, f).gs.machine[f].value

\* The setters.
Set(v, f, x) == [v EXCEPT !.gs.machine[f] = Modified(x)]

\* vm_guest_state_sync_*: write a modified field back.
SyncFields(v, fs) ==
    LET dirty == {f \in fs : v.gs.machine[f].status = "modified"}
    IN  [v EXCEPT
          !.hw = [f \in Fields |-> IF f \in dirty THEN v.gs.machine[f].value ELSE v.hw[f]],
          !.gs.machine = [f \in Fields |-> IF f \in dirty
                                           THEN Valid(v.gs.machine[f].value)
                                           ELSE v.gs.machine[f]]]

vm_sync_guest_vmcs_state(v) == SyncFields(v, VmcsFields)
vm_sync_guest_context(v) == SyncFields(v, {"context"})

vm_guest_state_no_modified(v) == \A f \in Fields : v.gs.machine[f].status # "modified"

\* Every call of it must find nothing modified (vm.c asserts so before two of the three).
vm_guest_state_invalidate_all(v) ==
    LET u == IF vm_guest_state_no_modified(v) THEN v ELSE Complain(v, "modified state dropped")
    IN  [u EXCEPT !.gs.machine = [f \in Fields |-> Unknown]]

\* Zeroed memory, every field valid.
Zero == [context |-> 0, cr0 |-> {}, cr3 |-> 0, cr4 |-> {}, rflags |-> FALSE,
         guest_interruptibility |-> FALSE, entry_exception_error_code |-> 0]
vm_guest_state_initialise == [f \in Fields |-> Valid(Zero[f])]

(***************************************************************************)
(* Control registers.  Every setter returns the machine state and 0 or -1. *)
(* werr: the VMCS write that fails, of the mask, of the read shadow, or    *)
(* none.                                                                   *)
(***************************************************************************)
apply_cr_bits(cr, mask, host_bits) == (cr \union (mask \intersect host_bits)) \ (mask \ host_bits)

\* Mutant: the bits of CR4 handed over to the guest keep the VMM's values.
vm_cr_set_cr0_KeepCr4(v, value, werr) ==
    LET cr == v.gs.cr
        taken == IF "PG" \in value /\ "PG" \notin cr.cr0_shadow
                 THEN [Set(v, "cr3", cr.cr3_guest) EXCEPT
                          !.gs.cr.cr4_mask = @ \ {"PSE", "PAE"}, !.gs.cr3_exiting = FALSE]
                 ELSE v
        shadowed == [taken EXCEPT !.gs.cr.cr0_shadow = value]
    IN  [v |-> Set(shadowed, "cr0", apply_cr_bits(value, cr.cr0_mask, cr.cr0_host_bits)),
         ret |-> 0]

vm_cr_set_cr0(v, value, werr) ==
    LET cr == v.gs.cr
        enabling == "PG" \in value /\ "PG" \notin cr.cr0_shadow
        new_mask == cr.cr4_mask \ {"PSE", "PAE"}
        cr4 == apply_cr_bits(Value(v, "cr4"), cr.cr4_mask \ new_mask, cr.cr4_shadow)
        masked == [Read(v, "cr4") EXCEPT !.gs.cr.cr4_mask = new_mask]
        paging == [Set(Set(masked, "cr4", cr4), "cr3", cr.cr3_guest)
                     EXCEPT !.gs.cr3_exiting = FALSE]
        taken == IF enabling THEN paging ELSE v
        shadowed == [taken EXCEPT !.gs.cr.cr0_shadow = value]
        disabling == "PG" \notin value /\ "PG" \in cr.cr0_shadow
    IN  IF RESERVED \in value \/ disabling THEN [v |-> v, ret |-> -1]
        ELSE IF enabling /\ werr = "mask" THEN [v |-> masked, ret |-> -1]
        ELSE IF werr = "shadow" THEN [v |-> shadowed, ret |-> -1]
        ELSE [v |-> Set(shadowed, "cr0", apply_cr_bits(value, cr.cr0_mask, cr.cr0_host_bits)),
              ret |-> 0]

vm_cr_set_cr3(v, value) ==
    LET cached == [v EXCEPT !.gs.cr.cr3_guest = value]
    IN  [v |-> IF "PG" \in v.gs.cr.cr0_shadow THEN Set(cached, "cr3", value) ELSE cached,
         ret |-> 0]

vm_cr_set_cr4(v, value, werr) ==
    LET shadowed == [v EXCEPT !.gs.cr.cr4_shadow = value]
        cr == v.gs.cr
    IN  IF RESERVED \in value THEN [v |-> v, ret |-> -1]
        ELSE IF werr = "shadow" THEN [v |-> shadowed, ret |-> -1]
        ELSE [v |-> Set(shadowed, "cr4", apply_cr_bits(value, cr.cr4_mask, cr.cr4_host_bits)),
              ret |-> 0]

\* mov from CR3: the value goes to a register of the guest
vm_cr_get_cr3(v) == IF "PG" \in v.gs.cr.cr0_shadow THEN Value(v, "cr3") ELSE v.gs.cr.cr3_guest

(***************************************************************************)
(* What the guest reads back from a control register: the read shadow for  *)
(* the bits the VMM owns, the register itself for the others; CR3 through  *)
(* vm_cr_get_cr3 as long as its reads exit.                                *)
(***************************************************************************)
GuestCr0(v) == (v.gs.cr.cr0_shadow \intersect v.gs.cr.cr0_mask)
               \union (v.hw["cr0"] \ v.gs.cr.cr0_mask)
GuestCr4(v) == (v.gs.cr.cr4_shadow \intersect v.gs.cr.cr4_mask)
               \union (v.hw["cr4"] \ v.gs.cr.cr4_mask)
GuestCr3(v) == IF v.gs.cr3_exiting THEN vm_cr_get_cr3(v) ELSE v.hw["cr3"]
=============================================================================
