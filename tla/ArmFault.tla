------------------------------- MODULE ArmFault -------------------------------
(***************************************************************************)
(* The fault object of an ARM vcpu: libsel4vm/src/arch/arm/fault.c with    *)
(* sel4_arch/arm_hyp/fault.c, guest_vcpu_fault_arch.c and                  *)
(* guest_arm_context.c.  A fault is filled in lazily: content says which   *)
(* of its fields are loaded, and the getters load what is missing.  A      *)
(* getter is an operator from the vcpu to the vcpu in which the field is   *)
(* loaded; the value is then read from the record.                         *)
(*                                                                         *)
(* A vcpu v has the fault, the registers in its TCB, the registers banked  *)
(* in the VCPU object, the message of the current exit (with the           *)
(* instruction found at the PC), whether the reply capability slot is      *)
(* full, the number of replies sent for this exit, and dead: an assertion  *)
(* of the VMM has failed.  A word is four byte lanes; a byte is the triple *)
(* of the register or device it was first seen in and its lane, since the  *)
(* code only moves bytes.  The build is 32 bit, with assertions on.        *)
(***************************************************************************)
EXTENDS Integers

CONSTANT Errata766422      \* PLAT_EXYNOS5250: the syndrome of a Thumb store has no Rt

Lanes == 0..3
ZeroByte == <<"0", 0, 0>>
Zero == [i \in Lanes |-> ZeroByte]
Word(origin, n) == [i \in Lanes |-> <<origin, n, i>>]
Masked(w, m) == [i \in Lanes |-> IF i \in m THEN w[i] ELSE ZeroByte]
Merge(old, new, m) == [i \in Lanes |-> IF i \in m THEN new[i] ELSE old[i]]
Right(w, k) == [i \in Lanes |-> IF i + k \in Lanes THEN w[i + k] ELSE ZeroByte]
Left(w, k) == [i \in Lanes |-> IF i - k \in Lanes THEN w[i - k] ELSE ZeroByte]

Rts == {0, 1, 2, 3, 8, 13, 14}
Banked == ((8..14) \cap Rts) \X {"fiq"} \cup {13, 14} \X {"irq", "svc", "abt", "und"}

\* What a fetch that failed leaves in the fault: the word 0.
NoInst == [is32 |-> FALSE, wide |-> FALSE, class |-> "other", rt |-> 0]
NoRegs == [r |-> [rt \in Rts |-> Zero], pc |-> 0, thumb |-> FALSE, mode |-> "svc"]
NoFsr == [valid |-> FALSE, write |-> FALSE, rt |-> 0, width |-> 4, inst32 |-> FALSE]

\* The calloc'ed fault of a new vcpu.
fault_init == [type |-> "DATA", stage |-> 0, content |-> {}, width |-> 0, data |-> Zero,
               base_addr |-> 0, addr |-> 0, fsr |-> NoFsr, instruction |-> NoInst,
               regs |-> NoRegs, pmode |-> "usr"]

fault_handled(v) == v.fault.stage = 0
fault_is_data(v) == v.fault.type = "DATA"
fault_is_read(v) == ~v.fault.fsr.write

assert(v, condition) == [v EXCEPT !.dead = @ \/ ~condition]
Has(v, what) == what \in v.fault.content

fault_get_ctx(v) ==
    IF Has(v, "REGS") THEN v
    ELSE [v EXCEPT !.fault.regs = v.tcb, !.fault.content = @ \cup {"REGS"}]
fault_set_ctx(v, ctx) == [v EXCEPT !.fault.regs = ctx, !.fault.content = @ \cup {"REGS"}]

(***************************************************************************)
(* Decoding.  inst.is32 is thumb_is_32bit_instruction of the word as       *)
(* fetched, inst.wide the same test on the word with its halves swapped,   *)
(* which is the one decode_instruction makes; it holds of a doubleword     *)
(* access whose first register is 14.  decode_instruction has set          *)
(* CONTENT_STAGE before it asks whether it is set, so an access is never   *)
(* in two stages.                                                          *)
(***************************************************************************)
Fetched(v) ==
    [v EXCEPT !.fault.instruction = v.msg.inst, !.fault.content = @ \cup {"INST"},
              !.fault.fsr.inst32 = @ \/ ~v.fault.regs.thumb \/ v.msg.inst.is32]
maybe_fetch_fault_instruction(v) ==
    IF Has(v, "INST") \/ ~v.msg.fetch THEN v ELSE Fetched(fault_get_ctx(v))

Decodable(v) == v.fault.regs.thumb /\ v.fault.instruction.wide /\ v.fault.instruction.class = "ldrd"
Decoded(v) ==
    LET w == [v EXCEPT !.fault.stage = 1, !.fault.content = @ \cup {"STAGE"}]
    IN  IF Decodable(v)
        THEN [w EXCEPT !.fault.fsr.inst32 = TRUE, !.fault.addr = v.fault.base_addr + 4]
        ELSE assert(w, FALSE)
decode_instruction(v) == Decoded(fault_get_ctx(maybe_fetch_fault_instruction(v)))

HAS_ERRATA766422(v) == Errata766422 /\ v.fault.fsr.write /\ v.fault.regs.thumb
errata766422_get_rt(v) == assert(v, Has(v, "INST") /\ v.fault.instruction.class = "store")

WithMode(v) ==
    IF Has(v, "PMODE") THEN v
    ELSE [v EXCEPT !.fault.pmode = v.fault.regs.mode, !.fault.content = @ \cup {"PMODE"}]
RtDecoded(v) ==
    IF ~v.fault.fsr.valid THEN decode_instruction(v)
    ELSE IF HAS_ERRATA766422(v) THEN errata766422_get_rt(maybe_fetch_fault_instruction(v))
    ELSE v
get_rt(v) == RtDecoded(WithMode(fault_get_ctx(v)))
\* The register number get_rt returns, once v went through it.
Rt(v) ==
    IF ~v.fault.fsr.valid THEN v.fault.instruction.rt + 1
    ELSE IF HAS_ERRATA766422(v) THEN v.fault.instruction.rt
    ELSE v.fault.fsr.rt

\* seL4_VCPUReg_Num, "the user context", is the bank usr.
decode_vcpu_reg(rt, pmode) ==
    IF <<rt, pmode>> \in Banked THEN <<rt, pmode>> ELSE <<rt, "usr">>

Register(v, reg) ==
    IF reg = <<15, "usr">> THEN Word("pc", 0)
    ELSE IF reg[2] = "usr" THEN v.fault.regs.r[reg[1]] ELSE v.bank[reg]
decode_rt(v) == Register(v, decode_vcpu_reg(Rt(v), v.fault.pmode))
Write(v, reg, w) ==
    IF reg[2] = "usr" THEN [v EXCEPT !.fault.regs.r[reg[1]] = w] ELSE [v EXCEPT !.bank[reg] = w]

(***************************************************************************)
(* Width, mask and data.                                                   *)
(***************************************************************************)
fault_get_width(v) ==
    IF Has(v, "WIDTH") THEN v
    ELSE IF v.fault.fsr.valid
    THEN [v EXCEPT !.fault.width = v.fault.fsr.width, !.fault.content = @ \cup {"WIDTH"}]
    ELSE decode_instruction(v)
\* Zero for the width -1 of a prefetch or of a decoded instruction.
fault_get_width_size(v) == IF v.fault.width \in {1, 2, 4} THEN v.fault.width ELSE 0

Lane(v) == v.fault.addr % 4
MaskLanes(v) == {Lane(v) + j : j \in 0 .. fault_get_width_size(v) - 1} \cap Lanes
MaskChecked(v) ==
    assert(v, fault_get_width_size(v) # 0 /\ v.fault.addr % fault_get_width_size(v) = 0)
fault_get_data_mask(v) == MaskChecked(fault_get_width(v))

fault_set_data(v, w) == [v EXCEPT !.fault.data = w, !.fault.content = @ \cup {"DATA"}]
DataLoaded(v) == IF v.dead THEN v ELSE fault_set_data(v, decode_rt(v))
fault_get_data(v) == IF Has(v, "DATA") THEN v ELSE DataLoaded(get_rt(v))

\* The value fault_emulate and emulate_vcpu_fault return, once v is Ready.
Ready(v) == fault_get_data(fault_get_data_mask(v))
fault_emulate(v, old) ==
    LET m == MaskLanes(v)
    IN  IF fault_is_read(v)
        THEN Merge(old, Right(Masked(v.fault.data, m), Lane(v)), {i - Lane(v) : i \in m})
        ELSE Merge(old, Left(v.fault.data, Lane(v)), m)

(***************************************************************************)
(* The ends of a fault.  A reply goes to the capability in the slot, if    *)
(* there is one, and uses it up.                                           *)
(***************************************************************************)
abandon_fault(v) == v
Reply(v) == [v EXCEPT !.cap = FALSE, !.replies = IF v.cap THEN @ + 1 ELSE @]
restart_fault(v) == abandon_fault(Reply([v EXCEPT !.fault.stage = 0]))

fault_is_32bit_instruction(v) ==
    IF v.fault.type = "VCPU" THEN ~v.fault.regs.thumb ELSE v.fault.fsr.inst32
WithLength(v) ==
    IF v.fault.type # "VCPU" /\ ~v.fault.fsr.valid THEN fault_get_width(v) ELSE v
WriteBack(v) ==
    LET regs == [v.fault.regs EXCEPT !.pc = @ + IF fault_is_32bit_instruction(v) THEN 4 ELSE 2]
    IN  restart_fault([v EXCEPT !.fault.regs = regs, !.tcb = regs])
ignore_fault(v) == WriteBack(WithLength(fault_get_ctx(v)))

Load(v) ==
    IF v.dead THEN v
    ELSE Write(v, decode_vcpu_reg(Rt(v), v.fault.pmode), fault_emulate(v, decode_rt(v)))
StageDone(v) ==
    IF v.dead \/ v.fault.stage <= 0 THEN assert(v, FALSE)
    ELSE IF v.fault.stage > 1
    THEN [v EXCEPT !.fault.stage = @ - 1, !.fault.content = @ \ {"DATA"}]
    ELSE ignore_fault([v EXCEPT !.fault.stage = 0])
advance_fault(v) ==
    IF fault_is_data(v) /\ fault_is_read(v) THEN StageDone(Load(Ready(get_rt(v)))) ELSE StageDone(v)

(***************************************************************************)
(* The start of a fault.  saveCaller fails when the slot is still full.    *)
(***************************************************************************)
SaveCaller(v) == [assert(v, ~v.cap) EXCEPT !.cap = TRUE]
new_vcpu_fault(v) ==
    SaveCaller([assert(v, fault_handled(v)) EXCEPT !.fault = [@ EXCEPT
        !.type = "VCPU", !.fsr = v.msg.fsr, !.instruction = NoInst,
        !.data = Zero, !.width = -1, !.content = {}, !.stage = 1]])

NewContent(msg) ==
    IF msg.prefetch THEN {"DATA", "WIDTH"}
    ELSE (IF msg.fsr.write THEN {} ELSE {"DATA"}) \cup (IF msg.fsr.valid THEN {"STAGE"} ELSE {})
NewStage(v) ==
    IF v.msg.prefetch THEN v.fault.stage ELSE IF v.msg.fsr.valid THEN 1 ELSE -1
\* Mutant: what the last fault had loaded still counts as loaded.
new_memory_fault_KeepContent(v) ==
    SaveCaller([assert(v, fault_handled(v)) EXCEPT !.fault = [@ EXCEPT
        !.type = IF v.msg.prefetch THEN "PREFETCH" ELSE "DATA",
        !.base_addr = v.msg.addr, !.addr = v.msg.addr, !.fsr = v.msg.fsr,
        !.instruction = NoInst, !.data = Zero, !.width = -1,
        !.content = @ \cup NewContent(v.msg), !.stage = NewStage(v)]])
new_memory_fault(v) ==
    SaveCaller([assert(v, fault_handled(v)) EXCEPT !.fault = [@ EXCEPT
        !.type = IF v.msg.prefetch THEN "PREFETCH" ELSE "DATA",
        !.base_addr = v.msg.addr, !.addr = v.msg.addr, !.fsr = v.msg.fsr,
        !.instruction = NoInst, !.data = Zero, !.width = -1,
        !.content = NewContent(v.msg), !.stage = NewStage(v)]])

(***************************************************************************)
(* The registers of a vcpu as the rest of the VMM reads and writes them.   *)
(***************************************************************************)
vm_get_thread_context(v) == IF fault_handled(v) THEN v.tcb ELSE fault_get_ctx(v).fault.regs
vm_set_thread_context(v, ctx) ==
    IF fault_handled(v) THEN [v EXCEPT !.tcb = ctx] ELSE fault_set_ctx(v, ctx)
=============================================================================
