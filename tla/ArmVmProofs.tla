---------------------------- MODULE ArmVmProofs -----------------------------
(***************************************************************************)
(* Proofs about ArmVm, for every set of vcpus and every set of messages:   *)
(* what the guest is told of a PSCI CPU_ON is true.  A handler of a fault  *)
(* keeps the vcpu the core it is, and answers only when the fault is over  *)
(* (Over); so a vcpu that does not run has no fault, a vcpu with a target  *)
(* is online, and a vcpu that is online runs, unless a kernel invocation   *)
(* has failed (VcpuOk).                                                    *)
(***************************************************************************)
EXTENDS ArmVm, TLAPS, WellFoundedInduction

\* Leaves that name no prover go to Zenon.
USE ZenonT(30)

(***************************************************************************)
(* What the operations on a fault leave alone                              *)
(***************************************************************************)
VcpuFields == {"fault", "tcb", "bank", "msg", "cap", "replies", "dead", "target_cpu", "online", "running"}
FaultFields == {"type", "stage", "content", "width", "data", "base_addr", "addr", "fsr", "instruction",
                "regs", "pmode"}
IsVcpu(v) == DOMAIN v = VcpuFields /\ DOMAIN v.fault = FaultFields

\* From v to w the vcpu stays the core it was, in the exit it was in.
SameCore(v, w) ==
    /\ IsVcpu(w) /\ w.msg = v.msg /\ w.target_cpu = v.target_cpu
    /\ w.online = v.online /\ w.running = v.running
\* And it was not answered,
Quiet(v, w) == SameCore(v, w) /\ w.replies = v.replies
\* or its fault is over.
Over(v, w) == SameCore(v, w) /\ (w.replies = v.replies \/ w.fault.stage = 0)

\* Quiet steps compose.
LEMMA QuietTrans ==
  ASSUME NEW u, NEW v, NEW w, Quiet(u, v), Quiet(v, w)
  PROVE  Quiet(u, w)
BY DEF Quiet, SameCore

\* A quiet step before the end of a fault.
LEMMA QuietOver ==
  ASSUME NEW u, NEW v, NEW w, Quiet(u, v), Over(v, w)
  PROVE  Over(u, w)
BY DEF Quiet, Over, SameCore

\* The simple operations on the fault object.
LEMMA FaultOps ==
  ASSUME NEW v, IsVcpu(v)
  PROVE  /\ Quiet(v, v)
         /\ \A c : Quiet(v, assert(v, c))
         /\ Quiet(v, fault_get_ctx(v))
         /\ \A ctx : Quiet(v, fault_set_ctx(v, ctx))
         /\ \A x : Quiet(v, fault_set_data(v, x))
         /\ Quiet(v, WithMode(v))
         /\ Quiet(v, Fetched(v))
         /\ \A reg, x : Quiet(v, Write(v, reg, x))
         /\ Quiet(v, SaveCaller(v))
<1> USE DEF Quiet, SameCore, IsVcpu, VcpuFields, FaultFields
<1>1. Quiet(v, v) BY SMTT(30)
<1>2. ASSUME NEW c PROVE Quiet(v, assert(v, c)) BY SMTT(30) DEF assert
<1>3. Quiet(v, fault_get_ctx(v)) BY SMTT(30) DEF fault_get_ctx
<1>4. ASSUME NEW ctx PROVE Quiet(v, fault_set_ctx(v, ctx)) BY SMTT(30) DEF fault_set_ctx
<1>5. ASSUME NEW x PROVE Quiet(v, fault_set_data(v, x)) BY SMTT(30) DEF fault_set_data
<1>6. Quiet(v, WithMode(v)) BY SMTT(30) DEF WithMode
<1>7. Quiet(v, Fetched(v)) BY SMTT(30) DEF Fetched
<1>8. ASSUME NEW reg, NEW x PROVE Quiet(v, Write(v, reg, x)) BY SMTT(30) DEF Write
<1>9. Quiet(v, SaveCaller(v)) BY SMTT(30) DEF SaveCaller, assert
<1> HIDE DEF Quiet
<1> QED BY <1>1, <1>2, <1>3, <1>4, <1>5, <1>6, <1>7, <1>8, <1>9

\* Decoding an instruction.
LEMMA DecodeQuiet ==
  ASSUME NEW v, IsVcpu(v)
  PROVE  Quiet(v, maybe_fetch_fault_instruction(v)) /\ Quiet(v, decode_instruction(v))
<1> DEFINE m == maybe_fetch_fault_instruction(v)
           c == fault_get_ctx(m)
<1>1. Quiet(v, fault_get_ctx(v)) /\ Quiet(v, v) BY FaultOps
<1>2. Quiet(fault_get_ctx(v), Fetched(fault_get_ctx(v))) BY <1>1, FaultOps DEF Quiet, SameCore
<1>3. Quiet(v, Fetched(fault_get_ctx(v))) BY <1>1, <1>2, QuietTrans
<1>4. Quiet(v, m) BY <1>1, <1>3, SMTT(30) DEF maybe_fetch_fault_instruction
<1> HIDE DEF m
<1>5. Quiet(v, c) BY <1>4, FaultOps, QuietTrans DEF Quiet, SameCore
<1> HIDE DEF c
<1>6. IsVcpu(c) BY <1>5, SMTT(30) DEF Quiet, SameCore
<1>7. Quiet(c, Decoded(c))
  BY <1>6, SMTT(30) DEF Decoded, assert, Quiet, SameCore, IsVcpu, VcpuFields, FaultFields
<1> QED BY <1>4, <1>5, <1>7, QuietTrans DEF decode_instruction, m, c

\* Finding the register, the width and the data of an access.
LEMMA GettersQuiet ==
  ASSUME NEW v, IsVcpu(v)
  PROVE  /\ Quiet(v, get_rt(v)) /\ Quiet(v, fault_get_width(v)) /\ Quiet(v, fault_get_data_mask(v))
         /\ Quiet(v, fault_get_data(v)) /\ Quiet(v, Ready(v))
<1>1. ASSUME NEW u, IsVcpu(u) PROVE Quiet(u, get_rt(u))
  <2> DEFINE c == fault_get_ctx(u)
             w == WithMode(c)
             m == maybe_fetch_fault_instruction(w)
  <2>1. Quiet(u, c) BY <1>1, FaultOps
  <2>2. Quiet(c, w) BY <2>1, FaultOps DEF Quiet, SameCore
  <2>3. Quiet(u, w) BY <2>1, <2>2, QuietTrans
  <2> HIDE DEF w
  <2>4. IsVcpu(w) BY <2>3, SMTT(30) DEF Quiet, SameCore
  <2>5. Quiet(w, m) /\ Quiet(w, decode_instruction(w)) /\ Quiet(w, w) BY <2>4, DecodeQuiet, FaultOps
  <2>6. IsVcpu(m) BY <2>5, SMTT(30) DEF Quiet, SameCore
  <2>7. Quiet(m, errata766422_get_rt(m)) BY <2>6, FaultOps DEF errata766422_get_rt
  <2>8. Quiet(w, errata766422_get_rt(m)) BY <2>5, <2>7, QuietTrans
  <2>9. Quiet(w, RtDecoded(w)) BY <2>5, <2>8, SMTT(30) DEF RtDecoded
  <2> QED BY <2>3, <2>9, QuietTrans DEF get_rt, w
<1>2. ASSUME NEW u, IsVcpu(u) PROVE Quiet(u, fault_get_width(u))
  <2>1. Quiet(u, decode_instruction(u)) BY <1>2, DecodeQuiet
  <2> QED BY <1>2, <2>1, SMTT(30) DEF fault_get_width, Quiet, SameCore, IsVcpu, VcpuFields, FaultFields
<1>3. ASSUME NEW u, IsVcpu(u) PROVE Quiet(u, fault_get_data(u))
  <2> DEFINE w == get_rt(u)
  <2>1. Quiet(u, w) BY <1>1, <1>3
  <2> HIDE DEF w
  <2>2. IsVcpu(w) BY <2>1, SMTT(30) DEF Quiet, SameCore
  <2>3. Quiet(w, w) /\ \A x : Quiet(w, fault_set_data(w, x)) BY <2>2, FaultOps
  <2>4. Quiet(w, DataLoaded(w)) BY <2>3, SMTT(30) DEF DataLoaded
  <2>5. Quiet(u, DataLoaded(w)) /\ Quiet(u, u) BY <1>3, <2>1, <2>4, QuietTrans, FaultOps
  <2> QED BY <2>5, SMTT(30) DEF fault_get_data, w
<1>4. Quiet(v, fault_get_data_mask(v))
  <2> DEFINE x == fault_get_width(v)
  <2>1. Quiet(v, x) BY <1>2
  <2> HIDE DEF x
  <2>2. IsVcpu(x) BY <2>1, SMTT(30) DEF Quiet, SameCore
  <2>3. Quiet(x, MaskChecked(x)) BY <2>2, FaultOps DEF MaskChecked
  <2> QED BY <2>1, <2>3, QuietTrans DEF fault_get_data_mask, x
<1>5. Quiet(fault_get_data_mask(v), Ready(v)) BY <1>3, <1>4 DEF Ready, Quiet, SameCore
<1> QED BY <1>1, <1>2, <1>3, <1>4, <1>5, QuietTrans

\* The ends of a fault.
LEMMA EndsOver ==
  ASSUME NEW v, IsVcpu(v)
  PROVE  /\ SameCore(v, restart_fault(v)) /\ restart_fault(v).fault.stage = 0
         /\ SameCore(v, ignore_fault(v)) /\ ignore_fault(v).fault.stage = 0
<1>1. ASSUME NEW u, IsVcpu(u)
      PROVE  SameCore(u, restart_fault(u)) /\ restart_fault(u).fault.stage = 0
  BY <1>1, SMTT(30) DEF restart_fault, abandon_fault, Reply, SameCore, IsVcpu, VcpuFields, FaultFields
<1>2. ASSUME NEW u, IsVcpu(u) PROVE SameCore(u, WriteBack(u)) /\ WriteBack(u).fault.stage = 0
  <2> DEFINE regs == [u.fault.regs EXCEPT !.pc = @ + IF fault_is_32bit_instruction(u) THEN 4 ELSE 2]
             w == [u EXCEPT !.fault.regs = regs, !.tcb = regs]
  <2>1. WriteBack(u) = restart_fault(w) BY SMTT(30) DEF WriteBack
  <2> HIDE DEF regs
  <2>2. SameCore(u, w) BY <1>2, SMTT(30) DEF SameCore, IsVcpu, VcpuFields, FaultFields
  <2> HIDE DEF w
  <2>3. SameCore(w, restart_fault(w)) /\ restart_fault(w).fault.stage = 0 BY <1>1, <2>2 DEF SameCore
  <2> QED BY <2>1, <2>2, <2>3 DEF SameCore
<1> DEFINE c == fault_get_ctx(v)
           w == WithLength(c)
<1>3. Quiet(v, c) BY FaultOps
<1> HIDE DEF c
<1>4. IsVcpu(c) BY <1>3, SMTT(30) DEF Quiet, SameCore
<1>5. Quiet(c, fault_get_width(c)) /\ Quiet(c, c) BY <1>4, GettersQuiet, FaultOps
<1>6. Quiet(c, w) BY <1>5, SMTT(30) DEF WithLength
<1> HIDE DEF w
<1>7. SameCore(w, WriteBack(w)) /\ WriteBack(w).fault.stage = 0 BY <1>2, <1>6 DEF Quiet, SameCore
<1>8. SameCore(v, ignore_fault(v)) /\ ignore_fault(v).fault.stage = 0
  BY <1>3, <1>6, <1>7 DEF Quiet, SameCore, ignore_fault, c, w
<1> QED BY <1>1, <1>8

\* Moving on to the next stage, or past the instruction.
LEMMA AdvanceOver ==
  ASSUME NEW v, IsVcpu(v)
  PROVE  Over(v, advance_fault(v))
<1>1. ASSUME NEW u, IsVcpu(u) PROVE Over(u, StageDone(u))
  <2> DEFINE w == [u EXCEPT !.fault.stage = 0]
             next == [u EXCEPT !.fault.stage = @ - 1, !.fault.content = @ \ {"DATA"}]
             none == assert(u, FALSE)
             end == ignore_fault(w)
  <2>0. StageDone(u) \in {none, next, end}
    <3> HIDE DEF none, next, end
    <3> QED BY SMTT(30) DEF StageDone, none, next, end
  <2>1. Quiet(u, w) /\ IsVcpu(w) BY <1>1, SMTT(30) DEF Quiet, SameCore, IsVcpu, VcpuFields, FaultFields
  <2> HIDE DEF w
  <2>2. SameCore(w, ignore_fault(w)) /\ ignore_fault(w).fault.stage = 0 BY <2>1, EndsOver
  <2>3. Over(u, end) BY <2>1, <2>2 DEF Quiet, Over, SameCore
  <2>4. Over(u, none) BY <1>1, FaultOps DEF Quiet, Over
  <2>5. Over(u, next)
    BY <1>1, SMTT(30) DEF Over, SameCore, IsVcpu, VcpuFields, FaultFields
  <2> HIDE DEF none, next, end
  <2> QED BY <2>0, <2>3, <2>4, <2>5
<1> DEFINE g == get_rt(v)
           r == Ready(g)
           l == Load(r)
<1>2. Quiet(v, g) BY GettersQuiet
<1> HIDE DEF g
<1>3. IsVcpu(g) BY <1>2, SMTT(30) DEF Quiet, SameCore
<1>4. Quiet(g, r) BY <1>3, GettersQuiet
<1> HIDE DEF r
<1>5. IsVcpu(r) BY <1>4, SMTT(30) DEF Quiet, SameCore
<1>6. Quiet(r, r) /\ \A reg, x : Quiet(r, Write(r, reg, x)) BY <1>5, FaultOps
<1>7. Quiet(r, l) BY <1>6, SMTT(30) DEF Load
<1> HIDE DEF l
<1>8. Over(l, StageDone(l)) BY <1>1, <1>7 DEF Quiet, SameCore
<1>9. Over(v, StageDone(l)) BY <1>2, <1>4, <1>7, <1>8, QuietTrans, QuietOver
<1>10. Over(v, StageDone(v)) BY <1>1
<1> QED BY <1>9, <1>10, SMTT(30) DEF advance_fault, l, r, g

(***************************************************************************)
(* The handlers of memory aborts                                           *)
(***************************************************************************)
\* What a handler of device faults does to the vcpu.
Fate(v, r) == Over(v, r.v) /\ r.res \in Results

\* A handler that ends with advance_vcpu_fault.
LEMMA HandledFate ==
  ASSUME NEW v
  PROVE  \A u, e : Quiet(v, u) => Fate(v, Handled(u, e))
<1> SUFFICES ASSUME NEW u, NEW e, Quiet(v, u) PROVE Fate(v, Handled(u, e)) OBVIOUS
<1>1. Over(v, advance_fault(u)) BY AdvanceOver, QuietOver DEF Quiet, SameCore
<1>2. Handled(u, e).v = advance_fault(u) /\ Handled(u, e).res = "HANDLED" BY SMTT(30) DEF Handled, Result
<1> QED BY <1>1, <1>2 DEF Fate, Results

\* One that leaves the fault as it is.
LEMMA ResultFate ==
  ASSUME NEW v, NEW u, NEW e, Quiet(v, u), NEW res \in Results
  PROVE  Fate(v, Result(u, e, res))
<1>1. Result(u, e, res).v = u /\ Result(u, e, res).res = res BY SMTT(30) DEF Result
<1> QED BY <1>1 DEF Fate, Quiet, Over

\* What the handlers do before they end.
LEMMA HandlerOps ==
  ASSUME NEW v, IsVcpu(v), NEW d
  PROVE  /\ Quiet(v, v) /\ Quiet(v, ReadFrom(v, d)) /\ Quiet(v, Ready(v)) /\ Quiet(v, fault_get_data(v))
         /\ Quiet(v, fault_get_data_mask(v)) /\ Quiet(v, SdhcWord(v))
         /\ \A x : Quiet(v, fault_set_data(v, x))
BY FaultOps, GettersQuiet DEF ReadFrom, SdhcWord

\* The first group of devices.
LEMMA RegisterFates ==
  ASSUME NEW v, IsVcpu(v), NEW d
  PROVE  /\ Fate(v, handle_vsysreg_fault(v, d)) /\ Fate(v, handle_listening_fault(v, d))
         /\ Fate(v, handle_listening_ram_fault(v, d)) /\ Fate(v, handle_vgic_dist_fault(v, d))
<1> DEFINE r == ReadFrom(v, d)
           m == fault_get_data_mask(v)
           y == Ready(v)
<1>1. Quiet(v, r) /\ Quiet(v, m) /\ Quiet(v, y) BY HandlerOps
<1> HIDE DEF r, m, y
<1>2. Quiet(r, Ready(r)) BY <1>1, HandlerOps DEF Quiet, SameCore
<1>3. Fate(v, Handled(r, d)) /\ Fate(v, Handled(Ready(r), d))
  BY <1>1, <1>2, HandledFate, QuietTrans
<1>4. Fate(v, Emulated(y, d)) BY <1>1, HandledFate DEF Emulated
<1>5. Fate(v, DistRead(m, d))
  <2>1. \A x : Quiet(m, fault_set_data(m, x)) BY <1>1, HandlerOps DEF Quiet, SameCore
  <2> QED BY <1>1, <2>1, HandledFate, QuietTrans DEF DistRead
<1>6. Fate(v, DistWrite(y, d))
  <2>1. SameCore(y, ignore_fault(y)) /\ ignore_fault(y).fault.stage = 0
    BY <1>1, EndsOver DEF Quiet, SameCore
  <2>2. Over(v, ignore_fault(y)) BY <1>1, <2>1 DEF Quiet, SameCore, Over
  <2>3. DistWrite(y, d).v = ignore_fault(y) /\ DistWrite(y, d).res = "HANDLED" BY SMTT(30) DEF DistWrite, Result
  <2> QED BY <2>2, <2>3 DEF Fate, Results
<1> QED
  BY <1>3, <1>4, <1>5, <1>6, SMTT(30)
  DEF handle_vsysreg_fault, handle_listening_fault, handle_listening_ram_fault,
      handle_vgic_dist_fault, r, m, y

\* The second group.
LEMMA DeviceFates ==
  ASSUME NEW v, IsVcpu(v), NEW d
  PROVE  /\ Fate(v, handle_gac_fault(v, d)) /\ Fate(v, handle_gf_fault(v, d))
         /\ Fate(v, handle_vpower_fault(v, d)) /\ Fate(v, handle_sdhc_fault(v, d))
<1> DEFINE r == ReadFrom(v, d)
           y == Ready(v)
           g == fault_get_data(v)
           a == assert(v, v.msg.addr % 4 = 0)
           s == SdhcWord(v)
<1>1. /\ Quiet(v, v) /\ Quiet(v, r) /\ Quiet(v, y) /\ Quiet(v, g) /\ Quiet(v, a) /\ Quiet(v, s)
      /\ \A x : Quiet(v, fault_set_data(v, x))
  BY HandlerOps, FaultOps
<1> HIDE DEF r, y, g, a, s
<1>2. Fate(v, Handled(r, d)) /\ Fate(v, Handled(v, d)) BY <1>1, HandledFate
<1>3. Fate(v, handle_gac_fault(v, d))
  <2>1. Quiet(a, Ready(a)) BY <1>1, HandlerOps DEF Quiet, SameCore
  <2>2. Fate(v, GacWritten(Ready(a), d)) BY <1>1, <2>1, HandledFate, QuietTrans DEF GacWritten
  <2> QED BY <1>2, <2>2, SMTT(30) DEF handle_gac_fault, r, a
<1>4. Fate(v, handle_gf_fault(v, d))
  <2> DEFINE got == fault_set_data(v, IF v.msg.dev.action = "no_fn" THEN Zero ELSE read_fn(d, v.msg.addr))
             data == IF v.msg.dev.action = "no_fn" THEN v ELSE g
  <2>1. Quiet(v, got) BY <1>1
  <2>2. Quiet(v, data) BY <1>1, SMTT(30)
  <2> HIDE DEF got, data
  <2>3. Fate(v, Handled(got, d)) /\ Fate(v, Forwarded(data, d)) BY <2>1, <2>2, HandledFate DEF Forwarded
  <2> QED BY <2>3, SMTT(30) DEF handle_gf_fault, got, data, g
<1>5. Fate(v, handle_vpower_fault(v, d))
  <2>1. ASSUME NEW u, Quiet(v, u) PROVE Fate(v, SoftwareReset(u, d)) /\ Fate(v, PowerDown(u, d))
    <3>1. Fate(v, Result(u, d, "ERROR")) BY <2>1, ResultFate DEF Results
    <3>2. Fate(v, Handled(u, d)) /\ Fate(v, Emulated(u, d)) BY <2>1, HandledFate DEF Emulated
    <3> QED BY <3>1, <3>2, SMTT(30) DEF SoftwareReset, PowerDown, Callback
  <2>2. Fate(v, SoftwareReset(g, d)) /\ Fate(v, PowerDown(y, d)) BY <1>1, <2>1
  <2> QED BY <1>2, <2>2, SMTT(30) DEF handle_vpower_fault, r, g, y
<1>6. Fate(v, handle_sdhc_fault(v, d))
  <2>0. IsVcpu(s) BY <1>1, SMTT(30) DEF Quiet, SameCore
  <2>1. Quiet(s, ReadFrom(s, d)) /\ Quiet(s, fault_get_data(s)) BY <2>0, HandlerOps
  <2>2. Fate(v, Handled(ReadFrom(s, d), d)) /\ Fate(v, SdhcStored(fault_get_data(s), d))
    BY <1>1, <2>1, HandledFate, QuietTrans DEF SdhcStored
  <2> QED BY <1>2, <2>2, SMTT(30) DEF handle_sdhc_fault, s
<1> QED BY <1>3, <1>4, <1>5, <1>6

\* The UART, which leaves an access behind its registers to the caller.
LEMMA UartFate ==
  ASSUME NEW v, IsVcpu(v), NEW d
  PROVE  Fate(v, handle_vuart_fault(v, d))
<1> DEFINE u == fault_get_data_mask(v)
           g == fault_get_data(u)
<1>1. Quiet(v, u) BY HandlerOps
<1> HIDE DEF u
<1>2. IsVcpu(u) BY <1>1, SMTT(30) DEF Quiet, SameCore
<1>3. Quiet(u, ReadFrom(u, d)) /\ Quiet(u, g) /\ \A x : Quiet(u, fault_set_data(u, x))
  BY <1>2, HandlerOps
<1>4. Quiet(v, g) /\ Quiet(v, ReadFrom(u, d)) /\ Quiet(v, fault_set_data(u, Zero))
  BY <1>1, <1>3, QuietTrans
<1>5. Fate(v, Handled(ReadFrom(u, d), d)) /\ Fate(v, Result(fault_set_data(u, Zero), d, "IGNORE"))
  BY <1>4, HandledFate, ResultFate DEF Results
<1> HIDE DEF g
<1>6. \A c : Quiet(g, assert(g, c)) BY <1>4, FaultOps DEF Quiet, SameCore
<1>7. /\ Fate(v, Result(g, d, "HANDLED")) /\ \A e : Fate(v, Handled(g, e))
      /\ \A c, e : Fate(v, Handled(assert(g, c), e))
  BY <1>4, <1>6, QuietTrans, HandledFate, ResultFate DEF Results
<1>8. Fate(v, UartWritten(g, d)) BY <1>7, SMTT(30) DEF UartWritten
<1> QED BY <1>5, <1>8, SMTT(30) DEF handle_vuart_fault, UartAccess, u, g

(***************************************************************************)
(* An exit and its vcpu                                                    *)
(***************************************************************************)
\* The end of a page fault, after a handler.
LEMMA EndedOver ==
  ASSUME NEW v, NEW u, Over(v, u), NEW d, NEW res \in Results
  PROVE  Over(v, Ended(u, d, res).v)
<1>1. IsVcpu(u) BY SMTT(30) DEF Over, SameCore
<1>2. /\ SameCore(u, restart_fault(u)) /\ restart_fault(u).fault.stage = 0
      /\ SameCore(u, ignore_fault(u)) /\ ignore_fault(u).fault.stage = 0
  BY <1>1, EndsOver
<1>3. Over(v, restart_fault(u)) /\ Over(v, ignore_fault(u)) BY <1>2 DEF Over, SameCore
<1>4. Ended(u, d, res).v \in {u, restart_fault(u), ignore_fault(u)}
  BY SMTT(30) DEF Ended, Outcome, Results, abandon_fault
<1> QED BY <1>3, <1>4

\* A new fault is written over the old one.
LEMMA Overwritten ==
  ASSUME NEW v, IsVcpu(v), NEW f, DOMAIN f = DOMAIN v.fault
  PROVE  Quiet(v, [v EXCEPT !.fault = f])
BY SMTT(30) DEF Quiet, SameCore, IsVcpu, VcpuFields, FaultFields

\* A memory abort.
LEMMA AbortOver ==
  ASSUME NEW v, IsVcpu(v), IsMessage(v.msg), v.msg.kind = "abort", NEW d
  PROVE  Over(v, vm_guest_mem_abort_handler(v, d).v)
<1> DEFINE n == new_memory_fault(v)
           u == fault_get_width(n)
           r == vm_memory_handle_fault(u, d)
<1>1. Quiet(v, n)
  <2> DEFINE a == assert(v, fault_handled(v))
             f == [a.fault EXCEPT
                     !.type = IF v.msg.prefetch THEN "PREFETCH" ELSE "DATA",
                     !.base_addr = v.msg.addr, !.addr = v.msg.addr, !.fsr = v.msg.fsr,
                     !.instruction = NoInst, !.data = Zero, !.width = -1,
                     !.content = NewContent(v.msg), !.stage = NewStage(v)]
             b == [a EXCEPT !.fault = f]
  <2>1. Quiet(v, a) BY FaultOps
  <2>2. n = SaveCaller(b) BY SMTT(30) DEF new_memory_fault
  <2> HIDE DEF a
  <2>3. IsVcpu(a) BY <2>1 DEF Quiet, SameCore
  <2>3b. DOMAIN f = DOMAIN a.fault OBVIOUS
  <2> HIDE DEF f
  <2>4. Quiet(a, b) BY <2>3, <2>3b, Overwritten
  <2> HIDE DEF b, n
  <2>5. IsVcpu(b) BY <2>4, SMTT(30) DEF Quiet, SameCore
  <2>6. Quiet(b, n) BY <2>2, <2>5, FaultOps
  <2> QED BY <2>1, <2>4, <2>6, QuietTrans
<1> HIDE DEF n
<1>2. IsVcpu(n) BY <1>1, SMTT(30) DEF Quiet, SameCore
<1>3. Quiet(v, u) BY <1>1, <1>2, GettersQuiet, QuietTrans
<1> HIDE DEF u
<1>4. IsVcpu(u) /\ u.msg = v.msg BY <1>3, SMTT(30) DEF Quiet, SameCore
<1>5. \/ Fate(u, r)
      \/ r = Result(u, d, "UNHANDLED") /\ u.msg.dev.kind = "none"
  <2>1. Fate(u, DeferredMapping(u, d)) /\ Fate(u, passthrough_device_fault(u, d))
    <3>1. Quiet(u, u) BY <1>4, FaultOps
    <3>2. Fate(u, Result(u, d, "ERROR")) /\ Fate(u, Result(u, d, "RESTART"))
      BY <3>1, ResultFate DEF Results
    <3> QED BY <3>2, SMTT(30) DEF DeferredMapping, passthrough_device_fault
  <2>2. /\ Fate(u, handle_vsysreg_fault(u, d)) /\ Fate(u, handle_listening_fault(u, d))
        /\ Fate(u, handle_listening_ram_fault(u, d)) /\ Fate(u, handle_vgic_dist_fault(u, d))
    BY <1>4, RegisterFates
  <2>3. /\ Fate(u, handle_gac_fault(u, d)) /\ Fate(u, handle_gf_fault(u, d))
        /\ Fate(u, handle_vpower_fault(u, d)) /\ Fate(u, handle_sdhc_fault(u, d))
        /\ Fate(u, handle_vuart_fault(u, d))
    BY <1>4, DeviceFates, UartFate
  <2>4. u.msg.dev.kind \in DeviceKinds BY <1>4 DEF IsMessage
  <2> QED BY <2>1, <2>2, <2>3, <2>4, SMTT(30) DEF vm_memory_handle_fault, DeviceKinds
<1> HIDE DEF r
<1>6. Over(u, PageFault(r).v)
  <2>1. CASE Fate(u, r)
    <3>1. Over(u, Ended(r.v, r.d, r.res).v) BY <2>1, EndedOver DEF Fate
    <3>2. PageFault(r) = Ended(r.v, r.d, r.res) BY <2>1, SMTT(30) DEF PageFault, Fate, Results
    <3> QED BY <3>1, <3>2
  <2>2. CASE r = Result(u, d, "UNHANDLED") /\ u.msg.dev.kind = "none"
    <3> DEFINE act == u.msg.dev.action
    <3>1. PageFault(r) = unhandled_memory_fault(u, d) BY <2>2, SMTT(30) DEF PageFault, Result
    <3>2. act \in Results \cup {""} BY <1>4, <2>2 DEF IsMessage
    <3>3. Over(u, u) /\ Over(u, advance_fault(u))
      BY <1>4, FaultOps, AdvanceOver DEF Quiet, Over
    <3>4. Over(u, Ended(advance_fault(u), d, "HANDLED").v) /\ (act \in Results => Over(u, Ended(u, d, act).v))
      BY <3>3, EndedOver DEF Results
    <3>5. Outcome(abandon_fault(u), d, -1).v = u BY SMTT(30) DEF Outcome, abandon_fault
    <3> DEFINE given == Outcome(abandon_fault(u), d, -1)
               moved == Ended(advance_fault(u), d, "HANDLED")
               ended == Ended(u, d, act)
               out == unhandled_memory_fault(u, d)
    <3>6. act \in Results \ {"HANDLED"} => act \in Results /\ act # "" /\ act # "HANDLED" BY DEF Results
    <3>7. act = "" => out = given BY DEF unhandled_memory_fault
    <3>8. act = "HANDLED" => out = moved BY SMTT(30) DEF unhandled_memory_fault
    <3>9. act # "" /\ act # "HANDLED" => out = ended BY DEF unhandled_memory_fault
    <3>10. Over(u, given.v) /\ Over(u, moved.v) /\ (act \in Results => Over(u, ended.v))
      BY <3>3, <3>4, <3>5
    <3> HIDE DEF act, given, moved, ended, out
    <3>11. act = "" \/ act = "HANDLED" \/ act \in Results \ {"HANDLED"} BY <3>2
    <3>12. Over(u, out.v) BY <3>6, <3>7, <3>8, <3>9, <3>10, <3>11
    <3> QED BY <3>1, <3>12 DEF out
  <2> QED BY <1>5, <2>1, <2>2
<1>7. Over(u, Sized(u, d).v)
  <2>1. Over(u, u) BY <1>4, FaultOps DEF Quiet, Over
  <2>2. Outcome(u, d, -1).v = u BY SMTT(30) DEF Outcome
  <2> QED BY <1>6, <2>1, <2>2, SMTT(30) DEF Sized, r
<1> QED BY <1>3, <1>7, QuietOver DEF vm_guest_mem_abort_handler, handle_page_fault, u, n

\* The vcpu of a new vcpu exception.
LEMMA VcpuFault ==
  ASSUME NEW v, IsVcpu(v), NEW n, n = new_vcpu_fault(v)
  PROVE  /\ Quiet(v, n) /\ n.tcb = v.tcb
         /\ n.fault.stage = 1 /\ n.fault.type = "VCPU" /\ n.fault.content = {}
<1> DEFINE a == assert(v, fault_handled(v))
           f == [a.fault EXCEPT !.type = "VCPU", !.fsr = v.msg.fsr, !.instruction = NoInst,
                                !.data = Zero, !.width = -1, !.content = {}, !.stage = 1]
           b == [a EXCEPT !.fault = f]
<1>1. Quiet(v, a) BY FaultOps
<1>2. n = SaveCaller(b) BY SMTT(30) DEF new_vcpu_fault
<1>3. DOMAIN a = VcpuFields /\ a.tcb = v.tcb BY SMTT(30) DEF assert, IsVcpu, VcpuFields
<1> HIDE DEF a
<1>4. IsVcpu(a) BY <1>1 DEF Quiet, SameCore
<1>5. DOMAIN f = DOMAIN a.fault OBVIOUS
<1>6. f.stage = 1 /\ f.type = "VCPU" /\ f.content = {} BY <1>4, SMTT(30) DEF IsVcpu, FaultFields
<1> HIDE DEF f
<1>7. Quiet(a, b) BY <1>4, <1>5, Overwritten
<1>8. b.fault = f /\ b.tcb = v.tcb /\ DOMAIN b = VcpuFields BY <1>3, SMTT(30) DEF VcpuFields
<1> HIDE DEF b
<1>9. IsVcpu(b) BY <1>7 DEF Quiet, SameCore
<1>10. Quiet(b, n) BY <1>2, <1>9, FaultOps
<1>11. n.fault = f /\ n.tcb = v.tcb BY <1>2, <1>8, SMTT(30) DEF SaveCaller, assert, VcpuFields
<1> QED BY <1>1, <1>6, <1>7, <1>10, <1>11, QuietTrans

\* What the registers of a fault are when they are set or first read.
LEMMA ContextFacts ==
  ASSUME NEW v, IsVcpu(v), NEW ctx
  PROVE  /\ fault_set_ctx(v, ctx).fault.stage = v.fault.stage
         /\ fault_set_ctx(v, ctx).fault.type = v.fault.type
         /\ fault_set_ctx(v, ctx).fault.regs = ctx
         /\ "REGS" \in fault_set_ctx(v, ctx).fault.content
         /\ ~Has(v, "REGS") => fault_get_ctx(v).fault.regs = v.tcb
         /\ assert(v, FALSE).dead
<1> DEFINE f(c) == [v.fault EXCEPT !.regs = c, !.content = v.fault.content \cup {"REGS"}]
           x(c) == [v EXCEPT !.fault.regs = c, !.fault.content = v.fault.content \cup {"REGS"}]
<1>1. "fault" \in DOMAIN v /\ "dead" \in DOMAIN v BY SMTT(30) DEF IsVcpu, VcpuFields
<1>2. {"regs", "content", "stage", "type"} \subseteq DOMAIN v.fault BY DEF IsVcpu, FaultFields
<1>3. \A c : x(c).fault = f(c) BY <1>1
<1>4. \A c : f(c).regs = c BY <1>2
<1>5. \A c : f(c).content = v.fault.content \cup {"REGS"} BY <1>2
<1>6. \A c : f(c).stage = v.fault.stage /\ f(c).type = v.fault.type BY <1>2
<1>7. fault_set_ctx(v, ctx) = x(ctx) BY DEF fault_set_ctx
<1>8. ~Has(v, "REGS") => fault_get_ctx(v) = x(v.tcb) BY DEF fault_get_ctx
<1>9. assert(v, FALSE).dead = (v.dead \/ ~FALSE) BY <1>1 DEF assert
<1> HIDE DEF f, x
<1> QED BY <1>3, <1>4, <1>5, <1>6, <1>7, <1>8, <1>9

\* The answer to an SMC call is in r0 when the guest goes on.
SmcAnswered(n, value) == advance_fault(vm_set_thread_context(n, smc_set_return_value(vm_get_thread_context(n), value)))
LEMMA SmcAnswer ==
  ASSUME NEW n, IsVcpu(n), n.fault.stage = 1, n.fault.type = "VCPU", n.fault.content = {},
         NEW msg, n.tcb = Regs(msg), NEW value
  PROVE  /\ Over(n, SmcAnswered(n, value))
         /\ ~SmcAnswered(n, value).dead => SmcAnswered(n, value).tcb.r[0][0][1] = value
<1> DEFINE ctx == smc_set_return_value(vm_get_thread_context(n), value)
           c == fault_set_ctx(n, ctx)
           w == [c EXCEPT !.fault.stage = 0]
<1>1. ctx = [Regs(msg) EXCEPT !.r[0] = Word(value, 0)]
  <2>1. vm_get_thread_context(n) = n.tcb
    <3>1. ~Has(n, "REGS") BY DEF Has
    <3>2. ~fault_handled(n) BY SMTT(30) DEF fault_handled
    <3> QED BY <3>1, <3>2, ContextFacts DEF vm_get_thread_context
  <2> QED BY <2>1 DEF smc_set_return_value
<1>2. ctx.r[0] = Word(value, 0) /\ DOMAIN ctx = {"r", "pc", "thumb", "mode"} BY <1>1, SMTT(30) DEF Regs, Rts
<1>3. vm_set_thread_context(n, ctx) = c BY SMTT(30) DEF vm_set_thread_context, fault_handled
<1> HIDE DEF ctx
<1>4. Quiet(n, c) BY FaultOps
<1>6. Over(n, advance_fault(c)) BY <1>4, AdvanceOver, QuietOver DEF Quiet, SameCore
<1>7. IsVcpu(c) BY <1>4 DEF Quiet, SameCore
<1>11. c = fault_set_ctx(n, ctx) BY SMTT(30)
<1> HIDE DEF c
<1>5. c.fault.stage = 1 /\ c.fault.type = "VCPU" /\ c.fault.regs = ctx /\ "REGS" \in c.fault.content
  <2>1. c.fault.stage = n.fault.stage /\ c.fault.type = n.fault.type BY <1>11, ContextFacts
  <2>2. fault_set_ctx(n, ctx).fault.regs = ctx BY ContextFacts
  <2>3. "REGS" \in c.fault.content BY <1>11, ContextFacts
  <2> QED BY <1>11, <2>1, <2>2, <2>3
<1>8. advance_fault(c) = StageDone(c) BY <1>5, SMTT(30) DEF advance_fault, fault_is_data
<1>9. CASE ~c.dead
  <2>1. StageDone(c) = ignore_fault(w) BY <1>5, <1>9, SMTT(30) DEF StageDone
  <2>2. /\ w.fault.type = "VCPU" /\ w.fault.regs = ctx /\ "REGS" \in w.fault.content
        /\ DOMAIN w = VcpuFields /\ DOMAIN w.fault = FaultFields
    BY <1>5, <1>7, SMTT(30) DEF IsVcpu, VcpuFields, FaultFields
  <2> HIDE DEF w
  <2>3. ignore_fault(w) = WriteBack(w) BY <2>2, SMTT(30) DEF ignore_fault, fault_get_ctx, Has, WithLength
  <2> DEFINE regs == [ctx EXCEPT !.pc = @ + IF fault_is_32bit_instruction(w) THEN 4 ELSE 2]
  <2>4. WriteBack(w) = restart_fault([w EXCEPT !.fault.regs = regs, !.tcb = regs]) BY <2>2, SMTT(30) DEF WriteBack
  <2>5. regs.r = ctx.r BY <1>2, SMTT(30)
  <2> HIDE DEF regs
  <2>6. WriteBack(w).tcb = regs BY <2>2, <2>4, SMTT(30) DEF restart_fault, abandon_fault, Reply, VcpuFields, FaultFields
  <2>7. Word(value, 0)[0][1] = value BY SMTT(30) DEF Word, Lanes
  <2> QED BY <1>2, <1>3, <1>6, <1>8, <2>1, <2>3, <2>5, <2>6, <2>7 DEF SmcAnswered, ctx
<1>10. CASE c.dead
  <2>1. StageDone(c) = assert(c, FALSE) BY <1>10, SMTT(30) DEF StageDone
  <2>2. assert(c, FALSE).dead BY <1>7, ContextFacts
  <2> QED BY <1>3, <1>6, <1>8, <2>1, <2>2 DEF SmcAnswered, ctx
<1> QED BY <1>9, <1>10

(***************************************************************************)
(* The vcpus of a VM                                                       *)
(***************************************************************************)
\* A vcpu that runs is online as some core; one that does not has no fault to
\* finish.  Only a failed kernel invocation leaves a vcpu that is online and
\* does not run, or that has a core and is not online.
VcpuOk(v, failed) ==
    /\ IsVcpu(v)
    /\ v.running => v.online /\ v.target_cpu # -1
    /\ ~v.running => v.fault.stage = 0
    /\ v.online /\ ~v.running => failed
    /\ v.target_cpu # -1 /\ ~v.online => failed
    /\ v.fault.stage = 0 \/ Blocked(v)
Distinct(vs) ==
    \A i, j \in VcpuIds : i # j /\ vs[i].target_cpu = vs[j].target_cpu => vs[i].target_cpu = -1
VcpusOk(vs, failed) ==
    /\ vs = [i \in VcpuIds |-> vs[i]]
    /\ \A i \in VcpuIds : VcpuOk(vs[i], failed)
    /\ Distinct(vs)

\* The vcpu chosen among several.
LEMMA FirstIn ==
  ASSUME NEW S, S \subseteq VcpuIds, S # {}
  PROVE  First(S) \in S
<1>1. S \subseteq Nat BY ArmAssumption
<1>2. \E x \in S : \A y \in S : ~ (<<y, x>> \in OpToRel(<, Nat))
  BY <1>1, NatLessThanWellFounded, WFMin
<1>3. PICK x \in S : \A y \in S : ~ (<<y, x>> \in OpToRel(<, Nat)) BY <1>2
<1>4. \A y \in S : ~ (y < x) BY <1>1, <1>3 DEF OpToRel
<1>5. \A y \in S : x <= y BY <1>1, <1>4, SMTT(30)
<1> QED BY <1>5 DEF First

\* One vcpu is replaced, once or twice.
LEMMA Replaced ==
  ASSUME NEW vs, DOMAIN vs = VcpuIds, NEW j \in VcpuIds, NEW a
  PROVE  /\ [vs EXCEPT ![j] = a][j] = a
         /\ \A i \in VcpuIds \ {j} : [vs EXCEPT ![j] = a][i] = vs[i]
         /\ DOMAIN [vs EXCEPT ![j] = a] = VcpuIds
         /\ [vs EXCEPT ![j] = a] = [i \in VcpuIds |-> [vs EXCEPT ![j] = a][i]]
         /\ \A b : [[vs EXCEPT ![j] = a] EXCEPT ![j] = b] = [vs EXCEPT ![j] = b]
<1> DEFINE x == [vs EXCEPT ![j] = a]
<1>1. x[j] = a /\ DOMAIN x = VcpuIds /\ \A i \in VcpuIds \ {j} : x[i] = vs[i] OBVIOUS
<1>2. x = [i \in VcpuIds |-> x[i]] OBVIOUS
<1>3. ASSUME NEW b PROVE [x EXCEPT ![j] = b] = [vs EXCEPT ![j] = b] OBVIOUS
<1> HIDE DEF x
<1> QED BY <1>1, <1>2, <1>3 DEF x

\* A vcpu that is given its core, and started or not.
Assigned(v, target) == [v EXCEPT !.target_cpu = target]
Entered(v, target) == vcpu_start(vcpu_set_bootargs(Assigned(v, target), 100, target), TRUE)
Refused(v, target) == vcpu_start(vcpu_set_bootargs(Assigned(v, target), 100, target), FALSE)
Idle(v) == IsVcpu(v) /\ ~v.running /\ v.fault.stage = 0
LEMMA AssignedIdle ==
  ASSUME NEW v, Idle(v), NEW t
  PROVE  Idle(Assigned(v, t)) /\ Assigned(v, t).target_cpu = t
BY SMTT(30) DEF Idle, Assigned, IsVcpu, VcpuFields
LEMMA RefusedIdle ==
  ASSUME NEW v, Idle(v), NEW t
  PROVE  Idle(Refused(v, t)) /\ Refused(v, t).target_cpu = t
<1> DEFINE a == Assigned(v, t)
<1>1. Idle(a) /\ a.target_cpu = t BY AssignedIdle
<1>2. Refused(v, t) = [a EXCEPT !.tcb = sel4arch_set_bootargs(100, t), !.online = TRUE, !.running = FALSE]
  BY <1>1, SMTT(30) DEF Refused, vcpu_start, vcpu_set_bootargs, vm_set_thread_context, fault_handled, Idle
<1> HIDE DEF a
<1> QED BY <1>1, <1>2, SMTT(30) DEF Idle, IsVcpu, VcpuFields
LEMMA EnteredRuns ==
  ASSUME NEW v, Idle(v), NEW t
  PROVE  /\ IsVcpu(Entered(v, t)) /\ Entered(v, t).target_cpu = t
         /\ Entered(v, t).running /\ Entered(v, t).online /\ Entered(v, t).fault.stage = 0
         /\ Entered(v, t).tcb = sel4arch_set_bootargs(100, t)
<1> DEFINE a == Assigned(v, t)
<1>1. Idle(a) /\ a.target_cpu = t BY AssignedIdle
<1>2. Entered(v, t) = [a EXCEPT !.tcb = sel4arch_set_bootargs(100, t), !.online = TRUE, !.running = TRUE]
  BY <1>1, SMTT(30) DEF Entered, vcpu_start, vcpu_set_bootargs, vm_set_thread_context, fault_handled, Idle
<1> HIDE DEF a
<1> QED BY <1>1, <1>2, SMTT(30) DEF Idle, IsVcpu, VcpuFields

\* A kernel invocation of this call fails.
Fails(call) == call.fails # ""

\* What start_new_vcpu does to the vcpu it starts.
LEMMA StartNew ==
  ASSUME NEW vs, DOMAIN vs = VcpuIds, NEW j \in VcpuIds, Idle(vs[j]), NEW call,
         Holders(vs, call.target) = {}
  PROVE  \E w : /\ start_new_vcpu(vs, j, call) = [vs EXCEPT ![j] = w]
                /\ w.target_cpu \in {call.target, -1}
                /\ Idle(w) \/ w = Entered(vs[j], call.target)
                /\ ~Fails(call) => w = Entered(vs[j], call.target)
                /\ w = Entered(vs[j], call.target) \/ Fails(call)
<1> DEFINE t == call.target
           v == vs[j]
           s == [vs EXCEPT ![j] = Assigned(v, t)]
<1>1. ASSUME NEW xs, DOMAIN xs = VcpuIds, NEW target
      PROVE  vm_assign_vcpu_target(xs, j, target) \in {xs, [xs EXCEPT ![j] = Assigned(xs[j], target)]}
  BY <1>1 DEF vm_assign_vcpu_target, Assigned
<1>2. vm_assign_vcpu_target(vs, j, t) = s BY DEF vm_assign_vcpu_target, Assigned
<1>3. DOMAIN s = VcpuIds /\ s[j] = Assigned(v, t) /\ \A b : [s EXCEPT ![j] = b] = [vs EXCEPT ![j] = b]
  BY Replaced
<1>4. /\ Idle(Assigned(v, t)) /\ Assigned(v, t).target_cpu = t
      /\ Idle(Refused(v, t)) /\ Refused(v, t).target_cpu = t
      /\ Entered(v, t).target_cpu = t
  <2> HIDE DEF t, v
  <2>0. Idle(v) BY DEF v
  <2>1. Idle(Assigned(v, t)) /\ Assigned(v, t).target_cpu = t BY <2>0, AssignedIdle
  <2>2. Idle(Refused(v, t)) /\ Refused(v, t).target_cpu = t BY <2>0, RefusedIdle
  <2>3. Entered(v, t).target_cpu = t BY <2>0, EnteredRuns
  <2> QED BY <2>1, <2>2, <2>3
<1>5. \A w : Idle(w) => Idle(Assigned(w, -1)) /\ Assigned(w, -1).target_cpu = -1
  <2> DEFINE none == -1
  <2> HIDE DEF none
  <2>1. \A w : Idle(w) => Idle(Assigned(w, none)) /\ Assigned(w, none).target_cpu = none BY AssignedIdle
  <2> QED BY <2>1 DEF none
<1>6. CASE call.fails = "bootargs"
  <2>1. start_new_vcpu(vs, j, call) = vm_assign_vcpu_target(s, j, -1)
    BY <1>2, <1>6 DEF start_new_vcpu, Started
  <2> HIDE DEF s
  <2>2. start_new_vcpu(vs, j, call) \in {s, [s EXCEPT ![j] = Assigned(Assigned(v, t), -1)]}
    <3>1. vm_assign_vcpu_target(s, j, -1) \in {s, [s EXCEPT ![j] = Assigned(s[j], -1)]} BY <1>1, <1>3
    <3> QED BY <1>3, <2>1, <3>1
  <2>3. start_new_vcpu(vs, j, call) \in {[vs EXCEPT ![j] = Assigned(v, t)],
                                        [vs EXCEPT ![j] = Assigned(Assigned(v, t), -1)]}
    BY <1>3, <2>2 DEF s
  <2>4. Fails(call) BY <1>6 DEF Fails
  <2> QED BY <1>4, <1>5, <2>3, <2>4
<1>7. CASE call.fails = "start"
  <2> DEFINE e == Refused(v, t)
             x == [s EXCEPT ![j] = e]
  <2>1. start_new_vcpu(vs, j, call) = vm_assign_vcpu_target(x, j, -1)
    BY <1>2, <1>3, <1>7 DEF start_new_vcpu, Started, Refused
  <2>2. x = [vs EXCEPT ![j] = e] BY <1>3
  <2> HIDE DEF e, x, s
  <2>3. DOMAIN x = VcpuIds /\ x[j] = e /\ \A b : [x EXCEPT ![j] = b] = [vs EXCEPT ![j] = b]
    BY <2>2, Replaced
  <2>4. start_new_vcpu(vs, j, call) \in {[vs EXCEPT ![j] = e], [vs EXCEPT ![j] = Assigned(e, -1)]}
    BY <1>1, <2>1, <2>2, <2>3
  <2>5. Fails(call) BY <1>7 DEF Fails
  <2> QED BY <1>4, <1>5, <2>4, <2>5 DEF e
<1>8. CASE call.fails # "bootargs" /\ call.fails # "start"
  <2>1. start_new_vcpu(vs, j, call) = [vs EXCEPT ![j] = Entered(v, t)]
    BY <1>2, <1>3, <1>8 DEF start_new_vcpu, Started, Entered
  <2> QED BY <1>4, <2>1
<1> QED BY <1>6, <1>7, <1>8

\* A vcpu is replaced by one of the same core, of no core, or of a core that
\* was free.
LEMMA OneReplaced ==
  ASSUME NEW vs, NEW failed, VcpusOk(vs, failed), NEW j \in VcpuIds, NEW w, NEW now,
         VcpuOk(w, now), failed => now,
         w.target_cpu = vs[j].target_cpu \/ w.target_cpu = -1 \/ Holders(vs, w.target_cpu) = {}
  PROVE  VcpusOk([vs EXCEPT ![j] = w], now)
<1> DEFINE x == [vs EXCEPT ![j] = w]
<1>0. DOMAIN vs = VcpuIds BY DEF VcpusOk
<1>1. x[j] = w /\ (\A i \in VcpuIds \ {j} : x[i] = vs[i]) /\ x = [i \in VcpuIds |-> x[i]]
  BY <1>0, Replaced
<1> HIDE DEF x
<1>2. \A i \in VcpuIds : VcpuOk(vs[i], now) BY DEF VcpusOk, VcpuOk
<1>3. \A i \in VcpuIds : VcpuOk(x[i], now) BY <1>1, <1>2
<1>4. ASSUME NEW i \in VcpuIds \ {j}, vs[i].target_cpu = w.target_cpu PROVE w.target_cpu = -1
  <2>1. Holders(vs, w.target_cpu) # {} BY <1>4 DEF Holders
  <2>2. Distinct(vs) BY DEF VcpusOk
  <2> QED BY <1>4, <2>1, <2>2 DEF Distinct
<1>5. Distinct(x)
  <2> SUFFICES ASSUME NEW i \in VcpuIds, NEW k \in VcpuIds, i # k, x[i].target_cpu = x[k].target_cpu
               PROVE  x[i].target_cpu = -1
    BY DEF Distinct
  <2>1. CASE i = j BY <1>1, <1>4, <2>1
  <2>2. CASE k = j BY <1>1, <1>4, <2>2
  <2>3. CASE i # j /\ k # j BY <1>1, <2>3 DEF VcpusOk, Distinct
  <2> QED BY <2>1, <2>2, <2>3
<1> QED BY <1>1, <1>3, <1>5 DEF VcpusOk, x

\* And nothing else changes.
LEMMA SameReplaced ==
  ASSUME NEW vs, NEW failed, VcpusOk(vs, failed), NEW j \in VcpuIds, NEW w, VcpuOk(w, failed),
         w.target_cpu = vs[j].target_cpu
  PROVE  VcpusOk([vs EXCEPT ![j] = w], failed)
BY OneReplaced, SMTT(30)

\* What a CPU_ON does, and what it answers.
CpuOnGood(vs, p, call, failed) ==
    \/ /\ p.value = "SUCCESS"
       /\ \E j \in VcpuIds : p.vs[j].target_cpu = call.target /\ ~vs[j].running /\ IsOn(p.vs[j], call)
    \/ p.value = "ALREADY_ON" /\ \E j \in Core(vs, call.target) : vs[j].running \/ failed
    \/ /\ p.value = "INTERNAL_FAILURE"
       /\ Fails(call) \/ failed \/ call.target = -1 \/ Core(vs, -1) = {}
Untouched(vs, ws) == \A j \in VcpuIds : vs[j].running => ws[j] = vs[j]

\* A CPU_ON for a core that some vcpu has.
LEMMA CpuOnHeld ==
  ASSUME NEW vs, NEW failed, VcpusOk(vs, failed), NEW call, Holders(vs, call.target) # {}
  PROVE  CpuOn(vs, call).vs = vs /\ CpuOnGood(vs, CpuOn(vs, call), call, failed)
<1> DEFINE f == First(Holders(vs, call.target))
           value == IF vs[f].online THEN "ALREADY_ON" ELSE "INTERNAL_FAILURE"
<1>1. CpuOn(vs, call) = Psci(vs, value) BY DEF CpuOn
<1>2. Holders(vs, call.target) \subseteq VcpuIds BY DEF Holders
<1>3. f \in Holders(vs, call.target) BY <1>2, FirstIn
<1> HIDE DEF f
<1>4. f \in VcpuIds /\ vs[f].target_cpu = call.target BY <1>3 DEF Holders
<1>5. VcpuOk(vs[f], failed) BY <1>4 DEF VcpusOk
<1>6. f \in Core(vs, call.target) BY <1>4 DEF Core
<1>7. CpuOn(vs, call).vs = vs /\ CpuOn(vs, call).value = value BY <1>1, SMTT(30) DEF Psci
<1>8. CASE vs[f].online
  <2>1. value = "ALREADY_ON" BY <1>8
  <2>2. vs[f].running \/ failed BY <1>5, <1>8 DEF VcpuOk
  <2> HIDE DEF value
  <2> QED BY <1>6, <1>7, <2>1, <2>2 DEF CpuOnGood
<1>9. CASE ~vs[f].online
  <2>1. value = "INTERNAL_FAILURE" BY <1>9
  <2>2. failed \/ call.target = -1 BY <1>4, <1>5, <1>9 DEF VcpuOk
  <2> HIDE DEF value
  <2> QED BY <1>7, <2>1, <2>2 DEF CpuOnGood
<1> QED BY <1>8, <1>9

\* A CPU_ON for a free core: a vcpu without a core is started, if there is one.
LEMMA CpuOnFree ==
  ASSUME NEW vs, NEW failed, VcpusOk(vs, failed), NEW call, Holders(vs, call.target) = {},
         NEW now, failed => now, Fails(call) => now
  PROVE  /\ VcpusOk(CpuOn(vs, call).vs, now) /\ Untouched(vs, CpuOn(vs, call).vs)
         /\ CpuOnGood(vs, CpuOn(vs, call), call, failed)
<1> DEFINE p == CpuOn(vs, call)
           none == -1
           f == First(Holders(vs, none))
           t == call.target
<1>1. CASE Holders(vs, none) = {}
  <2>1. p = Psci(vs, "INTERNAL_FAILURE") BY <1>1 DEF CpuOn
  <2> HIDE DEF p
  <2>2. p.vs = vs /\ p.value = "INTERNAL_FAILURE" BY <2>1, SMTT(30) DEF Psci
  <2>3. Core(vs, none) = {} BY <1>1 DEF Core, Holders
  <2>4. VcpusOk(vs, now) BY DEF VcpusOk, VcpuOk
  <2> QED BY <2>2, <2>3, <2>4 DEF CpuOnGood, Untouched, p
<1>2. CASE Holders(vs, none) # {}
  <2> DEFINE value == IF call.fails = "" THEN "SUCCESS" ELSE "INTERNAL_FAILURE"
  <2>1. p = Psci(start_new_vcpu(vs, f, call), value) BY <1>2 DEF CpuOn
  <2> HIDE DEF p, value
  <2>2. p.vs = start_new_vcpu(vs, f, call) /\ p.value = value BY <2>1, SMTT(30) DEF Psci
  <2>3. Holders(vs, none) \subseteq VcpuIds BY DEF Holders
  <2>4. f \in Holders(vs, none) BY <1>2, <2>3, FirstIn
  <2> HIDE DEF f
  <2>5. f \in VcpuIds /\ vs[f].target_cpu = -1 BY <2>4 DEF Holders
  <2>6. VcpuOk(vs[f], failed) /\ DOMAIN vs = VcpuIds BY <2>5 DEF VcpusOk
  <2>7. Idle(vs[f]) BY <2>5, <2>6 DEF Idle, VcpuOk
  <2>8. t # -1 BY <2>5 DEF Holders
  <2> DEFINE e == Entered(vs[f], t)
  <2>9. PICK w : /\ start_new_vcpu(vs, f, call) = [vs EXCEPT ![f] = w]
                 /\ w.target_cpu \in {call.target, -1}
                 /\ Idle(w) \/ w = Entered(vs[f], call.target)
                 /\ ~Fails(call) => w = Entered(vs[f], call.target)
                 /\ w = Entered(vs[f], call.target) \/ Fails(call)
    BY <2>5, <2>6, <2>7, StartNew, SMTT(30)
  <2>10. /\ IsVcpu(e) /\ e.target_cpu = t /\ e.running /\ e.online /\ e.fault.stage = 0
         /\ e.tcb = sel4arch_set_bootargs(100, t)
    BY <2>7, EnteredRuns, SMTT(30)
  <2> HIDE DEF e
  <2>11. VcpuOk(w, now)
    <3>1. CASE w = e BY <2>8, <2>10, <3>1, SMTT(30) DEF VcpuOk
    <3>2. CASE Idle(w) /\ Fails(call) BY <3>2 DEF VcpuOk, Idle
    <3> QED BY <2>9, <3>1, <3>2, SMTT(30) DEF e
  <2>12. w.target_cpu = vs[f].target_cpu \/ w.target_cpu = -1 \/ Holders(vs, w.target_cpu) = {}
    BY <2>9
  <2>13. VcpusOk([vs EXCEPT ![f] = w], now) BY <2>5, <2>11, <2>12, OneReplaced, SMTT(30)
  <2>14. p.vs = [vs EXCEPT ![f] = w] BY <2>2, <2>9
  <2>15. p.vs[f] = w /\ \A i \in VcpuIds \ {f} : p.vs[i] = vs[i] BY <2>5, <2>6, <2>14, Replaced
  <2>16. ~vs[f].running BY <2>7 DEF Idle
  <2>17. Untouched(vs, p.vs) BY <2>15, <2>16 DEF Untouched
  <2>18. CASE ~Fails(call)
    <3>1. value = "SUCCESS" BY <2>18 DEF Fails, value
    <3>2. sel4arch_set_bootargs(100, t).pc = 100 /\ sel4arch_set_bootargs(100, t).r[2] = Word("context", t)
      BY SMTT(30) DEF sel4arch_set_bootargs, NoRegs, Rts
    <3>3. w.target_cpu = t /\ IsOn(w, call) BY <2>9, <2>10, <2>18, <3>2, SMTT(30) DEF IsOn, e
    <3>4. CpuOnGood(vs, p, call, failed) BY <2>2, <2>5, <2>15, <2>16, <3>1, <3>3 DEF CpuOnGood
    <3> QED BY <2>13, <2>14, <2>17, <3>4 DEF p
  <2>19. CASE Fails(call)
    <3>1. value = "INTERNAL_FAILURE" BY <2>19 DEF Fails, value
    <3>2. CpuOnGood(vs, p, call, failed) BY <2>2, <2>19, <3>1 DEF CpuOnGood
    <3> QED BY <2>13, <2>14, <2>17, <3>2 DEF p
  <2> QED BY <2>18, <2>19
<1> QED BY <1>1, <1>2

(***************************************************************************)
(* An exit                                                                 *)
(***************************************************************************)
\* The machine m is vs after a step of vcpu i alone.
OnVcpuOnly(vs, i, m) == \E w, e, ret : m = Machine([vs EXCEPT ![i] = w], e, ret) /\ Over(vs[i], w)

\* The exits with one vcpu: all but the vcpu exceptions.
LEMMA PlainExit ==
  ASSUME NEW v, IsVcpu(v), IsMessage(v.msg), v.fault.stage = 0, v.msg.kind # "vcpu", NEW d, NEW vs, NEW i,
         v = vs[i]
  PROVE  OnVcpuOnly(vs, i, arm_exit_handlers(vs, i, d))
<1>1. ASSUME NEW o, Over(v, o.v), arm_exit_handlers(vs, i, d) = OnVcpu(vs, i, o)
      PROVE  OnVcpuOnly(vs, i, arm_exit_handlers(vs, i, d))
  BY <1>1 DEF OnVcpu, OnVcpuOnly
<1>2. Over(v, v) BY FaultOps DEF Quiet, Over
<1>3. CASE v.msg.kind = "abort"
  <2>1. Over(v, vm_guest_mem_abort_handler(v, d).v) BY <1>3, AbortOver
  <2>2. arm_exit_handlers(vs, i, d) = OnVcpu(vs, i, vm_guest_mem_abort_handler(v, d))
    BY <1>3, SMTT(30) DEF arm_exit_handlers
  <2> QED BY <1>1, <2>1, <2>2
<1>4. CASE v.msg.kind = "syscall"
  <2> DEFINE o == vm_syscall_handler(v, d)
             h == handle_syscall(v)
  <2>1. Over(v, h)
    BY SMTT(30) DEF handle_syscall, Over, SameCore, IsVcpu, VcpuFields, FaultFields
  <2>2. o \in {Outcome(h, d, 1), Outcome(v, d, -1)} BY DEF vm_syscall_handler
  <2> HIDE DEF o, h
  <2>3. Outcome(h, d, 1).v = h /\ Outcome(v, d, -1).v = v BY SMTT(30) DEF Outcome
  <2>4. Over(v, o.v) BY <1>2, <2>1, <2>2, <2>3
  <2>5. arm_exit_handlers(vs, i, d) = OnVcpu(vs, i, o) BY <1>4, SMTT(30) DEF arm_exit_handlers, o
  <2> QED BY <1>1, <2>4, <2>5
<1>5. CASE v.msg.kind = "exception"
  <2> DEFINE o == vm_user_exception_handler(v, d)
  <2>1. Over(v, o.v)
    BY SMTT(30) DEF vm_user_exception_handler, Outcome, Over, SameCore, IsVcpu, VcpuFields, FaultFields
  <2>2. arm_exit_handlers(vs, i, d) = OnVcpu(vs, i, o) BY <1>5, SMTT(30) DEF arm_exit_handlers
  <2> QED BY <1>1, <2>1, <2>2
<1>6. CASE v.msg.kind \notin {"abort", "syscall", "exception"}
  <2> DEFINE o == vm_unknown_exit_handler(v, d)
  <2>1. Over(v, o.v) BY <1>2, SMTT(30) DEF vm_unknown_exit_handler, Outcome
  <2>2. arm_exit_handlers(vs, i, d) = OnVcpu(vs, i, o) BY <1>6, SMTT(30) DEF arm_exit_handlers
  <2> QED BY <1>1, <2>1, <2>2
<1> QED BY <1>3, <1>4, <1>5, <1>6

\* The vcpu whose exit was handled.
LEMMA OverOk ==
  ASSUME NEW v, NEW failed, VcpuOk(v, failed), v.running, v.replies = 0, v.msg.kind # "start",
         NEW w, Over(v, w), NEW now, failed => now
  PROVE  VcpuOk(w, now) /\ w.target_cpu = v.target_cpu
<1>1. /\ IsVcpu(w) /\ w.msg = v.msg /\ w.target_cpu = v.target_cpu /\ w.online = v.online
      /\ w.running = v.running
  BY DEF Over, SameCore
<1>2. w.replies = 0 \/ w.fault.stage = 0 BY DEF Over
<1>3. w.fault.stage = 0 \/ Blocked(w) BY <1>1, <1>2 DEF Blocked
<1> QED BY <1>1, <1>3 DEF VcpuOk

\* What may be said of the machine m after an exit of vcpu i of vs.
ExitGood(vs, m, i, failed, now) ==
    /\ VcpusOk(m.vs, now)
    /\ \A j \in VcpuIds \ {i} : vs[j].running => m.vs[j] = vs[j]
    /\ m.vs[i].msg = vs[i].msg
    /\ vs[i].msg.dev.kind = "smc" /\ vs[i].msg.call.fn = "CPU_ON" /\ m.ret > 0 /\ ~m.vs[i].dead =>
          CpuOnGood(vs, Psci(m.vs, m.vs[i].tcb.r[0][0][1]), vs[i].msg.call, failed)

\* An exit that changes its vcpu only, and is no CPU_ON that was answered.
LEMMA OneVcpuGood ==
  ASSUME NEW vs, NEW failed, VcpusOk(vs, failed), NEW i \in VcpuIds, vs[i].running, vs[i].replies = 0,
         vs[i].msg.kind # "start", NEW now, failed => now, NEW w, Over(vs[i], w), NEW d, NEW ret,
         vs[i].msg.dev.kind # "smc" \/ vs[i].msg.call.fn # "CPU_ON" \/ ~(ret > 0)
  PROVE  ExitGood(vs, Machine([vs EXCEPT ![i] = w], d, ret), i, failed, now)
<1> DEFINE x == [vs EXCEPT ![i] = w]
           m == Machine(x, d, ret)
<1>0. DOMAIN vs = VcpuIds /\ VcpuOk(vs[i], failed) BY DEF VcpusOk
<1>1. VcpuOk(w, now) /\ w.target_cpu = vs[i].target_cpu BY <1>0, OverOk, SMTT(30)
<1>2. VcpusOk(x, now) BY <1>1, OneReplaced, SMTT(30)
<1>3. x[i] = w /\ \A j \in VcpuIds \ {i} : x[j] = vs[j] BY <1>0, Replaced
<1> HIDE DEF x
<1>4. m.vs = x /\ m.ret = ret BY SMTT(30) DEF Machine
<1> HIDE DEF m
<1>5. w.msg = vs[i].msg BY DEF Over, SameCore
<1> QED BY <1>2, <1>3, <1>4, <1>5 DEF ExitGood, m, x

\* PSCI calls.
LEMMA PsciGood ==
  ASSUME NEW vs, NEW failed, VcpusOk(vs, failed), NEW call, NEW now, failed => now, Fails(call) => now,
         call.fn \in PsciFunctions
  PROVE  /\ VcpusOk(PsciCall(vs, call).vs, now) /\ Untouched(vs, PsciCall(vs, call).vs)
         /\ call.fn = "CPU_ON" => CpuOnGood(vs, PsciCall(vs, call), call, failed)
<1>1. VcpusOk(vs, now) BY DEF VcpusOk, VcpuOk
<1>2. Untouched(vs, vs) BY DEF Untouched
<1>3. CASE call.fn = "CPU_ON"
  <2>1. PsciCall(vs, call) = CpuOn(vs, call) BY <1>3, SMTT(30) DEF PsciCall
  <2>2. CASE Holders(vs, call.target) # {}
    <3>1. CpuOn(vs, call).vs = vs BY <2>2, CpuOnHeld
    <3>2. CpuOnGood(vs, CpuOn(vs, call), call, failed) BY <2>2, CpuOnHeld
    <3> QED BY <1>1, <1>2, <2>1, <3>1, <3>2
  <2>3. CASE Holders(vs, call.target) = {}
    <3>1. VcpusOk(CpuOn(vs, call).vs, now) BY <2>3, CpuOnFree
    <3>2. Untouched(vs, CpuOn(vs, call).vs) BY <2>3, CpuOnFree
    <3>3. CpuOnGood(vs, CpuOn(vs, call), call, failed) BY <2>3, CpuOnFree
    <3> QED BY <2>1, <3>1, <3>2, <3>3
  <2> QED BY <2>2, <2>3
<1>4. CASE call.fn # "CPU_ON"
  <2>1. PsciCall(vs, call).vs = vs BY <1>4, SMTT(30) DEF PsciCall, Psci, PsciFunctions
  <2> QED BY <1>1, <1>2, <1>4, <2>1
<1> QED BY <1>3, <1>4

\* An SMC call that is a PSCI call.
LEMMA PsciExit ==
  ASSUME NEW vs, NEW failed, VcpusOk(vs, failed), NEW i \in VcpuIds, NEW v, v = vs[i], v.running, v.replies = 0,
         v.msg.kind # "start", v.tcb = Regs(v.msg), v.msg.call.fn \in PsciFunctions,
         NEW now, failed => now, Fails(v.msg.call) => now, NEW d,
         NEW m, m = handle_psci([vs EXCEPT ![i] = new_vcpu_fault(v)], i, d)
  PROVE  ExitGood(vs, m, i, failed, now)
<1> DEFINE n == new_vcpu_fault(v)
           x == [vs EXCEPT ![i] = n]
           call == v.msg.call
           p == PsciCall(x, call)
           w == SmcAnswered(n, p.value)
           z == [p.vs EXCEPT ![i] = w]
<1>1. DOMAIN vs = VcpuIds /\ VcpuOk(v, failed) BY DEF VcpusOk
<1>2. IsVcpu(v) BY <1>1 DEF VcpuOk
<1>3. Quiet(v, n) /\ n.tcb = v.tcb /\ n.fault.stage = 1 /\ n.fault.type = "VCPU" /\ n.fault.content = {}
  BY <1>2, VcpuFault
<1>4. x[i] = n /\ \A j \in VcpuIds \ {i} : x[j] = vs[j] BY <1>1, Replaced
<1>5. Over(v, n) BY <1>3 DEF Quiet, Over
<1>6. m = handle_psci(x, i, d) BY SMTT(30)
<1> HIDE DEF n
<1>7. VcpuOk(n, failed) /\ n.target_cpu = v.target_cpu BY <1>1, <1>5, OverOk, SMTT(30)
<1>8. VcpusOk(x, failed)
  <2>1. n.target_cpu = vs[i].target_cpu BY <1>7
  <2> QED BY <1>7, <2>1, SameReplaced
<1> HIDE DEF x
<1>9. n.msg = v.msg /\ n.running = v.running /\ n.replies = v.replies /\ IsVcpu(n) /\ n.online = v.online
  BY <1>3 DEF Quiet, SameCore
<1> HIDE DEF call
<1>10. /\ VcpusOk(p.vs, now) /\ Untouched(x, p.vs)
       /\ call.fn = "CPU_ON" => CpuOnGood(x, p, call, failed)
  <2>1. call.fn \in PsciFunctions /\ (Fails(call) => now) BY DEF call
  <2>2. VcpusOk(p.vs, now) BY <1>8, <2>1, PsciGood
  <2>3. Untouched(x, p.vs) BY <1>8, <2>1, PsciGood
  <2>4. call.fn = "CPU_ON" => CpuOnGood(x, p, call, failed) BY <1>8, <2>1, PsciGood
  <2> QED BY <2>2, <2>3, <2>4
<1>11. p.vs[i] = n BY <1>4, <1>9, <1>10 DEF Untouched
<1>12. m = Machine(z, d, 1)
  <2>1. x[i].msg.call = call BY <1>4, <1>9 DEF call
  <2>2. call.fn \in PsciFunctions BY DEF call
  <2>3. m = PsciAnswered(p, i, vm_get_thread_context(n), d) BY <1>4, <1>6, <2>1, <2>2 DEF handle_psci
  <2> QED BY <1>11, <2>3 DEF PsciAnswered, SmcAnswered
<1> HIDE DEF p
<1>13. Over(n, w) /\ (~w.dead => w.tcb.r[0][0][1] = p.value)
  <2>1. n.tcb = Regs(v.msg) BY <1>3
  <2>2. Over(n, SmcAnswered(n, p.value)) BY <1>3, <1>9, <2>1, SmcAnswer
  <2>3. ~SmcAnswered(n, p.value).dead => SmcAnswered(n, p.value).tcb.r[0][0][1] = p.value
    BY <1>3, <1>9, <2>1, SmcAnswer
  <2> QED BY <2>2, <2>3
<1> HIDE DEF w
<1>14. VcpuOk(w, now) /\ w.target_cpu = n.target_cpu
  <2>1. n.msg.kind # "start" /\ n.running /\ n.replies = 0 BY <1>9
  <2> QED BY <1>7, <1>13, <2>1, OverOk, SMTT(30)
<1>15. VcpusOk(z, now) BY <1>10, <1>11, <1>14, OneReplaced, SMTT(30)
<1>16. DOMAIN p.vs = VcpuIds BY <1>10 DEF VcpusOk
<1>17. z[i] = w /\ \A j \in VcpuIds \ {i} : z[j] = p.vs[j] BY <1>16, Replaced
<1> HIDE DEF z
<1>18. m.vs = z BY <1>12, SMTT(30) DEF Machine
<1>19. \A j \in VcpuIds : x[j].running = vs[j].running /\ x[j].target_cpu = vs[j].target_cpu
  BY <1>4, <1>7, <1>9
<1>20. \A j \in VcpuIds \ {i} : vs[j].running => z[j] = vs[j] BY <1>4, <1>10, <1>17 DEF Untouched
<1>21. w.msg = v.msg BY <1>9, <1>13 DEF Over, SameCore
<1>22. ASSUME call.fn = "CPU_ON", ~w.dead PROVE CpuOnGood(vs, Psci(z, w.tcb.r[0][0][1]), call, failed)
  <2> DEFINE q == Psci(z, w.tcb.r[0][0][1])
  <2>1. q.vs = z /\ q.value = w.tcb.r[0][0][1] BY SMTT(30) DEF Psci
  <2> HIDE DEF q
  <2>2. q.vs = z /\ q.value = p.value BY <1>13, <1>22, <2>1
  <2>3. CpuOnGood(x, p, call, failed) BY <1>10, <1>22
  <2>4. \A t : Core(x, t) = Core(vs, t) BY <1>19 DEF Core
  <2>5. CASE p.value = "SUCCESS" /\ \E j \in VcpuIds : /\ p.vs[j].target_cpu = call.target
                                                       /\ ~x[j].running /\ IsOn(p.vs[j], call)
    <3>1. PICK j \in VcpuIds : p.vs[j].target_cpu = call.target /\ ~x[j].running /\ IsOn(p.vs[j], call)
      BY <2>5
    <3>2. j # i BY <1>4, <1>9, <3>1
    <3>3. z[j] = p.vs[j] /\ ~vs[j].running BY <1>17, <1>19, <3>1, <3>2
    <3> QED BY <2>2, <2>5, <3>1, <3>3 DEF CpuOnGood, q
  <2>6. CASE p.value = "ALREADY_ON" /\ \E j \in Core(x, call.target) : x[j].running \/ failed
    <3>1. \E j \in Core(vs, call.target) : vs[j].running \/ failed
      BY <1>19, <2>4, <2>6 DEF Core
    <3> QED BY <2>2, <2>6, <3>1 DEF CpuOnGood, q
  <2>7. CASE /\ p.value = "INTERNAL_FAILURE"
             /\ Fails(call) \/ failed \/ call.target = -1 \/ Core(x, -1) = {}
    BY <2>2, <2>4, <2>7 DEF CpuOnGood, q
  <2> QED BY <2>3, <2>5, <2>6, <2>7 DEF CpuOnGood
<1> QED BY <1>15, <1>17, <1>18, <1>20, <1>21, <1>22 DEF ExitGood, call

\* A vcpu exception.
LEMMA VcpuExit ==
  ASSUME NEW vs, NEW failed, VcpusOk(vs, failed), NEW i \in VcpuIds, NEW v, v = vs[i], v.running, v.replies = 0,
         v.msg.kind = "vcpu", v.tcb = Regs(v.msg), NEW now, failed => now, Fails(v.msg.call) => now, NEW d
  PROVE  ExitGood(vs, arm_exit_handlers(vs, i, d), i, failed, now)
<1> DEFINE m == arm_exit_handlers(vs, i, d)
           n == new_vcpu_fault(v)
           x == [vs EXCEPT ![i] = n]
           kind == v.msg.dev.kind
<1>1. DOMAIN vs = VcpuIds /\ VcpuOk(v, failed) BY DEF VcpusOk
<1>2. IsVcpu(v) BY <1>1 DEF VcpuOk
<1>3. Quiet(v, n) BY <1>2, VcpuFault
<1>4. x[i] = n BY <1>1, Replaced
<1>5. n.msg = v.msg /\ IsVcpu(n) /\ Over(v, n) BY <1>3 DEF Quiet, SameCore, Over
<1>6. m = vmm_handle_arm_vcpu_exception(x, i, d)
  <2>1. m = vm_vcpu_handler(vs, i, d) BY SMTT(30) DEF arm_exit_handlers
  <2> HIDE DEF m
  <2> QED BY <2>1 DEF vm_vcpu_handler
<1> HIDE DEF m
<1> SUFFICES ExitGood(vs, m, i, failed, now) BY DEF m
<1>7. x[i].msg = v.msg BY <1>4, <1>5
<1> HIDE DEF kind, x, n
<1>8. ASSUME NEW w, Over(v, w), NEW ret, kind # "smc" \/ v.msg.call.fn # "CPU_ON" \/ ~(ret > 0)
      PROVE  ExitGood(vs, Machine([vs EXCEPT ![i] = w], d, ret), i, failed, now)
  <2>1. vs[i].running /\ vs[i].replies = 0 /\ vs[i].msg.kind # "start" /\ Over(vs[i], w)
    BY <1>8, SMTT(30)
  <2>2. vs[i].msg.dev.kind # "smc" \/ vs[i].msg.call.fn # "CPU_ON" \/ ~(ret > 0)
    BY <1>8 DEF kind
  <2> QED BY <2>1, <2>2, OneVcpuGood
<1>9. ASSUME NEW ret, m = Machine(x, d, ret), kind # "smc" \/ ~(ret > 0)
      PROVE  ExitGood(vs, m, i, failed, now)
  <2>1. ExitGood(vs, Machine([vs EXCEPT ![i] = n], d, ret), i, failed, now) BY <1>5, <1>8, <1>9
  <2> QED BY <1>9, <2>1 DEF x
<1>10. CASE kind = "smc"
  <2>1. m = handle_smc(x, i, d)
    BY <1>6, <1>7, <1>10 DEF vmm_handle_arm_vcpu_exception, kind, SteppedOver
  <2>2. CASE v.msg.cmd /\ v.msg.call.fn \in PsciFunctions
    <3>1. m = handle_psci([vs EXCEPT ![i] = new_vcpu_fault(v)], i, d)
      BY <1>7, <2>1, <2>2 DEF handle_smc, x, n
    <3>2. v.msg.kind # "start" BY SMTT(30) DEF kind
    <3>3. ExitGood(vs, handle_psci([vs EXCEPT ![i] = new_vcpu_fault(v)], i, d), i, failed, now)
      BY <2>2, <3>2, PsciExit
    <3> QED BY <3>1, <3>3
  <2>3. CASE ~(v.msg.cmd /\ v.msg.call.fn \in PsciFunctions)
    <3>1. m = Machine(x, d, -1) BY <1>7, <2>1, <2>3 DEF handle_smc, handle_psci
    <3>2. ~(-1 > 0) BY SMTT(30)
    <3> QED BY <1>9, <3>1, <3>2
  <2> QED BY <2>2, <2>3
<1>11. CASE kind = "wfx"
  <2>1. m = Machine(x, d, 1) BY <1>6, <1>7, <1>11 DEF vmm_handle_arm_vcpu_exception, kind, SteppedOver
  <2>2. kind # "smc" BY <1>11, SMTT(30)
  <2> QED BY <1>9, <2>1, <2>2
<1>12. CASE kind \in SteppedOver
  <2> DEFINE w == advance_fault(n)
  <2>1. m = Machine([x EXCEPT ![i] = w], d, 1)
    <3>1. kind # "smc" /\ kind # "wfx" BY <1>12 DEF SteppedOver
    <3>2. m = Machine([x EXCEPT ![i] = advance_fault(x[i])], d, 1)
      BY <1>6, <1>7, <1>12, <3>1 DEF vmm_handle_arm_vcpu_exception, kind
    <3> QED BY <1>4, <3>2
  <2>2. [x EXCEPT ![i] = w] = [vs EXCEPT ![i] = w] BY <1>1, Replaced DEF x
  <2>3. Over(v, w) BY <1>3, <1>5, AdvanceOver, QuietOver
  <2>4. kind # "smc" BY <1>12 DEF SteppedOver
  <2> HIDE DEF w
  <2>5. m = Machine([vs EXCEPT ![i] = w], d, 1) BY <2>1, <2>2
  <2>6. ExitGood(vs, Machine([vs EXCEPT ![i] = w], d, 1), i, failed, now) BY <1>8, <2>3, <2>4
  <2> QED BY <2>5, <2>6
<1>13. CASE kind \notin {"smc", "wfx"} \cup SteppedOver
  <2>1. m = Machine(x, d, -1) BY <1>6, <1>7, <1>13 DEF vmm_handle_arm_vcpu_exception, kind
  <2>2. kind # "smc" BY <1>13
  <2> QED BY <1>9, <2>1, <2>2
<1> QED BY <1>10, <1>11, <1>12, <1>13

(***************************************************************************)
(* The steps of the machine                                                *)
(***************************************************************************)
ArmInv == VcpusOk(vcpus, kernel_failed) /\ exit \in VcpuIds

\* A vcpu that has stopped with a message.
LEMMA StoppedOk ==
  ASSUME NEW v, NEW failed, VcpuOk(v, failed), ~Blocked(v), NEW msg
  PROVE  LET w == Stopped(v, msg) IN
         /\ VcpuOk(w, failed) /\ w.fault.stage = 0 /\ w.msg = msg /\ w.replies = 0 /\ w.tcb = Regs(msg)
         /\ w.target_cpu = v.target_cpu /\ w.running = v.running
<1> DEFINE w == Stopped(v, msg)
<1>1. IsVcpu(v) BY DEF VcpuOk
<1>2. /\ IsVcpu(w) /\ w.msg = msg /\ w.replies = 0 /\ w.tcb = Regs(msg) /\ w.fault = v.fault
      /\ w.target_cpu = v.target_cpu /\ w.running = v.running /\ w.online = v.online
  BY <1>1, SMTT(30) DEF Stopped, IsVcpu, VcpuFields
<1> HIDE DEF w
<1>3. v.fault.stage = 0 BY DEF VcpuOk
<1>4. VcpuOk(w, failed) BY <1>2, <1>3 DEF VcpuOk
<1> QED BY <1>2, <1>3, <1>4 DEF w

\* What the handlers leave of a stopped vcpu.
LEMMA HandlersGood ==
  ASSUME NEW vs, NEW failed, VcpusOk(vs, failed), NEW i \in VcpuIds, NEW v, v = vs[i], v.running, v.replies = 0,
         v.fault.stage = 0, IsMessage(v.msg), v.tcb = Regs(v.msg),
         NEW now, failed => now, Fails(v.msg.call) => now, NEW d
  PROVE  ExitGood(vs, arm_exit_handlers(vs, i, d), i, failed, now)
<1>1. CASE v.msg.kind = "vcpu" BY <1>1, VcpuExit
<1>2. CASE v.msg.kind # "vcpu"
  <2>1. IsVcpu(v) BY DEF VcpusOk, VcpuOk
  <2> DEFINE h == arm_exit_handlers(vs, i, d)
  <2>2. OnVcpuOnly(vs, i, h) BY <1>2, <2>1, PlainExit
  <2> HIDE DEF h
  <2>6. PICK w, e, ret : h = Machine([vs EXCEPT ![i] = w], e, ret) /\ Over(v, w) BY <2>2 DEF OnVcpuOnly
  <2>3. v.msg.dev.kind # "smc" /\ v.msg.kind # "start" BY <1>2 DEF IsMessage
  <2>4. vs[i].running /\ vs[i].replies = 0 /\ vs[i].msg.kind # "start" /\ Over(vs[i], w) /\ vs[i].msg.dev.kind # "smc"
    BY <2>6, <2>3
  <2>5. ExitGood(vs, Machine([vs EXCEPT ![i] = w], e, ret), i, failed, now) BY <2>4, OneVcpuGood
  <2> QED BY <2>6, <2>5 DEF h
<1> QED BY <1>1, <1>2

\* What CpuOnTruthful says of a step.
ToldTrue ==
    LET v == vcpus'[exit']
    IN  run' = "loop" /\ v.msg.dev.kind = "smc" /\ v.msg.call.fn = "CPU_ON" /\ vcpus[exit'] # v
            => Truthful(v.msg.call, v.tcb.r[0][0][1])
OthersKept == \A j \in VcpuIds \ {exit'} : vcpus[j].running /\ ~Blocked(vcpus[j]) => vcpus'[j] = vcpus[j]

\* An exit of vcpu i.
LEMMA RunStep ==
  ASSUME ArmInv, NEW i \in VcpuIds, NEW msg, IsMessage(msg), vm_run_arch(i, msg)
  PROVE  ArmInv' /\ OthersKept /\ ToldTrue
<1> DEFINE v == Stopped(vcpus[i], msg)
           vs == [vcpus EXCEPT ![i] = v]
           d == [device EXCEPT !.regs = DeviceFresh]
           m == arm_exit_handlers(vs, i, d)
           t == m.vs[i].tcb.r[0][0][1]
<1>1. /\ vcpus[i].running /\ ~Blocked(vcpus[i])
      /\ Turn(m, i) /\ kernel_failed' = (kernel_failed \/ Fails(msg.call))
  BY DEF vm_run_arch, Fails
<1>2. DOMAIN vcpus = VcpuIds /\ VcpuOk(vcpus[i], kernel_failed) BY DEF ArmInv, VcpusOk
<1>3. /\ VcpuOk(v, kernel_failed) /\ v.fault.stage = 0 /\ v.msg = msg /\ v.replies = 0 /\ v.tcb = Regs(msg)
      /\ v.target_cpu = vcpus[i].target_cpu /\ v.running = vcpus[i].running
  BY <1>1, <1>2, StoppedOk
<1> HIDE DEF v
<1>4. VcpusOk(vs, kernel_failed) BY <1>3, SameReplaced DEF ArmInv
<1>5. vs[i] = v /\ \A j \in VcpuIds \ {i} : vs[j] = vcpus[j] BY <1>2, Replaced
<1> HIDE DEF vs, d
<1>6. (kernel_failed => kernel_failed') /\ (Fails(msg.call) => kernel_failed') BY <1>1
<1>7. /\ v = vs[i] /\ v.running /\ IsMessage(v.msg) /\ v.tcb = Regs(v.msg)
      /\ (Fails(v.msg.call) => kernel_failed')
  BY <1>1, <1>3, <1>5, <1>6
<1>8. ExitGood(vs, m, i, kernel_failed, kernel_failed') BY <1>3, <1>4, <1>6, <1>7, HandlersGood
<1> HIDE DEF m
<1>9. /\ vcpus' = m.vs /\ exit' = i
      /\ run' = IF \E j \in VcpuIds : m.vs[j].dead THEN "assert" ELSE IF m.ret > 0 THEN "loop" ELSE "error"
  BY <1>1 DEF Turn
<1>10. ArmInv' BY <1>8, <1>9 DEF ArmInv, ExitGood
<1>11. OthersKept BY <1>5, <1>8, <1>9 DEF OthersKept, ExitGood
<1>12. vcpus'[exit'].msg = msg /\ vcpus'[exit'].tcb.r[0][0][1] = t
  BY <1>3, <1>5, <1>8, <1>9 DEF ExitGood
<1>13. ASSUME run' = "loop", msg.dev.kind = "smc", msg.call.fn = "CPU_ON" PROVE Truthful(msg.call, t)
  <2>1. m.ret > 0 /\ ~m.vs[i].dead BY <1>9, <1>13
  <2>2. CpuOnGood(vs, Psci(m.vs, t), msg.call, kernel_failed)
    BY <1>3, <1>5, <1>8, <1>13, <2>1 DEF ExitGood
  <2> HIDE DEF t
  <2>3. Psci(m.vs, t).vs = vcpus' /\ Psci(m.vs, t).value = t BY <1>9 DEF Psci
  <2>4. \A j \in VcpuIds : vs[j].target_cpu = vcpus[j].target_cpu /\ vs[j].running = vcpus[j].running
    BY <1>3, <1>5
  <2>5. \A target : Core(vs, target) = Core(vcpus, target) BY <2>4 DEF Core
  <2>6. CASE /\ t = "SUCCESS"
             /\ \E j \in VcpuIds : /\ vcpus'[j].target_cpu = msg.call.target /\ ~vs[j].running
                                   /\ IsOn(vcpus'[j], msg.call)
    <3>1. \E j \in Core(vcpus', msg.call.target) : ~vcpus[j].running /\ IsOn(vcpus'[j], msg.call)
      BY <2>4, <2>6 DEF Core
    <3> QED BY <2>6, <3>1 DEF Truthful
  <2>7. CASE t = "ALREADY_ON" /\ \E j \in Core(vs, msg.call.target) : vs[j].running \/ kernel_failed
    <3>1. \E j \in Core(vcpus, msg.call.target) : vcpus[j].running \/ kernel_failed
      BY <2>4, <2>5, <2>7 DEF Core
    <3>2. t # "SUCCESS" /\ t # "INTERNAL_FAILURE" BY <2>7, SMTT(30)
    <3> QED BY <2>7, <3>1, <3>2 DEF Truthful
  <2>8. CASE /\ t = "INTERNAL_FAILURE"
             /\ Fails(msg.call) \/ kernel_failed \/ msg.call.target = -1 \/ Core(vs, -1) = {}
    <3>1. t # "SUCCESS" /\ t # "ALREADY_ON" BY <2>8, SMTT(30)
    <3> QED BY <2>5, <2>8, <3>1 DEF Truthful, Fails
  <2> QED BY <2>2, <2>3, <2>6, <2>7, <2>8 DEF CpuOnGood
<1>14. ToldTrue BY <1>12, <1>13 DEF ToldTrue
<1> QED BY <1>10, <1>11, <1>14

\* An interrupt ends the WFI of vcpu i.
LEMMA InjectStep ==
  ASSUME ArmInv, NEW i \in VcpuIds, vm_inject_irq(i)
  PROVE  ArmInv' /\ OthersKept /\ ToldTrue
<1> DEFINE v == vcpus[i]
           w == ignore_fault(v)
<1>1. /\ v.fault.stage # 0 /\ v.msg.dev.kind = "wfx" /\ vcpus' = [vcpus EXCEPT ![i] = w]
      /\ exit' = exit /\ kernel_failed' = kernel_failed
  BY DEF vm_inject_irq, fault_handled
<1>2. DOMAIN vcpus = VcpuIds /\ VcpuOk(v, kernel_failed) BY DEF ArmInv, VcpusOk
<1>3. IsVcpu(v) /\ Blocked(v) /\ v.running BY <1>1, <1>2 DEF VcpuOk
<1>4. SameCore(v, w) /\ w.fault.stage = 0 BY <1>3, EndsOver
<1> HIDE DEF w
<1>5. Over(v, w) /\ w.msg = v.msg BY <1>4 DEF Over, SameCore
<1>6. v.replies = 0 /\ v.msg.kind # "start" BY <1>3 DEF Blocked
<1> HIDE DEF v
<1>7. VcpuOk(w, kernel_failed) /\ w.target_cpu = v.target_cpu BY <1>2, <1>3, <1>5, <1>6, OverOk, SMTT(30)
<1>8. VcpusOk([vcpus EXCEPT ![i] = w], kernel_failed) BY <1>7, SameReplaced DEF ArmInv, v
<1>9. vcpus'[i] = w /\ \A j \in VcpuIds \ {i} : vcpus'[j] = vcpus[j] BY <1>1, <1>2, Replaced
<1>10. ArmInv' BY <1>1, <1>8 DEF ArmInv
<1>11. OthersKept BY <1>3, <1>9 DEF OthersKept, v
<1>12. ToldTrue
  <2>1. CASE exit = i
    <3>1. vcpus'[exit'].msg.dev.kind = "wfx" BY <1>1, <1>5, <1>9, <2>1
    <3>2. vcpus'[exit'].msg.dev.kind # "smc" BY <3>1, SMTT(30)
    <3> QED BY <3>2 DEF ToldTrue
  <2>2. CASE exit # i
    <3>1. vcpus'[exit'] = vcpus[exit'] BY <1>1, <1>9, <2>2 DEF ArmInv
    <3> QED BY <3>1 DEF ToldTrue
  <2> QED BY <2>1, <2>2
<1> QED BY <1>10, <1>11, <1>12

\* At the start.
LEMMA InitOk ==
  ASSUME ArmInit
  PROVE  ArmInv
<1> DEFINE c == vm_create_vcpu
           b == [c EXCEPT !.target_cpu = 0, !.online = TRUE, !.running = TRUE]
<1>0. DOMAIN fault_init = FaultFields /\ fault_init.stage = 0 BY DEF fault_init, FaultFields
<1>1. /\ IsVcpu(c) /\ c.fault.stage = 0 /\ c.target_cpu = -1 /\ ~c.online /\ ~c.running
  BY <1>0, SMTT(30) DEF vm_create_vcpu, IsVcpu, VcpuFields
<1> HIDE DEF c
<1>2. IsVcpu(b) /\ b.fault.stage = 0 /\ b.target_cpu = 0 /\ b.online /\ b.running
  BY <1>1, SMTT(30) DEF IsVcpu, VcpuFields
<1> HIDE DEF b
<1>3. vcpus = [i \in VcpuIds |-> IF i = BOOT_VCPU THEN b ELSE c] /\ kernel_failed = FALSE
  BY DEF ArmInit, b, c
<1>4. VcpuOk(c, FALSE) BY <1>1 DEF VcpuOk
<1>5. VcpuOk(b, FALSE)
  <2>1. 0 # -1 BY SMTT(30)
  <2> QED BY <1>2, <2>1 DEF VcpuOk
<1>6. \A i \in VcpuIds : vcpus[i] = b \/ vcpus[i] = c BY <1>3
<1>7. Distinct(vcpus)
  <2>1. \A i \in VcpuIds : i # BOOT_VCPU => vcpus[i] = c BY <1>3
  <2> QED BY <1>1, <2>1 DEF Distinct
<1>8. vcpus = [i \in VcpuIds |-> vcpus[i]] BY <1>3
<1>9. exit \in VcpuIds BY ArmAssumption DEF ArmInit
<1> QED BY <1>3, <1>4, <1>5, <1>6, <1>7, <1>8, <1>9 DEF ArmInv, VcpusOk

(* Whatever exits its vcpus have and whichever kernel invocations fail,    *)
(* what a guest is told of a PSCI CPU_ON is true, no two vcpus become the  *)
(* same core, and an exit of one vcpu does not touch another one that runs *)
(* (handle_psci, start_new_vcpu, vm_assign_vcpu_target, vm_run_arch).      *)
THEOREM CpuOnTruthfulCorrect ==
  ASSUME NEW CONSTANT messages, \A m \in messages : IsMessage(m)
  PROVE  ArmInit /\ [][ArmNext(messages)]_arm_vars => CpuOnTruthful
<1> DEFINE Told == Distinct(vcpus') /\ OthersKept /\ ToldTrue
<1>1. ArmInit => ArmInv BY InitOk, SMTT(30)
<1>2. ASSUME ArmInv, ArmNext(messages) PROVE ArmInv' /\ Told
  <2>1. ASSUME NEW i \in VcpuIds, vm_inject_irq(i) PROVE ArmInv' /\ OthersKept /\ ToldTrue
    BY <1>2, <2>1, InjectStep
  <2>2. ASSUME NEW i \in VcpuIds, NEW msg \in messages, vm_run_arch(i, msg) PROVE ArmInv' /\ OthersKept /\ ToldTrue
    BY <1>2, <2>2, RunStep
  <2>3. ArmInv' /\ OthersKept /\ ToldTrue BY <1>2, <2>1, <2>2 DEF ArmNext
  <2> QED BY <2>3 DEF ArmInv, VcpusOk
<1>3. ArmInv /\ UNCHANGED arm_vars => ArmInv' BY DEF ArmInv, arm_vars
<1>4. ArmInv /\ [ArmNext(messages)]_arm_vars => ArmInv' BY <1>2, <1>3
<1>5. ArmInv /\ [ArmNext(messages)]_arm_vars => [Told]_arm_vars BY <1>2
<1>6. Told => /\ \A i, j \in VcpuIds : i # j /\ vcpus'[i].target_cpu = vcpus'[j].target_cpu => vcpus'[i].target_cpu = -1
              /\ \A i \in VcpuIds \ {exit'} : vcpus[i].running /\ ~Blocked(vcpus[i]) => vcpus'[i] = vcpus[i]
              /\ LET v == vcpus'[exit']
                 IN  run' = "loop" /\ v.msg.dev.kind = "smc" /\ v.msg.call.fn = "CPU_ON" /\ vcpus[exit'] # v
                         => Truthful(v.msg.call, v.tcb.r[0][0][1])
  BY DEF Distinct, OthersKept, ToldTrue
<1> HIDE DEF Told
<1> QED BY <1>1, <1>4, <1>5, <1>6, PTL DEF CpuOnTruthful
=============================================================================
