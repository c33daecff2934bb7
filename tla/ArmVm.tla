--------------------------------- MODULE ArmVm ---------------------------------
(***************************************************************************)
(* The exits of an ARM guest: vm_run_arch and its handlers                 *)
(* (libsel4vm/src/arch/arm: vm.c, mem_abort.c, syscalls.c) with the vcpu   *)
(* exceptions, SMC calls and PSCI of libsel4vmmplatsupport.  One step is   *)
(* one turn of the loop: the guest ran and was stopped, and the handler of *)
(* the exit ran to its end.  The guest ran with any registers; the bytes   *)
(* in them are named after the register, the bytes of the device after the *)
(* device.  exit is the vcpu the last exit came from.  VGIC models the     *)
(* maintenance and VPPI exits and what becomes of a WFI.                   *)
(***************************************************************************)
EXTENDS ArmDevices

CONSTANTS VcpuIds, BOOT_VCPU

ASSUME ArmAssumption == VcpuIds \subseteq Nat /\ BOOT_VCPU \in VcpuIds

VARIABLES vcpus,            \* the vcpus, as in ArmFault, with target_cpu, online, running
          device,           \* the device the guest accesses
          run,              \* "loop", "error" (vm_run returned) or "assert"
          exit,             \* the vcpu of the last exit
          kernel_failed     \* a kernel invocation has failed

arm_vars == <<vcpus, device, run, exit, kernel_failed>>

Regs(msg) == [r |-> [rt \in Rts |-> Word("usr", rt)], pc |-> 0, thumb |-> msg.thumb, mode |-> msg.mode]
Bank == [reg \in Banked |-> Word(reg[2], reg[1])]
NoMessage == [kind |-> "start", prefetch |-> FALSE, addr |-> 0, fsr |-> NoFsr, inst |-> NoInst,
              rt |-> 0, fetch |-> TRUE, dev |-> [kind |-> "none", action |-> ""], cmd |-> FALSE, err |-> FALSE,
              thumb |-> FALSE, mode |-> "svc", call |-> [fn |-> "", target |-> 0, fails |-> ""]]

\* vm_create_vcpu, vm_create_vcpu_arch, create_vmm_plat_vcpu.
vm_create_vcpu == [fault |-> fault_init, tcb |-> NoRegs, bank |-> Bank, msg |-> NoMessage, cap |-> FALSE,
                   replies |-> 0, dead |-> FALSE, target_cpu |-> -1, online |-> FALSE, running |-> FALSE]

(***************************************************************************)
(* Memory aborts.  The library's user may have a handler for addresses no  *)
(* reservation covers (msg.dev.action is its result; HANDLED means that it *)
(* has advanced the fault itself).                                         *)
(***************************************************************************)
Outcome(v, d, ret) == [v |-> v, d |-> d, ret |-> ret]
Ended(v, d, res) ==
    CASE res = "HANDLED" -> Outcome(v, d, 1)
      [] res = "RESTART" -> Outcome(restart_fault(v), d, 1)
      [] res = "IGNORE" -> Outcome(ignore_fault(v), d, 1)
      [] res = "ERROR" -> Outcome(abandon_fault(v), d, -1)
unhandled_memory_fault(v, d) ==
    CASE v.msg.dev.action = "" -> Outcome(abandon_fault(v), d, -1)
      [] v.msg.dev.action = "HANDLED" -> Ended(advance_fault(v), d, "HANDLED")
      [] OTHER -> Ended(v, d, v.msg.dev.action)
PageFault(r) == IF r.res = "UNHANDLED" THEN unhandled_memory_fault(r.v, r.d) ELSE Ended(r.v, r.d, r.res)
Sized(v, d) == IF v.dead THEN Outcome(v, d, -1) ELSE PageFault(vm_memory_handle_fault(v, d))
handle_page_fault(v, d) == Sized(fault_get_width(v), d)
vm_guest_mem_abort_handler(v, d) == handle_page_fault(new_memory_fault(v), d)

(***************************************************************************)
(* Hypercalls.  VM_EXIT_HANDLED is not 0, so the reply is not sent.        *)
(***************************************************************************)
handle_syscall(v) == [v EXCEPT !.tcb.pc = @ + 4]
vm_syscall_handler(v, d) ==
    IF v.msg.call.fn \in {"PA_TO_IPA", "NOP"} THEN Outcome(handle_syscall(v), d, 1) ELSE Outcome(v, d, -1)

vm_user_exception_handler(v, d) == Outcome([v EXCEPT !.replies = @ + 1], d, 1)
vm_unknown_exit_handler(v, d) == Outcome(v, d, -1)

(***************************************************************************)
(* PSCI.  call.fails is the kernel invocation that fails when the new vcpu *)
(* is started: "bootargs", "start" or none.                                *)
(***************************************************************************)
Holders(vs, target) == {i \in VcpuIds : vs[i].target_cpu = target}
First(S) == CHOOSE i \in S : \A j \in S : i <= j
\* -1 counts as a target that every unassigned vcpu has.
vm_assign_vcpu_target(vs, i, target) ==
    IF Holders(vs, target) # {} THEN vs ELSE [vs EXCEPT ![i].target_cpu = target]

sel4arch_set_bootargs(entry, context) ==
    [NoRegs EXCEPT !.r[2] = Word("context", context), !.pc = entry]
vcpu_set_bootargs(v, entry, context) == vm_set_thread_context(v, sel4arch_set_bootargs(entry, context))
vcpu_start(v, ok) == [v EXCEPT !.online = TRUE, !.running = ok]

Started(vs, i, call) ==
    CASE call.fails = "bootargs" -> vm_assign_vcpu_target(vs, i, -1)
      [] call.fails = "start" ->
             vm_assign_vcpu_target([vs EXCEPT ![i] = vcpu_start(vcpu_set_bootargs(@, 100, call.target), FALSE)], i, -1)
      [] OTHER -> [vs EXCEPT ![i] = vcpu_start(vcpu_set_bootargs(@, 100, call.target), TRUE)]
start_new_vcpu(vs, i, call) ==
    Started(vm_assign_vcpu_target(vs, i, call.target), i, call)

Psci(vs, value) == [vs |-> vs, value |-> value]
\* Mutant: the outcome of start_new_vcpu is not looked at.
CpuOn_Unchecked(vs, call) ==
    CASE Holders(vs, call.target) # {} ->
             Psci(vs, IF vs[First(Holders(vs, call.target))].online THEN "ALREADY_ON" ELSE "INTERNAL_FAILURE")
      [] Holders(vs, call.target) = {} /\ Holders(vs, -1) = {} -> Psci(vs, "INTERNAL_FAILURE")
      [] OTHER -> Psci(start_new_vcpu(vs, First(Holders(vs, -1)), call), "SUCCESS")
CpuOn(vs, call) ==
    CASE Holders(vs, call.target) # {} ->
             Psci(vs, IF vs[First(Holders(vs, call.target))].online THEN "ALREADY_ON" ELSE "INTERNAL_FAILURE")
      [] Holders(vs, call.target) = {} /\ Holders(vs, -1) = {} -> Psci(vs, "INTERNAL_FAILURE")
      [] OTHER -> Psci(start_new_vcpu(vs, First(Holders(vs, -1)), call),
                       IF call.fails = "" THEN "SUCCESS" ELSE "INTERNAL_FAILURE")
PsciCall(vs, call) ==
    CASE call.fn = "CPU_ON" -> CpuOn(vs, call)
      [] call.fn = "VERSION" -> Psci(vs, "version")
      [] call.fn = "MIGRATE_INFO_TYPE" -> Psci(vs, "no_migration")
      [] call.fn = "FEATURES" -> Psci(vs, "NOT_SUPPORTED")
      [] call.fn = "SYSTEM_RESET" -> Psci(vs, "SUCCESS")

Machine(vs, d, ret) == [vs |-> vs, d |-> d, ret |-> ret]
smc_set_return_value(regs, value) == [regs EXCEPT !.r[0] = Word(value, 0)]
PsciAnswered(p, i, regs, d) ==
    Machine([p.vs EXCEPT ![i] = advance_fault(vm_set_thread_context(@, smc_set_return_value(regs, p.value)))], d, 1)
PsciFunctions == {"VERSION", "CPU_ON", "MIGRATE_INFO_TYPE", "FEATURES", "SYSTEM_RESET"}
handle_psci(vs, i, d) ==
    IF vs[i].msg.call.fn \notin PsciFunctions THEN Machine(vs, d, -1)
    ELSE PsciAnswered(PsciCall(vs, vs[i].msg.call), i, vm_get_thread_context(vs[i]), d)
\* Standard service calls with a PSCI number go to handle_psci, all others fail.
handle_smc(vs, i, d) == IF vs[i].msg.cmd THEN handle_psci(vs, i, d) ELSE Machine(vs, d, -1)

(***************************************************************************)
(* Vcpu exceptions, by class: WFI and WFE are ignored, breakpoints and     *)
(* debug registers are stepped over, an SMC is a call, the rest fails.     *)
(***************************************************************************)
SteppedOver == {"brk", "debug_sysreg"}
vmm_handle_arm_vcpu_exception(vs, i, d) ==
    CASE vs[i].msg.dev.kind = "wfx" -> Machine(vs, d, 1)
      [] vs[i].msg.dev.kind = "smc" -> handle_smc(vs, i, d)
      [] vs[i].msg.dev.kind \in SteppedOver -> Machine([vs EXCEPT ![i] = advance_fault(@)], d, 1)
      [] OTHER -> Machine(vs, d, -1)
vm_vcpu_handler(vs, i, d) == vmm_handle_arm_vcpu_exception([vs EXCEPT ![i] = new_vcpu_fault(@)], i, d)

(***************************************************************************)
(* A turn of the loop for vcpu i, which has stopped with its message.      *)
(***************************************************************************)
OnVcpu(vs, i, o) == Machine([vs EXCEPT ![i] = o.v], o.d, o.ret)
arm_exit_handlers(vs, i, d) ==
    CASE vs[i].msg.kind = "abort" -> OnVcpu(vs, i, vm_guest_mem_abort_handler(vs[i], d))
      [] vs[i].msg.kind = "syscall" -> OnVcpu(vs, i, vm_syscall_handler(vs[i], d))
      [] vs[i].msg.kind = "exception" -> OnVcpu(vs, i, vm_user_exception_handler(vs[i], d))
      [] vs[i].msg.kind = "vcpu" -> vm_vcpu_handler(vs, i, d)
      [] OTHER -> OnVcpu(vs, i, vm_unknown_exit_handler(vs[i], d))

Blocked(v) == v.msg.kind # "start" /\ v.replies = 0
Stopped(v, msg) == [v EXCEPT !.msg = msg, !.tcb = Regs(msg), !.bank = Bank, !.replies = 0]

Turn(m, i) ==
    /\ vcpus' = m.vs
    /\ device' = m.d
    /\ run' = IF \E j \in VcpuIds : m.vs[j].dead THEN "assert" ELSE IF m.ret > 0 THEN "loop" ELSE "error"
    /\ exit' = i
vm_run_arch(i, msg) ==
    /\ run = "loop"
    /\ vcpus[i].running /\ ~Blocked(vcpus[i])
    /\ Turn(arm_exit_handlers([vcpus EXCEPT ![i] = Stopped(@, msg)], i, [device EXCEPT !.regs = DeviceFresh]), i)
    /\ kernel_failed' = (kernel_failed \/ msg.call.fails # "")

\* vm_inject_irq ends the WFI its vcpu waits in.
vm_inject_irq(i) ==
    /\ run = "loop"
    /\ ~fault_handled(vcpus[i]) /\ vcpus[i].fault.type = "VCPU" /\ vcpus[i].msg.dev.kind = "wfx"
    /\ vcpus' = [vcpus EXCEPT ![i] = ignore_fault(@)]
    /\ UNCHANGED <<device, run, exit, kernel_failed>>

ArmInit ==
    /\ vcpus = [i \in VcpuIds |->
                  IF i = BOOT_VCPU THEN [vm_create_vcpu EXCEPT !.target_cpu = 0, !.online = TRUE, !.running = TRUE]
                  ELSE vm_create_vcpu]
    /\ device = [regs |-> DeviceFresh, buf_pos |-> 0]
    /\ run = "loop" /\ exit = BOOT_VCPU /\ kernel_failed = FALSE
\* A message of the kernel: an abort is in a device or in memory, and the
\* library's user answers it with a result; only vcpu exceptions are SMC calls.
DeviceKinds == {"ram", "passthrough", "none", "gac", "gf", "sysreg", "vdist", "listening",
                "listening_ram", "power", "uart", "sdhc"}
Results == {"HANDLED", "RESTART", "IGNORE", "ERROR"}
IsMessage(m) ==
    /\ m.kind # "start"
    /\ m.kind = "abort" => /\ m.dev.kind \in DeviceKinds
                           /\ m.dev.kind = "none" => m.dev.action \in Results \cup {""}
    /\ m.dev.kind = "smc" => m.kind = "vcpu"
\* messages are the exits the guest may have.
ArmNext(messages) == \E i \in VcpuIds : vm_inject_irq(i) \/ \E msg \in messages : vm_run_arch(i, msg)

(***************************************************************************)
(* What an exit should have done, for the message m that caused it.        *)
(***************************************************************************)
Emulators == {"sysreg", "vdist", "listening", "listening_ram", "gac", "gf", "power", "uart", "sdhc"}
IsAccess(m) == m.kind = "abort" /\ m.dev.kind \in Emulators
Advanced(m) == m.kind = "abort" /\ (m.dev.kind \in Emulators \/ m.dev.action = "HANDLED")
\* Accesses the code does not claim to emulate, and answers with an assertion.
Unsupported(m) ==
    /\ m.kind = "abort"
    /\ \/ ~m.prefetch /\ ~m.fsr.valid
       \/ m.prefetch /\ Advanced(m)
       \/ m.addr % m.fsr.width # 0
       \/ m.dev.kind = "sdhc" /\ m.fsr.width # 4
       \/ m.dev.kind = "gac" /\ m.fsr.write /\ m.addr % 4 # 0
       \/ Errata766422 /\ m.thumb /\ m.fsr.write /\ (m.inst.class # "store" \/ ~m.fetch)

Length(m) == IF m.thumb /\ ~m.inst.is32 THEN 2 ELSE 4
Restarted(m) == m.dev.kind = "ram" \/ (m.dev.kind = "none" /\ m.dev.action = "RESTART")
Answered(v, pc) == v.replies = 1 /\ ~v.cap /\ fault_handled(v) /\ v.tcb.pc = pc
Waiting(v) == v.replies = 0 /\ v.cap /\ ~fault_handled(v) /\ v.tcb.pc = 0
Resumed(v) ==
    CASE v.msg.kind = "abort" -> Answered(v, IF Restarted(v.msg) THEN 0 ELSE Length(v.msg))
      [] v.msg.kind = "exception" -> Answered(v, 0)
      [] v.msg.kind = "vcpu" ->
             \/ Answered(v, Length(v.msg))
             \/ v.msg.dev.kind = "wfx" /\ Waiting(v)
             \/ v.msg.dev.kind = "smc" /\ v.msg.thumb   \* moved by 2, though an SMC has 4 bytes
      [] OTHER -> TRUE                                  \* a hypercall is not answered

Value(v, reg) == IF reg[2] = "usr" THEN v.tcb.r[reg[1]] ELSE v.bank[reg]
Before(reg) == Word(reg[2], reg[1])
Registers == Rts \X {"usr"} \cup Banked
Operand(m) == <<m.rt, IF <<m.rt, m.mode>> \in Banked THEN m.mode ELSE "usr">>
Changes(m) ==
    IF Advanced(m) /\ ~m.fsr.write THEN {Operand(m)}
    ELSE IF m.kind = "vcpu" /\ m.dev.kind = "smc" THEN {<<0, "usr">>} ELSE {}

Addressed(m) == m.addr .. m.addr + m.fsr.width - 1
\* The bytes of the device a guest may change.
Writable(m) ==
    CASE m.dev.kind = "gac" -> IF m.dev.action = "REPORT_ONLY" THEN 0 .. GacMaskSize - 1 ELSE GacMask
      [] m.dev.kind = "gf" -> IF m.dev.action = "no_fn" THEN {} ELSE Offsets
      [] m.dev.kind = "power" -> IF m.dev.action = "swrst" \/ m.cmd THEN {} ELSE Lanes
      [] m.dev.kind \in {"uart", "sdhc"} -> Lanes
      [] OTHER -> Offsets
\* Handlers that use regs + offset as a word are right at word boundaries only,
\* and write_fn gets a whole register.
InScope(m) == m.fsr.valid /\ (m.dev.kind = "vdist" \/ (m.addr % 4 = 0 /\ (m.dev.kind = "gf" => m.fsr.width = 4)))
ByteRead(m, o) == IF m.dev.kind = "gf" /\ m.dev.action = "no_fn" THEN ZeroByte ELSE DeviceFresh[o]
Loaded(v, m) ==
    (m.dev.kind = "uart" => m.addr < UART_SIZE) =>
        \A j \in 0 .. m.fsr.width - 1 : Value(v, Operand(m))[j] = ByteRead(m, m.addr + j)
Stored(m, d) ==
    \A o \in Offsets :
        d.regs[o] = IF m.fsr.write /\ o \in Addressed(m) \cap Writable(m)
                    THEN Before(Operand(m))[o - m.addr] ELSE DeviceFresh[o]
Transferred(v, d) ==
    /\ v.msg.kind # "start" => \A reg \in Registers \ Changes(v.msg) : Value(v, reg) = Before(reg)
    /\ IsAccess(v.msg) /\ InScope(v.msg) =>
          Stored(v.msg, d) /\ (v.msg.fsr.write \/ Loaded(v, v.msg))

\* An exit the loop goes on from is over: the guest was answered exactly once
\* and the reply slot is free for its next exit, its PC moved by the length of
\* the instruction (not at all when the access is to be tried again), the bytes
\* it addressed moved between the device and the register the instruction names
\* in the bank of its mode, and nothing else changed, whatever faults came
\* before on this vcpu; and no assertion fails but for an unsupported access.
ExitEmulated ==
    /\ run = "assert" => Unsupported(vcpus[exit].msg)
    /\ run = "loop" => (\A i \in VcpuIds : Resumed(vcpus[i])) /\ Transferred(vcpus[exit], device)

Core(vs, target) == {i \in VcpuIds : vs[i].target_cpu = target}
IsOn(v, call) == v.running /\ v.tcb.pc = 100 /\ v.tcb.r[2] = Word("context", call.target)
Truthful(call, answer) ==
    CASE answer = "SUCCESS" -> \E i \in Core(vcpus', call.target) : ~vcpus[i].running /\ IsOn(vcpus'[i], call)
      [] answer = "ALREADY_ON" -> \E i \in Core(vcpus, call.target) : vcpus[i].running \/ kernel_failed
      [] answer = "INTERNAL_FAILURE" -> call.fails # "" \/ kernel_failed \/ call.target = -1 \/ Core(vcpus, -1) = {}
\* What the guest is told of a CPU_ON is true: SUCCESS means that a vcpu that
\* was off now runs as that core, at the entry point and with the context given;
\* ALREADY_ON that the core runs; INTERNAL_FAILURE that no vcpu was left or the
\* kernel refused.  (After a kernel call has failed, now or earlier, the last
\* two may be wrong: the core keeps its vcpu, marked online.)  Two vcpus are
\* never one core, and a vcpu that runs is not touched.
CpuOnTruthful ==
    [][/\ \A i, j \in VcpuIds : i # j /\ vcpus'[i].target_cpu = vcpus'[j].target_cpu => vcpus'[i].target_cpu = -1
       /\ \A i \in VcpuIds \ {exit'} : vcpus[i].running /\ ~Blocked(vcpus[i]) => vcpus'[i] = vcpus[i]
       /\ LET v == vcpus'[exit']
          IN  run' = "loop" /\ v.msg.dev.kind = "smc" /\ v.msg.call.fn = "CPU_ON" /\ vcpus[exit'] # v
                  => Truthful(v.msg.call, v.tcb.r[0][0][1])]_arm_vars
=============================================================================
