--------------------------------- MODULE MCArm ---------------------------------
(***************************************************************************)
(* One vcpu that makes every kind of access, or three vcpus that start and *)
(* wake each other, or the devices of ArmEvents (focus).                   *)
(***************************************************************************)
EXTENDS ArmVm, ArmEvents

VARIABLE focus

Syndrome(write, rt, width, inst32) ==
    [valid |-> TRUE, write |-> write, rt |-> rt, width |-> width, inst32 |-> inst32]
Access(kind, action, write, addr, width, rt, mode) ==
    [NoMessage EXCEPT !.kind = "abort", !.dev = [kind |-> kind, action |-> action], !.addr = addr,
        !.rt = rt, !.mode = mode, !.fsr = Syndrome(write, rt, width, TRUE)]
\* In Thumb state the erratum leaves no Rt in the syndrome of a store.
Thumb(m, is32, class) ==
    [m EXCEPT !.thumb = TRUE, !.inst = [is32 |-> is32, wide |-> FALSE, class |-> class, rt |-> m.rt],
        !.fsr.inst32 = is32, !.fsr.rt = IF m.fsr.write THEN 3 ELSE m.rt]

Whole == {<<0, 4>>, <<4, 4>>}
Partial == {<<0, 1>>, <<3, 1>>, <<2, 2>>, <<6, 2>>}
Plain(kind, action) == {Access(kind, action, w, a[1], a[2], 0, "svc") : w \in BOOLEAN, a \in Whole \cup {<<0, 1>>}}

RegisterAccesses ==
    {Access("vdist", "", w, a[1], a[2], reg[1], reg[2]) :
        w \in BOOLEAN, a \in Whole \cup Partial,
        reg \in {<<0, "svc">>, <<8, "fiq">>, <<8, "usr">>, <<13, "usr">>, <<13, "svc">>, <<14, "irq">>}}
DeviceAccesses ==
    UNION {Plain("sysreg", ""), Plain("listening", ""), Plain("listening_ram", ""),
           Plain("gac", "REPORT_AND_MASK"), Plain("gac", "MASK_ONLY"), Plain("gac", "REPORT_ONLY"),
           Plain("gf", ""), Plain("gf", "no_fn"), Plain("power", "swrst"), Plain("power", "shutdown"),
           Plain("uart", ""), Plain("sdhc", ""), Plain("passthrough", "")}
CommandAccesses ==
    {[Access(k[1], k[2], TRUE, 0, 4, 0, "svc") EXCEPT !.cmd = TRUE, !.err = e] :
        k \in {<<"power", "swrst">>, <<"power", "shutdown">>, <<"uart", "">>}, e \in BOOLEAN}
    \cup {Access("gac", "MASK_ONLY", TRUE, 2, 2, 0, "svc"), Access("sysreg", "", TRUE, 1, 1, 0, "svc")}
ThumbAccesses ==
    {Thumb(Access("sysreg", "", w, 0, 4, 1, "svc"), is32, c) :
        w \in BOOLEAN, is32 \in BOOLEAN, c \in {"store", "other"}}
    \cup {[Thumb(Access("sysreg", "", TRUE, 0, 4, 1, "svc"), FALSE, "store") EXCEPT !.fetch = FALSE]}
\* A doubleword or multiple access has no syndrome.
NoSyndrome(m) == [m EXCEPT !.fsr = [NoFsr EXCEPT !.write = m.fsr.write]]
MemoryAccesses ==
    {[Access("ram", "", FALSE, 0, 4, 0, "svc") EXCEPT !.err = e] : e \in BOOLEAN}
    \cup {Access("none", r, FALSE, 0, 4, 0, "svc") : r \in {"", "HANDLED", "RESTART", "IGNORE", "ERROR"}}
    \cup {NoSyndrome(Access(k, "IGNORE", FALSE, 0, 4, 0, "svc")) : k \in {"ram", "none", "sysreg"}}
    \cup {[NoSyndrome(Thumb(Access(k, "IGNORE", FALSE, 0, 4, 14, "svc"), TRUE, "ldrd")) EXCEPT !.inst.wide = TRUE] :
             k \in {"ram", "none", "sysreg"}}
    \cup {[NoSyndrome(Access(k, "IGNORE", FALSE, 0, 4, 0, "svc")) EXCEPT !.prefetch = TRUE, !.fsr.inst32 = TRUE] :
             k \in {"ram", "none", "uart"}}

Exception(kind) == [NoMessage EXCEPT !.kind = "vcpu", !.dev.kind = kind, !.fsr.inst32 = TRUE]
OtherExits ==
    {[NoMessage EXCEPT !.kind = "syscall", !.call.fn = f] : f \in {"NOP", "BAD"}}
    \cup {[NoMessage EXCEPT !.kind = k] : k \in {"exception", "unknown"}}
    \cup {Exception(k) : k \in {"wfx", "brk", "debug_sysreg", "unknown", "smc"}}
    \cup {[Exception("wfx") EXCEPT !.thumb = TRUE]}
Smc(fn, target, fails) ==
    [Exception("smc") EXCEPT !.cmd = TRUE, !.call = [fn |-> fn, target |-> target, fails |-> fails]]
PsciCalls == {Smc(fn, 0, "") : fn \in (PsciFunctions \ {"CPU_ON"}) \cup {"CPU_OFF"}}
CpuOns == {Smc("CPU_ON", t, "") : t \in {-1, 0, 1, 2}} \cup {Smc("CPU_ON", 2, f) : f \in {"bootargs", "start"}}

Accesses == UNION {RegisterAccesses, DeviceAccesses, CommandAccesses, ThumbAccesses, MemoryAccesses,
                   OtherExits, PsciCalls}
SmpExits == CpuOns \cup {Exception("wfx")}
MCMessages(f) == IF f = "access" THEN Accesses ELSE SmpExits
ASSUME MessageAssumption == \A m \in Accesses \cup SmpExits : IsMessage(m)

MCVcpuIds == 0..2
MCGacMask == {0, 1}

MCInit == ArmInit /\ EventInit /\ focus \in {"access", "smp", "event"}
VcpuNext == focus # "event" /\ ArmNext(MCMessages(focus)) /\ UNCHANGED <<event_vars, focus>>
DeviceNext == focus = "event" /\ EventNext /\ UNCHANGED <<arm_vars, focus>>
MCNext == VcpuNext \/ DeviceNext
Spec == MCInit /\ [][MCNext]_<<arm_vars, event_vars, focus>>
=============================================================================
