----------------------------- MODULE X86Proofs ------------------------------
(***************************************************************************)
(* Proofs about X86Vm, for every set of pins, ports and register values    *)
(* the guest and the devices use: every step keeps the invariant LoopInv   *)
(* of the loop's head, from which the five properties follow.              *)
(***************************************************************************)
EXTENDS X86ExitProofs

\* Leaves that name no prover go to Zenon.
USE ZenonT(30)

\* The six parts of a machine say everything about it.
LEMMA PartsSay ==
    ASSUME NEW pulse, NEW v, NEW w, DOMAIN w = {"pic", "apic", "hw", "gs", "run", "failed"},
           w.pic = v.pic, w.apic = v.apic, w.hw = v.hw, w.gs = v.gs, w.run = v.run,
           w.failed = v.failed
    PROVE  /\ AtHead(v, pulse) => AtHead(w, pulse)
           /\ \A wr : CrView(v, wr) => CrView(w, wr)
           /\ SameCr(v, w)
<1>1. IsVcpu(v) => IsVcpu(w)
  BY DEF IsVcpu
<1>2. CacheOk(v) => CacheOk(w)
  BY <1>1 DEF CacheOk
<1>3. vm_apic_has_interrupt(w) = vm_apic_has_interrupt(v)
  BY HasDepends
<1>4. Noticed(v) => Noticed(w)
  BY <1>3 DEF Noticed
<1>5. Dirty(w) = Dirty(v) /\ \A f : Eff(w, f) = Eff(v, f)
  BY DEF Dirty, Eff
<1>6. AtHead(v, pulse) => AtHead(w, pulse)
  BY <1>1, <1>2, <1>4, <1>5 DEF AtHead
<1> QED
  BY <1>5, <1>6 DEF CrView, SameCr

\* A step to a machine at the head of the loop keeps LoopInv.
LEMMA BecomeHead ==
    ASSUME NEW w, Become(w), AtHead(w, PulsePins), w.run = "running" => CrView(w, wrote')
    PROVE  LoopInv'
<1> DEFINE m == [pic |-> pic', apic |-> apic', hw |-> hw', gs |-> gs', run |-> run',
                 failed |-> failed']
<1>1. /\ DOMAIN m = {"pic", "apic", "hw", "gs", "run", "failed"}
      /\ m.pic = w.pic /\ m.apic = w.apic /\ m.hw = w.hw /\ m.gs = w.gs /\ m.run = w.run
      /\ m.failed = w.failed /\ m.run = run'
  BY DEF Become
<1>2. Machine' = m
  BY DEF Machine
<1> HIDE DEF m
<1>3. AtHead(m, PulsePins) /\ (CrView(w, wrote') => CrView(m, wrote'))
  BY <1>1, PartsSay
<1> QED
  BY <1>1, <1>2, <1>3 DEF LoopInv

\* A turn of the loop with a handler that is no write to a control register.
LEMMA TurnStep ==
    ASSUME LoopInv, Entered, NEW v, Handled(Exited, v, PulsePins), NEW ret \in {-1, 0, 1},
           Turn(HandledAs(v, ret)), UNCHANGED wrote
    PROVE  LoopInv'
<1> DEFINE w == AfterHandler(HandledAs(v, ret))
<1>1. Become(w)
  BY DEF Turn
<1>2. AtHead(w, PulsePins) /\ (w.run = "running" => SameCr(v, w))
  BY TurnHead DEF Handled
<1> HIDE DEF w
<1>3. SameCr(Machine, Exited) /\ SameCr(Exited, v) /\ CrView(Machine, wrote)
  BY ExitedHandling DEF LoopInv, Handled, Entered
<1>4. w.run = "running" => CrView(w, wrote)
  BY <1>2, <1>3, CrKept
<1> QED
  BY <1>1, <1>2, <1>4, BecomeHead

\* A write to a control register.
LEMMA CrStep ==
    ASSUME LoopInv, Entered, NEW r, Ready(r.v, PulsePins), r.ret \in {0, -1}, NEW new,
           r.ret = 0 => CrView(r.v, new), CrTurn(r, new)
    PROVE  LoopInv'
<1> DEFINE ret == IF r.ret = 0 THEN 1 ELSE -1
           w == AfterHandler(HandledAs(r.v, ret))
<1>1. Become(w) /\ wrote' = (IF r.ret = 0 THEN new ELSE wrote) /\ ret \in {-1, 0, 1}
  BY DEF CrTurn, Turn
<1>2. AtHead(w, PulsePins) /\ (w.run = "running" => SameCr(r.v, w) /\ ret # -1)
  BY <1>1, TurnHead
<1> HIDE DEF w
<1>3. w.run = "running" => CrView(w, wrote')
  BY <1>1, <1>2, CrKept
<1> QED
  BY <1>1, <1>2, <1>3, BecomeHead

\* A notification.
LEMMA NotifiedStep ==
    ASSUME LoopInv, NEW p, PicInv(p, PulsePins), BasesSet(pic) => BasesSet(p), NEW err,
           Notified(p, err)
    PROVE  LoopInv'
<1> DEFINE u == IF Entered THEN vm_guest_state_invalidate_all(Machine) ELSE Machine
           w == AfterCallback(WithPic(u, p), err)
<1>1. run = "running" /\ Become(w) /\ wrote' = wrote
  BY DEF Notified, WithPic
<1>2. /\ Machine.pic = pic /\ Machine.apic = apic /\ Machine.gs = gs /\ Machine.run = run
      /\ Machine.failed = failed
  BY DEF Machine
<1>3. /\ AtHead(Machine, PulsePins) /\ CrView(Machine, wrote) /\ IsVcpu(Machine)
      /\ (Eff(Machine, "rflags") => BasesSet(pic)) /\ (gs.halt <=> gs.in_exit)
      /\ Noticed(Machine) /\ Nested(apic) /\ failed = {} /\ PicInv(pic, PulsePins)
      /\ IsApic(apic)
      /\ gs.in_exit => CacheOk(Machine)
      /\ ~gs.in_exit => Dirty(Machine) = {}
  BY <1>1, <1>2 DEF LoopInv, AtHead
<1>4. /\ SameRest(Machine, u) /\ CacheOk(u) /\ (~gs.in_exit => Dirty(u) = {})
      /\ \A f \in Fields : Eff(u, f) = Eff(Machine, f)
  <2>1. CASE Entered
    <3>1. SameRest(Machine, u) /\ SameCache(Machine, u)
      BY <1>2, <1>3, <2>1, InvalidateKeeps DEF Entered
    <3> QED
      BY <1>3, <3>1 DEF SameCache
  <2>2. CASE ~Entered
    <3>1. u = Machine /\ gs.in_exit
      BY <1>1, <1>3, <2>2 DEF Entered
    <3> QED
      BY <1>3, <3>1 DEF SameRest
  <2> QED
    BY <2>1, <2>2
<1> HIDE DEF u
<1>5. /\ u.pic = pic /\ u.apic = apic /\ u.failed = {} /\ u.run = "running"
      /\ u.gs.halt = gs.halt /\ u.gs.in_exit = gs.in_exit /\ u.gs.window = gs.window
      /\ u.gs.cr = gs.cr /\ u.gs.cr3_exiting = gs.cr3_exiting
  BY <1>1, <1>2, <1>3, <1>4 DEF SameRest
<1>6. {"rflags", "cr0", "cr3", "cr4"} \subseteq Fields
  BY DEF Fields
<1>7. VcpuInv(u, PulsePins) /\ (Eff(u, "rflags") => BasesSet(p))
  BY <1>3, <1>4, <1>5, <1>6 DEF VcpuInv
<1>8. vm_apic_has_interrupt(u) = vm_apic_has_interrupt(Machine)
  BY <1>2, <1>5, HasDepends
<1>9. Noticed(u)
  BY <1>2, <1>3, <1>5, <1>8 DEF Noticed
<1>10. AtHead(w, PulsePins) /\ (w.run = "running" => SameCr(u, w))
  BY <1>3, <1>4, <1>5, <1>7, <1>9, CallbackHead
<1> HIDE DEF w
<1>11. SameCr(Machine, u)
  BY <1>2, <1>4, <1>5, <1>6 DEF SameCr
<1>12. w.run = "running" => CrView(w, wrote)
  BY <1>3, <1>10, <1>11, CrKept
<1> QED
  BY <1>1, <1>10, <1>12, BecomeHead

(***************************************************************************)
(* The steps                                                               *)
(***************************************************************************)
LEMMA Programming ==
    /\ Executes => Entered /\ gs.entry = 0
    /\ \A f : In(f) => Executes
    /\ Vectored <=> BasesSet(pic)
BY DEF Executes, In, Vectored, BasesSet

\* What the guest does by itself: its interrupt flag, the event it takes.
LEMMA FlagStep ==
    ASSUME LoopInv, Entered, DOMAIN hw' = DOMAIN hw, hw'["rflags"] => BasesSet(pic),
           \A f \in Fields \ ReadOnly : hw'[f] = hw[f],
           DOMAIN gs' = DOMAIN gs, gs'.machine = gs.machine, gs'.cr = gs.cr,
           gs'.window = gs.window, gs'.cr3_exiting = gs.cr3_exiting, gs'.halt = gs.halt,
           gs'.in_exit = gs.in_exit, UNCHANGED <<pic, apic, run, failed, wrote>>
    PROVE  LoopInv'
<1> DEFINE v == Machine
           w == Machine'
<1>1. /\ v.pic = pic /\ v.apic = apic /\ v.hw = hw /\ v.gs = gs /\ v.run = run
      /\ v.failed = failed
  BY DEF Machine
<1>2. /\ w.pic = pic /\ w.apic = apic /\ w.hw = hw' /\ w.gs = gs' /\ w.run = run
      /\ w.failed = failed /\ DOMAIN w = {"pic", "apic", "hw", "gs", "run", "failed"}
  BY DEF Machine
<1> HIDE DEF v, w
<1>3. /\ AtHead(v, PulsePins) /\ CrView(v, wrote)
  BY DEF LoopInv, Entered, v
<1>4. run = "running" /\ ~gs.halt /\ ~gs.in_exit
  BY DEF Entered
<1>5. /\ PicInv(pic, PulsePins) /\ IsApic(apic) /\ Nested(apic) /\ failed = {}
      /\ IsVcpu(v) /\ Noticed(v) /\ Dirty(v) = {}
  BY <1>1, <1>3, <1>4 DEF AtHead
<1>6. DOMAIN hw' = Fields
  BY <1>1, <1>5 DEF IsVcpu
<1>7. IsVcpu(w)
  BY <1>1, <1>2, <1>5, <1>6 DEF IsVcpu
<1>8. /\ Dirty(w) = {} /\ \A f \in Fields : w.gs.machine[f].status # "modified"
      /\ \A f \in Fields : v.gs.machine[f].status # "modified"
  BY <1>1, <1>2, <1>5 DEF Dirty
<1>9. Eff(w, "rflags") = hw'["rflags"] /\ \A f \in {"cr0", "cr3", "cr4"} : Eff(w, f) = Eff(v, f)
  BY <1>1, <1>2, <1>6, <1>8 DEF Eff, Fields, ReadOnly
<1>10. vm_apic_has_interrupt(w) = vm_apic_has_interrupt(v)
  BY <1>1, <1>2, HasDepends
<1>11. Noticed(w)
  BY <1>1, <1>2, <1>5, <1>10 DEF Noticed
<1>12. AtHead(w, PulsePins)
  BY <1>2, <1>4, <1>5, <1>7, <1>8, <1>9, <1>11 DEF AtHead
<1>13. CrView(w, wrote)
  BY <1>1, <1>2, <1>3, <1>9, CrKept DEF SameCr
<1> QED
  BY <1>12, <1>13 DEF LoopInv, w

\* A write to a control register that does not exit.
LEMMA DirectStep ==
    ASSUME LoopInv, Entered, NEW f \in {"cr0", "cr3", "cr4"}, NEW x, NEW value,
           DOMAIN hw' = DOMAIN hw, hw'[f] = x, \A g \in Fields : g # f => hw'[g] = hw[g],
           DOMAIN wrote' = DOMAIN wrote, wrote'[f] = value,
           \A g \in {"cr0", "cr3", "cr4"} : g # f => wrote'[g] = wrote[g],
           UNCHANGED <<pic, apic, gs, run, failed>>,
           f = "cr3" => x = value /\ ~gs.cr3_exiting,
           f = "cr0" => value = (gs.cr.cr0_shadow \intersect gs.cr.cr0_mask)
                                \union (x \ gs.cr.cr0_mask),
           f = "cr4" => value = (gs.cr.cr4_shadow \intersect gs.cr.cr4_mask)
                                \union (x \ gs.cr.cr4_mask)
    PROVE  LoopInv'
<1> DEFINE v == Machine
           w == Machine'
<1>1. /\ v.pic = pic /\ v.apic = apic /\ v.hw = hw /\ v.gs = gs /\ v.run = run
      /\ v.failed = failed
  BY DEF Machine
<1>2. /\ w.pic = pic /\ w.apic = apic /\ w.hw = hw' /\ w.gs = gs /\ w.run = run
      /\ w.failed = failed /\ DOMAIN w = {"pic", "apic", "hw", "gs", "run", "failed"}
  BY DEF Machine
<1> HIDE DEF v, w
<1>3. /\ AtHead(v, PulsePins) /\ CrView(v, wrote)
  BY DEF LoopInv, Entered, v
<1>4. run = "running" /\ ~gs.halt /\ ~gs.in_exit
  BY DEF Entered
<1>5. /\ PicInv(pic, PulsePins) /\ IsApic(apic) /\ Nested(apic) /\ failed = {}
      /\ IsVcpu(v) /\ Noticed(v) /\ Dirty(v) = {} /\ (Eff(v, "rflags") => BasesSet(pic))
  BY <1>1, <1>3, <1>4 DEF AtHead
<1>6. DOMAIN hw' = Fields
  BY <1>1, <1>5 DEF IsVcpu
<1>7. IsVcpu(w)
  BY <1>1, <1>2, <1>5, <1>6 DEF IsVcpu
<1>8. /\ Dirty(w) = {} /\ \A g \in Fields : w.gs.machine[g].status # "modified"
      /\ \A g \in Fields : v.gs.machine[g].status # "modified"
  BY <1>1, <1>2, <1>5, SMTT(30) DEF Dirty
<1>9. Eff(w, f) = x /\ \A g \in Fields : g # f => Eff(w, g) = Eff(v, g)
  BY <1>1, <1>2, <1>6, <1>8 DEF Eff, Fields
<1>10. vm_apic_has_interrupt(w) = vm_apic_has_interrupt(v)
  BY <1>1, <1>2, HasDepends
<1>11. Noticed(w)
  BY <1>1, <1>2, <1>5, <1>10 DEF Noticed
<1>12. AtHead(w, PulsePins)
  BY <1>2, <1>4, <1>5, <1>7, <1>8, <1>9, <1>11 DEF AtHead, Fields
<1>13. {"cr0", "cr3", "cr4"} \subseteq Fields
  BY DEF Fields
<1>14. CrView(w, wrote')
  <2>1. CASE f = "cr0"
    BY <1>1, <1>2, <1>3, <1>9, <1>13, <2>1 DEF CrView
  <2>2. CASE f = "cr3"
    BY <1>1, <1>2, <1>3, <1>9, <1>13, <2>2 DEF CrView
  <2>3. CASE f = "cr4"
    BY <1>1, <1>2, <1>3, <1>9, <1>13, <2>3 DEF CrView
  <2> QED
    BY <2>1, <2>2, <2>3
<1> QED
  BY <1>12, <1>14 DEF LoopInv, w

\* What the guest does without an exit.
LEMMA GuestSteps ==
    ASSUME LoopInv, DeliverEvent \/ Sti \/ Cli \/ Iret \/ OtherInstruction
    PROVE  LoopInv'
<1> USE DEF Fields, ReadOnly
<1>1. Entered
  BY Programming DEF DeliverEvent, Sti, Cli, Iret, OtherInstruction, SetInterruptFlag
<1>2. DOMAIN hw = Fields /\ (hw["rflags"] => BasesSet(pic))
      /\ DOMAIN gs = {"machine", "cr", "entry", "window", "cr3_exiting", "halt", "in_exit"}
  <2>1. /\ Machine.hw = hw /\ Machine.gs = gs /\ Machine.pic = pic /\ Machine.run = "running"
    BY <1>1 DEF Machine, Entered
  <2>2. IsVcpu(Machine) /\ Dirty(Machine) = {} /\ (Eff(Machine, "rflags") => BasesSet(pic))
    BY <1>1, <2>1 DEF LoopInv, AtHead, Entered
  <2> QED
    BY <2>1, <2>2 DEF IsVcpu, Dirty, Eff
<1>3. CASE DeliverEvent
  <2>1. /\ gs' = [gs EXCEPT !.entry = 0]
        /\ hw' = [hw EXCEPT !["rflags"] = FALSE, !["guest_interruptibility"] = FALSE]
        /\ UNCHANGED <<pic, apic, run, failed, wrote>>
    BY <1>3 DEF DeliverEvent
  <2>2. DOMAIN hw' = DOMAIN hw /\ ~hw'["rflags"] /\ \A f \in Fields \ ReadOnly : hw'[f] = hw[f]
    BY <1>2, <2>1
  <2>3. /\ DOMAIN gs' = DOMAIN gs /\ gs'.machine = gs.machine /\ gs'.cr = gs.cr
        /\ gs'.window = gs.window /\ gs'.cr3_exiting = gs.cr3_exiting /\ gs'.halt = gs.halt
        /\ gs'.in_exit = gs.in_exit
    BY <1>2, <2>1
  <2> QED
    BY <1>1, <2>1, <2>2, <2>3, FlagStep
<1>4. ASSUME NEW on, NEW shadow, SetInterruptFlag(on, shadow)
      PROVE  LoopInv'
  <2>1. /\ hw' = [hw EXCEPT !["rflags"] = on, !["guest_interruptibility"] = shadow]
        /\ UNCHANGED <<pic, apic, gs, run, failed, wrote>>
        /\ on => BasesSet(pic)
    BY <1>4, Programming DEF SetInterruptFlag
  <2>2. /\ DOMAIN hw' = DOMAIN hw /\ hw'["rflags"] = on
        /\ \A f \in Fields \ ReadOnly : hw'[f] = hw[f]
    BY <1>2, <2>1
  <2> QED
    BY <1>1, <2>1, <2>2, FlagStep
<1>5. CASE Sti \/ Cli \/ Iret \/ OtherInstruction
  BY <1>4, <1>5 DEF Sti, Cli, Iret, OtherInstruction
<1> QED
  BY <1>3, <1>5

\* A pin of the pair is a pin of one chip.
LEMMA PinParts ==
    ASSUME NEW irq \in 0..15
    PROVE  \E n \in 0..1, p \in Pins : irq = p + 8 * n
<1>1. irq \div 8 \in 0..1 /\ irq % 8 \in Pins /\ irq = (irq % 8) + 8 * (irq \div 8)
  BY SMTT(30) DEF Pins
<1> QED
  BY <1>1

\* What devices do between turns.
LEMMA DeviceSteps ==
    ASSUME LoopInv,
           \/ \E irq \in PulsePins : DevicePulse(irq)
           \/ \E irq \in LevelPins, level \in BOOLEAN : DeviceLevel(irq, level)
           \/ CallbackFails
    PROVE  LoopInv'
<1>1. PicInv(pic, PulsePins)
  <2>1. Machine.pic = pic
    BY DEF Machine
  <2> QED
    BY <2>1 DEF LoopInv, AtHead
<1>2. ASSUME NEW irq \in PulsePins, DevicePulse(irq)
      PROVE  LoopInv'
  <2>1. irq \in 0..15 /\ 2 \notin PulsePins
    BY PinAssumption
  <2>2. PICK n \in 0..1, p \in Pins : irq = p + 8 * n
    BY <2>1, PinParts
  <2> DEFINE j == vm_inject_irq(pic, irq)
  <2>3. PicInv(j, PulsePins) /\ SameBases(pic, j)
    BY <1>1, <2>1, <2>2, VmInjectIrq
  <2>4. Notified(j, FALSE)
    BY <1>2 DEF DevicePulse
  <2> HIDE DEF j
  <2>5. BasesSet(pic) => BasesSet(j)
    BY <2>3 DEF BasesSet, SameBases
  <2> QED
    BY <2>3, <2>4, <2>5, NotifiedStep
<1>3. ASSUME NEW irq \in LevelPins, NEW level \in BOOLEAN, DeviceLevel(irq, level)
      PROVE  LoopInv'
  <2>1. irq \in 0..15 /\ irq \notin PulsePins
    BY PinAssumption
  <2>2. PICK n \in 0..1, p \in Pins : irq = p + 8 * n
    BY <2>1, PinParts
  <2> DEFINE j == vm_set_irq_level(pic, irq, level)
  <2>3. PicInv(j, PulsePins) /\ SameBases(pic, j)
    BY <1>1, <2>1, <2>2, VmSetIrqLevel, SMTT(30) DEF Moved
  <2>4. Notified(j, FALSE)
    BY <1>3 DEF DeviceLevel
  <2> HIDE DEF j
  <2>5. BasesSet(pic) => BasesSet(j)
    BY <2>3 DEF BasesSet, SameBases
  <2> QED
    BY <2>3, <2>4, <2>5, NotifiedStep
<1>4. CASE CallbackFails
  BY <1>1, <1>4, NotifiedStep DEF CallbackFails
<1> QED
  BY <1>2, <1>3, <1>4

\* A handler that only looks at the cache, or at the guest's registers.
LEMMA QuietHandled ==
    ASSUME LoopInv, Entered
    PROVE  /\ Handling(Exited, PulsePins)
           /\ Handled(Exited, Exited, PulsePins) /\ Handled(Exited, Registers(Exited), PulsePins)
           /\ Handled(Exited, Read(Exited, "context"), PulsePins)
           /\ Handling(Read(Exited, "context"), PulsePins)
           /\ SameCr(Exited, Read(Exited, "context"))
           /\ Read(Exited, "context").gs.entry = gs.entry
<1>1. Handling(Exited, PulsePins) /\ Exited.gs.entry = gs.entry
  BY ExitedHandling DEF LoopInv
<1>2. Handled(Exited, Exited, PulsePins) /\ Ready(Exited, PulsePins) /\ CacheOk(Exited)
  BY <1>1, HandledRefl DEF Handled, Handling, VcpuInv
<1>3. Handled(Exited, Registers(Exited), PulsePins)
  BY <1>2, RegistersReady
<1> DEFINE r == Read(Exited, "context")
<1>4. Handling(r, PulsePins) /\ Ready(r, PulsePins) /\ SameCr(Exited, r) /\ SameRest(Exited, r)
  BY <1>1, <1>2, ContextRead
<1> HIDE DEF r
<1>5. Handled(Exited, r, PulsePins) /\ r.gs.entry = gs.entry
  BY <1>1, <1>4 DEF Handled, SameRest
<1> QED
  BY <1>1, <1>2, <1>3, <1>4, <1>5 DEF r

\* A turn for an i/o exit.
LEMMA IoStep ==
    ASSUME LoopInv, Entered, NEW p, PicInv(p, PulsePins), hw["rflags"] => BasesSet(p),
           NEW is_in \in BOOLEAN, NEW res,
           Turn(vm_io_instruction_handler(Exited, p, is_in, res)), UNCHANGED wrote
    PROVE  LoopInv'
<1> DEFINE r == vm_io_instruction_handler(Exited, p, is_in, res)
<1>1. Handling(Exited, PulsePins) /\ Eff(Exited, "rflags") = hw["rflags"]
  BY ExitedHandling DEF LoopInv, Fields
<1>2. Handled(Exited, r.v, PulsePins) /\ r.ret \in {-1, 1}
  BY <1>1, IoReady
<1>3. r = HandledAs(r.v, r.ret)
  BY DEF vm_io_instruction_handler, HandledAs
<1>4. Turn(HandledAs(r.v, r.ret))
  BY <1>3
<1> HIDE DEF r
<1> QED
  BY <1>2, <1>4, TurnStep

\* The 8259s at the head of the loop.
LEMMA PicAtHead ==
    ASSUME LoopInv, Entered
    PROVE  PicInv(pic, PulsePins) /\ (hw["rflags"] => BasesSet(pic))
<1>1. /\ Machine.hw = hw /\ Machine.gs = gs /\ Machine.pic = pic /\ Machine.run = "running"
  BY DEF Machine, Entered
<1>2. /\ Dirty(Machine) = {} /\ (Eff(Machine, "rflags") => BasesSet(pic))
      /\ PicInv(pic, PulsePins)
  BY <1>1 DEF LoopInv, AtHead, Entered
<1> QED
  BY <1>1, <1>2 DEF Dirty, Eff, Fields

\* The accesses to ports.
LEMMA PicSteps ==
    ASSUME LoopInv,
           \/ \E w \in PicWrites : PicOut(w[1], w[2])
           \/ \E port \in PicReads : PicIn(port)
           \/ \E is_in \in BOOLEAN, res \in {"handled", "unhandled", "error"} : OtherPort(is_in, res)
    PROVE  LoopInv'
<1>1. ASSUME NEW w \in PicWrites, PicOut(w[1], w[2])
      PROVE  LoopInv'
  <2> DEFINE port == w[1]
             val == w[2]
             j == i8259_port_out(pic, port, val)
  <2>1. port \in PicPorts \union ElcrPorts /\ val \in Int
    BY WriteAssumption
  <2>2. /\ Executes /\ UNCHANGED wrote
        /\ port \in PicPorts /\ port % 2 = 1 /\ pic.pics[port \div 128].init_state = 1
             => val >= 16
        /\ Turn(vm_io_instruction_handler(Exited, j, FALSE, "handled"))
    BY <1>1 DEF PicOut
  <2> HIDE DEF port, val
  <2>3. Entered
    BY <2>2, Programming
  <2>4. PicInv(j, PulsePins) /\ (BasesSet(pic) => BasesSet(j))
    BY <2>1, <2>2, <2>3, PicAtHead, PortOut
  <2> HIDE DEF j
  <2>5. hw["rflags"] => BasesSet(j)
    BY <2>3, <2>4, PicAtHead
  <2> QED
    BY <2>2, <2>3, <2>4, <2>5, IoStep
<1>2. ASSUME NEW port \in PicReads, PicIn(port)
      PROVE  LoopInv'
  <2> DEFINE j == i8259_port_in(pic, port)
  <2>1. /\ Executes /\ UNCHANGED wrote
        /\ Turn(vm_io_instruction_handler(Exited, j, TRUE, "handled"))
    BY <1>2 DEF PicIn
  <2>2. Entered
    BY <2>1, Programming
  <2>3. PicInv(j, PulsePins) /\ SameBases(pic, j)
    BY <2>2, PicAtHead, PortIn
  <2> HIDE DEF j
  <2>4. hw["rflags"] => BasesSet(j)
    BY <2>2, <2>3, PicAtHead DEF BasesSet, SameBases
  <2> QED
    BY <2>1, <2>2, <2>3, <2>4, IoStep
<1>3. ASSUME NEW is_in \in BOOLEAN, NEW res, OtherPort(is_in, res)
      PROVE  LoopInv'
  <2>1. Entered
    BY <1>3, Programming DEF OtherPort
  <2>2. Turn(vm_io_instruction_handler(Exited, pic, is_in, res)) /\ UNCHANGED wrote
    BY <1>3 DEF OtherPort
  <2> QED
    BY <2>1, <2>2, PicAtHead, IoStep
<1> QED
  BY <1>1, <1>2, <1>3

\* The exits for an open interrupt window and for hlt.
LEMMA InterruptSteps ==
    ASSUME LoopInv, PendingInterruptExit \/ HltExit
    PROVE  LoopInv'
<1>1. CASE PendingInterruptExit
  <2> DEFINE v == vm_pending_interrupt_handler(Exited)
  <2>1. /\ Entered /\ gs.entry = 0 /\ gs.window /\ hw["rflags"] /\ ~hw["guest_interruptibility"]
        /\ Turn(HandledAs(v, 1)) /\ UNCHANGED wrote
    BY <1>1 DEF PendingInterruptExit, WindowOpen
  <2>2. /\ Handling(Exited, PulsePins) /\ Eff(Exited, "rflags")
        /\ ~Eff(Exited, "guest_interruptibility") /\ Exited.gs.entry = 0 /\ Exited.gs.window
    BY <2>1, ExitedHandling DEF LoopInv, Fields
  <2>3. Worked(Exited, v, PulsePins) /\ Noticed(v)
    BY <2>2, PendingHandler DEF Handling
  <2> HIDE DEF v
  <2>4. Handled(Exited, v, PulsePins)
    BY <2>2, <2>3, NoticedHandled
  <2> QED
    BY <2>1, <2>4, TurnStep
<1>2. CASE HltExit
  <2> DEFINE v == vm_hlt_handler(Exited)
  <2>1. Entered /\ Turn(HandledAs(v, 1)) /\ UNCHANGED wrote
    BY <1>2, Programming DEF HltExit
  <2>2. Handled(Exited, v, PulsePins)
    BY <2>1, QuietHandled, HltReady
  <2> HIDE DEF v
  <2> QED
    BY <2>1, <2>2, TurnStep
<1> QED
  BY <1>1, <1>2

\* A turn for a write to the page of the local APIC.
LEMMA ApicWriteStep ==
    ASSUME LoopInv, NEW reg, NEW val, IsApicWrite(reg, val), ApicWrite(reg, val)
    PROVE  LoopInv'
<1>1. PICK x : x = (0 - reg) % 4096
  BY SMTT(30)
<1> DEFINE u == Read(Exited, "context")
           v == vm_apic_mmio_write(u, x, val)
<1>2. Entered /\ Turn(HandledAs(v, 1)) /\ UNCHANGED wrote
  BY <1>1, Programming, SMTT(30) DEF ApicWrite
<1>3. Handling(u, PulsePins) /\ SameCr(Exited, u)
  BY <1>2, QuietHandled
<1> HIDE DEF u
<1>4. Handled(u, v, PulsePins)
  BY <1>1, <1>3, MmioWrite, SMTT(30)
<1> HIDE DEF v
<1>5. Handled(Exited, v, PulsePins)
  BY <1>3, <1>4, HandledTrans
<1> QED
  BY <1>2, <1>5, TurnStep

\* The writes the guest makes are writes of registers.
LEMMA ApicWriteSteps ==
    ASSUME LoopInv, NEW w \in ApicWrites \union IpiWrites, ApicWrite(w[1], w[2])
    PROVE  LoopInv'
<1>1. IsApicWrite(w[1], w[2])
  BY WriteAssumption
<1> QED
  BY <1>1, ApicWriteStep

\* A turn for a read of that page.
LEMMA ApicReadStep ==
    ASSUME LoopInv, ApicRead
    PROVE  LoopInv'
<1>1. Entered /\ Turn(HandledAs(Registers(Exited), 1)) /\ UNCHANGED wrote
  BY Programming DEF ApicRead
<1> QED
  BY <1>1, QuietHandled, TurnStep

\* The exits whose handlers leave the interrupt controllers alone.
LEMMA OtherExitSteps ==
    ASSUME LoopInv,
           \/ StringIo
           \/ \E is_fetch \in BOOLEAN,
                 result \in {"handled", "ignore", "unhandled", "restart", "error"},
                 unhandled \in {"none", "handled", "ignore", "error"} :
                   EptExit(is_fetch, result, unhandled)
           \/ \E leaf \in {"passed", "masked", "zeroed", "unlisted"} : CpuidExit(leaf)
           \/ \E res \in {"unknown", "done", "failed"} : VmcallExit(res)
           \/ \E rearmed \in BOOLEAN : OtherExit(rearmed)
    PROVE  LoopInv'
<1>1. CASE StringIo
  <2>1. Entered /\ Turn(HandledAs(Exited, -1)) /\ UNCHANGED wrote
    BY <1>1, Programming DEF StringIo
  <2> QED
    BY <2>1, QuietHandled, TurnStep
<1>2. ASSUME NEW is_fetch, NEW result, NEW unhandled, EptExit(is_fetch, result, unhandled)
      PROVE  LoopInv'
  <2> DEFINE r == vm_ept_violation_handler(Exited, is_fetch, result, unhandled)
  <2>1. Entered /\ Turn(r) /\ UNCHANGED wrote
    BY <1>2, Programming DEF EptExit
  <2>2. r \in {HandledAs(Exited, -1), HandledAs(Exited, 0), HandledAs(Exited, 1),
               HandledAs(Registers(Exited), 1)}
    BY DEF vm_ept_violation_handler
  <2> HIDE DEF r
  <2> QED
    BY <2>1, <2>2, QuietHandled, TurnStep
<1>3. ASSUME NEW leaf, CpuidExit(leaf)
      PROVE  LoopInv'
  <2> DEFINE r == vm_cpuid_handler(Exited, leaf)
  <2>1. Entered /\ Turn(r) /\ UNCHANGED wrote
    BY <1>3, Programming DEF CpuidExit
  <2>2. r \in {HandledAs(Registers(Exited), 1), HandledAs(Read(Exited, "context"), -1)}
    BY DEF vm_cpuid_handler
  <2> HIDE DEF r
  <2> QED
    BY <2>1, <2>2, QuietHandled, TurnStep
<1>4. ASSUME NEW res, VmcallExit(res)
      PROVE  LoopInv'
  <2> DEFINE ret == IF res = "failed" THEN -1 ELSE 1
  <2>1. Entered /\ Turn(HandledAs(Exited, ret)) /\ UNCHANGED wrote
    BY <1>4, Programming DEF VmcallExit
  <2>2. ret \in {-1, 0, 1}
    OBVIOUS
  <2> HIDE DEF ret
  <2> QED
    BY <2>1, <2>2, QuietHandled, TurnStep
<1>5. ASSUME NEW rearmed, OtherExit(rearmed)
      PROVE  LoopInv'
  <2> DEFINE ret == IF rearmed THEN 1 ELSE -1
  <2>1. Entered /\ Turn(HandledAs(Exited, ret)) /\ UNCHANGED wrote
    BY <1>5, Programming DEF OtherExit
  <2>2. ret \in {-1, 0, 1}
    OBVIOUS
  <2> HIDE DEF ret
  <2> QED
    BY <2>1, <2>2, QuietHandled, TurnStep, SMTT(30)
<1> QED
  BY <1>1, <1>2, <1>3, <1>4, <1>5

\* The accesses to model-specific registers.
LEMMA MsrSteps ==
    ASSUME LoopInv,
           \/ \E msr \in {"unsupported", "other"} : MsrReadExit(msr)
           \/ \E msr \in {"unsupported", "apicbase", "other"}, enable \in BOOLEAN :
                MsrWriteExit(msr, enable)
    PROVE  LoopInv'
<1> DEFINE c == Read(Exited, "context")
<1>1. ASSUME Entered, gs.entry = 0
      PROVE  Handled(Exited, vm_inject_exception(c), PulsePins)
  <2>1. Handling(c, PulsePins) /\ SameCr(Exited, c) /\ c.gs.entry = 0
    BY <1>1, QuietHandled
  <2> HIDE DEF c
  <2> QED
    BY <2>1, ExceptionReady, HandledTrans
<1>2. ASSUME NEW msr, MsrReadExit(msr)
      PROVE  LoopInv'
  <2> DEFINE v == vm_rdmsr_handler(Exited, msr)
  <2>1. Entered /\ gs.entry = 0 /\ Turn(HandledAs(v, 1)) /\ UNCHANGED wrote
    BY <1>2, Programming DEF MsrReadExit
  <2>2. v = vm_inject_exception(c) \/ v = Registers(Exited)
    BY DEF vm_rdmsr_handler
  <2> HIDE DEF v, c
  <2>3. Handled(Exited, v, PulsePins)
    BY <1>1, <2>1, <2>2, QuietHandled
  <2> QED
    BY <2>1, <2>3, TurnStep
<1>3. ASSUME NEW msr, NEW enable, MsrWriteExit(msr, enable)
      PROVE  LoopInv'
  <2> DEFINE v == vm_wrmsr_handler(Exited, msr, enable)
             b == vm_lapic_set_base_msr(c, enable)
  <2>1. Entered /\ gs.entry = 0 /\ Turn(HandledAs(v, 1)) /\ UNCHANGED wrote
    BY <1>3, Programming DEF MsrWriteExit
  <2>2. v = vm_inject_exception(c) \/ v = b \/ v = c
    BY DEF vm_wrmsr_handler
  <2>3. /\ Handling(c, PulsePins) /\ SameCr(Exited, c) /\ Handled(Exited, c, PulsePins)
    BY <2>1, QuietHandled
  <2> HIDE DEF v, c
  <2>4. Handled(Exited, b, PulsePins)
    BY <2>3, BaseMsrReady, HandledTrans
  <2> HIDE DEF b
  <2>5. Handled(Exited, v, PulsePins)
    BY <1>1, <2>1, <2>2, <2>3, <2>4
  <2> QED
    BY <2>1, <2>5, TurnStep, SMTT(30)
<1> QED
  BY <1>2, <1>3

(***************************************************************************)
(* Control registers                                                       *)
(***************************************************************************)
LEMMA CrExit ==
    ASSUME LoopInv, Entered
    PROVE  /\ Handling(Exited, PulsePins) /\ CrView(Exited, wrote) /\ CrView(Machine, wrote)
           /\ Exited.gs.cr3_exiting = gs.cr3_exiting /\ Ready(Exited, PulsePins)
<1>1. Handling(Exited, PulsePins) /\ SameCr(Machine, Exited) /\ Machine.gs = gs
  BY ExitedHandling DEF LoopInv, Machine
<1>2. CrView(Machine, wrote)
  BY DEF LoopInv, Entered
<1> QED
  BY <1>1, <1>2, CrKept, HandledRefl DEF Handled, SameCr

\* The registers of the hardware and those the guest wrote.
LEMMA CrDomains ==
    ASSUME LoopInv, Entered
    PROVE  DOMAIN hw = Fields /\ DOMAIN wrote = {"cr0", "cr3", "cr4"}
<1>1. Machine.run = "running" /\ Machine.hw = hw
  BY DEF Machine, Entered
<1>2. IsVcpu(Machine) /\ CrView(Machine, wrote)
  BY <1>1 DEF LoopInv, AtHead, Entered
<1> QED
  BY <1>1, <1>2 DEF IsVcpu, CrView

\* A turn for a write of CR0.
LEMMA Cr0Step ==
    ASSUME LoopInv, NEW value, NEW werr, MovToCr0(value, werr)
    PROVE  LoopInv'
<1>1. Entered
  BY Programming DEF MovToCr0
<1>2. CASE Owned(value, gs.cr.cr0_mask, gs.cr.cr0_shadow)
  <2> DEFINE r == vm_cr_set_cr0(Exited, value, werr)
             new == [wrote EXCEPT !.cr0 = value]
  <2>1. CrTurn(r, new)
    BY <1>2 DEF MovToCr0
  <2>2. Ready(r.v, PulsePins) /\ r.ret \in {0, -1} /\ (r.ret = 0 => CrView(r.v, new))
    BY <1>1, CrExit, SetCr0
  <2> HIDE DEF r, new
  <2> QED
    BY <1>1, <2>1, <2>2, CrStep
<1>3. CASE ~Owned(value, gs.cr.cr0_mask, gs.cr.cr0_shadow)
  <2> DEFINE mask == gs.cr.cr0_mask
             shadow == gs.cr.cr0_shadow
             x == (hw["cr0"] \intersect mask) \union (value \ mask)
  <2>1. /\ hw' = [hw EXCEPT !["cr0"] = x] /\ wrote' = [wrote EXCEPT !.cr0 = value]
        /\ UNCHANGED <<pic, apic, gs, run, failed>>
    BY <1>3 DEF MovToCr0
  <2>2. value = (shadow \intersect mask) \union (x \ mask)
    BY <1>3 DEF Owned
  <2> HIDE DEF x
  <2>3. /\ DOMAIN hw' = DOMAIN hw /\ hw'["cr0"] = x
        /\ \A g \in Fields : g # "cr0" => hw'[g] = hw[g]
    BY <1>1, <2>1, CrDomains DEF Fields
  <2>4. /\ DOMAIN wrote' = DOMAIN wrote /\ wrote'["cr0"] = value
        /\ \A g \in {"cr0", "cr3", "cr4"} : g # "cr0" => wrote'[g] = wrote[g]
    BY <1>1, <2>1, CrDomains
  <2> QED
    BY <1>1, <2>1, <2>2, <2>3, <2>4, DirectStep
<1> QED
  BY <1>2, <1>3

\* A turn for a write of CR4.
LEMMA Cr4Step ==
    ASSUME LoopInv, NEW value, NEW werr, MovToCr4(value, werr)
    PROVE  LoopInv'
<1>1. Entered
  BY Programming DEF MovToCr4
<1>2. CASE Owned(value, gs.cr.cr4_mask, gs.cr.cr4_shadow)
  <2> DEFINE r == vm_cr_set_cr4(Exited, value, werr)
             new == [wrote EXCEPT !.cr4 = value]
  <2>1. CrTurn(r, new)
    BY <1>2 DEF MovToCr4
  <2>2. Ready(r.v, PulsePins) /\ r.ret \in {0, -1} /\ (r.ret = 0 => CrView(r.v, new))
    BY <1>1, CrExit, SetCr4
  <2> HIDE DEF r, new
  <2> QED
    BY <1>1, <2>1, <2>2, CrStep, SMTT(30)
<1>3. CASE ~Owned(value, gs.cr.cr4_mask, gs.cr.cr4_shadow)
  <2> DEFINE mask == gs.cr.cr4_mask
             shadow == gs.cr.cr4_shadow
             x == (hw["cr4"] \intersect mask) \union (value \ mask)
  <2>1. /\ hw' = [hw EXCEPT !["cr4"] = x] /\ wrote' = [wrote EXCEPT !.cr4 = value]
        /\ UNCHANGED <<pic, apic, gs, run, failed>>
    BY <1>3 DEF MovToCr4
  <2>2. value = (shadow \intersect mask) \union (x \ mask)
    BY <1>3 DEF Owned
  <2> HIDE DEF x
  <2>3. /\ DOMAIN hw' = DOMAIN hw /\ hw'["cr4"] = x
        /\ \A g \in Fields : g # "cr4" => hw'[g] = hw[g]
    BY <1>1, <2>1, CrDomains DEF Fields
  <2>4. /\ DOMAIN wrote' = DOMAIN wrote /\ wrote'["cr4"] = value
        /\ \A g \in {"cr0", "cr3", "cr4"} : g # "cr4" => wrote'[g] = wrote[g]
    BY <1>1, <2>1, CrDomains
  <2> QED
    BY <1>1, <2>1, <2>2, <2>3, <2>4, DirectStep
<1> QED
  BY <1>2, <1>3

\* A turn for a write of CR3.
LEMMA Cr3Step ==
    ASSUME LoopInv, NEW value, MovToCr3(value)
    PROVE  LoopInv'
<1>1. Entered
  BY Programming DEF MovToCr3
<1>2. CASE gs.cr3_exiting
  <2> DEFINE r == vm_cr_set_cr3(Exited, value)
             new == [wrote EXCEPT !.cr3 = value]
  <2>1. CrTurn(r, new)
    BY <1>2 DEF MovToCr3
  <2>2. Ready(r.v, PulsePins) /\ r.ret = 0 /\ CrView(r.v, new)
    BY <1>1, <1>2, CrExit, SetCr3
  <2> HIDE DEF r, new
  <2> QED
    BY <1>1, <2>1, <2>2, CrStep
<1>3. CASE ~gs.cr3_exiting
  <2>1. /\ hw' = [hw EXCEPT !["cr3"] = value] /\ wrote' = [wrote EXCEPT !["cr3"] = value]
        /\ UNCHANGED <<pic, apic, gs, run, failed>>
    BY <1>3 DEF MovToCr3, CrDirect
  <2>2. /\ DOMAIN hw' = DOMAIN hw /\ hw'["cr3"] = value
        /\ \A g \in Fields : g # "cr3" => hw'[g] = hw[g]
    BY <1>1, <2>1, CrDomains DEF Fields
  <2>3. /\ DOMAIN wrote' = DOMAIN wrote /\ wrote'["cr3"] = value
        /\ \A g \in {"cr0", "cr3", "cr4"} : g # "cr3" => wrote'[g] = wrote[g]
    BY <1>1, <2>1, CrDomains
  <2> QED
    BY <1>1, <1>3, <2>1, <2>2, <2>3, DirectStep
<1> QED
  BY <1>2, <1>3

\* The accesses to control registers that write none.
LEMMA CrReadSteps ==
    ASSUME LoopInv, MovFromCr3 \/ OtherCrAccess
    PROVE  LoopInv'
<1>1. Entered
  BY Programming DEF MovFromCr3, OtherCrAccess
<1>2. Ready(Exited, PulsePins) /\ CrView(Exited, wrote) /\ CacheOk(Exited)
  BY <1>1, CrExit DEF Handling, VcpuInv
<1>3. CASE MovFromCr3
  <2> DEFINE u == Read(Exited, "cr3")
             w == Registers(u)
             r == HandledAs(w, 0)
  <2>1. CrTurn(r, wrote)
    BY <1>3 DEF MovFromCr3
  <2>2. {"rflags", "cr0", "cr3", "cr4"} \subseteq Fields
    BY DEF Fields
  <2>3. SameRest(Exited, u) /\ SameCache(Exited, u)
    BY <1>2, <2>2, ReadKeeps
  <2> HIDE DEF u
  <2>4. Ready(u, PulsePins) /\ SameCr(Exited, u)
    BY <1>2, <2>2, <2>3, CacheReady DEF SameCache, SameRest, SameCr
  <2>5. Handled(u, w, PulsePins)
    BY <2>4, RegistersReady
  <2> HIDE DEF w
  <2>6. Ready(w, PulsePins) /\ CrView(w, wrote)
    BY <1>2, <2>4, <2>5, CrKept DEF Handled
  <2>7. r.v = w /\ r.ret = 0
    BY DEF HandledAs
  <2> HIDE DEF r
  <2> QED
    BY <1>1, <2>1, <2>6, <2>7, CrStep
<1>4. CASE OtherCrAccess
  <2> DEFINE r == HandledAs(Exited, -1)
  <2>1. CrTurn(r, wrote) /\ r.v = Exited /\ r.ret = -1
    BY <1>4 DEF OtherCrAccess, HandledAs
  <2> HIDE DEF r
  <2> QED
    BY <1>1, <1>2, <2>1, CrStep
<1> QED
  BY <1>3, <1>4, SMTT(30)

(***************************************************************************)
(* Creation                                                                *)
(***************************************************************************)
LEMMA CreatedControllers ==
    ASSUME NEW pulse
    PROVE  /\ PicInv(i8259_init_state, pulse) /\ IsApic(vm_create_lapic) /\ Nested(vm_create_lapic)
           /\ ~i8259_init_state.output /\ ~vm_create_lapic.irr_pending
<1>1. PicInv(i8259_init_state, pulse)
  <2> DEFINE i == i8259_init_state
  <2>1. DOMAIN i = {"pics", "output", "owed"} /\ DOMAIN i.pics = 0..1 /\ i.owed = {}
    BY DEF i8259_init_state
  <2>2. \A n \in 0..1 : i.pics[n] = pic_zero
    BY DEF i8259_init_state
  <2>3. IsChip(pic_zero) /\ pic_zero.last_irr = {}
    BY SMTT(30) DEF pic_zero, IsChip, Pins
  <2> HIDE DEF i
  <2>4. IsPic(i)
    BY <2>1, <2>2, <2>3 DEF IsPic
  <2>5. /\ 2 \notin i.owed
        /\ \A n \in 0..1 : \A p \in Pins : p + 8 * n \notin i.owed /\ p \notin i.pics[n].last_irr
    BY <2>1, <2>2, <2>3
  <2> QED
    BY <2>4, <2>5 DEF PicInv, i
<1>2. IsApic(vm_create_lapic)
  BY SMTT(30) DEF vm_create_lapic, IsApic, Vectors
<1>3. Nested(vm_create_lapic)
  <2> DEFINE a == vm_create_lapic
  <2>1. /\ a.nested = {} /\ a.isr = {} /\ a.irr = {} /\ a.isr_count = 0 /\ a.irr_pending = FALSE
        /\ a.ppr = 0 /\ a.tpr = 0
    BY DEF vm_create_lapic
  <2> HIDE DEF a
  <2>2. Booked(a)
    BY <2>1, FS_EmptySet DEF Booked
  <2>3. PprOf(a) = 0
    <3>1. Class(0) = 0
      BY SMTT(30) DEF Class
    <3>2. apic_find_highest_isr(a) = -1
      BY <2>1 DEF apic_find_highest_isr
    <3> QED
      BY <2>1, <3>1, <3>2 DEF PprOf
  <2> QED
    BY <2>1, <2>2, <2>3 DEF Nested, a
<1> QED
  BY <1>1, <1>2, <1>3 DEF i8259_init_state, vm_create_lapic

\* The vcpu vm_create_vcpu_arch makes.
LEMMA Created ==
    ASSUME NEW pulse, NEW b \in BOOLEAN
    PROVE  LET v == vm_create_vcpu_arch(b) IN
           /\ CacheOk(v) /\ v.pic = i8259_init_state /\ v.apic = vm_create_lapic
           /\ v.run = "running" /\ v.failed = {} /\ ~Eff(v, "rflags")
           /\ ~v.gs.halt /\ ~v.gs.in_exit
           /\ DOMAIN v.gs.cr = {"cr0_mask", "cr0_host_bits", "cr0_shadow", "cr4_mask",
                                "cr4_host_bits", "cr4_shadow", "cr3_guest"}
           /\ v.gs.cr3_exiting <=> "PG" \notin v.gs.cr.cr0_shadow
<1> DEFINE cr == [cr0_mask |-> VM_VMCS_CR0_MASK, cr0_host_bits |-> VM_VMCS_CR0_MASK,
                  cr0_shadow |-> IF b THEN VM_VMCS_CR0_MASK ELSE {},
                  cr4_mask |-> VM_VMCS_CR4_MASK(b),
                  cr4_host_bits |-> VM_VMCS_CR4_VALUE(b),
                  cr4_shadow |-> {}, cr3_guest |-> 0]
           g == [machine |-> vm_guest_state_initialise, cr |-> cr, entry |-> 0, window |-> FALSE,
                 cr3_exiting |-> FALSE, halt |-> FALSE, in_exit |-> FALSE]
           u == [pic |-> i8259_init_state, apic |-> vm_create_lapic, run |-> "running",
                 failed |-> {}, hw |-> Zero, gs |-> g]
           x == Set(u, "cr0", VM_VMCS_CR0_MASK)
           y == Set(x, "cr3", 0)
           z == Set(y, "cr4", VM_VMCS_CR4_VALUE(b))
           v == vm_vmcs_init_guest(z, b)
<1>1. vm_create_vcpu_arch(b) = v
  BY DEF vm_create_vcpu_arch
<1>2. /\ {"rflags", "cr0", "cr3", "cr4"} \subseteq Fields
      /\ {"cr0", "cr3", "cr4"} \subseteq Fields \ ReadOnly /\ "rflags" \in ReadOnly
  BY DEF Fields, ReadOnly
<1>3. /\ DOMAIN cr = {"cr0_mask", "cr0_host_bits", "cr0_shadow", "cr4_mask", "cr4_host_bits",
                      "cr4_shadow", "cr3_guest"}
      /\ "PG" \in cr.cr0_shadow <=> b
  BY DEF VM_VMCS_CR0_MASK
<1> HIDE DEF cr
<1>4. DOMAIN Zero = Fields /\ Zero.rflags = FALSE
  BY DEF Zero, Fields
<1>5. /\ DOMAIN vm_guest_state_initialise = Fields
      /\ \A f \in Fields : vm_guest_state_initialise[f] = Valid(Zero[f])
  BY DEF vm_guest_state_initialise
<1>6. CacheOk(u) /\ Eff(u, "rflags") = FALSE
  <2>1. IsVcpu(u)
    BY <1>4, <1>5 DEF IsVcpu
  <2>2. u.hw = Zero /\ u.gs.machine = vm_guest_state_initialise
    OBVIOUS
  <2>3. \A f \in Fields : u.gs.machine[f].status = "valid"
    BY <1>5, <2>2, SMTT(30) DEF Valid
  <2> HIDE DEF u
  <2> QED
    BY <1>2, <1>4, <1>5, <2>1, <2>2, <2>3 DEF CacheOk, Eff
<1>7. /\ u.pic = i8259_init_state /\ u.apic = vm_create_lapic /\ u.run = "running"
      /\ u.failed = {} /\ u.gs.cr = cr /\ u.gs.halt = FALSE /\ u.gs.in_exit = FALSE
  OBVIOUS
<1> HIDE DEF u
<1>8. SameRest(u, x) /\ CacheOk(x) /\ Eff(x, "rflags") = FALSE
  BY <1>2, <1>6, SetKeeps, SMTT(30)
<1> HIDE DEF x
<1>9. SameRest(x, y) /\ CacheOk(y) /\ Eff(y, "rflags") = FALSE
  BY <1>2, <1>8, SetKeeps, SMTT(30)
<1> HIDE DEF y
<1>10. SameRest(y, z) /\ CacheOk(z) /\ Eff(z, "rflags") = FALSE
  BY <1>2, <1>9, SetKeeps, SMTT(30)
<1> HIDE DEF z
<1>11. /\ z.pic = i8259_init_state /\ z.apic = vm_create_lapic /\ z.run = "running"
       /\ z.failed = {} /\ z.gs.cr = cr /\ z.gs.halt = FALSE /\ z.gs.in_exit = FALSE
  BY <1>7, <1>8, <1>9, <1>10 DEF SameRest
<1>12. z.hw["rflags"] = FALSE
  <2>1. \/ z.gs.machine["rflags"] = Unknown
        \/ z.gs.machine["rflags"] = Valid(z.hw["rflags"])
    BY <1>2, <1>10 DEF CacheOk
  <2>2. z.gs.machine["rflags"].status # "modified"
    BY <2>1, SMTT(30) DEF Unknown, Valid
  <2> QED
    BY <1>10, <2>2 DEF Eff
<1>13. IsVcpu(z)
  BY <1>10 DEF CacheOk
<1>14. /\ v.pic = z.pic /\ v.apic = z.apic /\ v.run = z.run /\ v.failed = z.failed
       /\ v.gs.cr = z.gs.cr /\ v.gs.halt = z.gs.halt /\ v.gs.in_exit = z.gs.in_exit
       /\ v.gs.machine = z.gs.machine /\ DOMAIN v = DOMAIN z /\ DOMAIN v.gs = DOMAIN z.gs
       /\ v.gs.cr3_exiting = ~b
  BY <1>13 DEF IsVcpu, vm_vmcs_init_guest
<1>15. DOMAIN v.hw = DOMAIN z.hw /\ v.hw["rflags"] = FALSE
       /\ \A f \in Fields : f # "rflags" => v.hw[f] = z.hw[f]
  BY <1>2, <1>13 DEF IsVcpu, vm_vmcs_init_guest
<1> HIDE DEF v
<1>16. \A f \in Fields : v.hw[f] = z.hw[f]
  BY <1>12, <1>15
<1>17. IsVcpu(v)
  BY <1>13, <1>14, <1>15 DEF IsVcpu
<1>18. CacheOk(v) /\ Eff(v, "rflags") = Eff(z, "rflags")
  BY <1>2, <1>10, <1>14, <1>16, <1>17 DEF CacheOk, Eff
<1>19. ~Eff(v, "rflags") /\ ~v.gs.halt /\ ~v.gs.in_exit
  BY <1>10, <1>11, <1>14, <1>18
<1>20. v.gs.cr3_exiting <=> "PG" \notin v.gs.cr.cr0_shadow
  BY <1>3, <1>11, <1>14
<1> HIDE DEF cr, u
<1> QED
  BY <1>1, <1>3, <1>11, <1>14, <1>18, <1>19, <1>20

\* With nothing to be written back, what the guest reads is what CrView says.
LEMMA GuestReads ==
    ASSUME NEW v, Dirty(v) \subseteq {"context"},
           v.gs.cr3_exiting <=> "PG" \notin v.gs.cr.cr0_shadow
    PROVE  /\ GuestCr0(v) = (v.gs.cr.cr0_shadow \intersect v.gs.cr.cr0_mask)
                            \union (Eff(v, "cr0") \ v.gs.cr.cr0_mask)
           /\ GuestCr4(v) = (v.gs.cr.cr4_shadow \intersect v.gs.cr.cr4_mask)
                            \union (Eff(v, "cr4") \ v.gs.cr.cr4_mask)
           /\ GuestCr3(v) = IF v.gs.cr3_exiting THEN v.gs.cr.cr3_guest ELSE Eff(v, "cr3")
<1>1. \A f \in {"cr0", "cr3", "cr4"} : v.gs.machine[f].status # "modified"
  BY DEF Dirty, Fields
<1>2. \A f \in {"cr0", "cr3", "cr4"} : Eff(v, f) = v.hw[f]
  BY <1>1 DEF Eff
<1> QED
  BY <1>2 DEF GuestCr0, GuestCr3, GuestCr4, vm_cr_get_cr3

\* The loop begins at its head.
LEMMA InitHead == Init => LoopInv
<1> SUFFICES ASSUME Init PROVE LoopInv
  OBVIOUS
<1> DEFINE c == vm_create_vcpu_arch(bits64)
           s == SyncFields(c, VmcsFields)
           t == SyncFields(s, {"context"})
           v == vm_guest_state_invalidate_all(t)
<1>1. /\ bits64 \in BOOLEAN
      /\ pic = v.pic /\ apic = v.apic /\ hw = v.hw /\ gs = v.gs /\ run = v.run
      /\ failed = v.failed
      /\ wrote = [cr0 |-> GuestCr0(v), cr3 |-> GuestCr3(v), cr4 |-> GuestCr4(v)]
  BY DEF Init, Started, vm_sync_guest_context, vm_sync_guest_vmcs_state
<1>2. /\ {"context", "rflags", "cr0", "cr3", "cr4"} \subseteq Fields
      /\ VmcsFields \in SUBSET Fields /\ {"context"} \in SUBSET Fields
      /\ Fields \ VmcsFields = {"context"}
  BY DEF Fields, VmcsFields
<1>3. /\ CacheOk(c) /\ c.pic = i8259_init_state /\ c.apic = vm_create_lapic
      /\ c.run = "running" /\ c.failed = {} /\ ~Eff(c, "rflags")
      /\ ~c.gs.halt /\ ~c.gs.in_exit
      /\ DOMAIN c.gs.cr = {"cr0_mask", "cr0_host_bits", "cr0_shadow", "cr4_mask",
                           "cr4_host_bits", "cr4_shadow", "cr3_guest"}
      /\ c.gs.cr3_exiting <=> "PG" \notin c.gs.cr.cr0_shadow
  BY <1>1, Created
<1> HIDE DEF c
<1>4. /\ SameRest(c, s) /\ CacheOk(s) /\ Dirty(s) = Dirty(c) \ VmcsFields
      /\ \A f \in Fields : Eff(s, f) = Eff(c, f)
  BY <1>2, <1>3, SyncKeeps
<1> HIDE DEF s
<1>5. /\ SameRest(s, t) /\ CacheOk(t) /\ Dirty(t) = Dirty(s) \ {"context"}
      /\ \A f \in Fields : Eff(t, f) = Eff(s, f)
  BY <1>2, <1>4, SyncKeeps
<1> HIDE DEF t
<1>6. Dirty(t) = {}
  <2>1. Dirty(c) \subseteq Fields
    BY DEF Dirty
  <2> QED
    BY <1>2, <1>4, <1>5, <2>1
<1>7. SameRest(t, v) /\ SameCache(t, v)
  BY <1>5, <1>6, InvalidateKeeps DEF CacheOk
<1> HIDE DEF v
<1>8. /\ CacheOk(v) /\ Dirty(v) = {} /\ ~Eff(v, "rflags") /\ IsVcpu(v)
  BY <1>2, <1>3, <1>4, <1>5, <1>6, <1>7 DEF SameCache, CacheOk
<1>9. /\ v.pic = c.pic /\ v.apic = c.apic /\ v.run = c.run /\ v.failed = c.failed
      /\ v.gs.halt = c.gs.halt /\ v.gs.in_exit = c.gs.in_exit
      /\ v.gs.cr = c.gs.cr /\ v.gs.cr3_exiting = c.gs.cr3_exiting
  BY <1>4, <1>5, <1>7 DEF SameRest
<1>10. /\ PicInv(v.pic, PulsePins) /\ IsApic(v.apic) /\ Nested(v.apic)
       /\ ~v.pic.output /\ ~v.apic.irr_pending
  BY <1>3, <1>9, CreatedControllers
<1>11. vm_apic_has_interrupt(v) = -1
  BY <1>10 DEF vm_apic_has_interrupt, i8259_has_interrupt, apic_find_highest_irr
<1>12. Noticed(v)
  BY <1>11, SMTT(30) DEF Noticed
<1>13. AtHead(v, PulsePins)
  BY <1>3, <1>8, <1>9, <1>10, <1>12 DEF AtHead
<1>14. /\ DOMAIN wrote = {"cr0", "cr3", "cr4"} /\ wrote.cr0 = GuestCr0(v)
       /\ wrote.cr3 = GuestCr3(v) /\ wrote.cr4 = GuestCr4(v)
  BY <1>1
<1>15. CrView(v, wrote)
  BY <1>3, <1>8, <1>9, <1>14, GuestReads DEF CrView
<1>16. /\ DOMAIN Machine = {"pic", "apic", "hw", "gs", "run", "failed"}
       /\ Machine.pic = v.pic /\ Machine.apic = v.apic /\ Machine.hw = v.hw
       /\ Machine.gs = v.gs /\ Machine.run = v.run /\ Machine.failed = v.failed
  BY <1>1 DEF Machine
<1>17. AtHead(Machine, PulsePins) /\ CrView(Machine, wrote)
  BY <1>13, <1>15, <1>16, PartsSay
<1> QED
  BY <1>17 DEF LoopInv

(***************************************************************************)
(* The invariant of the loop's head                                        *)
(***************************************************************************)
LEMMA LoopStep ==
    ASSUME LoopInv, Next
    PROVE  LoopInv'
<1>1. CASE DeliverEvent \/ Sti \/ Cli \/ Iret \/ OtherInstruction
  BY <1>1, GuestSteps
<1>2. CASE \/ \E irq \in PulsePins : DevicePulse(irq)
           \/ \E irq \in LevelPins, level \in BOOLEAN : DeviceLevel(irq, level)
           \/ CallbackFails
  BY <1>2, DeviceSteps
<1>3. CASE PendingInterruptExit \/ HltExit
  BY <1>3, InterruptSteps
<1>4. CASE \/ \E w \in PicWrites : PicOut(w[1], w[2])
           \/ \E port \in PicReads : PicIn(port)
           \/ \E is_in \in BOOLEAN, res \in {"handled", "unhandled", "error"} : OtherPort(is_in, res)
  BY <1>4, PicSteps
<1>5. CASE \/ StringIo
           \/ \E is_fetch \in BOOLEAN,
                 result \in {"handled", "ignore", "unhandled", "restart", "error"},
                 unhandled \in {"none", "handled", "ignore", "error"} :
                   EptExit(is_fetch, result, unhandled)
           \/ \E leaf \in {"passed", "masked", "zeroed", "unlisted"} : CpuidExit(leaf)
           \/ \E res \in {"unknown", "done", "failed"} : VmcallExit(res)
           \/ \E rearmed \in BOOLEAN : OtherExit(rearmed)
  BY <1>5, OtherExitSteps
<1>6. CASE \/ \E w \in (IF focus = "ipi" THEN IpiWrites ELSE ApicWrites) : ApicWrite(w[1], w[2])
           \/ ApicRead
  <2>1. ASSUME NEW w \in (IF focus = "ipi" THEN IpiWrites ELSE ApicWrites), ApicWrite(w[1], w[2])
        PROVE  LoopInv'
    <3>1. w \in ApicWrites \union IpiWrites
      OBVIOUS
    <3> QED
      BY <2>1, <3>1, ApicWriteSteps
  <2> QED
    BY <1>6, <2>1, ApicReadStep
<1>7. CASE \/ \E msr \in {"unsupported", "other"} : MsrReadExit(msr)
           \/ \E msr \in {"unsupported", "apicbase", "other"}, enable \in BOOLEAN :
                MsrWriteExit(msr, enable)
  BY <1>7, MsrSteps
<1>8. CASE \/ \E value \in Cr0Values, werr \in {"none", "mask", "shadow"} : MovToCr0(value, werr)
           \/ \E value \in Cr4Values, werr \in {"none", "shadow"} : MovToCr4(value, werr)
           \/ \E value \in Cr3Values : MovToCr3(value)
           \/ MovFromCr3 \/ OtherCrAccess
  BY <1>8, Cr0Step, Cr4Step, Cr3Step, CrReadSteps
<1> QED
  BY <1>1, <1>2, <1>3, <1>4, <1>5, <1>6, <1>7, <1>8 DEF Next

\* A step that changes nothing keeps LoopInv.
LEMMA LoopStutter ==
    ASSUME LoopInv, UNCHANGED vars
    PROVE  LoopInv'
<1>1. Machine' = Machine /\ UNCHANGED <<run, wrote>>
  BY DEF vars, Machine
<1> QED
  BY <1>1 DEF LoopInv

(* The head of the loop of vm_run_arch: the 8259s, the local APIC and the  *)
(* cached guest state are consistent, nothing is left to be written back   *)
(* to the VMCS, and what the guest reads from its control registers is     *)
(* what it wrote.                                                          *)
THEOREM LoopInvariant == Spec => []LoopInv
<1>1. Init => LoopInv
  BY InitHead
<1>2. LoopInv /\ [Next]_vars => LoopInv'
  BY LoopStep, LoopStutter
<1> QED
  BY <1>1, <1>2, PTL DEF Spec

\* The machine is the six variables.
LEMMA MachineParts ==
    /\ Machine.pic = pic /\ Machine.apic = apic /\ Machine.hw = hw /\ Machine.gs = gs
    /\ Machine.run = run /\ Machine.failed = failed
BY DEF Machine

(* An edge-triggered interrupt whose acknowledgement its device waits for  *)
(* is requested or in service in the 8259, whatever the guest writes to    *)
(* its ports (pic_clear_isr, pic_reset, pic_ioport_write).                 *)
THEOREM EdgeKept == Spec => []EdgeNotForgotten
<1>1. LoopInv => EdgeNotForgotten
  <2> SUFFICES ASSUME LoopInv, NEW irq \in pic.owed
               PROVE  irq % 8 \in pic.pics[irq \div 8].irr \union pic.pics[irq \div 8].isr
    BY DEF EdgeNotForgotten
  <2>1. PicInv(pic, PulsePins)
    BY MachineParts DEF LoopInv, AtHead
  <2>2. irq \in 0..15
    BY <2>1 DEF PicInv, IsPic
  <2>3. PICK n \in 0..1, p \in 0..7 : irq = p + 8 * n
    <3>1. CASE irq < 8
      <4>1. irq \in 0..7 /\ irq = irq + 8 * 0
        BY <2>2, <3>1, SMTT(30)
      <4> QED BY <4>1, SMTT(30)
    <3>2. CASE irq >= 8
      <4>1. irq - 8 \in 0..7 /\ irq = (irq - 8) + 8 * 1
        BY <2>2, <3>2, SMTT(30)
      <4> QED BY <4>1, SMTT(30)
    <3> QED BY <2>2, <3>1, <3>2, SMTT(30)
  <2>4. irq \div 8 = n /\ irq % 8 = p
    BY <2>3, SMTT(30)
  <2>5. p \in pic.pics[n].irr \union pic.pics[n].isr
    BY <2>1, <2>3 DEF PicInv, Pins
  <2> QED
    BY <2>4, <2>5
<1> QED
  BY <1>1, LoopInvariant, PTL

(* When the loop enters the guest or waits while an interrupt could be     *)
(* delivered, the vcpu is not halted and the interrupt-window exit is      *)
(* requested (interrupt.c, halt.c, vm_run_arch): the VMM never sleeps on   *)
(* a deliverable interrupt.                                                *)
THEOREM NothingUnnoticed == Spec => []PendingIsNoticed
<1>1. LoopInv => PendingIsNoticed
  <2>1. LoopInv /\ run = "running" => Noticed(Machine)
    BY MachineParts DEF LoopInv, AtHead
  <2> QED
    BY <2>1, MachineParts DEF Noticed, PendingIsNoticed
<1> QED
  BY <1>1, LoopInvariant, PTL

(* No assertion of interrupt.c and vm.c fails, no stale cached value is    *)
(* read and no modified one dropped, in any order of exits and             *)
(* notifications.                                                          *)
THEOREM NoAssertionFails == Spec => []AssertionsHold
<1>1. LoopInv => AssertionsHold
  BY MachineParts DEF LoopInv, AtHead, AssertionsHold
<1> QED
  BY <1>1, LoopInvariant, PTL

(* In the local APIC, until it is reset, a vector accepted during another  *)
(* one is of a higher class, and irr_pending, isr_count and the processor  *)
(* priority agree with IRR and ISR (apic_set_isr, apic_update_ppr).        *)
THEOREM ServiceNested == Spec => []InServiceNested
<1>1. LoopInv => InServiceNested
  <2>1. LoopInv => Nested(apic)
    BY MachineParts DEF LoopInv, AtHead
  <2> QED
    BY <2>1 DEF Nested, Booked, InServiceNested
<1> QED
  BY <1>1, LoopInvariant, PTL

(* What the guest reads from CR0, CR3 and CR4 while it runs is what it     *)
(* last wrote, through the hand-over of CR3 and of the paging bits of CR4  *)
(* (vm_cr_set_cr0, vm_cr_set_cr3, vm_cr_set_cr4).                          *)
THEOREM CrViewKept == Spec => []GuestCrView
<1>1. LoopInv => GuestCrView
  <2> SUFFICES ASSUME LoopInv, run = "running"
               PROVE  /\ GuestCr0(Machine) = wrote.cr0 /\ GuestCr3(Machine) = wrote.cr3
                      /\ GuestCr4(Machine) = wrote.cr4
    BY DEF GuestCrView
  <2>1. CrView(Machine, wrote) /\ Dirty(Machine) \subseteq {"context"}
    <3>1. AtHead(Machine, PulsePins) /\ CrView(Machine, wrote) /\ Machine.run = "running"
      BY MachineParts DEF LoopInv
    <3> QED
      BY <3>1 DEF AtHead
  <2> QED
    BY <2>1, GuestReads DEF CrView
<1> QED
  BY <1>1, LoopInvariant, PTL
=============================================================================
