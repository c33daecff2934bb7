------------------------------- MODULE I8259 -------------------------------
(***************************************************************************)
(* The emulated pair of 8259 interrupt controllers                         *)
(* (libsel4vm/src/arch/x86/i8259/i8259.c).  Every operation is a function  *)
(* from the controller's state to its next state, so that the exit loop    *)
(* (X86Vm) can compose them into one step.                                 *)
(*                                                                         *)
(* A controller is a record                                                *)
(*   pics    the two chips, 0 the master and 1 the slave;                  *)
(*   output  the flag pic_update_irq leaves for the exit loop;             *)
(*   owed    the pins (0..15) whose line a device pulsed and whose         *)
(*           acknowledgement callback has not run since (bookkeeping for   *)
(*           the properties).                                              *)
(* The 8-bit registers are sets of pins.  Left out: special_mask,          *)
(* wakeup_needed, pending_acks, emitagain and isr_ack, which no decision   *)
(* of the code reads, and read_reg_select, which only chooses the value an *)
(* ordinary read returns.                                                  *)
(***************************************************************************)
EXTENDS Integers, FiniteSets, FiniteSetsExt

Pins == 0..7

\* The bits of a byte the guest writes.
Bit(val, b) == (val \div 2^b) % 2 = 1
Bits(val) == {b \in Pins : Bit(val, b)}

\* i8259_init_state on zeroed memory
pic_zero == [last_irr |-> {}, irr |-> {}, imr |-> {}, isr |-> {}, elcr |-> {},
             priority_add |-> 0, irq_base |-> 0, poll |-> FALSE, init_state |-> 0,
             auto_eoi |-> FALSE, rotate_on_auto_eoi |-> FALSE,
             special_fully_nested_mode |-> FALSE, init4 |-> FALSE]

i8259_init_state == [pics |-> [n \in 0..1 |-> pic_zero], output |-> FALSE, owed |-> {}]

elcr_mask(n) == IF n = 0 THEN Bits(248) ELSE Bits(222)

(***************************************************************************)
(* Priorities                                                              *)
(***************************************************************************)
get_priority(s, mask) ==
    IF mask = {} THEN 8 ELSE Min({(irq - s.priority_add) % 8 : irq \in mask})

pic_get_irq(i, n) ==
    LET s == i.pics[n]
        priority == get_priority(s, s.irr \ s.imr)
        serving == IF s.special_fully_nested_mode /\ n = 0 THEN s.isr \ {2} ELSE s.isr
    IN  IF priority # 8 /\ priority < get_priority(s, serving)
        THEN (priority + s.priority_add) % 8
        ELSE -1

(***************************************************************************)
(* Lines, acknowledgement, reset                                           *)
(***************************************************************************)
pic_clear_isr(i, n, irq) ==
    [i EXCEPT !.pics[n].isr = @ \ {irq},
              !.owed = IF irq + 8 * n = 2 THEN @ ELSE @ \ {irq + 8 * n}]

pic_set_irq1(s, irq, level) ==
    CASE irq \in s.elcr /\ level ->
            [s EXCEPT !.irr = @ \union {irq}, !.last_irr = @ \union {irq}]
      [] irq \in s.elcr /\ ~level ->
            [s EXCEPT !.irr = @ \ {irq}, !.last_irr = @ \ {irq}]
      [] irq \notin s.elcr /\ level ->
            [s EXCEPT !.irr = IF irq \in s.last_irr THEN @ ELSE @ \union {irq},
                      !.last_irr = @ \union {irq}]
      [] OTHER -> [s EXCEPT !.last_irr = @ \ {irq}]

pic_update_irq(i) ==
    LET m == IF pic_get_irq(i, 1) >= 0
             THEN [i EXCEPT !.pics[0] = pic_set_irq1(pic_set_irq1(@, 2, TRUE), 2, FALSE)]
             ELSE i
    IN  [m EXCEPT !.output = pic_get_irq(m, 0) >= 0]

\* Mutant: the reset drops the requests and calls no acknowledgement callback.
pic_reset_NoAck(i, n) ==
    [i EXCEPT !.pics[n] = [@ EXCEPT !.last_irr = {}, !.irr = @ \intersect i.pics[n].elcr,
                                    !.imr = {}, !.priority_add = 0, !.init_state = 1]]

\* Every edge-triggered request is dropped and its acknowledgement callback called.
pic_reset(i, n) ==
    LET s == i.pics[n]
        edge_irr == s.irr \ s.elcr
        cleared == [s EXCEPT !.last_irr = {}, !.irr = @ \intersect s.elcr, !.imr = {},
                             !.priority_add = 0, !.init_state = 1, !.isr = @ \ edge_irr,
                             !.special_fully_nested_mode = IF s.init4 THEN @ ELSE FALSE,
                             !.auto_eoi = IF s.init4 THEN @ ELSE FALSE]
    IN  [i EXCEPT !.pics[n] = cleared,
                  !.owed = @ \ {irq + 8 * n : irq \in edge_irr \ {2 - 8 * n}}]

(***************************************************************************)
(* Guest accesses                                                          *)
(***************************************************************************)
\* OCW2: end of interrupt, rotation and priority commands.
ocw2(i, n, cmd, arg) ==
    LET s == i.pics[n]
        top == (get_priority(s, s.isr) + s.priority_add) % 8
        rotated == [i EXCEPT !.pics[n].priority_add = (top + 1) % 8]
        turned == [i EXCEPT !.pics[n].priority_add = (arg + 1) % 8]
    IN  CASE cmd \in {0, 4} -> [i EXCEPT !.pics[n].rotate_on_auto_eoi = (cmd = 4)]
          [] cmd = 1 /\ s.isr # {} -> pic_update_irq(pic_clear_isr(i, n, top))
          [] cmd = 5 /\ s.isr # {} -> pic_update_irq(pic_clear_isr(rotated, n, top))
          [] cmd = 3 -> pic_update_irq(pic_clear_isr(i, n, arg))
          [] cmd = 6 -> pic_update_irq(turned)
          [] cmd = 7 -> pic_update_irq(pic_clear_isr(turned, n, arg))
          [] OTHER -> i

pic_ioport_write(i, n, addr, val) ==
    LET s == i.pics[n]
    IN  CASE addr = 0 /\ Bit(val, 4) -> pic_reset([i EXCEPT !.pics[n].init4 = Bit(val, 0)], n)
          [] addr = 0 /\ ~Bit(val, 4) /\ Bit(val, 3) ->
                [i EXCEPT !.pics[n].poll = IF Bit(val, 2) THEN TRUE ELSE @]
          [] addr = 0 /\ ~Bit(val, 4) /\ ~Bit(val, 3) -> ocw2(i, n, val \div 32, val % 8)
          [] addr = 1 /\ s.init_state = 0 ->
                pic_update_irq([i EXCEPT !.pics[n].imr = Bits(val)])
          [] addr = 1 /\ s.init_state = 1 ->
                [i EXCEPT !.pics[n].irq_base = (val \div 8) * 8, !.pics[n].init_state = 2]
          [] addr = 1 /\ s.init_state = 2 ->
                [i EXCEPT !.pics[n].init_state = IF s.init4 THEN 3 ELSE 0]
          [] OTHER ->
                [i EXCEPT !.pics[n].special_fully_nested_mode = Bit(val, 4),
                          !.pics[n].auto_eoi = Bit(val, 1),
                          !.pics[n].init_state = 0]

(* The result of pic_get_irq is held in an unsigned variable, so the test  *)
(* "ret >= 0" is always true.  With nothing pending ret is -1 modulo 2^32: *)
(* the shifts by ret touch no bit of the 8-bit registers (x86 shifts       *)
(* modulo 32), and the acknowledgement callback called is the one of pin   *)
(* -1 + 8 = 7 on the slave; on the master the entry before the table is    *)
(* read, which is modelled as no callback.                                 *)
pic_poll_read(i, n) ==
    LET ret == pic_get_irq(i, n)
        master == IF n = 1
                  THEN [i EXCEPT !.pics[0].isr = @ \ {2}, !.pics[0].irr = @ \ {2}]
                  ELSE i
        acked == pic_clear_isr([master EXCEPT !.pics[n].irr = @ \ {ret}], n, ret)
    IN  IF n = 1 \/ ret # 2 THEN pic_update_irq(acked) ELSE acked

pic_ioport_read(i, n) ==
    IF i.pics[n].poll THEN [pic_poll_read(i, n) EXCEPT !.pics[n].poll = FALSE] ELSE i

elcr_ioport_write(i, n, val) ==
    LET level == Bits(val) \intersect elcr_mask(n)
    IN  [i EXCEPT !.pics[n].elcr = level, !.owed = @ \ {irq + 8 * n : irq \in level}]

\* i8259_port_out and i8259_port_in, on the six ports of i8259_in_range
PicPorts == {32, 33, 160, 161}
ElcrPorts == {1232, 1233}

i8259_port_out(i, port, val) ==
    IF port \in PicPorts
    THEN pic_ioport_write(i, port \div 128, port % 2, val)
    ELSE elcr_ioport_write(i, port % 2, val)

i8259_port_in(i, port) ==
    IF port \in PicPorts THEN pic_ioport_read(i, port \div 128) ELSE i

(***************************************************************************)
(* The vcpu's side: is there an interrupt, and which one                   *)
(***************************************************************************)
pic_intack(i, n, irq) ==
    LET s == i.pics[n]
        served == [i EXCEPT !.pics[n].isr = @ \union {irq},
                            !.pics[n].irr = IF irq \in s.elcr THEN s.irr ELSE s.irr \ {irq}]
        rotated == IF s.rotate_on_auto_eoi
                   THEN [served EXCEPT !.pics[n].priority_add = (irq + 1) % 8]
                   ELSE served
    IN  IF s.auto_eoi THEN pic_clear_isr(rotated, n, irq) ELSE served

i8259_has_interrupt(i) == i.output

(* The master's pin irq (-1 for none) has been acknowledged in m; on pin 2 *)
(* the slave's pin irq2 follows.  Pin 7 is the spurious pin of either chip.*)
ReadSlave(m, irq, irq2) ==
    [pic |-> pic_update_irq(IF irq = 2 /\ irq2 >= 0 THEN pic_intack(m, 1, irq2) ELSE m),
     vector |-> CASE irq = 2 -> m.pics[1].irq_base + (IF irq2 >= 0 THEN irq2 ELSE 7)
                  [] irq = -1 -> m.pics[0].irq_base + 7
                  [] OTHER -> m.pics[0].irq_base + irq]

ReadMaster(m, irq) == ReadSlave(m, irq, pic_get_irq(m, 1))

AckMaster(i, irq) == ReadMaster(IF irq >= 0 THEN pic_intack(i, 0, irq) ELSE i, irq)

\* The next state and the vector.
i8259_read_irq(i) == AckMaster(i, pic_get_irq(i, 0))

i8259_get_interrupt(i) ==
    IF i8259_has_interrupt(i) THEN i8259_read_irq(i) ELSE [pic |-> i, vector |-> -1]

(***************************************************************************)
(* The device's side                                                       *)
(***************************************************************************)
vm_set_irq_level(i, irq, level) ==
    pic_update_irq([i EXCEPT !.pics[irq \div 8] = pic_set_irq1(@, irq % 8, level)])

\* A pulse on the line.  A level-triggered pin forgets it with the falling edge.
vm_inject_irq(i, irq) ==
    LET pulsed == vm_set_irq_level(vm_set_irq_level(i, irq, TRUE), irq, FALSE)
    IN  IF irq % 8 \in i.pics[irq \div 8].elcr
        THEN pulsed
        ELSE [pulsed EXCEPT !.owed = @ \union {irq}]
=============================================================================
