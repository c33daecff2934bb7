------------------------------- MODULE ArmEvents -------------------------------
(***************************************************************************)
(* Devices that tell a guest of an event through a register and an         *)
(* interrupt: the virtual USB host (arch/arm/devices/vusb.c) and the       *)
(* cross-VM connections (drivers/cross_vm_connection.c), whose connections *)
(* share one interrupt.  VGIC models the interrupt controller; here an     *)
(* interrupt is idle, raised or active, and injecting one that is not idle *)
(* does nothing.  The guest's drivers are the ones the code's comments     *)
(* assume: they take the interrupt, clear the register, look for work and  *)
(* then end the interrupt, which calls the acknowledgement function.       *)
(***************************************************************************)
EXTENDS Integers

CONSTANTS MAX_ACTIVE_URB,
          Connections,      \* cross-VM connections
          MaxEvent          \* bound on the count in an event register

VARIABLES urb,              \* state of each USB request
          intr, int_pending,
          usb_irq, usb_todo, usb_guest,
          event,            \* EVENT_BAR_CONSUME_EVENT_REGISTER of each connection
          emitted,          \* connections whose peer was signalled
          xvm_irq, xvm_todo,
          swallowed         \* connections with an event injected in an active interrupt
                            \* after their driver had looked

usb_vars == <<urb, intr, int_pending, usb_irq, usb_todo, usb_guest>>
xvm_vars == <<event, emitted, xvm_irq, xvm_todo, swallowed>>
event_vars == <<usb_vars, xvm_vars>>

Urbs == 1..MAX_ACTIVE_URB
Complete == {"SUCCESS", "ERROR", "CANCELLED"}

\* vm_inject_IRQ, vm_inject_irq.
Inject(irq) == IF irq = "idle" THEN "raised" ELSE irq

(***************************************************************************)
(* USB                                                                     *)
(***************************************************************************)
vusb_inject_irq ==
    /\ intr' = 1
    /\ int_pending' = 1
    /\ usb_irq' = IF int_pending = 0 THEN Inject(usb_irq) ELSE usb_irq

\* The walk over the pending requests ends at the first bad descriptor.
Walked(outcome) ==
    {i \in Urbs : urb[i] = "PENDING" /\ \A j \in 1 .. i - 1 : ~(urb[j] = "PENDING" /\ outcome[j] = "bad")}
vm_vusb_notify(outcome) ==
    /\ usb_guest = "idle"
    /\ urb' = [i \in Urbs |-> IF i \notin Walked(outcome) THEN urb[i]
                              ELSE IF outcome[i] = "ok" THEN "ACTIVE" ELSE "ERROR"]
    /\ IF \E i \in Walked(outcome) : outcome[i] # "ok" THEN vusb_inject_irq
       ELSE UNCHANGED <<intr, int_pending, usb_irq>>
    /\ UNCHANGED <<usb_todo, usb_guest, xvm_vars>>

vusb_complete_cb(i, status) ==
    /\ urb[i] = "ACTIVE"
    /\ urb' = [urb EXCEPT ![i] = status]
    /\ vusb_inject_irq
    /\ UNCHANGED <<usb_todo, usb_guest, xvm_vars>>
\* The host controller calls back for the request it gives up.
vm_vusb_cancel(i) == usb_guest = "idle" /\ vusb_complete_cb(i, "CANCELLED")

\* Mutant: the acknowledgement forgets a request completed in the meantime.
vusb_ack_Forget ==
    /\ int_pending' = 0
    /\ usb_irq' = "idle"
vusb_ack ==
    IF intr = 1 THEN usb_irq' = "raised" /\ UNCHANGED int_pending
    ELSE int_pending' = 0 /\ usb_irq' = "idle"

\* A write to the interrupt register in handle_vusb_fault.
ClearIntr == usb_guest = "taken" /\ intr' = 0 /\ usb_guest' = "scan" /\ usb_todo' = Urbs
             /\ UNCHANGED <<urb, int_pending, usb_irq, xvm_vars>>

UsbSubmit(i) ==
    /\ usb_guest = "idle" /\ urb[i] = "INVALID" /\ urb' = [urb EXCEPT ![i] = "PENDING"]
    /\ UNCHANGED <<intr, int_pending, usb_irq, usb_todo, usb_guest, xvm_vars>>
UsbTake ==
    /\ usb_guest = "idle" /\ usb_irq = "raised" /\ usb_irq' = "active" /\ usb_guest' = "taken"
    /\ UNCHANGED <<urb, intr, int_pending, usb_todo, xvm_vars>>
UsbCollect(i) ==
    /\ i \in usb_todo /\ usb_todo' = usb_todo \ {i}
    /\ urb' = IF urb[i] \in Complete THEN [urb EXCEPT ![i] = "INVALID"] ELSE urb
    /\ UNCHANGED <<intr, int_pending, usb_irq, usb_guest, xvm_vars>>
UsbEnd ==
    /\ usb_guest = "scan" /\ usb_todo = {} /\ usb_guest' = "idle"
    /\ vusb_ack
    /\ UNCHANGED <<urb, intr, usb_todo, xvm_vars>>

(***************************************************************************)
(* Cross-VM connections                                                    *)
(***************************************************************************)
consume_connection_event(c) ==
    /\ event[c] < MaxEvent
    /\ event' = [event EXCEPT ![c] = @ + 1]
    /\ xvm_irq' = Inject(xvm_irq)
    /\ swallowed' = IF xvm_irq = "active" /\ c \notin xvm_todo THEN swallowed \cup {c} ELSE swallowed
    /\ UNCHANGED <<emitted, xvm_todo, usb_vars>>

\* handle_event_bar_fault: the driver writes 0, or asks for a signal to the peer.
ConsumeRegister(c) ==
    /\ c \in xvm_todo /\ xvm_todo' = xvm_todo \ {c}
    /\ event' = [event EXCEPT ![c] = 0]
    /\ UNCHANGED <<emitted, xvm_irq, swallowed, usb_vars>>
EmitRegister(c) ==
    /\ emitted' = emitted \cup {c}
    /\ UNCHANGED <<event, xvm_irq, xvm_todo, swallowed, usb_vars>>

XvmTake ==
    /\ xvm_irq = "raised" /\ xvm_irq' = "active" /\ xvm_todo' = Connections /\ swallowed' = {}
    /\ UNCHANGED <<event, emitted, usb_vars>>
\* connection_consume_ack does nothing.
XvmEnd ==
    /\ xvm_irq = "active" /\ xvm_todo = {} /\ xvm_irq' = "idle"
    /\ UNCHANGED <<event, emitted, xvm_todo, swallowed, usb_vars>>

EventInit ==
    /\ urb = [i \in Urbs |-> "INVALID"] /\ intr = 0 /\ int_pending = 0
    /\ usb_irq = "idle" /\ usb_todo = {} /\ usb_guest = "idle"
    /\ event = [c \in Connections |-> 0] /\ emitted = {}
    /\ xvm_irq = "idle" /\ xvm_todo = {} /\ swallowed = {}
EventNext ==
    \/ \E outcome \in [Urbs -> {"ok", "refused", "bad"}] : vm_vusb_notify(outcome)
    \/ \E i \in Urbs, s \in Complete \ {"CANCELLED"} : vusb_complete_cb(i, s)
    \/ \E i \in Urbs : vm_vusb_cancel(i) \/ UsbSubmit(i) \/ UsbCollect(i)
    \/ ClearIntr \/ UsbTake \/ UsbEnd
    \/ \E c \in Connections : consume_connection_event(c) \/ ConsumeRegister(c) \/ EmitRegister(c)
    \/ XvmTake \/ XvmEnd
EventSpec == EventInit /\ [][EventNext]_event_vars

UsbNoticed(i) ==
    i \in usb_todo \/ (intr = 1 /\ int_pending = 1 /\ usb_irq \in {"raised", "active"})
\* No event waits without an interrupt to announce it: a completed USB request
\* is one the driver is about to look at, or the interrupt register is set and
\* the interrupt is raised, or active and raised again when it ends; an event
\* of a connection is one its driver is about to look at, or the interrupt is
\* raised.  The exception is the event that comes when the driver of the
\* connection is done but the interrupt not over: connection_consume_ack does
\* not look again, and the event waits for the next one.
EventNoticed ==
    /\ \A i \in Urbs : urb[i] \in Complete => UsbNoticed(i)
    /\ \A c \in Connections : event[c] # 0 => xvm_irq = "raised" \/ c \in xvm_todo \cup swallowed
=============================================================================
