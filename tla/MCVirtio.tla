------------------------------- MODULE MCVirtio -------------------------------
(***************************************************************************)
(* The virtio devices and the PCI space they are found in.  A behaviour    *)
(* looks at one thing (focus): what the guest does with the registers of a *)
(* device, how the bus is built and its virtio devices are probed, or the  *)
(* capabilities of a physical device.                                      *)
(***************************************************************************)
EXTENDS Virtio, PciSpace

VARIABLE focus

\* Two receive chains, of three and of two bytes; descriptor 3 belongs to none.
MCRx == 0 :> [len |-> 2, next |-> 1, flags |-> {"next", "write"}, head |-> TRUE]
     @@ 1 :> [len |-> 1, next |-> 2, flags |-> {"write"}, head |-> FALSE]
     @@ 2 :> [len |-> 2, next |-> 3, flags |-> {"write"}, head |-> TRUE]
     @@ 3 :> [len |-> 2, next |-> 0, flags |-> {"write"}, head |-> FALSE]
MCTx == 0 :> [len |-> 1, next |-> 1, flags |-> {"next"}, head |-> TRUE]
     @@ 1 :> [len |-> 1, next |-> 2, flags |-> {}, head |-> FALSE]
     @@ 2 :> [len |-> 2, next |-> 3, flags |-> {}, head |-> TRUE]
     @@ 3 :> [len |-> 2, next |-> 0, flags |-> {}, head |-> FALSE]
\* A block request: header, data, status.
MCBlk == 0 :> [len |-> 1, next |-> 1, flags |-> {"next"}, head |-> TRUE]
      @@ 1 :> [len |-> 1, next |-> 2, flags |-> {"next"}, head |-> FALSE]
      @@ 2 :> [len |-> 1, next |-> 3, flags |-> {"write"}, head |-> FALSE]
      @@ 3 :> [len |-> 1, next |-> 0, flags |-> {}, head |-> FALSE]
Of(kind, queues) == [kind |-> kind, queues |-> queues]
MCUses == {Of("net", {0}), Of("net", {1}), Of("vsock", {0}), Of("vsock", {1}), Of("block", {0}),
           Of("control", {2, 3}), Of("port", {4}), Of("port", {5})}

\* Power management, MSI, PCI Express and MSI-X, in every order that repeats none.
MCLayouts == {s \in UNION {[1..n -> {1, 5, 16, 17}] : n \in 0..3} : IsInjective(s)}
Bar(address, mem_type) == [address |-> address, mem_type |-> mem_type, size_bits |-> 4]
MCPhysBars == <<Bar(32768, "prefetch"), Bar(0, "memory"), Bar(48, "io"), Bar(0, "io"), Bar(0, "io"), Bar(0, "io")>>

MCInit ==
    /\ focus \in {"virtio", "bus", "caps"}
    /\ Init /\ PciInit
    /\ focus = "virtio" => arch = "x86"
    /\ focus # "virtio" => dev = Of("net", {0})
    /\ focus # "caps" => layout = <<1, 5>>
MCNext ==
    \/ focus = "virtio" /\ VirtioNext /\ UNCHANGED <<pci_vars, focus>>
    \/ focus # "virtio" /\ PciNext /\ UNCHANGED <<vars, focus>>
          /\ (focus = "caps" => ports' = <<>>)
          /\ (focus = "bus" => \A i \in DOMAIN bus0' : bus0'[i].kind # "phys")
Spec == MCInit /\ [][MCNext]_<<vars, pci_vars, focus>>
=============================================================================
