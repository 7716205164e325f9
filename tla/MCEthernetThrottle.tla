------------------------- MODULE MCEthernetThrottle -------------------------
(* An instance of EthernetThrottle for TLC: the frames of one device - what it sends to the link,
   the SYNs it dials a server with, the ARP replies it gets, and the DHCP messages relayed for
   it - each captured at one of three times, of which the first two are within the throttle. *)
EXTENDS EthernetThrottle, TLC

MCFrames ==
    {f \in [src: Address, dst: Address, payload: {"data", "syn", "arp_reply", "dhcp4"},
            who: Address, target: Address, at: {1, 2, 4}] :
        \/ /\ f.payload \in {"data", "syn"}
           /\ f.src # Elsewhere /\ f.dst = Elsewhere /\ f.who = f.src /\ f.target = Elsewhere
        \/ /\ f.payload = "arp_reply"
           /\ f.src = Elsewhere /\ f.dst # Elsewhere /\ f.who = Elsewhere /\ f.target = f.dst
        \/ /\ f.payload = "dhcp4"
           /\ f.src = Elsewhere /\ f.dst = Elsewhere /\ f.who # Elsewhere /\ f.target = Elsewhere}

AnyWorker == Permutations(Workers)
=============================================================================
