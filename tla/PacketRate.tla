----------------------------- MODULE PacketRate -----------------------------
(***************************************************************************)
(* internal/stats/packet_rate.go: the packets-per-second meter behind the  *)
(* dashboard and the statistics rows, a ring of per-interval buckets.      *)
(* Rate divides total by Size. The comments of the code call this the      *)
(* average over a rolling window; what rotate leaves in total is the       *)
(* interval in progress alone, and no property here says otherwise.        *)
(***************************************************************************)
EXTENDS Integers

CONSTANTS
    Size,       \* buckets of the ring
    MaxTotal    \* bound: packets counted in one window (the counters are uint64)

ASSUME SizeAssumption == Size \in Nat \ {0} /\ MaxTotal \in Nat

VARIABLES
    buckets,
    cur,
    total

rateVars == <<buckets, cur, total>>

Slots == 0..(Size - 1)

RateInit ==
    /\ buckets = [i \in Slots |-> 0]
    /\ cur = 0
    /\ total = 0

Inc ==
    /\ buckets' = [buckets EXCEPT ![cur] = @ + 1]
    /\ total' = total + 1
    /\ cur' = cur

\* The bucket of the interval that ends is cleared, and the next one becomes current.
rotate ==
    /\ total' = total - buckets[cur]
    /\ buckets' = [buckets EXCEPT ![cur] = 0]
    /\ cur' = (cur + 1) % Size

RateNext == (total < MaxTotal /\ Inc) \/ rotate

RateSpec == RateInit /\ [][RateNext]_rateVars

-----------------------------------------------------------------------------
(* Properties *)

\* Every variable has its type; total, an unsigned counter, never wraps below zero.
RateTypeOK ==
    /\ buckets \in [Slots -> Nat]
    /\ cur \in Slots
    /\ total \in Nat
=============================================================================
