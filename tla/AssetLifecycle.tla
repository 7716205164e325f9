--------------------------- MODULE AssetLifecycle ---------------------------
(***************************************************************************)
(* What the inventory promises about the life of an asset, without shards, *)
(* locks, workers or a database: a device is unknown, online or offline.   *)
(* Being heard makes it online; it goes offline only after OfflineAfter of *)
(* silence, and is forgotten only when offline and silent for EvictAfter.  *)
(* In particular no device goes from online to forgotten in one step.      *)
(***************************************************************************)
EXTENDS Integers

CONSTANTS MACs, OfflineAfter, EvictAfter, MaxTime

VARIABLES now, life, heard

Vars == <<now, life, heard>>

Start ==
    /\ now \in 1..MaxTime
    /\ life \in [MACs -> {"unknown", "online", "offline"}]
    /\ heard \in [MACs -> 0..now]
    /\ \A m \in MACs : heard[m] = 0 <=> life[m] = "unknown"
    /\ \A m \in MACs : life[m] = "online" => now - heard[m] <= OfflineAfter

\* A packet of m, captured at some time up to now, is accounted for.
Observe(m) ==
    /\ life' = [life EXCEPT ![m] = "online"]
    /\ \E t \in 1..now : heard' = [heard EXCEPT ![m] = t]
    /\ now' = now

Expire(S) ==
    /\ \A m \in S : life[m] = "online" /\ now - heard[m] > OfflineAfter
    /\ life' = [m \in MACs |-> IF m \in S THEN "offline" ELSE life[m]]
    /\ UNCHANGED <<now, heard>>

Forget(S) ==
    /\ \A m \in S : life[m] = "offline" /\ now - heard[m] > EvictAfter
    /\ life' = [m \in MACs |-> IF m \in S THEN "unknown" ELSE life[m]]
    /\ heard' = [m \in MACs |-> IF m \in S THEN 0 ELSE heard[m]]
    /\ now' = now

Pass == now < MaxTime /\ now' = now + 1 /\ UNCHANGED <<life, heard>>

Step ==
    \/ \E m \in MACs : Observe(m)
    \/ \E S \in SUBSET MACs : Expire(S) \/ Forget(S)
    \/ Pass

Spec == Start /\ [][Step]_Vars
=============================================================================
