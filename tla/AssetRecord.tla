----------------------------- MODULE AssetRecord -----------------------------
(***************************************************************************)
(* The asset record and the pure operations on it: merging an observation  *)
(* (internal/asset/merge.go, util.go), ageing it in a sweep (manager.go),  *)
(* and upserting a snapshot of it into its database row                    *)
(* (internal/storage/sqlite.go).                                           *)
(*                                                                         *)
(* Data abstraction.  Everything that is only ever accumulated about a     *)
(* device - hostnames, services, vendor, device type, model, OS, the keys  *)
(* of the extras map - is a set of opaque facts.  Extras is the part of it *)
(* that is stored in the column extra_json.  An address keeps what its     *)
(* ageing depends on.  SeenCount is left out: nothing reads it back.       *)
(***************************************************************************)
EXTENDS Integers

CONSTANTS
    Facts,      \* what can be learned about a device
    Extras,     \* the facts that live in extra_json
    IPs,        \* addresses
    Leases,     \* DHCP lease durations carried by observations; 0 = none
    IpGrace,    \* config.IpGrace
    MaxTime,    \* bound on the clock
    NoAsset,    \* no such record
    NoIP        \* no such address entry

ASSUME RecordAssumption ==
    /\ Extras \subseteq Facts
    /\ Leases \subseteq Nat
    /\ IpGrace \in Nat
    /\ MaxTime \in Nat \ {0}

Times == 1..MaxTime

IPEntry == [last: Times, lease: Leases, active: BOOLEAN]

IPMap == [IPs -> IPEntry \cup {NoIP}]

Status == {"online", "offline"}

Asset == [status: Status, first: Times, last: Times,
          facts: SUBSET Facts, ips: IPMap]

ASSUME NullAssumption == NoAsset \notin Asset /\ NoIP \notin IPEntry

\* A valid Observation of one device; its addresses carry LastSeen = ObservedAt.
ObservationData == [at: Times, facts: SUBSET Facts, ips: SUBSET IPs, lease: Leases]

Later(a, b) == IF a > b THEN a ELSE b
Earlier(a, b) == IF a < b THEN a ELSE b

-----------------------------------------------------------------------------
(* Merging an observation *)

MergeIPEntry(e, o) ==
    IF e = NoIP
    THEN [last |-> o.at, lease |-> o.lease, active |-> TRUE]
    ELSE [last |-> Later(e.last, o.at), lease |-> Later(e.lease, o.lease), active |-> TRUE]

mergeIPMap(ips, o) ==
    [ip \in IPs |-> IF ip \in o.ips THEN MergeIPEntry(ips[ip], o) ELSE ips[ip]]

\* Mutants of TouchFirst: the later time wins; the zero time of a new record is not replaced.
TouchFirstLate(first, at) == Later(first, at)
TouchFirstUnset(first, at) == Earlier(first, at)

\* touchTimestamps on FirstSeen; 0 is the zero time of a record just created.
TouchFirst(first, at) == IF first = 0 THEN at ELSE Earlier(first, at)

mergeObservation(a, o) ==
    [a EXCEPT !.ips = mergeIPMap(a.ips, o),
              !.facts = a.facts \cup o.facts,
              !.first = TouchFirst(a.first, o.at),
              !.last = Later(a.last, o.at)]

\* The record of a device Apply has not met: an empty Asset, with the zero time in its
\* timestamps, that the observation is merged into.
newAsset(o) ==
    mergeObservation([status |-> "online", first |-> 0, last |-> 0,
                      facts |-> {}, ips |-> [ip \in IPs |-> NoIP]], o)

\* Mutant of MergeChanged: a packet that arrives late changes nothing.
MergeChangedByTime(a, o) == o.at > a.last

\* MergeResult.Changed. What mergeIPMap reports is not consulted (merge.go:10-11).
MergeChanged(a, o) ==
    \/ ~(o.facts \subseteq a.facts)
    \/ TouchFirst(a.first, o.at) # a.first
    \/ o.at > a.last

-----------------------------------------------------------------------------
(* Ageing *)

SweepIPEntry(e, t) ==
    IF /\ e # NoIP
       /\ e.lease > 0
       /\ e.active
       /\ t - e.last > e.lease + IpGrace
    THEN [e EXCEPT !.active = FALSE]
    ELSE e

sweepIPMap(ips, t) == [ip \in IPs |-> SweepIPEntry(ips[ip], t)]

Silent(a, t, limit) == t - a.last > limit

\* Mutant of SweepAsset: addresses age, the status does not.
SweepAddresses(a, t, offlineAfter) == [a EXCEPT !.ips = sweepIPMap(a.ips, t)]

SweepAsset(a, t, offlineAfter) ==
    [a EXCEPT !.ips = sweepIPMap(a.ips, t),
              !.status = IF Silent(a, t, offlineAfter) THEN "offline" ELSE a.status]

-----------------------------------------------------------------------------
(* The database row *)

UpsertIPEntry(row, e) ==
    CASE e = NoIP -> row
      [] row = NoIP -> e
      [] OTHER -> [last |-> Later(row.last, e.last),
                   lease |-> Later(row.lease, e.lease),
                   active |-> e.active]

\* upsertAsset and replaceChildRows: an insert stores the snapshot; a conflict takes the status
\* of the snapshot, widens the seen interval, adds child rows and leaves extra_json as it was.
Upsert(row, a) ==
    IF row = NoAsset
    THEN a
    ELSE [status |-> a.status,
          first |-> Earlier(row.first, a.first),
          last |-> Later(row.last, a.last),
          facts |-> row.facts \cup (a.facts \ Extras),
          ips |-> [ip \in IPs |-> UpsertIPEntry(row.ips[ip], a.ips[ip])]]

-----------------------------------------------------------------------------
(***************************************************************************)
(* What a record tells about its device, in the part the database can      *)
(* accumulate.  Knowledge is ordered by Covers; Learn is its join.         *)
(***************************************************************************)
Knowledge == [facts: SUBSET (Facts \ Extras), first: 1..(MaxTime + 1), last: 0..MaxTime]

Nothing == [facts |-> {}, first |-> MaxTime + 1, last |-> 0]

Learn(k, a) == [facts |-> k.facts \cup (a.facts \ Extras),
                first |-> Earlier(k.first, a.first),
                last |-> Later(k.last, a.last)]

Covers(k, a) ==
    /\ (a.facts \ Extras) \subseteq k.facts
    /\ k.first <= a.first
    /\ a.last <= k.last
=============================================================================
