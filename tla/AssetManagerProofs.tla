-------------------------- MODULE AssetManagerProofs --------------------------
(***************************************************************************)
(* First what the operations on an asset record return, preserve and       *)
(* bound.  Then the inductive invariant of AssetManager: its type, the     *)
(* resolver and the shards in agreement, and the completeness of dirty     *)
(* tracking, which needs that nothing a worker can hydrate - a row - and   *)
(* nothing on its way to a row tells more than what was handed over; and   *)
(* that what is known of an asset in memory shrinks in one race only.      *)
(*                                                                         *)
(* Last, AssetManager implements AssetLifecycle: every step of the         *)
(* workers, the tracker, the persister and the clock is a step of the life *)
(* of an asset, or none.  The step needs to know that nothing was heard in *)
(* the future - neither in memory nor in a row, which hydration brings     *)
(* back, nor in a snapshot, which becomes a row, nor in a worker's hands.  *)
(***************************************************************************)
EXTENDS AssetManager, TLAPS

-----------------------------------------------------------------------------
(* Types of the record *)

\* Merging an observation into a record (merge.go) gives a record.
LEMMA MergeType ==
    ASSUME NEW a \in Asset, NEW o \in ObservationData
    PROVE  [mergeObservation(a, o) EXCEPT !.status = "online"] \in Asset
<1> USE RecordAssumption DEF Asset, ObservationData, Times, Status
<1>1. mergeIPMap(a.ips, o) \in IPMap
  <2> SUFFICES ASSUME NEW ip \in IPs
               PROVE  MergeIPEntry(a.ips[ip], o) \in IPEntry
    BY DEF mergeIPMap, IPMap
  <2>1. CASE a.ips[ip] = NoIP
    BY <2>1 DEF MergeIPEntry, IPEntry
  <2>2. CASE a.ips[ip] # NoIP
    BY <2>2 DEF MergeIPEntry, IPEntry, IPMap, Later
  <2> QED BY <2>1, <2>2
<1>2. TouchFirst(a.first, o.at) \in Times /\ Later(a.last, o.at) \in Times
  BY DEF TouchFirst, Later, Earlier
<1>3. a.facts \cup o.facts \in SUBSET Facts
  OBVIOUS
<1> QED BY <1>1, <1>2, <1>3 DEF mergeObservation

\* The record Apply creates for a new device is a record.
LEMMA NewAssetType ==
    ASSUME NEW o \in ObservationData
    PROVE  newAsset(o) \in Asset
<1> USE RecordAssumption DEF Asset, ObservationData, Times, Status
<1>1. mergeIPMap([ip \in IPs |-> NoIP], o) \in IPMap
  BY DEF mergeIPMap, IPMap, MergeIPEntry, IPEntry
<1>2. TouchFirst(0, o.at) = o.at /\ Later(0, o.at) = o.at
  BY DEF TouchFirst, Later
<1> QED BY <1>1, <1>2 DEF newAsset, mergeObservation

\* Sweeping a record (sweepIPMap, the status change) gives a record and keeps what it tells.
LEMMA SweepType ==
    ASSUME NEW a \in Asset, NEW t \in Times, NEW limit \in Nat
    PROVE  /\ SweepAsset(a, t, limit) \in Asset
           /\ SweepAsset(a, t, limit).first = a.first
           /\ SweepAsset(a, t, limit).last = a.last
           /\ SweepAsset(a, t, limit).facts = a.facts
<1> USE DEF Asset, Status
<1>1. sweepIPMap(a.ips, t) \in IPMap
  BY DEF sweepIPMap, IPMap, SweepIPEntry, IPEntry
<1> QED BY <1>1 DEF SweepAsset

\* Upserting a snapshot into a row (upsertAsset, replaceChildRows) gives a row.
LEMMA UpsertType ==
    ASSUME NEW row \in Asset \cup {NoAsset}, NEW a \in Asset
    PROVE  Upsert(row, a) \in Asset
<1>1. CASE row = NoAsset
  BY <1>1 DEF Upsert
<1>2. CASE row # NoAsset
  <2> USE <1>2, RecordAssumption DEF Asset, Times
  <2>1. [ip \in IPs |-> UpsertIPEntry(row.ips[ip], a.ips[ip])] \in IPMap
    <3> SUFFICES ASSUME NEW ip \in IPs
                 PROVE  UpsertIPEntry(row.ips[ip], a.ips[ip]) \in IPEntry \cup {NoIP}
      BY DEF IPMap
    <3>1. /\ row.ips[ip] \in IPEntry \cup {NoIP}
          /\ a.ips[ip] \in IPEntry \cup {NoIP}
      BY DEF IPMap
    <3>2. CASE a.ips[ip] = NoIP \/ row.ips[ip] = NoIP
      BY <3>1, <3>2 DEF UpsertIPEntry
    <3>3. CASE a.ips[ip] # NoIP /\ row.ips[ip] # NoIP
      BY <3>1, <3>3 DEF UpsertIPEntry, IPEntry, Later
    <3> QED BY <3>2, <3>3
  <2>2. Earlier(row.first, a.first) \in Times /\ Later(row.last, a.last) \in Times
    BY DEF Earlier, Later
  <2>3. row.facts \cup (a.facts \ Extras) \in SUBSET Facts
    OBVIOUS
  <2> QED BY <2>1, <2>2, <2>3 DEF Upsert
<1> QED BY <1>1, <1>2

\* Learning from a record is knowledge.
LEMMA LearnType ==
    ASSUME NEW k \in Knowledge, NEW a \in Asset
    PROVE  Learn(k, a) \in Knowledge
BY RecordAssumption DEF Learn, Knowledge, Asset, Times, Earlier, Later

\* Before anything was learned there is knowledge: none.
LEMMA NothingType == Nothing \in Knowledge
BY RecordAssumption DEF Nothing, Knowledge

-----------------------------------------------------------------------------
(* Knowledge *)

\* Learning a record covers it, and forgets nothing that was covered before.
LEMMA LearnCovers ==
    ASSUME NEW k \in Knowledge, NEW a \in Asset, NEW b \in Asset
    PROVE  /\ Covers(Learn(k, a), a)
           /\ Covers(k, b) => Covers(Learn(k, a), b)
BY RecordAssumption DEF Learn, Covers, Knowledge, Asset, Times, Earlier, Later

\* Knowledge that covers a row and a snapshot covers the row the upsert leaves: SaveBatch
\* writes nothing that neither of them told.
LEMMA UpsertCovered ==
    ASSUME NEW k \in Knowledge, NEW row \in Asset \cup {NoAsset}, NEW a \in Asset,
           row # NoAsset => Covers(k, row), Covers(k, a)
    PROVE  Covers(k, Upsert(row, a))
BY RecordAssumption DEF Upsert, Covers, Knowledge, Asset, Times, Earlier, Later

\* An observation that mergeObservation reports as no change leaves a record that tells what
\* it told before: the report on which dirty marking rests is complete for this part.
LEMMA UnchangedMergeCovered ==
    ASSUME NEW k \in Knowledge, NEW a \in Asset, NEW o \in ObservationData,
           Covers(k, a), ~MergeChanged(a, o)
    PROVE  Covers(k, [mergeObservation(a, o) EXCEPT !.status = "online"])
BY RecordAssumption
   DEF MergeChanged, mergeObservation, Covers, Knowledge, Asset, ObservationData, Times,
       TouchFirst, Earlier, Later

\* Two snapshots of a device may be committed in either order: the row tells the same, except
\* for its status and the activity of its addresses, which the last writer decides.
THEOREM UpsertOrder ==
    ASSUME NEW row \in Asset, NEW a \in Asset, NEW b \in Asset
    PROVE  /\ Upsert(Upsert(row, a), b).facts = Upsert(Upsert(row, b), a).facts
           /\ Upsert(Upsert(row, a), b).first = Upsert(Upsert(row, b), a).first
           /\ Upsert(Upsert(row, a), b).last = Upsert(Upsert(row, b), a).last
           /\ Upsert(Upsert(row, a), b).status = b.status
<1>1. row # NoAsset /\ Upsert(row, a) # NoAsset /\ Upsert(row, b) # NoAsset
  BY NullAssumption, UpsertType
<1>2. /\ Upsert(Upsert(row, a), b).facts = Upsert(Upsert(row, b), a).facts
      /\ Upsert(Upsert(row, a), b).status = b.status
  BY <1>1 DEF Upsert
<1>3. /\ row.first \in Int /\ a.first \in Int /\ b.first \in Int
      /\ row.last \in Int /\ a.last \in Int /\ b.last \in Int
  BY DEF Asset, Times
<1>4. /\ Upsert(Upsert(row, a), b).first = Upsert(Upsert(row, b), a).first
      /\ Upsert(Upsert(row, a), b).last = Upsert(Upsert(row, b), a).last
  BY <1>1, <1>3 DEF Upsert, Earlier, Later
<1> QED BY <1>2, <1>4

-----------------------------------------------------------------------------
(* Type correctness *)

\* The program starts in a state of the right type: loading rows and sweeping them keeps it.
LEMMA InitType == Init => TypeOK
<1> SUFFICES ASSUME Init PROVE TypeOK
  OBVIOUS
<1> USE ManagerAssumption, RecordAssumption
<1>1. now \in Times /\ StartTime \in Times
  BY DEF Init
<1>2. stored \in [MACs -> Asset \cup {NoAsset}]
  BY DEF Init
<1>3. LoadSnapshots(stored) \in [MACs -> Asset \cup {NoAsset}]
  BY <1>2 DEF LoadSnapshots
<1>4. bound \subseteq MACs /\ dirty \subseteq MACs
  BY DEF Init
<1>5. assets \in [MACs -> Asset \cup {NoAsset}]
  <2>1. ASSUME NEW m \in MACs, m \in bound
        PROVE  SweepAsset(LoadSnapshots(stored)[m], now, OfflineAfter) \in Asset
    <3>1. LoadSnapshots(stored)[m] \in Asset
      BY <1>3, <2>1 DEF Init
    <3> QED BY <3>1, <1>1, SweepType
  <2> QED BY <2>1 DEF Init
<1>6. worker \in [Workers -> [obs: Observation, exists: BOOLEAN] \cup {Idle}]
  BY DEF Init
<1>7. tracker \in TrackerState /\ tracker.at <= now
  BY <1>1 DEF Init, TrackerState, Shards, Times
<1>8. drain \in DrainState
  BY DEF Init, DrainState
<1>10. pending \subseteq Snapshot /\ panicked \in BOOLEAN
  BY DEF Init
<1>9. handed \in [MACs -> Knowledge]
  BY <1>2, NothingType, LearnType DEF Init
<1> QED BY <1>1, <1>2, <1>4, <1>5, <1>6, <1>7, <1>8, <1>9, <1>10 DEF TypeOK

\* A worker that holds an observation holds a well-typed one.
LEMMA WorkerType ==
    ASSUME TypeOK, NEW w \in Workers, worker[w] # Idle
    PROVE  /\ worker[w].obs.mac \in MACs
           /\ worker[w].obs.data \in ObservationData
           /\ worker[w].exists \in BOOLEAN
BY ManagerAssumption DEF TypeOK, Observation

\* Whichever way Apply finds the record, it writes a record, binds it and only adds marks.
LEMMA ApplyEffect ==
    ASSUME TypeOK, NEW w \in Workers, Apply(w), ~ApplyEvicted(w)
    PROVE  \E m \in MACs, a \in Asset :
             /\ m = worker[w].obs.mac
             /\ assets' = [assets EXCEPT ![m] = a]
             /\ bound' = bound \cup {m}
             /\ dirty' = dirty \/ dirty' = dirty \cup {m}
<1> DEFINE m == worker[w].obs.mac
           o == worker[w].obs.data
<1>1. worker[w] # Idle
  BY DEF Apply, ApplyExisting, ApplyEvicted, ApplyHydrated, ApplyNew
<1>2. m \in MACs /\ o \in ObservationData
  BY <1>1, WorkerType
<1>3. CASE ApplyExisting(w)
  <2>1. assets[m] \in Asset /\ Update(m, assets[m], o)
    BY <1>2, <1>3 DEF ApplyExisting, TypeOK
  <2>2. [mergeObservation(assets[m], o) EXCEPT !.status = "online"] \in Asset
    BY <1>2, <2>1, MergeType
  <2> QED BY <1>2, <2>1, <2>2 DEF Update
<1>4. CASE ApplyHydrated(w)
  <2>1. stored[m] \in Asset /\ Update(m, stored[m], o)
    BY <1>2, <1>4 DEF ApplyHydrated, TypeOK
  <2>2. [mergeObservation(stored[m], o) EXCEPT !.status = "online"] \in Asset
    BY <1>2, <2>1, MergeType
  <2> QED BY <1>2, <2>1, <2>2 DEF Update
<1>5. CASE ApplyNew(w)
  <2>1. newAsset(o) \in Asset
    BY <1>2, NewAssetType
  <2> QED BY <1>2, <1>5, <2>1 DEF ApplyNew, Create
<1> QED BY <1>3, <1>4, <1>5 DEF Apply

\* Apply, all four ways, keeps the type of every variable.
LEMMA ApplyKeepsType ==
    ASSUME TypeOK, NEW w \in Workers, Apply(w)
    PROVE  TypeOK'
<1>1. /\ worker' = [worker EXCEPT ![w] = Idle]
      /\ UNCHANGED <<now, tracker, drain, pending, stored, handed>>
  BY DEF Apply, ApplyExisting, ApplyEvicted, ApplyHydrated, ApplyNew, Done
<1>2. worker' \in [Workers -> [obs: Observation, exists: BOOLEAN] \cup {Idle}]
  BY <1>1 DEF TypeOK
<1>3. panicked' \in BOOLEAN
  BY DEF Apply, ApplyExisting, ApplyEvicted, ApplyHydrated, ApplyNew, TypeOK
<1>4. /\ assets' \in [MACs -> Asset \cup {NoAsset}]
      /\ dirty' \subseteq MACs /\ bound' \subseteq MACs
  <2>1. CASE ApplyEvicted(w)
    BY <2>1 DEF ApplyEvicted, memory, TypeOK
  <2>2. CASE ~ApplyEvicted(w)
    BY <2>2, ApplyEffect DEF TypeOK
  <2> QED BY <2>1, <2>2
<1> QED BY <1>1, <1>2, <1>3, <1>4 DEF TypeOK

\* What DrainDirty takes from a shard is snapshots, and it learns what they tell.
LEMMA DrainKeepsType ==
    ASSUME TypeOK, DrainDirty
    PROVE  TypeOK'
<1> DEFINE taken == dirty \cap Live \cap InShard(drain.shard)
           out == drain.out \cup {[mac |-> m, asset |-> assets[m]] : m \in taken}
<1>1. \A m \in taken : m \in MACs /\ assets[m] \in Asset
  BY DEF TypeOK, Live
<1>2. out \subseteq Snapshot
  BY <1>1 DEF TypeOK, DrainState, Snapshot
<1>3. drain' \in DrainState
  BY <1>2, ManagerAssumption DEF DrainDirty, DrainState, TypeOK
<1>4. pending' \subseteq Snapshot
  BY <1>2 DEF DrainDirty, TypeOK
<1>5. handed' \in [MACs -> Knowledge]
  <2>1. \A m \in taken : Learn(handed[m], assets[m]) \in Knowledge
    BY <1>1, LearnType DEF TypeOK
  <2> QED BY <2>1 DEF DrainDirty, TypeOK
<1>6. /\ dirty' \subseteq MACs
      /\ UNCHANGED <<now, assets, bound, worker, tracker, stored, panicked>>
  BY DEF DrainDirty, TypeOK
<1> QED BY <1>3, <1>4, <1>5, <1>6 DEF TypeOK

\* The tracker's loop over the shards stays within them.
LEMMA NextShardType ==
    ASSUME TypeOK, NEW after \in {"idle", "evict"}, NextShard(after), now' = now
    PROVE  tracker' \in TrackerState /\ tracker'.at <= now'
<1>1. tracker \in TrackerState /\ tracker.at <= now'
  BY DEF TypeOK
<1>2. ShardCount \in Nat \ {0}
  BY ManagerAssumption
<1>3. CASE tracker.shard + 1 < ShardCount
  BY <1>1, <1>2, <1>3 DEF NextShard, TrackerState, Shards
<1>4. CASE ~(tracker.shard + 1 < ShardCount)
  <2>1. tracker' = [phase |-> after, at |-> tracker.at, shard |-> 0]
    BY <1>1, <1>4 DEF NextShard, TrackerState
  <2>2. after \in {"idle", "sweep", "evict"} /\ 0 \in Shards
    BY <1>2 DEF Shards
  <2> QED BY <1>1, <2>1, <2>2 DEF TrackerState
<1> QED BY <1>3, <1>4

\* Every step of the system keeps the type of every variable.
LEMMA NextType == TypeOK /\ [Next]_vars => TypeOK'
<1> SUFFICES ASSUME TypeOK, [Next]_vars PROVE TypeOK'
  OBVIOUS
<1> USE ManagerAssumption, RecordAssumption
<1>1. ASSUME NEW w \in Workers, Apply(w) PROVE TypeOK'
  BY <1>1, ApplyKeepsType
<1>2. ASSUME NEW w \in Workers, NEW o \in Observation, Resolve(w, o) PROVE TypeOK'
  <2>1. [obs |-> o, exists |-> o.mac \in bound] \in [obs: Observation, exists: BOOLEAN]
    OBVIOUS
  <2> QED BY <1>2, <2>1 DEF Resolve, TypeOK, memory
<1>3. CASE TrackerTick
  <2>1. tracker' \in TrackerState /\ tracker'.at <= now'
    BY <1>3 DEF TrackerTick, TypeOK, TrackerState, Shards, Times
  <2> QED BY <1>3, <2>1 DEF TrackerTick, TypeOK, memory
<1>4. CASE Sweep
  <2>1. tracker' \in TrackerState /\ tracker'.at <= now'
    BY <1>4, NextShardType DEF Sweep
  <2>2. assets' \in [MACs -> Asset \cup {NoAsset}]
    <3>1. \A m \in Live : SweepAsset(assets[m], tracker.at, OfflineAfter) \in Asset
      BY SweepType DEF Live, TypeOK, TrackerState
    <3> QED BY <1>4, <3>1 DEF Sweep, TypeOK
  <2>3. dirty' \subseteq MACs
    BY <1>4 DEF Sweep, TypeOK
  <2> QED BY <1>4, <2>1, <2>2, <2>3 DEF Sweep, TypeOK
<1>5. CASE EvictStale
  <2>1. tracker' \in TrackerState /\ tracker'.at <= now'
    BY <1>5, NextShardType DEF EvictStale
  <2> QED BY <1>5, <2>1 DEF EvictStale, TypeOK
<1>6. CASE StartDrain
  <2>1. drain' \in DrainState
    BY <1>6 DEF StartDrain, DrainState
  <2> QED BY <1>6, <2>1 DEF StartDrain, TypeOK, memory
<1>7. CASE DrainDirty
  BY <1>7, DrainKeepsType
<1>8. ASSUME NEW p \in pending, Save(p) PROVE TypeOK'
  <2>1. Upsert(stored[p.mac], p.asset) \in Asset /\ p.mac \in MACs
    BY UpsertType DEF TypeOK, Snapshot
  <2> QED BY <1>8, <2>1 DEF Save, TypeOK, memory
<1>9. ASSUME NEW p \in pending, Discard(p) PROVE TypeOK'
  BY <1>9 DEF Discard, TypeOK, memory
<1>10. CASE Advance
  <2>1. now' \in Times /\ tracker.at <= now'
    BY <1>10 DEF Advance, TypeOK, Times, TrackerState
  <2> QED BY <1>10, <2>1 DEF Advance, TypeOK, memory
<1>11. CASE UNCHANGED vars
  BY <1>11 DEF vars, TypeOK
<1> QED BY <1>1, <1>2, <1>3, <1>4, <1>5, <1>6, <1>7, <1>8, <1>9, <1>10, <1>11
        DEF Next, Work, Track, Persist

\* Every variable keeps its type in every behaviour of the manager (manager.go).
THEOREM TypeCorrect == Spec => []TypeOK
<1>1. Init => TypeOK
  BY InitType
<1>2. TypeOK /\ [Next]_vars => TypeOK'
  BY NextType
<1> QED BY <1>1, <1>2, PTL DEF Spec

-----------------------------------------------------------------------------
(* The resolver and the shards *)

\* Apply binds what it stores (manager.go:277, 286, 309).
LEMMA ApplyKeepsResolver ==
    ASSUME TypeOK, ResolverMatchesMemory, NEW w \in Workers, Apply(w)
    PROVE  ResolverMatchesMemory'
<1>1. CASE ApplyEvicted(w)
  BY <1>1 DEF ApplyEvicted, memory, ResolverMatchesMemory, Live
<1>2. CASE ~ApplyEvicted(w)
  <2>1. PICK m \in MACs, a \in Asset :
          /\ assets' = [assets EXCEPT ![m] = a]
          /\ bound' = bound \cup {m}
    BY <1>2, ApplyEffect
  <2>2. assets'[m] # NoAsset /\ \A n \in MACs \ {m} : assets'[n] = assets[n]
    BY <2>1, NullAssumption DEF TypeOK
  <2> QED BY <2>1, <2>2 DEF ResolverMatchesMemory, Live
<1> QED BY <1>1, <1>2

\* Every step keeps the resolver and the shards in agreement.
LEMMA NextResolver == TypeOK /\ ResolverMatchesMemory /\ [Next]_vars => ResolverMatchesMemory'
<1> SUFFICES ASSUME TypeOK, ResolverMatchesMemory, [Next]_vars PROVE ResolverMatchesMemory'
  OBVIOUS
<1>1. ASSUME NEW w \in Workers, Apply(w) PROVE ResolverMatchesMemory'
  BY <1>1, ApplyKeepsResolver
<1>2. CASE Sweep
  <2>1. \A m \in MACs : assets'[m] # NoAsset <=> assets[m] # NoAsset
    <3> SUFFICES ASSUME NEW m \in Live
                 PROVE  SweepAsset(assets[m], tracker.at, OfflineAfter) # NoAsset
      BY <1>2 DEF Sweep, Live
    <3> QED BY SweepType, NullAssumption, ManagerAssumption DEF Live, TypeOK, TrackerState
  <2> QED BY <1>2, <2>1 DEF Sweep, ResolverMatchesMemory, Live
<1>3. CASE EvictStale
  BY <1>3 DEF EvictStale, ResolverMatchesMemory, Live
<1>4. CASE DrainDirty
  BY <1>4 DEF DrainDirty, ResolverMatchesMemory, Live
<1>5. CASE UNCHANGED <<assets, bound>>
  BY <1>5 DEF ResolverMatchesMemory, Live
<1> QED BY <1>1, <1>2, <1>3, <1>4, <1>5
        DEF Next, Work, Track, Persist, vars, memory, Resolve, TrackerTick, StartDrain, Save,
            Discard, Advance

\* The resolver knows a MAC exactly when its shard holds the asset, for any number of devices,
\* workers and shards.
THEOREM ResolverCorrect == Spec => []ResolverMatchesMemory
<1>1. Init => ResolverMatchesMemory
  <2> SUFFICES ASSUME Init PROVE \A m \in MACs : m \in bound <=> assets[m] # NoAsset
    BY InitType DEF ResolverMatchesMemory, Live, TypeOK
  <2>1. LoadSnapshots(stored) \in [MACs -> Asset \cup {NoAsset}]
    BY ManagerAssumption DEF Init, LoadSnapshots
  <2>2. ASSUME NEW m \in bound
        PROVE  m \in MACs /\ SweepAsset(LoadSnapshots(stored)[m], now, OfflineAfter) # NoAsset
    BY <2>1, <2>2, SweepType, NullAssumption, ManagerAssumption DEF Init
  <2> QED BY <2>2 DEF Init
<1>2. TypeOK /\ ResolverMatchesMemory /\ [Next]_vars => ResolverMatchesMemory'
  BY NextResolver
<1> QED BY <1>1, <1>2, TypeCorrect, PTL DEF Spec

-----------------------------------------------------------------------------
(* Dirty tracking is complete *)

\* Only DrainDirty changes what was handed over, and it forgets nothing.
LEMMA HandedGrows ==
    ASSUME TypeOK, [Next]_vars, NEW m \in MACs, NEW k \in Asset, Covers(handed[m], k)
    PROVE  Covers(handed'[m], k)
<1>1. CASE DrainDirty
  <2>1. handed'[m] = handed[m]
           \/ (assets[m] \in Asset /\ handed'[m] = Learn(handed[m], assets[m]))
    BY <1>1 DEF DrainDirty, TypeOK, Live
  <2> QED BY <2>1, LearnCovers DEF TypeOK
<1>2. CASE handed' = handed
  BY <1>2
<1> QED BY <1>1, <1>2
        DEF Next, Work, Track, Persist, vars, Resolve, Apply, ApplyExisting, ApplyEvicted,
            ApplyHydrated, ApplyNew, Done, TrackerTick, Sweep, EvictStale, StartDrain, Save,
            Discard, Advance

\* What is drained was learned, what is written was drained: rows and snapshots on their way
\* tell nothing that was not handed over.
LEMMA NextStored ==
    TypeOK /\ StoredWasHandedOver /\ [Next]_vars => StoredWasHandedOver'
<1> SUFFICES ASSUME TypeOK, StoredWasHandedOver, [Next]_vars PROVE StoredWasHandedOver'
  OBVIOUS
<1>1. TypeOK'
  BY NextType
<1>2. \A m \in MACs : stored[m] # NoAsset => stored[m] \in Asset /\ Covers(handed'[m], stored[m])
  BY HandedGrows DEF StoredWasHandedOver, TypeOK
<1>3. \A p \in pending \cup drain.out :
         p.mac \in MACs /\ p.asset \in Asset /\ Covers(handed'[p.mac], p.asset)
  BY HandedGrows DEF StoredWasHandedOver, TypeOK, Snapshot, DrainState
<1>4. CASE DrainDirty
  <2> DEFINE taken == dirty \cap Live \cap InShard(drain.shard)
             new == {[mac |-> m, asset |-> assets[m]] : m \in taken}
  <2>1. \A m \in taken : /\ m \in MACs /\ assets[m] \in Asset
                         /\ handed'[m] = Learn(handed[m], assets[m])
    BY <1>4 DEF DrainDirty, TypeOK, Live
  <2>2. \A p \in new : Covers(handed'[p.mac], p.asset)
    BY <2>1, LearnCovers DEF TypeOK
  <2>3. pending' \subseteq pending \cup drain.out \cup new
        /\ drain'.out \subseteq drain.out \cup new
    BY <1>4 DEF DrainDirty
  <2>4. stored' = stored
    BY <1>4 DEF DrainDirty
  <2> QED BY <1>2, <1>3, <2>2, <2>3, <2>4 DEF StoredWasHandedOver
<1>5. ASSUME NEW p \in pending, Save(p) PROVE StoredWasHandedOver'
  <2>1. stored' = [stored EXCEPT ![p.mac] = Upsert(stored[p.mac], p.asset)]
    BY <1>5 DEF Save
  <2>2. Covers(handed'[p.mac], Upsert(stored[p.mac], p.asset))
    <3>1. handed'[p.mac] \in Knowledge /\ stored[p.mac] \in Asset \cup {NoAsset}
      BY <1>1, <1>3 DEF TypeOK
    <3> QED BY <1>2, <1>3, <3>1, UpsertCovered
  <2>3. \A m \in MACs : stored'[m] # NoAsset => Covers(handed'[m], stored'[m])
    BY <1>2, <2>1, <2>2 DEF TypeOK
  <2>4. pending' \subseteq pending /\ drain' = drain
    BY <1>5 DEF Save
  <2> QED BY <1>3, <2>3, <2>4 DEF StoredWasHandedOver
<1>6. CASE stored' = stored /\ pending' \subseteq pending /\ drain'.out \subseteq drain.out
  BY <1>2, <1>3, <1>6 DEF StoredWasHandedOver
<1> QED BY <1>4, <1>5, <1>6
        DEF Next, Work, Track, Persist, vars, Resolve, Apply, ApplyExisting, ApplyEvicted,
            ApplyHydrated, ApplyNew, Done, TrackerTick, Sweep, EvictStale, StartDrain,
            Discard, Advance

\* Apply leaves no clean asset with something to hand over: it marks whatever changed, and
\* what it hydrates was handed over before.
LEMMA ApplyKeepsClean ==
    ASSUME TypeOK, CleanMeansHandedOver, StoredWasHandedOver, NEW w \in Workers, Apply(w)
    PROVE  CleanMeansHandedOver'
<1> DEFINE m == worker[w].obs.mac
           o == worker[w].obs.data
<1>1. worker[w] # Idle /\ handed' = handed
  BY DEF Apply, ApplyExisting, ApplyEvicted, ApplyHydrated, ApplyNew, Done
<1>2. m \in MACs /\ o \in ObservationData /\ handed[m] \in Knowledge
  BY <1>1, WorkerType DEF TypeOK
<1>3. ASSUME NEW base \in Asset, Update(m, base, o), m \notin dirty => Covers(handed[m], base)
      PROVE  CleanMeansHandedOver'
  <2> SUFFICES ASSUME NEW n \in Live' \ dirty' PROVE Covers(handed[n], assets'[n])
    BY <1>1 DEF CleanMeansHandedOver
  <2>1. CASE n = m
    <3>1. ~MergeChanged(base, o) /\ m \notin dirty
      BY <1>3, <2>1 DEF Update
    <3>2. assets'[m] = [mergeObservation(base, o) EXCEPT !.status = "online"]
      BY <1>2, <1>3 DEF Update, TypeOK
    <3> QED BY <1>2, <1>3, <2>1, <3>1, <3>2, UnchangedMergeCovered
  <2>2. CASE n # m
    <3>1. n \in Live \ dirty /\ assets'[n] = assets[n]
      BY <1>3, <2>2 DEF Update, Live, TypeOK
    <3> QED BY <3>1 DEF CleanMeansHandedOver
  <2> QED BY <2>1, <2>2
<1>4. CASE ApplyExisting(w)
  <2>1. assets[m] \in Asset /\ m \in Live /\ Update(m, assets[m], o)
    BY <1>2, <1>4 DEF ApplyExisting, TypeOK, Live
  <2> QED BY <1>3, <2>1 DEF CleanMeansHandedOver
<1>5. CASE ApplyEvicted(w)
  BY <1>1, <1>5 DEF ApplyEvicted, memory, CleanMeansHandedOver, Live
<1>6. CASE ApplyHydrated(w)
  <2>1. stored[m] \in Asset /\ stored[m] # NoAsset /\ Update(m, stored[m], o)
    BY <1>2, <1>6 DEF ApplyHydrated, TypeOK
  <2> QED BY <1>2, <1>3, <2>1 DEF StoredWasHandedOver
<1>7. CASE ApplyNew(w)
  <2> SUFFICES ASSUME NEW n \in Live' \ dirty' PROVE Covers(handed[n], assets'[n])
    BY <1>1 DEF CleanMeansHandedOver
  <2>1. n # m /\ n \in Live \ dirty /\ assets'[n] = assets[n]
    BY <1>7 DEF ApplyNew, Create, Live, TypeOK
  <2> QED BY <2>1 DEF CleanMeansHandedOver
<1> QED BY <1>4, <1>5, <1>6, <1>7 DEF Apply

\* Every step keeps dirty tracking complete.
LEMMA NextClean ==
    TypeOK /\ CleanMeansHandedOver /\ StoredWasHandedOver /\ [Next]_vars
        => CleanMeansHandedOver'
<1> SUFFICES ASSUME TypeOK, CleanMeansHandedOver, StoredWasHandedOver, [Next]_vars
             PROVE  CleanMeansHandedOver'
  OBVIOUS
<1>1. ASSUME NEW w \in Workers, Apply(w) PROVE CleanMeansHandedOver'
  BY <1>1, ApplyKeepsClean
<1>2. CASE Sweep
  <2> SUFFICES ASSUME NEW n \in Live' \ dirty' PROVE Covers(handed[n], assets'[n])
    BY <1>2 DEF CleanMeansHandedOver, Sweep
  <2>1. n \in MACs /\ n \notin dirty /\ assets'[n] = assets[n]
    BY <1>2 DEF Sweep, Live
  <2>2. n \in Live
    BY <2>1 DEF Live
  <2> QED BY <2>1, <2>2 DEF CleanMeansHandedOver
<1>3. CASE EvictStale
  <2> SUFFICES ASSUME NEW n \in Live' \ dirty PROVE n \in Live /\ assets'[n] = assets[n]
    BY <1>3 DEF CleanMeansHandedOver, EvictStale
  <2> QED BY <1>3 DEF EvictStale, Live
<1>4. CASE DrainDirty
  <2> SUFFICES ASSUME NEW n \in Live \ dirty' PROVE Covers(handed'[n], assets[n])
    BY <1>4 DEF CleanMeansHandedOver, DrainDirty, Live
  <2>1. n \in MACs /\ assets[n] \in Asset /\ handed[n] \in Knowledge
    BY DEF Live, TypeOK
  <2>2. CASE n \in dirty
    <3>1. handed'[n] = Learn(handed[n], assets[n])
      BY <1>4, <2>1, <2>2 DEF DrainDirty, InShard
    <3> QED BY <2>1, <3>1, LearnCovers
  <2>3. CASE n \notin dirty
    BY <2>1, <2>3, HandedGrows DEF CleanMeansHandedOver
  <2> QED BY <2>2, <2>3
<1>5. CASE UNCHANGED <<assets, dirty, handed>>
  BY <1>5 DEF CleanMeansHandedOver, Live
<1> QED BY <1>1, <1>2, <1>3, <1>4, <1>5
        DEF Next, Work, Track, Persist, vars, memory, Resolve, TrackerTick, StartDrain, Save,
            Discard, Advance

\* At startup only rows are in memory, and a row is what was handed over of its device.
LEMMA InitClean == Init => CleanMeansHandedOver /\ StoredWasHandedOver
<1> SUFFICES ASSUME Init PROVE CleanMeansHandedOver /\ StoredWasHandedOver
  OBVIOUS
<1>1. ASSUME NEW m \in MACs, stored[m] # NoAsset
      PROVE  stored[m] \in Asset /\ Covers(handed[m], stored[m])
  BY <1>1, ManagerAssumption, NothingType, LearnCovers DEF Init
<1>2. StoredWasHandedOver
  BY <1>1 DEF Init, StoredWasHandedOver
<1>3. CleanMeansHandedOver
  <2> SUFFICES ASSUME NEW m \in Live \ dirty PROVE Covers(handed[m], assets[m])
    BY DEF CleanMeansHandedOver
  <2>1. m \in MACs /\ m \in bound /\ LoadSnapshots(stored)[m] # NoAsset
    BY DEF Init, Live
  <2>2. assets[m] = LoadSnapshots(stored)[m]
    BY <2>1 DEF Init
  <2>3. assets[m] = stored[m] /\ stored[m] # NoAsset
    BY <2>1, <2>2 DEF LoadSnapshots
  <2> QED BY <1>1, <2>1, <2>3
<1> QED BY <1>2, <1>3

\* Dirty tracking is complete for any number of devices, workers and shards: what an unmarked
\* asset in memory tells was handed to the persister or came from it.
THEOREM CleanCorrect == Spec => []CleanMeansHandedOver
<1>1. Init => CleanMeansHandedOver /\ StoredWasHandedOver
  BY InitClean
<1>2. TypeOK /\ CleanMeansHandedOver /\ StoredWasHandedOver /\ [Next]_vars
        => CleanMeansHandedOver' /\ StoredWasHandedOver'
  BY NextClean, NextStored
<1> QED BY <1>1, <1>2, TypeCorrect, PTL DEF Spec

-----------------------------------------------------------------------------
(* What is known of an asset in memory *)

\* An address entry of a record carries numbers.
LEMMA AddressType ==
    ASSUME NEW a \in Asset, NEW ip \in IPs, a.ips[ip] # NoIP
    PROVE  a.ips[ip] \in IPEntry /\ a.ips[ip].last \in Nat /\ a.ips[ip].lease \in Nat
<1>1. a.ips \in IPMap
  BY DEF Asset
<1>2. a.ips[ip] \in IPEntry
  BY <1>1 DEF IPMap
<1>3. a.ips[ip].last \in Times /\ a.ips[ip].lease \in Leases
  BY <1>2 DEF IPEntry
<1>4. a.ips[ip].last \in Nat
  BY <1>3 DEF Times
<1>5. Leases \subseteq Nat
  BY RecordAssumption
<1>6. a.ips[ip].lease \in Nat
  BY <1>3, <1>5, Zenon
<1> QED BY <1>2, <1>4, <1>6

\* The times of a record are numbers.
LEMMA SeenType ==
    ASSUME NEW a \in Asset
    PROVE  a.first \in Nat /\ a.last \in Nat
BY DEF Asset, Times

\* Merging an observation only adds to a record: it takes no fact and no address, narrows no
\* interval, and leaves every address it touches active.
LEMMA MergeRetains ==
    ASSUME NEW a \in Asset, NEW o \in ObservationData
    PROVE  Retains(a, [mergeObservation(a, o) EXCEPT !.status = "online"])
<1> DEFINE b == [mergeObservation(a, o) EXCEPT !.status = "online"]
<1>1. /\ b.facts = a.facts \cup o.facts
      /\ b.first = TouchFirst(a.first, o.at)
      /\ b.last = Later(a.last, o.at)
      /\ b.ips = mergeIPMap(a.ips, o)
  BY DEF mergeObservation, Asset
<1>2. a.facts \subseteq b.facts /\ b.first <= a.first /\ a.last <= b.last
  BY <1>1 DEF Asset, ObservationData, Times, TouchFirst, Earlier, Later
<1>3. ASSUME NEW ip \in IPs, a.ips[ip] # NoIP
      PROVE  /\ b.ips[ip] # NoIP
             /\ a.ips[ip].last <= b.ips[ip].last
             /\ a.ips[ip].lease <= b.ips[ip].lease
             /\ b.ips[ip].active \/ b.ips[ip] = a.ips[ip]
  <2>1. a.ips[ip] \in IPEntry /\ a.ips[ip].last \in Nat /\ a.ips[ip].lease \in Nat
    BY <1>3, AddressType
  <2>2. o.at \in Times /\ o.at \in Nat /\ o.lease \in Leases /\ o.lease \in Nat
    <3>1. o.at \in Times /\ o.lease \in Leases
      BY DEF ObservationData
    <3>2. o.at \in Nat
      BY <3>1 DEF Times
    <3>3. Leases \subseteq Nat
      BY RecordAssumption
    <3>4. o.lease \in Nat
      BY <3>1, <3>3, Zenon
    <3> QED BY <3>1, <3>2, <3>4
  <2>3. CASE ip \in o.ips
    <3>1. b.ips[ip] = [last |-> Later(a.ips[ip].last, o.at),
                       lease |-> Later(a.ips[ip].lease, o.lease), active |-> TRUE]
      BY <1>1, <1>3, <2>3 DEF mergeIPMap, MergeIPEntry
    <3>2. /\ Later(a.ips[ip].last, o.at) \in Times
          /\ Later(a.ips[ip].lease, o.lease) \in Leases
      BY <2>1, <2>2 DEF IPEntry, Later
    <3>3. [last |-> Later(a.ips[ip].last, o.at),
           lease |-> Later(a.ips[ip].lease, o.lease), active |-> TRUE] \in IPEntry
      BY <3>2 DEF IPEntry
    <3>4. b.ips[ip] # NoIP
      BY <3>1, <3>3, NullAssumption
    <3> QED BY <2>1, <2>2, <3>1, <3>4 DEF Later
  <2>4. CASE ip \notin o.ips
    <3>1. b.ips[ip] = a.ips[ip]
      BY <1>1, <2>4 DEF mergeIPMap
    <3> QED BY <1>3, <2>1, <3>1
  <2> QED BY <2>3, <2>4
<1> QED BY <1>2, <1>3 DEF Retains

\* A sweep changes neither the facts nor the times of a record, and retires an address only
\* when its lease and the grace are over at the time of the sweep, which has passed.
LEMMA SweepRetains ==
    ASSUME NEW a \in Asset, NEW t \in Times, NEW limit \in Nat, now \in Times, t <= now
    PROVE  Retains(a, SweepAsset(a, t, limit))
<1> DEFINE b == SweepAsset(a, t, limit)
<1>1. b.facts = a.facts /\ b.first = a.first /\ b.last = a.last
  BY SweepType
<1>2. b.ips = sweepIPMap(a.ips, t)
  BY DEF SweepAsset, Asset
<1>3. ASSUME NEW ip \in IPs, a.ips[ip] # NoIP
      PROVE  /\ b.ips[ip] # NoIP
             /\ a.ips[ip].last <= b.ips[ip].last
             /\ a.ips[ip].lease <= b.ips[ip].lease
             /\ a.ips[ip].active /\ ~b.ips[ip].active =>
                   /\ b.ips[ip].lease > 0
                   /\ now - b.ips[ip].last > b.ips[ip].lease + IpGrace
  <2> DEFINE e == a.ips[ip]
  <2>1. e \in IPEntry /\ e.last \in Nat /\ e.lease \in Nat
    BY <1>3, AddressType
  <2>2. b.ips[ip] = SweepIPEntry(e, t)
    BY <1>2 DEF sweepIPMap
  <2>3. CASE b.ips[ip] = e
    BY <1>3, <2>1, <2>3
  <2>4. CASE b.ips[ip] # e
    <3>1. /\ b.ips[ip] = [e EXCEPT !.active = FALSE]
          /\ e.lease > 0 /\ t - e.last > e.lease + IpGrace
      BY <2>2, <2>4 DEF SweepIPEntry
    <3>2. b.ips[ip] \in IPEntry /\ b.ips[ip].last = e.last /\ b.ips[ip].lease = e.lease
      BY <2>1, <3>1 DEF IPEntry
    <3>3. now - e.last > e.lease + IpGrace
      BY <2>1, <3>1, RecordAssumption DEF Times
    <3>4. b.ips[ip] # NoIP
      BY <3>2, NullAssumption
    <3> QED BY <2>1, <3>1, <3>2, <3>3, <3>4
  <2> QED BY <2>3, <2>4
<1>4. a.first \in Nat /\ a.last \in Nat
  BY SeenType
<1> QED BY <1>1, <1>3, <1>4 DEF Retains

\* A record that is left alone keeps what it knows.
LEMMA RetainsItself ==
    ASSUME NEW a \in Asset
    PROVE  Retains(a, a)
<1>1. a.first \in Nat /\ a.last \in Nat
  BY SeenType
<1>2. ASSUME NEW ip \in IPs, a.ips[ip] # NoIP
      PROVE  a.ips[ip].last \in Nat /\ a.ips[ip].lease \in Nat
  BY <1>2, AddressType
<1> QED BY <1>1, <1>2 DEF Retains

\* Of the ways Apply takes, only those that found the MAC unknown replace a record.
LEMMA ApplyRetains ==
    ASSUME TypeOK, NEW w \in Workers, Apply(w), NEW n \in MACs,
           assets[n] # NoAsset, assets'[n] # NoAsset
    PROVE  Retains(assets[n], assets'[n]) \/ AppliesUnknown(w, n)
<1> DEFINE m == worker[w].obs.mac
           o == worker[w].obs.data
<1>1. worker[w] # Idle /\ worker'[w] = Idle
  BY DEF Apply, ApplyExisting, ApplyEvicted, ApplyHydrated, ApplyNew, Done, TypeOK
<1>2. m \in MACs /\ o \in ObservationData
  BY <1>1, WorkerType
<1>3. assets[n] \in Asset
  BY DEF TypeOK
<1>4. CASE ApplyEvicted(w)
  BY <1>3, <1>4, RetainsItself DEF ApplyEvicted, memory
<1>5. CASE ~ApplyEvicted(w) /\ n # m
  <2>1. assets'[n] = assets[n]
    BY <1>5, ApplyEffect DEF TypeOK
  <2> QED BY <1>3, <2>1, RetainsItself
<1>6. CASE ApplyExisting(w) /\ n = m
  <2>1. assets'[n] = [mergeObservation(assets[n], o) EXCEPT !.status = "online"]
    BY <1>6 DEF ApplyExisting, Update, TypeOK
  <2> QED BY <1>2, <1>3, <2>1, MergeRetains
<1>7. CASE (ApplyHydrated(w) \/ ApplyNew(w)) /\ n = m
  BY <1>1, <1>7 DEF ApplyHydrated, ApplyNew, AppliesUnknown
<1> QED BY <1>4, <1>5, <1>6, <1>7 DEF Apply

\* No step but the application of an observation whose MAC was unknown when it was resolved
\* takes anything away from what is known of an asset.
LEMMA NextForgets ==
    ASSUME TypeOK, [Next]_vars, NEW n \in MACs, assets[n] # NoAsset, assets'[n] # NoAsset
    PROVE  Retains(assets[n], assets'[n]) \/ \E w \in Workers : AppliesUnknown(w, n)
<1>1. assets[n] \in Asset
  BY DEF TypeOK
<1>2. CASE \E w \in Workers : Apply(w)
  BY <1>2, ApplyRetains
<1>3. CASE Sweep
  <2>1. assets'[n] = assets[n] \/ assets'[n] = SweepAsset(assets[n], tracker.at, OfflineAfter)
    BY <1>3 DEF Sweep
  <2>2. tracker.at \in Times /\ tracker.at <= now /\ now \in Times /\ OfflineAfter \in Nat
    BY ManagerAssumption DEF TypeOK, TrackerState
  <2> QED BY <1>1, <2>1, <2>2, RetainsItself, SweepRetains
<1>4. CASE EvictStale
  <2>1. assets'[n] = assets[n]
    BY <1>4 DEF EvictStale
  <2> QED BY <1>1, <2>1, RetainsItself
<1>5. CASE assets' = assets
  BY <1>1, <1>5, RetainsItself
<1> QED BY <1>2, <1>3, <1>4, <1>5
        DEF Next, Work, Track, Persist, vars, memory, Resolve, TrackerTick, StartDrain,
            DrainDirty, Save, Discard, Advance

\* Whatever the interleaving, what is known of an asset in memory shrinks only when a worker
\* applies an observation it resolved while the MAC was unknown (manager.go:269-310).
THEOREM ForgettingIsARace == Spec => OnlyRacesForget
<1>1. TypeOK /\ [Next]_vars =>
        [\A m \in MACs :
            \/ assets[m] = NoAsset \/ assets'[m] = NoAsset
            \/ Retains(assets[m], assets'[m])
            \/ \E w \in Workers : AppliesUnknown(w, m)]_vars
  BY NextForgets DEF AppliesUnknown
<1> QED BY <1>1, TypeCorrect, PTL DEF Spec, OnlyRacesForget

-----------------------------------------------------------------------------
(* The life of an asset *)

Past(a, t) == a # NoAsset => a.last <= t

HeardBy(t) ==
    /\ \A m \in MACs : Past(assets[m], t) /\ Past(stored[m], t)
    /\ \A p \in pending \cup drain.out : p.asset.last <= t
    /\ \A w \in Workers : worker[w] # Idle => worker[w].obs.data.at <= t

HeardInThePast == HeardBy(now)

\* The state of AssetLifecycle, as AssetManager!Lifecycle maps it.
Life(a) == IF a = NoAsset THEN "unknown" ELSE a.status
Heard(a) == IF a = NoAsset THEN 0 ELSE a.last

-----------------------------------------------------------------------------
(* Times *)

\* At startup rows are from before it, and memory holds rows.
LEMMA InitPast == Init => HeardInThePast
<1> SUFFICES ASSUME Init PROVE HeardInThePast
  OBVIOUS
<1>1. \A m \in MACs : stored[m] \in Asset \cup {NoAsset} /\ Past(stored[m], now)
  BY ManagerAssumption DEF Init, Past
<1>2. ASSUME NEW m \in MACs PROVE Past(assets[m], now)
  <2>1. CASE m \in bound
    <3>1. LoadSnapshots(stored)[m] = stored[m] /\ stored[m] \in Asset
      BY <1>1, <2>1 DEF Init, LoadSnapshots
    <3> QED BY <1>1, <2>1, <3>1, SweepType, NullAssumption, ManagerAssumption DEF Init, Past
  <2>2. CASE m \notin bound
    BY <2>2 DEF Init, Past
  <2> QED BY <2>1, <2>2
<1> QED BY <1>1, <1>2 DEF Init, HeardInThePast, HeardBy

\* Apply leaves the device it is about online, and heard at a time that has passed (mergeInto,
\* then StatusOnline): at the observation's, or at the record's if that is later.
LEMMA ApplyObserves ==
    ASSUME TypeOK, HeardInThePast, NEW w \in Workers, Apply(w), ~ApplyEvicted(w)
    PROVE  \E m \in MACs, a \in Asset :
             /\ assets' = [assets EXCEPT ![m] = a]
             /\ a.status = "online"
             /\ a.last <= now
<1> DEFINE m == worker[w].obs.mac
           o == worker[w].obs.data
<1>1. worker[w] # Idle
  BY DEF Apply, ApplyExisting, ApplyEvicted, ApplyHydrated, ApplyNew
<1>2. m \in MACs /\ o \in ObservationData /\ o.at <= now
  BY <1>1, WorkerType DEF HeardInThePast, HeardBy
<1>3. ASSUME NEW base \in Asset, base.last <= now, Update(m, base, o)
      PROVE  \E a \in Asset : /\ assets' = [assets EXCEPT ![m] = a]
                              /\ a.status = "online"
                              /\ a.last <= now
  <2> DEFINE a == [mergeObservation(base, o) EXCEPT !.status = "online"]
  <2>1. a \in Asset /\ assets' = [assets EXCEPT ![m] = a]
    BY <1>2, <1>3, MergeType DEF Update
  <2>2. a.status = "online" /\ a.last = Later(base.last, o.at)
    BY DEF mergeObservation, Asset
  <2> QED BY <1>2, <1>3, <2>1, <2>2 DEF Later
<1>4. CASE ApplyExisting(w)
  <2>1. assets[m] \in Asset /\ assets[m].last <= now /\ Update(m, assets[m], o)
    BY <1>2, <1>4 DEF ApplyExisting, TypeOK, HeardInThePast, HeardBy, Past
  <2> QED BY <1>2, <1>3, <2>1
<1>5. CASE ApplyHydrated(w)
  <2>1. stored[m] \in Asset /\ stored[m].last <= now /\ Update(m, stored[m], o)
    BY <1>2, <1>5 DEF ApplyHydrated, TypeOK, HeardInThePast, HeardBy, Past
  <2> QED BY <1>2, <1>3, <2>1
<1>6. CASE ApplyNew(w)
  <2>1. newAsset(o) \in Asset /\ assets' = [assets EXCEPT ![m] = newAsset(o)]
    BY <1>2, <1>6, NewAssetType DEF ApplyNew, Create
  <2>2. newAsset(o).status = "online" /\ newAsset(o).last = Later(0, o.at)
    BY DEF newAsset, mergeObservation
  <2>3. Later(0, o.at) = o.at
    BY <1>2 DEF Later, ObservationData, Times
  <2> QED BY <1>2, <2>1, <2>2, <2>3
<1> QED BY <1>4, <1>5, <1>6 DEF Apply

\* The clock does not go back.
LEMMA ClockAdvances == TypeOK /\ [Next]_vars => now' \in Int /\ now <= now' /\ now \in Int
<1> SUFFICES ASSUME TypeOK, [Next]_vars PROVE now' \in Int /\ now <= now' /\ now \in Int
  OBVIOUS
<1>1. now \in Int
  BY DEF TypeOK, Times
<1>2. CASE Advance
  BY <1>1, <1>2 DEF Advance
<1>3. CASE now' = now
  BY <1>1, <1>3
<1> QED BY <1>1, <1>2, <1>3
        DEF Next, Work, Track, Persist, vars, Resolve, Apply, ApplyExisting, ApplyEvicted,
            ApplyHydrated, ApplyNew, Done, TrackerTick, Sweep, EvictStale, StartDrain,
            DrainDirty, Save, Discard

\* Whatever is remembered at a later time was heard before it.
LEMMA PastStaysPast == TypeOK /\ HeardInThePast /\ [Next]_vars => HeardBy(now')
<1> SUFFICES ASSUME TypeOK, HeardInThePast, [Next]_vars PROVE HeardBy(now')
  OBVIOUS
<1>1. now' \in Int /\ now <= now' /\ now \in Int
  BY ClockAdvances
<1>2. ASSUME NEW m \in MACs
      PROVE  /\ assets[m] # NoAsset => assets[m].last \in Int
             /\ stored[m] # NoAsset => stored[m].last \in Int
  BY DEF TypeOK, Asset, Times
<1>3. ASSUME NEW p \in pending \cup drain.out PROVE p.asset.last \in Int /\ p.asset # NoAsset
  <2>1. p.asset \in Asset
    BY DEF TypeOK, Snapshot, DrainState
  <2> QED BY <2>1, NullAssumption DEF Asset, Times
<1>4. ASSUME NEW w \in Workers, worker[w] # Idle PROVE worker[w].obs.data.at \in Int
  BY <1>4, WorkerType DEF ObservationData, Times
<1> QED BY <1>1, <1>2, <1>3, <1>4 DEF HeardInThePast, HeardBy, Past

\* Every step keeps what is remembered in the past.
LEMMA NextPast == TypeOK /\ HeardInThePast /\ [Next]_vars => HeardInThePast'
<1> SUFFICES ASSUME TypeOK, HeardInThePast, [Next]_vars PROVE HeardInThePast'
  OBVIOUS
<1>1. HeardBy(now')
  BY PastStaysPast
<1> USE DEF HeardBy, Past
<1>2. ASSUME NEW w \in Workers, Apply(w) PROVE HeardInThePast'
  <2>1. /\ worker' = [worker EXCEPT ![w] = Idle]
        /\ UNCHANGED <<now, drain, pending, stored>>
    BY <1>2 DEF Apply, ApplyExisting, ApplyEvicted, ApplyHydrated, ApplyNew, Done
  <2>2. \A v \in Workers : worker'[v] # Idle => worker'[v].obs.data.at <= now'
    BY <1>1, <2>1 DEF TypeOK
  <2>3. \A m \in MACs : assets'[m] # NoAsset => assets'[m].last <= now'
    <3>1. CASE ApplyEvicted(w)
      BY <1>1, <3>1 DEF ApplyEvicted, memory
    <3>2. CASE ~ApplyEvicted(w)
      BY <1>1, <1>2, <2>1, <3>2, ApplyObserves DEF TypeOK
    <3> QED BY <3>1, <3>2
  <2> QED BY <1>1, <2>1, <2>2, <2>3 DEF HeardInThePast
<1>3. ASSUME NEW w \in Workers, NEW o \in Observation, Resolve(w, o) PROVE HeardInThePast'
  <2>1. worker' = [worker EXCEPT ![w] = [obs |-> o, exists |-> o.mac \in bound]]
        /\ o.data.at <= now'
    BY <1>3 DEF Resolve
  <2>2. \A v \in Workers : worker'[v] # Idle => worker'[v].obs.data.at <= now'
    BY <1>1, <2>1 DEF TypeOK
  <2> QED BY <1>1, <1>3, <2>2 DEF Resolve, memory, HeardInThePast
<1>4. CASE Sweep
  <2>1. ASSUME NEW m \in MACs, assets'[m] # NoAsset PROVE assets'[m].last <= now'
    <3>1. CASE m \in Live /\ ShardOf[m] = tracker.shard
      <4>1. assets[m] \in Asset /\ assets[m] # NoAsset
        BY <3>1 DEF Live, TypeOK
      <4>2. assets'[m] = SweepAsset(assets[m], tracker.at, OfflineAfter)
        BY <1>4, <3>1 DEF Sweep
      <4>3. tracker.at \in Times /\ OfflineAfter \in Nat
        BY ManagerAssumption DEF TypeOK, TrackerState
      <4> QED BY <1>1, <4>1, <4>2, <4>3, SweepType
    <3>2. CASE ~(m \in Live /\ ShardOf[m] = tracker.shard)
      BY <1>1, <1>4, <2>1, <3>2 DEF Sweep
    <3> QED BY <3>1, <3>2
  <2> QED BY <1>1, <1>4, <2>1 DEF Sweep, HeardInThePast
<1>5. CASE EvictStale
  BY <1>1, <1>5 DEF EvictStale, HeardInThePast
<1>6. CASE DrainDirty
  <2> DEFINE taken == dirty \cap Live \cap InShard(drain.shard)
             new == {[mac |-> m, asset |-> assets[m]] : m \in taken}
  <2>1. /\ pending' \subseteq pending \cup drain.out \cup new
        /\ drain'.out \subseteq drain.out \cup new
    BY <1>6 DEF DrainDirty
  <2>2. \A p \in new : p.asset.last <= now'
    BY <1>1 DEF Live
  <2>3. \A p \in pending' \cup drain'.out : p.asset.last <= now'
    BY <1>1, <2>1, <2>2
  <2> QED BY <1>1, <1>6, <2>3 DEF DrainDirty, HeardInThePast
<1>7. ASSUME NEW p \in pending, Save(p) PROVE HeardInThePast'
  <2>1. p.mac \in MACs /\ p.asset \in Asset /\ p.asset.last <= now'
    BY <1>1 DEF TypeOK, Snapshot
  <2>2. Upsert(stored[p.mac], p.asset).last <= now'
    <3>1. CASE stored[p.mac] = NoAsset
      BY <2>1, <3>1 DEF Upsert
    <3>2. CASE stored[p.mac] # NoAsset
      BY <1>1, <2>1, <3>2 DEF Upsert, Later
    <3> QED BY <3>1, <3>2
  <2>3. \A m \in MACs : stored'[m] # NoAsset => stored'[m].last <= now'
    BY <1>1, <1>7, <2>1, <2>2 DEF Save, TypeOK
  <2> QED BY <1>1, <1>7, <2>3 DEF Save, memory, HeardInThePast
<1>8. CASE /\ UNCHANGED <<assets, stored, worker>>
           /\ pending' \subseteq pending
           /\ drain'.out \subseteq drain.out
  BY <1>1, <1>8 DEF HeardInThePast
<1> QED BY <1>2, <1>3, <1>4, <1>5, <1>6, <1>7, <1>8
        DEF Next, Work, Track, Persist, vars, memory, TrackerTick, StartDrain, Discard, Advance

-----------------------------------------------------------------------------
(* The steps *)

\* At startup every device is unknown or loaded, and the first sweep has taken the silent ones
\* offline.
LEMMA InitLifecycle == Init => Lifecycle!Start
<1> SUFFICES ASSUME Init PROVE Lifecycle!Start
  OBVIOUS
<1>1. TypeOK /\ HeardInThePast
  BY InitType, InitPast
<1>2. now \in 1..MaxTime
  BY <1>1 DEF TypeOK, Times
<1>3. ASSUME NEW m \in MACs
      PROVE  /\ Life(assets[m]) \in {"unknown", "online", "offline"}
             /\ Heard(assets[m]) \in 0..now
             /\ Heard(assets[m]) = 0 <=> Life(assets[m]) = "unknown"
             /\ Life(assets[m]) = "online" => now - Heard(assets[m]) <= OfflineAfter
  <2>1. CASE assets[m] = NoAsset
    BY <1>2, <2>1 DEF Life, Heard
  <2>2. CASE assets[m] # NoAsset
    <3>1. /\ assets[m].status \in {"online", "offline"}
          /\ assets[m].last \in 1..now
      BY <1>1, <1>2, <2>2 DEF TypeOK, HeardInThePast, HeardBy, Past, Asset, Status, Times
    <3>2. assets[m].status = "online" => now - assets[m].last <= OfflineAfter
      <4>1. /\ assets[m] = SweepAsset(LoadSnapshots(stored)[m], now, OfflineAfter)
            /\ LoadSnapshots(stored)[m] \in Asset
        BY <1>1, <2>2 DEF Init, LoadSnapshots, TypeOK
      <4>2. /\ assets[m].last = LoadSnapshots(stored)[m].last
            /\ assets[m].status = "online" => ~Silent(LoadSnapshots(stored)[m], now, OfflineAfter)
        BY <4>1 DEF SweepAsset, Asset
      <4> QED BY <1>2, <3>1, <4>2, ManagerAssumption DEF Silent
    <3> QED BY <1>2, <2>2, <3>1, <3>2 DEF Life, Heard
  <2> QED BY <2>1, <2>2
<1> QED BY <1>2, <1>3 DEF Lifecycle!Start, Life, Heard

\* A step that leaves clock and memory alone is no step of any life.
LEMMA StutterLifecycle == UNCHANGED <<now, assets>> => UNCHANGED Lifecycle!Vars
BY DEF Lifecycle!Vars

\* Apply is the device being heard, or, when it crashes, nothing.
LEMMA ApplyLifecycle ==
    ASSUME TypeOK, HeardInThePast, NEW w \in Workers, Apply(w)
    PROVE  [Lifecycle!Step]_(Lifecycle!Vars)
<1>1. CASE ApplyEvicted(w)
  BY <1>1, StutterLifecycle DEF ApplyEvicted, Done, memory
<1>2. CASE ~ApplyEvicted(w)
  <2>1. PICK m \in MACs, a \in Asset : /\ assets' = [assets EXCEPT ![m] = a]
                                      /\ a.status = "online"
                                      /\ a.last <= now
    BY <1>2, ApplyObserves
  <2>2. now' = now
    BY DEF Apply, ApplyExisting, ApplyEvicted, ApplyHydrated, ApplyNew, Done
  <2>3. a # NoAsset /\ a.last \in 1..now
    BY <2>1, NullAssumption DEF Asset, Times, TypeOK
  <2>4. \A n \in MACs : assets'[n] = IF n = m THEN a ELSE assets[n]
    BY <2>1 DEF TypeOK
  <2>5. ASSUME NEW n \in MACs
        PROVE  /\ Life(assets'[n]) = IF n = m THEN "online" ELSE Life(assets[n])
               /\ Heard(assets'[n]) = IF n = m THEN a.last ELSE Heard(assets[n])
    BY <2>1, <2>3, <2>4 DEF Life, Heard
  <2>6. Lifecycle!Observe(m)
    BY <2>2, <2>3, <2>5 DEF Lifecycle!Observe, Life, Heard
  <2> QED BY <2>6 DEF Lifecycle!Step
<1> QED BY <1>1, <1>2

\* A shard's sweep is the expiry of the devices it takes offline.
LEMMA SweepLifecycle ==
    ASSUME TypeOK, Sweep
    PROVE  Lifecycle!Step
<1> DEFINE gone == {m \in MACs : /\ m \in Live /\ ShardOf[m] = tracker.shard
                                /\ assets[m].status = "online"
                                /\ Silent(assets[m], tracker.at, OfflineAfter)}
<1>1. now' = now /\ now \in Int /\ tracker.at \in Int /\ tracker.at <= now
  BY DEF Sweep, TypeOK, Times, TrackerState
<1>2. ASSUME NEW m \in MACs
      PROVE  /\ Heard(assets'[m]) = Heard(assets[m])
             /\ Life(assets'[m]) = IF m \in gone THEN "offline" ELSE Life(assets[m])
  <2>1. CASE m \in Live /\ ShardOf[m] = tracker.shard
    <3> DEFINE a == assets[m]
    <3>1. a \in Asset /\ a # NoAsset /\ tracker.at \in Times /\ OfflineAfter \in Nat
      BY <2>1, ManagerAssumption DEF Live, TypeOK, TrackerState
    <3>2. assets'[m] = SweepAsset(a, tracker.at, OfflineAfter)
      BY <2>1 DEF Sweep
    <3>3. assets'[m] # NoAsset /\ assets'[m].last = a.last
      BY <3>1, <3>2, SweepType, NullAssumption
    <3>4. assets'[m].status = IF Silent(a, tracker.at, OfflineAfter) THEN "offline"
                                                                    ELSE a.status
      BY <3>1, <3>2 DEF SweepAsset, Asset
    <3>5. a.status \in {"online", "offline"}
      BY <3>1 DEF Asset, Status
    <3> QED BY <2>1, <3>1, <3>3, <3>4, <3>5 DEF Life, Heard
  <2>2. CASE ~(m \in Live /\ ShardOf[m] = tracker.shard)
    BY <2>2 DEF Sweep
  <2> QED BY <2>1, <2>2
<1>3. ASSUME NEW m \in gone
      PROVE  Life(assets[m]) = "online" /\ now - Heard(assets[m]) > OfflineAfter
  <2>1. /\ assets[m] \in Asset /\ assets[m] # NoAsset
        /\ assets[m].status = "online"
        /\ tracker.at - assets[m].last > OfflineAfter
    BY <1>3 DEF Live, TypeOK, Silent
  <2> QED BY <1>1, <2>1, ManagerAssumption DEF Life, Heard, Asset, Times
<1>4. Lifecycle!Expire(gone)
  BY <1>1, <1>2, <1>3 DEF Lifecycle!Expire, Life, Heard
<1>5. gone \in SUBSET MACs
  OBVIOUS
<1> HIDE DEF gone
<1>6. \E S \in SUBSET MACs : Lifecycle!Expire(S)
  BY <1>4, <1>5 DEF Lifecycle!Expire
<1> QED BY <1>6 DEF Lifecycle!Step

\* A shard's eviction forgets the devices it removes.
LEMMA EvictLifecycle ==
    ASSUME TypeOK, EvictStale
    PROVE  Lifecycle!Step
<1> DEFINE gone == {m \in InShard(tracker.shard) : Stale(m)}
<1>1. now' = now /\ now \in Int /\ tracker.at \in Int /\ tracker.at <= now
  BY DEF EvictStale, TypeOK, Times, TrackerState
<1>2. \A m \in MACs : assets'[m] = IF m \in gone THEN NoAsset ELSE assets[m]
  BY DEF EvictStale
<1>3. ASSUME NEW m \in gone
      PROVE  /\ m \in MACs
             /\ Life(assets[m]) = "offline"
             /\ now - Heard(assets[m]) > EvictAfter
  <2>1. /\ assets[m] \in Asset /\ assets[m] # NoAsset
        /\ assets[m].status = "offline"
        /\ tracker.at - assets[m].last > EvictAfter
    BY <1>3 DEF InShard, Stale, TypeOK, Silent
  <2> QED BY <1>1, <1>3, <2>1, ManagerAssumption DEF InShard, Life, Heard, Asset, Times
<1>4. Lifecycle!Forget(gone)
  BY <1>1, <1>2, <1>3 DEF Lifecycle!Forget, Life, Heard
<1>5. gone \in SUBSET MACs
  BY <1>3
<1> HIDE DEF gone
<1>6. \E S \in SUBSET MACs : Lifecycle!Forget(S)
  BY <1>4, <1>5 DEF Lifecycle!Forget
<1> QED BY <1>6 DEF Lifecycle!Step

\* Every step of the system is a step of the life of the devices, or none.
LEMMA StepLifecycle ==
    TypeOK /\ HeardInThePast /\ [Next]_vars => [Lifecycle!Step]_(Lifecycle!Vars)
<1> SUFFICES ASSUME TypeOK, HeardInThePast, [Next]_vars
             PROVE  [Lifecycle!Step]_(Lifecycle!Vars)
  OBVIOUS
<1>1. ASSUME NEW w \in Workers, Apply(w) PROVE [Lifecycle!Step]_(Lifecycle!Vars)
  BY <1>1, ApplyLifecycle
<1>2. CASE Sweep
  BY <1>2, SweepLifecycle
<1>3. CASE EvictStale
  BY <1>3, EvictLifecycle
<1>4. CASE Advance
  <2>1. Lifecycle!Pass
    BY <1>4 DEF Advance, memory, Lifecycle!Pass
  <2> QED BY <2>1 DEF Lifecycle!Step
<1>5. CASE UNCHANGED <<now, assets>>
  BY <1>5, StutterLifecycle
<1> QED BY <1>1, <1>2, <1>3, <1>4, <1>5
        DEF Next, Work, Track, Persist, vars, memory, Resolve, TrackerTick, StartDrain,
            DrainDirty, Save, Discard

\* The manager, with any number of devices, workers and shards, implements the life of an asset:
\* offline only after OfflineAfter of silence, forgotten only when offline and silent for
\* EvictAfter, and online again whenever it is heard.
THEOREM LifecycleCorrect == Spec => LifecycleSpec
<1>1. Init => HeardInThePast /\ Lifecycle!Start
  BY InitPast, InitLifecycle
<1>2. TypeOK /\ HeardInThePast /\ [Next]_vars => HeardInThePast'
  BY NextPast
<1>3. TypeOK /\ HeardInThePast /\ [Next]_vars => [Lifecycle!Step]_(Lifecycle!Vars)
  BY StepLifecycle
<1> QED BY <1>1, <1>2, <1>3, TypeCorrect, PTL DEF Spec, LifecycleSpec, Lifecycle!Spec
=============================================================================
