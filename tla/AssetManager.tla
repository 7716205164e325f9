---------------------------- MODULE AssetManager ----------------------------
(***************************************************************************)
(* internal/asset/manager.go: the in-memory inventory, sharded by MAC, as  *)
(* its callers drive it - pipeline workers (Apply), the lifecycle tracker  *)
(* (Sweep, then EvictStale), the persister (DrainDirty) and the database   *)
(* it hydrates from.                                                       *)
(*                                                                         *)
(* An asset ID is a function of its MAC (identity.go), so a MAC stands for *)
(* both, and the resolver's byKey and byID maps are one set of bound MACs. *)
(* Everything a method does between Lock and Unlock of one shard is one    *)
(* step; Resolve, which Apply calls before it locks, is a step of its own. *)
(* A goroutine that dereferences a nil asset takes the process down: no    *)
(* recover() exists in the program.                                        *)
(***************************************************************************)
EXTENDS AssetRecord, FiniteSets

CONSTANTS
    MACs,
    Workers,        \* goroutines of the pipeline's worker pool
    ShardCount,
    ShardOf,        \* shardIndex: MAC -> shard
    OfflineAfter,
    EvictAfter,
    LoadWindow,
    StartTime,      \* the time the program starts
    InitialRows,    \* rows the database may hold at that time
    Inputs,         \* what the observations applied may carry
    MaxPending,     \* bound: snapshots drained and not yet written
    Idle            \* a worker with no observation in hand

Shards == 0..(ShardCount - 1)

ASSUME ManagerAssumption ==
    /\ ShardCount \in Nat \ {0}
    /\ ShardOf \in [MACs -> Shards]
    /\ OfflineAfter \in Nat /\ EvictAfter \in Nat /\ LoadWindow \in Nat
    /\ StartTime \in Times
    /\ InitialRows \subseteq Asset
    /\ \A row \in InitialRows : row.first <= row.last /\ row.last <= StartTime
    /\ Inputs \subseteq ObservationData
    /\ MaxPending \in Nat

Observation == [mac: MACs, data: Inputs]

ASSUME IdleAssumption == Idle \notin [obs: Observation, exists: BOOLEAN]

Snapshot == [mac: MACs, asset: Asset]

VARIABLES
    now,        \* the clock
    assets,     \* shard.assets, all shards together
    dirty,      \* shard.dirty, all shards together
    bound,      \* ShardedResolver
    worker,     \* what each worker has resolved and not yet applied
    tracker,    \* the lifecycle tracker's tick: its phase, its time, its next shard
    drain,      \* DrainDirty in progress: next shard and the slice built so far
    pending,    \* snapshots returned by DrainDirty that are not in the database yet
    stored,     \* the database rows
    panicked,   \* a goroutine dereferenced a nil *Asset
    handed      \* history: what each MAC's drained snapshots and loaded rows told

memory == <<assets, dirty, bound>>
vars == <<now, assets, dirty, bound, worker, tracker, drain, pending, stored, panicked, handed>>

Live == {m \in MACs : assets[m] # NoAsset}
InShard(s) == {m \in MACs : ShardOf[m] = s}

-----------------------------------------------------------------------------
(* Startup: LoadAssets within the window, LoadSnapshots, one Sweep. *)

LoadSnapshots(rows) ==
    [m \in MACs |-> IF rows[m] # NoAsset /\ rows[m].last >= StartTime - LoadWindow
                    THEN rows[m] ELSE NoAsset]

Init ==
    /\ now = StartTime
    /\ stored \in [MACs -> InitialRows \cup {NoAsset}]
    /\ LET loaded == LoadSnapshots(stored) IN
       /\ bound = {m \in MACs : loaded[m] # NoAsset}
       /\ assets = [m \in MACs |-> IF m \in bound
                                   THEN SweepAsset(loaded[m], now, OfflineAfter)
                                   ELSE NoAsset]
       /\ dirty = {m \in bound : assets[m] # loaded[m]}
    /\ handed = [m \in MACs |-> IF stored[m] # NoAsset THEN Learn(Nothing, stored[m])
                                                       ELSE Nothing]
    /\ worker = [w \in Workers |-> Idle]
    /\ tracker = [phase |-> "idle", at |-> StartTime, shard |-> 0]
    /\ drain = [shard |-> ShardCount, out |-> {}]
    /\ pending = {}
    /\ panicked = FALSE

-----------------------------------------------------------------------------
(* Apply *)

\* Packets are applied in any order and any time after they were captured.
Resolve(w, o) ==
    /\ worker[w] = Idle
    /\ o.data.at <= now
    /\ worker' = [worker EXCEPT ![w] = [obs |-> o, exists |-> o.mac \in bound]]
    /\ UNCHANGED <<now, memory, tracker, drain, pending, stored, panicked, handed>>

\* The observation is merged into the record in memory, else into the row the hydrator finds,
\* else into a new record; an error of the hydrator counts as no row.
Update(m, base, o) ==
    /\ assets' = [assets EXCEPT ![m] = [mergeObservation(base, o) EXCEPT !.status = "online"]]
    /\ bound' = bound \cup {m}
    /\ dirty' = IF MergeChanged(base, o) \/ base.status = "offline"
                THEN dirty \cup {m} ELSE dirty

Create(m, o) ==
    /\ assets' = [assets EXCEPT ![m] = newAsset(o)]
    /\ bound' = bound \cup {m}
    /\ dirty' = dirty \cup {m}

Done(w) ==
    /\ worker' = [worker EXCEPT ![w] = Idle]
    /\ UNCHANGED <<now, tracker, drain, pending, stored, handed>>

ApplyExisting(w) ==
    /\ worker[w] # Idle
    /\ worker[w].exists
    /\ LET m == worker[w].obs.mac IN
       /\ assets[m] # NoAsset
       /\ Update(m, assets[m], worker[w].obs.data)
    /\ UNCHANGED panicked
    /\ Done(w)

ApplyEvicted(w) ==
    /\ worker[w] # Idle
    /\ worker[w].exists
    /\ assets[worker[w].obs.mac] = NoAsset
    /\ panicked' = TRUE
    /\ UNCHANGED memory
    /\ Done(w)

ApplyHydrated(w) ==
    /\ worker[w] # Idle
    /\ ~worker[w].exists
    /\ LET m == worker[w].obs.mac IN
       /\ stored[m] # NoAsset
       /\ Update(m, stored[m], worker[w].obs.data)
    /\ UNCHANGED panicked
    /\ Done(w)

ApplyNew(w) ==
    /\ worker[w] # Idle
    /\ ~worker[w].exists
    /\ Create(worker[w].obs.mac, worker[w].obs.data)
    /\ UNCHANGED panicked
    /\ Done(w)

Apply(w) == ApplyExisting(w) \/ ApplyEvicted(w) \/ ApplyHydrated(w) \/ ApplyNew(w)

-----------------------------------------------------------------------------
(* The tracker: on each tick a Sweep of every shard, then an EvictStale of every shard. *)

TrackerTick ==
    /\ tracker.phase = "idle"
    /\ tracker' = [phase |-> "sweep", at |-> now, shard |-> 0]
    /\ UNCHANGED <<now, memory, worker, drain, pending, stored, panicked, handed>>

NextShard(after) ==
    tracker' = IF tracker.shard + 1 < ShardCount
               THEN [tracker EXCEPT !.shard = tracker.shard + 1]
               ELSE [tracker EXCEPT !.phase = after, !.shard = 0]

Sweep ==
    /\ tracker.phase = "sweep"
    /\ assets' = [m \in MACs |->
                    IF m \in Live /\ ShardOf[m] = tracker.shard
                    THEN SweepAsset(assets[m], tracker.at, OfflineAfter)
                    ELSE assets[m]]
    /\ dirty' = dirty \cup {m \in MACs : assets'[m] # assets[m]}
    /\ NextShard("evict")
    /\ UNCHANGED <<now, bound, worker, drain, pending, stored, panicked, handed>>

\* Mutant of Stale: silence alone evicts.
StaleBySilence(m) == assets[m] # NoAsset /\ Silent(assets[m], tracker.at, EvictAfter)

Stale(m) == /\ assets[m] # NoAsset
            /\ assets[m].status = "offline"
            /\ Silent(assets[m], tracker.at, EvictAfter)

\* Mutant of EvictStale: the resolver is not told.
EvictWithoutUnbind ==
    /\ tracker.phase = "evict"
    /\ assets' = [m \in MACs |-> IF ShardOf[m] = tracker.shard /\ Stale(m)
                                 THEN NoAsset ELSE assets[m]]
    /\ NextShard("idle")
    /\ UNCHANGED <<now, dirty, bound, worker, drain, pending, stored, panicked, handed>>

\* The dirty mark of an evicted asset is neither consulted nor cleared.
EvictStale ==
    /\ tracker.phase = "evict"
    /\ LET gone == {m \in InShard(tracker.shard) : Stale(m)} IN
       /\ assets' = [m \in MACs |-> IF m \in gone THEN NoAsset ELSE assets[m]]
       /\ bound' = bound \ gone
    /\ NextShard("idle")
    /\ UNCHANGED <<now, dirty, worker, drain, pending, stored, panicked, handed>>

-----------------------------------------------------------------------------
(* The persister, as the manager sees it *)

StartDrain ==
    /\ drain.shard = ShardCount
    /\ Cardinality(pending) <= MaxPending - Cardinality(MACs)
    /\ drain' = [shard |-> 0, out |-> {}]
    /\ UNCHANGED <<now, memory, worker, tracker, pending, stored, panicked, handed>>

\* One shard of DrainDirty; a dirty ID that is no longer in memory is skipped.
DrainDirty ==
    /\ drain.shard < ShardCount
    /\ LET taken == dirty \cap Live \cap InShard(drain.shard)
           out == drain.out \cup {[mac |-> m, asset |-> assets[m]] : m \in taken}
           last == drain.shard + 1 = ShardCount
       IN /\ drain' = [shard |-> drain.shard + 1, out |-> IF last THEN {} ELSE out]
          /\ pending' = IF last THEN pending \cup out ELSE pending
          /\ handed' = [m \in MACs |-> IF m \in taken THEN Learn(handed[m], assets[m])
                                                      ELSE handed[m]]
    /\ dirty' = dirty \ InShard(drain.shard)
    /\ UNCHANGED <<now, assets, bound, worker, tracker, stored, panicked>>

\* SaveBatch commits a snapshot. Two flushers may commit in any order.
Save(p) ==
    /\ pending' = pending \ {p}
    /\ stored' = [stored EXCEPT ![p.mac] = Upsert(@, p.asset)]
    /\ UNCHANGED <<now, memory, worker, tracker, drain, panicked, handed>>

\* Flush gives up on a batch once the retries are used up.
Discard(p) ==
    /\ pending' = pending \ {p}
    /\ UNCHANGED <<now, memory, worker, tracker, drain, stored, panicked, handed>>

Advance ==
    /\ now < MaxTime
    /\ now' = now + 1
    /\ UNCHANGED <<memory, worker, tracker, drain, pending, stored, panicked, handed>>

-----------------------------------------------------------------------------

Work == \E w \in Workers : Apply(w) \/ \E o \in Observation : Resolve(w, o)

Track == TrackerTick \/ Sweep \/ EvictStale

Persist == StartDrain \/ DrainDirty \/ \E p \in pending : Save(p) \/ Discard(p)

Next == ~panicked /\ (Work \/ Track \/ Persist \/ Advance)

Spec == Init /\ [][Next]_vars

\* The ticker of the tracker and the goroutine scheduler keep serving the tracker, the workers
\* finish what they resolved, and the persister keeps flushing.
Fairness ==
    /\ WF_vars(~panicked /\ Track)
    /\ \A w \in Workers : WF_vars(~panicked /\ Apply(w))
    /\ WF_vars(~panicked /\ (StartDrain \/ DrainDirty))
    /\ WF_vars(~panicked /\ \E p \in pending : Save(p))
    /\ WF_vars(~panicked /\ Advance)

FairSpec == Spec /\ Fairness

-----------------------------------------------------------------------------
(* Properties *)

TrackerState == [phase: {"idle", "sweep", "evict"}, at: Times, shard: Shards]
DrainState == [shard: 0..ShardCount, out: SUBSET Snapshot]

\* Every variable has its type; the tracker's time has passed.
TypeOK ==
    /\ now \in Times
    /\ assets \in [MACs -> Asset \cup {NoAsset}]
    /\ dirty \subseteq MACs
    /\ bound \subseteq MACs
    /\ worker \in [Workers -> [obs: Observation, exists: BOOLEAN] \cup {Idle}]
    /\ tracker \in TrackerState /\ tracker.at <= now
    /\ drain \in DrainState
    /\ pending \subseteq Snapshot
    /\ stored \in [MACs -> Asset \cup {NoAsset}]
    /\ panicked \in BOOLEAN
    /\ handed \in [MACs -> Knowledge]

\* The resolver knows a MAC exactly when its shard holds the asset: eviction, hydration and
\* creation keep the two maps together, although they are guarded by different locks.
ResolverMatchesMemory == bound = Live

\* Dirty tracking is complete: all that an unmarked asset in memory tells (facts outside
\* extra_json, first and last seen) is in snapshots the persister was handed or rows it was
\* loaded from. Whatever Apply, Sweep, eviction and hydration interleave, nothing learned
\* about a device waits in memory without a mark that makes the next flush take it.
CleanMeansHandedOver == \A m \in Live \ dirty : Covers(handed[m], assets[m])

\* The database and the snapshots on their way to it hold nothing the manager did not hand over.
StoredWasHandedOver ==
    /\ \A m \in MACs : stored[m] # NoAsset => Covers(handed[m], stored[m])
    /\ \A p \in pending \cup drain.out : Covers(handed[p.mac], p.asset)

\* What stays known of an asset, and when an address may go inactive.
Retains(a, b) ==
    /\ a.facts \subseteq b.facts
    /\ b.first <= a.first
    /\ a.last <= b.last
    /\ \A ip \in IPs : a.ips[ip] # NoIP =>
         /\ b.ips[ip] # NoIP
         /\ a.ips[ip].last <= b.ips[ip].last
         /\ a.ips[ip].lease <= b.ips[ip].lease
         /\ a.ips[ip].active /\ ~b.ips[ip].active =>
               /\ b.ips[ip].lease > 0
               /\ now - b.ips[ip].last > b.ips[ip].lease + IpGrace

\* While an asset stays in memory, what is known of it only grows: no step drops a fact or an
\* address, moves the last sighting back or the first one forward, or retires an address whose
\* lease and grace still run.
KnowledgeNeverShrinks ==
    [][\A m \in MACs : assets[m] # NoAsset /\ assets'[m] # NoAsset
                           => Retains(assets[m], assets'[m])]_vars

\* The worker applies an observation whose MAC it found unknown.
AppliesUnknown(w, m) ==
    /\ worker[w] # Idle /\ worker'[w] = Idle
    /\ worker[w].obs.mac = m /\ ~worker[w].exists

\* What is known of an asset in memory shrinks in one case only: a worker that resolved the MAC
\* while it was unknown applies its observation after the asset came into memory. Merging,
\* sweeping, hydrating and committing never take knowledge away, in whatever order.
OnlyRacesForget ==
    [][\A m \in MACs :
         \/ assets[m] = NoAsset \/ assets'[m] = NoAsset
         \/ Retains(assets[m], assets'[m])
         \/ \E w \in Workers : AppliesUnknown(w, m)]_vars

\* "Only the in-memory state is cleared; the DB record persists" (EvictStale): an asset that
\* leaves memory is in the database or on its way there.
EvictedRecordPersists ==
    [][\A m \in MACs :
         assets[m] # NoAsset /\ assets'[m] = NoAsset =>
            \/ stored[m] # NoAsset
            \/ \E p \in pending \cup drain.out : p.mac = m]_vars

\* A device that stays silent does not stay online: at any time, sooner or later it is seen
\* offline, or gone from memory, or heard within OfflineAfter (or the process has crashed).
SilentLeavesOnline ==
    \A m \in MACs :
        []<>(\/ panicked
             \/ assets[m] = NoAsset
             \/ assets[m].status = "offline"
             \/ ~Silent(assets[m], now, OfflineAfter))

-----------------------------------------------------------------------------
(* The life of an asset as AssetLifecycle promises it *)

Lifecycle == INSTANCE AssetLifecycle WITH
    life <- [m \in MACs |-> IF assets[m] = NoAsset THEN "unknown" ELSE assets[m].status],
    heard <- [m \in MACs |-> IF assets[m] = NoAsset THEN 0 ELSE assets[m].last]

LifecycleSpec == Lifecycle!Spec
=============================================================================
