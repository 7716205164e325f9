----------------------------- MODULE Persister ------------------------------
(***************************************************************************)
(* internal/persist/persister.go: writing what the manager marked dirty to *)
(* SQLite in batches.  Two goroutines flush: "run" is the one of           *)
(* Persister.Run, "main" is the one that calls ShutdownFlush.  They share  *)
(* p.latest, under p.mu, and the database.                                 *)
(*                                                                         *)
(* The changes of an asset that markDirty marks and the upsert writes are  *)
(* numbered from 1, over all the records the asset has had: a record that  *)
(* was evicted is made anew, from its row or from nothing.  A snapshot is  *)
(* the changes its record knew when it was drained.  A row keeps two       *)
(* things of them, as the upsert does: what accumulates (facts, addresses, *)
(* seen interval) knows every change ever written, what is overwritten     *)
(* (status, active) shows the last snapshot written.  DrainDirty, which    *)
(* AssetManager details, takes one atomic step here, and when a record is  *)
(* offline and old enough to be evicted is left open.  Changes that the    *)
(* code does not mark (merge.go 10) or that the upsert leaves out (extras  *)
(* of a row that exists, sqlite.go 249) are not among the changes counted. *)
(* Log lines, metrics and the statistics row, whose errors Flush ignores,  *)
(* are left out.                                                           *)
(***************************************************************************)
EXTENDS Integers, SequencesExt

CONSTANTS
    Assets,
    BatchSize,
    RetryLimit,
    StorageFails,   \* whether SQLite may refuse, or time out on, a batch
    MaxVersion      \* bound: changes of each asset

ASSUME PersisterAssumption ==
    /\ IsFiniteSet(Assets)
    /\ BatchSize \in Nat \ {0}
    /\ RetryLimit \in Nat \ {0}
    /\ StorageFails \in BOOLEAN
    /\ MaxVersion \in [Assets -> Nat]

Flushers == {"run", "main"}

Versions == Nat
Changes == Nat \ {0}
Snapshot == [asset: Assets, ver: Versions, knows: SUBSET Changes]
Row == [known: SUBSET Changes, status: Versions]

VARIABLES
    changes,     \* how many changes each asset has seen (history)
    memory,      \* manager: assets that have a record
    mem,         \* manager: changes the record of each asset knows
    dirty,       \* manager: assets marked since they were last drained
    evicted,     \* changes that only an evicted record knew (history)
    latest,      \* p.latest.Assets: what did not fit the last batch
    flush,       \* each flusher's Flush call in progress
    runner,      \* Persister.Run: its loop, its final flush, or returned
    flushErrors, \* p.flushErrors
    db,          \* the rows
    dbOpen,      \* repo.Close has not been called
    cancelled    \* the context of Persister.Run is done

manager == <<changes, memory, mem, dirty, evicted>>
persisterVars == <<manager, latest, flush, runner, flushErrors, db, dbOpen, cancelled>>

NoFlush == [pc |-> "idle", batch |-> <<>>, attempt |-> 0, ctx |-> "own"]

\* The records in memory at the start are those of the load window.
PersisterInit ==
    /\ changes = [a \in Assets |-> 0]
    /\ memory \in SUBSET Assets
    /\ mem = [a \in Assets |-> {}]
    /\ dirty = {}
    /\ evicted = {}
    /\ latest = <<>>
    /\ flush = [f \in Flushers |-> NoFlush]
    /\ runner = "loop"
    /\ flushErrors = 0
    /\ db = [a \in Assets |-> [known |-> {}, status |-> 0]]
    /\ dbOpen = TRUE
    /\ cancelled = FALSE

-----------------------------------------------------------------------------
(* Flush *)

SnapshotOf(a) == [asset |-> a, ver |-> changes[a], knows |-> mem[a]]

\* The orders in which DrainDirty may return the dirty assets (maps are walked in any order).
\* The mark of an asset that has no record any more yields nothing.
Drained == SetToSeqs({SnapshotOf(a) : a \in dirty \cap memory})

\* Mutants of Queued: the newest snapshots first; the left-over ones forgotten.
QueuedNewestFirst(drained) == drained \o latest
QueuedDrained(drained) == drained

\* What was left over comes before what was drained now.
Queued(drained) == latest \o drained

\* Mutants of BatchOf, without the limit, and of OverflowOf, without the rest.
BatchOfAll(snaps) == snaps
OverflowOfNone(snaps) == <<>>

BatchOf(snaps) == SubSeq(snaps, 1, Min({BatchSize, Len(snaps)}))

OverflowOf(snaps) == SubSeq(snaps, BatchSize + 1, Len(snaps))

\* Flush up to its first SaveBatch: what exceeds BatchSize is left over for the
\* next; with nothing to write it returns. Only the periodic flush runs under the context
\* that a shutdown cancels.
Collect(f, ctx) ==
    /\ flush[f].pc = "idle"
    /\ \E drained \in Drained :
         LET snaps == Queued(drained) IN
         /\ latest' = OverflowOf(snaps)
         /\ flush' = [flush EXCEPT ![f] =
                        IF snaps = <<>> THEN NoFlush
                        ELSE [pc |-> "ready", batch |-> BatchOf(snaps),
                              attempt |-> 0, ctx |-> ctx]]
    /\ dirty' = {}
    /\ UNCHANGED <<changes, memory, mem, evicted, flushErrors, db, dbOpen>>

CtxDone(f) == flush[f].ctx = "run" /\ cancelled

CanBegin(f) == dbOpen /\ ~CtxDone(f)

Begin(f) ==
    /\ flush[f].pc = "ready"
    /\ CanBegin(f)
    /\ flush' = [flush EXCEPT ![f].pc = "tx"]
    /\ UNCHANGED <<manager, latest, runner, flushErrors, db, dbOpen, cancelled>>

\* A batch is one transaction; its snapshots are upserted in order.
SaveBatch(batch) ==
    [a \in Assets |->
       LET at == {i \in DOMAIN batch : batch[i].asset = a} IN
       IF at = {} THEN db[a]
       ELSE [known |-> db[a].known \cup UNION {batch[i].knows : i \in at},
             status |-> batch[Max(at)].ver]]

\* A transaction that was begun may commit although its context was cancelled or the pool
\* closed meanwhile: Close does not wait for connections in use, nor does it take them away.
Commit(f) ==
    /\ flush[f].pc = "tx"
    /\ db' = SaveBatch(flush[f].batch)
    /\ flush' = [flush EXCEPT ![f] = NoFlush]
    /\ UNCHANGED <<manager, latest, runner, flushErrors, dbOpen, cancelled>>

\* SaveBatch returns an error.
SaveFailed(f) ==
    \/ flush[f].pc = "ready" /\ (StorageFails \/ ~CanBegin(f))
    \/ flush[f].pc = "tx" /\ (StorageFails \/ CtxDone(f))

\* Mutant of Retry: attempts are not counted.
RetryForever(f) ==
    /\ SaveFailed(f)
    /\ ~CtxDone(f)
    /\ flush' = [flush EXCEPT ![f].pc = "ready"]
    /\ UNCHANGED <<manager, latest, runner, flushErrors, db, dbOpen, cancelled>>

Retry(f) ==
    /\ SaveFailed(f)
    /\ ~CtxDone(f)
    /\ flush[f].attempt + 1 < RetryLimit
    /\ flush' = [flush EXCEPT ![f].pc = "ready", ![f].attempt = flush[f].attempt + 1]
    /\ UNCHANGED <<manager, latest, runner, flushErrors, db, dbOpen, cancelled>>

\* The attempts are used up, the context is cancelled, or FlushTimeout has passed (which only
\* slow storage brings about). The batch is dropped: nothing marks its assets dirty again.
GiveUp(f) ==
    /\ SaveFailed(f)
    /\ CtxDone(f) \/ StorageFails \/ flush[f].attempt + 1 = RetryLimit
    /\ flush' = [flush EXCEPT ![f] = NoFlush]
    /\ flushErrors' = flushErrors + 1
    /\ UNCHANGED <<manager, latest, runner, db, dbOpen, cancelled>>

SaveStep(f) == Begin(f) \/ Commit(f) \/ Retry(f) \/ GiveUp(f)

-----------------------------------------------------------------------------
(* Run *)

\* When the ticker and ctx.Done() are both ready, select may still choose the ticker.
RunTick ==
    /\ runner = "loop"
    /\ Collect("run", "run")
    /\ UNCHANGED <<runner, cancelled>>

RunFinalFlush ==
    /\ runner = "loop"
    /\ cancelled
    /\ Collect("run", "own")
    /\ runner' = "final"
    /\ UNCHANGED cancelled

RunReturns ==
    /\ runner = "final"
    /\ flush["run"].pc = "idle"
    /\ runner' = "stopped"
    /\ UNCHANGED <<manager, latest, flush, flushErrors, db, dbOpen, cancelled>>

Run == RunTick \/ RunFinalFlush \/ RunReturns \/ SaveStep("run")

-----------------------------------------------------------------------------
(* The manager's side *)

Persisting == <<latest, flush, runner, flushErrors, db, dbOpen>>

\* Assets in memory change, and are marked.
Change(S) ==
    /\ S \subseteq memory
    /\ \A a \in S : changes[a] < MaxVersion[a]
    /\ changes' = [a \in Assets |-> IF a \in S THEN changes[a] + 1 ELSE changes[a]]
    /\ mem' = [a \in Assets |-> IF a \in S THEN mem[a] \cup {changes[a] + 1} ELSE mem[a]]
    /\ dirty' = dirty \cup S
    /\ UNCHANGED <<memory, evicted, Persisting>>

\* An asset that is not in memory is heard: its record starts from its row, or from nothing when
\* the query fails, whose error Apply ignores. A record that is made here is marked; one that
\* was hydrated is marked if the observation changes it.
Enter(a) ==
    /\ a \notin memory
    /\ memory' = memory \cup {a}
    /\ \/ /\ changes[a] < MaxVersion[a]
          /\ \E known \in {db[a].known} \cup (IF StorageFails THEN {{}} ELSE {}) :
               mem' = [mem EXCEPT ![a] = known \cup {changes[a] + 1}]
          /\ changes' = [changes EXCEPT ![a] = changes[a] + 1]
          /\ dirty' = dirty \cup {a}
       \/ /\ mem' = [mem EXCEPT ![a] = db[a].known]
          /\ UNCHANGED <<changes, dirty>>
    /\ UNCHANGED <<evicted, Persisting>>

\* Change v of asset a is written, or in a snapshot that is left over or being written.
Queues(snaps, a, v) == \E i \in DOMAIN snaps : snaps[i].asset = a /\ v \in snaps[i].knows

Persisted(a, v) ==
    \/ v \in db[a].known
    \/ Queues(latest, a, v)
    \/ \E f \in Flushers : Queues(flush[f].batch, a, v)

Unsaved(a) == {v \in mem[a] : ~Persisted(a, v)}

\* EvictStale does not look at the mark: it stays, and what only the record knew is gone.
Evict(E) ==
    /\ E \subseteq memory
    /\ memory' = memory \ E
    /\ mem' = [a \in Assets |-> IF a \in E THEN {} ELSE mem[a]]
    /\ evicted' = evicted \cup UNION {{a} \X Unsaved(a) : a \in E \cap dirty}
    /\ UNCHANGED <<changes, dirty, Persisting>>

-----------------------------------------------------------------------------
(* Properties *)

FlushState == [pc: {"idle", "ready", "tx"}, batch: Seq(Snapshot),
               attempt: 0..(RetryLimit - 1), ctx: {"run", "own"}]

\* Every variable has its type, an asset without a record knows nothing, no batch exceeds
\* BatchSize, and only Run's periodic flush runs under a context that can be cancelled.
PersisterTypeOK ==
    /\ changes \in [Assets -> Versions]
    /\ memory \subseteq Assets
    /\ mem \in [Assets -> SUBSET Changes]
    /\ \A a \in Assets \ memory : mem[a] = {}
    /\ dirty \subseteq Assets
    /\ evicted \subseteq Assets \X Changes
    /\ latest \in Seq(Snapshot)
    /\ flush \in [Flushers -> FlushState]
    /\ \A f \in Flushers : Len(flush[f].batch) <= BatchSize
    /\ flush["main"].ctx = "own"
    /\ runner \in {"loop", "final", "stopped"}
    /\ flushErrors \in Nat
    /\ db \in [Assets -> Row]
    /\ dbOpen \in BOOLEAN
    /\ cancelled \in BOOLEAN

\* As long as no flush has reported an error, every change an asset has seen is in the database,
\* in a snapshot on its way there, or known to a record that is marked to be drained - whichever
\* goroutine flushes, however batches overflow, wherever a shutdown interrupts, and however
\* often the record is evicted and made anew. The one exception is a change that was marked and
\* not drained when its record was evicted: DrainDirty clears its mark without a snapshot.
NothingForgotten ==
    flushErrors = 0 =>
        \A a \in Assets : \A v \in 1..changes[a] :
            \/ Persisted(a, v)
            \/ a \in dirty \cap memory /\ v \in mem[a]
            \/ <<a, v>> \in evicted
=============================================================================
