--------------------------- MODULE ShutdownProofs ----------------------------
(***************************************************************************)
(* Persister and Shutdown for any number of assets, batch size and number  *)
(* of retries: types, and that nothing is forgotten.                       *)
(***************************************************************************)
EXTENDS Shutdown, Induction

-----------------------------------------------------------------------------
(* Numbers and lists *)

Holds(s, x) == \E i \in DOMAIN s : s[i] = x

\* SetToSeqs lists the elements of a finite set, and nothing else.
LEMMA Listed ==
    ASSUME NEW S, IsFiniteSet(S), NEW s \in SetToSeqs(S)
    PROVE  s \in Seq(S) /\ \A x \in S : Holds(s, x)
<1>1. s \in [1..Cardinality(S) -> S] /\ \A i, j \in 1..Cardinality(S) : i # j => s[i] # s[j]
  BY DEF SetToSeqs
<1>2. s \in Seq(S) /\ Range(s) = S
  BY <1>1, ListingIsOnto
<1> QED BY <1>2 DEF Range, Holds

\* A concatenation holds what one of its parts holds.
LEMMA HoldsConcat ==
    ASSUME NEW S, NEW s \in Seq(S), NEW t \in Seq(S), NEW x
    PROVE  s \o t \in Seq(S) /\ (Holds(s \o t, x) <=> Holds(s, x) \/ Holds(t, x))
<1>1. /\ s \o t \in Seq(S) /\ Len(s \o t) = Len(s) + Len(t)
      /\ \A i \in 1..(Len(s) + Len(t)) : (s \o t)[i] = IF i <= Len(s) THEN s[i] ELSE t[i - Len(s)]
  BY ConcatProperties
<1>2. /\ DOMAIN s = 1..Len(s) /\ DOMAIN t = 1..Len(t) /\ DOMAIN (s \o t) = 1..Len(s \o t)
      /\ Len(s) \in Nat /\ Len(t) \in Nat
  BY <1>1, LenProperties
<1> DEFINE u == s \o t
<1>3. /\ DOMAIN u = 1..(Len(s) + Len(t))
      /\ \A i \in DOMAIN u : u[i] = IF i <= Len(s) THEN s[i] ELSE t[i - Len(s)]
  BY <1>1, <1>2
<1> HIDE DEF u
<1>4. ASSUME Holds(s, x) PROVE Holds(u, x)
  BY <1>2, <1>3, <1>4 DEF Holds
<1>5. ASSUME Holds(t, x) PROVE Holds(u, x)
  <2>1. PICK i \in DOMAIN t : t[i] = x
    BY <1>5 DEF Holds
  <2>2. Len(s) + i \in DOMAIN u /\ ~(Len(s) + i <= Len(s)) /\ (Len(s) + i) - Len(s) = i
    BY <1>2, <1>3
  <2> QED BY <1>3, <2>1, <2>2 DEF Holds
<1>6. ASSUME Holds(u, x) PROVE Holds(s, x) \/ Holds(t, x)
  <2>1. PICK i \in DOMAIN u : u[i] = x
    BY <1>6 DEF Holds
  <2>2. CASE i <= Len(s)
    BY <1>2, <1>3, <2>1, <2>2 DEF Holds
  <2>3. CASE ~(i <= Len(s))
    <3>1. i - Len(s) \in DOMAIN t
      BY <1>2, <1>3, <2>3
    <3> QED BY <1>3, <2>1, <2>3, <3>1 DEF Holds
  <2> QED BY <2>2, <2>3
<1> QED BY <1>1, <1>4, <1>5, <1>6 DEF u

\* s of length k is cut in two: b has its first n elements, o those that follow the first m.
Cut(s, k, b, n, o, m) ==
    /\ k \in Nat /\ m \in Nat /\ n \in Nat
    /\ n <= k /\ n <= m
    /\ n < k => n = m
    /\ DOMAIN s = 1..k /\ DOMAIN b = 1..n /\ DOMAIN o = 1..(k - m)
    /\ \A i \in 1..n : b[i] = s[i]
    /\ \A i \in 1..(k - m) : o[i] = s[m + i]

\* The two parts hold what the list held.
LEMMA CutHolds ==
    ASSUME NEW s, NEW k, NEW b, NEW n, NEW o, NEW m, Cut(s, k, b, n, o, m), NEW x
    PROVE  Holds(s, x) <=> Holds(b, x) \/ Holds(o, x)
<1> USE DEF Cut
<1>1. ASSUME Holds(s, x) PROVE Holds(b, x) \/ Holds(o, x)
  <2>1. PICK i \in 1..k : s[i] = x
    BY <1>1 DEF Holds
  <2>2. CASE i <= n
    <3>1. i \in DOMAIN b /\ b[i] = x
      BY <2>1, <2>2
    <3> QED BY <3>1 DEF Holds
  <2>3. CASE ~(i <= n)
    <3>1. n = m
      BY <2>3
    <3>2. i - m \in 1..(k - m) /\ m + (i - m) = i
      BY <2>3, <3>1
    <3>3. i - m \in DOMAIN o /\ o[i - m] = x
      BY <2>1, <3>2
    <3> QED BY <3>3 DEF Holds
  <2> QED BY <2>2, <2>3
<1>2. ASSUME Holds(b, x) PROVE Holds(s, x)
  <2>1. PICK i \in 1..n : b[i] = x
    BY <1>2 DEF Holds
  <2>2. i \in DOMAIN s /\ s[i] = x
    BY <2>1
  <2> QED BY <2>2 DEF Holds
<1>3. ASSUME Holds(o, x) PROVE Holds(s, x)
  <2>1. PICK i \in 1..(k - m) : o[i] = x
    BY <1>3 DEF Holds
  <2>2. m + i \in DOMAIN s /\ s[m + i] = x
    BY <2>1
  <2> QED BY <2>2 DEF Holds
<1> QED BY <1>1, <1>2, <1>3

\* SubSeq as its elements.
LEMMA CutTyped ==
    ASSUME NEW S, NEW k \in Nat, NEW s, \A i \in 1..k : s[i] \in S, NEW m \in Nat, NEW n \in 0..k
    PROVE  /\ SubSeq(s, m + 1, n) \in Seq(S)
           /\ DOMAIN SubSeq(s, m + 1, n) = 1..(n - m)
           /\ \A i \in 1..(n - m) : SubSeq(s, m + 1, n)[i] = s[m + i]
           /\ Len(SubSeq(s, m + 1, n)) <= n
<1>1. \A i \in (m + 1)..n : s[i] \in S
  OBVIOUS
<1>2. m + 1 \in Int /\ n \in Int
  OBVIOUS
<1>3. /\ SubSeq(s, m + 1, n) \in Seq(S)
      /\ Len(SubSeq(s, m + 1, n)) = IF m + 1 <= n THEN n - (m + 1) + 1 ELSE 0
      /\ \A i \in 1..(n - (m + 1) + 1) : SubSeq(s, m + 1, n)[i] = s[m + 1 + i - 1]
  BY <1>1, <1>2, SubSeqProperties
<1> DEFINE u == SubSeq(s, m + 1, n)
<1>4. DOMAIN u = 1..Len(u)
  BY <1>3, LenProperties
<1>5. /\ Len(u) = IF m + 1 <= n THEN n - m ELSE 0
      /\ \A i \in 1..(n - m) : u[i] = s[m + i]
  BY <1>3
<1> HIDE DEF u
<1>6. 1..Len(u) = 1..(n - m)
  BY <1>5
<1>7. Len(u) <= n
  BY <1>5
<1> QED BY <1>3, <1>4, <1>5, <1>6, <1>7 DEF u

\* A batch and its overflow hold what was queued, in its order, no batch more than BatchSize.
LEMMA BatchAndOverflow ==
    ASSUME NEW s \in Seq(Snapshot)
    PROVE  /\ BatchOf(s) \in Seq(Snapshot) /\ Len(BatchOf(s)) <= BatchSize
           /\ OverflowOf(s) \in Seq(Snapshot)
           /\ \A x : Holds(s, x) <=> Holds(BatchOf(s), x) \/ Holds(OverflowOf(s), x)
           /\ \E k, n : Cut(s, k, BatchOf(s), n, OverflowOf(s), BatchSize)
<1>1. BatchSize \in Nat
  BY PersisterAssumption
<1>2. PICK k \in Nat : /\ k = Len(s) /\ DOMAIN s = 1..k
                       /\ \A i \in 1..k : s[i] \in Snapshot
  BY LenProperties, ElementOfSeq
<1>3. PICK n \in 0..k : n = Min({BatchSize, Len(s)}) /\ n <= BatchSize /\ (n < k => n = BatchSize)
  BY <1>1, <1>2, MinOfTwo
<1>4. n \in Nat /\ n <= k /\ k \in 0..k /\ 0 \in Nat /\ 0 + 1 = 1 /\ n - 0 = n
      /\ \A i \in 1..n : 0 + i = i
  BY <1>3
<1>5. /\ BatchOf(s) \in Seq(Snapshot) /\ DOMAIN BatchOf(s) = 1..n
      /\ \A i \in 1..n : BatchOf(s)[i] = s[i]
      /\ Len(BatchOf(s)) <= n
  <2>1. BatchOf(s) = SubSeq(s, 0 + 1, n)
    BY <1>3 DEF BatchOf
  <2>2. /\ SubSeq(s, 0 + 1, n) \in Seq(Snapshot)
        /\ DOMAIN SubSeq(s, 0 + 1, n) = 1..(n - 0)
        /\ \A i \in 1..(n - 0) : SubSeq(s, 0 + 1, n)[i] = s[0 + i]
        /\ Len(SubSeq(s, 0 + 1, n)) <= n
    BY <1>2, <1>4, CutTyped
  <2> QED BY <1>4, <2>1, <2>2
<1>6. /\ OverflowOf(s) \in Seq(Snapshot) /\ DOMAIN OverflowOf(s) = 1..(k - BatchSize)
      /\ \A i \in 1..(k - BatchSize) : OverflowOf(s)[i] = s[BatchSize + i]
  <2>1. OverflowOf(s) = SubSeq(s, BatchSize + 1, k)
    BY <1>2 DEF OverflowOf
  <2> QED BY <1>1, <1>2, <1>4, <2>1, CutTyped
<1>7. /\ \A x : Holds(s, x) <=> Holds(BatchOf(s), x) \/ Holds(OverflowOf(s), x)
      /\ Cut(s, k, BatchOf(s), n, OverflowOf(s), BatchSize)
  <2>1. Cut(s, k, BatchOf(s), n, OverflowOf(s), BatchSize)
    <3>1. k \in Nat /\ BatchSize \in Nat /\ n \in Nat /\ n <= k /\ n <= BatchSize
      BY <1>1, <1>3
    <3>2. n < k => n = BatchSize
      BY <1>3
    <3>3. DOMAIN s = 1..k
      BY <1>2
    <3> QED BY <1>5, <1>6, <3>1, <3>2, <3>3 DEF Cut
  <2> QED BY <2>1, CutHolds
<1>8. Len(BatchOf(s)) <= BatchSize
  <2>1. Len(BatchOf(s)) \in Nat
    BY <1>5, LenProperties
  <2> QED BY <1>1, <1>3, <1>4, <1>5, <2>1
<1> QED BY <1>5, <1>6, <1>7, <1>8

-----------------------------------------------------------------------------
(* The persister *)

\* A change is queued in a list of snapshots if one of them, of its asset, knows it.
LEMMA QueuesIs ==
    ASSUME NEW s, NEW a, NEW v
    PROVE  Queues(s, a, v) <=> \E x : Holds(s, x) /\ x.asset = a /\ v \in x.knows
BY DEF Queues, Holds

\* What holds all the snapshots of a list queues all the changes that it queues.
LEMMA QueuesKept ==
    ASSUME NEW s, NEW t, NEW u, \A x : Holds(s, x) => Holds(t, x) \/ Holds(u, x), NEW a, NEW v,
           Queues(s, a, v)
    PROVE  Queues(t, a, v) \/ Queues(u, a, v)
BY QueuesIs

\* A list of snapshots is not ahead of its assets.
Past(c, s) == \A x \in Snapshot : Holds(s, x) => x.ver <= c[x.asset]

ManagerTypeOK ==
    /\ changes \in [Assets -> Versions]
    /\ memory \subseteq Assets
    /\ mem \in [Assets -> SUBSET Changes]
    /\ \A a \in Assets \ memory : mem[a] = {}
    /\ dirty \subseteq Assets
    /\ evicted \subseteq Assets \X Changes

\* The part of the invariant that is about the flushes in progress.
FlushInv ==
    /\ flush \in [Flushers -> FlushState]
    /\ \A f \in Flushers : Len(flush[f].batch) <= BatchSize
    /\ flush["main"].ctx = "own"
    /\ \A f \in Flushers : Past(changes, flush[f].batch)
    /\ \A f \in Flushers : flush[f].pc = "idle" => flush[f] = NoFlush

\* Where change v of asset a is.
Accounted(a, v) ==
    \/ Persisted(a, v)
    \/ a \in dirty \cap memory /\ v \in mem[a]
    \/ <<a, v>> \in evicted

\* Why nothing is forgotten: a flush that is idle holds nothing, so that one which begins, or is
\* over, drops no batch. That no snapshot is ahead of its asset is for the order of rows.
PersisterInv ==
    /\ ManagerTypeOK
    /\ FlushInv
    /\ latest \in Seq(Snapshot) /\ Past(changes, latest)
    /\ runner \in {"loop", "final", "stopped"}
    /\ flushErrors \in Nat
    /\ db \in [Assets -> Row]
    /\ dbOpen \in BOOLEAN /\ cancelled \in BOOLEAN
    /\ flushErrors = 0 => \A a \in Assets : \A v \in 1..changes[a] : Accounted(a, v)

\* The invariant has the types and the property.
LEMMA PersisterInvGives == PersisterInv => PersisterTypeOK /\ NothingForgotten
BY DEF PersisterInv, ManagerTypeOK, FlushInv, PersisterTypeOK, NothingForgotten, Accounted

\* The changes of an asset are numbered from 1.
LEMMA ChangesNumbered == PersisterInv => \A a \in Assets : 1..changes[a] \subseteq Changes
<1> SUFFICES ASSUME PersisterInv, NEW a \in Assets, NEW v \in 1..changes[a] PROVE v \in Changes
  OBVIOUS
<1>1. changes[a] \in Nat
  BY DEF PersisterInv, ManagerTypeOK, Versions
<1> QED BY <1>1 DEF Changes

\* The empty list holds nothing, so nothing too new.
LEMMA EmptyHolds == /\ <<>> \in Seq(Snapshot) /\ Len(<<>>) = 0
                    /\ \A x : ~Holds(<<>>, x)
                    /\ \A a, v : ~Queues(<<>>, a, v)
                    /\ \A c : Past(c, <<>>)
BY DEF Holds, Past, Queues

\* The state of an idle flush has its type, and no batch.
LEMMA NoFlushType == NoFlush \in FlushState /\ NoFlush.batch = <<>> /\ NoFlush.ctx = "own"
BY PersisterAssumption, EmptyHolds DEF NoFlush, FlushState

\* An idle flush is within the bounds of any flush.
LEMMA NoFlushFits == /\ NoFlush \in FlushState /\ NoFlush.ctx = "own"
                     /\ Len(NoFlush.batch) <= BatchSize /\ \A c : Past(c, NoFlush.batch)
<1>1. BatchSize \in Nat /\ 0 <= BatchSize
  BY PersisterAssumption
<1> QED BY <1>1, NoFlushType, EmptyHolds

\* At the start no asset has changed, and nobody flushes.
LEMMA PersisterInitInv == PersisterInit => PersisterInv
<1> SUFFICES ASSUME PersisterInit PROVE PersisterInv
  OBVIOUS
<1>1. 0 \in Versions
  BY PersisterAssumption DEF Versions
<1>2. ManagerTypeOK
  BY <1>1 DEF PersisterInit, ManagerTypeOK
<1>3. FlushInv
  BY NoFlushFits DEF PersisterInit, Flushers, FlushInv
<1>4. db \in [Assets -> Row]
  BY <1>1 DEF PersisterInit, Row
<1>5. \A a \in Assets : 1..changes[a] = {}
  BY DEF PersisterInit
<1> QED BY <1>2, <1>3, <1>4, <1>5, EmptyHolds DEF PersisterInit, PersisterInv

\* The snapshots DrainDirty takes.
Taken == {SnapshotOf(a) : a \in dirty \cap memory}

\* There are finitely many, each not ahead of its asset.
LEMMA TakenType ==
    ASSUME PersisterInv
    PROVE  /\ IsFiniteSet(Taken) /\ Taken \subseteq Snapshot
           /\ \A x \in Taken : x.asset \in Assets /\ x.ver = changes[x.asset] /\ x.ver \in Nat
<1> DEFINE D == dirty \cap memory
           g == [a \in D |-> SnapshotOf(a)]
<1>1. /\ changes \in [Assets -> Versions] /\ mem \in [Assets -> SUBSET Changes]
      /\ D \subseteq Assets
  BY DEF PersisterInv, ManagerTypeOK
<1>2. IsFiniteSet(D)
  BY <1>1, PersisterAssumption, FS_Subset
<1>3. g \in Surjection(D, Taken)
  BY DEF Surjection, Taken
<1> HIDE DEF g
<1>4. IsFiniteSet(Taken)
  BY <1>2, <1>3, FS_Surjection
<1>5. ASSUME NEW x \in Taken
      PROVE  x \in Snapshot /\ x.asset \in Assets /\ x.ver = changes[x.asset] /\ x.ver \in Nat
  <2>1. PICK a \in D : x = SnapshotOf(a)
    BY DEF Taken
  <2>2. a \in Assets /\ changes[a] \in Versions /\ mem[a] \in SUBSET Changes
    BY <1>1
  <2> HIDE DEF D
  <2> QED BY <2>1, <2>2 DEF SnapshotOf, Snapshot, Versions
<1> QED BY <1>4, <1>5

\* A list of what was drained has these snapshots and no other.
LEMMA DrainedIs ==
    ASSUME PersisterInv, NEW drained \in Drained
    PROVE  /\ drained \in Seq(Snapshot)
           /\ \A x \in Taken : Holds(drained, x)
           /\ \A i \in DOMAIN drained : drained[i] \in Taken
<1>1. drained \in SetToSeqs(Taken)
  BY DEF Drained, Taken
<1>2. drained \in Seq(Taken) /\ \A x \in Taken : Holds(drained, x)
  BY <1>1, TakenType, Listed
<1> QED BY <1>2, TakenType, SeqMonotonic, ElementOfSeq, LenProperties

\* What Collect queues is what was left over, and the snapshot of every dirty asset in memory.
LEMMA QueuedHolds ==
    ASSUME PersisterInv, NEW drained \in Drained
    PROVE  /\ Queued(drained) \in Seq(Snapshot)
           /\ \A x : Holds(latest, x) => Holds(Queued(drained), x)
           /\ \A a \in dirty \cap memory : Holds(Queued(drained), SnapshotOf(a))
           /\ Past(changes, Queued(drained))
<1>1. latest \in Seq(Snapshot) /\ Past(changes, latest)
  BY DEF PersisterInv
<1>2. /\ drained \in Seq(Snapshot) /\ \A x \in Taken : Holds(drained, x)
      /\ \A i \in DOMAIN drained : drained[i] \in Taken
  BY DrainedIs
<1>3. /\ Queued(drained) \in Seq(Snapshot)
      /\ \A x : Holds(Queued(drained), x) <=> Holds(latest, x) \/ Holds(drained, x)
  BY <1>1, <1>2, HoldsConcat DEF Queued
<1>4. \A a \in dirty \cap memory : Holds(Queued(drained), SnapshotOf(a))
  BY <1>2, <1>3 DEF Taken
<1>5. ASSUME NEW x \in Snapshot, Holds(drained, x) PROVE x.ver <= changes[x.asset]
  <2>1. x \in Taken
    BY <1>2, <1>5 DEF Holds
  <2> QED BY <2>1, TakenType
<1> QED BY <1>1, <1>3, <1>4, <1>5 DEF Past

\* One flusher that goes to a state within bounds leaves the other one alone.
LEMMA FlushGoesOn ==
    ASSUME PersisterInv, NEW f \in Flushers, NEW F \in FlushState, Len(F.batch) <= BatchSize,
           f = "main" => F.ctx = "own", F.pc = "idle" => F = NoFlush, Past(changes, F.batch),
           flush' = [flush EXCEPT ![f] = F], changes' = changes
    PROVE  FlushInv' /\ flush'[f] = F /\ \A g \in Flushers \ {f} : flush'[g] = flush[g]
<1>1. FlushInv
  BY DEF PersisterInv
<1>2. flush'[f] = F /\ \A g \in Flushers \ {f} : flush'[g] = flush[g]
  BY <1>1 DEF FlushInv
<1>3. flush' \in [Flushers -> FlushState]
  BY <1>1 DEF FlushInv
<1> QED BY <1>1, <1>2, <1>3 DEF FlushInv, Flushers

Running == runner \in {"loop", "final", "stopped"} /\ cancelled \in BOOLEAN

\* Collect keeps every snapshot there is, in the batch or in the overflow, and adds those of the
\* records whose marks it clears.
LEMMA CollectInv ==
    ASSUME PersisterInv, NEW f \in Flushers, NEW ctx \in {"run", "own"}, f = "main" => ctx = "own",
           Collect(f, ctx), Running'
    PROVE  PersisterInv'
<1>1. PICK drained \in Drained :
        /\ latest' = OverflowOf(Queued(drained))
        /\ flush' = [flush EXCEPT ![f] =
                       IF Queued(drained) = <<>> THEN NoFlush
                       ELSE [pc |-> "ready", batch |-> BatchOf(Queued(drained)), attempt |-> 0,
                             ctx |-> ctx]]
  BY DEF Collect
<1> DEFINE snaps == Queued(drained)
           F == IF snaps = <<>> THEN NoFlush
                ELSE [pc |-> "ready", batch |-> BatchOf(snaps), attempt |-> 0, ctx |-> ctx]
<1>2. /\ snaps \in Seq(Snapshot) /\ Past(changes, snaps)
      /\ \A x : Holds(latest, x) => Holds(snaps, x)
      /\ \A a \in dirty \cap memory : Holds(snaps, SnapshotOf(a))
  BY QueuedHolds
<1>3. /\ BatchOf(snaps) \in Seq(Snapshot) /\ Len(BatchOf(snaps)) <= BatchSize
      /\ latest' \in Seq(Snapshot)
      /\ \A x : Holds(snaps, x) <=> Holds(BatchOf(snaps), x) \/ Holds(latest', x)
  BY <1>1, <1>2, BatchAndOverflow
<1>4. flush' = [flush EXCEPT ![f] = F]
  BY <1>1
<1> HIDE DEF snaps
<1>5. /\ F \in FlushState /\ Len(F.batch) <= BatchSize /\ (f = "main" => F.ctx = "own")
      /\ (F.pc = "idle" => F = NoFlush)
      /\ \A x : Holds(snaps, x) => Holds(F.batch, x) \/ Holds(latest', x)
      /\ \A x : Holds(F.batch, x) => Holds(snaps, x)
  <2>1. CASE snaps = <<>>
    BY <2>1, NoFlushType, EmptyHolds, PersisterAssumption
  <2>2. CASE snaps # <<>>
    <3>1. F = [pc |-> "ready", batch |-> BatchOf(snaps), attempt |-> 0, ctx |-> ctx]
      BY <2>2
    <3> HIDE DEF F
    <3>2. F \in FlushState
      BY <1>3, <3>1, PersisterAssumption DEF FlushState
    <3> QED BY <1>3, <3>1, <3>2
  <2> QED BY <2>1, <2>2
<1> HIDE DEF F
<1>6. Past(changes, F.batch) /\ Past(changes, latest')
  BY <1>2, <1>3, <1>5 DEF Past
<1>7. UNCHANGED <<changes, memory, mem, evicted, flushErrors, db, dbOpen>> /\ dirty' = {}
  BY DEF Collect
<1>8. FlushInv' /\ flush'[f] = F /\ \A g \in Flushers \ {f} : flush'[g] = flush[g]
  BY <1>4, <1>5, <1>6, <1>7, FlushGoesOn
<1>9. flush[f] = NoFlush
  BY DEF Collect, PersisterInv, FlushInv
<1>10. ASSUME flushErrors' = 0, NEW a \in Assets, NEW v \in 1..changes'[a] PROVE Accounted(a, v)'
  <2>1. Accounted(a, v)
    BY <1>7, <1>10 DEF PersisterInv
  <2>2. CASE a \in dirty \cap memory /\ v \in mem[a]
    <3>1. Queues(snaps, a, v)
      <4> DEFINE x == SnapshotOf(a)
      <4>1. Holds(snaps, x) /\ x.asset = a /\ v \in x.knows
        BY <1>2, <2>2 DEF SnapshotOf
      <4> HIDE DEF x
      <4> QED BY <4>1, QueuesIs
    <3>2. Queues(F.batch, a, v) \/ Queues(latest', a, v)
      BY <1>5, <3>1, QueuesKept
    <3> QED BY <1>8, <3>2 DEF Accounted, Persisted
  <2>3. CASE Queues(latest, a, v)
    <3>1. Queues(F.batch, a, v) \/ Queues(latest', a, v)
      BY <1>2, <1>5, <2>3, QueuesKept
    <3> QED BY <1>8, <3>1 DEF Accounted, Persisted
  <2>4. CASE \E g \in Flushers : Queues(flush[g].batch, a, v)
    <3>1. PICK g \in Flushers : Queues(flush[g].batch, a, v)
      BY <2>4
    <3>2. g # f
      BY <1>9, <3>1, NoFlushType, EmptyHolds
    <3> QED BY <1>8, <3>1, <3>2 DEF Accounted, Persisted
  <2>5. CASE v \in db[a].known \/ <<a, v>> \in evicted
    BY <1>7, <2>5 DEF Accounted, Persisted
  <2> QED BY <2>1, <2>2, <2>3, <2>4, <2>5 DEF Accounted, Persisted
<1>11. ManagerTypeOK' /\ latest' \in Seq(Snapshot) /\ Past(changes, latest)' /\ flushErrors' \in Nat
       /\ db' \in [Assets -> Row] /\ dbOpen' \in BOOLEAN
  BY <1>3, <1>6, <1>7 DEF PersisterInv, ManagerTypeOK, Past
<1> QED BY <1>8, <1>10, <1>11 DEF Running, PersisterInv

\* What a commit does to the row of one asset: it keeps what it knew and learns what is queued.
LEMMA SaveBatchRow ==
    ASSUME PersisterInv, NEW batch \in Seq(Snapshot), NEW a \in Assets
    PROVE  /\ SaveBatch(batch)[a] \in Row
           /\ db[a].known \subseteq SaveBatch(batch)[a].known
           /\ \A v : Queues(batch, a, v) => v \in SaveBatch(batch)[a].known
<1> DEFINE at == {i \in DOMAIN batch : batch[i].asset = a}
           new == UNION {batch[i].knows : i \in at}
<1>1. db[a] \in Row
  BY DEF PersisterInv
<1>2. /\ DOMAIN batch = 1..Len(batch) /\ Len(batch) \in Nat
      /\ \A i \in DOMAIN batch : batch[i] \in Snapshot
  BY LenProperties, ElementOfSeq
<1>3. \A v : Queues(batch, a, v) => v \in new
  BY DEF Queues
<1>4. CASE at = {}
  <2>1. SaveBatch(batch)[a] = db[a]
    BY <1>4 DEF SaveBatch
  <2>2. new = {}
    BY <1>4
  <2> HIDE DEF new, at
  <2> QED BY <1>1, <1>3, <2>1, <2>2
<1>5. CASE at # {}
  <2>1. SaveBatch(batch)[a] = [known |-> db[a].known \cup new, status |-> batch[Max(at)].ver]
    BY <1>5 DEF SaveBatch
  <2>2. Max(at) \in at
    <3>1. at \subseteq Int /\ Len(batch) \in Int /\ \A i \in at : i <= Len(batch)
      BY <1>2
    <3> HIDE DEF at
    <3> QED BY <1>5, <3>1, MaxIsGreatest
  <2>3. batch[Max(at)].ver \in Versions
    BY <1>2, <2>2 DEF Snapshot
  <2>4. new \subseteq Changes
    BY <1>2 DEF Snapshot
  <2> HIDE DEF new, at
  <2> QED BY <1>1, <1>3, <2>1, <2>3, <2>4 DEF Row
<1> QED BY <1>4, <1>5

\* A commit takes a batch away, and the changes it held are in the rows now.
LEMMA CommitInv ==
    ASSUME PersisterInv, NEW f \in Flushers, Commit(f)
    PROVE  PersisterInv'
<1> DEFINE batch == flush[f].batch
<1>1. /\ db' = SaveBatch(batch)
      /\ flush' = [flush EXCEPT ![f] = NoFlush]
      /\ UNCHANGED <<changes, memory, mem, dirty, evicted, latest, runner, flushErrors, dbOpen,
                     cancelled>>
  BY DEF Commit, manager
<1>2. batch \in Seq(Snapshot)
  BY DEF PersisterInv, FlushInv, FlushState
<1>3. FlushInv' /\ \A g \in Flushers \ {f} : flush'[g] = flush[g]
  BY <1>1, NoFlushFits, FlushGoesOn
<1> HIDE DEF batch
<1>4. \A a \in Assets :
        /\ db'[a] \in Row /\ db[a].known \subseteq db'[a].known
        /\ \A v : Queues(batch, a, v) => v \in db'[a].known
  BY <1>1, <1>2, SaveBatchRow
<1>5. db' \in [Assets -> Row]
  <2>1. db' = [a \in Assets |-> db'[a]]
    BY <1>1 DEF SaveBatch
  <2> QED BY <1>4, <2>1
<1>6. ASSUME flushErrors' = 0, NEW a \in Assets, NEW v \in 1..changes'[a] PROVE Accounted(a, v)'
  <2>1. Accounted(a, v)
    BY <1>1, <1>6 DEF PersisterInv
  <2>2. CASE v \in db[a].known \/ Queues(batch, a, v)
    <3>1. v \in db'[a].known
      BY <1>4, <2>2
    <3> QED BY <3>1 DEF Accounted, Persisted
  <2>3. CASE a \in dirty \cap memory /\ v \in mem[a]
    BY <1>1, <2>3 DEF Accounted
  <2>4. CASE <<a, v>> \in evicted
    BY <1>1, <2>4 DEF Accounted
  <2>5. CASE Queues(latest, a, v)
    BY <1>1, <2>5 DEF Accounted, Persisted
  <2>6. CASE \E g \in Flushers \ {f} : Queues(flush[g].batch, a, v)
    BY <1>3, <2>6 DEF Accounted, Persisted
  <2> QED BY <2>1, <2>2, <2>3, <2>4, <2>5, <2>6 DEF Accounted, Persisted, batch
<1>7. ManagerTypeOK' /\ latest' \in Seq(Snapshot) /\ Past(changes, latest)'
  BY <1>1 DEF PersisterInv, ManagerTypeOK, Past
<1> QED BY <1>1, <1>3, <1>5, <1>6, <1>7 DEF PersisterInv

\* Flushes that keep their batches, next to a manager and rows that stay, keep everything.
LEMMA SameBatchesInv ==
    ASSUME PersisterInv, FlushInv', \A f \in Flushers : flush'[f].batch = flush[f].batch,
           UNCHANGED <<changes, memory, mem, dirty, evicted, latest, flushErrors, db>>,
           Running', dbOpen' \in BOOLEAN
    PROVE  PersisterInv'
<1>1. \A a, v : Accounted(a, v)' <=> Accounted(a, v)
  BY DEF Accounted, Persisted
<1>2. ManagerTypeOK' /\ Past(changes, latest)'
  BY DEF PersisterInv, ManagerTypeOK, Past
<1> QED BY <1>1, <1>2 DEF PersisterInv, Running

\* A step of a flush that keeps its batch.
LEMMA SameBatchInv ==
    ASSUME PersisterInv, NEW f \in Flushers, NEW F \in FlushState,
           flush' = [flush EXCEPT ![f] = F], F.batch = flush[f].batch, F.ctx = flush[f].ctx,
           F.pc # "idle",
           UNCHANGED <<manager, latest, runner, flushErrors, db, dbOpen, cancelled>>
    PROVE  PersisterInv'
<1>1. Len(F.batch) <= BatchSize /\ (f = "main" => F.ctx = "own") /\ Past(changes, F.batch)
  BY DEF PersisterInv, FlushInv
<1>2. UNCHANGED <<changes, memory, mem, dirty, evicted>>
  BY DEF manager
<1>3. FlushInv' /\ \A g \in Flushers : flush'[g].batch = flush[g].batch
  <2>1. F.pc = "idle" => F = NoFlush
    OBVIOUS
  <2>2. FlushInv' /\ flush'[f] = F /\ \A g \in Flushers \ {f} : flush'[g] = flush[g]
    BY <1>1, <1>2, <2>1, FlushGoesOn
  <2> QED BY <2>2
<1>4. Running' /\ dbOpen' \in BOOLEAN
  BY DEF PersisterInv, Running
<1> QED BY <1>2, <1>3, <1>4, SameBatchesInv

\* Beginning, committing, trying again and giving up.
LEMMA SaveStepInv ==
    ASSUME PersisterInv, NEW f \in Flushers, SaveStep(f)
    PROVE  PersisterInv'
<1>1. flush \in [Flushers -> FlushState] /\ flush[f] \in FlushState /\ RetryLimit \in Nat \ {0}
  BY PersisterAssumption DEF PersisterInv, FlushInv
<1>2. CASE Begin(f)
  <2> DEFINE F == [flush[f] EXCEPT !.pc = "tx"]
  <2>1. F \in FlushState /\ F.batch = flush[f].batch /\ F.ctx = flush[f].ctx /\ F.pc = "tx"
    BY <1>1 DEF FlushState
  <2>2. flush' = [flush EXCEPT ![f] = F]
    BY <1>2 DEF Begin
  <2> HIDE DEF F
  <2> QED BY <1>2, <2>1, <2>2, SameBatchInv DEF Begin
<1>3. CASE Commit(f)
  BY <1>3, CommitInv
<1>4. CASE Retry(f)
  <2> DEFINE F == [flush[f] EXCEPT !.pc = "ready", !.attempt = flush[f].attempt + 1]
  <2>1. flush[f].attempt + 1 \in 0..(RetryLimit - 1)
    BY <1>1, <1>4 DEF Retry, FlushState
  <2>2. F \in FlushState /\ F.batch = flush[f].batch /\ F.ctx = flush[f].ctx /\ F.pc = "ready"
    BY <1>1, <2>1 DEF FlushState
  <2>3. flush' = [flush EXCEPT ![f] = F]
    BY <1>1, <1>4 DEF Retry
  <2> HIDE DEF F
  <2> QED BY <1>4, <2>2, <2>3, SameBatchInv DEF Retry
<1>5. CASE GiveUp(f)
  <2>1. /\ flush' = [flush EXCEPT ![f] = NoFlush] /\ flushErrors' = flushErrors + 1
        /\ UNCHANGED <<changes, memory, mem, dirty, evicted, latest, runner, db, dbOpen, cancelled>>
    BY <1>5 DEF GiveUp, manager
  <2>2. FlushInv'
    BY <2>1, NoFlushFits, FlushGoesOn
  <2>3. flushErrors' \in Nat /\ flushErrors' # 0
    BY <2>1 DEF PersisterInv
  <2>4. ManagerTypeOK' /\ Past(changes, latest)'
    BY <2>1 DEF PersisterInv, ManagerTypeOK, Past
  <2> QED BY <2>1, <2>2, <2>3, <2>4 DEF PersisterInv
<1> QED BY <1>2, <1>3, <1>4, <1>5 DEF SaveStep

\* The numbers of changes grow, and flushes and rows stay: what is not ahead of its asset is not
\* ahead of it then.
LEMMA ChangesGrow ==
    ASSUME PersisterInv, UNCHANGED <<latest, flush>>,
           \A a \in Assets : changes'[a] \in Versions /\ changes[a] <= changes'[a]
    PROVE  FlushInv' /\ Past(changes, latest)'
<1>1. ASSUME NEW s, Past(changes, s) PROVE Past(changes', s)
  <2> SUFFICES ASSUME NEW x \in Snapshot, Holds(s, x) PROVE x.ver <= changes'[x.asset]
    BY DEF Past
  <2>1. x.ver \in Nat /\ x.asset \in Assets /\ x.ver <= changes[x.asset]
    BY <1>1 DEF Past, Snapshot, Versions
  <2>2. changes[x.asset] \in Nat /\ changes'[x.asset] \in Nat
    BY <2>1 DEF PersisterInv, ManagerTypeOK, Versions
  <2> QED BY <2>1, <2>2
<1>2. \A s : Past(changes, s)' <=> Past(changes', s')
  BY DEF Past
<1>3. FlushInv /\ Past(changes, latest)
  BY DEF PersisterInv
<1> QED BY <1>1, <1>3 DEF FlushInv, Past

\* A step of the manager: records and marks change; every change that was accounted for still
\* is, and each new one is known to a marked record.
LEMMA ManagerInv ==
    ASSUME PersisterInv, ManagerTypeOK', UNCHANGED <<latest, flush, runner, flushErrors, db, dbOpen>>,
           cancelled' \in BOOLEAN,
           \A a \in Assets : changes[a] <= changes'[a],
           \A a \in Assets : \A v \in 1..changes'[a] :
              IF v \in 1..changes[a]
              THEN a \in dirty \cap memory /\ v \in mem[a] =>
                     \/ Persisted(a, v)
                     \/ a \in dirty' \cap memory' /\ v \in mem'[a]
                     \/ <<a, v>> \in evicted'
              ELSE a \in dirty' \cap memory' /\ v \in mem'[a],
           evicted \subseteq evicted'
    PROVE  PersisterInv'
<1>1. \A a \in Assets : changes'[a] \in Versions
  BY DEF ManagerTypeOK
<1>2. FlushInv' /\ Past(changes, latest)'
  BY <1>1, ChangesGrow
<1>3. \A a, v : Persisted(a, v)' <=> Persisted(a, v)
  BY DEF Persisted
<1>4. ASSUME flushErrors' = 0, NEW a \in Assets, NEW v \in 1..changes'[a] PROVE Accounted(a, v)'
  <2>1. CASE v \in 1..changes[a]
    <3>1. Accounted(a, v)
      BY <1>4, <2>1 DEF PersisterInv
    <3> QED BY <1>3, <2>1, <3>1 DEF Accounted
  <2>2. CASE v \notin 1..changes[a]
    BY <2>2 DEF Accounted
  <2> QED BY <2>1, <2>2
<1> QED BY <1>2, <1>4 DEF PersisterInv

\* One more change is numbered one more.
LEMMA OneMore ==
    ASSUME PersisterInv, NEW a \in Assets
    PROVE  /\ changes[a] + 1 \in Versions /\ changes[a] + 1 \in Changes
           /\ changes[a] <= changes[a] + 1
           /\ \A v \in 1..(changes[a] + 1) : v \in 1..changes[a] \/ v = changes[a] + 1
<1>1. changes[a] \in Nat
  BY DEF PersisterInv, ManagerTypeOK, Versions
<1> QED BY <1>1 DEF Versions, Changes

\* A change is known to its record, which is marked.
LEMMA ChangeInv ==
    ASSUME PersisterInv, NEW S, Change(S), cancelled' \in BOOLEAN
    PROVE  PersisterInv'
<1>1. /\ S \subseteq memory /\ S \subseteq Assets
      /\ changes' = [a \in Assets |-> IF a \in S THEN changes[a] + 1 ELSE changes[a]]
      /\ mem' = [a \in Assets |-> IF a \in S THEN mem[a] \cup {changes[a] + 1} ELSE mem[a]]
      /\ dirty' = dirty \cup S
      /\ UNCHANGED <<memory, evicted, latest, flush, runner, flushErrors, db, dbOpen>>
  BY DEF Change, Persisting, PersisterInv, ManagerTypeOK
<1>2. ManagerTypeOK
  BY DEF PersisterInv
<1>3. \A a \in S : /\ changes[a] + 1 \in Versions /\ changes[a] + 1 \in Changes
                   /\ changes[a] <= changes[a] + 1
                   /\ \A v \in 1..(changes[a] + 1) : v \in 1..changes[a] \/ v = changes[a] + 1
  BY <1>1, OneMore
<1>4. changes' \in [Assets -> Versions] /\ mem' \in [Assets -> SUBSET Changes]
  BY <1>1, <1>2, <1>3 DEF ManagerTypeOK
<1>5. ManagerTypeOK'
  BY <1>1, <1>2, <1>4 DEF ManagerTypeOK
<1>6. \A a \in Assets : changes[a] <= changes'[a]
  <2>1. \A a \in Assets : changes[a] \in Int
    BY <1>2 DEF ManagerTypeOK, Versions
  <2> QED BY <1>1, <1>3, <2>1
<1>7. ASSUME NEW a \in Assets, NEW v \in 1..changes'[a], v \notin 1..changes[a]
      PROVE  a \in dirty' \cap memory' /\ v \in mem'[a]
  <2>1. a \in S
    BY <1>1, <1>7
  <2> QED BY <1>1, <1>3, <1>7, <2>1
<1>8. \A a \in Assets : mem[a] \subseteq mem'[a]
  BY <1>1
<1> QED BY <1>1, <1>5, <1>6, <1>7, <1>8, ManagerInv

\* A record that is made anew is marked; one that comes back unchanged adds nothing. Only
\* records that exist account for changes, so nothing was lost to it.
LEMMA EnterInv ==
    ASSUME PersisterInv, NEW a \in Assets, Enter(a), cancelled' \in BOOLEAN
    PROVE  PersisterInv'
<1>1. /\ a \notin memory /\ memory' = memory \cup {a}
      /\ UNCHANGED <<evicted, latest, flush, runner, flushErrors, db, dbOpen>>
  BY DEF Enter, Persisting
<1>2. ManagerTypeOK /\ db[a].known \subseteq Changes
  BY DEF PersisterInv, Row
<1>3. CASE /\ changes[a] < MaxVersion[a]
           /\ \E known \in {db[a].known} \cup (IF StorageFails THEN {{}} ELSE {}) :
                mem' = [mem EXCEPT ![a] = known \cup {changes[a] + 1}]
           /\ changes' = [changes EXCEPT ![a] = changes[a] + 1]
           /\ dirty' = dirty \cup {a}
  <2>1. PICK known \in SUBSET Changes : mem' = [mem EXCEPT ![a] = known \cup {changes[a] + 1}]
    BY <1>2, <1>3
  <2>2. /\ changes[a] + 1 \in Versions /\ changes[a] + 1 \in Changes
        /\ changes[a] <= changes[a] + 1
        /\ \A v \in 1..(changes[a] + 1) : v \in 1..changes[a] \/ v = changes[a] + 1
    BY <1>3, OneMore
  <2>3. /\ changes' \in [Assets -> Versions] /\ changes'[a] = changes[a] + 1
        /\ \A b \in Assets \ {a} : changes'[b] = changes[b]
    BY <1>2, <1>3, <2>2 DEF ManagerTypeOK
  <2>4. /\ mem' \in [Assets -> SUBSET Changes] /\ changes[a] + 1 \in mem'[a]
        /\ \A b \in Assets \ {a} : mem'[b] = mem[b]
    BY <1>2, <2>1, <2>2 DEF ManagerTypeOK
  <2>5. ManagerTypeOK'
    BY <1>1, <1>2, <1>3, <2>3, <2>4 DEF ManagerTypeOK
  <2>6. \A b \in Assets : changes[b] <= changes'[b]
    <3>1. \A b \in Assets : changes[b] \in Int
      BY <1>2 DEF ManagerTypeOK, Versions
    <3> QED BY <2>2, <2>3, <3>1
  <2>7. ASSUME NEW b \in Assets, NEW v \in 1..changes'[b], v \notin 1..changes[b]
        PROVE  b \in dirty' \cap memory' /\ v \in mem'[b]
    <3>1. b = a
      BY <2>3, <2>7
    <3> QED BY <1>1, <1>3, <2>2, <2>3, <2>4, <2>7, <3>1
  <2>8. \A b \in Assets : b \in dirty \cap memory => b \in dirty' \cap memory' /\ mem'[b] = mem[b]
    BY <1>1, <1>3, <2>4
  <2> QED BY <1>1, <2>5, <2>6, <2>7, <2>8, ManagerInv
<1>4. CASE mem' = [mem EXCEPT ![a] = db[a].known] /\ UNCHANGED <<changes, dirty>>
  <2>1. /\ mem' \in [Assets -> SUBSET Changes]
        /\ \A b \in Assets \ {a} : mem'[b] = mem[b]
    BY <1>2, <1>4 DEF ManagerTypeOK
  <2>2. ManagerTypeOK'
    BY <1>1, <1>2, <1>4, <2>1 DEF ManagerTypeOK
  <2>3. \A b \in Assets : changes[b] <= changes'[b]
    BY <1>2, <1>4 DEF ManagerTypeOK, Versions
  <2>4. \A b \in Assets : b \in dirty \cap memory => b \in dirty' \cap memory' /\ mem'[b] = mem[b]
    BY <1>1, <1>4, <2>1
  <2> QED BY <1>1, <1>4, <2>2, <2>3, <2>4, ManagerInv
<1> QED BY <1>3, <1>4 DEF Enter

\* What only an evicted record knew is written down as such.
LEMMA EvictInv ==
    ASSUME PersisterInv, NEW E, Evict(E), cancelled' \in BOOLEAN
    PROVE  PersisterInv'
<1>1. /\ E \subseteq memory /\ E \subseteq Assets
      /\ memory' = memory \ E
      /\ mem' = [a \in Assets |-> IF a \in E THEN {} ELSE mem[a]]
      /\ evicted' = evicted \cup UNION {{a} \X Unsaved(a) : a \in E \cap dirty}
      /\ UNCHANGED <<changes, dirty, latest, flush, runner, flushErrors, db, dbOpen>>
  BY DEF Evict, Persisting, PersisterInv, ManagerTypeOK
<1>2. ManagerTypeOK
  BY DEF PersisterInv
<1>3. mem' \in [Assets -> SUBSET Changes] /\ \A a \in Assets \ memory' : mem'[a] = {}
  BY <1>1, <1>2 DEF ManagerTypeOK
<1>4. evicted' \subseteq Assets \X Changes /\ evicted \subseteq evicted'
  <2>1. \A a \in E : {a} \X Unsaved(a) \subseteq Assets \X Changes
    BY <1>1, <1>2 DEF ManagerTypeOK, Unsaved
  <2> QED BY <1>1, <1>2, <2>1 DEF ManagerTypeOK
<1>5. ManagerTypeOK'
  BY <1>1, <1>2, <1>3, <1>4 DEF ManagerTypeOK
<1>6. \A a \in Assets : changes[a] <= changes'[a]
  BY <1>1, <1>2 DEF ManagerTypeOK, Versions
<1>7. ASSUME NEW a \in Assets, NEW v \in 1..changes'[a], a \in dirty \cap memory, v \in mem[a]
      PROVE  \/ Persisted(a, v)
             \/ a \in dirty' \cap memory' /\ v \in mem'[a]
             \/ <<a, v>> \in evicted'
  <2>1. CASE a \in E /\ ~Persisted(a, v)
    <3>1. <<a, v>> \in {a} \X Unsaved(a)
      BY <1>7, <2>1 DEF Unsaved
    <3> QED BY <1>1, <1>7, <2>1, <3>1
  <2>2. CASE a \notin E
    BY <1>1, <1>7, <2>2
  <2>3. CASE Persisted(a, v)
    BY <2>3
  <2> QED BY <2>1, <2>2, <2>3
<1> QED BY <1>1, <1>4, <1>5, <1>6, <1>7, ManagerInv

\* Nothing but the places of goroutines, contexts and the database handle changes.
LEMMA PlacesInv ==
    ASSUME PersisterInv, UNCHANGED <<manager, latest, flush, flushErrors, db>>,
           Running', dbOpen' \in BOOLEAN
    PROVE  PersisterInv'
<1>1. UNCHANGED <<changes, memory, mem, dirty, evicted>>
  BY DEF manager
<1>2. FlushInv'
  BY <1>1 DEF PersisterInv, FlushInv, Past
<1> QED BY <1>1, <1>2, SameBatchesInv

\* Every step of the goroutine of Persister.Run.
LEMMA RunInv == ASSUME PersisterInv, Run PROVE PersisterInv'
<1>1. cancelled \in BOOLEAN /\ runner \in {"loop", "final", "stopped"} /\ dbOpen \in BOOLEAN
  BY DEF PersisterInv
<1>2. "run" \in Flushers
  BY DEF Flushers
<1>3. CASE RunTick
  BY <1>1, <1>2, <1>3, CollectInv DEF RunTick, Running
<1>4. CASE RunFinalFlush
  BY <1>1, <1>2, <1>4, CollectInv DEF RunFinalFlush, Running
<1>5. CASE RunReturns
  BY <1>1, <1>5, PlacesInv DEF RunReturns, Running
<1>6. CASE SaveStep("run")
  BY <1>2, <1>6, SaveStepInv
<1> QED BY <1>3, <1>4, <1>5, <1>6 DEF Run

-----------------------------------------------------------------------------
(* The shutdown around it *)

\* Where main and the tracker are, and what they have done by then.
PlacesOK ==
    /\ mode \in Modes
    /\ phase \in {"pipeline", "flush", "flushing", "close", "cancel", "source", "exited"}
    /\ tracker \in {"on", "off"}
    /\ interrupted \in BOOLEAN
    /\ ~dbOpen <=> phase \in {"cancel", "source", "exited"}

\* TypeOK is the types of the persister and the places of main.
LEMMA TypeOKParts == TypeOK <=> PersisterTypeOK /\ PlacesOK
BY DEF TypeOK, PlacesOK

Inv == PersisterInv /\ PlacesOK

\* The invariant holds when the pipeline starts.
LEMMA InitInv == Init => Inv
<1>1. PersisterInit => dbOpen = TRUE /\ cancelled = FALSE
  BY DEF PersisterInit
<1> QED BY <1>1, PersisterInitInv DEF Init, Inv, PlacesOK

\* The steps of the persister touch neither the contexts nor the handle.
LEMMA PersisterStays ==
    Run \/ SaveStep("main") => cancelled' = cancelled /\ dbOpen' = dbOpen
BY DEF Run, RunTick, RunFinalFlush, RunReturns, SaveStep, Begin, Commit, Retry, GiveUp, Collect

\* Every step of the process keeps the invariant.
LEMMA StepInv == Inv /\ [Next]_vars => Inv'
<1> SUFFICES ASSUME Inv, [Next]_vars PROVE Inv'
  OBVIOUS
<1>1. cancelled \in BOOLEAN /\ runner \in {"loop", "final", "stopped"} /\ dbOpen \in BOOLEAN
      /\ "main" \in Flushers /\ PersisterInv
  BY DEF Inv, PersisterInv, Flushers
<1>2. CASE Signal
  <2>1. PersisterInv'
    BY <1>1, <1>2, PlacesInv DEF Signal, Running
  <2> QED BY <1>2, <2>1 DEF Inv, PlacesOK, Signal
<1>3. CASE Apply
  <2>1. PICK a \in Assets : Change({a}) \/ Enter(a)
    BY <1>3 DEF Apply
  <2>2. cancelled' \in BOOLEAN /\ dbOpen' = dbOpen
    BY <1>1, <1>3, <2>1 DEF Apply, Change, Enter, Persisting
  <2>3. PersisterInv'
    BY <1>1, <2>1, <2>2, ChangeInv, EnterInv
  <2> QED BY <1>3, <2>2, <2>3 DEF Inv, PlacesOK, Apply
<1>15. CASE TrackerSweeps
  <2>1. PICK S : Change(S)
    BY <1>15 DEF TrackerSweeps
  <2>2. cancelled' \in BOOLEAN /\ dbOpen' = dbOpen
    BY <1>1, <1>15, <2>1 DEF TrackerSweeps, Change, Persisting
  <2>3. PersisterInv'
    BY <1>1, <2>1, <2>2, ChangeInv
  <2> QED BY <1>15, <2>2, <2>3 DEF Inv, PlacesOK, TrackerSweeps
<1>16. CASE TrackerEvicts
  <2>1. PICK E : Evict(E)
    BY <1>16 DEF TrackerEvicts
  <2>2. cancelled' \in BOOLEAN /\ dbOpen' = dbOpen
    BY <1>1, <1>16, <2>1 DEF TrackerEvicts, Evict, Persisting
  <2>3. PersisterInv'
    BY <1>1, <2>1, <2>2, EvictInv
  <2> QED BY <1>16, <2>2, <2>3 DEF Inv, PlacesOK, TrackerEvicts
<1>4. CASE TrackerStops
  <2>1. PersisterInv'
    BY <1>1, <1>4, PlacesInv DEF TrackerStops, persisterVars, Running
  <2> QED BY <1>4, <2>1 DEF Inv, PlacesOK, TrackerStops, persisterVars
<1>6. CASE FinalSweep
  <2>1. PICK S : Change(S)
    BY <1>6 DEF FinalSweep
  <2>2. PersisterInv'
    BY <1>1, <1>6, <2>1, ChangeInv DEF FinalSweep
  <2> QED BY <1>6, <2>1, <2>2 DEF Inv, PlacesOK, FinalSweep, Change, Persisting
<1>7. CASE ShutdownFlush
  <2>1. PersisterInv'
    BY <1>1, <1>7, CollectInv DEF ShutdownFlush, Running
  <2> QED BY <1>7, <2>1 DEF Inv, PlacesOK, ShutdownFlush, Collect
<1>8. CASE FlushReturns
  <2>1. PersisterInv'
    BY <1>1, <1>8, PlacesInv DEF FlushReturns, persisterVars, Running
  <2> QED BY <1>8, <2>1 DEF Inv, PlacesOK, FlushReturns, persisterVars
<1>9. CASE CloseRepo
  <2>1. PersisterInv'
    BY <1>1, <1>9, PlacesInv DEF CloseRepo, Running
  <2> QED BY <1>9, <2>1 DEF Inv, PlacesOK, CloseRepo
<1>10. CASE CancelContexts
  <2>1. PersisterInv'
    BY <1>1, <1>10, PlacesInv DEF CancelContexts, Running
  <2> QED BY <1>10, <2>1 DEF Inv, PlacesOK, CancelContexts
<1>11. CASE Exit
  <2>1. PersisterInv'
    BY <1>1, <1>11, PlacesInv DEF Exit, persisterVars, Running
  <2> QED BY <1>11, <2>1 DEF Inv, PlacesOK, Exit, persisterVars
<1>12. CASE PersisterRuns
  <2>1. PersisterInv'
    BY <1>1, <1>12, RunInv DEF PersisterRuns
  <2> QED BY <1>12, <2>1, PersisterStays DEF Inv, PlacesOK, PersisterRuns
<1>13. CASE FinalSave
  <2>1. PersisterInv'
    BY <1>1, <1>13, SaveStepInv DEF FinalSave
  <2> QED BY <1>13, <2>1, PersisterStays DEF Inv, PlacesOK, FinalSave
<1>14. CASE UNCHANGED vars
  <2>1. PersisterInv'
    BY <1>1, <1>14, PlacesInv DEF vars, persisterVars, Running
  <2> QED BY <1>14, <2>1 DEF Inv, PlacesOK, vars, persisterVars
<1> QED BY <1>2, <1>3, <1>4, <1>6, <1>7, <1>8, <1>9, <1>10, <1>11, <1>12, <1>13, <1>14, <1>15,
           <1>16 DEF Next, Main

-----------------------------------------------------------------------------
(* The order of what one flusher writes *)

\* The snapshots of one asset come in the order of its versions.
Rising(s) == \A i, j \in DOMAIN s : i < j /\ s[i].asset = s[j].asset => s[i].ver <= s[j].ver

\* No snapshot in t is older than one of its asset in s.
Below(s, t) == \A i \in DOMAIN s, j \in DOMAIN t : s[i].asset = t[j].asset => s[i].ver <= t[j].ver

\* No snapshot in s is older than the row of its asset.
Above(rows, s) == \A i \in DOMAIN s : rows[s[i].asset].status <= s[i].ver

\* What is left over, and the batch that is being written before it.
Ordered(rows, batch, rest) ==
    /\ Rising(batch) /\ Rising(rest) /\ Below(batch, rest)
    /\ Above(rows, batch) /\ Above(rows, rest)

\* Why no row goes back: until the final flush begins there is one flusher, and from the row over
\* its batch and what is left over to the asset itself, versions only rise.
OrderInv ==
    phase \in {"pipeline", "flush"} =>
        /\ flush["main"] = NoFlush
        /\ \A a \in Assets : db[a].status <= changes[a]
        /\ Ordered(db, flush["run"].batch, latest)

\* A list without snapshots is in order.
LEMMA EmptyOrdered ==
    /\ Rising(<<>>)
    /\ \A rows : Above(rows, <<>>)
    /\ \A s : Below(<<>>, s) /\ Below(s, <<>>)
BY DEF Rising, Above, Below

\* What is appended to a list without falling behind it leaves it in order.
LEMMA ConcatOrdered ==
    ASSUME NEW s \in Seq(Snapshot), NEW t \in Seq(Snapshot), NEW rows,
           Rising(s), Rising(t), Below(s, t), Above(rows, s), Above(rows, t)
    PROVE  Rising(s \o t) /\ Above(rows, s \o t)
<1> DEFINE u == s \o t
           m == Len(s)
<1>1. /\ m \in Nat /\ Len(t) \in Nat /\ DOMAIN s = 1..m /\ DOMAIN t = 1..Len(t)
      /\ DOMAIN u = 1..(m + Len(t))
      /\ \A i \in 1..(m + Len(t)) : u[i] = IF i <= m THEN s[i] ELSE t[i - m]
  <2>1. u \in Seq(Snapshot) /\ Len(u) = m + Len(t)
    BY ConcatProperties
  <2> QED BY <2>1, ConcatProperties, LenProperties
<1> HIDE DEF u, m
<1>2. ASSUME NEW i \in DOMAIN u
      PROVE  \/ i <= m /\ i \in DOMAIN s /\ u[i] = s[i]
             \/ m < i /\ i - m \in DOMAIN t /\ u[i] = t[i - m]
  BY <1>1
<1>3. ASSUME NEW i \in DOMAIN u, NEW j \in DOMAIN u, i < j, u[i].asset = u[j].asset
      PROVE  u[i].ver <= u[j].ver
  <2>1. i \in Int /\ j \in Int /\ m \in Int
    BY <1>1
  <2>2. CASE j <= m
    <3>1. i \in DOMAIN s /\ j \in DOMAIN s /\ u[i] = s[i] /\ u[j] = s[j]
      BY <1>2, <1>3, <2>1, <2>2
    <3> QED BY <1>3, <3>1 DEF Rising
  <2>3. CASE m < i
    <3>1. /\ i - m \in DOMAIN t /\ j - m \in DOMAIN t /\ u[i] = t[i - m] /\ u[j] = t[j - m]
          /\ i - m < j - m
      BY <1>2, <1>3, <2>1, <2>3
    <3> QED BY <1>3, <3>1 DEF Rising
  <2>4. CASE i <= m /\ m < j
    <3>1. i \in DOMAIN s /\ j - m \in DOMAIN t /\ u[i] = s[i] /\ u[j] = t[j - m]
      BY <1>2, <2>1, <2>4
    <3> QED BY <1>3, <3>1 DEF Below
  <2> QED BY <2>1, <2>2, <2>3, <2>4
<1>4. ASSUME NEW i \in DOMAIN u PROVE rows[u[i].asset].status <= u[i].ver
  BY <1>2 DEF Above
<1> QED BY <1>3, <1>4 DEF Rising, Above, u

\* A list in order is cut in two that are in order.
LEMMA CutOrdered ==
    ASSUME NEW s, NEW k, NEW b, NEW n, NEW o, NEW m, Cut(s, k, b, n, o, m), NEW rows,
           Rising(s), Above(rows, s)
    PROVE  Ordered(rows, b, o)
<1>1. \A i \in DOMAIN b : i \in DOMAIN s /\ b[i] = s[i] /\ i \in Int
  BY DEF Cut
<1>2. \A i \in DOMAIN o : m + i \in DOMAIN s /\ o[i] = s[m + i] /\ i \in Int
  <2>1. k \in Nat /\ m \in Nat /\ DOMAIN s = 1..k /\ DOMAIN o = 1..(k - m)
    BY DEF Cut
  <2>2. \A i \in 1..(k - m) : m + i \in 1..k /\ i \in Int
    BY <2>1
  <2>3. \A i \in 1..(k - m) : o[i] = s[m + i]
    BY DEF Cut
  <2> QED BY <2>1, <2>2, <2>3
<1>3. \A i \in DOMAIN b, j \in DOMAIN o : i < m + j
  <2>1. k \in Nat /\ m \in Nat /\ n \in Nat /\ n <= m /\ DOMAIN b = 1..n /\ DOMAIN o = 1..(k - m)
    BY DEF Cut
  <2>2. \A i \in 1..n, j \in 1..(k - m) : i < m + j
    BY <2>1
  <2> QED BY <2>1, <2>2
<1>4. m \in Int
  BY DEF Cut
<1>5. Rising(b)
  BY <1>1 DEF Rising
<1>6. Rising(o)
  <2> SUFFICES ASSUME NEW i \in DOMAIN o, NEW j \in DOMAIN o, i < j, o[i].asset = o[j].asset
               PROVE  o[i].ver <= o[j].ver
    BY DEF Rising
  <2>1. m + i < m + j
    BY <1>2, <1>4
  <2> QED BY <1>2, <2>1 DEF Rising
<1>7. Below(b, o)
  BY <1>1, <1>2, <1>3 DEF Rising, Below
<1>8. Above(rows, b) /\ Above(rows, o)
  BY <1>1, <1>2 DEF Above
<1> QED BY <1>5, <1>6, <1>7, <1>8 DEF Ordered

\* What is drained is new: each asset once, no older than what was left over.
LEMMA DrainedOrdered ==
    ASSUME PersisterInv, \A a \in Assets : db[a].status <= changes[a], NEW drained \in Drained
    PROVE  /\ drained \in Seq(Snapshot) /\ Rising(drained) /\ Above(db, drained)
           /\ Below(latest, drained)
<1>1. latest \in Seq(Snapshot) /\ Past(changes, latest)
  BY DEF PersisterInv
<1>2. drained \in Seq(Snapshot) /\ \A i \in DOMAIN drained : drained[i] \in Taken
  BY DrainedIs
<1>3. \A i \in DOMAIN drained :
        /\ drained[i].asset \in Assets /\ drained[i].ver = changes[drained[i].asset]
        /\ drained[i].ver \in Nat
  BY <1>2, TakenType
<1>4. Rising(drained)
  BY <1>3 DEF Rising
<1>5. Above(db, drained)
  BY <1>3 DEF Above
<1>6. Below(latest, drained)
  <2> SUFFICES ASSUME NEW i \in DOMAIN latest, NEW j \in DOMAIN drained,
                      latest[i].asset = drained[j].asset
               PROVE  latest[i].ver <= drained[j].ver
    BY DEF Below
  <2>1. latest[i] \in Snapshot /\ Holds(latest, latest[i])
    BY <1>1, ElementOfSeq, LenProperties DEF Holds
  <2>2. latest[i].ver <= changes[latest[i].asset]
    BY <1>1, <2>1 DEF Past
  <2> QED BY <1>3, <2>2
<1> QED BY <1>2, <1>4, <1>5, <1>6

\* A flush of the only flusher takes the queue apart without disturbing its order.
LEMMA CollectOrder ==
    ASSUME PersisterInv, OrderInv, phase \in {"pipeline", "flush"}, NEW ctx, Collect("run", ctx)
    PROVE  Ordered(db', flush'["run"].batch, latest') /\ flush'["main"] = flush["main"]
<1>1. PICK drained \in Drained :
        /\ latest' = OverflowOf(Queued(drained))
        /\ flush' = [flush EXCEPT !["run"] =
                       IF Queued(drained) = <<>> THEN NoFlush
                       ELSE [pc |-> "ready", batch |-> BatchOf(Queued(drained)), attempt |-> 0,
                             ctx |-> ctx]]
  BY DEF Collect
<1> DEFINE snaps == Queued(drained)
<1>2. flush \in [Flushers -> FlushState] /\ latest \in Seq(Snapshot) /\ db' = db
  BY DEF PersisterInv, FlushInv, Collect
<1>3. Rising(snaps) /\ Above(db, snaps) /\ snaps \in Seq(Snapshot)
  <2>1. /\ drained \in Seq(Snapshot) /\ Rising(drained) /\ Above(db, drained)
        /\ Below(latest, drained)
    BY DrainedOrdered DEF OrderInv
  <2>2. Rising(latest) /\ Above(db, latest)
    BY DEF OrderInv, Ordered
  <2> QED BY <1>2, <2>1, <2>2, ConcatOrdered, ConcatProperties DEF Queued
<1> HIDE DEF snaps
<1>4. PICK k, n : Cut(snaps, k, BatchOf(snaps), n, OverflowOf(snaps), BatchSize)
  BY <1>3, BatchAndOverflow
<1>5. Ordered(db, BatchOf(snaps), OverflowOf(snaps))
  BY <1>3, <1>4, CutOrdered
<1>6. flush'["run"].batch = BatchOf(snaps) \/ flush'["run"].batch = <<>>
  BY <1>1, <1>2, NoFlushType DEF snaps, Flushers
<1>7. latest' = OverflowOf(snaps)
  BY <1>1 DEF snaps
<1>8. Ordered(db, flush'["run"].batch, latest')
  BY <1>5, <1>6, <1>7, EmptyOrdered DEF Ordered
<1> QED BY <1>1, <1>2, <1>8 DEF Flushers

\* The row of an asset after a commit: its own, or the last of its snapshots in the batch.
LEMMA StatusWritten ==
    ASSUME PersisterInv, NEW batch \in Seq(Snapshot), NEW a \in Assets
    PROVE  \/ SaveBatch(batch)[a] = db[a]
           \/ \E i \in DOMAIN batch : /\ batch[i].asset = a
                                      /\ SaveBatch(batch)[a].status = batch[i].ver
<1> DEFINE at == {i \in DOMAIN batch : batch[i].asset = a}
<1>1. CASE at = {}
  BY <1>1 DEF SaveBatch
<1>2. CASE at # {}
  <2>1. at \subseteq Int /\ Len(batch) \in Int /\ \A i \in at : i <= Len(batch)
    BY LenProperties
  <2>2. Max(at) \in at
    <3> HIDE DEF at
    <3> QED BY <1>2, <2>1, MaxIsGreatest
  <2>3. SaveBatch(batch)[a].status = batch[Max(at)].ver
    BY <1>2 DEF SaveBatch
  <2> QED BY <2>2, <2>3
<1> QED BY <1>1, <1>2

\* A commit takes rows forward, to no more than what is left over and what the assets are.
LEMMA CommitOrder ==
    ASSUME PersisterInv, OrderInv, phase \in {"pipeline", "flush"}, Commit("run")
    PROVE  /\ Ordered(db', flush'["run"].batch, latest') /\ flush'["main"] = flush["main"]
           /\ \A a \in Assets : db[a].status <= db'[a].status /\ db'[a].status <= changes'[a]
<1> DEFINE batch == flush["run"].batch
<1>1. /\ db' = SaveBatch(batch) /\ flush' = [flush EXCEPT !["run"] = NoFlush]
      /\ UNCHANGED <<changes, latest>>
  BY DEF Commit, manager
<1>2. /\ flush \in [Flushers -> FlushState] /\ batch \in Seq(Snapshot) /\ Past(changes, batch)
      /\ latest \in Seq(Snapshot)
  BY DEF PersisterInv, FlushInv, FlushState, Flushers
<1>3. Ordered(db, batch, latest) /\ \A a \in Assets : db[a].status <= changes[a]
  BY DEF OrderInv
<1>4. \A a \in Assets : changes[a] \in Nat /\ db[a].status \in Nat
  BY DEF PersisterInv, ManagerTypeOK, Row, Versions
<1>5. flush'["run"].batch = <<>> /\ flush'["main"] = flush["main"]
  BY <1>1, <1>2, NoFlushType DEF Flushers
<1> HIDE DEF batch
<1>6. \A i \in DOMAIN batch : batch[i] \in Snapshot /\ Holds(batch, batch[i])
  BY <1>2, ElementOfSeq, LenProperties DEF Holds
<1>7. \A i \in DOMAIN batch : batch[i].ver \in Nat /\ batch[i].ver <= changes[batch[i].asset]
  BY <1>2, <1>6 DEF Past, Snapshot, Versions
<1>8. ASSUME NEW a \in Assets PROVE db[a].status <= db'[a].status /\ db'[a].status <= changes[a]
  <2>1. CASE SaveBatch(batch)[a] = db[a]
    BY <1>1, <1>3, <1>4, <2>1
  <2>2. CASE \E i \in DOMAIN batch : batch[i].asset = a /\ SaveBatch(batch)[a].status = batch[i].ver
    BY <1>1, <1>3, <1>7, <2>2 DEF Ordered, Above
  <2> QED BY <1>2, <2>1, <2>2, StatusWritten
<1>9. Above(db', latest)
  <2> SUFFICES ASSUME NEW j \in DOMAIN latest PROVE db'[latest[j].asset].status <= latest[j].ver
    BY DEF Above
  <2> DEFINE a == latest[j].asset
  <2>1. a \in Assets
    <3>1. latest[j] \in Snapshot
      BY <1>2, ElementOfSeq, LenProperties
    <3> QED BY <3>1 DEF Snapshot
  <2>2. CASE SaveBatch(batch)[a] = db[a]
    BY <1>1, <1>3, <2>2 DEF Ordered, Above
  <2>3. CASE \E i \in DOMAIN batch : batch[i].asset = a /\ SaveBatch(batch)[a].status = batch[i].ver
    BY <1>1, <1>3, <2>3 DEF Ordered, Below
  <2> QED BY <1>2, <2>1, <2>2, <2>3, StatusWritten
<1> QED BY <1>1, <1>3, <1>5, <1>8, <1>9, EmptyOrdered DEF Ordered

\* A flush that begins, is tried again or is given up keeps its batch or drops it.
LEMMA SaveOrder ==
    ASSUME PersisterInv, OrderInv, phase \in {"pipeline", "flush"},
           Begin("run") \/ Retry("run") \/ GiveUp("run")
    PROVE  /\ Ordered(db', flush'["run"].batch, latest') /\ flush'["main"] = flush["main"]
           /\ UNCHANGED <<changes, db>>
<1>1. flush \in [Flushers -> FlushState]
  BY DEF PersisterInv, FlushInv
<1>2. UNCHANGED <<changes, db, latest>>
  BY DEF Begin, Retry, GiveUp, manager
<1>3. /\ flush'["run"].batch = flush["run"].batch \/ flush'["run"].batch = <<>>
      /\ flush'["main"] = flush["main"]
  <2>1. CASE Begin("run")
    BY <1>1, <2>1 DEF Begin, Flushers, FlushState
  <2>2. CASE Retry("run")
    BY <1>1, <2>2 DEF Retry, Flushers, FlushState
  <2>3. CASE GiveUp("run")
    BY <1>1, <2>3, NoFlushType DEF GiveUp, Flushers
  <2> QED BY <2>1, <2>2, <2>3
<1>4. Ordered(db, flush["run"].batch, latest)
  BY DEF OrderInv
<1>5. Ordered(db, flush'["run"].batch, latest)
  BY <1>3, <1>4, EmptyOrdered DEF Ordered
<1> QED BY <1>2, <1>3, <1>5

\* Steps that leave flushes and rows alone, and versions no smaller.
LEMMA FrameOrder ==
    ASSUME PersisterInv, OrderInv, UNCHANGED <<flush, latest, db>>,
           phase' \in {"pipeline", "flush"} => phase \in {"pipeline", "flush"},
           \A a \in Assets : changes'[a] \in Nat /\ changes[a] <= changes'[a]
    PROVE  OrderInv'
<1>1. \A a \in Assets : changes[a] \in Nat /\ db[a].status \in Nat
  BY DEF PersisterInv, ManagerTypeOK, Row, Versions
<1> QED BY <1>1 DEF OrderInv

\* Rows and order, in every step; rows do not go back as long as there is one flusher.
LEMMA StepOrder ==
    ASSUME Inv, OrderInv, [Next]_vars
    PROVE  /\ OrderInv'
           /\ phase \in {"pipeline", "flush"} => \A a \in Assets : db[a].status <= db'[a].status
<1>1. PersisterInv
  BY DEF Inv
<1>2. \A a \in Assets : changes[a] \in Nat /\ db[a].status \in Nat
  BY <1>1 DEF PersisterInv, ManagerTypeOK, Row, Versions
<1>3. CASE Signal \/ TrackerStops \/ FlushReturns \/ CloseRepo \/ CancelContexts \/ Exit
           \/ UNCHANGED vars
  <2>1. UNCHANGED <<changes, flush, latest, db>>
    BY <1>3 DEF Signal, TrackerStops, FlushReturns, CloseRepo, CancelContexts, Exit, vars,
       persisterVars, manager
  <2>2. phase' \in {"pipeline", "flush"} => phase \in {"pipeline", "flush"}
    BY <1>3 DEF Signal, TrackerStops, FlushReturns, CloseRepo, CancelContexts, Exit, vars
  <2> QED BY <1>1, <1>2, <2>1, <2>2, FrameOrder
<1>4. CASE Apply \/ TrackerSweeps \/ TrackerEvicts \/ FinalSweep
  <2>1. (\E S : Change(S) \/ Evict(S)) \/ (\E a \in Assets : Enter(a))
    BY <1>4 DEF Apply, TrackerSweeps, TrackerEvicts, FinalSweep
  <2>2. UNCHANGED <<flush, latest, db>>
    BY <2>1 DEF Change, Evict, Enter, Persisting
  <2>3. changes \in [Assets -> Versions]
    BY <1>1 DEF PersisterInv, ManagerTypeOK
  <2>4. \A a \in Assets : changes'[a] \in Nat /\ changes[a] <= changes'[a]
    BY <1>2, <2>1, <2>3 DEF Change, Evict, Enter
  <2>5. phase' \in {"pipeline", "flush"} => phase \in {"pipeline", "flush"}
    BY <1>4 DEF Apply, TrackerSweeps, TrackerEvicts, FinalSweep
  <2> QED BY <1>1, <1>2, <2>2, <2>4, <2>5, FrameOrder
<1>5. CASE ShutdownFlush
  BY <1>2, <1>5 DEF ShutdownFlush, Collect, OrderInv
<1>6. CASE PersisterRuns
  <2>1. Run /\ phase' = phase
    BY <1>6 DEF PersisterRuns
  <2>2. CASE phase \notin {"pipeline", "flush"}
    BY <2>1, <2>2 DEF OrderInv
  <2>3. CASE phase \in {"pipeline", "flush"}
    <3>1. CASE RunTick \/ RunFinalFlush
      <4>1. PICK ctx : Collect("run", ctx)
        BY <3>1 DEF RunTick, RunFinalFlush
      <4>2. Ordered(db', flush'["run"].batch, latest') /\ flush'["main"] = flush["main"]
        BY <1>1, <2>3, <4>1, CollectOrder
      <4>3. UNCHANGED <<changes, db>>
        BY <4>1 DEF Collect
      <4> QED BY <1>2, <2>3, <4>2, <4>3 DEF OrderInv
    <3>2. CASE RunReturns
      <4>1. UNCHANGED <<changes, flush, latest, db>>
        BY <3>2 DEF RunReturns, manager
      <4> QED BY <1>1, <1>2, <2>1, <4>1, FrameOrder
    <3>3. CASE Commit("run")
      BY <1>1, <2>3, <3>3, CommitOrder DEF OrderInv
    <3>4. CASE Begin("run") \/ Retry("run") \/ GiveUp("run")
      <4>1. /\ Ordered(db', flush'["run"].batch, latest') /\ flush'["main"] = flush["main"]
            /\ UNCHANGED <<changes, db>>
        BY <1>1, <2>3, <3>4, SaveOrder
      <4> QED BY <1>2, <2>3, <4>1 DEF OrderInv
    <3> QED BY <2>1, <3>1, <3>2, <3>3, <3>4 DEF Run, SaveStep
  <2> QED BY <2>2, <2>3
<1>7. CASE FinalSave
  <2>1. phase' = phase /\ flush["main"].pc # "idle"
    BY <1>7 DEF FinalSave, SaveStep, Begin, Commit, Retry, GiveUp, SaveFailed
  <2>2. phase \notin {"pipeline", "flush"}
    BY <2>1 DEF OrderInv, NoFlush
  <2> QED BY <2>1, <2>2 DEF OrderInv
<1> QED BY <1>3, <1>4, <1>5, <1>6, <1>7 DEF Next, Main

\* At the start all versions are 0, and no one flushes.
LEMMA InitOrder == Init => OrderInv
<1> SUFFICES ASSUME Init PROVE OrderInv
  OBVIOUS
<1>1. flush["main"] = NoFlush /\ flush["run"].batch = <<>> /\ latest = <<>>
  BY NoFlushType DEF Init, PersisterInit, Flushers
<1>2. \A a \in Assets : db[a].status <= changes[a]
  BY DEF Init, PersisterInit
<1> QED BY <1>1, <1>2, EmptyOrdered DEF OrderInv, Ordered

-----------------------------------------------------------------------------
(* Theorems *)

\* Every variable of the persister and of the shutdown has its type, no batch exceeds BatchSize,
\* no periodic context reaches the final flush, and the handle is closed exactly from
\* repo.Close on.
THEOREM ShutdownTypeCorrect == Spec => []TypeOK
<1>1. Inv => TypeOK
  BY TypeOKParts, PersisterInvGives DEF Inv
<1> QED BY <1>1, InitInv, StepInv, PTL DEF Spec

\* Until a flush reports an error, every change is stored, on its way, or known to a marked
\* record, unless its record was evicted before it was drained: for any number of assets and
\* changes, any batch size and any number of retries.
THEOREM NothingIsForgotten == Spec => []NothingForgotten
<1>1. Inv => NothingForgotten
  BY PersisterInvGives DEF Inv
<1> QED BY <1>1, InitInv, StepInv, PTL DEF Spec

\* Overflow, retries and batches keep the order of an asset's snapshots, so that until the final
\* flush no older status is written over a newer one.
THEOREM StatusNeverGoesBack == Spec => StatusInOrder
<1> DEFINE A == \A a \in Assets : phase \in {"pipeline", "flush"} => db[a].status <= db'[a].status
<1>1. Init => Inv /\ OrderInv
  BY InitInv, InitOrder
<1>2. Inv /\ OrderInv /\ [Next]_vars => (Inv /\ OrderInv)'
  BY StepInv, StepOrder
<1>3. Inv /\ OrderInv /\ [Next]_vars => A
  BY StepOrder
<1> QED BY <1>1, <1>2, <1>3, PTL DEF Spec, StatusInOrder, A
=============================================================================
