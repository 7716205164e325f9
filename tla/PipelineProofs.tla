--------------------------- MODULE PipelineProofs ----------------------------
(***************************************************************************)
(* The pipeline for any number of workers, packets and observations, and   *)
(* any size of the channel: no packet is lost between the counters, and a  *)
(* capture that ends by itself has been processed to the last packet.      *)
(* Before that the packet rate for a ring of any size: its total never     *)
(* underflows.                                                             *)
(***************************************************************************)
EXTENDS Pipeline, FiniteSetTheorems, TLAPS

-----------------------------------------------------------------------------
(* The packet rate *)

\* Why the total never underflows: rotate clears the bucket it has just counted, so the others
\* are empty, and the total is that bucket.
TotalIsCurrentBucket ==
    /\ total = buckets[cur]
    /\ \A i \in Slots \ {cur} : buckets[i] = 0

RateInv == RateTypeOK /\ TotalIsCurrentBucket

\* At first every bucket is empty.
LEMMA RateInitInv == RateInit => RateInv
BY SizeAssumption DEF RateInit, RateInv, RateTypeOK, TotalIsCurrentBucket, Slots

\* Counting adds the same one to the total and the current bucket.
LEMMA IncKeepsInv == RateInv /\ Inc => RateInv'
<1> SUFFICES ASSUME RateInv, Inc PROVE RateInv'
  OBVIOUS
<1>1. /\ buckets \in [Slots -> Nat]
      /\ cur \in Slots /\ total \in Nat
      /\ total = buckets[cur]
  BY DEF RateInv, RateTypeOK, TotalIsCurrentBucket
<1>2. buckets' \in [Slots -> Nat] /\ buckets'[cur] = buckets[cur] + 1
  BY <1>1 DEF Inc
<1>3. \A i \in Slots \ {cur} : buckets'[i] = 0
  BY <1>1 DEF Inc, RateInv, TotalIsCurrentBucket
<1>4. total' = total + 1 /\ total' \in Nat /\ cur' = cur
  BY <1>1 DEF Inc
<1> QED BY <1>1, <1>2, <1>3, <1>4 DEF RateInv, RateTypeOK, TotalIsCurrentBucket

\* A rotation clears the only bucket that was not empty, and with it the total; the next bucket
\* is empty because it is another one, or the one just cleared.
LEMMA RotateKeepsInv == RateInv /\ rotate => RateInv'
<1> SUFFICES ASSUME RateInv, rotate PROVE RateInv'
  OBVIOUS
<1>1. cur \in Slots /\ total \in Nat /\ total = buckets[cur] /\ buckets \in [Slots -> Nat]
  BY DEF RateInv, RateTypeOK, TotalIsCurrentBucket
<1>2. total' = 0
  BY <1>1 DEF rotate
<1>3. \A i \in Slots : buckets'[i] = 0
  BY <1>1 DEF rotate, RateInv, TotalIsCurrentBucket
<1>4. cur' \in Slots
  BY <1>1, SizeAssumption DEF rotate, Slots
<1>5. buckets' \in [Slots -> Nat]
  BY <1>1 DEF rotate
<1> QED BY <1>2, <1>3, <1>4, <1>5 DEF RateInv, RateTypeOK, TotalIsCurrentBucket

\* Whatever Inc and rotate interleave, and for a ring of any size, every counter of the meter is
\* a natural number: the subtraction of unsigned numbers in rotate never wraps.
THEOREM RateNeverWraps == RateSpec => []RateTypeOK
<1>1. RateInv /\ [RateNext]_rateVars => RateInv'
  <2> SUFFICES ASSUME RateInv, [RateNext]_rateVars PROVE RateInv'
    OBVIOUS
  <2>1. CASE UNCHANGED rateVars
    BY <2>1 DEF rateVars, RateInv, RateTypeOK, TotalIsCurrentBucket
  <2> QED BY <2>1, IncKeepsInv, RotateKeepsInv DEF RateNext
<1>2. RateInv => RateTypeOK
  BY DEF RateInv
<1> QED BY <1>1, <1>2, RateInitInv, PTL DEF RateSpec

-----------------------------------------------------------------------------

USE PipelineAssumption

-----------------------------------------------------------------------------
(* Counting workers *)

Count(f, pc) == Cardinality({w \in Workers : f[w].pc = pc})

\* At is Count of the workers as they are.
LEMMA AtIsCount == \A pc : At(pc) = Count(worker, pc) /\ At(pc)' = Count(worker', pc)
BY DEF At, Count

\* A count is a natural number.
LEMMA CountType == ASSUME NEW f, NEW pc PROVE Count(f, pc) \in Nat
<1>1. IsFiniteSet({w \in Workers : f[w].pc = pc})
  BY FS_Subset
<1> QED BY <1>1, FS_CardinalityType DEF Count

One(b) == IF b THEN 1 ELSE 0

\* When one worker goes from one place to another, the count of the first drops by one and that
\* of the second grows by one.
LEMMA CountMoves ==
    ASSUME NEW f, NEW g, NEW w \in Workers, NEW v, NEW pc,
           g[w] = v, \A x \in Workers \ {w} : g[x] = f[x]
    PROVE  Count(g, pc) + One(f[w].pc = pc) = Count(f, pc) + One(v.pc = pc)
<1> DEFINE S == {x \in Workers \ {w} : f[x].pc = pc}
<1>1. /\ IsFiniteSet(S) /\ w \notin S
      /\ Cardinality(S) \in Nat /\ Cardinality(S \cup {w}) = Cardinality(S) + 1
  <2>1. IsFiniteSet(S) /\ w \notin S
    BY FS_Subset
  <2> QED BY <2>1, FS_AddElement, FS_CardinalityType
<1>2. {x \in Workers : f[x].pc = pc} = IF f[w].pc = pc THEN S \cup {w} ELSE S
  OBVIOUS
<1>3. {x \in Workers : g[x].pc = pc} = IF v.pc = pc THEN S \cup {w} ELSE S
  OBVIOUS
<1> HIDE DEF S
<1>4. Count(f, pc) = Cardinality(S) + One(f[w].pc = pc)
  <2>1. CASE f[w].pc = pc
    <3>1. Count(f, pc) = Cardinality(S \cup {w})
      BY <1>2, <2>1 DEF Count
    <3> QED BY <1>1, <2>1, <3>1 DEF One
  <2>2. CASE f[w].pc # pc
    <3>1. Count(f, pc) = Cardinality(S)
      BY <1>2, <2>2 DEF Count
    <3> QED BY <1>1, <2>2, <3>1 DEF One
  <2> QED BY <2>1, <2>2
<1>5. Count(g, pc) = Cardinality(S) + One(v.pc = pc)
  <2>1. CASE v.pc = pc
    <3>1. Count(g, pc) = Cardinality(S \cup {w})
      BY <1>3, <2>1 DEF Count
    <3> QED BY <1>1, <2>1, <3>1 DEF One
  <2>2. CASE v.pc # pc
    <3>1. Count(g, pc) = Cardinality(S)
      BY <1>3, <2>2 DEF Count
    <3> QED BY <1>1, <2>2, <3>1 DEF One
  <2> QED BY <2>1, <2>2
<1> QED BY <1>1, <1>4, <1>5 DEF One

-----------------------------------------------------------------------------
(* Type correctness *)

TypeInv == TypeOK /\ TotalIsCurrentBucket

\* At the start nothing has been counted, sent or taken.
LEMMA InitType == Init => TypeInv
<1> SUFFICES ASSUME Init PROVE TypeInv
  OBVIOUS
<1>1. RateTypeOK /\ TotalIsCurrentBucket
  BY RateInitInv DEF Init, RateInv
<1>2. Waiting \in WorkerState /\ Waiting.pc # "applying" /\ ~(Waiting.left > 0)
  BY DEF Waiting, WorkerState
<1>3. /\ worker \in [Workers -> WorkerState]
      /\ \A w \in Workers : worker[w].pc = "applying" <=> worker[w].left > 0
  BY <1>2 DEF Init
<1>4. live \in BOOLEAN /\ cancelled \in BOOLEAN
  BY DEF Init
<1>5. /\ unread \in 0..Packets /\ queue \in 0..QueueSize
      /\ pump = "reading" /\ main = "run"
  BY DEF Init
<1>6. {accepted, processed, applied, packetsRecv, packetsRead} \subseteq Nat
  BY DEF Init
<1> QED BY <1>1, <1>3, <1>4, <1>5, <1>6 DEF TypeInv, TypeOK

\* The pump only counts down what is unread, and fills the channel up to its size.
LEMMA PumpType == TypeInv /\ PumpSource => TypeInv'
<1> SUFFICES ASSUME TypeInv, PumpSource PROVE TypeInv'
  OBVIOUS
<1> USE DEF PumpStep
<1>1. /\ live' \in BOOLEAN /\ cancelled' \in BOOLEAN /\ unread' \in 0..Packets
      /\ pump' \in {"reading", "sending", "sent", "ended", "closed"}
      /\ queue' \in 0..QueueSize /\ accepted' \in Nat
  BY DEF TypeInv, TypeOK, PumpSource, ReadPacket, SkipPacket, SendPacket, RecordAccepted,
         SourceEnds, PumpCancelled, CloseQueue
<1>2. UNCHANGED <<worker, counterVars, mainVars, rateVars>>
  BY DEF PumpSource
<1> QED BY <1>1, <1>2 DEF TypeInv, TypeOK, RateTypeOK, TotalIsCurrentBucket, rateVars,
                          counterVars, mainVars

WorkersTyped ==
    /\ worker \in [Workers -> WorkerState]
    /\ \A w \in Workers : worker[w].pc = "applying" <=> worker[w].left > 0

\* What Goes leaves is a worker with observations exactly if it is applying.
LEMMA GoesType ==
    ASSUME WorkersTyped, NEW w \in Workers, NEW pc, NEW left, Goes(w, pc, left),
           [pc |-> pc, left |-> left] \in WorkerState, pc = "applying" <=> left > 0
    PROVE  WorkersTyped'
<1>1. worker'[w] = [pc |-> pc, left |-> left] /\ \A x \in Workers \ {w} : worker'[x] = worker[x]
  BY DEF Goes, WorkersTyped
<1>2. worker' \in [Workers -> WorkerState]
  BY DEF Goes, WorkersTyped
<1> QED BY <1>1, <1>2 DEF WorkersTyped

\* A worker's step keeps the types; the meter is fed in RecordPacket alone.
LEMMA WorkerType == TypeInv /\ (\E w \in Workers : WorkerLoop(w)) => TypeInv'
<1> SUFFICES ASSUME TypeInv, NEW w \in Workers, WorkerLoop(w) PROVE TypeInv'
  OBVIOUS
<1>1. /\ WorkersTyped /\ RateInv /\ queue \in 0..QueueSize
      /\ processed \in Nat /\ applied \in Nat /\ packetsRecv \in Nat
  BY DEF TypeInv, TypeOK, WorkersTyped, RateInv
<1>2. SUFFICES /\ WorkersTyped' /\ RateInv' /\ queue' \in 0..QueueSize
               /\ processed' \in Nat /\ applied' \in Nat /\ packetsRecv' \in Nat
  <2>1. UNCHANGED <<sourceVars, mainVars>>
    BY DEF WorkerLoop
  <2> QED BY <1>2, <2>1 DEF TypeInv, TypeOK, WorkersTyped, RateInv, sourceVars, mainVars
<1>3. UNCHANGED rateVars => RateInv'
  BY <1>1 DEF RateInv, RateTypeOK, TotalIsCurrentBucket, rateVars
<1>4. CASE Receive(w)
  <2>1. WorkersTyped'
    BY <1>1, <1>4, GoesType DEF Receive, WorkerState
  <2> QED BY <1>1, <1>3, <1>4, <2>1 DEF Receive, counterVars
<1>5. CASE SeesClosed(w)
  <2>1. WorkersTyped'
    BY <1>1, <1>5, GoesType DEF SeesClosed, WorkerState
  <2> QED BY <1>1, <1>3, <1>5, <2>1 DEF SeesClosed, counterVars
<1>6. CASE SeesCancel(w)
  <2>1. WorkersTyped'
    BY <1>1, <1>6, GoesType DEF SeesCancel, WorkerState
  <2> QED BY <1>1, <1>3, <1>6, <2>1 DEF SeesCancel, counterVars
<1>7. CASE AddProcessed(w)
  <2>1. WorkersTyped'
    BY <1>1, <1>7, GoesType DEF AddProcessed, WorkerState
  <2> QED BY <1>1, <1>3, <1>7, <2>1 DEF AddProcessed
<1>8. CASE RecordPacket(w)
  <2>1. PICK n \in 0..MaxObservations : Goes(w, IF n = 0 THEN "waiting" ELSE "applying", n)
    BY <1>8 DEF RecordPacket
  <2>2. WorkersTyped'
    BY <1>1, <2>1, GoesType DEF WorkerState
  <2>3. RateInv'
    BY <1>1, <1>8, IncKeepsInv DEF RecordPacket
  <2> QED BY <1>1, <1>8, <2>2, <2>3 DEF RecordPacket
<1>9. CASE Apply(w)
  <2>1. worker[w].left \in 1..MaxObservations
    BY <1>1, <1>9 DEF Apply, WorkersTyped, WorkerState
  <2>2. WorkersTyped'
    BY <1>1, <1>9, <2>1, GoesType DEF Apply, NextObservation, WorkerState
  <2> QED BY <1>1, <1>3, <1>9, <2>2 DEF Apply
<1> QED BY <1>4, <1>5, <1>6, <1>7, <1>8, <1>9 DEF WorkerLoop

\* main, the signal and the rotation keep the types.
LEMMA OthersType == TypeInv /\ (RunReturns \/ SourceResult \/ Cancel \/ RotateRate) => TypeInv'
<1> SUFFICES ASSUME TypeInv, RunReturns \/ SourceResult \/ Cancel \/ RotateRate PROVE TypeInv'
  OBVIOUS
<1>1. CASE RotateRate
  <2>1. RateInv'
    BY <1>1, RotateKeepsInv DEF RotateRate, RateInv, TypeInv, TypeOK
  <2> QED BY <1>1, <2>1 DEF RotateRate, TypeInv, TypeOK, RateInv, sourceVars, counterVars, mainVars
<1>2. CASE RunReturns
  BY <1>2 DEF RunReturns, TypeInv, TypeOK, RateTypeOK, TotalIsCurrentBucket, sourceVars,
              counterVars, rateVars
<1>3. CASE SourceResult
  BY <1>3 DEF SourceResult, TypeInv, TypeOK, RateTypeOK, TotalIsCurrentBucket, sourceVars,
              counterVars, rateVars
<1>4. CASE Cancel
  BY <1>4 DEF Cancel, TypeInv, TypeOK, RateTypeOK, TotalIsCurrentBucket, counterVars, mainVars,
              rateVars
<1> QED BY <1>1, <1>2, <1>3, <1>4

\* Every step of pump, workers, meter and main keeps the types.
LEMMA TypeStep == TypeInv /\ [Next]_vars => TypeInv'
<1>1. TypeInv /\ UNCHANGED vars => TypeInv'
  BY DEF vars, TypeInv, TypeOK, RateTypeOK, TotalIsCurrentBucket, sourceVars, counterVars,
         mainVars, rateVars
<1> QED BY <1>1, PumpType, WorkerType, OthersType DEF Next

\* Types hold for any number of workers and packets and any size of the channel and of the
\* meter's ring; the channel never holds more than its size, and no counter wraps.
THEOREM PipelineTypeCorrect == Spec => []TypeOK
<1>1. TypeInv => TypeOK
  BY DEF TypeInv
<1> QED BY <1>1, InitType, TypeStep, PTL DEF Spec

-----------------------------------------------------------------------------
(* Conservation *)

\* PacketsConserved, with the counts of the workers as numbers.
Balanced(sent, inReceived, inCounted, acc, proc, q, recv) ==
    /\ acc + One(sent) = proc + q + inReceived
    /\ proc = recv + inCounted

\* PacketsConserved as one equation of numbers.
LEMMA ConservedIsBalanced ==
    /\ PacketsConserved <=> Balanced(pump = "sent", Count(worker, "received"),
                                     Count(worker, "counted"), accepted, processed, queue, packetsRecv)
    /\ PacketsConserved' <=> Balanced(pump' = "sent", Count(worker', "received"),
                                      Count(worker', "counted"), accepted', processed', queue', packetsRecv')
BY AtIsCount DEF PacketsConserved, Balanced, One

\* The count of a place after a worker went to another.
LEMMA GoesCounted ==
    ASSUME TypeInv, NEW w \in Workers, NEW pc, NEW left, Goes(w, pc, left),
           [pc |-> pc, left |-> left] \in WorkerState, NEW q
    PROVE  /\ Count(worker', q) + One(worker[w].pc = q) = Count(worker, q) + One(pc = q)
           /\ Count(worker', q) \in Nat /\ Count(worker, q) \in Nat
<1>1. worker \in [Workers -> WorkerState] /\ worker' = [worker EXCEPT ![w] = [pc |-> pc, left |-> left]]
  BY DEF TypeInv, TypeOK, Goes
<1>2. /\ worker'[w] = [pc |-> pc, left |-> left]
      /\ \A x \in Workers \ {w} : worker'[x] = worker[x]
  BY <1>1
<1>3. Count(worker', q) + One(worker[w].pc = q)
        = Count(worker, q) + One([pc |-> pc, left |-> left].pc = q)
  BY <1>2, CountMoves
<1> QED BY <1>3, CountType

\* At the start all counts are zero.
LEMMA InitConserved == Init => PacketsConserved
<1> SUFFICES ASSUME Init PROVE PacketsConserved
  OBVIOUS
<1>1. ASSUME NEW pc, pc # "waiting" PROVE Count(worker, pc) = 0
  <2>1. {w \in Workers : worker[w].pc = pc} = {}
    BY <1>1 DEF Init, Waiting
  <2> QED BY <2>1, FS_EmptySet DEF Count
<1> QED BY <1>1, ConservedIsBalanced DEF Init, Balanced, One

\* A packet that moves from one place to another leaves the balance as it is.
LEMMA Shifted ==
    ASSUME NEW a \in Nat, NEW b \in Nat, NEW c \in Nat, NEW a1 \in Nat, NEW b1 \in Nat,
           NEW c1 \in Nat, NEW n \in Nat, NEW m \in Nat,
           a1 + b1 - c1 = a + b - c, a + b = n + c + m
    PROVE  a1 + b1 = n + c1 + m
OBVIOUS

\* Each step of the pump moves a packet: from unread into its hands, into the channel, or out of
\* them once it is counted.
LEMMA PumpConserves == TypeInv /\ PacketsConserved /\ PumpSource => PacketsConserved'
<1> SUFFICES ASSUME TypeInv, PacketsConserved, PumpSource PROVE PacketsConserved'
  OBVIOUS
<1> USE DEF PumpStep
<1>1. accepted \in Nat /\ processed \in Nat /\ queue \in Nat /\ packetsRecv \in Nat
  BY DEF TypeInv, TypeOK
<1>2. Count(worker, "received") \in Nat /\ Count(worker, "counted") \in Nat
  BY CountType
<1>3. worker' = worker /\ processed' = processed /\ packetsRecv' = packetsRecv
  BY DEF PumpSource, counterVars
<1>4. accepted' + One(pump' = "sent") - queue' = accepted + One(pump = "sent") - queue
  BY <1>1 DEF PumpSource, ReadPacket, SkipPacket, SendPacket, RecordAccepted, SourceEnds,
              PumpCancelled, CloseQueue, One
<1>5. accepted' \in Nat /\ queue' \in Nat
  BY PumpType DEF TypeInv, TypeOK
<1>6. Balanced(pump = "sent", Count(worker, "received"), Count(worker, "counted"),
               accepted, processed, queue, packetsRecv)
  BY ConservedIsBalanced
<1>7. /\ One(pump = "sent") \in Nat /\ One(pump' = "sent") \in Nat
      /\ Count(worker, "received") \in Nat
  BY <1>2 DEF One
<1>8. Balanced(pump' = "sent", Count(worker, "received"), Count(worker, "counted"),
               accepted', processed, queue', packetsRecv)
  <2>1. accepted + One(pump = "sent") = processed + queue + Count(worker, "received")
    BY <1>6 DEF Balanced
  <2>2. accepted' + One(pump' = "sent") = processed + queue' + Count(worker, "received")
    BY <1>1, <1>4, <1>5, <1>7, <2>1, Shifted
  <2> QED BY <1>6, <2>2 DEF Balanced
<1> QED BY <1>3, <1>8, ConservedIsBalanced

\* Each step of a worker moves a packet, or none.
LEMMA WorkerConserves ==
    TypeInv /\ PacketsConserved /\ (\E w \in Workers : WorkerLoop(w)) => PacketsConserved'
<1> SUFFICES ASSUME TypeInv, PacketsConserved, NEW w \in Workers, WorkerLoop(w)
             PROVE  PacketsConserved'
  OBVIOUS
<1>1. /\ accepted \in Nat /\ processed \in Nat /\ queue \in Nat /\ packetsRecv \in Nat
      /\ worker \in [Workers -> WorkerState]
      /\ UNCHANGED <<accepted, pump>>
  BY DEF TypeInv, TypeOK, WorkerLoop, sourceVars
<1>2. CASE Receive(w)
  <2>1. [pc |-> "received", left |-> 0] \in WorkerState
    BY DEF WorkerState
  <2> QED BY <1>1, <1>2, <2>1, GoesCounted, ConservedIsBalanced
          DEF Receive, Balanced, One, counterVars
<1>3. CASE SeesClosed(w) \/ SeesCancel(w)
  <2>1. [pc |-> "returned", left |-> 0] \in WorkerState
    BY DEF WorkerState
  <2> QED BY <1>1, <1>3, <2>1, GoesCounted, ConservedIsBalanced
          DEF SeesClosed, SeesCancel, Balanced, One, counterVars
<1>4. CASE AddProcessed(w)
  <2>1. [pc |-> "counted", left |-> 0] \in WorkerState
    BY DEF WorkerState
  <2> QED BY <1>1, <1>4, <2>1, GoesCounted, ConservedIsBalanced
          DEF AddProcessed, Balanced, One
<1>5. CASE RecordPacket(w)
  <2>1. PICK n \in 0..MaxObservations : Goes(w, IF n = 0 THEN "waiting" ELSE "applying", n)
    BY <1>5 DEF RecordPacket
  <2>2. [pc |-> IF n = 0 THEN "waiting" ELSE "applying", left |-> n] \in WorkerState
    BY DEF WorkerState
  <2>3. \A q : /\ Count(worker', q) + One(worker[w].pc = q)
                   = Count(worker, q) + One((IF n = 0 THEN "waiting" ELSE "applying") = q)
               /\ Count(worker', q) \in Nat /\ Count(worker, q) \in Nat
    BY <2>1, <2>2, GoesCounted
  <2> QED BY <1>1, <1>5, <2>3, ConservedIsBalanced DEF RecordPacket, Balanced, One
<1>6. CASE Apply(w)
  <2>1. worker[w].left \in 1..MaxObservations /\ worker[w].pc = "applying"
    BY <1>6 DEF Apply, TypeInv, TypeOK, WorkerState
  <2> DEFINE left == worker[w].left - 1
             pc == IF left = 0 THEN "waiting" ELSE "applying"
  <2>2. [pc |-> pc, left |-> left] \in WorkerState
    BY <2>1 DEF WorkerState
  <2>3. Goes(w, pc, left)
    BY <1>6 DEF Apply, NextObservation
  <2>4. pc # "received" /\ pc # "counted"
    OBVIOUS
  <2> HIDE DEF pc, left
  <2>5. \A q : /\ Count(worker', q) + One(worker[w].pc = q) = Count(worker, q) + One(pc = q)
               /\ Count(worker', q) \in Nat /\ Count(worker, q) \in Nat
    BY <2>2, <2>3, GoesCounted
  <2>6. UNCHANGED <<queue, processed, packetsRecv>>
    BY <1>6 DEF Apply
  <2>7. Count(worker', "received") = Count(worker, "received")
        /\ Count(worker', "counted") = Count(worker, "counted")
    BY <2>1, <2>4, <2>5 DEF One
  <2> QED BY <1>1, <2>6, <2>7, ConservedIsBalanced
<1> QED BY <1>2, <1>3, <1>4, <1>5, <1>6 DEF WorkerLoop

\* No step makes, loses or counts a packet twice.
LEMMA ConservedStep == TypeInv /\ PacketsConserved /\ [Next]_vars => PacketsConserved'
<1>1. PacketsConserved /\ UNCHANGED <<pump, accepted, queue, worker, processed, packetsRecv>>
        => PacketsConserved'
  BY DEF PacketsConserved, At
<1> QED BY <1>1, PumpConserves, WorkerConserves
        DEF Next, RunReturns, SourceResult, Cancel, RotateRate, vars, sourceVars, counterVars

\* At every moment, whatever select chooses and wherever a signal comes, the counts of the
\* source, of the pipeline and of the manager differ by what is in the channel and in the hands
\* of the pump and the workers.
THEOREM PacketsAreConserved == Spec => []PacketsConserved
<1> DEFINE Inv == TypeInv /\ PacketsConserved
<1>1. Init => Inv
  BY InitType, InitConserved
<1>2. Inv /\ [Next]_vars => Inv'
  BY TypeStep, ConservedStep
<1> QED BY <1>1, <1>2, PTL DEF Spec

-----------------------------------------------------------------------------
(* The end of a capture *)

\* Why the end is complete: as long as no signal came, the pump ends only with nothing left to
\* read, and a worker returns only when the channel is closed and empty, which it stays.
EndInv ==
    ~cancelled =>
        /\ pump \in {"ended", "closed"} => unread = 0
        /\ \A w \in Workers : worker[w].pc = "returned" => pump = "closed" /\ queue = 0
        /\ main # "run" => \A w \in Workers : worker[w] = Returned
        /\ main # "run" => packetsRead = accepted /\ processed = accepted

\* Where no worker holds a packet there are none in workers' hands.
LEMMA NobodyReceived ==
    ASSUME \A w \in Workers : worker[w] = Returned PROVE Count(worker, "received") = 0
<1>1. {w \in Workers : worker[w].pc = "received"} = {}
  BY DEF Returned
<1> QED BY <1>1, FS_EmptySet DEF Count

\* Every step keeps what is known of a capture that has ended.
LEMMA EndStep == TypeInv /\ PacketsConserved /\ EndInv /\ [Next]_vars => EndInv'
<1> SUFFICES ASSUME TypeInv, PacketsConserved, EndInv, [Next]_vars, ~cancelled'
             PROVE  EndInv'
  BY DEF EndInv
<1>0. ~cancelled
  BY DEF Next, PumpSource, ReadPacket, SkipPacket, SendPacket, RecordAccepted, SourceEnds,
         PumpCancelled, CloseQueue, WorkerLoop, RunReturns, SourceResult, Cancel, RotateRate,
         vars, sourceVars
<1>1. PICK u \in Workers : TRUE
  OBVIOUS
<1>2. CASE PumpSource
  <2>1. UNCHANGED <<worker, processed, main, packetsRead>>
    BY <1>2 DEF PumpSource, counterVars, mainVars
  <2>2. main # "run" => pump = "closed"
    BY <1>0, <1>1 DEF EndInv, Returned
  <2>3. pump # "closed"
    BY <1>2 DEF PumpSource, PumpStep, ReadPacket, SkipPacket, SendPacket, RecordAccepted,
                SourceEnds, PumpCancelled, CloseQueue
  <2>4. \A w \in Workers : worker[w].pc # "returned"
    BY <1>0, <2>3 DEF EndInv
  <2>5. pump' \in {"ended", "closed"} => unread' = 0
    BY <1>0, <1>2 DEF EndInv, PumpSource, PumpStep, ReadPacket, SkipPacket, SendPacket,
                      RecordAccepted, SourceEnds, PumpCancelled, CloseQueue
  <2> QED BY <2>1, <2>2, <2>3, <2>4, <2>5 DEF EndInv
<1>3. CASE \E w \in Workers : WorkerLoop(w)
  <2>1. PICK w \in Workers : WorkerLoop(w)
    BY <1>3
  <2>2. UNCHANGED <<pump, unread, accepted, main, packetsRead>>
    BY <2>1 DEF WorkerLoop, sourceVars, mainVars
  <2>3. worker[w].pc # "returned"
    BY <2>1 DEF WorkerLoop, Receive, SeesClosed, SeesCancel, AddProcessed, RecordPacket, Apply
  <2>4. main = "run"
    BY <1>0, <2>3 DEF EndInv, Returned
  <2>5. \A x \in Workers \ {w} : worker'[x] = worker[x]
    BY <2>1 DEF WorkerLoop, Receive, SeesClosed, SeesCancel, AddProcessed, RecordPacket, Apply,
                NextObservation, Goes, TypeInv, TypeOK
  <2>6. worker'[w].pc = "returned" => pump = "closed" /\ queue = 0 /\ queue' = 0
    BY <1>0, <2>1 DEF WorkerLoop, Receive, SeesClosed, SeesCancel, AddProcessed, RecordPacket,
                      Apply, NextObservation, Goes, TypeInv, TypeOK
  <2>7. (queue = 0 => queue' = 0)
    BY <2>1 DEF WorkerLoop, Receive, SeesClosed, SeesCancel, AddProcessed, RecordPacket, Apply
  <2> QED BY <1>0, <2>2, <2>4, <2>5, <2>6, <2>7 DEF EndInv
<1>4. CASE RunReturns
  <2>1. \A w \in Workers : worker[w] = Returned
    BY <1>4 DEF RunReturns
  <2>2. pump = "closed" /\ queue = 0
    BY <1>0, <1>1, <2>1 DEF EndInv, Returned
  <2>3. processed = accepted
    BY <2>1, <2>2, NobodyReceived, ConservedIsBalanced DEF Balanced, One, TypeInv, TypeOK
  <2> QED BY <1>0, <1>4, <2>1, <2>2, <2>3 DEF EndInv, RunReturns, sourceVars, counterVars
<1>5. CASE SourceResult \/ RotateRate \/ UNCHANGED vars
  <2>1. UNCHANGED <<cancelled, pump, unread, queue, worker, accepted, processed, packetsRead>>
    BY <1>5 DEF SourceResult, RotateRate, vars, sourceVars, counterVars, mainVars
  <2>2. main' # "run" => main # "run"
    BY <1>5 DEF SourceResult, RotateRate, vars, mainVars
  <2> QED BY <2>1, <2>2 DEF EndInv
<1>6. CASE Cancel
  BY <1>6 DEF Cancel
<1> QED BY <1>2, <1>3, <1>4, <1>5, <1>6 DEF Next

\* A capture that ends by itself has been processed to the last packet when main goes on, and
\* the number main reports as read is the number processed.
THEOREM EndCorrect == Spec => []EndIsComplete
<1> DEFINE Inv == TypeInv /\ PacketsConserved /\ EndInv
<1>1. Init => Inv
  <2>1. Init => EndInv
    BY DEF Init, EndInv, Waiting
  <2> QED BY <2>1, InitType, InitConserved
<1>2. Inv /\ [Next]_vars => Inv'
  BY TypeStep, ConservedStep, EndStep
<1>3. Inv => EndIsComplete
  <2>1. PICK u \in Workers : TRUE
    OBVIOUS
  <2> QED BY <2>1 DEF EndInv, EndIsComplete, Returned
<1> QED BY <1>1, <1>2, <1>3, PTL DEF Spec
=============================================================================
