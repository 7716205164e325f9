----------------------- MODULE EthernetThrottleProofs -----------------------
(* Theorems about EthernetThrottle, for any number of devices and workers, any throttle and
   offline threshold, and any frames. *)
EXTENDS EthernetThrottle, SequenceTheorems, TLAPS

-----------------------------------------------------------------------------
(* Type correctness *)

\* The operators that make observations return sequences of them.
LEMMA ReportTypes ==
    ASSUME NEW f \in Frame
    PROVE  /\ \A m \in Address : Said(m, f) \in Seq(Observation)
           /\ SourceThrottled(f) \in Seq(Observation)
           /\ Reports(f) \in Seq(Observation)
<1>1. ASSUME NEW m \in Address PROVE Said(m, f) \in Seq(Observation)
  <2>1. m # Elsewhere => Sighting(m, f) \in Observation
    BY DEF Address, Sighting, Observation, Frame
  <2>. QED BY <2>1 DEF Said
<1>2. f.src \in Address /\ f.dst \in Address /\ f.who \in Address /\ f.target \in Address
  BY DEF Frame
<1>3. SourceThrottled(f) \in Seq(Observation)
  BY <1>1, <1>2 DEF SourceThrottled
<1>4. \A m \in {f.src, f.dst, f.who, f.target} : Said(m, f) \in Seq(Observation)
  BY <1>1, <1>2
<1>5. ARP(f) \in Seq(Observation)
  <2>1. Said(f.who, f) \o Said(f.target, f) \in Seq(Observation)
    BY <1>4
  <2>. QED BY <1>4, <2>1 DEF ARP
<1>6. Reports(f) \in Seq(Observation)
  <2>1. /\ DHCPv4(f) \in Seq(Observation) /\ DHCPv6(f) \in Seq(Observation)
        /\ MDNS(f) \in Seq(Observation) /\ SSDP(f) \in Seq(Observation)
    BY <1>4 DEF DHCPv4, DHCPv6, MDNS, SSDP
  <2>. QED BY <1>5, <2>1 DEF Reports
<1>. QED BY <1>1, <1>3, <1>6

\* A worker with a frame in hand: the parts of its state have their types.
LEMMA AtType ==
    ASSUME TypeOK, NEW w \in Workers, worker[w] # Idle
    PROVE  /\ worker[w].frame \in Frame
           /\ worker[w].frame.src \in Address
           /\ worker[w].frame.dst \in Address
           /\ worker[w].frame.at \in Times
           /\ worker[w].out \in Seq(Observation)
BY DEF TypeOK, Analysis, Frame

\* A new stage of a worker that has its type, with more said, has its type.
LEMMA GotoType ==
    ASSUME TypeOK, NEW w \in Workers, worker[w] # Idle,
           NEW pc \in {"src", "srcStore", "dst", "dstStore", "apply"},
           NEW said \in Seq(Observation), Goto(w, pc, said)
    PROVE  worker' \in [Workers -> Analysis \cup {Idle}]
<1>1. worker[w].out \o said \in Seq(Observation)
  BY AtType
<1>2. [frame |-> worker[w].frame, pc |-> pc, out |-> worker[w].out \o said] \in Analysis
  BY <1>1, AtType DEF Analysis
<1>. QED BY <1>2 DEF Goto, TypeOK

\* What Goto and Return leave of the worker and of the others.
LEMMA GotoShape ==
    ASSUME TypeOK, NEW w \in Workers, NEW pc, NEW said, Goto(w, pc, said)
    PROVE  /\ worker'[w].frame = worker[w].frame
           /\ worker'[w].pc = pc
           /\ \A v \in Workers \ {w} : worker'[v] = worker[v]
<1>. DEFINE out == worker[w].out \o said
<1>1. worker' = [worker EXCEPT ![w] = [frame |-> worker[w].frame, pc |-> pc, out |-> out]]
  BY DEF Goto
<1>. HIDE DEF out
<1>. QED BY <1>1 DEF TypeOK

\* A worker that returns is idle, or about to apply; the others stay.
LEMMA ReturnShape ==
    ASSUME TypeOK, NEW w \in Workers, NEW said, Return(w, said)
    PROVE  /\ worker'[w] = Idle \/ worker'[w].pc = "apply"
           /\ \A v \in Workers \ {w} : worker'[v] = worker[v]
<1>1. CASE Goto(w, "apply", said) BY <1>1, GotoShape
<1>2. CASE worker' = [worker EXCEPT ![w] = Idle] BY <1>2 DEF TypeOK
<1>. QED BY <1>1, <1>2 DEF Return

\* It stays an analysis, or idle.
LEMMA ReturnType ==
    ASSUME TypeOK, NEW w \in Workers, worker[w] # Idle,
           NEW said \in Seq(Observation), Return(w, said)
    PROVE  worker' \in [Workers -> Analysis \cup {Idle}]
<1>1. CASE Goto(w, "apply", said)
  BY <1>1, GotoType
<1>2. CASE worker' = [worker EXCEPT ![w] = Idle]
  BY <1>2 DEF TypeOK
<1>. QED BY <1>1, <1>2 DEF Return

\* What was last heard of a MAC stays a time.
LEMMA AnalysedType ==
    ASSUME TypeOK, NEW f \in Frame, Analysed(f)
    PROVE  talked' \in [MACs -> 0..MaxTime]
BY DEF TypeOK, Frame, Times, Analysed, Later

\* The worker whose observation was applied goes on with the next one.
LEMMA AppliedShape ==
    ASSUME TypeOK, NEW w \in Workers, worker[w] # Idle, worker[w].out # <<>>, Applied(w)
    PROVE  /\ Current(w) \in Observation
           /\ worker' \in [Workers -> Analysis \cup {Idle}]
           /\ worker'[w] # Idle => worker'[w].pc = "apply" /\ worker'[w].out = Tail(worker[w].out)
           /\ Tail(worker[w].out) # <<>> => worker'[w] # Idle
           /\ \A v \in Workers \ {w} : worker'[v] = worker[v]
<1>. DEFINE rest == Tail(worker[w].out)
            next == [worker[w] EXCEPT !.pc = "apply", !.out = rest]
<1>1. worker[w].out \in Seq(Observation) BY AtType
<1>2. Current(w) \in Observation /\ rest \in Seq(Observation)
  BY <1>1, HeadTailProperties DEF Current
<1>3. worker[w] \in Analysis BY DEF TypeOK
<1>4. next \in Analysis /\ next.pc = "apply" /\ next.out = rest
  <2>. HIDE DEF rest
  <2>. QED BY <1>2, <1>3 DEF Analysis
<1>5. worker' = [worker EXCEPT ![w] = IF rest = <<>> THEN Idle ELSE next]
  BY DEF Applied
<1>6. next # Idle BY <1>4, ThrottleAssumption
<1>. HIDE DEF rest, next
<1>7. worker' \in [Workers -> Analysis \cup {Idle}] BY <1>4, <1>5 DEF TypeOK
<1>8. worker'[w] = (IF rest = <<>> THEN Idle ELSE next) /\ \A v \in Workers \ {w} : worker'[v] = worker[v]
  BY <1>5 DEF TypeOK
<1>9. /\ worker'[w] # Idle => worker'[w].pc = "apply" /\ worker'[w].out = rest
      /\ rest # <<>> => worker'[w] # Idle
  BY <1>4, <1>6, <1>8
<1>. QED BY <1>2, <1>7, <1>8, <1>9 DEF rest

\* Every step keeps the types.
LEMMA NextType == TypeOK /\ [Next]_vars => TypeOK'
<1>. SUFFICES ASSUME TypeOK, [Next]_vars PROVE TypeOK'
  OBVIOUS
<1>. USE ThrottleAssumption
<1>1. ASSUME NEW w \in Workers, NEW f \in Frames, Receive(w, f) PROVE TypeOK'
  <2>1. [frame |-> f, pc |-> "src", out |-> <<>>] \in Analysis
    BY DEF Analysis
  <2>. QED BY <1>1, <2>1 DEF Receive, TypeOK, history
<1>2. ASSUME NEW w \in Workers, LoadSrc(w) PROVE TypeOK'
  <2>1. worker[w] # Idle BY <1>2 DEF LoadSrc, At
  <2>2. SourceThrottled(worker[w].frame) \in Seq(Observation) /\ <<>> \in Seq(Observation)
    BY <2>1, AtType, ReportTypes
  <2>3. \/ Goto(w, "dst", SourceThrottled(worker[w].frame))
        \/ Goto(w, "srcStore", <<>>)
    BY <1>2 DEF LoadSrc
  <2>4. worker' \in [Workers -> Analysis \cup {Idle}]
    BY <2>1, <2>2, <2>3, GotoType
  <2>. QED BY <1>2, <2>4 DEF LoadSrc, TypeOK, history
<1>3. ASSUME NEW w \in Workers, StoreSrc(w) PROVE TypeOK'
  <2>1. worker[w] # Idle BY <1>3 DEF StoreSrc, At
  <2>2. Said(worker[w].frame.src, worker[w].frame) \in Seq(Observation)
    BY <2>1, AtType, ReportTypes
  <2>3. worker' \in [Workers -> Analysis \cup {Idle}]
    BY <1>3, <2>1, <2>2, GotoType DEF StoreSrc
  <2>4. lastEmit' \in [MACs -> 0..MaxTime]
    <3>1. worker[w].frame.at \in 0..MaxTime BY <2>1, AtType DEF Times
    <3>2. lastEmit' = [lastEmit EXCEPT ![worker[w].frame.src] = worker[w].frame.at]
      BY <1>3 DEF StoreSrc
    <3>. QED BY <3>1, <3>2 DEF TypeOK
  <2>. QED BY <1>3, <2>3, <2>4 DEF StoreSrc, TypeOK, history
<1>4. ASSUME NEW w \in Workers, LoadDst(w) PROVE TypeOK'
  <2>1. worker[w] # Idle BY <1>4 DEF LoadDst, At
  <2>2. Reports(worker[w].frame) \in Seq(Observation) /\ <<>> \in Seq(Observation)
    BY <2>1, AtType, ReportTypes
  <2>3. \/ Return(w, Reports(worker[w].frame)) /\ Analysed(worker[w].frame)
        \/ Goto(w, "dstStore", <<>>) /\ UNCHANGED talked
    BY <1>4 DEF LoadDst
  <2>4. worker' \in [Workers -> Analysis \cup {Idle}]
    BY <2>1, <2>2, <2>3, GotoType, ReturnType
  <2>5. talked' \in [MACs -> 0..MaxTime]
    BY <2>1, <2>3, AtType, AnalysedType DEF TypeOK
  <2>. QED BY <1>4, <2>4, <2>5 DEF LoadDst, TypeOK
<1>5. ASSUME NEW w \in Workers, StoreDst(w) PROVE TypeOK'
  <2>1. worker[w] # Idle BY <1>5 DEF StoreDst, At
  <2>. DEFINE f == worker[w].frame
  <2>2. Said(f.dst, f) \o Reports(f) \in Seq(Observation)
    <3>1. Said(f.dst, f) \in Seq(Observation) /\ Reports(f) \in Seq(Observation)
      BY <2>1, AtType, ReportTypes
    <3>. QED BY <3>1
  <2>3. Return(w, Said(f.dst, f) \o Reports(f)) /\ Analysed(f)
    BY <1>5 DEF StoreDst
  <2>4. worker' \in [Workers -> Analysis \cup {Idle}]
    BY <2>1, <2>2, <2>3, ReturnType
  <2>5. talked' \in [MACs -> 0..MaxTime]
    BY <2>1, <2>3, AtType, AnalysedType
  <2>6. lastDstEmit' \in [MACs -> 0..MaxTime]
    <3>1. f.at \in 0..MaxTime BY <2>1, AtType DEF Times
    <3>2. lastDstEmit' = [lastDstEmit EXCEPT ![f.dst] = f.at]
      BY <1>5 DEF StoreDst
    <3>. QED BY <3>1, <3>2 DEF TypeOK
  <2>. QED BY <1>5, <2>4, <2>5, <2>6 DEF StoreDst, TypeOK
<1>6. ASSUME NEW w \in Workers, Apply(w) PROVE TypeOK'
  <2>1. CASE Resolve(w)
    <3>1. worker[w] # Idle BY <2>1 DEF Resolve, Applying, At
    <3>2. \E pc \in {"new", "known"} : worker' = [worker EXCEPT ![w].pc = pc]
      BY <2>1 DEF Resolve
    <3>3. worker' \in [Workers -> Analysis \cup {Idle}]
      BY <3>1, <3>2 DEF TypeOK, Analysis
    <3>. QED BY <2>1, <3>3 DEF Resolve, TypeOK, history
  <2>2. CASE ApplyKnown(w) \/ ApplyNew(w)
    <3>1. worker[w] # Idle /\ worker[w].out # <<>> /\ Applied(w)
      BY <2>2 DEF ApplyKnown, ApplyNew, Applying, At
    <3>2. Current(w) \in Observation /\ worker' \in [Workers -> Analysis \cup {Idle}]
      BY <3>1, AppliedShape
    <3>3. Current(w).mac \in MACs /\ Current(w).at \in Times BY <3>2 DEF Observation
    <3>4. CASE ApplyKnown(w)
      <4>1. record[Current(w).mac] \in Record BY <3>3, <3>4 DEF ApplyKnown, TypeOK
      <4>2. Merge(record[Current(w).mac], Current(w)) \in Record
        BY <4>1, <3>3 DEF Merge, Later, Record, Times
      <4>3. record' \in [MACs -> Record \cup {NoRecord}]
        BY <3>4, <4>2 DEF ApplyKnown, TypeOK
      <4>. QED BY <3>2, <3>4, <4>3 DEF ApplyKnown, TypeOK, history
    <3>5. CASE ApplyNew(w)
      <4>1. \A s \in Stored : Create(s, Current(w)) \in Record
        BY <3>3 DEF Create, Later, Record, Times
      <4>2. record' \in [MACs -> Record \cup {NoRecord}]
        <5>1. PICK s \in Stored : record' = [record EXCEPT ![Current(w).mac] = Create(s, Current(w))]
          BY <3>5 DEF ApplyNew
        <5>. QED BY <4>1, <5>1 DEF TypeOK
      <4>3. replaced' \in [MACs -> 0..MaxTime]
        <5>. DEFINE m == Current(w).mac
                    gone == IF record[m] = NoRecord THEN replaced[m]
                                                    ELSE Later(replaced[m], record[m].last)
        <5>1. gone \in 0..MaxTime
          <6>1. record[m] \in Record \cup {NoRecord} /\ replaced[m] \in 0..MaxTime
            BY <3>3 DEF TypeOK
          <6>. QED BY <6>1 DEF Later, Record, Times
        <5>2. replaced' = [replaced EXCEPT ![m] = gone] BY <3>5 DEF ApplyNew
        <5>. HIDE DEF gone
        <5>. QED BY <5>1, <5>2 DEF TypeOK
      <4>. QED BY <3>2, <3>5, <4>2, <4>3 DEF ApplyNew, TypeOK
    <3>. QED BY <2>2, <3>4, <3>5
  <2>. QED BY <1>6, <2>1, <2>2 DEF Apply
<1>7. CASE Sweep
  <2>1. record' \in [MACs -> Record \cup {NoRecord}]
    <3>1. now \in 0..MaxTime BY DEF TypeOK, Times
    <3>2. \A m \in MACs : record[m] \in Record =>
              [record[m] EXCEPT !.status = "offline", !.swept = now] \in Record
      BY <3>1 DEF Record
    <3>. QED BY <1>7, <3>2 DEF Sweep, TypeOK
  <2>. QED BY <1>7, <2>1 DEF Sweep, TypeOK, history
<1>8. CASE EvictStale
  <2>1. record' \in [MACs -> Record \cup {NoRecord}]
    BY <1>8 DEF EvictStale, TypeOK
  <2>2. evicted' \in [MACs -> 0..MaxTime]
    BY <1>8 DEF EvictStale, Stale, TypeOK, Later, Record, Times
  <2>. QED BY <1>8, <2>1, <2>2 DEF EvictStale, TypeOK
<1>9. CASE Advance
  BY <1>9 DEF Advance, TypeOK, Times, history
<1>10. CASE UNCHANGED vars
  BY <1>10 DEF vars, TypeOK, history
<1>. QED BY <1>1, <1>2, <1>3, <1>4, <1>5, <1>6, <1>7, <1>8, <1>9, <1>10 DEF Next, Analyse

\* They hold at first.
LEMMA InitType == Init => TypeOK
BY ThrottleAssumption DEF Init, TypeOK, Times

\* The analyzers, the sweep and the clock keep every variable in its type, with any number of
\* workers between a Load and its Store.
THEOREM ThrottleTypeCorrect == Spec => []TypeOK
<1>. QED BY InitType, NextType, PTL DEF Spec

-----------------------------------------------------------------------------
(* What was told is never lost, except with a record that was given up *)

HandGrows == \A o \in Observation : InHand(o) => InHand(o)'

\* The manager knows, is about to be told, or knew in a record it gave up, that m was alive at
\* time t or later.
Told(m, t) == Known(m, t) \/ UpTo(t, evicted[m]) \/ UpTo(t, replaced[m])

ToldGrows == \A m \in MACs, t \in Int : Told(m, t) => Told(m, t)'

\* A worker that moves on keeps its observations and adds what was said.
LEMMA GotoHand ==
    ASSUME TypeOK, NEW w \in Workers, worker[w] # Idle,
           NEW pc \in {"src", "srcStore", "dst", "dstStore", "apply"},
           NEW said \in Seq(Observation), Goto(w, pc, said)
    PROVE  /\ HandGrows
           /\ \A i \in 1..Len(said) : InHand(said[i])'
<1>. DEFINE out == worker[w].out
            stage == [frame |-> worker[w].frame, pc |-> pc, out |-> out \o said]
<1>1. out \in Seq(Observation) BY AtType
<1>2. worker' = [worker EXCEPT ![w] = stage] /\ worker'[w] = stage
  BY DEF Goto, TypeOK
<1>3. stage # Idle
  <2>1. out \o said \in Seq(Observation) BY <1>1
  <2>2. stage \in Analysis BY <2>1, AtType DEF Analysis
  <2>. QED BY <2>2, ThrottleAssumption
<1>4. /\ Len(out \o said) = Len(out) + Len(said) /\ Len(out) \in Nat /\ Len(said) \in Nat
      /\ \A i \in 1..Len(out) : (out \o said)[i] = out[i]
      /\ \A i \in 1..Len(said) : (out \o said)[Len(out) + i] = said[i]
  <2>. HIDE DEF out, stage
  <2>1. Len(out) \in Nat /\ Len(said) \in Nat BY <1>1, LenProperties
  <2>2. Len(out \o said) = Len(out) + Len(said) BY <1>1, ConcatProperties
  <2>3. \A i \in 1..Len(out) : (out \o said)[i] = out[i]
    BY <1>1, <2>1, <2>2, ConcatProperties
  <2>4. \A i \in 1..Len(said) : (out \o said)[Len(out) + i] = said[i]
    BY <1>1, <2>1, <2>2, ConcatProperties
  <2>. QED BY <2>1, <2>2, <2>3, <2>4
<1>5. ASSUME NEW o \in Observation, InHand(o) PROVE InHand(o)'
  <2>1. PICK v \in Workers : worker[v] # Idle /\ \E i \in 1..Len(worker[v].out) : worker[v].out[i] = o
    BY <1>5 DEF InHand
  <2>2. CASE v = w
    <3>1. PICK i \in 1..Len(out) : out[i] = o BY <2>1, <2>2
    <3>2. i \in 1..Len(out \o said) /\ (out \o said)[i] = o BY <3>1, <1>4
    <3>. QED BY <1>2, <1>3, <3>2 DEF InHand
  <2>3. CASE v # w
    <3>1. worker'[v] = worker[v] BY <1>2, <2>3 DEF TypeOK
    <3>. QED BY <2>1, <3>1 DEF InHand
  <2>. QED BY <2>2, <2>3
<1>6. ASSUME NEW i \in 1..Len(said) PROVE InHand(said[i])'
  <2>1. Len(out) + i \in 1..Len(out \o said) /\ (out \o said)[Len(out) + i] = said[i]
    BY <1>4
  <2>. QED BY <1>2, <1>3, <2>1 DEF InHand
<1>. QED BY <1>5, <1>6 DEF HandGrows

\* What an analysis returns is in the hand of its worker.
LEMMA ReturnHand ==
    ASSUME TypeOK, NEW w \in Workers, worker[w] # Idle,
           NEW said \in Seq(Observation), Return(w, said)
    PROVE  /\ HandGrows
           /\ \A i \in 1..Len(said) : InHand(said[i])'
<1>1. CASE Goto(w, "apply", said)
  BY <1>1, GotoHand
<1>2. CASE worker[w].out \o said = <<>> /\ worker' = [worker EXCEPT ![w] = Idle]
  <2>1. worker[w].out \in Seq(Observation) BY AtType
  <2>2. worker[w].out = <<>> /\ said = <<>>
    BY <1>2, <2>1, ConcatEqualIffEmpty
  <2>3. ASSUME NEW o \in Observation, InHand(o) PROVE InHand(o)'
    <3>1. PICK v \in Workers : worker[v] # Idle /\ \E i \in 1..Len(worker[v].out) : worker[v].out[i] = o
      BY <2>3 DEF InHand
    <3>2. v # w BY <3>1, <2>2
    <3>3. worker'[v] = worker[v] BY <1>2, <3>2 DEF TypeOK
    <3>. QED BY <3>1, <3>3 DEF InHand
  <2>. QED BY <2>2, <2>3 DEF HandGrows
<1>. QED BY <1>1, <1>2 DEF Return

\* As long as records stay, what is in a hand is known.
LEMMA HandIsTold ==
    ASSUME HandGrows, record' = record, UNCHANGED <<evicted, replaced>>
    PROVE  ToldGrows
BY DEF HandGrows, ToldGrows, Told, Known, UpTo

\* What is known at a time was known before it.
LEMMA ToldEarlier ==
    ASSUME TypeOK, NEW m \in MACs, NEW t \in Int, NEW u \in Int, u <= t, Told(m, t)
    PROVE  Told(m, u)
BY DEF TypeOK, Told, Known, UpTo, Record, Observation, Times

\* A worker that has looked its device up still holds what it held.
LEMMA ResolveHand ==
    ASSUME TypeOK, NEW w \in Workers, Resolve(w)
    PROVE  HandGrows
<1>1. worker[w] # Idle /\ worker[w] \in Analysis BY DEF Resolve, Applying, At, TypeOK
<1>2. PICK pc \in {"new", "known"} : worker' = [worker EXCEPT ![w].pc = pc]
  BY DEF Resolve
<1>3. worker'[w] \in Analysis /\ worker'[w].out = worker[w].out
  BY <1>1, <1>2 DEF TypeOK, Analysis
<1>4. \A v \in Workers \ {w} : worker'[v] = worker[v] BY <1>2 DEF TypeOK
<1>. QED BY <1>3, <1>4, ThrottleAssumption DEF HandGrows, InHand

\* The observation that was applied leaves the worker's hand, and nothing else does.
LEMMA AppliedHand ==
    ASSUME TypeOK, NEW w \in Workers, worker[w] # Idle, worker[w].out # <<>>, Applied(w)
    PROVE  \A p \in Observation : InHand(p) => p = Current(w) \/ InHand(p)'
<1>. DEFINE rest == Tail(worker[w].out)
<1>1. worker[w].out \in Seq(Observation) BY AtType
<1>2. /\ Current(w) = worker[w].out[1] /\ rest \in Seq(Observation)
      /\ Len(rest) = Len(worker[w].out) - 1 /\ Len(worker[w].out) \in Nat /\ Len(rest) \in Nat
      /\ \A i \in 1..Len(rest) : rest[i] = worker[w].out[i + 1]
  BY <1>1, HeadTailProperties, LenProperties DEF Current
<1>3. ASSUME NEW p \in Observation, InHand(p) PROVE p = Current(w) \/ InHand(p)'
  <2>1. PICK v \in Workers : worker[v] # Idle /\ \E i \in 1..Len(worker[v].out) : worker[v].out[i] = p
    BY <1>3 DEF InHand
  <2>2. CASE v # w
    <3>1. worker'[v] = worker[v] BY <2>2, AppliedShape
    <3>. QED BY <2>1, <3>1 DEF InHand
  <2>3. CASE v = w
    <3>1. PICK i \in 1..Len(worker[w].out) : worker[w].out[i] = p BY <2>1, <2>3
    <3>2. CASE i = 1 BY <3>1, <3>2, <1>2
    <3>3. CASE i # 1
      <4>1. i - 1 \in 1..Len(rest) /\ rest[i - 1] = p BY <3>1, <3>3, <1>2
      <4>2. rest # <<>>
        <5>1. Len(rest) # 0 BY <4>1, <1>2
        <5>2. Len(<<>>) = 0 OBVIOUS
        <5>. HIDE DEF rest
        <5>. QED BY <5>1, <5>2
      <4>3. worker'[w] # Idle /\ worker'[w].out = rest BY <4>2, AppliedShape
      <4>. QED BY <4>1, <4>3 DEF InHand
    <3>. QED BY <3>2, <3>3
  <2>. QED BY <2>2, <2>3
<1>. QED BY <1>3

\* A step that leaves the hands but may move records: enough that each record keeps its time or
\* is remembered as given up, and the times given up only grow.
LEMMA RecordTold ==
    ASSUME TypeOK, TypeOK',
           \A m \in MACs : evicted'[m] >= evicted[m] /\ replaced'[m] >= replaced[m],
           \A m \in MACs : record[m] # NoRecord =>
               \/ record'[m] # NoRecord /\ record'[m].last >= record[m].last
               \/ evicted'[m] >= record[m].last
               \/ replaced'[m] >= record[m].last,
           \A o \in Observation : InHand(o) =>
               \/ InHand(o)'
               \/ record'[o.mac] # NoRecord /\ record'[o.mac].last >= o.at
    PROVE  ToldGrows
<1>. SUFFICES ASSUME NEW m \in MACs, NEW t \in Int, Told(m, t) PROVE Told(m, t)'
  BY DEF ToldGrows
<1>1. /\ evicted[m] \in Nat /\ evicted'[m] \in Nat
      /\ replaced[m] \in Nat /\ replaced'[m] \in Nat
      /\ record[m] # NoRecord => record[m].last \in Nat \ {0}
      /\ record'[m] # NoRecord => record'[m].last \in Nat
  BY DEF TypeOK, Record, Times
<1>2. CASE UpTo(t, evicted[m])
  <2>1. evicted'[m] # 0 /\ t <= evicted'[m] BY <1>1, <1>2 DEF UpTo
  <2>. QED BY <2>1 DEF Told, UpTo
<1>3. CASE UpTo(t, replaced[m])
  <2>1. replaced'[m] # 0 /\ t <= replaced'[m] BY <1>1, <1>3 DEF UpTo
  <2>. QED BY <2>1 DEF Told, UpTo
<1>4. CASE record[m] # NoRecord /\ record[m].last >= t
  <2>1. \/ record'[m] # NoRecord /\ record'[m].last >= t
        \/ evicted'[m] # 0 /\ t <= evicted'[m]
        \/ replaced'[m] # 0 /\ t <= replaced'[m]
    BY <1>1, <1>4
  <2>. QED BY <2>1 DEF Told, Known, UpTo
<1>5. CASE \E o \in Observation : o.mac = m /\ o.at >= t /\ InHand(o)
  <2>1. PICK o \in Observation : o.mac = m /\ o.at >= t /\ InHand(o) BY <1>5
  <2>2. CASE InHand(o)' BY <2>1, <2>2 DEF Told, Known
  <2>3. CASE record'[m] # NoRecord /\ record'[m].last >= o.at
    <3>1. o.at \in Int BY DEF Observation, Times
    <3>2. record'[m].last >= t BY <1>1, <2>1, <2>3, <3>1
    <3>. QED BY <2>3, <3>2 DEF Told, Known
  <2>. QED BY <2>1, <2>2, <2>3
<1>. QED BY <1>2, <1>3, <1>4, <1>5 DEF Told, Known

\* The observation that is applied moves from the worker's hand to the record; the record it
\* finds is merged with it, or replaced and remembered.
LEMMA ApplyTold ==
    ASSUME TypeOK, NEW w \in Workers, ApplyKnown(w) \/ ApplyNew(w)
    PROVE  ToldGrows
<1>. DEFINE o == Current(w)
<1>1. worker[w] # Idle /\ worker[w].out # <<>> /\ Applied(w)
  BY DEF ApplyKnown, ApplyNew, Applying, At
<1>2. o \in Observation /\ o.mac \in MACs /\ o.at \in Times
  BY <1>1, AppliedShape DEF Observation
<1>3. TypeOK'
  BY NextType DEF Next, Apply
<1>4. record[o.mac] \in Record \cup {NoRecord} BY <1>2 DEF TypeOK
<1>5. /\ record'[o.mac] # NoRecord /\ record'[o.mac].last >= o.at
      /\ \A m \in MACs \ {o.mac} : record'[m] = record[m]
      /\ record[o.mac] # NoRecord =>
            \/ record'[o.mac].last >= record[o.mac].last
            \/ replaced'[o.mac] >= record[o.mac].last
  <2>1. CASE ApplyKnown(w)
    <3>1. record' = [record EXCEPT ![o.mac] = Merge(record[o.mac], o)] /\ record[o.mac] # NoRecord
      BY <2>1 DEF ApplyKnown
    <3>2. record'[o.mac] = Merge(record[o.mac], o) /\ \A m \in MACs \ {o.mac} : record'[m] = record[m]
      BY <1>2, <3>1 DEF TypeOK
    <3>0. record[o.mac] \in Record BY <1>4, <3>1
    <3>3. /\ Merge(record[o.mac], o) \in Record
          /\ Merge(record[o.mac], o).last >= o.at
          /\ Merge(record[o.mac], o).last >= record[o.mac].last
      <4>. HIDE DEF o
      <4>1. record[o.mac].last \in Times BY <3>0 DEF Record
      <4>2. Later(record[o.mac].last, o.at) \in Times /\ 0 \in 0..MaxTime
            /\ Later(record[o.mac].last, o.at) >= o.at
            /\ Later(record[o.mac].last, o.at) >= record[o.mac].last
        BY <1>2, <4>1, ThrottleAssumption DEF Later, Times
      <4>. QED BY <4>2 DEF Merge, Record
    <3>. QED BY <3>2, <3>3, ThrottleAssumption
  <2>2. CASE ApplyNew(w)
    <3>1. PICK s \in Stored : record' = [record EXCEPT ![o.mac] = Create(s, o)]
      BY <2>2 DEF ApplyNew
    <3>2. record'[o.mac] = Create(s, o) /\ \A m \in MACs \ {o.mac} : record'[m] = record[m]
      BY <1>2, <3>1 DEF TypeOK
    <3>3. Create(s, o) \in Record /\ Create(s, o).last >= o.at
      BY <1>2, ThrottleAssumption DEF Create, Later, Record, Times
    <3>4. record[o.mac] # NoRecord => replaced'[o.mac] >= record[o.mac].last
      <4>. SUFFICES ASSUME record[o.mac] # NoRecord PROVE replaced'[o.mac] >= record[o.mac].last
        OBVIOUS
      <4>1. replaced' = [replaced EXCEPT ![o.mac] = Later(replaced[o.mac], record[o.mac].last)]
        BY <2>2 DEF ApplyNew
      <4>2. replaced'[o.mac] = Later(replaced[o.mac], record[o.mac].last) BY <1>2, <4>1 DEF TypeOK
      <4>3. replaced[o.mac] \in Int /\ record[o.mac].last \in Int
        BY <1>2, <1>4 DEF TypeOK, Record, Times
      <4>. QED BY <4>2, <4>3 DEF Later
    <3>. QED BY <3>2, <3>3, <3>4, ThrottleAssumption
  <2>. QED BY <2>1, <2>2
<1>6. \A m \in MACs : evicted'[m] >= evicted[m] /\ replaced'[m] >= replaced[m]
  <2>1. evicted' = evicted BY DEF ApplyKnown, ApplyNew, history
  <2>2. \A m \in MACs : evicted[m] \in Int /\ replaced[m] \in Int BY DEF TypeOK
  <2>3. CASE ApplyKnown(w) BY <2>1, <2>2, <2>3 DEF ApplyKnown, history
  <2>4. CASE ApplyNew(w)
    <3>. DEFINE gone == IF record[o.mac] = NoRecord THEN replaced[o.mac]
                                                   ELSE Later(replaced[o.mac], record[o.mac].last)
    <3>1. gone >= replaced[o.mac]
      BY <1>2, <1>4, <2>2 DEF Later, Record, Times
    <3>2. replaced' = [replaced EXCEPT ![o.mac] = gone] BY <2>4 DEF ApplyNew
    <3>. HIDE DEF gone
    <3>3. \A m \in MACs : replaced'[m] = IF m = o.mac THEN gone ELSE replaced[m]
      BY <3>2 DEF TypeOK
    <3>. QED BY <2>1, <2>2, <3>1, <3>3
  <2>. QED BY <2>3, <2>4
<1>7. \A m \in MACs : record[m] # NoRecord =>
          \/ record'[m] # NoRecord /\ record'[m].last >= record[m].last
          \/ evicted'[m] >= record[m].last
          \/ replaced'[m] >= record[m].last
  <2>1. \A m \in MACs : record[m] # NoRecord => record[m].last \in Int BY DEF TypeOK, Record, Times
  <2>. QED BY <1>5, <2>1
<1>8. \A p \in Observation : InHand(p) =>
          InHand(p)' \/ (record'[p.mac] # NoRecord /\ record'[p.mac].last >= p.at)
  <2>1. \A p \in Observation : InHand(p) => p = o \/ InHand(p)' BY <1>1, AppliedHand
  <2>2. record'[o.mac] # NoRecord /\ record'[o.mac].last >= o.at BY <1>5
  <2>. HIDE DEF o
  <2>. QED BY <2>1, <2>2
<1>. HIDE DEF o
<1>. QED BY <1>3, <1>6, <1>7, <1>8, RecordTold

\* No step forgets what is known.
LEMMA NextTold == TypeOK /\ [Next]_vars => ToldGrows
<1>. SUFFICES ASSUME TypeOK, [Next]_vars PROVE ToldGrows
  OBVIOUS
<1>1. ASSUME NEW w \in Workers, NEW f \in Frames, Receive(w, f) PROVE ToldGrows
  <2>1. worker[w] = Idle /\ worker' = [worker EXCEPT ![w] = [frame |-> f, pc |-> "src", out |-> <<>>]]
    BY <1>1 DEF Receive
  <2>2. ASSUME NEW o \in Observation, InHand(o) PROVE InHand(o)'
    <3>1. PICK v \in Workers : worker[v] # Idle /\ \E i \in 1..Len(worker[v].out) : worker[v].out[i] = o
      BY <2>2 DEF InHand
    <3>2. worker'[v] = worker[v] BY <2>1, <3>1 DEF TypeOK
    <3>. QED BY <3>1, <3>2 DEF InHand
  <2>. QED BY <1>1, <2>2, HandIsTold DEF HandGrows, Receive, history
<1>2. ASSUME NEW w \in Workers, LoadSrc(w) PROVE ToldGrows
  <2>1. worker[w] # Idle BY <1>2 DEF LoadSrc, At
  <2>2. SourceThrottled(worker[w].frame) \in Seq(Observation) /\ <<>> \in Seq(Observation)
    BY <2>1, AtType, ReportTypes
  <2>3. \/ Goto(w, "dst", SourceThrottled(worker[w].frame))
        \/ Goto(w, "srcStore", <<>>)
    BY <1>2 DEF LoadSrc
  <2>4. HandGrows BY <2>1, <2>2, <2>3, GotoHand
  <2>. QED BY <1>2, <2>4, HandIsTold DEF LoadSrc, history
<1>3. ASSUME NEW w \in Workers, StoreSrc(w) PROVE ToldGrows
  <2>1. worker[w] # Idle BY <1>3 DEF StoreSrc, At
  <2>2. Said(worker[w].frame.src, worker[w].frame) \in Seq(Observation)
    BY <2>1, AtType, ReportTypes
  <2>3. HandGrows BY <1>3, <2>1, <2>2, GotoHand DEF StoreSrc
  <2>. QED BY <1>3, <2>3, HandIsTold DEF StoreSrc, history
<1>4. ASSUME NEW w \in Workers, LoadDst(w) PROVE ToldGrows
  <2>1. worker[w] # Idle BY <1>4 DEF LoadDst, At
  <2>2. Reports(worker[w].frame) \in Seq(Observation) /\ <<>> \in Seq(Observation)
    BY <2>1, AtType, ReportTypes
  <2>3. \/ Return(w, Reports(worker[w].frame))
        \/ Goto(w, "dstStore", <<>>)
    BY <1>4 DEF LoadDst
  <2>4. HandGrows BY <2>1, <2>2, <2>3, GotoHand, ReturnHand
  <2>. QED BY <1>4, <2>4, HandIsTold DEF LoadDst, history
<1>5. ASSUME NEW w \in Workers, StoreDst(w) PROVE ToldGrows
  <2>1. worker[w] # Idle BY <1>5 DEF StoreDst, At
  <2>. DEFINE f == worker[w].frame
  <2>2. Said(f.dst, f) \in Seq(Observation) /\ Reports(f) \in Seq(Observation)
    BY <2>1, AtType, ReportTypes
  <2>3. Said(f.dst, f) \o Reports(f) \in Seq(Observation)
    BY <2>2
  <2>4. Return(w, Said(f.dst, f) \o Reports(f)) BY <1>5 DEF StoreDst
  <2>5. HandGrows BY <2>1, <2>3, <2>4, ReturnHand
  <2>. QED BY <1>5, <2>5, HandIsTold DEF StoreDst, history
<1>6. ASSUME NEW w \in Workers, Apply(w) PROVE ToldGrows
  <2>1. CASE Resolve(w)
    <3>1. HandGrows BY <2>1, ResolveHand DEF Resolve
    <3>. QED BY <2>1, <3>1, HandIsTold DEF Resolve, history
  <2>. QED BY <1>6, <2>1, ApplyTold DEF Apply
<1>7. CASE Sweep \/ EvictStale
  <2>0. TypeOK' BY <1>7, NextType DEF Next
  <2>1. \A m \in MACs :
            /\ evicted[m] \in Nat /\ replaced[m] \in Nat
            /\ record[m] # NoRecord => record[m] \in Record /\ record[m].last \in Nat
    BY DEF TypeOK, Record, Times
  <2>2. \A m \in MACs : evicted'[m] >= evicted[m] /\ replaced'[m] >= replaced[m]
    <3>1. CASE Sweep
      <4>1. evicted' = evicted /\ replaced' = replaced BY <3>1 DEF Sweep, history
      <4>. QED BY <2>1, <4>1
    <3>2. CASE EvictStale
      <4>1. \A m \in MACs : evicted'[m] = IF Stale(m) THEN Later(evicted[m], record[m].last)
                                                     ELSE evicted[m]
        BY <3>2 DEF EvictStale
      <4>2. \A m \in MACs : Stale(m) => Later(evicted[m], record[m].last) >= evicted[m]
        BY <2>1 DEF Stale, Later
      <4>. QED BY <2>1, <3>2, <4>1, <4>2 DEF EvictStale
    <3>. QED BY <1>7, <3>1, <3>2
  <2>3. ASSUME NEW m \in MACs, record[m] # NoRecord
        PROVE  \/ record'[m] # NoRecord /\ record'[m].last >= record[m].last
               \/ evicted'[m] >= record[m].last
    <3>1. CASE Sweep
      <4>1. [record[m] EXCEPT !.status = "offline", !.swept = now] \in Record
        <5>1. now \in 0..MaxTime BY DEF TypeOK, Times
        <5>. QED BY <2>1, <2>3, <5>1 DEF Record
      <4>2. [record[m] EXCEPT !.status = "offline", !.swept = now].last = record[m].last
        BY <2>1, <2>3 DEF Record
      <4>3. record'[m] \in {record[m], [record[m] EXCEPT !.status = "offline", !.swept = now]}
        BY <3>1 DEF Sweep
      <4>4. record'[m] # NoRecord BY <2>3, <4>1, <4>3, ThrottleAssumption
      <4>5. record'[m].last = record[m].last BY <4>2, <4>3
      <4>. QED BY <2>1, <2>3, <4>4, <4>5
    <3>2. CASE EvictStale
      <4>1. CASE Stale(m)
        <5>1. evicted'[m] = Later(evicted[m], record[m].last) BY <3>2, <4>1 DEF EvictStale
        <5>. QED BY <2>1, <2>3, <5>1 DEF Later
      <4>2. CASE ~ Stale(m)
        <5>1. record'[m] = record[m] BY <3>2, <4>2 DEF EvictStale
        <5>. QED BY <2>1, <2>3, <5>1
      <4>. QED BY <4>1, <4>2
    <3>. QED BY <1>7, <3>1, <3>2
  <2>4. \A o : InHand(o) => InHand(o)' BY <1>7 DEF Sweep, EvictStale, InHand
  <2>. QED BY <2>0, <2>2, <2>3, <2>4, RecordTold
<1>8. CASE Advance \/ UNCHANGED vars
  <2>1. HandGrows BY <1>8 DEF Advance, vars, history, HandGrows, InHand
  <2>. QED BY <1>8, <2>1, HandIsTold DEF Advance, vars, history
<1>. QED BY <1>1, <1>2, <1>3, <1>4, <1>5, <1>6, <1>7, <1>8 DEF Next, Analyse

-----------------------------------------------------------------------------
(* Freshness.  What the two maps store is known; a worker past the source of its frame has made
   sure of a sighting of it. *)

StoredIsTold ==
    \A m \in MACs : /\ lastEmit[m] # 0 => Told(m, lastEmit[m])
                    /\ lastDstEmit[m] # 0 => Told(m, lastDstEmit[m])

SourceIsTold ==
    \A w \in Workers :
        /\ worker[w] # Idle
        /\ worker[w].pc \in {"dst", "dstStore"}
        /\ worker[w].frame.src # Elsewhere
        => Told(worker[w].frame.src, worker[w].frame.at - Throttle + 1)

Fresh == TypeOK /\ StoredIsTold /\ SourceIsTold /\ HeardWithinThrottle

\* At first nothing is stored.
LEMMA InitFresh == Init => Fresh
<1>1. Init => TypeOK BY InitType
<1>2. Init => StoredIsTold BY DEF Init, StoredIsTold
<1>3. Init => SourceIsTold BY DEF Init, SourceIsTold
<1>4. Init => HeardWithinThrottle BY DEF Init, HeardWithinThrottle
<1>. QED BY <1>1, <1>2, <1>3, <1>4 DEF Fresh

\* Known after a step, of a device and a time that the state before it may name.
ToldAfter(m, t) ==
    \/ record'[m] # NoRecord /\ record'[m].last >= t
    \/ \E o \in Observation : o.mac = m /\ o.at >= t /\ InHand(o)'
    \/ UpTo(t, evicted'[m])
    \/ UpTo(t, replaced'[m])

\* What is known stays known after a step.
LEMMA StaysTold ==
    ASSUME ToldGrows, NEW m \in MACs, NEW t \in Int, Told(m, t)
    PROVE  ToldAfter(m, t)
BY DEF ToldGrows, Told, Known, UpTo, ToldAfter

\* The sources of the frames in other workers' hands stay known.
LEMMA SourceStays ==
    ASSUME TypeOK, SourceIsTold, ToldGrows, NEW w \in Workers,
           \A v \in Workers \ {w} : worker'[v] = worker[v],
           /\ worker'[w] # Idle
           /\ worker'[w].pc \in {"dst", "dstStore"}
           /\ worker'[w].frame.src # Elsewhere
           => ToldAfter(worker'[w].frame.src, worker'[w].frame.at - Throttle + 1)
    PROVE  SourceIsTold'
<1>1. ASSUME NEW v \in Workers,
             worker'[v] # Idle, worker'[v].pc \in {"dst", "dstStore"},
             worker'[v].frame.src # Elsewhere
      PROVE  ToldAfter(worker'[v].frame.src, worker'[v].frame.at - Throttle + 1)
  <2>1. CASE v = w BY <1>1, <2>1
  <2>2. CASE v # w
    <3>1. worker'[v] = worker[v] BY <2>2
    <3>2. worker[v].frame.src \in MACs /\ worker[v].frame.at - Throttle + 1 \in Int
      BY <1>1, <3>1, AtType, ThrottleAssumption DEF Address, Times
    <3>3. Told(worker[v].frame.src, worker[v].frame.at - Throttle + 1)
      BY <1>1, <3>1 DEF SourceIsTold
    <3>4. ToldAfter(worker[v].frame.src, worker[v].frame.at - Throttle + 1)
      BY <3>2, <3>3, StaysTold
    <3>. QED BY <3>1, <3>4
  <2>. QED BY <2>1, <2>2
<1>. QED BY <1>1 DEF SourceIsTold, Told, Known, UpTo, ToldAfter

\* A step that stores nothing.
LEMMA StoredStays ==
    ASSUME TypeOK, StoredIsTold, ToldGrows, UNCHANGED <<lastEmit, lastDstEmit>>
    PROVE  StoredIsTold'
<1>1. ASSUME NEW m \in MACs
      PROVE  /\ lastEmit[m] # 0 => ToldAfter(m, lastEmit[m])
             /\ lastDstEmit[m] # 0 => ToldAfter(m, lastDstEmit[m])
  <2>1. lastEmit[m] \in Int /\ lastDstEmit[m] \in Int BY DEF TypeOK
  <2>. QED BY <2>1, StaysTold DEF StoredIsTold
<1>. QED BY <1>1 DEF StoredIsTold, Told, Known, UpTo, ToldAfter

\* A step that finishes no analysis.
LEMMA HeardStays ==
    ASSUME TypeOK, HeardWithinThrottle, ToldGrows, UNCHANGED talked
    PROVE  HeardWithinThrottle'
<1>1. ASSUME NEW m \in MACs, talked[m] # 0
      PROVE  ToldAfter(m, talked[m] - Throttle + 1)
  <2>1. talked[m] - Throttle + 1 \in Int BY ThrottleAssumption DEF TypeOK
  <2>. QED BY <1>1, <2>1, StaysTold DEF HeardWithinThrottle, Told
<1>. QED BY <1>1 DEF HeardWithinThrottle, Told, Known, UpTo, ToldAfter

\* A step that finishes the analysis of a frame whose addresses are known.
LEMMA HeardExtends ==
    ASSUME TypeOK, HeardWithinThrottle, ToldGrows, NEW f \in Frame, Analysed(f),
           \A m \in Heard(f) \cap MACs : ToldAfter(m, f.at - Throttle + 1)
    PROVE  HeardWithinThrottle'
<1>1. ASSUME NEW m \in MACs, talked'[m] # 0
      PROVE  ToldAfter(m, talked'[m] - Throttle + 1)
  <2>1. talked[m] \in Int /\ f.at \in Int /\ Throttle \in Int
    BY ThrottleAssumption DEF TypeOK, Frame, Times
  <2>2. CASE talked'[m] = talked[m]
    <3>1. talked[m] - Throttle + 1 \in Int BY <2>1
    <3>2. ToldAfter(m, talked[m] - Throttle + 1)
      BY <1>1, <2>2, <3>1, StaysTold DEF HeardWithinThrottle, Told
    <3>. QED BY <2>2, <3>2
  <2>3. CASE m \in Heard(f) /\ talked'[m] = f.at
    BY <2>3
  <2>. QED BY <2>2, <2>3 DEF Analysed, Later
<1>. QED BY <1>1 DEF HeardWithinThrottle, Told, Known, UpTo, ToldAfter

\* What was just said is known.
LEMMA SightingIsTold ==
    ASSUME NEW m \in MACs, NEW f \in Frame, NEW o \in Observation,
           o = Sighting(m, f), InHand(o)'
    PROVE  ToldAfter(m, f.at) /\ ToldAfter(m, f.at - Throttle + 1)
<1>1. o.mac = m /\ o.at = f.at BY DEF Sighting
<1>2. f.at \in Int /\ f.at >= f.at - Throttle + 1
  BY ThrottleAssumption DEF Frame, Times
<1>3. o.at >= f.at /\ o.at >= f.at - Throttle + 1 BY <1>1, <1>2
<1>. QED BY <1>1, <1>3 DEF ToldAfter

\* A frame whose MAC is throttled: the stored time vouches for it.
LEMMA ThrottledIsTold ==
    ASSUME TypeOK, ToldGrows, NEW m \in MACs, NEW f \in Frame, NEW last \in Nat,
           Throttled(last, f.at), Told(m, last)
    PROVE  ToldAfter(m, f.at - Throttle + 1)
<1>1. last \in Int /\ f.at - Throttle + 1 \in Int /\ f.at - Throttle + 1 <= last
  BY ThrottleAssumption DEF Throttled, Frame, Times
<1>2. Told(m, f.at - Throttle + 1) BY <1>1, ToldEarlier
<1>. QED BY <1>1, <1>2, StaysTold

\* Every step keeps the throttle within its interval of what is known.
LEMMA NextFresh == Fresh /\ [Next]_vars => Fresh'
<1>. SUFFICES ASSUME Fresh, [Next]_vars
              PROVE  StoredIsTold' /\ SourceIsTold' /\ HeardWithinThrottle'
  BY NextType DEF Fresh
<1>. USE DEF Fresh
<1>0. ToldGrows BY NextTold
<1>1. ASSUME NEW w \in Workers, NEW f \in Frames, Receive(w, f)
      PROVE  StoredIsTold' /\ SourceIsTold' /\ HeardWithinThrottle'
  <2>1. worker'[w].pc = "src" /\ \A v \in Workers \ {w} : worker'[v] = worker[v]
    BY <1>1 DEF Receive, TypeOK
  <2>2. SourceIsTold' BY <1>0, <2>1, SourceStays
  <2>. QED BY <1>0, <1>1, <2>2, StoredStays, HeardStays DEF Receive, history
<1>2. ASSUME NEW w \in Workers, LoadSrc(w)
      PROVE  StoredIsTold' /\ SourceIsTold' /\ HeardWithinThrottle'
  <2>1. worker[w] # Idle BY <1>2 DEF LoadSrc, At
  <2>2. PICK f \in Frame : f = worker[w].frame BY <2>1, AtType
  <2>3. \A v \in Workers \ {w} : worker'[v] = worker[v]
    BY <1>2 DEF LoadSrc, Goto, TypeOK
  <2>4. CASE f.src = Elsewhere \/ Throttled(lastEmit[f.src], f.at)
    <3>1. worker'[w].frame = f
      <4>1. Goto(w, "dst", SourceThrottled(f)) BY <1>2, <2>2, <2>4 DEF LoadSrc
      <4>. QED BY <2>2, <4>1, GotoShape
    <3>2. ASSUME f.src # Elsewhere PROVE ToldAfter(f.src, f.at - Throttle + 1)
      <4>1. f.src \in MACs /\ lastEmit[f.src] \in Nat
        BY <3>2 DEF Frame, Address, TypeOK
      <4>2. Throttled(lastEmit[f.src], f.at) /\ Told(f.src, lastEmit[f.src])
        BY <2>4, <3>2, <4>1 DEF StoredIsTold, Throttled
      <4>. QED BY <1>0, <4>1, <4>2, ThrottledIsTold
    <3>3. SourceIsTold' BY <1>0, <2>3, <3>1, <3>2, SourceStays
    <3>. QED BY <1>0, <1>2, <3>3, StoredStays, HeardStays DEF LoadSrc, history
  <2>5. CASE ~(f.src = Elsewhere \/ Throttled(lastEmit[f.src], f.at))
    <3>1. worker'[w].pc = "srcStore"
      BY <1>2, <2>2, <2>5 DEF LoadSrc, Goto, TypeOK
    <3>2. SourceIsTold' BY <1>0, <2>3, <3>1, SourceStays
    <3>. QED BY <1>0, <1>2, <3>2, StoredStays, HeardStays DEF LoadSrc, history
  <2>. QED BY <2>4, <2>5
<1>3. ASSUME NEW w \in Workers, StoreSrc(w)
      PROVE  StoredIsTold' /\ SourceIsTold' /\ HeardWithinThrottle'
  <2>1. worker[w] # Idle BY <1>3 DEF StoreSrc, At
  <2>2. PICK f \in Frame : f = worker[w].frame BY <2>1, AtType
  <2>3. \A v \in Workers \ {w} : worker'[v] = worker[v]
    BY <1>3 DEF StoreSrc, Goto, TypeOK
  <2>4. worker'[w].frame = f
    BY <1>3, <2>2 DEF StoreSrc, Goto, TypeOK
  <2>5. ASSUME f.src \in MACs
        PROVE  ToldAfter(f.src, f.at) /\ ToldAfter(f.src, f.at - Throttle + 1)
    <3>1. Said(f.src, f) = <<Sighting(f.src, f)>> BY <2>5, ThrottleAssumption DEF Said
    <3>2. PICK o \in Observation : o = Sighting(f.src, f)
      BY <2>5 DEF Sighting, Observation, Frame
    <3>3. <<o>> \in Seq(Observation) /\ Len(<<o>>) = 1 /\ <<o>>[1] = o BY <3>2
    <3>4. Goto(w, "dst", <<o>>) BY <1>3, <2>2, <3>1, <3>2 DEF StoreSrc
    <3>5. \A i \in 1..Len(<<o>>) : InHand(<<o>>[i])' BY <2>1, <3>3, <3>4, GotoHand
    <3>6. InHand(o)' BY <3>3, <3>5
    <3>. QED BY <2>5, <3>2, <3>6, SightingIsTold
  <2>6. SourceIsTold'
    <3>1. f.src # Elsewhere => f.src \in MACs BY DEF Frame, Address
    <3>. QED BY <1>0, <2>3, <2>4, <2>5, <3>1, SourceStays
  <2>7. ASSUME NEW m \in MACs
        PROVE  /\ lastEmit'[m] # 0 => ToldAfter(m, lastEmit'[m])
               /\ lastDstEmit'[m] # 0 => ToldAfter(m, lastDstEmit'[m])
    <3>1. lastEmit'[m] = IF m = f.src THEN f.at ELSE lastEmit[m]
      BY <1>3, <2>2 DEF StoreSrc, TypeOK
    <3>2. lastDstEmit'[m] = lastDstEmit[m] /\ lastEmit[m] \in Int /\ lastDstEmit[m] \in Int
      BY <1>3 DEF StoreSrc, TypeOK
    <3>. QED BY <1>0, <2>5, <3>1, <3>2, StaysTold DEF StoredIsTold
  <2>8. StoredIsTold' BY <2>7 DEF StoredIsTold, Told, Known, UpTo, ToldAfter
  <2>. QED BY <1>0, <1>3, <2>6, <2>8, HeardStays DEF StoreSrc, history
<1>4. ASSUME NEW w \in Workers, LoadDst(w)
      PROVE  StoredIsTold' /\ SourceIsTold' /\ HeardWithinThrottle'
  <2>1. worker[w] # Idle /\ worker[w].pc = "dst" BY <1>4 DEF LoadDst, At
  <2>2. PICK f \in Frame : f = worker[w].frame BY <2>1, AtType
  <2>3. \A v \in Workers \ {w} : worker'[v] = worker[v]
    BY <1>4 DEF LoadDst, Goto, Return, TypeOK
  <2>4. ASSUME f.src # Elsewhere PROVE ToldAfter(f.src, f.at - Throttle + 1)
    <3>1. f.src \in MACs /\ f.at - Throttle + 1 \in Int
      BY <2>4, ThrottleAssumption DEF Frame, Address, Times
    <3>2. Told(f.src, f.at - Throttle + 1) BY <2>1, <2>2, <2>4 DEF SourceIsTold
    <3>. QED BY <1>0, <3>1, <3>2, StaysTold
  <2>5. CASE f.dst = Elsewhere \/ Throttled(lastDstEmit[f.dst], f.at)
    <3>1. Return(w, Reports(f)) /\ Analysed(f)
      BY <1>4, <2>2, <2>5 DEF LoadDst
    <3>2. worker'[w] # Idle => worker'[w].pc = "apply"
      BY <3>1 DEF Return, Goto, TypeOK
    <3>3. SourceIsTold' BY <1>0, <2>3, <3>2, SourceStays
    <3>4. ASSUME NEW m \in Heard(f) \cap MACs PROVE ToldAfter(m, f.at - Throttle + 1)
      <4>1. CASE m = f.src BY <2>4, <4>1, ThrottleAssumption
      <4>2. CASE m = f.dst
        <5>1. m \in MACs /\ lastDstEmit[m] \in Nat /\ m # Elsewhere
          BY ThrottleAssumption DEF TypeOK
        <5>2. Throttled(lastDstEmit[m], f.at) /\ Told(m, lastDstEmit[m])
          BY <2>5, <4>2, <5>1 DEF StoredIsTold, Throttled
        <5>. QED BY <1>0, <5>1, <5>2, ThrottledIsTold
      <4>. QED BY <4>1, <4>2 DEF Heard
    <3>5. HeardWithinThrottle' BY <1>0, <3>1, <3>4, HeardExtends
    <3>. QED BY <1>0, <1>4, <3>3, <3>5, StoredStays DEF LoadDst
  <2>6. CASE ~(f.dst = Elsewhere \/ Throttled(lastDstEmit[f.dst], f.at))
    <3>1. worker'[w].frame = f /\ UNCHANGED talked
      BY <1>4, <2>2, <2>6 DEF LoadDst, Goto, TypeOK
    <3>2. SourceIsTold' BY <1>0, <2>3, <2>4, <3>1, SourceStays
    <3>. QED BY <1>0, <1>4, <3>1, <3>2, StoredStays, HeardStays DEF LoadDst
  <2>. QED BY <2>5, <2>6
<1>5. ASSUME NEW w \in Workers, StoreDst(w)
      PROVE  StoredIsTold' /\ SourceIsTold' /\ HeardWithinThrottle'
  <2>1. worker[w] # Idle /\ worker[w].pc = "dstStore" BY <1>5 DEF StoreDst, At
  <2>2. PICK f \in Frame : f = worker[w].frame BY <2>1, AtType
  <2>3. Return(w, Said(f.dst, f) \o Reports(f)) /\ Analysed(f)
    BY <1>5, <2>2 DEF StoreDst
  <2>4. \A v \in Workers \ {w} : worker'[v] = worker[v]
    BY <2>3, ReturnShape
  <2>5. worker'[w] # Idle => worker'[w].pc = "apply"
    BY <2>3, ReturnShape
  <2>6. SourceIsTold' BY <1>0, <2>4, <2>5, SourceStays
  <2>7. ASSUME f.src # Elsewhere PROVE ToldAfter(f.src, f.at - Throttle + 1)
    <3>1. f.src \in MACs /\ f.at - Throttle + 1 \in Int
      BY <2>7, ThrottleAssumption DEF Frame, Address, Times
    <3>2. Told(f.src, f.at - Throttle + 1) BY <2>1, <2>2, <2>7 DEF SourceIsTold
    <3>. QED BY <1>0, <3>1, <3>2, StaysTold
  <2>8. ASSUME f.dst \in MACs
        PROVE  ToldAfter(f.dst, f.at) /\ ToldAfter(f.dst, f.at - Throttle + 1)
    <3>1. Said(f.dst, f) = <<Sighting(f.dst, f)>> BY <2>8, ThrottleAssumption DEF Said
    <3>2. PICK o \in Observation : o = Sighting(f.dst, f)
      BY <2>8 DEF Sighting, Observation, Frame
    <3>3. PICK r \in Seq(Observation) : r = Reports(f) BY ReportTypes
    <3>4. /\ <<o>> \o r \in Seq(Observation)
          /\ 1 \in 1..Len(<<o>> \o r)
          /\ (<<o>> \o r)[1] = o
      <4>1. <<o>> \in Seq(Observation) /\ Len(<<o>>) = 1 /\ <<o>>[1] = o OBVIOUS
      <4>2. Len(r) \in Nat BY LenProperties
      <4>. QED BY <4>1, <4>2, ConcatProperties
    <3>5. Return(w, <<o>> \o r) BY <2>3, <3>1, <3>2, <3>3
    <3>6. \A i \in 1..Len(<<o>> \o r) : InHand((<<o>> \o r)[i])'
      BY <2>1, <3>4, <3>5, ReturnHand
    <3>7. InHand(o)' BY <3>4, <3>6
    <3>. QED BY <2>8, <3>2, <3>7, SightingIsTold
  <2>9. ASSUME NEW m \in Heard(f) \cap MACs PROVE ToldAfter(m, f.at - Throttle + 1)
    BY <2>7, <2>8, ThrottleAssumption DEF Heard
  <2>10. HeardWithinThrottle' BY <1>0, <2>3, <2>9, HeardExtends
  <2>11. ASSUME NEW m \in MACs
         PROVE  /\ lastEmit'[m] # 0 => ToldAfter(m, lastEmit'[m])
                /\ lastDstEmit'[m] # 0 => ToldAfter(m, lastDstEmit'[m])
    <3>1. lastDstEmit'[m] = IF m = f.dst THEN f.at ELSE lastDstEmit[m]
      BY <1>5, <2>2 DEF StoreDst, TypeOK
    <3>2. lastEmit'[m] = lastEmit[m] /\ lastEmit[m] \in Int /\ lastDstEmit[m] \in Int
      BY <1>5 DEF StoreDst, TypeOK
    <3>. QED BY <1>0, <2>8, <3>1, <3>2, StaysTold DEF StoredIsTold
  <2>12. StoredIsTold' BY <2>11 DEF StoredIsTold, Told, Known, UpTo, ToldAfter
  <2>. QED BY <2>6, <2>10, <2>12
<1>6. ASSUME NEW w \in Workers, Apply(w)
      PROVE  StoredIsTold' /\ SourceIsTold' /\ HeardWithinThrottle'
  <2>1. worker[w] # Idle /\ worker[w].out # <<>>
    BY <1>6 DEF Apply, Resolve, ApplyKnown, ApplyNew, Applying, At
  <2>2. \A v \in Workers \ {w} : worker'[v] = worker[v]
    <3>1. CASE Resolve(w) BY <3>1 DEF Resolve, TypeOK
    <3>. QED BY <1>6, <2>1, <3>1, AppliedShape DEF Apply, ApplyKnown, ApplyNew
  <2>3. worker'[w] # Idle => worker'[w].pc \in {"apply", "known", "new"}
    <3>1. CASE Resolve(w)
      <4>1. worker[w] \in Analysis BY <2>1 DEF TypeOK
      <4>2. PICK pc \in {"new", "known"} : worker' = [worker EXCEPT ![w].pc = pc]
        BY <3>1 DEF Resolve
      <4>. QED BY <4>1, <4>2 DEF TypeOK, Analysis
    <3>. QED BY <1>6, <2>1, <3>1, AppliedShape DEF Apply, ApplyKnown, ApplyNew
  <2>4. SourceIsTold' BY <1>0, <2>2, <2>3, SourceStays
  <2>. QED BY <1>0, <1>6, <2>4, StoredStays, HeardStays
           DEF Apply, Resolve, ApplyKnown, ApplyNew, history
<1>7. CASE Sweep \/ EvictStale \/ Advance \/ UNCHANGED vars
  <2>1. UNCHANGED <<lastEmit, lastDstEmit, worker, talked>>
    BY <1>7 DEF Sweep, EvictStale, Advance, vars, history
  <2>2. ASSUME NEW v \in Workers,
               worker[v] # Idle, worker[v].pc \in {"dst", "dstStore"},
               worker[v].frame.src # Elsewhere
        PROVE  ToldAfter(worker[v].frame.src, worker[v].frame.at - Throttle + 1)
    <3>1. worker[v].frame.src \in MACs /\ worker[v].frame.at - Throttle + 1 \in Int
      BY <2>2, AtType, ThrottleAssumption DEF Address, Times
    <3>2. Told(worker[v].frame.src, worker[v].frame.at - Throttle + 1)
      BY <2>2 DEF SourceIsTold
    <3>. QED BY <1>0, <3>1, <3>2, StaysTold
  <2>3. SourceIsTold' BY <2>1, <2>2 DEF SourceIsTold, Told, Known, UpTo, ToldAfter
  <2>. QED BY <1>0, <2>1, <2>3, StoredStays, HeardStays
<1>. QED BY <1>1, <1>2, <1>3, <1>4, <1>5, <1>6, <1>7 DEF Next, Analyse

\* With any number of workers and devices, whatever the throttle, the thresholds and the order of
\* frames: the sighting the manager has or gets of a device, or had in a record it evicted or
\* replaced, is less than Throttle older than the last frame of it that was analysed.
THEOREM FreshnessCorrect == Spec => []HeardWithinThrottle
<1>1. Spec => []Fresh BY InitFresh, NextFresh, PTL DEF Spec
<1>. QED BY <1>1, PTL DEF Fresh

-----------------------------------------------------------------------------
(* Offline devices.  A record is offline only since a sweep found it silent, and a record that
   was evicted was silent too, before any later sweep. *)

Silent(m) == record[m] # NoRecord /\ record[m].status = "offline"

OfflineMeansSilent ==
    \A m \in MACs : Silent(m) => /\ record[m].swept - record[m].last > OfflineAfter
                                /\ record[m].swept <= now

EvictedMeansSilent ==
    \A m \in MACs : evicted[m] # 0 =>
        /\ now - evicted[m] > OfflineAfter
        /\ Silent(m) => record[m].swept - evicted[m] > OfflineAfter

\* An asset is swept only when its record is old enough, applied to only as online, and evicted
\* only when offline.
LEMMA NextSilent ==
    TypeOK /\ OfflineMeansSilent /\ EvictedMeansSilent /\ [Next]_vars
        => OfflineMeansSilent' /\ EvictedMeansSilent'
<1>. SUFFICES ASSUME TypeOK, OfflineMeansSilent, EvictedMeansSilent, [Next]_vars
              PROVE  OfflineMeansSilent' /\ EvictedMeansSilent'
  OBVIOUS
<1>0. /\ now \in Int /\ OfflineAfter \in Nat
      /\ \A m \in MACs : /\ evicted[m] \in Int
                         /\ record[m] # NoRecord => /\ record[m] \in Record
                                                    /\ record[m].last \in Int
                                                    /\ record[m].swept \in Int
  BY ThrottleAssumption DEF TypeOK, Record, Times
<1>. USE DEF OfflineMeansSilent, EvictedMeansSilent, Silent
<1>1. ASSUME now' \in {now, now + 1}, UNCHANGED <<record, evicted>>
      PROVE  OfflineMeansSilent' /\ EvictedMeansSilent'
  BY <1>0, <1>1
<1>2. ASSUME NEW w \in Workers, ApplyKnown(w) \/ ApplyNew(w)
      PROVE  OfflineMeansSilent' /\ EvictedMeansSilent'
  <2>1. UNCHANGED <<now, evicted>> BY <1>2 DEF ApplyKnown, ApplyNew, history
  <2>2. PICK r : /\ record' = [record EXCEPT ![Current(w).mac] = r]
                 /\ r.status = "online"
    <3>. DEFINE o == Current(w)
                Written(r) == record' = [record EXCEPT ![o.mac] = r]
    <3>1. CASE ApplyKnown(w)
      <4>1. Written(Merge(record[o.mac], o)) BY <3>1 DEF ApplyKnown
      <4>2. Merge(record[o.mac], o).status = "online" BY DEF Merge
      <4>. QED BY <4>1, <4>2
    <3>2. CASE ApplyNew(w)
      <4>1. PICK s \in Stored : Written(Create(s, o)) BY <3>2 DEF ApplyNew
      <4>2. Create(s, o).status = "online" BY DEF Create
      <4>. QED BY <4>1, <4>2
    <3>. QED BY <1>2, <3>1, <3>2
  <2>3. ASSUME NEW m \in MACs, record'[m] # NoRecord, record'[m].status = "offline"
        PROVE  record'[m] = record[m]
    BY <2>2, <2>3 DEF TypeOK
  <2>. QED BY <1>0, <2>1, <2>3
<1>3. CASE Sweep
  <2>1. UNCHANGED <<now, evicted>> BY <1>3 DEF Sweep, history
  <2>2. ASSUME NEW m \in MACs, record'[m] # NoRecord, record'[m].status = "offline"
        PROVE  /\ record'[m].swept - record'[m].last > OfflineAfter
               /\ record'[m].swept <= now
               /\ evicted[m] # 0 => record'[m].swept - evicted[m] > OfflineAfter
    <3>1. CASE /\ record[m] # NoRecord /\ record[m].status = "online"
               /\ now - record[m].last > OfflineAfter
      <4>1. record[m] \in Record BY <1>0, <3>1
      <4>2. record'[m] = [record[m] EXCEPT !.status = "offline", !.swept = now]
        BY <1>3, <3>1 DEF Sweep
      <4>3. record'[m].swept = now /\ record'[m].last = record[m].last
        BY <4>1, <4>2 DEF Record
      <4>. QED BY <1>0, <3>1, <4>3
    <3>2. CASE record'[m] = record[m]
      BY <2>2, <3>2
    <3>. QED BY <1>3, <3>1, <3>2 DEF Sweep
  <2>. QED BY <1>0, <2>1, <2>2
<1>4. CASE EvictStale
  <2>1. now' = now BY <1>4 DEF EvictStale
  <2>2. ASSUME NEW m \in MACs
        PROVE  /\ record'[m] \in {record[m], NoRecord}
               /\ evicted'[m] # 0 => now - evicted'[m] > OfflineAfter
               /\ record'[m] # NoRecord => evicted'[m] = evicted[m]
    <3>1. CASE Stale(m)
      <4>1. /\ evicted'[m] = Later(evicted[m], record[m].last)
            /\ record'[m] = NoRecord
        BY <1>4, <3>1 DEF EvictStale
      <4>2. now - record[m].last > OfflineAfter BY <1>0, <3>1 DEF Stale
      <4>. QED BY <1>0, <4>1, <4>2 DEF Later
    <3>2. CASE ~ Stale(m)
      BY <1>4, <3>2 DEF EvictStale
    <3>. QED BY <3>1, <3>2
  <2>. QED BY <1>0, <2>1, <2>2
<1>5. CASE Advance \/ UNCHANGED vars
  BY <1>1, <1>5 DEF Advance, vars, history
<1>6. ASSUME NEW w \in Workers, Analyse(w) \/ Resolve(w)
      PROVE  OfflineMeansSilent' /\ EvictedMeansSilent'
  BY <1>1, <1>6 DEF Analyse, Receive, LoadSrc, StoreSrc, LoadDst, StoreDst, Resolve, history
<1>. QED BY <1>2, <1>3, <1>4, <1>5, <1>6 DEF Next, Apply

\* Together with freshness: what is offline was quiet.
LEMMA FreshAndSilent ==
    Fresh /\ OfflineMeansSilent /\ EvictedMeansSilent => OfflineMeansQuiet
<1>. SUFFICES ASSUME Fresh, OfflineMeansSilent, EvictedMeansSilent, NEW m \in MACs,
                     record[m] # NoRecord, record[m].status = "offline",
                     ~ \E o \in Observation : o.mac = m /\ InHand(o),
                     ~ UpTo(talked[m] - Throttle + 1, replaced[m])
              PROVE  talked[m] < record[m].swept - (OfflineAfter - Throttle)
  BY DEF OfflineMeansQuiet
<1>1. record[m] \in Record /\ talked[m] \in Nat /\ evicted[m] \in Nat BY DEF Fresh, TypeOK
<1>2. record[m].last \in Times /\ record[m].swept \in Nat BY <1>1 DEF Record
<1>3. record[m].swept - record[m].last > OfflineAfter BY DEF OfflineMeansSilent, Silent
<1>4. CASE talked[m] = 0
  BY <1>2, <1>3, <1>4, ThrottleAssumption DEF Times
<1>5. CASE talked[m] # 0
  <2>1. \/ Known(m, talked[m] - Throttle + 1)
        \/ UpTo(talked[m] - Throttle + 1, evicted[m])
    BY <1>5 DEF Fresh, HeardWithinThrottle
  <2>2. CASE Known(m, talked[m] - Throttle + 1)
    <3>1. record[m].last >= talked[m] - Throttle + 1
      BY <2>2 DEF Known
    <3>. QED BY <1>1, <1>2, <1>3, <3>1, ThrottleAssumption DEF Times
  <2>3. CASE UpTo(talked[m] - Throttle + 1, evicted[m])
    <3>1. evicted[m] # 0 /\ talked[m] - Throttle + 1 <= evicted[m] BY <2>3 DEF UpTo
    <3>2. record[m].swept - evicted[m] > OfflineAfter
      BY <3>1 DEF EvictedMeansSilent, Silent
    <3>. QED BY <1>1, <1>2, <3>1, <3>2, ThrottleAssumption
  <2>. QED BY <2>1, <2>2, <2>3
<1>. QED BY <1>4, <1>5

\* A device is reported offline only if its analysed traffic stopped OfflineAfter - Throttle
\* before the sweep that said so, or an observation of it is about to be applied, or a second
\* record took the place of one that knew better: the margin the throttle takes from the
\* threshold, for any values of the two, and however early records are evicted.
THEOREM OfflineCorrect == Spec => []OfflineMeansQuiet
<1>1. Init => OfflineMeansSilent /\ EvictedMeansSilent
  BY DEF Init, OfflineMeansSilent, EvictedMeansSilent, Silent
<1>2. Fresh /\ OfflineMeansSilent /\ EvictedMeansSilent /\ [Next]_vars
         => Fresh' /\ OfflineMeansSilent' /\ EvictedMeansSilent'
  <2>1. Fresh => TypeOK BY DEF Fresh
  <2>. QED BY <2>1, NextFresh, NextSilent
<1>. QED BY <1>1, <1>2, InitFresh, FreshAndSilent, PTL DEF Spec
=============================================================================
