-------------------------- MODULE EthernetThrottle --------------------------
(***************************************************************************)
(* internal/analyzer: what the frames of a device tell the manager, when   *)
(* the Ethernet analyzer holds most of them back.  All workers share one   *)
(* EthernetAnalyzer.  Its two sync.Maps remember, per source and per       *)
(* destination MAC, the capture time last reported; Load and Store are     *)
(* steps of their own, and frames are analysed in any order and any time   *)
(* after they were captured.                                               *)
(*                                                                         *)
(* The manager, which AssetManager details, is reduced to the record that  *)
(* a tick of the tracker sweeps and evicts, and the throttle knows nothing *)
(* of either.  What an observation carries besides its MAC and time is     *)
(* left out.  The maps are keyed by MAC, so a model may follow some        *)
(* devices only: Elsewhere is any other address, and any that names no     *)
(* device (multicast as a destination, all zero).                          *)
(***************************************************************************)
EXTENDS Integers, Sequences

CONSTANTS
    MACs,
    Elsewhere,
    Workers,
    Throttle,       \* throttleAfter
    OfflineAfter,
    EvictAfter,     \* as configured; seven load windows may wrap to a negative
    Frames,         \* the frames the link may carry
    Stored,         \* the times a row of the database may tell, 0 = there is no row
    MaxTime,        \* bound on the clock
    Idle,           \* a worker with no frame in hand
    NoRecord        \* a device the manager has not met

Times == 1..MaxTime

\* What the payload is, to the analyzers of the registry; "who" is the device that ARP and
\* DHCPv4 speak of, the sender and the client, "target" the other one of an ARP packet.
Payload == {"data", "syn", "arp_request", "arp_reply", "dhcp4", "dhcp6", "mdns", "ssdp"}

Address == MACs \cup {Elsewhere}

Frame == [src: Address, dst: Address, payload: Payload, who: Address,
          target: Address, at: Times]

Observation == [mac: MACs, at: Times]

Record == [status: {"online", "offline"}, last: Times, swept: 0..MaxTime]

Analysis == [frame: Frame, pc: {"src", "srcStore", "dst", "dstStore", "apply", "known", "new"},
             out: Seq(Observation)]

ASSUME ThrottleAssumption ==
    /\ Elsewhere \notin MACs
    /\ Throttle \in Nat \ {0}
    /\ OfflineAfter \in Nat
    /\ EvictAfter \in Int
    /\ MaxTime \in Nat \ {0}
    /\ Frames \subseteq Frame
    /\ Stored \subseteq 0..MaxTime
    /\ NoRecord \notin Record
    /\ Idle \notin Analysis

VARIABLES
    now,
    lastEmit,       \* capture time last stored for a source, 0 = no entry
    lastDstEmit,    \* the same for a destination
    worker,         \* the frame each worker analyses and what came of it so far
    record,         \* the manager's record of each device
    talked,         \* history: the latest frame from or to each device that was analysed
    evicted,        \* history: the latest time of a record that was evicted, 0 = none
    replaced        \* history: the same of a record that a new one took the place of

history == <<talked, evicted, replaced>>
vars == <<now, lastEmit, lastDstEmit, worker, record, history>>

Later(a, b) == IF a > b THEN a ELSE b

Init ==
    /\ now = 1
    /\ lastEmit = [m \in MACs |-> 0]
    /\ lastDstEmit = [m \in MACs |-> 0]
    /\ worker = [w \in Workers |-> Idle]
    /\ record = [m \in MACs |-> NoRecord]
    /\ talked = [m \in MACs |-> 0]
    /\ evicted = [m \in MACs |-> 0]
    /\ replaced = [m \in MACs |-> 0]

-----------------------------------------------------------------------------
(* The analyzers *)

\* Mutant of Throttled: an entry never runs out.
ThrottledForever(last, at) == last # 0

\* A frame captured before the stored time is throttled too: the difference is negative.
Throttled(last, at) == last # 0 /\ at - last < Throttle

Sighting(mac, f) == [mac |-> mac, at |-> f.at]

Said(mac, f) == IF mac = Elsewhere THEN <<>> ELSE <<Sighting(mac, f)>>

\* What the Ethernet analyzer says of a throttled source: nothing, or the service a SYN tells.
SourceThrottled(f) == IF f.payload = "syn" THEN Said(f.src, f) ELSE <<>>

\* What the analyzers after it say; none of them is throttled. An ARP reply speaks of its
\* target too, which need not be the frame's destination, unless that is the sender or no
\* single device.
ARP(f) ==
    IF f.payload \notin {"arp_request", "arp_reply"} THEN <<>>
    ELSE IF f.payload = "arp_reply" /\ f.target # f.who THEN Said(f.who, f) \o Said(f.target, f)
    ELSE Said(f.who, f)

DHCPv4(f) == IF f.payload = "dhcp4" THEN Said(f.who, f) ELSE <<>>

\* Announcements, and DHCPv6, are told of the frame's source.
MDNS(f)   == IF f.payload = "mdns" THEN Said(f.src, f) ELSE <<>>
SSDP(f)   == IF f.payload = "ssdp" THEN Said(f.src, f) ELSE <<>>
DHCPv6(f) == IF f.payload = "dhcp6" THEN Said(f.src, f) ELSE <<>>

\* In the registry's order.
Reports(f) == ARP(f) \o DHCPv4(f) \o MDNS(f) \o SSDP(f) \o DHCPv6(f)

At(w, pc) == worker[w] # Idle /\ worker[w].pc = pc

Goto(w, pc, said) ==
    worker' = [worker EXCEPT ![w] = [frame |-> worker[w].frame, pc |-> pc,
                                     out |-> worker[w].out \o said]]

\* AnalyzeCtx returns; with nothing to apply the worker takes its next frame.
Return(w, said) ==
    IF worker[w].out \o said = <<>>
    THEN worker' = [worker EXCEPT ![w] = Idle]
    ELSE Goto(w, "apply", said)

Receive(w, f) ==
    /\ worker[w] = Idle
    /\ f.at <= now
    /\ worker' = [worker EXCEPT ![w] = [frame |-> f, pc |-> "src", out |-> <<>>]]
    /\ UNCHANGED <<now, lastEmit, lastDstEmit, record, history>>

LoadSrc(w) ==
    /\ At(w, "src")
    /\ LET f == worker[w].frame IN
         IF f.src = Elsewhere \/ Throttled(lastEmit[f.src], f.at)
         THEN Goto(w, "dst", SourceThrottled(f))
         ELSE Goto(w, "srcStore", <<>>)
    /\ UNCHANGED <<now, lastEmit, lastDstEmit, record, history>>

StoreSrc(w) ==
    /\ At(w, "srcStore")
    /\ lastEmit' = [lastEmit EXCEPT ![worker[w].frame.src] = worker[w].frame.at]
    /\ Goto(w, "dst", Said(worker[w].frame.src, worker[w].frame))
    /\ UNCHANGED <<now, lastDstEmit, record, history>>

\* The devices a frame is a sign of life of, once it is analysed.
Heard(f) == {f.src, f.dst}

Analysed(f) ==
    talked' = [m \in MACs |-> IF m \in Heard(f) THEN Later(talked[m], f.at) ELSE talked[m]]

LoadDst(w) ==
    /\ At(w, "dst")
    /\ LET f == worker[w].frame IN
         IF f.dst = Elsewhere \/ Throttled(lastDstEmit[f.dst], f.at)
         THEN Return(w, Reports(f)) /\ Analysed(f)
         ELSE Goto(w, "dstStore", <<>>) /\ UNCHANGED talked
    /\ UNCHANGED <<now, lastEmit, lastDstEmit, record, evicted, replaced>>

StoreDst(w) ==
    /\ At(w, "dstStore")
    /\ LET f == worker[w].frame IN
         /\ lastDstEmit' = [lastDstEmit EXCEPT ![f.dst] = f.at]
         /\ Return(w, Said(f.dst, f) \o Reports(f))
         /\ Analysed(f)
    /\ UNCHANGED <<now, lastEmit, record, evicted, replaced>>

-----------------------------------------------------------------------------
(* The manager *)

\* Mutant of Merge: the last packet applied counts as the last one captured.
MergeLastApplied(r, o) == [status |-> "online", last |-> o.at, swept |-> 0]

\* Any observation, a late one too, puts its device online.
Merge(r, o) == [status |-> "online", last |-> Later(r.last, o.at), swept |-> 0]

\* Mutant of Create: a new record keeps the zero time.
CreateUntouched(stored, o) == [status |-> "online", last |-> stored, swept |-> 0]

\* A record made from the row found for the device, which this run or an earlier one stored at
\* any time of the device's life, or from nothing (stored = 0) when there is no row or the
\* query fails.
Create(stored, o) == [status |-> "online", last |-> Later(stored, o.at), swept |-> 0]

\* A worker that has an observation to apply, that observation, and the worker once it is
\* applied.
Applying(w, pc) == At(w, pc) /\ worker[w].out # <<>>

Current(w) == Head(worker[w].out)

Applied(w) ==
    LET rest == Tail(worker[w].out)
    IN  worker' = [worker EXCEPT ![w] = IF rest = <<>> THEN Idle
                                        ELSE [worker[w] EXCEPT !.pc = "apply", !.out = rest]]

\* Apply looks the device up before it takes the lock of its shard.
Resolve(w) ==
    /\ Applying(w, "apply")
    /\ worker' = [worker EXCEPT ![w].pc =
                     IF record[Current(w).mac] = NoRecord THEN "new" ELSE "known"]
    /\ UNCHANGED <<now, lastEmit, lastDstEmit, record, history>>

\* When the record was evicted in between, Apply panics: nothing more comes of this worker.
ApplyKnown(w) ==
    /\ Applying(w, "known")
    /\ record[Current(w).mac] # NoRecord
    /\ record' = [record EXCEPT ![Current(w).mac] = Merge(@, Current(w))]
    /\ Applied(w)
    /\ UNCHANGED <<now, lastEmit, lastDstEmit, history>>

\* A record that another worker made in between is replaced.
ApplyNew(w) ==
    /\ Applying(w, "new")
    /\ LET m == Current(w).mac IN
         /\ \E stored \in {s \in Stored : s <= now} :
               record' = [record EXCEPT ![m] = Create(stored, Current(w))]
         /\ replaced' = [replaced EXCEPT ![m] = IF record[m] = NoRecord THEN @
                                                ELSE Later(@, record[m].last)]
    /\ Applied(w)
    /\ UNCHANGED <<now, lastEmit, lastDstEmit, talked, evicted>>

\* A tick of the tracker; swept is the time of the one that took the device offline,
\* 0 while it is online.
Sweep ==
    /\ record' = [m \in MACs |->
          IF record[m] # NoRecord /\ record[m].status = "online"
                                  /\ now - record[m].last > OfflineAfter
          THEN [record[m] EXCEPT !.status = "offline", !.swept = now]
          ELSE record[m]]
    /\ UNCHANGED <<now, lastEmit, lastDstEmit, worker, history>>

Stale(m) ==
    /\ record[m] # NoRecord
    /\ record[m].status = "offline"
    /\ now - record[m].last > EvictAfter

\* The second half of a tick; the analyzer's maps keep their entries.
EvictStale ==
    /\ record' = [m \in MACs |-> IF Stale(m) THEN NoRecord ELSE record[m]]
    /\ evicted' = [m \in MACs |-> IF Stale(m) THEN Later(evicted[m], record[m].last)
                                             ELSE evicted[m]]
    /\ UNCHANGED <<now, lastEmit, lastDstEmit, worker, talked, replaced>>

Advance ==
    /\ now < MaxTime
    /\ now' = now + 1
    /\ UNCHANGED <<lastEmit, lastDstEmit, worker, record, history>>

-----------------------------------------------------------------------------

Analyse(w) ==
    \/ \E f \in Frames : Receive(w, f)
    \/ LoadSrc(w) \/ StoreSrc(w) \/ LoadDst(w) \/ StoreDst(w)

Apply(w) == Resolve(w) \/ ApplyKnown(w) \/ ApplyNew(w)

Next ==
    \/ \E w \in Workers : Analyse(w) \/ Apply(w)
    \/ Sweep
    \/ EvictStale
    \/ Advance

Spec == Init /\ [][Next]_vars

-----------------------------------------------------------------------------
(* Properties *)

\* Every variable has its type.
TypeOK ==
    /\ now \in Times
    /\ lastEmit \in [MACs -> 0..MaxTime]
    /\ lastDstEmit \in [MACs -> 0..MaxTime]
    /\ worker \in [Workers -> Analysis \cup {Idle}]
    /\ record \in [MACs -> Record \cup {NoRecord}]
    /\ talked \in [MACs -> 0..MaxTime]
    /\ evicted \in [MACs -> 0..MaxTime]
    /\ replaced \in [MACs -> 0..MaxTime]

\* An observation on its way from a worker to the manager.
InHand(o) ==
    \E w \in Workers : worker[w] # Idle /\ \E i \in 1..Len(worker[w].out) : worker[w].out[i] = o

\* The manager knows, or is about to be told, that m was alive at time t or later.
Known(m, t) ==
    \/ record[m] # NoRecord /\ record[m].last >= t
    \/ \E o \in Observation : o.mac = m /\ o.at >= t /\ InHand(o)

\* A time up to that of a record the manager had.
UpTo(t, last) == last # 0 /\ t <= last

\* The throttle costs freshness, and never more than its window: when a frame from or to a
\* device was analysed, the manager has or gets a sighting of that device less than Throttle
\* older, whatever two workers load and store in between and in whatever order frames come
\* (ethernet.go: 122-132, 187-194) - or it had one in a record it gave up since, by evicting it
\* (manager.go: 388-403) or by a second record of a device that two workers took for new
\* (manager.go: 263-308). The throttle is not told: until it runs out, the frames of an evicted
\* device bring no record back.
HeardWithinThrottle ==
    \A m \in MACs : talked[m] # 0 =>
        LET heard == talked[m] - Throttle + 1
        IN  Known(m, heard) \/ UpTo(heard, evicted[m]) \/ UpTo(heard, replaced[m])

\* A device reported offline has been quiet: no frame of it was captured within OfflineAfter -
\* Throttle before the sweep that took it offline, or later, even when an older record was
\* evicted and this one made since. Two exceptions: an observation of it is waiting to be
\* applied, or the frame is one that a replaced record knew of.
OfflineMeansQuiet ==
    \A m \in MACs :
        record[m] # NoRecord /\ record[m].status = "offline" =>
            \/ talked[m] < record[m].swept - (OfflineAfter - Throttle)
            \/ \E o \in Observation : o.mac = m /\ InHand(o)
            \/ UpTo(talked[m] - Throttle + 1, replaced[m])
=============================================================================
