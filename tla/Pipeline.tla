------------------------------ MODULE Pipeline ------------------------------
(***************************************************************************)
(* From the capture source to the asset manager: PumpSource and pump       *)
(* (internal/pipeline/wiring.go, internal/capture/pump.go), the bounded    *)
(* channel rawPackets, the workers (workerpool.go, and runner.go when      *)
(* there is one), and main.go around Run.  The manager's RecordPacket      *)
(* feeds the PacketRate meter, which another goroutine rotates.            *)
(*                                                                         *)
(* A packet is a unit: the counters and the termination protocol do not    *)
(* depend on what is in it, and the channel is its length.  A select with  *)
(* several ready cases takes any of them.  Manager.Apply returns no error  *)
(* (an observation that is not valid counts as applied), so the branch     *)
(* that counts drops is never taken and is left out.                       *)
(***************************************************************************)
EXTENDS PacketRate, FiniteSets

CONSTANTS
    Workers,
    QueueSize,
    Packets,        \* bound: packets the source yields
    MaxObservations \* bound: observations of one packet

ASSUME PipelineAssumption ==
    /\ IsFiniteSet(Workers) /\ Workers # {}
    /\ QueueSize \in Nat \ {0}
    /\ Packets \in Nat
    /\ MaxObservations \in Nat

VARIABLES
    live,       \* the source is an interface, which does not end
    cancelled,  \* ctx is done: SIGINT or SIGTERM
    unread,     \* packets the source has not yielded
    pump,       \* where the pump goroutine is
    accepted,   \* stats.received of the source
    queue,      \* packets in rawPackets
    worker,     \* where each worker is, and the observations it still has to apply
    processed, applied, \* Counters
    packetsRecv,        \* the manager's count
    main,       \* where main is
    packetsRead \* what main read of the source's statistics

sourceVars == <<live, cancelled, unread, pump, accepted>>
counterVars == <<processed, applied, packetsRecv>>
mainVars == <<main, packetsRead>>
vars == <<sourceVars, queue, worker, counterVars, mainVars, rateVars>>

Waiting == [pc |-> "waiting", left |-> 0]
Returned == [pc |-> "returned", left |-> 0]

Init ==
    /\ live \in BOOLEAN
    /\ cancelled = FALSE
    /\ unread = Packets
    /\ pump = "reading"
    /\ accepted = 0
    /\ queue = 0
    /\ worker = [w \in Workers |-> Waiting]
    /\ processed = 0 /\ applied = 0 /\ packetsRecv = 0
    /\ main = "run"
    /\ packetsRead = 0
    /\ RateInit

-----------------------------------------------------------------------------
(* The pump. It ends by sending the result of source.Run, then closes the channel. *)

PumpStep(from, to) == pump = from /\ pump' = to

ReadPacket ==
    /\ PumpStep("reading", "sending")
    /\ unread > 0
    /\ unread' = unread - 1
    /\ UNCHANGED <<live, cancelled, accepted, queue>>

\* isObservable: a packet without layers is skipped.
SkipPacket ==
    /\ PumpStep("reading", "reading")
    /\ unread > 0
    /\ unread' = unread - 1
    /\ UNCHANGED <<live, cancelled, accepted, queue>>

SendPacket ==
    /\ PumpStep("sending", "sent")
    /\ queue < QueueSize
    /\ queue' = queue + 1
    /\ UNCHANGED <<live, cancelled, unread, accepted>>

RecordAccepted ==
    /\ PumpStep("sent", "reading")
    /\ accepted' = accepted + 1
    /\ UNCHANGED <<live, cancelled, unread, queue>>

SourceEnds ==
    /\ PumpStep("reading", "ended")
    /\ unread = 0 /\ ~live
    /\ UNCHANGED <<live, cancelled, unread, accepted, queue>>

\* Mutant of PumpCancelled: a pump blocked on the channel does not see the cancellation.
PumpCancelledReading ==
    /\ cancelled
    /\ PumpStep("reading", "ended")
    /\ UNCHANGED <<live, cancelled, unread, accepted, queue>>

PumpCancelled ==
    /\ cancelled
    /\ PumpStep("reading", "ended") \/ PumpStep("sending", "ended")
    /\ UNCHANGED <<live, cancelled, unread, accepted, queue>>

CloseQueue ==
    /\ PumpStep("ended", "closed")
    /\ UNCHANGED <<live, cancelled, unread, accepted, queue>>

PumpSource ==
    /\ \/ ReadPacket \/ SkipPacket \/ SendPacket \/ RecordAccepted
       \/ SourceEnds \/ PumpCancelled \/ CloseQueue
    /\ UNCHANGED <<worker, counterVars, mainVars, rateVars>>

-----------------------------------------------------------------------------
(* The workers *)

Goes(w, pc, left) == worker' = [worker EXCEPT ![w] = [pc |-> pc, left |-> left]]

Receive(w) ==
    /\ worker[w].pc = "waiting"
    /\ queue > 0
    /\ queue' = queue - 1
    /\ Goes(w, "received", 0)
    /\ UNCHANGED <<counterVars, rateVars>>

\* Mutant of SeesClosed: the end of the source ends the worker.
SeesClosedAtOnce(w) ==
    /\ worker[w].pc = "waiting"
    /\ pump = "closed"
    /\ Goes(w, "returned", 0)
    /\ UNCHANGED <<queue, counterVars, rateVars>>

\* A closed channel still delivers what is in it.
SeesClosed(w) ==
    /\ worker[w].pc = "waiting"
    /\ pump = "closed" /\ queue = 0
    /\ Goes(w, "returned", 0)
    /\ UNCHANGED <<queue, counterVars, rateVars>>

\* Mutant of SeesCancel: the context is looked at once more after a packet was taken.
SeesCancelLate(w) ==
    /\ worker[w].pc \in {"waiting", "received"}
    /\ cancelled
    /\ Goes(w, "returned", 0)
    /\ UNCHANGED <<queue, counterVars, rateVars>>

SeesCancel(w) ==
    /\ worker[w].pc = "waiting"
    /\ cancelled
    /\ Goes(w, "returned", 0)
    /\ UNCHANGED <<queue, counterVars, rateVars>>

AddProcessed(w) ==
    /\ worker[w].pc = "received"
    /\ processed' = processed + 1
    /\ Goes(w, "counted", 0)
    /\ UNCHANGED <<queue, applied, packetsRecv, rateVars>>

\* RecordPacket, then Analyze, which yields any number of observations.
RecordPacket(w) ==
    /\ worker[w].pc = "counted"
    /\ packetsRecv' = packetsRecv + 1
    /\ Inc
    /\ \E n \in 0..MaxObservations : Goes(w, IF n = 0 THEN "waiting" ELSE "applying", n)
    /\ UNCHANGED <<queue, processed, applied>>

\* Mutant of NextObservation: one turn too many.
NextObservationLate(w) ==
    LET left == worker[w].left - 1
    IN Goes(w, IF left < 0 THEN "waiting" ELSE "applying", left)

NextObservation(w) ==
    LET left == worker[w].left - 1
    IN Goes(w, IF left = 0 THEN "waiting" ELSE "applying", left)

Apply(w) ==
    /\ worker[w].pc = "applying"
    /\ applied' = applied + 1
    /\ NextObservation(w)
    /\ UNCHANGED <<queue, processed, packetsRecv, rateVars>>

WorkerLoop(w) ==
    /\ \/ Receive(w) \/ SeesClosed(w) \/ SeesCancel(w) \/ AddProcessed(w)
       \/ RecordPacket(w) \/ Apply(w)
    /\ UNCHANGED <<sourceVars, mainVars>>

-----------------------------------------------------------------------------
(* main, the signal, and the rotator of the meter *)

\* wg.Wait, then source.Stats.
RunReturns ==
    /\ main = "run"
    /\ \A w \in Workers : worker[w] = Returned
    /\ main' = "source"
    /\ packetsRead' = accepted
    /\ UNCHANGED <<sourceVars, queue, worker, counterVars, rateVars>>

\* <-sourceErr
SourceResult ==
    /\ main = "source"
    /\ pump \in {"ended", "closed"}
    /\ main' = "done"
    /\ UNCHANGED <<sourceVars, queue, worker, counterVars, packetsRead, rateVars>>

Cancel ==
    /\ ~cancelled
    /\ cancelled' = TRUE
    /\ UNCHANGED <<live, unread, pump, accepted, queue, worker, counterVars, mainVars, rateVars>>

RotateRate ==
    /\ rotate
    /\ UNCHANGED <<sourceVars, queue, worker, counterVars, mainVars>>

Next ==
    \/ PumpSource
    \/ \E w \in Workers : WorkerLoop(w)
    \/ RunReturns \/ SourceResult
    \/ Cancel
    \/ RotateRate

Spec == Init /\ [][Next]_vars

\* The runtime keeps every goroutine running that can run.
Fairness ==
    /\ WF_vars(PumpSource)
    /\ \A w \in Workers : WF_vars(WorkerLoop(w))
    /\ WF_vars(RunReturns \/ SourceResult)

FairSpec == Spec /\ Fairness

-----------------------------------------------------------------------------
(* Properties *)

WorkerState ==
    [pc: {"waiting", "received", "counted", "applying", "returned"}, left: 0..MaxObservations]

\* Every variable has its type; a worker has observations left exactly while it applies them.
TypeOK ==
    /\ live \in BOOLEAN /\ cancelled \in BOOLEAN
    /\ unread \in 0..Packets
    /\ pump \in {"reading", "sending", "sent", "ended", "closed"}
    /\ queue \in 0..QueueSize
    /\ worker \in [Workers -> WorkerState]
    /\ \A w \in Workers : worker[w].pc = "applying" <=> worker[w].left > 0
    /\ {accepted, processed, applied, packetsRecv, packetsRead} \subseteq Nat
    /\ main \in {"run", "source", "done"}
    /\ RateTypeOK

At(pc) == Cardinality({w \in Workers : worker[w].pc = pc})

\* No packet that entered the channel is lost or counted twice: the source's count, the
\* pipeline's and the manager's differ by what the channel, the pump and the workers hold.
PacketsConserved ==
    /\ accepted + (IF pump = "sent" THEN 1 ELSE 0) = processed + queue + At("received")
    /\ processed = packetsRecv + At("counted")

\* When a capture ends by itself, everything it yielded has been processed, and what main
\* reports as read is what was processed: nothing is left in the channel or in a worker.
EndIsComplete ==
    main # "run" /\ ~cancelled =>
        /\ unread = 0 /\ queue = 0
        /\ processed = packetsRead
        /\ packetsRead = accepted
        /\ \A w \in Workers : worker[w] = Returned

\* The program ends: a finite capture, or a signal, brings main past Run and past the source's
\* result, whatever blocks on the channel - no goroutine waits for one that has returned.
Ends == (~live \/ cancelled) ~> main = "done"
=============================================================================
