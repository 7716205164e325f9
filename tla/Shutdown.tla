------------------------------ MODULE Shutdown ------------------------------
(***************************************************************************)
(* cmd/discovery/main.go from the start of the pipeline to the exit of the *)
(* process, around the persister: the signal, the end of the source, the   *)
(* final sweep, ShutdownFlush, and the deferred calls, which Go runs last  *)
(* in, first out.  main waits for none of its goroutines: the persister    *)
(* and the tracker go on until the process is gone.  So does the API       *)
(* server, which is left out because it only reads, and which may return   *)
(* by itself at any time, when listening or serving fails.  The return for *)
(* an error of the source (main.go 252-258) is left out: pump returns nil  *)
(* or the error of the cancelled context, which is exempt.                 *)
(***************************************************************************)
EXTENDS Persister

CONSTANTS
    Modes,          \* of {"pcap", "live"}: the --mode values considered
    OutputFails     \* whether writing the JSON file may fail

ASSUME ShutdownAssumption ==
    /\ Modes \subseteq {"pcap", "live"}
    /\ OutputFails \in BOOLEAN

VARIABLES
    mode,        \* cfg.Mode
    phase,       \* where run() is
    tracker,     \* the lifecycle tracker may still change or evict assets
    interrupted \* the signal came while the pipeline was running (history)

vars == <<persisterVars, mode, phase, tracker, interrupted>>

Init ==
    /\ PersisterInit
    /\ mode \in Modes
    /\ phase = "pipeline"
    /\ tracker = "on"
    /\ interrupted = FALSE

-----------------------------------------------------------------------------

\* SIGINT or SIGTERM cancels rootCtx, of which every other context is a child.
Signal ==
    /\ ~cancelled
    /\ cancelled' = TRUE
    /\ interrupted' = (phase = "pipeline")
    /\ UNCHANGED <<manager, latest, flush, runner, flushErrors, db, dbOpen,
                   mode, phase, tracker>>

\* A worker's Apply.
Apply ==
    /\ phase = "pipeline"
    /\ \E a \in Assets : Change({a}) \/ Enter(a)
    /\ UNCHANGED <<cancelled, mode, phase, tracker, interrupted>>

\* A tick of the tracker: Sweep, then EvictStale. Others run between the two.
TrackerSweeps ==
    /\ tracker = "on"
    /\ \E S \in SUBSET memory \ {{}} : Change(S)
    /\ UNCHANGED <<cancelled, mode, phase, tracker, interrupted>>

TrackerEvicts ==
    /\ tracker = "on"
    /\ \E E \in SUBSET memory \ {{}} : Evict(E)
    /\ UNCHANGED <<cancelled, mode, phase, tracker, interrupted>>

\* The tracker sees its context done: between two ticks, so some time after the cancellation.
TrackerStops ==
    /\ tracker = "on"
    /\ cancelled \/ phase # "pipeline"
    /\ tracker' = "off"
    /\ UNCHANGED <<persisterVars, mode, phase, interrupted>>

\* The pipeline has returned: the source ended, or the context is done. lcCancel, then the
\* final sweep, which takes some assets offline.
FinalSweep ==
    /\ phase = "pipeline"
    /\ \E S \in SUBSET memory : Change(S)
    /\ phase' = "flush"
    /\ UNCHANGED <<cancelled, mode, tracker, interrupted>>

ShutdownFlush ==
    /\ phase = "flush"
    /\ Collect("main", "own")
    /\ phase' = "flushing"
    /\ UNCHANGED <<runner, cancelled, mode, tracker, interrupted>>

\* A PCAP run keeps serving the API until the signal; a live run, or one that cannot write its
\* JSON file, leaves at once.
FlushReturns ==
    /\ phase = "flushing"
    /\ flush["main"].pc = "idle"
    /\ mode = "pcap" => cancelled \/ OutputFails
    /\ phase' = "close"
    /\ UNCHANGED <<persisterVars, mode, tracker, interrupted>>

\* The last deferred call is the first to run.
CloseRepo ==
    /\ phase = "close"
    /\ dbOpen' = FALSE
    /\ phase' = "cancel"
    /\ UNCHANGED <<manager, latest, flush, runner, flushErrors, db, cancelled,
                   mode, tracker, interrupted>>

\* apiCancel, prCancel, lcCancel, persisterCancel.
CancelContexts ==
    /\ phase = "cancel"
    /\ cancelled' = TRUE
    /\ phase' = "source"
    /\ UNCHANGED <<manager, latest, flush, runner, flushErrors, db, dbOpen,
                   mode, tracker, interrupted>>

\* source.Close, which may take two seconds, and the end of the process.
Exit ==
    /\ phase = "source"
    /\ phase' = "exited"
    /\ UNCHANGED <<persisterVars, mode, tracker, interrupted>>

Main == FinalSweep \/ ShutdownFlush \/ FlushReturns
        \/ CloseRepo \/ CancelContexts \/ Exit

PersisterRuns == Run /\ UNCHANGED <<mode, phase, tracker, interrupted>>

FinalSave == SaveStep("main") /\ UNCHANGED <<mode, phase, tracker, interrupted>>

Next ==
    /\ phase # "exited"
    /\ \/ Signal \/ Apply \/ TrackerSweeps \/ TrackerEvicts \/ TrackerStops
       \/ Main \/ PersisterRuns \/ FinalSave

Spec == Init /\ [][Next]_vars

\* The ticker keeps ticking, and each goroutine keeps running until the process exits. Whether
\* and when the source ends or a signal comes is up to the environment.
Fairness ==
    /\ WF_vars(phase # "exited" /\ PersisterRuns)
    /\ WF_vars(phase # "exited" /\ FinalSave)
    /\ WF_vars(cancelled /\ FinalSweep)
    /\ WF_vars(ShutdownFlush \/ FlushReturns \/ CloseRepo \/ CancelContexts \/ Exit)

FairSpec == Spec /\ Fairness

-----------------------------------------------------------------------------
(* Properties *)

\* Type of the composed state; the database is closed exactly from repo.Close on.
TypeOK ==
    /\ PersisterTypeOK
    /\ mode \in Modes
    /\ phase \in {"pipeline", "flush", "flushing", "close", "cancel", "source", "exited"}
    /\ tracker \in {"on", "off"}
    /\ interrupted \in BOOLEAN
    /\ ~dbOpen <=> phase \in {"cancel", "source", "exited"}

\* While the persister is the only one who flushes, the status of a row follows the asset: no
\* overflow, retry or batch order puts an older status over a newer one.
StatusInOrder ==
    [][\A a \in Assets : phase \in {"pipeline", "flush"}
                          => db[a].status <= db'[a].status]_vars

AllStored ==
    \A a \in Assets : \A v \in 1..changes[a] : v \in db[a].known \/ <<a, v>> \in evicted

\* Every change reaches the database, also one that overflowed a batch or whose record was
\* evicted after it was drained - unless a flush reported an error, the process exited first,
\* or the record was evicted before the change was drained. The changes of a run are bounded and
\* a row forgets none, so each is stored if all are, again and again.
ChangesAreStored == []<>(AllStored \/ flushErrors > 0 \/ phase = "exited")

\* After the signal the process exits, whatever state flushes, retries and storage are in.
SignalEndsProcess == cancelled ~> phase = "exited"

\* "Graceful shutdown: SIGINT/SIGTERM triggers final flush + sweep + orderly teardown"
\* (README.md 23): after a signal that came while the pipeline was running, which the persister
\* has seen, and with no flush in error, every change that was drained is in the database when
\* the process is gone.
ShutdownSavesAll ==
    phase = "exited" /\ interrupted /\ runner # "loop" /\ flushErrors = 0 =>
        \A a \in Assets : \A v \in 1..changes[a] :
            \/ v \in db[a].known
            \/ a \in dirty /\ v \in mem[a]
            \/ <<a, v>> \in evicted
=============================================================================
