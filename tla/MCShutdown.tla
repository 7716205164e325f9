----------------------------- MODULE MCShutdown ------------------------------
(* Instances of Shutdown for TLC. A second change of one asset is enough for an older and a newer
   snapshot of it, beside another asset's that overflows the batch. *)
EXTENDS Shutdown

CONSTANTS a1, a2

OneChange == [a \in Assets |-> 1]

OneChangesTwice == [a \in Assets |-> IF a = a1 THEN 2 ELSE 1]
=============================================================================
