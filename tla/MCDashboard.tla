---------------------------- MODULE MCDashboard -----------------------------
(* An instance of Dashboard for TLC: rows of one second, whose text sorts otherwise than their
   time, and of the next one; one invented asset. *)
EXTENDS Dashboard

At(sec, ns) == [sec |-> sec, ns |-> ns]

MCRow(status, last) == [status |-> status, first |-> At(0, 0), last |-> last]

CONSTANTS a1, a2, m1

MCInitialRows == (a1 :> MCRow("online", At(1, 50))) @@ (a2 :> MCRow("online", At(1, 0)))

MCLaterRows == {MCRow("offline", At(1, 52)), MCRow("online", At(2, 10))}

MCMockRows == m1 :> "online"
=============================================================================
