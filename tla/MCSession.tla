----------------------------- MODULE MCSession -----------------------------
(* Session on small instances: which calls are made and which faults occur. *)
EXTENDS Session

AllCalls  == FuseCalls
AllFaults == FaultKinds
=============================================================================
