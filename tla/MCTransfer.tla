----------------------------- MODULE MCTransfer -----------------------------
(* Transfer on small instances. *)
EXTENDS Transfer

AllFaults == FaultKinds
=============================================================================
