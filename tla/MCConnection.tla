---------------------------- MODULE MCConnection ----------------------------
(* Connection on small instances. *)
EXTENDS Connection

CONSTANTS w1, w2

TwoWorkers == {w1, w2}
OneWorker  == {w1}
=============================================================================
