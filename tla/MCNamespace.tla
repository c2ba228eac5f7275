---------------------------- MODULE MCNamespace ----------------------------
(* Namespace on a small instance: two servers and one name. *)
EXTENDS Namespace

MCHosts   == 1..2
MCWord    == <<"ash", "elm">>
MCNames   == {<<"a">>}
=============================================================================
