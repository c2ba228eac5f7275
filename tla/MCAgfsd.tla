------------------------------ MODULE MCAgfsd ------------------------------
(* Agfsd on small instances. *)
EXTENDS Agfsd

OneWordMounts == {<<"home">>, <<"srv">>}
SpacedMounts  == {<<"srv">>, <<"my", "shared", "files", "srv">>}
=============================================================================
