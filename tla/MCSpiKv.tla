------------------------------- MODULE MCSpiKv -------------------------------
(* Model-checking instance of SpiKv. *)
EXTENDS SpiKv

MCKvKeys == {<<"a", "1">>, <<"a", "2">>}
MCKvPrefixes == {<<"a">>}
=============================================================================
