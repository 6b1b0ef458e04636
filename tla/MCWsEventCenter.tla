--------------------------- MODULE MCWsEventCenter ---------------------------
(* Model-checking instance of WsEventCenter. *)
EXTENDS WsEventCenter
=============================================================================
