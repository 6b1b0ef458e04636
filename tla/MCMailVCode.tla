---------------------------- MODULE MCMailVCode ----------------------------
(* Model-checking instance of MailVCode. *)
EXTENDS MailVCode
=============================================================================
