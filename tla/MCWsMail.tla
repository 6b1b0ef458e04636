--------------------------- MODULE MCWsMail ---------------------------------
(***************************************************************************)
(* Model-checking instance of WsEventCenter for the delivery run, which   *)
(* also checks the mail cert confs of MailCertConf in the same state    *)
(* space:                                                                 *)
(* the two share no state, so their steps interleave.                     *)
(***************************************************************************)
EXTENDS WsEventCenter, MailCertConf

WsMailInit == Init /\ MailConfInit

WsMailNext ==
    \/ Next /\ UNCHANGED mcVars
    \/ MailConfNext /\ UNCHANGED vars

WsMailSpec == WsMailInit /\ [][WsMailNext]_<<vars, mcVars>>
=============================================================================
