------------------------- MODULE MCAdminServices -------------------------
(***************************************************************************)
(* Model-checking instance of two admin services that keep their state in *)
(* the database and run concurrent callers: the stats fact confs           *)
(* (StatsFactConf) and the IAM user-password credentials (IamUserPwd).     *)
(* They share no state, so their steps interleave and each keeps its own  *)
(* invariants.  The sessions property of IamUserPwd does not hold; it is   *)
(* checked on IamUserPwd alone (MCSessionRace.cfg).                        *)
(***************************************************************************)
EXTENDS StatsFactConf, IamUserPwd

\* A dimension column over d1, a measure column with its data type, and a
\* measure column without one (create_inst_table rejects it).
MCCols == {[kind |-> "dimension", dim |-> "d1", mes |-> FALSE],
           [kind |-> "measure", dim |-> NoVal, mes |-> TRUE],
           [kind |-> "measure", dim |-> NoVal, mes |-> FALSE]}

AdminInit == Init /\ PwdInit

AdminNext ==
    \/ Next /\ UNCHANGED pwdVars
    \/ PwdNext /\ UNCHANGED vars

AdminSpec == AdminInit /\ [][AdminNext]_<<vars, pwdVars>>

\* The type invariants of both services.
AdminTypeOK == TypeOK /\ PwdTypeOK
=============================================================================
