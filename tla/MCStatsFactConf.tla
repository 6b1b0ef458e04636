-------------------------- MODULE MCStatsFactConf --------------------------
(* Model-checking instance of StatsFactConf. *)
EXTENDS StatsFactConf

\* A dimension column over d1, a measure column with its data type, and a
\* measure column without one (create_inst_table rejects it).
MCCols == {[kind |-> "dimension", dim |-> "d1", mes |-> FALSE],
           [kind |-> "measure", dim |-> NoVal, mes |-> TRUE],
           [kind |-> "measure", dim |-> NoVal, mes |-> FALSE]}
=============================================================================
