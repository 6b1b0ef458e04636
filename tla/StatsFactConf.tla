---------------------------- MODULE StatsFactConf ----------------------------
(***************************************************************************)
(* Fact configurations of the stats SPI on PostgreSQL,                     *)
(* src/spi/spi-stats/src/serv/pg/stats_pg_conf_fact_serv.rs.               *)
(*                                                                         *)
(* A fact conf is a row of stats_conf_fact keyed by its key; its column    *)
(* confs are rows of stats_conf_fact_col with rel_conf_fact_key = key.     *)
(* A fact is online when its instance table stats_inst_fact_<key> exists;  *)
(* create_inst makes it and the record-deletion table                      *)
(* stats_inst_fact_<key>_del.  Every operation runs in one transaction     *)
(* (conn.begin ... conn.commit); an early return drops the connection and  *)
(* rolls back.  Under PostgreSQL's READ COMMITTED, the reads of a          *)
(* transaction see what others have committed, and its own writes,         *)
(* CREATE and DROP TABLE included, are seen by others only at commit: an   *)
(* operation is a step that reads and decides, and a step that commits.    *)
(* Column confs and dimension confs belong to services not in this         *)
(* repository and are changed by environment actions.  The key column of   *)
(* stats_conf_fact is taken to be unique, so a second insert of a key       *)
(* fails at commit.                                                         *)
(***************************************************************************)
EXTENDS FiniteSets

CONSTANTS
    Admins,   \* concurrent callers of the service
    Keys,     \* fact conf keys
    Dims,     \* dimension conf keys
    Cols,     \* column confs: [kind, dim, mes]
    Vals      \* show_name/query_limit/remark contents

NoVal == "none"

\* Table names, as the format! strings of the code build them.
FactConfColTable == <<"stats_conf_fact_col">>
InstTable(k) == <<"stats_inst_fact_", k>>
InstDelTable(k) == <<"stats_inst_fact_", k, "_del">>
InstColTable(k) == <<"stats_inst_fact_", k, "_col">>
DimInstTable(d) == <<"stats_inst_dim_", d>>

VARIABLES
    conf,     \* conf[k]: the committed show_name etc. of fact k, or NoVal
    cols,     \* cols[k]: the committed column confs of fact k
    tables,   \* the tables that exist (committed)
    pc,       \* each admin's place: idle or the commit step of an operation
    txn       \* each admin's decided writes, applied at commit

vars == <<conf, cols, tables, pc, txn>>

NoTxn == [key |-> NoVal, val |-> NoVal, dropCols |-> FALSE, drop |-> FALSE]

Init ==
    /\ conf = [k \in Keys |-> NoVal]
    /\ cols = [k \in Keys |-> {}]
    /\ tables = {}
    /\ pc = [a \in Admins |-> "idle"]
    /\ txn = [a \in Admins |-> NoTxn]

\* online(), lines 23-25: the instance table exists.
Online(k) == InstTable(k) \in tables

\* do_paginate with a key (lines 144-216) and get (lines 123-125): the conf
\* row of the key with its online flag, or nothing.
DoPaginate(k) == {[key |-> x, val |-> conf[x], online |-> Online(x)] : x \in {y \in Keys : y = k /\ conf[y] # NoVal}}
Get(k) == DoPaginate(k)

\* Begin an operation's commit step with the writes it decided.
Decide(a, op, t) ==
    /\ pc' = [pc EXCEPT ![a] = op]
    /\ txn' = [txn EXCEPT ![a] = t]
    /\ UNCHANGED <<conf, cols, tables>>

\* An early return: the transaction is rolled back.
Fail(a) ==
    /\ pc' = [pc EXCEPT ![a] = "idle"]
    /\ txn' = [txn EXCEPT ![a] = NoTxn]

-----------------------------------------------------------------------------
\* add, lines 27-38: 409 if the key has a row.
AddBegin(a, k, v) ==
    /\ pc[a] = "idle"
    /\ IF conf[k] # NoVal
       THEN UNCHANGED vars
       ELSE Decide(a, "add", [NoTxn EXCEPT !.key = k, !.val = v])

\* Lines 39-58: the insert and the commit; a key inserted and committed by
\* another transaction meanwhile makes it fail.
AddCommit(a) ==
    LET k == txn[a].key
    IN /\ pc[a] = "add"
       /\ conf' = IF conf[k] = NoVal THEN [conf EXCEPT ![k] = txn[a].val] ELSE conf
       /\ Fail(a)
       /\ UNCHANGED <<cols, tables>>

\* modify, lines 61-72: 409 while online.
ModifyBegin(a, k, v) ==
    /\ pc[a] = "idle"
    /\ IF Online(k)
       THEN UNCHANGED vars
       ELSE Decide(a, "modify", [NoTxn EXCEPT !.key = k, !.val = v])

\* Lines 73-99: UPDATE ... WHERE key = $1 changes the row if there is one.
ModifyCommit(a) ==
    LET k == txn[a].key
    IN /\ pc[a] = "modify"
       /\ conf' = IF conf[k] # NoVal THEN [conf EXCEPT ![k] = txn[a].val] ELSE conf
       /\ Fail(a)
       /\ UNCHANGED <<cols, tables>>

\* delete, lines 102-118: delete the row; delete the column confs if the
\* table named at line 108 exists; drop both instance tables if online.
DeleteBegin(a, k) ==
    /\ pc[a] = "idle"
    /\ Decide(a, "delete", [NoTxn EXCEPT !.key = k,
                                         !.dropCols = InstColTable(k) \in tables,
                                         !.drop = Online(k)])

\* Lines 106-120 at commit.  DROP TABLE of a table another transaction has
\* dropped meanwhile fails, and the whole delete rolls back.
DeleteCommit(a) ==
    LET k == txn[a].key
        insts == {InstTable(k), InstDelTable(k)}
    IN /\ pc[a] = "delete"
       /\ IF txn[a].drop /\ ~(insts \subseteq tables)
          THEN UNCHANGED <<conf, cols, tables>>
          ELSE /\ conf' = [conf EXCEPT ![k] = NoVal]
               /\ cols' = IF txn[a].dropCols THEN [cols EXCEPT ![k] = {}] ELSE cols
               /\ tables' = IF txn[a].drop THEN tables \ insts ELSE tables
       /\ Fail(a)

\* create_inst_table, lines 295-356: a column conf the instance table can
\* be built from; any other makes it return an error.
ColConfValid(c) ==
    CASE c.kind = "dimension" -> c.dim # NoVal /\ DimInstTable(c.dim) \in tables
      [] c.kind = "measure"   -> c.mes
      [] OTHER               -> TRUE

\* create_inst, lines 250-275: 404 without a conf or without column confs,
\* 409 when online, and the errors of create_inst_table.
CreateInstBegin(a, k) ==
    /\ pc[a] = "idle"
    /\ IF /\ Get(k) # {}
          /\ cols[k] # {}
          /\ ~Online(k)
          /\ \A c \in cols[k] : ColConfValid(c)
       THEN Decide(a, "create_inst", [NoTxn EXCEPT !.key = k])
       ELSE UNCHANGED vars

\* Mutant: the deletion table's name formatted without its underscore.
InitTablesDelMisnamed(k) == tables \cup {InstTable(k), <<"stats_inst_fact_", k, "del">>}
\* Mutant: the instance table committed without its deletion table.
InitTablesInstOnly(k) == tables \cup {InstTable(k)}
\* Lines 357-385: init_table for stats_inst_fact_<key>, then for its _del.
InitTables(k) == tables \cup {InstTable(k), InstDelTable(k)}

\* Lines 276-278: both tables are created and committed together, or (a
\* statement failing) neither.
CreateInstCommit(a) ==
    /\ pc[a] = "create_inst"
    /\ \/ tables' = InitTables(txn[a].key)
       \/ UNCHANGED tables
    /\ Fail(a)
    /\ UNCHANGED <<conf, cols>>

-----------------------------------------------------------------------------
\* The column-conf service adds a column conf to a configured fact, creating
\* its table on first use (environment).
AddCol(k, c) ==
    /\ conf[k] # NoVal
    /\ cols' = [cols EXCEPT ![k] = @ \cup {c}]
    /\ tables' = tables \cup {FactConfColTable}
    /\ UNCHANGED <<conf, pc, txn>>

\* The dimension service puts a dimension online (environment).
DimOnline(d) ==
    /\ tables' = tables \cup {DimInstTable(d)}
    /\ UNCHANGED <<conf, cols, pc, txn>>

Next ==
    \/ \E k \in Keys, c \in Cols : AddCol(k, c)
    \/ \E d \in Dims : DimOnline(d)
    \/ \E a \in Admins :
         \/ \E k \in Keys, v \in Vals : AddBegin(a, k, v) \/ ModifyBegin(a, k, v)
         \/ \E k \in Keys : DeleteBegin(a, k) \/ CreateInstBegin(a, k)
         \/ AddCommit(a) \/ ModifyCommit(a) \/ DeleteCommit(a) \/ CreateInstCommit(a)

Spec == Init /\ [][Next]_vars

-----------------------------------------------------------------------------
TypeOK ==
    /\ conf \in [Keys -> Vals \cup {NoVal}]
    /\ cols \in [Keys -> SUBSET Cols]
    /\ tables \subseteq {FactConfColTable} \cup {InstTable(k) : k \in Keys} \cup
                        {InstDelTable(k) : k \in Keys} \cup {DimInstTable(d) : d \in Dims}
    /\ pc \in [Admins -> {"idle", "add", "modify", "delete", "create_inst"}]
    /\ txn \in [Admins -> [key : Keys \cup {NoVal}, val : Vals \cup {NoVal},
                           dropCols : BOOLEAN, drop : BOOLEAN]]

\* A fact's instance table and its record-deletion table exist together:
\* create_inst creates both in its transaction and delete drops both in
\* its, however creates and deletes of one key by two callers interleave.
InstTablesPaired ==
    \A k \in Keys : (InstTable(k) \in tables) = (InstDelTable(k) \in tables)

\* Deleting a fact conf deletes its column confs too (the comment at line
\* 107: the check only guards a column-conf table not yet created), so a
\* fact re-added under the key starts with no columns.
NoOrphanCols == \A k \in Keys : conf[k] = NoVal => cols[k] = {}
=============================================================================
