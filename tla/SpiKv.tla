-------------------------------- MODULE SpiKv --------------------------------
(***************************************************************************)
(* The KV SPI served through the backend-instance cache: a request task    *)
(* runs init_bs (SpiBsCache) and then one operation of                     *)
(* kv_pg_item_serv.rs on the instance it got (KvItem).  An instance built  *)
(* from a cert talks to the database at the cert's conn_uri, and           *)
(* init_table_and_conn gives each tenant its own item table there, so the  *)
(* table an operation works on is chosen by the instance's conn_uri and   *)
(* the request's owner.  find_items looks the instance up again with      *)
(* bs() (line 76) and only reads.  Every write runs in one transaction     *)
(* that a failing statement rolls back.                                    *)
(***************************************************************************)
EXTENDS SpiBsCache, KvItem

CONSTANTS
    KvKeys,      \* item keys (sequences of characters)
    KvVals,      \* item values
    KvInfos,     \* info strings a caller gives (NoInfo: none)
    KvPrefixes,  \* key prefixes of match requests
    PageSizes,   \* page_size values
    PageNumbers  \* page_number values

VARIABLES
    kv,          \* kv[<<uri, owner>>]: the rows of that tenant's item table
    lastMatch    \* the last match_items result

kvVars == <<kv, lastMatch>>
allVars == <<vars, kvVars>>

Dbs == Uris \X Owners
NoMatch == [records |-> {}, total |-> 0]

KvInit ==
    /\ Init
    /\ kv = [d \in Dbs |-> {}]
    /\ lastMatch = NoMatch

\* The table of the instance task t holds.
Db(t) == <<instOf[ref[t]].uri, arg[t].owner>>

\* add_or_modify_item(k, v, info), or its transaction failing.
AddOrModifyItem(t, k, v, info) ==
    LET d == Db(t)
    IN /\ \/ kv' = [kv EXCEPT ![d] = AddOrModify(@, k, v, info)]
          \/ UNCHANGED kv
       /\ UNCHANGED lastMatch

\* delete_item(k), or its transaction failing.
DeleteItemOp(t, k) ==
    /\ \/ kv' = [kv EXCEPT ![Db(t)] = DeleteItem(@, k)]
       \/ UNCHANGED kv
    /\ UNCHANGED lastMatch

\* get_item (lines 47-64) and find_items (lines 66-93, through bs()) read.
ReadItems(t) == UNCHANGED kvVars

\* match_items with a key prefix, a page size and a page number.
MatchItems(t, p, ps, pn) ==
    /\ lastMatch' \in MatchPages(kv[Db(t)], p, pn, ps)
    /\ UNCHANGED kv

KvOp(t) ==
    \/ \E k \in KvKeys, v \in KvVals, i \in KvInfos \cup {NoInfo} : AddOrModifyItem(t, k, v, i)
    \/ \E k \in KvKeys : DeleteItemOp(t, k)
    \/ ReadItems(t)
    \/ \E p \in KvPrefixes, ps \in PageSizes, pn \in PageNumbers : MatchItems(t, p, ps, pn)

KvNext ==
    \/ CacheNext /\ UNCHANGED kvVars
    \/ \E t \in Tasks : Use(t) /\ KvOp(t)

KvSpec == KvInit /\ [][KvNext]_allVars

=============================================================================
