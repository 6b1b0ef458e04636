------------------------------- MODULE KvItem -------------------------------
(***************************************************************************)
(* The KV items of the KV SPI on PostgreSQL,                               *)
(* src/spi/spi-kv/src/serv/pg/kv_pg_item_serv.rs, as operators on one     *)
(* tenant's item table: a set of rows [k, v, info], one per key.  A key    *)
(* and a key prefix are sequences of characters, so that LIKE '<prefix>%' *)
(* can be evaluated as PostgreSQL does, '_' and '%' in the prefix being    *)
(* wildcards.  A query without ORDER BY returns its rows in an order the   *)
(* planner picks: every order is possible.                                 *)
(***************************************************************************)
EXTENDS Integers, Sequences, FiniteSets

NoInfo == "None"

Row(tbl, k) == {r \in tbl : r.k = k}

\* add_or_modify_item, lines 13-45: INSERT (k, v, info or "") ON CONFLICT
\* (k) DO UPDATE SET v = $2, and info = $3 only when info was given.
AddOrModify(tbl, k, v, info) ==
    IF Row(tbl, k) = {}
    THEN tbl \cup {[k |-> k, v |-> v, info |-> IF info = NoInfo THEN "" ELSE info]}
    ELSE LET old == CHOOSE r \in Row(tbl, k) : TRUE
         IN (tbl \ {old}) \cup {[old EXCEPT !.v = v, !.info = IF info = NoInfo THEN @ ELSE info]}

\* delete_item, lines 186-193.
DeleteItem(tbl, k) == tbl \ Row(tbl, k)

\* LIKE (the pattern <prefix>% at lines 98-99): '%' matches any run of
\* characters, '_' any one character (the escape character is not modelled).
RECURSIVE Like(_, _)
Like(pat, k) ==
    IF pat = <<>> THEN k = <<>>
    ELSE IF Head(pat) = "%"
         THEN Like(Tail(pat), k) \/ (k # <<>> /\ Like(pat, Tail(k)))
         ELSE /\ k # <<>>
              /\ Head(pat) \in {"_", Head(k)}
              /\ Like(Tail(pat), Tail(k))

LikePrefix(p, k) == Like(p \o <<"%">>, k)

MatchRows(tbl, p) == {r \in tbl : LikePrefix(p, r.k)}

\* The OFFSET, line 135: (page_number - 1) * page_size, computed in u32; it
\* wraps (or panics in a debug build) only for page_number 0 or a product
\* past 2^32, which the inputs of the model do not reach.
Offset(pn, ps) == (pn - 1) * ps

\* The orders a query without ORDER BY can return the rows S in.
Orders(S) == {f \in [1..Cardinality(S) -> S] : \A x \in S : \E i \in DOMAIN f : f[i] = x}

\* match_items, lines 95-184 (key prefix only): LIMIT page_size OFFSET
\* Offset of the matching rows in some order; total_size is the
\* count(*) OVER() of the first row returned, or 0 when none is.
MatchPages(tbl, p, pn, ps) ==
    LET rows == MatchRows(tbl, p)
    IN {LET page == {f[i] : i \in {j \in DOMAIN f : Offset(pn, ps) < j /\ j <= Offset(pn, ps) + ps}}
        IN [records |-> page, total |-> IF page = {} THEN 0 ELSE Cardinality(rows)] : f \in Orders(rows)}
=============================================================================
