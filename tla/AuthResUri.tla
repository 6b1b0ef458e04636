----------------------------- MODULE AuthResUri -----------------------------
(***************************************************************************)
(* The URI canonicalizer of the resource authorization matcher:            *)
(* parse_uri in src/support/auth/src/serv/auth_res_serv.rs, and the        *)
(* sort_query helper it calls (auth_common_helper, not under src/).        *)
(*                                                                         *)
(* A raw URI is a record standing for one literal URI string:              *)
(*   valid    - whether Url::parse accepts it                              *)
(*   scheme, host - as Url::parse reports them (already lower-case)        *)
(*   path     - the "/"-separated path segments as written (<<>> is "/")   *)
(*   hasQuery, query - whether there is a "?...", and its "k=v" items in   *)
(*              the order they are written                                 *)
(*   seps     - how many times "://" occurs in the string                  *)
(* Two distinct records are two distinct strings: the API registry keys    *)
(* entries by the raw string, the trie by the canonical segments.          *)
(***************************************************************************)
EXTENDS Sequences, SequencesExt, Integers, TLC

CONSTANT QueryOrder   \* the query items in key order: what sort_query sorts by

\* str::to_lowercase on the segment alphabet the models use.
ToLowercase(s) ==
    CASE s = "A" -> "a"
      [] s = "B" -> "b"
      [] OTHER   -> s

\* auth_common_helper::sort_query: the "k=v" items sorted by key, joined
\* with "&" into one string.
SortQuery(query) ==
    LET Before(x, y) == IndexFirstSubSeq(<<x>>, QueryOrder) < IndexFirstSubSeq(<<y>>, QueryOrder)
        sorted == SortSeq(query, Before)
    IN  FoldLeft(LAMBDA acc, item: IF acc = "" THEN item ELSE acc \o "&" \o item,
                 "", sorted)

\* parse_uri: the canonical match segments of a URI Url::parse accepts.
ParseUri(u) ==
    <<ToLowercase(u.scheme), u.host>>
    \o [i \in DOMAIN u.path |-> ToLowercase(u.path[i])]
    \o (IF u.hasQuery THEN <<"?", SortQuery(u.query)>> ELSE <<>>)
    \o <<"$">>

\* res_uri.split("://") has exactly two parts: the URI gets a registry entry.
HasApiForm(u) == u.seps = 1

=============================================================================
