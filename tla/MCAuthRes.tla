----------------------------- MODULE MCAuthRes -----------------------------
(***************************************************************************)
(* Model-checking instances of AuthRes: the URIs admins register and the   *)
(* requests gateways send, written as the raw-URI records of AuthResUri.   *)
(***************************************************************************)
EXTENDS AuthRes

\* A URI Url::parse accepts: http://svc/<path>[?<query>].
Http(path) ==
    [valid |-> TRUE, scheme |-> "http", host |-> "svc", path |-> path,
     hasQuery |-> FALSE, query |-> <<>>, seps |-> 1]
HttpQ(path, query) == [Http(path) EXCEPT !.hasQuery = TRUE, !.query = query]

\* A string Url::parse rejects.
Malformed ==
    [valid |-> FALSE, scheme |-> "", host |-> "", path |-> <<>>,
     hasQuery |-> FALSE, query |-> <<>>, seps |-> 0]

MCQueryOrder == <<"x=1", "y=2">>

(***************************************************************************)
(* Matcher: resources without a query and with "**" only at the end (the   *)
(* class for which the walk and the wildcard rules agree): the literal,    *)
(* single and multi wildcard under one shared prefix, and the prefix       *)
(* itself; requests of zero, one and two segments below the prefix.        *)
(***************************************************************************)
MatchUris == {Http(<<"a">>), Http(<<"a", "b">>), Http(<<"a", "*">>), Http(<<"a", "**">>)}
MatchRequests == {Http(<<"a">>), Http(<<"a", "b">>), Http(<<"a", "x">>),
                  Http(<<"a", "x", "y">>), Malformed}

(***************************************************************************)
(* Store: two resources sharing a prefix (so pruning one must keep the     *)
(* other), and a malformed URI for the parse-error path.                   *)
(***************************************************************************)
StoreUris == {Http(<<"a", "b">>), Http(<<"a", "*">>), Malformed}
StoreRequests == {Http(<<"a", "b">>), Malformed}

\* Spellings: one resource written with a lower- and an upper-case path
\* segment, which parse_uri maps to one canonical path.
SpellingUris == {Http(<<"a">>), Http(<<"A">>)}

\* Removal: one resource, removed before or after init_res.
RemoveUris == {Http(<<"a">>)}

=============================================================================
