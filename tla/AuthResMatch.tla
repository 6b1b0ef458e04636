---------------------------- MODULE AuthResMatch ----------------------------
(***************************************************************************)
(* The matcher: do_match_res and match_res of                              *)
(* src/support/auth/src/serv/auth_res_serv.rs, as operators over a trie    *)
(* value of ResContainer, and the reference definition of which resources  *)
(* a request is meant to match (spec sections 4.5, 8 and the glossary).    *)
(***************************************************************************)
EXTENDS ResContainer, AuthResUri

(***************************************************************************)
(* Mutants of do_match_res, kept next to it (see PROJECT.json "mutants").  *)
(***************************************************************************)
\* The "**" child is entered without marking the wildcard active.
RECURSIVE DoMatchResMultiNotSet(_, _, _, _, _)
DoMatchResMultiNotSet(t, action, n, items, multi) ==
    LET term == Append(n, "$")
        hit(a) == IF HasChild(t, term, a) THEN <<Append(term, a)>> ELSE <<>>
        next(label, m) == IF HasChild(t, n, label)
                          THEN DoMatchResMultiNotSet(t, action, Append(n, label), Tail(items), m)
                          ELSE <<>>
    IN  IF HasChild(t, n, "$") /\ (items = <<>> \/ multi \/ items[1] = "?")
        THEN hit(action) \o hit("*")
        ELSE IF items = <<>> THEN <<>>
        ELSE next(items[1], FALSE) \o next("*", FALSE) \o next("**", FALSE)
              \o (IF multi THEN DoMatchResMultiNotSet(t, action, n, Tail(items), TRUE) ELSE <<>>)

\* The terminal test fires on any node with a "$" child.
RECURSIVE DoMatchResAnyTerminal(_, _, _, _, _)
DoMatchResAnyTerminal(t, action, n, items, multi) ==
    LET term == Append(n, "$")
        hit(a) == IF HasChild(t, term, a) THEN <<Append(term, a)>> ELSE <<>>
        next(label, m) == IF HasChild(t, n, label)
                          THEN DoMatchResAnyTerminal(t, action, Append(n, label), Tail(items), m)
                          ELSE <<>>
    IN  IF HasChild(t, n, "$")
        THEN hit(action) \o hit("*")
        ELSE IF items = <<>> THEN <<>>
        ELSE next(items[1], FALSE) \o next("*", FALSE) \o next("**", TRUE)
              \o (IF multi THEN DoMatchResAnyTerminal(t, action, n, Tail(items), TRUE) ELSE <<>>)

(***************************************************************************)
(* do_match_res: the leaves (named by their node paths, in the order they  *)
(* are pushed onto matched_uris) reached from node n with the segments     *)
(* items still to match.  A node with a "$" child is terminal when the     *)
(* segments are used up, a "**" is active, or the next segment is the "?"  *)
(* query marker; it then yields the leaves of the action and of "*" and    *)
(* the branch stops.  Otherwise the literal, "*" and "**" children are     *)
(* all tried, and an active "**" also re-enters the same node.             *)
(***************************************************************************)
RECURSIVE DoMatchRes(_, _, _, _, _)
DoMatchRes(t, action, n, items, multi) ==
    LET term == Append(n, "$")
        hit(a) == IF HasChild(t, term, a) THEN <<Append(term, a)>> ELSE <<>>
        next(label, m) == IF HasChild(t, n, label)
                          THEN DoMatchRes(t, action, Append(n, label), Tail(items), m)
                          ELSE <<>>
    IN  IF HasChild(t, n, "$") /\ (items = <<>> \/ multi \/ items[1] = "?")
        THEN hit(action) \o hit("*")
        ELSE IF items = <<>> THEN <<>>
        ELSE next(items[1], FALSE) \o next("*", FALSE) \o next("**", TRUE)
              \o (IF multi THEN DoMatchRes(t, action, n, Tail(items), TRUE) ELSE <<>>)

\* match_res once the container is read: lower-case the action, drop the
\* trailing "$" of the parsed URI, walk from the root.
MatchRes(t, action, u) ==
    LET items == ParseUri(u)
    IN  DoMatchRes(t, ToLowercase(action), <<>>, SubSeq(items, 1, Len(items) - 1), FALSE)

(***************************************************************************)
(* Reference: which registered resources a request is meant to match.      *)
(* "*" stands for exactly one segment, "**" for one or more (spec 8:       *)
(* "a/**" matches "a/x" and "a/x/y/z"); a resource without a query matches *)
(* whatever query the request has, one with a query needs the same         *)
(* canonical query; the leaf's action is the request's or "*".             *)
(***************************************************************************)
RECURSIVE SegmentsMatch(_, _)
SegmentsMatch(pat, req) ==
    IF pat = <<>> THEN req = <<>>
    ELSE IF Head(pat) = "**"
         THEN \E k \in 1..Len(req) : SegmentsMatch(Tail(pat), SubSeq(req, k + 1, Len(req)))
    ELSE /\ req # <<>>
         /\ Head(pat) \in {"*", Head(req)}
         /\ SegmentsMatch(Tail(pat), Tail(req))

ResourceMatches(resUri, resAction, action, u) ==
    /\ resAction \in {ToLowercase(action), "*"}
    /\ SegmentsMatch(<<resUri.scheme, resUri.host>> \o [i \in DOMAIN resUri.path |-> ToLowercase(resUri.path[i])],
                     <<u.scheme, u.host>> \o [i \in DOMAIN u.path |-> ToLowercase(u.path[i])])
    /\ resUri.hasQuery => (u.hasQuery /\ SortQuery(resUri.query) = SortQuery(u.query))

\* The leaves of t whose registered resource the request should match.
ExpectedLeaves(t, action, u) ==
    {l \in DOMAIN t.info : ResourceMatches(t.info[l].uri, Last(l), action, u)}

=============================================================================
