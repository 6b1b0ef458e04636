---------------------------- MODULE AuthResStore ----------------------------
(***************************************************************************)
(* What the policy store of auth_res_serv.rs promises its callers, without *)
(* the trie, the two locks or the threads: a map from a resource's         *)
(* canonical path and action to the resource's leaf info, and the API      *)
(* registry keyed by the raw URI and action, both absent until first       *)
(* initialised.  Every init_res, add_res and remove_res takes effect in    *)
(* one step, as one operation on the two maps; a call that fails (bad URI, *)
(* poisoned lock, panic) changes nothing.                                  *)
(*                                                                         *)
(* AuthRes implements this specification: its trie's leaves are the map,  *)
(* and its lock steps are stuttering steps here.                          *)
(***************************************************************************)
EXTENDS AuthResUri, Functions

CONSTANTS Actions, Uris, Policies, NoneVal

VARIABLES
    policies,  \* canonical path \o <<action>> -> [uri, policy], or NoneVal
    apis       \* <<raw uri, action>> -> policy, or NoneVal

storeVars == <<policies, apis>>

\* The key of a resource: the canonical path with the action appended.
PolicyKey(u, action) == Append(ParseUri(u), action)

EmptyMap == [k \in {} |-> k]
Initialised(f) == IF f = NoneVal THEN EmptyMap ELSE f

StoreInit ==
    /\ policies = NoneVal
    /\ apis = NoneVal

InitStore ==
    /\ policies' = Initialised(policies)
    /\ apis' = Initialised(apis)

\* The resource's policy replaces any the same key held; the registry only
\* has entries for URIs of the scheme://rest form.
PutPolicy(action, u, policy) ==
    /\ u.valid
    /\ policies' = (PolicyKey(u, action) :> [uri |-> u, policy |-> policy])
                   @@ Initialised(policies)
    /\ apis' = IF HasApiForm(u) THEN (<<u, action>> :> policy) @@ Initialised(apis)
               ELSE Initialised(apis)

\* Only an initialised store can be removed from; an absent key is a no-op.
DeletePolicy(action, u) ==
    /\ u.valid
    /\ policies # NoneVal /\ apis # NoneVal
    /\ policies' = Restrict(policies, DOMAIN policies \ {PolicyKey(u, action)})
    /\ apis' = Restrict(apis, DOMAIN apis \ {<<u, action>>})

\* The actions are lower-cased before they reach the store.
StoreActions == {ToLowercase(a) : a \in Actions}

StoreNext ==
    \/ InitStore
    \/ \E a \in StoreActions, u \in Uris :
         \/ \E p \in Policies : PutPolicy(a, u, p)
         \/ DeletePolicy(a, u)

StoreSpec == StoreInit /\ [][StoreNext]_storeVars

=============================================================================
