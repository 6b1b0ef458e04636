------------------------------ MODULE AuthRes ------------------------------
(***************************************************************************)
(* The policy store of src/support/auth/src/serv/auth_res_serv.rs:         *)
(* RES_CONTAINER (the trie) and RES_APIS (the API registry), each an       *)
(* Option inside its own std RwLock, used by admin threads (init_res,      *)
(* add_res, remove_res) and gateway threads (match_res).                   *)
(*                                                                         *)
(* A writer takes its locks one at a time in the order its function names  *)
(* them; once it holds them all its body runs as one step and the guards   *)
(* drop on return.  A reader's match_res holds only the read lock of the   *)
(* trie around a synchronous walk, so it is one step, enabled while no     *)
(* writer holds that lock.  A panic while a write guard is held poisons    *)
(* the lock; read guards do not poison.                                    *)
(***************************************************************************)
EXTENDS AuthResMatch, Integers, FiniteSets

CONSTANTS
    Admins,      \* threads calling init_res / add_res / remove_res
    Gateways,    \* threads calling match_res
    Actions,     \* actions resources are added or removed with (may hold "*")
    ReqActions,  \* actions requests carry
    Uris,        \* raw resource URIs admins use
    Requests,    \* raw URIs requests carry
    Policies,    \* the opaque (auth_info, four flags) of a resource
    NoneVal,     \* Option::None
    NoThread     \* no thread holds the lock

ASSUME NoThread \notin Admins \cup Gateways

Threads == Admins \cup Gateways
Locks == {"container", "apis"}

VARIABLES
    resContainer,  \* RES_CONTAINER's Option<ResContainerNode>
    resApis,       \* RES_APIS's Option<HashMap<uri##action, Api>>
    lock,          \* lock[l]: the writer holding l, and the poison flag
    pc,            \* "idle", "locking" (taking write locks) or "body"
    call,          \* the call a thread is in
    ret            \* what the thread's last call returned

vars == <<resContainer, resApis, lock, pc, call, ret>>

Statuses == {"ok", "err_uri", "err_poison", "panic", "err_cache", "null", "err_key", NoneVal}

\* A return value: the status, and for match_res the leaf infos found.
Ret(status) == [status |-> status, leaves |-> <<>>]

AdminCalls ==
    [op : {"init"}, action : {NoneVal}, uri : {NoneVal}, policy : {NoneVal}]
    \cup [op : {"add"}, action : Actions, uri : Uris, policy : Policies]
    \cup [op : {"remove"}, action : Actions, uri : Uris, policy : {NoneVal}]

\* A registry entry is keyed by format!("{res_uri}##{res_action}").
ApiKey(u, action) == <<u, action>>

\* The order in which each function takes its write locks.
InitLocks == <<"container", "apis">>
AddLocks == <<"container", "apis">>
\* Mutant: remove_res taking RES_APIS before RES_CONTAINER.
RemoveLocksSwapped == <<"apis", "container">>
RemoveLocks == <<"container", "apis">>
LocksOf(op) == CASE op = "init" -> InitLocks
                 [] op = "add" -> AddLocks
                 [] op = "remove" -> RemoveLocks

Store(l) == IF l = "container" THEN resContainer ELSE resApis

HeldBy(p) == {l \in Locks : lock[l].writer = p}
NextLock(p) == LocksOf(call[p].op)[Cardinality(HeldBy(p)) + 1]

\* Dropping the guards p holds; a panic also poisons the locks dropped.
Release(p, poison) ==
    [l \in Locks |-> IF lock[l].writer = p
                     THEN [writer |-> NoThread, poisoned |-> lock[l].poisoned \/ poison]
                     ELSE lock[l]]

-----------------------------------------------------------------------------
(***************************************************************************)
(* The bodies, run while the write guards are held.                        *)
(***************************************************************************)

\* The for loop of add_res: create missing nodes along the segments, and
\* under every node reached by a "$" segment put the action's leaf.
\* Mutant: the leaf put on the node before the "$" one.
RECURSIVE AddPathLeafEarly(_, _, _, _, _)
AddPathLeafEarly(t, n, items, action, leaf) ==
    IF items = <<>> THEN t
    ELSE LET item == Head(items)
             t1 == IF HasChild(t, n, item) THEN t ELSE InsertChild(t, n, item)
             t2 == IF item = "$" THEN InsertLeaf(t1, n, action, leaf) ELSE t1
         IN  AddPathLeafEarly(t2, Append(n, item), Tail(items), action, leaf)

RECURSIVE AddPath(_, _, _, _, _)
AddPath(t, n, items, action, leaf) ==
    IF items = <<>> THEN t
    ELSE LET item == Head(items)
             t1 == IF HasChild(t, n, item) THEN t ELSE InsertChild(t, n, item)
             m == Append(n, item)
             t2 == IF item = "$" THEN InsertLeaf(t1, m, action, leaf) ELSE t1
         IN  AddPath(t2, m, Tail(items), action, leaf)

\* The lazy initialisation both init_res and add_res do.
InitContainer == IF resContainer = NoneVal THEN NewResContainer ELSE resContainer
InitApis == IF resApis = NoneVal THEN [k \in {} |-> k] ELSE resApis

AddResBody(action, u, policy) ==
    LET items == ParseUri(u)
    IN  /\ resContainer' = AddPath(InitContainer, <<>>, items, action,
                                   [uri |-> u, policy |-> policy])
        /\ resApis' = IF HasApiForm(u)
                      THEN (ApiKey(u, action) :> policy) @@ InitApis
                      ELSE InitApis

\* remove_empty_node: walk down the segments, then on the way back up
\* drop every child left without children.
\* Mutant: the emptiness test reads the child as it was before the
\* recursive call pruned below it.
RECURSIVE RemoveEmptyNodeStale(_, _, _)
RemoveEmptyNodeStale(t, n, items) ==
    IF ChildLen(t, n) = 0 \/ items = <<>> THEN t
    ELSE LET item == Head(items)
             t1 == RemoveEmptyNodeStale(t, Append(n, item), Tail(items))
         IN  IF ChildLen(t, Append(n, item)) = 0 THEN RemoveChild(t1, n, item) ELSE t1

\* Mutant: a child with one child left is taken for an empty one.
RECURSIVE RemoveEmptyNodeEager(_, _, _)
RemoveEmptyNodeEager(t, n, items) ==
    IF ChildLen(t, n) = 0 \/ items = <<>> THEN t
    ELSE LET item == Head(items)
             t1 == RemoveEmptyNodeEager(t, Append(n, item), Tail(items))
         IN  IF ChildLen(t1, Append(n, item)) <= 1 THEN RemoveChild(t1, n, item) ELSE t1

RECURSIVE RemoveEmptyNode(_, _, _)
RemoveEmptyNode(t, n, items) ==
    IF ChildLen(t, n) = 0 \/ items = <<>> THEN t
    ELSE LET item == Head(items)
             t1 == RemoveEmptyNode(t, Append(n, item), Tail(items))
         IN  IF ChildLen(t1, Append(n, item)) = 0 THEN RemoveChild(t1, n, item) ELSE t1

\* remove_res: a missing segment is success with nothing changed;
\* otherwise drop the registry entry and the leaf, then prune.
\* Mutant: the registry entry is left behind.
RemoveResBodyKeepApi(action, u) ==
    LET items == ParseUri(u)
        found == \A k \in 1..Len(items) : SubSeq(items, 1, k) \in resContainer.nodes
    IN  IF ~found THEN UNCHANGED <<resContainer, resApis>>
        ELSE /\ resApis' = resApis
             /\ resContainer' = RemoveEmptyNode(RemoveChild(resContainer, items, action),
                                                <<>>, items)

RemoveResBody(action, u) ==
    LET items == ParseUri(u)
        found == \A k \in 1..Len(items) : SubSeq(items, 1, k) \in resContainer.nodes
    IN  IF ~found THEN UNCHANGED <<resContainer, resApis>>
        ELSE /\ resApis' = Restrict(resApis, DOMAIN resApis \ {ApiKey(u, action)})
             /\ resContainer' = RemoveEmptyNode(RemoveChild(resContainer, items, action),
                                                <<>>, items)

InitResBody ==
    /\ resContainer' = InitContainer
    /\ resApis' = InitApis

-----------------------------------------------------------------------------
Init ==
    /\ resContainer = NoneVal
    /\ resApis = NoneVal
    /\ lock = [l \in Locks |-> [writer |-> NoThread, poisoned |-> FALSE]]
    /\ pc = [p \in Threads |-> "idle"]
    /\ call = [p \in Threads |-> NoneVal]
    /\ ret = [p \in Threads |-> Ret(NoneVal)]

\* An admin thread calls a function.  add_res and remove_res lower-case
\* the action and parse the URI before taking any lock; a URI Url::parse
\* rejects returns the error there.
AdminCall(p, c) ==
    /\ pc[p] = "idle"
    /\ call' = [call EXCEPT ![p] = [c EXCEPT !.action = ToLowercase(@)]]
    /\ IF c.op # "init" /\ ~c.uri.valid
       THEN /\ ret' = [ret EXCEPT ![p] = Ret("err_uri")]
            /\ UNCHANGED pc
       ELSE /\ pc' = [pc EXCEPT ![p] = "locking"]
            /\ ret' = [ret EXCEPT ![p] = Ret(NoneVal)]
    /\ UNCHANGED <<resContainer, resApis, lock>>

\* RwLock::write()? on the next lock: it waits for the lock; a poisoned
\* lock gives Err, and `?` returns it, dropping the guards already held.
\* remove_res's expect("... got none") panics while holding the guard.
AcquireWrite(p) ==
    LET l == NextLock(p)
    IN  /\ pc[p] = "locking"
        /\ lock[l].writer = NoThread
        /\ CASE lock[l].poisoned ->
                    /\ lock' = Release(p, FALSE)
                    /\ pc' = [pc EXCEPT ![p] = "idle"]
                    /\ ret' = [ret EXCEPT ![p] = Ret("err_poison")]
             [] call[p].op = "remove" /\ Store(l) = NoneVal ->
                    /\ lock' = [Release(p, TRUE) EXCEPT ![l].poisoned = TRUE]
                    /\ pc' = [pc EXCEPT ![p] = "idle"]
                    /\ ret' = [ret EXCEPT ![p] = Ret("panic")]
             [] OTHER ->
                    /\ lock' = [lock EXCEPT ![l].writer = p]
                    /\ pc' = [pc EXCEPT ![p] = IF Cardinality(HeldBy(p)) + 1 = Len(LocksOf(call[p].op))
                                                THEN "body" ELSE "locking"]
                    /\ UNCHANGED ret
        /\ UNCHANGED <<resContainer, resApis, call>>

\* The body of the function, then the guards drop as it returns Ok(()).
Body(p) ==
    /\ pc[p] = "body"
    /\ CASE call[p].op = "init" -> InitResBody
         [] call[p].op = "add" -> AddResBody(call[p].action, call[p].uri, call[p].policy)
         [] call[p].op = "remove" -> RemoveResBody(call[p].action, call[p].uri)
    /\ lock' = Release(p, FALSE)
    /\ pc' = [pc EXCEPT ![p] = "idle"]
    /\ ret' = [ret EXCEPT ![p] = Ret("ok")]
    /\ UNCHANGED call

\* get_leaf_info of each leaf the walk pushed, in order.
LeafInfos(leaves) == [i \in DOMAIN leaves |-> resContainer.info[leaves[i]]]

\* match_res: parse, then RES_CONTAINER.read()? around the walk.  The
\* expect on an absent container panics under a read guard: no poison.
MatchResCall(p, action, u) ==
    /\ pc[p] = "idle"
    /\ ret' = [ret EXCEPT ![p] =
                 CASE ~u.valid -> Ret("err_uri")
                   [] lock["container"].poisoned -> Ret("err_poison")
                   [] resContainer = NoneVal -> Ret("panic")
                   [] OTHER -> [status |-> "ok",
                                leaves |-> LeafInfos(MatchRes(resContainer, action, u))]]
    /\ u.valid => lock["container"].writer = NoThread
    /\ UNCHANGED <<resContainer, resApis, lock, pc, call>>

\* delete_auth: hdel of the "{uri}##{action}" cache entry (the cache is not
\* modelled; the call may fail and `?` returns before any lock), then
\* remove_res.
DeleteAuth(p, c) ==
    \/ /\ pc[p] = "idle"
       /\ ret' = [ret EXCEPT ![p] = Ret("err_cache")]
       /\ UNCHANGED <<resContainer, resApis, lock, pc, call>>
    \/ AdminCall(p, c)

\* get_res_json: `if let Ok` on RES_CONTAINER.read(): a poisoned lock or an
\* absent container both give Value::Null, never an error.
GetResJson(p) ==
    /\ pc[p] = "idle"
    /\ lock["container"].writer = NoThread
    /\ ret' = [ret EXCEPT ![p] = Ret(IF lock["container"].poisoned \/ resContainer = NoneVal
                                     THEN "null" ELSE "ok")]
    /\ UNCHANGED <<resContainer, resApis, lock, pc, call>>

\* get_apis_json: RES_APIS.read(), a poisoned lock or None read as an empty
\* map; then block_on(fetch_public_key())? may fail.
GetApisJson(p) ==
    /\ pc[p] = "idle"
    /\ lock["apis"].writer = NoThread
    /\ \E keyOk \in BOOLEAN :
         ret' = [ret EXCEPT ![p] = Ret(IF keyOk THEN "ok" ELSE "err_key")]
    /\ UNCHANGED <<resContainer, resApis, lock, pc, call>>

Next ==
    \/ \E p \in Admins, c \in AdminCalls : AdminCall(p, c)
    \/ \E p \in Admins, c \in {x \in AdminCalls : x.op = "remove"} : DeleteAuth(p, c)
    \/ \E p \in Gateways : GetResJson(p) \/ GetApisJson(p)
    \/ \E p \in Admins : AcquireWrite(p) \/ Body(p)
    \/ \E p \in Gateways, a \in ReqActions, u \in Requests : MatchResCall(p, a, u)

Spec == Init /\ [][Next]_vars

-----------------------------------------------------------------------------
LeafInfo == [uri : Uris, policy : Policies]

TypeOK ==
    \* a trie whose leaves are exactly action-keyed children of "$" nodes
    /\ resContainer = NoneVal \/ (/\ <<>> \in resContainer.nodes
                                  /\ resContainer.nodes \subseteq Seq(STRING)
                                  /\ \A l \in DOMAIN resContainer.info :
                                        /\ l \in resContainer.nodes
                                        /\ Len(l) >= 2 /\ l[Len(l) - 1] = "$"
                                        /\ resContainer.info[l] \in LeafInfo)
    /\ resApis = NoneVal \/ \A k \in DOMAIN resApis : k \in Uris \X Actions /\ resApis[k] \in Policies
    /\ lock \in [Locks -> [writer : Threads \cup {NoThread}, poisoned : BOOLEAN]]
    /\ pc \in [Threads -> {"idle", "locking", "body"}]
    /\ \A p \in Threads : call[p] \in AdminCalls \cup {NoneVal}
    /\ ret \in [Threads -> [status : Statuses, leaves : Seq(LeafInfo)]]

(***************************************************************************)
(* The API registry (exported to the gateway by get_apis_json) and the     *)
(* trie agree: every registry entry add_res made for "{uri}##{action}" has *)
(* the trie leaf of that action at the URI's canonical path, holding the   *)
(* same policy, and every leaf whose URI has the "scheme://" form has its  *)
(* registry entry.  add_res writes both, remove_res deletes both, under    *)
(* two separate locks and keyed differently (raw string vs canonical).     *)
(* Spec section 3 states it: each such leaf has exactly one registry       *)
(* entry, and removal deletes both.                                        *)
(***************************************************************************)
RegistryMirrorsTrie ==
    resApis # NoneVal =>
      /\ \A k \in DOMAIN resApis :
            LET leaf == Append(ParseUri(k[1]), k[2])
            IN  /\ leaf \in DOMAIN resContainer.info
                /\ resContainer.info[leaf] = [uri |-> k[1], policy |-> resApis[k]]
      /\ \A l \in DOMAIN resContainer.info :
            HasApiForm(resContainer.info[l].uri) =>
                ApiKey(resContainer.info[l].uri, Last(l)) \in DOMAIN resApis

(***************************************************************************)
(* remove_res with remove_empty_node never leaves a dead chain: every node *)
(* but the root still leads to some leaf (spec 3 and 8, "Pruning").        *)
(***************************************************************************)
NoDeadNodes ==
    resContainer # NoneVal =>
      \A n \in resContainer.nodes \ {<<>>} :
          \E l \in DOMAIN resContainer.info : IsPrefix(n, l)

(***************************************************************************)
(* The matcher never misses a policy: in every state the trie can reach,   *)
(* match_res of any request returns every leaf whose registered resource   *)
(* the request matches by the wildcard and query rules.  A missed leaf is *)
(* a login, crypto or double-auth requirement the gateway does not apply. *)
(***************************************************************************)
NoMissedPolicy ==
    resContainer # NoneVal =>
      \A a \in ReqActions, u \in {r \in Requests : r.valid} :
          ExpectedLeaves(resContainer, a, u) \subseteq Range(MatchRes(resContainer, a, u))

(***************************************************************************)
(* The matcher never applies a policy that is not meant for the request:  *)
(* every leaf match_res returns belongs to a resource the request matches. *)
(***************************************************************************)
NoSpuriousPolicy ==
    resContainer # NoneVal =>
      \A a \in ReqActions, u \in {r \in Requests : r.valid} :
          Range(MatchRes(resContainer, a, u)) \subseteq ExpectedLeaves(resContainer, a, u)

(***************************************************************************)
(* The three writers take the two write locks in one order, so no two     *)
(* threads ever each wait for a lock the other holds.                      *)
(***************************************************************************)
WaitsFor(p, q) == pc[p] = "locking" /\ lock[NextLock(p)].writer = q

NoLockCycle == \A p, q \in Admins : ~(WaitsFor(p, q) /\ WaitsFor(q, p))

(***************************************************************************)
(* Removal is lenient (spec sections 7 and 8): remove_res of a resource   *)
(* that was never added returns success, so an admin retry is harmless.  *)
(* No remove_res or delete_auth call ever panics, in particular not the   *)
(* expect on an absent container before init_res (auth_res_serv.rs:175), *)
(* which would poison the write lock for every later call.               *)
(***************************************************************************)
RemovalIsLenient ==
    \A p \in Admins : call[p] # NoneVal /\ call[p].op = "remove" => ret[p].status # "panic"

(***************************************************************************)
(* The store implements AuthResStore: mapped to its trie's leaves and its  *)
(* registry, every behaviour of the threads, locks, poisoning and panics   *)
(* is one of the abstract store, in which each call is a single atomic     *)
(* put or delete of one key.  Taking a lock, a failed call and a reader    *)
(* are stuttering steps; the body of add_res, with its walk creating       *)
(* nodes, and of remove_res, with remove_empty_node pruning, must change   *)
(* exactly the leaf of the call and no other.                              *)
(***************************************************************************)
AbstractStore == INSTANCE AuthResStore WITH
    policies <- IF resContainer = NoneVal THEN NoneVal ELSE resContainer.info,
    apis <- resApis

ImplementsStore == AbstractStore!StoreSpec

=============================================================================
