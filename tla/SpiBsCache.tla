----------------------------- MODULE SpiBsCache -----------------------------
(***************************************************************************)
(* The backend-service instance cache of src/basic/src/spi/spi_funs.rs     *)
(* and the operations of src/basic/src/spi/serv/spi_bs_serv.rs that change *)
(* what it caches.                                                         *)
(*                                                                         *)
(* SPI_BS_CACHES is a `static mut Option<HashMap<key, SpiBsInst>>` read    *)
(* and written from request tasks with no lock.  init() tests the key      *)
(* (line 87), awaits the backend lookup and the client construction, then  *)
(* inserts (line 97); init_bs() then calls bs(), which unwraps the entry   *)
(* (line 120) and hands out a &'static reference the request uses across  *)
(* its own awaits.  A task's step between two awaits is one step here.    *)
(* Backend services, their certs and their tenant relations live in the    *)
(* database; add_rel checks and then adds, with an await in between.       *)
(***************************************************************************)
EXTENDS Naturals, FiniteSets

CONSTANTS
    Tasks,     \* request tasks
    Owners,    \* ctx.owner: the tenant a request runs for
    Bss,       \* backend services (spi_bs items)
    Uris       \* conn_uri values of a backend's cert

\* Instance ids.  The cache is never cleared and a task inserts only after
\* finding its key absent, so at most one instance per task and key is built.
Insts == 1..(Cardinality(Tasks) * Cardinality(Owners))
NoInst == 0

VARIABLES
    cacheSome,  \* SPI_BS_CACHES.is_some()
    caches,     \* caches[k]: the instance cached under key k, or NoInst
    alive,      \* the instances not yet dropped
    instOf,     \* instOf[i]: the backend and conn_uri instance i was built from
    nextInst,   \* the id the next built instance gets
    rels,       \* rels[<<b, o>>]: rbum_rel rows tagging backend b to tenant o
    certUri,    \* certUri[b]: the conn_uri of b's cert row
    pc,         \* where each task is
    arg,        \* the arguments and locals of each task's call
    ref         \* the instance a task holds a reference to

vars == <<cacheSome, caches, alive, instOf, nextInst, rels, certUri, pc, arg, ref>>

Pcs == {"idle", "fetch", "init_fun", "insert", "bs", "use", "panicked", "rel_add"}
NoArg == [owner |-> "none", bs |-> "none", uri |-> "none"]

\* format!("{}-{}", self.module_code(), ctx.owner) in init() and in bs();
\* the model has one module, so a key is the owner.
InitCacheKey(o) == o
BsCacheKey(o) == o

\* SpiBsServ::get_bs_by_rel(&ctx.owner): a backend tagged to the tenant.
RelatedBss(o) == {b \in Bss : rels[<<b, o>>] > 0}

Init ==
    /\ cacheSome = FALSE
    /\ caches = [o \in Owners |-> NoInst]
    /\ alive = {}
    /\ instOf = [i \in Insts |-> [bs |-> "none", uri |-> "none"]]
    /\ nextInst = 1
    /\ rels \in [Bss \X Owners -> {0, 1}]
    /\ certUri \in [Bss -> Uris]
    /\ pc = [t \in Tasks |-> "idle"]
    /\ arg = [t \in Tasks |-> NoArg]
    /\ ref = [t \in Tasks |-> NoInst]

-----------------------------------------------------------------------------
(* init_bs(ctx): init() then bs().                                         *)

\* Lines 79-87 (and 99 on a hit): create the map if absent, test the key.
Check(t, o) ==
    /\ pc[t] = "idle"
    /\ cacheSome' = TRUE
    /\ arg' = [arg EXCEPT ![t] = [NoArg EXCEPT !.owner = o]]
    /\ pc' = [pc EXCEPT ![t] = IF caches[InitCacheKey(o)] # NoInst THEN "bs" ELSE "fetch"]
    /\ UNCHANGED <<caches, alive, instOf, nextInst, rels, certUri, ref>>

\* Line 88: SpiBsServ::get_bs_by_rel(&ctx.owner) awaited; `?` on no backend.
Fetch(t) ==
    /\ pc[t] = "fetch"
    /\ IF RelatedBss(arg[t].owner) = {}
       THEN /\ pc' = [pc EXCEPT ![t] = "idle"]
            /\ arg' = [arg EXCEPT ![t] = NoArg]
       ELSE \E b \in RelatedBss(arg[t].owner) :
              /\ pc' = [pc EXCEPT ![t] = "init_fun"]
              /\ arg' = [arg EXCEPT ![t].bs = b, ![t].uri = certUri[b]]
    /\ UNCHANGED <<cacheSome, caches, alive, instOf, nextInst, rels, certUri, ref>>

\* Line 95: init_fun(spi_bs, ctx, mgr) awaited; it builds a client from the
\* cert's conn_uri, or fails and `?` returns the error.
InitFun(t) ==
    /\ pc[t] = "init_fun"
    /\ \E ok \in BOOLEAN :
         /\ pc' = [pc EXCEPT ![t] = IF ok THEN "insert" ELSE "idle"]
         /\ arg' = IF ok THEN arg ELSE [arg EXCEPT ![t] = NoArg]
    /\ UNCHANGED <<cacheSome, caches, alive, instOf, nextInst, rels, certUri, ref>>

\* Lines 96-99: caches.insert(cache_key, spi_bs_inst): the new instance
\* replaces (and drops) any value under the key; init() returns a reference
\* to it, which init_bs discards.
Insert(t) ==
    LET k == InitCacheKey(arg[t].owner)
        i == nextInst
    IN /\ pc[t] = "insert"
       /\ caches' = [caches EXCEPT ![k] = i]
       /\ alive' = (alive \ {caches[k]}) \cup {i}
       /\ instOf' = [instOf EXCEPT ![i] = [bs |-> arg[t].bs, uri |-> arg[t].uri]]
       /\ nextInst' = nextInst + 1
       /\ pc' = [pc EXCEPT ![t] = "bs"]
       /\ UNCHANGED <<cacheSome, rels, certUri, arg, ref>>

\* bs(), lines 115-121: caches.get(&cache_key).unwrap(), a panic if absent.
Bs(t) ==
    LET k == BsCacheKey(arg[t].owner)
    IN /\ pc[t] = "bs"
          /\ IF k \in DOMAIN caches /\ caches[k] # NoInst
          THEN /\ ref' = [ref EXCEPT ![t] = caches[k]]
               /\ pc' = [pc EXCEPT ![t] = "use"]
          ELSE /\ ref' = ref
               /\ pc' = [pc EXCEPT ![t] = "panicked"]
       /\ UNCHANGED <<cacheSome, caches, alive, instOf, nextInst, rels, certUri, arg>>

\* The request's handler uses the &'static SpiBsInst and returns.
Use(t) ==
    /\ pc[t] = "use"
    /\ pc' = [pc EXCEPT ![t] = "idle"]
    /\ arg' = [arg EXCEPT ![t] = NoArg]
    /\ ref' = [ref EXCEPT ![t] = NoInst]
    /\ UNCHANGED <<cacheSome, caches, alive, instOf, nextInst, rels, certUri>>

-----------------------------------------------------------------------------
(* spi_bs_serv.rs                                                          *)

\* add_rel, lines 212-225: exist_simple_rel awaited; if present, Ok.
AddRelCheck(t, b, o) ==
    /\ pc[t] = "idle"
    /\ pc' = [pc EXCEPT ![t] = IF rels[<<b, o>>] > 0 THEN "idle" ELSE "rel_add"]
    /\ arg' = [arg EXCEPT ![t] = [owner |-> o, bs |-> b, uri |-> "none"]]
    /\ UNCHANGED <<cacheSome, caches, alive, instOf, nextInst, rels, certUri, ref>>

\* Line 226: add_simple_rel inserts another relation row.
AddRelAdd(t) ==
    LET r == <<arg[t].bs, arg[t].owner>>
    IN /\ pc[t] = "rel_add"
       /\ rels' = [rels EXCEPT ![r] = @ + 1]
       /\ pc' = [pc EXCEPT ![t] = "idle"]
       /\ arg' = [arg EXCEPT ![t] = NoArg]
       /\ UNCHANGED <<cacheSome, caches, alive, instOf, nextInst, certUri, ref>>

\* delete_rel, lines 231-250: the matching relation rows are found, then
\* deleted one by one; a delete_rbum failing returns through `?` with the
\* rows after it left (k of them), a failing find leaves all of them.
DeleteRel(b, o) ==
    /\ \E k \in 0..rels[<<b, o>>] : rels' = [rels EXCEPT ![<<b, o>>] = k]
    /\ UNCHANGED <<cacheSome, caches, alive, instOf, nextInst, certUri, pc, arg, ref>>

\* after_modify_item, lines 113-144: the backend's cert gets the new conn_uri.
ModifyCert(b, u) ==
    /\ certUri' = [certUri EXCEPT ![b] = u]
    /\ UNCHANGED <<cacheSome, caches, alive, instOf, nextInst, rels, pc, arg, ref>>

\* Every step but the request handler's use of the instance.
CacheNext ==
    \/ \E t \in Tasks :
         \/ \E o \in Owners : Check(t, o)
         \/ Fetch(t) \/ InitFun(t) \/ Insert(t) \/ Bs(t)
         \/ \E b \in Bss, o \in Owners : AddRelCheck(t, b, o)
         \/ AddRelAdd(t)
    \/ \E b \in Bss, o \in Owners : DeleteRel(b, o)
    \/ \E b \in Bss, u \in Uris : ModifyCert(b, u)

Next == CacheNext \/ \E t \in Tasks : Use(t)

Spec == Init /\ [][Next]_vars

-----------------------------------------------------------------------------
\* A request never uses a SpiBsInst after it has been dropped: the
\* &'static reference bs() returns stays valid while the request uses it.
NoUseAfterFree == \A t \in Tasks : pc[t] = "use" => ref[t] \in alive

=============================================================================
