---------------------------- MODULE WsEventCenter ----------------------------
(***************************************************************************)
(* The websocket event center of                                           *)
(* src/frontend/sdks/invoke/src/clients/event_client.rs.                   *)
(*                                                                         *)
(* WsEventCenter is #[derive(Clone)] over two fields: handlers, an Arc     *)
(* shared by every clone, and ws_client, a OnceLock that a clone copies.   *)
(* A center's handlers field is a reference to one of the handler maps;   *)
(* cloning the Arc copies the reference, not the map.                      *)
(* init() clones self into a spawned task.  The task waits for the web     *)
(* server, registers a listener (expect: a failure panics the task),       *)
(* retries the websocket connect every second, stores the client in the    *)
(* task's clone and then reconnects forever.  publish() reads self's       *)
(* ws_client; subscribe() appends to the shared handler list.  Each        *)
(* received event snapshots the handlers of its code and spawns one tokio  *)
(* task per handler.                                                       *)
(***************************************************************************)
EXTENDS Naturals, Sequences, FiniteSets

CONSTANTS
    Events,         \* event codes, E::CODE
    Handlers,       \* handler closures
    Msgs,           \* event payloads
    MaxHandlers,    \* bound on the handlers of one code
    MaxDeliveries   \* bound on the events the server pushes

\* The WsEventCenter values: the caller's and the clone moved into the task.
Centers == {"center", "task"}

VARIABLES
    arcOf,       \* arcOf[c]: the Arc<ShardedLock<HashMap<..>>> c's handlers field points to
    handlers,    \* handlers[a]: the map behind Arc a, code -> Vec<handler>
    wsClient,    \* wsClient[c]: whether c's OnceLock holds a client
    taskPc,      \* where the task spawned by init() is
    serverUp,    \* TardisFuns::web_server().is_running()
    delivered,   \* the events the task's ws client received, in order
    spawned,     \* handler tasks spawned and not yet finished
    handled,     \* handler tasks that have finished
    lastPublish  \* what the last publish() returned

vars == <<arcOf, handlers, wsClient, taskPc, serverUp, delivered, spawned, handled, lastPublish>>

\* A handler task: the handler, the delivery it serves and its position in
\* the snapshot the delivery took.
HandlerTasks == [h : Handlers, d : 1..MaxDeliveries, k : 1..MaxHandlers]

\* WsEventCenter::default() allocates the caller's Arc.
Init ==
    /\ arcOf = [c \in Centers |-> "center"]
    /\ handlers = [a \in Centers |-> [e \in Events |-> <<>>]]
    /\ wsClient = [c \in Centers |-> FALSE]
    /\ taskPc = "none"
    /\ serverUp = FALSE
    /\ delivered = <<>>
    /\ spawned = {}
    /\ handled = {}
    /\ lastPublish = "none"

-----------------------------------------------------------------------------
InitCenter ==
    /\ taskPc = "none"
    /\ taskPc' = "wait_server"
    /\ wsClient' = [wsClient EXCEPT !["task"] = wsClient["center"]]
    /\ arcOf' = [arcOf EXCEPT !["task"] = arcOf["center"]]
    /\ UNCHANGED <<handlers, serverUp, delivered, spawned, handled, lastPublish>>

\* The web server starts (environment).
ServerStart ==
    /\ ~serverUp
    /\ serverUp' = TRUE
    /\ UNCHANGED <<arcOf, handlers, wsClient, taskPc, delivered, spawned, handled, lastPublish>>

\* The wait loop: break once the server runs, else yield_now and loop.
WaitServer ==
    /\ taskPc = "wait_server"
    /\ taskPc' = IF serverUp THEN "register" ELSE "wait_server"
    /\ UNCHANGED <<arcOf, handlers, wsClient, serverUp, delivered, spawned, handled, lastPublish>>

\* EventClient::register: the POST to {base_url}/listener fails (`?`), or its
\* response has no body, or a body without data (an error with its msg), or
\* the data.
RegisterResults == {"err_transport", "err_no_body", "err_no_data", "ok"}

\* The register call; an error makes .expect("fail to register event
\* center") panic the task.
Register ==
    /\ taskPc = "register"
    /\ \E r \in RegisterResults : taskPc' = IF r = "ok" THEN "connect" ELSE "dead"
    /\ UNCHANGED <<arcOf, handlers, wsClient, serverUp, delivered, spawned, handled, lastPublish>>

\* The connect loop: a failure sleeps RETRY_INTERVAL and retries; a success
\* breaks, and `this.ws_client.get_or_init` stores it in the task's clone.
Connect ==
    /\ taskPc = "connect"
    /\ \E ok \in BOOLEAN :
         /\ taskPc' = IF ok THEN "connected" ELSE "connect"
         /\ wsClient' = IF ok THEN [wsClient EXCEPT !["task"] = TRUE] ELSE wsClient
    /\ UNCHANGED <<arcOf, handlers, serverUp, delivered, spawned, handled, lastPublish>>

\* The endless reconnect loop of the task.
Reconnect ==
    /\ taskPc = "connected"
    /\ UNCHANGED vars

\* publish(): sends through self's ws_client, or errs "not initialized".
Publish ==
    /\ lastPublish' = IF wsClient["center"] THEN "ok" ELSE "err_not_initialized"
    /\ UNCHANGED <<arcOf, handlers, wsClient, taskPc, serverUp, delivered, spawned, handled>>

\* subscribe() on the caller's center, lines 302-312: push the wrapped
\* handler under E::CODE in the map its Arc points to.
Subscribe(h, e) ==
    LET a == arcOf["center"]
    IN /\ Len(handlers[a][e]) < MaxHandlers
       /\ handlers' = [handlers EXCEPT ![a][e] = Append(@, h)]
       /\ UNCHANGED <<arcOf, wsClient, taskPc, serverUp, delivered, spawned, handled, lastPublish>>

\* The ws client's message callback: a text message with an event code
\* clones the handlers of that code and spawns one task for each of them.
Spawn(snapshot, d) == {[h |-> snapshot[k], d |-> d, k |-> k] : k \in DOMAIN snapshot}

\* The callback's `this` is a clone of the task's center (lines 239, 241).
Receive(e, m) ==
    LET snapshot == handlers[arcOf["task"]][e]
    IN /\ taskPc = "connected"
       /\ Len(delivered) < MaxDeliveries
       /\ delivered' = Append(delivered, [event |-> e, msg |-> m, snapshot |-> snapshot])
       /\ spawned' = spawned \cup Spawn(snapshot, Len(delivered) + 1)
       /\ UNCHANGED <<arcOf, handlers, wsClient, taskPc, serverUp, handled, lastPublish>>

\* A spawned handler task runs to completion (errors are only logged).
RunHandler(t) ==
    /\ t \in spawned
    /\ spawned' = spawned \ {t}
    /\ handled' = handled \cup {t}
    /\ UNCHANGED <<arcOf, handlers, wsClient, taskPc, serverUp, delivered, lastPublish>>

Next ==
    \/ InitCenter \/ ServerStart \/ WaitServer \/ Register \/ Connect \/ Reconnect
    \/ Publish
    \/ \E h \in Handlers, e \in Events : Subscribe(h, e)
    \/ \E e \in Events, m \in Msgs : Receive(e, m)
    \/ \E t \in spawned : RunHandler(t)

Spec == Init /\ [][Next]_vars


-----------------------------------------------------------------------------
TypeOK ==
    /\ arcOf \in [Centers -> Centers]
    /\ handlers \in [Centers -> [Events -> Seq(Handlers)]]
    /\ wsClient \in [Centers -> BOOLEAN]
    /\ taskPc \in {"none", "wait_server", "register", "connect", "connected", "dead"}
    /\ spawned \subseteq HandlerTasks /\ handled \subseteq HandlerTasks
    /\ lastPublish \in {"none", "ok", "err_not_initialized"}

\* Once init()'s task has connected to the event service, publish() on the
\* event center sends the event instead of failing with "event center not
\* initialized" (publish, event_client.rs:287-298).
PublishAfterConnect ==
    taskPc = "connected" => wsClient["center"]

=============================================================================
