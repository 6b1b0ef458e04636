------------------------------- MODULE AuditLog -------------------------------
(***************************************************************************)
(* The audit-log gateway filter, src/gateway/spacegate-lib/src/plugin/     *)
(* audit_log.rs and audit_log/log_backend.rs.  init() enables the filter   *)
(* when its JSON path compiles and its backend is usable; resp_filter of  *)
(* an enabled filter builds a LogParamContent for every response whose     *)
(* path is not excluded and hands it to the backend: Tracing writes it at  *)
(* once, Spi spawns a task that sends it to the log service and drops any  *)
(* error.  success says whether the response body's $.code is one of the   *)
(* success values, compared as strings or, for a JSON integer, as i64.     *)
(*                                                                         *)
(* A response body is [kind, t] for a JSON string code t, [kind, v] for a  *)
(* JSON integer or float code v, or a kind of "other" (bool, null, object, *)
(* array), "nocode" (no $.code) or "invalid" (not JSON).  Success values   *)
(* are strings; ParseI64 is str::parse::<i64> on them.                     *)
(***************************************************************************)
EXTENDS Integers

CONSTANTS
    Texts,          \* the strings a code or a success value can be
    ParseI64        \* [numeric strings -> their i64]

VARIABLES
    alCfg,      \* the filter's deserialized config
    alInit,     \* "new", then the result of init(): "ok" or "err"
    enabled,    \* self.enabled
    jsonInst,   \* self.jsonpath_inst.is_some()
    invokeOk,   \* invoke_initializer::init(CODE, ..) has succeeded
    tasks,      \* Spi log tasks spawned and not yet finished
    logs        \* the contents that reached the log (tracing or service)

alVars == <<alCfg, alInit, enabled, jsonInst, invokeOk, tasks, logs>>

\* LogBackendEnum::default, log_backend.rs lines 23-27.
DefaultBackend == "Tracing"

\* SgFilterAuditLog::default, lines 94-106: the Tracing backend, "$.code"
\* (a path that compiles), disabled, successes "200" and "201", the API
\* export path excluded.
DefaultConfig ==
    [backend |-> DefaultBackend, log_url |-> FALSE, spi_app_id |-> FALSE, path_ok |-> TRUE,
     enabled |-> FALSE, values |-> {"200", "201"}, exclude |-> {"/starsysApi/apis"}]

\* Configs are [backend, log_url, spi_app_id (non-empty?), path_ok (does
\* success_json_path compile?), enabled, values, exclude].
AlInit(configs) ==
    /\ alCfg \in configs
    /\ alInit = "new"
    /\ enabled = alCfg.enabled
    /\ jsonInst = FALSE
    /\ invokeOk = FALSE
    /\ tasks = {}
    /\ logs = {}

\* init, lines 118-143.  enabled is set first, whatever the config said;
\* a failing invoke_initializer::init returns through `?` with it set.
AuditInit ==
    LET spi == alCfg.backend = "Spi"
        usable == alCfg.log_url /\ alCfg.spi_app_id
    IN /\ alInit = "new"
       /\ jsonInst' = alCfg.path_ok
       /\ \/ /\ spi /\ usable
             /\ enabled' = alCfg.path_ok
             /\ \E ok \in BOOLEAN : invokeOk' = ok /\ alInit' = IF ok THEN "ok" ELSE "err"
          \/ /\ spi /\ ~usable
             /\ enabled' = FALSE
             /\ alInit' = "err"
             /\ UNCHANGED invokeOk
          \/ /\ ~spi
             /\ enabled' = alCfg.path_ok
             /\ alInit' = "ok"
             /\ UNCHANGED invokeOk
       /\ UNCHANGED <<alCfg, tasks, logs>>

\* Mutant: a JSON number never matched (the is_number arm missing).
SuccessOfStringsOnly(body) ==
    /\ jsonInst
    /\ body.kind = "str"
    /\ body.t \in alCfg.values

\* get_log_content's success, lines 59-73: the first match of the path;
\* a string compared with each value, an integer with each value that
\* parses as i64; a float (as_i64 is None), any other JSON value, no match,
\* a body that is not JSON or no compiled path give false.
SuccessOf(body) ==
    /\ jsonInst
    /\ \/ body.kind = "str" /\ body.t \in alCfg.values
       \/ body.kind = "int" /\ body.v \in {ParseI64[s] : s \in alCfg.values \cap DOMAIN ParseI64}

\* LogBackendEnum::log, log_backend.rs:28-91: Tracing writes the content
\* at once; Spi builds the log's context and ext and spawns the send.
BackendLog(content) ==
    IF alCfg.backend = "Tracing"
    THEN /\ logs' = logs \cup {content}
         /\ UNCHANGED tasks
    ELSE /\ tasks' = tasks \cup {content}
         /\ UNCHANGED logs

\* resp_filter, lines 154-169, for a response to path with the given body:
\* nothing when disabled or the path is excluded; dump_body failing
\* (dumped) returns the error through `?` before logging; otherwise the
\* content goes to backend.log.
AuditRespFilter(rec, dumped) ==
    LET content == [rec EXCEPT !.success = SuccessOf(rec.body)]
    IN IF ~enabled \/ rec.path \in alCfg.exclude \/ ~dumped
       THEN UNCHANGED <<tasks, logs>>
       ELSE BackendLog(content)

\* The spawned task, log_backend.rs:92-116: SpiLogClient::add succeeds only
\* with the client initialised; an error is logged and dropped.
SpiLogAdd(c) ==
    /\ c \in tasks
    /\ tasks' = tasks \ {c}
    /\ \E ok \in BOOLEAN :
         logs' = IF ok /\ invokeOk THEN logs \cup {c} ELSE logs
    /\ UNCHANGED <<alCfg, alInit, enabled, jsonInst, invokeOk>>
=============================================================================
