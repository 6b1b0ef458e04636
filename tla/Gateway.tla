------------------------------- MODULE Gateway -------------------------------
(***************************************************************************)
(* Requests through a route of the gateway with three plugins: ip-time     *)
(* (IpTimeFilter), audit-log (AuditLog) and rewrite-ns (RewriteNs).  Each  *)
(* plugin is built from its config when the gateway loads it; audit-log's  *)
(* init runs before any request.  A request's request filters run in       *)
(* order, ip-time first: a request it rejects gets no response from the   *)
(* route.  audit-log's req_filter stamps the start time, rewrite-ns picks  *)
(* the namespace, the backend answers, and audit-log's resp_filter logs    *)
(* the response.  Requests interleave freely; the clock is the local time  *)
(* of day and advances on its own.  The spacegate kernel that runs the     *)
(* chain is not in this repository: the order above is the route's        *)
(* configured order.  A request's log content keeps its body as well, to  *)
(* state what its success flag must be.                                    *)
(***************************************************************************)
EXTENDS Integers, IpTimeFilter, RewriteNs, AuditLog

CONSTANTS
    Reqs,         \* request ids
    ClientIps,    \* peer addresses of clients
    Paths,        \* request paths
    Svcs,         \* the K8sService namespace a request is bound for, or NoNs
    Bodies,       \* backend response bodies
    IpConfigs,    \* candidate ip-time configs
    NsConfigs,    \* candidate rewrite-ns configs
    AlConfigs     \* candidate audit-log configs

VARIABLES
    ipCfg,     \* the ip-time config
    ipRules,   \* SgFilterIpTime.rules
    nsCfg,     \* the rewrite-ns config
    nsPlugin,  \* the RewriteNsPlugin
    clock,     \* local time of day
    req        \* req[r]: the state of request r

gwVars == <<ipCfg, ipRules, nsCfg, nsPlugin, clock, req>>
vars == <<gwVars, alVars>>

Stages == {"none", "arrived", "admitted", "rejected", "started", "forwarded",
           "responded", "done", "failed"}
NoBody == [kind |-> "none"]
NoReq == [stage |-> "none", ip |-> 0, path |-> "none", svc |-> NoNs, t |-> 0,
          pass |-> FALSE, ns |-> NoNs, body |-> NoBody]

Init ==
    /\ ipCfg \in IpConfigs
    /\ ipRules = FromConfig(ipCfg)
    /\ nsCfg \in NsConfigs
    /\ nsPlugin = Create(nsCfg)
    /\ clock \in Times
    /\ req = [r \in Reqs |-> NoReq]
    /\ AlInit(AlConfigs)

Step(r, from, to) == req[r].stage = from /\ req' = [req EXCEPT ![r].stage = to]

\* A client's request arrives once the plugins are initialised.
Arrive(r, ip, path, svc) ==
    /\ alInit # "new"
    /\ req[r].stage = "none"
    /\ req' = [req EXCEPT ![r] = [NoReq EXCEPT !.stage = "arrived", !.ip = ip,
                                               !.path = path, !.svc = svc]]
    /\ UNCHANGED <<ipCfg, ipRules, nsCfg, nsPlugin, clock, alVars>>

\* ip-time's req_filter at the current time of day.
IpTimeFilterStep(r) ==
    LET pass == ReqFilter(ipRules, req[r].ip, clock)
    IN /\ req[r].stage = "arrived"
       /\ req' = [req EXCEPT ![r].stage = IF pass THEN "admitted" ELSE "rejected",
                             ![r].t = clock, ![r].pass = pass]
       /\ UNCHANGED <<ipCfg, ipRules, nsCfg, nsPlugin, clock, alVars>>

\* audit-log's req_filter, audit_log.rs:149-152: it stamps the start time
\* into ctx (server_timing is not modelled) and passes.
AuditReqFilter(r) ==
    /\ Step(r, "admitted", "started")
    /\ UNCHANGED <<ipCfg, ipRules, nsCfg, nsPlugin, clock, alVars>>

\* rewrite-ns's call up to inner.call: the namespace, or the request fails.
\* Whether the request URI has a scheme is not decided in this repository
\* (the spacegate kernel builds it), so both forms are taken.
RewriteNsCall(r) ==
    \E absolute \in BOOLEAN :
    LET ns == Call(nsPlugin, req[r].svc, req[r].ip, absolute)
    IN /\ req[r].stage = "started"
       /\ req' = [req EXCEPT ![r].stage = IF ns = "error" THEN "failed" ELSE "forwarded",
                             ![r].ns = ns]
       /\ UNCHANGED <<ipCfg, ipRules, nsCfg, nsPlugin, clock, alVars>>

\* The backend in namespace ns answers (environment).
Backend(r, body) ==
    /\ req[r].stage = "forwarded"
    /\ req' = [req EXCEPT ![r].stage = "responded", ![r].body = body]
    /\ UNCHANGED <<ipCfg, ipRules, nsCfg, nsPlugin, clock, alVars>>

\* audit-log's resp_filter on the response.
AuditRespStep(r, dumped) ==
    /\ Step(r, "responded", "done")
    /\ AuditRespFilter([req |-> r, path |-> req[r].path, body |-> req[r].body,
                        success |-> FALSE], dumped)
    /\ UNCHANGED <<ipCfg, ipRules, nsCfg, nsPlugin, clock, alCfg, alInit, enabled, jsonInst, invokeOk>>

Tick ==
    /\ clock' = (clock + 1) % DayParts
    /\ UNCHANGED <<ipCfg, ipRules, nsCfg, nsPlugin, req, alVars>>

Next ==
    \/ AuditInit /\ UNCHANGED gwVars
    \/ \E r \in Reqs :
         \/ \E ip \in ClientIps, p \in Paths, s \in Svcs : Arrive(r, ip, p, s)
         \/ IpTimeFilterStep(r) \/ AuditReqFilter(r) \/ RewriteNsCall(r)
         \/ \E b \in Bodies : Backend(r, b)
         \/ \E d \in BOOLEAN : AuditRespStep(r, d)
    \/ \E c \in tasks : SpiLogAdd(c) /\ UNCHANGED gwVars
    \/ Tick

Spec == Init /\ [][Next]_vars

-----------------------------------------------------------------------------
\* The networks a config rule lists: its "a.b.c.d/len" strings.
Listed(cr, ip) == \E p \in cr.ip_list : p.kind = "cidr" /\ Contains([base |-> p.base, len |-> p.len], ip)

\* ip-time admits a request exactly when one config rule both lists the
\* peer address and admits the time of day: parsing, aggregating each
\* rule's networks and pairing every aggregate with its own rule's time
\* rule (mod.rs:40-61) neither widens nor narrows a rule.
IpTimeAdmission ==
    \A r \in Reqs : req[r].stage \notin {"none", "arrived"} =>
        req[r].pass = \E cr \in ipCfg : Listed(cr, req[r].ip) /\ CheckByTime(cr.time_rule, req[r].t)

\* rewrite-ns sends a request to the target namespace exactly when it is
\* bound for a namespaced service and its peer address is listed, as a
\* network or as a bare address (the fallback parse at line 77); any other
\* request keeps its namespace.
RoutedByIpList ==
    \A r \in Reqs : req[r].stage \in {"forwarded", "responded", "done", "failed"} =>
        LET listed == \E p \in nsCfg.ip_list :
                        \/ p.kind = "cidr" /\ Contains([base |-> p.base, len |-> p.len], req[r].ip)
                        \/ p.kind = "addr" /\ p.a = req[r].ip
        IN (req[r].ns \in {nsCfg.target_ns, "error"}) = (listed /\ req[r].svc # NoNs)

\* What test_log_content asserts (audit_log.rs:211-302): a body whose code
\* is "200" or 200 is logged as a success, "500" or 500 as a failure;
\* every content handed to the backend agrees with that.
LogSuccessAgreesWithCode ==
    \A c \in logs \cup tasks :
        c.success = (\/ c.body.kind = "str" /\ c.body.t \in {"200", "201"}
                     \/ c.body.kind = "int" /\ c.body.v \in {200, 201})
=============================================================================
