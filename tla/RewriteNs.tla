------------------------------ MODULE RewriteNs ------------------------------
(***************************************************************************)
(* The rewrite-ns gateway plugin, src/gateway/spacegate-lib/src/plugin/    *)
(* rewrite_ns_b_ip.rs.  Its config lists IP strings and a target           *)
(* namespace; create() parses each string as a network or else as a bare  *)
(* address (a host network), dropping the rest.  call() sends a request    *)
(* bound for a Kubernetes service in some namespace to the same service in *)
(* the target namespace when the peer address is in a listed network, by   *)
(* rewriting the URI authority to "{svc}.{target_ns}[:port]"; an authority *)
(* that does not parse fails the request.  IP strings are as in            *)
(* IpTimeFilter; a namespace is a model value, and ValidNs are the         *)
(* namespaces that form a valid authority.                                 *)
(***************************************************************************)
EXTENDS Integers, IpNets

CONSTANT ValidNs

NoNs == "no_ns"

\* Mutant: only "addr/len" strings accepted, as ip_time's parse does.
ParseIpCidrOnly(p) == IF p.kind = "cidr" THEN {[base |-> p.base, len |-> p.len]} ELSE {}

\* p.parse().or(p.parse::<IpAddr>().map(IpNet::from)), lines 76-77.
ParseIp(p) ==
    CASE p.kind = "cidr" -> {[base |-> p.base, len |-> p.len]}
      [] p.kind = "addr" -> {[base |-> p.a, len |-> W]}
      [] OTHER           -> {}

\* RewriteNsPlugin::create, lines 70-88 (Deserialize, lines 33-57, is the
\* same conversion).
Create(cfg) == [ip_list |-> UNION {ParseIp(p) : p \in cfg.ip_list}, target_ns |-> cfg.target_ns]

\* call, lines 89-110: the namespace the request is sent to, or "error"
\* when the new authority does not parse (`?` at line 102) or when
\* Uri::from_parts refuses the parts (`?` at line 104): an authority put
\* into a URI without a scheme (absolute = FALSE) is SchemeMissing.  svc is
\* the request's K8sService: NoNs when it has none or no namespace.
Call(plugin, svc, ip, absolute) ==
    CASE svc = NoNs \/ ~\E n \in plugin.ip_list : Contains(n, ip) -> svc
      [] plugin.target_ns \notin ValidNs \/ ~absolute               -> "error"
      [] OTHER                                                        -> plugin.target_ns
=============================================================================
