---------------------------- MODULE IpTimeFilter ----------------------------
(***************************************************************************)
(* The ip-time gateway filter, src/gateway/spacegateway/src/plugin/        *)
(* ip_time/mod.rs and ip_time_rule.rs.  A config rule is a list of IP      *)
(* strings and a time rule; From<SgFilterIpTimeConfig> parses the strings  *)
(* as networks (dropping, with a warning, what does not parse), aggregates *)
(* each rule's networks and pairs every aggregate with that rule's time    *)
(* rule.  req_filter passes a request when some pair's network contains    *)
(* the peer address and its time rule admits the local time of day.       *)
(*                                                                         *)
(* An IP string is [kind |-> "cidr", base, len] ("a.b.c.d/len"),           *)
(* [kind |-> "addr", a] (a bare address) or [kind |-> "junk"].  A time of  *)
(* day is one of DayParts slots; a Range<NaiveTime> is [start, end).       *)
(***************************************************************************)
EXTENDS Integers, IpNets

CONSTANT DayParts

Times == 0..(DayParts - 1)

\* p.parse::<IpNet>(), mod.rs:47-53: only "addr/len" parses as a network.
ParseNet(p) == IF p.kind = "cidr" THEN {[base |-> p.base, len |-> p.len]} ELSE {}

\* Range::contains, ip_time_rule.rs:23: start <= t < end, so a range whose
\* start is after its end (one across midnight) contains nothing.
RangeContains(rg, t) == rg.start <= t /\ t < rg.end

\* IpTimeRule::check_by_time, ip_time_rule.rs:22-32.
CheckByTime(rule, t) ==
    IF rule.mode = "WhiteList"
    THEN \E rg \in rule.time_allow : RangeContains(rg, t)
    ELSE ~\E rg \in rule.time_ban : RangeContains(rg, t)

\* Mutant: aggregate hoisted out of the loop, every rule's time rule paired
\* with the networks of all rules.
FromConfigMerged(cfg) ==
    LET nets == Aggregate(UNION {UNION {ParseNet(p) : p \in cr.ip_list} : cr \in cfg})
    IN {<<n, cr.time_rule>> : n \in nets, cr \in cfg}

\* From<SgFilterIpTimeConfig> for SgFilterIpTime, mod.rs:40-61.
FromConfig(cfg) ==
    UNION {{<<n, cr.time_rule>> : n \in Aggregate(UNION {ParseNet(p) : p \in cr.ip_list})} : cr \in cfg}

\* req_filter, mod.rs:85-90, at time of day t (check_by_now).
ReqFilter(rules, ip, t) == \E pr \in rules : Contains(pr[1], ip) /\ CheckByTime(pr[2], t)
=============================================================================
