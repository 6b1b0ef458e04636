------------------------------ MODULE MCGateway ------------------------------
EXTENDS Gateway, TLC

\* IP strings.
Cidr(b, l) == [kind |-> "cidr", base |-> b, len |-> l]
Addr(a) == [kind |-> "addr", a |-> a]
Junk == [kind |-> "junk"]

\* One ip-time config: 0.x/1 and the bare address 2 on a daytime
\* white list; 2.x/1 on a black list whose ban crosses midnight.
MCIpConfigs ==
    {{ [ip_list |-> {Cidr(1, 1), Addr(2)},
        time_rule |-> [mode |-> "WhiteList", time_allow |-> {[start |-> 1, end |-> 3]}, time_ban |-> {}]],
       [ip_list |-> {Cidr(2, 1), Junk},
        time_rule |-> [mode |-> "BlackList", time_allow |-> {}, time_ban |-> {[start |-> 3, end |-> 1]}]] }}

MCNsConfigs ==
    { [ip_list |-> {Addr(1), Junk}, target_ns |-> "t"],
      [ip_list |-> {Cidr(3, 1)}, target_ns |-> "bad ns"] }

MCAlConfigs ==
    { [DefaultConfig EXCEPT !.backend = b, !.log_url = u, !.spi_app_id = TRUE, !.path_ok = ok] :
        <<b, u, ok>> \in {<<"Tracing", TRUE, TRUE>>, <<"Tracing", TRUE, FALSE>>,
                          <<"Spi", TRUE, TRUE>>, <<"Spi", FALSE, TRUE>>} }

MCBodies ==
    { [kind |-> "str", t |-> "200"], [kind |-> "str", t |-> "500"],
      [kind |-> "int", v |-> 200], [kind |-> "int", v |-> 500],
      [kind |-> "float", v |-> 200], [kind |-> "other"] }

ReqSym == Permutations(Reqs)

MCParseI64 == ("200" :> 200) @@ ("201" :> 201) @@ ("500" :> 500)
=============================================================================
