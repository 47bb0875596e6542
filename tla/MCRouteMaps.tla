---------------------------- MODULE MCRouteMaps ----------------------------
EXTENDS RouteMaps

CONSTANTS c, g, r, t, v, w

MCClasses    == {c}
MCGateways   == {g}
MCHTTPRoutes == {r}
MCTLSRoutes  == {t}
MCServices   == {v, w}

Web(hostname) == [port |-> 80, protocol |-> "HTTP", hostname |-> hostname, certs |-> {},
                  kinds |-> {}, mode |-> ""]
Tls == [port |-> 443, protocol |-> "TLS", hostname |-> <<>>, certs |-> {}, kinds |-> {},
        mode |-> "Passthrough"]

Gateway(listeners) == [class |-> c, params |-> NoParams, listeners |-> listeners]

Path(type) == [type |-> type, value |-> <<"p">>]
Rule(path, backends) == [path |-> path, backends |-> backends]
Route(section, hostnames, rules) ==
    [parents |-> {[gateway |-> g, section |-> section]}, hostnames |-> hostnames, rules |-> rules]

com  == <<"com">>
acom == <<"a", "com">>
star == <<"*", "com">>

(* Route r has one rule, or, like t, two for the same entry of which the   *)
(* first lacks its service, w.  The listener for HTTP may change its name. *)
MCVersions ==
    [k \in {c, g, r, t, v, w} |->
        CASE k = c -> {[params |-> NoParams]}
          [] k = g -> {Gateway([web |-> Web(<<>>), tls |-> Tls]), Gateway([alt |-> Web(star), tls |-> Tls])}
          [] k = r -> {Route(AnySection, {acom, com}, <<Rule(Path("Prefix"), <<v>>)>>),
                       Route(AnySection, {star}, <<Rule(Path("Exact"), <<w>>), Rule(Path("Exact"), <<v>>)>>)}
          [] k = t -> {Route("tls", {acom}, <<Rule(Path("Exact"), <<w>>), Rule(Path("Exact"), <<v>>)>>)}
          [] k = v -> {"service"}
          [] k = w -> {}]

MCStartClusters ==
    {[k \in {c, g, r, v} |->
        CASE k = c -> [params |-> NoParams]
          [] k = g -> Gateway([web |-> Web(<<>>), tls |-> Tls])
          [] k = r -> Route(AnySection, {acom, com}, <<Rule(Path("Prefix"), <<v>>)>>)
          [] k = v -> "service"]}
MCNamesake == [x \in MCHTTPRoutes \cup MCTLSRoutes |-> {}]
MCStartupFrontends == {<<g, "web">>}

(* The map files hold an entry from an earlier life of the program.        *)
MCStartupMaps == [e \in {Entry(<<g, "web">>, "path_prefix", com, <<"old">>)} |-> <<v>>]
NoMaps        == <<>>
=============================================================================
