-------------------------- MODULE MCBackendServers --------------------------
(* Two HTTPRoutes and a TLSRoute with backends of the same service, which  *)
(* has two slices.                                                         *)
EXTENDS BackendServers, TLC

CONSTANTS hr1, hr2, tr1

MCHTTPRoutes == {hr1, hr2}
MCTLSRoutes  == {tr1}
MCSymmetry   == Permutations(MCHTTPRoutes)
MCBackends   == {"hb1", "hb2", "tb1"}
MCStartup    == {"hb1", "tb1"}
MCNamesOf    == [t \in BackendOwnerType |-> IF t = HTTP THEN {"hb1", "hb2"} ELSE {"tb1"}]

MCServices == {"web"}
MCSlices   == {"w4", "w5"}

MCServiceOf == [x \in MCBackends \cup MCSlices |-> "web"]
MCPortOf    == [b \in MCBackends |-> IF b = "hb2" THEN 81 ELSE 80]

Number(n) == [byName |-> FALSE, name |-> "", number |-> n]
Name(n)   == [byName |-> TRUE, name |-> n, number |-> 0]

(* Port 80 leads to a number, port 81 to a name; 81 may be missing.        *)
Both == [p \in {80, 81} |-> IF p = 80 THEN Number(8080) ELSE Name("alt")]
MCServicePorts == {Both, [p \in {80} |-> Number(8080)]}

Port(name, number) == [name |-> name, number |-> number]
Slice(family, ready, alt) ==
    [family |-> family, ready |-> ready, ports |-> <<Port("main", 8080), Port("alt", alt)>>]

MCSliceVersions ==
    [e \in MCSlices |->
        IF e = "w4" THEN {Slice("IPv4", {"a1"}, 9000), Slice("IPv6", {"b1"}, 9000)}
        ELSE {Slice("IPv4", {"a3"}, 9000)}]

MCStartServices == [s \in MCServices |-> Both]
MCStartSlices   == [e \in {"w4"} |-> Slice("IPv4", {"a1"}, 9000)]
=============================================================================
