---------------------------- MODULE MCFrontends ----------------------------
EXTENDS Frontends

CONSTANTS c, d, g1, g2, s, z, h

Listener(port, protocol, secrets) ==
    [port |-> port, protocol |-> protocol, hostname |-> <<>>, certs |-> secrets, kinds |-> {},
     mode |-> IF protocol = "HTTPS" THEN "Terminate" ELSE ""]

Gateway(class, listeners) == [class |-> class, params |-> NoParams, listeners |-> listeners]

MCClasses  == {c, d}
MCGateways == {g1, g2}
MCSecrets  == {s, z}
MCHugGates == {h}

(* g1 serves HTTPS and moves between two ports; g2, of another class,      *)
(* shares one of them, has a port of its own, may lose a listener and may  *)
(* take a class that is not of this controller.  Both refer to secret s;   *)
(* g1 may refer to z instead, which has one key pair, two or none.         *)
MCVersions ==
    [k \in {c, d, g1, g2, s, z, h} |->
        CASE k = c  -> {[params |-> NoParams], [params |-> h]}
          [] k = d  -> {[params |-> NoParams]}
          [] k = g1 -> {Gateway(c, [a |-> Listener(1, "HTTPS", {s})]),
                        Gateway(c, [a |-> Listener(1, "HTTPS", {z})]),
                        Gateway(c, [a |-> Listener(2, "HTTP", {})])}
          [] k = g2 -> {Gateway(d, [a |-> Listener(1, "HTTP", {}), b |-> Listener(3, "HTTPS", {s})]),
                        Gateway(d, [b |-> Listener(3, "HTTPS", {s})]),
                        Gateway("foreign", [b |-> Listener(1, "HTTPS", {s})])}
          [] k = s  -> {[tls |-> "pair1"]}
          [] k = z  -> {[tls |-> "pair1"], [tls |-> "pair2"], [tls |-> "pair1", ecdsa |-> "pair2"], <<>>}
          [] k = h  -> {"gate"}]

(* At the start either the ports of the two gateways collide, or there is  *)
(* one gateway, its certificate and the parameters of its class.           *)
MCStartClusters ==
    {[k \in {c, d, g1, g2} |->
        CASE k \in {c, d} -> [params |-> NoParams]
          [] k = g1 -> Gateway(c, [a |-> Listener(1, "HTTPS", {s})])
          [] k = g2 -> Gateway(d, [a |-> Listener(1, "HTTP", {}), b |-> Listener(3, "HTTPS", {s})])],
     [k \in {c, g1, z, h} |->
        CASE k = c  -> [params |-> h]
          [] k = g1 -> Gateway(c, [a |-> Listener(1, "HTTPS", {z})])
          [] k = z  -> [tls |-> "pair1"]
          [] k = h  -> "gate"]}

MCNamesake == <<>>
MCStartupFrontends == {<<g1, "a">>, <<g1, "old">>}
=============================================================================
