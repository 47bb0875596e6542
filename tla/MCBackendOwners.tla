-------------------------- MODULE MCBackendOwners --------------------------
(* Three HTTPRoutes that share two backends, one TLSRoute with its own.     *)
EXTENDS BackendOwners

MCHTTPRoutes == {"hr1", "hr2", "hr3"}
MCTLSRoutes  == {"tr1"}
MCBackends   == {"hb1", "hb2", "tb1"}
MCStartup    == {"hb1", "tb1"}
MCNamesOf    == [t \in BackendOwnerType |-> IF t = HTTP THEN {"hb1", "hb2"} ELSE {"tb1"}]
=============================================================================
