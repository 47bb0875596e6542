\* A behaviour ends when the changes are used up.
CONSTANTS
    c = c
    g = g
    r = r
    t = t
    v = v
    w = w
    Classes <- MCClasses
    Gateways <- MCGateways
    HTTPRoutes <- MCHTTPRoutes
    TLSRoutes <- MCTLSRoutes
    Services <- MCServices
    Secrets = {}
    HugGates = {}
    Versions <- MCVersions
    StartClusters <- MCStartClusters
    Namesake <- MCNamesake
    MaxChanges = 2
    StartupFrontends <- MCStartupFrontends
    StartupMaps <- NoMaps
SPECIFICATION Spec
INVARIANT NoStaleEntries
CHECK_DEADLOCK FALSE
