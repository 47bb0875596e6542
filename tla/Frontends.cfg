CONSTANTS
    c = c
    d = d
    g1 = g1
    g2 = g2
    s = s
    z = z
    h = h
    Classes <- MCClasses
    Gateways <- MCGateways
    HTTPRoutes = {}
    TLSRoutes = {}
    Services = {}
    Secrets <- MCSecrets
    HugGates <- MCHugGates
    Versions <- MCVersions
    StartClusters <- MCStartClusters
    Namesake <- MCNamesake
    MaxChanges = 2
    StartupFrontends <- MCStartupFrontends
SPECIFICATION FrontendsSpec
CHECK_DEADLOCK FALSE
INVARIANTS
    GatewaysCurrent
    NoPortServedTwice
    FrontendsExact
    CertificateFilesExact
    CrtListsExact
PROPERTIES
    ProcessFollowsDisk
