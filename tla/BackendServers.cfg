\* Changes of services and slices are used up, batches are not.
SPECIFICATION ServersSpec
CONSTANTS
  hr1 = hr1
  hr2 = hr2
  tr1 = tr1
  HTTPRoutes <- MCHTTPRoutes
  TLSRoutes <- MCTLSRoutes
  Backends <- MCBackends
  StartupBackends <- MCStartup
  NamesOf <- MCNamesOf
  Services <- MCServices
  Slices <- MCSlices
  ServiceOf <- MCServiceOf
  PortOf <- MCPortOf
  ServicePorts <- MCServicePorts
  SliceVersions <- MCSliceVersions
  StartServices <- MCStartServices
  StartSlices <- MCStartSlices
  DisabledFamilies = {"IPv6"}
  MaxRoutes = 2
  MaxChanges = 2
INVARIANTS NoOrphanBackends MetadataExact ServersExact
SYMMETRY MCSymmetry
