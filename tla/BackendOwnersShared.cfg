SPECIFICATION Spec
CONSTANTS
  HTTPRoutes <- MCHTTPRoutes
  TLSRoutes <- MCTLSRoutes
  Backends <- MCBackends
  StartupBackends <- MCStartup
  NamesOf <- MCNamesOf
INVARIANT ReferencedBackendsExist
