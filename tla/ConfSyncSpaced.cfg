\* A behaviour ends when its batches are used up.
SPECIFICATION Spec
CONSTANTS
  Frontends <- MCFrontends
  Backends <- MCBackends
  Cfgs <- MCCfgs
  Servers <- MCServers
  Startups <- MCStartups
  CertChanges <- AllCerts
  ChanCap = 1
  MaxCycles = 3
  MaxCalls = 3
  MaxFails = 0
  Overlap = FALSE
INVARIANTS SettingsLoaded RemovedServersStop CertificatesLoaded
CHECK_DEADLOCK FALSE
