\* A behaviour ends when its batches are used up.
SPECIFICATION Spec
CONSTANTS
  Frontends <- MCFrontends
  Backends <- MCBackends
  Cfgs <- MCCfgs
  Servers <- MCServers
  Startups <- MCStartups
  CertChanges <- AllCerts
  ChanCap = 2
  MaxCycles = 2
  MaxCalls = 1
  MaxFails = 0
  Overlap = TRUE
INVARIANT CertificatesLoaded
CHECK_DEADLOCK FALSE
