\* A behaviour ends when its batches are used up.
SPECIFICATION Spec
CONSTANTS
  Frontends <- MCFrontends
  Backends <- MCBackends
  Cfgs <- MCCfgs
  Servers <- MCServers
  Startups <- MCStartups
  CertChanges <- NoCerts
  ChanCap = 1
  MaxCycles = 3
  MaxCalls = 4
  MaxFails = 0
  Overlap = FALSE
INVARIANT AddedServersServe
CHECK_DEADLOCK FALSE
