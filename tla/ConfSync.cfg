\* A behaviour ends when its batches are used up.
SPECIFICATION FairSpec
CONSTANTS
  Frontends <- MCFrontends
  Backends <- MCOneBackend
  Cfgs <- MCCfgs
  Servers <- MCServers
  Startups <- MCOneStartup
  CertChanges <- NoCerts
  ChanCap = 1
  MaxCycles = 3
  MaxCalls = 3
  MaxFails = 1
  Overlap = TRUE
INVARIANTS TypeOK FileConverges NoApplyError
PROPERTIES CommitIsWholeDiff Settles
CHECK_DEADLOCK FALSE
