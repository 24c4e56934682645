\* The documented bound on Probe, an SSH host that may stall (and with it every caller).
CONSTANTS
  Probers = {prober}
  Handlers = {h1}
  Closers = {}
  Nobody = Nobody
  MaxClients = 3
  MayStall = TRUE
SPECIFICATION FairSpec
PROPERTIES ProbeBounded
CHECK_DEADLOCK FALSE
