\* The documented content of the server, one UI goroutine.
CONSTANTS
  N = 2
  paris = paris
  tokyo = tokyo
  NoCluster = NoCluster
  ClusterOf <- TwoClusters
  Filters = {paris, tokyo, NoCluster}
  Callers = {tray}
  Prober = prober
  Interval = 1
  HoldDown = 2
  ProbeTimeout = 1
SPECIFICATION PlaneSpec
INVARIANTS PublishedIsActive
