\* Two datacenters, a probe that may outlast the interval.
CONSTANTS
  N = 2
  paris = paris
  tokyo = tokyo
  NoCluster = NoCluster
  ClusterOf <- TwoClusters
  Filters = {tokyo, NoCluster}
  Callers = {tray}
  Prober = prober
  Interval = 1
  HoldDown = 3
  ProbeTimeout = 2
SPECIFICATION TimedSpec
INVARIANTS FailoverBound
PROPERTIES FailbackSeasoned AllDownWitnessed
