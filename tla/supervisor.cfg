\* Two datacenters, one per cluster, one UI goroutine, probes that may outlast the interval,
\* and the control server as OnSwitch.
CONSTANTS
  N = 2
  paris = paris
  tokyo = tokyo
  NoCluster = NoCluster
  ClusterOf <- TwoClusters
  Filters = {paris, tokyo, NoCluster}
  Callers = {tray}
  Prober = prober
  Interval = 1
  HoldDown = 3
  ProbeTimeout = 2
SPECIFICATION PlaneFairSpec
INVARIANTS TypeOK SelectionSound ActiveInScope
PROPERTIES ImplementsSelector Converges RunEnds ImplementsControl
