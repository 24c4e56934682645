\* Both config shapes, every reason to refuse one, two pairs (New may fail, after which the
\* program stops).
CONSTANTS
  paris = paris
  tokyo = tokyo
  old = old
  p1 = p1
  p2 = p2
  t1 = t1
  bastion = bastion
  webui = webui
  loom = loom
  NoAddr = NoAddr
  Default = Default
  NoCluster = NoCluster
  MaxRank = 4
  Files <- AllFiles
  OptionSets <- AllOptions
SPECIFICATION FairSpec
INVARIANTS TypeOK Targets OriginInCluster
PROPERTIES Teardown
CHECK_DEADLOCK FALSE
