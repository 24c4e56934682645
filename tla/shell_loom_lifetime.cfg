\* The documented lifetime of the loom pair (New may fail, after which the program stops).
CONSTANTS
  paris = paris
  tokyo = tokyo
  old = old
  p1 = p1
  p2 = p2
  t1 = t1
  bastion = bastion
  webui = webui
  loom = loom
  NoAddr = NoAddr
  Default = Default
  NoCluster = NoCluster
  MaxRank = 4
  Files <- OneFile
  OptionSets <- OneOption
SPECIFICATION FairSpec
PROPERTIES LoomEndsWithPrimary
CHECK_DEADLOCK FALSE
