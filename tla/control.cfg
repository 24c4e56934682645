\* Three datacenters, the probe goroutine as the only caller of OnSwitch.
CONSTANTS
  DC = {dc1, dc2, dc3}
  None = None
  Actors = {prober}
SPECIFICATION FairSpec
INVARIANTS TypeOK PublishedIsActive
PROPERTIES Informed
