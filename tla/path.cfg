\* The prober and one gateway handler; the application may call Close.
CONSTANTS
  Probers = {prober}
  Handlers = {h1}
  Closers = {h1}
  Nobody = Nobody
  MaxClients = 3
  MayStall = FALSE
SPECIFICATION PathFairSpec
INVARIANTS TypeOK NoOrphanClient SharedHandshake
PROPERTIES DialsReturn ComesBack Settles
