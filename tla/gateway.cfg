\* One connection, two bytes each way, an application goroutine that calls Close, one
\* datacenter for each transport: plain TCP, WireGuard, SSH.
CONSTANTS
  DC = {dc1, dc2, dc3}
  Direct = {dc1}
  Mesh = {dc2}
  None = None
  Conns = {c1}
  AppClosers = {app}
  CtxCloser = ctxCloser
  MaxBytes = 2
SPECIFICATION FairSpec
INVARIANTS TypeOK OrderlyStop NoTruncation
PROPERTIES CancelDrains HandlersEnd Answered
