\* The documented bound on a Dial, a datacenter on the mesh.
CONSTANTS
  DC = {dc1}
  Direct = {}
  Mesh = {dc1}
  None = None
  Conns = {c1}
  AppClosers = {}
  CtxCloser = ctxCloser
  MaxBytes = 1
SPECIFICATION Spec
INVARIANTS DialBounded
