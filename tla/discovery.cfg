\* Five records of two priorities, two of them with the same label; SRV or A.
CONSTANTS
  internal = internal
  external = external
  Records <- TwoDomains
SPECIFICATION Spec
INVARIANTS PreferenceKept NameKept
