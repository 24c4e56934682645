\* Half-seconds; a clock wrong by up to fifteen seconds against a leeway of two.
CONSTANTS
  AssertionTTL = 4
  MaxClockSkew = 2
  PerSecond = 2
  Offsets <- ClockOffsets
  Audiences = {paris, tokyo}
  Start = 30
  MaxNow = 56
SPECIFICATION Spec
INVARIANTS FreshAccepted WindowBounded
