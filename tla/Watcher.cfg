SPECIFICATION Spec
CONSTANTS
  Subs = {s1, s2, s3}
  Droppers = {s1, s2, s3}
  MaxVersion = 2
SYMMETRY SubSymmetry
CHECK_DEADLOCK FALSE
INVARIANTS
  OneStream
  NoStreamAfterStop
  ClosedWhenUnused
  NoMissedUpdate
  HookKeepsUp
