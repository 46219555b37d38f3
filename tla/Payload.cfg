SPECIFICATION Spec
CONSTANTS
  Listeners = {l1, l2}
  Callers = {c1, c2}
  Payloads = {p1, p2}
  NoPayload = NoPayload
  MaxVersion = 3
  MaxCalls = 1
SYMMETRY Symmetry
CHECK_DEADLOCK FALSE
INVARIANTS
  ToldUnlessRead
  RepeatsOnlyAfterRead
