SPECIFICATION Spec
CONSTANTS
  Subs = {s1, s2}
  Droppers = {s1}
  MaxVersion = 2
CHECK_DEADLOCK FALSE
INVARIANT
  ServedWhileSubscribed
