SPECIFICATION FairSpec
CONSTANTS
  Subs = {s1, s2}
  Droppers = {}
  MaxVersion = 2
CHECK_DEADLOCK FALSE
PROPERTY
  EventuallyServed
