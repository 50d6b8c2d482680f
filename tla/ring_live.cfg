SPECIFICATION FairSpec
CONSTANTS
  p1 = p1
  p2 = p2
  c1 = c1
  Threads = {p1, p2, c1}
  Mortal = {p1}
  Stopped = {p2}
  Msgs = {m1}
  Capacity = 1
  IndexSpace = 2
  Ops <- NarrowOps
  TidReuse = TRUE
  Free = Free
  None = None
  Torn = Torn
CHECK_DEADLOCK FALSE
PROPERTY CallsReturn
