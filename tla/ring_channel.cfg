SPECIFICATION Spec
CONSTANTS
  p1 = p1
  p2 = p2
  c1 = c1
  Threads = {p1, p2, c1}
  Mortal = {p1, c1}
  Stopped = {}
  Msgs = {m1, m2}
  Capacity = 2
  IndexSpace = 4
  Ops <- WideOps
  TidReuse = FALSE
  Free = Free
  None = None
  Torn = Torn
SYMMETRY PayloadSymmetry
CHECK_DEADLOCK FALSE
INVARIANTS TypeOK MutualExclusion PendingBound WindowIntact
PROPERTIES QueueSpec TakeoverSafe
