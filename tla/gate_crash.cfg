SPECIFICATION FairSpec
CONSTANTS
  Consumers = {c1, c2}
  Producers = {p1}
  Timed = {c2}
  Mortal = {c2, p1}
  Backends = {"futex", "semaphore"}
  Capacity = 1
  MaxPublish = 1
CHECK_DEADLOCK FALSE
INVARIANT RegisteredCounted
PROPERTIES DestroyReleasesAll TimedReadReturns
