SPECIFICATION FairSpec
CONSTANTS
  Consumers = {c1, c2}
  Producers = {p1}
  Timed = {}
  Mortal = {}
  Backends = {"eventfd"}
  Capacity = 2
  MaxPublish = 1
CHECK_DEADLOCK FALSE
PROPERTY DestroyReleasesAll
