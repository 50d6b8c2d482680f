SPECIFICATION FairSpec
CONSTANTS
  Consumers = {c1, c2}
  Producers = {p1}
  Timed = {}
  Mortal = {}
  Backends = {"futex", "semaphore", "eventfd"}
  Capacity = 2
  MaxPublish = 2
CHECK_DEADLOCK FALSE
INVARIANTS TypeOK NoMissedSignal
PROPERTY SleeperWakes
