SPECIFICATION Spec
CONSTANTS
  Clients = {"c1", "c2"}
  ttl_sec = 1
  MaxVersion = 2
  MaxCount = 2
INVARIANTS
  LockHeldOnce
  NoCountLost
PROPERTIES
  EventuallyFresh
