\* Two products, two threads, events put, retried and dropped at any time; every event comes to an end.
SPECIFICATION FairSpec
CONSTANTS
  Product = {p1, p2}
  Thread = {t1, t2}
  MaxRetries = 1
  Stop = Stop
  MaxEvents = 2
  MaxPut = 2
INVARIANTS OneHandlerPerLane EveryEventAccounted
PROPERTIES DeliverySpec EveryEventSettled ThreadsEnd
CHECK_DEADLOCK FALSE
