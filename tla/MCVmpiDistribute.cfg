SPECIFICATION Spec
CONSTANTS
  w1 = w1
  w2 = w2
  w3 = w3
  t1 = t1
  t2 = t2
  Workers = {w1, w2}
  Threads = {t1}
  Nobody = Nobody
  None = None
  NumUnits = 5
  MaxWorkerCount = 2
  WUsToDeal = 0
  NumCalls = 2
  MaxDisconnects = 1
  Stoppable = {1}
INVARIANTS
  TypeOK
  PartitionsSound
  NothingLostWithoutDisconnect
  OwnersHoldTheirUnits
PROPERTIES
  ImplementsWorkBag
  FirstCallFinishes
CHECK_DEADLOCK FALSE
