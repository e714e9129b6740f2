SPECIFICATION Spec
CONSTANTS
  p1 = p1
  p2 = p2
  Players = {p1, p2}
  Extenders = {p2}
  QueueSize = 3
  DeathCam = 2
  MaxWave = 3
  PreroundWave = 1
  FailSafePeriod = 1
  MaxCam = 2
INVARIANTS
  TypeOK
  RingConsistent
PROPERTIES
  ImplementsWaveLine
  EveryoneRespawns
