SPECIFICATION Spec
CONSTANTS
  NumPoints = 4
  MaxGroups = 3
  CPGroup <- MCCPGroup
  DefaultOwner <- MCDefaultOwner
  Triggered = {}
  TimerWinTeam = "allies"
  MapIndex <- MCMapIndex
  LowestValue = 9
INVARIANTS
  TypeOK
  RemapCorrect
  ScanCorrect
CHECK_DEADLOCK FALSE
