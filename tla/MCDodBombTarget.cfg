SPECIFICATION Spec
CONSTANTS
  NumPoints = 2
  MaxGroups = 2
  CPGroup <- MCCPGroup
  DefaultOwner <- MCDefaultOwner
  Triggered = {}
  TimerWinTeam = "axis"
  t1 = t1
  t2 = t2
  allied = allied
  axis = axis
  Players = {allied, axis}
  PlayerTeam <- MCPlayerTeam
  Leavers = {allied}
  Targets = {t1, t2}
  PointOf <- MCPointOf
  BombingTeam <- MCBombingTeam
  AddsTime = {t1}
  Switched = {t2}
  BombsRequired <- MCBombsRequired
  BombTime = 2
  DefuseTime = 1
  UseTimeout = 1
  NoTarget = NoTarget
  MaxExtraBombs = 0
INVARIANTS
  TypeOK
  ShownBombsAreReal
  EachBombCountsOnce
  NoEarlyDefuser
PROPERTIES
  OvertimeHonoured
  BombResolves
  DefuserFinishes
