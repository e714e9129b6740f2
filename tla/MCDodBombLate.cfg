SPECIFICATION Spec
CONSTANTS
  NumPoints = 2
  MaxGroups = 2
  CPGroup <- MCCPGroup
  DefaultOwner <- MCOpenOwner
  Triggered = {}
  TimerWinTeam = "axis"
  t1 = t1
  t2 = t2
  allied = allied
  axis = axis
  Players = {allied, axis}
  PlayerTeam <- MCPlayerTeam
  Leavers = {}
  Targets = {t1}
  PointOf <- MCPointOf
  BombingTeam <- MCBombingTeam
  AddsTime = {}
  Switched = {}
  BombsRequired <- MCOneBomb
  BombTime = 2
  DefuseTime = 1
  UseTimeout = 1
  NoTarget = NoTarget
  MaxExtraBombs = 0
PROPERTY
  CapsOnlyWhenRunning
