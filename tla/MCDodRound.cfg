SPECIFICATION Spec
CONSTANTS
  WinLimit = 2
  TimeLimit = 6
  WarmupTime = 1
  RoundTime = 3
  TimerWinTeam = "axis"
  MaxBombs = 1
  AddTime = 1
  MaxAdded = 1
  ShortTimer = 3
  StartTime = 2
  FirstPreround = 2
  PreroundTime = 1
  BonusTime = 3
  ReadyDelay = 2
  Delays = {2}
  Second = 2
  Commands = {"readyrestart", "restartround", "restartwarmup", "cancelwarmup"}
  MaxCommands = 2
INVARIANTS
  TypeOK
  NoRoundPastWinLimit
  AwaitingExcludesRestart
  MapNotCutShort
PROPERTIES
  ImplementsMatch
  RestartComes
  WarmupEnds
  MapEnds
CHECK_DEADLOCK FALSE
