SPECIFICATION Spec
CONSTANTS
  NumPoints = 2
  MaxGroups = 2
  CPGroup <- MCCPGroup
  DefaultOwner <- MCDefaultOwner
  Triggered = {2}
  TimerWinTeam = "axis"
  NumPlayers = 3
  PlayerTeam <- MCPlayerTeam
  Areas <- MCAreas
  PointOf <- MCPointOf
  NumCap <- MCNumCap
  TeamCanCap <- MCTeamCanCap
  CapTime <- MCCapTime
  NoArea = NoArea
  MaxAttempt = 1
INVARIANTS
  TypeOK
  NoUnreportedWin
  OneWinPerRound
  NoPhantomCapture
PROPERTIES
  OwnerShownDivergesOnlyInWarmup
  CapsOnlyInRound
  ImplementsContest
  CaptureResolves
