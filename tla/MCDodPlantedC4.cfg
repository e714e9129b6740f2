SPECIFICATION Spec
CONSTANTS
  a1 = a1
  a2 = a2
  axis = axis
  c1 = c1
  c2 = c2
  Players = {a1, a2, axis}
  PlayerTeam <- MCPlayerTeam
  Leavers = {a1, a2, axis}
  Charges = {c1, c2}
  FuseTime = 4
  DefuseTime = 3
  UseTimeout = 1
  Nobody = Nobody
INVARIANTS
  TypeOK
  OneBombTicks
  DefuserStays
PROPERTY
  BombEnds
