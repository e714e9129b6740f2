-------------------------- MODULE DodAreaCapture --------------------------
(***************************************************************************)
(* CAreaCapture: an area whose control point is taken by the team that     *)
(* keeps enough players in it.  Three loops meet here, none synchronised   *)
(* with another: the physics calls AreaTouch for every player in the area, *)
(* each player rotates its signals about every 0.1 s (HandleSignals), and  *)
(* the area counts those signals every 0.1 s (Think).  Players die and     *)
(* respawn, the map enables and disables areas, and the round ends and     *)
(* begins, between any two of these.                                       *)
(*                                                                         *)
(* Where a player stands is not a variable: a player may touch any area at *)
(* any time, and has left one when he touches it no more.                  *)
(***************************************************************************)
EXTENDS DodControlPoints

CONSTANTS
  NumPlayers,     \* gpGlobals->maxClients
  PlayerTeam,     \* GetTeamNumber() of every player
  Areas,
  PointOf,        \* m_pPoint of every area
  NumCap,         \* m_nAlliesNumCap, m_nAxisNumCap: players required, per area and team
  TeamCanCap,     \* the teams with m_bAlliesCanCap, m_bAxisCanCap, per area
  CapTime,        \* m_flCapTime of every area, in thinks (AREA_THINK_TIME)
  NoArea,         \* index -1
  MaxAttempt      \* bound: players leave an area alone after so many capture attempts

Players == 1 .. NumPlayers

ASSUME AreaAssumption ==
  /\ NumPlayers \in Nat
  /\ PlayerTeam \in [Players -> Teams]
  /\ PointOf \in [Areas -> Points]
  /\ NumCap \in [Areas -> [Teams -> Nat \ {0}]]
  /\ TeamCanCap \in [Areas -> SUBSET Teams]
  /\ CapTime \in [Areas -> Nat \ {0}]
  /\ NoArea \notin Areas
  /\ MaxAttempt \in Nat

VARIABLES
  alive,          \* IsAlive() of every player
  signal,         \* CUnifiedSignals::m_flSignal & SIGNAL_CAPTUREAREA
  sigState,       \* CUnifiedSignals::m_flState & SIGNAL_CAPTUREAREA
  capArea,        \* m_iCapAreaIndex of every player
  lastBlock,      \* m_iLastBlockAreaIndex and m_iLastBlockCapAttempt of every player
  disabled,       \* m_bDisabled of every area
  capture,        \* m_bCapturing, with the m_nCapturingTeam and m_fTimeRemaining (in
                  \* thinks) that are read only while it is set
  areaOwner,      \* m_nOwningTeam, the area's own copy of its point's owner
  num,            \* m_nNumAllies, m_nNumAxis, as of the last think
  attempt         \* m_iCapAttemptNumber

playerVars == <<alive, signal, sigState, capArea, lastBlock>>
areaVars   == <<disabled, capture, areaOwner, num, attempt>>
vars       == <<roundVars, pointVars, playerVars, areaVars>>

Idle    == [team |-> NoTeam, left |-> 0]
NoBlock == [area |-> NoArea, attempt |-> -1]
Nobody  == [t \in Teams |-> 0]

Capturing(a) == capture[a].team \in Teams

---------------------------------------------------------------------------
(* Players. *)

\* The owner is read again before the toucher is looked at, so a corpse
\* refreshes it too.
AreaTouch(a, p) ==
  /\ ~disabled[a] /\ CapsAllowed
  /\ attempt[a] < MaxAttempt
  /\ areaOwner' = [areaOwner EXCEPT ![a] = owner[PointOf[a]]]
  /\ IF alive[p]
     THEN /\ signal' = [signal EXCEPT ![p] = TRUE]
          /\ capArea' = [capArea EXCEPT ![p] = a]
     ELSE UNCHANGED <<signal, capArea>>
  /\ UNCHANGED <<roundVars, pointVars, alive, sigState, lastBlock,
                 disabled, capture, num, attempt>>

\* CUnifiedSignals::Update: what was signalled since the last update becomes
\* the state; a player who lost the signal forgets his area.
RotateSignals(p) ==
  /\ sigState' = [sigState EXCEPT ![p] = signal[p]]
  /\ signal' = [signal EXCEPT ![p] = FALSE]
  /\ capArea' = [capArea EXCEPT ![p] = IF sigState[p] /\ ~signal[p] THEN NoArea ELSE @]

HandleSignals(p) ==
  /\ RotateSignals(p)
  /\ UNCHANGED <<roundVars, pointVars, alive, lastBlock, areaVars>>

\* The area breaks because team t has left it too few players.
TooFewWithout(a, t) == num[a][t] - 1 < NumCap[a][t]

\* mutant: the HUD keeps showing the capture
BreakCaptureKeepsHud(a, notEnoughPlayers) ==
  /\ capture' = [capture EXCEPT ![a] = Idle]
  /\ capping' = capping
  /\ attempt' = IF notEnoughPlayers THEN [attempt EXCEPT ![a] = @ + 1] ELSE attempt

\* mutant: the flag m_bCapturing is not cleared
BreakCaptureKeepsFlag(a, notEnoughPlayers) ==
  /\ capture' = capture
  /\ capping' = [capping EXCEPT ![PointOf[a]] = NoTeam]
  /\ attempt' = attempt

\* BreakCapture of area a, seen from the area and from the clients
BreakCapture(a, notEnoughPlayers) ==
  /\ capture' = [capture EXCEPT ![a] = Idle]
  /\ capping' = [capping EXCEPT ![PointOf[a]] = NoTeam]
  /\ attempt' = IF notEnoughPlayers THEN [attempt EXCEPT ![a] = @ + 1] ELSE attempt

\* CheckIfDeathCausesBlock: the victim was one of the capturing players and the
\* area's last count leaves too few without him.
DeathCausesBlock(a, v) ==
  /\ PlayerTeam[v] = capture[a].team
  /\ TooFewWithout(a, PlayerTeam[v])

\* Event_Killed of v by k: the signals rotate first, then PlayerKilled looks for
\* the area the victim was in, and only then is he dead.
Kill(v, k) ==
  LET a == capArea'[v]
  IN  /\ alive[v]
      /\ RotateSignals(v)
      /\ IF /\ PlayerTeam[k] # PlayerTeam[v]
            /\ sigState'[v] /\ a \in Areas
            /\ DeathCausesBlock(a, v)
         THEN BreakCapture(a, FALSE)
         ELSE UNCHANGED <<capture, capping, attempt>>
      /\ alive' = [alive EXCEPT ![v] = FALSE]
      /\ UNCHANGED <<roundVars, owner, resOwner, lastBlock,
                     disabled, areaOwner, num>>

\* DODRespawn, through CDODPlayer::Spawn; the signals are left as they were
Respawn(p) ==
  /\ ~alive[p]
  /\ alive' = [alive EXCEPT ![p] = TRUE]
  /\ capArea' = [capArea EXCEPT ![p] = NoArea]
  /\ lastBlock' = [lastBlock EXCEPT ![p] = NoBlock]
  /\ UNCHANGED <<roundVars, pointVars, signal, sigState, areaVars>>

\* InputDisable and InputEnable; neither touches a capture under way
SetDisabled(a, b) ==
  /\ disabled' = [disabled EXCEPT ![a] = b]
  /\ UNCHANGED <<roundVars, pointVars, playerVars,
                 capture, areaOwner, num, attempt>>
---------------------------------------------------------------------------
(* CAreaCapture::Think: one disjunct for each way through it. *)

Present(a, t) == {p \in Players : /\ sigState[p] /\ capArea[p] = a
                                  /\ alive[p] /\ PlayerTeam[p] = t}

Count(a) == [t \in Teams |-> Cardinality(Present(a, t))]

\* What every think in a running round does first
CountPlayers(a) ==
  /\ roundState = "running"
  /\ num' = [num EXCEPT ![a] = Count(a)]
  /\ UNCHANGED <<inWarmup, alive, signal, sigState, capArea, disabled>>

\* The round is not running: the counts are dropped, a capture is left standing.
ThinkNotRunning(a) ==
  /\ roundState # "running"
  /\ num' = [num EXCEPT ![a] = Nobody]
  /\ capping' = IF num[a] # Nobody THEN [capping EXCEPT ![PointOf[a]] = NoTeam] ELSE capping
  /\ UNCHANGED <<roundVars, owner, resOwner, playerVars,
                 disabled, capture, areaOwner, attempt>>

\* "if both teams are in the area": the first player of the other team may be
\* credited with a block, once per attempt number, late in the capture.
FirstDefender(a) ==
  LET defenders == Present(a, Opponent(capture[a].team))
  IN  CHOOSE p \in defenders : \A q \in defenders : p <= q

EarnsBlock(a, p) ==
  /\ 2 * (capture[a].left - 1) <= CapTime[a]
  /\ lastBlock[p].attempt # attempt[a]

ThinkContested(a) ==
  /\ Capturing(a)
  /\ \A t \in Teams : Count(a)[t] > 0
  /\ CountPlayers(a)
  /\ LET p == FirstDefender(a)
     IN  lastBlock' = IF EarnsBlock(a, p)
                      THEN [lastBlock EXCEPT ![p] = [area |-> a, attempt |-> attempt[a]]]
                      ELSE lastBlock
  /\ BreakCapture(a, FALSE)
  /\ UNCHANGED <<roundState, wins, owner, resOwner, areaOwner>>

\* "if no-one is in the area"
ThinkAbandoned(a) ==
  /\ Capturing(a)
  /\ Count(a) = Nobody
  /\ CountPlayers(a)
  /\ BreakCapture(a, TRUE)
  /\ UNCHANGED <<roundState, wins, owner, resOwner, lastBlock, areaOwner>>

OneTeamIn(a) == \E t \in Teams : Count(a)[t] > 0 /\ Count(a)[Opponent(t)] = 0

TooFew(a) == Count(a)[capture[a].team] < NumCap[a][capture[a].team]

\* mutant: a capture whose time is up is not recognised
ThinkCapturingPastZero(a) ==
  /\ Capturing(a) /\ OneTeamIn(a)
  /\ CountPlayers(a)
  /\ capture' = [capture EXCEPT ![a].left = @ - 1]
  /\ UNCHANGED <<roundState, wins, pointVars, lastBlock, areaOwner, attempt>>

\* One team is in the area and time is left.
ThinkCapturing(a) ==
  /\ Capturing(a) /\ OneTeamIn(a) /\ capture[a].left > 1
  /\ CountPlayers(a)
  /\ IF TooFew(a)
     THEN BreakCapture(a, TRUE)
     ELSE /\ capture' = [capture EXCEPT ![a].left = @ - 1]
          /\ UNCHANGED <<capping, attempt>>
  /\ UNCHANGED <<roundState, wins, owner, resOwner, lastBlock, areaOwner>>

\* One team is in the area and the time is up.  Having too few players breaks
\* the capture, but the code goes on to EndCapture all the same.
EndCapture(a) ==
  /\ Capturing(a) /\ OneTeamIn(a) /\ capture[a].left <= 1
  /\ CountPlayers(a)
  /\ attempt' = [attempt EXCEPT ![a] = @ + (IF TooFew(a) THEN 2 ELSE 1)]
  /\ capture' = [capture EXCEPT ![a] = Idle]
  /\ areaOwner' = [areaOwner EXCEPT ![a] = capture[a].team]
  /\ SetOwningTeam(PointOf[a], capture[a].team)
  /\ SetOwner(PointOf[a], capture[a].team)
  /\ UNCHANGED lastBlock

CanStart(a, t) ==
  /\ Count(a)[t] >= NumCap[a][t] /\ Count(a)[Opponent(t)] = 0
  /\ t \in TeamCanCap[a]
  /\ areaOwner[a] # t

StartCapture(a, t) ==
  /\ ~Capturing(a) /\ CanStart(a, t)
  /\ CountPlayers(a)
  /\ capture' = [capture EXCEPT ![a] = [team |-> t, left |-> CapTime[a]]]
  /\ capping' = [capping EXCEPT ![PointOf[a]] = t]
  /\ UNCHANGED <<roundState, wins, owner, resOwner, lastBlock, areaOwner, attempt>>

ThinkWaiting(a) ==
  /\ ~Capturing(a) /\ \A t \in Teams : ~CanStart(a, t)
  /\ CountPlayers(a)
  /\ UNCHANGED <<roundState, wins, pointVars, lastBlock,
                 capture, areaOwner, attempt>>

Think(a) ==
  \/ ThinkNotRunning(a) \/ ThinkContested(a) \/ ThinkAbandoned(a)
  \/ ThinkCapturing(a)  \/ EndCapture(a)     \/ ThinkWaiting(a)
  \/ \E t \in Teams : StartCapture(a, t)
---------------------------------------------------------------------------
(* The round. *)

\* CAreaCapture::Spawn
OnEveryArea(v) == [a \in Areas |-> v]

Init ==
  /\ PointsInit
  /\ alive = [p \in Players |-> TRUE]
  /\ signal = [p \in Players |-> FALSE]
  /\ sigState = [p \in Players |-> FALSE]
  /\ capArea = [p \in Players |-> NoArea]
  /\ lastBlock = [p \in Players |-> NoBlock]
  /\ disabled = OnEveryArea(FALSE)
  /\ capture = OnEveryArea(Idle)
  /\ areaOwner = OnEveryArea(NoTeam)
  /\ num = OnEveryArea(Nobody)
  /\ attempt = OnEveryArea(0)

\* The preround lasts five seconds, fifty rounds of the signals: none of the
\* last round is left when the next one starts.
SignalsQuiet == \A p \in Players : ~signal[p] /\ ~sigState[p]

RoundActive ==
  /\ SignalsQuiet
  /\ StartRound
  /\ UNCHANGED <<playerVars, areaVars>>

RoundTimer ==
  /\ TimerExpires
  /\ UNCHANGED <<playerVars, areaVars>>

Warmup(b) ==
  /\ SetInWarmup(b)
  /\ UNCHANGED <<playerVars, areaVars>>

\* The areas are loaded again with the rest of the map, and every player spawns.
RoundRespawn ==
  /\ NewRound
  /\ disabled' = OnEveryArea(FALSE)
  /\ capture' = OnEveryArea(Idle)
  /\ areaOwner' = OnEveryArea(NoTeam)
  /\ num' = OnEveryArea(Nobody)
  /\ attempt' = OnEveryArea(0)
  /\ alive' = [p \in Players |-> TRUE]
  /\ capArea' = [p \in Players |-> NoArea]
  /\ lastBlock' = [p \in Players |-> NoBlock]
  /\ UNCHANGED <<signal, sigState>>

TakePoint(p, t) ==
  /\ InputSetOwner(p, t)
  /\ UNCHANGED <<playerVars, areaVars>>

Next ==
  \/ \E a \in Areas : Think(a)
  \/ \E a \in Areas, p \in Players : AreaTouch(a, p)
  \/ \E p \in Players : HandleSignals(p) \/ Respawn(p)
  \/ \E v, k \in Players : Kill(v, k)
  \/ \E a \in Areas, b \in BOOLEAN : SetDisabled(a, b)
  \/ \E p \in Triggered, t \in Owners : TakePoint(p, t)
  \/ RoundActive \/ RoundTimer \/ RoundRespawn
  \/ \E b \in BOOLEAN : Warmup(b)

\* Every area thinks again 0.1 s after each think; nobody has to play.
Spec == Init /\ [][Next]_vars /\ \A a \in Areas : WF_vars(Think(a))

---------------------------------------------------------------------------
(* What is checked. *)

TypeOK ==
  /\ PointsTypeOK
  /\ alive \in [Players -> BOOLEAN]
  /\ signal \in [Players -> BOOLEAN]
  /\ sigState \in [Players -> BOOLEAN]
  /\ capArea \in [Players -> Areas \cup {NoArea}]
  /\ lastBlock \in [Players -> [area : Areas \cup {NoArea}, attempt : Int]]
  /\ disabled \in [Areas -> BOOLEAN]
  /\ capture \in [Areas -> [team : Owners, left : Nat]]
  /\ areaOwner \in [Areas -> Owners]
  /\ num \in [Areas -> [Teams -> Nat]]
  /\ attempt \in [Areas -> Nat]

\* While the round runs nobody holds all of a group: whoever completed one won
\* at that very moment.  The master's own think says it "should never trigger
\* a win"; it need not.
NoUnreportedWin ==
  roundState = "running" => TeamOwnsAllPoints(owner) = NoTeam

\* A round is won at most once, by the team whose win state it is in: no area
\* and no timer counts a second win, in the same frame or in the bonus time.
OneWinPerRound ==
  \A t \in Teams : wins[t] = IF roundState = WinState(t) THEN 1 ELSE 0

\* The clients are shown a capture under way only where an area is capturing
\* for that team: every way a capture ends (blocked, broken, completed, killed,
\* the round restarted) takes it off the HUD.
NoPhantomCapture ==
  roundState = "running" =>
    \A p \in Points : capping[p] \in Teams =>
      \E a \in Areas : PointOf[a] = p /\ capture[a].team = capping[p]

\* The owner the clients are shown comes apart from the real owner only by a
\* capture that completes in a warmup begun while it ran: EndCapture writes the
\* objective resource before the point refuses the cap.
OwnerShownDivergesOnlyInWarmup ==
  [][\A p \in Points : resOwner'[p] # owner'[p] => resOwner[p] # owner[p] \/ inWarmup]_vars

\* Points change hands in a round that runs and is no warmup, or with the map:
\* whatever is left of a capture when the round is decided takes nothing.
CapsOnlyInRound ==
  [][owner' # owner => CapsAllowed \/ roundState' = "preround"]_vars

\* The contest a player sees: which team the round is won by, if it is.
RoundWinner == CASE wins["allies"] > 0 -> "allies"
                 [] wins["allies"] = 0 /\ wins["axis"] > 0 -> "axis"
                 [] OTHER -> NoTeam

Phase == CASE roundState = "preround" -> "preround"
           [] roundState = "running"  -> "contested"
           [] OTHER -> "decided"

Contest == INSTANCE DodContest WITH
  phase <- Phase, winner <- RoundWinner, StartOwner <- DefaultOwner,
  Winner <- TeamOwnsAllPoints, ClockTeam <- TimerWinTeam

\* Areas, timers and triggers together keep the promise of a round: the capture
\* that completes a group ends the round in the same step, and a capture that
\* outlives its round does nothing.
ImplementsContest == Contest!Spec

\* A capture a player leaves, dies in or defends against is not left hanging:
\* as long as the round runs, each one completes or breaks.
CaptureResolves ==
  \A a \in Areas :
    (Capturing(a) /\ roundState = "running")
      ~> (~Capturing(a) \/ roundState # "running")

\* "An area entity that players must remain in in order to active another
\* entity" (dod_area_capture.h): a capture that completes has, at that think,
\* the players it requires.
CaptureNeedsItsPlayers ==
  [][\A a \in Areas :
       LET t == capture[a].team
       IN  /\ Capturing(a) /\ capture'[a] = Idle
           /\ roundState' # "preround"
           /\ areaOwner[a] # t /\ areaOwner'[a] = t
           => num'[a][t] >= NumCap[a][t]]_vars
===========================================================================
