---------------------------- MODULE DodPlantedC4 ----------------------------
(***************************************************************************)
(* The second bomb of the game: weapon_c4 (CC4), which a player takes into *)
(* a func_bomb_target and plants there, and the planted_c4 (CPlantedC4) it *)
(* becomes.  That bomb asks for no control point: it goes off and wins the *)
(* round for the axis, or one ally uses it for 10 seconds and wins it for  *)
(* the allies.  m_bBombPlanted of the game rules keeps a second one from   *)
(* being planted meanwhile.                                                *)
(*                                                                         *)
(* A bomb thinks every 0.12 s (C4Think) and its times are counted in its   *)
(* thinks.  Uses, deaths, players who come and go, and the round, which    *)
(* the other objectives and its timer win too, come in any order between.  *)
(***************************************************************************)
EXTENDS Integers, FiniteSets

CONSTANTS
  Players,
  PlayerTeam,   \* GetTeamNumber() of every player
  Leavers,      \* the players who may leave the server
  Charges,      \* the weapon_c4 entities of the map
  FuseTime,     \* mp_c4timer, in thinks
  DefuseTime,   \* m_flDefuseLength of 10 seconds
  UseTimeout,   \* 0.5 seconds
  Nobody        \* a null handle

Teams  == {"allies", "axis"}
Places == {"ground", "planted", "removed"}

ASSUME C4Assumption ==
  /\ PlayerTeam \in [Players -> Teams]
  /\ Leavers \subseteq Players
  /\ FuseTime \in Nat \ {0} /\ DefuseTime \in Nat \ {0} /\ UseTimeout \in Nat
  /\ Nobody \notin Players /\ Players \cap Places = {}

VARIABLES
  roundState,   \* m_iRoundState
  wins,         \* rounds credited to each team (IncrementRoundsWon) since the round began
  life,         \* of every player: "alive", "dead", or "gone" from the server
  charge,       \* where each weapon_c4 is, or the player who owns it
  arming,       \* the charges with m_bStartedArming
  c4,           \* the planted_c4 that each charge has become
  bombPlanted   \* m_bBombPlanted of the rules

roundVars == <<roundState, wins>>
vars == <<roundVars, life, charge, arming, c4, bombPlanted>>

WinState(t) == IF t = "allies" THEN "allies_win" ELSE "axis_win"
WinStates   == {"allies_win", "axis_win"}

\* The members of CPlantedC4 while m_bBombTicking; times are thinks to go.
NoC4 == [blow |-> -1, started |-> FALSE, defuser |-> Nobody, left |-> 0, use |-> 0]
NewC4 == [NoC4 EXCEPT !.blow = FuseTime]
Ticks(c) == c4[c] # NoC4

NobodyDefuses(r) == [r EXCEPT !.started = FALSE, !.defuser = Nobody, !.left = 0, !.use = 0]
---------------------------------------------------------------------------
(* The charge. *)

\* BumpWeapon; a player owns one weapon of a kind.
TakeCharge(p, c) ==
  /\ life[p] = "alive" /\ roundState # "preround"
  /\ charge[c] = "ground"
  /\ \A d \in Charges : charge[d] # p
  /\ charge' = [charge EXCEPT ![c] = p]
  /\ UNCHANGED <<roundVars, life, arming, c4, bombPlanted>>

\* mutant: the zone takes no notice of a bomb that is planted
InBombZoneAlways(p, c) == life[p] = "alive" /\ charge[c] = p

\* StartCommand takes m_bInBombZone from every player, and the touch of the
\* same command gives it back to one inside who may plant.
InBombZone(p, c) == life[p] = "alive" /\ charge[c] = p /\ ~bombPlanted

StartArming(p, c) ==
  /\ InBombZone(p, c)
  /\ c \notin arming
  /\ arming' = arming \cup {c}
  /\ UNCHANGED <<roundVars, life, charge, c4, bombPlanted>>

\* He lets go, leaves the zone or the ground or takes another weapon, or
\* somebody has planted before him.
StopArming(c) ==
  /\ c \in arming
  /\ arming' = arming \ {c}
  /\ UNCHANGED <<roundVars, life, charge, c4, bombPlanted>>

\* PrimaryAttack, some command after WEAPON_C4_ARM_TIME: the charge is removed
\* and a planted_c4 stands in its place.
PlaceBomb(p, c) ==
  /\ InBombZone(p, c)
  /\ c \in arming
  /\ arming' = arming \ {c}
  /\ charge' = [charge EXCEPT ![c] = "planted"]
  /\ c4' = [c4 EXCEPT ![c] = NewC4]
  /\ bombPlanted' = TRUE
  /\ UNCHANGED <<roundVars, life>>
---------------------------------------------------------------------------
(* CPlantedC4. *)

\* Use: the one defuser keeps it up, any other ally is told to wait.
Use(p, c) ==
  /\ Ticks(c)
  /\ life[p] = "alive" /\ PlayerTeam[p] = "allies"
  /\ c4[c].started => c4[c].defuser = p
  /\ c4' = [c4 EXCEPT ![c].started = TRUE, ![c].defuser = p, ![c].use = UseTimeout,
                      ![c].left = IF c4[c].started THEN @ ELSE DefuseTime]
  /\ UNCHANGED <<roundVars, life, charge, arming, bombPlanted>>

\* m_bStartDefuse and a defuser who is still there
BeingDefused(r) == r.started /\ r.defuser # Nobody

\* mutant: a time that has passed goes on
ElapseToNoEnd(t, end) == t - 1

ElapseTo(t, end) == IF t <= end THEN t ELSE t - 1
Elapsed(r) == [r EXCEPT !.blow = @ - 1, !.left = ElapseTo(@, 0), !.use = ElapseTo(@, -1)]

\* The think finds the countdown of the defuse at its end, and its player alive.
DefuseDone(r, alive) == BeingDefused(r) /\ r.left = 0 /\ alive[r.defuser] = "alive"

\* Neither bomb nor charge is left.
Gone(c) ==
  /\ c4' = [c4 EXCEPT ![c] = NoC4]
  /\ charge' = [charge EXCEPT ![c] = "removed"]

\* mutant: it is not asked when the defuser last used the bomb
ThinkOnUnasked(c, r) ==
  /\ r.blow > 0
  /\ BeingDefused(r) => r.left > 0
  /\ c4' = [c4 EXCEPT ![c] = r]
  /\ UNCHANGED <<roundVars, life, charge, arming, bombPlanted>>

\* The defuse, if any, goes on.
ThinkOn(c, r) ==
  /\ r.blow > 0
  /\ BeingDefused(r) => r.left > 0 /\ r.use >= 0
  /\ c4' = [c4 EXCEPT ![c] = r]
  /\ UNCHANGED <<roundVars, life, charge, arming, bombPlanted>>

\* The defuser has let go or is off the ground, or has died at the end of it.
ThinkDropped(c, r) ==
  /\ r.blow > 0
  /\ BeingDefused(r)
  /\ ~DefuseDone(r, life)
  /\ c4' = [c4 EXCEPT ![c] = NobodyDefuses(r)]
  /\ UNCHANGED <<roundVars, life, charge, arming, bombPlanted>>

ThinkDefused(c, r) ==
  /\ r.blow > 0
  /\ DefuseDone(r, life)
  /\ roundState' = "allies_win"
  /\ wins' = [wins EXCEPT !["allies"] = @ + 1]
  /\ bombPlanted' = FALSE
  /\ Gone(c)
  /\ UNCHANGED <<life, arming>>

\* Event_Killed of every player of S, who keeps his charge until he spawns.
Die(S) ==
  /\ life' = [p \in Players |-> IF p \in S THEN "dead" ELSE life[p]]
  /\ arming' = {c \in arming : charge[c] \notin S}

\* The think does not end with Explode: a defuse that is complete by now, by
\* someone the blast has left alive, wins the round once more for the allies.
Explode(c, r) ==
  /\ r.blow = 0
  /\ \E S \in SUBSET {p \in Players : life[p] = "alive"} : Die(S)
  /\ roundState' = IF DefuseDone(r, life') THEN "allies_win" ELSE "axis_win"
  /\ wins' = [t \in Teams |->
       IF t = "axis" \/ DefuseDone(r, life') THEN wins[t] + 1 ELSE wins[t]]
  /\ bombPlanted' = FALSE
  /\ Gone(c)

\* mutant: a bomb that somebody has started to defuse does not look at its clock
C4ThinkHeld(c) ==
  /\ Ticks(c)
  /\ LET r == IF c4[c].started THEN [Elapsed(c4[c]) EXCEPT !.blow = c4[c].blow]
              ELSE Elapsed(c4[c])
     IN  ThinkOn(c, r) \/ ThinkDropped(c, r) \/ ThinkDefused(c, r) \/ Explode(c, r)

C4Think(c) ==
  /\ Ticks(c)
  /\ LET r == Elapsed(c4[c])
     IN  ThinkOn(c, r) \/ ThinkDropped(c, r) \/ ThinkDefused(c, r) \/ Explode(c, r)
---------------------------------------------------------------------------
(* The players and the round. *)

Kill(p) ==
  /\ life[p] = "alive"
  /\ Die({p})
  /\ UNCHANGED <<roundVars, charge, c4, bombPlanted>>

\* What a player owns goes with him, or with his next life.
DropAll(p) ==
  /\ charge' = [c \in Charges |-> IF charge[c] = p THEN "removed" ELSE charge[c]]
  /\ arming' = {c \in arming : charge[c] # p}

\* DODRespawn of a wave, or of a change of class near a spawn point, which asks
\* neither for the round state nor for his life.
Respawn(p) ==
  /\ life[p] # "gone"
  /\ life' = [life EXCEPT ![p] = "alive"]
  /\ DropAll(p)
  /\ UNCHANGED <<roundVars, c4, bombPlanted>>

\* A handle to him is null from now on; m_bStartDefuse of a bomb stays.
Leave(p) ==
  /\ life[p] # "gone"
  /\ life' = [life EXCEPT ![p] = "gone"]
  /\ DropAll(p)
  /\ c4' = [c \in Charges |->
       IF c4[c].defuser = p THEN [c4[c] EXCEPT !.defuser = Nobody] ELSE c4[c]]
  /\ UNCHANGED <<roundVars, bombPlanted>>

\* He joins a team and waits to be spawned.
Join(p) ==
  /\ life[p] = "gone"
  /\ life' = [life EXCEPT ![p] = "dead"]
  /\ UNCHANGED <<roundVars, charge, arming, c4, bombPlanted>>

Active == \E p \in Players : life[p] # "gone"

\* The map is idle until somebody comes: nothing is cleaned up on the way there.
EnterPregame ==
  /\ roundState = "running" /\ ~Active
  /\ roundState' = "pregame"
  /\ bombPlanted' = FALSE
  /\ UNCHANGED <<wins, life, charge, arming, c4>>

StartGame ==
  /\ roundState = "pregame" /\ Active
  /\ roundState' = "startgame"
  /\ UNCHANGED <<wins, life, charge, arming, c4, bombPlanted>>

\* State_Enter_PREROUND: CleanUpMap removes every bomb and charge and loads the
\* charges of the map again; every player spawns.
EnterPreround ==
  /\ roundState' = "preround"
  /\ wins' = [t \in Teams |-> 0]
  /\ life' = [p \in Players |-> IF life[p] = "gone" THEN "gone" ELSE "alive"]
  /\ charge' = [c \in Charges |-> "ground"]
  /\ arming' = {}
  /\ c4' = [c \in Charges |-> NoC4]

NewRound ==
  /\ roundState \in WinStates \cup {"startgame"}
  /\ EnterPreround
  /\ UNCHANGED bombPlanted

Restart ==
  /\ roundState = "running"
  /\ EnterPreround
  /\ bombPlanted' = FALSE

StartRound ==
  /\ roundState = "preround"
  /\ roundState' = "running"
  /\ UNCHANGED <<wins, life, charge, arming, c4, bombPlanted>>

\* The control points or the round timer win the round for t.
OtherWin(t) ==
  /\ roundState = "running"
  /\ roundState' = WinState(t)
  /\ wins' = [wins EXCEPT ![t] = @ + 1]
  /\ UNCHANGED <<life, charge, arming, c4, bombPlanted>>
---------------------------------------------------------------------------
Init ==
  /\ roundState = "preround"
  /\ wins = [t \in Teams |-> 0]
  /\ life = [p \in Players |-> "alive"]
  /\ charge = [c \in Charges |-> "ground"]
  /\ arming = {}
  /\ c4 = [c \in Charges |-> NoC4]
  /\ bombPlanted = FALSE

Next ==
  \/ \E c \in Charges : C4Think(c) \/ StopArming(c)
  \/ \E p \in Players, c \in Charges :
       TakeCharge(p, c) \/ StartArming(p, c) \/ PlaceBomb(p, c) \/ Use(p, c)
  \/ \E p \in Players : Kill(p) \/ Respawn(p) \/ Join(p)
  \/ \E p \in Leavers : Leave(p)
  \/ \E t \in Teams : OtherWin(t)
  \/ EnterPregame \/ StartGame \/ NewRound \/ Restart \/ StartRound

\* A bomb sets its next think at the start of each; nobody has to play.
Spec == Init /\ [][Next]_vars /\ \A c \in Charges : WF_vars(C4Think(c))

---------------------------------------------------------------------------
(* What is checked. *)

C4Records ==
  [blow : 1 .. FuseTime, started : BOOLEAN, defuser : Players \cup {Nobody},
   left : 0 .. DefuseTime, use : -1 .. UseTimeout]

TypeOK ==
  /\ roundState \in {"pregame", "startgame", "preround", "running"} \cup WinStates
  /\ wins \in [Teams -> Nat]
  /\ life \in [Players -> {"alive", "dead", "gone"}]
  /\ charge \in [Charges -> Players \cup Places]
  /\ arming \subseteq Charges
  /\ c4 \in [Charges -> C4Records \cup {NoC4}]
  /\ bombPlanted \in BOOLEAN

\* However many charges a map has and whoever plants or respawns, one bomb at
\* most ticks in a round that is played, and the round knows of it: no charge is
\* planted beside it, although the flag is the rules' and the bombs keep it by
\* hand.
OneBombTicks == roundState = "running" =>
  \A c, d \in Charges : Ticks(c) => bombPlanted /\ (Ticks(d) => c = d)

\* The countdown of a defuse runs only for somebody who has used the bomb within
\* the last UseTimeout thinks, died or respawned since or not, and no longer than
\* the bomb's own: nobody defuses from afar or with another's progress.
DefuserStays ==
  \A c \in Charges : BeingDefused(c4[c]) =>
    /\ c4[c].use >= 0
    /\ PlayerTeam[c4[c].defuser] = "allies" /\ life[c4[c].defuser] # "gone"
    /\ DefuseTime - c4[c].left <= FuseTime - c4[c].blow

\* A bomb comes to its end whoever uses, leaves or dies: it goes off, is
\* defused or is removed with its round.
BombEnds == \A c \in Charges : Ticks(c) ~> ~Ticks(c)

\* "reset everything in the level" (dod_gamerules.cpp): a round that is played
\* has a planted bomb whenever it believes so.
FlagMeansBomb ==
  roundState = "running" /\ bombPlanted => \E c \in Charges : Ticks(c)
=============================================================================
