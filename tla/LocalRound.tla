----------------------------- MODULE LocalRound -----------------------------
(***************************************************************************)
(* A round of the local game: the simulation (StrikeSim::tick_world of     *)
(* crates/openstrike-core/src/sim.rs), which fights but never decides, and *)
(* the rules script (game/rules.ts), which decides once per tick from the  *)
(* state and the events the host published and whose commands the host     *)
(* applies when its turn is over.                                          *)
(*                                                                         *)
(* Abstracted: where everybody is (whether a shot hits is a choice), the   *)
(* health of a bot (a hit may or may not be fatal: a head shot is) and of  *)
(* the player (counted in hits), ammunition, and the totals of the score,  *)
(* of which wins and losses hold what this round added.                    *)
(***************************************************************************)
EXTENDS Integers, FiniteSets

CONSTANTS
    Bots,           \* the bots of a round
    FULL_HP,        \* hits the player survives, plus one
    MAX_PROJECTILES,\* projectiles in flight (32)
    FREEZE,         \* ticks before a round goes live (1.2 s)
    PAUSE           \* ticks the end screen stays (3.5 s)

ASSUME LocalRoundAssumption ==
    /\ IsFiniteSet(Bots)
    /\ FULL_HP \in Nat \ {0} /\ MAX_PROJECTILES \in Nat
    /\ FREEZE \in Nat /\ PAUSE \in Nat

VARIABLES
    ballistic,      \* whether the mod throws projectiles instead of tracing shots
    phase,          \* "starting", "live", "won" or "lost"
    hp,             \* the player's health
    standing,       \* the bots alive
    thrown,         \* the player's projectiles in flight
    incoming,       \* the bots' projectiles in flight
    died,           \* whether a PlayerDied event waits for the script
    wins, losses,   \* what this round added to the score
    lastPhase, age, \* the script's: the phase it saw last ("none" at first), and for how long
    held,           \* ticks since the phase last changed, up to the bound
    half            \* the half of the turn that runs next

simVars == <<phase, hp, standing, thrown, incoming, wins, losses>>
scriptVars == <<lastPhase, age>>
vars == <<ballistic, phase, hp, standing, thrown, incoming, died, wins, losses,
          lastPhase, age, held, half>>

\* Times are counted up to here: no rule tells longer ones apart.
LongEnough == FREEZE + PAUSE
OneMore(n) == IF n < LongEnough THEN n + 1 ELSE n

Init ==
    /\ ballistic \in BOOLEAN
    /\ phase = "starting" /\ hp = FULL_HP /\ standing = Bots
    /\ thrown = 0 /\ incoming = 0 /\ died = FALSE
    /\ wins = 0 /\ losses = 0
    /\ lastPhase = "none" /\ age = 0 /\ held = 0 /\ half = "tick"

-----------------------------------------------------------------------------
(* tick_world: the player shoots, then the bots, then what flies lands.     *)

\* A traced shot hits at once: the player's fells at most one bot, and those
\* still standing may hit back.  hits is how often the player is hit.
TracedFight(felled, hits) ==
    /\ Cardinality(felled) <= 1
    /\ felled # {} => hp > 0
    /\ hits <= IF hp > 0 THEN Cardinality(standing \ felled) ELSE 0
    /\ UNCHANGED <<thrown, incoming>>

\* Mutation: the bots do not ask for room.
LaunchesUnbounded(mine, theirs) ==
    /\ mine \in {thrown, thrown + 1}
    /\ mine > thrown => hp > 0 /\ mine + theirs <= MAX_PROJECTILES
    /\ theirs \in incoming .. incoming + Cardinality(standing)
    /\ theirs > incoming => hp > 0

\* Projectiles are launched while there is room for them.
Launches(mine, theirs) ==
    /\ mine \in {thrown, thrown + 1}
    /\ mine > thrown => hp > 0
    /\ theirs \in incoming .. incoming + Cardinality(standing)
    /\ theirs > incoming => hp > 0
    /\ mine + theirs > thrown + incoming => mine + theirs <= MAX_PROJECTILES

\* Projectiles fly on whether whoever threw them is alive or not; each hits
\* once, flies on, or is gone.
BallisticFight(felled, hits) ==
    \E mine \in 0 .. MAX_PROJECTILES, theirs \in 0 .. MAX_PROJECTILES :
        /\ Launches(mine, theirs)
        /\ Cardinality(felled) <= mine
        /\ hits <= IF hp > 0 THEN theirs ELSE 0
        /\ thrown' \in 0 .. mine - Cardinality(felled)
        /\ incoming' \in 0 .. theirs - hits

Fight ==
    \E felled \in SUBSET standing, hits \in 0 .. MAX_PROJECTILES + Cardinality(Bots) :
        /\ IF ballistic THEN BallisticFight(felled, hits) ELSE TracedFight(felled, hits)
        /\ standing' = standing \ felled
        /\ hp' = IF hits < hp THEN hp - hits ELSE 0
        /\ died' = (hp > 0 /\ hp' = 0)

Tick ==
    /\ half = "tick" /\ half' = "script"
    /\ held' = OneMore(held)
    /\ \/ phase = "live" /\ Fight
       \/ /\ phase # "live"
          /\ thrown' = 0 /\ incoming' = 0
          /\ UNCHANGED <<hp, standing, died>>
    /\ UNCHANGED <<ballistic, phase, wins, losses, lastPhase, age>>

-----------------------------------------------------------------------------
(* The script's turn: the handlers of events run before onTick, both on the *)
(* state published before the turn, and the host applies their commands     *)
(* afterwards in the order they were given.                                 *)

\* Mutation: the time of the phase before is not forgotten.
AgeOfAll == OneMore(age)

\* How long the script has seen this phase.
Age == IF phase # lastPhase THEN 0 ELSE OneMore(age)

Loses == died
GoesLive == phase = "starting" /\ Age >= FREEZE

\* Mutation: nobody standing is a win, whatever the phase.
WinsAnyTime == Bots # {} /\ standing = {}

Wins == phase = "live" /\ Bots # {} /\ standing = {}

\* Mutation: a lost round is the last one.
RestartsAfterWin == phase = "won" /\ Age >= PAUSE

Restarts == phase \in {"won", "lost"} /\ Age >= PAUSE

\* resetRound is the last command of a turn: everybody is back for a new round.
Respawn ==
    /\ phase' = "starting" /\ hp' = FULL_HP /\ standing' = Bots
    /\ thrown' = 0 /\ incoming' = 0
    /\ wins' = 0 /\ losses' = 0

\* The outcome is what the last setPhase of the turn says.
Decide ==
    /\ phase' = IF Wins THEN "won"
                ELSE IF GoesLive THEN "live"
                ELSE IF Loses THEN "lost" ELSE phase
    /\ losses' = IF Loses THEN losses + 1 ELSE losses
    /\ wins' = IF Wins THEN wins + 1 ELSE wins
    /\ UNCHANGED <<hp, standing, thrown, incoming>>

Script ==
    /\ half = "script" /\ half' = "tick"
    /\ lastPhase' = phase /\ age' = Age /\ died' = FALSE
    /\ IF Restarts THEN Respawn ELSE Decide
    /\ held' = IF phase' = phase THEN held ELSE 0
    /\ UNCHANGED ballistic

Next == Tick \/ Script

\* The host's loop goes on for as long as the game runs.
Spec == Init /\ [][Next]_vars /\ WF_vars(Next)

-----------------------------------------------------------------------------
(* Properties.                                                              *)

Phases == {"starting", "live", "won", "lost"}

\* Every field has the shape the code gives it, and no more projectiles fly
\* than their list has room for.
TypeOK ==
    /\ ballistic \in BOOLEAN
    /\ phase \in Phases /\ lastPhase \in Phases \cup {"none"}
    /\ hp \in 0 .. FULL_HP /\ standing \subseteq Bots
    /\ thrown \in Nat /\ incoming \in Nat /\ thrown + incoming <= MAX_PROJECTILES
    /\ died \in BOOLEAN /\ wins \in Nat /\ losses \in Nat
    /\ age \in 0 .. LongEnough /\ held \in 0 .. LongEnough
    /\ half \in {"tick", "script"}

\* "Eliminate every bot to win; die and you lose": a round is scored once, for
\* the outcome it ends with, and the outcome is what happened. (With traced
\* shots; for projectiles see DieAndYouLose.)
OneOutcome == ~ballistic =>
    /\ wins = IF phase = "won" THEN 1 ELSE 0
    /\ losses = IF phase = "lost" THEN 1 ELSE 0
    /\ phase = "won" => standing = {} /\ hp > 0
    /\ phase = "lost" => hp = 0

\* "Die and you lose": a round the player died in does not end as won.
DieAndYouLose == phase = "won" => hp > 0

\* "The round resets automatically": a round in which a side is eliminated ends,
\* and another one goes live.
RoundResets ==
    /\ (hp = 0 \/ (Bots # {} /\ standing = {})) ~> phase = "starting"
    /\ []<>(phase = "live")

\* The countdown and the end screen are never cut short: the script's own age
\* of a phase is never more than the time it has really lasted.
NothingCutShort ==
    [][/\ phase = "starting" /\ phase' # phase => held >= FREEZE
       /\ phase \in {"won", "lost"} /\ phase' # phase => held >= PAUSE]_vars
=============================================================================
