-------------------------------- MODULE Bot --------------------------------
(***************************************************************************)
(* The brain of one bot (Bot of crates/openstrike-core/src/bot.rs): what it *)
(* thinks, its magazine and when it shoots.  Combat runs every bot of a    *)
(* round through Ticked; alone, a bot sees the player come and go as it    *)
(* likes.                                                                  *)
(*                                                                         *)
(* Abstracted: where the bot is and where it goes, and the animation it    *)
(* shows beyond how long ago it shot.  Times are counted in ticks.         *)
(***************************************************************************)
EXTENDS Integers

CONSTANTS
    BOT_HP,         \* health (100)
    LOSE,           \* ticks out of sight before a bot gives up (1.6 s)
    Volleys,        \* ticks between two shots (1.4 s, -15% to +25%)
    BOT_MAG,        \* rounds in the magazine (12)
    BOT_RELOAD,     \* ticks a reload takes (2 s)
    POSE            \* ticks a shot is shown before a reload may begin (0.333 s)

VARIABLES
    bot,
    idle            \* how long it has existed, modulo 2: every tick advances it

vars == <<bot, idle>>

Min2(a, b) == IF a < b THEN a ELSE b
Less(t) == IF t > 0 THEN t - 1 ELSE 0

\* A bot sees the player not at all, far off, nearby, or close enough to attack.
Sights == {"none", "far", "near", "close"}
Brains == {"patrol", "chase", "attack", "dead"}

Spawned == [brain |-> "patrol", health |-> BOT_HP, lost |-> 0, wait |-> 1,
            mag |-> BOT_MAG, left |-> 0, shown |-> POSE, sees |-> "none"]

Alive(b) == b.brain # "dead"

Hurt(b, damage) ==
    IF b.health > damage THEN [b EXCEPT !.health = @ - damage]
                         ELSE [b EXCEPT !.health = 0, !.brain = "dead"]

\* What a bot thinks next, having lost the player for lost ticks.
Thinks(b, sees, lost) ==
    CASE b.brain = "patrol" /\ sees # "none" -> "chase"
      [] b.brain = "chase" /\ sees = "close" -> "attack"
      [] b.brain = "chase" /\ lost > LOSE -> "patrol"
      [] b.brain = "attack" /\ sees \in {"none", "far"} ->
             IF lost > LOSE THEN "patrol" ELSE "chase"
      [] OTHER -> b.brain

\* The magazine is full again when the reload ends.
Refilled(b) ==
    [b EXCEPT !.left = Less(@), !.mag = IF b.left = 1 THEN BOT_MAG ELSE @,
              !.shown = Min2(@ + 1, POSE)]

\* Mutation: only a bot out of sight of the player reloads.
HiddenReload(b) == b.mag = 0 /\ b.left = 0 /\ b.shown >= POSE /\ b.sees = "none"

StartsReload(b) == b.mag = 0 /\ b.left = 0 /\ b.shown >= POSE

\* An attacking bot first sees to its magazine, then shoots when its time has
\* come; volley is how long it will wait for the next shot.
Attacks(b, volley) ==
    LET waited == [b EXCEPT !.wait = Less(@), !.left = IF StartsReload(b) THEN BOT_RELOAD ELSE @]
        ready == waited.wait = 0 /\ b.sees # "none" /\ waited.mag > 0 /\ waited.left = 0
    IN  [bot |-> IF ready THEN [waited EXCEPT !.wait = volley, !.mag = @ - 1, !.shown = 0]
                          ELSE waited,
         shoots |-> ready]

Ticked(b, sees, volley) ==
    IF ~Alive(b) THEN [bot |-> [b EXCEPT !.shown = Min2(@ + 1, POSE)], shoots |-> FALSE]
    ELSE LET lost == IF sees # "none" THEN 0 ELSE Min2(b.lost + 1, LOSE + 1)
             now == [Refilled(b) EXCEPT !.lost = lost, !.sees = sees,
                                        !.brain = Thinks(b, sees, lost)]
         IN  IF now.brain = "attack" THEN Attacks(now, volley)
             ELSE [bot |-> now, shoots |-> FALSE]

-----------------------------------------------------------------------------
(* One bot alone.                                                           *)

Init == bot = Spawned /\ idle = 0

Tick ==
    /\ \E sees \in Sights, volley \in Volleys : bot' = Ticked(bot, sees, volley).bot
    /\ idle' = 1 - idle

Shot ==
    /\ Alive(bot) /\ \E damage \in 1 .. BOT_HP : bot' = Hurt(bot, damage)
    /\ UNCHANGED idle

\* The host ticks at a fixed rate for as long as the game runs.
Spec == Init /\ [][Tick \/ Shot]_vars /\ WF_vars(Tick)

\* A bot that keeps the player close in front of it shoots again and again: it
\* does not stay with an empty magazine, nor in a reload.
KeepsShooting == <>[](bot.sees = "close" /\ Alive(bot)) => []<>(bot.shown = 0)
=============================================================================
