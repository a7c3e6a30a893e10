------------------------------- MODULE Match -------------------------------
(***************************************************************************)
(* What a crossplay room promises its two players, without sessions,       *)
(* inputs or clocks: rounds begin only with both present, a player dies at *)
(* most once in a round and only in a live one, each death scores for the  *)
(* other, and the next round finds everybody alive.                        *)
(***************************************************************************)
EXTENDS Naturals

CONSTANT Players, Opponent(_)

VARIABLES
    phase,      \* "waiting" for players, "live", or the "interval" after a death
    round,
    score,
    dead        \* the players that died in this round

matchVars == <<phase, round, score, dead>>

Init ==
    /\ phase = "waiting" /\ round = 0 /\ dead = {}
    /\ score = [p \in Players |-> 0]

\* The room fills up, or the interval is over.
StartRound ==
    /\ phase \in {"waiting", "interval"}
    /\ phase' = "live" /\ round' = round + 1 /\ dead' = {}
    /\ UNCHANGED score

\* One shot each may land in the same instant, so that both can die.
Kill(victims) ==
    /\ phase = "live" /\ victims # {}
    /\ phase' = "interval" /\ dead' = victims
    /\ score' = [p \in Players |-> IF Opponent(p) \in victims THEN score[p] + 1 ELSE score[p]]
    /\ UNCHANGED round

\* A player left or came back.
Interrupt ==
    /\ phase' = "waiting"
    /\ UNCHANGED <<round, score, dead>>

\* An interval that ends with somebody away still revives the dead.
Revive ==
    /\ dead # {}
    /\ phase' = "waiting" /\ round' = round + 1 /\ dead' = {}
    /\ UNCHANGED score

Next == StartRound \/ (\E victims \in SUBSET Players : Kill(victims)) \/ Interrupt \/ Revive

Spec == Init /\ [][Next]_matchVars
=============================================================================
