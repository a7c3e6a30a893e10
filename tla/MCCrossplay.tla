---------------------------- MODULE MCCrossplay ----------------------------
(***************************************************************************)
(* Crossplay on three small instances, each on its own: one client with    *)
(* faults at any points, one client through several rounds with nothing    *)
(* lost, and two clients of one room. The slots are alike: the properties  *)
(* of two clients are checked of slot 0.                                   *)
(***************************************************************************)
EXTENDS Crossplay

VARIABLE part

Faulty == INSTANCE Crossplay WITH MAX_TICK <- 3, Triggers <- {TRUE}
Long == INSTANCE Crossplay WITH MAX_FAULTS <- 0
Pair == INSTANCE Crossplay WITH
    MAX_TICK <- 2, MAX_FAULTS <- 0, Guests <- {0, 1}, Triggers <- {TRUE}

MCInit ==
    \/ part = "faults" /\ Faulty!Init
    \/ part = "rounds" /\ Long!Init
    \/ part = "pair" /\ Pair!Init

Faults == part = "faults" /\ Faulty!Next /\ UNCHANGED part
SeveralRounds == part = "rounds" /\ Long!Next /\ UNCHANGED part
BothPlay == part = "pair" /\ Pair!Next /\ UNCHANGED part

MCSpec == MCInit /\ [][Faults \/ SeveralRounds \/ BothPlay]_<<part, vars>>
=============================================================================
