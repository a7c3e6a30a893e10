------------------------------- MODULE MCDuel -------------------------------
(***************************************************************************)
(* The room on small instances, one `part' each: the authority alone, under*)
(* well and badly formed requests from either slot, in any order with      *)
(* departures and ticks of the clock; and its door, the Companion's        *)
(* connections with more callers than places. A behaviour is one of one    *)
(* part, and the other stays at its initial state.                         *)
(***************************************************************************)
EXTENDS Duel

VARIABLES part, links, opened, pipes, backlog, connections, at, batch, present, polled, heard

\* The game, which holds the pairing key, and a stranger, which does not.
Door == INSTANCE Companion WITH
    Bridges <- {"game", "stranger"}, Keyed <- {"game"},
    Second <- {}, NoSlot <- -1,
    MAX_CONNECTIONS <- 1, IDLE <- 1, MAX_STREAMS <- 3, MAX_ASKS <- 2

In(n) == [seq |-> n, fire |-> FALSE]
Shot(n) == [seq |-> n, fire |-> TRUE]

\* Batches in sequence, overlapping, out of order, with a gap.
Batches ==
    {<<>>, <<Shot(1)>>, <<Shot(1), Shot(2)>>, <<Shot(2), In(3)>>, <<Shot(2), Shot(1)>>,
     <<Shot(1), In(3)>>}

\* One request of each malformed kind: another map, a join with input, the
\* input number 0, a batch above the limit of 2.
Malformed ==
    {[map |-> FALSE, epoch |-> 0, inputs |-> <<>>],
     [map |-> TRUE, epoch |-> 0, inputs |-> <<Shot(1)>>],
     [map |-> TRUE, epoch |-> 1, inputs |-> <<In(0)>>],
     [map |-> TRUE, epoch |-> 1, inputs |-> <<Shot(1), Shot(2), In(3)>>]}

Asks(batches) == [map : {TRUE}, epoch : 1 .. MAX_GENERATION, inputs : batches]

JoinRequest == [map |-> TRUE, epoch |-> 0, inputs |-> <<>>]

\* The two slots run the same code: slot 0 sends everything, slot 1 what a
\* round needs.
Requests ==
    [s \in Slots |->
        {JoinRequest} \cup IF s = 0 THEN Asks(Batches) \cup Malformed
                          ELSE Asks({<<>>, <<Shot(1), Shot(2)>>})]

-----------------------------------------------------------------------------
doorVars == <<links, opened, pipes, backlog, connections, at, batch, present, polled, heard>>
mcVars == <<part, duelVars, doorVars>>

AtDoor == part = "door" /\ UNCHANGED <<part, duelVars>>

MCInit == part \in {"match", "door"} /\ DuelInit /\ Door!Init

\* DuelNext, with the requests of this instance.
AtMatch ==
    \/ \E s \in Slots : \E req \in Requests[s] : Exchange(s, req)
    \/ \E s \in Slots : Disconnect(s)
    \/ Step

MCNext ==
    \/ part = "match" /\ AtMatch /\ UNCHANGED <<part, doorVars>>
    \/ AtDoor /\ Door!Next

\* The fairness is the door's (see Companion).
MCSpec ==
    /\ MCInit /\ [][MCNext]_mcVars
    /\ WF_mcVars(AtDoor /\ Door!Loop) /\ SF_mcVars(AtDoor /\ Door!TimePasses)

\* Whoever connects is accepted in the end, see Companion.
EveryoneIsAccepted == Door!EveryoneIsAccepted
=============================================================================
