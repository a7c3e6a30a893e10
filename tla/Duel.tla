-------------------------------- MODULE Duel --------------------------------
(***************************************************************************)
(* The Companion's authority over one crossplay room: struct Duel of       *)
(* crates/openstrike-core/src/net.rs.  Two slots exchange batches of       *)
(* numbered inputs for snapshots; the server clock, never the request      *)
(* rate, executes one queued input of each slot per step.                  *)
(*                                                                         *)
(* Abstracted: positions, view angles, weapon state and spread (whether a  *)
(* held trigger hits is a choice), the shot and hit counters shown as      *)
(* effects, and the 2,500-byte budgets of the two payloads.                *)
(***************************************************************************)
EXTENDS Integers, Sequences, FiniteSets

CONSTANTS
    HISTORY,        \* inputs a peer may have queued (128)
    BATCH,          \* inputs in one request (12)
    STALE_TICKS,    \* ticks of silence after which a peer is dropped (120)
    RESTART_TICKS,  \* ticks between a death and the next round (180)
    FULL_HP,        \* health of a fresh player, in units of a body hit
    DAMAGES,        \* what one hit can take: a body hit, a head shot
    MAX_GENERATION, \* the last session number a u32 can give out
    MAX_TICK        \* bound on the server clock

ASSUME DuelAssumption ==
    /\ HISTORY \in Nat \ {0} /\ BATCH \in Nat \ {0}
    /\ STALE_TICKS \in Nat \ {0} /\ RESTART_TICKS \in Nat \ {0}
    /\ FULL_HP \in Nat \ {0} /\ DAMAGES \subseteq Nat \ {0}
    /\ MAX_GENERATION \in Nat /\ MAX_TICK \in Nat

VARIABLES
    tick, round, score, generation, restart, live,
    peers,          \* slot -> the session the authority keeps for it
    players         \* slot -> the authoritative player

duelVars == <<tick, round, score, generation, restart, live, peers, players>>

Slots == {0, 1}
Other(s) == 1 - s

\* An input is its number and what the match can tell of its controls: whether
\* the trigger is held.
Input == [seq : Nat, fire : BOOLEAN]

\* What a payload decodes to: whether it names the room's map and protocol, the
\* session it belongs to (0 to join) and a batch of inputs.
Request == [map : BOOLEAN, epoch : Nat, inputs : Seq(Input)]

FreshPeer == [epoch |-> 0, last |-> 0, received |-> 0, ack |-> 0,
              input |-> <<>>, connected |-> FALSE]

Spawned == [hp |-> FULL_HP, alive |-> TRUE]

DuelInit ==
    /\ tick = 0 /\ round = 0 /\ generation = 0 /\ restart = 0 /\ live = FALSE
    /\ score = [s \in Slots |-> 0]
    /\ peers = [s \in Slots |-> FreshPeer]
    /\ players = [s \in Slots |-> Spawned]

-----------------------------------------------------------------------------
(* exchange: one request of a slot, answered with a snapshot or an error.   *)

\* A request is accepted.
NoError == "accepted"

\* The snapshot of the room sent to slot s: what a client's session depends
\* on, without the players' states and the score, which it only shows.
Reply(s) ==
    [error |-> NoError, epoch |-> peers[s].epoch, tick |-> tick, ack |-> peers[s].ack,
     received |-> peers[s].received, round |-> round,
     playing |-> live /\ restart = 0,
     connected |-> [p \in Slots |-> peers[p].connected]]

Refused(why) == [error |-> why]

\* The numbers of a batch run on from what the slot has already sent: walking
\* the batch, each number above all before it is the next one.  take[i] is the
\* place in the batch of the i-th fresh input.
Takes(received, inputs, take) ==
    /\ \A i \in DOMAIN take :
         /\ inputs[take[i]].seq = received + i
         /\ \A k \in 1 .. take[i] - 1 : inputs[k].seq < received + i
    /\ \A k \in DOMAIN inputs : inputs[k].seq <= received + Len(take)

TakeChoices(inputs) == UNION {[1 .. n -> DOMAIN inputs] : n \in 0 .. Len(inputs)}

GapFree(received, inputs) == \E take \in TakeChoices(inputs) : Takes(received, inputs, take)

FreshCount(received, inputs) ==
    Cardinality({k \in DOMAIN inputs : inputs[k].seq > received})

\* The checks of exchange before it looks at the session.
BadBatch(req) ==
    \/ Len(req.inputs) > BATCH
    \/ \E k \in DOMAIN req.inputs : req.inputs[k].seq = 0

\* The first error exchange meets, or none when it accepts the request.
Error(s, req) ==
    IF ~req.map THEN "map or protocol mismatch"
    ELSE IF BadBatch(req) THEN "invalid input batch"
    ELSE IF req.epoch = 0 THEN
        IF req.inputs # <<>> THEN "join cannot contain input"
        ELSE IF generation = MAX_GENERATION THEN "restart companion" ELSE NoError
    ELSE IF ~peers[s].connected \/ req.epoch # peers[s].epoch THEN "session expired"
    ELSE IF ~GapFree(peers[s].received, req.inputs) THEN "input gap"
    ELSE IF Len(peers[s].input) + FreshCount(peers[s].received, req.inputs) > HISTORY
        THEN "input queue full"
    ELSE NoError

\* An error leaves the room as it was, except that a join that finds no
\* session number left has already stopped the round.
Refuse(s, req) ==
    /\ Error(s, req) # NoError
    /\ live' = (live /\ Error(s, req) # "restart companion")
    /\ UNCHANGED <<tick, round, score, generation, restart, peers, players>>

\* Mutation: the session number is not advanced.
JoinReusesSession(s, req) ==
    /\ Error(s, req) = NoError /\ req.epoch = 0
    /\ live' = FALSE
    /\ peers' = [peers EXCEPT ![s] = [FreshPeer EXCEPT !.epoch = 1, !.connected = TRUE,
                                                       !.last = tick]]
    /\ UNCHANGED <<tick, round, score, generation, restart, players>>

\* A join starts a new session in the slot and stops the round.
Join(s, req) ==
    /\ Error(s, req) = NoError /\ req.epoch = 0
    /\ live' = FALSE
    /\ generation' = generation + 1
    /\ peers' = [peers EXCEPT ![s] = [FreshPeer EXCEPT !.epoch = generation + 1,
                                                       !.connected = TRUE,
                                                       !.last = tick]]
    /\ UNCHANGED <<tick, round, score, restart, players>>

\* A batch of the current session: the fresh inputs are queued, in order.
Accept(s, req) ==
    /\ Error(s, req) = NoError /\ req.epoch # 0
    /\ \E take \in TakeChoices(req.inputs) :
         /\ Takes(peers[s].received, req.inputs, take)
         /\ peers' = [peers EXCEPT
                ![s].received = @ + Len(take),
                ![s].input = @ \o [i \in 1 .. Len(take) |-> req.inputs[take[i]]],
                ![s].last = tick]
    /\ UNCHANGED <<tick, round, score, generation, restart, live, players>>

Exchange(s, req) == Refuse(s, req) \/ Join(s, req) \/ Accept(s, req)

\* The answer to req, to be read in the step that handles it.
Answer(s, req) == IF Error(s, req) # NoError THEN Refused(Error(s, req)) ELSE Reply(s)'

-----------------------------------------------------------------------------
(* disconnect: the slot's connection is gone.                               *)

Disconnect(s) ==
    /\ peers' = [peers EXCEPT ![s].connected = FALSE, ![s].input = <<>>]
    /\ UNCHANGED <<tick, round, score, generation, restart, live, players>>

-----------------------------------------------------------------------------
(* step: one tick of the server clock.                                      *)

\* Slots silent for too long, and those still in the room after dropping them.
Expired == {s \in Slots : tick + 1 - peers[s].last >= STALE_TICKS}
Present == {s \in Slots : peers[s].connected} \ Expired
Ready == Present = Slots

\* Mutation: the countdown ends without a reset.
ResetsOnlyWhenFull == Ready /\ ~live

\* reset runs when the room fills up, or else when the countdown ends.
Starts == Ready /\ ~live
Resets == Starts \/ restart = 1

\* Mutations: the countdown survives the reset of a room that fills up; it
\* counts on below zero.
RemainingThroughReset == IF restart = 0 THEN 0 ELSE restart - 1
RemainingUnderflows == IF Starts THEN 0 ELSE restart - 1

Remaining == IF Starts \/ restart = 0 THEN 0 ELSE restart - 1

\* Mutation: a round is played on the flag of the tick before.
PlayingByOldFlag == live /\ Remaining = 0

Playing == Ready /\ Remaining = 0

\* Mutation: a reset does not account for the inputs it discards.
AckedBeforeReset(s) == peers[s].ack

\* What reset and the expiry leave of a slot before the inputs are executed.
Body(s) == IF Resets THEN Spawned ELSE players[s]
Queue(s) == IF Resets \/ s \in Expired THEN <<>> ELSE peers[s].input
Acked(s) == IF Resets THEN peers[s].received ELSE peers[s].ack

\* Mutation: a tick executes all that is queued.
AfterAllInputs(s) ==
    [peers[s] EXCEPT
        !.connected = s \in Present,
        !.input = <<>>,
        !.ack = IF Queue(s) = <<>> THEN Acked(s) ELSE peers[s].received]

\* Each slot executes the head of its queue.
AfterInput(s) ==
    [peers[s] EXCEPT
        !.connected = s \in Present,
        !.input = IF Queue(s) = <<>> THEN <<>> ELSE Tail(Queue(s)),
        !.ack = IF Queue(s) = <<>> THEN Acked(s) ELSE Head(Queue(s)).seq]

\* Both actors are captured before either shot: a slot can hit when the round
\* is live, it holds the trigger, and both were alive when the tick began.
CanHit(s) ==
    /\ Playing
    /\ Queue(s) # <<>> /\ Head(Queue(s)).fire
    /\ Body(s).alive /\ Body(Other(s)).alive

\* taken[s] is the damage slot s takes in this tick, 0 for none.
Damaged(s, taken) ==
    IF taken[s] = 0 THEN Body(s)
    ELSE LET hp == IF taken[s] < Body(s).hp THEN Body(s).hp - taken[s] ELSE 0
         IN  [hp |-> hp, alive |-> hp > 0]

Dies(s, taken) == Body(s).alive /\ ~Damaged(s, taken).alive

Step ==
    /\ tick < MAX_TICK
    /\ tick' = tick + 1
    /\ live' = Ready
    /\ round' = IF Resets THEN round + 1 ELSE round
    /\ peers' = [s \in Slots |-> AfterInput(s)]
    /\ \E taken \in [Slots -> DAMAGES \cup {0}] :
         /\ \A s \in Slots : taken[s] # 0 => CanHit(Other(s))
         /\ players' = [s \in Slots |-> Damaged(s, taken)]
         /\ score' = [s \in Slots |-> IF Dies(Other(s), taken) THEN score[s] + 1 ELSE score[s]]
         /\ restart' = IF \E s \in Slots : Dies(s, taken) THEN RESTART_TICKS ELSE Remaining
    /\ UNCHANGED generation

-----------------------------------------------------------------------------
(* The authority alone, under any requests whatever.                        *)

DuelNext ==
    \/ \E s \in Slots : \E req \in Request : Exchange(s, req)
    \/ \E s \in Slots : Disconnect(s)
    \/ Step

DuelSpec == DuelInit /\ [][DuelNext]_duelVars

-----------------------------------------------------------------------------
(* Properties.                                                              *)

\* Every field has the shape the code gives it.
DuelTypeOK ==
    /\ tick \in 0 .. MAX_TICK /\ round \in Nat /\ live \in BOOLEAN
    /\ generation \in 0 .. MAX_GENERATION /\ restart \in 0 .. RESTART_TICKS
    /\ score \in [Slots -> Nat]
    /\ peers \in [Slots -> [epoch : 0 .. MAX_GENERATION, last : 0 .. MAX_TICK,
                            received : Nat, ack : Nat, input : Seq(Input),
                            connected : BOOLEAN]]
    /\ players \in [Slots -> [hp : 0 .. FULL_HP, alive : BOOLEAN]]

\* The queue of a connected slot is exactly the run of inputs it has sent and
\* the room has not executed: consecutive numbers from ack to received, however
\* batches overlap and rounds restart.  A slot that left has nothing queued.
QueueIsUnexecutedRun ==
    \A s \in Slots :
        LET p == peers[s] IN
        IF p.connected
        THEN /\ Len(p.input) = p.received - p.ack
             /\ \A k \in DOMAIN p.input : p.input[k].seq = p.ack + k
        ELSE p.input = <<>>

\* "Each peer keeps at most 128 input ticks": overlapping and repeated batches
\* never push a queue past its limit.
QueueBounded == \A s \in Slots : Len(peers[s].input) <= HISTORY

\* So a queue neither loses nor repeats an input, and never outgrows its limit.
QueueKept == QueueIsUnexecutedRun /\ QueueBounded

\* No two slots share a session number, and none exceeds the last one given.
SessionsDistinct ==
    /\ \A s \in Slots : peers[s].epoch <= generation
    /\ \A s \in Slots : peers[s].epoch = peers[Other(s)].epoch => peers[s].epoch = 0

\* The countdown to the next round runs exactly while somebody is dead, through
\* departures, joins and resets.
CountdownIffDeath == restart > 0 <=> \E s \in Slots : ~players[s].alive

\* The snapshot never calls a round playing that has a dead player in it.
PlayingMeansAlive == live /\ restart = 0 => \A s \in Slots : players[s].alive

\* A slot scores at most once in a round, and never before the first.
ScoredOncePerRound ==
    \A s \in Slots :
        score[s] + (IF players[Other(s)].alive /\ round > 0 THEN 1 ELSE 0) <= round

\* A round in order: its countdown, its liveness and its score agree.
RoundKept == CountdownIffDeath /\ PlayingMeansAlive /\ ScoredOncePerRound

\* The authority drops whoever was silent for STALE_TICKS: a connected slot was
\* heard of more recently.
ConnectedWasHeard ==
    \A s \in Slots : peers[s].connected => tick - peers[s].last < STALE_TICKS

\* Sessions are told apart, and none is held by somebody who fell silent.
SessionsKept == SessionsDistinct /\ ConnectedWasHeard

\* Health is lost only in a tick that finds both slots connected and not
\* silent: nobody is shot while away.
DamageNeedsBothPresent ==
    [][(\E s \in Slots : players'[s].hp < players[s].hp)
         => \A s \in Slots : peers[s].connected /\ peers'[s].connected]_duelVars

\* Within a session, what a slot has sent and what was executed never go back,
\* and no step executes more than one input of a slot unless a new round
\* discards the queue.
ExecutionAdvancesByOne ==
    [][\A s \in Slots : peers'[s].epoch = peers[s].epoch =>
         /\ peers'[s].received >= peers[s].received
         /\ peers'[s].ack >= peers[s].ack
         /\ round' = round => peers'[s].ack <= peers[s].ack + 1]_duelVars

\* The room keeps what module Match promises: each of its steps is one of the
\* match's, or none.
Rounds == INSTANCE Match WITH
    Players <- Slots, Opponent <- Other,
    phase <- IF ~live THEN "waiting" ELSE IF restart > 0 THEN "interval" ELSE "live",
    dead <- {s \in Slots : ~players[s].alive}

KeepsTheMatch == Rounds!Spec
=============================================================================
