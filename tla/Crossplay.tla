----------------------------- MODULE Crossplay -----------------------------
(***************************************************************************)
(* Crossplay end to end: the authority of module Duel, a client in each    *)
(* slot of Guests (struct Client of crates/openstrike-core/src/net.rs),    *)
(* the guest script that keeps one exchange in flight (game/network.ts),   *)
(* and the transport between them: the offload worker, which takes         *)
(* requests one at a time, and the TCP connection of its bridge            *)
(* (crates/openstrike-companion).                                          *)
(*                                                                         *)
(* A turn of the game is two atomic steps, since the worker and the        *)
(* Companion run beside it: Tick applies the last snapshot and lets the    *)
(* script send; Frame runs the script's callbacks and drains the commands  *)
(* they queued.                                                            *)
(***************************************************************************)
EXTENDS Duel, Functions

CONSTANTS
    TIMEOUT,                    \* ticks the script waits for an answer (90)
    MAX_WIRE,                   \* requests the worker holds at once
    MAX_DRIFT,                  \* bound on how far a game's clock is from the room's
    MAX_FAULTS,                 \* bound on lost connections, restarts and departures
    Guests,                     \* slots with a client; others are played freely
    Triggers                    \* what the player may do with the trigger

ASSUME CrossplayAssumption ==
    /\ TIMEOUT \in Nat /\ MAX_WIRE \in Nat \ {0} /\ MAX_FAULTS \in Nat
    /\ MAX_DRIFT \in Nat
    /\ Guests \subseteq {0, 1} /\ Triggers \subseteq BOOLEAN

VARIABLES
    clients,    \* slot -> the Client of its game
    guests,     \* slot -> what the script remembers of its exchange
    turns,      \* slot -> the ticks its game has run
    turn,       \* slot -> the half of the game turn that runs next
    wire,       \* slot -> requests in the worker; those with current set are waited for
    answers,    \* slot -> the answer ready for the script's callback
    links,      \* slot -> the connection of the bridge
    faults      \* lost connections, restarts and departures so far

gameVars == <<clients, guests, turns, turn>>
wireVars == <<wire, answers, links>>
vars == <<duelVars, gameVars, wireVars, faults>>

None == [error |-> "none"]

-----------------------------------------------------------------------------
(* Client: its state and its methods, as functions of the state.            *)

NewClient(map) ==
    [map |-> map, epoch |-> 0, next |-> 1, received |-> 0, tick |-> 0, round |-> 0,
     age |-> 0, blocked |-> FALSE, history |-> <<>>, pending |-> None,
     status |-> "CONNECTING"]

\* The prefix of at most n elements.
Take(seq, n) == SubSeq(seq, 1, IF Len(seq) < n THEN Len(seq) ELSE n)

\* The inputs of a history above a number, in order. (SelectSeq, as a function
\* that can be reasoned about.)
After(history, number) ==
    LET kept[n \in 0 .. Len(history)] ==
          IF n = 0 THEN <<>>
          ELSE IF history[n].seq > number THEN Append(kept[n - 1], history[n])
          ELSE kept[n - 1]
    IN  kept[Len(history)]

\* Mutation: the first input the room does not hold is left out.
ClientRequestSkips(c) ==
    [map |-> c.map, epoch |-> c.epoch,
     inputs |-> IF c.epoch = 0 THEN <<>> ELSE Take(After(c.history, c.received + 1), BATCH)]

\* What request sends: the inputs the server is not known to hold.
ClientRequest(c) ==
    [map |-> c.map, epoch |-> c.epoch,
     inputs |-> IF c.epoch = 0 THEN <<>> ELSE Take(After(c.history, c.received), BATCH)]

\* Mutation: a snapshot of the same server tick is refused.
AcceptableNewer(c, reply) ==
    /\ reply.epoch # 0
    /\ reply.ack <= reply.received /\ reply.received < c.next
    /\ c.epoch # 0 => reply.epoch = c.epoch /\ reply.tick > c.tick

\* The snapshots receive keeps for the next tick.
Acceptable(c, reply) ==
    /\ reply.epoch # 0
    /\ reply.ack <= reply.received /\ reply.received < c.next
    /\ c.epoch # 0 => reply.epoch = c.epoch /\ reply.tick >= c.tick

Fail(c) == [c EXCEPT !.age = STALE_TICKS]

Receive(c, reply) ==
    IF reply.error = "map or protocol mismatch"
    THEN [c EXCEPT !.blocked = TRUE, !.status = "MAP MISMATCH", !.history = <<>>]
    ELSE IF reply.error # NoError THEN Fail(c)
    ELSE IF Acceptable(c, reply) THEN [c EXCEPT !.pending = reply]
    ELSE c

StatusOf(reply) ==
    IF reply.playing THEN "LIVE"
    ELSE IF \A s \in Slots : reply.connected[s] THEN "NEXT ROUND"
    ELSE "WAITING FOR PLAYER"

\* A round that ended drops the history and restarts the numbering after what
\* the authority already holds.
RoundChanged(c) == c.round # c.pending.round

\* Mutation: the numbering goes on.
NumberingGoesOn(c) == c.next

Numbering(c) == IF RoundChanged(c) THEN c.pending.received + 1 ELSE c.next

StillNeeded(c) == IF RoundChanged(c) THEN <<>> ELSE After(c.history, c.pending.ack)

Older(c) == IF c.age < STALE_TICKS THEN c.age + 1 ELSE c.age

\* tick, first part: adopt the pending snapshot.
Adopt(c) ==
    IF c.pending = None THEN [c EXCEPT !.age = Older(c)]
    ELSE LET reply == c.pending
         IN  [c EXCEPT
                !.pending = None, !.age = 0,
                !.epoch = reply.epoch, !.tick = reply.tick,
                !.received = reply.received, !.round = reply.round,
                !.status = StatusOf(reply),
                !.next = Numbering(c), !.history = StillNeeded(c)]

\* Mutation: silence is no reason to give up.
GivesUpWhenFull(c) == ~c.blocked /\ Len(c.history) = HISTORY

\* tick, second part: give the session up when the authority was silent for too
\* long or the history is full.
GivesUp(c) == ~c.blocked /\ (c.age >= STALE_TICKS \/ Len(c.history) = HISTORY)

\* Mutation: what was learned is forgotten, the session is not.
GiveUpKeepsSession(c) ==
    IF GivesUp(c)
    THEN [c EXCEPT !.next = 1, !.received = 0, !.tick = 0, !.round = 0,
                   !.history = <<>>, !.status = "RECONNECTING"]
    ELSE c

GiveUp(c) ==
    IF GivesUp(c)
    THEN [c EXCEPT !.epoch = 0, !.next = 1, !.received = 0, !.tick = 0, !.round = 0,
                   !.history = <<>>, !.status = "RECONNECTING"]
    ELSE c

\* tick, last part: number and keep this tick's input.
Capture(c, fire) ==
    IF ~c.blocked /\ c.epoch # 0
    THEN [c EXCEPT !.history = Append(@, [seq |-> c.next, fire |-> fire]),
                   !.next = @ + 1]
    ELSE c

ClientTick(c, fire) == Capture(GiveUp(Adopt(c)), fire)

-----------------------------------------------------------------------------
(* The guest's turn.                                                        *)

NewGuest == [ticket |-> FALSE, waited |-> 0, failed |-> FALSE]

\* cancel: nobody waits for the requests in the worker any more.
Cancelled(requests) == [k \in DOMAIN requests |-> [requests[k] EXCEPT !.current = FALSE]]

\* onTick has waited for longer than the timeout.
TimedOut(g) == g.ticket /\ g.waited >= TIMEOUT

\* The game ticks its client, then the script cancels an exchange that took too
\* long and, when it has none in flight and the host offers a request, sends.
Tick(s) ==
    /\ turn[s] = "tick" /\ turns[s] < tick + MAX_DRIFT
    /\ turns' = [turns EXCEPT ![s] = @ + 1]
    /\ turn' = [turn EXCEPT ![s] = "frame"]
    /\ \E fire \in Triggers, sends \in BOOLEAN :
         LET c == ClientTick(clients[s], fire)
             expired == TimedOut(guests[s])
             kept == IF expired THEN Cancelled(wire[s]) ELSE wire[s]
             waiting == guests[s].ticket /\ ~expired
         IN  /\ sends => ~waiting /\ ~c.blocked /\ Len(wire[s]) < MAX_WIRE
             /\ clients' = [clients EXCEPT ![s] = c]
             /\ guests' = [guests EXCEPT ![s] =
                    [ticket |-> waiting \/ sends,
                     waited |-> IF waiting THEN @.waited + 1 ELSE 0,
                     failed |-> expired]]
             /\ wire' = [wire EXCEPT ![s] =
                    IF sends THEN Append(kept, [req |-> ClientRequest(c), current |-> TRUE])
                    ELSE kept]
             /\ answers' = [answers EXCEPT ![s] = IF expired THEN None ELSE @]
    /\ UNCHANGED <<duelVars, links, faults>>

\* The callback of a current exchange may run; then the commands are drained in
\* the order they were queued: the timeout's failure, then the answer.
Frame(s) ==
    /\ turn[s] = "frame"
    /\ turn' = [turn EXCEPT ![s] = "tick"]
    /\ \E called \in BOOLEAN :
         LET c == IF guests[s].failed THEN Fail(clients[s]) ELSE clients[s]
         IN  /\ called => answers[s] # None
             /\ clients' = [clients EXCEPT ![s] = IF called THEN Receive(c, answers[s]) ELSE c]
             /\ guests' = [guests EXCEPT ![s].failed = FALSE,
                                         ![s].ticket = @ /\ ~called]
             /\ answers' = [answers EXCEPT ![s] = IF called THEN None ELSE @]
    /\ UNCHANGED <<duelVars, turns, wire, links, faults>>

-----------------------------------------------------------------------------
(* The worker, its bridge and the connection.                               *)
(*                                                                          *)
(* Module Companion has the connections themselves; here, links[s].lost     *)
(* lists the ones the bridge gave up and the Companion has still to close,  *)
(* each with the request left in it or None. While there are any, a new one *)
(* is refused or has to wait. links[s].closed says that the Companion       *)
(* closed the bridge's connection and the bridge does not know.             *)

NewLink == [lost |-> <<>>, closed |-> FALSE]
Reachable(s) == links[s].lost = <<>> /\ ~links[s].closed

Fault == faults < MAX_FAULTS /\ faults' = faults + 1

\* The worker is done with its first request: the answer goes to the script if
\* the script still waits for it.
Finish(s, answer) ==
    /\ wire' = [wire EXCEPT ![s] = Tail(@)]
    /\ answers' = [answers EXCEPT ![s] = IF Head(wire[s]).current THEN answer ELSE @]

Disconnected == [error |-> "Companion disconnected"]

\* The worker skips a request that was cancelled.
Skip(s) ==
    /\ wire[s] # <<>> /\ ~Head(wire[s]).current
    /\ wire' = [wire EXCEPT ![s] = Tail(@)]
    /\ UNCHANGED <<duelVars, gameVars, answers, links, faults>>

\* The room handles the request and the answer comes back.
Serve(s) ==
    /\ wire[s] # <<>> /\ Reachable(s)
    /\ Exchange(s, Head(wire[s]).req)
    /\ Finish(s, Answer(s, Head(wire[s]).req))
    /\ UNCHANGED <<gameVars, links, faults>>

\* The bridge times out or loses the connection: it drops it, with the request
\* perhaps still to be read by the Companion.
Break(s) ==
    /\ wire[s] # <<>> /\ ~links[s].closed
    /\ Finish(s, Disconnected)
    /\ links' = [links EXCEPT ![s].lost = Append(@, Head(wire[s]).req)]
    /\ Fault
    /\ UNCHANGED <<duelVars, gameVars>>

\* A request while the room is out of reach fails; after it the bridge will
\* open a new connection.
FailOver(s) ==
    /\ wire[s] # <<>> /\ ~Reachable(s)
    /\ Finish(s, Disconnected)
    /\ links' = [links EXCEPT ![s].closed = FALSE]
    /\ UNCHANGED <<duelVars, gameVars, faults>>

\* The Companion reads the request left in the oldest lost connection.
ServeLate(s) ==
    /\ links[s].lost # <<>> /\ Head(links[s].lost) # None
    /\ Exchange(s, Head(links[s].lost))
    /\ links' = [links EXCEPT ![s].lost[1] = None]
    /\ UNCHANGED <<gameVars, wire, answers, faults>>

\* The Companion closes the oldest lost connection.
Hangup(s) ==
    /\ links[s].lost # <<>>
    /\ Disconnect(s)
    /\ links' = [links EXCEPT ![s].lost = Tail(@)]
    /\ UNCHANGED <<gameVars, wire, answers, faults>>

\* The Companion drops an idle connection.
Close(s) ==
    /\ Reachable(s)
    /\ Disconnect(s)
    /\ links' = [links EXCEPT ![s].closed = TRUE]
    /\ Fault
    /\ UNCHANGED <<gameVars, wire, answers>>

-----------------------------------------------------------------------------
(* The game restarts, perhaps on another map.                               *)

\* What a game that ends leaves of its link: the worker's request, if it had
\* one, stays in the connection, which the Companion has still to close.
Abandoned(link, requests) ==
    IF link.closed THEN NewLink
    ELSE IF requests # <<>> THEN [link EXCEPT !.lost = Append(@, Head(requests).req)]
    ELSE IF link.lost = <<>> THEN [link EXCEPT !.lost = <<None>>]
    ELSE link

Restart(s) ==
    /\ \E map \in BOOLEAN : clients' = [clients EXCEPT ![s] = NewClient(map)]
    /\ guests' = [guests EXCEPT ![s] = NewGuest]
    /\ turn' = [turn EXCEPT ![s] = "tick"]
    /\ wire' = [wire EXCEPT ![s] = <<>>]
    /\ answers' = [answers EXCEPT ![s] = None]
    /\ links' = [links EXCEPT ![s] = Abandoned(links[s], wire[s])]
    /\ Fault
    /\ UNCHANGED <<duelVars, turns>>

\* A slot without a modelled client joins, keeps in touch, and leaves.
RivalJoins(s) ==
    /\ ~peers[s].connected
    /\ Join(s, [map |-> TRUE, epoch |-> 0, inputs |-> <<>>])
    /\ UNCHANGED <<gameVars, wireVars, faults>>

RivalWaits(s) ==
    /\ Accept(s, [map |-> TRUE, epoch |-> peers[s].epoch, inputs |-> <<>>])
    /\ UNCHANGED <<gameVars, wireVars, faults>>

RivalLeaves(s) ==
    /\ peers[s].connected
    /\ Disconnect(s)
    /\ Fault
    /\ UNCHANGED <<gameVars, wireVars>>

Init ==
    /\ DuelInit
    /\ \E map \in [Guests -> BOOLEAN] : clients = [s \in Guests |-> NewClient(map[s])]
    /\ guests = [s \in Guests |-> NewGuest]
    /\ turns = [s \in Guests |-> 0]
    /\ turn = [s \in Guests |-> "tick"]
    /\ wire = [s \in Guests |-> <<>>]
    /\ answers = [s \in Guests |-> None]
    /\ links = [s \in Guests |-> NewLink]
    /\ faults = 0

RoomStep ==
    /\ \A s \in Guests : tick < turns[s] + MAX_DRIFT
    /\ Step
    /\ UNCHANGED <<gameVars, wireVars, faults>>

Next ==
    \/ RoomStep
    \/ \E s \in Guests :
         \/ Tick(s) \/ Frame(s)
         \/ Skip(s) \/ Serve(s) \/ Break(s) \/ FailOver(s) \/ ServeLate(s) \/ Hangup(s) \/ Close(s)
         \/ Restart(s)
    \/ \E s \in Slots \ Guests : RivalJoins(s) \/ RivalWaits(s) \/ RivalLeaves(s)

Spec == Init /\ [][Next]_vars

-----------------------------------------------------------------------------
(* Properties.                                                              *)

Snapshot ==
    [error : {NoError}, epoch : 0 .. MAX_GENERATION, tick : 0 .. MAX_TICK, ack : Nat,
     received : Nat, round : Nat, playing : BOOLEAN, connected : [Slots -> BOOLEAN]]

Statuses == {"CONNECTING", "RECONNECTING", "LIVE", "NEXT ROUND", "WAITING FOR PLAYER",
             "MAP MISMATCH"}

ClientType(c) ==
    /\ c.epoch \in 0 .. MAX_GENERATION /\ c.next \in Nat \ {0} /\ c.received \in Nat
    /\ c.tick \in 0 .. MAX_TICK /\ c.round \in Nat /\ c.age \in 0 .. STALE_TICKS
    /\ c.map \in BOOLEAN /\ c.blocked \in BOOLEAN /\ c.status \in Statuses
    /\ \A k \in DOMAIN c.history : c.history[k] \in Input
    /\ c.pending = None \/ c.pending \in Snapshot

\* Every field has the shape the code gives it.
TypeOK ==
    /\ DuelTypeOK
    /\ \A s \in Guests :
         /\ ClientType(clients[s])
         /\ guests[s].ticket \in BOOLEAN /\ guests[s].failed \in BOOLEAN
         /\ guests[s].waited \in 0 .. TIMEOUT
         /\ turn[s] \in {"tick", "frame"}
         /\ Len(wire[s]) <= MAX_WIRE
         /\ answers[s] = None \/ answers[s].error # NoError \/ answers[s] \in Snapshot
         /\ links[s].closed \in BOOLEAN /\ Len(links[s].lost) <= faults

InSession(s) == clients[s].epoch # 0 /\ clients[s].epoch = peers[s].epoch

\* The requests of slot s on their way to the room.
OnTheWay(s) ==
    {wire[s][k].req : k \in DOMAIN wire[s]} \cup (Range(links[s].lost) \ {None})

\* The inputs of the client's session, wherever they are: in its history, in the
\* room's queue or in requests.
KeptInputs(c, peer, requests) ==
    Range(c.history) \cup Range(peer.input)
      \cup UNION {Range(r.inputs) : r \in {q \in requests : q.epoch = c.epoch}}

\* A number names one input.
NameOne(inputs) == \A i, j \in inputs : i.seq = j.seq => i = j

\* "Never reuse those IDs": in one session a number names one input, wherever
\* it is kept, so that no input is executed in the place of another.
NumbersNameOneInput ==
    \A s \in Guests : InSession(s) => NameOne(KeptInputs(clients[s], peers[s], OnTheWay(s)))

\* What the room has queued and what the client has still to send join up: as
\* long as the session lasts they are the run of numbers from the last input
\* executed to the last one captured, so that none is lost and none runs twice.
StreamUnbroken ==
    \A s \in Guests : InSession(s) /\ peers[s].connected =>
        LET stream == peers[s].input \o After(clients[s].history, peers[s].received)
        IN  /\ Len(stream) = clients[s].next - 1 - peers[s].ack
            /\ \A k \in DOMAIN stream : stream[k].seq = peers[s].ack + k

\* Every input reaches the room once, as itself.
InputsKept == NumbersNameOneInput /\ StreamUnbroken

\* The client still keeps every input it captured that was not executed: a round
\* change makes it forget those the room had queued by then.
KeepsUnexecuted(s) == Len(clients[s].history) >= clients[s].next - 1 - peers[s].ack

\* The room never finds fault with a client: whatever was lost, delayed or
\* repeated, its batches leave no gap and a join carries no input; and as long
\* as it keeps every input not executed, giving up when its history is full
\* keeps it from overflowing the room's queue, which has the same limit.
ClientNeverAtFault ==
    \A s \in Guests : \A r \in OnTheWay(s) :
        /\ Error(s, r) \notin {"invalid input batch", "join cannot contain input",
                                    "input gap"}
        /\ Error(s, r) = "input queue full" => ~(InSession(s) /\ KeepsUnexecuted(s))

\* A client is never in a session the room has already replaced, so that it
\* cannot take an old snapshot for the answer to its join.
SessionIsCurrent ==
    \A s \in Guests : clients[s].epoch # 0 => clients[s].epoch = peers[s].epoch

\* "One guest request in flight": the script holds a ticket exactly while one
\* request or its answer is on the way to it, so that it neither sends a second
\* one nor waits for an answer that cannot come.
TicketIsTheExchange ==
    \A s \in Guests :
        LET waitedFor == {k \in DOMAIN wire[s] : wire[s][k].current}
        IN  IF guests[s].ticket
            THEN Cardinality(waitedFor) + (IF answers[s] = None THEN 0 ELSE 1) = 1
            ELSE waitedFor = {} /\ answers[s] = None

\* One exchange at a time, of the session the room holds.
ExchangeKept == SessionIsCurrent /\ TicketIsTheExchange

\* A snapshot of the client's own session is never thrown away: the checks of
\* receive only reject what belongs to another session.
OwnSnapshotsAccepted ==
    \A s \in Guests :
        answers[s].error = NoError /\ InSession(s) /\ answers[s].epoch = clients[s].epoch
          => Acceptable(clients[s], answers[s])

\* One exchange at a time, and nothing the room says in its session is rejected.
OwnAnswersTaken == OwnSnapshotsAccepted /\ ExchangeKept

\* A game shows a live round only while snapshots keep coming: after
\* STALE_TICKS without one, or a failure, its next tick stops the round.
LiveOnlyWhileHeard ==
    \A s \in Guests :
        turn[s] = "frame" /\ clients[s].status = "LIVE" => clients[s].age < STALE_TICKS

\* A client that met another map never plays and never asks again.
MismatchStaysOut ==
    \A s \in Guests :
        clients[s].blocked => clients[s].epoch = 0 /\ ~guests[s].ticket

\* A client plays only what it hears of, and only on its own map.
PlaysWhatItHears == LiveOnlyWhileHeard /\ MismatchStaysOut

\* Within a session neither the server time nor the numbers the client has
\* learned go back.
ClientNeverGoesBack ==
    [][\A s \in Guests :
         clients[s].epoch # 0 /\ clients'[s].epoch = clients[s].epoch =>
           /\ clients'[s].tick >= clients[s].tick
           /\ clients'[s].received >= clients[s].received
           /\ clients'[s].round >= clients[s].round]_vars
=============================================================================
