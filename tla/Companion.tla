----------------------------- MODULE Companion -----------------------------
(***************************************************************************)
(* The Companion's connections (crates/openstrike-companion): the bridges  *)
(* of the games (lib.rs), each with one TCP stream at most and one request *)
(* in it, and the loop of the Companion (main.rs), which accepts one       *)
(* stream per pass, polls every connection without blocking, and removes   *)
(* one that fails by putting the last one in its place.                    *)
(*                                                                         *)
(* Of the room this module keeps who is present. What becomes of a request *)
(* there is module Duel; module Crossplay composes it with the games and   *)
(* keeps of a slot's connection the states this module gives rise to.      *)
(***************************************************************************)
EXTENDS Integers, Sequences, FiniteSets, SequencesExt

CONSTANTS
    Bridges,            \* the games' workers
    Second,             \* the bridges configured for slot 1; the others are for slot 0
    Keyed,              \* the bridges that hold the pairing key
    NoSlot,             \* a connection that has not said hello
    MAX_CONNECTIONS,    \* connections polled at once (4)
    IDLE,               \* idle time after which a connection is closed (3 s)
    MAX_STREAMS,        \* bound on the streams ever opened
    MAX_ASKS            \* bound on the requests of one bridge

ASSUME CompanionAssumption ==
    /\ Keyed \subseteq Bridges /\ NoSlot \notin {0, 1}
    /\ MAX_CONNECTIONS \in Nat \ {0} /\ IDLE \in Nat \ {0}
    /\ MAX_STREAMS \in Nat /\ MAX_ASKS \in Nat

VARIABLES
    links,          \* bridge -> its stream, what it does, its last request
    opened,         \* streams opened so far
    pipes,          \* stream -> records on the way to the room and back
    backlog,        \* streams the listener has not accepted
    connections,    \* the Companion's list
    at,             \* the connection polled: 0 is the listener's turn
    batch,          \* records read and still to be handled; Writing and Reading are none
    present,        \* slot -> the room counts its player as connected
    polled,         \* history: the streams polled in this pass
    heard           \* history: bridge -> its last request the room handled

bridgeVars == <<links, opened>>
vars == <<links, opened, pipes, backlog, connections, at, batch, present, polled, heard>>

Slots == {0, 1}
Slot == [b \in Bridges |-> IF b \in Second THEN 1 ELSE 0]
Streams == 1 .. MAX_STREAMS
NoStream == 0

\* What the poll of a connection does next when no record is left to handle.
Writing == -1
Reading == 0

Hello(b) == [by |-> b, ask |-> 0]
Request(b) == [by |-> b, ask |-> links[b].ask]
IsHello(record) == record.ask = 0

-----------------------------------------------------------------------------
(* The bridge: connect, hello, request, answer. A connect that fails leaves *)
(* it as it was.                                                            *)

Connect(b) ==
    /\ links[b].stream = NoStream /\ links[b].ask < MAX_ASKS /\ opened < MAX_STREAMS
    /\ opened' = opened + 1
    /\ links' = [links EXCEPT ![b] =
           [stream |-> opened', doing |-> "connected", ask |-> @.ask + 1]]
    /\ pipes' = [pipes EXCEPT ![opened'].open = TRUE]
    /\ backlog' = Append(backlog, opened')
    /\ UNCHANGED <<connections, at, batch, present, polled, heard>>

SendHello(b) ==
    /\ links[b].doing = "connected"
    /\ links' = [links EXCEPT ![b].doing = "greeted"]
    /\ pipes' = [pipes EXCEPT ![links[b].stream].up = Append(@, Hello(b))]
    /\ UNCHANGED <<opened, backlog, connections, at, batch, present, polled, heard>>

\* A stream that is kept from the request before needs no hello.
Reuse(b) ==
    /\ links[b].doing = "idle" /\ links[b].stream # NoStream /\ links[b].ask < MAX_ASKS
    /\ links' = [links EXCEPT ![b].doing = "greeted", ![b].ask = @ + 1]
    /\ UNCHANGED <<opened, pipes, backlog, connections, at, batch, present, polled, heard>>

SendRequest(b) ==
    /\ links[b].doing = "greeted"
    /\ links' = [links EXCEPT ![b].doing = "waiting"]
    /\ pipes' = [pipes EXCEPT ![links[b].stream].up = Append(@, Request(b))]
    /\ UNCHANGED <<opened, backlog, connections, at, batch, present, polled, heard>>

Answered(b) ==
    /\ links[b].doing = "waiting" /\ pipes[links[b].stream].down # <<>>
    /\ links' = [links EXCEPT ![b].doing = "idle"]
    /\ pipes' = [pipes EXCEPT ![links[b].stream].down = Tail(@)]
    /\ UNCHANGED <<opened, backlog, connections, at, batch, present, polled, heard>>

\* Mutation: the stream is kept although its answer was not awaited.
HangUpKeepsStream(b) ==
    /\ links' = [links EXCEPT ![b].doing = "idle"]
    /\ UNCHANGED pipes

HangUp(b) ==
    /\ links' = [links EXCEPT ![b].doing = "idle", ![b].stream = NoStream]
    /\ pipes' = [pipes EXCEPT ![links[b].stream].open = FALSE]

\* Half a second without an answer, a stream the Companion closed, or the end
\* of the game: the stream is closed with whatever is in it.
Leave(b) ==
    /\ links[b].stream # NoStream
    /\ HangUp(b)
    /\ UNCHANGED <<opened, backlog, connections, at, batch, present, polled, heard>>

-----------------------------------------------------------------------------
(* The Companion's loop.                                                    *)

RoomForOne == Len(connections) < MAX_CONNECTIONS

Newcomer == [stream |-> Head(backlog), slot |-> NoSlot, output |-> <<>>, idle |-> 0]

\* A pass begins: the listener is asked for one stream.
Accept ==
    /\ at = 0
    /\ at' = 1 /\ batch' = Writing
    /\ IF RoomForOne /\ backlog # <<>>
       THEN connections' = Append(connections, Newcomer) /\ backlog' = Tail(backlog)
       ELSE UNCHANGED <<connections, backlog>>
    /\ UNCHANGED <<bridgeVars, pipes, present, polled, heard>>

Polling(phase) == at \in DOMAIN connections /\ batch = phase

Current == connections[at]
Pipe == pipes[Current.stream]

\* poll returned Ok.
Proceed ==
    /\ at' = at + 1 /\ batch' = Writing
    /\ polled' = polled \cup {Current.stream}

\* Mutation: the connection put in the place of the removed one is passed over.
AfterRemovalNext == at + 1

AfterRemoval == at

\* swap_remove.
Without(list, i) ==
    SubSeq(IF i < Len(list) THEN ReplaceAt(list, i, Last(list)) ELSE list, 1, Len(list) - 1)

\* Mutation: the room is not told.
AbsentUntold(slot) == present

Absent(slot) == IF slot = NoSlot THEN present ELSE [present EXCEPT ![slot] = FALSE]

\* poll returned an error: the room is told, the connection is removed.
Drop ==
    /\ present' = Absent(Current.slot)
    /\ connections' = Without(connections, at)
    /\ polled' = polled \cup {Current.stream}
    /\ at' = AfterRemoval /\ batch' = Writing
    /\ UNCHANGED <<bridgeVars, pipes, backlog, heard>>

\* Mutation: only a connection that has said hello can be idle.
ExpiredOnceGreeted == Current.slot # NoSlot /\ Current.idle >= IDLE

Expired == Current.idle >= IDLE

Expire == Polling(Writing) /\ Expired /\ Drop

\* All of the output is written, if there is any.
Write ==
    /\ Polling(Writing) /\ ~Expired
    /\ pipes' = [pipes EXCEPT ![Current.stream].down = @ \o Current.output]
    /\ connections' = [connections EXCEPT ![at].output = <<>>]
    /\ batch' = Reading
    /\ UNCHANGED <<bridgeVars, backlog, at, present, polled, heard>>

\* The stream takes none or part of the output: the rest stays for the next pass.
WriteBlocks ==
    /\ Polling(Writing) /\ ~Expired /\ Current.output # <<>>
    /\ Proceed
    /\ UNCHANGED <<bridgeVars, pipes, backlog, connections, present, heard>>

\* The other end is closed: writing or reading may fail at once.
Fails ==
    /\ \/ Polling(Writing) /\ ~Expired /\ Current.output # <<>>
       \/ Polling(Reading)
    /\ ~Pipe.open
    /\ Drop

\* All that has come is read, or as many records as fit the buffer.
Read ==
    /\ Polling(Reading) /\ Pipe.up # <<>>
    /\ batch' \in 1 .. Len(Pipe.up)
    /\ connections' = [connections EXCEPT ![at].idle = 0]
    /\ UNCHANGED <<bridgeVars, pipes, backlog, at, present, polled, heard>>

NothingToRead ==
    /\ Polling(Reading) /\ Pipe.up = <<>> /\ Pipe.open
    /\ Proceed
    /\ UNCHANGED <<bridgeVars, pipes, backlog, connections, present, heard>>

\* The records read are handled one by one.
Handling == at \in DOMAIN connections /\ batch > 0
Record == Head(Pipe.up)

Handled ==
    /\ pipes' = [pipes EXCEPT ![Current.stream].up = Tail(@)]
    /\ IF batch = 1 THEN Proceed ELSE batch' = batch - 1 /\ UNCHANGED <<at, polled>>
    /\ UNCHANGED <<bridgeVars, backlog>>

\* Mutation: only the connections polled earlier in the pass count.
OccupiedBefore(slot) == \E j \in DOMAIN connections : j < at /\ connections[j].slot = slot

Occupied(slot) == \E j \in DOMAIN connections : j # at /\ connections[j].slot = slot

Welcome(record) == IsHello(record) /\ record.by \in Keyed /\ ~Occupied(Slot[record.by])

Greet ==
    /\ Handling /\ Current.slot = NoSlot /\ Welcome(Record)
    /\ connections' = [connections EXCEPT ![at].slot = Slot[Record.by]]
    /\ Handled
    /\ UNCHANGED <<present, heard>>

\* The room handles the request, which may be the join of its player, and the
\* answer is queued.
Exchange ==
    /\ Handling /\ Current.slot # NoSlot /\ ~IsHello(Record)
    /\ \E joins \in BOOLEAN :
         present' = [present EXCEPT ![Current.slot] = @ \/ joins]
    /\ connections' = [connections EXCEPT ![at].output = Append(@, Record)]
    /\ heard' = [heard EXCEPT ![Record.by] = Record.ask]
    /\ Handled

\* "pairing rejected", "invalid capability", or a record that is neither.
Reject ==
    /\ Handling
    /\ IF Current.slot = NoSlot THEN ~Welcome(Record) ELSE IsHello(Record)
    /\ Drop

\* The pass is over: the room steps, which may drop silent players, and some
\* time may go by: passes are a thousand times shorter than the idle time.
EndOfPass(elapsed) ==
    /\ at > Len(connections)
    /\ at' = 0 /\ polled' = {}
    /\ present' \in {p \in [Slots -> BOOLEAN] : \A s \in Slots : p[s] => present[s]}
    /\ connections' = [i \in DOMAIN connections |->
           [connections[i] EXCEPT !.idle = IF @ + elapsed > IDLE THEN IDLE ELSE @ + elapsed]]
    /\ UNCHANGED <<bridgeVars, pipes, backlog, batch, heard>>

TimePasses == \E elapsed \in 1 .. IDLE : EndOfPass(elapsed)

Loop ==
    \/ Accept
    \/ Expire \/ Write \/ WriteBlocks \/ Fails
    \/ Read \/ NothingToRead
    \/ Greet \/ Exchange \/ Reject
    \/ EndOfPass(0) \/ TimePasses

Init ==
    /\ links = [b \in Bridges |-> [stream |-> NoStream, doing |-> "idle", ask |-> 0]]
    /\ opened = 0
    /\ pipes = [st \in Streams |-> [up |-> <<>>, down |-> <<>>, open |-> FALSE]]
    /\ backlog = <<>> /\ connections = <<>>
    /\ at = 0 /\ batch = Writing
    /\ present = [s \in Slots |-> FALSE]
    /\ polled = {} /\ heard = [b \in Bridges |-> 0]

Next ==
    \/ Loop
    \/ \E b \in Bridges :
         Connect(b) \/ SendHello(b) \/ Reuse(b) \/ SendRequest(b) \/ Answered(b) \/ Leave(b)

\* The Companion's loop never blocks, and time passes however many passes it
\* takes; of the bridges nothing is assumed.
Spec == Init /\ [][Next]_vars /\ WF_vars(Loop) /\ SF_vars(TimePasses)

-----------------------------------------------------------------------------
(* Properties.                                                              *)

Records == {Hello(b) : b \in Bridges} \cup [by : Bridges, ask : 1 .. MAX_ASKS]

\* Every field has the shape the code gives it, and no more connections are
\* polled than the list has room for.
TypeOK ==
    /\ links \in [Bridges ->
           [stream : 0 .. opened, doing : {"idle", "connected", "greeted", "waiting"},
            ask : 0 .. MAX_ASKS]]
    /\ opened \in 0 .. MAX_STREAMS
    /\ \A st \in Streams :
         /\ pipes[st].open \in BOOLEAN
         /\ \A k \in DOMAIN pipes[st].up : pipes[st].up[k] \in Records
         /\ \A k \in DOMAIN pipes[st].down : pipes[st].down[k] \in Records
    /\ Len(connections) <= MAX_CONNECTIONS
    /\ \A i \in DOMAIN connections :
         /\ connections[i].slot \in Slots \cup {NoSlot}
         /\ connections[i].idle \in 0 .. IDLE
    /\ at \in 0 .. Len(connections) + 1 /\ batch >= Writing
    /\ present \in [Slots -> BOOLEAN]

\* A slot is spoken for by one connection: a bridge that reconnects while its
\* old connection is still listed, or another game with the same slot, is
\* refused, wherever removals have moved the old one in the list.
SlotHeldOnce ==
    \A i, j \in DOMAIN connections :
        connections[i].slot = connections[j].slot /\ connections[i].slot # NoSlot => i = j

\* The room counts nobody as connected who has no connection: whichever way a
\* connection ends, even in the middle of a poll that has handled a join, its
\* player leaves the room with it.
PresentHasConnection ==
    \A s \in Slots : present[s] => \E i \in DOMAIN connections : connections[i].slot = s

\* Every connection is polled once in a pass, although removals reorder the list
\* under the loop: what is behind the loop was polled, what is ahead was not.
PolledOncePerPass ==
    \A i \in DOMAIN connections : connections[i].stream \in polled <=> i < at

\* What a stream carries, with the place it is in: answers, the output queued
\* for it, requests.
Carried(st) ==
    {<<"down", k, pipes[st].down[k]>> : k \in DOMAIN pipes[st].down}
    \cup (UNION {{<<"output", k, connections[i].output[k]>> : k \in DOMAIN connections[i].output} :
                     i \in {j \in DOMAIN connections : connections[j].stream = st}})
    \cup {<<"up", k, pipes[st].up[k]>> : k \in {j \in DOMAIN pipes[st].up : ~IsHello(pipes[st].up[j])}}

\* A stream carries one request or its answer, and nothing but what its bridge
\* waits for: an answer is never taken for that of another request, the output
\* never holds two replies, and a stream that was given up leaves the room one
\* late request at most.
OneInThePipe ==
    /\ \A st \in Streams : \A c, d \in Carried(st) : c = d
    /\ \A b \in Bridges :
         links[b].stream # NoStream =>
            \A c \in Carried(links[b].stream) :
                links[b].doing = "waiting" /\ c[3] = Request(b)

\* What a bridge reads answers what it asked, and every connection and stream
\* keeps its shape, the list of connections its limit. (OneInThePipe, TypeOK)
WellKept == TypeOK /\ OneInThePipe

\* The room handles the requests of a bridge in the order they were made, also
\* when some were left in streams the bridge gave up and the loop polls the new
\* stream before the old one.
HeardInOrder == [][\A b \in Bridges : heard'[b] >= heard[b]]_vars

\* Whoever connects is accepted in the end: connections that say nothing, before
\* or after hello, do not keep their places.
EveryoneIsAccepted == \A st \in Streams : Contains(backlog, st) ~> ~Contains(backlog, st)
=============================================================================
