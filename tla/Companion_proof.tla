-------------------------- MODULE Companion_proof --------------------------
(***************************************************************************)
(* Proofs about the Companion's list of connections, for every number of   *)
(* bridges, places, streams and requests.                                  *)
(***************************************************************************)
EXTENDS Companion, TLAPS

RecordShape == [by : Bridges, ask : Nat]

Connection ==
    [stream : Streams, slot : Slots \cup {NoSlot}, output : Seq(RecordShape), idle : Nat]

\* What every field holds, and that the records read are still in the stream.
Shape ==
    /\ links \in [Bridges ->
           [stream : Nat, doing : {"idle", "connected", "greeted", "waiting"}, ask : Nat]]
    /\ opened \in Nat
    /\ pipes \in [Streams ->
           [up : Seq(RecordShape), down : Seq(RecordShape), open : BOOLEAN]]
    /\ backlog \in Seq(Streams)
    /\ connections \in Seq(Connection)
    /\ at \in Nat /\ batch \in Int
    /\ batch > 0 => at \in DOMAIN connections /\ batch <= Len(Pipe.up)
    /\ present \in [Slots -> BOOLEAN]

\* No stream is listed twice, accepted or not.
StreamsDistinct ==
    /\ \A i, j \in DOMAIN connections : connections[i].stream = connections[j].stream => i = j
    /\ \A i, j \in DOMAIN backlog : backlog[i] = backlog[j] => i = j
    /\ \A i \in DOMAIN connections, j \in DOMAIN backlog : connections[i].stream # backlog[j]
    /\ \A i \in DOMAIN connections : connections[i].stream <= opened
    /\ \A j \in DOMAIN backlog : backlog[j] <= opened

ListInv ==
    /\ Shape /\ StreamsDistinct
    /\ SlotHeldOnce /\ PresentHasConnection /\ PolledOncePerPass
    /\ at = 0 => polled = {}

-----------------------------------------------------------------------------
(* The list.                                                                *)

\* Every bridge has a slot.
LEMMA SlotType == Slot \in [Bridges -> {0, 1}]
  BY DEF Slot

\* swap_remove: the last element takes the place of the removed one.
LEMMA WithoutElements ==
    ASSUME NEW S, NEW list \in Seq(S), NEW i \in DOMAIN list
    PROVE  /\ Without(list, i) \in Seq(S)
           /\ DOMAIN Without(list, i) = 1 .. Len(list) - 1
           /\ \A j \in 1 .. Len(list) - 1 :
                Without(list, i)[j] = IF j = i THEN list[Len(list)] ELSE list[j]
<1> DEFINE n == Len(list)
           swapped == IF i < n THEN ReplaceAt(list, i, Last(list)) ELSE list
<1>1. n \in Nat /\ i \in 1 .. n
  OBVIOUS
<1>2. /\ swapped \in Seq(S) /\ Len(swapped) = n
      /\ \A j \in 1 .. n : swapped[j] = IF j = i THEN list[n] ELSE list[j]
  <2>1. CASE i < n
    <3>1. Last(list) = list[n] /\ list[n] \in S
      BY <1>1 DEF Last
    <3>2. swapped = [list EXCEPT ![i] = list[n]]
      BY <2>1, <3>1 DEF ReplaceAt
    <3> QED BY <1>1, <3>1, <3>2
  <2>2. CASE ~(i < n)
    <3>1. i = n /\ swapped = list
      BY <1>1, <2>2
    <3> QED BY <1>1, <3>1
  <2> QED BY <2>1, <2>2
<1> HIDE DEF swapped
<1>3. Without(list, i) = SubSeq(swapped, 1, n - 1)
  BY DEF Without, swapped
<1>4. /\ SubSeq(swapped, 1, n - 1) \in Seq(S)
      /\ Len(SubSeq(swapped, 1, n - 1)) = n - 1
      /\ \A j \in 1 .. n - 1 : SubSeq(swapped, 1, n - 1)[j] = swapped[j]
  BY <1>1, <1>2
<1> QED BY <1>1, <1>2, <1>3, <1>4

\* The connection polled.
LEMMA CurrentShape ==
    ASSUME Shape, at \in DOMAIN connections
    PROVE  /\ Current \in Connection /\ Current.stream \in Streams
           /\ Pipe \in [up : Seq(RecordShape), down : Seq(RecordShape), open : BOOLEAN]
<1>1. connections \in Seq(Connection)
  BY DEF Shape
<1>2. Current \in Connection
  BY <1>1 DEF Current
<1>3. Current.stream \in Streams
  BY <1>2 DEF Connection
<1>4. pipes \in [Streams -> [up : Seq(RecordShape), down : Seq(RecordShape), open : BOOLEAN]]
  BY DEF Shape
<1> QED BY <1>2, <1>3, <1>4 DEF Pipe

-----------------------------------------------------------------------------
(* Shape.                                                                   *)

\* Before anybody connects.
LEMMA InitInv ==
    Init => ListInv
<1> SUFFICES ASSUME Init PROVE ListInv
  OBVIOUS
<1>1. backlog = <<>> /\ connections = <<>> /\ at = 0 /\ batch = -1 /\ polled = {}
  BY DEF Init, Writing
<1>2. links \in [Bridges ->
        [stream : Nat, doing : {"idle", "connected", "greeted", "waiting"}, ask : Nat]]
  BY DEF Init, NoStream
<1>3. pipes \in [Streams -> [up : Seq(RecordShape), down : Seq(RecordShape), open : BOOLEAN]]
  BY DEF Init
<1>4. opened \in Nat /\ present \in [Slots -> BOOLEAN] /\ \A s \in Slots : ~present[s]
  BY DEF Init
<1>5. Shape
  BY <1>1, <1>2, <1>3, <1>4 DEF Shape
<1> QED BY <1>1, <1>4, <1>5
        DEF ListInv, StreamsDistinct, SlotHeldOnce, PresentHasConnection, PolledOncePerPass

\* A record put into a stream changes nothing but that stream, and leaves what
\* was in it ahead.
LEMMA SentShape ==
    ASSUME Shape, NEW st, NEW record \in RecordShape,
           pipes' = [pipes EXCEPT ![st].up = Append(@, record)],
           UNCHANGED <<connections, at, batch>>
    PROVE  /\ pipes' \in [Streams ->
                  [up : Seq(RecordShape), down : Seq(RecordShape), open : BOOLEAN]]
           /\ batch' > 0 => at' \in DOMAIN connections' /\ batch' <= Len(Pipe'.up)
<1>1. pipes \in [Streams -> [up : Seq(RecordShape), down : Seq(RecordShape), open : BOOLEAN]]
  BY DEF Shape
<1>2. \A x \in Streams :
        /\ pipes'[x].up \in Seq(RecordShape) /\ Len(pipes[x].up) <= Len(pipes'[x].up)
        /\ pipes'[x] \in [up : Seq(RecordShape), down : Seq(RecordShape), open : BOOLEAN]
  <2> SUFFICES ASSUME NEW x \in Streams
               PROVE  /\ pipes'[x].up \in Seq(RecordShape)
                      /\ Len(pipes[x].up) <= Len(pipes'[x].up)
                      /\ pipes'[x] \in
                           [up : Seq(RecordShape), down : Seq(RecordShape), open : BOOLEAN]
    OBVIOUS
  <2>1. pipes[x].up \in Seq(RecordShape)
    BY <1>1
  <2>2. Append(pipes[x].up, record) \in Seq(RecordShape)
        /\ Len(pipes[x].up) <= Len(Append(pipes[x].up, record))
    BY <2>1
  <2>3. CASE x = st
    <3>1. pipes'[x] = [pipes[x] EXCEPT !.up = Append(pipes[x].up, record)]
      BY <1>1, <2>3
    <3> QED BY <1>1, <2>2, <3>1
  <2>4. CASE x # st
    BY <1>1, <2>1, <2>4
  <2> QED BY <2>3, <2>4
<1>3. pipes' \in [Streams -> [up : Seq(RecordShape), down : Seq(RecordShape), open : BOOLEAN]]
  BY <1>1, <1>2
<1>4. ASSUME batch' > 0
      PROVE  at' \in DOMAIN connections' /\ batch' <= Len(Pipe'.up)
  <2>1. batch \in Int /\ batch > 0 /\ at \in DOMAIN connections /\ batch <= Len(Pipe.up)
    BY <1>4 DEF Shape
  <2>2. Current.stream \in Streams
    BY <2>1, CurrentShape
  <2>3. Pipe = pipes[Current.stream] /\ Pipe' = pipes'[Current.stream]
    BY DEF Pipe, Current
  <2>4. Len(Pipe.up) <= Len(Pipe'.up) /\ Len(Pipe.up) \in Nat /\ Len(Pipe'.up) \in Nat
    BY <1>1, <1>2, <2>2, <2>3
  <2> QED BY <2>1, <2>4
<1> QED BY <1>3, <1>4

\* The stream at the other end: what the bridge does to a stream it holds
\* besides sending leaves what is on the way to the room.
LEMMA OtherEndShape ==
    ASSUME Shape, UNCHANGED <<connections, at, batch>>,
           pipes' \in [Streams ->
               [up : Seq(RecordShape), down : Seq(RecordShape), open : BOOLEAN]],
           \A x \in Streams : pipes'[x].up = pipes[x].up
    PROVE  batch' > 0 => at' \in DOMAIN connections' /\ batch' <= Len(Pipe'.up)
<1> SUFFICES ASSUME batch' > 0
             PROVE  at' \in DOMAIN connections' /\ batch' <= Len(Pipe'.up)
  OBVIOUS
<1>1. batch > 0 /\ at \in DOMAIN connections /\ batch <= Len(Pipe.up)
  BY DEF Shape
<1>2. Current.stream \in Streams
  BY <1>1, CurrentShape
<1>3. Pipe = pipes[Current.stream] /\ Pipe' = pipes'[Current.stream]
  BY DEF Pipe, Current
<1> QED BY <1>1, <1>2, <1>3

\* A bridge's steps keep Shape.
LEMMA BridgeShape ==
    ASSUME Shape, NEW b \in Bridges,
           Connect(b) \/ SendHello(b) \/ Reuse(b) \/ SendRequest(b) \/ Answered(b) \/ Leave(b)
    PROVE  Shape'
<1> DEFINE Link == [stream : Nat, doing : {"idle", "connected", "greeted", "waiting"}, ask : Nat]
           Ends == [up : Seq(RecordShape), down : Seq(RecordShape), open : BOOLEAN]
<1>1. links \in [Bridges -> Link] /\ pipes \in [Streams -> Ends] /\ opened \in Nat
  BY DEF Shape
<1>2. UNCHANGED <<connections, at, batch, present>>
  BY DEF Connect, SendHello, Reuse, SendRequest, Answered, Leave
<1>3. CASE Connect(b)
  <2>1. opened' = opened + 1 /\ opened' \in Nat /\ opened' \in Streams
    BY <1>1, <1>3, CompanionAssumption DEF Connect, Streams
  <2>2. links' \in [Bridges -> Link]
    BY <1>1, <1>3, <2>1 DEF Connect
  <2>3. pipes' \in [Streams -> Ends] /\ \A x \in Streams : pipes'[x].up = pipes[x].up
    BY <1>1, <1>3 DEF Connect
  <2>4. backlog' \in Seq(Streams)
    BY <1>3, <2>1 DEF Connect, Shape
  <2>5. batch' > 0 => at' \in DOMAIN connections' /\ batch' <= Len(Pipe'.up)
    BY <1>2, <2>3, OtherEndShape
  <2> QED BY <1>2, <2>1, <2>2, <2>3, <2>4, <2>5 DEF Shape
<1>4. CASE SendHello(b)
  <2>1. Hello(b) \in RecordShape
    BY DEF Hello, RecordShape
  <2>2. pipes' = [pipes EXCEPT ![links[b].stream].up = Append(@, Hello(b))]
    BY <1>4 DEF SendHello
  <2>3. /\ pipes' \in [Streams -> Ends]
        /\ batch' > 0 => at' \in DOMAIN connections' /\ batch' <= Len(Pipe'.up)
    BY <1>2, <2>1, <2>2, SentShape
  <2>4. links' \in [Bridges -> Link] /\ UNCHANGED <<opened, backlog>>
    BY <1>1, <1>4 DEF SendHello
  <2> QED BY <1>2, <2>3, <2>4 DEF Shape
<1>5. CASE Reuse(b)
  <2>0. links[b] \in Link /\ links[b].ask + 1 \in Nat
    BY <1>1
  <2>3. links' = [links EXCEPT ![b] = [[links[b] EXCEPT !.doing = "greeted"]
                                         EXCEPT !.ask = links[b].ask + 1]]
    BY <1>1, <1>5 DEF Reuse
  <2>4. [[links[b] EXCEPT !.doing = "greeted"] EXCEPT !.ask = links[b].ask + 1] \in Link
    BY <2>0
  <2>1. links' \in [Bridges -> Link] /\ UNCHANGED <<opened, backlog, pipes>>
    BY <1>1, <1>5, <2>3, <2>4 DEF Reuse
  <2>2. batch' > 0 => at' \in DOMAIN connections' /\ batch' <= Len(Pipe'.up)
    BY <1>1, <1>2, <2>1, OtherEndShape
  <2> QED BY <1>1, <1>2, <2>1, <2>2 DEF Shape
<1>6. CASE SendRequest(b)
  <2>1. Request(b) \in RecordShape
    BY <1>1 DEF Request, RecordShape
  <2>2. pipes' = [pipes EXCEPT ![links[b].stream].up = Append(@, Request(b))]
    BY <1>6 DEF SendRequest
  <2>3. /\ pipes' \in [Streams -> Ends]
        /\ batch' > 0 => at' \in DOMAIN connections' /\ batch' <= Len(Pipe'.up)
    BY <1>2, <2>1, <2>2, SentShape
  <2>4. links' \in [Bridges -> Link] /\ UNCHANGED <<opened, backlog>>
    BY <1>1, <1>6 DEF SendRequest
  <2> QED BY <1>2, <2>3, <2>4 DEF Shape
<1>7. CASE Answered(b)
  <2>1. pipes' = [pipes EXCEPT ![links[b].stream].down = Tail(@)]
        /\ pipes[links[b].stream].down # <<>>
    BY <1>7 DEF Answered
  <2>2. ASSUME NEW x \in Streams
        PROVE  pipes'[x] \in Ends /\ pipes'[x].up = pipes[x].up
    <3>1. CASE x = links[b].stream
      <4>1. Tail(pipes[x].down) \in Seq(RecordShape)
        BY <1>1, <2>1, <3>1
      <4>2. pipes'[x] = [pipes[x] EXCEPT !.down = Tail(pipes[x].down)]
        BY <1>1, <2>1, <3>1
      <4> QED BY <1>1, <4>1, <4>2
    <3>2. CASE x # links[b].stream
      BY <1>1, <2>1, <3>2
    <3> QED BY <3>1, <3>2
  <2>3. pipes' \in [Streams -> Ends]
    BY <1>1, <2>1, <2>2
  <2>4. links' \in [Bridges -> Link] /\ UNCHANGED <<opened, backlog>>
    BY <1>1, <1>7, ZenonT(60) DEF Answered
  <2>5. batch' > 0 => at' \in DOMAIN connections' /\ batch' <= Len(Pipe'.up)
    BY <1>2, <2>2, <2>3, OtherEndShape
  <2> QED BY <1>2, <2>3, <2>4, <2>5 DEF Shape
<1>8. CASE Leave(b)
  <2>1. pipes' \in [Streams -> Ends] /\ \A x \in Streams : pipes'[x].up = pipes[x].up
    BY <1>1, <1>8 DEF Leave, HangUp
  <2>2. links' \in [Bridges -> Link] /\ UNCHANGED <<opened, backlog>>
    BY <1>1, <1>8 DEF Leave, HangUp, NoStream
  <2>3. batch' > 0 => at' \in DOMAIN connections' /\ batch' <= Len(Pipe'.up)
    BY <1>2, <2>1, OtherEndShape
  <2> QED BY <1>2, <2>1, <2>2, <2>3 DEF Shape
<1> QED BY <1>3, <1>4, <1>5, <1>6, <1>7, <1>8

-----------------------------------------------------------------------------
(* Steps that leave the list as it is but for what a connection holds.      *)

\* The same streams in the same places, with the same slots.
SameHolders ==
    /\ DOMAIN connections' = DOMAIN connections
    /\ \A i \in DOMAIN connections :
         /\ connections'[i].stream = connections[i].stream
         /\ connections'[i].slot = connections[i].slot

\* Such a step keeps what is said of streams and slots.
LEMMA KeptList ==
    ASSUME StreamsDistinct, SlotHeldOnce, SameHolders, UNCHANGED <<backlog, opened>>
    PROVE  StreamsDistinct' /\ SlotHeldOnce'
BY DEF StreamsDistinct, SlotHeldOnce, SameHolders

\* Going on to the next connection counts this one as polled, and no other.
LEMMA ProceedPolled ==
    ASSUME Shape, StreamsDistinct, PolledOncePerPass, at \in DOMAIN connections, SameHolders,
           at' = at + 1, polled' = polled \cup {Current.stream}
    PROVE  PolledOncePerPass' /\ (at' = 0 => polled' = {})
<1>1. at \in Nat /\ DOMAIN connections = 1 .. Len(connections) /\ Len(connections) \in Nat
  BY DEF Shape
<1>2. ASSUME NEW i \in DOMAIN connections
      PROVE  connections[i].stream \in polled' <=> i < at + 1
  <2>1. CASE i = at
    BY <1>1, <2>1 DEF Current
  <2>2. CASE i # at
    <3>1. connections[i].stream # Current.stream
      BY <2>2 DEF Current, StreamsDistinct
    <3>2. connections[i].stream \in polled <=> i < at
      BY DEF PolledOncePerPass
    <3> QED BY <1>1, <2>2, <3>1, <3>2
  <2> QED BY <2>1, <2>2
<1>3. at + 1 # 0
  BY <1>1
<1> QED BY <1>2, <1>3 DEF PolledOncePerPass, SameHolders

\* One connection is given other contents.
LEMMA ReplacedConnection ==
    ASSUME Shape, at \in DOMAIN connections, NEW c \in Connection,
           connections' = [connections EXCEPT ![at] = c]
    PROVE  /\ connections' \in Seq(Connection)
           /\ DOMAIN connections' = DOMAIN connections
           /\ connections'[at] = c
           /\ \A i \in DOMAIN connections : i # at => connections'[i] = connections[i]
BY DEF Shape

\* A connection with another slot, output or idle time.
LEMMA ConnectionWith ==
    ASSUME NEW c \in Connection
    PROVE  /\ \A v \in Slots \cup {NoSlot} :
                [c EXCEPT !.slot = v] \in Connection /\ [c EXCEPT !.slot = v].slot = v
                /\ [c EXCEPT !.slot = v].stream = c.stream
           /\ \A v \in Seq(RecordShape) :
                [c EXCEPT !.output = v] \in Connection
                /\ [c EXCEPT !.output = v].stream = c.stream
                /\ [c EXCEPT !.output = v].slot = c.slot
           /\ \A v \in Nat :
                [c EXCEPT !.idle = v] \in Connection
                /\ [c EXCEPT !.idle = v].stream = c.stream
                /\ [c EXCEPT !.idle = v].slot = c.slot
<1> DEFINE Holders == Slots \cup {NoSlot}
           Outputs == Seq(RecordShape)
<1>1. Connection = [stream : Streams, slot : Holders, output : Outputs, idle : Nat]
  BY DEF Connection
<1> HIDE DEF Holders, Outputs
<1>2. \A v \in Holders :
        [c EXCEPT !.slot = v] \in Connection /\ [c EXCEPT !.slot = v].slot = v
        /\ [c EXCEPT !.slot = v].stream = c.stream
  BY <1>1
<1>3. \A v \in Outputs :
        [c EXCEPT !.output = v] \in Connection
        /\ [c EXCEPT !.output = v].stream = c.stream
        /\ [c EXCEPT !.output = v].slot = c.slot
  BY <1>1
<1>4. \A v \in Nat :
        [c EXCEPT !.idle = v] \in Connection
        /\ [c EXCEPT !.idle = v].stream = c.stream
        /\ [c EXCEPT !.idle = v].slot = c.slot
  BY <1>1
<1> QED BY <1>2, <1>3, <1>4 DEF Holders, Outputs

\* The connection polled is passed, with nothing changed.
LEMMA PassedInv ==
    ASSUME ListInv, WriteBlocks \/ NothingToRead
    PROVE  ListInv'
<1>1. /\ at \in DOMAIN connections /\ Proceed
      /\ UNCHANGED <<bridgeVars, pipes, backlog, connections, present, heard>>
  BY DEF WriteBlocks, NothingToRead, Polling
<1>2. at' = at + 1 /\ batch' = -1 /\ polled' = polled \cup {Current.stream}
  BY <1>1 DEF Proceed, Writing
<1>3. Shape'
  BY <1>1, <1>2 DEF ListInv, Shape, bridgeVars
<1>4. SameHolders /\ UNCHANGED <<backlog, opened>>
  BY <1>1 DEF SameHolders, bridgeVars
<1>5. StreamsDistinct' /\ SlotHeldOnce'
  BY <1>4, KeptList DEF ListInv
<1>6. PolledOncePerPass' /\ (at' = 0 => polled' = {})
  BY <1>1, <1>2, <1>4, ProceedPolled DEF ListInv
<1>7. PresentHasConnection'
  BY <1>1 DEF ListInv, PresentHasConnection
<1> QED BY <1>3, <1>5, <1>6, <1>7 DEF ListInv

\* The output is written.
LEMMA WriteInv ==
    ASSUME ListInv, Write
    PROVE  ListInv'
<1> DEFINE c == [Current EXCEPT !.output = <<>>]
<1>1. /\ at \in DOMAIN connections /\ batch' = 0
      /\ UNCHANGED <<bridgeVars, backlog, at, present, polled, heard>>
  BY DEF Write, Polling, Reading
<1>2. Current \in Connection /\ Current.stream \in Streams /\ Current.output \in Seq(RecordShape)
  <2>1. Current \in Connection
    BY <1>1, CurrentShape DEF ListInv
  <2> QED BY <2>1 DEF Connection
<1>3. c \in Connection /\ c.stream = Current.stream /\ c.slot = Current.slot
  <2>1. <<>> \in Seq(RecordShape)
    OBVIOUS
  <2> HIDE DEF Connection
  <2> QED BY <1>2, <2>1, ConnectionWith
<1>4. connections' = [connections EXCEPT ![at] = c]
  BY <1>1 DEF Write, Current, ListInv, Shape
<1> HIDE DEF c
<1>5. /\ connections' \in Seq(Connection) /\ DOMAIN connections' = DOMAIN connections
      /\ connections'[at] = c
      /\ \A i \in DOMAIN connections : i # at => connections'[i] = connections[i]
  BY <1>1, <1>3, <1>4, ReplacedConnection DEF ListInv
<1>6. SameHolders
  BY <1>3, <1>5 DEF SameHolders, Current
<1>7. pipes' \in [Streams -> [up : Seq(RecordShape), down : Seq(RecordShape), open : BOOLEAN]]
  <2>1. pipes' = [pipes EXCEPT ![Current.stream].down = @ \o Current.output]
    BY DEF Write
  <2>2. pipes \in [Streams -> [up : Seq(RecordShape), down : Seq(RecordShape), open : BOOLEAN]]
    BY DEF ListInv, Shape
  <2>3. pipes[Current.stream].down \o Current.output \in Seq(RecordShape)
    BY <1>2, <2>2
  <2> QED BY <1>2, <2>1, <2>2, <2>3
<1>8. Shape'
  BY <1>1, <1>5, <1>7 DEF ListInv, Shape, bridgeVars
<1>9. StreamsDistinct' /\ SlotHeldOnce'
  BY <1>1, <1>6, KeptList DEF ListInv, bridgeVars
<1>10. PolledOncePerPass' /\ PresentHasConnection'
  BY <1>1, <1>6 DEF ListInv, PolledOncePerPass, PresentHasConnection, SameHolders
<1> QED BY <1>1, <1>8, <1>9, <1>10 DEF ListInv

\* Records are read.
LEMMA ReadInv ==
    ASSUME ListInv, Read
    PROVE  ListInv'
<1> DEFINE c == [Current EXCEPT !.idle = 0]
<1>1. /\ at \in DOMAIN connections /\ batch' \in 1 .. Len(Pipe.up)
      /\ UNCHANGED <<bridgeVars, pipes, backlog, at, present, polled, heard>>
  BY DEF Read, Polling, Reading
<1>2. Current \in Connection /\ Current.stream \in Streams
  BY <1>1, CurrentShape DEF ListInv
<1>3. c \in Connection /\ c.stream = Current.stream /\ c.slot = Current.slot
  BY <1>2, ConnectionWith
<1>4. connections' = [connections EXCEPT ![at] = c]
  BY <1>1 DEF Read, Current, ListInv, Shape
<1> HIDE DEF c
<1>5. /\ connections' \in Seq(Connection) /\ DOMAIN connections' = DOMAIN connections
      /\ connections'[at] = c
      /\ \A i \in DOMAIN connections : i # at => connections'[i] = connections[i]
  BY <1>1, <1>3, <1>4, ReplacedConnection DEF ListInv
<1>6. SameHolders
  BY <1>3, <1>5 DEF SameHolders, Current
<1>7. Pipe' = Pipe
  BY <1>1, <1>3, <1>5 DEF Pipe, Current
<1>8. batch' \in Int /\ batch' <= Len(Pipe'.up) /\ at' \in DOMAIN connections'
  BY <1>1, <1>5, <1>7
<1>9. Shape'
  BY <1>1, <1>5, <1>8 DEF ListInv, Shape, bridgeVars
<1>10. StreamsDistinct' /\ SlotHeldOnce'
  BY <1>1, <1>6, KeptList DEF ListInv, bridgeVars
<1>11. PolledOncePerPass' /\ PresentHasConnection'
  BY <1>1, <1>6 DEF ListInv, PolledOncePerPass, PresentHasConnection, SameHolders
<1> QED BY <1>1, <1>9, <1>10, <1>11 DEF ListInv

\* A record is taken from the stream.
LEMMA HandledShape ==
    ASSUME Shape, Handling, Handled, DOMAIN connections' = DOMAIN connections,
           connections'[at].stream = Current.stream
    PROVE  /\ Record \in RecordShape
           /\ pipes' \in [Streams ->
                  [up : Seq(RecordShape), down : Seq(RecordShape), open : BOOLEAN]]
           /\ at' \in Nat /\ batch' \in Int
           /\ batch' > 0 => at' \in DOMAIN connections' /\ batch' <= Len(Pipe'.up)
<1>1. at \in DOMAIN connections /\ batch > 0 /\ batch \in Int /\ at \in Nat
  BY DEF Handling, Shape
<1>2. /\ Current.stream \in Streams /\ Pipe = pipes[Current.stream]
      /\ Pipe \in [up : Seq(RecordShape), down : Seq(RecordShape), open : BOOLEAN]
  BY <1>1, CurrentShape DEF Pipe
<1>3. Pipe.up \in Seq(RecordShape) /\ Len(Pipe.up) >= batch
  BY <1>1, <1>2 DEF Shape
<1>4. Record \in RecordShape /\ Tail(Pipe.up) \in Seq(RecordShape)
      /\ Len(Tail(Pipe.up)) = Len(Pipe.up) - 1
  BY <1>1, <1>3 DEF Record
<1>5. pipes \in [Streams -> [up : Seq(RecordShape), down : Seq(RecordShape), open : BOOLEAN]]
  BY DEF Shape
<1>6. pipes' = [pipes EXCEPT ![Current.stream].up = Tail(@)]
  BY DEF Handled
<1>7. pipes'[Current.stream] = [Pipe EXCEPT !.up = Tail(Pipe.up)]
  BY <1>2, <1>5, <1>6
<1>8. pipes' \in [Streams -> [up : Seq(RecordShape), down : Seq(RecordShape), open : BOOLEAN]]
      /\ pipes'[Current.stream].up = Tail(Pipe.up)
  BY <1>2, <1>4, <1>5, <1>6, <1>7
<1>9. CASE batch = 1
  BY <1>1, <1>4, <1>8, <1>9 DEF Handled, Proceed, Writing
<1>10. CASE batch # 1
  <2>1. batch' = batch - 1 /\ at' = at
    BY <1>10 DEF Handled
  <2>2. Pipe'.up = Tail(Pipe.up)
    BY <1>8, <2>1 DEF Pipe, Current
  <2> QED BY <1>1, <1>3, <1>4, <1>8, <2>1, <2>2
<1> QED BY <1>9, <1>10

\* A record that is handled passes the connection or leaves the loop where it is.
LEMMA HandledPolled ==
    ASSUME ListInv, Handling, Handled, DOMAIN connections' = DOMAIN connections,
           \A i \in DOMAIN connections : connections'[i].stream = connections[i].stream
    PROVE  PolledOncePerPass' /\ (at' = 0 => polled' = {})
<1>1. at \in Nat /\ DOMAIN connections = 1 .. Len(connections) /\ Len(connections) \in Nat
      /\ at \in DOMAIN connections
  BY DEF ListInv, Shape, Handling
<1>2. CASE batch = 1
  <2>1. at' = at + 1 /\ polled' = polled \cup {Current.stream}
    BY <1>2 DEF Handled, Proceed
  <2>2. ASSUME NEW i \in DOMAIN connections
        PROVE  connections[i].stream \in polled' <=> i < at + 1
    <3>1. CASE i = at
      BY <1>1, <2>1, <3>1 DEF Current
    <3>2. CASE i # at
      <4>1. connections[i].stream # Current.stream
        BY <1>1, <3>2 DEF Current, ListInv, StreamsDistinct
      <4>2. connections[i].stream \in polled <=> i < at
        BY DEF ListInv, PolledOncePerPass
      <4> QED BY <1>1, <2>1, <3>2, <4>1, <4>2
    <3> QED BY <3>1, <3>2
  <2>3. at + 1 # 0
    BY <1>1
  <2> QED BY <2>1, <2>2, <2>3 DEF PolledOncePerPass
<1>3. CASE batch # 1
  BY <1>3 DEF Handled, ListInv, PolledOncePerPass
<1> QED BY <1>2, <1>3

\* A request is handled.
LEMMA ExchangeInv ==
    ASSUME ListInv, Exchange
    PROVE  ListInv'
<1> DEFINE c == [Current EXCEPT !.output = Append(Current.output, Record)]
<1>1. /\ Handling /\ at \in DOMAIN connections /\ Current.slot # NoSlot
      /\ UNCHANGED <<bridgeVars, backlog>> /\ Handled
  BY DEF Exchange, Handling, Handled
<1>2. Current \in Connection /\ Current.stream \in Streams
      /\ Current.output \in Seq(RecordShape) /\ Current.slot \in Slots
  <2>1. Current \in Connection
    BY <1>1, CurrentShape DEF ListInv
  <2> QED BY <1>1, <2>1 DEF Connection
<1>3. Record \in RecordShape
  <2>1. Pipe.up \in Seq(RecordShape) /\ batch \in Int /\ batch > 0 /\ batch <= Len(Pipe.up)
    BY <1>1, CurrentShape DEF ListInv, Shape, Handling
  <2> QED BY <2>1 DEF Record
<1>4. c \in Connection /\ c.stream = Current.stream /\ c.slot = Current.slot
  <2>1. Append(Current.output, Record) \in Seq(RecordShape)
    BY <1>2, <1>3
  <2> QED BY <1>2, <2>1, ConnectionWith
<1>5. connections' = [connections EXCEPT ![at] = c]
  BY <1>1 DEF Exchange, Current, ListInv, Shape
<1> HIDE DEF c
<1>6. /\ connections' \in Seq(Connection) /\ DOMAIN connections' = DOMAIN connections
      /\ connections'[at] = c
      /\ \A i \in DOMAIN connections : i # at => connections'[i] = connections[i]
  BY <1>1, <1>4, <1>5, ReplacedConnection DEF ListInv
<1>7. SameHolders
  BY <1>4, <1>6 DEF SameHolders, Current
<1>8. PICK joins \in BOOLEAN :
        present' = [present EXCEPT ![Current.slot] = @ \/ joins]
  BY DEF Exchange
<1>9. present \in [Slots -> BOOLEAN]
  BY DEF ListInv, Shape
<1>10. present' \in [Slots -> BOOLEAN]
  <2>1. (present[Current.slot] \/ joins) \in BOOLEAN
    OBVIOUS
  <2> QED BY <1>8, <1>9, <2>1
<1>11. Shape'
  <2>1. connections'[at].stream = Current.stream
    BY <1>4, <1>6
  <2> QED BY <1>1, <1>6, <1>10, <2>1, HandledShape DEF ListInv, Shape, bridgeVars
<1>12. StreamsDistinct' /\ SlotHeldOnce'
  BY <1>1, <1>7, KeptList DEF ListInv, bridgeVars
<1>13. PolledOncePerPass' /\ (at' = 0 => polled' = {})
  BY <1>1, <1>7, HandledPolled DEF SameHolders
<1>14. PresentHasConnection'
  <2> SUFFICES ASSUME NEW s \in Slots, present'[s]
               PROVE  \E i \in DOMAIN connections' : connections'[i].slot = s
    BY DEF PresentHasConnection
  <2>1. CASE s = Current.slot
    BY <1>1, <1>7, <2>1 DEF SameHolders, Current
  <2>2. CASE s # Current.slot
    <3>1. present[s]
      BY <1>8, <1>9, <2>2
    <3> QED BY <1>7, <3>1 DEF SameHolders, ListInv, PresentHasConnection
  <2> QED BY <2>1, <2>2
<1> QED BY <1>11, <1>12, <1>13, <1>14 DEF ListInv

\* A hello is accepted: nobody else holds the slot.
LEMMA GreetInv ==
    ASSUME ListInv, Greet
    PROVE  ListInv'
<1> DEFINE slot == Slot[Record.by]
           c == [Current EXCEPT !.slot = slot]
<1>1. /\ Handling /\ at \in DOMAIN connections /\ Current.slot = NoSlot /\ ~Occupied(slot)
      /\ UNCHANGED <<bridgeVars, backlog, present, heard>> /\ Handled
  BY DEF Greet, Handling, Handled, Welcome
<1>2. Current \in Connection /\ Current.stream \in Streams
  BY <1>1, CurrentShape DEF ListInv
<1>3. slot \in Slots
  <2>1. Pipe.up \in Seq(RecordShape) /\ batch \in Int /\ batch > 0 /\ batch <= Len(Pipe.up)
    BY <1>1, CurrentShape DEF ListInv, Shape, Handling
  <2>2. Record \in RecordShape
    BY <2>1 DEF Record
  <2> QED BY <2>2, CompanionAssumption, SlotType DEF RecordShape, Slots
<1> HIDE DEF slot
<1>4. c \in Connection /\ c.stream = Current.stream /\ c.slot = slot
  BY <1>2, <1>3, ConnectionWith
<1>5. connections' = [connections EXCEPT ![at] = c]
  BY <1>1 DEF Greet, Current, ListInv, Shape, slot
<1> HIDE DEF c
<1>6. /\ connections' \in Seq(Connection) /\ DOMAIN connections' = DOMAIN connections
      /\ connections'[at] = c
      /\ \A i \in DOMAIN connections : i # at => connections'[i] = connections[i]
  BY <1>1, <1>4, <1>5, ReplacedConnection DEF ListInv
<1>7. \A i \in DOMAIN connections : connections'[i].stream = connections[i].stream
  BY <1>4, <1>6 DEF Current
<1>8. Shape'
  <2>1. connections'[at].stream = Current.stream
    BY <1>4, <1>6
  <2> QED BY <1>1, <1>6, <2>1, HandledShape DEF ListInv, Shape, bridgeVars
<1>9. StreamsDistinct'
  BY <1>1, <1>6, <1>7 DEF ListInv, StreamsDistinct, bridgeVars
<1>10. SlotHeldOnce'
  <2>1. \A j \in DOMAIN connections : j # at => connections[j].slot # slot
    BY <1>1 DEF Occupied
  <2>2. connections'[at].slot = slot
    BY <1>4, <1>6
  <2> QED BY <1>6, <2>1, <2>2 DEF ListInv, SlotHeldOnce
<1>11. PolledOncePerPass' /\ (at' = 0 => polled' = {})
  BY <1>1, <1>6, <1>7, HandledPolled
<1>12. PresentHasConnection'
  <2> SUFFICES ASSUME NEW s \in Slots, present'[s]
               PROVE  \E i \in DOMAIN connections' : connections'[i].slot = s
    BY DEF PresentHasConnection
  <2>1. PICK i \in DOMAIN connections : connections[i].slot = s
    BY <1>1 DEF ListInv, PresentHasConnection
  <2>2. i # at
    BY <1>1, <2>1, CompanionAssumption DEF Current, Slots
  <2> QED BY <1>6, <2>1, <2>2
<1> QED BY <1>8, <1>9, <1>10, <1>11, <1>12 DEF ListInv

\* A connection is removed and the last one takes its place.
LEMMA DropInv ==
    ASSUME ListInv, at \in DOMAIN connections, Drop
    PROVE  ListInv'
<1> DEFINE n == Len(connections)
<1>1. /\ connections \in Seq(Connection) /\ n \in Nat /\ DOMAIN connections = 1 .. n
      /\ at \in 1 .. n /\ at \in Nat
  BY DEF ListInv, Shape
<1>2. /\ connections' \in Seq(Connection) /\ DOMAIN connections' = 1 .. n - 1
      /\ \A j \in 1 .. n - 1 :
           connections'[j] = IF j = at THEN connections[n] ELSE connections[j]
  BY <1>1, WithoutElements DEF Drop
<1>3. /\ at' = at /\ batch' = -1 /\ polled' = polled \cup {Current.stream}
      /\ UNCHANGED <<bridgeVars, pipes, backlog>>
  BY DEF Drop, AfterRemoval, Writing
<1>4. present' = Absent(Current.slot) /\ present \in [Slots -> BOOLEAN]
  BY DEF Drop, ListInv, Shape
<1>5. present' \in [Slots -> BOOLEAN] /\ \A s \in Slots : present'[s] => present[s] /\ s # Current.slot
  <2>1. CASE Current.slot = NoSlot
    BY <1>4, <2>1, CompanionAssumption DEF Absent, Slots
  <2>2. CASE Current.slot # NoSlot
    BY <1>4, <2>2 DEF Absent
  <2> QED BY <2>1, <2>2
<1>6. Shape'
  BY <1>2, <1>3, <1>5 DEF ListInv, Shape, bridgeVars
\* Where the elements of the new list were before.
<1> DEFINE from(j) == IF j = at THEN n ELSE j
<1>7. \A j \in 1 .. n - 1 :
        from(j) \in 1 .. n /\ from(j) # at /\ connections'[j] = connections[from(j)]
  BY <1>1, <1>2
<1>8. \A i, j \in 1 .. n - 1 : from(i) = from(j) => i = j
  BY <1>1
<1>9. StreamsDistinct'
  <2>1. ASSUME NEW i \in DOMAIN connections', NEW j \in DOMAIN connections',
               connections'[i].stream = connections'[j].stream
        PROVE  i = j
    BY <1>1, <1>2, <1>7, <1>8, <2>1 DEF ListInv, StreamsDistinct
  <2>2. \A i \in DOMAIN connections', j \in DOMAIN backlog : connections'[i].stream # backlog[j]
    BY <1>1, <1>2, <1>7 DEF ListInv, StreamsDistinct
  <2>3. \A i \in DOMAIN connections' : connections'[i].stream <= opened
    BY <1>1, <1>2, <1>7 DEF ListInv, StreamsDistinct
  <2> QED BY <1>3, <2>1, <2>2, <2>3 DEF ListInv, StreamsDistinct, bridgeVars
<1>10. SlotHeldOnce'
  <2> SUFFICES ASSUME NEW i \in DOMAIN connections', NEW j \in DOMAIN connections',
                      connections'[i].slot = connections'[j].slot, connections'[i].slot # NoSlot
               PROVE  i = j
    BY DEF SlotHeldOnce
  <2>1. from(i) = from(j)
    BY <1>1, <1>2, <1>7 DEF ListInv, SlotHeldOnce
  <2> QED BY <1>2, <1>8, <2>1
<1>11. PolledOncePerPass'
  <2> SUFFICES ASSUME NEW j \in DOMAIN connections'
               PROVE  connections'[j].stream \in polled' <=> j < at
    BY <1>3 DEF PolledOncePerPass
  <2>1. connections[from(j)].stream # Current.stream
    BY <1>1, <1>2, <1>7 DEF ListInv, StreamsDistinct, Current
  <2>2. connections[from(j)].stream \in polled <=> from(j) < at
    BY <1>1, <1>2, <1>7 DEF ListInv, PolledOncePerPass
  <2>3. from(j) < at <=> j < at
    BY <1>1, <1>2
  <2> QED BY <1>2, <1>3, <1>7, <2>1, <2>2, <2>3
<1>12. PresentHasConnection'
  <2> SUFFICES ASSUME NEW s \in Slots, present'[s]
               PROVE  \E i \in DOMAIN connections' : connections'[i].slot = s
    BY DEF PresentHasConnection
  <2>1. present[s] /\ s # Current.slot
    BY <1>5
  <2>2. PICK i \in 1 .. n : connections[i].slot = s
    BY <1>1, <2>1 DEF ListInv, PresentHasConnection
  <2>3. i # at
    BY <2>1, <2>2 DEF Current
  <2>4. CASE i < n
    BY <1>1, <1>2, <2>2, <2>3, <2>4
  <2>5. CASE i = n
    <3>1. at \in 1 .. n - 1
      BY <1>1, <2>3, <2>5
    <3>2. connections'[at] = connections[n]
      BY <1>2, <3>1
    <3>3. connections'[at].slot = s /\ at \in DOMAIN connections'
      BY <1>2, <2>2, <2>5, <3>1, <3>2
    <3> QED BY <3>3
  <2>6. n \in Nat
    BY <1>1
  <2>7. i < n \/ i = n
    BY <2>6
  <2> QED BY <2>4, <2>5, <2>7
<1>13. at' # 0
  BY <1>1, <1>3
<1> QED BY <1>6, <1>9, <1>10, <1>11, <1>12, <1>13 DEF ListInv

\* A pass begins, perhaps with a new connection at the end of the list.
LEMMA AcceptInv ==
    ASSUME ListInv, Accept
    PROVE  ListInv'
<1>1. /\ at = 0 /\ at' = 1 /\ batch' = -1 /\ polled = {} /\ polled' = polled
      /\ UNCHANGED <<bridgeVars, pipes, present>>
  BY DEF Accept, Writing, ListInv
<1>2. connections \in Seq(Connection) /\ backlog \in Seq(Streams)
  BY DEF ListInv, Shape
<1>3. CASE UNCHANGED <<connections, backlog>>
  <2>1. Shape'
    BY <1>1, <1>2, <1>3 DEF ListInv, Shape, bridgeVars
  <2>2. StreamsDistinct' /\ SlotHeldOnce' /\ PresentHasConnection'
    BY <1>1, <1>3 DEF ListInv, StreamsDistinct, SlotHeldOnce, PresentHasConnection, bridgeVars
  <2>3. \A i \in DOMAIN connections : ~(i < 1)
    BY <1>2
  <2>4. PolledOncePerPass' /\ at' # 0
    BY <1>1, <1>3, <2>3 DEF PolledOncePerPass
  <2> QED BY <2>1, <2>2, <2>4 DEF ListInv
<1>4. CASE /\ backlog # <<>> /\ backlog' = Tail(backlog)
           /\ connections' = Append(connections, Newcomer)
  <2> DEFINE n == Len(connections)
  <2>1. n \in Nat /\ DOMAIN connections = 1 .. n
    BY <1>2
  <2>2. Head(backlog) \in Streams /\ Head(backlog) = backlog[1] /\ 1 \in DOMAIN backlog
    BY <1>2, <1>4
  <2>3. /\ Newcomer \in Connection /\ Newcomer.stream = backlog[1]
        /\ Newcomer.slot = NoSlot
    <3>1. <<>> \in Seq(RecordShape) /\ 0 \in Nat
      OBVIOUS
    <3> QED BY <2>2, <3>1 DEF Newcomer, Connection
  <2>4. /\ connections' \in Seq(Connection) /\ DOMAIN connections' = 1 .. n + 1
        /\ \A i \in 1 .. n : connections'[i] = connections[i]
        /\ connections'[n + 1] = Newcomer
    BY <1>2, <1>4, <2>1, <2>3
  <2>5. /\ backlog' \in Seq(Streams)
        /\ \A j \in DOMAIN backlog' :
             /\ backlog'[j] = backlog[j + 1] /\ j + 1 \in DOMAIN backlog /\ j + 1 # 1
             /\ j \in Nat
    BY <1>2, <1>4
  <2>6. Shape'
    BY <1>1, <2>4, <2>5 DEF ListInv, Shape, bridgeVars
  <2>7. StreamsDistinct'
    <3>1. ASSUME NEW i \in DOMAIN connections', NEW j \in DOMAIN connections',
                 connections'[i].stream = connections'[j].stream
          PROVE  i = j
      <4>1. (i \in 1 .. n \/ i = n + 1) /\ (j \in 1 .. n \/ j = n + 1)
        BY <2>1, <2>4
      <4>2. CASE i \in 1 .. n /\ j \in 1 .. n
        BY <2>1, <2>4, <3>1, <4>2 DEF ListInv, StreamsDistinct
      <4>3. CASE i \in 1 .. n /\ j = n + 1
        BY <2>1, <2>2, <2>3, <2>4, <3>1, <4>3 DEF ListInv, StreamsDistinct
      <4>4. CASE i = n + 1 /\ j \in 1 .. n
        BY <2>1, <2>2, <2>3, <2>4, <3>1, <4>4 DEF ListInv, StreamsDistinct
      <4> QED BY <4>1, <4>2, <4>3, <4>4
    <3>2. ASSUME NEW i \in DOMAIN backlog', NEW j \in DOMAIN backlog', backlog'[i] = backlog'[j]
          PROVE  i = j
      <4>1. i + 1 = j + 1
        BY <2>5, <3>2 DEF ListInv, StreamsDistinct
      <4> QED BY <2>5, <4>1
    <3>3. ASSUME NEW i \in DOMAIN connections', NEW j \in DOMAIN backlog'
          PROVE  connections'[i].stream # backlog'[j]
      <4>1. i \in 1 .. n \/ i = n + 1
        BY <2>1, <2>4
      <4>2. CASE i \in 1 .. n
        BY <2>1, <2>4, <2>5, <4>2 DEF ListInv, StreamsDistinct
      <4>3. CASE i = n + 1
        BY <2>2, <2>3, <2>4, <2>5, <4>3 DEF ListInv, StreamsDistinct
      <4> QED BY <4>1, <4>2, <4>3
    <3>4. ASSUME NEW i \in DOMAIN connections'
          PROVE  connections'[i].stream <= opened
      <4>1. i \in 1 .. n \/ i = n + 1
        BY <2>1, <2>4
      <4>2. CASE i \in 1 .. n
        BY <2>1, <2>4, <4>2 DEF ListInv, StreamsDistinct
      <4>3. CASE i = n + 1
        BY <2>2, <2>3, <2>4, <4>3 DEF ListInv, StreamsDistinct
      <4> QED BY <4>1, <4>2, <4>3
    <3>5. \A j \in DOMAIN backlog' : backlog'[j] <= opened
      BY <2>5 DEF ListInv, StreamsDistinct
    <3>6. opened' = opened
      BY <1>1 DEF bridgeVars
    <3> QED BY <3>1, <3>2, <3>3, <3>4, <3>5, <3>6 DEF StreamsDistinct
  <2>8. SlotHeldOnce'
    <3> SUFFICES ASSUME NEW i \in DOMAIN connections', NEW j \in DOMAIN connections',
                        connections'[i].slot = connections'[j].slot, connections'[i].slot # NoSlot
                 PROVE  i = j
      BY DEF SlotHeldOnce
    <3>1. i \in 1 .. n /\ j \in 1 .. n
      BY <2>1, <2>3, <2>4
    <3> QED BY <2>1, <2>4, <3>1 DEF ListInv, SlotHeldOnce
  <2>9. PresentHasConnection'
    BY <1>1, <2>1, <2>4 DEF ListInv, PresentHasConnection
  <2>10. PolledOncePerPass' /\ at' # 0
    <3>1. \A i \in DOMAIN connections' : ~(i < 1)
      BY <2>1, <2>4
    <3> QED BY <1>1, <3>1 DEF PolledOncePerPass
  <2> QED BY <2>6, <2>7, <2>8, <2>9, <2>10 DEF ListInv
<1> QED BY <1>3, <1>4 DEF Accept

\* A pass ends.
LEMMA PassInv ==
    ASSUME ListInv, NEW elapsed \in Nat, EndOfPass(elapsed)
    PROVE  ListInv'
<1> DEFINE aged(i) ==
        IF connections[i].idle + elapsed > IDLE THEN IDLE ELSE connections[i].idle + elapsed
<1>1. /\ at' = 0 /\ polled' = {} /\ batch' = batch /\ at > Len(connections)
      /\ UNCHANGED <<bridgeVars, pipes, backlog>>
      /\ present' \in [Slots -> BOOLEAN] /\ \A s \in Slots : present'[s] => present[s]
      /\ connections' = [i \in DOMAIN connections |-> [connections[i] EXCEPT !.idle = aged(i)]]
  BY DEF EndOfPass
<1>2. connections \in Seq(Connection) /\ at \in Nat /\ batch \in Int /\ IDLE \in Nat
  BY CompanionAssumption DEF ListInv, Shape
<1>3. ASSUME NEW i \in DOMAIN connections
      PROVE  /\ connections'[i] \in Connection
             /\ connections'[i].stream = connections[i].stream
             /\ connections'[i].slot = connections[i].slot
  <2>1. connections[i] \in Connection
    BY <1>2
  <2>2. connections[i].idle \in Nat
    BY <2>1 DEF Connection
  <2>3. aged(i) \in Nat
    BY <1>2, <2>2
  <2>4. connections'[i] = [connections[i] EXCEPT !.idle = aged(i)]
    BY <1>1
  <2> HIDE DEF aged
  <2> QED BY <2>1, <2>3, <2>4, ConnectionWith
<1>4. connections' \in Seq(Connection) /\ DOMAIN connections' = DOMAIN connections
  <2>1. DOMAIN connections' = 1 .. Len(connections) /\ Len(connections) \in Nat
    BY <1>1, <1>2
  <2>2. connections' = [i \in 1 .. Len(connections) |-> connections'[i]]
    BY <1>1, <2>1
  <2> QED BY <1>2, <1>3, <2>1, <2>2
<1>5. SameHolders
  BY <1>3, <1>4 DEF SameHolders
<1>6. ~(batch > 0)
  <2>1. at \notin DOMAIN connections
    BY <1>1, <1>2
  <2> QED BY <2>1 DEF ListInv, Shape
<1>7. Shape'
  BY <1>1, <1>2, <1>4, <1>6 DEF ListInv, Shape, bridgeVars
<1>8. StreamsDistinct' /\ SlotHeldOnce'
  BY <1>1, <1>5, KeptList DEF ListInv, bridgeVars
<1>9. PresentHasConnection'
  BY <1>1, <1>5 DEF ListInv, PresentHasConnection, SameHolders
<1>10. PolledOncePerPass'
  <2>1. \A i \in DOMAIN connections : ~(i < 0)
    BY <1>2
  <2> QED BY <1>1, <1>4, <2>1 DEF PolledOncePerPass
<1> QED BY <1>1, <1>7, <1>8, <1>9, <1>10 DEF ListInv

-----------------------------------------------------------------------------
(* The theorems.                                                            *)

\* A bridge's step changes no connection.
LEMMA BridgeInv ==
    ASSUME ListInv, NEW b \in Bridges,
           Connect(b) \/ SendHello(b) \/ Reuse(b) \/ SendRequest(b) \/ Answered(b) \/ Leave(b)
    PROVE  ListInv'
<1>1. Shape'
  BY BridgeShape DEF ListInv
<1>2. UNCHANGED <<connections, at, present, polled>>
  BY DEF Connect, SendHello, Reuse, SendRequest, Answered, Leave
<1>3. SlotHeldOnce' /\ PresentHasConnection' /\ PolledOncePerPass' /\ (at' = 0 => polled' = {})
  BY <1>2 DEF ListInv, SlotHeldOnce, PresentHasConnection, PolledOncePerPass
<1>4. StreamsDistinct'
  <2>1. CASE Connect(b)
    <3>1. opened' = opened + 1 /\ backlog' = Append(backlog, opened') /\ opened \in Nat
          /\ backlog \in Seq(Streams) /\ connections \in Seq(Connection)
      BY <2>1 DEF Connect, ListInv, Shape
    <3> DEFINE n == Len(backlog)
    <3>2. /\ n \in Nat /\ DOMAIN backlog = 1 .. n /\ DOMAIN backlog' = 1 .. n + 1
          /\ \A j \in 1 .. n : backlog'[j] = backlog[j]
          /\ backlog'[n + 1] = opened + 1
      BY <3>1
    <3>3. \A j \in 1 .. n : backlog[j] \in Int /\ backlog[j] <= opened
      <4>1. \A j \in 1 .. n : backlog[j] \in Streams
        BY <3>1, <3>2
      <4>2. \A j \in 1 .. n : backlog[j] <= opened
        BY <3>2 DEF ListInv, StreamsDistinct
      <4> QED BY <4>1, <4>2 DEF Streams
    <3>4. \A i \in DOMAIN connections :
            connections[i].stream \in Int /\ connections[i].stream <= opened
      <4>1. \A i \in DOMAIN connections : connections[i] \in Connection
        BY <3>1
      <4>2. \A i \in DOMAIN connections : connections[i].stream \in Streams
        BY <4>1 DEF Connection
      <4>3. \A i \in DOMAIN connections : connections[i].stream <= opened
        BY DEF ListInv, StreamsDistinct
      <4> QED BY <4>2, <4>3 DEF Streams
    <3>5. \A i, j \in 1 .. n + 1 : backlog'[i] = backlog'[j] => i = j
      BY <3>1, <3>2, <3>3, SMTT(30) DEF ListInv, StreamsDistinct
    <3>6. \A i \in DOMAIN connections, j \in 1 .. n + 1 : connections[i].stream # backlog'[j]
      BY <3>1, <3>2, <3>4 DEF ListInv, StreamsDistinct
    <3>7. \A j \in 1 .. n + 1 : backlog'[j] <= opened'
      BY <3>1, <3>2, <3>3
    <3>8. \A i \in DOMAIN connections : connections[i].stream <= opened'
      BY <3>1, <3>4
    <3> QED BY <1>2, <3>2, <3>5, <3>6, <3>7, <3>8 DEF ListInv, StreamsDistinct
  <2>2. CASE ~Connect(b)
    <3>1. UNCHANGED <<opened, backlog>>
      BY <2>2 DEF SendHello, Reuse, SendRequest, Answered, Leave
    <3> QED BY <1>2, <3>1 DEF ListInv, StreamsDistinct
  <2> QED BY <2>1, <2>2
<1> QED BY <1>1, <1>3, <1>4 DEF ListInv

\* A step of the loop keeps the invariant.
LEMMA LoopInv ==
    ASSUME ListInv, Loop
    PROVE  ListInv'
<1>1. CASE Expire \/ Fails \/ Reject
  <2>1. Drop /\ at \in DOMAIN connections
    BY <1>1 DEF Expire, Fails, Reject, Polling, Handling
  <2> QED BY <2>1, DropInv
<1>2. CASE TimePasses
  <2>1. PICK elapsed \in 1 .. IDLE : EndOfPass(elapsed)
    BY <1>2 DEF TimePasses
  <2>2. elapsed \in Nat
    BY CompanionAssumption
  <2> QED BY <2>1, <2>2, PassInv
<1>3. CASE EndOfPass(0)
  BY <1>3, PassInv
<1> QED BY <1>1, <1>2, <1>3, AcceptInv, WriteInv, PassedInv, ReadInv, GreetInv, ExchangeInv
        DEF Loop

\* Every step keeps what is said of the list.
LEMMA ListStep ==
    ASSUME ListInv, [Next]_vars
    PROVE  ListInv'
<1>1. CASE UNCHANGED vars
  BY <1>1 DEF vars, ListInv, Shape, StreamsDistinct, SlotHeldOnce, PresentHasConnection,
              PolledOncePerPass, Pipe, Current
<1>2. CASE Loop
  BY <1>2, LoopInv
<1>3. ASSUME NEW b \in Bridges,
             Connect(b) \/ SendHello(b) \/ Reuse(b) \/ SendRequest(b) \/ Answered(b) \/ Leave(b)
      PROVE  ListInv'
  BY <1>3, BridgeInv
<1> QED BY <1>1, <1>2, <1>3 DEF Next

\* The invariant of the Companion's list.
THEOREM ListCorrect ==
    Spec => []ListInv
<1>1. Init => ListInv
  BY InitInv
<1>2. ListInv /\ [Next]_vars => ListInv'
  BY ListStep
<1> QED BY <1>1, <1>2, PTL DEF Spec

\* A slot is spoken for by one connection at most, however the loop reorders the
\* list and bridges give up and come back.
THEOREM SlotCorrect ==
    Spec => []SlotHeldOnce
<1>1. ListInv => SlotHeldOnce
  BY DEF ListInv
<1> QED BY <1>1, ListCorrect, PTL

\* The room counts nobody as connected who has no connection.
THEOREM PresenceCorrect ==
    Spec => []PresentHasConnection
<1>1. ListInv => PresentHasConnection
  BY DEF ListInv
<1> QED BY <1>1, ListCorrect, PTL

\* Every connection is polled once in a pass.
THEOREM PollCorrect ==
    Spec => []PolledOncePerPass
<1>1. ListInv => PolledOncePerPass
  BY DEF ListInv
<1> QED BY <1>1, ListCorrect, PTL
-----------------------------------------------------------------------------
(* What the streams carry.                                                  *)

Up(st) == pipes[st].up
Down(st) == pipes[st].down

Sent(st) == {Up(st)[k] : k \in DOMAIN Up(st)}
Asks(st) == \E r \in Sent(st) : ~IsHello(r)

\* The hello comes first and the request last, so there is one of each at most.
HelloThenRequest ==
    \A st \in Streams : \A k \in DOMAIN Up(st) :
        /\ IsHello(Up(st)[k]) => k = 1
        /\ ~IsHello(Up(st)[k]) => k = Len(Up(st))

\* An answer, a queued answer or a request: one of them at most.
OnePlace ==
    /\ \A st \in Streams : Len(Down(st)) <= 1 /\ (Down(st) # <<>> => ~Asks(st))
    /\ \A st \in Streams, i \in DOMAIN connections : connections[i].stream = st =>
         /\ Len(connections[i].output) <= 1
         /\ connections[i].output # <<>> => Down(st) = <<>> /\ ~Asks(st)

Awaits(b, record) == links[b].doing = "waiting" /\ record = Request(b)

\* What is in the stream of a bridge is what the bridge waits for.
Awaited ==
    \A b \in Bridges, st \in Streams : links[b].stream = st =>
        /\ \A k \in DOMAIN Down(st) : Awaits(b, Down(st)[k])
        /\ \A r \in Sent(st) : ~IsHello(r) => Awaits(b, r)
        /\ \A i \in DOMAIN connections : connections[i].stream = st =>
             \A k \in DOMAIN connections[i].output : Awaits(b, connections[i].output[k])

\* Whose stream it is, as far as it still matters.
Of(st, b) == links[b].stream = st \/ \E r \in Sent(st) : r.by = b

\* A stream is one bridge's, and the one a bridge holds is its newest.
Owned ==
    /\ opened <= MAX_STREAMS
    /\ \A b \in Bridges : links[b].stream <= opened /\ links[b].ask <= MAX_ASKS
    /\ \A b \in Bridges :
         links[b].doing # "idle" => links[b].stream # NoStream /\ links[b].ask # 0
    /\ \A st \in Streams : st > opened => Down(st) = <<>>
    /\ \A st \in Streams, b \in Bridges : Of(st, b) =>
         /\ \A c \in Bridges : Of(st, c) => c = b
         /\ st <= opened
         /\ links[b].stream # NoStream => st <= links[b].stream

\* The requests of a bridge that are on their way in several streams are in the
\* order of the streams, and the bridge's next request is newer than all.
AsksInOrder ==
    /\ \A st \in Streams : \A r \in Sent(st) : \A b \in Bridges : r.by = b /\ ~IsHello(r) =>
            /\ r.ask <= links[b].ask
            /\ links[b].doing \in {"connected", "greeted"} => r.ask < links[b].ask
            /\ links[b].doing = "waiting" /\ links[b].stream # st => r.ask < links[b].ask
    /\ \A st, later \in Streams : st < later =>
         \A r \in Sent(st), q \in Sent(later) :
            r.by = q.by /\ ~IsHello(r) /\ ~IsHello(q) => r.ask < q.ask
    /\ heard \in [Bridges -> Nat]
    /\ \A b \in Bridges :
         /\ heard[b] <= links[b].ask
         /\ links[b].doing \in {"connected", "greeted"} => heard[b] < links[b].ask

\* A connection has a slot once its hello is handled: its bridge's.
Greeted ==
    \A st \in Streams, i \in DOMAIN connections :
        connections[i].stream = st /\ connections[i].slot # NoSlot =>
            /\ \A r \in Sent(st) : ~IsHello(r)
            /\ \A b \in Bridges : Of(st, b) => connections[i].slot = Slot[b]

\* Before, nothing is queued for it and what comes first is the hello.
HelloFirst ==
    /\ \A st \in Streams, i \in DOMAIN connections :
         connections[i].stream = st /\ connections[i].slot = NoSlot =>
            connections[i].output = <<>> /\ (Up(st) # <<>> => IsHello(Up(st)[1]))
    /\ \A st \in Streams, j \in DOMAIN backlog :
         backlog[j] = st /\ Up(st) # <<>> => IsHello(Up(st)[1])

\* A bridge that has not said hello has put nothing into its stream.
NothingSaid ==
    \A b \in Bridges, st \in Streams : links[b].stream = st /\ links[b].doing = "connected" =>
        /\ Up(st) = <<>>
        /\ \A i \in DOMAIN connections :
             connections[i].stream = st => connections[i].slot = NoSlot

\* The hello of one that has is still in its stream until it is handled.
HelloSaid ==
    \A b \in Bridges, st \in Streams : links[b].stream = st /\ links[b].doing # "connected" =>
        /\ \A i \in DOMAIN connections :
             connections[i].stream = st /\ connections[i].slot = NoSlot => Up(st) # <<>>
        /\ \A j \in DOMAIN backlog : backlog[j] = st => Up(st) # <<>>

\* The listener's queue.
Queue ==
    /\ \A i, j \in DOMAIN backlog : i < j => backlog[i] < backlog[j]
    /\ \A i \in DOMAIN connections, j \in DOMAIN backlog : connections[i].stream < backlog[j]

\* An old connection whose hello is still to be handled, beside a newer one of the
\* same bridge: the pass that accepted the newer one has not come to it yet.
OldFirst ==
    \A st, later \in Streams, b \in Bridges, i, j \in DOMAIN connections :
        /\ connections[i].stream = st /\ connections[j].stream = later /\ st < later
        /\ Of(st, b) /\ Of(later, b)
        /\ connections[i].slot = NoSlot /\ Up(st) # <<>>
        => 1 <= at /\ at <= i

Live(st) == (\E i \in DOMAIN connections : connections[i].stream = st)
            \/ \E j \in DOMAIN backlog : backlog[j] = st

\* Its hello will be refused in this pass: its slot was taken in this pass.
Doomed(st, b) ==
    \E i, j \in DOMAIN connections :
        /\ connections[i].stream = st /\ connections[i].slot = NoSlot
        /\ connections[j].slot = Slot[b] /\ i # j
        /\ j <= at /\ at <= i /\ (j = at => batch > 0)

\* A request that may still be handled is newer than what was heard of its bridge.
News ==
    \A st \in Streams : Live(st) =>
        \A r \in Sent(st), b \in Bridges :
            r.by = b /\ ~IsHello(r) => heard[b] < r.ask \/ Doomed(st, b)

PipeInv == HelloThenRequest /\ OnePlace /\ Awaited /\ Owned /\ AsksInOrder
           /\ Greeted /\ HelloFirst /\ NothingSaid /\ HelloSaid /\ Queue /\ OldFirst /\ News

\* A sequence without a first element is empty.
LEMMA NoElement ==
    ASSUME NEW S, NEW list \in Seq(S), \A k \in DOMAIN list : FALSE
    PROVE  list = <<>>
<1>1. list # <<>> => 1 \in DOMAIN list
  OBVIOUS
<1> QED BY <1>1

\* What Shape says of each part.
LEMMA Typed ==
    ASSUME Shape
    PROVE  /\ \A st \in Streams : Up(st) \in Seq(RecordShape) /\ Down(st) \in Seq(RecordShape)
           /\ \A st \in Streams : Up(st) = <<>> <=> Sent(st) = {}
           /\ \A st \in Streams : \A r \in Sent(st) : r.by \in Bridges /\ r.ask \in Nat
           /\ \A b \in Bridges : links[b].stream \in Nat /\ links[b].ask \in Nat
           /\ \A i \in DOMAIN connections :
                /\ connections[i].stream \in Streams
                /\ connections[i].slot \in Slots \cup {NoSlot}
                /\ connections[i].output \in Seq(RecordShape)
           /\ \A j \in DOMAIN backlog : backlog[j] \in Streams
<1>1. \A st \in Streams : Up(st) \in Seq(RecordShape) /\ Down(st) \in Seq(RecordShape)
  BY DEF Shape, Up, Down
<1>2. ASSUME NEW st \in Streams
      PROVE  Up(st) = <<>> <=> Sent(st) = {}
  <2>1. Up(st) \in Seq(RecordShape)
    BY <1>1
  <2>2. CASE Up(st) = <<>>
    <3>1. \A k \in DOMAIN Up(st) : FALSE
      BY <2>2
    <3> QED BY <2>2, <3>1 DEF Sent
  <2>3. CASE Up(st) # <<>>
    <3>1. 1 \in DOMAIN Up(st)
      BY <2>1, <2>3
    <3>2. Up(st)[1] \in Sent(st)
      BY <3>1 DEF Sent
    <3> QED BY <2>3, <3>2
  <2> QED BY <2>2, <2>3
<1>3. ASSUME NEW st \in Streams, NEW r \in Sent(st)
      PROVE  r.by \in Bridges /\ r.ask \in Nat
  <2>1. r \in RecordShape
    BY <1>1 DEF Sent
  <2> QED BY <2>1 DEF RecordShape
<1>4. \A b \in Bridges : links[b].stream \in Nat /\ links[b].ask \in Nat
  BY DEF Shape
<1>5. ASSUME NEW i \in DOMAIN connections
      PROVE  /\ connections[i].stream \in Streams
             /\ connections[i].slot \in Slots \cup {NoSlot}
             /\ connections[i].output \in Seq(RecordShape)
  <2>1. connections[i] \in Connection
    BY DEF Shape
  <2> QED BY <2>1 DEF Connection
<1>6. \A j \in DOMAIN backlog : backlog[j] \in Streams
  BY DEF Shape
<1> QED BY <1>1, <1>2, <1>3, <1>4, <1>5, <1>6

\* A step that changes nothing of the bridges, of what they sent and of who holds
\* which connection keeps what is said of these.
LEMMA SameUps ==
    ASSUME PipeInv, SameHolders, UNCHANGED <<links, opened, backlog, heard>>,
           \A st \in Streams : Up(st)' = Up(st)
    PROVE  /\ HelloThenRequest' /\ AsksInOrder' /\ Greeted' /\ NothingSaid' /\ HelloSaid' /\ Queue'
           /\ \A st \in Streams : Sent(st)' = Sent(st) /\ (Asks(st)' <=> Asks(st))
           /\ \A st \in Streams, b \in Bridges : (Of(st, b)' <=> Of(st, b))
           /\ \A st \in Streams : (Live(st)' <=> Live(st))
<1>1. /\ links' = links /\ opened' = opened /\ backlog' = backlog /\ heard' = heard
  OBVIOUS
<1>2. \A st \in Streams : Sent(st)' = Sent(st)
  BY DEF Sent
<1>3. \A st \in Streams : (Asks(st)' <=> Asks(st))
  BY <1>2 DEF Asks
<1>4. \A st \in Streams, b \in Bridges : (Of(st, b)' <=> Of(st, b))
  BY <1>1, <1>2 DEF Of
<1>5. HelloThenRequest'
  BY DEF PipeInv, HelloThenRequest
<1>6. AsksInOrder'
  BY <1>1, <1>2 DEF PipeInv, AsksInOrder
<1>7. Greeted'
  BY <1>2, <1>4 DEF PipeInv, Greeted, SameHolders
<1>8. NothingSaid'
  BY <1>1 DEF PipeInv, NothingSaid, SameHolders
<1>9. HelloSaid'
  BY <1>1 DEF PipeInv, HelloSaid, SameHolders
<1>10. Queue'
  BY <1>1 DEF PipeInv, Queue, SameHolders
<1>11. \A st \in Streams : (Live(st)' <=> Live(st))
  BY <1>1 DEF Live, SameHolders
<1> QED BY <1>2, <1>3, <1>4, <1>5, <1>6, <1>7, <1>8, <1>9, <1>10, <1>11

\* A step that changes only how far the loop is.
SameContents ==
    /\ UNCHANGED <<links, opened, pipes, backlog, heard>>
    /\ SameHolders
    /\ \A i \in DOMAIN connections : connections'[i].output = connections[i].output

\* Such a step keeps all that is not about the loop.
LEMMA SameContentsPipe ==
    ASSUME PipeInv, SameContents
    PROVE  /\ HelloThenRequest' /\ OnePlace' /\ Awaited' /\ Owned' /\ AsksInOrder'
           /\ Greeted' /\ HelloFirst' /\ NothingSaid' /\ HelloSaid' /\ Queue'
           /\ \A st \in Streams : Up(st)' = Up(st) /\ Sent(st)' = Sent(st)
           /\ \A st \in Streams, b \in Bridges : (Of(st, b)' <=> Of(st, b))
           /\ \A st \in Streams : (Live(st)' <=> Live(st))
<1>1. /\ links' = links /\ opened' = opened /\ pipes' = pipes /\ backlog' = backlog
      /\ heard' = heard /\ SameHolders
  BY DEF SameContents
<1>2. \A st \in Streams : Up(st)' = Up(st) /\ Down(st)' = Down(st)
  BY <1>1 DEF Up, Down
<1>3. /\ HelloThenRequest' /\ AsksInOrder' /\ Greeted' /\ NothingSaid' /\ HelloSaid' /\ Queue'
      /\ \A st \in Streams : Sent(st)' = Sent(st) /\ (Asks(st)' <=> Asks(st))
      /\ \A st \in Streams, b \in Bridges : (Of(st, b)' <=> Of(st, b))
      /\ \A st \in Streams : (Live(st)' <=> Live(st))
  BY <1>1, <1>2, SameUps
<1>4. OnePlace'
  BY <1>2, <1>3 DEF PipeInv, OnePlace, SameContents, SameHolders
<1>5. Awaited'
  BY <1>1, <1>2, <1>3 DEF PipeInv, Awaited, SameContents, SameHolders, Awaits, Request
<1>6. Owned'
  BY <1>1, <1>2, <1>3 DEF PipeInv, Owned
<1>7. HelloFirst'
  BY <1>1, <1>2 DEF PipeInv, HelloFirst, SameContents, SameHolders
<1> QED BY <1>2, <1>3, <1>4, <1>5, <1>6, <1>7

\* The loop passes a connection that had nothing to say: an old hello or a doomed
\* request is never passed.
LEMMA PassedPipe ==
    ASSUME ListInv, PipeInv, WriteBlocks \/ NothingToRead
    PROVE  PipeInv'
<1>1. /\ at \in DOMAIN connections /\ at' = at + 1 /\ batch' = -1 /\ batch <= 0
      /\ UNCHANGED <<bridgeVars, pipes, backlog, connections, present, heard>>
  BY DEF WriteBlocks, NothingToRead, Polling, Proceed, Writing, Reading
<1>2. SameContents /\ connections' = connections
  BY <1>1 DEF SameContents, SameHolders, bridgeVars
<1>3. at \in Nat /\ connections \in Seq(Connection)
  BY DEF ListInv, Shape
<1>4. \A st \in Streams : connections[at].stream = st =>
        connections[at].slot # NoSlot \/ Up(st) = <<>>
  <2>1. CASE WriteBlocks
    BY <1>1, <2>1 DEF WriteBlocks, Current, PipeInv, HelloFirst
  <2>2. CASE NothingToRead
    BY <2>2 DEF NothingToRead, Pipe, Current, Up
  <2> QED BY <2>1, <2>2
<1>5. OldFirst'
  <2> SUFFICES ASSUME NEW st \in Streams, NEW later \in Streams, NEW b \in Bridges,
                      NEW i \in DOMAIN connections, NEW j \in DOMAIN connections,
                      connections[i].stream = st, connections[j].stream = later, st < later,
                      Of(st, b), Of(later, b), connections[i].slot = NoSlot, Up(st) # <<>>
               PROVE  1 <= at' /\ at' <= i
    BY <1>2, SameContentsPipe DEF OldFirst
  <2>1. 1 <= at /\ at <= i
    BY DEF PipeInv, OldFirst
  <2>2. i # at
    BY <1>4
  <2> QED BY <1>1, <1>3, <2>1, <2>2
<1>6. \A st \in Streams, b \in Bridges : Doomed(st, b) /\ Up(st) # <<>> => Doomed(st, b)'
  <2> SUFFICES ASSUME NEW st \in Streams, NEW b \in Bridges, Doomed(st, b), Up(st) # <<>>
               PROVE  Doomed(st, b)'
    OBVIOUS
  <2>1. PICK i \in DOMAIN connections, j \in DOMAIN connections :
          /\ connections[i].stream = st /\ connections[i].slot = NoSlot
          /\ connections[j].slot = Slot[b] /\ i # j
          /\ j <= at /\ at <= i /\ (j = at => batch > 0)
    BY DEF Doomed
  <2>2. i # at
    BY <1>4, <2>1
  <2>3. j <= at' /\ at' <= i /\ j # at'
    BY <1>1, <1>3, <2>1, <2>2
  <2> QED BY <1>2, <2>1, <2>3 DEF Doomed
<1>7. News'
  <2> SUFFICES ASSUME NEW st \in Streams, Live(st), NEW r \in Sent(st), NEW b \in Bridges,
                      r.by = b, ~IsHello(r)
               PROVE  heard[b] < r.ask \/ Doomed(st, b)'
    BY <1>2, SameContentsPipe DEF News, SameContents
  <2>1. Up(st) # <<>>
    BY Typed DEF ListInv
  <2>2. heard[b] < r.ask \/ Doomed(st, b)
    BY DEF PipeInv, News
  <2> QED BY <1>6, <2>1, <2>2
<1> QED BY <1>2, <1>5, <1>7, SameContentsPipe DEF PipeInv

\* Records are read.
LEMMA ReadPipe ==
    ASSUME ListInv, PipeInv, Read
    PROVE  PipeInv'
<1> DEFINE c == [Current EXCEPT !.idle = 0]
<1>1. /\ at \in DOMAIN connections /\ batch' \in 1 .. Len(Pipe.up) /\ at' = at /\ batch = 0
      /\ UNCHANGED <<bridgeVars, pipes, backlog, at, present, polled, heard>>
  BY DEF Read, Polling, Reading
<1>2. Current \in Connection
  BY <1>1, CurrentShape DEF ListInv
<1>3. c.stream = Current.stream /\ c.slot = Current.slot /\ c.output = Current.output
      /\ c \in Connection
  BY <1>2, ConnectionWith DEF Connection
<1>4. connections' = [connections EXCEPT ![at] = c]
  BY <1>1 DEF Read, Current, ListInv, Shape
<1> HIDE DEF c
<1>5. /\ DOMAIN connections' = DOMAIN connections /\ connections'[at] = c
      /\ \A i \in DOMAIN connections : i # at => connections'[i] = connections[i]
  BY <1>1, <1>3, <1>4, ReplacedConnection DEF ListInv
<1>6. SameContents
  BY <1>1, <1>3, <1>5 DEF SameContents, SameHolders, bridgeVars, Current
<1>7. OldFirst'
  BY <1>1, <1>6, SameContentsPipe DEF PipeInv, OldFirst, SameContents, SameHolders
<1>8. \A st, b : Doomed(st, b) => Doomed(st, b)'
  BY <1>1, <1>6 DEF Doomed, SameContents, SameHolders
<1>9. News'
  BY <1>6, <1>8, SameContentsPipe DEF PipeInv, News, SameContents
<1> QED BY <1>6, <1>7, <1>9, SameContentsPipe DEF PipeInv

\* A pass ends: it has come to every old hello.
LEMMA EndPipe ==
    ASSUME ListInv, PipeInv, NEW elapsed \in Nat, EndOfPass(elapsed)
    PROVE  PipeInv'
<1> DEFINE aged(i) ==
        IF connections[i].idle + elapsed > IDLE THEN IDLE ELSE connections[i].idle + elapsed
<1>1. /\ at' = 0 /\ at > Len(connections)
      /\ UNCHANGED <<bridgeVars, pipes, backlog, heard>>
      /\ connections' = [i \in DOMAIN connections |-> [connections[i] EXCEPT !.idle = aged(i)]]
  BY DEF EndOfPass
<1>2. connections \in Seq(Connection) /\ at \in Nat
  BY DEF ListInv, Shape
<1> HIDE DEF aged
<1>3. ASSUME NEW i \in DOMAIN connections
      PROVE  /\ connections'[i].stream = connections[i].stream
             /\ connections'[i].slot = connections[i].slot
             /\ connections'[i].output = connections[i].output
  <2>1. connections[i] \in Connection
    BY <1>2
  <2>2. connections'[i] = [connections[i] EXCEPT !.idle = aged(i)]
    BY <1>1
  <2> QED BY <2>1, <2>2 DEF Connection
<1>4. SameContents
  BY <1>1, <1>3 DEF SameContents, SameHolders, bridgeVars
<1>5. \A i \in DOMAIN connections : ~(at <= i)
  BY <1>1, <1>2
<1>6. OldFirst'
  <2> SUFFICES ASSUME NEW st \in Streams, NEW later \in Streams, NEW b \in Bridges,
                      NEW i \in DOMAIN connections, NEW j \in DOMAIN connections,
                      connections[i].stream = st, connections[j].stream = later, st < later,
                      Of(st, b), Of(later, b), connections[i].slot = NoSlot, Up(st) # <<>>
               PROVE  FALSE
    BY <1>4, SameContentsPipe DEF OldFirst, SameContents, SameHolders
  <2>1. at <= i
    BY DEF PipeInv, OldFirst
  <2> QED BY <1>5, <2>1
<1>7. \A st, b : ~Doomed(st, b)
  BY <1>5 DEF Doomed
<1>8. News'
  BY <1>4, <1>7, SameContentsPipe DEF PipeInv, News, SameContents
<1> QED BY <1>4, <1>6, <1>8, SameContentsPipe DEF PipeInv

\* The output is written: the reply goes on in the same stream.
LEMMA WritePipe ==
    ASSUME ListInv, PipeInv, Write
    PROVE  PipeInv'
<1> DEFINE c == [Current EXCEPT !.output = <<>>]
<1>1. /\ at \in DOMAIN connections /\ batch' = 0 /\ batch = -1 /\ at' = at
      /\ links' = links /\ opened' = opened /\ backlog' = backlog /\ heard' = heard
  BY DEF Write, Polling, Reading, Writing, bridgeVars
<1>2. Current \in Connection /\ Current = connections[at]
  BY <1>1, CurrentShape DEF ListInv, Current
<1>t. PICK t \in Streams : t = connections[at].stream
  BY <1>1, Typed DEF ListInv
<1>o. PICK out \in Seq(RecordShape) : out = connections[at].output
  BY <1>1, Typed DEF ListInv
<1>3. c.stream = Current.stream /\ c.slot = Current.slot /\ c.output = <<>> /\ c \in Connection
  <2>1. <<>> \in Seq(RecordShape)
    OBVIOUS
  <2> QED BY <1>2, <2>1, ConnectionWith DEF Connection
<1>4. connections' = [connections EXCEPT ![at] = c]
  BY <1>1 DEF Write, Current, ListInv, Shape
<1> HIDE DEF c
<1>5. /\ DOMAIN connections' = DOMAIN connections /\ connections'[at] = c
      /\ \A i \in DOMAIN connections : i # at => connections'[i] = connections[i]
  BY <1>1, <1>3, <1>4, ReplacedConnection DEF ListInv
<1>6. SameHolders /\ connections'[at].output = <<>>
  BY <1>3, <1>5 DEF Current, SameHolders
<1>7. \A i \in DOMAIN connections : i # at => connections[i].stream # t
  BY <1>1, <1>t DEF ListInv, StreamsDistinct
<1>8. /\ \A st \in Streams : Up(st)' = Up(st)
      /\ \A st \in Streams : st # t => Down(st)' = Down(st)
      /\ Down(t)' = Down(t) \o out
  <2>1. pipes \in [Streams -> [up : Seq(RecordShape), down : Seq(RecordShape), open : BOOLEAN]]
    BY DEF ListInv, Shape
  <2>2. pipes' = [pipes EXCEPT ![t].down = @ \o out]
    BY <1>t, <1>o DEF Write, Current
  <2>3. pipes'[t] = [pipes[t] EXCEPT !.down = pipes[t].down \o out]
    BY <2>1, <2>2
  <2>4. pipes[t] \in [up : Seq(RecordShape), down : Seq(RecordShape), open : BOOLEAN]
    BY <2>1
  <2>5. pipes'[t].up = pipes[t].up /\ pipes'[t].down = pipes[t].down \o out
    BY <2>3, <2>4
  <2>6. \A st \in Streams : st # t => pipes'[st] = pipes[st]
    BY <2>1, <2>2
  <2> QED BY <2>5, <2>6 DEF Up, Down
<1>9. Down(t)' = Down(t) \/ (Down(t)' = out /\ Down(t) = <<>> /\ ~Asks(t))
  <2>1. Down(t) \in Seq(RecordShape)
    BY Typed DEF ListInv
  <2>2. CASE out = <<>>
    BY <1>8, <2>1, <2>2
  <2>3. CASE out # <<>>
    <3>1. Down(t) = <<>> /\ ~Asks(t)
      BY <1>1, <1>t, <1>o, <2>3 DEF PipeInv, OnePlace
    <3> QED BY <1>8, <2>1, <3>1
  <2> QED BY <2>2, <2>3
<1>10. /\ HelloThenRequest' /\ AsksInOrder' /\ Greeted' /\ NothingSaid' /\ HelloSaid' /\ Queue'
       /\ \A st \in Streams : Sent(st)' = Sent(st) /\ (Asks(st)' <=> Asks(st))
       /\ \A st \in Streams, b \in Bridges : (Of(st, b)' <=> Of(st, b))
       /\ \A st \in Streams : (Live(st)' <=> Live(st))
  BY <1>1, <1>6, <1>8, SameUps
<1>11. \A i \in DOMAIN connections :
         connections'[i].stream = connections[i].stream
         /\ connections'[i].slot = connections[i].slot
         /\ (i # at => connections'[i].output = connections[i].output)
  BY <1>5, <1>6 DEF SameHolders
<1>12. Len(<<>>) = 0 /\ Len(out) <= 1
  BY <1>1, <1>t, <1>o DEF PipeInv, OnePlace
<1>13. OnePlace'
  <2>1. ASSUME NEW st \in Streams
        PROVE  Len(Down(st)') <= 1 /\ (Down(st)' # <<>> => ~Asks(st))
    <3>1. CASE st # t
      BY <1>8, <3>1 DEF PipeInv, OnePlace
    <3>2. CASE st = t
      BY <1>9, <1>12, <3>2 DEF PipeInv, OnePlace
    <3> QED BY <3>1, <3>2
  <2>2. ASSUME NEW st \in Streams, NEW i \in DOMAIN connections, connections[i].stream = st
        PROVE  /\ Len(connections'[i].output) <= 1
               /\ connections'[i].output # <<>> => Down(st)' = <<>> /\ ~Asks(st)
    <3>1. CASE i = at
      BY <1>6, <1>12, <3>1
    <3>2. CASE i # at
      <4>1. st # t
        BY <1>7, <2>2, <3>2
      <4> QED BY <1>8, <1>11, <2>2, <3>2, <4>1 DEF PipeInv, OnePlace
    <3> QED BY <3>1, <3>2
  <2> QED BY <1>5, <1>10, <1>11, <2>1, <2>2 DEF OnePlace
<1>14. Awaited'
  <2> SUFFICES ASSUME NEW b \in Bridges, NEW st \in Streams, links[b].stream = st
               PROVE  /\ \A k \in DOMAIN Down(st)' : Awaits(b, Down(st)'[k])
                      /\ \A r \in Sent(st) : ~IsHello(r) => Awaits(b, r)
                      /\ \A i \in DOMAIN connections : connections[i].stream = st =>
                           \A k \in DOMAIN connections'[i].output :
                               Awaits(b, connections'[i].output[k])
    BY <1>1, <1>5, <1>10, <1>11 DEF Awaited, Awaits, Request
  <2>1. \A k \in DOMAIN Down(st) : Awaits(b, Down(st)[k])
    BY DEF PipeInv, Awaited
  <2>2. \A i \in DOMAIN connections : connections[i].stream = st =>
          \A k \in DOMAIN connections[i].output : Awaits(b, connections[i].output[k])
    BY DEF PipeInv, Awaited
  <2>3. \A k \in DOMAIN Down(st)' : Awaits(b, Down(st)'[k])
    <3>1. CASE Down(st)' = Down(st)
      BY <2>1, <3>1
    <3>2. CASE Down(st)' # Down(st)
      BY <1>1, <1>t, <1>o, <1>8, <1>9, <2>2, <3>2
    <3> QED BY <3>1, <3>2
  <2>4. \A r \in Sent(st) : ~IsHello(r) => Awaits(b, r)
    BY DEF PipeInv, Awaited
  <2>5. \A k \in DOMAIN <<>> : FALSE
    OBVIOUS
  <2> QED BY <1>6, <1>11, <2>2, <2>3, <2>4, <2>5
<1>15. Owned'
  <2>1. \A st \in Streams : st > opened => st # t
    BY <1>1, <1>t DEF ListInv, StreamsDistinct, Streams, Shape
  <2> QED BY <1>1, <1>8, <1>10, <2>1 DEF PipeInv, Owned
<1>16. HelloFirst'
  BY <1>1, <1>5, <1>6, <1>8, <1>11 DEF PipeInv, HelloFirst
<1>17. OldFirst'
  BY <1>1, <1>5, <1>8, <1>10, <1>11 DEF PipeInv, OldFirst
<1>18. \A st \in Streams, b \in Bridges : Doomed(st, b) => Doomed(st, b)'
  BY <1>1, <1>5, <1>11 DEF Doomed
<1>19. News'
  BY <1>1, <1>10, <1>18 DEF PipeInv, News
<1> QED BY <1>10, <1>13, <1>14, <1>15, <1>16, <1>17, <1>19 DEF PipeInv

\* A connection is removed: what it carried is lost, and the last one of the list,
\* which takes its place, is still ahead of the loop.
LEMMA DropPipe ==
    ASSUME ListInv, PipeInv, at \in DOMAIN connections, Drop,
           batch <= 0 \/ connections[at].slot = NoSlot
    PROVE  PipeInv'
<1> DEFINE n == Len(connections)
           from(j) == IF j = at THEN n ELSE j
<1>1. /\ connections \in Seq(Connection) /\ n \in Nat /\ DOMAIN connections = 1 .. n
      /\ at \in 1 .. n /\ at \in Nat /\ batch \in Int
  BY DEF ListInv, Shape
<1>2. /\ DOMAIN connections' = 1 .. n - 1
      /\ \A j \in 1 .. n - 1 :
           connections'[j] = IF j = at THEN connections[n] ELSE connections[j]
  BY <1>1, WithoutElements DEF Drop
<1>3. /\ at' = at /\ batch' = -1 /\ links' = links /\ opened' = opened /\ pipes' = pipes
      /\ backlog' = backlog /\ heard' = heard
  BY DEF Drop, AfterRemoval, Writing, bridgeVars
<1>4. \A j \in 1 .. n - 1 :
        /\ from(j) \in DOMAIN connections /\ from(j) # at /\ (at <= from(j) <=> at <= j)
        /\ connections'[j] = connections[from(j)]
  BY <1>1, <1>2
\* Where an element of the list that stays is in the new one.
<1>5. \A i \in DOMAIN connections : i # at =>
        \E j \in 1 .. n - 1 : from(j) = i /\ (i < at => j = i)
  <2> SUFFICES ASSUME NEW i \in DOMAIN connections, i # at
               PROVE  \E j \in 1 .. n - 1 : from(j) = i /\ (i < at => j = i)
    OBVIOUS
  <2>1. CASE i = n
    <3>1. at \in 1 .. n - 1 /\ at < i
      BY <1>1, <2>1
    <3> QED BY <2>1, <3>1
  <2>2. CASE i # n
    BY <1>1, <2>2
  <2> QED BY <2>1, <2>2
<1> HIDE DEF n, from
<1>6. \A st \in Streams : Up(st)' = Up(st) /\ Down(st)' = Down(st) /\ Sent(st)' = Sent(st)
                          /\ (Asks(st)' <=> Asks(st))
  BY <1>3 DEF Up, Down, Sent, Asks
<1>7. \A st \in Streams, b \in Bridges : (Of(st, b)' <=> Of(st, b))
  BY <1>3, <1>6 DEF Of
<1>8. HelloThenRequest'
  BY <1>6 DEF PipeInv, HelloThenRequest
<1>9. OnePlace'
  BY <1>2, <1>4, <1>6 DEF PipeInv, OnePlace
<1>10. Awaited'
  BY <1>2, <1>3, <1>4, <1>6 DEF PipeInv, Awaited, Awaits, Request
<1>11. Owned'
  BY <1>3, <1>6, <1>7 DEF PipeInv, Owned
<1>12. AsksInOrder'
  BY <1>3, <1>6 DEF PipeInv, AsksInOrder
<1>13. Greeted'
  BY <1>2, <1>4, <1>6, <1>7 DEF PipeInv, Greeted
<1>14. HelloFirst'
  BY <1>2, <1>3, <1>4, <1>6 DEF PipeInv, HelloFirst
<1>15. NothingSaid'
  BY <1>2, <1>3, <1>4, <1>6 DEF PipeInv, NothingSaid
<1>16. HelloSaid'
  BY <1>2, <1>3, <1>4, <1>6 DEF PipeInv, HelloSaid
<1>17. Queue'
  BY <1>2, <1>3, <1>4 DEF PipeInv, Queue
<1>18. OldFirst'
  <2> SUFFICES ASSUME NEW st \in Streams, NEW later \in Streams, NEW b \in Bridges,
                      NEW i \in 1 .. n - 1, NEW j \in 1 .. n - 1,
                      connections'[i].stream = st, connections'[j].stream = later, st < later,
                      Of(st, b), Of(later, b), connections'[i].slot = NoSlot, Up(st) # <<>>
               PROVE  1 <= at /\ at <= i
    BY <1>2, <1>3, <1>6, <1>7 DEF OldFirst
  <2>1. 1 <= at /\ at <= from(i)
    BY <1>4 DEF PipeInv, OldFirst
  <2> QED BY <1>4, <2>1
<1>19. \A st \in Streams : Live(st)' => Live(st)
  BY <1>2, <1>3, <1>4 DEF Live
<1>20. ASSUME NEW st \in Streams, NEW b \in Bridges, Doomed(st, b), Live(st)'
       PROVE  Doomed(st, b)'
  <2>1. PICK i \in DOMAIN connections, j \in DOMAIN connections :
          /\ connections[i].stream = st /\ connections[i].slot = NoSlot
          /\ connections[j].slot = Slot[b] /\ i # j
          /\ j <= at /\ at <= i /\ (j = at => batch > 0)
    BY <1>20 DEF Doomed
  <2>2. i # at
    <3> SUFFICES ASSUME i = at PROVE FALSE
      OBVIOUS
    <3>1. \A m \in 1 .. n - 1 : connections'[m].stream # st
      BY <1>1, <1>4, <2>1 DEF ListInv, StreamsDistinct
    <3>2. \A m \in DOMAIN backlog : backlog[m] # st
      BY <2>1 DEF ListInv, StreamsDistinct
    <3> QED BY <1>2, <1>3, <1>20, <3>1, <3>2 DEF Live
  <2>3. Slot[b] # NoSlot
    BY CompanionAssumption, SlotType
  <2>4. j # at /\ j < at
    <3>1. j # at
      BY <1>1, <2>1, <2>3
    <3> QED BY <1>1, <2>1, <3>1
  <2>5. PICK x \in 1 .. n - 1 : from(x) = i
    BY <1>5, <2>2
  <2>6. PICK y \in 1 .. n - 1 : from(y) = j /\ y = j
    BY <1>5, <2>4
  <2>7. /\ connections'[x].stream = st /\ connections'[x].slot = NoSlot /\ at <= x
        /\ connections'[y].slot = Slot[b] /\ y < at /\ x # y
    BY <1>1, <1>4, <2>1, <2>4, <2>5, <2>6
  <2> QED BY <1>1, <1>2, <1>3, <2>7 DEF Doomed
<1>21. News'
  BY <1>3, <1>6, <1>19, <1>20 DEF PipeInv, News
<1> QED BY <1>8, <1>9, <1>10, <1>11, <1>12, <1>13, <1>14, <1>15, <1>16, <1>17, <1>18, <1>21
        DEF PipeInv

\* A pass begins, perhaps with a new connection: older ones of its bridge are all
\* ahead of the loop.
LEMMA AcceptPipe ==
    ASSUME ListInv, PipeInv, Accept
    PROVE  PipeInv'
<1>1. /\ at = 0 /\ at' = 1 /\ links' = links /\ opened' = opened /\ pipes' = pipes /\ heard' = heard
      /\ connections \in Seq(Connection) /\ backlog \in Seq(Streams)
  BY DEF Accept, bridgeVars, ListInv, Shape
<1>2. PICK n \in Nat : n = Len(connections)
  BY <1>1
<1>3. DOMAIN connections = 1 .. n
  BY <1>1, <1>2
<1>4. /\ \A st \in Streams, b \in Bridges : ~Doomed(st, b)
      /\ \A st \in Streams, b \in Bridges : Live(st) => \A r \in Sent(st) :
           r.by = b /\ ~IsHello(r) => heard[b] < r.ask
  <2>1. \A st \in Streams, b \in Bridges : ~Doomed(st, b)
    <3>1. \A j \in DOMAIN connections : ~(j <= at)
      BY <1>1, <1>3
    <3> QED BY <3>1 DEF Doomed
  <2> QED BY <2>1 DEF PipeInv, News
<1>5. CASE UNCHANGED <<connections, backlog>>
  <2>1. SameContents
    BY <1>1, <1>5 DEF SameContents, SameHolders
  <2>2. OldFirst'
    <3>1. \A i \in DOMAIN connections' : 1 <= at' /\ at' <= i
      BY <1>1, <1>3, <1>5
    <3> QED BY <3>1 DEF OldFirst
  <2>3. News'
    BY <1>1, <1>4, <2>1, SameContentsPipe DEF News
  <2> QED BY <2>1, <2>2, <2>3, SameContentsPipe DEF PipeInv
<1>6. CASE /\ backlog # <<>> /\ backlog' = Tail(backlog)
           /\ connections' = Append(connections, Newcomer)
  <2>1. 1 \in DOMAIN backlog /\ Head(backlog) = backlog[1]
    BY <1>1, <1>6
  <2>2. Newcomer.stream = backlog[1] /\ Newcomer.slot = NoSlot /\ Newcomer.output = <<>>
    BY <2>1 DEF Newcomer
  <2>3. /\ DOMAIN connections' = 1 .. n + 1 /\ connections'[n + 1] = Newcomer
        /\ \A i \in 1 .. n : connections'[i] = connections[i]
    BY <1>1, <1>2, <1>3, <1>6
  <2>4. \A j \in DOMAIN backlog' :
          j \in Nat /\ j + 1 \in DOMAIN backlog /\ j + 1 > 1 /\ backlog'[j] = backlog[j + 1]
    BY <1>1, <1>6
\* An element of the new list is one of the old list, or the head of the queue.
  <2>5. \A i \in DOMAIN connections' :
          \/ i \in DOMAIN connections /\ connections'[i] = connections[i]
          \/ /\ connections'[i].stream = backlog[1] /\ connections'[i].slot = NoSlot
             /\ connections'[i].output = <<>>
    BY <1>2, <1>3, <2>2, <2>3
  <2>6. \A st \in Streams : Up(st)' = Up(st) /\ Down(st)' = Down(st) /\ Sent(st)' = Sent(st)
                            /\ (Asks(st)' <=> Asks(st))
    BY <1>1 DEF Up, Down, Sent, Asks
  <2>7. \A st \in Streams, b \in Bridges : (Of(st, b)' <=> Of(st, b))
    BY <1>1, <2>6 DEF Of
  <2>8. HelloThenRequest' /\ AsksInOrder' /\ Owned'
    BY <1>1, <2>6, <2>7 DEF PipeInv, HelloThenRequest, AsksInOrder, Owned
  <2>9. OnePlace'
    <3>1. Len(<<>>) = 0
      OBVIOUS
    <3> QED BY <2>5, <2>6, <3>1 DEF PipeInv, OnePlace
  <2>10. Awaited'
    <3>1. \A k \in DOMAIN <<>> : FALSE
      OBVIOUS
    <3> SUFFICES ASSUME NEW b \in Bridges, NEW st \in Streams, links[b].stream = st
                 PROVE  /\ \A k \in DOMAIN Down(st) : Awaits(b, Down(st)[k])
                        /\ \A r \in Sent(st) : ~IsHello(r) => Awaits(b, r)
                        /\ \A i \in DOMAIN connections' : connections'[i].stream = st =>
                             \A k \in DOMAIN connections'[i].output :
                                 Awaits(b, connections'[i].output[k])
      <4>1. \A b, r : (Awaits(b, r)' <=> Awaits(b, r))
        BY <1>1 DEF Awaits, Request
      <4> QED BY <1>1, <2>6, <4>1 DEF Awaited
    <3> QED BY <2>5, <3>1 DEF PipeInv, Awaited
  <2>11. Greeted'
    BY <2>5, <2>6, <2>7 DEF PipeInv, Greeted
  <2>12. HelloFirst'
    BY <2>1, <2>4, <2>5, <2>6 DEF PipeInv, HelloFirst
  <2>13. NothingSaid'
    BY <1>1, <2>5, <2>6 DEF PipeInv, NothingSaid
  <2>14. HelloSaid'
    BY <1>1, <2>1, <2>4, <2>5, <2>6 DEF PipeInv, HelloSaid
  <2>15. Queue'
    <3>1. \A i, j \in DOMAIN backlog' : i < j => backlog'[i] < backlog'[j]
      BY <2>4 DEF PipeInv, Queue
    <3>2. \A i \in DOMAIN connections', j \in DOMAIN backlog' :
            connections'[i].stream < backlog'[j]
      BY <2>1, <2>4, <2>5 DEF PipeInv, Queue
    <3> QED BY <3>1, <3>2 DEF Queue
  <2>16. OldFirst'
    <3>1. \A i \in DOMAIN connections' : 1 <= at' /\ at' <= i
      BY <1>1, <2>3
    <3> QED BY <3>1 DEF OldFirst
  <2>17. \A st \in Streams : Live(st)' => Live(st)
    BY <2>1, <2>4, <2>5 DEF Live
  <2>18. News'
    BY <1>1, <1>4, <2>6, <2>17 DEF News
  <2> QED BY <2>8, <2>9, <2>10, <2>11, <2>12, <2>13, <2>14, <2>15, <2>16, <2>18 DEF PipeInv
<1> QED BY <1>5, <1>6 DEF Accept

\* The record handled is the first of its stream; after a hello no other is left,
\* after a request nothing is.
LEMMA HandledUp ==
    ASSUME ListInv, PipeInv, Handling, Handled, NEW t \in Streams, t = connections[at].stream
    PROVE  /\ at \in DOMAIN connections /\ at \in Nat
           /\ at' \in {at, at + 1} /\ (at' = at => batch' > 0)
           /\ Record \in Sent(t) /\ Up(t) # <<>> /\ Record = Up(t)[1]
           /\ \A st \in Streams : Down(st)' = Down(st) /\ Sent(st)' \subseteq Sent(st)
           /\ \A st \in Streams : st # t => Up(st)' = Up(st) /\ Sent(st)' = Sent(st)
           /\ IsHello(Record) => \A r \in Sent(t)' : ~IsHello(r)
           /\ ~IsHello(Record) => Sent(t)' = {}
           /\ HelloThenRequest'
<1>1. at \in DOMAIN connections /\ batch > 0 /\ batch \in Int /\ at \in Nat /\ batch <= Len(Up(t))
  BY DEF Handling, ListInv, Shape, Pipe, Current, Up
<1>2. pipes \in [Streams -> [up : Seq(RecordShape), down : Seq(RecordShape), open : BOOLEAN]]
  BY DEF ListInv, Shape
<1>3. pipes' = [pipes EXCEPT ![t].up = Tail(@)]
  BY DEF Handled, Current
<1>4. pipes'[t] = [pipes[t] EXCEPT !.up = Tail(pipes[t].up)]
  BY <1>2, <1>3
<1>5. pipes[t] \in [up : Seq(RecordShape), down : Seq(RecordShape), open : BOOLEAN]
  BY <1>2
<1>6. pipes'[t].up = Tail(pipes[t].up) /\ pipes'[t].down = pipes[t].down
  BY <1>4, <1>5
<1>7. \A st \in Streams : st # t => pipes'[st] = pipes[st]
  BY <1>2, <1>3
<1>8. /\ Up(t)' = Tail(Up(t)) /\ \A st \in Streams : Down(st)' = Down(st)
      /\ \A st \in Streams : st # t => Up(st)' = Up(st)
  BY <1>6, <1>7 DEF Up, Down
<1>9. \A st \in Streams : st # t => Sent(st)' = Sent(st)
  BY <1>8 DEF Sent
<1>10. Up(t) \in Seq(RecordShape)
  BY Typed DEF ListInv
<1>11. PICK u \in Seq(RecordShape) : u = Up(t)
  BY <1>10
<1>12. PICK n \in Nat : n = Len(u)
  BY <1>11
<1>13. n >= 1 /\ u # <<>>
  BY <1>1, <1>11, <1>12
<1>14. /\ Len(Tail(u)) = n - 1 /\ DOMAIN Tail(u) = 1 .. n - 1 /\ DOMAIN u = 1 .. n
       /\ \A k \in 1 .. n - 1 : Tail(u)[k] = u[k + 1]
       /\ Head(u) = u[1]
  BY <1>12, <1>13
<1>15. \A k \in 1 .. n : (IsHello(u[k]) => k = 1) /\ (~IsHello(u[k]) => k = n)
  BY <1>11, <1>12, <1>14 DEF PipeInv, HelloThenRequest
<1>16. /\ \A r : r \in Sent(t) <=> \E k \in 1 .. n : r = u[k]
       /\ \A r : r \in Sent(t)' <=> \E k \in 1 .. n - 1 : r = u[k + 1]
  <2>1. Up(t)' = Tail(u) /\ Up(t) = u
    BY <1>8, <1>11
  <2>2. \A r : r \in Sent(t) <=> \E k \in 1 .. n : r = u[k]
    BY <1>14, <2>1 DEF Sent
  <2>3. \A r : r \in Sent(t)' <=> \E k \in 1 .. n - 1 : r = Tail(u)[k]
    BY <1>14, <2>1 DEF Sent
  <2> QED BY <1>14, <2>2, <2>3
<1>17. Record = u[1]
  BY <1>11, <1>14 DEF Record, Pipe, Current, Up
<1>18. Record \in Sent(t) /\ Sent(t)' \subseteq Sent(t)
  BY <1>13, <1>16, <1>17
<1>19. IsHello(Record) => \A r \in Sent(t)' : ~IsHello(r)
  <2>1. \A k \in 1 .. n - 1 : ~IsHello(u[k + 1])
    BY <1>15
  <2> QED BY <1>16, <2>1
<1>20. ~IsHello(Record) => Sent(t)' = {}
  <2>1. ASSUME ~IsHello(Record)
        PROVE  n = 1
    BY <1>13, <1>15, <1>17, <2>1
  <2> QED BY <1>16, <2>1
<1>21. HelloThenRequest'
  <2>1. \A k \in 1 .. n - 1 :
          (IsHello(Tail(u)[k]) => k = 1) /\ (~IsHello(Tail(u)[k]) => k = n - 1)
    BY <1>14, <1>15
  <2> QED BY <1>8, <1>11, <1>14, <2>1 DEF PipeInv, HelloThenRequest
<1>22. at' \in {at, at + 1} /\ (at' = at => batch' > 0)
  BY <1>1 DEF Handled, Proceed
<1> QED BY <1>1, <1>8, <1>9, <1>11, <1>13, <1>17, <1>18, <1>19, <1>20, <1>21, <1>22

\* A hello is accepted.
LEMMA GreetPipe ==
    ASSUME ListInv, PipeInv, Greet
    PROVE  PipeInv'
<1> DEFINE c == [Current EXCEPT !.slot = Slot[Record.by]]
<1>1. /\ Handling /\ Handled /\ at \in DOMAIN connections /\ connections[at].slot = NoSlot
      /\ IsHello(Record) /\ ~Occupied(Slot[Record.by])
      /\ links' = links /\ opened' = opened /\ backlog' = backlog /\ heard' = heard
  BY DEF Greet, Handling, Handled, Welcome, Current, bridgeVars
<1>2. Current \in Connection /\ Current = connections[at]
  BY <1>1, CurrentShape DEF ListInv, Current
<1>t. PICK t \in Streams : t = connections[at].stream
  BY <1>1, Typed DEF ListInv
<1>u. /\ at \in Nat /\ at' \in {at, at + 1} /\ (at' = at => batch' > 0)
      /\ Record \in Sent(t) /\ Up(t) # <<>>
      /\ \A st \in Streams : Down(st)' = Down(st) /\ Sent(st)' \subseteq Sent(st)
      /\ \A st \in Streams : st # t => Up(st)' = Up(st) /\ Sent(st)' = Sent(st)
      /\ \A r \in Sent(t)' : ~IsHello(r)
      /\ HelloThenRequest'
  BY <1>1, <1>t, HandledUp
<1>b. PICK b \in Bridges : b = Record.by
  BY <1>u, Typed DEF ListInv
<1>3. Slot[b] \in Slots /\ Slot[b] # NoSlot
  BY CompanionAssumption, SlotType DEF Slots
<1>4. c.stream = t /\ c.slot = Slot[b] /\ c.output = connections[at].output /\ c \in Connection
  BY <1>2, <1>3, <1>t, <1>b, ConnectionWith DEF Connection
<1>5. connections' = [connections EXCEPT ![at] = c]
  BY <1>1 DEF Greet, Current, ListInv, Shape
<1> HIDE DEF c
<1>6. /\ DOMAIN connections' = DOMAIN connections /\ connections'[at] = c
      /\ \A i \in DOMAIN connections : i # at => connections'[i] = connections[i]
  BY <1>1, <1>4, <1>5, ReplacedConnection DEF ListInv
<1>7. /\ \A i \in DOMAIN connections :
           /\ connections'[i].stream = connections[i].stream
           /\ connections'[i].output = connections[i].output
           /\ i # at => connections'[i].slot = connections[i].slot /\ connections[i].stream # t
      /\ connections'[at].slot = Slot[b]
  <2>1. \A i \in DOMAIN connections : i # at => connections[i].stream # t
    BY <1>1, <1>t DEF ListInv, StreamsDistinct
  <2> QED BY <1>t, <1>4, <1>6, <2>1
<1>8. \A j \in DOMAIN backlog : backlog[j] # t
  BY <1>1, <1>t DEF ListInv, StreamsDistinct
<1>9. \A st \in Streams, d \in Bridges : Of(st, d)' => Of(st, d)
  BY <1>1, <1>u DEF Of
<1>10. \A st \in Streams : Asks(st)' => Asks(st)
  BY <1>u DEF Asks
<1>11. \A d, r : (Awaits(d, r)' <=> Awaits(d, r))
  BY <1>1 DEF Awaits, Request
<1>12. OnePlace'
  BY <1>6, <1>7, <1>u, <1>10 DEF PipeInv, OnePlace
<1>13. Awaited'
  <2> SUFFICES ASSUME NEW d \in Bridges, NEW st \in Streams, links[d].stream = st
               PROVE  /\ \A k \in DOMAIN Down(st) : Awaits(d, Down(st)[k])
                      /\ \A r \in Sent(st)' : ~IsHello(r) => Awaits(d, r)
                      /\ \A i \in DOMAIN connections : connections[i].stream = st =>
                           \A k \in DOMAIN connections[i].output :
                               Awaits(d, connections[i].output[k])
    BY <1>1, <1>6, <1>7, <1>u, <1>11, SMTT(30) DEF Awaited
  <2> QED BY <1>u DEF PipeInv, Awaited
<1>14. Owned'
  BY <1>1, <1>u, <1>9 DEF PipeInv, Owned
<1>15. AsksInOrder'
  BY <1>1, <1>u DEF PipeInv, AsksInOrder
<1>16. Of(t, b) /\ \A d \in Bridges : Of(t, d) => d = b
  <2>1. Of(t, b)
    BY <1>u, <1>b DEF Of
  <2> QED BY <2>1 DEF PipeInv, Owned
<1>17. Greeted'
  <2> SUFFICES ASSUME NEW st \in Streams, NEW i \in DOMAIN connections,
                      connections[i].stream = st, connections'[i].slot # NoSlot
               PROVE  /\ \A r \in Sent(st)' : ~IsHello(r)
                      /\ \A d \in Bridges : Of(st, d)' => connections'[i].slot = Slot[d]
    BY <1>6, <1>7 DEF Greeted
  <2>1. CASE i = at
    BY <1>t, <1>u, <1>7, <1>9, <1>16, <2>1
  <2>2. CASE i # at
    BY <1>u, <1>7, <1>9, <2>2 DEF PipeInv, Greeted
  <2> QED BY <2>1, <2>2
<1>18. HelloFirst'
  <2>1. ASSUME NEW st \in Streams, NEW i \in DOMAIN connections,
               connections[i].stream = st, connections'[i].slot = NoSlot
        PROVE  connections[i].output = <<>> /\ (Up(st)' # <<>> => IsHello(Up(st)'[1]))
    <3>1. i # at
      BY <1>3, <1>7, <2>1
    <3> QED BY <1>u, <1>7, <2>1, <3>1 DEF PipeInv, HelloFirst
  <2>2. ASSUME NEW st \in Streams, NEW j \in DOMAIN backlog, backlog[j] = st, Up(st)' # <<>>
        PROVE  IsHello(Up(st)'[1])
    BY <1>8, <1>u, <2>2 DEF PipeInv, HelloFirst
  <2> QED BY <1>1, <1>6, <1>7, <2>1, <2>2 DEF HelloFirst
<1>19. NothingSaid'
  <2> SUFFICES ASSUME NEW d \in Bridges, NEW st \in Streams, links[d].stream = st,
                      links[d].doing = "connected"
               PROVE  /\ Up(st)' = <<>>
                      /\ \A i \in DOMAIN connections :
                           connections[i].stream = st => connections'[i].slot = NoSlot
    BY <1>1, <1>6, <1>7 DEF NothingSaid
  <2>1. st # t
    BY <1>u DEF PipeInv, NothingSaid
  <2> QED BY <1>t, <1>u, <1>7, <2>1 DEF PipeInv, NothingSaid
<1>20. HelloSaid'
  <2> SUFFICES ASSUME NEW d \in Bridges, NEW st \in Streams, links[d].stream = st,
                      links[d].doing # "connected"
               PROVE  /\ \A i \in DOMAIN connections :
                           connections[i].stream = st /\ connections'[i].slot = NoSlot
                               => Up(st)' # <<>>
                      /\ \A j \in DOMAIN backlog : backlog[j] = st => Up(st)' # <<>>
    BY <1>1, <1>6, <1>7 DEF HelloSaid
  <2>1. \A i \in DOMAIN connections : connections'[i].slot = NoSlot => i # at
    BY <1>3, <1>7
  <2> QED BY <1>u, <1>7, <1>8, <2>1 DEF PipeInv, HelloSaid
<1>21. Queue'
  BY <1>1, <1>6, <1>7 DEF PipeInv, Queue
<1>22. OldFirst'
  <2> SUFFICES ASSUME NEW st \in Streams, NEW later \in Streams, NEW d \in Bridges,
                      NEW i \in DOMAIN connections, NEW j \in DOMAIN connections,
                      connections[i].stream = st, connections[j].stream = later, st < later,
                      Of(st, d), Of(later, d), connections'[i].slot = NoSlot, Up(st)' # <<>>
               PROVE  1 <= at' /\ at' <= i
    BY <1>6, <1>7, <1>9 DEF OldFirst
  <2>1. i # at
    BY <1>3, <1>7
  <2>2. 1 <= at /\ at <= i
    BY <1>u, <1>7, <2>1 DEF PipeInv, OldFirst
  <2>3. i \in Nat
    BY DEF ListInv, Shape
  <2> QED BY <1>u, <2>1, <2>2, <2>3
<1>23. ~Doomed(t, b)
  BY <1>1, <1>t, <1>b DEF Doomed, Occupied, ListInv, StreamsDistinct
<1>24. ASSUME NEW st \in Streams, NEW d \in Bridges, st # t, Doomed(st, d)
       PROVE  Doomed(st, d)'
  <2>1. PICK i \in DOMAIN connections, j \in DOMAIN connections :
          /\ connections[i].stream = st /\ connections[i].slot = NoSlot
          /\ connections[j].slot = Slot[d] /\ i # j
          /\ j <= at /\ at <= i /\ (j = at => batch > 0)
    BY <1>24 DEF Doomed
  <2>2. Slot[d] # NoSlot
    BY CompanionAssumption, SlotType
  <2>3. i # at /\ j # at
    BY <1>1, <1>t, <1>24, <2>1, <2>2
  <2>4. j < at' /\ at' <= i
    <3>1. i \in Nat /\ j \in Nat
      BY DEF ListInv, Shape
    <3> QED BY <1>u, <2>1, <2>3, <3>1
  <2>5. j <= at' /\ j # at'
    BY <1>u, <2>4 DEF ListInv, Shape
  <2> QED BY <1>6, <1>7, <2>1, <2>3, <2>4, <2>5 DEF Doomed
<1>25. News'
  <2> SUFFICES ASSUME NEW st \in Streams, Live(st)', NEW r \in Sent(st)', NEW d \in Bridges,
                      r.by = d, ~IsHello(r)
               PROVE  heard[d] < r.ask \/ Doomed(st, d)'
    BY <1>1 DEF News
  <2>1. Live(st)
    BY <1>1, <1>6, <1>7 DEF Live
  <2>2. heard[d] < r.ask \/ Doomed(st, d)
    BY <1>u, <2>1 DEF PipeInv, News
  <2>3. CASE st = t
    <3>1. d = b
      BY <1>u, <1>16, <2>3 DEF Of
    <3> QED BY <1>23, <2>2, <2>3, <3>1
  <2>4. CASE st # t
    BY <1>24, <2>2, <2>4
  <2> QED BY <2>3, <2>4
<1> QED BY <1>u, <1>12, <1>13, <1>14, <1>15, <1>17, <1>18, <1>19, <1>20, <1>21, <1>22, <1>25
        DEF PipeInv

\* A request is handled: what is still on the way of the same bridge is newer, or
\* its hello will be refused.
LEMMA ExchangePipe ==
    ASSUME ListInv, PipeInv, Exchange
    PROVE  PipeInv' /\ \A b \in Bridges : heard'[b] >= heard[b]
<1> DEFINE c == [Current EXCEPT !.output = Append(Current.output, Record)]
<1>1. /\ Handling /\ Handled /\ at \in DOMAIN connections /\ connections[at].slot # NoSlot
      /\ ~IsHello(Record) /\ batch > 0
      /\ heard' = [heard EXCEPT ![Record.by] = Record.ask]
      /\ links' = links /\ opened' = opened /\ backlog' = backlog
  BY DEF Exchange, Handling, Handled, Current, bridgeVars
<1>2. Current \in Connection /\ Current = connections[at]
  BY <1>1, CurrentShape DEF ListInv, Current
<1>t. PICK t \in Streams : t = connections[at].stream
  BY <1>1, Typed DEF ListInv
<1>u. /\ at \in Nat /\ at' \in {at, at + 1} /\ (at' = at => batch' > 0)
      /\ Record \in Sent(t) /\ Up(t) # <<>>
      /\ \A st \in Streams : Down(st)' = Down(st) /\ Sent(st)' \subseteq Sent(st)
      /\ \A st \in Streams : st # t => Up(st)' = Up(st) /\ Sent(st)' = Sent(st)
      /\ Sent(t)' = {} /\ HelloThenRequest'
  BY <1>1, <1>t, HandledUp
<1>r. PICK q \in RecordShape : q = Record
  BY <1>1, Typed, HandledShape, HandledUp, <1>t DEF ListInv, Sent
<1>b. q.by \in Bridges /\ q.ask \in Nat /\ ~IsHello(q) /\ q \in Sent(t)
  BY <1>1, <1>r, <1>u DEF RecordShape
<1>a. Asks(t) /\ ~Asks(t)' /\ Up(t)' = <<>>
  <2>1. Asks(t) /\ ~Asks(t)'
    BY <1>u, <1>b DEF Asks
  <2>2. Shape'
    BY ExchangeInv DEF ListInv
  <2>3. Up(t)' \in Seq(RecordShape)
    BY <2>2 DEF Shape, Up
  <2>4. \A k \in DOMAIN Up(t)' : FALSE
    BY <1>u DEF Sent
  <2> QED BY <2>1, <2>3, <2>4
<1>3. connections[at].output = <<>> /\ Down(t) = <<>>
  BY <1>1, <1>t, <1>a DEF PipeInv, OnePlace
<1>4. c.stream = t /\ c.slot = connections[at].slot /\ c.output = <<q>> /\ c \in Connection
  <2>1. Append(<<>>, q) = <<q>> /\ <<q>> \in Seq(RecordShape)
    OBVIOUS
  <2>2. Append(Current.output, Record) = <<q>>
    BY <1>2, <1>3, <1>r, <2>1
  <2>3. c = [Current EXCEPT !.output = <<q>>]
    BY <2>2
  <2> QED BY <1>2, <1>t, <2>1, <2>3, ConnectionWith, ZenonT(60) DEF Connection
<1>5. connections' = [connections EXCEPT ![at] = c]
  BY <1>1 DEF Exchange, Current, ListInv, Shape
<1> HIDE DEF c
<1>6. /\ DOMAIN connections' = DOMAIN connections /\ connections'[at] = c
      /\ \A i \in DOMAIN connections : i # at => connections'[i] = connections[i]
  BY <1>1, <1>4, <1>5, ReplacedConnection DEF ListInv
<1>7. /\ \A i \in DOMAIN connections :
           /\ connections'[i].stream = connections[i].stream
           /\ connections'[i].slot = connections[i].slot
           /\ i # at => connections'[i].output = connections[i].output /\ connections[i].stream # t
           /\ i \in Nat
      /\ connections'[at].output = <<q>>
  <2>1. \A i \in DOMAIN connections : i # at => connections[i].stream # t
    BY <1>1, <1>t DEF ListInv, StreamsDistinct
  <2>2. \A i \in DOMAIN connections : i \in Nat
    BY DEF ListInv, Shape
  <2> QED BY <1>t, <1>4, <1>6, <2>1, <2>2
<1>8. \A j \in DOMAIN backlog : backlog[j] # t
  BY <1>1, <1>t DEF ListInv, StreamsDistinct
<1>9. \A st \in Streams, d \in Bridges : Of(st, d)' => Of(st, d)
  BY <1>1, <1>u DEF Of
<1>10. \A st \in Streams : Asks(st)' => Asks(st)
  BY <1>u DEF Asks
<1>11. \A d, r : (Awaits(d, r)' <=> Awaits(d, r))
  BY <1>1 DEF Awaits, Request
<1>12. OnePlace'
  <2>1. Len(<<q>>) = 1
    OBVIOUS
  <2>2. \A st \in Streams : Len(Down(st)') <= 1 /\ (Down(st)' # <<>> => ~Asks(st)')
    BY <1>u, <1>10 DEF PipeInv, OnePlace
  <2>3. ASSUME NEW st \in Streams, NEW i \in DOMAIN connections, connections[i].stream = st
        PROVE  /\ Len(connections'[i].output) <= 1
               /\ connections'[i].output # <<>> => Down(st)' = <<>> /\ ~Asks(st)'
    <3>1. CASE i = at
      <4>1. st = t /\ connections'[i].output = <<q>>
        BY <1>t, <1>7, <2>3, <3>1
      <4>2. Down(t)' = <<>>
        BY <1>u, <1>3
      <4>3. Down(st)' = <<>> /\ ~Asks(st)'
        BY <1>a, <4>1, <4>2
      <4>4. Len(connections'[i].output) <= 1
        BY <2>1, <4>1
      <4> QED BY <4>3, <4>4
    <3>2. CASE i # at
      BY <1>u, <1>7, <1>10, <2>3, <3>2 DEF PipeInv, OnePlace
    <3> QED BY <3>1, <3>2
  <2> QED BY <1>6, <1>7, <2>2, <2>3 DEF OnePlace
<1>13. Awaited'
  <2> SUFFICES ASSUME NEW d \in Bridges, NEW st \in Streams, links[d].stream = st
               PROVE  /\ \A k \in DOMAIN Down(st) : Awaits(d, Down(st)[k])
                      /\ \A r \in Sent(st)' : ~IsHello(r) => Awaits(d, r)
                      /\ \A i \in DOMAIN connections : connections[i].stream = st =>
                           \A k \in DOMAIN connections'[i].output :
                               Awaits(d, connections'[i].output[k])
    BY <1>1, <1>6, <1>7, <1>u, <1>11, ZenonT(60) DEF Awaited
  <2>1. \A k \in DOMAIN Down(st) : Awaits(d, Down(st)[k])
    BY DEF PipeInv, Awaited
  <2>2. \A r \in Sent(st) : ~IsHello(r) => Awaits(d, r)
    BY DEF PipeInv, Awaited
  <2>3. ASSUME NEW i \in DOMAIN connections, connections[i].stream = st
        PROVE  \A k \in DOMAIN connections'[i].output : Awaits(d, connections'[i].output[k])
    <3>1. CASE i = at
      <4>1. Awaits(d, q)
        BY <1>t, <1>b, <2>2, <2>3, <3>1
      <4>2. \A k \in DOMAIN <<q>> : <<q>>[k] = q
        OBVIOUS
      <4> QED BY <1>7, <3>1, <4>1, <4>2
    <3>2. CASE i # at
      BY <1>7, <2>3, <3>2 DEF PipeInv, Awaited
    <3> QED BY <3>1, <3>2
  <2> QED BY <1>u, <2>1, <2>2, <2>3
<1>14. Owned'
  BY <1>1, <1>u, <1>9 DEF PipeInv, Owned
<1>15. Live(t)
  BY <1>1, <1>t DEF Live
<1>16. ~Doomed(t, q.by)
  BY <1>1, <1>t DEF Doomed, ListInv, StreamsDistinct
<1>17. heard \in [Bridges -> Nat] /\ heard[q.by] < q.ask
  <2>1. heard[q.by] < q.ask \/ Doomed(t, q.by)
    BY <1>b, <1>15 DEF PipeInv, News
  <2> QED BY <1>16, <2>1 DEF PipeInv, AsksInOrder
<1>18. /\ heard' \in [Bridges -> Nat] /\ heard'[q.by] = q.ask
       /\ \A d \in Bridges : d # q.by => heard'[d] = heard[d]
  BY <1>1, <1>r, <1>b, <1>17
<1>19. \A d \in Bridges : heard'[d] >= heard[d]
  BY <1>17, <1>18, <1>b
<1>20. AsksInOrder'
  <2>1. /\ q.ask <= links[q.by].ask
        /\ links[q.by].doing \in {"connected", "greeted"} => q.ask < links[q.by].ask
    BY <1>b DEF PipeInv, AsksInOrder
  <2>2. \A d \in Bridges :
          /\ heard'[d] <= links[d].ask
          /\ links[d].doing \in {"connected", "greeted"} => heard'[d] < links[d].ask
    BY <1>18, <2>1 DEF PipeInv, AsksInOrder
  <2> QED BY <1>1, <1>u, <1>18, <2>2 DEF PipeInv, AsksInOrder
<1>21. Greeted'
  BY <1>6, <1>7, <1>u, <1>9 DEF PipeInv, Greeted
<1>22. HelloFirst'
  <2>1. ASSUME NEW st \in Streams, NEW i \in DOMAIN connections,
               connections[i].stream = st, connections[i].slot = NoSlot
        PROVE  connections'[i].output = <<>> /\ (Up(st)' # <<>> => IsHello(Up(st)'[1]))
    BY <1>1, <1>u, <1>7, <2>1 DEF PipeInv, HelloFirst
  <2>2. ASSUME NEW st \in Streams, NEW j \in DOMAIN backlog, backlog[j] = st, Up(st)' # <<>>
        PROVE  IsHello(Up(st)'[1])
    BY <1>8, <1>u, <2>2 DEF PipeInv, HelloFirst
  <2> QED BY <1>1, <1>6, <1>7, <2>1, <2>2 DEF HelloFirst
<1>23. NothingSaid'
  BY <1>1, <1>6, <1>7, <1>u, <1>a DEF PipeInv, NothingSaid
<1>24. HelloSaid'
  <2> SUFFICES ASSUME NEW d \in Bridges, NEW st \in Streams, links[d].stream = st,
                      links[d].doing # "connected"
               PROVE  /\ \A i \in DOMAIN connections :
                           connections[i].stream = st /\ connections[i].slot = NoSlot
                               => Up(st)' # <<>>
                      /\ \A j \in DOMAIN backlog : backlog[j] = st => Up(st)' # <<>>
    BY <1>1, <1>6, <1>7 DEF HelloSaid
  <2>1. \A i \in DOMAIN connections : connections[i].slot = NoSlot => i # at
    BY <1>1
  <2> QED BY <1>u, <1>7, <1>8, <2>1 DEF PipeInv, HelloSaid
<1>25. Queue'
  BY <1>1, <1>6, <1>7 DEF PipeInv, Queue
<1>26. OldFirst'
  <2> SUFFICES ASSUME NEW st \in Streams, NEW later \in Streams, NEW d \in Bridges,
                      NEW i \in DOMAIN connections, NEW j \in DOMAIN connections,
                      connections[i].stream = st, connections[j].stream = later, st < later,
                      Of(st, d), Of(later, d), connections[i].slot = NoSlot, Up(st)' # <<>>
               PROVE  1 <= at' /\ at' <= i
    BY <1>6, <1>7, <1>9 DEF OldFirst
  <2>1. i # at
    BY <1>1
  <2>2. 1 <= at /\ at <= i
    BY <1>u, <1>7, <2>1 DEF PipeInv, OldFirst
  <2> QED BY <1>u, <1>7, <2>1, <2>2
<1>27. ASSUME NEW st \in Streams, NEW d \in Bridges, Doomed(st, d)
       PROVE  Doomed(st, d)'
  <2>1. PICK i \in DOMAIN connections, j \in DOMAIN connections :
          /\ connections[i].stream = st /\ connections[i].slot = NoSlot
          /\ connections[j].slot = Slot[d] /\ i # j
          /\ j <= at /\ at <= i /\ (j = at => batch > 0)
    BY <1>27 DEF Doomed
  <2>2. i # at
    BY <1>1, <2>1
  <2>3. j <= at' /\ at' <= i /\ (j = at' => batch' > 0)
    BY <1>u, <1>7, <2>1, <2>2
  <2> QED BY <1>6, <1>7, <2>1, <2>3 DEF Doomed
\* An older request of the same bridge is behind a hello that will be refused.
<1>28. ASSUME NEW st \in Streams, NEW r \in Sent(st), Live(st), st < t, r.by = q.by, ~IsHello(r)
       PROVE  Doomed(st, q.by)'
  <2>1. PICK i \in DOMAIN connections : connections[i].stream = st
    <3>1. \A j \in DOMAIN backlog : backlog[j] # st
      <4>1. \A j \in DOMAIN backlog : t < backlog[j]
        BY <1>1, <1>t DEF PipeInv, Queue
      <4>2. \A j \in DOMAIN backlog : backlog[j] \in Streams
        BY Typed DEF ListInv
      <4> QED BY <1>28, <4>1, <4>2 DEF Streams
    <3> QED BY <1>28, <3>1 DEF Live
  <2>2. Of(st, q.by) /\ Of(t, q.by)
    BY <1>28, <1>b DEF Of
  <2>3. st # t
    BY <1>28 DEF Streams
  <2>4. i # at
    BY <1>t, <2>1, <2>3
  <2>5. connections[at].slot = Slot[q.by]
    BY <1>1, <1>t, <1>b, <2>2 DEF PipeInv, Greeted
  <2>6. connections[i].slot = NoSlot
    <3>1. connections[i].slot # NoSlot => connections[i].slot = Slot[q.by]
      BY <1>b, <2>1, <2>2 DEF PipeInv, Greeted
    <3> QED BY <1>1, <2>4, <2>5, <3>1 DEF ListInv, SlotHeldOnce
  <2>7. Up(st) # <<>>
    BY <1>28, Typed DEF ListInv
  <2>8. at <= i
    BY <1>1, <1>b, <1>t, <1>28, <2>1, <2>2, <2>6, <2>7 DEF PipeInv, OldFirst
  <2>9. at <= at' /\ at' <= i /\ (at = at' => batch' > 0)
    BY <1>u, <1>7, <2>4, <2>8
  <2> QED BY <1>1, <1>6, <1>7, <2>1, <2>4, <2>5, <2>6, <2>9 DEF Doomed
<1>29. News'
  <2> SUFFICES ASSUME NEW st \in Streams, Live(st)', NEW r \in Sent(st)', NEW d \in Bridges,
                      r.by = d, ~IsHello(r)
               PROVE  heard'[d] < r.ask \/ Doomed(st, d)'
    BY DEF News
  <2>1. Live(st)
    BY <1>1, <1>6, <1>7 DEF Live
  <2>2. st # t /\ r \in Sent(st)
    BY <1>u
  <2>3. heard[d] < r.ask \/ Doomed(st, d)'
    BY <1>27, <2>1, <2>2 DEF PipeInv, News
  <2>4. CASE d # q.by
    BY <1>18, <2>3, <2>4
  <2>5. CASE d = q.by /\ st < t
    BY <1>28, <2>1, <2>2, <2>5
  <2>6. CASE d = q.by /\ t < st
    BY <1>18, <1>b, <2>2, <2>6 DEF PipeInv, AsksInOrder
  <2>7. st < t \/ t < st
    BY <2>2 DEF Streams
  <2> QED BY <2>4, <2>5, <2>6, <2>7
<1> QED BY <1>u, <1>12, <1>13, <1>14, <1>19, <1>20, <1>21, <1>22, <1>23, <1>24, <1>25, <1>26, <1>29
        DEF PipeInv

\* What a bridge sends goes behind what it sent before.
LEMMA SentUp ==
    ASSUME ListInv, NEW s \in Streams, NEW q \in RecordShape,
           pipes' = [pipes EXCEPT ![s].up = Append(@, q)]
    PROVE  /\ \A st \in Streams : Down(st)' = Down(st)
           /\ \A st \in Streams : st # s => Up(st)' = Up(st) /\ Sent(st)' = Sent(st)
           /\ \A r : r \in Sent(s)' <=> r \in Sent(s) \/ r = q
           /\ Up(s)' # <<>>
           /\ Up(s) # <<>> => Up(s)'[1] = Up(s)[1]
           /\ Up(s) = <<>> => Up(s)'[1] = q
           /\ DOMAIN Up(s) = 1 .. Len(Up(s)) /\ DOMAIN Up(s)' = 1 .. Len(Up(s)) + 1
           /\ Len(Up(s)') = Len(Up(s)) + 1 /\ Len(Up(s)) \in Nat
           /\ Up(s)'[Len(Up(s)) + 1] = q
           /\ \A k \in DOMAIN Up(s) : Up(s)'[k] = Up(s)[k]
<1>1. pipes \in [Streams -> [up : Seq(RecordShape), down : Seq(RecordShape), open : BOOLEAN]]
  BY DEF ListInv, Shape
<1>2. pipes'[s] = [pipes[s] EXCEPT !.up = Append(pipes[s].up, q)]
  BY <1>1
<1>3. pipes[s] \in [up : Seq(RecordShape), down : Seq(RecordShape), open : BOOLEAN]
  BY <1>1
<1>4. pipes'[s].up = Append(pipes[s].up, q) /\ pipes'[s].down = pipes[s].down
  BY <1>2, <1>3
<1>5. \A st \in Streams : st # s => pipes'[st] = pipes[st]
  BY <1>1
<1>6. /\ Up(s)' = Append(Up(s), q) /\ \A st \in Streams : Down(st)' = Down(st)
      /\ \A st \in Streams : st # s => Up(st)' = Up(st)
  BY <1>4, <1>5 DEF Up, Down
<1>7. \A st \in Streams : st # s => Sent(st)' = Sent(st)
  BY <1>6 DEF Sent
<1>8. PICK u \in Seq(RecordShape) : u = Up(s)
  BY Typed DEF ListInv
<1>9. PICK n \in Nat : n = Len(u)
  BY <1>8
<1>10. /\ DOMAIN u = 1 .. n /\ DOMAIN Append(u, q) = 1 .. n + 1 /\ Append(u, q)[n + 1] = q
       /\ Len(Append(u, q)) = n + 1
       /\ \A k \in 1 .. n : Append(u, q)[k] = u[k]
       /\ Append(u, q) # <<>> /\ (u = <<>> => n = 0) /\ (u # <<>> => 1 \in 1 .. n)
  <2>1. DOMAIN u = 1 .. n
    BY <1>9
  <2>2. DOMAIN Append(u, q) = 1 .. n + 1 /\ Len(Append(u, q)) = n + 1
    BY <1>9
  <2>3. Append(u, q)[n + 1] = q /\ \A k \in 1 .. n : Append(u, q)[k] = u[k]
    BY <1>9
  <2>4. Append(u, q) # <<>> /\ (u = <<>> => n = 0)
    <3>1. Len(<<>>) = 0
      OBVIOUS
    <3>2. n + 1 # 0
      BY <1>9
    <3> QED BY <1>9, <2>2, <3>1, <3>2
  <2>5. u # <<>> => 1 \in 1 .. n
    BY <1>9
  <2> QED BY <2>1, <2>2, <2>3, <2>4, <2>5
<1>11. \A r : r \in Sent(s) <=> \E k \in 1 .. n : r = u[k]
  BY <1>8, <1>10 DEF Sent
<1>12. \A r : r \in Sent(s)' <=> \E k \in 1 .. n + 1 : r = Append(u, q)[k]
  <2>1. Up(s)' = Append(u, q)
    BY <1>6, <1>8
  <2> QED BY <1>10, <2>1 DEF Sent
<1>13. \A r : r \in Sent(s)' <=> r \in Sent(s) \/ r = q
  <2>1. \A k \in 1 .. n + 1 : k \in 1 .. n \/ k = n + 1
    BY <1>9
  <2>2. \A k \in 1 .. n : k \in 1 .. n + 1
    BY <1>9
  <2>3. n + 1 \in 1 .. n + 1
    BY <1>9
  <2> QED BY <1>10, <1>11, <1>12, <2>1, <2>2, <2>3
<1> QED BY <1>6, <1>7, <1>8, <1>9, <1>10, <1>13

\* The hello of a bridge is the first in its stream.
LEMMA SendHelloPipe ==
    ASSUME ListInv, PipeInv, NEW b \in Bridges, SendHello(b)
    PROVE  PipeInv'
<1>1. /\ connections' = connections /\ at' = at /\ batch' = batch /\ heard' = heard
      /\ opened' = opened /\ backlog' = backlog /\ links[b].doing = "connected"
  BY DEF SendHello
<1>2. /\ links' = [links EXCEPT ![b].doing = "greeted"]
      /\ pipes' = [pipes EXCEPT ![links[b].stream].up = Append(@, Hello(b))]
  BY DEF SendHello
<1>3. /\ links'[b].stream = links[b].stream /\ links'[b].ask = links[b].ask
      /\ links'[b].doing = "greeted"
      /\ \A d \in Bridges : d # b => links'[d] = links[d]
  BY <1>2 DEF ListInv, Shape
<1>4. links[b].stream \in Nat /\ links[b].stream # 0 /\ links[b].stream <= MAX_STREAMS
  BY <1>1, CompanionAssumption DEF ListInv, Shape, PipeInv, Owned, NoStream
<1>s. PICK s \in Streams : s = links[b].stream
  BY <1>4 DEF Streams
<1>q. PICK q \in RecordShape : q = Hello(b)
  BY DEF Hello, RecordShape
<1>5. q.by = b /\ IsHello(q)
  BY <1>q DEF Hello, IsHello
<1>6. /\ \A st \in Streams : Down(st)' = Down(st)
      /\ \A st \in Streams : st # s => Up(st)' = Up(st) /\ Sent(st)' = Sent(st)
      /\ \A r : r \in Sent(s)' <=> r \in Sent(s) \/ r = q
      /\ Up(s)' # <<>> /\ (Up(s) = <<>> => Up(s)'[1] = q)
      /\ DOMAIN Up(s) = 1 .. Len(Up(s)) /\ DOMAIN Up(s)' = 1 .. Len(Up(s)) + 1
      /\ Len(Up(s)') = Len(Up(s)) + 1 /\ Len(Up(s)) \in Nat
  <2>1. pipes' = [pipes EXCEPT ![s].up = Append(@, q)]
    BY <1>2, <1>s, <1>q
  <2> QED BY <2>1, SentUp
<1>7. /\ Up(s) = <<>> /\ Sent(s) = {}
      /\ \A i \in DOMAIN connections : connections[i].stream = s => connections[i].slot = NoSlot
  BY <1>1, <1>s, Typed DEF PipeInv, NothingSaid, ListInv
<1>8. Of(s, b) /\ \A d \in Bridges : Of(s, d) => d = b
  <2>1. Of(s, b)
    BY <1>s DEF Of
  <2> QED BY <2>1 DEF PipeInv, Owned
<1>9. \A st \in Streams, d \in Bridges : (Of(st, d)' <=> Of(st, d))
  BY <1>s, <1>3, <1>5, <1>6, <1>8 DEF Of
<1>10. \A st \in Streams : (Asks(st)' <=> Asks(st))
  BY <1>5, <1>6 DEF Asks
<1>11. \A st \in Streams : \A r : r \in Sent(st)' /\ ~IsHello(r) => r \in Sent(st)
  BY <1>5, <1>6
<1>12. HelloThenRequest'
  <2>1. ASSUME NEW k \in DOMAIN Up(s)'
        PROVE  /\ IsHello(Up(s)'[k]) => k = 1
               /\ ~IsHello(Up(s)'[k]) => k = Len(Up(s)')
    <3>1. Len(Up(s)) = 0
      BY <1>7
    <3>2. k = 1
      BY <1>6, <2>1, <3>1
    <3> QED BY <1>5, <1>6, <1>7, <3>2
  <2> QED BY <1>6, <2>1 DEF PipeInv, HelloThenRequest
<1>13. OnePlace'
  BY <1>1, <1>6, <1>10 DEF PipeInv, OnePlace
<1>14. Awaited'
  <2> SUFFICES ASSUME NEW d \in Bridges, NEW st \in Streams, links'[d].stream = st
               PROVE  /\ \A k \in DOMAIN Down(st) : Awaits(d, Down(st)[k])'
                      /\ \A r \in Sent(st)' : ~IsHello(r) => Awaits(d, r)'
                      /\ \A i \in DOMAIN connections : connections[i].stream = st =>
                           \A k \in DOMAIN connections[i].output :
                               Awaits(d, connections[i].output[k])'
    BY <1>1, <1>6 DEF Awaited
  <2>1. links[d].stream = st
    BY <1>3
  <2>2. \A r : Awaits(d, r) => Awaits(d, r)'
    BY <1>1, <1>3 DEF Awaits, Request
  <2> QED BY <1>1, <1>6, <1>11, <2>1, <2>2 DEF PipeInv, Awaited
<1>15. Owned'
  BY <1>1, <1>3, <1>6, <1>9 DEF PipeInv, Owned
<1>16. AsksInOrder'
  <2>1. \A d \in Bridges : links'[d].ask = links[d].ask /\ links'[d].stream = links[d].stream
          /\ (links'[d].doing \in {"connected", "greeted"} => links[d].doing \in {"connected", "greeted"})
          /\ (links'[d].doing = "waiting" => links[d].doing = "waiting")
    BY <1>1, <1>3
  <2> QED BY <1>1, <1>11, <2>1 DEF PipeInv, AsksInOrder
<1>17. Greeted'
  BY <1>1, <1>6, <1>7, <1>9 DEF PipeInv, Greeted
<1>18. HelloFirst'
  BY <1>1, <1>5, <1>6, <1>7 DEF PipeInv, HelloFirst
<1>19. NothingSaid'
  <2>1. \A d \in Bridges : links'[d].doing = "connected" => d # b /\ links'[d] = links[d]
    BY <1>3
  <2>2. \A d \in Bridges : d # b => links[d].stream # s
    BY <1>8 DEF Of
  <2> QED BY <1>1, <1>6, <2>1, <2>2 DEF PipeInv, NothingSaid
<1>20. HelloSaid'
  BY <1>1, <1>s, <1>3, <1>6 DEF PipeInv, HelloSaid
<1>21. Queue'
  BY <1>1 DEF PipeInv, Queue
<1>22. OldFirst'
  <2> SUFFICES ASSUME NEW st \in Streams, NEW later \in Streams, NEW d \in Bridges,
                      NEW i \in DOMAIN connections, NEW j \in DOMAIN connections,
                      connections[i].stream = st, connections[j].stream = later, st < later,
                      Of(st, d), Of(later, d), connections[i].slot = NoSlot, Up(st)' # <<>>
               PROVE  1 <= at /\ at <= i
    BY <1>1, <1>9 DEF OldFirst
  <2>1. st # s
    <3> SUFFICES ASSUME st = s PROVE FALSE
      OBVIOUS
    <3>1. Of(later, b)
      BY <1>8
    <3>2. later <= links[b].stream
      BY <1>4, <3>1 DEF PipeInv, Owned, NoStream
    <3> QED BY <1>s, <3>2 DEF Streams
  <2> QED BY <1>6, <2>1 DEF PipeInv, OldFirst
<1>23. News'
  BY <1>1, <1>11 DEF PipeInv, News, Live, Doomed
<1> QED BY <1>12, <1>13, <1>14, <1>15, <1>16, <1>17, <1>18, <1>19, <1>20, <1>21, <1>22, <1>23
        DEF PipeInv

\* The request of a bridge is the last in its stream, and newer than all that is
\* on its way.
LEMMA SendRequestPipe ==
    ASSUME ListInv, PipeInv, NEW b \in Bridges, SendRequest(b)
    PROVE  PipeInv'
<1>1. /\ connections' = connections /\ at' = at /\ batch' = batch /\ heard' = heard
      /\ opened' = opened /\ backlog' = backlog /\ links[b].doing = "greeted"
  BY DEF SendRequest
<1>2. /\ links' = [links EXCEPT ![b].doing = "waiting"]
      /\ pipes' = [pipes EXCEPT ![links[b].stream].up = Append(@, Request(b))]
  BY DEF SendRequest
<1>3. /\ links'[b].stream = links[b].stream /\ links'[b].ask = links[b].ask
      /\ links'[b].doing = "waiting"
      /\ \A d \in Bridges : d # b => links'[d] = links[d]
  BY <1>2 DEF ListInv, Shape
<1>4. /\ links[b].stream \in Nat /\ links[b].stream # 0 /\ links[b].stream <= MAX_STREAMS
      /\ links[b].ask \in Nat /\ links[b].ask # 0
  BY <1>1, CompanionAssumption DEF ListInv, Shape, PipeInv, Owned, NoStream
<1>s. PICK s \in Streams : s = links[b].stream
  BY <1>4 DEF Streams
<1>q. PICK q \in RecordShape : q = Request(b)
  BY <1>4 DEF Request, RecordShape
<1>5. q.by = b /\ ~IsHello(q) /\ q.ask = links[b].ask
  BY <1>4, <1>q DEF Request, IsHello
<1>6. /\ \A st \in Streams : Down(st)' = Down(st)
      /\ \A st \in Streams : st # s => Up(st)' = Up(st) /\ Sent(st)' = Sent(st)
      /\ \A r : r \in Sent(s)' <=> r \in Sent(s) \/ r = q
      /\ Up(s)' # <<>> /\ (Up(s) # <<>> => Up(s)'[1] = Up(s)[1])
      /\ DOMAIN Up(s) = 1 .. Len(Up(s)) /\ DOMAIN Up(s)' = 1 .. Len(Up(s)) + 1
      /\ Len(Up(s)') = Len(Up(s)) + 1 /\ Len(Up(s)) \in Nat
      /\ Up(s)'[Len(Up(s)) + 1] = q
      /\ \A k \in DOMAIN Up(s) : Up(s)'[k] = Up(s)[k]
  <2>1. pipes' = [pipes EXCEPT ![s].up = Append(@, q)]
    BY <1>2, <1>s, <1>q
  <2> QED BY <2>1, SentUp
\* Nothing else is in the stream.
<1>7. /\ \A r \in Sent(s) : IsHello(r)
      /\ Down(s) = <<>>
      /\ \A i \in DOMAIN connections : connections[i].stream = s => connections[i].output = <<>>
  <2>1. \A r : ~Awaits(b, r)
    BY <1>1 DEF Awaits
  <2>2. \A r \in Sent(s) : IsHello(r)
    BY <1>s, <2>1 DEF PipeInv, Awaited
  <2>3. Down(s) = <<>>
    <3>1. \A k \in DOMAIN Down(s) : FALSE
      BY <1>s, <2>1 DEF PipeInv, Awaited
    <3>2. Down(s) \in Seq(RecordShape)
      BY Typed DEF ListInv
    <3> QED BY <3>1, <3>2, NoElement
  <2>4. ASSUME NEW i \in DOMAIN connections, connections[i].stream = s
        PROVE  connections[i].output = <<>>
    <3>1. \A k \in DOMAIN connections[i].output : FALSE
      BY <1>s, <2>1, <2>4 DEF PipeInv, Awaited
    <3>2. connections[i].output \in Seq(RecordShape)
      BY Typed DEF ListInv
    <3> QED BY <3>1, <3>2, NoElement
  <2> QED BY <2>2, <2>3, <2>4
<1>8. Of(s, b) /\ \A d \in Bridges : Of(s, d) => d = b
  <2>1. Of(s, b)
    BY <1>s DEF Of
  <2> QED BY <2>1 DEF PipeInv, Owned
<1>9. \A st \in Streams, d \in Bridges : (Of(st, d)' <=> Of(st, d))
  BY <1>s, <1>3, <1>5, <1>6, <1>8 DEF Of
<1>10. \A st \in Streams : st # s => (Asks(st)' <=> Asks(st))
  BY <1>6 DEF Asks
<1>11. \A d \in Bridges : d # b => links[d].stream # s
  BY <1>8 DEF Of
<1>12. HelloThenRequest'
  <2>1. PICK n \in Nat : n = Len(Up(s))
    BY <1>6
  <2>2. \A k \in 1 .. n : IsHello(Up(s)[k]) /\ k = 1
    <3>1. \A k \in 1 .. n : Up(s)[k] \in Sent(s)
      BY <1>6, <2>1 DEF Sent
    <3> QED BY <1>6, <1>7, <2>1, <3>1 DEF PipeInv, HelloThenRequest
  <2>3. ASSUME NEW k \in 1 .. n + 1
        PROVE  /\ IsHello(Up(s)'[k]) => k = 1
               /\ ~IsHello(Up(s)'[k]) => k = n + 1
    <3>1. k \in 1 .. n \/ k = n + 1
      BY <2>3
    <3> QED BY <1>5, <1>6, <2>1, <2>2, <3>1
  <2> QED BY <1>6, <2>1, <2>3 DEF PipeInv, HelloThenRequest
<1>13. OnePlace'
  <2>1. ASSUME NEW st \in Streams
        PROVE  Len(Down(st)) <= 1 /\ (Down(st) # <<>> => ~Asks(st)')
    BY <1>7, <1>10 DEF PipeInv, OnePlace
  <2>2. ASSUME NEW st \in Streams, NEW i \in DOMAIN connections, connections[i].stream = st
        PROVE  /\ Len(connections[i].output) <= 1
               /\ connections[i].output # <<>> => Down(st) = <<>> /\ ~Asks(st)'
    BY <1>7, <1>10, <2>2 DEF PipeInv, OnePlace
  <2> QED BY <1>1, <1>6, <2>1, <2>2 DEF OnePlace
<1>14. Awaited'
  <2> SUFFICES ASSUME NEW d \in Bridges, NEW st \in Streams, links'[d].stream = st
               PROVE  /\ \A k \in DOMAIN Down(st) : Awaits(d, Down(st)[k])'
                      /\ \A r \in Sent(st)' : ~IsHello(r) => Awaits(d, r)'
                      /\ \A i \in DOMAIN connections : connections[i].stream = st =>
                           \A k \in DOMAIN connections[i].output :
                               Awaits(d, connections[i].output[k])'
    BY <1>1, <1>6 DEF Awaited
  <2>1. links[d].stream = st
    BY <1>3
  <2>2. CASE d = b
    <3>1. Awaits(b, q)'
      BY <1>3, <1>q DEF Awaits, Request
    <3>2. \A r \in Sent(s)' : ~IsHello(r) => Awaits(b, r)'
      BY <1>6, <1>7, <3>1
    <3>3. \A k \in DOMAIN <<>> : FALSE
      OBVIOUS
    <3> QED BY <1>1, <1>s, <1>7, <2>1, <2>2, <3>2, <3>3
  <2>3. CASE d # b
    <3>1. \A r : Awaits(d, r) => Awaits(d, r)'
      BY <1>3, <2>3 DEF Awaits, Request
    <3>2. st # s
      BY <1>11, <2>1, <2>3
    <3> QED BY <1>1, <1>6, <2>1, <3>1, <3>2 DEF PipeInv, Awaited
  <2> QED BY <2>2, <2>3
<1>15. Owned'
  BY <1>1, <1>3, <1>4, <1>6, <1>9 DEF PipeInv, Owned
<1>16. AsksInOrder'
  <2>1. ASSUME NEW st \in Streams, NEW r \in Sent(st)', NEW d \in Bridges, r.by = d, ~IsHello(r)
        PROVE  /\ r.ask <= links'[d].ask
               /\ links'[d].doing \in {"connected", "greeted"} => r.ask < links'[d].ask
               /\ links'[d].doing = "waiting" /\ links'[d].stream # st => r.ask < links'[d].ask
    <3>1. CASE st = s
      BY <1>s, <1>3, <1>4, <1>5, <1>6, <1>7, <2>1, <3>1
    <3>2. CASE st # s /\ d = b
      BY <1>1, <1>3, <1>6, <2>1, <3>2 DEF PipeInv, AsksInOrder
    <3>3. CASE st # s /\ d # b
      BY <1>1, <1>3, <1>6, <2>1, <3>3 DEF PipeInv, AsksInOrder
    <3> QED BY <3>1, <3>2, <3>3
  <2>2. ASSUME NEW st \in Streams, NEW later \in Streams, st < later,
               NEW r \in Sent(st)', NEW p \in Sent(later)', r.by = p.by, ~IsHello(r), ~IsHello(p)
        PROVE  r.ask < p.ask
    <3>1. CASE later = s
      <4>1. p = q /\ st # s
        BY <1>6, <1>7, <2>2, <3>1 DEF Streams
      <4>2. r \in Sent(st) /\ r.by = b
        BY <1>5, <1>6, <2>2, <4>1
      <4>3. r.ask < links[b].ask
        BY <1>1, <2>2, <4>2 DEF PipeInv, AsksInOrder
      <4> QED BY <1>5, <4>1, <4>3
    <3>2. CASE st = s
      <4>1. r = q /\ later # s
        BY <1>6, <1>7, <2>2, <3>2 DEF Streams
      <4>2. Of(later, b)
        BY <1>5, <1>6, <2>2, <4>1 DEF Of
      <4>3. later <= s
        BY <1>4, <1>s, <4>2 DEF PipeInv, Owned, NoStream
      <4> QED BY <2>2, <3>2, <4>3 DEF Streams
    <3>3. CASE st # s /\ later # s
      BY <1>6, <2>2, <3>3 DEF PipeInv, AsksInOrder
    <3> QED BY <3>1, <3>2, <3>3
  <2>3. \A d \in Bridges :
          /\ heard[d] <= links'[d].ask
          /\ links'[d].doing \in {"connected", "greeted"} => heard[d] < links'[d].ask
    BY <1>1, <1>3 DEF PipeInv, AsksInOrder
  <2>4. heard' \in [Bridges -> Nat]
    BY <1>1 DEF PipeInv, AsksInOrder
  <2> QED BY <1>1, <2>1, <2>2, <2>3, <2>4 DEF AsksInOrder
<1>17. Greeted'
  BY <1>1, <1>5, <1>6, <1>9 DEF PipeInv, Greeted
<1>18. HelloFirst'
  <2>1. \A i \in DOMAIN connections :
          connections[i].stream = s /\ connections[i].slot = NoSlot => Up(s) # <<>>
    BY <1>1, <1>s DEF PipeInv, HelloSaid
  <2>2. \A j \in DOMAIN backlog : backlog[j] = s => Up(s) # <<>>
    BY <1>1, <1>s DEF PipeInv, HelloSaid
  <2> QED BY <1>1, <1>6, <2>1, <2>2 DEF PipeInv, HelloFirst
<1>19. NothingSaid'
  BY <1>1, <1>3, <1>6, <1>11 DEF PipeInv, NothingSaid
<1>20. HelloSaid'
  BY <1>1, <1>s, <1>3, <1>6 DEF PipeInv, HelloSaid
<1>21. Queue'
  BY <1>1 DEF PipeInv, Queue
<1>22. OldFirst'
  <2> SUFFICES ASSUME NEW st \in Streams, NEW later \in Streams, NEW d \in Bridges,
                      NEW i \in DOMAIN connections, NEW j \in DOMAIN connections,
                      connections[i].stream = st, connections[j].stream = later, st < later,
                      Of(st, d), Of(later, d), connections[i].slot = NoSlot, Up(st)' # <<>>
               PROVE  1 <= at /\ at <= i
    BY <1>1, <1>9 DEF OldFirst
  <2>1. st # s
    <3> SUFFICES ASSUME st = s PROVE FALSE
      OBVIOUS
    <3>1. Of(later, b)
      BY <1>8
    <3>2. later <= links[b].stream
      BY <1>4, <3>1 DEF PipeInv, Owned, NoStream
    <3> QED BY <1>s, <3>2 DEF Streams
  <2> QED BY <1>6, <2>1 DEF PipeInv, OldFirst
<1>23. News'
  <2> SUFFICES ASSUME NEW st \in Streams, Live(st), NEW r \in Sent(st)', NEW d \in Bridges,
                      r.by = d, ~IsHello(r)
               PROVE  heard[d] < r.ask \/ Doomed(st, d)
    BY <1>1 DEF News, Live, Doomed
  <2>1. CASE r \in Sent(st)
    BY <2>1 DEF PipeInv, News
  <2>2. CASE r \notin Sent(st)
    <3>1. r = q
      BY <1>6, <2>2
    <3> QED BY <1>1, <1>5, <3>1 DEF PipeInv, AsksInOrder
  <2> QED BY <2>1, <2>2
<1> QED BY <1>12, <1>13, <1>14, <1>15, <1>16, <1>17, <1>18, <1>19, <1>20, <1>21, <1>22, <1>23
        DEF PipeInv

\* A new stream is empty, and the last in the listener's queue.
LEMMA ConnectPipe ==
    ASSUME ListInv, PipeInv, NEW b \in Bridges, Connect(b)
    PROVE  PipeInv'
<1>1. /\ connections' = connections /\ at' = at /\ batch' = batch /\ heard' = heard
      /\ opened' = opened + 1 /\ opened \in Nat /\ opened < MAX_STREAMS
      /\ links[b].stream = 0 /\ links[b].ask < MAX_ASKS /\ links[b].ask \in Nat
      /\ backlog' = Append(backlog, opened + 1) /\ backlog \in Seq(Streams)
  BY DEF Connect, ListInv, Shape, NoStream
<1>s. PICK s \in Streams : s = opened + 1
  BY <1>1, CompanionAssumption DEF Streams
<1>2. /\ links' = [links EXCEPT ![b] = [stream |-> s, doing |-> "connected", ask |-> links[b].ask + 1]]
      /\ pipes' = [pipes EXCEPT ![s].open = TRUE]
  BY <1>1, <1>s DEF Connect, ListInv, Shape
<1>3. /\ links'[b].stream = s /\ links'[b].ask = links[b].ask + 1
      /\ links'[b].doing = "connected" /\ links[b].doing = "idle"
      /\ \A d \in Bridges : d # b => links'[d] = links[d]
  BY <1>1, <1>2 DEF ListInv, Shape, PipeInv, Owned, NoStream
<1>4. \A st \in Streams : Up(st)' = Up(st) /\ Down(st)' = Down(st)
  BY <1>2 DEF ListInv, Shape, Up, Down
<1>5. \A st \in Streams : Sent(st)' = Sent(st) /\ (Asks(st)' <=> Asks(st))
  BY <1>4 DEF Sent, Asks
<1>6. \A d \in Bridges : ~Of(s, d)
  <2>1. ~(s <= opened)
    BY <1>1, <1>s
  <2> QED BY <2>1 DEF PipeInv, Owned
<1>7. /\ Sent(s) = {} /\ Up(s) = <<>> /\ Down(s) = <<>>
      /\ \A d \in Bridges : links[d].stream # s
  <2>1. \A r \in Sent(s) : FALSE
    BY <1>6, Typed DEF Of, ListInv
  <2>2. Up(s) = <<>>
    BY <2>1, Typed DEF ListInv
  <2>3. Down(s) = <<>>
    BY <1>1, <1>s DEF PipeInv, Owned
  <2> QED BY <1>6, <2>1, <2>2, <2>3 DEF Of
<1>8. /\ \A i \in DOMAIN connections : connections[i].stream < s
      /\ \A j \in DOMAIN backlog : backlog[j] < s
  <2>1. /\ \A i \in DOMAIN connections : connections[i].stream \in Streams
        /\ \A j \in DOMAIN backlog : backlog[j] \in Streams
    BY Typed DEF ListInv
  <2>2. /\ \A i \in DOMAIN connections : connections[i].stream <= opened
        /\ \A j \in DOMAIN backlog : backlog[j] <= opened
    BY DEF ListInv, StreamsDistinct
  <2> QED BY <1>1, <1>s, <2>1, <2>2 DEF Streams
<1>9. \A i \in DOMAIN connections : connections[i].stream # s
  BY <1>8 DEF Streams
<1>10. PICK n \in Nat : n = Len(backlog)
  BY <1>1
<1>11. /\ DOMAIN backlog = 1 .. n /\ DOMAIN backlog' = 1 .. n + 1
       /\ backlog'[n + 1] = s /\ \A j \in 1 .. n : backlog'[j] = backlog[j]
  BY <1>1, <1>s, <1>10
<1>12. \A j \in DOMAIN backlog' :
         (j \in DOMAIN backlog /\ backlog'[j] = backlog[j]) \/ (j = n + 1 /\ backlog'[j] = s)
  BY <1>10, <1>11
<1>13. /\ \A st \in Streams, d \in Bridges : st # s => (Of(st, d)' <=> Of(st, d))
       /\ \A d \in Bridges : Of(s, d)' <=> d = b
  <2>1. ASSUME NEW st \in Streams, NEW d \in Bridges, st # s
        PROVE  Of(st, d)' <=> Of(st, d)
    <3>1. links'[d].stream = st <=> links[d].stream = st
      <4>1. CASE d = b
        BY <1>1, <1>3, <2>1, <4>1 DEF Streams
      <4>2. CASE d # b
        BY <1>3, <4>2
      <4> QED BY <4>1, <4>2
    <3> QED BY <1>5, <3>1 DEF Of
  <2>2. \A d \in Bridges : Of(s, d)' <=> d = b
    BY <1>3, <1>5, <1>7 DEF Of
  <2> QED BY <2>1, <2>2
<1>14. HelloThenRequest'
  BY <1>4 DEF PipeInv, HelloThenRequest
<1>15. OnePlace'
  BY <1>1, <1>4, <1>5 DEF PipeInv, OnePlace
<1>16. Awaited'
  <2> SUFFICES ASSUME NEW d \in Bridges, NEW st \in Streams, links'[d].stream = st
               PROVE  /\ \A k \in DOMAIN Down(st) : Awaits(d, Down(st)[k])'
                      /\ \A r \in Sent(st) : ~IsHello(r) => Awaits(d, r)'
                      /\ \A i \in DOMAIN connections : connections[i].stream = st =>
                           \A k \in DOMAIN connections[i].output :
                               Awaits(d, connections[i].output[k])'
    BY <1>1, <1>4, <1>5 DEF Awaited
  <2>1. CASE d = b
    <3>1. \A k \in DOMAIN <<>> : FALSE
      OBVIOUS
    <3> QED BY <1>3, <1>7, <1>9, <2>1, <3>1
  <2>2. CASE d # b
    <3>1. \A r : Awaits(d, r) => Awaits(d, r)'
      BY <1>3, <2>2 DEF Awaits, Request
    <3>2. links[d].stream = st
      BY <1>3, <2>2
    <3> QED BY <1>1, <1>4, <3>1, <3>2 DEF PipeInv, Awaited
  <2> QED BY <2>1, <2>2
<1>17. Owned'
  <2>1. opened' <= MAX_STREAMS /\ \A st \in Streams : st > opened' => Down(st)' = <<>>
    BY <1>1, <1>4, CompanionAssumption DEF PipeInv, Owned, Streams
  <2>2. \A d \in Bridges : links[d].stream \in Nat
    BY Typed DEF ListInv
  <2>3. \A d \in Bridges : links'[d].stream <= opened' /\ links'[d].ask <= MAX_ASKS
    BY <1>1, <1>s, <1>3, <2>2, CompanionAssumption DEF PipeInv, Owned
  <2>4. \A d \in Bridges :
          links'[d].doing # "idle" => links'[d].stream # NoStream /\ links'[d].ask # 0
    BY <1>1, <1>3 DEF PipeInv, Owned, NoStream, Streams
  <2>5. ASSUME NEW st \in Streams, NEW d \in Bridges, Of(st, d)'
        PROVE  /\ \A e \in Bridges : Of(st, e)' => e = d
               /\ st <= opened'
               /\ links'[d].stream # NoStream => st <= links'[d].stream
    <3>1. CASE st = s
      BY <1>1, <1>s, <1>3, <1>13, <2>5, <3>1 DEF Streams
    <3>2. CASE st # s
      <4>1. Of(st, d) /\ st <= opened
        BY <1>13, <2>5, <3>2 DEF PipeInv, Owned
      <4>2. CASE d = b
        BY <1>1, <1>s, <1>3, <1>13, <3>2, <4>1, <4>2 DEF PipeInv, Owned, Streams
      <4>3. CASE d # b
        BY <1>1, <1>3, <1>13, <3>2, <4>1, <4>3 DEF PipeInv, Owned, Streams
      <4> QED BY <4>2, <4>3
    <3> QED BY <3>1, <3>2
  <2> QED BY <2>1, <2>3, <2>4, <2>5 DEF Owned
<1>18. AsksInOrder'
  <2>1. ASSUME NEW st \in Streams, NEW r \in Sent(st), NEW d \in Bridges, r.by = d, ~IsHello(r)
        PROVE  /\ r.ask <= links'[d].ask
               /\ links'[d].doing \in {"connected", "greeted"} => r.ask < links'[d].ask
               /\ links'[d].doing = "waiting" /\ links'[d].stream # st => r.ask < links'[d].ask
    <3>1. r.ask <= links[d].ask /\ r.ask \in Nat
      BY <2>1, Typed DEF PipeInv, AsksInOrder, ListInv
    <3>2. CASE d = b
      BY <1>1, <1>3, <3>1, <3>2
    <3>3. CASE d # b
      BY <1>3, <2>1, <3>3 DEF PipeInv, AsksInOrder
    <3> QED BY <3>2, <3>3
  <2>2. ASSUME NEW d \in Bridges
        PROVE  /\ heard[d] <= links'[d].ask
               /\ links'[d].doing \in {"connected", "greeted"} => heard[d] < links'[d].ask
    <3>1. heard[d] <= links[d].ask /\ heard[d] \in Nat
      BY DEF PipeInv, AsksInOrder
    <3>2. CASE d = b
      BY <1>1, <1>3, <3>1, <3>2
    <3>3. CASE d # b
      BY <1>3, <3>3 DEF PipeInv, AsksInOrder
    <3> QED BY <3>2, <3>3
  <2> QED BY <1>1, <1>5, <2>1, <2>2 DEF PipeInv, AsksInOrder
<1>19. Greeted'
  BY <1>1, <1>5, <1>9, <1>13 DEF PipeInv, Greeted
<1>20. HelloFirst'
  BY <1>1, <1>4, <1>7, <1>12 DEF PipeInv, HelloFirst
<1>21. NothingSaid'
  BY <1>1, <1>3, <1>4, <1>7, <1>9 DEF PipeInv, NothingSaid
<1>22. HelloSaid'
  BY <1>1, <1>3, <1>4, <1>7, <1>12 DEF PipeInv, HelloSaid
<1>23. Queue'
  <2>1. ASSUME NEW i \in DOMAIN backlog', NEW j \in DOMAIN backlog', i < j
        PROVE  backlog'[i] < backlog'[j]
    <3>1. i \in DOMAIN backlog
      BY <1>10, <1>11, <2>1
    <3> QED BY <1>8, <1>11, <1>12, <2>1, <3>1 DEF PipeInv, Queue
  <2>2. \A i \in DOMAIN connections, j \in DOMAIN backlog' : connections[i].stream < backlog'[j]
    BY <1>8, <1>12 DEF PipeInv, Queue
  <2> QED BY <1>1, <2>1, <2>2 DEF Queue
<1>24. OldFirst'
  BY <1>1, <1>4, <1>9, <1>13 DEF PipeInv, OldFirst
<1>25. News'
  <2>1. \A st \in Streams : Live(st)' => Live(st) \/ st = s
    BY <1>1, <1>12 DEF Live
  <2> QED BY <1>1, <1>5, <1>7, <2>1 DEF PipeInv, News, Doomed
<1> QED BY <1>14, <1>15, <1>16, <1>17, <1>18, <1>19, <1>20, <1>21, <1>22, <1>23, <1>24, <1>25
        DEF PipeInv

\* A bridge that keeps its stream begins its next request.
LEMMA ReusePipe ==
    ASSUME ListInv, PipeInv, NEW b \in Bridges, Reuse(b)
    PROVE  PipeInv'
<1>1. /\ connections' = connections /\ at' = at /\ batch' = batch /\ heard' = heard
      /\ opened' = opened /\ backlog' = backlog /\ pipes' = pipes
      /\ links[b].doing = "idle" /\ links[b].stream # 0
      /\ links[b].ask \in Nat /\ links[b].ask < MAX_ASKS
  BY DEF Reuse, ListInv, Shape, NoStream
<1>2. links' = [links EXCEPT ![b] = [[links[b] EXCEPT !.doing = "greeted"]
                                       EXCEPT !.ask = links[b].ask + 1]]
  BY DEF Reuse, ListInv, Shape
<1>3. /\ links'[b].stream = links[b].stream /\ links'[b].ask = links[b].ask + 1
      /\ links'[b].doing = "greeted"
      /\ \A d \in Bridges : d # b => links'[d] = links[d]
  BY <1>2 DEF ListInv, Shape
<1>4. \A d \in Bridges : links'[d].stream = links[d].stream
  BY <1>3
<1>5. \A st \in Streams : Up(st)' = Up(st) /\ Down(st)' = Down(st)
                          /\ Sent(st)' = Sent(st) /\ (Asks(st)' <=> Asks(st))
  BY <1>1 DEF Up, Down, Sent, Asks
<1>6. \A st \in Streams, d \in Bridges : (Of(st, d)' <=> Of(st, d))
  BY <1>4, <1>5 DEF Of
<1>7. HelloThenRequest' /\ OnePlace'
  BY <1>1, <1>5 DEF PipeInv, HelloThenRequest, OnePlace
<1>8. Awaited'
  <2>1. \A d \in Bridges : \A r : Awaits(d, r) => Awaits(d, r)'
    BY <1>1, <1>3 DEF Awaits, Request
  <2> SUFFICES ASSUME NEW d \in Bridges, NEW st \in Streams, links[d].stream = st
               PROVE  /\ \A k \in DOMAIN Down(st) : Awaits(d, Down(st)[k])'
                      /\ \A r \in Sent(st) : ~IsHello(r) => Awaits(d, r)'
                      /\ \A i \in DOMAIN connections : connections[i].stream = st =>
                           \A k \in DOMAIN connections[i].output :
                               Awaits(d, connections[i].output[k])'
    BY <1>1, <1>4, <1>5 DEF Awaited
  <2> QED BY <1>1, <1>5, <2>1 DEF PipeInv, Awaited
<1>9. Owned'
  <2>1. \A d \in Bridges : links'[d].ask <= MAX_ASKS
    BY <1>1, <1>3, CompanionAssumption DEF PipeInv, Owned
  <2>2. \A d \in Bridges :
          links'[d].doing # "idle" => links'[d].stream # NoStream /\ links'[d].ask # 0
    BY <1>1, <1>3 DEF PipeInv, Owned, NoStream
  <2> QED BY <1>1, <1>4, <1>5, <1>6, <2>1, <2>2 DEF PipeInv, Owned
<1>10. AsksInOrder'
  <2>1. ASSUME NEW st \in Streams, NEW r \in Sent(st), NEW d \in Bridges, r.by = d, ~IsHello(r)
        PROVE  /\ r.ask <= links'[d].ask
               /\ links'[d].doing \in {"connected", "greeted"} => r.ask < links'[d].ask
               /\ links'[d].doing = "waiting" /\ links'[d].stream # st => r.ask < links'[d].ask
    <3>1. r.ask <= links[d].ask /\ r.ask \in Nat
      BY <2>1, Typed DEF PipeInv, AsksInOrder, ListInv
    <3>2. CASE d = b
      BY <1>1, <1>3, <3>1, <3>2
    <3>3. CASE d # b
      BY <1>3, <2>1, <3>3 DEF PipeInv, AsksInOrder
    <3> QED BY <3>2, <3>3
  <2>2. ASSUME NEW d \in Bridges
        PROVE  /\ heard[d] <= links'[d].ask
               /\ links'[d].doing \in {"connected", "greeted"} => heard[d] < links'[d].ask
    <3>1. heard[d] <= links[d].ask /\ heard[d] \in Nat
      BY DEF PipeInv, AsksInOrder
    <3>2. CASE d = b
      BY <1>1, <1>3, <3>1, <3>2
    <3>3. CASE d # b
      BY <1>3, <3>3 DEF PipeInv, AsksInOrder
    <3> QED BY <3>2, <3>3
  <2> QED BY <1>1, <1>5, <2>1, <2>2 DEF PipeInv, AsksInOrder
<1>11. Greeted'
  BY <1>1, <1>5, <1>6 DEF PipeInv, Greeted
<1>12. HelloFirst'
  BY <1>1, <1>5 DEF PipeInv, HelloFirst
<1>13. NothingSaid'
  BY <1>1, <1>3, <1>5 DEF PipeInv, NothingSaid
<1>14. HelloSaid'
  <2>1. \A d \in Bridges : links'[d].doing # "connected" => links[d].doing # "connected"
    BY <1>1, <1>3
  <2> QED BY <1>1, <1>4, <1>5, <2>1 DEF PipeInv, HelloSaid
<1>15. Queue' /\ OldFirst' /\ News'
  <2>1. Queue'
    BY <1>1 DEF PipeInv, Queue
  <2>2. OldFirst'
    BY <1>1, <1>5, <1>6 DEF PipeInv, OldFirst
  <2>3. News'
    BY <1>1, <1>5 DEF PipeInv, News, Live, Doomed
  <2> QED BY <2>1, <2>2, <2>3
<1> QED BY <1>7, <1>8, <1>9, <1>10, <1>11, <1>12, <1>13, <1>14, <1>15 DEF PipeInv

\* A bridge that has its answer, or gives its stream up, waits for nothing: its
\* links say less than before, and what it sent stays where it is.
LEMMA IdlePipe ==
    ASSUME ListInv, PipeInv, NEW b \in Bridges, Answered(b) \/ Leave(b)
    PROVE  PipeInv'
<1>1. /\ connections' = connections /\ at' = at /\ batch' = batch /\ heard' = heard
      /\ opened' = opened /\ backlog' = backlog
  BY DEF Answered, Leave
<1>2. /\ links'[b].stream \in {links[b].stream, 0} /\ links'[b].ask = links[b].ask
      /\ links'[b].doing = "idle"
      /\ \A d \in Bridges : d # b => links'[d] = links[d]
      /\ links'[b].stream # 0 => links[b].doing = "waiting"
  <2>1. CASE Answered(b)
    BY <2>1 DEF Answered, ListInv, Shape
  <2>2. CASE Leave(b)
    <3>1. links' = [links EXCEPT ![b] = [[links[b] EXCEPT !.doing = "idle"] EXCEPT !.stream = 0]]
      BY <2>2 DEF Leave, HangUp, NoStream, ListInv, Shape
    <3> QED BY <3>1 DEF ListInv, Shape
  <2> QED BY <2>1, <2>2
<1>3. /\ \A st \in Streams : Up(st)' = Up(st)
      /\ \A st \in Streams : Down(st)' = Down(st) \/ (Down(st)' = <<>> /\ st = links[b].stream)
      /\ \A st \in Streams : st = links'[b].stream => Down(st)' = <<>>
  <2>0. pipes \in [Streams -> [up : Seq(RecordShape), down : Seq(RecordShape), open : BOOLEAN]]
    BY DEF ListInv, Shape
  <2>1. CASE Answered(b)
    <3>1. pipes' = [pipes EXCEPT ![links[b].stream].down = Tail(@)]
          /\ links[b].doing = "waiting" /\ pipes[links[b].stream].down # <<>>
          /\ links'[b].stream = links[b].stream
      BY <2>1, <1>2 DEF Answered, ListInv, Shape
    <3>2. links[b].stream \in Nat /\ links[b].stream # 0 /\ links[b].stream <= MAX_STREAMS
      BY <3>1, CompanionAssumption DEF ListInv, Shape, PipeInv, Owned, NoStream
    <3>3. PICK s \in Streams : s = links[b].stream
      BY <3>2 DEF Streams
    <3>4. pipes' = [pipes EXCEPT ![s] = [pipes[s] EXCEPT !.down = Tail(pipes[s].down)]]
      BY <2>0, <3>1, <3>3
    <3>5. \A st \in Streams : st # s => pipes'[st] = pipes[st]
      BY <2>0, <3>4
    <3>6. pipes'[s].up = pipes[s].up /\ pipes'[s].down = Tail(pipes[s].down)
      BY <2>0, <3>4
    <3>7. PICK answers \in Seq(RecordShape) : answers = pipes[s].down
      BY <2>0
    <3>8. Len(answers) <= 1 /\ answers # <<>>
      BY <3>1, <3>3, <3>7 DEF PipeInv, OnePlace, Down
    <3>9. Tail(answers) = <<>>
      <4>1. PICK n \in Nat : n = Len(answers)
        BY <3>7
      <4>2. n = 1
        <5>1. n # 0
          BY <3>7, <3>8, <4>1
        <5> QED BY <3>8, <4>1, <5>1
      <4>3. Tail(answers) \in Seq(RecordShape) /\ Len(Tail(answers)) = Len(answers) - 1
        BY <3>8
      <4>4. PICK left \in Seq(RecordShape) : left = Tail(answers)
        BY <4>3
      <4>5. Len(left) = 0
        BY <4>1, <4>2, <4>3, <4>4
      <4>6. \A k \in DOMAIN left : FALSE
        BY <4>5
      <4> QED BY <4>4, <4>6, NoElement
    <3> QED BY <3>1, <3>3, <3>5, <3>6, <3>7, <3>9 DEF Up, Down
  <2>2. CASE Leave(b)
    <3>1. pipes' = [pipes EXCEPT ![links[b].stream].open = FALSE] /\ links'[b].stream = 0
      BY <2>2 DEF Leave, HangUp, NoStream, ListInv, Shape
    <3>2. \A st \in Streams : pipes'[st].up = pipes[st].up /\ pipes'[st].down = pipes[st].down
      BY <2>0, <3>1
    <3> QED BY <3>1, <3>2 DEF Up, Down, Streams
  <2> QED BY <2>1, <2>2
<1>4. \A st \in Streams : Sent(st)' = Sent(st) /\ (Asks(st)' <=> Asks(st))
  BY <1>3 DEF Sent, Asks
<1>5. \A st \in Streams, d \in Bridges : links'[d].stream = st => links[d].stream = st
  BY <1>2 DEF Streams
<1>6. \A st \in Streams, d \in Bridges : Of(st, d)' => Of(st, d)
  BY <1>4, <1>5 DEF Of
<1>7. HelloThenRequest'
  BY <1>3 DEF PipeInv, HelloThenRequest
<1>8. Len(<<>>) = 0 /\ \A k \in DOMAIN <<>> : FALSE
  OBVIOUS
<1>9. OnePlace'
  <2>1. \A st \in Streams : Len(Down(st)') <= 1 /\ (Down(st)' # <<>> => ~Asks(st))
    BY <1>3, <1>8 DEF PipeInv, OnePlace
  <2>2. ASSUME NEW st \in Streams, NEW i \in DOMAIN connections, connections[i].stream = st
        PROVE  /\ Len(connections[i].output) <= 1
               /\ connections[i].output # <<>> => Down(st)' = <<>> /\ ~Asks(st)
    BY <1>3, <2>2 DEF PipeInv, OnePlace
  <2> QED BY <1>1, <1>4, <2>1, <2>2 DEF OnePlace
<1>10. Awaited'
  <2> SUFFICES ASSUME NEW d \in Bridges, NEW st \in Streams, links'[d].stream = st
               PROVE  /\ \A k \in DOMAIN Down(st)' : \A r : r = Down(st)'[k] => Awaits(d, r)'
                      /\ \A r \in Sent(st) : ~IsHello(r) => Awaits(d, r)'
                      /\ \A i \in DOMAIN connections : connections[i].stream = st =>
                           \A k \in DOMAIN connections[i].output :
                               Awaits(d, connections[i].output[k])'
    BY <1>1, <1>4 DEF Awaited
  <2>1. links[d].stream = st
    BY <1>5
  <2>2. CASE d = b
\* The answer was all there was.
    <3>1. st # 0 /\ links[b].doing = "waiting" /\ Down(st)' = <<>>
      BY <1>2, <1>3, <2>2 DEF Streams
    <3>2. Answered(b) /\ Down(st) # <<>>
      <4>1. ~Leave(b)
        BY <2>2, <3>1 DEF Leave, HangUp, NoStream, ListInv, Shape
      <4> QED BY <2>1, <2>2, <4>1 DEF Answered, Down
    <3>3. ~Asks(st) /\ \A i \in DOMAIN connections : connections[i].stream = st =>
            connections[i].output = <<>>
      BY <3>2 DEF PipeInv, OnePlace
    <3> QED BY <1>8, <2>2, <3>1, <3>3 DEF Asks
  <2>3. CASE d # b
    <3>1. \A r : Awaits(d, r) => Awaits(d, r)'
      BY <1>2, <2>3 DEF Awaits, Request
    <3> QED BY <1>1, <1>3, <1>8, <2>1, <3>1 DEF PipeInv, Awaited
  <2> QED BY <2>2, <2>3
<1>11. Owned'
  <2>1. \A d \in Bridges : links'[d].stream <= opened /\ links'[d].ask <= MAX_ASKS
    <3>1. 0 <= opened /\ \A d \in Bridges : links[d].stream <= opened /\ links[d].ask <= MAX_ASKS
      BY DEF PipeInv, Owned, ListInv, Shape
    <3>2. \A d \in Bridges : links'[d].stream \in {links[d].stream, 0} /\ links'[d].ask = links[d].ask
      BY <1>2
    <3> QED BY <3>1, <3>2
  <2>2. \A d \in Bridges :
          links'[d].doing # "idle" => links'[d].stream # NoStream /\ links'[d].ask # 0
    BY <1>2 DEF PipeInv, Owned
  <2>3. \A st \in Streams : st > opened => Down(st)' = <<>>
    BY <1>3 DEF PipeInv, Owned
  <2>4. ASSUME NEW st \in Streams, NEW d \in Bridges, Of(st, d)'
        PROVE  /\ \A e \in Bridges : Of(st, e)' => e = d
               /\ st <= opened
               /\ links'[d].stream # NoStream => st <= links'[d].stream
    BY <1>2, <1>6, <2>4 DEF PipeInv, Owned, NoStream
  <2> QED BY <1>1, <2>1, <2>2, <2>3, <2>4 DEF PipeInv, Owned
<1>12. AsksInOrder'
  BY <1>1, <1>2, <1>4 DEF PipeInv, AsksInOrder
<1>13. Greeted'
  BY <1>1, <1>4, <1>6 DEF PipeInv, Greeted
<1>14. HelloFirst'
  BY <1>1, <1>3 DEF PipeInv, HelloFirst
<1>15. NothingSaid'
  <2>1. \A d \in Bridges : links'[d].doing = "connected" => links'[d] = links[d]
    BY <1>2
  <2> QED BY <1>1, <1>3, <2>1 DEF PipeInv, NothingSaid
<1>16. HelloSaid'
  <2>1. \A d \in Bridges, st \in Streams :
          links'[d].stream = st /\ links'[d].doing # "connected" => links[d].doing # "connected"
    BY <1>2 DEF Streams
  <2> QED BY <1>1, <1>3, <1>5, <2>1 DEF PipeInv, HelloSaid
<1>17. Queue'
  BY <1>1 DEF PipeInv, Queue
<1>18. OldFirst'
  BY <1>1, <1>3, <1>6 DEF PipeInv, OldFirst
<1>19. News'
  BY <1>1, <1>4 DEF PipeInv, News, Live, Doomed
<1> QED BY <1>7, <1>9, <1>10, <1>11, <1>12, <1>13, <1>14, <1>15, <1>16, <1>17, <1>18, <1>19
        DEF PipeInv

\* Before anybody connects nothing is on its way.
LEMMA InitPipe ==
    Init => PipeInv
<1> SUFFICES ASSUME Init PROVE PipeInv
  OBVIOUS
<1>1. /\ backlog = <<>> /\ connections = <<>> /\ opened = 0
      /\ links = [b \in Bridges |-> [stream |-> 0, doing |-> "idle", ask |-> 0]]
      /\ pipes = [st \in Streams |-> [up |-> <<>>, down |-> <<>>, open |-> FALSE]]
      /\ heard = [b \in Bridges |-> 0]
  BY DEF Init, NoStream
<1>2. Len(<<>>) = 0 /\ \A k \in DOMAIN <<>> : FALSE
  OBVIOUS
<1>3. \A st \in Streams : Up(st) = <<>> /\ Down(st) = <<>>
  BY <1>1 DEF Up, Down
<1>4. \A st \in Streams : Sent(st) = {} /\ ~Asks(st)
  BY <1>2, <1>3 DEF Sent, Asks
<1>5. \A b \in Bridges : links[b].stream = 0 /\ links[b].ask = 0 /\ links[b].doing = "idle"
  BY <1>1
<1>6. \A st \in Streams, b \in Bridges : links[b].stream # st /\ ~Of(st, b)
  BY <1>4, <1>5 DEF Of, Streams
<1>7. HelloThenRequest
  BY <1>2, <1>3 DEF HelloThenRequest
<1>8. OnePlace
  BY <1>1, <1>2, <1>3, <1>4 DEF OnePlace
<1>9. Awaited /\ NothingSaid /\ HelloSaid
  BY <1>6 DEF Awaited, NothingSaid, HelloSaid
<1>10. Owned
  BY <1>1, <1>3, <1>5, <1>6, CompanionAssumption DEF Owned
<1>11. AsksInOrder
  BY <1>1, <1>4, <1>5 DEF AsksInOrder
<1>12. Greeted /\ HelloFirst /\ Queue /\ OldFirst
  BY <1>1, <1>2 DEF Greeted, HelloFirst, Queue, OldFirst
<1>13. News
  BY <1>4 DEF News
<1> QED BY <1>7, <1>8, <1>9, <1>10, <1>11, <1>12, <1>13 DEF PipeInv

\* Every step keeps what is said of the streams, and no bridge is heard again with
\* an older request.
LEMMA NextPipe ==
    ASSUME ListInv, PipeInv, [Next]_vars
    PROVE  PipeInv' /\ \A b \in Bridges : heard'[b] >= heard[b]
<1>0. heard' = heard => \A b \in Bridges : heard'[b] >= heard[b]
  BY DEF PipeInv, AsksInOrder
<1>1. CASE UNCHANGED vars
  <2>1. SameContents /\ at' = at /\ batch' = batch /\ connections' = connections /\ heard' = heard
    BY <1>1 DEF vars, SameContents, SameHolders
  <2>2. OldFirst' /\ News'
    BY <2>1, SameContentsPipe DEF PipeInv, OldFirst, News, Doomed
  <2> QED BY <1>0, <2>1, <2>2, SameContentsPipe DEF PipeInv
<1>2. CASE Expire \/ Fails \/ Reject
  <2>1. Drop /\ at \in DOMAIN connections
    BY <1>2 DEF Expire, Fails, Reject, Polling, Handling
  <2>2. batch <= 0 \/ connections[at].slot = NoSlot
    <3>1. CASE Expire \/ Fails
      BY <3>1 DEF Expire, Fails, Polling, Writing, Reading
    <3>2. CASE Reject
      <4> SUFFICES ASSUME connections[at].slot # NoSlot PROVE FALSE
        OBVIOUS
      <4>1. IsHello(Record) /\ batch > 0
        BY <3>2 DEF Reject, Current, Handling
      <4>2. PICK t \in Streams : t = connections[at].stream
        BY <2>1, Typed DEF ListInv
      <4>3. Record \in Sent(t)
        <5>1. Up(t) \in Seq(RecordShape) /\ batch \in Int /\ batch <= Len(Up(t))
          BY <4>1, <4>2, Typed DEF ListInv, Shape, Pipe, Current, Up
        <5>2. 1 \in DOMAIN Up(t) /\ Head(Up(t)) = Up(t)[1]
          BY <4>1, <5>1
        <5> QED BY <4>2, <5>2 DEF Record, Sent, Pipe, Current, Up
      <4> QED BY <2>1, <4>1, <4>2, <4>3 DEF PipeInv, Greeted
    <3> QED BY <1>2, <3>1, <3>2
  <2>3. heard' = heard
    BY <2>1 DEF Drop
  <2> QED BY <1>0, <2>1, <2>2, <2>3, DropPipe
<1>3. CASE Accept \/ Write \/ WriteBlocks \/ NothingToRead \/ Read \/ Greet
  <2>1. heard' = heard
    BY <1>3 DEF Accept, Write, WriteBlocks, NothingToRead, Read, Greet
  <2> QED BY <1>0, <1>3, <2>1, AcceptPipe, WritePipe, PassedPipe, ReadPipe, GreetPipe
<1>4. CASE Exchange
  BY <1>4, ExchangePipe
<1>5. ASSUME NEW elapsed \in Nat, EndOfPass(elapsed)
      PROVE  PipeInv' /\ \A b \in Bridges : heard'[b] >= heard[b]
  BY <1>0, <1>5, EndPipe DEF EndOfPass
<1>6. CASE TimePasses
  BY <1>5, <1>6, CompanionAssumption DEF TimePasses
<1>7. ASSUME NEW b \in Bridges,
             Connect(b) \/ SendHello(b) \/ Reuse(b) \/ SendRequest(b) \/ Answered(b) \/ Leave(b)
      PROVE  PipeInv' /\ \A d \in Bridges : heard'[d] >= heard[d]
  <2>1. heard' = heard
    BY <1>7 DEF Connect, SendHello, Reuse, SendRequest, Answered, Leave
  <2>2. PipeInv'
    BY <1>7, ConnectPipe, SendHelloPipe, ReusePipe, SendRequestPipe, IdlePipe
  <2> QED BY <1>0, <2>1, <2>2
<1>8. CASE Loop
  BY <1>2, <1>3, <1>4, <1>5, <1>6, <1>8 DEF Loop
<1> QED BY <1>1, <1>7, <1>8 DEF Next

-----------------------------------------------------------------------------
(* The bounds.                                                              *)

Listed == [stream : Streams, slot : Slots \cup {NoSlot}, output : Seq(Records), idle : 0 .. IDLE]

\* Answers are of requests that were made, and the list and the idle times keep
\* their limits.
Bounded ==
    /\ \A st \in Streams : Down(st) \in Seq(Records)
    /\ connections \in Seq(Listed)
    /\ Len(connections) <= MAX_CONNECTIONS
    /\ at <= Len(connections) + 1 /\ batch >= Writing

\* What a bridge sent is one of its records.
LEMMA SentRecords ==
    ASSUME ListInv, PipeInv, NEW st \in Streams, NEW r \in Sent(st)
    PROVE  r \in Records
<1>1. r \in RecordShape
  <2>1. Up(st) \in Seq(RecordShape)
    BY Typed DEF ListInv
  <2> QED BY <2>1 DEF Sent
<1>2. PICK b \in Bridges : b = r.by
  BY <1>1 DEF RecordShape
<1>3. PICK n \in Nat : n = r.ask
  BY <1>1 DEF RecordShape
<1>4. r = [by |-> b, ask |-> n]
  BY <1>1, <1>2, <1>3 DEF RecordShape
<1>5. CASE n = 0
  BY <1>4, <1>5 DEF Records, Hello
<1>6. CASE n # 0
  <2>1. n <= links[b].ask
    BY <1>2, <1>3, <1>6 DEF PipeInv, AsksInOrder, IsHello
  <2>2. links[b].ask <= MAX_ASKS /\ links[b].ask \in Nat
    BY DEF PipeInv, Owned, ListInv, Shape
  <2>3. n \in 1 .. MAX_ASKS
    BY <1>6, <2>1, <2>2, CompanionAssumption
  <2> QED BY <1>4, <2>3 DEF Records
<1> QED BY <1>5, <1>6

\* A connection with another slot, output or idle time.
LEMMA ListedWith ==
    ASSUME NEW c \in Listed
    PROVE  /\ \A v \in Slots \cup {NoSlot} : [c EXCEPT !.slot = v] \in Listed
           /\ \A v \in Seq(Records) : [c EXCEPT !.output = v] \in Listed
           /\ \A v \in 0 .. IDLE : [c EXCEPT !.idle = v] \in Listed
<1> DEFINE Holders == Slots \cup {NoSlot}
           Outputs == Seq(Records)
           Times == 0 .. IDLE
<1>1. Listed = [stream : Streams, slot : Holders, output : Outputs, idle : Times]
  BY DEF Listed
<1> HIDE DEF Holders, Outputs, Times
<1>2. /\ \A v \in Holders : [c EXCEPT !.slot = v] \in Listed
      /\ \A v \in Outputs : [c EXCEPT !.output = v] \in Listed
      /\ \A v \in Times : [c EXCEPT !.idle = v] \in Listed
  BY <1>1
<1> QED BY <1>2 DEF Holders, Outputs, Times

\* A list with the elements 1 to n - 1 is that long.
LEMMA LengthOf ==
    ASSUME NEW S, NEW list \in Seq(S), NEW n \in Nat \ {0}, DOMAIN list = 1 .. n - 1
    PROVE  Len(list) = n - 1
<1>1. PICK m \in Nat : m = Len(list) /\ DOMAIN list = 1 .. m
  OBVIOUS
<1>2. \A k : k \in 1 .. m <=> k \in 1 .. n - 1
  BY <1>1
<1>3. m <= n - 1
  <2> SUFFICES ASSUME n - 1 < m PROVE FALSE
    OBVIOUS
  <2>1. m \in 1 .. m /\ m \notin 1 .. n - 1
    OBVIOUS
  <2> QED BY <1>2, <2>1
<1>4. n - 1 <= m
  <2> SUFFICES ASSUME m < n - 1 PROVE FALSE
    OBVIOUS
  <2>1. n - 1 \in 1 .. n - 1 /\ n - 1 \notin 1 .. m
    OBVIOUS
  <2> QED BY <1>2, <2>1
<1> QED BY <1>1, <1>3, <1>4

\* One connection of the list is given other contents, and the loop stays or goes
\* on to the next.
LEMMA BoundedAt ==
    ASSUME ListInv, Bounded, at \in DOMAIN connections, NEW c \in Listed,
           connections' = [connections EXCEPT ![at] = c],
           at' \in {at, at + 1}, batch' \in Int, batch' >= Writing,
           \A st \in Streams : Down(st)' \in Seq(Records)
    PROVE  Bounded'
<1>1. at \in Nat /\ at \in 1 .. Len(connections) /\ Len(connections) \in Nat
  BY DEF ListInv, Shape
<1>2. connections' \in Seq(Listed) /\ Len(connections') = Len(connections)
  BY DEF Bounded
<1> QED BY <1>1, <1>2 DEF Bounded

\* Every step keeps the bounds.
LEMMA NextBounded ==
    ASSUME ListInv, PipeInv, Bounded, [Next]_vars
    PROVE  Bounded'
<1>1. /\ at \in Nat /\ batch \in Int /\ Len(connections) \in Nat
      /\ DOMAIN connections = 1 .. Len(connections)
      /\ connections \in Seq(Listed) /\ Len(connections) <= MAX_CONNECTIONS
      /\ \A st \in Streams : Down(st) \in Seq(Records)
      /\ batch >= Writing /\ Writing = -1
      /\ pipes \in [Streams -> [up : Seq(RecordShape), down : Seq(RecordShape), open : BOOLEAN]]
  BY DEF ListInv, Shape, Bounded, Writing
<1>2. ASSUME at \in DOMAIN connections
      PROVE  /\ Current \in Listed /\ Current.stream \in Streams
             /\ Current.output \in Seq(Records)
             /\ connections = [connections EXCEPT ![at] = Current]
  <2>1. Current \in Listed
    BY <1>1, <1>2 DEF Current
  <2> QED BY <1>1, <1>2, <2>1 DEF Listed, Current
<1>3. (\A st \in Streams : pipes'[st].down = pipes[st].down) =>
        \A st \in Streams : Down(st)' \in Seq(Records)
  BY <1>1 DEF Down
<1>4. CASE Drop /\ at \in DOMAIN connections
  <2>1. connections' = Without(connections, at) /\ at' = at /\ batch' = -1 /\ pipes' = pipes
    BY <1>4 DEF Drop, AfterRemoval, Writing
  <2>2. connections' \in Seq(Listed) /\ DOMAIN connections' = 1 .. Len(connections) - 1
    BY <1>1, <1>4, <2>1, WithoutElements
  <2>3. PICK n \in Nat : n = Len(connections)
    BY <1>1
  <2>4. at >= 1 /\ at <= n /\ n \in Nat \ {0} /\ DOMAIN connections' = 1 .. n - 1
    BY <1>1, <1>4, <2>2, <2>3
  <2>5. Len(connections') = n - 1
    BY <2>2, <2>4, LengthOf
  <2>6. n - 1 <= MAX_CONNECTIONS /\ at' <= (n - 1) + 1 /\ batch' >= Writing
    BY <1>1, <2>1, <2>3, <2>4, CompanionAssumption
  <2>8. \A st \in Streams : Down(st)' \in Seq(Records)
    BY <1>3, <2>1
  <2> QED BY <2>2, <2>5, <2>6, <2>8 DEF Bounded
<1>5. CASE Accept
  <2>1. at' = 1 /\ batch' = -1 /\ pipes' = pipes
    BY <1>5 DEF Accept, Writing
  <2>2. CASE connections' = connections
    BY <1>1, <1>3, <2>1, <2>2 DEF Bounded
  <2>3. CASE RoomForOne /\ backlog # <<>> /\ connections' = Append(connections, Newcomer)
    <3>1. Newcomer \in Listed
      <4>1. Head(backlog) \in Streams /\ <<>> \in Seq(Records) /\ 0 \in 0 .. IDLE
        BY <2>3, CompanionAssumption DEF ListInv, Shape
      <4> QED BY <4>1 DEF Newcomer, Listed
    <3>2. connections' \in Seq(Listed) /\ Len(connections') = Len(connections) + 1
      BY <1>1, <2>3, <3>1
    <3>3. Len(connections') <= MAX_CONNECTIONS
      BY <1>1, <2>3, <3>2, CompanionAssumption DEF RoomForOne
    <3> QED BY <1>1, <1>3, <2>1, <3>2, <3>3 DEF Bounded
  <2> QED BY <1>5, <2>2, <2>3 DEF Accept
<1>6. CASE Write
  <2>1. at \in DOMAIN connections /\ at' = at /\ batch' = 0
    BY <1>6 DEF Write, Polling, Reading
  <2>2. connections' = [connections EXCEPT ![at] = [Current EXCEPT !.output = <<>>]]
    BY <1>1, <1>6, <2>1 DEF Write, Current
  <2>3. [Current EXCEPT !.output = <<>>] \in Listed
    <3>1. <<>> \in Seq(Records)
      OBVIOUS
    <3> QED BY <1>2, <2>1, <3>1, ListedWith
  <2>4. PICK t \in Streams : t = Current.stream
    BY <1>2, <2>1
  <2>5. PICK queued \in Seq(Records) : queued = Current.output
    BY <1>2, <2>1
  <2>6. \A st \in Streams : Down(st)' \in Seq(Records)
    <3> SUFFICES ASSUME NEW st \in Streams
                 PROVE  Down(st)' \in Seq(Records)
      OBVIOUS
    <3>1. pipes' = [pipes EXCEPT ![t].down = @ \o queued]
      BY <1>6, <2>4, <2>5 DEF Write
    <3>2. CASE st = t
      <4>1. pipes'[st].down = pipes[st].down \o queued
        BY <1>1, <3>1, <3>2
      <4>2. pipes[st].down \in Seq(Records)
        BY <1>1 DEF Down
      <4> QED BY <4>1, <4>2 DEF Down
    <3>3. CASE st # t
      BY <1>1, <3>1, <3>3 DEF Down
    <3> QED BY <3>2, <3>3
  <2>7. PICK c \in Listed : c = [Current EXCEPT !.output = <<>>]
    BY <2>3
  <2>8. connections' = [connections EXCEPT ![at] = c] /\ at' \in {at, at + 1}
        /\ batch' \in Int /\ batch' >= Writing
    BY <1>1, <2>1, <2>2, <2>7
  <2> QED BY <2>1, <2>6, <2>8, BoundedAt
<1>7. CASE WriteBlocks \/ NothingToRead
  <2>1. at \in DOMAIN connections /\ at' = at + 1 /\ batch' = -1
        /\ connections' = connections /\ pipes' = pipes
    BY <1>7 DEF WriteBlocks, NothingToRead, Polling, Proceed, Writing
  <2> QED BY <1>1, <1>3, <2>1 DEF Bounded
<1>8. CASE Read
  <2>1. at \in DOMAIN connections /\ at' = at /\ pipes' = pipes
        /\ batch' \in 1 .. Len(Pipe.up)
        /\ connections' = [connections EXCEPT ![at].idle = 0]
    BY <1>8 DEF Read, Polling
  <2>2. connections' = [connections EXCEPT ![at] = [Current EXCEPT !.idle = 0]]
    BY <1>1, <2>1 DEF Current
  <2>3. [Current EXCEPT !.idle = 0] \in Listed
    <3>1. 0 \in 0 .. IDLE
      BY CompanionAssumption
    <3> QED BY <1>2, <2>1, <3>1, ListedWith
  <2>4. batch' \in Int /\ batch' >= Writing
    BY <1>1, <2>1
  <2> QED BY <1>1, <1>3, <2>1, <2>2, <2>3, <2>4, BoundedAt
<1>9. CASE Greet \/ Exchange
  <2>1. Handling /\ Handled /\ at \in DOMAIN connections /\ batch > 0
    BY <1>9 DEF Greet, Exchange, Handling
  <2>2. at' \in {at, at + 1} /\ batch' \in Int /\ batch' >= Writing
    BY <1>1, <2>1 DEF Handled, Proceed
  <2>3. \A st \in Streams : Down(st)' \in Seq(Records)
    <3>1. pipes' = [pipes EXCEPT ![Current.stream].up = Tail(@)]
      BY <2>1 DEF Handled
    <3>2. \A st \in Streams : pipes'[st].down = pipes[st].down
      BY <1>1, <3>1
    <3> QED BY <1>3, <3>2
  <2>4. PICK t \in Streams : t = connections[at].stream
    BY <1>2, <2>1 DEF Current
  <2>5. Record \in Sent(t)
    BY <2>1, <2>4, HandledUp
  <2>6. Record \in Records
    BY <2>4, <2>5, SentRecords
  <2>7. CASE Greet
    <3>1. Record.by \in Bridges
      <4>1. Record \in RecordShape
        BY <2>4, <2>5, Typed DEF ListInv, Sent
      <4> QED BY <4>1 DEF RecordShape
    <3>2. Slot[Record.by] \in Slots \cup {NoSlot}
      BY <3>1, CompanionAssumption, SlotType DEF Slots
    <3>3. [Current EXCEPT !.slot = Slot[Record.by]] \in Listed
      BY <1>2, <2>1, <3>2, ListedWith
    <3>4. connections' = [connections EXCEPT ![at] = [Current EXCEPT !.slot = Slot[Record.by]]]
      BY <1>1, <2>1, <2>7 DEF Greet, Current
    <3> QED BY <2>1, <2>2, <2>3, <3>3, <3>4, BoundedAt
  <2>8. CASE Exchange
    <3>1. Append(Current.output, Record) \in Seq(Records)
      BY <1>2, <2>1, <2>6
    <3>2. [Current EXCEPT !.output = Append(Current.output, Record)] \in Listed
      BY <1>2, <2>1, <3>1, ListedWith
    <3>3. connections' = [connections EXCEPT ![at] =
                            [Current EXCEPT !.output = Append(Current.output, Record)]]
      BY <1>1, <2>1, <2>8 DEF Exchange, Current
    <3> QED BY <2>1, <2>2, <2>3, <3>2, <3>3, BoundedAt
  <2> QED BY <1>9, <2>7, <2>8
<1>10. ASSUME NEW elapsed \in Nat, EndOfPass(elapsed)
       PROVE  Bounded'
  <2> DEFINE aged(i) ==
         IF connections[i].idle + elapsed > IDLE THEN IDLE ELSE connections[i].idle + elapsed
  <2>1. /\ at' = 0 /\ batch' = batch /\ pipes' = pipes
        /\ connections' = [i \in DOMAIN connections |-> [connections[i] EXCEPT !.idle = aged(i)]]
    BY <1>10 DEF EndOfPass
  <2>2. ASSUME NEW i \in DOMAIN connections
        PROVE  connections'[i] \in Listed
    <3>1. connections[i] \in Listed
      BY <1>1
    <3>2. connections[i].idle \in 0 .. IDLE
      BY <3>1 DEF Listed
    <3>3. aged(i) \in 0 .. IDLE
      BY <3>2, CompanionAssumption
    <3>4. connections'[i] = [connections[i] EXCEPT !.idle = aged(i)]
      BY <2>1
    <3> HIDE DEF aged
    <3> QED BY <3>1, <3>3, <3>4, ListedWith
  <2> HIDE DEF aged
  <2>3. connections' = [i \in 1 .. Len(connections) |-> connections'[i]]
    BY <1>1, <2>1
  <2>4. connections' \in Seq(Listed) /\ Len(connections') = Len(connections)
    BY <1>1, <2>2, <2>3
  <2>5. \A st \in Streams : Down(st)' \in Seq(Records)
    BY <1>3, <2>1
  <2>6. at' <= Len(connections') + 1 /\ batch' >= Writing
        /\ Len(connections') <= MAX_CONNECTIONS
    BY <1>1, <2>1, <2>4
  <2> QED BY <2>4, <2>5, <2>6 DEF Bounded
<1>11. ASSUME NEW b \in Bridges,
              Connect(b) \/ SendHello(b) \/ Reuse(b) \/ SendRequest(b) \/ Answered(b) \/ Leave(b)
       PROVE  Bounded'
  <2>1. connections' = connections /\ at' = at /\ batch' = batch
    BY <1>11 DEF Connect, SendHello, Reuse, SendRequest, Answered, Leave
  <2>2. \A st \in Streams : Down(st)' \in Seq(Records)
    <3>1. CASE Answered(b)
      <4>1. pipes' = [pipes EXCEPT ![links[b].stream].down = Tail(@)]
            /\ pipes[links[b].stream].down # <<>>
        BY <3>1 DEF Answered
      <4>2. ASSUME NEW st \in Streams
            PROVE  Down(st)' \in Seq(Records)
        <5>1. CASE st = links[b].stream
          <6>1. pipes'[st].down = Tail(pipes[st].down) /\ pipes[st].down # <<>>
            BY <1>1, <4>1, <5>1
          <6>2. PICK answers \in Seq(Records) : answers = pipes[st].down
            BY <1>1 DEF Down
          <6>3. Tail(answers) \in Seq(Records)
            BY <6>1, <6>2
          <6> QED BY <6>1, <6>2, <6>3 DEF Down
        <5>2. CASE st # links[b].stream
          BY <1>1, <4>1, <5>2 DEF Down
        <5> QED BY <5>1, <5>2
      <4> QED BY <4>2
    <3>2. CASE Connect(b) \/ SendHello(b) \/ Reuse(b) \/ SendRequest(b) \/ Leave(b)
      <4>1. \A st \in Streams : pipes'[st].down = pipes[st].down
        <5>1. CASE Connect(b)
          BY <1>1, <5>1 DEF Connect
        <5>2. CASE SendHello(b) \/ SendRequest(b)
          <6>1. PICK record : pipes' = [pipes EXCEPT ![links[b].stream] =
                    [pipes[links[b].stream] EXCEPT !.up = Append(@, record)]]
            BY <5>2 DEF SendHello, SendRequest
          <6> QED BY <1>1, <6>1
        <5>3. CASE Reuse(b)
          BY <5>3 DEF Reuse
        <5>4. CASE Leave(b)
          BY <1>1, <5>4 DEF Leave, HangUp
        <5> QED BY <3>2, <5>1, <5>2, <5>3, <5>4
      <4> QED BY <1>3, <4>1
    <3> QED BY <1>11, <3>1, <3>2
  <2> QED BY <1>1, <2>1, <2>2 DEF Bounded
<1>12. CASE UNCHANGED vars
  BY <1>1, <1>3, <1>12 DEF vars, Bounded
<1>13. CASE Expire \/ Fails \/ Reject
  BY <1>4, <1>13 DEF Expire, Fails, Reject, Polling, Handling
<1>14. CASE TimePasses
  BY <1>10, <1>14, CompanionAssumption DEF TimePasses
<1>15. CASE Loop
  BY <1>5, <1>6, <1>7, <1>8, <1>9, <1>10, <1>13, <1>14, <1>15 DEF Loop
<1> QED BY <1>11, <1>12, <1>15 DEF Next

\* The invariant of the list and of the streams together.
WholeInv == ListInv /\ PipeInv /\ Bounded

\* Before anybody connects.
LEMMA InitBounded ==
    Init => Bounded
<1> SUFFICES ASSUME Init PROVE Bounded
  OBVIOUS
<1>1. <<>> \in Seq(Records) /\ <<>> \in Seq(Listed) /\ Len(<<>>) = 0
  OBVIOUS
<1>2. connections = <<>> /\ at = 0 /\ batch = Writing /\ Writing = -1
  BY DEF Init, Writing
<1>3. \A st \in Streams : Down(st) = <<>>
  BY DEF Init, Down
<1>4. 0 <= MAX_CONNECTIONS /\ 0 <= 0 + 1 /\ Writing >= Writing
  BY <1>2, CompanionAssumption
<1> HIDE DEF Listed
<1> QED BY <1>1, <1>2, <1>3, <1>4 DEF Bounded

\* What is said of the list, of the streams and of the limits holds together.
THEOREM PipeCorrect ==
    Spec => []WholeInv
<1>1. Init => WholeInv
  BY InitInv, InitPipe, InitBounded DEF WholeInv
<1>2. WholeInv /\ [Next]_vars => WholeInv'
  BY ListStep, NextPipe, NextBounded DEF WholeInv
<1> QED BY <1>1, <1>2, PTL DEF Spec

\* The room handles the requests of a bridge in the order they were made, however
\* many streams the bridge gave up and in whichever order the loop polls them.
THEOREM HeardCorrect ==
    Spec => HeardInOrder
<1>1. WholeInv /\ [Next]_vars => [\A b \in Bridges : heard'[b] >= heard[b]]_vars
  BY NextPipe DEF WholeInv
<1> QED BY <1>1, PipeCorrect, PTL DEF Spec, HeardInOrder

\* The first element is the only one.
LEMMA OnlyElement ==
    ASSUME NEW S, NEW list \in Seq(S), Len(list) <= 1, NEW i \in DOMAIN list, NEW j \in DOMAIN list
    PROVE  i = j
<1>1. PICK n \in Nat : n = Len(list) /\ DOMAIN list = 1 .. n
  OBVIOUS
<1> QED BY <1>1

\* One request or its answer is all a stream carries.
LEMMA OneCarried ==
    ASSUME ListInv, PipeInv, NEW st \in Streams, NEW c \in Carried(st), NEW d \in Carried(st)
    PROVE  c = d
<1>0. /\ Down(st) \in Seq(RecordShape) /\ Up(st) \in Seq(RecordShape)
      /\ \A i \in DOMAIN connections : connections[i].output \in Seq(RecordShape)
  BY Typed DEF ListInv
<1> DEFINE Back(e) == \E k \in DOMAIN Down(st) : e = <<"down", k, Down(st)[k]>>
           Out(e) == \E i \in DOMAIN connections : connections[i].stream = st /\
                       \E k \in DOMAIN connections[i].output :
                           e = <<"output", k, connections[i].output[k]>>
           Forth(e) == \E k \in DOMAIN Up(st) : ~IsHello(Up(st)[k]) /\ e = <<"up", k, Up(st)[k]>>
<1>1. \A e \in Carried(st) : Back(e) \/ Out(e) \/ Forth(e)
  BY DEF Carried, Down, Up
<1>2. Len(<<>>) = 0 /\ \A k \in DOMAIN <<>> : FALSE
  OBVIOUS
<1>3. \A e : Back(e) => Down(st) # <<>>
  BY <1>2
<1>4. \A e : Forth(e) => Asks(st)
  BY DEF Asks, Sent
<1>5. \A e : Out(e) =>
        \E i \in DOMAIN connections : connections[i].stream = st /\ connections[i].output # <<>>
  BY <1>2
<1>6. /\ Len(Down(st)) <= 1 /\ (Down(st) # <<>> => ~Asks(st))
      /\ \A i \in DOMAIN connections : connections[i].stream = st =>
           /\ Len(connections[i].output) <= 1
           /\ connections[i].output # <<>> => Down(st) = <<>> /\ ~Asks(st)
  BY DEF PipeInv, OnePlace
<1>7. ASSUME NEW e, NEW f, Back(e), Back(f)
      PROVE  e = f
  <2>1. PICK k \in DOMAIN Down(st) : e = <<"down", k, Down(st)[k]>>
    BY <1>7
  <2>2. PICK l \in DOMAIN Down(st) : f = <<"down", l, Down(st)[l]>>
    BY <1>7
  <2>3. k = l
    BY <1>0, <1>6, OnlyElement
  <2> QED BY <2>1, <2>2, <2>3
<1>8. ASSUME NEW e, NEW f, Out(e), Out(f)
      PROVE  e = f
  <2>1. PICK i \in DOMAIN connections : connections[i].stream = st /\
             \E k \in DOMAIN connections[i].output : e = <<"output", k, connections[i].output[k]>>
    BY <1>8
  <2>2. PICK k \in DOMAIN connections[i].output : e = <<"output", k, connections[i].output[k]>>
    BY <2>1
  <2>3. PICK j \in DOMAIN connections : connections[j].stream = st /\
             \E l \in DOMAIN connections[j].output : f = <<"output", l, connections[j].output[l]>>
    BY <1>8
  <2>4. i = j
    BY <2>1, <2>3 DEF ListInv, StreamsDistinct
  <2>5. PICK l \in DOMAIN connections[i].output : f = <<"output", l, connections[i].output[l]>>
    BY <2>3, <2>4
  <2>6. k = l
    BY <1>0, <1>6, <2>1, OnlyElement
  <2> QED BY <2>2, <2>5, <2>6
<1>9. ASSUME NEW e, NEW f, Forth(e), Forth(f)
      PROVE  e = f
  BY <1>9 DEF PipeInv, HelloThenRequest
<1> HIDE DEF Back, Out, Forth
<1> QED BY <1>1, <1>3, <1>4, <1>5, <1>6, <1>7, <1>8, <1>9

\* It is what the bridge waits for, as long as the bridge holds the stream.
LEMMA CarriedAwaited ==
    ASSUME PipeInv, NEW b \in Bridges, NEW st \in Streams, links[b].stream = st,
           NEW c \in Carried(st)
    PROVE  links[b].doing = "waiting" /\ c[3] = Request(b)
<1>1. CASE \E k \in DOMAIN Down(st) : c = <<"down", k, Down(st)[k]>>
  <2>1. PICK k \in DOMAIN Down(st) : c = <<"down", k, Down(st)[k]>>
    BY <1>1
  <2>2. Awaits(b, Down(st)[k])
    BY DEF PipeInv, Awaited
  <2> QED BY <2>1, <2>2 DEF Awaits
<1>2. CASE \E i \in DOMAIN connections : connections[i].stream = st /\
             \E k \in DOMAIN connections[i].output : c = <<"output", k, connections[i].output[k]>>
  <2>1. PICK i \in DOMAIN connections : connections[i].stream = st /\
             \E k \in DOMAIN connections[i].output : c = <<"output", k, connections[i].output[k]>>
    BY <1>2
  <2>2. PICK k \in DOMAIN connections[i].output : c = <<"output", k, connections[i].output[k]>>
    BY <2>1
  <2>3. Awaits(b, connections[i].output[k])
    BY <2>1 DEF PipeInv, Awaited
  <2> QED BY <2>2, <2>3 DEF Awaits
<1>3. CASE \E k \in DOMAIN Up(st) : ~IsHello(Up(st)[k]) /\ c = <<"up", k, Up(st)[k]>>
  <2>1. PICK k \in DOMAIN Up(st) : ~IsHello(Up(st)[k]) /\ c = <<"up", k, Up(st)[k]>>
    BY <1>3
  <2>2. Awaits(b, Up(st)[k])
    BY <2>1 DEF PipeInv, Awaited, Sent
  <2> QED BY <2>1, <2>2 DEF Awaits
<1> QED BY <1>1, <1>2, <1>3 DEF Carried, Down, Up

\* The property of the streams.
LEMMA PipeHolds ==
    ASSUME ListInv, PipeInv
    PROVE  OneInThePipe
<1>1. \A st \in Streams : \A c, d \in Carried(st) : c = d
  BY OneCarried
<1>2. \A b \in Bridges : links[b].stream # NoStream => links[b].stream \in Streams
  BY CompanionAssumption DEF PipeInv, Owned, ListInv, Shape, Streams, NoStream
<1>3. ASSUME NEW b \in Bridges, links[b].stream # NoStream, NEW c \in Carried(links[b].stream)
      PROVE  links[b].doing = "waiting" /\ c[3] = Request(b)
  BY <1>2, <1>3, CarriedAwaited
<1> QED BY <1>1, <1>3 DEF OneInThePipe

\* The types and the limits.
LEMMA TypesHold ==
    ASSUME WholeInv
    PROVE  TypeOK
<1>1. /\ links \in [Bridges ->
           [stream : Nat, doing : {"idle", "connected", "greeted", "waiting"}, ask : Nat]]
      /\ opened \in Nat /\ at \in Nat /\ batch \in Int /\ Len(connections) \in Nat
      /\ present \in [Slots -> BOOLEAN]
      /\ pipes \in [Streams -> [up : Seq(RecordShape), down : Seq(RecordShape), open : BOOLEAN]]
  BY DEF WholeInv, ListInv, Shape
<1>2. links \in [Bridges ->
           [stream : 0 .. opened, doing : {"idle", "connected", "greeted", "waiting"},
            ask : 0 .. MAX_ASKS]]
  <2>1. \A b \in Bridges : links[b].stream <= opened /\ links[b].ask <= MAX_ASKS
    BY DEF WholeInv, PipeInv, Owned
  <2> QED BY <1>1, <2>1, CompanionAssumption
<1>3. opened \in 0 .. MAX_STREAMS
  BY <1>1, CompanionAssumption DEF WholeInv, PipeInv, Owned
<1>4. ASSUME NEW st \in Streams
      PROVE  /\ pipes[st].open \in BOOLEAN
             /\ \A k \in DOMAIN pipes[st].up : pipes[st].up[k] \in Records
             /\ \A k \in DOMAIN pipes[st].down : pipes[st].down[k] \in Records
  <2>1. pipes[st].open \in BOOLEAN
    BY <1>1
  <2>2. \A k \in DOMAIN Up(st) : Up(st)[k] \in Records
    BY SentRecords DEF WholeInv, Sent
  <2>3. \A k \in DOMAIN Down(st) : Down(st)[k] \in Records
    BY DEF WholeInv, Bounded
  <2> QED BY <2>1, <2>2, <2>3 DEF Up, Down
<1>5. ASSUME NEW i \in DOMAIN connections
      PROVE  connections[i].slot \in Slots \cup {NoSlot} /\ connections[i].idle \in 0 .. IDLE
  <2>1. connections[i] \in Listed
    BY DEF WholeInv, Bounded
  <2> QED BY <2>1 DEF Listed
<1>6. Len(connections) <= MAX_CONNECTIONS /\ at \in 0 .. Len(connections) + 1
      /\ batch >= Writing
  BY <1>1 DEF WholeInv, Bounded
<1> QED BY <1>1, <1>2, <1>3, <1>4, <1>5, <1>6 DEF TypeOK

\* What a bridge reads answers what it asked, and the list of connections and the
\* idle times keep their limits.
THEOREM WellKeptCorrect ==
    Spec => []WellKept
<1>1. WholeInv => WellKept
  BY PipeHolds, TypesHold DEF WholeInv, WellKept
<1> QED BY <1>1, PipeCorrect, PTL
=============================================================================
