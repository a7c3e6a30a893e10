-------------------------- MODULE Crossplay_proof --------------------------
(***************************************************************************)
(* Proofs about crossplay end to end, for any number of faults, any limits *)
(* and one client or two.                                                  *)
(***************************************************************************)
EXTENDS Crossplay, Duel_proof, Iteration

-----------------------------------------------------------------------------
(* The inductive invariant, as relations between the values of one slot: its *)
(* client c, its peer p in the room, a request r on the way or a snapshot,   *)
(* and the room's counters.                                                  *)

\* A batch is a run of numbers: the one before its first, and the run.
Before(inputs) == IF inputs = <<>> THEN 0 ELSE inputs[1].seq - 1

Numbered(inputs, base) ==
    base \in Nat /\ \A k \in DOMAIN inputs : inputs[k].seq = base + k

\* The last number the client has dropped from its history.
Dropped(c) == c.next - 1 - Len(c.history)

\* Without a session the client remembers nothing. In one it is the room's, the
\* history is the run of numbers up to the last, and joins up with what the room
\* has received; and the client knows nothing that is not so yet.
ClientFits(c, p, now, rounds) ==
    IF c.epoch = 0
    THEN c.history = <<>> /\ c.next = 1 /\ c.received = 0 /\ c.tick = 0 /\ c.round = 0
    ELSE /\ c.epoch = p.epoch /\ c.map
         /\ Numbered(c.history, Dropped(c)) /\ Len(c.history) <= HISTORY
         /\ Dropped(c) <= p.received /\ p.received < c.next
         /\ c.received <= p.received /\ c.tick <= now /\ c.round <= rounds

\* A request is of a session given out. A join is empty and on the way only
\* while the client has none; a batch is a run that begins no later than what
\* the room expects and ends before the number the client gives out next.
RequestFits(r, c, p, last) ==
    /\ r \in Request /\ r.epoch <= last /\ Len(r.inputs) <= BATCH
    /\ Numbered(r.inputs, Before(r.inputs))
    /\ r.epoch = 0 => r.inputs = <<>> /\ c.epoch = 0
    /\ r.epoch # 0 /\ r.epoch = p.epoch => Before(r.inputs) <= p.received
    /\ r.epoch # 0 /\ r.epoch = c.epoch => Before(r.inputs) + Len(r.inputs) < c.next

\* A snapshot that waits for the script or for the next tick tells of the slot's
\* session as it still is, and of nothing older than the client knows.
SnapshotFits(reply, c, p, now, rounds) ==
    /\ reply \in Snapshot /\ c.map
    /\ reply.epoch # 0 /\ reply.epoch = p.epoch
    /\ reply.ack <= reply.received /\ reply.received = p.received
    /\ reply.tick <= now /\ reply.round <= rounds
    /\ c.epoch # 0 => reply.tick >= c.tick /\ reply.round >= c.round

-----------------------------------------------------------------------------
(* The invariant of a slot with a client.                                    *)

ClientRecord ==
    [map : BOOLEAN, epoch : 0 .. MAX_GENERATION, next : Nat \ {0}, received : Nat,
     tick : 0 .. MAX_TICK, round : Nat, age : 0 .. STALE_TICKS, blocked : BOOLEAN,
     history : Seq(Input), pending : Snapshot \cup {None}, status : Statuses]

GuestRecord == [ticket : BOOLEAN, waited : 0 .. TIMEOUT, failed : BOOLEAN]
Sendings == [req : Request, current : BOOLEAN]
LinkRecord == [lost : Seq(Request \cup {None}), closed : BOOLEAN]

\* The script waits for the last request in the worker w.
Awaited(w) == w # <<>> /\ w[Len(w)].current

\* Nothing of the slot can reach the room: neither from the worker w nor from the
\* lost connections of the link l.
Silent(w, l) == w = <<>> /\ l.lost = <<>>
Sent(w, l) == {w[k].req : k \in DOMAIN w} \cup (Range(l.lost) \ {None})

RequestsFit(requests, c, p, last) == \A r \in requests : RequestFits(r, c, p, last)
NamesFit(c, p, requests) == c.epoch # 0 => NameOne(KeptInputs(c, p, requests))

\* The room named another map.
Mismatch(answer) == answer.error = "map or protocol mismatch"

\* What the script g waits for is the last request or its answer a. Every request
\* names the client's map, and only a client of another map is told so.
ExchangeFits(c, g, w, a) ==
    /\ \A k \in DOMAIN w : (w[k].current => k = Len(w)) /\ w[k].req.map = c.map
    /\ g.ticket <=> Awaited(w) \/ a # None
    /\ ~(Awaited(w) /\ a # None)
    /\ Mismatch(a) => ~c.map

\* A snapshot on its way to the script, or kept for the next tick.
AnswerFits(a, c, p, w, l, now, rounds) ==
    a.error = NoError => Silent(w, l) /\ SnapshotFits(a, c, p, now, rounds)

PendingFits(c, g, t, p, w, l, now, rounds) ==
    c.pending # None =>
        /\ t = "tick" /\ ~g.ticket /\ Silent(w, l)
        /\ SnapshotFits(c.pending, c, p, now, rounds)
        /\ c.pending.received < c.next

\* What the game shows.
ShownFits(c, g, t) ==
    /\ c.blocked => ~c.map /\ ~g.ticket /\ c.pending = None /\ c.status = "MAP MISMATCH"
    /\ t = "frame" /\ c.status = "LIVE" => c.age < STALE_TICKS

\* What concerns the room, and what does not.
RoomFits(s) ==
    /\ ClientFits(clients[s], peers[s], tick, round)
    /\ RequestsFit(Sent(wire[s], links[s]), clients[s], peers[s], generation)
    /\ NamesFit(clients[s], peers[s], Sent(wire[s], links[s]))
    /\ AnswerFits(answers[s], clients[s], peers[s], wire[s], links[s], tick, round)
    /\ PendingFits(clients[s], guests[s], turn[s], peers[s], wire[s], links[s], tick, round)

GameFits(s) ==
    /\ ExchangeFits(clients[s], guests[s], wire[s], answers[s])
    /\ ShownFits(clients[s], guests[s], turn[s])

SlotInv(s) == RoomFits(s) /\ GameFits(s)

\* The types of the variables beside the room's.
GameType ==
    /\ clients \in [Guests -> ClientRecord]
    /\ guests \in [Guests -> GuestRecord]
    /\ turn \in [Guests -> {"tick", "frame"}] /\ turns \in [Guests -> Nat]
    /\ wire \in [Guests -> Seq(Sendings)] /\ links \in [Guests -> LinkRecord]
    /\ DOMAIN answers = Guests /\ faults \in Nat
    /\ \A s \in Guests :
         /\ Len(wire[s]) <= MAX_WIRE /\ Len(links[s].lost) <= faults
         /\ answers[s].error # NoError \/ answers[s] \in Snapshot

CrossInv == OrderInv /\ GameType /\ \A s \in Guests : SlotInv(s)

-----------------------------------------------------------------------------
(* What After keeps of a run.                                                *)

\* A window on a sequence is a sequence.
LEMMA WindowType ==
    ASSUME NEW h \in Seq(Input), NEW cut \in Nat, NEW m \in Nat, cut + m <= Len(h)
    PROVE  /\ [k \in 1 .. m |-> h[cut + k]] \in Seq(Input)
           /\ Len([k \in 1 .. m |-> h[cut + k]]) = m
<1> DEFINE window == [k \in 1 .. m |-> h[cut + k]]
<1>1. \A k \in 1 .. m : h[cut + k] \in Input
  BY LenProperties
<1>2. window \in [1 .. m -> Input]
  BY <1>1
<1> HIDE DEF window
<1>3. window \in Seq(Input)
  BY <1>2
<1>4. Len(window) = m
  BY <1>2, <1>3, LenProperties
<1> QED BY <1>3, <1>4 DEF window

\* The next element makes the window one longer.
LEMMA WindowGrows ==
    ASSUME NEW h \in Seq(Input), NEW cut \in Nat, NEW m \in Nat, cut + m + 1 <= Len(h)
    PROVE  Append([k \in 1 .. m |-> h[cut + k]], h[cut + m + 1]) = [k \in 1 .. m + 1 |-> h[cut + k]]
<1> DEFINE short == [k \in 1 .. m |-> h[cut + k]]
           long == Append(short, h[cut + m + 1])
<1>1. h[cut + m + 1] \in Input
  BY LenProperties
<1>2. short \in Seq(Input) /\ Len(short) = m
  BY WindowType, LenProperties
<1>3. \A k \in 1 .. m : short[k] = h[cut + k]
  OBVIOUS
<1> HIDE DEF short
<1>4. /\ long \in Seq(Input) /\ Len(long) = m + 1
      /\ \A k \in 1 .. m : long[k] = short[k]
      /\ long[m + 1] = h[cut + m + 1]
  BY <1>1, <1>2, AppendProperties
<1> HIDE DEF long
<1>5. long \in [1 .. m + 1 -> Input]
  BY <1>4, LenProperties
<1>6. \A k \in 1 .. m + 1 : long[k] = h[cut + k]
  BY <1>3, <1>4
<1>7. long = [k \in 1 .. m + 1 |-> h[cut + k]]
  BY <1>5, <1>6
<1> QED BY <1>7 DEF long, short

\* Of a run of numbers, After keeps the end: every number above the given one.
LEMMA AfterRun ==
    ASSUME NEW h \in Seq(Input), NEW base, Numbered(h, base), NEW number \in Nat
    PROVE  LET cut == IF number <= base THEN 0
                      ELSE IF number - base <= Len(h) THEN number - base ELSE Len(h)
           IN  After(h, number) = [k \in 1 .. Len(h) - cut |-> h[cut + k]]
<1> DEFINE L == Len(h)
           cut == IF number <= base THEN 0 ELSE IF number - base <= L THEN number - base ELSE L
           G(n) == IF n <= cut THEN <<>> ELSE [k \in 1 .. n - cut |-> h[cut + k]]
           g == [n \in 0 .. L |-> G(n)]
           Turned(f, n) == IF n = 0 THEN <<>>
                         ELSE IF h[n].seq > number THEN Append(f[n - 1], h[n]) ELSE f[n - 1]
           kept == CHOOSE f : f = [n \in 0 .. L |-> Turned(f, n)]
<1>0. L \in Nat /\ cut \in 0 .. L /\ base \in Nat /\ DOMAIN h = 1 .. L
  BY LenProperties DEF Numbered
<1>1. ASSUME NEW n \in 1 .. L
      PROVE  h[n].seq > number <=> n > cut
  BY <1>0, <1>1 DEF Numbered
<1>2. ASSUME NEW n \in 1 .. L
      PROVE  G(n) = IF n > cut THEN Append(G(n - 1), h[n]) ELSE G(n - 1)
  <2>1. CASE n <= cut
    BY <1>0, <2>1
  <2>2. CASE n = cut + 1
    <3> HIDE DEF cut
    <3>1. G(n - 1) = <<>> /\ G(n) = [k \in 1 .. 1 |-> h[n]]
      BY <1>0, <2>2
    <3>2. Append(<<>>, h[n]) = [k \in 1 .. 1 |-> h[n]]
      OBVIOUS
    <3> QED BY <1>0, <2>2, <3>1, <3>2
  <2>3. CASE n > cut + 1
    <3> HIDE DEF cut
    <3>1. PICK m \in Nat : n = cut + m + 1 /\ m >= 1
      <4>1. n - 1 - cut \in Nat /\ n = cut + (n - 1 - cut) + 1 /\ n - 1 - cut >= 1
        BY <1>0, <2>3
      <4> QED BY <4>1
    <3>2. /\ n - 1 - cut = m /\ n - cut = m + 1 /\ n > cut /\ ~(n <= cut) /\ ~(n - 1 <= cut)
          /\ cut + m + 1 <= L /\ cut \in Nat
      BY <1>0, <3>1
    <3>3. G(n - 1) = [k \in 1 .. m |-> h[cut + k]] /\ G(n) = [k \in 1 .. m + 1 |-> h[cut + k]]
      BY <3>2
    <3> HIDE DEF G
    <3>4. Append(G(n - 1), h[n]) = G(n)
      BY <3>1, <3>2, <3>3, WindowGrows
    <3> QED BY <3>2, <3>4
  <2> HIDE DEF cut, G
  <2> QED BY <1>0, <2>1, <2>2, <2>3
<1>3. g = [n \in 0 .. L |-> Turned(g, n)]
  <2>1. ASSUME NEW n \in 0 .. L
        PROVE  G(n) = Turned(g, n)
    <3> HIDE DEF cut
    <3>1. CASE n = 0
      BY <1>0, <3>1
    <3>2. CASE n # 0
      <4>1. n \in 1 .. L /\ n - 1 \in 0 .. L
        BY <1>0, <3>2
      <4>2. g[n - 1] = G(n - 1)
        BY <4>1
      <4> HIDE DEF G, g
      <4> QED BY <1>1, <1>2, <3>2, <4>1, <4>2
    <3> QED BY <3>1, <3>2
  <2> HIDE DEF G, Turned
  <2> QED BY <2>1
<1>4. kept = [n \in 0 .. L |-> Turned(kept, n)]
  <2> HIDE DEF g, Turned
  <2> QED BY <1>3
<1>5. ASSUME NEW n \in 0 .. L
      PROVE  kept[n] = Turned(kept, n)
  <2> HIDE DEF Turned, kept
  <2> QED BY <1>4
<1>6. \A n \in 0 .. L : kept[n] = G(n)
  <2> HIDE DEF kept, G
  <2> DEFINE S == {n \in Nat : n \in 0 .. L => kept[n] = G(n)}
  <2>1. 0 \in S
    BY <1>0, <1>5 DEF G
  <2>2. ASSUME NEW n \in Nat, n \in S
        PROVE  n + 1 \in S
    <3>1. CASE n + 1 \in 0 .. L
      <4>1. n \in 0 .. L /\ n + 1 \in 1 .. L /\ (n + 1) - 1 = n
        BY <1>0, <3>1
      <4>2. kept[n] = G(n)
        BY <2>2, <4>1
      <4>3. kept[n + 1] = Turned(kept, n + 1)
        BY <1>5, <4>1
      <4>4. n + 1 # 0 /\ (h[n + 1].seq > number <=> n + 1 > cut)
        BY <1>1, <4>1
      <4>5. G(n + 1) = IF n + 1 > cut THEN Append(G(n), h[n + 1]) ELSE G(n)
        BY <1>2, <4>1
      <4> HIDE DEF cut
      <4>6. kept[n + 1] = G(n + 1)
        BY <4>1, <4>2, <4>3, <4>4, <4>5
      <4> QED BY <4>6
    <3>2. CASE n + 1 \notin 0 .. L
      BY <3>2
    <3> QED BY <3>1, <3>2
  <2> HIDE DEF S
  <2>3. Nat \subseteq S
    BY <2>1, <2>2, SetInduction
  <2> QED BY <1>0, <2>3 DEF S
<1>7. After(h, number) = kept[L]
  BY DEF After
<1>8. G(L) = [k \in 1 .. L - cut |-> h[cut + k]]
  BY <1>0
<1> HIDE DEF kept, G
<1>9. kept[L] = G(L)
  BY <1>0, <1>6
<1> QED BY <1>7, <1>8, <1>9

\* So it is a run itself, of the history's own inputs, and ends where that ends.
LEMMA AfterNumbered ==
    ASSUME NEW h \in Seq(Input), NEW base, Numbered(h, base), NEW number \in Nat
    PROVE  /\ After(h, number) \in Seq(Input)
           /\ Numbered(After(h, number), base + Len(h) - Len(After(h, number)))
           /\ Range(After(h, number)) \subseteq Range(h)
           /\ Len(After(h, number)) =
                IF number <= base THEN Len(h)
                ELSE IF number - base <= Len(h) THEN base + Len(h) - number ELSE 0
<1> DEFINE cut == IF number <= base THEN 0
                  ELSE IF number - base <= Len(h) THEN number - base ELSE Len(h)
           a == After(h, number)
<1>1. PICK length \in Nat : Len(h) = length /\ DOMAIN h = 1 .. length
  BY LenProperties
<1>2. base \in Nat /\ \A k \in DOMAIN h : h[k].seq = base + k
  BY DEF Numbered
<1>3. /\ cut \in 0 .. length
      /\ length - cut = IF number <= base THEN length
                        ELSE IF number - base <= length THEN base + length - number ELSE 0
  BY <1>1, <1>2
<1>4. a = [k \in 1 .. length - cut |-> h[cut + k]]
  BY <1>1, AfterRun
<1> HIDE DEF cut, a
<1>5. PICK m \in Nat, from \in Nat : cut = from /\ length = from + m
  <2>1. cut \in Nat /\ length - cut \in Nat /\ length = cut + (length - cut)
    BY <1>3
  <2> QED BY <2>1
<1>6. length - from = m
  BY <1>5
<1>7. a = [k \in 1 .. m |-> h[from + k]] /\ from + m <= length
  BY <1>4, <1>5, <1>6
<1>8. a \in Seq(Input) /\ Len(a) = m
  BY <1>1, <1>7, WindowType
<1>9. DOMAIN a = 1 .. m /\ \A k \in 1 .. m : a[k] = h[from + k]
  BY <1>7
<1>10. \A k \in 1 .. m : from + k \in DOMAIN h
  BY <1>1, <1>5
<1>11. Range(a) \subseteq Range(h)
  BY <1>9, <1>10 DEF Range
<1>12. base + length - m \in Nat /\ base + length - m = base + from
  BY <1>2, <1>5
<1>13. ASSUME NEW k \in DOMAIN a
       PROVE  a[k].seq = base + from + k
  <2>1. a[k] = h[from + k] /\ from + k \in DOMAIN h /\ k \in Nat
    BY <1>9, <1>10
  <2>2. a[k].seq = base + (from + k)
    BY <1>2, <2>1
  <2>3. base + (from + k) = base + from + k
    BY <1>2, <1>5, <2>1
  <2> QED BY <2>2, <2>3
<1>14. Numbered(a, base + Len(h) - Len(a))
  BY <1>1, <1>8, <1>12, <1>13 DEF Numbered
<1> QED BY <1>1, <1>3, <1>5, <1>6, <1>8, <1>11, <1>14 DEF a

\* The first inputs of a run are a run, from the same number on.
LEMMA TakeNumbered ==
    ASSUME NEW h \in Seq(Input), NEW base, Numbered(h, base), NEW n \in Nat
    PROVE  /\ Take(h, n) \in Seq(Input)
           /\ Len(Take(h, n)) <= n /\ Len(Take(h, n)) <= Len(h)
           /\ Numbered(Take(h, n), base)
           /\ Range(Take(h, n)) \subseteq Range(h)
<1> DEFINE m == IF Len(h) < n THEN Len(h) ELSE n
           t == SubSeq(h, 1, m)
<1>1. Len(h) \in Nat /\ DOMAIN h = 1 .. Len(h) /\ h \in [1 .. Len(h) -> Input]
  BY LenProperties
<1>2. m \in Nat /\ m <= n /\ m <= Len(h) /\ Take(h, n) = t
  BY <1>1 DEF Take
<1> HIDE DEF m
<1>3. \A i \in 1 .. m : h[i] \in Input
  BY <1>1, <1>2
<1>4. t \in Seq(Input) /\ Len(t) = (IF 1 <= m THEN m - 1 + 1 ELSE 0)
      /\ \A i \in 1 .. m - 1 + 1 : t[i] = h[1 + i - 1]
  BY <1>2, <1>3, SubSeqProperties
<1>5. Len(t) = m /\ \A i \in 1 .. m : t[i] = h[i]
  BY <1>2, <1>4
<1> HIDE DEF t
<1>6. DOMAIN t = 1 .. m
  BY <1>4, <1>5, LenProperties
<1>7. Range(t) \subseteq Range(h)
  BY <1>1, <1>2, <1>5, <1>6 DEF Range
<1>8. Numbered(t, base)
  BY <1>1, <1>2, <1>5, <1>6 DEF Numbered
<1> QED BY <1>2, <1>4, <1>5, <1>7, <1>8

\* A run tells where it began.
LEMMA BeforeNumbered ==
    ASSUME NEW h \in Seq(Input), NEW base, Numbered(h, base)
    PROVE  /\ Numbered(h, Before(h)) /\ (h # <<>> => Before(h) = base)
           /\ (h = <<>> => Before(h) = 0 /\ Len(h) = 0)
<1>1. Len(h) \in Nat /\ DOMAIN h = 1 .. Len(h) /\ base \in Nat
  BY LenProperties DEF Numbered
<1>2. CASE h = <<>>
  <2>1. DOMAIN h = {} /\ Len(h) = 0
    BY <1>2
  <2> QED BY <1>2, <2>1 DEF Numbered, Before
<1>3. CASE h # <<>>
  <2>1. 1 \in DOMAIN h
    BY <1>1, <1>3, EmptySeq
  <2>2. h[1].seq = base + 1
    BY <2>1 DEF Numbered
  <2>3. Before(h) = base
    BY <1>1, <1>3, <2>2 DEF Before
  <2> QED BY <1>3, <2>3
<1> QED BY <1>2, <1>3

-----------------------------------------------------------------------------
(* A client's tick, in its three parts.                                      *)

\* Shape of the pieces.
LEMMA NoneIsNoSnapshot == None \notin Snapshot /\ None.error # NoError
BY DEF None, Snapshot, NoError

\* Adopting a snapshot that fits, or none, leaves a client that fits.
LEMMA AdoptFits ==
    ASSUME NEW c \in ClientRecord, NEW p \in Session, NEW now \in 0 .. MAX_TICK,
           NEW rounds \in Nat, ClientFits(c, p, now, rounds),
           c.pending # None =>
             SnapshotFits(c.pending, c, p, now, rounds) /\ c.pending.received < c.next
    PROVE  /\ Adopt(c) \in ClientRecord
           /\ ClientFits(Adopt(c), p, now, rounds)
           /\ Adopt(c).pending = None
           /\ Adopt(c).map = c.map /\ Adopt(c).blocked = c.blocked
           /\ Range(Adopt(c).history) \subseteq Range(c.history)
           /\ c.pending = None =>
                /\ Adopt(c).epoch = c.epoch /\ Adopt(c).next = c.next
                /\ Adopt(c).status = c.status
                /\ Adopt(c).tick = c.tick /\ Adopt(c).received = c.received
                /\ Adopt(c).round = c.round
           /\ c.epoch # 0 =>
                /\ Adopt(c).epoch = c.epoch
                /\ Adopt(c).tick >= c.tick /\ Adopt(c).received >= c.received
                /\ Adopt(c).round >= c.round
<1> DEFINE a == Adopt(c)
<1>1. /\ c.next \in Nat \ {0} /\ c.received \in Nat /\ c.round \in Nat /\ c.tick \in 0 .. MAX_TICK
      /\ c.history \in Seq(Input) /\ c.age \in 0 .. STALE_TICKS /\ c.epoch \in 0 .. MAX_GENERATION
      /\ Len(c.history) \in Nat /\ MAX_TICK \in Nat /\ MAX_GENERATION \in Nat
      /\ STALE_TICKS \in Nat /\ c.tick \in Nat /\ c.epoch \in Nat
  BY LenProperties, DuelAssumption DEF ClientRecord
<1>2. CASE c.pending = None
  <2>1. Older(c) \in 0 .. STALE_TICKS
    BY <1>1 DEF Older
  <2>2. a = [c EXCEPT !.age = Older(c)]
    BY <1>2 DEF Adopt
  <2> HIDE DEF a
  <2>3. /\ a \in ClientRecord
        /\ a.map = c.map /\ a.epoch = c.epoch /\ a.next = c.next /\ a.received = c.received
        /\ a.tick = c.tick /\ a.round = c.round /\ a.blocked = c.blocked
        /\ a.history = c.history /\ a.pending = c.pending /\ a.status = c.status
    BY <2>1, <2>2 DEF ClientRecord
  <2>4. ClientFits(a, p, now, rounds)
    BY <2>3 DEF ClientFits, Dropped
  <2>5. a.tick >= c.tick /\ a.received >= c.received /\ a.round >= c.round
    BY <1>1, <2>3
  <2> QED BY <1>2, <2>3, <2>4, <2>5 DEF a
<1>3. CASE c.pending # None
  <2> DEFINE reply == c.pending
             next == Numbering(c)
             history == StillNeeded(c)
             status == StatusOf(reply)
  <2>1. /\ reply \in Snapshot /\ c.map /\ reply.epoch # 0 /\ reply.epoch = p.epoch
        /\ reply.ack <= reply.received /\ reply.received = p.received
        /\ reply.tick <= now /\ reply.round <= rounds
        /\ c.epoch # 0 => reply.tick >= c.tick /\ reply.round >= c.round
        /\ reply.received < c.next
    BY <1>3 DEF SnapshotFits
  <2>2. /\ reply.epoch \in 0 .. MAX_GENERATION /\ reply.tick \in 0 .. MAX_TICK
        /\ reply.ack \in Nat /\ reply.received \in Nat /\ reply.round \in Nat
        /\ p.received \in Nat
    BY <2>1 DEF Snapshot, Session
  <2>3. a = [c EXCEPT !.pending = None, !.age = 0, !.epoch = reply.epoch, !.tick = reply.tick,
                      !.received = reply.received, !.round = reply.round, !.status = status,
                      !.next = next, !.history = history]
    BY <1>3 DEF Adopt
  <2>4. status \in Statuses
    BY DEF StatusOf, Statuses
  <2>5. /\ c.epoch # 0 => c.epoch = reply.epoch /\ Dropped(c) <= p.received
                          /\ Numbered(c.history, Dropped(c)) /\ c.received <= p.received
                          /\ Len(c.history) <= HISTORY
        /\ c.epoch = 0 => c.history = <<>> /\ c.next = 1
    BY <2>1 DEF ClientFits
  <2>6. /\ next \in Nat \ {0} /\ history \in Seq(Input) /\ Range(history) \subseteq Range(c.history)
        /\ Numbered(history, next - 1 - Len(history)) /\ Len(history) <= HISTORY
        /\ next - 1 - Len(history) <= p.received /\ p.received < next
    <3>1. /\ <<>> \in Seq(Input) /\ Len(<<>>) = 0 /\ DOMAIN <<>> = {} /\ Range(<<>>) = {}
          /\ 0 <= HISTORY
      BY DuelAssumption DEF Range
    <3>2. CASE RoundChanged(c)
      <4>1. next = reply.received + 1 /\ history = <<>>
        BY <3>2 DEF Numbering, StillNeeded
      <4>2. next - 1 - Len(history) = p.received
        BY <2>1, <2>2, <3>1, <4>1
      <4>3. Numbered(history, next - 1 - Len(history))
        BY <2>2, <3>1, <4>1, <4>2 DEF Numbered
      <4> QED BY <2>1, <2>2, <3>1, <4>1, <4>2, <4>3
    <3>3. CASE ~RoundChanged(c)
      <4>1. next = c.next /\ history = After(c.history, reply.ack)
        BY <3>3 DEF Numbering, StillNeeded
      <4> HIDE DEF next, history, reply
      <4>2. PICK base \in Nat : /\ Numbered(c.history, base) /\ base + Len(c.history) + 1 = c.next
                                /\ base <= p.received /\ Len(c.history) <= HISTORY
        <5>1. CASE c.epoch = 0
          <6>1. Numbered(c.history, 0) /\ 0 + Len(c.history) + 1 = c.next /\ 0 <= p.received
            BY <2>2, <2>5, <3>1, <5>1 DEF Numbered
          <6> QED BY <2>5, <3>1, <5>1, <6>1
        <5>2. CASE c.epoch # 0
          <6>1. Dropped(c) \in Nat /\ Dropped(c) = c.next - 1 - Len(c.history)
            BY <2>5, <5>2 DEF Numbered, Dropped
          <6>2. Dropped(c) + Len(c.history) + 1 = c.next
            <7>1. \A n, l \in Nat : (n - 1 - l) + l + 1 = n
              OBVIOUS
            <7> QED BY <1>1, <6>1, <7>1
          <6> QED BY <2>5, <5>2, <6>1, <6>2
        <5> QED BY <5>1, <5>2
      <4>3. /\ history \in Seq(Input) /\ Range(history) \subseteq Range(c.history)
            /\ Numbered(history, base + Len(c.history) - Len(history))
            /\ Len(history) = IF reply.ack <= base THEN Len(c.history)
                              ELSE IF reply.ack - base <= Len(c.history)
                                   THEN base + Len(c.history) - reply.ack ELSE 0
        BY <1>1, <2>2, <4>1, <4>2, AfterNumbered
      <4>4. Len(history) \in Nat
        BY <4>3, LenProperties
      <4>5. next - 1 - Len(history) = base + Len(c.history) - Len(history)
        <5>1. \A b, l, m \in Nat : (b + l + 1) - 1 - m = b + l - m
          OBVIOUS
        <5>2. next = base + Len(c.history) + 1
          BY <4>1, <4>2
        <5>3. (base + Len(c.history) + 1) - 1 - Len(history) = base + Len(c.history) - Len(history)
          BY <1>1, <4>4, <5>1
        <5> QED BY <5>2, <5>3
      <4>6. base + Len(c.history) - Len(history) <= p.received
        BY <1>1, <2>1, <2>2, <4>2, <4>3, <4>4, SMTT(30)
      <4>7. Len(history) <= Len(c.history)
        BY <1>1, <2>2, <4>2, <4>3, SMTT(30)
      <4>8. Len(history) <= HISTORY
        BY <1>1, <4>2, <4>4, <4>7, DuelAssumption
      <4> QED BY <1>1, <2>1, <4>1, <4>3, <4>5, <4>6, <4>8
    <3> QED BY <3>2, <3>3
  <2> HIDE DEF next, history, status, reply
  <2>7. /\ a \in ClientRecord
        /\ a.pending = None /\ a.epoch = reply.epoch /\ a.tick = reply.tick
        /\ a.received = reply.received /\ a.round = reply.round /\ a.next = next
        /\ a.history = history /\ a.map = c.map /\ a.blocked = c.blocked
    <3>1. 0 \in 0 .. STALE_TICKS
      BY <1>1
    <3> DEFINE half == [c EXCEPT !.pending = None, !.age = 0, !.epoch = reply.epoch,
                                 !.tick = reply.tick]
    <3>2. /\ half \in ClientRecord
          /\ half.pending = None /\ half.epoch = reply.epoch /\ half.tick = reply.tick
          /\ half.map = c.map /\ half.blocked = c.blocked
      BY <2>2, <3>1 DEF ClientRecord
    <3>3. a = [half EXCEPT !.received = reply.received, !.round = reply.round,
                           !.status = status, !.next = next, !.history = history]
      BY <2>3
    <3> HIDE DEF a, half
    <3> QED BY <2>2, <2>4, <2>6, <3>2, <3>3 DEF ClientRecord
  <2> HIDE DEF a
  <2>8. ClientFits(a, p, now, rounds)
    <3>1. Dropped(a) = next - 1 - Len(history)
      BY <2>7 DEF Dropped
    <3>2. p.received <= p.received
      BY <2>2
    <3> QED BY <2>1, <2>2, <2>6, <2>7, <3>1, <3>2 DEF ClientFits
  <2>9. c.epoch # 0 => a.epoch = c.epoch /\ a.tick >= c.tick /\ a.received >= c.received
                       /\ a.round >= c.round
    BY <1>1, <2>1, <2>2, <2>5, <2>7
  <2> QED BY <1>3, <2>6, <2>7, <2>8, <2>9 DEF a
<1> QED BY <1>2, <1>3


\* Giving up leaves a client that fits, with room in its history.
LEMMA GiveUpFits ==
    ASSUME NEW c \in ClientRecord, NEW p \in Session, NEW now \in 0 .. MAX_TICK,
           NEW rounds \in Nat, ClientFits(c, p, now, rounds)
    PROVE  /\ GiveUp(c) \in ClientRecord
           /\ ClientFits(GiveUp(c), p, now, rounds)
           /\ GiveUp(c).pending = c.pending /\ GiveUp(c).map = c.map
           /\ GiveUp(c).blocked = c.blocked
           /\ GiveUp(c).epoch = 0 \/ GiveUp(c) = c
           /\ c.blocked => GiveUp(c) = c
           /\ GiveUp(c).status = "LIVE" /\ ~c.blocked => GiveUp(c).age < STALE_TICKS
           /\ ~c.blocked => Len(GiveUp(c).history) < HISTORY
<1> DEFINE u == GiveUp(c)
<1>1. /\ c.age \in 0 .. STALE_TICKS /\ STALE_TICKS \in Nat /\ HISTORY \in Nat /\ HISTORY > 0
      /\ MAX_TICK \in Nat /\ MAX_GENERATION \in Nat /\ Len(c.history) \in Nat
      /\ <<>> \in Seq(Input) /\ Len(<<>>) = 0 /\ "RECONNECTING" \in Statuses
  <2>1. c.history \in Seq(Input) /\ c.age \in 0 .. STALE_TICKS
    BY DEF ClientRecord
  <2>2. Len(c.history) \in Nat
    BY <2>1, LenProperties
  <2>3. "RECONNECTING" \in Statuses
    BY DEF Statuses
  <2> QED BY <2>1, <2>2, <2>3, DuelAssumption
<1>2. CASE GivesUp(c)
  <2>1. u = [c EXCEPT !.epoch = 0, !.next = 1, !.received = 0, !.tick = 0, !.round = 0,
                      !.history = <<>>, !.status = "RECONNECTING"]
    BY <1>2 DEF GiveUp
  <2> HIDE DEF u
  <2>2. 0 \in 0 .. MAX_TICK /\ 0 \in 0 .. MAX_GENERATION /\ 1 \in Nat \ {0} /\ 0 \in Nat
    BY <1>1
  <2>3. /\ u \in ClientRecord /\ u.epoch = 0 /\ u.next = 1 /\ u.received = 0 /\ u.tick = 0
        /\ u.round = 0 /\ u.history = <<>> /\ u.status = "RECONNECTING"
        /\ u.map = c.map /\ u.blocked = c.blocked /\ u.pending = c.pending
    BY <1>1, <2>1, <2>2 DEF ClientRecord
  <2>4. ClientFits(u, p, now, rounds)
    BY <2>3 DEF ClientFits
  <2>5. ~c.blocked
    BY <1>2 DEF GivesUp
  <2> QED BY <1>1, <2>3, <2>4, <2>5 DEF u
<1>3. CASE ~GivesUp(c)
  <2>1. u = c
    BY <1>3 DEF GiveUp
  <2>2. ~c.blocked => c.age < STALE_TICKS /\ Len(c.history) # HISTORY
    BY <1>1, <1>3 DEF GivesUp
  <2>3. Len(c.history) <= HISTORY
    BY <1>1 DEF ClientFits
  <2> QED BY <1>1, <2>1, <2>2, <2>3
<1> QED BY <1>2, <1>3

\* An input captured continues the run.
LEMMA CaptureFits ==
    ASSUME NEW c \in ClientRecord, NEW p \in Session, NEW now \in 0 .. MAX_TICK,
           NEW rounds \in Nat, NEW fire \in BOOLEAN, ClientFits(c, p, now, rounds),
           c.blocked => ~c.map, ~c.blocked => Len(c.history) < HISTORY
    PROVE  /\ Capture(c, fire) \in ClientRecord
           /\ ClientFits(Capture(c, fire), p, now, rounds)
           /\ c.epoch = 0 => Capture(c, fire) = c
           /\ LET b == Capture(c, fire) IN
              /\ b.pending = c.pending /\ b.map = c.map /\ b.blocked = c.blocked
              /\ b.epoch = c.epoch /\ b.tick = c.tick /\ b.received = c.received
              /\ b.round = c.round /\ b.status = c.status /\ b.age = c.age
           /\ c.epoch # 0 =>
                /\ Capture(c, fire).next = c.next + 1
                /\ Range(Capture(c, fire).history) =
                     Range(c.history) \cup {[seq |-> c.next, fire |-> fire]}
<1> DEFINE b == Capture(c, fire)
           i == [seq |-> c.next, fire |-> fire]
<1>1. CASE c.epoch = 0
  <2>1. b = c
    BY <1>1 DEF Capture
  <2> QED BY <1>1, <2>1
<1>2. CASE c.epoch # 0
  <2>1. ~c.blocked
    BY <1>2 DEF ClientFits
  <2> DEFINE history == Append(c.history, i)
             next == c.next + 1
  <2>2. b = [c EXCEPT !.history = history, !.next = next]
    BY <1>2, <2>1 DEF Capture
  <2>3. PICK l \in Nat : Len(c.history) = l /\ DOMAIN c.history = 1 .. l
    BY LenProperties DEF ClientRecord
  <2>4. i \in Input /\ c.history \in Seq(Input) /\ c.next \in Nat /\ next \in Nat \ {0}
    BY DEF Input, ClientRecord
  <2>5. /\ history \in Seq(Input) /\ Len(history) = l + 1 /\ DOMAIN history = 1 .. l + 1
        /\ \A k \in 1 .. l : history[k] = c.history[k]
        /\ history[l + 1] = i
    BY <2>3, <2>4, AppendProperties, LenProperties
  <2> HIDE DEF history, next, b
  <2>6. /\ b \in ClientRecord /\ b.history = history /\ b.next = next
        /\ b.epoch = c.epoch /\ b.map = c.map /\ b.received = c.received
        /\ b.tick = c.tick /\ b.round = c.round /\ b.pending = c.pending
        /\ b.blocked = c.blocked /\ b.status = c.status /\ b.age = c.age
    BY <2>2, <2>4, <2>5 DEF ClientRecord
  <2>7. Range(history) = Range(c.history) \cup {i}
    <3>1. \A k \in 1 .. l + 1 : k \in 1 .. l \/ k = l + 1
      BY <2>3
    <3>2. 1 .. l \subseteq 1 .. l + 1 /\ l + 1 \in 1 .. l + 1
      BY <2>3
    <3> HIDE DEF i
    <3> QED BY <2>3, <2>5, <3>1, <3>2 DEF Range
  <2>8. ClientFits(b, p, now, rounds)
    <3>1. PICK base \in Nat : Dropped(c) = base /\ base = c.next - 1 - l
      BY <1>2, <2>3 DEF ClientFits, Dropped, Numbered
    <3>2. c.next = base + l + 1
      BY <2>3, <2>4, <3>1
    <3>3. next = base + l + 2
      BY <2>3, <3>2 DEF next
    <3>4. Dropped(b) = base
      BY <2>3, <2>5, <2>6, <3>3 DEF Dropped
    <3>5. Numbered(history, base)
      <4>1. \A k \in 1 .. l : c.history[k].seq = base + k
        BY <1>2, <2>3, <3>1 DEF ClientFits, Numbered
      <4>2. i.seq = base + (l + 1)
        BY <3>1, <3>2
      <4>3. \A k \in 1 .. l + 1 : k \in 1 .. l \/ k = l + 1
        BY <2>3
      <4> HIDE DEF i
      <4> QED BY <2>5, <3>1, <4>1, <4>2, <4>3 DEF Numbered
    <3>6. p.received < next
      <4>1. p.received < c.next /\ p.received \in Nat
        BY <1>2 DEF ClientFits, Session
      <4> QED BY <2>4, <4>1 DEF next
    <3>7. l + 1 <= HISTORY
      BY <2>1, <2>3, DuelAssumption
    <3>8. /\ c.epoch = p.epoch /\ c.map /\ base <= p.received
          /\ c.received <= p.received /\ c.tick <= now /\ c.round <= rounds
      BY <1>2, <3>1 DEF ClientFits
    <3> QED BY <1>2, <2>5, <2>6, <3>4, <3>5, <3>6, <3>7, <3>8 DEF ClientFits
  <2> QED BY <1>2, <2>2, <2>6, <2>7, <2>8 DEF next, b
<1> QED BY <1>1, <1>2

\* A tick leaves a client that fits. It stays in its session or leaves it, and in
\* a session it adds one input to what it keeps, with the number that is next.
LEMMA TickFits ==
    ASSUME NEW c \in ClientRecord, NEW p \in Session, NEW now \in 0 .. MAX_TICK,
           NEW rounds \in Nat, NEW fire \in BOOLEAN, ClientFits(c, p, now, rounds),
           c.blocked => ~c.map,
           c.pending # None =>
             SnapshotFits(c.pending, c, p, now, rounds) /\ c.pending.received < c.next
    PROVE  LET a == Adopt(c)  t == ClientTick(c, fire) IN
           /\ t \in ClientRecord
           /\ ClientFits(t, p, now, rounds)
           /\ t.pending = None /\ t.map = c.map /\ t.blocked = c.blocked
           /\ t.epoch # 0 =>
                /\ t.epoch = a.epoch /\ t.tick = a.tick /\ t.received = a.received
                /\ t.round = a.round /\ t.next = a.next + 1
                /\ Range(t.history) =
                     Range(a.history) \cup {[seq |-> a.next, fire |-> fire]}
           /\ c.blocked => t.status = a.status
           /\ t.status = "LIVE" /\ ~c.blocked => t.age < STALE_TICKS
<1> DEFINE a == Adopt(c)
           u == GiveUp(a)
           t == ClientTick(c, fire)
<1>1. /\ a \in ClientRecord /\ ClientFits(a, p, now, rounds) /\ a.pending = None
      /\ a.map = c.map /\ a.blocked = c.blocked
  BY AdoptFits
<1> HIDE DEF a
<1>2. /\ u \in ClientRecord /\ ClientFits(u, p, now, rounds)
      /\ u.pending = None /\ u.map = c.map /\ u.blocked = c.blocked
      /\ u.epoch = 0 \/ u = a
      /\ c.blocked => u = a
      /\ u.status = "LIVE" /\ ~c.blocked => u.age < STALE_TICKS
      /\ ~c.blocked => Len(u.history) < HISTORY
  BY <1>1, GiveUpFits
<1> HIDE DEF u
<1>3. t = Capture(u, fire)
  BY DEF ClientTick, u, a
<1> HIDE DEF t
<1>4. /\ t \in ClientRecord /\ ClientFits(t, p, now, rounds)
      /\ u.epoch = 0 => t = u
      /\ t.pending = u.pending /\ t.map = u.map /\ t.blocked = u.blocked /\ t.epoch = u.epoch
      /\ t.tick = u.tick /\ t.received = u.received /\ t.round = u.round
      /\ t.status = u.status /\ t.age = u.age
      /\ u.epoch # 0 => /\ t.next = u.next + 1
                        /\ Range(t.history) = Range(u.history) \cup {[seq |-> u.next, fire |-> fire]}
  BY <1>2, <1>3, CaptureFits
<1> QED BY <1>2, <1>4 DEF a, t


-----------------------------------------------------------------------------
(* What the room does to the session of a slot.                              *)

\* The types of a slot.
LEMMA SlotTypes ==
    ASSUME DuelTypeOK, GameType, NEW s \in Guests
    PROVE  /\ s \in Slots /\ clients[s] \in ClientRecord /\ guests[s] \in GuestRecord
           /\ turn[s] \in {"tick", "frame"} /\ wire[s] \in Seq(Sendings)
           /\ links[s] \in LinkRecord /\ peers[s] \in Session
           /\ tick \in 0 .. MAX_TICK /\ round \in Nat /\ generation \in 0 .. MAX_GENERATION
           /\ links[s].lost \in Seq(Request \cup {None}) /\ links[s].closed \in BOOLEAN
BY CrossplayAssumption DEF DuelTypeOK, GameType, Session, Slots, LinkRecord

\* A refused request changes no session.
LEMMA RefuseKeeps ==
    ASSUME NEW s \in Slots, NEW req \in Request, Refuse(s, req)
    PROVE  UNCHANGED <<tick, round, generation, peers>>
BY DEF Refuse

\* The room's counters never go back.
LEMMA RoomMoves ==
    ASSUME DuelTypeOK, [DuelNext]_duelVars
    PROVE  tick' >= tick /\ round' >= round /\ generation' >= generation
<1>1. tick \in Nat /\ round \in Nat /\ generation \in Nat
  BY DuelAssumption DEF DuelTypeOK
<1>2. ASSUME NEW s \in Slots, NEW req \in Request, Exchange(s, req)
      PROVE  tick' >= tick /\ round' >= round /\ generation' >= generation
  <2>1. CASE Refuse(s, req)
    BY <1>1, <2>1, RefuseKeeps
  <2>2. CASE Join(s, req)
    BY <1>1, <2>2 DEF Join
  <2>3. CASE Accept(s, req)
    <3>1. UNCHANGED <<tick, round, generation>>
      BY <2>3 DEF Accept
    <3> QED BY <1>1, <3>1
  <2> QED BY <1>2, <2>1, <2>2, <2>3 DEF Exchange
<1>3. ASSUME NEW s \in Slots, Disconnect(s)
      PROVE  tick' >= tick /\ round' >= round /\ generation' >= generation
  BY <1>1, <1>3 DEF Disconnect
<1>4. CASE Step
  BY <1>1, <1>4 DEF Step
<1>5. CASE UNCHANGED duelVars
  BY <1>1, <1>5 DEF duelVars
<1> QED BY <1>2, <1>3, <1>4, <1>5 DEF DuelNext

\* A slot's session goes on and nothing is added to its queue.
PeerKept(p, q) ==
    q.epoch = p.epoch /\ q.received = p.received /\ Range(q.input) \subseteq Range(p.input)

\* Ticks and departures keep every session, an exchange those of other slots.
LEMMA TickKeeps ==
    ASSUME DuelTypeOK, Step, NEW s \in Slots
    PROVE  PeerKept(peers[s], peers'[s])
<1> DEFINE rest == IF Queue(s) = <<>> THEN <<>> ELSE Tail(Queue(s))
<1>1. peers[s] \in Session /\ peers[s].input \in Seq(Input) /\ <<>> \in Seq(Input)
  BY DEF DuelTypeOK, Session
<1>2. peers'[s].epoch = peers[s].epoch /\ peers'[s].received = peers[s].received
      /\ peers'[s].input = rest
  <2> DEFINE stays == s \in Present
             executed == IF Queue(s) = <<>> THEN Acked(s) ELSE Head(Queue(s)).seq
  <2>1. peers'[s] = [peers[s] EXCEPT !.connected = stays, !.input = rest, !.ack = executed]
    <3>1. peers' = [p \in Slots |-> AfterInput(p)]
      BY DEF Step
    <3>2. peers'[s] = AfterInput(s)
      BY <3>1
    <3> QED BY <3>2 DEF AfterInput
  <2> HIDE DEF stays, rest, executed
  <2> QED BY <1>1, <2>1 DEF Session
<1>3. Queue(s) = <<>> \/ Queue(s) = peers[s].input
  BY DEF Queue
<1>4. ASSUME Queue(s) # <<>>
      PROVE  Range(Tail(peers[s].input)) \subseteq Range(peers[s].input)
  <2> DEFINE q == peers[s].input
  <2>1. q # <<>> /\ q \in Seq(Input)
    BY <1>1, <1>3, <1>4
  <2> HIDE DEF q
  <2>2. /\ Tail(q) \in Seq(Input) /\ Len(Tail(q)) = Len(q) - 1 /\ Len(q) \in Nat
        /\ \A k \in 1 .. Len(Tail(q)) : Tail(q)[k] = q[k + 1]
    BY <2>1, HeadTailProperties, LenProperties
  <2>3. DOMAIN Tail(q) = 1 .. Len(Tail(q)) /\ DOMAIN q = 1 .. Len(q)
    BY <2>1, <2>2, LenProperties
  <2>4. \A k \in DOMAIN Tail(q) : k + 1 \in DOMAIN q
    BY <2>2, <2>3
  <2>5. Range(Tail(q)) \subseteq Range(q)
    BY <2>2, <2>3, <2>4 DEF Range
  <2> QED BY <2>5 DEF q
<1>5. Range(<<>>) = {}
  BY DEF Range
<1>6. Range(rest) \subseteq Range(peers[s].input)
  BY <1>3, <1>4, <1>5
<1> QED BY <1>2, <1>6 DEF PeerKept

LEMMA DepartureKeeps ==
    ASSUME DuelTypeOK, NEW q \in Slots, Disconnect(q), NEW s \in Slots
    PROVE  PeerKept(peers[s], peers'[s])
<1>1. peers \in [Slots -> Session] /\ <<>> \in Seq(Input) /\ Range(<<>>) = {}
  BY DEF DuelTypeOK, Session, Range
<1>2. /\ peers'[s].epoch = peers[s].epoch /\ peers'[s].received = peers[s].received
      /\ peers'[s].input = peers[s].input \/ peers'[s].input = <<>>
  BY <1>1 DEF Disconnect, Session
<1> QED BY <1>1, <1>2 DEF PeerKept

LEMMA OthersKept ==
    ASSUME DuelTypeOK, NEW q \in Slots, NEW req \in Request, Exchange(q, req),
           NEW s \in Slots, s # q
    PROVE  PeerKept(peers[s], peers'[s])
<1>1. peers \in [Slots -> Session]
  BY DEF DuelTypeOK, Session
<1>2. peers'[s] = peers[s]
  <2>1. CASE Refuse(q, req)
    BY <2>1, RefuseKeeps
  <2>2. CASE Join(q, req)
    BY <1>1, <2>2 DEF Join
  <2>3. CASE Accept(q, req)
    BY <1>1, <2>3, AcceptSession
  <2> QED BY <2>1, <2>2, <2>3 DEF Exchange
<1> QED BY <1>2 DEF PeerKept


\* What an exchange does to the slot's own session: nothing; a join, which starts
\* a session of its own; or a batch, which queues inputs of the request.
LEMMA ExchangeEffect ==
    ASSUME DuelTypeOK, SessionsDistinct, NEW s \in Slots, NEW req \in Request,
           Numbered(req.inputs, Before(req.inputs)), Exchange(s, req)
    PROVE  LET p == peers[s]  q == peers'[s] IN
           \/ q = p
           \/ /\ req.epoch = 0 /\ q.epoch > generation
              /\ q.received = 0 /\ q.input = <<>>
           \/ /\ req.epoch # 0 /\ req.epoch = p.epoch /\ q.epoch = p.epoch
              /\ q.received >= p.received
              /\ \/ q.received = p.received
                 \/ q.received <= Before(req.inputs) + Len(req.inputs)
              /\ Range(q.input) \subseteq Range(p.input) \cup Range(req.inputs)
<1>0. /\ peers \in [Slots -> Session] /\ peers[s] \in Session
      /\ peers[s].received \in Nat /\ peers[s].input \in Seq(Input)
      /\ generation \in Nat /\ req.inputs \in Seq(Input)
  BY DuelAssumption, RequestShape DEF DuelTypeOK, Session
<1>1. CASE Refuse(s, req)
  BY <1>1, RefuseKeeps
<1>2. CASE Join(s, req)
  <2>1. peers'[s].epoch = generation + 1 /\ peers'[s].received = 0 /\ peers'[s].input = <<>>
    BY <1>0, <1>2 DEF Join, FreshPeer
  <2>2. req.epoch = 0
    BY <1>2 DEF Join
  <2> QED BY <1>0, <2>1, <2>2
<1>3. CASE Accept(s, req)
  <2>1. PICK take \in TakeChoices(req.inputs) :
          /\ Takes(peers[s].received, req.inputs, take)
          /\ peers' = [peers EXCEPT
                ![s].received = @ + Len(take),
                ![s].input = @ \o [i \in 1 .. Len(take) |-> req.inputs[take[i]]],
                ![s].last = tick]
    BY <1>3 DEF Accept
  <2> DEFINE taken == [i \in 1 .. Len(take) |-> req.inputs[take[i]]]
  <2>2. PICK n \in Nat : Len(take) = n /\ DOMAIN take = 1 .. n
    BY <1>0, TakenInputs
  <2>3. taken \in Seq(Input) /\ Len(taken) = n /\ DOMAIN taken = 1 .. n
    BY <1>0, <2>2, TakenInputs
  <2>4. take \in [1 .. n -> DOMAIN req.inputs]
    BY <2>2 DEF TakeChoices
  <2>5. \A i \in 1 .. n : taken[i] = req.inputs[take[i]] /\ taken[i].seq = peers[s].received + i
    BY <2>1, <2>2 DEF Takes
  <2> DEFINE queue == peers[s].input \o taken
             more == peers[s].received + n
  <2>6. peers' = [peers EXCEPT ![s] = [peers[s] EXCEPT
              !.received = more, !.input = queue, !.last = tick]]
    BY <1>0, <2>1, <2>2
  <2> HIDE DEF taken
  <2>7. Range(queue) \subseteq Range(peers[s].input) \cup Range(req.inputs)
    <3>1. PICK m \in Nat : Len(peers[s].input) = m /\ DOMAIN peers[s].input = 1 .. m
      BY <1>0, LenProperties
    <3>2. /\ queue \in Seq(Input) /\ Len(queue) = m + n /\ DOMAIN queue = 1 .. m + n
          /\ \A k \in 1 .. m + n : queue[k] = IF k <= m THEN peers[s].input[k] ELSE taken[k - m]
      <4>1. /\ queue \in Seq(Input) /\ Len(queue) = Len(peers[s].input) + Len(taken)
            /\ \A k \in 1 .. Len(peers[s].input) + Len(taken) :
                 queue[k] = IF k <= Len(peers[s].input) THEN peers[s].input[k]
                            ELSE taken[k - Len(peers[s].input)]
        BY <1>0, <2>3, ConcatProperties
      <4> HIDE DEF queue
      <4>2. DOMAIN queue = 1 .. Len(queue)
        BY <4>1, LenProperties
      <4> QED BY <2>3, <3>1, <4>1, <4>2
    <3> HIDE DEF queue
    <3>3. ASSUME NEW k \in 1 .. m + n
          PROVE  queue[k] \in Range(peers[s].input) \cup Range(req.inputs)
      <4>1. CASE k <= m
        <5>1. k \in 1 .. m
          BY <3>1, <4>1
        <5> QED BY <3>1, <3>2, <4>1, <5>1 DEF Range
      <4>2. CASE k > m
        <5>1. k - m \in 1 .. n /\ ~(k <= m)
          BY <2>2, <3>1, <4>2
        <5>2. queue[k] = req.inputs[take[k - m]] /\ take[k - m] \in DOMAIN req.inputs
          BY <2>4, <2>5, <3>2, <5>1
        <5> QED BY <5>2 DEF Range
      <4> QED BY <3>1, <4>1, <4>2
    <3> QED BY <3>2, <3>3 DEF Range
  <2>8. more >= peers[s].received /\ more \in Nat
    BY <1>0, <2>2
  <2>9. more = peers[s].received \/ more <= Before(req.inputs) + Len(req.inputs)
    <3>1. CASE n = 0
      BY <1>0, <3>1
    <3>2. CASE n # 0
      <4>1. n \in 1 .. n
        BY <2>2, <3>2
      <4>2. PICK k \in DOMAIN req.inputs : taken[n] = req.inputs[k]
        BY <2>4, <2>5, <4>1
      <4>3. req.inputs[k].seq = more
        BY <2>5, <4>1, <4>2
      <4>4. req.inputs[k].seq = Before(req.inputs) + k /\ Before(req.inputs) \in Nat
        BY <4>2 DEF Numbered
      <4>5. PICK m \in Nat : Len(req.inputs) = m /\ k \in 1 .. m
        BY <1>0, LenProperties
      <4>6. Before(req.inputs) + k <= Before(req.inputs) + m
        BY <4>4, <4>5
      <4> QED BY <4>3, <4>4, <4>5, <4>6
    <3> QED BY <3>1, <3>2
  <2> HIDE DEF queue, more
  <2>10. /\ peers'[s].epoch = peers[s].epoch /\ peers'[s].received = more
         /\ peers'[s].input = queue
    BY <1>0, <2>6 DEF Session
  <2>11. req.epoch # 0 /\ req.epoch = peers[s].epoch
    <3>1. Error(s, req) = NoError /\ req.epoch # 0
      BY <1>3 DEF Accept
    <3> QED BY <3>1 DEF Error, NoError
  <2> QED BY <2>7, <2>8, <2>9, <2>10, <2>11
<1> QED BY <1>1, <1>2, <1>3 DEF Exchange

\* The errors are told apart.
LEMMA ErrorShape ==
    ASSUME NEW s \in Slots, NEW req \in Request
    PROVE  /\ Error(s, req) = NoError => req.map
           /\ Error(s, req) = "map or protocol mismatch" => ~req.map
           /\ Error(s, req) # "none"
BY Zenon DEF Error, NoError

\* An answer is an error, or a snapshot of the session the exchange leaves.
LEMMA AnswerShape ==
    ASSUME DuelTypeOK, OrderInv', NEW s \in Slots, NEW req \in Request, Exchange(s, req)
    PROVE  LET a == Answer(s, req) IN
           /\ a # None
           /\ Mismatch(a) => ~req.map
           /\ a.error = NoError =>
                /\ req.map /\ a \in Snapshot /\ a.epoch # 0 /\ a.epoch = peers'[s].epoch
                /\ a.ack <= a.received /\ a.received = peers'[s].received
                /\ a.tick = tick' /\ a.round = round'
<1>1. CASE Error(s, req) # NoError
  <2>1. Answer(s, req) = [error |-> Error(s, req)]
    BY <1>1 DEF Answer, Refused
  <2>2. Answer(s, req).error = Error(s, req)
    BY <2>1
  <2>3. None.error = "none"
    BY DEF None
  <2> QED BY <1>1, <2>2, <2>3, ErrorShape, Zenon DEF Mismatch
<1>2. CASE Error(s, req) = NoError
  <2> DEFINE a == Answer(s, req)
             shows == (live /\ restart = 0)'
  <2>1. a = [error |-> NoError, epoch |-> peers'[s].epoch, tick |-> tick', ack |-> peers'[s].ack,
             received |-> peers'[s].received, round |-> round', playing |-> shows,
             connected |-> [p \in Slots |-> peers'[p].connected]]
    BY <1>2 DEF Answer, Reply
  <2> HIDE DEF a, shows
  <2>2. /\ a.error = NoError /\ a.epoch = peers'[s].epoch /\ a.tick = tick'
        /\ a.ack = peers'[s].ack /\ a.received = peers'[s].received /\ a.round = round'
    BY <2>1
  <2>3. NoError # None.error
    BY NoneIsNoSnapshot
  <2>4. /\ peers' \in [Slots -> Session] /\ tick' \in 0 .. MAX_TICK /\ round' \in Nat
        /\ peers'[s].ack <= peers'[s].received
    BY DEF OrderInv, QueueInv, DuelTypeOK, Session
  <2>5. a \in Snapshot
    <3>1. shows \in BOOLEAN
      BY DEF shows
    <3>2. [p \in Slots |-> peers'[p].connected] \in [Slots -> BOOLEAN]
      BY <2>4 DEF Session
    <3>3. peers'[s] \in Session
      BY <2>4
    <3> QED BY <2>1, <2>4, <3>1, <3>2, <3>3 DEF Snapshot, Session
  <2>6. peers'[s].epoch # 0
    <3>1. ~Refuse(s, req)
      BY <1>2 DEF Refuse
    <3>2. CASE Join(s, req)
      <4>1. peers \in [Slots -> Session] /\ generation \in Nat
        BY DuelAssumption DEF DuelTypeOK, Session
      <4>2. peers'[s].epoch = generation + 1
        BY <3>2, <4>1 DEF Join, FreshPeer
      <4> QED BY <4>1, <4>2
    <3>3. CASE Accept(s, req)
      <4>1. req.epoch # 0 /\ req.epoch = peers[s].epoch
        BY <1>2, <3>3 DEF Accept, Error, NoError
      <4>2. peers'[s].epoch = peers[s].epoch
        BY <3>3, AcceptSession
      <4> QED BY <4>1, <4>2
    <3> QED BY <3>1, <3>2, <3>3 DEF Exchange
  <2>7. req.map
    BY <1>2, ErrorShape
  <2>8. ~Mismatch(a)
    BY <2>2, Zenon DEF NoError, Mismatch
  <2> QED BY <2>2, <2>3, <2>4, <2>5, <2>6, <2>7, <2>8 DEF a
<1> QED BY <1>1, <1>2


-----------------------------------------------------------------------------
(* What fits goes on fitting.                                                *)

\* A client fits while the room keeps or extends its session within what the
\* client has numbered.
LEMMA ClientKept ==
    ASSUME NEW c \in ClientRecord, NEW p \in Session, NEW q \in Session,
           NEW now \in Nat, NEW later \in Nat, NEW rounds \in Nat, NEW more \in Nat,
           now <= later, rounds <= more, ClientFits(c, p, now, rounds),
           c.epoch # 0 => /\ q.epoch = p.epoch /\ q.received >= p.received
                          /\ q.received < c.next
    PROVE  ClientFits(c, q, later, more)
<1>1. CASE c.epoch = 0
  BY <1>1 DEF ClientFits
<1>2. CASE c.epoch # 0
  <2>1. /\ p.received \in Nat /\ q.received \in Nat /\ c.received \in Nat /\ c.round \in Nat
        /\ c.tick \in Int
    BY DEF Session, ClientRecord
  <2>2. Dropped(c) \in Nat /\ Dropped(c) <= p.received /\ c.received <= p.received
        /\ c.tick <= now /\ c.round <= rounds
    BY <1>2 DEF ClientFits, Numbered
  <2>3. Dropped(c) <= q.received /\ c.received <= q.received /\ c.tick <= later /\ c.round <= more
    BY <1>2, <2>1, <2>2
  <2> QED BY <1>2, <2>3 DEF ClientFits
<1> QED BY <1>1, <1>2

\* A request fits while the room keeps or extends the session, or starts another.
LEMMA RequestsKept ==
    ASSUME NEW requests, NEW more, more \subseteq requests,
           NEW c, NEW p \in Session, NEW q \in Session, NEW last \in Nat, NEW later \in Nat,
           last <= later, RequestsFit(requests, c, p, last),
           \/ q.epoch = p.epoch /\ q.received >= p.received
           \/ q.epoch > last
    PROVE  RequestsFit(more, c, q, later)
<1> SUFFICES ASSUME NEW r \in more
             PROVE  RequestFits(r, c, q, later)
  BY DEF RequestsFit
<1>1. RequestFits(r, c, p, last)
  BY DEF RequestsFit
<1>2. /\ r.epoch \in Nat /\ r.epoch <= last /\ Before(r.inputs) \in Nat
      /\ p.received \in Nat /\ q.received \in Nat /\ q.epoch \in Int
  BY <1>1 DEF RequestFits, Request, Session, Numbered
<1>3. r.epoch <= later
  BY <1>2
<1>4. r.epoch # 0 /\ r.epoch = q.epoch => Before(r.inputs) <= q.received
  <2>1. CASE q.epoch = p.epoch /\ q.received >= p.received
    <3>1. r.epoch # 0 /\ r.epoch = p.epoch => Before(r.inputs) <= p.received
      BY <1>1 DEF RequestFits
    <3> QED BY <1>2, <2>1, <3>1
  <2>2. CASE q.epoch > last
    BY <1>2, <2>2
  <2> QED BY <2>1, <2>2
<1> QED BY <1>1, <1>3, <1>4 DEF RequestFits

\* Fewer inputs name no more.
LEMMA NamesKept ==
    ASSUME NEW c, NEW p, NEW q, NEW requests, NEW fewer,
           NamesFit(c, p, requests),
           c.epoch # 0 => KeptInputs(c, q, fewer) \subseteq KeptInputs(c, p, requests)
    PROVE  NamesFit(c, q, fewer)
BY DEF NamesFit, NameOne

\* A snapshot fits while the session stays as it is.
LEMMA SnapshotKept ==
    ASSUME NEW reply, NEW c, NEW p \in Session, NEW q \in Session,
           NEW now \in Nat, NEW later \in Nat, NEW rounds \in Nat, NEW more \in Nat,
           now <= later, rounds <= more, SnapshotFits(reply, c, p, now, rounds),
           q.epoch = p.epoch, q.received = p.received
    PROVE  SnapshotFits(reply, c, q, later, more)
<1>1. reply.tick \in Int /\ reply.round \in Nat
  BY DEF SnapshotFits, Snapshot
<1>2. reply.tick <= now /\ reply.round <= rounds
  BY DEF SnapshotFits
<1>3. reply.tick <= later /\ reply.round <= more
  BY <1>1, <1>2
<1> QED BY <1>3 DEF SnapshotFits

\* Of an unchanged client, a step that leaves its session alone, puts nothing on
\* the way to the room and brings no snapshot, changes nothing that matters.
LEMMA QuietMove ==
    ASSUME DuelTypeOK, GameType, DuelTypeOK', GameType', [DuelNext]_duelVars,
           NEW s \in Guests, RoomFits(s), PeerKept(peers[s], peers'[s]),
           clients'[s] = clients[s], guests'[s].ticket = guests[s].ticket, turn'[s] = turn[s],
           answers'[s] = answers[s] \/ answers'[s].error # NoError,
           Sent(wire'[s], links'[s]) \subseteq Sent(wire[s], links[s]),
           Silent(wire[s], links[s]) => Silent(wire'[s], links'[s])
    PROVE  RoomFits(s)'
<1> DEFINE c == clients[s]
           p == peers[s]
           q == peers'[s]
<1>1. /\ c \in ClientRecord /\ p \in Session /\ s \in Slots
      /\ tick \in 0 .. MAX_TICK /\ round \in Nat /\ generation \in 0 .. MAX_GENERATION
  BY SlotTypes
<1>2. q \in Session /\ tick' \in 0 .. MAX_TICK /\ round' \in Nat
      /\ generation' \in 0 .. MAX_GENERATION
  BY <1>1 DEF DuelTypeOK, Session
<1>3. /\ tick \in Nat /\ generation \in Nat /\ tick' \in Nat /\ generation' \in Nat
      /\ tick <= tick' /\ round <= round' /\ generation <= generation'
  BY <1>1, <1>2, RoomMoves
<1>4. /\ q.epoch = p.epoch /\ q.received = p.received /\ q.received >= p.received
      /\ Range(q.input) \subseteq Range(p.input)
  BY <1>1 DEF PeerKept, Session
<1>5. ClientFits(c, q, tick', round')
  <2>1. ClientFits(c, p, tick, round)
    BY DEF RoomFits
  <2>2. c.epoch # 0 => q.received < c.next
    BY <1>4, <2>1 DEF ClientFits
  <2> QED BY <1>1, <1>2, <1>3, <1>4, <2>1, <2>2, ClientKept
<1>6. RequestsFit(Sent(wire'[s], links'[s]), c, q, generation')
  BY <1>1, <1>2, <1>3, <1>4, RequestsKept DEF RoomFits
<1>7. NamesFit(c, q, Sent(wire'[s], links'[s]))
  <2>1. KeptInputs(c, q, Sent(wire'[s], links'[s])) \subseteq KeptInputs(c, p, Sent(wire[s], links[s]))
    BY <1>4 DEF KeptInputs
  <2> QED BY <2>1, NamesKept DEF RoomFits
<1>8. AnswerFits(answers'[s], c, q, wire'[s], links'[s], tick', round')
  <2> SUFFICES ASSUME answers'[s].error = NoError
               PROVE  Silent(wire'[s], links'[s]) /\ SnapshotFits(answers[s], c, q, tick', round')
    BY DEF AnswerFits
  <2>1. Silent(wire[s], links[s]) /\ SnapshotFits(answers[s], c, p, tick, round)
    BY DEF RoomFits, AnswerFits
  <2> QED BY <1>1, <1>2, <1>3, <1>4, <2>1, SnapshotKept
<1>9. PendingFits(c, guests'[s], turn[s], q, wire'[s], links'[s], tick', round')
  <2> SUFFICES ASSUME c.pending # None
               PROVE  /\ turn[s] = "tick" /\ ~guests[s].ticket /\ Silent(wire'[s], links'[s])
                      /\ SnapshotFits(c.pending, c, q, tick', round')
                      /\ c.pending.received < c.next
    BY DEF PendingFits
  <2>1. /\ turn[s] = "tick" /\ ~guests[s].ticket /\ Silent(wire[s], links[s])
        /\ SnapshotFits(c.pending, c, p, tick, round)
        /\ c.pending.received < c.next
    BY DEF RoomFits, PendingFits
  <2> QED BY <1>1, <1>2, <1>3, <1>4, <2>1, SnapshotKept
<1> HIDE DEF c, p, q
<1>10. RoomFits(s)' <=>
         /\ ClientFits(clients'[s], peers'[s], tick', round')
         /\ RequestsFit(Sent(wire'[s], links'[s]), clients'[s], peers'[s], generation')
         /\ NamesFit(clients'[s], peers'[s], Sent(wire'[s], links'[s]))
         /\ AnswerFits(answers'[s], clients'[s], peers'[s], wire'[s], links'[s], tick', round')
         /\ PendingFits(clients'[s], guests'[s], turn'[s], peers'[s], wire'[s], links'[s], tick', round')
  BY DEF RoomFits
<1> QED BY <1>5, <1>6, <1>7, <1>8, <1>9, <1>10 DEF c, q


\* The same of a step in which the room handles a request of the slot, and a
\* snapshot comes back only when nothing else is on the way.
LEMMA OwnExchange ==
    ASSUME OrderInv, GameType, OrderInv', GameType',
           NEW s \in Guests, RoomFits(s),
           NEW req \in Sent(wire[s], links[s]), Exchange(s, req),
           clients'[s] = clients[s], turn'[s] = turn[s],
           Sent(wire'[s], links'[s]) \subseteq Sent(wire[s], links[s]),
           \/ answers'[s] = answers[s] \/ answers'[s].error # NoError
           \/ /\ answers'[s] = Answer(s, req) /\ req.map = clients[s].map
              /\ Silent(wire'[s], links'[s])
    PROVE  RoomFits(s)'
<1> DEFINE c == clients[s]
           p == peers[s]
           q == peers'[s]
           requests == Sent(wire[s], links[s])
           left == Sent(wire'[s], links'[s])
<1>0. DuelTypeOK /\ DuelTypeOK' /\ SessionsDistinct
  BY DEF OrderInv, QueueInv, SessionInv
<1>1. /\ c \in ClientRecord /\ p \in Session /\ s \in Slots
      /\ tick \in 0 .. MAX_TICK /\ round \in Nat /\ generation \in 0 .. MAX_GENERATION
  BY <1>0, SlotTypes
<1>2. q \in Session /\ tick' \in 0 .. MAX_TICK /\ round' \in Nat
      /\ generation' \in 0 .. MAX_GENERATION
  BY <1>0, <1>1 DEF DuelTypeOK, Session
<1>3. /\ ClientFits(c, p, tick, round) /\ RequestsFit(requests, c, p, generation)
      /\ NamesFit(c, p, requests)
  BY DEF RoomFits
<1>4. RequestFits(req, c, p, generation)
  BY <1>3 DEF RequestsFit
<1>5. /\ req \in Request /\ Numbered(req.inputs, Before(req.inputs)) /\ req.inputs \in Seq(Input)
      /\ req.epoch = 0 => c.epoch = 0
      /\ req.epoch # 0 /\ req.epoch = c.epoch => Before(req.inputs) + Len(req.inputs) < c.next
  BY <1>4 DEF RequestFits, Request
<1>6. [DuelNext]_duelVars
  BY <1>1, <1>5 DEF DuelNext
<1>7. /\ tick \in Nat /\ generation \in Nat /\ tick' \in Nat /\ generation' \in Nat
      /\ tick <= tick' /\ round <= round' /\ generation <= generation'
  BY <1>0, <1>1, <1>2, <1>6, RoomMoves
<1>8. \/ q = p
      \/ /\ req.epoch = 0 /\ q.epoch > generation
         /\ q.received = 0 /\ q.input = <<>>
      \/ /\ req.epoch # 0 /\ req.epoch = p.epoch /\ q.epoch = p.epoch
         /\ q.received >= p.received
         /\ \/ q.received = p.received
            \/ q.received <= Before(req.inputs) + Len(req.inputs)
         /\ Range(q.input) \subseteq Range(p.input) \cup Range(req.inputs)
  BY <1>0, <1>1, <1>5, ExchangeEffect
<1>9. /\ c.next \in Nat /\ p.received \in Nat /\ q.received \in Nat
      /\ Before(req.inputs) \in Nat /\ Len(req.inputs) \in Nat
  BY <1>1, <1>2, <1>5, LenProperties DEF ClientRecord, Session, Numbered
<1>10. c.epoch # 0 => /\ c.epoch = p.epoch /\ p.received < c.next
                      /\ q.epoch = p.epoch /\ q.received >= p.received /\ q.received < c.next
  <2> SUFFICES ASSUME c.epoch # 0
               PROVE  /\ c.epoch = p.epoch /\ p.received < c.next
                      /\ q.epoch = p.epoch /\ q.received >= p.received /\ q.received < c.next
    OBVIOUS
  <2>1. c.epoch = p.epoch /\ p.received < c.next
    BY <1>3 DEF ClientFits
  <2>2. req.epoch # 0
    BY <1>5
  <2> HIDE DEF c, p, q
  <2> QED BY <1>5, <1>8, <1>9, <2>1, <2>2
<1>11. ClientFits(c, q, tick', round')
  BY <1>1, <1>2, <1>3, <1>7, <1>10, ClientKept
<1>12. RequestsFit(left, c, q, generation')
  <2>1. (q.epoch = p.epoch /\ q.received >= p.received) \/ q.epoch > generation
    BY <1>8, <1>9
  <2> QED BY <1>1, <1>2, <1>3, <1>7, <2>1, RequestsKept
<1>13. NamesFit(c, q, left)
  <2>1. ASSUME c.epoch # 0
        PROVE  KeptInputs(c, q, left) \subseteq KeptInputs(c, p, requests)
    <3>1. Range(q.input) \subseteq Range(p.input)
            \/ (req.epoch = c.epoch /\ Range(q.input) \subseteq Range(p.input) \cup Range(req.inputs))
      BY <1>5, <1>8, <1>10, <2>1
    <3> HIDE DEF c, p, q
    <3> QED BY <3>1 DEF KeptInputs
  <2> QED BY <1>3, <2>1, NamesKept
<1>14. ~Silent(wire[s], links[s])
  <2>1. wire[s] = <<>> => DOMAIN wire[s] = {}
    OBVIOUS
  <2>2. links[s].lost = <<>> => Range(links[s].lost) = {}
    BY DEF Range
  <2> QED BY <2>1, <2>2 DEF Silent, Sent
<1>15. AnswerFits(answers'[s], c, q, wire'[s], links'[s], tick', round')
  <2>1. CASE answers'[s] = answers[s]
    BY <1>14, <2>1 DEF RoomFits, AnswerFits
  <2>2. CASE answers'[s].error # NoError
    BY <2>2 DEF AnswerFits
  <2>3. CASE /\ answers'[s] = Answer(s, req) /\ req.map = clients[s].map
             /\ Silent(wire'[s], links'[s]) /\ answers'[s].error = NoError
    <3> DEFINE a == Answer(s, req)
    <3>1. /\ req.map /\ a \in Snapshot /\ a.epoch # 0 /\ a.epoch = q.epoch
          /\ a.ack <= a.received /\ a.received = q.received
          /\ a.tick = tick' /\ a.round = round'
      BY <1>0, <1>1, <1>5, <2>3, AnswerShape
    <3>2. a.tick <= tick' /\ a.round <= round'
      BY <1>2, <1>7, <3>1
    <3>3. c.epoch # 0 => a.tick >= c.tick /\ a.round >= c.round
      <4>1. c.tick \in Int /\ c.round \in Nat
        BY <1>1 DEF ClientRecord
      <4>2. c.epoch # 0 => c.tick <= tick' /\ c.round <= round'
        BY <1>11 DEF ClientFits
      <4> QED BY <1>2, <1>7, <3>1, <4>1, <4>2
    <3> QED BY <2>3, <3>1, <3>2, <3>3 DEF AnswerFits, SnapshotFits
  <2> QED BY <2>1, <2>2, <2>3
<1>16. PendingFits(c, guests'[s], turn[s], q, wire'[s], links'[s], tick', round')
  BY <1>14 DEF RoomFits, PendingFits
<1> HIDE DEF c, p, q, requests, left
<1>17. RoomFits(s)' <=>
         /\ ClientFits(clients'[s], peers'[s], tick', round')
         /\ RequestsFit(Sent(wire'[s], links'[s]), clients'[s], peers'[s], generation')
         /\ NamesFit(clients'[s], peers'[s], Sent(wire'[s], links'[s]))
         /\ AnswerFits(answers'[s], clients'[s], peers'[s], wire'[s], links'[s], tick', round')
         /\ PendingFits(clients'[s], guests'[s], turn'[s], peers'[s], wire'[s], links'[s], tick', round')
  BY DEF RoomFits
<1> QED BY <1>11, <1>12, <1>13, <1>15, <1>16, <1>17 DEF c, q, left


-----------------------------------------------------------------------------
(* The game's tick.                                                          *)

\* What a client asks fits: it is a run of its own inputs that begins no later
\* than what the room expects.
LEMMA RequestOfClient ==
    ASSUME NEW c \in ClientRecord, NEW p \in Session, NEW now, NEW rounds, NEW last \in Nat,
           ClientFits(c, p, now, rounds), p.epoch <= last
    PROVE  /\ RequestFits(ClientRequest(c), c, p, last)
           /\ ClientRequest(c).map = c.map /\ ClientRequest(c).epoch = c.epoch
           /\ Range(ClientRequest(c).inputs) \subseteq Range(c.history)
<1> DEFINE r == ClientRequest(c)
           inputs == r.inputs
<1>1. /\ c.epoch \in Nat /\ c.map \in BOOLEAN /\ c.history \in Seq(Input) /\ c.received \in Nat
      /\ c.next \in Nat /\ BATCH \in Nat /\ p.received \in Nat
  BY DuelAssumption DEF ClientRecord, Session
<1>2. r.map = c.map /\ r.epoch = c.epoch
  BY DEF ClientRequest
<1>3. CASE c.epoch = 0
  <2>1. r = [map |-> c.map, epoch |-> 0, inputs |-> <<>>]
    BY <1>3 DEF ClientRequest
  <2>2. Len(<<>>) <= BATCH /\ Range(<<>>) = {} /\ Numbered(<<>>, Before(<<>>)) /\ <<>> \in Seq(Input)
    BY <1>1 DEF Numbered, Before, Range
  <2>3. 0 <= last
    OBVIOUS
  <2>4. r \in Request /\ r.inputs = <<>>
    BY <1>1, <2>1, <2>2 DEF Request
  <2> HIDE DEF r
  <2> QED BY <1>2, <1>3, <2>2, <2>3, <2>4 DEF RequestFits, r
<1>4. CASE c.epoch # 0
  <2> DEFINE kept == After(c.history, c.received)
  <2>1. inputs = Take(kept, BATCH)
    BY <1>4 DEF ClientRequest
  <2>2. /\ Numbered(c.history, Dropped(c)) /\ Dropped(c) \in Nat /\ Dropped(c) <= p.received
        /\ c.received <= p.received /\ p.received < c.next /\ c.epoch = p.epoch
    BY <1>4 DEF ClientFits, Numbered
  <2>3. PICK l \in Nat : Len(c.history) = l
    BY <1>1, LenProperties
  <2>4. PICK base \in Nat : Dropped(c) = base /\ base + l + 1 = c.next
    <3>1. Dropped(c) = c.next - 1 - l
      BY <2>3 DEF Dropped
    <3>2. (c.next - 1 - l) + l + 1 = c.next
      BY <1>1, <2>3
    <3> QED BY <2>2, <3>1, <3>2
  <2>5. /\ kept \in Seq(Input) /\ Numbered(kept, base + l - Len(kept))
        /\ Range(kept) \subseteq Range(c.history)
        /\ Len(kept) = IF c.received <= base THEN l
                       ELSE IF c.received - base <= l THEN base + l - c.received ELSE 0
    BY <1>1, <2>2, <2>3, <2>4, AfterNumbered
  <2> HIDE DEF kept
  <2>6. PICK m \in Nat : Len(kept) = m
    BY <2>5, LenProperties
  <2>7. PICK from \in Nat : from = base + l - m
    <3>1. base + l - m \in Nat
      BY <2>5, <2>6 DEF Numbered
    <3> QED BY <3>1
  <2>8. Numbered(kept, from) /\ (m # 0 => from <= p.received) /\ from + m = base + l
    <3>1. from + m = base + l
      BY <2>3, <2>4, <2>6, <2>7
    <3>2. m = IF c.received <= base THEN l
              ELSE IF c.received - base <= l THEN base + l - c.received ELSE 0
      BY <2>5, <2>6
    <3>3. base <= p.received /\ c.received <= p.received
      BY <2>2, <2>4
    <3>4. m # 0 => from <= p.received
      BY <1>1, <2>3, <2>4, <2>7, <3>2, <3>3
    <3> QED BY <2>5, <2>6, <2>7, <3>1, <3>4
  <2>9. /\ inputs \in Seq(Input) /\ Len(inputs) <= BATCH /\ Len(inputs) <= m
        /\ Numbered(inputs, from) /\ Range(inputs) \subseteq Range(kept)
    BY <1>1, <2>1, <2>5, <2>6, <2>8, TakeNumbered
  <2> HIDE DEF r, inputs
  <2>10. PICK n \in Nat : Len(inputs) = n
    BY <2>9, LenProperties
  <2>11. /\ Numbered(inputs, Before(inputs)) /\ (inputs # <<>> => Before(inputs) = from)
         /\ (inputs = <<>> => Before(inputs) = 0 /\ n = 0)
    BY <2>9, <2>10, BeforeNumbered
  <2>12. inputs # <<>> => n # 0
    BY <2>9, <2>10, EmptySeq
  <2>13. Before(inputs) <= p.received /\ Before(inputs) + n < c.next
    <3>1. CASE inputs = <<>>
      BY <1>1, <2>2, <2>11, <3>1
    <3>2. CASE inputs # <<>>
      <4>1. n # 0 /\ n <= m /\ Before(inputs) = from
        BY <2>9, <2>10, <2>11, <2>12, <3>2
      <4> QED BY <1>1, <2>3, <2>4, <2>6, <2>7, <2>8, <4>1
    <3> QED BY <3>1, <3>2
  <2>14. r \in Request
    <3>1. r = [map |-> c.map, epoch |-> c.epoch, inputs |-> inputs]
      BY <1>4 DEF ClientRequest, r, inputs
    <3> QED BY <1>1, <2>9, <3>1 DEF Request
  <2>15. r.inputs = inputs
    BY DEF inputs
  <2>16. RequestFits(r, c, p, last)
    BY <1>2, <1>4, <2>2, <2>9, <2>10, <2>11, <2>13, <2>14, <2>15 DEF RequestFits
  <2> QED BY <1>2, <2>5, <2>9, <2>16 DEF r, inputs
<1> QED BY <1>3, <1>4

\* The inputs of a queue have different numbers, none above what was received.
LEMMA QueueNames ==
    ASSUME QueueInv, NEW s \in Slots
    PROVE  /\ NameOne(Range(peers[s].input))
           /\ \A i \in Range(peers[s].input) : i.seq \in Nat /\ i.seq <= peers[s].received
<1>1. /\ peers[s].input \in Seq(Input) /\ peers[s].received \in Nat /\ peers[s].ack \in Nat
  BY DEF QueueInv, DuelTypeOK
<1>2. CASE peers[s].connected
  <2>1. PICK n \in Nat : Len(peers[s].input) = n /\ DOMAIN peers[s].input = 1 .. n
    BY <1>1, LenProperties
  <2>2. /\ n = peers[s].received - peers[s].ack
        /\ \A k \in 1 .. n : peers[s].input[k].seq = peers[s].ack + k
    BY <1>2, <2>1 DEF QueueInv, QueueIsUnexecutedRun
  <2>3. peers[s].ack + n = peers[s].received
    BY <1>1, <2>1, <2>2
  <2>4. \A k \in 1 .. n : peers[s].ack + k \in Nat /\ peers[s].ack + k <= peers[s].received
    BY <1>1, <2>1, <2>3
  <2>5. \A j, k \in 1 .. n : peers[s].ack + j = peers[s].ack + k => j = k
    BY <1>1, <2>1
  <2> QED BY <2>1, <2>2, <2>4, <2>5, SMTT(30) DEF NameOne, Range
<1>3. CASE ~peers[s].connected
  <2>1. Range(peers[s].input) = {}
    BY <1>3 DEF QueueInv, QueueIsUnexecutedRun, Range
  <2> QED BY <2>1 DEF NameOne
<1> QED BY <1>2, <1>3

\* Every input of a session has a number below the next one.
LEMMA BelowNext ==
    ASSUME NEW c \in ClientRecord, NEW p \in Session, NEW now, NEW rounds, NEW last,
           NEW requests, ClientFits(c, p, now, rounds), c.epoch # 0,
           RequestsFit(requests, c, p, last),
           \A i \in Range(p.input) : i.seq \in Nat /\ i.seq <= p.received,
           NEW i \in KeptInputs(c, p, requests)
    PROVE  i.seq \in Nat /\ i.seq < c.next
<1>1. c.next \in Nat /\ p.received \in Nat /\ c.history \in Seq(Input) /\ p.received < c.next
  BY DEF ClientRecord, Session, ClientFits
<1>2. CASE i \in Range(p.input)
  BY <1>1, <1>2
<1>3. CASE i \in Range(c.history)
  <2>1. PICK l \in Nat : Len(c.history) = l /\ DOMAIN c.history = 1 .. l
    BY <1>1, LenProperties
  <2>2. PICK base \in Nat : Numbered(c.history, base) /\ base = c.next - 1 - l
    BY <2>1 DEF ClientFits, Dropped, Numbered
  <2>3. PICK k \in 1 .. l : i = c.history[k]
    BY <1>3, <2>1 DEF Range
  <2>4. i.seq = base + k
    BY <2>1, <2>2, <2>3 DEF Numbered
  <2> QED BY <1>1, <2>1, <2>2, <2>3, <2>4
<1>4. ASSUME NEW r \in requests, r.epoch = c.epoch, i \in Range(r.inputs)
      PROVE  i.seq \in Nat /\ i.seq < c.next
  <2>1. /\ r \in Request /\ Numbered(r.inputs, Before(r.inputs))
        /\ Before(r.inputs) + Len(r.inputs) < c.next
    BY <1>4 DEF RequestsFit, RequestFits
  <2>2. r.inputs \in Seq(Input)
    BY <2>1 DEF Request
  <2>3. PICK l \in Nat : Len(r.inputs) = l /\ DOMAIN r.inputs = 1 .. l
    BY <2>2, LenProperties
  <2>4. PICK k \in 1 .. l : i = r.inputs[k]
    BY <1>4, <2>3 DEF Range
  <2>5. i.seq = Before(r.inputs) + k /\ Before(r.inputs) \in Nat
    BY <2>1, <2>3, <2>4 DEF Numbered
  <2> QED BY <1>1, <2>1, <2>3, <2>4, <2>5
<1> QED BY <1>2, <1>3, <1>4 DEF KeptInputs


\* The requests on the way fit the client after its tick, and so does the next
\* one: an input numbered in the tick has a number of its own.
LEMMA TickNames ==
    ASSUME NEW c \in ClientRecord, NEW p \in Session, NEW now \in 0 .. MAX_TICK,
           NEW rounds \in Nat, NEW last \in Nat, NEW requests, NEW fire \in BOOLEAN,
           ClientFits(c, p, now, rounds), RequestsFit(requests, c, p, last),
           NamesFit(c, p, requests), p.epoch <= last, c.blocked => ~c.map,
           c.pending # None => /\ requests = {}
                               /\ SnapshotFits(c.pending, c, p, now, rounds)
                               /\ c.pending.received < c.next,
           NameOne(Range(p.input)),
           \A i \in Range(p.input) : i.seq \in Nat /\ i.seq <= p.received
    PROVE  LET t == ClientTick(c, fire)
               all == requests \cup {ClientRequest(t)}
           IN  RequestsFit(all, t, p, last) /\ NamesFit(t, p, all)
<1> DEFINE a == Adopt(c)
           t == ClientTick(c, fire)
           new == [seq |-> a.next, fire |-> fire]
           all == requests \cup {ClientRequest(t)}
<1>1. /\ a \in ClientRecord /\ ClientFits(a, p, now, rounds)
      /\ Range(a.history) \subseteq Range(c.history)
      /\ c.pending = None => a.epoch = c.epoch /\ a.next = c.next
      /\ c.epoch # 0 => a.epoch = c.epoch
  BY AdoptFits
<1>2. /\ t \in ClientRecord /\ ClientFits(t, p, now, rounds)
      /\ t.epoch # 0 => /\ t.epoch = a.epoch /\ t.next = a.next + 1
                        /\ Range(t.history) = Range(a.history) \cup {new}
  BY TickFits
<1>3. /\ RequestFits(ClientRequest(t), t, p, last)
      /\ Range(ClientRequest(t).inputs) \subseteq Range(t.history)
  BY <1>2, RequestOfClient
<1> HIDE DEF a, t
<1>4. RequestsFit(requests, a, p, last)
  BY <1>1 DEF RequestsFit, RequestFits
<1>5. RequestsFit(all, t, p, last)
  <2> SUFFICES ASSUME NEW r \in requests
               PROVE  RequestFits(r, t, p, last)
    BY <1>3 DEF RequestsFit
  <2>1. /\ RequestFits(r, a, p, last) /\ c.pending = None
    BY <1>4 DEF RequestsFit
  <2>2. r.epoch = 0 => r.inputs = <<>> /\ t.epoch = 0
    BY <1>2, <2>1 DEF RequestFits
  <2>3. r.epoch # 0 /\ r.epoch = t.epoch => Before(r.inputs) + Len(r.inputs) < t.next
    <3> SUFFICES ASSUME r.epoch # 0, r.epoch = t.epoch
                 PROVE  Before(r.inputs) + Len(r.inputs) < t.next
      OBVIOUS
    <3>1. Before(r.inputs) + Len(r.inputs) < a.next /\ t.next = a.next + 1
      BY <1>2, <2>1 DEF RequestFits
    <3>2. a.next \in Nat /\ Before(r.inputs) \in Nat /\ r.inputs \in Seq(Input)
      BY <1>1, <2>1 DEF ClientRecord, RequestFits, Numbered, Request
    <3>3. Len(r.inputs) \in Nat
      BY <3>2, LenProperties
    <3> QED BY <3>1, <3>2, <3>3
  <2> QED BY <2>1, <2>2, <2>3 DEF RequestFits
<1>6. NamesFit(t, p, all)
  <2> SUFFICES ASSUME t.epoch # 0
               PROVE  NameOne(KeptInputs(t, p, all))
    BY DEF NamesFit
  <2> DEFINE kept == KeptInputs(a, p, requests)
  <2>1. a.epoch # 0 /\ t.epoch = a.epoch
    BY <1>2
  <2>2. NameOne(kept)
    <3>1. CASE c.epoch # 0
      <4>1. kept \subseteq KeptInputs(c, p, requests)
        BY <1>1, <3>1 DEF KeptInputs
      <4> QED BY <3>1, <4>1 DEF NamesFit, NameOne
    <3>2. CASE c.epoch = 0
      <4>1. c.pending # None /\ requests = {}
        BY <1>1, <2>1, <3>2
      <4>2. Range(c.history) = {}
        BY <3>2 DEF ClientFits, Range
      <4>3. Range(a.history) = {}
        BY <1>1, <4>2
      <4>4. kept \subseteq Range(p.input)
        BY <4>1, <4>3 DEF KeptInputs
      <4> QED BY <4>4 DEF NameOne
    <3> QED BY <3>1, <3>2
  <2>3. \A i \in kept : i.seq \in Nat /\ i.seq < a.next
    BY <1>1, <1>4, <2>1, BelowNext
  <2>4. a.next \in Nat
    BY <1>1 DEF ClientRecord
  <2>5. KeptInputs(t, p, all) \subseteq kept \cup {new}
    BY <1>2, <1>3, <2>1 DEF KeptInputs
  <2>6. \A i \in kept : i.seq # new.seq
    BY <2>3, <2>4
  <2> HIDE DEF kept, new, all
  <2> QED BY <2>2, <2>5, <2>6 DEF NameOne
<1> QED BY <1>5, <1>6 DEF t

\* Requests nobody waits for are the same requests.
LEMMA CancelledRequests ==
    ASSUME NEW w \in Seq(Sendings)
    PROVE  /\ Cancelled(w) \in Seq(Sendings) /\ Len(Cancelled(w)) = Len(w)
           /\ DOMAIN Cancelled(w) = DOMAIN w
           /\ \A k \in DOMAIN w : Cancelled(w)[k].req = w[k].req /\ ~Cancelled(w)[k].current
<1> DEFINE n == Len(w)
           x == Cancelled(w)
<1>1. n \in Nat /\ DOMAIN w = 1 .. n /\ \A k \in 1 .. n : w[k] \in Sendings
  BY LenProperties
<1>2. x = [k \in 1 .. n |-> [w[k] EXCEPT !.current = FALSE]]
  BY <1>1 DEF Cancelled
<1>3. \A k \in 1 .. n : /\ [w[k] EXCEPT !.current = FALSE] \in Sendings
                        /\ [w[k] EXCEPT !.current = FALSE].req = w[k].req
                        /\ ~[w[k] EXCEPT !.current = FALSE].current
  BY <1>1 DEF Sendings
<1> HIDE DEF n, x
<1>4. x \in [1 .. n -> Sendings] /\ \A k \in 1 .. n : x[k].req = w[k].req /\ ~x[k].current
  BY <1>2, <1>3
<1>5. x \in Seq(Sendings) /\ DOMAIN x = 1 .. n
  BY <1>1, <1>4
<1>6. Len(x) = n
  BY <1>1, <1>4, <1>5, LenProperties
<1> QED BY <1>1, <1>4, <1>5, <1>6 DEF n, x

\* A request put in the worker is its last.
LEMMA RequestAppended ==
    ASSUME NEW w \in Seq(Sendings), NEW e \in Sendings
    PROVE  /\ Append(w, e) \in Seq(Sendings) /\ Len(Append(w, e)) = Len(w) + 1
           /\ DOMAIN Append(w, e) = DOMAIN w \cup {Len(w) + 1}
           /\ Len(w) + 1 \notin DOMAIN w /\ Append(w, e)[Len(w) + 1] = e
           /\ \A k \in DOMAIN w : Append(w, e)[k] = w[k]
           /\ Append(w, e) # <<>>
<1>1. Len(w) \in Nat /\ DOMAIN w = 1 .. Len(w)
  BY LenProperties
<1>2. /\ Append(w, e) \in Seq(Sendings) /\ Len(Append(w, e)) = Len(w) + 1
      /\ Append(w, e)[Len(w) + 1] = e
      /\ \A k \in 1 .. Len(w) : Append(w, e)[k] = w[k]
  BY AppendProperties
<1>3. DOMAIN Append(w, e) = 1 .. Len(w) + 1
  BY <1>2, LenProperties
<1>4. 1 .. Len(w) + 1 = (1 .. Len(w)) \cup {Len(w) + 1} /\ Len(w) + 1 \notin 1 .. Len(w)
  BY <1>1
<1>5. Append(w, e) # <<>>
  BY <1>1, <1>2
<1> QED BY <1>1, <1>2, <1>3, <1>4, <1>5


\* In numbers of the slot alone: what Tick leaves of it.
TickLeaves(s, fire, sends) ==
    LET c == ClientTick(clients[s], fire)
        expired == TimedOut(guests[s])
        kept == IF expired THEN Cancelled(wire[s]) ELSE wire[s]
        waiting == guests[s].ticket /\ ~expired
    IN  /\ sends => ~waiting /\ ~c.blocked /\ Len(wire[s]) < MAX_WIRE
        /\ clients' = [clients EXCEPT ![s] = c]
        /\ guests' = [guests EXCEPT ![s] =
               [ticket |-> waiting \/ sends,
                waited |-> IF waiting THEN guests[s].waited + 1 ELSE 0,
                failed |-> expired]]
        /\ wire' = [wire EXCEPT ![s] =
               IF sends THEN Append(kept, [req |-> ClientRequest(c), current |-> TRUE])
               ELSE kept]
        /\ answers' = [answers EXCEPT ![s] = IF expired THEN None ELSE answers[s]]

\* The game's tick keeps the types and the invariant of its slot.
LEMMA TickKept ==
    ASSUME OrderInv, GameType, NEW s \in Guests, SlotInv(s), Tick(s)
    PROVE  GameType' /\ SlotInv(s)'
<1>1. PICK fire \in Triggers, sends \in BOOLEAN : TickLeaves(s, fire, sends)
  BY DEF Tick, TickLeaves
<1> DEFINE c == clients[s]
           g == guests[s]
           w == wire[s]
           l == links[s]
           p == peers[s]
           t == ClientTick(c, fire)
           expired == TimedOut(g)
           kept == IF expired THEN Cancelled(w) ELSE w
           waiting == g.ticket /\ ~expired
           r == ClientRequest(t)
           e == [req |-> r, current |-> TRUE]
           w2 == IF sends THEN Append(kept, e) ELSE kept
           g2 == [ticket |-> waiting \/ sends,
                  waited |-> IF waiting THEN g.waited + 1 ELSE 0, failed |-> expired]
           a2 == IF expired THEN None ELSE answers[s]
<1>2. /\ UNCHANGED <<duelVars, links, faults>> /\ turn[s] = "tick"
      /\ turns' = [turns EXCEPT ![s] = @ + 1] /\ turn' = [turn EXCEPT ![s] = "frame"]
  BY DEF Tick
<1>3. /\ sends => ~waiting /\ ~t.blocked /\ Len(w) < MAX_WIRE
      /\ clients' = [clients EXCEPT ![s] = t] /\ guests' = [guests EXCEPT ![s] = g2]
      /\ wire' = [wire EXCEPT ![s] = w2] /\ answers' = [answers EXCEPT ![s] = a2]
  BY <1>1 DEF TickLeaves
<1>4. /\ s \in Slots /\ c \in ClientRecord /\ g \in GuestRecord
      /\ w \in Seq(Sendings) /\ l \in LinkRecord /\ p \in Session
      /\ tick \in 0 .. MAX_TICK /\ round \in Nat /\ generation \in 0 .. MAX_GENERATION
      /\ fire \in BOOLEAN
  BY SlotTypes, CrossplayAssumption DEF OrderInv, QueueInv
<1>5. /\ ClientFits(c, p, tick, round) /\ RequestsFit(Sent(w, l), c, p, generation)
      /\ NamesFit(c, p, Sent(w, l))
      /\ AnswerFits(answers[s], c, p, w, l, tick, round)
      /\ PendingFits(c, g, turn[s], p, w, l, tick, round)
      /\ ExchangeFits(c, g, w, answers[s]) /\ ShownFits(c, g, turn[s])
  BY DEF SlotInv, RoomFits, GameFits
<1>6. c.pending # None =>
        /\ ~g.ticket /\ Silent(w, l)
        /\ SnapshotFits(c.pending, c, p, tick, round) /\ c.pending.received < c.next
  BY <1>5 DEF PendingFits
<1>7. c.blocked => ~c.map /\ ~g.ticket /\ c.pending = None /\ c.status = "MAP MISMATCH"
  BY <1>5 DEF ShownFits
<1>8. /\ t \in ClientRecord /\ ClientFits(t, p, tick, round)
      /\ t.pending = None /\ t.map = c.map /\ t.blocked = c.blocked
      /\ t.epoch # 0 => /\ t.epoch = Adopt(c).epoch /\ t.tick = Adopt(c).tick
                        /\ t.round = Adopt(c).round
      /\ c.blocked => t.status = Adopt(c).status
      /\ t.status = "LIVE" /\ ~c.blocked => t.age < STALE_TICKS
  BY <1>4, <1>5, <1>6, <1>7, TickFits, ZenonT(60)
<1>9. c.pending = None => /\ Adopt(c).status = c.status /\ Adopt(c).epoch = c.epoch
                          /\ Adopt(c).tick = c.tick /\ Adopt(c).round = c.round
  BY <1>4, <1>5, <1>6, AdoptFits
<1>10. p.epoch <= generation
  BY <1>4 DEF OrderInv, SessionInv, SessionsDistinct
<1>11. /\ NameOne(Range(p.input))
       /\ \A i \in Range(p.input) : i.seq \in Nat /\ i.seq <= p.received
  BY <1>4, QueueNames DEF OrderInv
<1>12. Silent(w, l) => Sent(w, l) = {}
  <2>1. w = <<>> => DOMAIN w = {}
    OBVIOUS
  <2>2. l.lost = <<>> => Range(l.lost) = {}
    BY DEF Range
  <2> QED BY <2>1, <2>2 DEF Silent, Sent
<1> DEFINE all == Sent(w, l) \cup {r}
<1>13. RequestsFit(all, t, p, generation) /\ NamesFit(t, p, all)
  <2>1. generation \in Nat
    BY <1>4
  <2> QED BY <1>4, <1>5, <1>6, <1>7, <1>10, <1>11, <1>12, <2>1, TickNames
<1>14. RequestFits(r, t, p, generation) /\ r.map = t.map /\ r \in Request
  <2>1. generation \in Nat
    BY <1>4
  <2> QED BY <1>4, <1>8, <1>10, <2>1, RequestOfClient DEF RequestFits
<1> HIDE DEF t, r
<1>15. e \in Sendings /\ e.req = r /\ e.current
  BY <1>14 DEF Sendings
<1>16. /\ kept \in Seq(Sendings) /\ Len(kept) = Len(w) /\ DOMAIN kept = DOMAIN w
       /\ \A k \in DOMAIN w : kept[k].req = w[k].req
       /\ expired => \A k \in DOMAIN w : ~kept[k].current
       /\ ~expired => kept = w
  BY <1>4, CancelledRequests
<1> HIDE DEF expired, kept, e
<1>17. /\ Append(kept, e) \in Seq(Sendings) /\ Len(Append(kept, e)) = Len(w) + 1
       /\ DOMAIN Append(kept, e) = DOMAIN w \cup {Len(w) + 1} /\ Len(w) + 1 \notin DOMAIN w
       /\ Append(kept, e)[Len(w) + 1] = e
       /\ \A k \in DOMAIN w : Append(kept, e)[k] = kept[k]
       /\ Append(kept, e) # <<>>
  <2>1. /\ Append(kept, e) \in Seq(Sendings) /\ Len(Append(kept, e)) = Len(kept) + 1
        /\ DOMAIN Append(kept, e) = DOMAIN kept \cup {Len(kept) + 1}
        /\ Len(kept) + 1 \notin DOMAIN kept
        /\ Append(kept, e)[Len(kept) + 1] = e
        /\ \A k \in DOMAIN kept : Append(kept, e)[k] = kept[k]
        /\ Append(kept, e) # <<>>
    BY <1>15, <1>16, RequestAppended
  <2> QED BY <1>16, <2>1
<1>18. Len(w) \in Nat /\ DOMAIN w = 1 .. Len(w) /\ (w = <<>> <=> Len(w) = 0)
  BY <1>4, LenProperties, EmptySeq
<1>19. w2 \in Seq(Sendings) /\ Len(w2) <= MAX_WIRE
  <2>1. Len(w) <= MAX_WIRE /\ MAX_WIRE \in Nat
    BY CrossplayAssumption DEF GameType
  <2>2. sends => Len(w) < MAX_WIRE
    BY <1>3
  <2> QED BY <1>16, <1>17, <1>18, <2>1, <2>2
<1>20. g2 \in GuestRecord
  <2>1. g.waited \in Nat /\ g.ticket \in BOOLEAN /\ TIMEOUT \in Nat /\ g.waited <= TIMEOUT
    BY <1>4, CrossplayAssumption DEF GuestRecord
  <2>2. waiting => g.waited < TIMEOUT
    BY <2>1 DEF TimedOut, expired
  <2>3. (IF waiting THEN g.waited + 1 ELSE 0) \in 0 .. TIMEOUT
    BY <2>1, <2>2
  <2>4. (waiting \/ sends) \in BOOLEAN /\ expired \in BOOLEAN
    BY DEF expired, TimedOut
  <2> QED BY <2>3, <2>4 DEF GuestRecord
<1>21. a2.error # NoError \/ a2 \in Snapshot
  <2>1. answers[s].error # NoError \/ answers[s] \in Snapshot
    BY DEF GameType
  <2> QED BY <2>1, NoneIsNoSnapshot
<1> HIDE DEF g2, w2, a2
<1>22. GameType'
  <2>1. /\ clients' \in [Guests -> ClientRecord] /\ guests' \in [Guests -> GuestRecord]
        /\ wire' \in [Guests -> Seq(Sendings)] /\ DOMAIN answers' = Guests
    BY <1>3, <1>8, <1>19, <1>20 DEF GameType
  <2>2. turns' \in [Guests -> Nat] /\ turn' \in [Guests -> {"tick", "frame"}]
    BY <1>2 DEF GameType
  <2>3. ASSUME NEW q \in Guests
        PROVE  /\ Len(wire'[q]) <= MAX_WIRE /\ Len(links'[q].lost) <= faults'
               /\ answers'[q].error # NoError \/ answers'[q] \in Snapshot
    BY <1>2, <1>3, <1>19, <1>21 DEF GameType
  <2> QED BY <1>2, <2>1, <2>2, <2>3 DEF GameType
<1>23. /\ clients'[s] = t /\ guests'[s] = g2 /\ wire'[s] = w2 /\ answers'[s] = a2
       /\ turn'[s] = "frame" /\ links'[s] = l /\ peers'[s] = p
       /\ tick' = tick /\ round' = round /\ generation' = generation
  BY <1>2, <1>3 DEF GameType, duelVars
<1>24. Sent(w2, l) \subseteq all
  BY <1>15, <1>16, <1>17 DEF Sent, w2
<1>25. RequestsFit(Sent(w2, l), t, p, generation) /\ NamesFit(t, p, Sent(w2, l))
  <2>1. RequestsFit(Sent(w2, l), t, p, generation)
    BY <1>13, <1>24 DEF RequestsFit
  <2>2. KeptInputs(t, p, Sent(w2, l)) \subseteq KeptInputs(t, p, all)
    BY <1>24 DEF KeptInputs
  <2> QED BY <1>13, <2>1, <2>2, NamesKept
<1>26. AnswerFits(a2, t, p, w2, l, tick, round)
  <2> SUFFICES ASSUME a2.error = NoError
               PROVE  Silent(w2, l) /\ SnapshotFits(a2, t, p, tick, round)
    BY DEF AnswerFits
  <2>1. ~expired /\ a2 = answers[s] /\ answers[s] # None
    BY NoneIsNoSnapshot DEF a2
  <2>2. g.ticket /\ c.pending = None
    BY <1>5, <1>6, <2>1 DEF ExchangeFits
  <2>3. ~sends /\ w2 = w
    BY <1>3, <1>16, <2>1, <2>2 DEF w2
  <2>4. Silent(w, l) /\ SnapshotFits(answers[s], c, p, tick, round)
    BY <1>5, <2>1 DEF AnswerFits
  <2>5. SnapshotFits(answers[s], t, p, tick, round)
    BY <1>8, <1>9, <2>2, <2>4 DEF SnapshotFits
  <2> QED BY <2>1, <2>3, <2>4, <2>5
<1>27. PendingFits(t, g2, "frame", p, w2, l, tick, round)
  BY <1>8 DEF PendingFits
<1>28. ExchangeFits(t, g2, w2, a2)
  <2>1. /\ \A k \in DOMAIN w : (w[k].current => k = Len(w)) /\ w[k].req.map = c.map
        /\ g.ticket <=> Awaited(w) \/ answers[s] # None
        /\ ~(Awaited(w) /\ answers[s] # None)
        /\ Mismatch(answers[s]) => ~c.map
    BY <1>5 DEF ExchangeFits
  <2>2. g2.ticket <=> waiting \/ sends
    BY DEF g2
  <2>3. sends => \A k \in DOMAIN w : ~kept[k].current
    <3>1. CASE expired
      BY <1>16, <3>1
    <3>2. CASE ~expired
      <4>1. sends => ~Awaited(w)
        BY <1>3, <2>1, <3>2
      <4>2. sends => \A k \in DOMAIN w : ~w[k].current
        <5>1. ASSUME sends, NEW k \in DOMAIN w, w[k].current
              PROVE  FALSE
          <6>1. w # <<>>
            BY <1>18, <5>1
          <6>2. k = Len(w)
            BY <2>1, <5>1, Zenon
          <6> QED BY <4>1, <5>1, <6>1, <6>2, Zenon DEF Awaited
        <5> QED BY <5>1
      <4> QED BY <1>16, <3>2, <4>2
    <3> QED BY <3>1, <3>2
  <2>4. CASE sends
    <3>1. w2 = Append(kept, e) /\ g2.ticket /\ ~waiting
      BY <1>3, <2>2, <2>4 DEF w2
    <3>2. Awaited(w2)
      BY <1>15, <1>17, <3>1 DEF Awaited
    <3>3. a2 = None
      BY <2>1, <3>1 DEF a2
    <3>4. \A k \in DOMAIN w2 : (w2[k].current => k = Len(w2)) /\ w2[k].req.map = t.map
      <4>1. ASSUME NEW k \in DOMAIN w
            PROVE  ~w2[k].current /\ w2[k].req.map = t.map
        <5>1. w2[k] = kept[k]
          BY <1>17, <3>1
        <5> QED BY <1>8, <1>16, <2>1, <2>3, <2>4, <5>1
      <4>2. w2[Len(w) + 1] = e /\ Len(w2) = Len(w) + 1 /\ DOMAIN w2 = DOMAIN w \cup {Len(w) + 1}
        BY <1>17, <3>1
      <4> QED BY <1>14, <1>15, <4>1, <4>2
    <3>5. ~Mismatch(a2)
      BY <3>3, Zenon DEF None, Mismatch
    <3> QED BY <3>1, <3>2, <3>3, <3>4, <3>5 DEF ExchangeFits
  <2>5. CASE ~sends /\ expired
    <3>1. w2 = kept /\ ~g2.ticket /\ a2 = None
      BY <2>2, <2>5 DEF w2, a2
    <3>2. ~Awaited(w2)
      <4>1. w2 # <<>> => Len(w2) \in DOMAIN w
        BY <1>16, <1>18, <3>1, EmptySeq
      <4> QED BY <1>16, <2>5, <3>1, <4>1 DEF Awaited
    <3>3. \A k \in DOMAIN w2 : ~w2[k].current /\ w2[k].req.map = t.map
      BY <1>8, <1>16, <2>1, <2>5, <3>1
    <3>4. ~Mismatch(a2)
      BY <3>1, Zenon DEF None, Mismatch
    <3> QED BY <3>1, <3>2, <3>3, <3>4 DEF ExchangeFits
  <2>6. CASE ~sends /\ ~expired
    <3>1. w2 = w /\ (g2.ticket <=> g.ticket) /\ a2 = answers[s]
      BY <1>16, <2>2, <2>6 DEF w2, a2
    <3> QED BY <1>8, <2>1, <3>1 DEF ExchangeFits
  <2> QED BY <2>4, <2>5, <2>6
<1>29. ShownFits(t, g2, "frame")
  <2>1. ASSUME c.blocked
        PROVE  ~g2.ticket /\ t.status = "MAP MISMATCH"
    <3>1. t.status = "MAP MISMATCH" /\ ~g.ticket
      BY <1>7, <1>8, <1>9, <2>1
    <3>2. ~sends
      BY <1>3, <1>8, <2>1
    <3> QED BY <3>1, <3>2 DEF g2
  <2>2. "MAP MISMATCH" # "LIVE"
    OBVIOUS
  <2>3. t.status = "LIVE" => t.age < STALE_TICKS
    BY <1>8, <2>1, <2>2
  <2> QED BY <1>7, <1>8, <2>1, <2>3 DEF ShownFits
<1> HIDE DEF c, g, w, l, p
<1>30. SlotInv(s)' <=>
         /\ ClientFits(clients'[s], peers'[s], tick', round')
         /\ RequestsFit(Sent(wire'[s], links'[s]), clients'[s], peers'[s], generation')
         /\ NamesFit(clients'[s], peers'[s], Sent(wire'[s], links'[s]))
         /\ AnswerFits(answers'[s], clients'[s], peers'[s], wire'[s], links'[s], tick', round')
         /\ PendingFits(clients'[s], guests'[s], turn'[s], peers'[s], wire'[s], links'[s], tick', round')
         /\ ExchangeFits(clients'[s], guests'[s], wire'[s], answers'[s])
         /\ ShownFits(clients'[s], guests'[s], turn'[s])
  BY DEF SlotInv, RoomFits, GameFits
<1> QED BY <1>8, <1>22, <1>23, <1>25, <1>26, <1>27, <1>28, <1>29, <1>30


-----------------------------------------------------------------------------
(* The game's frame.                                                         *)

\* What a client keeps of its session.
SameSession(d, c) ==
    /\ d.map = c.map /\ d.epoch = c.epoch /\ d.next = c.next /\ d.received = c.received
    /\ d.tick = c.tick /\ d.round = c.round /\ d.history = c.history

\* A failure makes a client old, no more.
LEMMA FailKeeps ==
    ASSUME NEW c \in ClientRecord
    PROVE  /\ Fail(c) \in ClientRecord /\ SameSession(Fail(c), c)
           /\ Fail(c).pending = c.pending /\ Fail(c).blocked = c.blocked
           /\ Fail(c).status = c.status
<1>1. STALE_TICKS \in 0 .. STALE_TICKS
  BY DuelAssumption
<1> QED BY <1>1 DEF Fail, ClientRecord, SameSession

\* An answer leaves the session as it is: it ends the play of a client of another
\* map, which has none, or is kept for the next tick if it is acceptable.
LEMMA ReceiveKeeps ==
    ASSUME NEW c \in ClientRecord, NEW p, NEW now, NEW rounds, ClientFits(c, p, now, rounds),
           c.pending = None, ~c.blocked,
           NEW a, a.error # NoError \/ a \in Snapshot,
           Mismatch(a) => ~c.map
    PROVE  LET d == Receive(c, a) IN
           /\ d \in ClientRecord /\ SameSession(d, c)
           /\ d.pending # None => d.pending = a /\ a.error = NoError /\ a.received < c.next
           /\ d.blocked => ~c.map /\ d.pending = None /\ d.status = "MAP MISMATCH"
<1> DEFINE d == Receive(c, a)
<1>1. CASE Mismatch(a)
  <2>1. d = [c EXCEPT !.blocked = TRUE, !.status = "MAP MISMATCH", !.history = <<>>]
    BY <1>1 DEF Receive, Mismatch
  <2>2. ~c.map /\ c.epoch = 0 /\ c.history = <<>>
    BY <1>1 DEF ClientFits
  <2>3. "MAP MISMATCH" \in Statuses
    BY DEF Statuses
  <2> HIDE DEF d
  <2>4. /\ d \in ClientRecord /\ d.map = c.map /\ d.epoch = c.epoch /\ d.next = c.next
        /\ d.received = c.received /\ d.tick = c.tick /\ d.round = c.round /\ d.history = <<>>
        /\ d.pending = c.pending /\ d.blocked /\ d.status = "MAP MISMATCH"
    <3>1. <<>> \in Seq(Input)
      BY EmptySeq
    <3> QED BY <2>1, <2>3, <3>1 DEF ClientRecord
  <2> QED BY <2>2, <2>4 DEF SameSession, d
<1>2. CASE ~Mismatch(a) /\ a.error # NoError
  <2>1. d = Fail(c)
    BY <1>2 DEF Receive, Mismatch
  <2> QED BY <2>1, FailKeeps
<1>3. CASE ~Mismatch(a) /\ a.error = NoError /\ Acceptable(c, a)
  <2>1. d = [c EXCEPT !.pending = a]
    BY <1>3 DEF Receive, Mismatch
  <2>2. a \in Snapshot /\ a.received < c.next
    BY <1>3 DEF Acceptable
  <2> HIDE DEF d
  <2>3. d \in ClientRecord /\ SameSession(d, c) /\ d.pending = a /\ d.blocked = c.blocked
    BY <2>1, <2>2 DEF ClientRecord, SameSession
  <2> QED BY <1>3, <2>2, <2>3 DEF d
<1>4. CASE ~Mismatch(a) /\ a.error = NoError /\ ~Acceptable(c, a)
  <2>1. d = c
    BY <1>4 DEF Receive, Mismatch
  <2> QED BY <2>1 DEF SameSession
<1> QED BY <1>1, <1>2, <1>3, <1>4

\* The same session fits the same.
LEMMA SessionFits ==
    ASSUME NEW c, NEW d, SameSession(d, c), NEW p, NEW now, NEW rounds, NEW last, NEW requests
    PROVE  /\ ClientFits(c, p, now, rounds) => ClientFits(d, p, now, rounds)
           /\ RequestsFit(requests, c, p, last) => RequestsFit(requests, d, p, last)
           /\ NamesFit(c, p, requests) => NamesFit(d, p, requests)
           /\ \A reply : SnapshotFits(reply, c, p, now, rounds) => SnapshotFits(reply, d, p, now, rounds)
<1> USE DEF SameSession
<1>1. ClientFits(c, p, now, rounds) => ClientFits(d, p, now, rounds)
  BY DEF ClientFits, Dropped
<1>2. RequestsFit(requests, c, p, last) => RequestsFit(requests, d, p, last)
  BY DEF RequestsFit, RequestFits
<1>3. NamesFit(c, p, requests) => NamesFit(d, p, requests)
  BY DEF NamesFit, KeptInputs
<1>4. \A reply : SnapshotFits(reply, c, p, now, rounds) => SnapshotFits(reply, d, p, now, rounds)
  BY DEF SnapshotFits
<1> QED BY <1>1, <1>2, <1>3, <1>4

\* The game's frame keeps the types and the invariant of its slot.
LEMMA FrameKept ==
    ASSUME OrderInv, GameType, NEW s \in Guests, SlotInv(s), Frame(s)
    PROVE  GameType' /\ SlotInv(s)'
<1> DEFINE c == clients[s]
           g == guests[s]
           w == wire[s]
           l == links[s]
           p == peers[s]
           a == answers[s]
           f == IF g.failed THEN Fail(c) ELSE c
<1>1. PICK called \in BOOLEAN :
        /\ called => a # None
        /\ clients' = [clients EXCEPT ![s] = IF called THEN Receive(f, a) ELSE f]
        /\ guests' = [guests EXCEPT ![s].failed = FALSE, ![s].ticket = @ /\ ~called]
        /\ answers' = [answers EXCEPT ![s] = IF called THEN None ELSE @]
  BY DEF Frame
<1> DEFINE d == IF called THEN Receive(f, a) ELSE f
           a2 == IF called THEN None ELSE a
           waits == g.ticket /\ ~called
           g2 == [g EXCEPT !.failed = FALSE, !.ticket = waits]
<1>2. /\ UNCHANGED <<duelVars, turns, wire, links, faults>> /\ turn[s] = "frame"
      /\ turn' = [turn EXCEPT ![s] = "tick"]
  BY DEF Frame
<1>3. /\ s \in Slots /\ c \in ClientRecord /\ g \in GuestRecord
      /\ w \in Seq(Sendings) /\ l \in LinkRecord /\ p \in Session
  BY SlotTypes DEF OrderInv, QueueInv
<1>4. /\ ClientFits(c, p, tick, round) /\ RequestsFit(Sent(w, l), c, p, generation)
      /\ NamesFit(c, p, Sent(w, l))
      /\ AnswerFits(a, c, p, w, l, tick, round)
      /\ PendingFits(c, g, turn[s], p, w, l, tick, round)
      /\ ExchangeFits(c, g, w, a) /\ ShownFits(c, g, turn[s])
  BY DEF SlotInv, RoomFits, GameFits
<1>5. c.pending = None
  BY <1>2, <1>4 DEF PendingFits
<1>6. /\ g.ticket <=> Awaited(w) \/ a # None
      /\ ~(Awaited(w) /\ a # None)
      /\ Mismatch(a) => ~c.map
      /\ \A k \in DOMAIN w : (w[k].current => k = Len(w)) /\ w[k].req.map = c.map
  BY <1>4 DEF ExchangeFits
<1>7. c.blocked => ~c.map /\ ~g.ticket /\ c.status = "MAP MISMATCH"
  BY <1>4 DEF ShownFits
<1>8. called => g.ticket /\ ~c.blocked
  BY <1>1, <1>6, <1>7
<1>9. /\ f \in ClientRecord /\ SameSession(f, c) /\ f.pending = None /\ f.blocked = c.blocked
      /\ f.status = c.status
  BY <1>3, <1>5, FailKeeps DEF SameSession
<1>10. ClientFits(f, p, tick, round)
  BY <1>4, <1>9, SessionFits
<1>11. f.map = c.map /\ f.next = c.next
  BY <1>9 DEF SameSession
<1>12. a.error # NoError \/ a \in Snapshot
  BY DEF GameType
<1> HIDE DEF f
<1>13. called => /\ d \in ClientRecord /\ SameSession(d, f)
                 /\ d.pending # None => d.pending = a /\ a.error = NoError /\ a.received < f.next
                 /\ d.blocked => ~f.map /\ d.pending = None /\ d.status = "MAP MISMATCH"
  <2>1. CASE called
    <3>1. d = Receive(f, a)
      BY <2>1
    <3> HIDE DEF d
    <3>2. ~f.blocked /\ (Mismatch(a) => ~f.map)
      BY <1>6, <1>8, <1>9, <1>11, <2>1
    <3> QED BY <1>9, <1>10, <1>12, <3>1, <3>2, ReceiveKeeps
  <2> QED BY <2>1
<1>14. /\ d \in ClientRecord /\ SameSession(d, c)
       /\ d.pending # None => called /\ d.pending = a /\ a.error = NoError /\ a.received < c.next
       /\ d.blocked => ~c.map /\ d.pending = None /\ d.status = "MAP MISMATCH"
       /\ d.blocked /\ ~called => ~g.ticket
  <2>1. CASE called
    BY <1>9, <1>11, <1>13, <2>1 DEF SameSession
  <2>2. CASE ~called
    <3>1. d = f
      BY <2>2
    <3> HIDE DEF d
    <3> QED BY <1>7, <1>9, <2>2, <3>1
  <2> QED BY <2>1, <2>2
<1>15. guests' = [guests EXCEPT ![s] = g2]
  BY <1>1, <1>3 DEF GameType
<1>16. waits \in BOOLEAN /\ (waits <=> g.ticket /\ ~called)
  OBVIOUS
<1> HIDE DEF waits
<1>17. g2 \in GuestRecord /\ g2.ticket = waits
  BY <1>3, <1>16 DEF GuestRecord
<1>18. /\ clients' = [clients EXCEPT ![s] = d] /\ answers' = [answers EXCEPT ![s] = a2]
  BY <1>1
<1>19. a2.error # NoError \/ a2 \in Snapshot
  BY <1>12, NoneIsNoSnapshot
<1> HIDE DEF d, a2, g2
<1>20. GameType'
  <2>1. /\ clients' \in [Guests -> ClientRecord] /\ guests' \in [Guests -> GuestRecord]
        /\ DOMAIN answers' = Guests /\ turn' \in [Guests -> {"tick", "frame"}]
    BY <1>2, <1>14, <1>15, <1>17, <1>18 DEF GameType
  <2>2. ASSUME NEW q \in Guests
        PROVE  /\ Len(wire'[q]) <= MAX_WIRE /\ Len(links'[q].lost) <= faults'
               /\ answers'[q].error # NoError \/ answers'[q] \in Snapshot
    BY <1>2, <1>18, <1>19 DEF GameType
  <2> QED BY <1>2, <2>1, <2>2 DEF GameType
<1>21. /\ clients'[s] = d /\ guests'[s] = g2 /\ answers'[s] = a2 /\ turn'[s] = "tick"
       /\ wire'[s] = w /\ links'[s] = l /\ peers'[s] = p
       /\ tick' = tick /\ round' = round /\ generation' = generation
  BY <1>2, <1>15, <1>18 DEF GameType, duelVars
<1>22. /\ ClientFits(d, p, tick, round) /\ RequestsFit(Sent(w, l), d, p, generation)
       /\ NamesFit(d, p, Sent(w, l))
       /\ \A reply : SnapshotFits(reply, c, p, tick, round) => SnapshotFits(reply, d, p, tick, round)
  BY <1>4, <1>14, SessionFits
<1>23. AnswerFits(a2, d, p, w, l, tick, round)
  <2>1. CASE called
    BY <2>1, NoneIsNoSnapshot DEF AnswerFits, a2
  <2>2. CASE ~called
    BY <1>4, <1>22, <2>2 DEF AnswerFits, a2
  <2> QED BY <2>1, <2>2
<1>24. PendingFits(d, g2, "tick", p, w, l, tick, round)
  <2> SUFFICES ASSUME d.pending # None
               PROVE  /\ ~g2.ticket /\ Silent(w, l)
                      /\ SnapshotFits(d.pending, d, p, tick, round)
                      /\ d.pending.received < d.next
    BY DEF PendingFits
  <2>1. called /\ d.pending = a /\ a.error = NoError /\ a.received < c.next
    BY <1>14
  <2>2. Silent(w, l) /\ SnapshotFits(a, c, p, tick, round)
    BY <1>4, <2>1 DEF AnswerFits
  <2>3. d.next = c.next
    BY <1>14 DEF SameSession
  <2> QED BY <1>16, <1>17, <1>22, <2>1, <2>2, <2>3
<1>25. ExchangeFits(d, g2, w, a2)
  <2>1. d.map = c.map
    BY <1>14 DEF SameSession
  <2>2. CASE called
    <3>1. ~g2.ticket /\ a2 = None /\ ~Awaited(w)
      BY <1>1, <1>6, <1>16, <1>17, <2>2 DEF a2
    <3>2. ~Mismatch(a2)
      BY <3>1, Zenon DEF None, Mismatch
    <3> QED BY <1>6, <2>1, <3>1, <3>2 DEF ExchangeFits
  <2>3. CASE ~called
    <3>1. (g2.ticket <=> g.ticket) /\ a2 = a
      BY <1>16, <1>17, <2>3 DEF a2
    <3> QED BY <1>6, <2>1, <3>1 DEF ExchangeFits
  <2> QED BY <2>2, <2>3
<1>26. ShownFits(d, g2, "tick")
  <2>1. d.map = c.map
    BY <1>14 DEF SameSession
  <2>2. d.blocked => ~g2.ticket
    BY <1>14, <1>16, <1>17
  <2> QED BY <1>14, <2>1, <2>2 DEF ShownFits
<1> HIDE DEF c, g, w, l, p, a
<1>27. SlotInv(s)' <=>
         /\ ClientFits(clients'[s], peers'[s], tick', round')
         /\ RequestsFit(Sent(wire'[s], links'[s]), clients'[s], peers'[s], generation')
         /\ NamesFit(clients'[s], peers'[s], Sent(wire'[s], links'[s]))
         /\ AnswerFits(answers'[s], clients'[s], peers'[s], wire'[s], links'[s], tick', round')
         /\ PendingFits(clients'[s], guests'[s], turn'[s], peers'[s], wire'[s], links'[s], tick', round')
         /\ ExchangeFits(clients'[s], guests'[s], wire'[s], answers'[s])
         /\ ShownFits(clients'[s], guests'[s], turn'[s])
  BY DEF SlotInv, RoomFits, GameFits
<1> QED BY <1>20, <1>21, <1>22, <1>23, <1>24, <1>25, <1>26, <1>27


-----------------------------------------------------------------------------
(* The worker and the connections.                                           *)

\* The rest of a sequence, and a sequence with one more element.
LEMMA TailRange ==
    ASSUME NEW S, NEW seq \in Seq(S), seq # <<>>
    PROVE  /\ Tail(seq) \in Seq(S) /\ Head(seq) = seq[1] /\ seq[1] \in S /\ 1 \in DOMAIN seq
           /\ Len(seq) \in Nat /\ Len(Tail(seq)) = Len(seq) - 1
           /\ \A k \in DOMAIN Tail(seq) : k + 1 \in DOMAIN seq /\ Tail(seq)[k] = seq[k + 1]
           /\ Range(Tail(seq)) \subseteq Range(seq)
<1>1. /\ Tail(seq) \in Seq(S) /\ Len(Tail(seq)) = Len(seq) - 1 /\ Len(seq) \in Nat
      /\ \A k \in 1 .. Len(Tail(seq)) : Tail(seq)[k] = seq[k + 1]
  BY HeadTailProperties, LenProperties
<1>2. DOMAIN Tail(seq) = 1 .. Len(Tail(seq)) /\ DOMAIN seq = 1 .. Len(seq)
  BY <1>1, LenProperties
<1>3. \A k \in DOMAIN Tail(seq) : k + 1 \in DOMAIN seq
  BY <1>1, <1>2
<1>4. Head(seq) = seq[1] /\ 1 \in DOMAIN seq
  <2>1. Len(seq) # 0
    BY EmptySeq
  <2> QED BY <1>1, <1>2, <2>1
<1>5. seq[1] \in S
  BY <1>4
<1>6. Range(Tail(seq)) \subseteq Range(seq)
  BY <1>1, <1>2, <1>3 DEF Range
<1> QED BY <1>1, <1>2, <1>3, <1>4, <1>5, <1>6

LEMMA AppendRange ==
    ASSUME NEW S, NEW seq \in Seq(S), NEW e \in S
    PROVE  /\ Append(seq, e) \in Seq(S) /\ Len(Append(seq, e)) = Len(seq) + 1
           /\ Range(Append(seq, e)) = Range(seq) \cup {e}
<1> DEFINE long == Append(seq, e)
<1>1. PICK l \in Nat : Len(seq) = l /\ DOMAIN seq = 1 .. l
  BY LenProperties
<1>2. /\ long \in Seq(S) /\ Len(long) = l + 1 /\ DOMAIN long = 1 .. l + 1
      /\ \A k \in 1 .. l : long[k] = seq[k]
      /\ long[l + 1] = e
  BY <1>1, AppendProperties, LenProperties
<1>3. /\ \A k \in 1 .. l + 1 : k \in 1 .. l \/ k = l + 1
      /\ 1 .. l \subseteq 1 .. l + 1 /\ l + 1 \in 1 .. l + 1
  BY <1>1
<1> HIDE DEF long
<1>4. Range(long) = Range(seq) \cup {e}
  BY <1>1, <1>2, <1>3 DEF Range
<1> QED BY <1>1, <1>2, <1>4 DEF long

\* The first request of the worker is on the way, the others stay.
LEMMA FirstSent ==
    ASSUME NEW w \in Seq(Sendings), w # <<>>, NEW l
    PROVE  /\ Head(w).req \in Sent(w, l) /\ Head(w).req \in Request
           /\ Sent(Tail(w), l) \subseteq Sent(w, l)
<1>1. /\ Head(w) = w[1] /\ w[1] \in Sendings /\ 1 \in DOMAIN w
      /\ \A k \in DOMAIN Tail(w) : k + 1 \in DOMAIN w /\ Tail(w)[k] = w[k + 1]
  BY TailRange
<1>2. Head(w).req \in Request
  BY <1>1 DEF Sendings
<1> QED BY <1>1, <1>2 DEF Sent

\* When the worker is done with its first request, a request the script waits for
\* was the last, and the answer takes its place.
LEMMA FinishFits ==
    ASSUME NEW c, NEW g, NEW w \in Seq(Sendings), w # <<>>, NEW a, ExchangeFits(c, g, w, a),
           NEW a2, Head(w).current => a2 # None /\ (Mismatch(a2) => ~c.map),
           ~Head(w).current => a2 = a
    PROVE  /\ ExchangeFits(c, g, Tail(w), a2)
           /\ Head(w).current => Tail(w) = <<>>
           /\ Head(w).req.map = c.map
<1> DEFINE rest == Tail(w)
<1>1. /\ rest \in Seq(Sendings) /\ Head(w) = w[1] /\ 1 \in DOMAIN w
      /\ Len(w) \in Nat /\ Len(rest) = Len(w) - 1
      /\ \A k \in DOMAIN rest : k + 1 \in DOMAIN w /\ rest[k] = w[k + 1]
  BY TailRange
<1>2. /\ \A k \in DOMAIN w : (w[k].current => k = Len(w)) /\ w[k].req.map = c.map
      /\ g.ticket <=> Awaited(w) \/ a # None
      /\ ~(Awaited(w) /\ a # None)
      /\ Mismatch(a) => ~c.map
  BY DEF ExchangeFits
<1> HIDE DEF rest
<1>3. PICK n \in Nat : /\ Len(w) = n + 1 /\ Len(rest) = n /\ DOMAIN rest = 1 .. n
                      /\ (rest = <<>> <=> n = 0)
  <2>1. Len(rest) \in Nat /\ DOMAIN rest = 1 .. Len(rest) /\ (rest = <<>> <=> Len(rest) = 0)
    BY <1>1, LenProperties, EmptySeq
  <2>2. Len(w) = Len(rest) + 1
    BY <1>1, <2>1
  <2> QED BY <2>1, <2>2
<1>4. ASSUME NEW k \in DOMAIN rest
      PROVE  (rest[k].current => k = Len(rest)) /\ rest[k].req.map = c.map
  <2>1. k + 1 \in DOMAIN w /\ rest[k] = w[k + 1] /\ k \in Int
    <3>1. k \in 1 .. n
      BY <1>3
    <3> QED BY <1>1, <3>1
  <2>2. rest[k].current => k + 1 = Len(w)
    BY <1>2, <2>1, Zenon
  <2>3. k + 1 = Len(w) => k = Len(rest)
    BY <1>3, <2>1
  <2>4. rest[k].req.map = c.map
    BY <1>2, <2>1
  <2> QED BY <2>2, <2>3, <2>4, Zenon
<1>5. CASE Head(w).current
  <2>1. 1 = Len(w)
    BY <1>1, <1>2, <1>5, Zenon
  <2>2. rest = <<>>
    BY <1>3, <2>1
  <2>3. Awaited(w)
    BY <1>1, <1>5, <2>1, Zenon DEF Awaited
  <2>4. g.ticket /\ a2 # None /\ (Mismatch(a2) => ~c.map) /\ ~Awaited(rest)
    BY <1>2, <1>5, <2>2, <2>3, Zenon DEF Awaited
  <2>5. ExchangeFits(c, g, rest, a2)
    BY <1>4, <1>5, <2>4, Zenon DEF ExchangeFits
  <2> QED BY <1>1, <1>2, <2>2, <2>5 DEF rest
<1>6. CASE ~Head(w).current
  <2>1. Awaited(rest) <=> Awaited(w)
    <3>1. CASE rest = <<>>
      <4>1. Len(w) = 1
        BY <1>3, <3>1
      <4>2. ~Awaited(w)
        BY <1>1, <1>6, <4>1, Zenon DEF Awaited
      <4>3. ~Awaited(rest)
        BY <3>1 DEF Awaited
      <4> QED BY <4>2, <4>3
    <3>2. CASE rest # <<>>
      <4>1. Len(rest) \in DOMAIN rest /\ Len(rest) + 1 = Len(w)
        BY <1>3, <3>2
      <4>2. rest[Len(rest)] = w[Len(w)]
        BY <1>1, <4>1
      <4> QED BY <3>2, <4>2, Zenon DEF Awaited
    <3> QED BY <3>1, <3>2
  <2>2. a2 = a
    BY <1>6
  <2>3. ExchangeFits(c, g, rest, a2)
    BY <1>2, <1>4, <2>1, <2>2, Zenon DEF ExchangeFits
  <2> QED BY <1>1, <1>2, <1>6, <2>3 DEF rest
<1> QED BY <1>5, <1>6


\* What does not concern the room: the client, what it waits for, what it shows.
LEMMA GameKept ==
    ASSUME NEW s \in Guests, GameFits(s),
           clients'[s] = clients[s], guests'[s] = guests[s], turn'[s] = turn[s],
           ExchangeFits(clients[s], guests[s], wire'[s], answers'[s])
    PROVE  GameFits(s)'
<1>1. GameFits(s)' <=>
        /\ ExchangeFits(clients'[s], guests'[s], wire'[s], answers'[s])
        /\ ShownFits(clients'[s], guests'[s], turn'[s])
  BY DEF GameFits
<1> QED BY <1>1 DEF GameFits

\* A step of the worker and the connections of one slot keeps the types when what
\* it leaves of them has its type.
LEMMA WorkerTypes ==
    ASSUME GameType, NEW s \in Guests,
           UNCHANGED gameVars, faults' \in Nat, faults' >= faults,
           NEW w, wire' = [wire EXCEPT ![s] = w], w \in Seq(Sendings), Len(w) <= MAX_WIRE,
           NEW a, answers' = [answers EXCEPT ![s] = a] \/ (answers' = answers /\ a = answers[s]),
           a.error # NoError \/ a \in Snapshot,
           NEW l, links' = [links EXCEPT ![s] = l], l \in LinkRecord, Len(l.lost) <= faults'
    PROVE  /\ GameType' /\ wire'[s] = w /\ answers'[s] = a /\ links'[s] = l
           /\ clients'[s] = clients[s] /\ guests'[s] = guests[s] /\ turn'[s] = turn[s]
<1>1. /\ wire' \in [Guests -> Seq(Sendings)] /\ links' \in [Guests -> LinkRecord]
      /\ DOMAIN answers' = Guests
      /\ wire'[s] = w /\ answers'[s] = a /\ links'[s] = l
  BY DEF GameType
<1>2. ASSUME NEW q \in Guests
      PROVE  /\ Len(wire'[q]) <= MAX_WIRE /\ Len(links'[q].lost) <= faults'
             /\ answers'[q].error # NoError \/ answers'[q] \in Snapshot
  <2>1. CASE q = s
    BY <1>1, <2>1
  <2>2. CASE q # s
    <3>1. wire'[q] = wire[q] /\ answers'[q] = answers[q] /\ links'[q] = links[q]
      BY <2>2 DEF GameType
    <3>2. links[q].lost \in Seq(Request \cup {None}) /\ Len(links[q].lost) <= faults /\ faults \in Nat
      BY DEF GameType, LinkRecord
    <3>3. Len(links[q].lost) \in Nat
      BY <3>2, LenProperties
    <3>4. Len(links[q].lost) <= faults'
      BY <3>2, <3>3
    <3> QED BY <3>1, <3>4 DEF GameType
  <2> QED BY <2>1, <2>2
<1>3. /\ clients' \in [Guests -> ClientRecord] /\ guests' \in [Guests -> GuestRecord]
      /\ turn' \in [Guests -> {"tick", "frame"}] /\ turns' \in [Guests -> Nat]
      /\ clients'[s] = clients[s] /\ guests'[s] = guests[s] /\ turn'[s] = turn[s]
  BY DEF GameType, gameVars
<1> QED BY <1>1, <1>2, <1>3 DEF GameType

\* The worker's first request goes.
LEMMA FirstGone ==
    ASSUME GameType, NEW s \in Guests, wire[s] # <<>>
    PROVE  Tail(wire[s]) \in Seq(Sendings) /\ Len(Tail(wire[s])) <= MAX_WIRE
<1>1. wire[s] \in Seq(Sendings) /\ Len(wire[s]) <= MAX_WIRE /\ MAX_WIRE \in Nat
  BY CrossplayAssumption DEF GameType
<1>2. /\ Tail(wire[s]) \in Seq(Sendings) /\ Len(wire[s]) \in Nat
      /\ Len(Tail(wire[s])) = Len(wire[s]) - 1
  BY <1>1, TailRange
<1> QED BY <1>1, <1>2

\* The bridge's own answer.
LEMMA DisconnectedAnswer ==
    /\ Disconnected # None /\ Disconnected.error # NoError /\ ~Mismatch(Disconnected)
BY Zenon DEF Disconnected, None, NoError, Mismatch

\* The worker's skip of a cancelled request keeps the invariant.
LEMMA SkipKept ==
    ASSUME OrderInv, GameType, NEW s \in Guests, SlotInv(s), Skip(s)
    PROVE  GameType' /\ SlotInv(s)'
<1>1. /\ DuelTypeOK /\ RoomFits(s) /\ GameFits(s)
      /\ ExchangeFits(clients[s], guests[s], wire[s], answers[s])
  BY DEF OrderInv, QueueInv, SlotInv, GameFits
<1>2. /\ wire[s] \in Seq(Sendings) /\ links[s] \in LinkRecord /\ peers[s] \in Session
  BY <1>1, SlotTypes
<1>3. /\ wire[s] # <<>> /\ ~Head(wire[s]).current
      /\ wire' = [wire EXCEPT ![s] = Tail(wire[s])]
      /\ UNCHANGED <<duelVars, gameVars, answers, links, faults>>
  BY DEF Skip
<1>4. /\ answers' = answers /\ links' = [links EXCEPT ![s] = links[s]]
      /\ answers[s].error # NoError \/ answers[s] \in Snapshot
      /\ Len(links[s].lost) <= faults /\ faults \in Nat
  BY <1>3 DEF GameType
<1>5. /\ GameType' /\ wire'[s] = Tail(wire[s]) /\ answers'[s] = answers[s] /\ links'[s] = links[s]
      /\ clients'[s] = clients[s] /\ guests'[s] = guests[s] /\ turn'[s] = turn[s]
  <2>1. Tail(wire[s]) \in Seq(Sendings) /\ Len(Tail(wire[s])) <= MAX_WIRE
    BY <1>3, FirstGone
  <2>2. UNCHANGED gameVars /\ faults' \in Nat /\ faults' >= faults /\ Len(links[s].lost) <= faults'
    BY <1>3, <1>4
  <2> QED BY <1>2, <1>3, <1>4, <2>1, <2>2, WorkerTypes
<1>6. ExchangeFits(clients[s], guests[s], Tail(wire[s]), answers[s])
  BY <1>1, <1>2, <1>3, FinishFits
<1>7. GameFits(s)'
  BY <1>1, <1>5, <1>6, GameKept
<1>8. /\ DuelTypeOK' /\ [DuelNext]_duelVars /\ PeerKept(peers[s], peers'[s])
  BY <1>1, <1>3 DEF duelVars, DuelTypeOK, PeerKept
<1>9. RoomFits(s)'
  BY <1>1, <1>2, <1>3, <1>5, <1>8, FirstSent, QuietMove DEF Silent
<1> QED BY <1>5, <1>7, <1>9 DEF SlotInv

\* What the connection keeps when the request in it is dropped.
LEMMA LostMore ==
    ASSUME NEW w \in Seq(Sendings), w # <<>>, NEW l \in LinkRecord
    PROVE  LET k == [l EXCEPT !.lost = Append(l.lost, Head(w).req)] IN
           /\ k \in LinkRecord /\ Len(k.lost) = Len(l.lost) + 1
           /\ Sent(Tail(w), k) \subseteq Sent(w, l) /\ Sent(<<>>, k) \subseteq Sent(w, l)
<1> DEFINE more == Append(l.lost, Head(w).req)
           k == [l EXCEPT !.lost = more]
<1>1. /\ Head(w).req \in Sent(w, l) /\ Head(w).req \in Request
      /\ Sent(Tail(w), l) \subseteq Sent(w, l)
  BY FirstSent
<1>2. l.lost \in Seq(Request \cup {None})
  BY DEF LinkRecord
<1>3. /\ more \in Seq(Request \cup {None}) /\ Len(more) = Len(l.lost) + 1
      /\ Range(more) = Range(l.lost) \cup {Head(w).req}
  BY <1>1, <1>2, AppendRange
<1> HIDE DEF more
<1>4. k \in LinkRecord /\ k.lost = more
  BY <1>3 DEF LinkRecord
<1>5. Sent(Tail(w), k) \subseteq Sent(w, l)
  BY <1>1, <1>3, <1>4 DEF Sent
<1>6. Sent(<<>>, k) \subseteq Sent(w, l)
  BY <1>1, <1>3, <1>4 DEF Sent
<1> QED BY <1>3, <1>4, <1>5, <1>6 DEF more

\* A connection the bridge loses keeps the invariant.
LEMMA BreakKept ==
    ASSUME OrderInv, GameType, NEW s \in Guests, SlotInv(s), Break(s)
    PROVE  GameType' /\ SlotInv(s)'
<1>1. /\ DuelTypeOK /\ RoomFits(s) /\ GameFits(s)
      /\ ExchangeFits(clients[s], guests[s], wire[s], answers[s])
  BY DEF OrderInv, QueueInv, SlotInv, GameFits
<1>2. /\ wire[s] \in Seq(Sendings) /\ links[s] \in LinkRecord /\ peers[s] \in Session
      /\ links[s].lost \in Seq(Request \cup {None})
  BY <1>1, SlotTypes
<1> DEFINE k == [links[s] EXCEPT !.lost = Append(links[s].lost, Head(wire[s]).req)]
           a2 == IF Head(wire[s]).current THEN Disconnected ELSE answers[s]
<1>3. /\ wire[s] # <<>>
      /\ wire' = [wire EXCEPT ![s] = Tail(wire[s])]
      /\ answers' = [answers EXCEPT ![s] = a2]
      /\ UNCHANGED <<duelVars, gameVars>> /\ faults' = faults + 1
  BY DEF Break, Finish, Fault
<1>4. links' = [links EXCEPT ![s] = k]
  BY <1>2 DEF Break
<1>5. /\ k \in LinkRecord /\ Len(k.lost) = Len(links[s].lost) + 1
      /\ Sent(Tail(wire[s]), k) \subseteq Sent(wire[s], links[s])
  BY <1>2, <1>3, LostMore
<1>6. a2 = answers[s] \/ a2.error # NoError
  BY DisconnectedAnswer
<1>7. a2.error # NoError \/ a2 \in Snapshot
  BY <1>6 DEF GameType
<1>8. Len(k.lost) <= faults' /\ faults' \in Nat /\ faults' >= faults
  <2>1. Len(links[s].lost) <= faults /\ faults \in Nat /\ Len(links[s].lost) \in Nat
    BY <1>2, LenProperties DEF GameType
  <2> QED BY <1>3, <1>5, <2>1
<1>0. /\ Head(wire[s]).current => a2 # None /\ (Mismatch(a2) => ~clients[s].map)
      /\ ~Head(wire[s]).current => a2 = answers[s]
  BY DisconnectedAnswer
<1> HIDE DEF k, a2
<1>9. ExchangeFits(clients[s], guests[s], Tail(wire[s]), a2)
  BY <1>0, <1>1, <1>2, <1>3, FinishFits
<1>10. /\ GameType' /\ wire'[s] = Tail(wire[s]) /\ answers'[s] = a2 /\ links'[s] = k
       /\ clients'[s] = clients[s] /\ guests'[s] = guests[s] /\ turn'[s] = turn[s]
  BY <1>3, <1>4, <1>5, <1>7, <1>8, FirstGone, WorkerTypes
<1>11. GameFits(s)'
  BY <1>1, <1>9, <1>10, GameKept
<1>12. /\ DuelTypeOK' /\ [DuelNext]_duelVars /\ PeerKept(peers[s], peers'[s])
  BY <1>1, <1>3 DEF duelVars, DuelTypeOK, PeerKept
<1>13. RoomFits(s)'
  BY <1>1, <1>3, <1>5, <1>6, <1>10, <1>12, QuietMove DEF Silent
<1> QED BY <1>10, <1>11, <1>13 DEF SlotInv

\* A request that fails keeps the invariant.
LEMMA FailOverKept ==
    ASSUME OrderInv, GameType, NEW s \in Guests, SlotInv(s), FailOver(s)
    PROVE  GameType' /\ SlotInv(s)'
<1>1. /\ DuelTypeOK /\ RoomFits(s) /\ GameFits(s)
      /\ ExchangeFits(clients[s], guests[s], wire[s], answers[s])
  BY DEF OrderInv, QueueInv, SlotInv, GameFits
<1>2. /\ wire[s] \in Seq(Sendings) /\ links[s] \in LinkRecord
  BY <1>1, SlotTypes
<1> DEFINE k == [links[s] EXCEPT !.closed = FALSE]
           a2 == IF Head(wire[s]).current THEN Disconnected ELSE answers[s]
<1>3. /\ wire[s] # <<>>
      /\ wire' = [wire EXCEPT ![s] = Tail(wire[s])]
      /\ answers' = [answers EXCEPT ![s] = a2]
      /\ UNCHANGED <<duelVars, gameVars, faults>>
  BY DEF FailOver, Finish
<1>4. links' = [links EXCEPT ![s] = k]
  BY <1>2 DEF FailOver
<1>5. k \in LinkRecord /\ k.lost = links[s].lost
  BY <1>2 DEF LinkRecord
<1>6. a2 = answers[s] \/ a2.error # NoError
  BY DisconnectedAnswer
<1>7. a2.error # NoError \/ a2 \in Snapshot
  BY <1>6 DEF GameType
<1>0. /\ Head(wire[s]).current => a2 # None /\ (Mismatch(a2) => ~clients[s].map)
      /\ ~Head(wire[s]).current => a2 = answers[s]
  BY DisconnectedAnswer
<1> HIDE DEF k, a2
<1>8. ExchangeFits(clients[s], guests[s], Tail(wire[s]), a2)
  BY <1>0, <1>1, <1>2, <1>3, FinishFits
<1>9. Len(k.lost) <= faults' /\ faults' \in Nat /\ faults' >= faults
  BY <1>3, <1>5 DEF GameType
<1>10. /\ GameType' /\ wire'[s] = Tail(wire[s]) /\ answers'[s] = a2 /\ links'[s] = k
       /\ clients'[s] = clients[s] /\ guests'[s] = guests[s] /\ turn'[s] = turn[s]
  BY <1>3, <1>4, <1>5, <1>7, <1>9, FirstGone, WorkerTypes
<1>11. GameFits(s)'
  BY <1>1, <1>8, <1>10, GameKept
<1>12. /\ DuelTypeOK' /\ [DuelNext]_duelVars /\ PeerKept(peers[s], peers'[s])
  BY <1>1, <1>3 DEF duelVars, DuelTypeOK, PeerKept
<1>13. Sent(Tail(wire[s]), k) \subseteq Sent(wire[s], links[s])
  <2>1. Sent(Tail(wire[s]), links[s]) \subseteq Sent(wire[s], links[s])
    BY <1>2, <1>3, FirstSent
  <2> QED BY <1>5, <2>1 DEF Sent
<1>14. RoomFits(s)'
  BY <1>1, <1>3, <1>6, <1>10, <1>12, <1>13, QuietMove DEF Silent
<1> QED BY <1>10, <1>11, <1>14 DEF SlotInv

\* The room handles the worker's first request.
LEMMA ServeKept ==
    ASSUME OrderInv, GameType, NEW s \in Guests, SlotInv(s), Serve(s)
    PROVE  [DuelNext]_duelVars /\ OrderInv' /\ GameType' /\ SlotInv(s)'
<1>1. /\ DuelTypeOK /\ RoomFits(s) /\ GameFits(s)
      /\ ExchangeFits(clients[s], guests[s], wire[s], answers[s])
  BY DEF OrderInv, QueueInv, SlotInv, GameFits
<1>2. /\ wire[s] \in Seq(Sendings) /\ links[s] \in LinkRecord /\ peers[s] \in Session
      /\ s \in Slots
  BY <1>1, SlotTypes
<1>3. PICK req : req = Head(wire[s]).req
  OBVIOUS
<1>4. PICK a : a = Answer(s, req)
  OBVIOUS
<1> DEFINE a2 == IF Head(wire[s]).current THEN a ELSE answers[s]
<1>5. /\ wire[s] # <<>> /\ links[s].lost = <<>> /\ Exchange(s, req)
      /\ wire' = [wire EXCEPT ![s] = Tail(wire[s])]
      /\ answers' = [answers EXCEPT ![s] = a2]
      /\ UNCHANGED <<gameVars, links, faults>>
  BY <1>3, <1>4 DEF Serve, Finish, Reachable
<1>6. /\ req \in Sent(wire[s], links[s]) /\ req \in Request
      /\ Sent(Tail(wire[s]), links[s]) \subseteq Sent(wire[s], links[s])
  BY <1>2, <1>3, <1>5, FirstSent
<1>7. [DuelNext]_duelVars
  BY <1>2, <1>5, <1>6 DEF DuelNext
<1>8. OrderInv'
  BY <1>7, OrderInductive
<1>9. a # None /\ (Mismatch(a) => ~req.map) /\ (a.error # NoError \/ a \in Snapshot)
  BY <1>1, <1>2, <1>4, <1>5, <1>6, <1>8, AnswerShape
<1>10. req.map = clients[s].map
  <2>1. 1 \in DOMAIN wire[s] /\ Head(wire[s]) = wire[s][1]
    BY <1>2, <1>5, TailRange
  <2> QED BY <1>1, <1>3, <2>1 DEF ExchangeFits
<1>11. /\ Head(wire[s]).current => a2 # None /\ (Mismatch(a2) => ~clients[s].map)
       /\ ~Head(wire[s]).current => a2 = answers[s]
       /\ a2 = answers[s] \/ (Head(wire[s]).current /\ a2 = a)
  BY <1>9, <1>10, Zenon
<1>12. a2.error # NoError \/ a2 \in Snapshot
  <2>1. answers[s].error # NoError \/ answers[s] \in Snapshot
    BY DEF GameType
  <2> QED BY <1>9, <2>1
<1> HIDE DEF a2
<1>13. /\ ExchangeFits(clients[s], guests[s], Tail(wire[s]), a2)
       /\ Head(wire[s]).current => Tail(wire[s]) = <<>>
  <2>1. ExchangeFits(clients[s], guests[s], Tail(wire[s]), a2)
    BY <1>1, <1>2, <1>5, <1>11, FinishFits
  <2>2. Head(wire[s]).current => Tail(wire[s]) = <<>>
    <3>1. Head(wire[s]) = wire[s][1] /\ 1 \in DOMAIN wire[s]
      BY <1>2, <1>5, TailRange
    <3>2. wire[s][1].current => Len(wire[s]) = 1
      BY <1>1, <3>1, Zenon DEF ExchangeFits
    <3>3. Len(wire[s]) = 1 => Len(Tail(wire[s])) = 0 /\ Tail(wire[s]) \in Seq(Sendings)
      BY <1>2, <1>5, TailRange
    <3> QED BY <3>1, <3>2, <3>3, EmptySeq
  <2> QED BY <2>1, <2>2
<1>14. /\ GameType' /\ wire'[s] = Tail(wire[s]) /\ answers'[s] = a2 /\ links'[s] = links[s]
       /\ clients'[s] = clients[s] /\ guests'[s] = guests[s] /\ turn'[s] = turn[s]
  <2>1. Tail(wire[s]) \in Seq(Sendings) /\ Len(Tail(wire[s])) <= MAX_WIRE
    BY <1>5, FirstGone
  <2>2. /\ UNCHANGED gameVars /\ faults' \in Nat /\ faults' >= faults
        /\ Len(links[s].lost) <= faults'
    BY <1>5 DEF GameType
  <2>3. links' = [links EXCEPT ![s] = links[s]]
    BY <1>5 DEF GameType
  <2> QED BY <1>2, <1>5, <1>12, <2>1, <2>2, <2>3, WorkerTypes
<1>15. GameFits(s)'
  BY <1>1, <1>13, <1>14, GameKept
<1>16. \/ answers'[s] = answers[s]
       \/ /\ answers'[s] = Answer(s, req) /\ req.map = clients[s].map
          /\ Silent(wire'[s], links'[s])
  <2>1. Head(wire[s]).current => Silent(wire'[s], links'[s])
    BY <1>5, <1>13, <1>14 DEF Silent
  <2> QED BY <1>4, <1>10, <1>11, <1>14, <2>1
<1>17. Sent(wire'[s], links'[s]) \subseteq Sent(wire[s], links[s])
  BY <1>6, <1>14
<1>18. RoomFits(s)'
  BY <1>1, <1>5, <1>6, <1>8, <1>14, <1>16, <1>17, OwnExchange
<1> QED BY <1>7, <1>8, <1>14, <1>15, <1>18 DEF SlotInv

\* The Companion reads a request left in a lost connection.
LEMMA ServeLateKept ==
    ASSUME OrderInv, GameType, NEW s \in Guests, SlotInv(s), ServeLate(s)
    PROVE  [DuelNext]_duelVars /\ OrderInv' /\ GameType' /\ SlotInv(s)'
<1>1. /\ DuelTypeOK /\ RoomFits(s) /\ GameFits(s)
      /\ ExchangeFits(clients[s], guests[s], wire[s], answers[s])
  BY DEF OrderInv, QueueInv, SlotInv, GameFits
<1>2. /\ wire[s] \in Seq(Sendings) /\ links[s] \in LinkRecord /\ peers[s] \in Session
      /\ s \in Slots /\ links[s].lost \in Seq(Request \cup {None})
  BY <1>1, SlotTypes
<1>3. PICK req : req = Head(links[s].lost)
  OBVIOUS
<1> DEFINE rest == [links[s].lost EXCEPT ![1] = None]
           k == [links[s] EXCEPT !.lost = rest]
<1>4. /\ links[s].lost # <<>> /\ req # None /\ Exchange(s, req)
      /\ UNCHANGED <<gameVars, wire, answers, faults>>
  BY <1>3 DEF ServeLate
<1>5. links' = [links EXCEPT ![s] = k]
  BY <1>2 DEF ServeLate
<1>6. PICK n \in Nat : /\ Len(links[s].lost) = n /\ DOMAIN links[s].lost = 1 .. n /\ 1 \in 1 .. n
                      /\ Head(links[s].lost) = links[s].lost[1]
  BY <1>2, <1>4, TailRange, LenProperties
<1>7. req \in Sent(wire[s], links[s]) /\ req \in Request
  BY <1>2, <1>3, <1>4, <1>6 DEF Sent, Range
<1>8. rest \in Seq(Request \cup {None}) /\ Len(rest) = n /\ Range(rest) \subseteq Range(links[s].lost) \cup {None}
  <2>1. links[s].lost \in [1 .. n -> Request \cup {None}]
    BY <1>2, <1>6, LenProperties
  <2>2. rest \in [1 .. n -> Request \cup {None}]
    BY <2>1
  <2>3. \A i \in 1 .. n : rest[i] = links[s].lost[i] \/ rest[i] = None
    BY <2>1
  <2> HIDE DEF rest
  <2>4. rest \in Seq(Request \cup {None})
    BY <2>2
  <2>5. Len(rest) = n
    BY <2>2, <2>4, LenProperties
  <2>6. Range(rest) \subseteq Range(links[s].lost) \cup {None}
    BY <1>6, <2>2, <2>3 DEF Range
  <2> QED BY <2>4, <2>5, <2>6
<1> HIDE DEF rest
<1>9. k \in LinkRecord /\ k.lost = rest
  BY <1>2, <1>8 DEF LinkRecord
<1>10. Sent(wire[s], k) \subseteq Sent(wire[s], links[s])
  BY <1>8, <1>9 DEF Sent
<1>11. [DuelNext]_duelVars
  BY <1>2, <1>4, <1>7 DEF DuelNext
<1>12. OrderInv'
  BY <1>11, OrderInductive
<1> HIDE DEF k
<1>13. /\ GameType' /\ wire'[s] = wire[s] /\ answers'[s] = answers[s] /\ links'[s] = k
       /\ clients'[s] = clients[s] /\ guests'[s] = guests[s] /\ turn'[s] = turn[s]
  <2>1. UNCHANGED gameVars /\ faults' \in Nat /\ faults' >= faults /\ Len(k.lost) <= faults'
    BY <1>4, <1>6, <1>8, <1>9 DEF GameType
  <2>2. /\ wire' = [wire EXCEPT ![s] = wire[s]] /\ Len(wire[s]) <= MAX_WIRE
        /\ answers' = answers /\ (answers[s].error # NoError \/ answers[s] \in Snapshot)
    BY <1>4 DEF GameType
  <2> QED BY <1>2, <1>5, <1>9, <2>1, <2>2, WorkerTypes
<1>14. GameFits(s)'
  BY <1>1, <1>13, GameKept
<1>15. RoomFits(s)'
  BY <1>1, <1>4, <1>7, <1>10, <1>12, <1>13, OwnExchange
<1> QED BY <1>11, <1>12, <1>13, <1>14, <1>15 DEF SlotInv

\* The Companion closes a lost connection.
LEMMA HangupKept ==
    ASSUME OrderInv, GameType, NEW s \in Guests, SlotInv(s), Hangup(s)
    PROVE  [DuelNext]_duelVars /\ OrderInv' /\ GameType' /\ SlotInv(s)'
<1>1. /\ DuelTypeOK /\ RoomFits(s) /\ GameFits(s)
      /\ ExchangeFits(clients[s], guests[s], wire[s], answers[s])
  BY DEF OrderInv, QueueInv, SlotInv, GameFits
<1>2. /\ wire[s] \in Seq(Sendings) /\ links[s] \in LinkRecord /\ peers[s] \in Session
      /\ s \in Slots /\ links[s].lost \in Seq(Request \cup {None})
  BY <1>1, SlotTypes
<1> DEFINE rest == Tail(links[s].lost)
           k == [links[s] EXCEPT !.lost = rest]
<1>3. /\ links[s].lost # <<>> /\ Disconnect(s)
      /\ UNCHANGED <<gameVars, wire, answers, faults>>
  BY DEF Hangup
<1>4. links' = [links EXCEPT ![s] = k]
  BY <1>2 DEF Hangup
<1>5. PICK n \in Nat : /\ Len(links[s].lost) = n /\ Len(rest) = n - 1
                      /\ rest \in Seq(Request \cup {None})
                      /\ Range(rest) \subseteq Range(links[s].lost)
  BY <1>2, <1>3, TailRange
<1> HIDE DEF rest
<1>6. k \in LinkRecord /\ k.lost = rest
  BY <1>2, <1>5 DEF LinkRecord
<1>7. Sent(wire[s], k) \subseteq Sent(wire[s], links[s]) /\ ~Silent(wire[s], links[s])
  BY <1>3, <1>5, <1>6 DEF Sent, Silent
<1>8. [DuelNext]_duelVars /\ OrderInv'
  BY <1>2, <1>3, OrderInductive DEF DuelNext
<1>9. PeerKept(peers[s], peers'[s]) /\ DuelTypeOK'
  BY <1>1, <1>2, <1>3, <1>8, DepartureKeeps DEF OrderInv, QueueInv
<1> HIDE DEF k
<1>10. /\ GameType' /\ wire'[s] = wire[s] /\ answers'[s] = answers[s] /\ links'[s] = k
       /\ clients'[s] = clients[s] /\ guests'[s] = guests[s] /\ turn'[s] = turn[s]
  <2>1. n <= faults /\ faults \in Nat
    BY <1>5 DEF GameType
  <2>2. UNCHANGED gameVars /\ faults' \in Nat /\ faults' >= faults /\ Len(k.lost) <= faults'
    BY <1>3, <1>5, <1>6, <2>1
  <2>3. /\ wire' = [wire EXCEPT ![s] = wire[s]] /\ Len(wire[s]) <= MAX_WIRE
        /\ answers' = answers /\ (answers[s].error # NoError \/ answers[s] \in Snapshot)
    BY <1>3 DEF GameType
  <2> QED BY <1>2, <1>4, <1>6, <2>2, <2>3, WorkerTypes
<1>11. GameFits(s)'
  BY <1>1, <1>10, GameKept
<1>12. RoomFits(s)'
  BY <1>1, <1>7, <1>8, <1>9, <1>10, QuietMove
<1> QED BY <1>8, <1>10, <1>11, <1>12 DEF SlotInv

\* The Companion drops an idle connection.
LEMMA CloseKept ==
    ASSUME OrderInv, GameType, NEW s \in Guests, SlotInv(s), Close(s)
    PROVE  [DuelNext]_duelVars /\ OrderInv' /\ GameType' /\ SlotInv(s)'
<1>1. /\ DuelTypeOK /\ RoomFits(s) /\ GameFits(s)
      /\ ExchangeFits(clients[s], guests[s], wire[s], answers[s])
  BY DEF OrderInv, QueueInv, SlotInv, GameFits
<1>2. /\ wire[s] \in Seq(Sendings) /\ links[s] \in LinkRecord /\ peers[s] \in Session
      /\ s \in Slots /\ links[s].lost \in Seq(Request \cup {None})
  BY <1>1, SlotTypes
<1> DEFINE k == [links[s] EXCEPT !.closed = TRUE]
<1>3. /\ Disconnect(s) /\ faults' = faults + 1
      /\ UNCHANGED <<gameVars, wire, answers>>
  BY DEF Close, Fault
<1>4. links' = [links EXCEPT ![s] = k]
  BY <1>2 DEF Close
<1>5. k \in LinkRecord /\ k.lost = links[s].lost
  BY <1>2 DEF LinkRecord
<1>6. Sent(wire[s], k) = Sent(wire[s], links[s]) /\ (Silent(wire[s], k) <=> Silent(wire[s], links[s]))
  BY <1>5 DEF Sent, Silent
<1>7. [DuelNext]_duelVars /\ OrderInv'
  BY <1>2, <1>3, OrderInductive DEF DuelNext
<1>8. PeerKept(peers[s], peers'[s]) /\ DuelTypeOK'
  BY <1>1, <1>2, <1>3, <1>7, DepartureKeeps DEF OrderInv, QueueInv
<1> HIDE DEF k
<1>9. /\ GameType' /\ wire'[s] = wire[s] /\ answers'[s] = answers[s] /\ links'[s] = k
      /\ clients'[s] = clients[s] /\ guests'[s] = guests[s] /\ turn'[s] = turn[s]
  <2>1. Len(links[s].lost) <= faults /\ faults \in Nat /\ Len(links[s].lost) \in Nat
    BY <1>2, LenProperties DEF GameType
  <2>2. UNCHANGED gameVars /\ faults' \in Nat /\ faults' >= faults /\ Len(k.lost) <= faults'
    BY <1>3, <1>5, <2>1
  <2>3. /\ wire' = [wire EXCEPT ![s] = wire[s]] /\ Len(wire[s]) <= MAX_WIRE
        /\ answers' = answers /\ (answers[s].error # NoError \/ answers[s] \in Snapshot)
    BY <1>3 DEF GameType
  <2> QED BY <1>2, <1>4, <1>5, <2>2, <2>3, WorkerTypes
<1>10. GameFits(s)'
  BY <1>1, <1>9, GameKept
<1>11. RoomFits(s)'
  BY <1>1, <1>6, <1>7, <1>8, <1>9, QuietMove
<1> QED BY <1>7, <1>9, <1>10, <1>11 DEF SlotInv

-----------------------------------------------------------------------------
(* A restart, and the slots a step does not concern.                         *)

\* A new client remembers nothing.
LEMMA NewClientType ==
    ASSUME NEW map \in BOOLEAN
    PROVE  /\ NewClient(map) \in ClientRecord /\ NewClient(map).epoch = 0
           /\ NewClient(map).history = <<>> /\ NewClient(map).next = 1
           /\ NewClient(map).received = 0 /\ NewClient(map).tick = 0 /\ NewClient(map).round = 0
           /\ NewClient(map).pending = None /\ ~NewClient(map).blocked
<1>1. 0 \in 0 .. MAX_GENERATION /\ 0 \in 0 .. MAX_TICK /\ 0 \in 0 .. STALE_TICKS
  BY DuelAssumption
<1>2. <<>> \in Seq(Input)
  BY EmptySeq
<1>3. "CONNECTING" \in Statuses
  BY DEF Statuses
<1> QED BY <1>1, <1>2, <1>3 DEF NewClient, ClientRecord

\* Whatever was on the way fits a new client and its empty exchange.
LEMMA NewClientFits ==
    ASSUME NEW map \in BOOLEAN, NEW old, NEW p, NEW now, NEW rounds, NEW last, NEW l,
           NEW requests, NEW fewer, fewer \subseteq requests, RequestsFit(requests, old, p, last)
    PROVE  LET c == NewClient(map) IN
           /\ ClientFits(c, p, now, rounds) /\ RequestsFit(fewer, c, p, last)
           /\ NamesFit(c, p, fewer) /\ AnswerFits(None, c, p, <<>>, l, now, rounds)
           /\ PendingFits(c, NewGuest, "tick", p, <<>>, l, now, rounds)
           /\ ExchangeFits(c, NewGuest, <<>>, None) /\ ShownFits(c, NewGuest, "tick")
<1> DEFINE c == NewClient(map)
<1>1. /\ c.epoch = 0 /\ c.history = <<>> /\ c.next = 1 /\ c.received = 0 /\ c.tick = 0
      /\ c.round = 0 /\ c.pending = None /\ ~c.blocked
  BY NewClientType
<1> HIDE DEF c
<1>2. ClientFits(c, p, now, rounds) /\ NamesFit(c, p, fewer)
  BY <1>1 DEF ClientFits, NamesFit
<1>3. RequestsFit(fewer, c, p, last)
  BY <1>1 DEF RequestsFit, RequestFits
<1>4. AnswerFits(None, c, p, <<>>, l, now, rounds)
  BY NoneIsNoSnapshot DEF AnswerFits
<1>5. PendingFits(c, NewGuest, "tick", p, <<>>, l, now, rounds)
  BY <1>1 DEF PendingFits
<1>6. ExchangeFits(c, NewGuest, <<>>, None)
  <2>1. DOMAIN <<>> = {} /\ ~NewGuest.ticket /\ ~Awaited(<<>>)
    BY DEF NewGuest, Awaited
  <2>2. ~Mismatch(None)
    BY Zenon DEF Mismatch, None
  <2> QED BY <2>1, <2>2, Zenon DEF ExchangeFits
<1>7. ShownFits(c, NewGuest, "tick")
  BY <1>1 DEF ShownFits
<1> QED BY <1>2, <1>3, <1>4, <1>5, <1>6, <1>7 DEF c

\* What a restart leaves of the connection.
LEMMA RestartedLink ==
    ASSUME NEW w \in Seq(Sendings), NEW l \in LinkRecord, NEW n \in Nat, Len(l.lost) <= n
    PROVE  LET k == Abandoned(l, w) IN
           /\ k \in LinkRecord /\ Len(k.lost) <= n + 1 /\ Sent(<<>>, k) \subseteq Sent(w, l)
<1> DEFINE k == Abandoned(l, w)
<1>1. l.lost \in Seq(Request \cup {None}) /\ l.closed \in BOOLEAN
  BY DEF LinkRecord
<1>2. PICK m \in Nat : Len(l.lost) = m
  BY <1>1, LenProperties
<1>3. m <= n + 1 /\ m + 1 <= n + 1 /\ 1 <= n + 1 /\ 0 <= n + 1
  BY <1>2
<1>4. CASE l.closed
  <2>1. k = NewLink
    BY <1>4 DEF Abandoned
  <2> HIDE DEF k
  <2>2. k.lost = <<>> /\ k \in LinkRecord
    BY <2>1, EmptySeq DEF NewLink, LinkRecord
  <2>3. Len(k.lost) = 0 /\ Sent(<<>>, k) = {}
    BY <2>2 DEF Sent, Range
  <2> QED BY <1>3, <2>2, <2>3 DEF k
<1>5. CASE ~l.closed /\ w # <<>>
  <2>1. k = [l EXCEPT !.lost = Append(l.lost, Head(w).req)]
    BY <1>1, <1>5 DEF Abandoned, LinkRecord
  <2> HIDE DEF k
  <2>2. k \in LinkRecord /\ Len(k.lost) = m + 1 /\ Sent(<<>>, k) \subseteq Sent(w, l)
    BY <1>2, <1>5, <2>1, LostMore
  <2> QED BY <1>3, <2>2 DEF k
<1>6. CASE ~l.closed /\ w = <<>> /\ l.lost = <<>>
  <2>1. k = [l EXCEPT !.lost = <<None>>]
    BY <1>6 DEF Abandoned
  <2> HIDE DEF k
  <2>2. <<None>> \in Seq(Request \cup {None}) /\ Len(<<None>>) = 1
    OBVIOUS
  <2>3. k.lost = <<None>> /\ k \in LinkRecord
    BY <2>1, <2>2 DEF LinkRecord
  <2>4. Range(<<None>>) = {None}
    BY DEF Range
  <2>5. Len(k.lost) = 1 /\ Sent(<<>>, k) = {}
    BY <2>2, <2>3, <2>4 DEF Sent
  <2> QED BY <1>3, <2>3, <2>5 DEF k
<1>7. CASE ~l.closed /\ w = <<>> /\ l.lost # <<>>
  <2>1. k = l
    BY <1>7 DEF Abandoned
  <2> HIDE DEF k
  <2> QED BY <1>2, <1>3, <1>7, <2>1 DEF k
<1> QED BY <1>1, <1>4, <1>5, <1>6, <1>7

\* A restart keeps the invariant.
LEMMA RestartKept ==
    ASSUME OrderInv, GameType, NEW s \in Guests, SlotInv(s), Restart(s)
    PROVE  GameType' /\ SlotInv(s)'
<1>1. DuelTypeOK /\ RoomFits(s)
  BY DEF OrderInv, QueueInv, SlotInv
<1>2. /\ wire[s] \in Seq(Sendings) /\ links[s] \in LinkRecord
      /\ Len(links[s].lost) <= faults /\ faults \in Nat
  BY <1>1, SlotTypes DEF GameType
<1>3. PICK map \in BOOLEAN : clients' = [clients EXCEPT ![s] = NewClient(map)]
  BY DEF Restart
<1> DEFINE l == links[s]
           w == wire[s]
           k == Abandoned(l, w)
<1>4. links' = [links EXCEPT ![s] = k]
  BY DEF Restart
<1>5. /\ k \in LinkRecord /\ Len(k.lost) <= faults + 1 /\ Sent(<<>>, k) \subseteq Sent(w, l)
  BY <1>2, RestartedLink
<1> HIDE DEF k
<1>6. /\ guests' = [guests EXCEPT ![s] = NewGuest] /\ turn' = [turn EXCEPT ![s] = "tick"]
      /\ wire' = [wire EXCEPT ![s] = <<>>] /\ answers' = [answers EXCEPT ![s] = None]
      /\ faults' = faults + 1 /\ UNCHANGED <<duelVars, turns>>
  BY DEF Restart, Fault
<1>7. NewClient(map) \in ClientRecord /\ NewGuest \in GuestRecord /\ <<>> \in Seq(Sendings)
  <2>1. 0 \in 0 .. TIMEOUT
    BY CrossplayAssumption
  <2> QED BY <2>1, NewClientType, EmptySeq DEF NewGuest, GuestRecord
<1>8. /\ clients' \in [Guests -> ClientRecord] /\ guests' \in [Guests -> GuestRecord]
      /\ turn' \in [Guests -> {"tick", "frame"}] /\ turns' \in [Guests -> Nat]
      /\ wire' \in [Guests -> Seq(Sendings)] /\ links' \in [Guests -> LinkRecord]
      /\ DOMAIN answers' = Guests /\ faults' \in Nat
  BY <1>2, <1>3, <1>4, <1>5, <1>6, <1>7 DEF GameType
<1>9. /\ clients'[s] = NewClient(map) /\ guests'[s] = NewGuest /\ turn'[s] = "tick"
      /\ wire'[s] = <<>> /\ answers'[s] = None /\ links'[s] = k
  BY <1>3, <1>4, <1>6 DEF GameType
<1>10. ASSUME NEW q \in Guests
       PROVE  /\ Len(wire'[q]) <= MAX_WIRE /\ Len(links'[q].lost) <= faults'
              /\ answers'[q].error # NoError \/ answers'[q] \in Snapshot
  <2>1. CASE q = s
    <3>1. Len(<<>>) <= MAX_WIRE
      BY CrossplayAssumption
    <3> QED BY <1>5, <1>6, <1>9, <2>1, <3>1, NoneIsNoSnapshot
  <2>2. CASE q # s
    <3>1. wire'[q] = wire[q] /\ answers'[q] = answers[q] /\ links'[q] = links[q]
      BY <1>4, <1>6, <2>2 DEF GameType
    <3>2. links[q].lost \in Seq(Request \cup {None}) /\ Len(links[q].lost) <= faults
      BY DEF GameType, LinkRecord
    <3>3. Len(links[q].lost) \in Nat
      BY <3>2, LenProperties
    <3>4. Len(links[q].lost) <= faults'
      BY <1>2, <1>6, <3>2, <3>3
    <3> QED BY <3>1, <3>4 DEF GameType
  <2> QED BY <2>1, <2>2
<1>11. GameType'
  BY <1>8, <1>10 DEF GameType
<1> DEFINE c == NewClient(map)
<1>12. RequestsFit(Sent(w, l), clients[s], peers[s], generation)
  BY <1>1 DEF RoomFits
<1>13. /\ ClientFits(c, peers[s], tick, round) /\ RequestsFit(Sent(<<>>, k), c, peers[s], generation)
       /\ NamesFit(c, peers[s], Sent(<<>>, k)) /\ AnswerFits(None, c, peers[s], <<>>, k, tick, round)
       /\ PendingFits(c, NewGuest, "tick", peers[s], <<>>, k, tick, round)
       /\ ExchangeFits(c, NewGuest, <<>>, None) /\ ShownFits(c, NewGuest, "tick")
  <2> HIDE DEF l, w
  <2> QED BY <1>5, <1>12, NewClientFits
<1>14. peers' = peers /\ tick' = tick /\ round' = round /\ generation' = generation
  BY <1>6 DEF duelVars
<1> HIDE DEF c
<1>15. RoomFits(s)' <=>
         /\ ClientFits(clients'[s], peers'[s], tick', round')
         /\ RequestsFit(Sent(wire'[s], links'[s]), clients'[s], peers'[s], generation')
         /\ NamesFit(clients'[s], peers'[s], Sent(wire'[s], links'[s]))
         /\ AnswerFits(answers'[s], clients'[s], peers'[s], wire'[s], links'[s], tick', round')
         /\ PendingFits(clients'[s], guests'[s], turn'[s], peers'[s], wire'[s], links'[s], tick', round')
  BY DEF RoomFits
<1>16. GameFits(s)' <=>
         /\ ExchangeFits(clients'[s], guests'[s], wire'[s], answers'[s])
         /\ ShownFits(clients'[s], guests'[s], turn'[s])
  BY DEF GameFits
<1>17. clients'[s] = c
  BY <1>9 DEF c
<1>18. RoomFits(s)' /\ GameFits(s)'
  BY <1>9, <1>13, <1>14, <1>15, <1>16, <1>17
<1> QED BY <1>11, <1>18 DEF SlotInv

\* A slot that the step leaves alone, but for what the room does to it.
LEMMA OtherKept ==
    ASSUME DuelTypeOK, GameType, DuelTypeOK', GameType', [DuelNext]_duelVars,
           NEW q \in Guests, SlotInv(q), PeerKept(peers[q], peers'[q]),
           clients'[q] = clients[q], guests'[q] = guests[q], turn'[q] = turn[q],
           wire'[q] = wire[q], answers'[q] = answers[q], links'[q] = links[q]
    PROVE  SlotInv(q)'
<1>1. RoomFits(q) /\ GameFits(q) /\ ExchangeFits(clients[q], guests[q], wire[q], answers[q])
  BY DEF SlotInv, GameFits
<1>2. GameFits(q)'
  BY <1>1, GameKept
<1>3. RoomFits(q)'
  BY <1>1, QuietMove
<1> QED BY <1>2, <1>3 DEF SlotInv

-----------------------------------------------------------------------------
(* The invariant is inductive.                                               *)

\* A step concerns the slot s only.
Alone(s) ==
    \A q \in Guests \ {s} :
        /\ clients'[q] = clients[q] /\ guests'[q] = guests[q] /\ turn'[q] = turn[q]
        /\ wire'[q] = wire[q] /\ answers'[q] = answers[q] /\ links'[q] = links[q]

\* The steps of the game's turn, the worker and the connections concern one slot.
LEMMA GameAlone ==
    ASSUME GameType, NEW s \in Guests, Tick(s) \/ Frame(s) \/ Restart(s)
    PROVE  Alone(s)
<1>1. CASE Tick(s)
  <2>1. PICK fire \in Triggers, sends \in BOOLEAN : TickLeaves(s, fire, sends)
    BY <1>1 DEF Tick, TickLeaves
  <2>2. \A q \in Guests \ {s} : /\ clients'[q] = clients[q] /\ guests'[q] = guests[q]
                                 /\ wire'[q] = wire[q] /\ answers'[q] = answers[q]
    BY <2>1 DEF TickLeaves, GameType
  <2>3. \A q \in Guests \ {s} : turn'[q] = turn[q] /\ links'[q] = links[q]
    BY <1>1 DEF Tick, GameType
  <2> QED BY <2>2, <2>3 DEF Alone
<1>2. CASE Frame(s)
  <2>1. PICK called \in BOOLEAN :
          LET c == IF guests[s].failed THEN Fail(clients[s]) ELSE clients[s]
          IN  /\ clients' = [clients EXCEPT ![s] = IF called THEN Receive(c, answers[s]) ELSE c]
              /\ guests' = [guests EXCEPT ![s].failed = FALSE, ![s].ticket = @ /\ ~called]
              /\ answers' = [answers EXCEPT ![s] = IF called THEN None ELSE @]
    BY <1>2 DEF Frame
  <2>2. \A q \in Guests \ {s} : clients'[q] = clients[q] /\ guests'[q] = guests[q] /\ answers'[q] = answers[q]
    BY <2>1 DEF GameType
  <2>3. \A q \in Guests \ {s} : turn'[q] = turn[q] /\ links'[q] = links[q] /\ wire'[q] = wire[q]
    BY <1>2 DEF Frame, GameType
  <2> QED BY <2>2, <2>3 DEF Alone
<1>3. CASE Restart(s)
  <2>1. PICK map \in BOOLEAN : clients' = [clients EXCEPT ![s] = NewClient(map)]
    BY <1>3 DEF Restart
  <2>2. /\ guests' = [guests EXCEPT ![s] = NewGuest] /\ turn' = [turn EXCEPT ![s] = "tick"]
        /\ wire' = [wire EXCEPT ![s] = <<>>] /\ answers' = [answers EXCEPT ![s] = None]
        /\ links' = [links EXCEPT ![s] = Abandoned(links[s], wire[s])]
    BY <1>3 DEF Restart
  <2> QED BY <2>1, <2>2 DEF Alone, GameType
<1> QED BY <1>1, <1>2, <1>3

LEMMA WorkerAlone ==
    ASSUME GameType, NEW s \in Guests,
           \/ Skip(s) \/ Serve(s) \/ Break(s) \/ FailOver(s) \/ ServeLate(s) \/ Hangup(s) \/ Close(s)
    PROVE  Alone(s)
<1>1. UNCHANGED gameVars
  BY DEF Skip, Serve, Break, FailOver, ServeLate, Hangup, Close
<1>2. \A q \in Guests \ {s} : wire'[q] = wire[q]
  BY DEF Skip, Serve, Break, FailOver, ServeLate, Hangup, Close, Finish, GameType
<1>3. \A q \in Guests \ {s} : answers'[q] = answers[q]
  BY DEF Skip, Serve, Break, FailOver, ServeLate, Hangup, Close, Finish, GameType
<1>4. \A q \in Guests \ {s} : links'[q] = links[q]
  BY DEF Skip, Serve, Break, FailOver, ServeLate, Hangup, Close, GameType
<1> QED BY <1>1, <1>2, <1>3, <1>4 DEF Alone, gameVars

\* The room does nothing, handles a request of the slot or sees it go.
LEMMA RoomActs ==
    ASSUME OrderInv, GameType, NEW s \in Guests, SlotInv(s),
           \/ Tick(s) \/ Frame(s) \/ Restart(s)
           \/ Skip(s) \/ Serve(s) \/ Break(s) \/ FailOver(s) \/ ServeLate(s) \/ Hangup(s) \/ Close(s)
    PROVE  \/ UNCHANGED duelVars
           \/ \E req \in Request : Exchange(s, req)
           \/ Disconnect(s)
<1>1. DuelTypeOK
  BY DEF OrderInv, QueueInv
<1>2. wire[s] \in Seq(Sendings) /\ links[s].lost \in Seq(Request \cup {None})
  BY <1>1, SlotTypes
<1>3. CASE Serve(s)
  <2>1. wire[s] # <<>> /\ Exchange(s, Head(wire[s]).req)
    BY <1>3 DEF Serve
  <2>2. Head(wire[s]).req \in Request
    BY <1>2, <2>1, FirstSent
  <2> QED BY <2>1, <2>2
<1>4. CASE ServeLate(s)
  <2>1. links[s].lost # <<>> /\ Head(links[s].lost) # None /\ Exchange(s, Head(links[s].lost))
    BY <1>4 DEF ServeLate
  <2>2. Head(links[s].lost) \in Request \cup {None}
    BY <1>2, <2>1, TailRange
  <2> QED BY <2>1, <2>2
<1>5. CASE Hangup(s) \/ Close(s)
  BY <1>5 DEF Hangup, Close
<1>6. CASE Tick(s) \/ Frame(s) \/ Restart(s) \/ Skip(s) \/ Break(s) \/ FailOver(s)
  BY <1>6 DEF Tick, Frame, Restart, Skip, Break, FailOver
<1> QED BY <1>3, <1>4, <1>5, <1>6

\* A step of one slot keeps the invariant of all.
LEMMA SlotStep ==
    ASSUME CrossInv, NEW s \in Guests,
           \/ Tick(s) \/ Frame(s) \/ Restart(s)
           \/ Skip(s) \/ Serve(s) \/ Break(s) \/ FailOver(s) \/ ServeLate(s) \/ Hangup(s) \/ Close(s)
    PROVE  CrossInv'
<1>1. OrderInv /\ GameType /\ SlotInv(s) /\ DuelTypeOK /\ s \in Slots
  BY CrossplayAssumption DEF CrossInv, OrderInv, QueueInv, Slots
<1>2. GameType' /\ SlotInv(s)'
  BY <1>1, TickKept, FrameKept, RestartKept, SkipKept, ServeKept, BreakKept, FailOverKept,
     ServeLateKept, HangupKept, CloseKept
<1>3. Alone(s)
  BY <1>1, GameAlone, WorkerAlone
<1>4. \/ UNCHANGED duelVars
      \/ \E req \in Request : Exchange(s, req)
      \/ Disconnect(s)
  BY <1>1, RoomActs
<1>5. [DuelNext]_duelVars
  BY <1>1, <1>4 DEF DuelNext
<1>6. OrderInv' /\ DuelTypeOK'
  BY <1>1, <1>5, OrderInductive DEF OrderInv, QueueInv
<1>7. ASSUME NEW q \in Guests, q # s
      PROVE  SlotInv(q)'
  <2>1. q \in Slots /\ SlotInv(q)
    BY CrossplayAssumption DEF CrossInv, Slots
  <2>2. PeerKept(peers[q], peers'[q])
    <3>1. CASE UNCHANGED duelVars
      BY <3>1 DEF duelVars, PeerKept
    <3>2. CASE \E req \in Request : Exchange(s, req)
      BY <1>1, <1>7, <2>1, <3>2, OthersKept
    <3>3. CASE Disconnect(s)
      BY <1>1, <2>1, <3>3, DepartureKeeps
    <3> QED BY <1>4, <3>1, <3>2, <3>3
  <2>3. /\ clients'[q] = clients[q] /\ guests'[q] = guests[q] /\ turn'[q] = turn[q]
        /\ wire'[q] = wire[q] /\ answers'[q] = answers[q] /\ links'[q] = links[q]
    BY <1>3, <1>7 DEF Alone
  <2> QED BY <1>1, <1>2, <1>5, <1>6, <2>1, <2>2, <2>3, OtherKept
<1> QED BY <1>2, <1>6, <1>7 DEF CrossInv

\* So does a step of the room, or of a slot played freely.
LEMMA FreeStep ==
    ASSUME CrossInv, UNCHANGED <<gameVars, wireVars>>, faults' = faults \/ faults' = faults + 1,
           \/ Step
           \/ \E s \in Slots \ Guests : \E req \in Request : Exchange(s, req)
           \/ \E s \in Slots \ Guests : Disconnect(s)
    PROVE  CrossInv'
<1>1. OrderInv /\ GameType /\ DuelTypeOK
  BY DEF CrossInv, OrderInv, QueueInv
<1>2. [DuelNext]_duelVars
  BY DEF DuelNext
<1>3. OrderInv' /\ DuelTypeOK'
  BY <1>1, <1>2, OrderInductive DEF OrderInv, QueueInv
<1>4. GameType'
  <2>1. faults \in Nat /\ faults' \in Nat
    BY <1>1 DEF GameType
  <2>2. \A s \in Guests : Len(links[s].lost) \in Nat /\ Len(links[s].lost) <= faults
    BY <1>1, LenProperties DEF GameType, LinkRecord
  <2>3. \A s \in Guests : Len(links[s].lost) <= faults'
    BY <2>1, <2>2
  <2>4. /\ clients' = clients /\ guests' = guests /\ turn' = turn /\ turns' = turns
        /\ wire' = wire /\ answers' = answers /\ links' = links
    BY DEF gameVars, wireVars
  <2> QED BY <1>1, <2>1, <2>3, <2>4 DEF GameType
<1>5. ASSUME NEW q \in Guests
      PROVE  SlotInv(q)'
  <2>1. q \in Slots /\ SlotInv(q)
    BY CrossplayAssumption DEF CrossInv, Slots
  <2>2. PeerKept(peers[q], peers'[q])
    BY <1>1, <2>1, TickKeeps, OthersKept, DepartureKeeps
  <2>3. /\ clients'[q] = clients[q] /\ guests'[q] = guests[q] /\ turn'[q] = turn[q]
        /\ wire'[q] = wire[q] /\ answers'[q] = answers[q] /\ links'[q] = links[q]
    BY DEF gameVars, wireVars
  <2> QED BY <1>1, <1>2, <1>3, <1>4, <2>1, <2>2, <2>3, OtherKept
<1> QED BY <1>3, <1>4, <1>5 DEF CrossInv

\* What a slot played freely asks.
LEMMA RivalRequest ==
    ASSUME DuelTypeOK, NEW s \in Slots
    PROVE  /\ [map |-> TRUE, epoch |-> 0, inputs |-> <<>>] \in Request
           /\ [map |-> TRUE, epoch |-> peers[s].epoch, inputs |-> <<>>] \in Request
<1>1. peers[s].epoch \in Nat
  BY DuelAssumption DEF DuelTypeOK
<1> QED BY <1>1, EmptySeq DEF Request

\* CrossInv holds at first.
LEMMA CrossInitial == Init => CrossInv
<1> SUFFICES ASSUME Init
             PROVE  CrossInv
  OBVIOUS
<1>1. OrderInv
  BY OrderInitial DEF Init
<1>2. PICK map \in [Guests -> BOOLEAN] : clients = [s \in Guests |-> NewClient(map[s])]
  BY DEF Init
<1>3. ASSUME NEW s \in Guests
      PROVE  /\ map[s] \in BOOLEAN /\ clients[s] = NewClient(map[s]) /\ guests[s] = NewGuest
             /\ turn[s] = "tick" /\ wire[s] = <<>> /\ answers[s] = None /\ links[s] = NewLink
  BY <1>2 DEF Init
<1>4. GameType
  <2>1. NewGuest \in GuestRecord /\ <<>> \in Seq(Sendings) /\ NewLink \in LinkRecord
    <3>1. 0 \in 0 .. TIMEOUT
      BY CrossplayAssumption
    <3> QED BY <3>1, EmptySeq DEF NewGuest, GuestRecord, NewLink, LinkRecord
  <2>2. \A s \in Guests : NewClient(map[s]) \in ClientRecord
    BY NewClientType
  <2>3. Len(<<>>) <= MAX_WIRE /\ Len(NewLink.lost) <= 0
    BY CrossplayAssumption DEF NewLink
  <2> QED BY <1>2, <1>3, <2>1, <2>2, <2>3, NoneIsNoSnapshot DEF Init, GameType
<1>5. ASSUME NEW s \in Guests
      PROVE  SlotInv(s)
  <2>1. Sent(<<>>, NewLink) = {}
    BY DEF Sent, NewLink, Range
  <2>2. RequestsFit({}, clients[s], peers[s], generation)
    BY DEF RequestsFit
  <2>3. map[s] \in BOOLEAN /\ {} \subseteq {}
    BY <1>3
  <2> DEFINE c == NewClient(map[s])
  <2>4. /\ ClientFits(c, peers[s], tick, round) /\ RequestsFit({}, c, peers[s], generation)
        /\ NamesFit(c, peers[s], {}) /\ AnswerFits(None, c, peers[s], <<>>, NewLink, tick, round)
        /\ PendingFits(c, NewGuest, "tick", peers[s], <<>>, NewLink, tick, round)
        /\ ExchangeFits(c, NewGuest, <<>>, None) /\ ShownFits(c, NewGuest, "tick")
    BY <2>2, <2>3, NewClientFits
  <2> QED BY <1>3, <2>1, <2>4 DEF SlotInv, RoomFits, GameFits
<1> QED BY <1>1, <1>4, <1>5 DEF CrossInv

\* Every step keeps CrossInv.
LEMMA CrossInductive == CrossInv /\ [Next]_vars => CrossInv'
<1> SUFFICES ASSUME CrossInv, [Next]_vars
             PROVE  CrossInv'
  OBVIOUS
<1>0. DuelTypeOK
  BY DEF CrossInv, OrderInv, QueueInv
<1>1. CASE RoomStep
  <2>1. Step /\ UNCHANGED <<gameVars, wireVars, faults>>
    BY <1>1 DEF RoomStep
  <2> QED BY <2>1, FreeStep
<1>2. ASSUME NEW s \in Guests,
             \/ Tick(s) \/ Frame(s)
             \/ Skip(s) \/ Serve(s) \/ Break(s) \/ FailOver(s) \/ ServeLate(s) \/ Hangup(s)
             \/ Close(s) \/ Restart(s)
      PROVE  CrossInv'
  BY <1>2, SlotStep
<1>3. ASSUME NEW s \in Slots \ Guests, RivalJoins(s) \/ RivalWaits(s) \/ RivalLeaves(s)
      PROVE  CrossInv'
  <2>1. CASE RivalJoins(s)
    <3>1. /\ Join(s, [map |-> TRUE, epoch |-> 0, inputs |-> <<>>])
          /\ UNCHANGED <<gameVars, wireVars, faults>>
      BY <2>1 DEF RivalJoins
    <3>2. \E req \in Request : Exchange(s, req)
      BY <1>0, <3>1, RivalRequest DEF Exchange
    <3> QED BY <3>1, <3>2, FreeStep
  <2>2. CASE RivalWaits(s)
    <3>1. /\ Accept(s, [map |-> TRUE, epoch |-> peers[s].epoch, inputs |-> <<>>])
          /\ UNCHANGED <<gameVars, wireVars, faults>>
      BY <2>2 DEF RivalWaits
    <3>2. \E req \in Request : Exchange(s, req)
      BY <1>0, <3>1, RivalRequest DEF Exchange
    <3> QED BY <3>1, <3>2, FreeStep
  <2>3. CASE RivalLeaves(s)
    <3>1. Disconnect(s) /\ UNCHANGED <<gameVars, wireVars>> /\ faults' = faults + 1
      BY <2>3 DEF RivalLeaves, Fault
    <3> QED BY <3>1, FreeStep
  <2> QED BY <1>3, <2>1, <2>2, <2>3
<1>4. CASE UNCHANGED vars
  <2>1. UNCHANGED duelVars /\ UNCHANGED gameVars /\ UNCHANGED wireVars /\ faults' = faults
    BY <1>4 DEF vars
  <2>2. OrderInv'
    BY <2>1, OrderInductive DEF CrossInv
  <2>3. GameType' /\ \A s \in Guests : SlotInv(s)'
    <3>1. /\ tick' = tick /\ round' = round /\ generation' = generation /\ peers' = peers
          /\ clients' = clients /\ guests' = guests /\ turn' = turn /\ turns' = turns
          /\ wire' = wire /\ answers' = answers /\ links' = links /\ faults' = faults
      BY <2>1 DEF duelVars, gameVars, wireVars
    <3>2. GameType'
      BY <3>1 DEF CrossInv, GameType
    <3>3. ASSUME NEW s \in Guests
          PROVE  SlotInv(s)'
      <4>1. PeerKept(peers[s], peers'[s]) /\ DuelTypeOK' /\ SlotInv(s) /\ GameType
        BY <2>2, <3>1 DEF PeerKept, OrderInv, QueueInv, CrossInv
      <4> QED BY <1>0, <2>1, <3>1, <3>2, <4>1, OtherKept
    <3> QED BY <3>2, <3>3
  <2> QED BY <2>2, <2>3 DEF CrossInv
<1> QED BY <1>1, <1>2, <1>3, <1>4 DEF Next

-----------------------------------------------------------------------------
(* Types, sessions and exchanges.                                            *)

\* In every state every field of the room, the games, the worker and the
\* connections has its shape, and no more connections are lost than faults
\* happened.
THEOREM CrossTypeCorrect == Spec => []TypeOK
<1>1. CrossInv => TypeOK
  <2> SUFFICES ASSUME CrossInv
               PROVE  TypeOK
    OBVIOUS
  <2>1. DuelTypeOK /\ GameType
    BY DEF CrossInv, OrderInv, QueueInv
  <2>2. ASSUME NEW s \in Guests
        PROVE  ClientType(clients[s])
    <3>1. clients[s] \in ClientRecord
      BY <2>1 DEF GameType
    <3>2. \A k \in DOMAIN clients[s].history : clients[s].history[k] \in Input
      <4>1. clients[s].history \in Seq(Input)
        BY <3>1 DEF ClientRecord
      <4> QED BY <4>1, LenProperties
    <3> QED BY <3>1, <3>2 DEF ClientRecord, ClientType
  <2>3. ASSUME NEW s \in Guests
        PROVE  /\ guests[s].ticket \in BOOLEAN /\ guests[s].failed \in BOOLEAN
               /\ guests[s].waited \in 0 .. TIMEOUT
               /\ turn[s] \in {"tick", "frame"}
               /\ Len(wire[s]) <= MAX_WIRE
               /\ answers[s] = None \/ answers[s].error # NoError \/ answers[s] \in Snapshot
               /\ links[s].closed \in BOOLEAN /\ Len(links[s].lost) <= faults
    BY <2>1, SlotTypes DEF GameType, GuestRecord
  <2> QED BY <2>1, <2>2, <2>3 DEF TypeOK
<1> QED BY <1>1, CrossInitial, CrossInductive, PTL DEF Spec

\* What the invariant says of a slot.
LEMMA SlotFits ==
    ASSUME CrossInv, NEW s \in Guests
    PROVE  /\ DuelTypeOK /\ GameType /\ OrderInv /\ s \in Slots
           /\ clients[s] \in ClientRecord /\ peers[s] \in Session /\ wire[s] \in Seq(Sendings)
           /\ ClientFits(clients[s], peers[s], tick, round)
           /\ RequestsFit(OnTheWay(s), clients[s], peers[s], generation)
           /\ NamesFit(clients[s], peers[s], OnTheWay(s))
           /\ AnswerFits(answers[s], clients[s], peers[s], wire[s], links[s], tick, round)
           /\ PendingFits(clients[s], guests[s], turn[s], peers[s], wire[s], links[s], tick, round)
           /\ ExchangeFits(clients[s], guests[s], wire[s], answers[s])
           /\ ShownFits(clients[s], guests[s], turn[s])
<1>1. /\ OrderInv /\ GameType /\ SlotInv(s) /\ DuelTypeOK
  BY DEF CrossInv, OrderInv, QueueInv
<1>2. OnTheWay(s) = Sent(wire[s], links[s])
  BY DEF OnTheWay, Sent
<1> QED BY <1>1, <1>2, SlotTypes DEF SlotInv, RoomFits, GameFits

\* The script's ticket is the request it waits for, or its answer.
LEMMA TicketCounts ==
    ASSUME CrossInv, NEW s \in Guests
    PROVE  LET waitedFor == {k \in DOMAIN wire[s] : wire[s][k].current} IN
           IF guests[s].ticket THEN Cardinality(waitedFor) + (IF answers[s] = None THEN 0 ELSE 1) = 1
           ELSE waitedFor = {} /\ answers[s] = None
<1> DEFINE g == guests[s]
           w == wire[s]
           a == answers[s]
           waitedFor == {k \in DOMAIN w : w[k].current}
<1>0. w \in Seq(Sendings) /\ ExchangeFits(clients[s], g, w, a)
  BY SlotFits
<1> HIDE DEF g, w, a
<1> SUFFICES IF g.ticket THEN Cardinality(waitedFor) + (IF a = None THEN 0 ELSE 1) = 1
             ELSE waitedFor = {} /\ a = None
  BY DEF g, w, a
<1>1. /\ \A k \in DOMAIN w : w[k].current => k = Len(w)
      /\ g.ticket <=> Awaited(w) \/ a # None
      /\ ~(Awaited(w) /\ a # None)
  BY <1>0, Zenon DEF ExchangeFits
<1>2. PICK n \in Nat : Len(w) = n /\ DOMAIN w = 1 .. n /\ (w # <<>> => n \in 1 .. n)
  <2>1. Len(w) \in Nat /\ DOMAIN w = 1 .. Len(w) /\ (w # <<>> => Len(w) # 0)
    BY <1>0, LenProperties, EmptySeq
  <2>2. w # <<>> => Len(w) \in 1 .. Len(w)
    BY <2>1
  <2> QED BY <2>1, <2>2
<1>3. CASE Awaited(w)
  <2>1. waitedFor = {n}
    <3>1. w[n].current /\ n \in DOMAIN w
      BY <1>2, <1>3, Zenon DEF Awaited
    <3> QED BY <1>1, <1>2, <3>1, Zenon
  <2>2. Cardinality(waitedFor) = 1
    BY <2>1, FS_Singleton
  <2>3. g.ticket /\ a = None
    BY <1>1, <1>3, Zenon
  <2> HIDE DEF waitedFor
  <2> QED BY <2>2, <2>3 DEF waitedFor
<1>4. CASE ~Awaited(w)
  <2>1. waitedFor = {}
    <3>1. ASSUME NEW k \in waitedFor
          PROVE  FALSE
      <4>1. k = n /\ w[n].current /\ w # <<>>
        <5>1. k \in DOMAIN w /\ w[k].current
          BY <3>1, Zenon
        <5>2. w # <<>>
          BY <5>1
        <5> QED BY <1>1, <1>2, <5>1, <5>2, Zenon
      <4> QED BY <1>2, <1>4, <4>1, Zenon DEF Awaited
    <3> QED BY <3>1
  <2>2. Cardinality(waitedFor) = 0
    BY <2>1, FS_EmptySet
  <2>3. g.ticket <=> a # None
    BY <1>1, <1>4, Zenon
  <2>4. CASE a = None
    BY <2>1, <2>3, <2>4, Zenon
  <2>5. CASE a # None
    <3>1. g.ticket
      BY <2>3, <2>5, Zenon
    <3> HIDE DEF waitedFor
    <3> QED BY <2>2, <2>5, <3>1 DEF waitedFor
  <2> QED BY <2>4, <2>5
<1> QED BY <1>3, <1>4

\* The script has one exchange at a time, in the session the room holds, and its
\* client rejects no snapshot of that session.
THEOREM AnswersCorrect == Spec => []OwnAnswersTaken
<1>1. CrossInv => OwnAnswersTaken
  <2> SUFFICES ASSUME CrossInv
               PROVE  OwnAnswersTaken
    OBVIOUS
  <2>1. ASSUME NEW s \in Guests, answers[s].error = NoError, InSession(s)
        PROVE  Acceptable(clients[s], answers[s])
    <3>1. SnapshotFits(answers[s], clients[s], peers[s], tick, round)
      BY <2>1, SlotFits DEF AnswerFits
    <3>2. clients[s].epoch # 0 /\ clients[s].epoch = peers[s].epoch /\ peers[s].received < clients[s].next
      BY <2>1, SlotFits DEF InSession, ClientFits
    <3> QED BY <3>1, <3>2 DEF SnapshotFits, Acceptable
  <2>2. SessionIsCurrent
    BY SlotFits DEF SessionIsCurrent, ClientFits
  <2>3. TicketIsTheExchange
    <3> SUFFICES ASSUME NEW s \in Guests
                 PROVE  LET waitedFor == {k \in DOMAIN wire[s] : wire[s][k].current}
                        IN  IF guests[s].ticket
                            THEN Cardinality(waitedFor) + (IF answers[s] = None THEN 0 ELSE 1) = 1
                            ELSE waitedFor = {} /\ answers[s] = None
      BY DEF TicketIsTheExchange
    <3> QED BY TicketCounts
  <2> QED BY <2>1, <2>2, <2>3 DEF OwnAnswersTaken, OwnSnapshotsAccepted, ExchangeKept
<1> QED BY <1>1, CrossInitial, CrossInductive, PTL DEF Spec

\* A live round is shown only while snapshots keep coming, and a client of
\* another map never plays and never asks again.
THEOREM PlayCorrect == Spec => []PlaysWhatItHears
<1>1. CrossInv => PlaysWhatItHears
  <2> SUFFICES ASSUME CrossInv
               PROVE  PlaysWhatItHears
    OBVIOUS
  <2>1. LiveOnlyWhileHeard
    BY SlotFits DEF LiveOnlyWhileHeard, ShownFits
  <2>2. MismatchStaysOut
    BY SlotFits DEF MismatchStaysOut, ShownFits, ClientFits
  <2> QED BY <2>1, <2>2 DEF PlaysWhatItHears
<1> QED BY <1>1, CrossInitial, CrossInductive, PTL DEF Spec

-----------------------------------------------------------------------------
(* Nothing a client has learned goes back.                                   *)

\* A tick of a client that stays in its session learns or keeps what it knows.
LEMMA TickLearns ==
    ASSUME CrossInv, NEW s \in Guests, NEW fire \in BOOLEAN
    PROVE  LET c == clients[s]  t == ClientTick(c, fire) IN
           c.epoch # 0 /\ t.epoch = c.epoch =>
             t.tick >= c.tick /\ t.received >= c.received /\ t.round >= c.round
<1> DEFINE c == clients[s]
           p == peers[s]
<1>1. /\ c \in ClientRecord /\ p \in Session /\ ClientFits(c, p, tick, round)
      /\ tick \in 0 .. MAX_TICK /\ round \in Nat
      /\ c.blocked => ~c.map
      /\ c.pending # None => SnapshotFits(c.pending, c, p, tick, round) /\ c.pending.received < c.next
  BY SlotFits, SlotTypes DEF ShownFits, PendingFits
<1> HIDE DEF c, p
<1>2. c.epoch # 0 =>
        /\ Adopt(c).tick >= c.tick /\ Adopt(c).received >= c.received /\ Adopt(c).round >= c.round
  BY <1>1, AdoptFits
<1>3. ClientTick(c, fire).epoch # 0 =>
        /\ ClientTick(c, fire).tick = Adopt(c).tick
        /\ ClientTick(c, fire).received = Adopt(c).received
        /\ ClientTick(c, fire).round = Adopt(c).round
  BY <1>1, TickFits
<1> QED BY <1>2, <1>3 DEF c

\* An answer received changes nothing the client has learned.
LEMMA ReceiveLearnsLater ==
    ASSUME NEW c \in ClientRecord, NEW a
    PROVE  /\ Receive(c, a).tick = c.tick /\ Receive(c, a).received = c.received
           /\ Receive(c, a).round = c.round
           /\ Fail(c).tick = c.tick /\ Fail(c).received = c.received /\ Fail(c).round = c.round
<1>1. /\ Fail(c).tick = c.tick /\ Fail(c).received = c.received /\ Fail(c).round = c.round
  BY DEF Fail, ClientRecord
<1>2. Receive(c, a) \in {[c EXCEPT !.blocked = TRUE, !.status = "MAP MISMATCH", !.history = <<>>],
                         Fail(c), [c EXCEPT !.pending = a], c}
  BY DEF Receive
<1> QED BY <1>1, <1>2 DEF ClientRecord

\* Within a session the server's time, the number received and the round a client
\* knows never go back, whatever is lost, delayed or given up.
THEOREM LearningCorrect == Spec => ClientNeverGoesBack
<1>1. CrossInv /\ [Next]_vars =>
        (\A s \in Guests :
           clients[s].epoch # 0 /\ clients'[s].epoch = clients[s].epoch =>
             /\ clients'[s].tick >= clients[s].tick
             /\ clients'[s].received >= clients[s].received
             /\ clients'[s].round >= clients[s].round)
  <2> SUFFICES ASSUME CrossInv, [Next]_vars, NEW s \in Guests,
                      clients[s].epoch # 0, clients'[s].epoch = clients[s].epoch
               PROVE  /\ clients'[s].tick >= clients[s].tick
                      /\ clients'[s].received >= clients[s].received
                      /\ clients'[s].round >= clients[s].round
    OBVIOUS
  <2>1. /\ clients[s] \in ClientRecord /\ GameType /\ s \in Slots
        /\ clients[s].tick \in Nat /\ clients[s].received \in Nat /\ clients[s].round \in Nat
    BY SlotFits, DuelAssumption DEF ClientRecord
  <2>2. ASSUME clients'[s] = clients[s]
        PROVE  /\ clients'[s].tick >= clients[s].tick
               /\ clients'[s].received >= clients[s].received
               /\ clients'[s].round >= clients[s].round
    BY <2>1, <2>2
  <2>3. ASSUME NEW q \in Guests, Tick(q)
        PROVE  /\ clients'[s].tick >= clients[s].tick
               /\ clients'[s].received >= clients[s].received
               /\ clients'[s].round >= clients[s].round
    <3>1. CASE q = s
      <4>1. PICK fire \in Triggers, sends \in BOOLEAN : TickLeaves(s, fire, sends)
        BY <2>3, <3>1 DEF Tick, TickLeaves
      <4>2. clients'[s] = ClientTick(clients[s], fire) /\ fire \in BOOLEAN
        BY <2>1, <4>1, CrossplayAssumption DEF TickLeaves, GameType
      <4> QED BY <4>2, TickLearns
    <3>2. CASE q # s
      BY <2>1, <2>2, <2>3, <3>2, GameAlone DEF Alone
    <3> QED BY <3>1, <3>2
  <2>4. ASSUME NEW q \in Guests, Frame(q)
        PROVE  /\ clients'[s].tick >= clients[s].tick
               /\ clients'[s].received >= clients[s].received
               /\ clients'[s].round >= clients[s].round
    <3>1. CASE q = s
      <4>1. PICK called \in BOOLEAN :
              LET c == IF guests[s].failed THEN Fail(clients[s]) ELSE clients[s]
              IN  clients' = [clients EXCEPT ![s] = IF called THEN Receive(c, answers[s]) ELSE c]
        BY <2>4, <3>1 DEF Frame
      <4> DEFINE c == IF guests[s].failed THEN Fail(clients[s]) ELSE clients[s]
      <4>2. /\ c \in ClientRecord /\ c.tick = clients[s].tick /\ c.received = clients[s].received
            /\ c.round = clients[s].round
        BY <2>1, FailKeeps DEF SameSession
      <4>3. clients'[s] = IF called THEN Receive(c, answers[s]) ELSE c
        BY <2>1, <4>1 DEF GameType
      <4> HIDE DEF c
      <4>4. /\ clients'[s].tick = clients[s].tick /\ clients'[s].received = clients[s].received
            /\ clients'[s].round = clients[s].round
        BY <4>2, <4>3, ReceiveLearnsLater
      <4> QED BY <2>1, <4>4
    <3>2. CASE q # s
      BY <2>1, <2>2, <2>4, <3>2, GameAlone DEF Alone
    <3> QED BY <3>1, <3>2
  <2>5. ASSUME NEW q \in Guests, Restart(q)
        PROVE  clients'[s] = clients[s]
    <3>1. CASE q = s
      <4>1. PICK map \in BOOLEAN : clients' = [clients EXCEPT ![s] = NewClient(map)]
        BY <2>5, <3>1 DEF Restart
      <4>2. clients'[s].epoch = 0
        BY <2>1, <4>1, NewClientType DEF GameType
      <4> QED BY <4>2
    <3>2. CASE q # s
      BY <2>1, <2>5, <3>2, GameAlone DEF Alone
    <3> QED BY <3>1, <3>2
  <2>6. ASSUME NEW q \in Guests,
               \/ Skip(q) \/ Serve(q) \/ Break(q) \/ FailOver(q) \/ ServeLate(q) \/ Hangup(q)
               \/ Close(q)
        PROVE  clients'[s] = clients[s]
    BY <2>6 DEF Skip, Serve, Break, FailOver, ServeLate, Hangup, Close, gameVars
  <2>7. ASSUME RoomStep \/ \E q \in Slots \ Guests : RivalJoins(q) \/ RivalWaits(q) \/ RivalLeaves(q)
        PROVE  clients'[s] = clients[s]
    BY <2>7 DEF RoomStep, RivalJoins, RivalWaits, RivalLeaves, gameVars
  <2>8. ASSUME UNCHANGED vars
        PROVE  clients'[s] = clients[s]
    BY <2>8 DEF vars, gameVars
  <2> QED BY <2>2, <2>3, <2>4, <2>5, <2>6, <2>7, <2>8 DEF Next
<1> QED BY <1>1, CrossInitial, CrossInductive, PTL DEF Spec, ClientNeverGoesBack

-----------------------------------------------------------------------------
(* The room in the whole.                                                    *)

\* With its clients, the worker and the connections around it, the room behaves
\* as the authority alone: what holds of it under any requests holds here.
THEOREM RoomRefined == Spec => DuelSpec
<1>1. Init => DuelInit
  BY DEF Init
<1>2. CrossInv /\ [Next]_vars => [DuelNext]_duelVars
  <2> SUFFICES ASSUME CrossInv, [Next]_vars
               PROVE  [DuelNext]_duelVars
    OBVIOUS
  <2>1. CASE RoomStep
    BY <2>1 DEF RoomStep, DuelNext
  <2>2. ASSUME NEW s \in Guests,
               \/ Tick(s) \/ Frame(s)
               \/ Skip(s) \/ Serve(s) \/ Break(s) \/ FailOver(s) \/ ServeLate(s) \/ Hangup(s)
               \/ Close(s) \/ Restart(s)
        PROVE  [DuelNext]_duelVars
    <3>1. OrderInv /\ GameType /\ SlotInv(s) /\ s \in Slots
      BY SlotFits DEF CrossInv
    <3>2. \/ UNCHANGED duelVars
          \/ \E req \in Request : Exchange(s, req)
          \/ Disconnect(s)
      BY <2>2, <3>1, RoomActs
    <3> QED BY <3>1, <3>2 DEF DuelNext
  <2>3. ASSUME NEW s \in Slots \ Guests, RivalJoins(s) \/ RivalWaits(s) \/ RivalLeaves(s)
        PROVE  [DuelNext]_duelVars
    <3>1. DuelTypeOK
      BY DEF CrossInv, OrderInv, QueueInv
    <3>2. CASE RivalJoins(s)
      <4>1. Exchange(s, [map |-> TRUE, epoch |-> 0, inputs |-> <<>>])
        BY <3>2 DEF RivalJoins, Exchange
      <4> QED BY <3>1, <4>1, RivalRequest DEF DuelNext
    <3>3. CASE RivalWaits(s)
      <4>1. Exchange(s, [map |-> TRUE, epoch |-> peers[s].epoch, inputs |-> <<>>])
        BY <3>3 DEF RivalWaits, Exchange
      <4> QED BY <3>1, <4>1, RivalRequest DEF DuelNext
    <3>4. CASE RivalLeaves(s)
      BY <3>4 DEF RivalLeaves, DuelNext
    <3> QED BY <2>3, <3>2, <3>3, <3>4
  <2>4. CASE UNCHANGED vars
    BY <2>4 DEF vars
  <2> QED BY <2>1, <2>2, <2>3, <2>4 DEF Next
<1> QED BY <1>1, <1>2, CrossInitial, CrossInductive, PTL DEF Spec, DuelSpec

-----------------------------------------------------------------------------
(* Every input reaches the room once, as itself.                             *)

\* A run, and after it the run that begins where it ends.
LEMMA RunsJoin ==
    ASSUME NEW front \in Seq(Input), NEW back \in Seq(Input), NEW base \in Nat, NEW next \in Nat,
           \A k \in DOMAIN front : front[k].seq = base + k,
           Numbered(back, next), next = base + Len(front)
    PROVE  /\ Len(front \o back) = Len(front) + Len(back)
           /\ \A k \in DOMAIN (front \o back) : (front \o back)[k].seq = base + k
<1> DEFINE stream == front \o back
<1>1. PICK m \in Nat : Len(front) = m /\ DOMAIN front = 1 .. m
  BY LenProperties
<1>2. PICK n \in Nat : Len(back) = n /\ DOMAIN back = 1 .. n
  BY LenProperties
<1>3. /\ stream \in Seq(Input) /\ Len(stream) = Len(front) + Len(back)
      /\ \A k \in 1 .. Len(front) + Len(back) :
           stream[k] = IF k <= Len(front) THEN front[k] ELSE back[k - Len(front)]
  BY ConcatProperties
<1> HIDE DEF stream
<1>4. /\ Len(stream) = m + n /\ DOMAIN stream = 1 .. m + n
      /\ \A k \in 1 .. m + n : stream[k] = IF k <= m THEN front[k] ELSE back[k - m]
  BY <1>1, <1>2, <1>3, LenProperties
<1>5. ASSUME NEW k \in 1 .. m + n
      PROVE  stream[k].seq = base + k
  <2>1. CASE k <= m
    <3>1. k \in DOMAIN front /\ stream[k] = front[k]
      BY <1>1, <1>4, <2>1
    <3> QED BY <3>1
  <2>2. CASE k > m
    <3>1. k - m \in 1 .. n /\ ~(k <= m)
      BY <1>1, <1>2, <2>2
    <3>2. stream[k] = back[k - m] /\ k - m \in DOMAIN back
      BY <1>2, <1>4, <3>1
    <3>3. stream[k].seq = next + (k - m)
      BY <3>2 DEF Numbered
    <3>4. next + (k - m) = base + k
      BY <1>1, <3>1
    <3> QED BY <3>3, <3>4
  <2> QED BY <1>1, <2>1, <2>2
<1> QED BY <1>1, <1>2, <1>4, <1>5 DEF stream

\* In a session the history above what the room has received is the run of
\* numbers from there to the last one captured.
LEMMA HistoryAfter ==
    ASSUME NEW c \in ClientRecord, NEW p \in Session, NEW now, NEW rounds,
           ClientFits(c, p, now, rounds), c.epoch # 0
    PROVE  LET rest == After(c.history, p.received) IN
           /\ rest \in Seq(Input) /\ Len(rest) = c.next - 1 - p.received
           /\ Numbered(rest, p.received)
<1> DEFINE rest == After(c.history, p.received)
           base == Dropped(c)
<1>1. /\ c.history \in Seq(Input) /\ c.next \in Nat /\ p.received \in Nat
      /\ Numbered(c.history, base) /\ base <= p.received /\ p.received < c.next
  BY DEF ClientRecord, Session, ClientFits
<1>2. PICK l \in Nat : Len(c.history) = l
  BY <1>1, LenProperties
<1>3. base \in Nat /\ base = c.next - 1 - l
  BY <1>1, <1>2 DEF Numbered, Dropped
<1> HIDE DEF base
<1>4. /\ rest \in Seq(Input)
      /\ Numbered(rest, base + Len(c.history) - Len(rest))
      /\ Len(rest) = IF p.received <= base THEN Len(c.history)
                     ELSE IF p.received - base <= Len(c.history)
                          THEN base + Len(c.history) - p.received ELSE 0
  BY <1>1, <1>3, AfterNumbered
<1> HIDE DEF rest
<1>5. Len(rest) = c.next - 1 - p.received
  BY <1>1, <1>2, <1>3, <1>4
<1>6. base + Len(c.history) - Len(rest) = p.received
  BY <1>1, <1>2, <1>3, <1>5
<1> QED BY <1>4, <1>5, <1>6 DEF rest

\* Whatever is lost, delayed or repeated, in a session a number names one input
\* wherever it is kept, and what the room has queued and what the client has
\* still to send join up into one run.
THEOREM InputsCorrect == Spec => []InputsKept
<1>1. CrossInv => NumbersNameOneInput
  BY SlotFits DEF NumbersNameOneInput, NamesFit, InSession
<1>2. CrossInv => StreamUnbroken
  <2> SUFFICES ASSUME CrossInv, NEW s \in Guests, InSession(s), peers[s].connected
               PROVE  LET stream == peers[s].input \o After(clients[s].history, peers[s].received)
                      IN  /\ Len(stream) = clients[s].next - 1 - peers[s].ack
                          /\ \A k \in DOMAIN stream : stream[k].seq = peers[s].ack + k
    BY DEF StreamUnbroken
  <2> DEFINE c == clients[s]
             p == peers[s]
             rest == After(c.history, p.received)
  <2>1. /\ c \in ClientRecord /\ p \in Session /\ ClientFits(c, p, tick, round) /\ c.epoch # 0
        /\ OrderInv /\ s \in Slots
    BY SlotFits DEF InSession
  <2>2. rest \in Seq(Input) /\ Len(rest) = c.next - 1 - p.received /\ Numbered(rest, p.received)
    BY <2>1, HistoryAfter
  <2>3. Len(p.input) = p.received - p.ack /\ \A k \in DOMAIN p.input : p.input[k].seq = p.ack + k
    BY <2>1 DEF OrderInv, QueueInv, QueueIsUnexecutedRun
  <2>4. p.input \in Seq(Input) /\ p.ack \in Nat /\ p.received \in Nat /\ c.next \in Nat
    BY <2>1 DEF Session, ClientRecord
  <2> HIDE DEF c, p, rest
  <2>5. p.received = p.ack + Len(p.input)
    BY <2>3, <2>4, LenProperties
  <2>6. /\ Len(p.input \o rest) = Len(p.input) + Len(rest)
        /\ \A k \in DOMAIN (p.input \o rest) : (p.input \o rest)[k].seq = p.ack + k
    BY <2>2, <2>3, <2>4, <2>5, RunsJoin
  <2>7. Len(p.input \o rest) = c.next - 1 - p.ack
    <3>1. Len(p.input \o rest) = (p.received - p.ack) + (c.next - 1 - p.received)
      BY <2>2, <2>3, <2>6
    <3>2. (p.received - p.ack) + (c.next - 1 - p.received) = c.next - 1 - p.ack
      BY <2>4
    <3> QED BY <3>1, <3>2
  <2> QED BY <2>6, <2>7 DEF c, p, rest
<1> QED BY <1>1, <1>2, CrossInitial, CrossInductive, PTL DEF Spec, InputsKept

-----------------------------------------------------------------------------
(* The room never finds fault with a client.                                 *)

\* What each error says of the request and the room.
LEMMA ErrorMeans ==
    ASSUME NEW s \in Slots, NEW req \in Request
    PROVE  /\ Error(s, req) = "invalid input batch" => BadBatch(req)
           /\ Error(s, req) = "join cannot contain input" => req.epoch = 0 /\ req.inputs # <<>>
           /\ Error(s, req) = "input gap" =>
                /\ req.epoch # 0 /\ req.epoch = peers[s].epoch
                /\ ~GapFree(peers[s].received, req.inputs)
           /\ Error(s, req) = "input queue full" =>
                /\ req.epoch # 0 /\ req.epoch = peers[s].epoch /\ peers[s].connected
                /\ Len(peers[s].input) + FreshCount(peers[s].received, req.inputs) > HISTORY
BY Zenon DEF Error, NoError

\* A run that begins no later than what the room expects leaves no gap.
LEMMA RunIsGapFree ==
    ASSUME NEW inputs \in Seq(Input), NEW base, Numbered(inputs, base),
           NEW received \in Nat, base <= received
    PROVE  GapFree(received, inputs)
<1>1. PICK l \in Nat : Len(inputs) = l /\ DOMAIN inputs = 1 .. l
  BY LenProperties
<1>2. base \in Nat /\ \A k \in 1 .. l : inputs[k].seq = base + k
  BY <1>1 DEF Numbered
<1>3. PICK cut \in Nat : received = base + cut
  <2>1. received - base \in Nat /\ received = base + (received - base)
    BY <1>2
  <2> QED BY <2>1
<1>4. PICK m \in 0 .. l : IF cut <= l THEN m = l - cut ELSE m = 0
  <2>1. CASE cut <= l
    <3>1. l - cut \in 0 .. l
      BY <1>1, <2>1
    <3> QED BY <2>1, <3>1
  <2>2. CASE ~(cut <= l)
    <3>1. 0 \in 0 .. l
      BY <1>1
    <3> QED BY <2>2, <3>1
  <2> QED BY <2>1, <2>2
<1> DEFINE take == [i \in 1 .. m |-> cut + i]
<1>5. \A i \in 1 .. m : cut + i \in 1 .. l
  BY <1>1, <1>4
<1>6. take \in [1 .. m -> DOMAIN inputs]
  BY <1>1, <1>5
<1>7. take \in TakeChoices(inputs)
  BY <1>1, <1>6 DEF TakeChoices
<1>8. DOMAIN take = 1 .. m /\ \A i \in 1 .. m : take[i] = cut + i
  OBVIOUS
<1>9. Len(take) = m
  <2>1. take \in Seq(1 .. l) /\ m \in Nat
    BY <1>1, <1>4, <1>6
  <2> HIDE DEF take
  <2> QED BY <1>8, <2>1, LenProperties
<1> HIDE DEF take
<1>10. ASSUME NEW i \in DOMAIN take
       PROVE  /\ inputs[take[i]].seq = received + i
              /\ \A k \in 1 .. take[i] - 1 : inputs[k].seq < received + i
  <2>1. i \in 1 .. m /\ take[i] = cut + i /\ cut + i \in 1 .. l
    BY <1>5, <1>8
  <2>2. inputs[take[i]].seq = base + (cut + i)
    BY <1>2, <2>1
  <2>3. i \in Int /\ base + (cut + i) = received + i
    BY <1>2, <1>3, <2>1
  <2>4. ASSUME NEW k \in 1 .. take[i] - 1
        PROVE  inputs[k].seq < received + i
    <3>1. k \in 1 .. l /\ base + k < base + (cut + i)
      BY <1>1, <1>2, <2>1
    <3>2. inputs[k].seq = base + k
      BY <1>2, <3>1
    <3> QED BY <2>3, <3>1, <3>2
  <2> QED BY <2>2, <2>3, <2>4
<1>11. ASSUME NEW k \in DOMAIN inputs
       PROVE  inputs[k].seq <= received + Len(take)
  <2>1. k \in 1 .. l /\ inputs[k].seq = base + k
    BY <1>1, <1>2
  <2>2. base + k <= received + m
    <3>1. CASE cut <= l
      <4>1. m = l - cut
        BY <1>4, <3>1
      <4>2. received + m = base + l
        BY <1>1, <1>2, <1>3, <4>1
      <4> QED BY <1>1, <1>2, <2>1, <4>2
    <3>2. CASE ~(cut <= l)
      <4>1. m = 0
        BY <1>4, <3>2
      <4> QED BY <1>1, <1>2, <1>3, <2>1, <3>2, <4>1
    <3> QED BY <3>1, <3>2
  <2> QED BY <1>9, <2>1, <2>2
<1>12. Takes(received, inputs, take)
  BY <1>10, <1>11 DEF Takes
<1> QED BY <1>7, <1>12 DEF GapFree

\* Of a run that ends before next, no more is fresh than the numbers between what
\* the room has received and next.
LEMMA FreshBelow ==
    ASSUME NEW inputs \in Seq(Input), NEW base, Numbered(inputs, base),
           NEW received \in Nat, NEW next \in Nat, received < next,
           base + Len(inputs) < next
    PROVE  FreshCount(received, inputs) \in Nat /\ FreshCount(received, inputs) <= next - 1 - received
<1> DEFINE fresh == {k \in DOMAIN inputs : inputs[k].seq > received}
           room == received + 1 .. next - 1
           number == [k \in fresh |-> base + k]
<1>1. PICK l \in Nat : Len(inputs) = l /\ DOMAIN inputs = 1 .. l
  BY LenProperties
<1>2. base \in Nat /\ \A k \in 1 .. l : inputs[k].seq = base + k
  BY <1>1 DEF Numbered
<1>3. FreshCount(received, inputs) \in Nat /\ IsFiniteSet(fresh)
  BY FreshCountType
<1>4. \A k \in fresh : k \in 1 .. l /\ base + k \in room
  BY <1>1, <1>2
<1>5. IsFiniteSet(room) /\ Cardinality(room) = next - 1 - received
  <2>1. received + 1 \in Int /\ next - 1 \in Int
    OBVIOUS
  <2> DEFINE a == received + 1
             b == next - 1
  <2>2. a \in Int /\ b \in Int
    BY <2>1
  <2>3. IsFiniteSet(a .. b) /\ Cardinality(a .. b) = IF a > b THEN 0 ELSE b - a + 1
    <3> HIDE DEF a, b
    <3> QED BY <2>2, FS_Interval
  <2>4. (IF a > b THEN 0 ELSE b - a + 1) = next - 1 - received
    OBVIOUS
  <2> QED BY <2>3, <2>4
<1>6. number \in Injection(fresh, room)
  <2>1. number \in [fresh -> room]
    BY <1>4
  <2>2. \A i, j \in fresh : number[i] = number[j] => i = j
    BY <1>2, <1>4
  <2> HIDE DEF number
  <2> QED BY <2>1, <2>2 DEF Injection, IsInjective
<1> HIDE DEF number, room
<1>7. Cardinality(fresh) <= Cardinality(room)
  BY <1>3, <1>5, <1>6, FS_Injection
<1> QED BY <1>3, <1>5, <1>7 DEF FreshCount

\* Whatever was lost, delayed or repeated, no request on the way to the room
\* leaves a gap or carries input into a join, nor overflows the queue as long as
\* its client keeps every input not executed.
THEOREM NeverAtFaultCorrect == Spec => []ClientNeverAtFault
<1>1. CrossInv => ClientNeverAtFault
  <2> SUFFICES ASSUME CrossInv, NEW s \in Guests, NEW r \in OnTheWay(s)
               PROVE  /\ Error(s, r) \notin {"invalid input batch", "join cannot contain input",
                                             "input gap"}
                      /\ Error(s, r) = "input queue full" => ~(InSession(s) /\ KeepsUnexecuted(s))
    BY DEF ClientNeverAtFault
  <2> DEFINE c == clients[s]
             p == peers[s]
  <2>1. /\ c \in ClientRecord /\ p \in Session /\ ClientFits(c, p, tick, round)
        /\ OrderInv /\ s \in Slots /\ RequestFits(r, c, p, generation)
    BY SlotFits DEF RequestsFit
  <2>2. /\ r \in Request /\ Len(r.inputs) <= BATCH /\ Numbered(r.inputs, Before(r.inputs))
        /\ r.epoch = 0 => r.inputs = <<>>
        /\ r.epoch # 0 /\ r.epoch = p.epoch => Before(r.inputs) <= p.received
        /\ r.epoch # 0 /\ r.epoch = c.epoch => Before(r.inputs) + Len(r.inputs) < c.next
    BY <2>1 DEF RequestFits
  <2>3. /\ r.inputs \in Seq(Input) /\ p.received \in Nat /\ p.ack \in Nat /\ p.input \in Seq(Input)
        /\ c.next \in Nat /\ Len(p.input) \in Nat /\ c.history \in Seq(Input)
        /\ Len(c.history) \in Nat /\ Len(r.inputs) \in Nat
    BY <2>1, <2>2, LenProperties DEF Request, Session, ClientRecord
  <2>4. ~BadBatch(r)
    <3>1. ~(Len(r.inputs) > BATCH)
      BY <2>2, <2>3, DuelAssumption
    <3>2. \A k \in DOMAIN r.inputs : r.inputs[k].seq # 0
      <4>1. ASSUME NEW k \in DOMAIN r.inputs
            PROVE  r.inputs[k].seq # 0
        <5>1. k \in Nat \ {0} /\ Before(r.inputs) \in Nat
          BY <2>2, <2>3, LenProperties DEF Numbered
        <5>2. r.inputs[k].seq = Before(r.inputs) + k
          BY <2>2 DEF Numbered
        <5> QED BY <5>1, <5>2
      <4> QED BY <4>1
    <3> QED BY <3>1, <3>2 DEF BadBatch
  <2>5. r.epoch # 0 /\ r.epoch = p.epoch => GapFree(p.received, r.inputs)
    BY <2>2, <2>3, RunIsGapFree
  <2>6. ASSUME r.epoch # 0, r.epoch = p.epoch, p.connected, InSession(s), KeepsUnexecuted(s)
        PROVE  ~(Len(p.input) + FreshCount(p.received, r.inputs) > HISTORY)
    <3>1. c.epoch # 0 /\ c.epoch = p.epoch /\ p.received < c.next /\ Len(c.history) <= HISTORY
      BY <2>1, <2>6 DEF InSession, ClientFits
    <3>2. Len(p.input) = p.received - p.ack
      BY <2>1, <2>6 DEF OrderInv, QueueInv, QueueIsUnexecutedRun
    <3>3. Before(r.inputs) + Len(r.inputs) < c.next
      BY <2>2, <2>6, <3>1
    <3>4. /\ FreshCount(p.received, r.inputs) \in Nat
          /\ FreshCount(p.received, r.inputs) <= c.next - 1 - p.received
      BY <2>2, <2>3, <3>1, <3>3, FreshBelow
    <3>5. Len(c.history) >= c.next - 1 - p.ack
      BY <2>6 DEF KeepsUnexecuted
    <3> HIDE DEF c, p
    <3>6. PICK f \in Nat : f = FreshCount(p.received, r.inputs)
      BY <3>4
    <3>7. Len(p.input) + f <= Len(c.history)
      BY <2>3, <3>2, <3>4, <3>5, <3>6, SMTT(30)
    <3>8. Len(p.input) + f <= HISTORY
      BY <2>3, <3>1, <3>7, DuelAssumption
    <3> QED BY <2>3, <3>6, <3>8, DuelAssumption
  <2> QED BY <2>1, <2>2, <2>4, <2>5, <2>6, ErrorMeans, Zenon
<1> QED BY <1>1, CrossInitial, CrossInductive, PTL DEF Spec
=============================================================================
