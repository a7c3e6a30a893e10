----------------------------- MODULE Duel_proof -----------------------------
(***************************************************************************)
(* Proofs about the authority for every history limit, batch size, timeout *)
(* and stream of requests, and that it implements module Match.            *)
(***************************************************************************)
EXTENDS Duel, SequenceTheorems, FiniteSetTheorems, TLAPS

\* The slots are two, and each is the other's other.
LEMMA OtherSlot ==
    ASSUME NEW s \in Slots
    PROVE  /\ Other(s) \in Slots /\ Other(s) # s /\ Other(Other(s)) = s
           /\ \A p \in Slots : p = s \/ p = Other(s)
BY DEF Slots, Other

Session == [epoch : 0 .. MAX_GENERATION, last : 0 .. MAX_TICK, received : Nat, ack : Nat,
            input : Seq(Input), connected : BOOLEAN]

\* A request the environment sends has the shape of one.
LEMMA RequestShape ==
    ASSUME NEW s \in Slots, NEW req \in Request
    PROVE  /\ req.map \in BOOLEAN /\ req.epoch \in Nat /\ req.inputs \in Seq(Input)
BY DEF Request

\* A choice of fresh inputs of a batch is a sequence of its inputs.
LEMMA TakenInputs ==
    ASSUME NEW inputs \in Seq(Input), NEW take \in TakeChoices(inputs)
    PROVE  /\ Len(take) \in Nat
           /\ DOMAIN take = 1 .. Len(take)
           /\ [i \in 1 .. Len(take) |-> inputs[take[i]]] \in Seq(Input)
           /\ Len([i \in 1 .. Len(take) |-> inputs[take[i]]]) = Len(take)
<1>1. PICK n \in 0 .. Len(inputs) : take \in [1 .. n -> DOMAIN inputs]
  BY DEF TakeChoices
<1>2. Len(take) = n /\ DOMAIN take = 1 .. n
  BY <1>1
<1>3. \A i \in 1 .. n : inputs[take[i]] \in Input
  BY <1>1
<1> DEFINE taken == [i \in 1 .. Len(take) |-> inputs[take[i]]]
<1>4. taken \in [1 .. n -> Input]
  BY <1>2, <1>3
<1>5. taken \in Seq(Input) /\ Len(taken) = n
  BY <1>1, <1>4
<1> QED BY <1>1, <1>2, <1>5

-----------------------------------------------------------------------------
(* Type correctness.                                                        *)

\* A join keeps DuelTypeOK.
LEMMA JoinType ==
    ASSUME DuelTypeOK, NEW s \in Slots, NEW req \in Request, Join(s, req)
    PROVE  DuelTypeOK'
<1>1. generation # MAX_GENERATION
  BY DEF Join, Error, NoError
<1>2. generation + 1 \in 0 .. MAX_GENERATION
  BY <1>1, DuelAssumption DEF DuelTypeOK
<1>3. <<>> \in Seq(Input)
  OBVIOUS
<1>4. peers' \in [Slots -> Session]
  BY <1>2, <1>3 DEF DuelTypeOK, Join, Session, FreshPeer
<1> QED BY <1>2, <1>4 DEF DuelTypeOK, Join, Session

\* A batch keeps DuelTypeOK.
LEMMA AcceptType ==
    ASSUME DuelTypeOK, NEW s \in Slots, NEW req \in Request, Accept(s, req)
    PROVE  DuelTypeOK'
<1>1. PICK take \in TakeChoices(req.inputs) :
        peers' = [peers EXCEPT
            ![s].received = @ + Len(take),
            ![s].input = @ \o [i \in 1 .. Len(take) |-> req.inputs[take[i]]],
            ![s].last = tick]
  BY DEF Accept
<1> DEFINE taken == [i \in 1 .. Len(take) |-> req.inputs[take[i]]]
<1>2. Len(take) \in Nat /\ taken \in Seq(Input)
  BY RequestShape, TakenInputs
<1>3. peers[s].input \o taken \in Seq(Input) /\ peers[s].received + Len(take) \in Nat
  BY <1>2 DEF DuelTypeOK
<1>4. peers' \in [Slots -> Session]
  BY <1>1, <1>3, ZenonT(60) DEF DuelTypeOK, Session
<1> QED BY <1>4 DEF DuelTypeOK, Accept, Session

\* A tick keeps DuelTypeOK.
LEMMA StepType ==
    ASSUME DuelTypeOK, Step
    PROVE  DuelTypeOK'
<1>1. tick' \in 0 .. MAX_TICK /\ live' \in BOOLEAN /\ round' \in Nat
  BY DuelAssumption DEF DuelTypeOK, Step, Ready, Present, Expired
<1>2. Remaining \in 0 .. RESTART_TICKS
  BY DuelAssumption DEF DuelTypeOK, Remaining
<1>3. ASSUME NEW s \in Slots
      PROVE  /\ Queue(s) \in Seq(Input) /\ Acked(s) \in Nat
             /\ Body(s) \in [hp : 0 .. FULL_HP, alive : BOOLEAN]
  BY DuelAssumption DEF DuelTypeOK, Queue, Acked, Body, Spawned
<1>4. peers' \in [Slots -> Session]
  <2>1. ASSUME NEW s \in Slots
        PROVE  AfterInput(s) \in Session
    <3>1. Queue(s) # <<>> => Head(Queue(s)).seq \in Nat /\ Tail(Queue(s)) \in Seq(Input)
      <4>1. Queue(s) \in Seq(Input)
        BY <1>3
      <4>2. ASSUME Queue(s) # <<>>
            PROVE  Head(Queue(s)) \in Input /\ Tail(Queue(s)) \in Seq(Input)
        BY <4>1, <4>2, HeadTailProperties
      <4> QED BY <4>2 DEF Input
    <3> DEFINE stays == s \in Present
               rest == IF Queue(s) = <<>> THEN <<>> ELSE Tail(Queue(s))
               executed == IF Queue(s) = <<>> THEN Acked(s) ELSE Head(Queue(s)).seq
    <3>0. <<>> \in Seq(Input)
      OBVIOUS
    <3>2. stays \in BOOLEAN
      OBVIOUS
    <3>3. rest \in Seq(Input) /\ executed \in Nat
      BY <1>3, <3>1, <3>0
    <3>4. peers[s] \in Session
      BY DEF DuelTypeOK, Session
    <3>5. AfterInput(s) = [peers[s] EXCEPT !.connected = stays, !.input = rest, !.ack = executed]
      BY DEF AfterInput
    <3> HIDE DEF stays, rest, executed
    <3> QED BY <3>2, <3>3, <3>4, <3>5 DEF Session
  <2>2. peers' = [s \in Slots |-> AfterInput(s)]
    BY DEF Step
  <2> QED BY <2>1, <2>2
<1>5. PICK taken \in [Slots -> DAMAGES \cup {0}] :
        /\ players' = [s \in Slots |-> Damaged(s, taken)]
        /\ score' = [s \in Slots |-> IF Dies(Other(s), taken) THEN score[s] + 1 ELSE score[s]]
        /\ restart' = IF \E s \in Slots : Dies(s, taken) THEN RESTART_TICKS ELSE Remaining
  BY DEF Step
<1>6. \A s \in Slots : taken[s] \in Nat
  <2>1. \A s \in Slots : taken[s] \in DAMAGES \cup {0}
    OBVIOUS
  <2>2. DAMAGES \cup {0} \subseteq Nat
    BY DuelAssumption
  <2> QED BY <2>1, <2>2
<1>7. ASSUME NEW s \in Slots
      PROVE  Damaged(s, taken) \in [hp : 0 .. FULL_HP, alive : BOOLEAN]
  <2>1. CASE taken[s] = 0
    BY <1>3, <2>1 DEF Damaged
  <2>2. CASE taken[s] # 0
    <3> DEFINE hp == IF taken[s] < Body(s).hp THEN Body(s).hp - taken[s] ELSE 0
    <3>1. hp \in 0 .. FULL_HP /\ (hp > 0) \in BOOLEAN
      BY <1>3, <1>6, DuelAssumption
    <3>2. Damaged(s, taken) = [hp |-> hp, alive |-> hp > 0]
      BY <2>2 DEF Damaged
    <3> QED BY <3>1, <3>2
  <2> QED BY <2>1, <2>2
<1>8. players' \in [Slots -> [hp : 0 .. FULL_HP, alive : BOOLEAN]]
  BY <1>5, <1>7
<1>9. score' \in [Slots -> Nat] /\ restart' \in 0 .. RESTART_TICKS
  BY <1>2, <1>5, DuelAssumption DEF DuelTypeOK
<1> QED BY <1>1, <1>4, <1>8, <1>9 DEF DuelTypeOK, Step, Session

\* DuelTypeOK holds at first.
LEMMA TypeInitial == DuelInit => DuelTypeOK
<1>1. <<>> \in Seq(Input)
  OBVIOUS
<1>2. FreshPeer \in Session
  BY <1>1, DuelAssumption DEF FreshPeer, Session
<1>3. Spawned \in [hp : 0 .. FULL_HP, alive : BOOLEAN]
  BY DuelAssumption DEF Spawned
<1>4. DuelInit => /\ peers \in [Slots -> Session]
              /\ players \in [Slots -> [hp : 0 .. FULL_HP, alive : BOOLEAN]]
  BY <1>2, <1>3 DEF DuelInit
<1>5. /\ 0 \in 0 .. MAX_TICK /\ 0 \in 0 .. MAX_GENERATION /\ 0 \in 0 .. RESTART_TICKS
      /\ 0 \in Nat /\ FALSE \in BOOLEAN
  BY DuelAssumption
<1>6. DuelInit => score \in [Slots -> Nat]
  BY DEF DuelInit
<1> QED BY <1>4, <1>5, <1>6 DEF DuelInit, DuelTypeOK, Session

\* Every step keeps DuelTypeOK.
LEMMA TypeInductive == DuelTypeOK /\ [DuelNext]_duelVars => DuelTypeOK'
<1> SUFFICES ASSUME DuelTypeOK, [DuelNext]_duelVars
             PROVE  DuelTypeOK'
  OBVIOUS
<1>1. ASSUME NEW s \in Slots, NEW req \in Request, Exchange(s, req)
      PROVE  DuelTypeOK'
  <2>1. CASE Refuse(s, req)
    <3> DEFINE stays == live /\ Error(s, req) # "restart companion"
    <3>1. stays \in BOOLEAN
      OBVIOUS
    <3>2. live' = stays
      BY <2>1 DEF Refuse
    <3> HIDE DEF stays
    <3> QED BY <2>1, <3>1, <3>2 DEF DuelTypeOK, Refuse
  <2> QED BY <1>1, <2>1, JoinType, AcceptType DEF Exchange
<1>2. ASSUME NEW s \in Slots, Disconnect(s)
      PROVE  DuelTypeOK'
  <2>1. <<>> \in Seq(Input)
    OBVIOUS
  <2> QED BY <1>2, <2>1 DEF DuelTypeOK, Disconnect
<1>3. CASE UNCHANGED duelVars
  BY <1>3 DEF DuelTypeOK, duelVars
<1> QED BY <1>1, <1>2, <1>3, StepType DEF DuelNext

\* Every field keeps the shape the code gives it, whatever is sent.
THEOREM TypeCorrect == DuelSpec => []DuelTypeOK
BY TypeInitial, TypeInductive, PTL DEF DuelSpec

-----------------------------------------------------------------------------
(* The queue of a slot.                                                     *)

QueueInv == DuelTypeOK /\ QueueIsUnexecutedRun /\ QueueBounded

\* QueueInv holds at first.
LEMMA QueueInitial == DuelInit => QueueInv
<1>1. DuelInit => QueueIsUnexecutedRun /\ QueueBounded
  BY DuelAssumption DEF DuelInit, QueueIsUnexecutedRun, QueueBounded, FreshPeer
<1> QED BY <1>1, TypeInitial DEF QueueInv

\* The fresh inputs of a batch can be counted.
LEMMA FreshCountType ==
    ASSUME NEW received, NEW inputs \in Seq(Input)
    PROVE  /\ IsFiniteSet({k \in DOMAIN inputs : inputs[k].seq > received})
           /\ FreshCount(received, inputs) \in Nat
<1>1. DOMAIN inputs = 1 .. Len(inputs) /\ Len(inputs) \in Nat
  BY LenProperties
<1>2. IsFiniteSet(DOMAIN inputs)
  BY <1>1, FS_Interval
<1>3. IsFiniteSet({k \in DOMAIN inputs : inputs[k].seq > received})
  BY <1>2, FS_Subset
<1> QED BY <1>3, FS_CardinalityType DEF FreshCount

\* A batch that passes the queue's limit has no more fresh inputs than fit.
LEMMA FreshInputsCounted ==
    ASSUME NEW received \in Nat, NEW inputs \in Seq(Input), NEW take \in TakeChoices(inputs),
           Takes(received, inputs, take)
    PROVE  Len(take) <= FreshCount(received, inputs)
<1> DEFINE fresh == {k \in DOMAIN inputs : inputs[k].seq > received}
<1>1. Len(take) \in Nat /\ DOMAIN take = 1 .. Len(take)
  BY TakenInputs
<1>2. take \in [1 .. Len(take) -> DOMAIN inputs]
  BY <1>1 DEF TakeChoices
<1>3. \A i \in 1 .. Len(take) : inputs[take[i]].seq = received + i
  BY <1>1 DEF Takes
<1>4. take \in Injection(1 .. Len(take), fresh)
  <2>1. \A i \in 1 .. Len(take) : take[i] \in fresh
    BY <1>1, <1>2, <1>3
  <2>2. \A i, j \in 1 .. Len(take) : take[i] = take[j] => i = j
    BY <1>1, <1>3
  <2> QED BY <1>2, <2>1, <2>2 DEF Injection, IsInjective
<1>5. IsFiniteSet(fresh)
  BY FreshCountType
<1>6. Cardinality(1 .. Len(take)) = Len(take)
  <2>1. 1 \in Int /\ Len(take) \in Int
    BY <1>1
  <2>2. Cardinality(1 .. Len(take)) = IF 1 > Len(take) THEN 0 ELSE Len(take) - 1 + 1
    BY <2>1, FS_Interval, Zenon
  <2> QED BY <1>1, <2>2
<1> QED BY <1>4, <1>5, <1>6, FS_Injection DEF FreshCount

\* A batch of the current session keeps the queue a run within its limit.
LEMMA AcceptQueue ==
    ASSUME QueueInv, NEW s \in Slots, NEW req \in Request, Accept(s, req)
    PROVE  QueueIsUnexecutedRun' /\ QueueBounded'
<1>1. PICK take \in TakeChoices(req.inputs) :
        /\ Takes(peers[s].received, req.inputs, take)
        /\ peers' = [peers EXCEPT
              ![s].received = @ + Len(take),
              ![s].input = @ \o [i \in 1 .. Len(take) |-> req.inputs[take[i]]],
              ![s].last = tick]
  BY DEF Accept
<1> DEFINE p == peers[s]
           taken == [i \in 1 .. Len(take) |-> req.inputs[take[i]]]
<1>2. /\ p.received \in Nat /\ p.ack \in Nat /\ p.input \in Seq(Input) /\ Len(p.input) \in Nat
      /\ peers \in [Slots -> Session]
  BY LenProperties DEF QueueInv, DuelTypeOK, Session
<1>3. req.inputs \in Seq(Input)
  BY RequestShape
<1>4. /\ Len(take) \in Nat /\ taken \in Seq(Input) /\ Len(taken) = Len(take)
      /\ \A i \in 1 .. Len(take) : taken[i].seq = p.received + i
  BY <1>1, <1>3, TakenInputs DEF Takes
<1>5. p.connected /\ Len(p.input) + FreshCount(p.received, req.inputs) <= HISTORY
  <2>1. Error(s, req) = NoError /\ req.epoch # 0
    BY DEF Accept
  <2>2. ~(Len(p.input) + FreshCount(p.received, req.inputs) > HISTORY) /\ p.connected
    BY <2>1 DEF Error, NoError
  <2>3. FreshCount(p.received, req.inputs) \in Nat
    BY <1>3, FreshCountType
  <2> QED BY <1>2, <2>2, <2>3, DuelAssumption
<1>6. /\ Len(p.input) = p.received - p.ack
      /\ \A k \in DOMAIN p.input : p.input[k].seq = p.ack + k
  BY <1>5 DEF QueueInv, QueueIsUnexecutedRun
<1>7. /\ Len(p.input \o taken) = Len(p.input) + Len(take)
      /\ \A k \in 1 .. Len(p.input) + Len(take) : (p.input \o taken)[k].seq = p.ack + k
  <2>1. Len(p.input \o taken) = Len(p.input) + Len(take)
    BY <1>2, <1>4, ConcatProperties
  <2>2. ASSUME NEW k \in 1 .. Len(p.input) + Len(take)
        PROVE  (p.input \o taken)[k].seq = p.ack + k
    <3>1. (p.input \o taken)[k] = IF k <= Len(p.input) THEN p.input[k] ELSE taken[k - Len(p.input)]
      BY <1>2, <1>4, ConcatProperties
    <3>2. CASE k <= Len(p.input)
      BY <1>2, <1>6, <3>1, <3>2, LenProperties
    <3>3. CASE k > Len(p.input)
      <4>1. k - Len(p.input) \in 1 .. Len(take)
        BY <1>2, <1>4, <3>3
      <4>2. taken[k - Len(p.input)].seq = p.received + (k - Len(p.input))
        BY <1>4, <4>1
      <4>3. p.received + (k - Len(p.input)) = p.ack + k
        BY <1>2, <1>6
      <4>4. (p.input \o taken)[k] = taken[k - Len(p.input)]
        BY <1>2, <3>1, <3>3
      <4> QED BY <4>2, <4>3, <4>4
    <3> QED BY <1>2, <3>2, <3>3
  <2> QED BY <2>1, <2>2
<1>8. DOMAIN (p.input \o taken) = 1 .. Len(p.input) + Len(take)
  BY <1>2, <1>4, <1>7, ConcatProperties, LenProperties
<1>9. peers'[s] = [p EXCEPT !.received = @ + Len(take), !.input = @ \o taken, !.last = tick]
  BY <1>1, <1>2
<1>10. /\ peers'[s].connected = p.connected /\ peers'[s].ack = p.ack
       /\ peers'[s].received = p.received + Len(take) /\ peers'[s].input = p.input \o taken
  BY <1>2, <1>9 DEF Session
<1>11. peers'[Other(s)] = peers[Other(s)]
  BY <1>1, <1>2, OtherSlot
<1>12. Len(take) <= FreshCount(p.received, req.inputs)
  BY <1>1, <1>2, <1>3, FreshInputsCounted
<1>13. QueueIsUnexecutedRun'
  <2>1. ASSUME NEW q \in Slots, q # s
        PROVE  peers'[q] = peers[q]
    BY <1>11, <2>1, OtherSlot
  <2>2. Len(p.input \o taken) = (p.received + Len(take)) - p.ack
    BY <1>2, <1>4, <1>6, <1>7
  <2>3. /\ peers'[s].connected
        /\ Len(peers'[s].input) = peers'[s].received - peers'[s].ack
        /\ \A k \in DOMAIN peers'[s].input : peers'[s].input[k].seq = peers'[s].ack + k
    <3> DEFINE joined == p.input \o taken
    <3>1. \A k \in DOMAIN joined : joined[k].seq = p.ack + k
      BY <1>7, <1>8
    <3>2. /\ Len(joined) = (p.received + Len(take)) - p.ack /\ peers'[s].ack = p.ack
          /\ peers'[s].received = p.received + Len(take) /\ peers'[s].input = joined
      BY <1>10, <2>2
    <3>3. Len(peers'[s].input) = peers'[s].received - peers'[s].ack
      BY <3>2
    <3>4. \A k \in DOMAIN peers'[s].input : peers'[s].input[k].seq = peers'[s].ack + k
      BY <3>1, <3>2, Zenon
    <3>5. peers'[s].connected
      BY <1>5, <1>10
    <3> QED BY <3>3, <3>4, <3>5
  <2> QED BY <2>1, <2>3 DEF QueueInv, QueueIsUnexecutedRun
<1>14. QueueBounded'
  <2>1. Len(p.input) + Len(take) <= HISTORY
    <3>1. FreshCount(p.received, req.inputs) \in Nat
      BY <1>3, FreshCountType
    <3> HIDE DEF p
    <3> QED BY <1>2, <1>4, <1>5, <1>12, <3>1, DuelAssumption
  <2>2. Len(peers'[s].input) <= HISTORY
    BY <1>7, <1>10, <2>1
  <2>3. Len(peers'[Other(s)].input) <= HISTORY
    BY <1>11, OtherSlot DEF QueueInv, QueueBounded
  <2> QED BY <2>2, <2>3, OtherSlot DEF QueueBounded
<1> QED BY <1>13, <1>14

\* A tick takes the head of a queue, or discards it.
LEMMA StepQueue ==
    ASSUME QueueInv, Step
    PROVE  QueueIsUnexecutedRun' /\ QueueBounded'
<1>1. SUFFICES ASSUME NEW s \in Slots
               PROVE  /\ Len(peers'[s].input) <= HISTORY
                      /\ IF peers'[s].connected
                         THEN /\ Len(peers'[s].input) = peers'[s].received - peers'[s].ack
                              /\ \A k \in DOMAIN peers'[s].input :
                                   peers'[s].input[k].seq = peers'[s].ack + k
                         ELSE peers'[s].input = <<>>
  BY DEF QueueIsUnexecutedRun, QueueBounded
<1> DEFINE p == peers[s]
           q == Queue(s)
<1>2. /\ p.received \in Nat /\ p.ack \in Nat /\ p.input \in Seq(Input) /\ Len(p.input) \in Nat
      /\ peers \in [Slots -> Session] /\ p \in Session
  BY LenProperties DEF QueueInv, DuelTypeOK, Session
<1>3. /\ peers'[s].connected = (s \in Present) /\ peers'[s].received = p.received
      /\ peers'[s].input = (IF q = <<>> THEN <<>> ELSE Tail(q))
      /\ peers'[s].ack = (IF q = <<>> THEN Acked(s) ELSE Head(q).seq)
  BY <1>2 DEF Step, AfterInput, Session
<1>4. q = <<>> \/ (q = p.input /\ ~Resets)
  BY DEF Queue
<1>5. <<>> \in Seq(Input) /\ Len(<<>>) = 0 /\ DOMAIN <<>> = {}
  OBVIOUS
<1>6. CASE q = <<>>
  <2>1. peers'[s].input = <<>> /\ peers'[s].ack = Acked(s)
    BY <1>3, <1>6
  <2>2. ASSUME s \in Present
        PROVE  p.received - Acked(s) = 0
    <3>1. CASE Resets
      BY <1>2, <3>1 DEF Acked
    <3>2. CASE ~Resets
      <4>1. p.connected /\ p.input = <<>>
        BY <1>6, <2>2, <3>2 DEF Queue, Present
      <4>2. Len(p.input) = p.received - p.ack
        BY <4>1 DEF QueueInv, QueueIsUnexecutedRun
      <4> QED BY <1>5, <3>2, <4>1, <4>2 DEF Acked
    <3> QED BY <3>1, <3>2
  <2>3. Len(peers'[s].input) = 0 /\ DOMAIN peers'[s].input = {}
    BY <1>5, <2>1
  <2>4. 0 <= HISTORY
    BY DuelAssumption
  <2> QED BY <1>3, <2>1, <2>2, <2>3, <2>4
<1>7. CASE q # <<>>
  <2>1. q = p.input /\ ~Resets /\ p.input # <<>>
    BY <1>4, <1>7
  <2>2. p.connected
    BY <2>1 DEF QueueInv, QueueIsUnexecutedRun
  <2>3. /\ Len(p.input) = p.received - p.ack
        /\ \A k \in DOMAIN p.input : p.input[k].seq = p.ack + k
    BY <2>2 DEF QueueInv, QueueIsUnexecutedRun
  <2>4. s \in Present
    BY <1>7, <2>2 DEF Queue, Present
  <2>5. /\ Tail(p.input) \in Seq(Input) /\ Len(Tail(p.input)) = Len(p.input) - 1
        /\ \A i \in 1 .. Len(Tail(p.input)) : Tail(p.input)[i] = p.input[i + 1]
    BY <1>2, <2>1, HeadTailProperties
  <2>6. DOMAIN p.input = 1 .. Len(p.input) /\ DOMAIN Tail(p.input) = 1 .. Len(Tail(p.input))
    BY <1>2, <2>5, LenProperties
  <2>7. Len(p.input) >= 1
    BY <1>2, <2>1, <2>5, LenProperties
  <2>8. Head(p.input).seq = p.ack + 1
    BY <1>2, <2>3, <2>6, <2>7
  <2>9. /\ peers'[s].input = Tail(p.input) /\ peers'[s].ack = p.ack + 1
        /\ peers'[s].received = p.received /\ peers'[s].connected
    BY <1>3, <1>7, <2>1, <2>4, <2>8
  <2>10. Len(Tail(p.input)) = p.received - (p.ack + 1)
    BY <1>2, <2>3, <2>5
  <2>11. ASSUME NEW k \in DOMAIN Tail(p.input)
         PROVE  Tail(p.input)[k].seq = (p.ack + 1) + k
    <3>1. k + 1 \in DOMAIN p.input /\ Tail(p.input)[k] = p.input[k + 1]
      BY <1>2, <2>5, <2>6
    <3>2. p.input[k + 1].seq = p.ack + (k + 1)
      BY <2>3, <3>1
    <3> QED BY <1>2, <2>6, <3>1, <3>2
  <2>12. Len(Tail(p.input)) <= HISTORY
    BY <1>2, <2>5, DuelAssumption DEF QueueInv, QueueBounded
  <2> HIDE DEF p
  <2> QED BY <2>9, <2>10, <2>11, <2>12
<1> QED BY <1>6, <1>7

\* Every step keeps QueueInv.
LEMMA QueueInductive == QueueInv /\ [DuelNext]_duelVars => QueueInv'
<1> SUFFICES ASSUME QueueInv, [DuelNext]_duelVars
             PROVE  QueueIsUnexecutedRun' /\ QueueBounded'
  BY TypeInductive DEF QueueInv
<1>1. ASSUME NEW s \in Slots, NEW req \in Request, Exchange(s, req)
      PROVE  QueueIsUnexecutedRun' /\ QueueBounded'
  <2>1. CASE Refuse(s, req)
    BY <2>1 DEF QueueInv, QueueIsUnexecutedRun, QueueBounded, Refuse
  <2>2. CASE Join(s, req)
    <3>1. /\ peers'[s].input = <<>> /\ peers'[s].received = 0 /\ peers'[s].ack = 0
          /\ \A q \in Slots : q # s => peers'[q] = peers[q]
      BY <2>2 DEF QueueInv, DuelTypeOK, Join, FreshPeer
    <3>2. Len(<<>>) = 0 /\ DOMAIN <<>> = {} /\ 0 <= HISTORY
      BY DuelAssumption
    <3> QED BY <3>1, <3>2 DEF QueueInv, QueueIsUnexecutedRun, QueueBounded
  <2> QED BY <1>1, <2>1, <2>2, AcceptQueue DEF Exchange
<1>2. ASSUME NEW s \in Slots, Disconnect(s)
      PROVE  QueueIsUnexecutedRun' /\ QueueBounded'
  <2>1. /\ peers'[s].input = <<>> /\ ~peers'[s].connected
        /\ \A q \in Slots : q # s => peers'[q] = peers[q]
    BY <1>2 DEF QueueInv, DuelTypeOK, Disconnect
  <2>2. Len(<<>>) = 0 /\ 0 <= HISTORY
    BY DuelAssumption
  <2> QED BY <2>1, <2>2 DEF QueueInv, QueueIsUnexecutedRun, QueueBounded
<1>3. CASE UNCHANGED duelVars
  BY <1>3 DEF QueueInv, QueueIsUnexecutedRun, QueueBounded, duelVars
<1> QED BY <1>1, <1>2, <1>3, StepQueue DEF DuelNext

\* Whatever batches arrive, in whatever order, a connected slot's queue is the
\* run of numbers it has sent and the room has not executed, and it never holds
\* more than the limit.
THEOREM QueueCorrect == DuelSpec => []QueueKept
<1>1. DuelInit => QueueInv
  BY QueueInitial
<1>2. QueueInv => QueueKept
  BY DEF QueueInv, QueueKept
<1> QED BY <1>1, <1>2, QueueInductive, PTL DEF DuelSpec

-----------------------------------------------------------------------------
(* Rounds, deaths and the score.                                            *)

\* What makes the round's properties inductive: the countdown runs exactly
\* while somebody is dead, and a room that was ever live has had a round.
RoundInv ==
    /\ DuelTypeOK
    /\ CountdownIffDeath
    /\ ScoredOncePerRound
    /\ live => round > 0

\* One tick: either a new round begins, with everybody alive and no shot; or
\* players go on as they were, and whoever is hit was alive in a live round.
LEMMA StepRound ==
    ASSUME RoundInv, Step
    PROVE  \E victims \in SUBSET Slots :
             /\ \A s \in Slots : players'[s].alive = (Body(s).alive /\ s \notin victims)
             /\ \A s \in Slots :
                  score'[s] = IF Other(s) \in victims THEN score[s] + 1 ELSE score[s]
             /\ restart' = IF victims # {} THEN RESTART_TICKS ELSE Remaining
             /\ victims # {} => /\ Playing /\ ~Resets
                               /\ \A s \in Slots : players[s].alive
             /\ \A s \in Slots : players'[s].hp < players[s].hp => Playing /\ ~Resets
<1>1. PICK taken \in [Slots -> DAMAGES \cup {0}] :
        /\ \A s \in Slots : taken[s] # 0 => CanHit(Other(s))
        /\ players' = [s \in Slots |-> Damaged(s, taken)]
        /\ score' = [s \in Slots |-> IF Dies(Other(s), taken) THEN score[s] + 1 ELSE score[s]]
        /\ restart' = IF \E s \in Slots : Dies(s, taken) THEN RESTART_TICKS ELSE Remaining
  BY DEF Step
<1> DEFINE victims == {s \in Slots : Dies(s, taken)}
<1>2. ASSUME NEW s \in Slots, taken[s] # 0
      PROVE  /\ Playing /\ ~Resets
             /\ \A p \in Slots : Body(p).alive /\ Body(p) = players[p]
  <2>1. CanHit(Other(s))
    BY <1>1, <1>2
  <2>2. Playing /\ Queue(Other(s)) # <<>>
    BY <2>1 DEF CanHit
  <2>3. ~Resets
    BY <2>2 DEF Queue
  <2>4. Body(Other(s)).alive /\ Body(Other(Other(s))).alive
    BY <2>1 DEF CanHit
  <2> QED BY <2>2, <2>3, <2>4, OtherSlot DEF Body
<1>3. ASSUME NEW s \in Slots
      PROVE  Body(s) \in [hp : 0 .. FULL_HP, alive : BOOLEAN]
  BY DuelAssumption DEF RoundInv, DuelTypeOK, Body, Spawned
<1>4. ASSUME NEW s \in Slots
      PROVE  players'[s].alive = (Body(s).alive /\ s \notin victims)
  <2>1. players'[s] = Damaged(s, taken)
    BY <1>1
  <2>2. CASE taken[s] = 0
    <3>1. players'[s] = Body(s) /\ s \notin victims
      BY <2>1, <2>2 DEF Damaged, Dies
    <3>2. Body(s).alive \in BOOLEAN
      BY <1>3
    <3> QED BY <3>1, <3>2
  <2>3. CASE taken[s] # 0
    <3>1. Body(s).alive
      BY <1>2, <2>3
    <3>2. Damaged(s, taken).alive \in BOOLEAN
      BY <2>3 DEF Damaged
    <3> QED BY <2>1, <3>1, <3>2 DEF Dies
  <2> QED BY <2>2, <2>3
<1>5. ASSUME NEW s \in Slots
      PROVE  score'[s] = IF Other(s) \in victims THEN score[s] + 1 ELSE score[s]
  BY <1>1, OtherSlot
<1>6. restart' = IF victims # {} THEN RESTART_TICKS ELSE Remaining
  <2>1. (\E s \in Slots : Dies(s, taken)) <=> victims # {}
    OBVIOUS
  <2> HIDE DEF victims
  <2> QED BY <1>1, <2>1
<1>7. ASSUME victims # {}
      PROVE  Playing /\ ~Resets /\ \A s \in Slots : players[s].alive
  <2>1. PICK s \in Slots : Dies(s, taken)
    BY <1>7
  <2>2. taken[s] # 0
    BY <2>1 DEF Dies, Damaged
  <2> QED BY <1>2, <2>2
<1>8. ASSUME NEW s \in Slots, players'[s].hp < players[s].hp
      PROVE  Playing /\ ~Resets
  <2>1. players'[s] = Damaged(s, taken) /\ players[s].hp \in 0 .. FULL_HP
    BY <1>1 DEF RoundInv, DuelTypeOK
  <2>2. CASE taken[s] = 0
    <3>1. players'[s] = Body(s)
      BY <2>1, <2>2 DEF Damaged
    <3>2. players'[s] = players[s] \/ players'[s].hp = FULL_HP
      BY <3>1 DEF Body, Spawned
    <3> QED BY <1>8, <2>1, <3>2, DuelAssumption
  <2> QED BY <1>2, <2>2
<1> HIDE DEF victims
<1>9. victims \in SUBSET Slots
  BY DEF victims
<1> QED BY <1>4, <1>5, <1>6, <1>7, <1>8, <1>9

\* RoundInv holds at first.
LEMMA RoundInitial == DuelInit => RoundInv
<1>1. DuelInit => CountdownIffDeath /\ ScoredOncePerRound /\ (live => round > 0)
  BY DEF DuelInit, CountdownIffDeath, ScoredOncePerRound, Spawned
<1> QED BY <1>1, TypeInitial DEF RoundInv

\* Every step keeps RoundInv.
LEMMA RoundInductive == RoundInv /\ [DuelNext]_duelVars => RoundInv'
<1> SUFFICES ASSUME RoundInv, [DuelNext]_duelVars
             PROVE  CountdownIffDeath' /\ ScoredOncePerRound' /\ (live => round > 0)'
  BY TypeInductive DEF RoundInv
<1>1. ASSUME UNCHANGED <<round, score, restart, players>>, live' => live
      PROVE  CountdownIffDeath' /\ ScoredOncePerRound' /\ (live => round > 0)'
  BY <1>1 DEF RoundInv, CountdownIffDeath, ScoredOncePerRound
<1>2. ASSUME NEW s \in Slots, NEW req \in Request, Exchange(s, req)
      PROVE  UNCHANGED <<round, score, restart, players>> /\ (live' => live)
  <2>1. CASE Refuse(s, req)
    <3>1. UNCHANGED <<round, score, restart, players>>
      BY <2>1 DEF Refuse
    <3>2. live' => live
      BY <2>1, Zenon DEF Refuse
    <3> QED BY <3>1, <3>2
  <2>2. CASE Join(s, req)
    BY <2>2 DEF Join
  <2>3. CASE Accept(s, req)
    <3>1. UNCHANGED <<round, score, restart, players, live>>
      BY <2>3 DEF Accept
    <3> QED BY <3>1
  <2> QED BY <1>2, <2>1, <2>2, <2>3 DEF Exchange
<1>3. ASSUME NEW s \in Slots, Disconnect(s)
      PROVE  UNCHANGED <<round, score, restart, players>> /\ (live' => live)
  BY <1>3 DEF Disconnect
<1>4. CASE Step
  <2>1. PICK victims \in SUBSET Slots :
          /\ \A s \in Slots : players'[s].alive = (Body(s).alive /\ s \notin victims)
          /\ \A s \in Slots :
               score'[s] = IF Other(s) \in victims THEN score[s] + 1 ELSE score[s]
          /\ restart' = IF victims # {} THEN RESTART_TICKS ELSE Remaining
          /\ victims # {} => Playing /\ ~Resets /\ \A s \in Slots : players[s].alive
    BY <1>4, StepRound
  <2>2. live' = Ready /\ round' = IF Resets THEN round + 1 ELSE round
    BY <1>4 DEF Step
  <2>3. round \in Nat /\ restart \in Nat /\ score \in [Slots -> Nat]
    BY DuelAssumption DEF RoundInv, DuelTypeOK
  <2>4. (live => round > 0)'
    <3>1. CASE Resets
      BY <2>2, <2>3, <3>1
    <3>2. CASE ~Resets
      BY <2>2, <3>2 DEF Resets, Starts, RoundInv
    <3> QED BY <3>1, <3>2
  <2>5. CASE Resets
    <3>1. victims = {} /\ restart' = Remaining /\ Remaining = 0
      BY <2>1, <2>3, <2>5 DEF Resets, Remaining
    <3>2. \A s \in Slots : players'[s].alive /\ score'[s] = score[s]
      BY <2>1, <2>5, <3>1 DEF Body, Spawned
    <3>3. CountdownIffDeath'
      BY <3>1, <3>2 DEF CountdownIffDeath
    <3>4. \A s \in Slots : score[s] <= round
      BY <2>3 DEF RoundInv, ScoredOncePerRound
    <3>5. ScoredOncePerRound'
      BY <2>2, <2>3, <2>5, <3>2, <3>4 DEF ScoredOncePerRound
    <3> QED BY <2>4, <3>3, <3>5
  <2>6. CASE ~Resets
    <3>1. \A s \in Slots : Body(s) = players[s]
      BY <2>6 DEF Body
    <3>2. CASE victims = {}
      <4>1. restart' = Remaining /\ \A s \in Slots : score'[s] = score[s]
        BY <2>1, <3>2
      <4>2. \A s \in Slots : players'[s].alive <=> players[s].alive
        BY <2>1, <3>1, <3>2
      <4>3. Remaining > 0 <=> restart > 0
        BY <2>3, <2>6 DEF Resets, Remaining
      <4>4. CountdownIffDeath'
        BY <4>1, <4>2, <4>3 DEF RoundInv, CountdownIffDeath
      <4>5. ScoredOncePerRound'
        BY <2>2, <2>6, <4>1, <4>2, OtherSlot DEF RoundInv, ScoredOncePerRound
      <4> QED BY <2>4, <4>4, <4>5
    <3>3. CASE victims # {}
      <4>1. restart' = RESTART_TICKS /\ RESTART_TICKS > 0
        BY <2>1, <3>3, DuelAssumption
      <4>2. \A s \in victims : ~players'[s].alive
        BY <2>1
      <4>3. CountdownIffDeath'
        BY <3>3, <4>1, <4>2 DEF CountdownIffDeath
      <4>4. live /\ round > 0
        BY <2>1, <2>6, <3>3 DEF Playing, Resets, Starts, RoundInv
      <4>5. ASSUME NEW s \in Slots
            PROVE  score'[s] + (IF players'[Other(s)].alive /\ round' > 0 THEN 1 ELSE 0) <= round'
        <5>1. players[Other(s)].alive /\ Other(s) \in Slots
          BY <2>1, <3>3, OtherSlot
        <5>2. score[s] + 1 <= round
          BY <4>4, <5>1 DEF RoundInv, ScoredOncePerRound
        <5>3. CASE Other(s) \in victims
          BY <2>1, <2>2, <2>3, <2>6, <4>2, <5>2, <5>3
        <5>4. CASE Other(s) \notin victims
          BY <2>1, <2>2, <2>3, <2>6, <5>2, <5>4
        <5> QED BY <5>3, <5>4
      <4> QED BY <2>4, <4>3, <4>5 DEF ScoredOncePerRound
    <3> QED BY <3>2, <3>3
  <2> QED BY <2>5, <2>6
<1>5. CASE UNCHANGED duelVars
  BY <1>1, <1>5 DEF duelVars
<1> QED BY <1>1, <1>2, <1>3, <1>4, <1>5 DEF DuelNext

\* The countdown between rounds runs exactly while somebody is dead, so that a
\* snapshot calls a round playing only with everybody alive; and a slot scores
\* at most once in a round, and never before the first.
THEOREM RoundCorrect == DuelSpec => []RoundKept
<1>1. DuelInit => RoundInv
  BY RoundInitial
<1>2. RoundInv => RoundKept
  BY DEF RoundInv, RoundKept, CountdownIffDeath, PlayingMeansAlive
<1> QED BY <1>1, <1>2, RoundInductive, PTL DEF DuelSpec

-----------------------------------------------------------------------------
(* Sessions.                                                                *)

\* A session number is only ever given out once, and its slot was heard of
\* when it was: what Join writes and nothing else raises.
SessionInv == DuelTypeOK /\ SessionsDistinct /\ ConnectedWasHeard

\* What a batch leaves of a slot's session apart from its queue.
LEMMA AcceptSession ==
    ASSUME DuelTypeOK, NEW s \in Slots, NEW req \in Request, Accept(s, req)
    PROVE  /\ \A p \in Slots : /\ peers'[p].epoch = peers[p].epoch
                              /\ peers'[p].ack = peers[p].ack
                              /\ peers'[p].received >= peers[p].received
           /\ peers'[s].last = tick
           /\ \A p \in Slots \ {s} : peers'[p] = peers[p]
<1>1. PICK take \in TakeChoices(req.inputs) :
        peers' = [peers EXCEPT
            ![s].received = @ + Len(take),
            ![s].input = @ \o [i \in 1 .. Len(take) |-> req.inputs[take[i]]],
            ![s].last = tick]
  BY DEF Accept
<1> DEFINE more == Len(take)
           queue == peers[s].input \o [i \in 1 .. Len(take) |-> req.inputs[take[i]]]
<1>2. more \in Nat
  BY RequestShape, TakenInputs
<1>3. peers' = [peers EXCEPT ![s] = [peers[s] EXCEPT
            !.received = peers[s].received + more, !.input = queue, !.last = tick]]
  BY <1>1
<1>4. peers \in [Slots -> Session]
  BY DEF DuelTypeOK, Session
<1> HIDE DEF more, queue
<1>5. /\ peers'[s] = [peers[s] EXCEPT
             !.received = peers[s].received + more, !.input = queue, !.last = tick]
      /\ \A p \in Slots \ {s} : peers'[p] = peers[p]
  BY <1>3, <1>4
<1>6. /\ peers'[s].epoch = peers[s].epoch /\ peers'[s].ack = peers[s].ack
      /\ peers'[s].received = peers[s].received + more /\ peers'[s].last = tick
  BY <1>4, <1>5 DEF Session
<1>7. \A p \in Slots : peers[p].received \in Nat
  BY <1>4 DEF Session
<1>8. \A p \in Slots : peers[p].received <= peers[p].received
  BY <1>7
<1>9. peers'[s].received >= peers[s].received
  BY <1>2, <1>6, <1>7
<1>10. ASSUME NEW p \in Slots, p # s
       PROVE  /\ peers'[p].epoch = peers[p].epoch /\ peers'[p].ack = peers[p].ack
              /\ peers'[p].received >= peers[p].received
  BY <1>5, <1>8, <1>10
<1> QED BY <1>5, <1>6, <1>9, <1>10

\* SessionInv holds at first.
LEMMA SessionInitial == DuelInit => SessionInv
<1>1. DuelInit => SessionsDistinct /\ ConnectedWasHeard
  BY DEF DuelInit, SessionsDistinct, ConnectedWasHeard, FreshPeer
<1> QED BY <1>1, TypeInitial DEF SessionInv

\* Every step keeps SessionInv.
LEMMA SessionInductive == SessionInv /\ [DuelNext]_duelVars => SessionInv'
<1> SUFFICES ASSUME SessionInv, [DuelNext]_duelVars
             PROVE  SessionsDistinct' /\ ConnectedWasHeard'
  BY TypeInductive DEF SessionInv
<1> USE DEF SessionInv
<1>1. ASSUME NEW s \in Slots, NEW req \in Request, Exchange(s, req)
      PROVE  SessionsDistinct' /\ ConnectedWasHeard'
  <2>1. CASE Refuse(s, req)
    <3>1. UNCHANGED <<tick, generation, peers>>
      BY <2>1 DEF Refuse
    <3> QED BY <3>1 DEF SessionsDistinct, ConnectedWasHeard
  <2>2. CASE Join(s, req)
    <3>1. \A p \in Slots : peers[p].epoch \in Nat /\ generation \in Nat /\ tick \in Nat
      BY DuelAssumption DEF DuelTypeOK
    <3>2. /\ generation' = generation + 1 /\ tick' = tick
          /\ peers'[s].epoch = generation + 1 /\ peers'[s].last = tick
          /\ \A p \in Slots \ {s} : peers'[p] = peers[p]
      BY <2>2 DEF Join, FreshPeer, DuelTypeOK
    <3>3. SessionsDistinct'
      BY <3>1, <3>2, OtherSlot DEF SessionsDistinct
    <3>4. ConnectedWasHeard'
      BY <3>1, <3>2, DuelAssumption DEF ConnectedWasHeard
    <3> QED BY <3>3, <3>4
  <2>3. CASE Accept(s, req)
    <3>1. tick \in Nat /\ generation' = generation /\ tick' = tick
      <4>1. tick \in Nat
        BY DuelAssumption DEF DuelTypeOK
      <4> QED BY <2>3, <4>1 DEF Accept
    <3>2. /\ \A p \in Slots : peers'[p].epoch = peers[p].epoch
          /\ peers'[s].last = tick
          /\ \A p \in Slots \ {s} : peers'[p] = peers[p]
      BY <2>3, AcceptSession
    <3>3. SessionsDistinct'
      BY <3>1, <3>2, OtherSlot DEF SessionsDistinct
    <3>4. ConnectedWasHeard'
      BY <3>1, <3>2, DuelAssumption DEF ConnectedWasHeard
    <3> QED BY <3>3, <3>4
  <2> QED BY <1>1, <2>1, <2>2, <2>3 DEF Exchange
<1>2. ASSUME NEW s \in Slots, Disconnect(s)
      PROVE  SessionsDistinct' /\ ConnectedWasHeard'
  <2>1. /\ UNCHANGED <<tick, generation>>
        /\ \A p \in Slots : /\ peers'[p].epoch = peers[p].epoch
                            /\ peers'[p].last = peers[p].last
                            /\ peers'[p].connected => peers[p].connected
    BY <1>2 DEF Disconnect, DuelTypeOK
  <2>2. SessionsDistinct'
    BY <2>1, OtherSlot DEF SessionsDistinct
  <2>3. ConnectedWasHeard'
    BY <2>1 DEF ConnectedWasHeard
  <2> QED BY <2>2, <2>3
<1>3. CASE Step
  <2>1. tick' = tick + 1 /\ generation' = generation /\ peers' = [s \in Slots |-> AfterInput(s)]
    BY <1>3 DEF Step
  <2>2. ASSUME NEW s \in Slots
        PROVE  /\ peers'[s].epoch = peers[s].epoch /\ peers'[s].last = peers[s].last
               /\ peers'[s].connected = (s \in Present)
    <3>1. peers[s] \in [epoch : 0 .. MAX_GENERATION, last : 0 .. MAX_TICK,
                        received : Nat, ack : Nat, input : Seq(Input),
                        connected : BOOLEAN]
      BY DEF DuelTypeOK
    <3> HIDE DEF SessionInv
    <3>2. peers'[s] = AfterInput(s)
      BY <2>1
    <3>3. /\ AfterInput(s).epoch = peers[s].epoch /\ AfterInput(s).last = peers[s].last
          /\ AfterInput(s).connected = (s \in Present)
      BY <3>1 DEF AfterInput
    <3> QED BY <3>2, <3>3
  <2>3. SessionsDistinct'
    BY <2>1, <2>2, OtherSlot DEF SessionsDistinct
  <2>4. ASSUME NEW s \in Slots, peers'[s].connected
        PROVE  tick' - peers'[s].last < STALE_TICKS
    <3>1. s \notin Expired
      BY <2>2, <2>4 DEF Present
    <3>2. ~(tick + 1 - peers[s].last >= STALE_TICKS)
      BY <3>1 DEF Expired
    <3>3. tick \in Nat /\ peers[s].last \in Nat
      BY DuelAssumption DEF DuelTypeOK
    <3> QED BY <2>1, <2>2, <3>2, <3>3, DuelAssumption
  <2>5. ConnectedWasHeard'
    BY <2>4 DEF ConnectedWasHeard
  <2> QED BY <2>3, <2>5
<1>4. CASE UNCHANGED duelVars
  BY <1>4 DEF duelVars, SessionsDistinct, ConnectedWasHeard
<1> QED BY <1>1, <1>2, <1>3, <1>4 DEF DuelNext

\* No two slots ever hold the same session, and the room keeps nobody it has
\* not heard of for STALE_TICKS.
THEOREM SessionCorrect == DuelSpec => []SessionsKept
<1>1. DuelInit => SessionInv
  BY SessionInitial
<1>2. SessionInv => SessionsKept
  BY DEF SessionInv, SessionsKept
<1> QED BY <1>1, <1>2, SessionInductive, PTL DEF DuelSpec

-----------------------------------------------------------------------------
(* Numbers only go forward.                                                 *)

\* Needed beside the queue and the sessions: of a slot that left, too, no more
\* was executed than it had sent.
OrderInv == QueueInv /\ SessionInv /\ \A s \in Slots : peers[s].ack <= peers[s].received

\* What a tick does to the numbers of a slot: nothing, the next input, or all it
\* has sent when a new round begins.
LEMMA StepNumbers ==
    ASSUME OrderInv, Step, NEW s \in Slots
    PROVE  /\ peers'[s].received = peers[s].received
           /\ \/ peers'[s].ack = peers[s].ack
              \/ peers'[s].ack = peers[s].ack + 1 /\ peers[s].ack + 1 <= peers[s].received
              \/ peers'[s].ack = peers[s].received /\ round' # round
<1> DEFINE p == peers[s]
           q == Queue(s)
<1>1. /\ p.received \in Nat /\ p.ack \in Nat /\ p.input \in Seq(Input) /\ Len(p.input) \in Nat
      /\ p \in Session /\ round \in Nat
  BY LenProperties DEF OrderInv, QueueInv, DuelTypeOK, Session
<1>2. /\ peers'[s].received = p.received
      /\ peers'[s].ack = (IF q = <<>> THEN Acked(s) ELSE Head(q).seq)
  BY <1>1 DEF Step, AfterInput, Session
<1>3. Resets => round' # round
  BY <1>1 DEF Step
<1>4. CASE q = <<>>
  BY <1>2, <1>3, <1>4 DEF Acked
<1>5. CASE q # <<>>
  <2>1. q = p.input /\ p.input # <<>>
    BY <1>5 DEF Queue
  <2>2. /\ Len(p.input) = p.received - p.ack
        /\ \A k \in DOMAIN p.input : p.input[k].seq = p.ack + k
    BY <2>1 DEF OrderInv, QueueInv, QueueIsUnexecutedRun
  <2>3. Len(p.input) >= 1 /\ 1 \in DOMAIN p.input
    BY <1>1, <2>1, LenProperties
  <2>4. Head(p.input).seq = p.ack + 1
    BY <1>1, <2>2, <2>3
  <2> QED BY <1>1, <1>2, <1>5, <2>1, <2>2, <2>3, <2>4
<1> QED BY <1>4, <1>5

\* Every step of the room keeps the numbers of a session in order.
LEMMA NumbersStep ==
    ASSUME OrderInv, [DuelNext]_duelVars, NEW s \in Slots
    PROVE  /\ (peers[s].ack <= peers[s].received)'
           /\ peers'[s].epoch = peers[s].epoch =>
                /\ peers'[s].received >= peers[s].received
                /\ peers'[s].ack >= peers[s].ack
                /\ round' = round => peers'[s].ack <= peers[s].ack + 1
<1>1. /\ peers[s].ack \in Nat /\ peers[s].received \in Nat
      /\ peers[s].ack <= peers[s].received /\ peers[s].epoch <= generation
      /\ peers[s].epoch \in Nat /\ generation \in Nat /\ peers \in [Slots -> Session]
  BY DuelAssumption DEF OrderInv, QueueInv, SessionInv, SessionsDistinct, DuelTypeOK, Session
<1>2. ASSUME peers'[s].ack = peers[s].ack, peers'[s].received >= peers[s].received,
             peers'[s].received \in Nat
      PROVE  /\ (peers[s].ack <= peers[s].received)'
             /\ peers'[s].received >= peers[s].received
             /\ peers'[s].ack >= peers[s].ack
             /\ peers'[s].ack <= peers[s].ack + 1
  BY <1>1, <1>2
<1>3. ASSUME NEW p \in Slots, NEW req \in Request, Exchange(p, req)
      PROVE  \/ /\ peers'[s].ack = peers[s].ack /\ peers'[s].received >= peers[s].received
                /\ peers'[s].received \in Nat
             \/ /\ peers'[s].ack = 0 /\ peers'[s].received = 0
                /\ peers'[s].epoch # peers[s].epoch
  <2>1. CASE Refuse(p, req)
    <3>1. peers' = peers
      BY <2>1 DEF Refuse
    <3> QED BY <1>1, <3>1
  <2>2. CASE Join(p, req)
    <3>1. peers' = [peers EXCEPT ![p] = [FreshPeer EXCEPT
              !.epoch = generation + 1, !.connected = TRUE, !.last = tick]]
      BY <2>2 DEF Join
    <3>2. CASE s = p
      <4>1. peers'[s].ack = 0 /\ peers'[s].received = 0 /\ peers'[s].epoch = generation + 1
        BY <1>1, <3>1, <3>2 DEF FreshPeer
      <4>2. generation + 1 # peers[s].epoch
        BY <1>1
      <4> QED BY <4>1, <4>2
    <3>3. CASE s # p
      <4>1. peers'[s] = peers[s]
        BY <1>1, <3>1, <3>3
      <4> QED BY <1>1, <4>1
    <3> QED BY <3>2, <3>3
  <2>3. CASE Accept(p, req)
    <3>1. peers'[s].ack = peers[s].ack /\ peers'[s].received >= peers[s].received
      BY <2>3, AcceptSession DEF OrderInv, QueueInv
    <3>2. peers'[s].received \in Nat
      BY <2>3, AcceptType DEF OrderInv, QueueInv, DuelTypeOK
    <3> QED BY <3>1, <3>2
  <2> QED BY <1>3, <2>1, <2>2, <2>3 DEF Exchange
<1>4. ASSUME NEW p \in Slots, Disconnect(p)
      PROVE  peers'[s].ack = peers[s].ack /\ peers'[s].received = peers[s].received
  BY <1>1, <1>4 DEF Disconnect
<1>5. CASE Step
  BY <1>1, <1>5, StepNumbers
<1>6. CASE UNCHANGED duelVars
  BY <1>1, <1>6 DEF duelVars
<1> QED BY <1>1, <1>2, <1>3, <1>4, <1>5, <1>6 DEF DuelNext

\* OrderInv holds at first.
LEMMA OrderInitial == DuelInit => OrderInv
<1>1. DuelInit => \A s \in Slots : peers[s].ack <= peers[s].received
  BY DEF DuelInit, FreshPeer
<1> QED BY <1>1, QueueInitial, SessionInitial DEF OrderInv

\* Every step keeps OrderInv.
LEMMA OrderInductive == OrderInv /\ [DuelNext]_duelVars => OrderInv'
<1>1. OrderInv /\ [DuelNext]_duelVars => \A s \in Slots : (peers[s].ack <= peers[s].received)'
  BY NumbersStep
<1> QED BY <1>1, QueueInductive, SessionInductive DEF OrderInv

\* Within a session the numbers a slot has sent and those executed never go
\* back, and a step executes one input at most unless a new round begins.
THEOREM NumbersCorrect == DuelSpec => ExecutionAdvancesByOne
<1>1. OrderInv /\ [DuelNext]_duelVars =>
        (\A s \in Slots : peers'[s].epoch = peers[s].epoch =>
             /\ peers'[s].received >= peers[s].received
             /\ peers'[s].ack >= peers[s].ack
             /\ round' = round => peers'[s].ack <= peers[s].ack + 1)
  BY NumbersStep
<1> QED BY <1>1, OrderInitial, OrderInductive, PTL DEF DuelSpec, ExecutionAdvancesByOne

-----------------------------------------------------------------------------
(* What a step of the authority may never do.                               *)

\* Nobody is shot while away: health is lost only in a tick that finds both
\* slots connected and not silent.
LEMMA DamageStep ==
    ASSUME RoundInv, [DuelNext]_duelVars, NEW s \in Slots, players'[s].hp < players[s].hp
    PROVE  \A p \in Slots : peers[p].connected /\ peers'[p].connected
<1>1. players' # players
  <2>1. players[s].hp \in Nat
    BY DuelAssumption DEF RoundInv, DuelTypeOK
  <2> QED BY <2>1
<1>2. Step
  BY <1>1 DEF DuelNext, Exchange, Refuse, Join, Accept, Disconnect, duelVars
<1>3. Playing
  BY <1>2, StepRound
<1>4. Present = Slots
  BY <1>3 DEF Playing, Ready
<1>5. ASSUME NEW p \in Slots
      PROVE  peers[p].connected /\ peers'[p].connected
  <2>1. peers[p] \in Session /\ peers'[p] = AfterInput(p)
    BY <1>2 DEF Step, RoundInv, DuelTypeOK, Session
  <2>2. p \in Present
    BY <1>4
  <2>3. AfterInput(p).connected = (p \in Present)
    BY <2>1 DEF AfterInput, Session
  <2> QED BY <2>1, <2>2, <2>3 DEF Present
<1> QED BY <1>5

\* Nobody loses health in a tick that does not find both slots connected, before
\* it and after it.
THEOREM DamageCorrect == DuelSpec => DamageNeedsBothPresent
<1>1. DuelInit => RoundInv
  BY RoundInitial
<1>2. RoundInv /\ [DuelNext]_duelVars =>
        ((\E s \in Slots : players'[s].hp < players[s].hp)
           => \A s \in Slots : peers[s].connected /\ peers'[s].connected)
  BY DamageStep
<1> QED BY <1>1, <1>2, RoundInductive, PTL DEF DuelSpec, DamageNeedsBothPresent

-----------------------------------------------------------------------------
(* The authority implements the match.                                      *)

Phase == IF ~live THEN "waiting" ELSE IF restart > 0 THEN "interval" ELSE "live"
Dead == {s \in Slots : ~players[s].alive}

\* A tick begins a round, revives, interrupts, kills, or leaves the match alone.
LEMMA StepMatch ==
    ASSUME RoundInv, RoundInv', Step
    PROVE  Rounds!Next \/ UNCHANGED Rounds!matchVars
<1>1. PICK victims \in SUBSET Slots :
        /\ \A s \in Slots : players'[s].alive = (Body(s).alive /\ s \notin victims)
        /\ \A s \in Slots :
             score'[s] = IF Other(s) \in victims THEN score[s] + 1 ELSE score[s]
        /\ restart' = IF victims # {} THEN RESTART_TICKS ELSE Remaining
        /\ victims # {} => Playing /\ ~Resets /\ \A s \in Slots : players[s].alive
  BY StepRound
<1>2. live' = Ready /\ round' = IF Resets THEN round + 1 ELSE round
  BY DEF Step
<1>3. /\ restart \in Nat /\ live \in BOOLEAN
      /\ score \in [Slots -> Nat] /\ score' \in [Slots -> Nat]
  BY DuelAssumption DEF RoundInv, DuelTypeOK
<1>4. Ready \in BOOLEAN
  BY DEF Ready
<1>5. CASE victims # {}
  <2>1. Playing /\ ~Resets /\ \A s \in Slots : players[s].alive
    BY <1>1, <1>5
  <2>2. live /\ restart = 0 /\ Ready
    BY <1>3, <2>1 DEF Playing, Resets, Starts, Remaining
  <2>3. Phase = "live" /\ Phase' = "interval"
    BY <1>1, <1>2, <1>5, <2>2, DuelAssumption DEF Phase
  <2>4. Dead' = victims
    BY <1>1, <2>1 DEF Dead, Body
  <2>5. score' = [s \in Slots |-> IF Other(s) \in victims THEN score[s] + 1 ELSE score[s]]
    BY <1>1, <1>3
  <2>6. round' = round
    BY <1>2, <2>1
  <2>7. Rounds!Kill(victims)
    BY <1>5, <2>3, <2>4, <2>5, <2>6 DEF Rounds!Kill, Phase, Dead
  <2> QED BY <2>7 DEF Rounds!Next
<1>6. CASE victims = {}
  <2>1. restart' = Remaining /\ \A s \in Slots : score'[s] = score[s]
    BY <1>1, <1>6
  <2>2. score' = score
    BY <1>3, <2>1
  <2>3. \A s \in Slots : players'[s].alive <=> Body(s).alive
    BY <1>1, <1>6
  <2>4. CASE Resets
    <3>1. Dead' = {} /\ round' = round + 1 /\ restart' = 0
      BY <1>2, <1>3, <2>1, <2>3, <2>4 DEF Dead, Body, Spawned, Resets, Remaining
    <3>2. CASE Ready
      <4>1. Phase \in {"waiting", "interval"} /\ Phase' = "live"
        BY <1>2, <1>3, <2>4, <3>1, <3>2 DEF Phase, Resets, Starts
      <4>2. Rounds!StartRound
        BY <2>2, <3>1, <4>1 DEF Rounds!StartRound, Phase, Dead
      <4> QED BY <4>2 DEF Rounds!Next
    <3>3. CASE ~Ready
      <4>1. restart = 1 /\ Phase' = "waiting"
        BY <1>2, <2>4, <3>3 DEF Phase, Resets, Starts
      <4>2. Dead # {}
        BY <4>1 DEF RoundInv, CountdownIffDeath, Dead
      <4>3. Rounds!Revive
        BY <2>2, <3>1, <4>1, <4>2 DEF Rounds!Revive, Phase, Dead
      <4> QED BY <4>3 DEF Rounds!Next
    <3> QED BY <3>2, <3>3
  <2>5. CASE ~Resets
    <3>1. Dead' = Dead /\ round' = round
      BY <1>2, <2>3, <2>5 DEF Dead, Body
    <3>2. CASE Ready
      <4>1. live /\ live' /\ (restart' > 0 <=> restart > 0)
        BY <1>2, <1>3, <2>1, <2>5, <3>2 DEF Resets, Starts, Remaining
      <4>2. Phase' = Phase
        BY <4>1 DEF Phase
      <4> QED BY <2>2, <3>1, <4>2 DEF Rounds!matchVars, Phase, Dead
    <3>3. CASE ~Ready
      <4>1. Phase' = "waiting"
        BY <1>2, <3>3 DEF Phase
      <4>2. Rounds!Interrupt
        BY <2>2, <3>1, <4>1 DEF Rounds!Interrupt, Phase, Dead
      <4> QED BY <4>2 DEF Rounds!Next
    <3> QED BY <3>2, <3>3
  <2> QED BY <2>4, <2>5
<1> QED BY <1>5, <1>6

\* Every step of the room is one of the match's, or none.
LEMMA NextMatch ==
    ASSUME RoundInv, RoundInv', [DuelNext]_duelVars
    PROVE  Rounds!Next \/ UNCHANGED Rounds!matchVars
<1>1. ASSUME UNCHANGED <<round, score, restart, players>>, live' = live \/ ~live'
      PROVE  Rounds!Next \/ UNCHANGED Rounds!matchVars
  <2>1. Dead' = Dead
    BY <1>1 DEF Dead
  <2>2. CASE live' = live
    <3>1. Phase' = Phase
      BY <1>1, <2>2 DEF Phase
    <3> QED BY <1>1, <2>1, <3>1 DEF Rounds!matchVars, Phase, Dead
  <2>3. CASE ~live'
    <3>1. Phase' = "waiting"
      BY <2>3 DEF Phase
    <3>2. Rounds!Interrupt
      BY <1>1, <2>1, <3>1 DEF Rounds!Interrupt, Phase, Dead
    <3> QED BY <3>2 DEF Rounds!Next
  <2> QED BY <1>1, <2>2, <2>3
<1>2. ASSUME NEW s \in Slots, NEW req \in Request, Exchange(s, req)
      PROVE  UNCHANGED <<round, score, restart, players>> /\ (live' = live \/ ~live')
  <2>1. live \in BOOLEAN /\ live' \in BOOLEAN
    BY DEF RoundInv, DuelTypeOK
  <2>2. UNCHANGED <<round, score, restart, players>>
    BY <1>2 DEF Exchange, Refuse, Join, Accept
  <2>3. live' => live
    <3>1. CASE Refuse(s, req)
      BY <3>1, Zenon DEF Refuse
    <3>2. CASE Join(s, req)
      BY <3>2 DEF Join
    <3>3. CASE Accept(s, req)
      BY <3>3, Zenon DEF Accept
    <3> QED BY <1>2, <3>1, <3>2, <3>3 DEF Exchange
  <2> QED BY <2>1, <2>2, <2>3
<1>3. ASSUME NEW s \in Slots, Disconnect(s)
      PROVE  UNCHANGED <<round, score, restart, players>> /\ (live' = live \/ ~live')
  BY <1>3 DEF Disconnect
<1>4. CASE UNCHANGED duelVars
  BY <1>1, <1>4 DEF duelVars
<1> QED BY <1>1, <1>2, <1>3, <1>4, StepMatch DEF DuelNext

\* The room keeps what module Match promises its players: rounds begin with
\* both present, deaths happen in a live round and score for the other, and the
\* next round finds everybody alive.
THEOREM MatchCorrect == DuelSpec => KeepsTheMatch
<1>1. DuelInit => RoundInv
  BY RoundInitial
<1>2. DuelInit => Rounds!Init
  BY DEF DuelInit, Rounds!Init, Spawned
<1>3. RoundInv /\ RoundInv' /\ [DuelNext]_duelVars => [Rounds!Next]_(Rounds!matchVars)
  BY NextMatch
<1> QED BY <1>1, <1>2, <1>3, RoundInductive, PTL DEF DuelSpec, KeepsTheMatch, Rounds!Spec
=============================================================================
