----------------------------- MODULE Iteration -----------------------------
(***************************************************************************)
(* Loops, as functions of the number of turns: a function that is defined  *)
(* by what it was one turn before exists, and what every turn keeps holds  *)
(* for all of them.  The induction is over a set of numbers.  And what the *)
(* provers have to be told of products and of division.                     *)
(***************************************************************************)
EXTENDS Integers, Sequences, NaturalsInduction, WellFoundedInduction, TLAPS

\* Smaller before larger: a well-founded order of the numbers.
Smaller == {pair \in Nat \X Nat : pair[1] < pair[2]}

\* The order is well-founded.
LEMMA SmallerWellFounded == IsWellFoundedOn(Smaller, Nat)
BY NatLessThanWellFounded, Zenon DEF OpToRel, Smaller

\* Induction, for a set of numbers.
LEMMA SetInduction ==
    ASSUME NEW S, 0 \in S, \A n \in Nat : n \in S => n + 1 \in S
    PROVE  Nat \subseteq S
<1>1. SUFFICES ASSUME Nat \ S # {}
               PROVE  FALSE
  OBVIOUS
<1>2. PICK x \in Nat \ S : \A y \in Nat \ S : ~ (<<y, x>> \in Smaller)
  <2> DEFINE T == Nat \ S
  <2>1. T \subseteq Nat /\ T # {}
    BY <1>1
  <2> HIDE DEF T
  <2>2. \E x \in T : \A y \in T : ~ (<<y, x>> \in Smaller)
    BY <2>1, WFMin, SmallerWellFounded
  <2> QED BY <2>2 DEF T
<1>3. x # 0 /\ x \in Nat
  OBVIOUS
<1>4. x - 1 \in Nat /\ <<x - 1, x>> \in Smaller
  <2>1. x - 1 \in Nat /\ x - 1 < x
    BY <1>3
  <2> DEFINE y == x - 1
  <2> HIDE DEF y
  <2>2. y \in Nat /\ y < x => <<y, x>> \in Smaller
    BY <1>3 DEF Smaller
  <2> QED BY <2>1, <2>2 DEF y
<1>5. x - 1 \in S
  BY <1>2, <1>4
<1>6. (x - 1) + 1 \in S
  BY <1>4, <1>5
<1> QED BY <1>2, <1>3, <1>6

\* What holds before the first turn, and after a turn if it did before it, holds
\* after every turn.
LEMMA TurnsKeep ==
    ASSUME NEW N \in Nat, NEW f, NEW P, f[0] \in P[0],
           \A n \in 1 .. N : f[n - 1] \in P[n - 1] => f[n] \in P[n]
    PROVE  \A n \in 0 .. N : f[n] \in P[n]
<1> DEFINE S == {n \in Nat : n \in 0 .. N => f[n] \in P[n]}
<1>1. 0 \in S
  OBVIOUS
<1>2. ASSUME NEW n \in Nat, n \in S
      PROVE  n + 1 \in S
  <2>1. CASE n + 1 \in 0 .. N
    <3>1. n \in 0 .. N /\ n + 1 \in 1 .. N /\ (n + 1) - 1 = n
      BY <2>1
    <3>2. f[n] \in P[n]
      BY <1>2, <3>1
    <3>3. f[n + 1] \in P[n + 1]
      BY <3>1, <3>2
    <3> QED BY <3>3
  <2>2. CASE n + 1 \notin 0 .. N
    BY <2>2
  <2> QED BY <2>1, <2>2
<1> HIDE DEF S
<1>3. Nat \subseteq S
  BY <1>1, <1>2, SetInduction
<1> QED BY <1>3 DEF S

\* f is the loop of N turns from start.
IsLoop(f, N, start, step) ==
    f = [n \in 0 .. N |-> IF n = 0 THEN start ELSE step[<<n, f[n - 1]>>]]

\* Every turn leads from what may be there before it to what may be there after it.
StepsWithin(N, step, P) == \A n \in 1 .. N : \A s \in P[n - 1] : step[<<n, s>>] \in P[n]

Within(f, N, P) == \A n \in 0 .. N : f[n] \in P[n]

\* A loop of N turns, each of which is a step from what may be there before it
\* to what may be there after it, is a function of the number of turns.
LEMMA LoopExists ==
    ASSUME NEW N \in Nat, NEW start, NEW step, NEW P, start \in P[0], StepsWithin(N, step, P)
    PROVE  \E f : IsLoop(f, N, start, step) /\ Within(f, N, P)
<1>0. \A n \in 1 .. N : \A s \in P[n - 1] : step[<<n, s>>] \in P[n]
  BY DEF StepsWithin
<1> DEFINE Loop(f, m) ==
             /\ f = [n \in 0 .. m |-> IF n = 0 THEN start ELSE step[<<n, f[n - 1]>>]]
             /\ \A n \in 0 .. m : f[n] \in P[n]
           S == {m \in Nat : m \in 0 .. N => \E f : Loop(f, m)}
<1>1. 0 \in S
  <2> DEFINE f == [n \in 0 .. 0 |-> start]
  <2>1. Loop(f, 0)
    OBVIOUS
  <2> QED BY <2>1
<1>2. ASSUME NEW m \in Nat, m \in S
      PROVE  m + 1 \in S
  <2>1. CASE m + 1 \in 0 .. N
    <3>1. m \in 0 .. N /\ m + 1 \in 1 .. N /\ (m + 1) - 1 = m
      BY <2>1
    <3>2. PICK f : Loop(f, m)
      BY <1>2, <3>1
    <3> DEFINE last == step[<<m + 1, f[m]>>]
               g == [n \in 0 .. m + 1 |-> IF n = m + 1 THEN last ELSE f[n]]
    <3>3. f[m] \in P[m]
      BY <3>1, <3>2
    <3>4. last \in P[m + 1]
      BY <1>0, <3>1, <3>3
    <3>5. \A n \in 0 .. m : f[n] = IF n = 0 THEN start ELSE step[<<n, f[n - 1]>>]
      BY <3>2
    <3> HIDE DEF last
    <3>6. /\ DOMAIN g = 0 .. m + 1 /\ g[m + 1] = last
          /\ \A n \in 0 .. m : g[n] = f[n]
      BY <3>1
    <3>7. ASSUME NEW n \in 0 .. m + 1
          PROVE  g[n] = IF n = 0 THEN start ELSE step[<<n, g[n - 1]>>]
      <4>1. CASE n = m + 1
        <5>1. n # 0 /\ n - 1 = m /\ g[n - 1] = f[m]
          BY <3>1, <3>6, <4>1
        <5>2. g[n] = step[<<n, f[m]>>]
          BY <3>6, <4>1 DEF last
        <5> QED BY <5>1, <5>2
      <4>2. CASE n # m + 1
        <5>1. n \in 0 .. m /\ (n # 0 => n - 1 \in 0 .. m)
          BY <4>2
        <5>2. g[n] = f[n] /\ (n # 0 => g[n - 1] = f[n - 1])
          BY <3>6, <5>1
        <5> QED BY <3>5, <5>1, <5>2
      <4> QED BY <4>1, <4>2
    <3>8. ASSUME NEW n \in 0 .. m + 1
          PROVE  g[n] \in P[n]
      <4>1. CASE n = m + 1
        BY <3>4, <3>6, <4>1
      <4>2. CASE n # m + 1
        <5>1. n \in 0 .. m
          BY <4>2
        <5> QED BY <3>2, <3>6, <5>1
      <4> QED BY <4>1, <4>2
    <3>9. g = [n \in 0 .. m + 1 |-> g[n]]
      OBVIOUS
    <3> HIDE DEF g
    <3>10. Loop(g, m + 1)
      BY <3>7, <3>8, <3>9
    <3> HIDE DEF Loop
    <3> QED BY <2>1, <3>10
  <2>2. CASE m + 1 \notin 0 .. N
    BY <2>2
  <2> QED BY <2>1, <2>2
<1> HIDE DEF S
<1>3. Nat \subseteq S
  BY <1>1, <1>2, SetInduction
<1>4. N \in S /\ N \in 0 .. N
  BY <1>3
<1> QED BY <1>4 DEF S, IsLoop, Within

\* A loop from start, where step[<<n, s>>] is what turn n makes of s, goes through a
\* sequence of States.
LEMMA LoopThrough ==
    ASSUME NEW turns \in Nat, NEW States, NEW start \in States, NEW step \in [(1 .. turns) \X States -> States]
    PROVE  \E f \in [0 .. turns -> States] : IsLoop(f, turns, start, step)
<1> DEFINE At == [n \in 0 .. turns |-> States]
<1>1. start \in At[0]
  OBVIOUS
<1>2. StepsWithin(turns, step, At)
  BY DEF StepsWithin
<1>3. \A n \in 0 .. turns : At[n] = States
  OBVIOUS
<1> HIDE DEF At
<1>4. PICK f : IsLoop(f, turns, start, step) /\ Within(f, turns, At)
  BY <1>1, <1>2, LoopExists
<1>5. f \in [0 .. turns -> States]
  BY <1>3, <1>4 DEF Within, IsLoop
<1> QED BY <1>4, <1>5

\* Two loops that begin alike, and go on alike from wherever they are alike, are
\* alike.
LEMMA TurnsAgree ==
    ASSUME NEW N \in Nat, NEW f, NEW g, f[0] = g[0],
           \A n \in 1 .. N : f[n - 1] = g[n - 1] => f[n] = g[n]
    PROVE  \A n \in 0 .. N : f[n] = g[n]
<1> DEFINE P == [n \in 0 .. N |-> {g[n]}]
<1>1. f[0] \in P[0]
  OBVIOUS
<1>2. \A n \in 1 .. N : f[n - 1] \in P[n - 1] => f[n] \in P[n]
  OBVIOUS
<1> HIDE DEF P
<1>3. \A n \in 0 .. N : f[n] \in P[n]
  BY <1>1, <1>2, TurnsKeep
<1> QED BY <1>3 DEF P

\* Induction over a sequence, from its first element to its last, for a set of
\* sequences.
LEMMA SequenceInduction ==
    ASSUME NEW W, NEW S, <<>> \in S,
           \A q \in Seq(W), c \in W : q \in S => Append(q, c) \in S
    PROVE  Seq(W) \subseteq S
<1> DEFINE T == {n \in Nat : \A q \in Seq(W) : Len(q) = n => q \in S}
<1>1. 0 \in T
  <2>1. \A q \in Seq(W) : Len(q) = 0 => q = <<>>
    OBVIOUS
  <2> QED BY <2>1
<1>2. ASSUME NEW n \in Nat, n \in T
      PROVE  n + 1 \in T
  <2> SUFFICES ASSUME NEW q \in Seq(W), Len(q) = n + 1
               PROVE  q \in S
    OBVIOUS
  <2> DEFINE front == SubSeq(q, 1, n)
  <2>1. front \in Seq(W) /\ Len(front) = n /\ q[n + 1] \in W
    OBVIOUS
  <2>2. q = Append(front, q[n + 1])
    OBVIOUS
  <2> HIDE DEF front
  <2>3. front \in S
    BY <1>2, <2>1
  <2> QED BY <2>1, <2>2, <2>3
<1> HIDE DEF T
<1>3. Nat \subseteq T
  BY <1>1, <1>2, SetInduction
<1>4. \A q \in Seq(W) : Len(q) \in T
  BY <1>3
<1> QED BY <1>4 DEF T

-----------------------------------------------------------------------------
\* Division with remainder.
LEMMA DivisionWithRest ==
  ASSUME NEW a \in Nat, NEW n \in Nat \ {0}
  PROVE  /\ a \div n \in Nat
         /\ a % n \in 0 .. n - 1
         /\ a = (a \div n) * n + (a % n)
<1>1. a \div n \in Nat
  OBVIOUS
<1>2. a % n \in 0 .. n - 1
  OBVIOUS
<1>3. a = (a \div n) * n + (a % n)
  OBVIOUS
<1> QED BY <1>1, <1>2, <1>3

\* A product distributes over a sum.
LEMMA ProductOfSum ==
  ASSUME NEW a \in Nat, NEW b \in Nat, NEW n \in Nat
  PROVE  a * n \in Nat /\ b * n \in Nat /\ (a + b) * n = a * n + b * n
  OBVIOUS

\* A product with a larger number is larger.
LEMMA ProductMonotone ==
  ASSUME NEW a \in Nat, NEW b \in Nat, NEW n \in Nat \ {0}, a < b
  PROVE  a * n + n <= b * n
<1>1. PICK d \in Nat : b = a + 1 + d
  <2>1. b - a - 1 \in Nat /\ b = a + 1 + (b - a - 1)
    OBVIOUS
  <2> QED BY <2>1
<1>2. (a + 1 + d) * n = (a + 1) * n + d * n /\ d * n \in Nat
  BY <1>1, ProductOfSum
<1>3. (a + 1) * n = a * n + n
  BY ProductOfSum
<1> QED BY <1>1, <1>2, <1>3
=============================================================================
