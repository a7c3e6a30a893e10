----------------------------- MODULE Local_proof -----------------------------
(***************************************************************************)
(* Theorems about a local game, for any number of bots, any health and any *)
(* countdown: LocalTypeCorrect and CutShortCorrect with either way of      *)
(* shooting, OutcomeCorrect for traced shots.  Then those about the fixed  *)
(* clock that drives it, for any rates; about a tick of combat, for any    *)
(* limit on what flies and any weapon: rounds are accounted for            *)
(* (MagazineCorrect), what flies flies once a tick and who falls falls     *)
(* once (StruckCorrect).  At the end, for any contacts, any statuses and   *)
(* rows, any packs and maps: the controls of the screens (HeldCorrect),    *)
(* the HUD (ShownCorrect) and the menus (LoadedCorrect).                   *)
(***************************************************************************)
EXTENDS MCLocal, Iteration, FiniteSetTheorems, SequenceTheorems

\* A bounded time is one, and counting it on keeps the order of two of them.
LEMMA TimesBounded ==
    /\ LongEnough \in Nat
    /\ \A n \in 0 .. LongEnough : OneMore(n) \in 0 .. LongEnough /\ OneMore(n) >= n
    /\ \A m, n \in 0 .. LongEnough : m <= n => OneMore(m) <= OneMore(n)
  BY LocalRoundAssumption DEF LongEnough, OneMore

\* What is left of two numbers adds up to no more than they did.
LEMMA SumBounded ==
  ASSUME NEW a \in Nat, NEW b \in Nat, NEW m \in Nat, NEW n \in Nat, NEW bound \in Nat,
         a <= m, b <= n, m + n <= bound
  PROVE  a + b <= bound
  OBVIOUS

\* The script's age of a phase is a bounded time.
LEMMA AgeType == TypeOK => Age \in 0 .. LongEnough
<1> SUFFICES ASSUME TypeOK PROVE Age \in 0 .. LongEnough
  OBVIOUS
<1>1. age \in 0 .. LongEnough
  BY DEF TypeOK
<1>2. OneMore(age) \in 0 .. LongEnough /\ 0 \in 0 .. LongEnough
  BY <1>1, TimesBounded
<1> QED BY <1>2 DEF Age

\* What a fight leaves: nobody comes back to life, nothing flies that has no
\* room, and an event tells of the death of the player.
LEMMA FightType ==
  ASSUME TypeOK, Fight
  PROVE  /\ hp' \in 0 .. FULL_HP /\ standing' \subseteq Bots
         /\ thrown' \in Nat /\ incoming' \in Nat /\ thrown' + incoming' <= MAX_PROJECTILES
         /\ died' \in BOOLEAN
<1>1. PICK felled \in SUBSET standing, struck \in 0 .. MAX_PROJECTILES + Cardinality(Bots) :
        /\ IF ballistic THEN BallisticFight(felled, struck) ELSE TracedFight(felled, struck)
        /\ standing' = standing \ felled
        /\ hp' = IF struck < hp THEN hp - struck ELSE 0
        /\ died' = (hp > 0 /\ hp' = 0)
  BY DEF Fight
<1>2. Cardinality(Bots) \in Nat
  BY LocalRoundAssumption, FS_CardinalityType
<1>3. struck \in Nat
  BY <1>2, LocalRoundAssumption
<1>4. hp' \in 0 .. FULL_HP /\ standing' \subseteq Bots
  <2>1. hp \in Nat /\ hp <= FULL_HP /\ standing \subseteq Bots
    BY LocalRoundAssumption DEF TypeOK
  <2>2. hp' = IF struck < hp THEN hp - struck ELSE 0
    BY <1>1
  <2>3. hp' \in 0 .. FULL_HP
    BY <1>3, <2>1, <2>2, LocalRoundAssumption
  <2>4. standing' \subseteq Bots
    BY <1>1, <2>1
  <2> QED BY <2>3, <2>4
<1>5. died' \in BOOLEAN
  BY <1>1, Zenon
<1>6. CASE ~ballistic
  BY <1>1, <1>4, <1>5, <1>6 DEF TracedFight, TypeOK
<1>7. CASE ballistic
  <2>1. PICK mine \in 0 .. MAX_PROJECTILES, theirs \in 0 .. MAX_PROJECTILES :
          /\ Launches(mine, theirs)
          /\ Cardinality(felled) <= mine
          /\ thrown' \in 0 .. mine - Cardinality(felled)
          /\ incoming' \in 0 .. theirs - struck
    BY <1>1, <1>7 DEF BallisticFight
  <2>2. IsFiniteSet(felled)
    BY <1>1, LocalRoundAssumption, FS_Subset DEF TypeOK
  <2>3. Cardinality(felled) \in Nat
    BY <2>2, FS_CardinalityType
  <2>4. mine + theirs <= MAX_PROJECTILES
    BY <2>1, LocalRoundAssumption DEF Launches, TypeOK
  <2>5. thrown' \in 0 .. mine /\ incoming' \in 0 .. theirs
    BY <1>3, <2>1, <2>3, LocalRoundAssumption
  <2>6. thrown' \in Nat /\ incoming' \in Nat
    BY <2>5
  <2>7. thrown' + incoming' <= MAX_PROJECTILES
    <3>1. mine \in Nat /\ theirs \in Nat
      BY LocalRoundAssumption
    <3>2. thrown' <= mine /\ incoming' <= theirs
      BY <2>5
    <3>3. MAX_PROJECTILES \in Nat
      BY LocalRoundAssumption
    <3> QED BY <2>4, <2>6, <3>1, <3>2, <3>3, SumBounded, Zenon
  <2> QED BY <1>4, <1>5, <2>6, <2>7
<1> QED BY <1>6, <1>7

\* TypeOK holds at first.
LEMMA TypeInitial == Init => TypeOK
<1>1. 0 \in 0 .. LongEnough /\ FULL_HP \in 0 .. FULL_HP /\ 0 + 0 <= MAX_PROJECTILES
  BY LocalRoundAssumption, TimesBounded
<1>2. Init => thrown + incoming <= MAX_PROJECTILES /\ thrown \in Nat /\ incoming \in Nat
  BY <1>1 DEF Init
<1>3. Init => hp \in 0 .. FULL_HP /\ age \in 0 .. LongEnough /\ held \in 0 .. LongEnough
  BY <1>1 DEF Init
<1> QED BY <1>2, <1>3 DEF Init, TypeOK, Phases

\* Every step keeps TypeOK.
LEMMA TypeInductive == TypeOK /\ [Next]_vars => TypeOK'
<1> SUFFICES ASSUME TypeOK, [Next]_vars PROVE TypeOK'
  OBVIOUS
<1>1. CASE UNCHANGED vars
  BY <1>1 DEF TypeOK, vars
<1>2. CASE Tick
  <2>1. held' \in 0 .. LongEnough
    BY <1>2, TimesBounded DEF Tick, TypeOK
  <2>2. CASE phase = "live" /\ Fight
    BY <1>2, <2>1, <2>2, FightType DEF Tick, TypeOK
  <2>3. CASE phase # "live" /\ thrown' = 0 /\ incoming' = 0 /\ UNCHANGED <<hp, standing, died>>
    BY <1>2, <2>1, <2>3, LocalRoundAssumption DEF Tick, TypeOK
  <2> QED BY <1>2, <2>2, <2>3 DEF Tick
<1>3. CASE Script
  <2>1. age' \in 0 .. LongEnough /\ held' \in 0 .. LongEnough
    BY <1>3, AgeType, TimesBounded DEF Script, TypeOK
  <2>2. CASE Restarts
    <3>1. FULL_HP \in 0 .. FULL_HP /\ 0 + 0 <= MAX_PROJECTILES
      BY LocalRoundAssumption
    <3>2. thrown' + incoming' <= MAX_PROJECTILES /\ thrown' \in Nat /\ incoming' \in Nat
      BY <1>3, <2>2, <3>1 DEF Script, Respawn
    <3>3. hp' \in 0 .. FULL_HP /\ standing' \subseteq Bots /\ phase' = "starting"
      BY <1>3, <2>2, <3>1 DEF Script, Respawn
    <3>4. wins' \in Nat /\ losses' \in Nat
      BY <1>3, <2>2 DEF Script, Respawn
    <3> QED BY <1>3, <2>1, <3>2, <3>3, <3>4 DEF Script, TypeOK, Phases
  <2>3. CASE ~Restarts
    <3>1. phase' \in Phases
      BY <1>3, <2>3 DEF Script, Decide, TypeOK, Phases
    <3>2. wins' \in Nat /\ losses' \in Nat
      BY <1>3, <2>3 DEF Script, Decide, TypeOK
    <3>3. UNCHANGED <<hp, standing, thrown, incoming>>
      BY <1>3, <2>3 DEF Script, Decide
    <3> QED BY <1>3, <2>1, <3>1, <3>2, <3>3 DEF Script, TypeOK
  <2> QED BY <2>2, <2>3
<1> QED BY <1>1, <1>2, <1>3 DEF Next

\* Every reachable state has the shape TypeOK says.
THEOREM LocalTypeCorrect == Spec => []TypeOK
  BY TypeInitial, TypeInductive, PTL DEF Spec

-----------------------------------------------------------------------------
(* The countdown and the end screen.                                        *)

\* The script's age of the phase it sees is behind the time the phase lasts, by
\* the tick it is about to count; and an event comes from a live round.
PhaseInv ==
    /\ TypeOK
    /\ phase = lastPhase => IF half = "tick" THEN age <= held ELSE OneMore(age) <= held
    /\ died => phase = "live"

\* PhaseInv holds at first.
LEMMA PhaseInitial == Init => PhaseInv
  BY TypeInitial DEF Init, PhaseInv

\* The age the script acts on is behind the time the phase lasts.
LEMMA AgeBehind == PhaseInv /\ half = "script" => Age <= held
  BY DEF PhaseInv, TypeOK, Age

\* Every step keeps PhaseInv.
LEMMA PhaseInductive == PhaseInv /\ [Next]_vars => PhaseInv'
<1> SUFFICES ASSUME PhaseInv, [Next]_vars PROVE PhaseInv'
  OBVIOUS
<1>1. TypeOK'
  BY TypeInductive DEF PhaseInv
<1>2. CASE UNCHANGED vars
  BY <1>1, <1>2 DEF PhaseInv, vars, OneMore, LongEnough
<1>3. CASE Tick
  <2>1. phase' = lastPhase' => OneMore(age') <= held'
    BY <1>3, TimesBounded DEF Tick, PhaseInv, TypeOK, OneMore, LongEnough
  <2>2. died' => phase' = "live"
    BY <1>3 DEF Tick, PhaseInv
  <2> QED BY <1>1, <1>3, <2>1, <2>2 DEF Tick, PhaseInv
<1>4. CASE Script
  <2>1. phase' = lastPhase' => age' <= held'
    BY <1>4, AgeBehind DEF Script
  <2> QED BY <1>1, <1>4, <2>1 DEF Script, PhaseInv
<1> QED BY <1>2, <1>3, <1>4 DEF Next

\* Neither the countdown nor the end screen is cut short.
THEOREM CutShortCorrect == Spec => NothingCutShort
<1> DEFINE Patient ==
      /\ phase = "starting" /\ phase' # phase => held >= FREEZE
      /\ phase \in {"won", "lost"} /\ phase' # phase => held >= PAUSE
<1>1. PhaseInv /\ [Next]_vars => [Patient]_vars
  <2> SUFFICES ASSUME PhaseInv, Next PROVE Patient
    OBVIOUS
  <2>1. CASE Tick
    BY <2>1 DEF Tick
  <2>2. CASE Script
    <3>1. Age <= held /\ Age \in Nat /\ held \in Nat
      BY <2>2, AgeBehind, AgeType, TimesBounded DEF Script, PhaseInv, TypeOK
    <3>2. phase = "starting" /\ phase' # phase => Age >= FREEZE
      BY <2>2 DEF Script, Respawn, Decide, Restarts, GoesLive, Loses, Wins, PhaseInv
    <3>3. phase \in {"won", "lost"} /\ phase' # phase => Age >= PAUSE
      BY <2>2 DEF Script, Respawn, Decide, Restarts, GoesLive, Loses, Wins, PhaseInv
    <3> QED BY <3>1, <3>2, <3>3, LocalRoundAssumption
  <2> QED BY <2>1, <2>2 DEF Next
<1> QED BY <1>1, PhaseInitial, PhaseInductive, PTL DEF Spec, NothingCutShort

-----------------------------------------------------------------------------
(* The outcome of a round of traced shots.                                  *)

\* The score of the round is that of its phase.  Before it is decided, between
\* two ticks both sides are alive; in the script's turn an event waits exactly
\* if the player is dead, and then a bot stands: the shot that felled the last
\* one left nobody to hit back.
Outcome ==
    /\ phase = "starting" => hp > 0 /\ (Bots # {} => standing # {})
    /\ phase = "live" /\ half = "tick" => hp > 0 /\ (Bots # {} => standing # {})
    /\ phase = "live" /\ half = "script" => (hp = 0 => standing # {})
    /\ died <=> phase = "live" /\ hp = 0
    /\ OneOutcome

OutcomeInv == TypeOK /\ (~ballistic => Outcome)

\* OutcomeInv holds at first.
LEMMA OutcomeInitial == Init => OutcomeInv
  BY TypeInitial, LocalRoundAssumption DEF Init, OutcomeInv, Outcome, OneOutcome

\* A traced fight that kills the player leaves a bot standing.
LEMMA KillerStands ==
  ASSUME TypeOK, ~ballistic, Fight, hp > 0, hp' = 0
  PROVE  standing' # {}
<1>1. PICK felled \in SUBSET standing, struck \in 0 .. MAX_PROJECTILES + Cardinality(Bots) :
        /\ TracedFight(felled, struck)
        /\ standing' = standing \ felled
        /\ hp' = IF struck < hp THEN hp - struck ELSE 0
  BY DEF Fight
<1>2. struck <= Cardinality(standing \ felled)
  BY <1>1 DEF TracedFight
<1>3. Cardinality({}) = 0
  BY FS_EmptySet
<1>4. Cardinality(Bots) \in Nat
  BY LocalRoundAssumption, FS_CardinalityType
<1>5. SUFFICES ASSUME standing' = {} PROVE FALSE
  OBVIOUS
<1>6. struck = 0
  BY <1>1, <1>2, <1>3, <1>4, <1>5, LocalRoundAssumption
<1> QED BY <1>1, <1>6 DEF TypeOK

\* Every step of a round of traced shots keeps Outcome.
LEMMA OutcomeKept ==
  ASSUME TypeOK, ~ballistic, Outcome, [Next]_vars
  PROVE  Outcome'
<1>1. TypeOK'
  BY TypeInductive
<1>2. CASE UNCHANGED vars
  BY <1>1, <1>2 DEF Outcome, OneOutcome, vars
<1>3. CASE Tick
  <2>1. CASE phase = "live" /\ Fight
    <3>1. hp > 0 /\ TypeOK
      BY <1>3, <2>1 DEF Tick, Outcome
    <3>2. hp' = 0 => standing' # {}
      BY <2>1, <3>1, KillerStands
    <3>3. died' <=> hp' = 0
      BY <2>1, <3>1 DEF Fight
    <3> QED BY <1>1, <1>3, <2>1, <3>2, <3>3 DEF Tick, Outcome, OneOutcome
  <2>2. CASE phase # "live" /\ UNCHANGED <<hp, standing, died>>
    BY <1>1, <1>3, <2>2 DEF Tick, Outcome, OneOutcome
  <2> QED BY <1>3, <2>1, <2>2 DEF Tick
<1>4. CASE Script
  <2>1. CASE Restarts
    BY <1>1, <1>4, <2>1, LocalRoundAssumption
    DEF Script, Respawn, Restarts, Outcome, OneOutcome
  <2>2. CASE ~Restarts
    <3>1. hp' = hp /\ standing' = standing /\ died' = FALSE /\ half' = "tick"
      BY <1>4, <2>2 DEF Script, Decide
    <3>2. hp \in Nat
      BY DEF TypeOK
    <3>3. CASE Wins
      BY <1>1, <1>4, <2>2, <3>1, <3>2, <3>3
      DEF Script, Decide, Wins, Loses, Outcome, OneOutcome
    <3>4. CASE GoesLive
      BY <1>1, <1>4, <2>2, <3>1, <3>2, <3>4
      DEF Script, Decide, Wins, GoesLive, Loses, Outcome, OneOutcome
    <3>5. CASE ~Wins /\ ~GoesLive
      BY <1>1, <1>4, <2>2, <3>1, <3>2, <3>5
      DEF Script, Decide, Wins, Loses, Outcome, OneOutcome
    <3> QED BY <3>3, <3>4, <3>5
  <2> QED BY <2>1, <2>2
<1> QED BY <1>2, <1>3, <1>4 DEF Next

\* Every step keeps OutcomeInv.
LEMMA OutcomeInductive == OutcomeInv /\ [Next]_vars => OutcomeInv'
<1> SUFFICES ASSUME OutcomeInv, [Next]_vars PROVE OutcomeInv'
  OBVIOUS
<1>1. TypeOK'
  BY TypeInductive DEF OutcomeInv
<1>2. ballistic' = ballistic
  BY DEF Next, Tick, Script, vars
<1>3. ~ballistic => Outcome'
  BY OutcomeKept DEF OutcomeInv
<1> QED BY <1>1, <1>2, <1>3 DEF OutcomeInv

\* With traced shots a round is scored once, for the outcome it ends with.
THEOREM OutcomeCorrect == Spec => []OneOutcome
<1>1. OutcomeInv => OneOutcome
  BY DEF OutcomeInv, Outcome, OneOutcome
<1> QED BY <1>1, OutcomeInitial, OutcomeInductive, PTL DEF Spec

-----------------------------------------------------------------------------
(* The fixed clock, at any rate and with any limit.                          *)

\* What a call finds: the ticks owed are those due and the rest that is left.
LEMMA OwedSplits ==
  ASSUME ClockTypeOK, NEW now \in Nat
  PROVE  /\ Elapsed(now) \in Nat /\ Elapsed(now) * TICK_HZ \in Nat /\ Owed(now) \in Nat
         /\ Due(now) \in Nat /\ Left(now) \in 0 .. SECOND - 1
         /\ Owed(now) = Due(now) * SECOND + Left(now)
         /\ Returned(now) \in Nat /\ Due(now) - Returned(now) \in Nat
<1>1. Elapsed(now) \in Nat
  BY DEF ClockTypeOK, Elapsed
<1>2. Elapsed(now) * TICK_HZ \in Nat
  BY <1>1, ClockAssumption, ProductOfSum
<1>3. Owed(now) \in Nat
  BY <1>2, ClockAssumption DEF ClockTypeOK, Owed
<1>4. Due(now) \in Nat /\ Left(now) \in 0 .. SECOND - 1
      /\ Owed(now) = Due(now) * SECOND + Left(now)
  BY <1>3, ClockAssumption, DivisionWithRest DEF Due, Left
<1>5. Returned(now) \in Nat /\ Due(now) - Returned(now) \in Nat
  BY <1>4, ClockAssumption DEF Returned
<1> QED BY <1>1, <1>2, <1>3, <1>4, <1>5

\* No time is lost between the clock's fields and what it has returned.
ClockInv == ClockTypeOK /\ NoDrift

\* ClockInv holds for a new clock.
LEMMA ClockInitial == ClockInit => ClockInv
<1> SUFFICES ASSUME ClockInit PROVE ClockInv
  OBVIOUS
<1>1. ClockTypeOK
  BY ClockAssumption DEF ClockInit, ClockTypeOK
<1>2. run * TICK_HZ = 0 /\ (ticks + dropped) * SECOND = 0
  BY ClockAssumption DEF ClockInit
<1> QED BY <1>1, <1>2 DEF ClockInit, ClockInv, NoDrift

\* The sums on both sides stay equal when time passes.
LEMMA Balance ==
  ASSUME NEW r \in Nat, NEW e \in Nat, NEW total \in Nat, NEW due \in Nat, NEW p \in Nat,
         NEW left \in Nat,
         r * TICK_HZ = total * SECOND + p,
         p + e * TICK_HZ = due * SECOND + left
  PROVE  (r + e) * TICK_HZ = (total + due) * SECOND + left
<1>1. (r + e) * TICK_HZ = r * TICK_HZ + e * TICK_HZ
      /\ r * TICK_HZ \in Nat /\ e * TICK_HZ \in Nat
  BY ClockAssumption, ProductOfSum
<1>2. (total + due) * SECOND = total * SECOND + due * SECOND
      /\ total * SECOND \in Nat /\ due * SECOND \in Nat
  BY ClockAssumption, ProductOfSum
<1> QED BY <1>1, <1>2

\* An advance keeps ClockInv.
LEMMA AdvanceKeeps ==
  ASSUME ClockInv, NEW now \in Nat, Advance(now)
  PROVE  ClockInv'
<1>1. ClockTypeOK
  BY DEF ClockInv
<1>2. /\ Elapsed(now) \in Nat /\ Due(now) \in Nat /\ Left(now) \in 0 .. SECOND - 1
      /\ Left(now) \in Nat
      /\ Returned(now) \in Nat /\ Due(now) - Returned(now) \in Nat
      /\ rest + Elapsed(now) * TICK_HZ = Due(now) * SECOND + Left(now)
  BY <1>1, OwedSplits, ClockAssumption DEF Owed
<1>3. /\ previous' = now /\ rest' = Left(now) /\ run' = run + Elapsed(now)
      /\ ticks' = ticks + Returned(now) /\ dropped' = dropped + (Due(now) - Returned(now))
  BY DEF Advance
<1>4. ClockTypeOK'
  <2>1. run' \in Nat /\ ticks' \in Nat /\ dropped' \in Nat
    BY <1>1, <1>2, <1>3 DEF ClockTypeOK
  <2> QED BY <1>2, <1>3, <2>1 DEF ClockTypeOK
<1>5. run * TICK_HZ = (ticks + dropped) * SECOND + rest
  BY DEF ClockInv, NoDrift
<1>6. run \in Nat /\ ticks + dropped \in Nat /\ rest \in Nat
  BY <1>1, ClockAssumption DEF ClockTypeOK
<1>7. (run + Elapsed(now)) * TICK_HZ = (ticks + dropped + Due(now)) * SECOND + Left(now)
  <2> DEFINE e == Elapsed(now)
             due == Due(now)
             left == Left(now)
             total == ticks + dropped
  <2>1. /\ e \in Nat /\ due \in Nat /\ left \in Nat /\ total \in Nat
        /\ run * TICK_HZ = total * SECOND + rest
        /\ rest + e * TICK_HZ = due * SECOND + left
    BY <1>2, <1>5, <1>6
  <2> HIDE DEF e, due, left, total
  <2>2. (run + e) * TICK_HZ = (total + due) * SECOND + left
    BY <1>6, <2>1, Balance, SMTT(30)
  <2> QED BY <2>2 DEF e, due, left, total
<1>8. ticks' + dropped' = ticks + dropped + Due(now)
  BY <1>1, <1>2, <1>3 DEF ClockTypeOK
<1>9. NoDrift'
  BY <1>3, <1>7, <1>8, Zenon DEF NoDrift
<1> QED BY <1>4, <1>9 DEF ClockInv

\* A reset keeps ClockInv.
LEMMA ResetKeeps ==
  ASSUME NEW now \in Nat, Reset(now)
  PROVE  ClockInv'
<1>1. ClockTypeOK'
  BY ClockAssumption DEF Reset, ClockTypeOK
<1>2. run' = 0 /\ ticks' = 0 /\ dropped' = 0 /\ rest' = 0
  BY DEF Reset
<1>3. 0 * TICK_HZ = (0 + 0) * SECOND + 0
  BY ClockAssumption
<1>4. NoDrift'
  BY <1>2, <1>3, Zenon DEF NoDrift
<1> QED BY <1>1, <1>4 DEF ClockInv

\* Every step keeps ClockInv.
LEMMA ClockInductive == ClockInv /\ [ClockNext]_clockVars => ClockInv'
<1> SUFFICES ASSUME ClockInv, [ClockNext]_clockVars PROVE ClockInv'
  OBVIOUS
<1>1. CASE UNCHANGED clockVars
  BY <1>1 DEF ClockInv, ClockTypeOK, NoDrift, clockVars
<1>2. CASE ClockNext
  <2>1. PICK now \in 0 .. MAX_TIME : Advance(now) \/ Reset(now)
    BY <1>2 DEF ClockNext
  <2>2. now \in Nat
    BY ClockAssumption
  <2> QED BY <2>1, <2>2, AdvanceKeeps, ResetKeeps
<1> QED BY <1>1, <1>2

\* However its calls are spaced, the clock loses none of the time that passes.
THEOREM NoDriftCorrect == ClockSpec => []NoDrift
<1>1. ClockInv => NoDrift
  BY DEF ClockInv
<1> QED BY <1>1, ClockInitial, ClockInductive, PTL DEF ClockSpec

\* A call discards ticks only when it comes too late for them.
THEOREM DropsCorrect == ClockSpec => DropsOnlyWhenLate
<1> DEFINE Late == dropped' > dropped => (previous' - previous) * TICK_HZ > CATCH_UP * SECOND
<1>1. ClockInv /\ [ClockNext]_clockVars => [Late]_clockVars
  <2> SUFFICES ASSUME ClockInv, ClockNext, dropped' > dropped
               PROVE  (previous' - previous) * TICK_HZ > CATCH_UP * SECOND
    OBVIOUS
  <2>1. PICK now \in 0 .. MAX_TIME : Advance(now) \/ Reset(now)
    BY DEF ClockNext
  <2>2. now \in Nat /\ ClockTypeOK
    BY ClockAssumption DEF ClockInv
  <2>3. Advance(now)
    BY <2>1, <2>2 DEF Reset, ClockTypeOK
  <2>4. /\ Elapsed(now) * TICK_HZ \in Nat /\ Due(now) \in Nat /\ Left(now) \in 0 .. SECOND - 1
        /\ rest + Elapsed(now) * TICK_HZ = Due(now) * SECOND + Left(now)
    BY <2>2, OwedSplits DEF Owed
  <2>5. Due(now) > CATCH_UP
    BY <2>2, <2>3, <2>4, ClockAssumption DEF Advance, Returned, ClockTypeOK
  <2>6. CATCH_UP * SECOND + SECOND <= Due(now) * SECOND
    BY <2>4, <2>5, ClockAssumption, ProductMonotone
  <2>7. CATCH_UP * SECOND \in Nat /\ Due(now) * SECOND \in Nat
    BY <2>4, ClockAssumption, ProductOfSum
  <2>8. Elapsed(now) * TICK_HZ > CATCH_UP * SECOND
    BY <2>2, <2>4, <2>6, <2>7, ClockAssumption DEF ClockTypeOK
  <2>9. Elapsed(now) = now - previous
    <3>1. SUFFICES ASSUME Elapsed(now) = 0 PROVE FALSE
      BY DEF Elapsed
    <3>2. Elapsed(now) * TICK_HZ = 0
      BY <3>1, ClockAssumption
    <3> QED BY <2>7, <2>8, <3>2
  <2>10. previous' = now
    BY <2>3 DEF Advance
  <2> QED BY <2>8, <2>9, <2>10
<1> QED BY <1>1, ClockInitial, ClockInductive, PTL DEF ClockSpec, DropsOnlyWhenLate

-----------------------------------------------------------------------------
(* The fight.                                                               *)

GunState == [ammo : Nat, reserve : Nat, cooldown : Nat, left : Nat]

Missile == [id : 1 .. CAPACITY, owner : {"player", "bot"}, age : Nat]

BotState == [brain : Brain!Brains, health : Nat, lost : Nat, wait : Nat, mag : Nat, left : Nat,
             shown : Nat, sees : Brain!Sights]

\* The lists of projectiles there may be: none is in one twice.
Flock ==
    {l \in Seq(Missile) : /\ Len(l) <= CAPACITY
                          /\ \A i, j \in DOMAIN l : l[i].id = l[j].id => i = j}

Squad == {b \in Seq(BotState) : Len(b) <= MAX_BOTS}

Tidings == Seq([bot : Nat, fatal : BOOLEAN])

CombatInv ==
    /\ throws \in BOOLEAN /\ live \in BOOLEAN /\ cfg \in Configs
    /\ gun \in GunState /\ MagazineHolds
    /\ health \in Nat /\ botCount \in 0 .. MAX_BOTS
    /\ bots \in Squad /\ flight \in Flock

-----------------------------------------------------------------------------
(* Lists.                                                                   *)

\* A sequence of a type, by its elements.
LEMMA SequenceOf ==
    ASSUME NEW T, NEW m \in Nat, NEW q, DOMAIN q = 1 .. m, q = [k \in 1 .. m |-> q[k]],
           \A k \in 1 .. m : q[k] \in T
    PROVE  q \in Seq(T) /\ Len(q) = m
<1>1. q \in [1 .. m -> T]
  OBVIOUS
<1>2. q \in Seq(T)
  BY <1>1
<1> QED BY <1>1, <1>2

\* What appending does, element by element.
LEMMA AppendOf ==
    ASSUME NEW T, NEW q \in Seq(T), NEW e \in T
    PROVE  /\ Append(q, e) \in Seq(T) /\ Len(q) \in Nat /\ Len(Append(q, e)) = Len(q) + 1
           /\ DOMAIN q = 1 .. Len(q) /\ DOMAIN Append(q, e) = 1 .. Len(q) + 1
           /\ \A k \in 1 .. Len(q) : Append(q, e)[k] = q[k]
           /\ Append(q, e)[Len(q) + 1] = e
  OBVIOUS

\* There are n numbers from 1 to n.
LEMMA CountUpTo ==
    ASSUME NEW n \in Nat
    PROVE  IsFiniteSet(1 .. n) /\ Cardinality(1 .. n) = n
<1>1. IsFiniteSet(1 .. n) /\ Cardinality(1 .. n) = IF 1 > n THEN 0 ELSE n - 1 + 1
  <2>1. 1 \in Int /\ n \in Int
    OBVIOUS
  <2> QED BY <2>1, FS_Interval
<1> QED BY <1>1

\* While there is room, a name is free.
LEMMA NameIsFree ==
    ASSUME NEW l \in Flock, Len(l) < CAPACITY
    PROVE  \E n \in 1 .. CAPACITY : n \notin Flying(l)
<1>1. SUFFICES ASSUME 1 .. CAPACITY \subseteq Flying(l) PROVE FALSE
  OBVIOUS
<1>2. PICK m \in Nat : Len(l) = m /\ DOMAIN l = 1 .. m
  BY DEF Flock
<1>3. \A n \in 1 .. CAPACITY : \E i \in 1 .. m : l[i].id = n
  BY <1>1, <1>2 DEF Flying
<1> DEFINE f == [n \in 1 .. CAPACITY |-> CHOOSE i \in 1 .. m : l[i].id = n]
<1>4. \A n \in 1 .. CAPACITY : f[n] \in 1 .. m /\ l[f[n]].id = n
  BY <1>3
<1> HIDE DEF f
<1>5. f \in [1 .. CAPACITY -> 1 .. m]
  BY <1>3 DEF f
<1>6. /\ IsFiniteSet(1 .. CAPACITY) /\ Cardinality(1 .. CAPACITY) = CAPACITY
      /\ IsFiniteSet(1 .. m) /\ Cardinality(1 .. m) = m
  BY CombatAssumption, CountUpTo
<1>7. m < CAPACITY
  BY <1>2
<1>8. PICK x \in 1 .. CAPACITY, y \in 1 .. CAPACITY : x # y /\ f[x] = f[y]
  BY <1>5, <1>6, <1>7, FS_PigeonHole
<1> QED BY <1>4, <1>8

\* One list is the other, and perhaps more at the end of it.
Begins(l, longer) == Len(l) <= Len(longer) /\ \A k \in DOMAIN l : longer[k] = l[k]

\* What begins the beginning begins the whole.
LEMMA BeginsOn ==
    ASSUME NEW k \in Flock, NEW l \in Flock, NEW m \in Flock, Begins(k, l), Begins(l, m)
    PROVE  Begins(k, m)
  BY DEF Begins, Flock

\* A launch with room puts one more on the list, under a name of its own.
LEMMA LaunchAdds ==
    ASSUME NEW l \in Flock, NEW owner \in {"player", "bot"}
    PROVE  /\ Launched(l, owner) \in Flock /\ Begins(l, Launched(l, owner))
           /\ Len(l) < CAPACITY => Launched(l, owner) # l
<1>1. PICK m \in Nat : Len(l) = m /\ DOMAIN l = 1 .. m /\ l \in Seq(Missile)
  BY DEF Flock
<1>2. CASE ~(Len(l) < CAPACITY)
  BY <1>1, <1>2 DEF Launched, Begins
<1>3. CASE Len(l) < CAPACITY
  <2> DEFINE free == CHOOSE n \in 1 .. CAPACITY : n \notin Flying(l)
             e == [id |-> free, owner |-> owner, age |-> 0]
             long == Append(l, e)
  <2>1. free \in 1 .. CAPACITY /\ free \notin Flying(l)
    BY <1>3, NameIsFree
  <2> HIDE DEF free
  <2>2. e \in Missile /\ e.id = free
    BY <2>1 DEF Missile
  <2> HIDE DEF e
  <2>3. /\ long \in Seq(Missile) /\ Len(long) = m + 1 /\ DOMAIN long = 1 .. m + 1
        /\ \A k \in 1 .. m : long[k] = l[k]
        /\ long[m + 1] = e
    BY <1>1, <2>2, AppendOf
  <2>4. Launched(l, owner) = long
    BY <1>3 DEF Launched, free, e
  <2> HIDE DEF long
  <2>5. m + 1 <= CAPACITY
    BY <1>1, <1>3, CombatAssumption
  <2>6. \A k \in 1 .. m : l[k].id # free
    BY <1>1, <2>1 DEF Flying
  <2>7. ASSUME NEW i \in DOMAIN long, NEW j \in DOMAIN long, long[i].id = long[j].id
        PROVE  i = j
    <3>1. \A a, b \in 1 .. m : l[a].id = l[b].id => a = b
      BY <1>1 DEF Flock
    <3>2. CASE i \in 1 .. m /\ j \in 1 .. m
      BY <2>3, <2>7, <3>1, <3>2
    <3>3. CASE i = m + 1 \/ j = m + 1
      BY <2>2, <2>3, <2>6, <2>7, <3>3
    <3> QED BY <2>3, <3>2, <3>3
  <2>8. long \in Flock
    BY <2>3, <2>5, <2>7 DEF Flock
  <2>9. Begins(l, long)
    BY <1>1, <2>3 DEF Begins
  <2>10. long # l
    BY <1>1, <2>3
  <2> QED BY <2>4, <2>8, <2>9, <2>10
<1> QED BY <1>2, <1>3

\* What a removal leaves: one fewer, the last one in the place of the one removed.
LEMMA RemovalKeeps ==
    ASSUME NEW l \in Flock, NEW i \in DOMAIN l
    PROVE  /\ SwapRemoved(l, i) \in Flock /\ Len(SwapRemoved(l, i)) = Len(l) - 1
           /\ \A k \in DOMAIN SwapRemoved(l, i) :
                 IF k = i THEN SwapRemoved(l, i)[k] = l[Len(l)]
                 ELSE k \in DOMAIN l /\ SwapRemoved(l, i)[k] = l[k]
<1>1. PICK n \in Nat : Len(l) = n /\ DOMAIN l = 1 .. n /\ l \in Seq(Missile) /\ n <= CAPACITY
  BY DEF Flock
<1>2. PICK m \in Nat : n = m + 1 /\ n - 1 = m
  <2>1. n - 1 \in Nat /\ n = (n - 1) + 1
    BY <1>1
  <2> QED BY <2>1
<1> DEFINE r == SwapRemoved(l, i)
<1>3. r = [j \in 1 .. m |-> IF j = i THEN l[n] ELSE l[j]]
  BY <1>1, <1>2 DEF SwapRemoved
<1> HIDE DEF r
<1>4. DOMAIN r = 1 .. m /\ r = [j \in 1 .. m |-> r[j]]
      /\ \A k \in 1 .. m : r[k] = IF k = i THEN l[n] ELSE l[k]
  BY <1>3
<1>5. n \in 1 .. n /\ (\A k \in 1 .. m : k \in 1 .. n /\ k # n) /\ i \in 1 .. n
  BY <1>1, <1>2
<1>6. \A k \in 1 .. n : l[k] \in Missile
  BY <1>1
<1>7. \A k \in 1 .. m : r[k] \in Missile
  BY <1>4, <1>5, <1>6
<1>8. r \in Seq(Missile) /\ Len(r) = m
  BY <1>4, <1>7, SequenceOf
<1>9. ASSUME NEW a \in DOMAIN r, NEW b \in DOMAIN r, r[a].id = r[b].id
      PROVE  a = b
  <2>1. \A x, y \in 1 .. n : l[x].id = l[y].id => x = y
    BY <1>1 DEF Flock
  <2>2. a \in 1 .. m /\ b \in 1 .. m
    BY <1>4, <1>9
  <2>3. CASE a = i /\ b # i
    BY <1>4, <1>5, <1>9, <2>1, <2>2, <2>3
  <2>4. CASE a # i /\ b = i
    BY <1>4, <1>5, <1>9, <2>1, <2>2, <2>4
  <2>5. CASE a # i /\ b # i
    BY <1>4, <1>5, <1>9, <2>1, <2>2, <2>5
  <2> QED BY <2>3, <2>4, <2>5
<1>10. m <= CAPACITY
  BY <1>1, <1>2, CombatAssumption
<1>11. r \in Flock
  BY <1>8, <1>9, <1>10 DEF Flock
<1>12. \A k \in DOMAIN r : IF k = i THEN r[k] = l[n] ELSE k \in DOMAIN l /\ r[k] = l[k]
  BY <1>1, <1>4, <1>5
<1> QED BY <1>1, <1>2, <1>8, <1>11, <1>12 DEF r

-----------------------------------------------------------------------------
(* Bots.                                                                    *)

\* A hit leaves a bot with less health or none, and brings nobody back.
LEMMA HurtKeeps ==
    ASSUME NEW b \in BotState, NEW damage \in Nat
    PROVE  /\ Brain!Hurt(b, damage) \in BotState
           /\ ~Brain!Alive(b) => ~Brain!Alive(Brain!Hurt(b, damage))
<1>1. CASE b.health > damage
  <2>1. b.health - damage \in Nat
    BY <1>1 DEF BotState
  <2>2. Brain!Hurt(b, damage) = [b EXCEPT !.health = b.health - damage]
    BY <1>1 DEF Brain!Hurt
  <2> QED BY <2>1, <2>2 DEF BotState, Brain!Alive
<1>2. CASE ~(b.health > damage)
  <2>1. Brain!Hurt(b, damage) = [b EXCEPT !.health = 0, !.brain = "dead"]
    BY <1>2 DEF Brain!Hurt
  <2> DEFINE weak == [b EXCEPT !.health = 0]
             dead == [weak EXCEPT !.brain = "dead"]
  <2>2. "dead" \in Brain!Brains
    BY DEF Brain!Brains
  <2>3. weak \in BotState
    BY DEF BotState
  <2> HIDE DEF weak
  <2>4. dead \in BotState /\ dead.brain = "dead"
    BY <2>2, <2>3 DEF BotState
  <2>5. Brain!Hurt(b, damage) = dead
    BY <2>1 DEF weak
  <2> HIDE DEF dead
  <2> QED BY <2>4, <2>5 DEF Brain!Alive
<1> QED BY <1>1, <1>2

\* Thinking neither kills nor wakes.
LEMMA ThinksKeeps ==
    ASSUME NEW b \in BotState, NEW sees \in Brain!Sights, NEW lost \in Nat
    PROVE  /\ Brain!Thinks(b, sees, lost) \in Brain!Brains
           /\ Brain!Thinks(b, sees, lost) = "dead" <=> b.brain = "dead"
  BY CombatAssumption DEF BotState, Brain!Thinks, Brain!Brains, Brain!Sights

\* A tick keeps a bot a bot, alive or dead.
LEMMA TickedKeeps ==
    ASSUME NEW b \in BotState, NEW sees \in Brain!Sights, NEW volley \in Volleys
    PROVE  /\ Brain!Ticked(b, sees, volley).bot \in BotState
           /\ Brain!Ticked(b, sees, volley).shoots \in BOOLEAN
           /\ Brain!Alive(Brain!Ticked(b, sees, volley).bot) <=> Brain!Alive(b)
<1>1. CASE ~Brain!Alive(b)
  <2> DEFINE seen == Brain!Min2(b.shown + 1, POSE)
  <2>1. seen \in Nat
    BY CombatAssumption DEF BotState, Brain!Min2
  <2> HIDE DEF seen
  <2>2. Brain!Ticked(b, sees, volley) = [bot |-> [b EXCEPT !.shown = seen], shoots |-> FALSE]
    BY <1>1 DEF Brain!Ticked, seen
  <2> QED BY <2>1, <2>2 DEF BotState, Brain!Alive
<1>2. CASE Brain!Alive(b)
  <2> DEFINE lost == IF sees # "none" THEN 0 ELSE Brain!Min2(b.lost + 1, LOSE + 1)
             brain == Brain!Thinks(b, sees, lost)
             refilled == Brain!Refilled(b)
             now == [refilled EXCEPT !.lost = lost, !.sees = sees, !.brain = brain]
  <2>1. lost \in Nat
    BY CombatAssumption DEF BotState, Brain!Min2
  <2> HIDE DEF lost
  <2>2. brain \in Brain!Brains /\ (brain = "dead" <=> b.brain = "dead")
    BY <2>1, ThinksKeeps
  <2>3. refilled \in BotState
    <3>1. /\ Brain!Less(b.left) \in Nat /\ Brain!Min2(b.shown + 1, POSE) \in Nat
          /\ (IF b.left = 1 THEN BOT_MAG ELSE b.mag) \in Nat
      BY CombatAssumption DEF BotState, Brain!Less, Brain!Min2
    <3> HIDE DEF Brain!Less, Brain!Min2
    <3> QED BY <3>1 DEF Brain!Refilled, BotState
  <2> HIDE DEF brain, refilled
  <2>4. now \in BotState /\ now.brain = brain
    BY <2>1, <2>2, <2>3 DEF BotState
  <2> HIDE DEF now
  <2>5. Brain!Ticked(b, sees, volley) =
          IF now.brain = "attack" THEN Brain!Attacks(now, volley)
          ELSE [bot |-> now, shoots |-> FALSE]
    BY <1>2 DEF Brain!Ticked, now, refilled, brain, lost
  <2>6. CASE now.brain # "attack"
    BY <2>2, <2>4, <2>5, <2>6 DEF Brain!Alive
  <2>7. CASE now.brain = "attack"
    <3> DEFINE left == IF Brain!StartsReload(now) THEN BOT_RELOAD ELSE now.left
               waited == [now EXCEPT !.wait = Brain!Less(now.wait), !.left = left]
               ready == waited.wait = 0 /\ now.sees # "none" /\ waited.mag > 0 /\ waited.left = 0
    <3>1. Brain!Less(now.wait) \in Nat /\ left \in Nat
      BY <2>4, CombatAssumption DEF BotState, Brain!Less
    <3> HIDE DEF left
    <3>2. waited \in BotState /\ waited.brain = now.brain
      BY <2>4, <3>1 DEF BotState
    <3>3. Brain!Attacks(now, volley) =
            [bot |-> IF ready THEN [waited EXCEPT !.wait = volley, !.mag = waited.mag - 1, !.shown = 0]
                     ELSE waited,
             shoots |-> ready]
      BY DEF Brain!Attacks, left
    <3> HIDE DEF waited
    <3>4. ready => waited.mag - 1 \in Nat /\ volley \in Nat
      BY <3>2, CombatAssumption DEF BotState
    <3>5. ready \in BOOLEAN
      OBVIOUS
    <3> HIDE DEF ready
    <3>6. CASE ready
      <4> DEFINE waits == [waited EXCEPT !.wait = volley]
                 spent == [waits EXCEPT !.mag = waited.mag - 1]
                 fired == [spent EXCEPT !.shown = 0]
      <4>1. waits \in BotState /\ waits.brain = waited.brain
        BY <3>2, <3>4, <3>6 DEF BotState
      <4> HIDE DEF waits
      <4>2. spent \in BotState /\ spent.brain = waited.brain
        BY <3>4, <3>6, <4>1 DEF BotState
      <4> HIDE DEF spent
      <4>3. fired \in BotState /\ fired.brain = waited.brain
        BY <4>2 DEF BotState
      <4>4. Brain!Attacks(now, volley) = [bot |-> fired, shoots |-> TRUE]
        BY <3>3, <3>6 DEF spent, waits
      <4> HIDE DEF fired
      <4> QED BY <2>2, <2>4, <2>5, <2>7, <3>2, <4>3, <4>4 DEF Brain!Alive
    <3>7. CASE ~ready
      BY <2>2, <2>4, <2>5, <2>7, <3>2, <3>3, <3>5, <3>7 DEF Brain!Alive
    <3> QED BY <3>6, <3>7
  <2> QED BY <2>6, <2>7
<1> QED BY <1>1, <1>2

\* The turns of the bots: each ticks once, what they throw goes to the end of the
\* list, and nobody dies or wakes.
LEMMA BotsTickedKeeps ==
    ASSUME NEW q, q.bots \in Squad, q.list \in Flock,
           NEW sees \in [DOMAIN q.bots -> Brain!Sights], NEW volley \in Volleys, NEW lucky
    PROVE  LET r == BotsTicked(q, sees, volley, lucky)
           IN  /\ r.bots \in Squad /\ Len(r.bots) = Len(q.bots)
               /\ \A n \in DOMAIN q.bots : Brain!Alive(r.bots[n]) <=> Brain!Alive(q.bots[n])
               /\ r.list \in Flock /\ Begins(q.list, r.list)
               /\ r.incoming \in Nat
<1>1. PICK N \in Nat : Len(q.bots) = N /\ DOMAIN q.bots = 1 .. N /\ N <= MAX_BOTS
                       /\ q.bots \in Seq(BotState)
  BY DEF Squad
<1> DEFINE Turned(a) ==
             /\ a.bots \in Seq(BotState) /\ Len(a.bots) = N
             /\ \A n \in 1 .. N : Brain!Alive(a.bots[n]) <=> Brain!Alive(q.bots[n])
             /\ a.list \in Flock /\ Begins(q.list, a.list)
             /\ a.incoming \in Nat
           Q == {a \in [bots : Seq(BotState), list : Flock, incoming : Nat] : Turned(a)}
           P == [n \in 0 .. N |-> Q]
           Body(n, a) ==
             LET t == Brain!Ticked(a.bots[n], sees[n], volley)
                 counts == t.shoots /\ live
             IN  [bots |-> [a.bots EXCEPT ![n] = t.bot],
                  list |-> IF counts /\ throws THEN Launched(a.list, "bot") ELSE a.list,
                  incoming |-> IF counts /\ ~throws /\ lucky[n] THEN a.incoming + 1
                               ELSE a.incoming]
           start == [bots |-> q.bots, list |-> q.list, incoming |-> 0]
           after == CHOOSE f : f = [n \in 0 .. N |-> IF n = 0 THEN start ELSE Body(n, f[n - 1])]
           turn == [x \in (1 .. N) \X Q |-> Body(x[1], x[2])]
<1>2. start \in Q
  BY <1>1 DEF Begins
<1>3. ASSUME NEW n \in 1 .. N, NEW a \in Q
      PROVE  Body(n, a) \in Q
  <2> DEFINE t == Brain!Ticked(a.bots[n], sees[n], volley)
             counts == t.shoots /\ live
             list == IF counts /\ throws THEN Launched(a.list, "bot") ELSE a.list
             coming == IF counts /\ ~throws /\ lucky[n] THEN a.incoming + 1 ELSE a.incoming
             squad == [a.bots EXCEPT ![n] = t.bot]
  <2>1. a \in [bots : Seq(BotState), list : Flock, incoming : Nat] /\ Turned(a)
    BY <1>3
  <2>2. DOMAIN a.bots = 1 .. N /\ a.bots[n] \in BotState /\ sees[n] \in Brain!Sights
    BY <1>1, <1>3, <2>1
  <2>3. /\ t.bot \in BotState
        /\ Brain!Alive(t.bot) <=> Brain!Alive(a.bots[n])
    BY <2>2, TickedKeeps
  <2>4. list \in Flock /\ Begins(q.list, list)
    <3>1. Launched(a.list, "bot") \in Flock /\ Begins(a.list, Launched(a.list, "bot"))
      BY <2>1, LaunchAdds
    <3>2. Begins(q.list, Launched(a.list, "bot"))
      BY <2>1, <3>1, BeginsOn
    <3> HIDE DEF t, Turned
    <3> QED BY <2>1, <3>1, <3>2 DEF Turned
  <2>5. coming \in Nat
    BY <2>1
  <2> HIDE DEF t, list, coming
  <2>6. squad \in Seq(BotState) /\ Len(squad) = N /\ squad[n] = t.bot
        /\ \A k \in 1 .. N : k # n => squad[k] = a.bots[k]
    BY <2>1, <2>2, <2>3
  <2> HIDE DEF squad
  <2>7. \A k \in 1 .. N : Brain!Alive(squad[k]) <=> Brain!Alive(q.bots[k])
    BY <2>1, <2>3, <2>6
  <2>8. Body(n, a) = [bots |-> squad, list |-> list, incoming |-> coming]
    BY DEF squad, list, coming, t
  <2> HIDE DEF Body
  <2> QED BY <2>4, <2>5, <2>6, <2>7, <2>8
<1> HIDE DEF Turned, Body, start, Q
<1>4. \A n \in 1 .. N : \A a \in P[n - 1] : turn[<<n, a>>] \in P[n]
  <2>1. ASSUME NEW n \in 1 .. N, NEW a \in P[n - 1]
        PROVE  turn[<<n, a>>] \in P[n]
    <3>1. n - 1 \in 0 .. N /\ n \in 0 .. N
      OBVIOUS
    <3>2. a \in Q /\ P[n] = Q
      BY <3>1
    <3>3. turn[<<n, a>>] = Body(n, a)
      BY <3>2
    <3> QED BY <1>3, <3>2, <3>3
  <2> QED BY <2>1
<1>5. start \in P[0] /\ \A n \in 0 .. N : P[n] = Q
  BY <1>1, <1>2
<1> HIDE DEF P
<1>6. PICK f : IsLoop(f, N, start, turn) /\ Within(f, N, P)
  <2> HIDE DEF turn
  <2>1. start \in P[0] /\ StepsWithin(N, turn, P)
    BY <1>4, <1>5 DEF StepsWithin
  <2> QED BY <2>1, LoopExists
<1>7. f = [n \in 0 .. N |-> IF n = 0 THEN start ELSE Body(n, f[n - 1])]
  <2>1. ASSUME NEW n \in 0 .. N, n # 0
        PROVE  turn[<<n, f[n - 1]>>] = Body(n, f[n - 1])
    <3>1. n \in 1 .. N /\ n - 1 \in 0 .. N
      BY <2>1
    <3>2. f[n - 1] \in Q
      BY <1>5, <1>6, <3>1 DEF Within
    <3> QED BY <3>1, <3>2
  <2> HIDE DEF turn
  <2> QED BY <1>6, <2>1 DEF IsLoop
<1>8. after = [n \in 0 .. N |-> IF n = 0 THEN start ELSE Body(n, after[n - 1])]
  BY <1>7
<1> HIDE DEF after
<1>9. after[0] \in P[0] /\ \A n \in 1 .. N : after[n - 1] \in P[n - 1] => after[n] \in P[n]
  <2>1. after[0] = start
    BY <1>1, <1>8
  <2>2. ASSUME NEW n \in 1 .. N, after[n - 1] \in P[n - 1]
        PROVE  after[n] \in P[n]
    <3>1. n \in 0 .. N /\ n - 1 \in 0 .. N /\ n # 0
      OBVIOUS
    <3>2. after[n] = Body(n, after[n - 1])
      BY <1>8, <3>1
    <3> QED BY <1>3, <1>5, <2>2, <3>1, <3>2
  <2> QED BY <1>5, <2>1, <2>2
<1>10. after[N] \in Q
  <2>1. \A n \in 0 .. N : after[n] \in P[n]
    BY <1>9, TurnsKeep
  <2> QED BY <1>5, <2>1
<1>11. BotsTicked(q, sees, volley, lucky) = after[N]
  BY <1>1 DEF BotsTicked, after, Body, start
<1> QED BY <1>1, <1>10, <1>11 DEF Q, Turned, Squad

-----------------------------------------------------------------------------
(* Who fell, and what was told of it.                                       *)

\* The places in a list of hits that tell that bot n fell.
FallsOf(told, n) == {k \in DOMAIN told : told[k].bot = n /\ told[k].fatal}

\* Of the bots that fell since before the list tells once each, and of those that
\* lay there already nothing.
Told(before, now, told) ==
    /\ DOMAIN now = DOMAIN before
    /\ \A n \in DOMAIN before :
         /\ Cardinality(FallsOf(told, n)) =
              IF Brain!Alive(before[n]) /\ ~Brain!Alive(now[n]) THEN 1 ELSE 0
         /\ Brain!Alive(now[n]) => Brain!Alive(before[n])
         /\ ~Brain!Alive(before[n]) => \A k \in DOMAIN told : told[k].bot # n

\* A hit on a bot that stands is told of, and its fall if it falls.
LEMMA HitTold ==
    ASSUME NEW before \in Squad, NEW now \in Squad, NEW told \in Tidings, Told(before, now, told),
           NEW b \in DOMAIN now, Brain!Alive(now[b]), NEW damage \in Nat,
           NEW hurt, hurt = Brain!Hurt(now[b], damage)
    PROVE  LET after == [now EXCEPT ![b] = hurt]
               more == Append(told, [bot |-> b, fatal |-> ~Brain!Alive(hurt)])
           IN  /\ after \in Squad /\ Len(after) = Len(now)
               /\ more \in Tidings /\ Told(before, after, more)
<1> DEFINE after == [now EXCEPT ![b] = hurt]
           e == [bot |-> b, fatal |-> ~Brain!Alive(hurt)]
           more == Append(told, e)
<1>1. PICK N \in Nat : Len(now) = N /\ DOMAIN now = 1 .. N /\ N <= MAX_BOTS /\ now \in Seq(BotState)
  BY DEF Squad
<1>2. hurt \in BotState
  BY <1>1, HurtKeeps
<1>3. /\ after \in Seq(BotState) /\ Len(after) = N /\ DOMAIN after = 1 .. N /\ after[b] = hurt
      /\ \A n \in 1 .. N : n # b => after[n] = now[n]
  BY <1>1, <1>2
<1>4. e \in [bot : Nat, fatal : BOOLEAN] /\ e.bot = b /\ e.fatal = (~Brain!Alive(hurt))
  BY <1>1 DEF Brain!Alive
<1>5. PICK L \in Nat : Len(told) = L /\ DOMAIN told = 1 .. L
  BY DEF Tidings
<1> HIDE DEF e, after
<1>6. /\ more \in Tidings /\ DOMAIN more = 1 .. L + 1 /\ more[L + 1] = e
      /\ \A k \in 1 .. L : more[k] = told[k]
  BY <1>4, <1>5, AppendOf DEF Tidings
<1> HIDE DEF more
<1>7. ASSUME NEW n \in DOMAIN before
      PROVE  /\ n = b /\ e.fatal => FallsOf(more, n) = FallsOf(told, n) \cup {L + 1}
             /\ ~(n = b /\ e.fatal) => FallsOf(more, n) = FallsOf(told, n)
             /\ IsFiniteSet(FallsOf(told, n)) /\ L + 1 \notin FallsOf(told, n)
  <2>1. FallsOf(told, n) \subseteq 1 .. L /\ IsFiniteSet(1 .. L)
    BY <1>5, CountUpTo DEF FallsOf
  <2>2. IsFiniteSet(FallsOf(told, n))
    BY <2>1, FS_Subset
  <2>3. L + 1 \notin FallsOf(told, n)
    BY <2>1
  <2>4. \A k \in 1 .. L + 1 : k \in 1 .. L \/ k = L + 1
    OBVIOUS
  <2>5. \A k \in 1 .. L + 1 : k \in FallsOf(more, n) <=> more[k].bot = n /\ more[k].fatal
    BY <1>6 DEF FallsOf
  <2>6. \A k \in 1 .. L : k \in FallsOf(more, n) <=> k \in FallsOf(told, n)
    BY <1>5, <1>6, <2>5 DEF FallsOf
  <2>7. L + 1 \in FallsOf(more, n) <=> b = n /\ e.fatal
    BY <1>4, <1>6, <2>5
  <2>8. FallsOf(more, n) \subseteq 1 .. L + 1
    BY <1>6 DEF FallsOf
  <2> QED BY <2>1, <2>2, <2>3, <2>4, <2>6, <2>7, <2>8
<1>8. ASSUME NEW n \in DOMAIN before
      PROVE  /\ Cardinality(FallsOf(more, n)) =
                  IF Brain!Alive(before[n]) /\ ~Brain!Alive(after[n]) THEN 1 ELSE 0
             /\ Brain!Alive(after[n]) => Brain!Alive(before[n])
             /\ ~Brain!Alive(before[n]) => \A k \in DOMAIN more : more[k].bot # n
  <2>1. /\ Cardinality(FallsOf(told, n)) =
             IF Brain!Alive(before[n]) /\ ~Brain!Alive(now[n]) THEN 1 ELSE 0
        /\ Brain!Alive(now[n]) => Brain!Alive(before[n])
        /\ ~Brain!Alive(before[n]) => \A k \in DOMAIN told : told[k].bot # n
        /\ n \in 1 .. N
    BY <1>1 DEF Told
  <2>2. CASE n = b /\ e.fatal
    <3>1. Cardinality(FallsOf(told, n)) = 0 /\ Brain!Alive(before[n]) /\ ~Brain!Alive(after[n])
      BY <1>3, <1>4, <2>1, <2>2
    <3>2. Cardinality(FallsOf(told, n) \cup {L + 1}) = 0 + 1
      BY <1>7, <3>1, FS_AddElement
    <3>3. Cardinality(FallsOf(more, n)) = 1
      BY <1>7, <2>2, <3>2
    <3> QED BY <3>1, <3>3
  <2>3. CASE n = b /\ ~e.fatal
    <3>1. Cardinality(FallsOf(more, n)) = 0 /\ Brain!Alive(before[n]) /\ Brain!Alive(after[n])
      BY <1>3, <1>4, <1>7, <2>1, <2>3
    <3> QED BY <3>1
  <2>4. CASE n # b
    <3>1. Cardinality(FallsOf(more, n)) = Cardinality(FallsOf(told, n)) /\ after[n] = now[n]
      BY <1>3, <1>7, <2>1, <2>4
    <3>2. ASSUME ~Brain!Alive(before[n]), NEW k \in DOMAIN more
          PROVE  more[k].bot # n
      <4>1. k \in 1 .. L \/ k = L + 1
        BY <1>6
      <4> QED BY <1>4, <1>5, <1>6, <2>1, <2>4, <3>2, <4>1
    <3> QED BY <2>1, <3>1, <3>2
  <2> QED BY <2>2, <2>3, <2>4
<1>9. Told(before, after, more)
  <2>1. DOMAIN after = DOMAIN before
    BY <1>1, <1>3 DEF Told
  <2> QED BY <1>8, <2>1 DEF Told
<1> QED BY <1>1, <1>3, <1>6, <1>9 DEF Squad, after, more, e

-----------------------------------------------------------------------------
(* What flies.                                                              *)

\* The loop over the list stands at s.i: what is before it has flown on since
\* the list was first, what is not has not.
FlownTo(first, q) ==
    /\ q.list \in Flock /\ q.i \in 1 .. Len(q.list) + 1
    /\ \A k \in DOMAIN q.list : \E j \in DOMAIN first :
         /\ q.list[k].id = first[j].id
         /\ q.list[k].age = IF k < q.i THEN first[j].age + 1 ELSE first[j].age

\* The state of the loop, for the bots before the tick and the list before it.
Sweeping(before, first, q) ==
    /\ FlownTo(first, q)
    /\ q.bots \in Squad /\ q.hits \in Tidings /\ Told(before, q.bots, q.hits)
    /\ q.incoming \in Nat

\* A turn of the loop that removes a projectile.
LEMMA RemovalFlown ==
    ASSUME NEW first, NEW q, FlownTo(first, q), q.i \in DOMAIN q.list,
           NEW r, r.i = q.i, r.list = SwapRemoved(q.list, q.i)
    PROVE  FlownTo(first, r) /\ Len(r.list) = Len(q.list) - 1
<1>1. PICK n \in Nat : Len(q.list) = n /\ DOMAIN q.list = 1 .. n /\ q.list \in Flock
  BY DEF FlownTo, Flock
<1>2. /\ r.list \in Flock /\ Len(r.list) = n - 1
      /\ \A k \in DOMAIN r.list :
            IF k = q.i THEN r.list[k] = q.list[n]
            ELSE k \in DOMAIN q.list /\ r.list[k] = q.list[k]
  BY <1>1, RemovalKeeps
<1>3. r.i \in 1 .. Len(r.list) + 1 /\ n \in DOMAIN q.list /\ ~(n < q.i) /\ q.i \in 1 .. n
  BY <1>1, <1>2
<1>4. ASSUME NEW k \in DOMAIN r.list
      PROVE  \E j \in DOMAIN first :
               /\ r.list[k].id = first[j].id
               /\ r.list[k].age = IF k < r.i THEN first[j].age + 1 ELSE first[j].age
  <2>1. CASE k = q.i
    <3>1. PICK j \in DOMAIN first :
            /\ q.list[n].id = first[j].id
            /\ q.list[n].age = IF n < q.i THEN first[j].age + 1 ELSE first[j].age
      BY <1>3 DEF FlownTo
    <3>2. r.list[k] = q.list[n] /\ ~(k < r.i)
      BY <1>2, <1>3, <2>1
    <3> QED BY <1>3, <3>1, <3>2
  <2>2. CASE k # q.i
    <3>1. k \in DOMAIN q.list /\ r.list[k] = q.list[k]
      BY <1>2, <2>2
    <3>2. PICK j \in DOMAIN first :
            /\ q.list[k].id = first[j].id
            /\ q.list[k].age = IF k < q.i THEN first[j].age + 1 ELSE first[j].age
      BY <3>1 DEF FlownTo
    <3> QED BY <3>1, <3>2
  <2> QED BY <2>1, <2>2
<1> QED BY <1>1, <1>2, <1>3, <1>4 DEF FlownTo

\* A turn of the loop in which a projectile flies on.
LEMMA FlightFlown ==
    ASSUME NEW first, NEW q, FlownTo(first, q), q.i \in DOMAIN q.list,
           NEW p, p = [q.list[q.i] EXCEPT !.age = q.list[q.i].age + 1],
           NEW r, r.i = q.i + 1, r.list = [q.list EXCEPT ![q.i] = p]
    PROVE  FlownTo(first, r) /\ Len(r.list) = Len(q.list)
<1>1. PICK n \in Nat : /\ Len(q.list) = n /\ DOMAIN q.list = 1 .. n /\ q.list \in Flock
                       /\ q.list \in Seq(Missile)
  BY DEF FlownTo, Flock
<1>2. PICK i \in 1 .. n : q.i = i
  BY <1>1
<1>3. PICK old \in Missile : q.list[i] = old
  BY <1>1
<1>4. p \in Missile /\ p.id = old.id /\ p.age = old.age + 1
  BY <1>2, <1>3 DEF Missile
<1>5. /\ r.list \in Seq(Missile) /\ Len(r.list) = n /\ DOMAIN r.list = 1 .. n /\ r.list[i] = p
      /\ \A k \in 1 .. n : k # i => r.list[k] = q.list[k]
  BY <1>1, <1>2, <1>4
<1>6. \A k \in 1 .. n : r.list[k].id = q.list[k].id
  BY <1>3, <1>4, <1>5
<1>7. r.list \in Flock
  <2>1. \A a, b \in 1 .. n : q.list[a].id = q.list[b].id => a = b
    BY <1>1 DEF Flock
  <2>2. n <= CAPACITY
    BY <1>1 DEF Flock
  <2>3. \A a, b \in DOMAIN r.list : r.list[a].id = r.list[b].id => a = b
    BY <1>5, <1>6, <2>1
  <2> QED BY <1>5, <2>2, <2>3 DEF Flock
<1>8. r.i = i + 1 /\ r.i \in 1 .. n + 1
  BY <1>2
<1>9. ASSUME NEW k \in 1 .. n
      PROVE  \E j \in DOMAIN first :
               /\ r.list[k].id = first[j].id
               /\ r.list[k].age = IF k < r.i THEN first[j].age + 1 ELSE first[j].age
  <2>1. PICK j \in DOMAIN first :
          /\ q.list[k].id = first[j].id
          /\ q.list[k].age = IF k < i THEN first[j].age + 1 ELSE first[j].age
    BY <1>1, <1>2 DEF FlownTo
  <2>2. CASE k = i
    BY <1>3, <1>4, <1>5, <1>8, <2>1, <2>2
  <2>3. CASE k # i
    <3>1. k < r.i <=> k < i
      BY <1>8, <2>3
    <3> QED BY <1>5, <2>1, <2>3, <3>1
  <2> QED BY <2>2, <2>3
<1> QED BY <1>1, <1>5, <1>7, <1>8, <1>9 DEF FlownTo

\* A turn of the loop.
LEMMA SweepKeeps ==
    ASSUME NEW before \in Squad, NEW first \in Flock, NEW q, Sweeping(before, first, q),
           q.i \in DOMAIN q.list,
           NEW fate \in [Flying(first) -> Fates], NEW damage \in [Flying(first) -> Damages]
    PROVE  LET r == Sweep(q, fate, damage)
           IN  /\ Sweeping(before, first, r)
               /\ r \in [i : Nat, list : Flock, bots : Squad, hits : Tidings, incoming : Nat]
               /\ Len(r.list) - r.i + 1 = Len(q.list) - q.i
<1> DEFINE p == [q.list[q.i] EXCEPT !.age = Min2(q.list[q.i].age + 1, LIFETIME)]
           f == fate[p.id]
           struck == HitsBot(q, p, f)
           gone == f = Cover \/ struck \/ HitsPlayer(p, f) \/ p.age = LIFETIME
           hurt == Brain!Hurt(q.bots[f], damage[p.id])
           list == IF gone THEN SwapRemoved(q.list, q.i) ELSE [q.list EXCEPT ![q.i] = p]
           now == IF struck THEN [q.bots EXCEPT ![f] = hurt] ELSE q.bots
           hit == IF struck THEN Append(q.hits, [bot |-> f, fatal |-> ~Brain!Alive(hurt)]) ELSE q.hits
           coming == IF HitsPlayer(p, f) THEN q.incoming + 1 ELSE q.incoming
           r == [i |-> Place(q.i, gone), list |-> list, bots |-> now, hits |-> hit,
                 incoming |-> coming]
<1>1. Sweep(q, fate, damage) = r
  BY DEF Sweep
<1>2. PICK n \in Nat : Len(q.list) = n /\ DOMAIN q.list = 1 .. n /\ q.list \in Seq(Missile)
  BY DEF Sweeping, FlownTo, Flock
<1>3. PICK i \in 1 .. n : q.i = i
  BY <1>2
<1>4. PICK old \in Missile : q.list[i] = old
  BY <1>2
<1>5. old.age \in Nat /\ LIFETIME \in Nat /\ Min2(old.age + 1, LIFETIME) \in Nat
      /\ (Min2(old.age + 1, LIFETIME) # LIFETIME => Min2(old.age + 1, LIFETIME) = old.age + 1)
  BY CombatAssumption DEF Missile, Min2
<1>6. p.id = old.id /\ p.age = Min2(old.age + 1, LIFETIME)
  BY <1>3, <1>4 DEF Missile
<1>7. old.id \in Flying(first)
  <2>1. PICK j \in DOMAIN first : q.list[i].id = first[j].id
    BY <1>2, <1>3 DEF Sweeping, FlownTo
  <2> QED BY <1>4, <2>1 DEF Flying
<1>8. damage[p.id] \in Nat
  BY <1>6, <1>7, CombatAssumption
<1>9. /\ now \in Squad /\ hit \in Tidings /\ Told(before, now, hit)
  <2>1. q.bots \in Squad /\ q.hits \in Tidings /\ Told(before, q.bots, q.hits)
    BY DEF Sweeping
  <2>2. CASE struck
    <3>1. f \in DOMAIN q.bots /\ Brain!Alive(q.bots[f])
      BY <2>2 DEF HitsBot
    <3> HIDE DEF f, struck
    <3> QED BY <1>8, <2>1, <2>2, <3>1, HitTold
  <2>3. CASE ~struck
    <3> HIDE DEF struck
    <3> QED BY <2>1, <2>3
  <2> QED BY <2>2, <2>3
<1>10. coming \in Nat
  BY DEF Sweeping
<1> HIDE DEF now, hit, coming, hurt
<1>11. FlownTo(first, r) /\ Len(r.list) - r.i + 1 = n - i
  <2>1. FlownTo(first, q)
    BY DEF Sweeping
  <2>2. CASE gone
    <3>1. r.i = q.i /\ r.list = SwapRemoved(q.list, q.i)
      BY <2>2 DEF Place
    <3> HIDE DEF r, gone
    <3>2. FlownTo(first, r) /\ Len(r.list) = n - 1
      BY <1>2, <2>1, <3>1, RemovalFlown
    <3> QED BY <1>3, <3>1, <3>2
  <2>3. CASE ~gone
    <3>1. r.i = q.i + 1 /\ r.list = [q.list EXCEPT ![q.i] = p] /\ p.age # LIFETIME
      BY <2>3 DEF Place
    <3> HIDE DEF r, gone
    <3>2. p = [q.list[q.i] EXCEPT !.age = q.list[q.i].age + 1]
      BY <1>3, <1>4, <1>5, <1>6, <3>1
    <3> HIDE DEF p
    <3>3. FlownTo(first, r) /\ Len(r.list) = n
      BY <1>2, <2>1, <3>1, <3>2, FlightFlown
    <3> QED BY <1>3, <3>1, <3>3
  <2> QED BY <2>2, <2>3
<1>12. r.bots = now /\ r.hits = hit /\ r.incoming = coming
  OBVIOUS
<1>13. r.list \in Flock /\ r.i \in Nat
  <2>1. r.list \in Flock /\ r.i \in 1 .. Len(r.list) + 1
    BY <1>11 DEF FlownTo
  <2> HIDE DEF r
  <2>2. Len(r.list) \in Nat
    BY <2>1 DEF Flock
  <2> QED BY <2>1, <2>2
<1>14. r \in [i : Nat, list : Flock, bots : Squad, hits : Tidings, incoming : Nat]
  <2> HIDE DEF list, gone
  <2> QED BY <1>9, <1>10, <1>13
<1> HIDE DEF r
<1>15. Sweeping(before, first, r)
  BY <1>9, <1>10, <1>11, <1>12 DEF Sweeping
<1> QED BY <1>1, <1>2, <1>3, <1>11, <1>14, <1>15

\* The whole loop: it has a turn for each projectile that was there, and ends with
\* all that are left flown on.
LEMMA SweptKeeps ==
    ASSUME NEW before \in Squad, NEW first \in Flock, NEW start,
           start \in [i : Nat, list : Flock, bots : Squad, hits : Tidings, incoming : Nat],
           start.i = 1, start.list = first, Told(before, start.bots, start.hits),
           NEW fate \in [Flying(first) -> Fates], NEW damage \in [Flying(first) -> Damages]
    PROVE  LET end == Swept(start, fate, damage)
           IN  /\ Sweeping(before, first, end)
               /\ \A k \in DOMAIN end.list : k < end.i
<1> DEFINE N == CAPACITY
           U == [i : Nat, list : Flock, bots : Squad, hits : Tidings, incoming : Nat]
           Timely(q, n) == q.i = Len(q.list) + 1 \/ Len(q.list) + 1 - q.i + n <= N
           P == [n \in 0 .. N |-> {q \in U : Sweeping(before, first, q) /\ Timely(q, n)}]
           Body(q) == IF q.i > Len(q.list) THEN q ELSE Sweep(q, fate, damage)
           after == CHOOSE f : f = [n \in 0 .. N |-> IF n = 0 THEN start ELSE Body(f[n - 1])]
           turn == [x \in (1 .. N) \X U |-> Body(x[2])]
<1>0. N \in Nat
  BY CombatAssumption
<1>1. start \in P[0]
  <2>1. PICK m \in Nat : Len(first) = m /\ DOMAIN first = 1 .. m /\ m <= N /\ first \in Seq(Missile)
    BY DEF Flock
  <2>2. Timely(start, 0)
    BY <1>0, <2>1
  <2>3. ASSUME NEW k \in DOMAIN start.list
        PROVE  \E j \in DOMAIN first :
                 /\ start.list[k].id = first[j].id
                 /\ start.list[k].age = IF k < start.i THEN first[j].age + 1 ELSE first[j].age
    BY <2>1, <2>3
  <2>4. FlownTo(first, start)
    BY <2>1, <2>3 DEF FlownTo
  <2>5. Sweeping(before, first, start)
    BY <2>4 DEF Sweeping
  <2> HIDE DEF Timely, U
  <2>6. start \in U
    BY DEF U
  <2> QED BY <1>0, <2>2, <2>5, <2>6
<1>2. ASSUME NEW n \in 1 .. N, NEW q \in U, Sweeping(before, first, q), Timely(q, n - 1)
      PROVE  Body(q) \in U /\ Sweeping(before, first, Body(q)) /\ Timely(Body(q), n)
  <2>1. PICK m \in Nat : Len(q.list) = m /\ DOMAIN q.list = 1 .. m
    BY <1>2 DEF Flock
  <2>2. q.i \in 1 .. m + 1
    BY <1>2, <2>1 DEF Sweeping, FlownTo
  <2>3. CASE q.i > m
    <3>1. Body(q) = q /\ q.i = m + 1
      BY <2>1, <2>2, <2>3
    <3> QED BY <1>2, <2>1, <3>1
  <2>4. CASE ~(q.i > m)
    <3> DEFINE r == Sweep(q, fate, damage)
    <3>1. q.i \in DOMAIN q.list
      BY <2>1, <2>2, <2>4
    <3>2. /\ Sweeping(before, first, r) /\ r \in U
          /\ Len(r.list) - r.i + 1 = m - q.i
      BY <1>2, <2>1, <3>1, SweepKeeps, SMTT(30)
    <3>3. Body(q) = r
      BY <2>1, <2>4
    <3> HIDE DEF r
    <3>4. m + 1 - q.i + (n - 1) <= N
      BY <1>0, <1>2, <2>1, <2>2, <2>4
    <3>5. Len(r.list) \in Nat /\ r.i \in Nat
      BY <3>2 DEF Flock
    <3>6. Len(r.list) + 1 - r.i + n <= N
      BY <1>0, <2>2, <3>2, <3>4, <3>5, SMTT(30)
    <3> QED BY <3>2, <3>3, <3>6
  <2> QED BY <2>3, <2>4
<1> HIDE DEF U, Timely, Body
<1>3. \A n \in 0 .. N : \A q : q \in P[n] <=> q \in U /\ Sweeping(before, first, q) /\ Timely(q, n)
  OBVIOUS
<1> HIDE DEF P
<1>4. StepsWithin(N, turn, P)
  <2>1. ASSUME NEW n \in 1 .. N, NEW q \in P[n - 1]
        PROVE  turn[<<n, q>>] \in P[n]
    <3>1. n - 1 \in 0 .. N /\ n \in 0 .. N
      BY <1>0
    <3>2. q \in U /\ Sweeping(before, first, q) /\ Timely(q, n - 1)
      BY <1>3, <3>1
    <3>3. turn[<<n, q>>] = Body(q)
      BY <3>2
    <3> QED BY <1>2, <1>3, <3>1, <3>2, <3>3
  <2> HIDE DEF turn
  <2> QED BY <2>1 DEF StepsWithin
<1>5. PICK f : IsLoop(f, N, start, turn) /\ Within(f, N, P)
  <2> HIDE DEF turn, N
  <2> QED BY <1>0, <1>1, <1>4, LoopExists
<1>6. f = [n \in 0 .. N |-> IF n = 0 THEN start ELSE Body(f[n - 1])]
  <2>1. ASSUME NEW n \in 0 .. N, n # 0
        PROVE  turn[<<n, f[n - 1]>>] = Body(f[n - 1])
    <3>1. n \in 1 .. N /\ n - 1 \in 0 .. N
      BY <1>0, <2>1
    <3>2. f[n - 1] \in U
      BY <1>3, <1>5, <3>1 DEF Within
    <3> QED BY <3>1, <3>2
  <2> HIDE DEF turn, N
  <2> QED BY <1>5, <2>1 DEF IsLoop
<1>7. after = [n \in 0 .. N |-> IF n = 0 THEN start ELSE Body(after[n - 1])]
  BY <1>6
<1> HIDE DEF after
<1>8. after[0] \in P[0] /\ \A n \in 1 .. N : after[n - 1] \in P[n - 1] => after[n] \in P[n]
  <2>1. after[0] = start
    BY <1>0, <1>7
  <2>2. ASSUME NEW n \in 1 .. N, after[n - 1] \in P[n - 1]
        PROVE  after[n] \in P[n]
    <3>1. n \in 0 .. N /\ n - 1 \in 0 .. N /\ n # 0
      BY <1>0
    <3>2. after[n] = Body(after[n - 1])
      BY <1>7, <3>1
    <3> HIDE DEF N
    <3>3. after[n - 1] \in U /\ Sweeping(before, first, after[n - 1]) /\ Timely(after[n - 1], n - 1)
      BY <1>3, <2>2, <3>1
    <3>4. Body(after[n - 1]) \in U /\ Sweeping(before, first, Body(after[n - 1]))
          /\ Timely(Body(after[n - 1]), n)
      BY <1>2, <3>3
    <3> QED BY <1>3, <3>1, <3>2, <3>4
  <2> QED BY <1>1, <2>1, <2>2
<1> DEFINE end == after[N]
<1>9. end \in U /\ Sweeping(before, first, end) /\ Timely(end, N)
  <2> HIDE DEF N
  <2>1. \A n \in 0 .. N : after[n] \in P[n]
    BY <1>0, <1>8, TurnsKeep
  <2>2. N \in 0 .. N
    BY <1>0
  <2> QED BY <1>3, <2>1, <2>2
<1>10. Swept(start, fate, damage) = end
  BY DEF Swept, after, Body
<1> HIDE DEF end
<1>11. \A k \in DOMAIN end.list : k < end.i
  <2>1. PICK m \in Nat : Len(end.list) = m /\ DOMAIN end.list = 1 .. m
    BY <1>9 DEF Sweeping, FlownTo, Flock
  <2>2. end.i \in 1 .. m + 1
    BY <1>9, <2>1 DEF Sweeping, FlownTo
  <2>3. end.i = m + 1
    BY <1>0, <1>9, <2>1, <2>2 DEF Timely
  <2> QED BY <2>1, <2>3
<1> QED BY <1>9, <1>10, <1>11

-----------------------------------------------------------------------------
(* The rifle.                                                               *)

\* A gun whose magazine holds what it may.
Sound(g) == g \in GunState /\ g.ammo <= cfg.mag

\* A round is in the magazine or in the reserve.
Rounds(g) == g.ammo + g.reserve

\* The configuration of the weapon, by its fields.
LEMMA ConfigShape ==
    ASSUME cfg \in Configs
    PROVE  cfg.mag \in Nat /\ cfg.reserve \in Nat /\ cfg.interval \in Nat /\ cfg.reload \in Nat
  BY CombatAssumption

\* A tick of the timers moves rounds from the reserve to the magazine, at most.
LEMMA GunTickedKeeps ==
    ASSUME cfg \in Configs, NEW g, Sound(g)
    PROVE  Sound(GunTicked(g)) /\ Rounds(GunTicked(g)) = Rounds(g)
<1> DEFINE take == Min2(cfg.mag - g.ammo, g.reserve)
           cooldown == Less(g.cooldown)
           left == Less(g.left)
           cooler == [g EXCEPT !.cooldown = cooldown, !.left = left]
<1>1. /\ g.ammo \in Nat /\ g.reserve \in Nat /\ g.cooldown \in Nat /\ g.left \in Nat
      /\ g.ammo <= cfg.mag /\ cfg.mag \in Nat /\ g \in GunState
  BY ConfigShape DEF Sound, GunState
<1>2. /\ take \in Nat /\ take <= g.reserve /\ g.ammo + take <= cfg.mag
      /\ cooldown \in Nat /\ left \in Nat
  BY <1>1 DEF Min2, Less
<1> HIDE DEF take, cooldown, left
<1>3. cooler \in GunState /\ cooler.ammo = g.ammo /\ cooler.reserve = g.reserve
  BY <1>1, <1>2 DEF GunState
<1>4. GunTicked(g) = IF g.left = 1
                     THEN [cooler EXCEPT !.ammo = cooler.ammo + take,
                                         !.reserve = cooler.reserve - take]
                     ELSE cooler
  BY DEF GunTicked, take, cooldown, left
<1> HIDE DEF cooler
<1>5. CASE g.left = 1
  <2> DEFINE more == [cooler EXCEPT !.ammo = cooler.ammo + take]
             full == [more EXCEPT !.reserve = cooler.reserve - take]
  <2>1. cooler.ammo + take \in Nat /\ cooler.reserve - take \in Nat
    BY <1>1, <1>2, <1>3
  <2>2. more \in GunState /\ more.ammo = g.ammo + take
    BY <1>3, <2>1 DEF GunState
  <2> HIDE DEF more
  <2>3. full \in GunState /\ full.ammo = g.ammo + take /\ full.reserve = g.reserve - take
    BY <1>3, <2>1, <2>2 DEF GunState
  <2>4. GunTicked(g) = full
    BY <1>4, <1>5 DEF more
  <2> HIDE DEF full
  <2> QED BY <1>1, <1>2, <2>3, <2>4 DEF Sound, Rounds
<1>6. CASE g.left # 1
  BY <1>1, <1>3, <1>4, <1>6 DEF Sound, Rounds
<1> QED BY <1>5, <1>6

\* To begin a reload moves nothing.
LEMMA ReloadingKeeps ==
    ASSUME cfg \in Configs, NEW g, Sound(g)
    PROVE  Sound(Reloading(g)) /\ Rounds(Reloading(g)) = Rounds(g)
  BY ConfigShape DEF Sound, GunState, Rounds, Reloading

\* A shot takes one round out of the magazine.
LEMMA FiredKeeps ==
    ASSUME cfg \in Configs, NEW g, Sound(g), CanFire(g)
    PROVE  Sound(Fired(g)) /\ Rounds(Fired(g)) = Rounds(g) - 1
<1> DEFINE less == [g EXCEPT !.ammo = g.ammo - 1]
<1>1. g.ammo \in Nat /\ g.ammo > 0 /\ g.ammo <= cfg.mag /\ g.reserve \in Nat /\ cfg.mag \in Nat
      /\ cfg.interval \in Nat /\ g.ammo - 1 \in Nat
  BY ConfigShape DEF Sound, GunState, CanFire
<1>2. less \in GunState /\ less.ammo = g.ammo - 1 /\ less.reserve = g.reserve
  BY <1>1 DEF Sound, GunState
<1>3. Fired(g) = [less EXCEPT !.cooldown = cfg.interval]
  BY DEF Fired
<1> HIDE DEF less
<1>4. Fired(g) \in GunState /\ Fired(g).ammo = g.ammo - 1 /\ Fired(g).reserve = g.reserve
  BY <1>1, <1>2, <1>3 DEF GunState
<1> QED BY <1>1, <1>4 DEF Sound, Rounds

\* Before anything is told, nobody fell.
LEMMA NothingTold == bots \in Squad => Told(bots, bots, <<>>) /\ <<>> \in Tidings
<1> SUFFICES ASSUME bots \in Squad PROVE Told(bots, bots, <<>>) /\ <<>> \in Tidings
  OBVIOUS
<1>1. \A n : FallsOf(<<>>, n) = {}
  BY DEF FallsOf
<1>2. Cardinality({}) = 0
  BY FS_EmptySet
<1>3. <<>> \in Tidings /\ DOMAIN <<>> = {}
  BY DEF Tidings
<1> QED BY <1>1, <1>2, <1>3 DEF Told

\* What the player's turn leaves of the gun g: as many rounds as before but for
\* the one that was shot, which went somewhere.
TurnOf(mine, g) ==
    /\ Sound(mine.gun)
    /\ Rounds(mine.gun) = Rounds(g) - (IF mine.shot = "none" THEN 0 ELSE 1)
    /\ mine.shot # "lost"
    /\ mine.list \in Flock /\ Begins(flight, mine.list)
    /\ mine.bots \in Squad /\ Len(mine.bots) = Len(bots)
    /\ mine.hits \in Tidings /\ Told(bots, mine.bots, mine.hits)

\* The player's shot.
LEMMA PlayerShotsKeep ==
    ASSUME CombatInv, NEW g, Sound(g), NEW mine \in PlayerShots(g)
    PROVE  TurnOf(mine, g)
<1> DEFINE fired == Fired(g)
           launched == Launched(flight, "player")
<1>1. cfg \in Configs /\ bots \in Squad /\ flight \in Flock /\ Rounds(g) \in Int
  BY DEF CombatInv, Sound, GunState, Rounds
<1>2. Begins(flight, flight) /\ Told(bots, bots, <<>>) /\ <<>> \in Tidings
  BY <1>1, NothingTold DEF Begins, Flock
<1>3. TurnOf(Turn(g, "none", flight, bots, <<>>), g)
  BY <1>1, <1>2 DEF TurnOf, Turn
<1>4. Ready(g) => Sound(fired) /\ Rounds(fired) = Rounds(g) - 1
  BY <1>1, FiredKeeps DEF Ready
<1> HIDE DEF fired
<1>5. ASSUME Ready(g), NEW became \in {"stopped", "traced", "thrown"},
             NEW list, list \in Flock, Begins(flight, list),
             NEW squad, squad \in Squad, Len(squad) = Len(bots),
             NEW told, told \in Tidings, Told(bots, squad, told)
      PROVE  TurnOf(Turn(fired, became, list, squad, told), g)
  BY <1>1, <1>4, <1>5 DEF TurnOf, Turn
<1>6. \/ mine = Turn(g, "none", flight, bots, <<>>)
      \/ Ready(g) /\ throws /\ mine \in Thrown(fired)
      \/ Ready(g) /\ ~throws /\ mine \in Traced(fired)
  BY DEF PlayerShots, fired
<1>7. CASE Ready(g) /\ throws /\ mine \in Thrown(fired)
  <2>1. launched # flight /\ launched \in Flock /\ Begins(flight, launched)
    BY <1>1, <1>7, LaunchAdds DEF Ready
  <2>2. \/ mine = Turn(fired, "stopped", flight, bots, <<>>)
        \/ mine = Turn(fired, IF launched = flight THEN "lost" ELSE "thrown", launched, bots, <<>>)
    BY <1>7 DEF Thrown
  <2> HIDE DEF launched
  <2>3. \/ mine = Turn(fired, "stopped", flight, bots, <<>>)
        \/ mine = Turn(fired, "thrown", launched, bots, <<>>)
    BY <2>1, <2>2
  <2> QED BY <1>1, <1>2, <1>5, <1>7, <2>1, <2>3
<1>8. CASE Ready(g) /\ ~throws /\ mine \in Traced(fired)
  <2> DEFINE struck(n, hurt) ==
               Turn(fired, "traced", flight, [bots EXCEPT ![n] = hurt],
                    <<[bot |-> n, fatal |-> ~Brain!Alive(hurt)]>>)
             Standing == {m \in DOMAIN bots : Brain!Alive(bots[m])}
             Hits == {struck(n, Brain!Hurt(bots[n], damage)) : n \in Standing, damage \in Damages}
  <2>1. \/ mine = Turn(fired, "traced", flight, bots, <<>>)
        \/ mine \in Hits
    BY <1>8 DEF Traced
  <2>2. CASE mine = Turn(fired, "traced", flight, bots, <<>>)
    BY <1>1, <1>2, <1>5, <1>8, <2>2
  <2>3. CASE mine \in Hits
    <3> HIDE DEF struck
    <3>1. PICK n \in Standing, damage \in Damages : mine = struck(n, Brain!Hurt(bots[n], damage))
      BY <2>3
    <3>2. PICK hurt : hurt = Brain!Hurt(bots[n], damage)
      OBVIOUS
    <3> DEFINE e == [bot |-> n, fatal |-> ~Brain!Alive(hurt)]
               now == [bots EXCEPT ![n] = hurt]
               told == <<>>
    <3>3. mine = Turn(fired, "traced", flight, now, <<e>>)
      BY <3>1, <3>2 DEF struck
    <3>4. damage \in Nat /\ n \in DOMAIN bots /\ Brain!Alive(bots[n])
      BY CombatAssumption
    <3>5. told \in Tidings /\ Told(bots, bots, told)
      BY <1>2
    <3>6. Append(told, e) = <<e>>
      OBVIOUS
    <3> HIDE DEF told
    <3>7. /\ now \in Squad /\ Len(now) = Len(bots)
          /\ Append(told, e) \in Tidings /\ Told(bots, now, Append(told, e))
      BY <1>1, <3>2, <3>4, <3>5, HitTold
    <3> HIDE DEF e, now
    <3> QED BY <1>1, <1>2, <1>5, <1>8, <3>3, <3>6, <3>7
  <2> HIDE DEF Hits
  <2> QED BY <2>1, <2>2, <2>3
<1> QED BY <1>3, <1>6, <1>7, <1>8

\* The player's turn.
LEMMA PlayerTurnsKeep ==
    ASSUME CombatInv, NEW mine \in PlayerTurns
    PROVE  TurnOf(mine, gun)
<1> DEFINE g == GunTicked(gun)
           reloading == Reloading(g)
<1>1. cfg \in Configs /\ Sound(gun)
  BY DEF CombatInv, MagazineHolds, Sound
<1>2. Sound(g) /\ Rounds(g) = Rounds(gun)
  BY <1>1, GunTickedKeeps
<1>3. mine \in PlayerShots(g) \/ mine \in PlayerShots(reloading)
  BY DEF PlayerTurns
<1> HIDE DEF g
<1>4. Sound(reloading) /\ Rounds(reloading) = Rounds(gun)
  BY <1>1, <1>2, ReloadingKeeps
<1> HIDE DEF reloading
<1>5. TurnOf(mine, g) \/ TurnOf(mine, reloading)
  BY <1>2, <1>3, <1>4, PlayerShotsKeep
<1> QED BY <1>2, <1>4, <1>5 DEF TurnOf

-----------------------------------------------------------------------------
(* The tick.                                                                *)

\* The turn of the bots after the player's: nobody dies of it, and what it throws
\* is at the end of the list.
LEMMA BotTurnsKeep ==
    ASSUME CombatInv, NEW mine, TurnOf(mine, gun), NEW theirs \in BotTurns(mine)
    PROVE  /\ theirs.list \in Flock /\ Begins(flight, theirs.list)
           /\ theirs.bots \in Squad /\ theirs.incoming \in Nat
           /\ Told(bots, theirs.bots, mine.hits)
<1> DEFINE Looks == [DOMAIN bots -> IF live /\ health > 0 THEN Brain!Sights ELSE {"none"}]
           Lucks == [DOMAIN bots -> IF throws THEN {FALSE} ELSE BOOLEAN]
<1>0. BotTurns(mine) = {BotsTicked(mine, sees, volley, lucky) :
                          sees \in Looks, volley \in Volleys, lucky \in Lucks}
  BY DEF BotTurns
<1> HIDE DEF Looks, Lucks
<1>1. PICK sees \in Looks, volley \in Volleys, lucky \in Lucks :
        theirs = BotsTicked(mine, sees, volley, lucky)
  BY <1>0
<1>2. mine.bots \in Squad /\ mine.list \in Flock /\ Begins(flight, mine.list)
      /\ flight \in Flock /\ Told(bots, mine.bots, mine.hits)
  BY DEF TurnOf, CombatInv
<1>3. DOMAIN mine.bots = DOMAIN bots
  BY <1>2 DEF Told
<1>4. sees \in [DOMAIN mine.bots -> Brain!Sights]
  BY <1>3 DEF Brain!Sights, Looks
<1>5. /\ theirs.bots \in Squad /\ Len(theirs.bots) = Len(mine.bots)
      /\ \A n \in DOMAIN mine.bots : Brain!Alive(theirs.bots[n]) <=> Brain!Alive(mine.bots[n])
      /\ theirs.list \in Flock /\ Begins(mine.list, theirs.list)
      /\ theirs.incoming \in Nat
  BY <1>1, <1>2, <1>4, BotsTickedKeeps
<1>6. Begins(flight, theirs.list)
  BY <1>2, <1>5, BeginsOn
<1>7. DOMAIN theirs.bots = DOMAIN mine.bots
  BY <1>2, <1>5 DEF Squad
<1>8. Told(bots, theirs.bots, mine.hits)
  BY <1>2, <1>3, <1>5, <1>7 DEF Told
<1> QED BY <1>5, <1>6, <1>8

\* What is left at the end of a tick, of a list there was before the sweep.
LeftOf(list, end) ==
    /\ end.list \in Flock /\ end.bots \in Squad /\ end.incoming \in Nat
    /\ Told(bots, end.bots, end.hits)
    /\ \A k \in DOMAIN end.list : \E j \in DOMAIN list :
         end.list[k].id = list[j].id /\ end.list[k].age = list[j].age + 1

\* The sweep, or the clearing of the air.
LEMMA LandingsKeep ==
    ASSUME CombatInv, NEW list \in Flock, NEW squad \in Squad, NEW told \in Tidings,
           NEW coming \in Nat, Told(bots, squad, told),
           NEW end \in Landings([i |-> 1, list |-> list, bots |-> squad, hits |-> told,
                                 incoming |-> coming])
    PROVE  LeftOf(list, end)
<1> DEFINE start == [i |-> 1, list |-> list, bots |-> squad, hits |-> told, incoming |-> coming]
<1>1. /\ start \in [i : Nat, list : Flock, bots : Squad, hits : Tidings, incoming : Nat]
      /\ start.i = 1 /\ start.list = list /\ start.bots = squad /\ start.hits = told
      /\ start.incoming = coming
  OBVIOUS
<1>2. end \in Landings(start)
  OBVIOUS
<1>3. CASE ~live
  <2>1. end = [start EXCEPT !.list = <<>>]
    BY <1>2, <1>3 DEF Landings
  <2>2. end.list = <<>> /\ end.bots = squad /\ end.hits = told /\ end.incoming = coming
    BY <2>1
  <2>3. <<>> \in Flock /\ DOMAIN <<>> = {}
    BY CombatAssumption DEF Flock
  <2> QED BY <2>2, <2>3 DEF LeftOf
<1> HIDE DEF start
<1>4. CASE live
  <2>1. PICK fate \in [Flying(start.list) -> Fates], damage \in [Flying(start.list) -> Damages] :
          end = Swept(start, fate, damage)
    BY <1>2, <1>4 DEF Landings
  <2>2. bots \in Squad
    BY DEF CombatInv
  <2>3. Sweeping(bots, list, end) /\ \A k \in DOMAIN end.list : k < end.i
    BY <1>1, <2>1, <2>2, SweptKeeps
  <2>4. ASSUME NEW k \in DOMAIN end.list
        PROVE  \E j \in DOMAIN list :
                 end.list[k].id = list[j].id /\ end.list[k].age = list[j].age + 1
    <3>1. k < end.i
      BY <2>3
    <3> QED BY <2>3, <3>1 DEF Sweeping, FlownTo
  <2>5. end.list \in Flock
    BY <2>3 DEF Sweeping, FlownTo
  <2> QED BY <2>3, <2>4, <2>5 DEF LeftOf, Sweeping
<1> QED BY <1>3, <1>4

\* The steps of Magazine and Struck.
RoundsKept ==
    ran' = "tick"
    => /\ gun'.ammo + gun'.reserve = gun.ammo + gun.reserve - (IF shot' = "none" THEN 0 ELSE 1)
       /\ shot' # "lost"

Flies ==
    \A i \in DOMAIN flight, j \in DOMAIN flight' :
      ran' = "tick" /\ flight[i].id = flight'[j].id => flight'[j].age = flight[i].age + 1

\* A tick.
LEMMA TickKeeps ==
    ASSUME CombatInv, CombatTick
    PROVE  CombatInv' /\ RoundsKept /\ Flies /\ Told(bots, bots', hits')
<1>1. PICK mine \in PlayerTurns : \E theirs \in BotTurns(mine) :
        \E end \in Landings([i |-> 1, list |-> theirs.list, bots |-> theirs.bots,
                             hits |-> mine.hits, incoming |-> theirs.incoming]) :
            /\ gun' = mine.gun /\ shot' = mine.shot
            /\ bots' = end.bots /\ flight' = end.list /\ hits' = end.hits
            /\ health' = IF end.incoming < health THEN health - end.incoming ELSE 0
            /\ ran' = "tick"
            /\ UNCHANGED <<throws, live, cfg, botCount>>
  BY DEF CombatTick
<1>2. PICK theirs \in BotTurns(mine) :
        \E end \in Landings([i |-> 1, list |-> theirs.list, bots |-> theirs.bots,
                             hits |-> mine.hits, incoming |-> theirs.incoming]) :
            /\ gun' = mine.gun /\ shot' = mine.shot
            /\ bots' = end.bots /\ flight' = end.list /\ hits' = end.hits
            /\ health' = IF end.incoming < health THEN health - end.incoming ELSE 0
            /\ ran' = "tick"
            /\ UNCHANGED <<throws, live, cfg, botCount>>
  BY <1>1
<1>3. PICK end \in Landings([i |-> 1, list |-> theirs.list, bots |-> theirs.bots,
                             hits |-> mine.hits, incoming |-> theirs.incoming]) :
            /\ gun' = mine.gun /\ shot' = mine.shot
            /\ bots' = end.bots /\ flight' = end.list /\ hits' = end.hits
            /\ health' = IF end.incoming < health THEN health - end.incoming ELSE 0
            /\ ran' = "tick"
            /\ UNCHANGED <<throws, live, cfg, botCount>>
  BY <1>2
<1>4. TurnOf(mine, gun)
  BY PlayerTurnsKeep
<1>5. /\ theirs.list \in Flock /\ Begins(flight, theirs.list)
      /\ theirs.bots \in Squad /\ theirs.incoming \in Nat
      /\ Told(bots, theirs.bots, mine.hits)
  BY <1>4, BotTurnsKeep
<1>6. mine.hits \in Tidings
  BY <1>4 DEF TurnOf
<1>7. LeftOf(theirs.list, end)
  BY <1>5, <1>6, LandingsKeep
<1>8. RoundsKept
  <2>1. Rounds(mine.gun) = Rounds(gun) - (IF mine.shot = "none" THEN 0 ELSE 1) /\ mine.shot # "lost"
    BY <1>4 DEF TurnOf
  <2>2. gun' = mine.gun /\ shot' = mine.shot
    BY <1>3
  <2>3. PICK one : one = IF shot' = "none" THEN 0 ELSE 1
    OBVIOUS
  <2>4. Rounds(mine.gun) = Rounds(gun) - one
    BY <2>1, <2>2, <2>3
  <2>5. mine.gun \in GunState /\ gun \in GunState /\ one \in {0, 1}
    BY <1>4, <2>3 DEF TurnOf, Sound, CombatInv
  <2>6. gun'.ammo + gun'.reserve = gun.ammo + gun.reserve - one
    BY <2>2, <2>4, <2>5 DEF Rounds, GunState
  <2> QED BY <2>1, <2>2, <2>3, <2>6 DEF RoundsKept
<1>9. Flies
  <2>1. ASSUME NEW i \in DOMAIN flight, NEW j \in DOMAIN end.list, flight[i].id = end.list[j].id
        PROVE  end.list[j].age = flight[i].age + 1
    <3>1. PICK m \in DOMAIN theirs.list :
            end.list[j].id = theirs.list[m].id /\ end.list[j].age = theirs.list[m].age + 1
      BY <1>7 DEF LeftOf
    <3>2. i \in DOMAIN theirs.list /\ theirs.list[i] = flight[i]
      BY <1>5 DEF Begins, Flock, CombatInv
    <3>3. i = m
      BY <1>5, <2>1, <3>1, <3>2 DEF Flock
    <3> QED BY <3>1, <3>2, <3>3
  <2> QED BY <1>3, <2>1 DEF Flies
<1>10. Told(bots, bots', hits')
  BY <1>3, <1>7 DEF LeftOf
<1>11. health' \in Nat
  BY <1>3, <1>7 DEF LeftOf, CombatInv
<1>12. gun' \in GunState /\ MagazineHolds'
  BY <1>3, <1>4 DEF TurnOf, Sound, MagazineHolds
<1>13. bots' \in Squad /\ flight' \in Flock
  BY <1>3, <1>7 DEF LeftOf
<1>14. CombatInv'
  BY <1>3, <1>11, <1>12, <1>13 DEF CombatInv
<1> QED BY <1>8, <1>9, <1>10, <1>14

-----------------------------------------------------------------------------
(* The commands, and the whole.                                             *)

\* Bots that have just come into being.
LEMMA SpawnedSquad ==
    ASSUME NEW n \in 0 .. MAX_BOTS
    PROVE  [k \in 1 .. n |-> Brain!Spawned] \in Squad
<1> DEFINE q == [k \in 1 .. n |-> Brain!Spawned]
<1>1. n \in Nat /\ n <= MAX_BOTS
  BY CombatAssumption
<1>2. Brain!Spawned \in BotState
  BY CombatAssumption DEF BotState, Brain!Spawned, Brain!Brains, Brain!Sights
<1>3. DOMAIN q = 1 .. n /\ q = [k \in 1 .. n |-> q[k]] /\ \A k \in 1 .. n : q[k] \in BotState
  BY <1>2
<1> HIDE DEF q
<1>4. q \in Seq(BotState) /\ Len(q) = n
  BY <1>1, <1>3, SequenceOf
<1> QED BY <1>1, <1>4 DEF Squad, q

\* A full gun is a sound one.
LEMMA LoadedSound ==
    ASSUME NEW c \in Configs
    PROVE  Loaded(c) \in GunState /\ Loaded(c).ammo = c.mag
  BY CombatAssumption DEF Loaded, GunState

\* Nothing flies in an empty sky.
LEMMA EmptySky == <<>> \in Flock
  BY CombatAssumption DEF Flock

\* Where a match begins.
LEMMA CombatInitial == CombatInit => CombatInv
<1> SUFFICES ASSUME CombatInit PROVE CombatInv
  OBVIOUS
<1>1. botCount \in 0 .. MAX_BOTS /\ bots \in Squad
  <2>1. botCount \in 0 .. MAX_BOTS
    BY CombatAssumption DEF CombatInit
  <2> QED BY <2>1, SpawnedSquad DEF CombatInit
<1>2. gun \in GunState /\ MagazineHolds
  <2>1. cfg \in Configs /\ gun = Loaded(cfg)
    BY DEF CombatInit
  <2>2. cfg.mag \in Nat
    BY <2>1, ConfigShape
  <2> QED BY <2>1, <2>2, LoadedSound DEF MagazineHolds
<1> QED BY <1>1, <1>2, EmptySky, CombatAssumption DEF CombatInit, CombatInv

\* A command of the script.
LEMMA CommandKeeps ==
    ASSUME CombatInv, Command
    PROVE  CombatInv' /\ ran' = "script"
<1>1. CASE \E l \in BOOLEAN : SetPhase(l)
  BY <1>1 DEF SetPhase, Quiet, CombatInv, MagazineHolds
<1>2. CASE ResetRound
  <2>1. bots' \in Squad
    BY <1>2, SpawnedSquad DEF ResetRound, CombatInv
  <2>2. gun' \in GunState /\ gun'.ammo = cfg.mag /\ cfg.mag \in Nat
    BY <1>2, LoadedSound, ConfigShape DEF ResetRound, CombatInv
  <2>3. MagazineHolds'
    BY <1>2, <2>2 DEF ResetRound, MagazineHolds
  <2> QED BY <1>2, <2>1, <2>2, <2>3, EmptySky, CombatAssumption DEF ResetRound, Quiet, CombatInv
<1>3. CASE \E n \in 1 .. MAX_BOTS + 1 : SetBotCount(n)
  <2>1. PICK n \in 1 .. MAX_BOTS + 1 : SetBotCount(n)
    BY <1>3
  <2>2. botCount' \in 0 .. MAX_BOTS
    BY <2>1, CombatAssumption DEF SetBotCount, Min2
  <2> QED BY <2>1, <2>2 DEF SetBotCount, Quiet, CombatInv, MagazineHolds
<1>4. CASE \E c \in Configs : ConfigureWeapon(c)
  <2>1. PICK c \in Configs : ConfigureWeapon(c)
    BY <1>4
  <2> DEFINE kept == Min2(gun.ammo, c.mag)
  <2>2. kept \in Nat /\ kept <= c.mag
    BY CombatAssumption DEF Min2, CombatInv, GunState
  <2> HIDE DEF kept
  <2>3. Refitted(c) = [gun EXCEPT !.ammo = kept]
    BY DEF Refitted, kept
  <2>4. Refitted(c) \in GunState /\ Refitted(c).ammo = kept
    BY <2>2, <2>3 DEF CombatInv, GunState
  <2>5. gun' \in GunState /\ MagazineHolds' /\ cfg' \in Configs
    BY <2>1, <2>2, <2>4 DEF ConfigureWeapon, MagazineHolds
  <2> QED BY <2>1, <2>5 DEF ConfigureWeapon, Quiet, CombatInv
<1> QED BY <1>1, <1>2, <1>3, <1>4 DEF Command

\* A step, of whichever kind.
LEMMA CombatStep ==
    ASSUME CombatInv, [CombatNext]_combatVars
    PROVE  /\ CombatInv'
           /\ combatVars' # combatVars =>
                RoundsKept /\ Flies /\ (ran' = "tick" => Told(bots, bots', hits'))
<1>1. CASE CombatTick
  BY <1>1, TickKeeps
<1>2. CASE Command
  BY <1>2, CommandKeeps DEF RoundsKept, Flies
<1>3. CASE UNCHANGED combatVars
  BY <1>3 DEF combatVars, CombatInv, MagazineHolds
<1> QED BY <1>1, <1>2, <1>3 DEF CombatNext

\* For every weapon, every number of bots and every mod that throws or traces, in
\* every order of commands and ticks: the magazine never holds more than the
\* configuration allows (the unsigned subtraction of a finished reload cannot
\* underflow), and no round appears or vanishes; none is lost for want of room.
THEOREM MagazineCorrect == CombatSpec => Magazine
<1>1. CombatInv /\ [CombatNext]_combatVars => CombatInv'
  BY CombatStep
<1>2. CombatInv => MagazineHolds
  BY DEF CombatInv
<1>3. CombatInv /\ [CombatNext]_combatVars
      => [ran' = "tick"
          => /\ gun'.ammo + gun'.reserve
                  = gun.ammo + gun.reserve - (IF shot' = "none" THEN 0 ELSE 1)
             /\ shot' # "lost"]_combatVars
  BY CombatStep DEF RoundsKept
<1> QED BY <1>1, <1>2, <1>3, CombatInitial, PTL DEF CombatSpec, Magazine, RoundsAccounted

\* For every number of bots, capacity and lifetime: after a tick each projectile
\* still in flight has flown exactly one tick further although removals reorder
\* the list under the loop, and a bot that falls is reported once and never again.
THEOREM StruckCorrect == CombatSpec => Struck
<1>1. CombatInv /\ [CombatNext]_combatVars => CombatInv'
  BY CombatStep
<1>2. CombatInv /\ [CombatNext]_combatVars
      => [\A i \in DOMAIN flight, j \in DOMAIN flight' :
            ran' = "tick" /\ flight[i].id = flight'[j].id
            => flight'[j].age = flight[i].age + 1]_combatVars
  BY CombatStep DEF Flies
<1>3. CombatInv /\ [CombatNext]_combatVars
      => [ran' = "tick" => \A n \in DOMAIN bots :
            LET fatal == {k \in DOMAIN hits' : hits'[k].bot = n /\ hits'[k].fatal}
            IN  /\ Cardinality(fatal) = IF Brain!Alive(bots[n]) /\ ~Brain!Alive(bots'[n]) THEN 1 ELSE 0
                /\ ~Brain!Alive(bots[n]) => \A k \in DOMAIN hits' : hits'[k].bot # n]_combatVars
  BY CombatStep DEF Told, FallsOf
<1> QED BY <1>1, <1>2, <1>3, CombatInitial, PTL DEF CombatSpec, Struck, FliesOnce, KilledOnce

-----------------------------------------------------------------------------
(* The menus.                                                               *)

Wishes == [kind : {"none", "load", "menu"}, map : 0 .. MAPS, mod : 0 .. MODS, net : BOOLEAN]
Worlds == [map : 0 .. MAPS, mod : 0 .. MODS, net : BOOLEAN, ready : BOOLEAN]

\* The menu waits for a map exactly while it is asked for or there, in the step
\* it was chosen in, so that nothing can be chosen anew; a world that was asked
\* for is the one chosen, and no wish to leave the world before is left behind.
MenuInv ==
    /\ Menus!TypeOK
    /\ inMenu \in BOOLEAN /\ crossplay \in BOOLEAN /\ failed \in BOOLEAN
    /\ intent \in Wishes /\ world \in Worlds
    /\ inMenu = (screen = "menu")
    /\ ~inMenu => menu = Menus!FreshMenu
    /\ crossplay => mod = 1
    /\ configured = mod
    /\ world # Menus!NoWorld => world.mod = mod /\ world.net = crossplay
    /\ world # Menus!NoWorld /\ inMenu =>
         intent.kind = "none" /\ menu.step = "map" /\ menu.loading = world.map /\ world.map # 0
    /\ intent.kind = "load" =>
         /\ inMenu /\ menu.step = "map" /\ menu.loading = intent.map /\ intent.map # 0
         /\ world = Menus!NoWorld
         /\ intent.mod = mod /\ intent.net = crossplay
    /\ inMenu /\ menu.loading # 0 =>
         menu.step = "map" /\ (intent.kind = "load" \/ world # Menus!NoWorld)

\* Where the host fails early or not at all: what it has is ready, and what it
\* failed to load is told to the menu that asked.
PromptInv ==
    /\ world # Menus!NoWorld => world.ready
    /\ failed => inMenu /\ menu.step = "map" /\ menu.error /\ menu.loading = 0
                 /\ world = Menus!NoWorld /\ intent.kind # "load"

\* The menus are the same for a host that fails late, but for what it acts on.
LEMMA MenusAlike ==
    /\ \A online \in BOOLEAN : LateMenus!SelectMode(online) = Menus!SelectMode(online)
    /\ \A m \in 1 .. MODS : LateMenus!ChooseMod(m) = Menus!ChooseMod(m)
    /\ \A m \in 1 .. MAPS : LateMenus!Deploy(m) = Menus!Deploy(m)
    /\ LateMenus!Back = Menus!Back /\ LateMenus!Quit = Menus!Quit
    /\ LateMenus!Dispatch = Menus!Dispatch /\ LateMenus!Upload = Menus!Upload
BY DEF LateMenus!SelectMode, Menus!SelectMode, LateMenus!ChooseMod, Menus!ChooseMod,
       LateMenus!Deploy, Menus!Deploy, LateMenus!Back, Menus!Back, LateMenus!Quit, Menus!Quit,
       LateMenus!Dispatch, Menus!Dispatch, LateMenus!Upload, Menus!Upload,
       LateMenus!At, Menus!At, LateMenus!Choose, Menus!Choose, LateMenus!MapError, Menus!MapError,
       LateMenus!Published, Menus!Published, LateMenus!SelectNetwork, Menus!SelectNetwork,
       LateMenus!SelectMod, Menus!SelectMod, LateMenus!SelectsMod, Menus!SelectsMod,
       LateMenus!AsksOnce, Menus!AsksOnce,
       LateMenus!NoWorld, Menus!NoWorld, LateMenus!NoMap, Menus!NoMap,
       LateMenus!FreshMenu, Menus!FreshMenu, LateMenus!NoIntent, Menus!NoIntent

\* A choice on the screens of the mode and of the pack, or a way back.
LEMMA MenuChooses ==
    ASSUME MenuInv,
           \/ \E online \in BOOLEAN : Menus!SelectMode(online)
           \/ \E m \in 1 .. MODS : Menus!ChooseMod(m)
           \/ Menus!Back
    PROVE  MenuInv' /\ (PromptInv => PromptInv')
<1> USE DEF Menus!NoMap, Menus!At, Menus!Choose
<1>0. MODS \in Nat \ {0} /\ MAPS \in Nat /\ Networks \in BOOLEAN
  BY LocalAssumption
<1>1. CASE \E online \in BOOLEAN : Menus!SelectMode(online)
  <2>1. PICK online \in BOOLEAN : Menus!SelectMode(online)
    BY <1>1
  <2>2. /\ inMenu /\ screen = "menu" /\ menu.step = "mode" /\ menu.loading = 0
        /\ world = Menus!NoWorld /\ intent.kind # "load"
    BY <2>1 DEF MenuInv, Menus!SelectMode
  <2>3. /\ crossplay' \in BOOLEAN /\ mod' \in 1 .. MODS /\ configured' = mod'
        /\ crossplay' => mod' = 1
    BY <1>0, <2>1, <2>2 DEF MenuInv, Menus!SelectMode, Menus!SelectNetwork, Menus!SelectMod, Menus!SelectsMod, Menus!TypeOK
  <2>4. /\ menu' \in [step : {"mode", "mod", "map"}, loading : 0 .. MAPS, error : BOOLEAN]
        /\ menu'.loading = 0 /\ UNCHANGED <<screen, inMenu, intent, world>> /\ failed' = FALSE
    BY <1>0, <2>1, <2>2 DEF MenuInv, Menus!SelectMode, Menus!TypeOK
  <2> QED BY <2>2, <2>3, <2>4 DEF MenuInv, PromptInv, Menus!TypeOK
<1>2. CASE \E m \in 1 .. MODS : Menus!ChooseMod(m)
  <2>1. PICK m \in 1 .. MODS : Menus!ChooseMod(m)
    BY <1>2
  <2>2. /\ inMenu /\ screen = "menu" /\ menu.step = "mod" /\ menu.loading = 0
        /\ world = Menus!NoWorld /\ intent.kind # "load"
    BY <2>1 DEF MenuInv, Menus!ChooseMod
  <2>3. crossplay' = FALSE /\ mod' = m /\ configured' = m
    BY <2>1, <2>2 DEF Menus!ChooseMod, Menus!SelectNetwork, Menus!SelectMod, Menus!SelectsMod
  <2>4. /\ menu' \in [step : {"mode", "mod", "map"}, loading : 0 .. MAPS, error : BOOLEAN]
        /\ menu'.loading = 0 /\ UNCHANGED <<screen, inMenu, intent, world>> /\ failed' = FALSE
    BY <1>0, <2>1, <2>2 DEF MenuInv, Menus!ChooseMod, Menus!TypeOK
  <2> QED BY <2>2, <2>3, <2>4 DEF MenuInv, PromptInv, Menus!TypeOK
<1>3. CASE Menus!Back
  <2>2. /\ inMenu /\ screen = "menu" /\ menu.loading = 0
        /\ world = Menus!NoWorld /\ intent.kind # "load"
    BY <1>3 DEF MenuInv, Menus!Back
  <2>4. /\ menu' \in [step : {"mode", "mod", "map"}, loading : 0 .. MAPS, error : BOOLEAN]
        /\ menu'.loading = 0 /\ UNCHANGED <<screen, inMenu, crossplay, mod, configured, intent, world>>
        /\ failed' = FALSE
    BY <1>0, <1>3, <2>2 DEF MenuInv, Menus!Back, Menus!TypeOK
  <2> QED BY <2>2, <2>4 DEF MenuInv, PromptInv, Menus!TypeOK
<1> QED BY <1>1, <1>2, <1>3

\* A map is asked for, the player leaves, or the screen follows the world.
LEMMA MenuAsks ==
    ASSUME MenuInv,
           (\E m \in 1 .. MAPS : Menus!Deploy(m)) \/ Menus!Quit \/ Menus!Dispatch
    PROVE  MenuInv' /\ (PromptInv => PromptInv')
<1> USE DEF Menus!NoMap, Menus!At
<1>0. MODS \in Nat \ {0} /\ MAPS \in Nat /\ Networks \in BOOLEAN
  BY LocalAssumption
<1>1. CASE \E m \in 1 .. MAPS : Menus!Deploy(m)
  <2>1. PICK m \in 1 .. MAPS : Menus!Deploy(m)
    BY <1>1
  <2>2. /\ inMenu /\ menu.step = "map" /\ menu.loading = 0
        /\ world = Menus!NoWorld /\ intent.kind # "load"
    BY <2>1 DEF MenuInv, Menus!Deploy, Menus!AsksOnce
  <2>3. m \in 0 .. MAPS /\ m # 0
    BY <1>0
  <2>4. menu \in [step : {"mode", "mod", "map"}, loading : 0 .. MAPS, error : BOOLEAN]
    BY DEF MenuInv, Menus!TypeOK
  <2>5. /\ menu' \in [step : {"mode", "mod", "map"}, loading : 0 .. MAPS, error : BOOLEAN]
        /\ menu'.step = "map" /\ menu'.loading = m
    <3>1. menu' = [menu EXCEPT !.loading = m, !.error = FALSE]
      BY <2>1 DEF Menus!Deploy
    <3> HIDE <1>1, <2>1
    <3> QED BY <2>2, <2>3, <2>4, <3>1
  <2>6. /\ intent' \in Wishes /\ intent'.kind = "load" /\ intent'.map = m
        /\ intent'.mod = mod /\ intent'.net = crossplay
    <3>1. intent' = [kind |-> "load", map |-> m, mod |-> mod, net |-> crossplay]
      BY <2>1 DEF MenuInv, Menus!Deploy
    <3>2. mod \in 0 .. MODS /\ crossplay \in BOOLEAN
      BY <1>0 DEF MenuInv, Menus!TypeOK
    <3> QED BY <2>3, <3>1, <3>2 DEF Wishes
  <2>7. UNCHANGED <<screen, inMenu, crossplay, mod, configured, world>> /\ failed' = FALSE
    BY <2>1 DEF Menus!Deploy
  <2> QED BY <2>2, <2>3, <2>5, <2>6, <2>7 DEF MenuInv, PromptInv, Menus!TypeOK
<1>2. CASE Menus!Quit
  <2>1. ~inMenu /\ intent' \in Wishes /\ intent'.kind = "menu"
    <3>1. 0 \in 0 .. MAPS /\ 0 \in 0 .. MODS /\ FALSE \in BOOLEAN
      BY <1>0
    <3>2. intent' = [kind |-> "menu", map |-> 0, mod |-> 0, net |-> FALSE] /\ ~inMenu
      BY <1>2 DEF Menus!Quit, Menus!NoIntent
    <3> QED BY <3>1, <3>2 DEF Wishes
  <2> QED BY <1>2, <2>1 DEF MenuInv, PromptInv, Menus!Quit, Menus!TypeOK
<1>3. CASE Menus!Dispatch
  <2>1. Menus!FreshMenu \in [step : {"mode", "mod", "map"}, loading : 0 .. MAPS, error : BOOLEAN]
        /\ Menus!FreshMenu.loading = 0
    BY <1>0 DEF Menus!FreshMenu
  <2>2. CASE world = Menus!NoWorld
    <3>1. /\ screen' = "menu" /\ inMenu' /\ menu' = IF inMenu THEN menu ELSE Menus!FreshMenu
          /\ UNCHANGED <<crossplay, mod, configured, intent, world, failed>>
      BY <1>3, <2>2 DEF Menus!Dispatch, Menus!Published
    <3> QED BY <2>1, <2>2, <3>1 DEF MenuInv, PromptInv, Menus!TypeOK
  <2>3. CASE world # Menus!NoWorld
    <3>1. /\ screen' = "round" /\ ~inMenu' /\ inMenu' \in BOOLEAN /\ menu' = Menus!FreshMenu
          /\ UNCHANGED <<crossplay, mod, configured, intent, world, failed>>
      BY <1>3, <2>3 DEF Menus!Dispatch, Menus!Published
    <3> QED BY <2>1, <2>3, <3>1 DEF MenuInv, PromptInv, Menus!TypeOK
  <2> QED BY <2>2, <2>3
<1> QED BY <1>1, <1>2, <1>3

\* A map that could not be loaded: the menu that asked for it shows the error.
LEMMA MenuHears ==
    ASSUME MenuInv, Menus!MapError, world' = Menus!NoWorld, failed' = TRUE,
           intent' \in Wishes, intent'.kind # "load", UNCHANGED <<crossplay, mod, configured>>
    PROVE  MenuInv' /\ (intent.kind = "load" => PromptInv')
<1>0. MODS \in Nat \ {0} /\ MAPS \in Nat /\ Networks \in BOOLEAN
  BY LocalAssumption
<1>1. /\ screen' = "menu" /\ inMenu' = TRUE
      /\ menu' \in [step : {"mode", "mod", "map"}, loading : 0 .. MAPS, error : BOOLEAN]
      /\ menu'.loading = 0 \/ (inMenu /\ menu.step # "map" /\ menu' = menu)
  <2>1. PICK r \in [step : {"mode", "mod", "map"}, loading : 0 .. MAPS, error : BOOLEAN] :
          /\ r = IF inMenu THEN menu ELSE Menus!FreshMenu
          /\ inMenu \/ r.loading = 0
    <3>1. 0 \in 0 .. MAPS
      BY <1>0
    <3>2. Menus!FreshMenu \in [step : {"mode", "mod", "map"}, loading : 0 .. MAPS, error : BOOLEAN]
          /\ Menus!FreshMenu.loading = 0
      BY <3>1 DEF Menus!FreshMenu, Menus!NoMap
    <3>3. menu \in [step : {"mode", "mod", "map"}, loading : 0 .. MAPS, error : BOOLEAN]
      BY DEF MenuInv, Menus!TypeOK
    <3> QED BY <3>2, <3>3 DEF MenuInv
  <2>2. /\ screen' = "menu" /\ inMenu' = TRUE
        /\ menu' = IF r.step = "map" THEN [r EXCEPT !.loading = 0, !.error = TRUE] ELSE r
    BY <2>1 DEF Menus!MapError, Menus!NoMap
  <2>3. 0 \in 0 .. MAPS
    BY <1>0
  <2> QED BY <2>1, <2>2, <2>3
<1>2. menu'.loading = 0
  BY <1>1 DEF MenuInv
<1>3. intent.kind = "load" => menu'.step = "map" /\ menu'.error
  BY <1>0 DEF MenuInv, Menus!MapError, Menus!TypeOK
<1>4. world' \in Worlds /\ world'.map = 0
  BY <1>0 DEF Menus!NoWorld, Menus!NoMap, Worlds
<1> QED BY <1>1, <1>2, <1>3, <1>4 DEF MenuInv, PromptInv, Menus!TypeOK

\* The host acts on an intent, or uploads what is left of a map.
LEMMA MenuHost ==
    ASSUME MenuInv, Menus!Act \/ LateMenus!Act \/ Menus!Upload
    PROVE  MenuInv' /\ (PromptInv /\ (Menus!Act \/ Menus!Upload) => PromptInv')
<1>0. MODS \in Nat \ {0} /\ MAPS \in Nat /\ Networks \in BOOLEAN
  BY LocalAssumption
<1>n. /\ Menus!NoIntent \in Wishes /\ Menus!NoIntent.kind = "none"
      /\ Menus!NoWorld \in Worlds /\ Menus!NoWorld.map = 0
  BY <1>0 DEF Menus!NoIntent, Wishes, Menus!NoMap, Menus!NoWorld, Worlds
<1>1. ASSUME NEW ready \in BOOLEAN,
             intent.kind = "load", intent' = Menus!NoIntent,
             world' = [map |-> intent.map, mod |-> intent.mod, net |-> intent.net, ready |-> ready],
             UNCHANGED <<screen, inMenu, menu, failed, crossplay, mod, configured>>
      PROVE  MenuInv' /\ (PromptInv /\ ready => PromptInv')
  <2>1. /\ world' \in Worlds /\ world'.map = intent.map /\ world'.mod = intent.mod
        /\ world'.net = intent.net /\ world'.ready = ready
    BY <1>0, <1>1 DEF MenuInv, Wishes, Worlds
  <2>2. world'.map # 0 /\ world'.map \in 0 .. MAPS /\ world' # Menus!NoWorld
    BY <1>1, <1>n, <2>1 DEF MenuInv, Worlds
  <2>3. intent'.kind = "none" /\ intent' \in Wishes
    BY <1>1, <1>n
  <2> QED BY <1>1, <2>1, <2>2, <2>3 DEF MenuInv, PromptInv, Menus!TypeOK
<1>2. ASSUME intent.kind = "load", intent' = Menus!NoIntent, world' = Menus!NoWorld, failed' = TRUE,
             Menus!MapError, UNCHANGED <<crossplay, mod, configured>>
      PROVE  MenuInv' /\ PromptInv'
  BY <1>2, <1>n, MenuHears
<1>3. ASSUME intent.kind = "menu", intent' = Menus!NoIntent, world' = Menus!NoWorld,
             UNCHANGED <<screen, inMenu, menu, failed, crossplay, mod, configured>>
      PROVE  MenuInv' /\ (PromptInv => PromptInv')
  <2>1. inMenu => menu.loading = 0
    BY <1>3 DEF MenuInv
  <2> QED BY <1>0, <1>3, <1>n, <2>1 DEF MenuInv, PromptInv, Menus!TypeOK
<1>4. CASE Menus!Act
  <2>1. \/ /\ intent.kind = "load"
           /\ world' = [map |-> intent.map, mod |-> intent.mod, net |-> intent.net, ready |-> TRUE]
           /\ UNCHANGED <<screen, inMenu, menu, failed>>
        \/ intent.kind = "load" /\ world' = Menus!NoWorld /\ failed' = TRUE /\ Menus!MapError
        \/ /\ intent.kind = "menu" /\ world' = Menus!NoWorld
           /\ UNCHANGED <<screen, inMenu, menu, failed>>
    BY <1>4 DEF Menus!Act
  <2>2. intent' = Menus!NoIntent /\ UNCHANGED <<crossplay, mod, configured>>
    BY <1>4 DEF Menus!Act
  <2> QED BY <1>1, <1>2, <1>3, <2>1, <2>2
<1>5. ASSUME LateMenus!Act PROVE MenuInv'
  <2>1. \/ /\ intent.kind = "load"
           /\ world' = [map |-> intent.map, mod |-> intent.mod, net |-> intent.net, ready |-> FALSE]
           /\ UNCHANGED <<screen, inMenu, menu, failed>>
        \/ intent.kind = "load" /\ world' = Menus!NoWorld /\ failed' = TRUE /\ Menus!MapError
        \/ /\ intent.kind = "menu" /\ world' = Menus!NoWorld
           /\ UNCHANGED <<screen, inMenu, menu, failed>>
    BY <1>5 DEF LateMenus!Act, LateMenus!NoWorld, Menus!NoWorld, LateMenus!NoMap, Menus!NoMap,
                LateMenus!MapError, Menus!MapError, LateMenus!FreshMenu, Menus!FreshMenu
  <2>2. intent' = Menus!NoIntent /\ UNCHANGED <<crossplay, mod, configured>>
    BY <1>5 DEF LateMenus!Act, LateMenus!NoIntent, Menus!NoIntent, LateMenus!NoMap, Menus!NoMap
  <2> QED BY <1>1, <1>2, <1>3, <1>5, <2>1, <2>2
<1>6. CASE Menus!Upload
  <2>1. world # Menus!NoWorld /\ ~world.ready /\ UNCHANGED <<crossplay, mod, configured, intent>>
    BY <1>6 DEF Menus!Upload
  <2>2. CASE world' = [world EXCEPT !.ready = TRUE] /\ UNCHANGED <<screen, inMenu, menu, failed>>
    <3>1. /\ world' \in Worlds /\ world'.map = world.map /\ world'.mod = world.mod
          /\ world'.net = world.net /\ world'.ready
      BY <2>2 DEF MenuInv, Worlds
    <3>2. world.map \in 0 .. MAPS /\ intent.kind # "load" /\ world' # Menus!NoWorld
      BY <2>1, <3>1 DEF MenuInv, Worlds, Menus!NoWorld
    <3> QED BY <2>1, <2>2, <3>1, <3>2 DEF MenuInv, PromptInv, Menus!TypeOK
  <2>3. CASE world' = Menus!NoWorld /\ failed' = TRUE /\ Menus!MapError
    <3>1. intent.kind # "load"
      BY <2>1 DEF MenuInv
    <3>2. ~PromptInv
      BY <2>1 DEF PromptInv
    <3>3. intent' \in Wishes
      BY <2>1 DEF MenuInv
    <3> QED BY <2>1, <2>3, <3>1, <3>2, <3>3, MenuHears
  <2> QED BY <1>6, <2>2, <2>3 DEF Menus!Upload
<1> QED BY <1>4, <1>5, <1>6

-----------------------------------------------------------------------------
(* The touch controls of a round.                                           *)

Owners == [role : Touch!Roles \cup {"none"}, valid : BOOLEAN, aim : BOOLEAN]
Inputs == [paused : BOOLEAN, fire : BOOLEAN, jump : BOOLEAN, walk : BOOLEAN,
           moving : BOOLEAN, reloadEdge : BOOLEAN, jumpEdge : BOOLEAN]

\* What the host was told is what contacts are: levels, not edges.
Tells(in, owned, moves, walks) ==
    /\ in.fire = Touch!Pressed(owned, "fire") /\ in.jump = Touch!Pressed(owned, "jump")
    /\ in.moving = moves /\ in.walk = walks

\* A role is owned by one finger, one finger aims, and the stick is pushed by its
\* owner.
Owns(owned, moves) ==
    /\ moves => \E f \in FINGERS : owned[f].role = "move"
    /\ \A f \in FINGERS : owned[f].role = "none" => owned[f] = Touch!Nobody
    /\ \A f, g \in FINGERS : f # g =>
         /\ owned[f].role = owned[g].role => owned[f] = Touch!Nobody
         /\ ~(owned[f].aim /\ owned[g].aim)

TouchTypes ==
    /\ step \in {"dispatch", "latch", "gestures"}
    /\ playing \in BOOLEAN /\ shown \in BOOLEAN /\ dialog \in BOOLEAN
    /\ moving \in BOOLEAN /\ walk \in BOOLEAN /\ active \in BOOLEAN
    /\ fingers \in [FINGERS -> AREAS \cup {"away", "lifted"}]
    /\ changed \in [FINGERS -> {"no", "down", "move", "up", "cancel"}]
    /\ ignored \subseteq FINGERS /\ heldDown = ignored
    /\ contacts \in [FINGERS -> Owners] /\ input \in Inputs

\* A finger has nothing to be heard of but while gestures are, and what it owns it
\* owns until it is heard to lift. The controls are active, as of the dispatch
\* before, or they were just mounted and ignore every finger that is down; only
\* while they are active is anything owned, pushed or toggled.
FingersFit ==
    /\ step # "gestures" => \A f \in FINGERS : changed[f] = "no"
    /\ \A f \in FINGERS :
         /\ changed[f] \in {"down", "move"} => fingers[f] # "lifted"
         /\ contacts[f] # Touch!Nobody /\ changed[f] \notin {"up", "cancel"} => fingers[f] # "lifted"
         /\ f \in ignored => contacts[f] = Touch!Nobody

ActiveFits ==
    /\ input.paused = dialog
    /\ ~Touch!Mounted => ignored = {}
    /\ active => playing /\ Touch!Mounted
    /\ step = "latch" => active = Touch!Enabled
    /\ Touch!Enabled /\ ~active => Touch!Down \subseteq ignored
    /\ ~active => contacts = Touch!NoContacts /\ ~moving /\ ~walk

TouchInv ==
    /\ TouchTypes /\ FingersFit /\ ActiveFits
    /\ Tells(input, contacts, moving, walk) /\ Owns(contacts, moving)

\* Nobody owns anything, and an input without levels says so.
LEMMA NobodyOwns ==
    /\ Touch!NoContacts \in [FINGERS -> Owners]
    /\ \A f \in FINGERS : Touch!NoContacts[f] = Touch!Nobody
    /\ Touch!Nobody \in Owners /\ Touch!Nobody.role = "none"
    /\ Owns(Touch!NoContacts, FALSE)
    /\ \A in \in Inputs :
         ~in.fire /\ ~in.jump /\ ~in.moving /\ ~in.walk
         => Tells(in, Touch!NoContacts, FALSE, FALSE)
    /\ Touch!NoInput \in Inputs /\ Tells(Touch!NoInput, Touch!NoContacts, FALSE, FALSE)
<1>1. Touch!Nobody \in Owners /\ Touch!Nobody.role = "none" /\ ~Touch!Nobody.aim
  BY DEF Touch!Nobody, Owners
<1>2. /\ Touch!NoContacts \in [FINGERS -> Owners]
      /\ \A f \in FINGERS : Touch!NoContacts[f] = Touch!Nobody
  BY <1>1 DEF Touch!NoContacts
<1>3. Owns(Touch!NoContacts, FALSE)
  BY <1>1, <1>2 DEF Owns
<1>4. ~Touch!Pressed(Touch!NoContacts, "fire") /\ ~Touch!Pressed(Touch!NoContacts, "jump")
  BY <1>1, <1>2 DEF Touch!Pressed
<1>5. \A in \in Inputs :
         ~in.fire /\ ~in.jump /\ ~in.moving /\ ~in.walk
         => Tells(in, Touch!NoContacts, FALSE, FALSE)
  <2>1. Touch!Pressed(Touch!NoContacts, "fire") = FALSE /\ Touch!Pressed(Touch!NoContacts, "jump") = FALSE
    BY <1>4 DEF Touch!Pressed
  <2>2. \A in \in Inputs : in.fire \in BOOLEAN /\ in.jump \in BOOLEAN /\ in.moving \in BOOLEAN /\ in.walk \in BOOLEAN
    BY DEF Inputs
  <2> QED BY <2>1, <2>2 DEF Tells
<1>6. /\ Touch!NoInput \in Inputs /\ ~Touch!NoInput.fire /\ ~Touch!NoInput.jump
      /\ ~Touch!NoInput.moving /\ ~Touch!NoInput.walk
  BY DEF Touch!NoInput, Inputs
<1> QED BY <1>1, <1>2, <1>3, <1>5, <1>6

\* What is emitted tells the host what there is, unless it is paused.
LEMMA Emits ==
    ASSUME input \in Inputs, ~input.paused, NEW owned, NEW walks \in BOOLEAN,
           NEW moves \in BOOLEAN, NEW reloads \in BOOLEAN
    PROVE  /\ Touch!Emitted(owned, walks, moves, reloads) \in Inputs
           /\ ~Touch!Emitted(owned, walks, moves, reloads).paused
           /\ Tells(Touch!Emitted(owned, walks, moves, reloads), owned, moves, walks)
<1>1. PICK fire \in BOOLEAN : fire = Touch!Pressed(owned, "fire")
  BY DEF Touch!Pressed
<1>2. PICK jump \in BOOLEAN : jump = Touch!Pressed(owned, "jump")
  BY DEF Touch!Pressed
<1>3. PICK reloadEdge \in BOOLEAN : reloadEdge = (input.reloadEdge \/ reloads)
  BY DEF Inputs
<1>4. PICK jumpEdge \in BOOLEAN : jumpEdge = (input.jumpEdge \/ (jump /\ ~input.jump))
  BY DEF Inputs
<1>5. Touch!Emitted(owned, walks, moves, reloads)
        = [input EXCEPT !.fire = fire, !.jump = jump, !.walk = walks, !.moving = moves,
                        !.reloadEdge = reloadEdge, !.jumpEdge = jumpEdge]
  BY <1>1, <1>2, <1>3, <1>4 DEF Touch!Emitted
<1>6. PICK in \in Inputs :
        /\ in = [input EXCEPT !.fire = fire, !.jump = jump, !.walk = walks, !.moving = moves,
                              !.reloadEdge = reloadEdge, !.jumpEdge = jumpEdge]
        /\ in.fire = fire /\ in.jump = jump /\ in.walk = walks /\ in.moving = moves /\ ~in.paused
  <2>1. PICK in : in = [input EXCEPT !.fire = fire, !.jump = jump, !.walk = walks, !.moving = moves,
                                     !.reloadEdge = reloadEdge, !.jumpEdge = jumpEdge]
    OBVIOUS
  <2>2. in = [paused |-> input.paused, fire |-> fire, jump |-> jump, walk |-> walks, moving |-> moves,
              reloadEdge |-> reloadEdge, jumpEdge |-> jumpEdge]
    BY <2>1 DEF Inputs
  <2>3. input.paused \in BOOLEAN
    BY DEF Inputs
  <2>4. in \in Inputs
    BY <2>2, <2>3 DEF Inputs
  <2>5. in.fire = fire /\ in.jump = jump /\ in.walk = walks /\ in.moving = moves /\ in.paused = input.paused
    BY <2>2
  <2> QED BY <2>1, <2>4, <2>5
<1>7. Tells(in, owned, moves, walks)
  BY <1>1, <1>2, <1>6 DEF Tells
<1> QED BY <1>5, <1>6, <1>7

\* What a gesture of finger f may make of the contacts and of the host's input.
GestureKeeps(f) ==
    /\ contacts' \in [FINGERS -> Owners] /\ moving' \in BOOLEAN /\ walk' \in BOOLEAN
    /\ input' \in Inputs /\ input'.paused = input.paused
    /\ Tells(input', contacts', moving', walk') /\ Owns(contacts', moving')
    /\ ~active => contacts' = contacts /\ moving' = moving /\ walk' = walk
    /\ f \in ignored => contacts'[f] = contacts[f]
    /\ \A g \in FINGERS \ {f} : contacts'[g] # Touch!Nobody => contacts[g] # Touch!Nobody
    /\ contacts'[f] # Touch!Nobody => fingers[f] # "lifted"

\* A finger goes down on a role that is free.
LEMMA TouchDown ==
    ASSUME TouchInv, NEW f \in FINGERS, changed[f] = "down", Touch!Mounted,
           Touch!GoesDown(f, fingers[f])
    PROVE  GestureKeeps(f)
<1> DEFINE area == fingers[f]
<1> DEFINE aims == area \in {"look", "fire"} /\ ~\E g \in FINGERS : contacts[g].aim
<1> DEFINE takes == /\ Touch!Enabled /\ contacts[f] = Touch!Nobody /\ f \notin ignored
                    /\ area \in Touch!Roles /\ (\A g \in FINGERS : contacts[g].role # area)
                    /\ (area = "look" => aims)
<1>0. ~input.paused /\ fingers[f] # "lifted" /\ f \in Touch!Down
  BY DEF TouchInv, ActiveFits, FingersFit, Touch!Mounted, Touch!Down, Touch!Lifted
<1>1. CASE ~takes
  <2>1. UNCHANGED <<contacts, moving, walk, input>>
    BY <1>1 DEF Touch!GoesDown, Touch!NoTouch
  <2> QED BY <1>0, <2>1 DEF TouchInv, TouchTypes, GestureKeeps
<1>2. CASE takes
  <2>1. active
    BY <1>0, <1>2 DEF TouchInv, ActiveFits, TouchTypes
  <2>2. PICK aim \in BOOLEAN : aim = aims
    OBVIOUS
  <2>3. PICK owner \in Owners :
          /\ owner = [role |-> area, valid |-> TRUE, aim |-> aim]
          /\ owner.role = area /\ owner.aim = aim
    <3>1. PICK role \in Touch!Roles \cup {"none"} : role = area
      BY <1>2
    <3>2. [role |-> role, valid |-> TRUE, aim |-> aim] \in Owners
      BY DEF Owners
    <3> QED BY <3>1, <3>2
  <2>4. /\ contacts' = [contacts EXCEPT ![f] = owner]
        /\ input' = Touch!Emitted(contacts', walk, moving, FALSE)
        /\ UNCHANGED <<moving, walk>>
    BY <1>2, <2>2, <2>3 DEF Touch!GoesDown
  <2>5. input' \in Inputs /\ ~input'.paused /\ Tells(input', contacts', moving', walk')
    BY <1>0, <2>4, Emits DEF TouchInv, TouchTypes
  <2>6. /\ contacts' \in [FINGERS -> Owners] /\ contacts'[f] = owner
        /\ \A g \in FINGERS \ {f} : contacts'[g] = contacts[g]
    BY <2>4 DEF TouchInv, TouchTypes
  <2>7. Owns(contacts', moving')
    <3>1. \A g \in FINGERS : contacts[g].role # area /\ ~(contacts[g].aim /\ aim)
      BY <1>2, <2>2
    <3>2. owner.role # "none" /\ owner.role = area /\ owner.aim = aim
      BY <1>2, <2>3 DEF Touch!Roles
    <3>3. Owns(contacts, moving) /\ contacts[f] = Touch!Nobody /\ moving' = moving
      BY <1>2, <2>4 DEF TouchInv
    <3>4. Touch!Nobody.role # "move"
      BY DEF Touch!Nobody
    <3> HIDE DEF area, aims, takes
    <3> QED BY <2>6, <3>1, <3>2, <3>3, <3>4 DEF Owns
  <2>8. ~(f \in ignored) /\ input.paused \in BOOLEAN
    BY <1>2 DEF TouchInv, TouchTypes, Inputs
  <2> QED BY <1>0, <2>1, <2>4, <2>5, <2>6, <2>7, <2>8 DEF TouchInv, TouchTypes, GestureKeeps, Inputs
<1> QED BY <1>1, <1>2

\* A finger slides: its contact may become void.
LEMMA TouchMoves ==
    ASSUME TouchInv, NEW f \in FINGERS, changed[f] = "move", Touch!Mounted,
           Touch!Moves(f, fingers[f])
    PROVE  GestureKeeps(f)
<1>0. ~input.paused /\ fingers[f] # "lifted"
  BY DEF TouchInv, ActiveFits, FingersFit, Touch!Mounted
<1>1. CASE contacts[f] = Touch!Nobody
  <2>1. UNCHANGED <<contacts, moving, walk, input>>
    BY <1>1 DEF Touch!Moves, Touch!NoTouch
  <2> QED BY <1>0, <2>1 DEF TouchInv, TouchTypes, GestureKeeps
<1>2. CASE contacts[f] # Touch!Nobody
  <2>1. active /\ Touch!Enabled /\ f \notin ignored
    BY <1>2, NobodyOwns DEF TouchInv, ActiveFits, FingersFit, TouchTypes, Touch!Enabled
  <2>2. contacts[f] \in Owners
    BY DEF TouchInv, TouchTypes
  <2>3. PICK valid \in BOOLEAN :
          valid = (contacts[f].valid
                     /\ (contacts[f].aim \/ contacts[f].role \in {"move", "look", fingers[f]}))
    BY <2>2 DEF Owners
  <2>4. PICK owner \in Owners :
          /\ owner = [contacts[f] EXCEPT !.valid = valid]
          /\ owner.role = contacts[f].role /\ owner.aim = contacts[f].aim
    <3>1. PICK c \in Owners : c = contacts[f]
      BY <2>2
    <3>2. /\ [c EXCEPT !.valid = valid] \in Owners
          /\ [c EXCEPT !.valid = valid].role = c.role /\ [c EXCEPT !.valid = valid].aim = c.aim
      BY DEF Owners
    <3> QED BY <3>1, <3>2
  <2>5. /\ moving' \in (IF contacts[f].role = "move" THEN BOOLEAN ELSE {moving})
        /\ contacts' = [contacts EXCEPT ![f] = owner]
        /\ input' = Touch!Emitted(contacts', walk, moving', FALSE) /\ UNCHANGED walk
    BY <1>2, <2>1, <2>3, <2>4 DEF Touch!Moves, TouchInv, TouchTypes
  <2>6. moving' \in BOOLEAN /\ walk' \in BOOLEAN
    BY <2>5 DEF TouchInv, TouchTypes
  <2>7. input' \in Inputs /\ ~input'.paused /\ Tells(input', contacts', moving', walk')
    BY <1>0, <2>5, <2>6, Emits DEF TouchInv, TouchTypes
  <2>8. /\ contacts' \in [FINGERS -> Owners] /\ contacts'[f] = owner
        /\ \A g \in FINGERS \ {f} : contacts'[g] = contacts[g]
    BY <2>5 DEF TouchInv, TouchTypes
  <2>9. Owns(contacts', moving')
    <3>1. Owns(contacts, moving) /\ (moving' => moving \/ contacts[f].role = "move")
      BY <2>5 DEF TouchInv
    <3>2. owner.role # "none"
      BY <1>2, <2>4, <3>1 DEF Owns
    <3>3. \A g \in FINGERS \ {f} : contacts[g].role # contacts[f].role
      BY <1>2, <3>1 DEF Owns
    <3>4. moving' => \E g \in FINGERS : contacts'[g].role = "move"
      <4>1. CASE moving
        <5>1. PICK g \in FINGERS : contacts[g].role = "move"
          BY <3>1, <4>1 DEF Owns
        <5>2. contacts'[g].role = "move"
          BY <2>4, <2>8, <5>1
        <5> QED BY <5>2
      <4>2. CASE contacts[f].role = "move"
        BY <2>4, <2>8, <4>2
      <4> QED BY <3>1, <4>1, <4>2
    <3>5. \A g \in FINGERS : contacts'[g].role = contacts[g].role /\ contacts'[g].aim = contacts[g].aim
      BY <2>4, <2>8
    <3>6. \A g \in FINGERS : contacts'[g].role = "none" => contacts'[g] = Touch!Nobody
      BY <2>8, <3>1, <3>2 DEF Owns
    <3>7. \A g, h \in FINGERS : g # h =>
             /\ contacts'[g].role = contacts'[h].role => contacts'[g] = Touch!Nobody
             /\ ~(contacts'[g].aim /\ contacts'[h].aim)
      BY <2>8, <3>1, <3>3, <3>5 DEF Owns
    <3> QED BY <3>4, <3>6, <3>7 DEF Owns
  <2>10. input.paused \in BOOLEAN
    BY DEF TouchInv, TouchTypes, Inputs
  <2> QED BY <1>0, <2>1, <2>6, <2>7, <2>8, <2>9, <2>10 DEF GestureKeeps, Inputs
<1> QED BY <1>1, <1>2

\* A finger is no longer there: what it owned is free, and a stick it pushed is let go.
LEMMA TouchLeaves ==
    ASSUME TouchInv, NEW f \in FINGERS, Touch!Mounted, NEW reloads \in BOOLEAN,
           contacts[f] # Touch!Nobody \/ (walk' = walk /\ ~reloads),
           moving' = Touch!StickAfterLift(contacts[f]), walk' \in BOOLEAN,
           contacts' = [contacts EXCEPT ![f] = Touch!Nobody],
           input' = Touch!Emitted(contacts', walk', moving', reloads)
    PROVE  GestureKeeps(f)
<1>0. ~input.paused /\ input.paused \in BOOLEAN /\ input \in Inputs
  BY DEF TouchInv, TouchTypes, ActiveFits, Touch!Mounted, Inputs
<1>1. moving' \in BOOLEAN /\ moving' = (moving /\ contacts[f].role # "move")
  BY DEF TouchInv, TouchTypes, Touch!StickAfterLift
<1>2. input' \in Inputs /\ ~input'.paused /\ Tells(input', contacts', moving', walk')
  BY <1>0, <1>1, Emits
<1>3. /\ contacts' \in [FINGERS -> Owners] /\ contacts'[f] = Touch!Nobody
      /\ \A g \in FINGERS \ {f} : contacts'[g] = contacts[g]
  BY NobodyOwns DEF TouchInv, TouchTypes
<1>4. Touch!Nobody.role = "none" /\ ~Touch!Nobody.aim
  BY DEF Touch!Nobody
<1>5. Owns(contacts', moving')
  <2>1. Owns(contacts, moving)
    BY DEF TouchInv
  <2> QED BY <1>1, <1>3, <1>4, <2>1 DEF Owns
<1>6. ~active => contacts' = contacts /\ moving' = moving /\ walk' = walk
  <2>1. ASSUME ~active PROVE contacts' = contacts /\ moving' = moving /\ walk' = walk
    <3>1. contacts = Touch!NoContacts /\ ~moving /\ contacts[f] = Touch!Nobody
      BY <2>1, NobodyOwns DEF TouchInv, ActiveFits
    <3>2. contacts' = contacts
      BY <3>1 DEF TouchInv, TouchTypes
    <3> QED BY <1>1, <3>1, <3>2 DEF TouchInv, TouchTypes
  <2> QED BY <2>1
<1>7. f \in ignored => contacts'[f] = contacts[f]
  BY <1>3 DEF TouchInv, FingersFit
<1> QED BY <1>0, <1>1, <1>2, <1>3, <1>5, <1>6, <1>7 DEF GestureKeeps, Inputs

\* A gesture hears of its finger.
LEMMA TouchGesture ==
    ASSUME TouchInv, NEW f \in FINGERS, Touch!Gesture(f)
    PROVE  TouchInv'
<1>1. /\ step = "gestures" /\ changed' = [changed EXCEPT ![f] = "no"]
      /\ UNCHANGED <<step, playing, shown, dialog, fingers, ignored, active, heldDown>>
  BY DEF Touch!Gesture
<1>2. GestureKeeps(f) \/ UNCHANGED <<contacts, moving, walk, input>>
  <2>1. CASE ~Touch!Mounted \/ (f \in heldDown /\ changed[f] # "down")
    BY <2>1 DEF Touch!Gesture, Touch!NoTouch
  <2>2. CASE ~(~Touch!Mounted \/ (f \in heldDown /\ changed[f] # "down"))
    <3>1. \/ changed[f] = "down" /\ Touch!GoesDown(f, fingers[f])
          \/ changed[f] = "move" /\ Touch!Moves(f, fingers[f])
          \/ \E area \in AREAS \cup {"away"} : Touch!GoesUp(f, area)
          \/ Touch!IsCancelled(f)
      BY <2>2 DEF Touch!Gesture
    <3>2. ASSUME NEW area \in AREAS \cup {"away"}, Touch!GoesUp(f, area)
          PROVE  GestureKeeps(f) \/ UNCHANGED <<contacts, moving, walk, input>>
      <4>1. CASE contacts[f] = Touch!Nobody
        BY <3>2, <4>1 DEF Touch!GoesUp, Touch!NoTouch
      <4>2. CASE contacts[f] # Touch!Nobody
        <5>1. PICK inside \in BOOLEAN :
                inside = (Touch!Enabled /\ contacts[f].valid /\ contacts[f].role = area)
          OBVIOUS
        <5>2. PICK reloads \in BOOLEAN : reloads = (inside /\ area = "reload")
          OBVIOUS
        <5>3. /\ moving' = Touch!StickAfterLift(contacts[f])
              /\ contacts' = [contacts EXCEPT ![f] = Touch!Nobody]
              /\ walk' = IF inside /\ area = "walk" THEN ~walk ELSE walk
              /\ input' = Touch!Emitted(contacts', walk', moving', reloads)
          BY <3>2, <4>2, <5>1, <5>2 DEF Touch!GoesUp
        <5>4. walk' \in BOOLEAN
          BY <5>3 DEF TouchInv, TouchTypes
        <5> QED BY <2>2, <4>2, <5>3, <5>4, TouchLeaves
      <4> QED BY <4>1, <4>2
    <3>3. ASSUME Touch!IsCancelled(f) PROVE GestureKeeps(f)
      <4>1. /\ moving' = Touch!StickAfterLift(contacts[f])
            /\ contacts' = [contacts EXCEPT ![f] = Touch!Nobody] /\ walk' = walk
            /\ input' = Touch!Emitted(contacts', walk', moving', FALSE)
        BY <3>3 DEF Touch!IsCancelled
      <4>2. walk' \in BOOLEAN /\ FALSE \in BOOLEAN
        BY <4>1 DEF TouchInv, TouchTypes
      <4> QED BY <2>2, <4>1, <4>2, TouchLeaves
    <3> QED BY <2>2, <3>1, <3>2, <3>3, TouchDown, TouchMoves
  <2> QED BY <2>1, <2>2
<1>3. /\ changed' \in [FINGERS -> {"no", "down", "move", "up", "cancel"}] /\ changed'[f] = "no"
      /\ \A g \in FINGERS \ {f} : changed'[g] = changed[g]
  BY <1>1 DEF TouchInv, TouchTypes
<1>4. Touch!Mounted' = Touch!Mounted /\ Touch!Enabled' = Touch!Enabled /\ Touch!Down' = Touch!Down
  BY <1>1 DEF Touch!Mounted, Touch!Enabled, Touch!Down
<1>5. CASE GestureKeeps(f)
  <2>1. TouchTypes'
    BY <1>1, <1>3, <1>5 DEF TouchInv, TouchTypes, GestureKeeps
  <2>2. FingersFit'
    <3>1. \A g \in FINGERS : changed'[g] \in {"down", "move"} => fingers'[g] # "lifted"
      BY <1>1, <1>3 DEF TouchInv, FingersFit
    <3>2. \A g \in FINGERS : contacts'[g] # Touch!Nobody /\ changed'[g] \notin {"up", "cancel"}
                               => fingers'[g] # "lifted"
      BY <1>1, <1>3, <1>5 DEF TouchInv, FingersFit, GestureKeeps
    <3>3. \A g \in FINGERS : g \in ignored' => contacts'[g] = Touch!Nobody
      BY <1>1, <1>5 DEF TouchInv, FingersFit, GestureKeeps
    <3>4. step' = "gestures"
      BY <1>1
    <3>5. Touch!Nobody' = Touch!Nobody
      BY DEF Touch!Nobody
    <3> QED BY <3>1, <3>2, <3>3, <3>4, <3>5 DEF FingersFit
  <2>3. ActiveFits'
    <3>1. Touch!NoContacts' = Touch!NoContacts
      BY DEF Touch!NoContacts, Touch!Nobody
    <3>2. /\ input'.paused = input.paused
          /\ ~active => contacts' = contacts /\ moving' = moving /\ walk' = walk
      BY <1>5 DEF GestureKeeps
    <3>3. ActiveFits
      BY DEF TouchInv
    <3> QED BY <1>1, <1>4, <3>1, <3>2, <3>3 DEF ActiveFits
  <2>4. Tells(input', contacts', moving', walk') /\ Owns(contacts', moving')
    BY <1>5 DEF GestureKeeps
  <2>5. Tells(input, contacts, moving, walk)' /\ Owns(contacts, moving)'
    BY <2>4 DEF Tells, Owns, Touch!Pressed, Touch!Nobody
  <2> QED BY <2>1, <2>2, <2>3, <2>5 DEF TouchInv
<1>6. CASE UNCHANGED <<contacts, moving, walk, input>>
  <2>1. TouchTypes'
    BY <1>1, <1>3, <1>6 DEF TouchInv, TouchTypes
  <2>2. FingersFit'
    <3>1. \A g \in FINGERS : changed'[g] \in {"down", "move"} => fingers'[g] # "lifted"
      BY <1>1, <1>3 DEF TouchInv, FingersFit
    <3>2. contacts[f] # Touch!Nobody => fingers[f] # "lifted"
      <4>1. ASSUME contacts[f] # Touch!Nobody, changed[f] \in {"up", "cancel"} PROVE FALSE
        <5>1. f \notin ignored /\ active /\ Touch!Mounted
          BY <4>1, NobodyOwns DEF TouchInv, FingersFit, ActiveFits, TouchTypes
        <5>2. /\ contacts'[f] = Touch!Nobody
              /\ contacts' = contacts
          <6>1. \/ \E area \in AREAS \cup {"away"} : Touch!GoesUp(f, area)
                \/ Touch!IsCancelled(f)
            BY <4>1, <5>1 DEF Touch!Gesture, TouchInv, TouchTypes
          <6>2. contacts' = [contacts EXCEPT ![f] = Touch!Nobody]
            BY <4>1, <6>1 DEF Touch!GoesUp, Touch!IsCancelled
          <6> QED BY <1>6, <6>2 DEF TouchInv, TouchTypes
        <5> QED BY <4>1, <5>2
      <4> QED BY <4>1 DEF TouchInv, FingersFit
    <3>3. \A g \in FINGERS : contacts'[g] # Touch!Nobody /\ changed'[g] \notin {"up", "cancel"}
                               => fingers'[g] # "lifted"
      BY <1>1, <1>3, <1>6, <3>2 DEF TouchInv, FingersFit
    <3>4. \A g \in FINGERS : g \in ignored' => contacts'[g] = Touch!Nobody
      BY <1>1, <1>6 DEF TouchInv, FingersFit
    <3>5. Touch!Nobody' = Touch!Nobody /\ step' = "gestures"
      BY <1>1 DEF Touch!Nobody
    <3> QED BY <3>1, <3>3, <3>4, <3>5 DEF FingersFit
  <2>3. ActiveFits'
    <3>1. Touch!NoContacts' = Touch!NoContacts
      BY DEF Touch!NoContacts, Touch!Nobody
    <3>3. ActiveFits
      BY DEF TouchInv
    <3> QED BY <1>1, <1>4, <1>6, <3>1, <3>3 DEF ActiveFits
  <2>5. Tells(input, contacts, moving, walk)' /\ Owns(contacts, moving)'
    <3>1. Tells(input, contacts, moving, walk) /\ Owns(contacts, moving)
      BY DEF TouchInv
    <3> QED BY <1>6, <3>1 DEF Tells, Owns, Touch!Pressed, Touch!Nobody
  <2> QED BY <2>1, <2>2, <2>3, <2>5 DEF TouchInv
<1> QED BY <1>2, <1>5, <1>6

\* The controls come or go: nothing is owned, and every finger that is down is
\* ignored.
LEMMA TouchRemounts ==
    ASSUME TouchInv, Touch!SwitchScreen \/ Touch!Toggle
    PROVE  TouchInv'
<1>1. /\ contacts' = Touch!NoContacts /\ ~moving' /\ ~walk' /\ ~active'
      /\ moving' \in BOOLEAN /\ walk' \in BOOLEAN /\ active' \in BOOLEAN
      /\ ignored' = (IF Touch!Mounted' THEN Touch!Down ELSE {}) /\ heldDown' = ignored'
      /\ UNCHANGED <<fingers, changed>>
  BY DEF Touch!SwitchScreen, Touch!Toggle, Touch!Remounted, Touch!InitiallyHeld
<1>2. /\ shown' \in BOOLEAN /\ dialog' \in BOOLEAN /\ playing' \in BOOLEAN
      /\ step' \in {"latch", "gestures"}
      /\ step' = "latch" => ~playing' /\ step # "gestures"
  BY DEF Touch!SwitchScreen, Touch!Toggle, TouchInv, TouchTypes
<1>3. input' \in Inputs /\ input'.paused = dialog' /\ Tells(input', Touch!NoContacts, FALSE, FALSE)
  <2>1. ASSUME NEW yes \in BOOLEAN
        PROVE  /\ Touch!Paused(yes) \in Inputs /\ Touch!Paused(yes).paused = yes
               /\ Tells(Touch!Paused(yes), Touch!NoContacts, FALSE, FALSE)
    <3>1. /\ Touch!Paused(yes) \in Inputs /\ Touch!Paused(yes).paused = yes
          /\ ~Touch!Paused(yes).fire /\ ~Touch!Paused(yes).jump /\ ~Touch!Paused(yes).moving
          /\ ~Touch!Paused(yes).walk
      BY DEF Touch!Paused, Touch!NoInput, Inputs
    <3> QED BY <3>1, NobodyOwns
  <2>2. Touch!NoInput.paused = FALSE
    BY DEF Touch!NoInput
  <2> QED BY <1>2, <2>1, <2>2, NobodyOwns DEF Touch!SwitchScreen, Touch!Toggle
<1>4. Touch!Down' = Touch!Down /\ Touch!Down \subseteq FINGERS
  BY <1>1 DEF Touch!Down, Touch!Lifted
<1>5. TouchTypes'
  BY <1>1, <1>2, <1>3, <1>4, NobodyOwns DEF TouchInv, TouchTypes
<1>6. FingersFit'
  <2>1. Touch!Nobody' = Touch!Nobody
    BY DEF Touch!Nobody
  <2>2. \A f \in FINGERS : contacts'[f] = Touch!Nobody
    BY <1>1, NobodyOwns
  <2>3. step' # "gestures" => \A f \in FINGERS : changed'[f] = "no"
    BY <1>1, <1>2 DEF TouchInv, FingersFit
  <2>4. \A f \in FINGERS : changed'[f] \in {"down", "move"} => fingers'[f] # "lifted"
    BY <1>1 DEF TouchInv, FingersFit
  <2> QED BY <2>1, <2>2, <2>3, <2>4 DEF FingersFit
<1>7. ActiveFits'
  <2>1. Touch!NoContacts' = Touch!NoContacts
    BY DEF Touch!NoContacts, Touch!Nobody
  <2>2. Touch!Enabled' => playing' /\ Touch!Mounted'
    BY DEF Touch!Enabled
  <2>3. Touch!Enabled' \in BOOLEAN
    BY <1>2 DEF Touch!Enabled, Touch!Mounted
  <2> QED BY <1>1, <1>2, <1>3, <1>4, <2>1, <2>2, <2>3 DEF ActiveFits
<1>8. Tells(input, contacts, moving, walk)' /\ Owns(contacts, moving)'
  <2>1. moving' = FALSE /\ walk' = FALSE
    BY <1>1
  <2>2. Tells(input', contacts', moving', walk') /\ Owns(contacts', moving')
    BY <1>1, <1>3, <2>1, NobodyOwns
  <2> QED BY <2>2 DEF Tells, Owns, Touch!Pressed, Touch!Nobody
<1> QED BY <1>5, <1>6, <1>7, <1>8 DEF TouchInv

\* The ticks take the edges, and what the round is now is dispatched: controls that
\* end release everything.
LEMMA TouchDispatch == ASSUME TouchInv, Touch!Dispatch PROVE TouchInv'
<1>1. /\ step = "dispatch" /\ step' = "latch" /\ playing' \in BOOLEAN
      /\ active' = Touch!Enabled' /\ active' \in BOOLEAN
      /\ UNCHANGED <<shown, dialog, fingers, changed, ignored, heldDown>>
  BY DEF Touch!Dispatch, Touch!Enabled, Touch!Mounted, TouchInv, TouchTypes
<1>2. Touch!Mounted' = Touch!Mounted /\ (Touch!Enabled' => playing' /\ Touch!Mounted)
  BY <1>1 DEF Touch!Mounted, Touch!Enabled
<1>3. PICK due \in BOOLEAN :
        IF active /\ ~active'
        THEN /\ contacts' = Touch!NoContacts /\ moving' = FALSE /\ walk' = FALSE
             /\ input' = [Touch!NoInput EXCEPT !.reloadEdge = Touch!Ticked(due).reloadEdge,
                                               !.jumpEdge = Touch!Ticked(due).jumpEdge]
        ELSE input' = Touch!Ticked(due) /\ UNCHANGED <<contacts, moving, walk>>
  <2>1. active' = (playing' /\ Touch!Mounted)
    BY DEF Touch!Dispatch
  <2> QED BY <2>1 DEF Touch!Dispatch, Touch!Releases
<1>4. PICK in \in Inputs :
        /\ in = Touch!Ticked(due) /\ in.paused = input.paused
        /\ in.fire = input.fire /\ in.jump = input.jump /\ in.walk = input.walk
        /\ in.moving = input.moving
  <2>1. PICK r \in Inputs : r = input
    BY DEF TouchInv, TouchTypes
  <2>2. PICK off \in Inputs :
          /\ off = [r EXCEPT !.reloadEdge = FALSE, !.jumpEdge = FALSE]
          /\ off.paused = r.paused /\ off.fire = r.fire /\ off.jump = r.jump /\ off.walk = r.walk
          /\ off.moving = r.moving
    <3>1. r = [paused |-> r.paused, fire |-> r.fire, jump |-> r.jump, walk |-> r.walk,
               moving |-> r.moving, reloadEdge |-> r.reloadEdge, jumpEdge |-> r.jumpEdge]
          /\ r.paused \in BOOLEAN /\ r.fire \in BOOLEAN /\ r.jump \in BOOLEAN
          /\ r.walk \in BOOLEAN /\ r.moving \in BOOLEAN
      BY DEF Inputs
    <3>2. PICK o : o = [r EXCEPT !.reloadEdge = FALSE, !.jumpEdge = FALSE]
      OBVIOUS
    <3>3. o = [paused |-> r.paused, fire |-> r.fire, jump |-> r.jump, walk |-> r.walk,
               moving |-> r.moving, reloadEdge |-> FALSE, jumpEdge |-> FALSE]
      BY <3>1, <3>2
    <3>4. o \in Inputs
      BY <3>1, <3>3 DEF Inputs
    <3> QED BY <3>2, <3>3, <3>4
  <2>3. Touch!Ticked(due) = off \/ Touch!Ticked(due) = r
    BY <2>1, <2>2 DEF Touch!Ticked
  <2> QED BY <2>1, <2>2, <2>3
<1>5. CASE active /\ ~active'
  <2>1. PICK re \in BOOLEAN, je \in BOOLEAN : re = in.reloadEdge /\ je = in.jumpEdge
    BY DEF Inputs
  <2>2. input' = [Touch!NoInput EXCEPT !.reloadEdge = re, !.jumpEdge = je]
    BY <1>3, <1>4, <1>5, <2>1
  <2>3. /\ input' \in Inputs /\ input'.paused = FALSE /\ ~input'.fire /\ ~input'.jump
        /\ ~input'.moving /\ ~input'.walk
    BY <2>2 DEF Touch!NoInput, Inputs
  <2>4. contacts' = Touch!NoContacts /\ moving' = FALSE /\ walk' = FALSE
    BY <1>3, <1>5
  <2>5. Tells(input', contacts', moving', walk') /\ Owns(contacts', moving')
    BY <2>3, <2>4, NobodyOwns
  <2>6. TouchTypes'
    BY <1>1, <2>3, <2>4, NobodyOwns DEF TouchInv, TouchTypes
  <2>7. FingersFit'
    BY <1>1, <2>4, NobodyOwns DEF TouchInv, FingersFit, Touch!Nobody
  <2>8. ActiveFits'
    <3>1. Touch!NoContacts' = Touch!NoContacts
      BY DEF Touch!NoContacts, Touch!Nobody
    <3>2. dialog' = FALSE
      BY <1>1, <1>5 DEF TouchInv, TouchTypes, ActiveFits, Touch!Mounted
    <3> QED BY <1>1, <1>2, <2>3, <2>4, <3>1, <3>2 DEF TouchInv, ActiveFits
  <2>9. Tells(input, contacts, moving, walk)' /\ Owns(contacts, moving)'
    BY <2>5 DEF Tells, Owns, Touch!Pressed, Touch!Nobody
  <2> QED BY <2>6, <2>7, <2>8, <2>9 DEF TouchInv
<1>6. CASE ~(active /\ ~active')
  <2>1. input' = in /\ UNCHANGED <<contacts, moving, walk>>
    BY <1>3, <1>4, <1>6
  <2>2. TouchTypes'
    BY <1>1, <2>1 DEF TouchInv, TouchTypes
  <2>3. FingersFit'
    BY <1>1, <2>1 DEF TouchInv, FingersFit, Touch!Nobody
  <2>4. ActiveFits'
    <3>1. Touch!NoContacts' = Touch!NoContacts
      BY DEF Touch!NoContacts, Touch!Nobody
    <3> QED BY <1>1, <1>2, <1>4, <1>6, <2>1, <3>1 DEF TouchInv, ActiveFits
  <2>5. Tells(input, contacts, moving, walk)' /\ Owns(contacts, moving)'
    <3>1. Tells(input, contacts, moving, walk) /\ Owns(contacts, moving)
      BY DEF TouchInv
    <3> QED BY <1>4, <2>1, <3>1 DEF Tells, Owns, Touch!Pressed, Touch!Nobody
  <2> QED BY <2>2, <2>3, <2>4, <2>5 DEF TouchInv
<1> QED BY <1>5, <1>6

\* Fingers go down, slide and lift.
LEMMA TouchLatch == ASSUME TouchInv, Touch!Latch PROVE TouchInv'
<1>1. /\ step = "latch" /\ step' = "gestures"
      /\ fingers' \in [FINGERS -> AREAS \cup {"away", "lifted"}]
      /\ UNCHANGED <<playing, shown, dialog, ignored, contacts, moving, walk, active, input, heldDown>>
  BY DEF Touch!Latch, Touch!Lifted
<1>2. /\ changed' \in [FINGERS -> {"no", "down", "move", "up", "cancel"}]
      /\ \A f \in FINGERS :
           /\ changed'[f] \in {"down", "move"} => fingers'[f] # "lifted"
           /\ fingers[f] # "lifted" /\ fingers'[f] = "lifted" => changed'[f] \in {"up", "cancel"}
  <2>1. PICK cancels \in BOOLEAN, slide \in SUBSET FINGERS :
          changed' = [f \in FINGERS |->
            CASE fingers[f] = "lifted" /\ fingers'[f] # "lifted" -> "down"
              [] fingers[f] # "lifted" /\ fingers'[f] = "lifted" ->
                    IF cancels THEN "cancel" ELSE "up"
              [] fingers'[f] # "lifted" /\ (f \in slide \/ fingers[f] # fingers'[f]) -> "move"
              [] OTHER -> "no"]
    BY DEF Touch!Latch, Touch!Lifted
  <2>2. ASSUME NEW f \in FINGERS
        PROVE  /\ changed'[f] \in {"no", "down", "move", "up", "cancel"}
               /\ changed'[f] \in {"down", "move"} => fingers'[f] # "lifted"
               /\ fingers[f] # "lifted" /\ fingers'[f] = "lifted" => changed'[f] \in {"up", "cancel"}
    <3>1. changed'[f] =
            CASE fingers[f] = "lifted" /\ fingers'[f] # "lifted" -> "down"
              [] fingers[f] # "lifted" /\ fingers'[f] = "lifted" ->
                    IF cancels THEN "cancel" ELSE "up"
              [] fingers'[f] # "lifted" /\ (f \in slide \/ fingers[f] # fingers'[f]) -> "move"
              [] OTHER -> "no"
      BY <2>1
    <3>2. CASE fingers[f] = "lifted" /\ fingers'[f] # "lifted"
      BY <3>1, <3>2
    <3>3. CASE fingers[f] # "lifted" /\ fingers'[f] = "lifted"
      BY <3>1, <3>3
    <3>4. CASE fingers[f] # "lifted" /\ fingers'[f] # "lifted"
      BY <3>1, <3>4
    <3>5. CASE fingers[f] = "lifted" /\ fingers'[f] = "lifted"
      BY <3>1, <3>5
    <3> QED BY <3>2, <3>3, <3>4, <3>5
  <2>3. changed' \in [FINGERS -> {"no", "down", "move", "up", "cancel"}]
    BY <2>1, <2>2
  <2> QED BY <2>2, <2>3
<1>3. TouchTypes'
  BY <1>1, <1>2 DEF TouchInv, TouchTypes
<1>4. FingersFit'
  <2>1. \A f \in FINGERS : contacts[f] # Touch!Nobody => fingers[f] # "lifted"
    BY <1>1 DEF TouchInv, FingersFit
  <2>2. Touch!Nobody' = Touch!Nobody
    BY DEF Touch!Nobody
  <2> QED BY <1>1, <1>2, <2>1, <2>2 DEF TouchInv, FingersFit
<1>5. ActiveFits'
  <2>1. Touch!NoContacts' = Touch!NoContacts
    BY DEF Touch!NoContacts, Touch!Nobody
  <2>2. Touch!Mounted' = Touch!Mounted /\ Touch!Enabled' = Touch!Enabled
    BY <1>1 DEF Touch!Mounted, Touch!Enabled
  <2>3. active = Touch!Enabled /\ Touch!Enabled \in BOOLEAN
    BY <1>1 DEF TouchInv, TouchTypes, ActiveFits
  <2> QED BY <1>1, <2>1, <2>2, <2>3 DEF TouchInv, ActiveFits
<1>6. Tells(input, contacts, moving, walk)' /\ Owns(contacts, moving)'
  <2>1. Tells(input, contacts, moving, walk) /\ Owns(contacts, moving)
    BY DEF TouchInv
  <2> QED BY <1>1, <2>1 DEF Tells, Owns, Touch!Pressed, Touch!Nobody
<1> QED BY <1>3, <1>4, <1>5, <1>6 DEF TouchInv

\* At the end of a frame, a finger of before that lifted is ignored no longer.
LEMMA TouchHooks == ASSUME TouchInv, Touch!Hooks PROVE TouchInv'
<1>1. /\ \A f \in FINGERS : changed[f] = "no"
      /\ step' = "dispatch"
      /\ UNCHANGED <<playing, shown, dialog, fingers, changed, contacts, moving, walk, active, input>>
  BY DEF Touch!Hooks
<1>2. ignored' = ignored \cap Touch!Down /\ heldDown' = ignored'
  BY DEF Touch!Hooks, Touch!Synced, TouchInv, TouchTypes, ActiveFits
<1>3. Touch!Mounted' = Touch!Mounted /\ Touch!Enabled' = Touch!Enabled /\ Touch!Down' = Touch!Down
  BY <1>1 DEF Touch!Mounted, Touch!Enabled, Touch!Down
<1>4. TouchTypes'
  BY <1>1, <1>2 DEF TouchInv, TouchTypes
<1>5. FingersFit'
  BY <1>1, <1>2 DEF TouchInv, FingersFit, Touch!Nobody
<1>6. ActiveFits'
  <2>1. Touch!NoContacts' = Touch!NoContacts
    BY DEF Touch!NoContacts, Touch!Nobody
  <2> QED BY <1>1, <1>2, <1>3, <2>1 DEF TouchInv, ActiveFits
<1>7. Tells(input, contacts, moving, walk)' /\ Owns(contacts, moving)'
  <2>1. Tells(input, contacts, moving, walk) /\ Owns(contacts, moving)
    BY DEF TouchInv
  <2> QED BY <1>1, <2>1 DEF Tells, Owns, Touch!Pressed, Touch!Nobody
<1> QED BY <1>4, <1>5, <1>6, <1>7 DEF TouchInv

LEMMA TouchStep == TouchInv /\ [Touch!Next]_touchVars => TouchInv'
<1> SUFFICES ASSUME TouchInv, [Touch!Next]_touchVars PROVE TouchInv'
  OBVIOUS
<1>1. CASE UNCHANGED touchVars
  <2>1. TouchTypes' /\ FingersFit' /\ ActiveFits'
    BY <1>1 DEF TouchInv, TouchTypes, FingersFit, ActiveFits, touchVars, Touch!Mounted, Touch!Enabled,
                Touch!Down, Touch!Lifted, Touch!NoContacts, Touch!Nobody
  <2>2. Tells(input, contacts, moving, walk)' /\ Owns(contacts, moving)'
    <3>1. Tells(input, contacts, moving, walk) /\ Owns(contacts, moving)
      BY DEF TouchInv
    <3> QED BY <1>1, <3>1 DEF Tells, Owns, Touch!Pressed, Touch!Nobody, touchVars
  <2> QED BY <2>1, <2>2 DEF TouchInv
<1>2. CASE Touch!Next
  BY <1>2, TouchDispatch, TouchRemounts, TouchLatch, TouchGesture, TouchHooks DEF Touch!Next
<1> QED BY <1>1, <1>2

LEMMA TouchInit == Touch!Init => TouchInv
<1> SUFFICES ASSUME Touch!Init PROVE TouchInv
  OBVIOUS
<1>1. TouchTypes
  BY NobodyOwns DEF Touch!Init, TouchTypes, Touch!Lifted
<1>2. FingersFit
  BY NobodyOwns DEF Touch!Init, FingersFit
<1>3. ActiveFits
  BY DEF Touch!Init, ActiveFits, Touch!Mounted, Touch!Enabled, Touch!NoInput
<1>4. Tells(input, contacts, moving, walk) /\ Owns(contacts, moving)
  BY NobodyOwns DEF Touch!Init
<1> QED BY <1>1, <1>2, <1>3, <1>4 DEF TouchInv

\* What the invariant says of the properties.
LEMMA TouchHolds ==
    TouchInv => Touch!TypeOK /\ Touch!HeldByFingers /\ Touch!OneFingerEach /\ Touch!HeldFingersIgnored
<1> SUFFICES ASSUME TouchInv
             PROVE  Touch!TypeOK /\ Touch!HeldByFingers /\ Touch!OneFingerEach /\ Touch!HeldFingersIgnored
  OBVIOUS
<1>1. input \in [DOMAIN Touch!NoInput -> BOOLEAN]
  <2>1. Inputs \subseteq [DOMAIN Touch!NoInput -> BOOLEAN]
    BY DEF Inputs, Touch!NoInput
  <2> QED BY <2>1 DEF TouchInv, TouchTypes
<1>2. Touch!TypeOK
  BY <1>1 DEF TouchInv, TouchTypes, Touch!TypeOK, Owners
<1>3. Touch!HeldByFingers
  <2>1. \A f \in FINGERS : contacts[f] # Touch!Nobody /\ changed[f] = "no" => fingers[f] # Touch!Lifted
    BY DEF TouchInv, FingersFit, Touch!Lifted
  <2>2. /\ input.fire = Touch!Pressed(contacts, "fire") /\ input.jump = Touch!Pressed(contacts, "jump")
        /\ input.moving = moving /\ input.walk = walk
    BY DEF TouchInv, Tells
  <2>3. moving => \E f \in FINGERS : contacts[f].role = "move"
    BY DEF TouchInv, Owns
  <2>4. ~Touch!Enabled => contacts = Touch!NoContacts /\ ~moving /\ ~walk
    BY DEF TouchInv, ActiveFits, Touch!Enabled
  <2> QED BY <2>1, <2>2, <2>3, <2>4 DEF Touch!HeldByFingers
<1>4. Touch!OneFingerEach
  BY DEF TouchInv, Owns, Touch!OneFingerEach
<1>5. Touch!HeldFingersIgnored
  BY DEF TouchInv, TouchTypes, FingersFit, Touch!HeldFingersIgnored
<1> QED BY <1>2, <1>3, <1>4, <1>5

-----------------------------------------------------------------------------
(* The lower screen of the 3DS.                                             *)

LowerInv ==
    /\ Lower!TypeOK /\ Lower!HeldByContact /\ Lower!MarkOfThisMap
    /\ touching \in [FINGERS -> CONTROLS \cup {"away", "lifted"}]
    /\ map \in 0 .. 2 /\ enabled \in BOOLEAN
    /\ contact.action = "none" => contact = Lower!NoContact
    /\ contact.action # "none" => contact.finger \in FINGERS

Touchings == [finger : {0} \cup FINGERS, action : Lower!Actions \cup {"none"},
              inside : BOOLEAN, dragged : BOOLEAN]
LowerInputs == [button : Lower!Buttons \cup {"none"}, reloadEdge : BOOLEAN]

\* A button that is down becomes another, or none.
LEMMA Updates ==
    ASSUME NEW in \in LowerInputs, NEW button \in Lower!Buttons \cup {"none"}
    PROVE  Lower!Updated(in, button) \in LowerInputs /\ Lower!Updated(in, button).button = button
<1>1. PICK edge \in BOOLEAN :
        edge = (in.reloadEdge \/ (button = "reload" /\ in.button # "reload"))
  BY DEF LowerInputs
<1>2. Lower!Updated(in, button) = [button |-> button, reloadEdge |-> edge]
  BY <1>1 DEF Lower!Updated
<1> QED BY <1>2 DEF LowerInputs

LEMMA Releases ==
    ASSUME NEW in \in LowerInputs
    PROVE  Lower!Released(in) \in LowerInputs /\ Lower!Released(in).button = "none"
BY Updates DEF Lower!Released

LEMMA LowerParts ==
    LowerInv <=> /\ contact \in Touchings /\ lowerInput \in LowerInputs
                 /\ zoom \in {1, 2, 4} /\ mark \in {0, map} /\ mark \in 0 .. 2 /\ map \in 0 .. 2
                 /\ enabled \in BOOLEAN
                 /\ touching \in [FINGERS -> CONTROLS \cup {"away", "lifted"}]
                 /\ Lower!HeldByContact
                 /\ contact.action = "none" => contact = Lower!NoContact
                 /\ contact.action # "none" => contact.finger \in FINGERS
BY DEF LowerInv, Lower!TypeOK, Lower!MarkOfThisMap, Touchings, LowerInputs

LEMMA LowerPartsAfter ==
    LowerInv' <=> /\ contact' \in Touchings /\ lowerInput' \in LowerInputs
                  /\ zoom' \in {1, 2, 4} /\ mark' \in {0, map'} /\ mark' \in 0 .. 2 /\ map' \in 0 .. 2
                  /\ enabled' \in BOOLEAN
                  /\ touching' \in [FINGERS -> CONTROLS \cup {"away", "lifted"}]
                  /\ Lower!HeldByContact'
                  /\ contact'.action = "none" => contact' = Lower!NoContact'
                  /\ contact'.action # "none" => contact'.finger \in FINGERS
BY DEF LowerInv, Lower!TypeOK, Lower!MarkOfThisMap, Touchings, LowerInputs

\* What a step needs to keep: a button that is still down is one the contact went
\* down on and is still on.
LEMMA LowerKept ==
    ASSUME LowerInv, contact' \in Touchings, lowerInput' \in LowerInputs,
           zoom' \in {1, 2, 4}, mark' \in {0, map'}, mark' \in 0 .. 2, map' \in 0 .. 2,
           enabled' \in BOOLEAN, touching' \in [FINGERS -> CONTROLS \cup {"away", "lifted"}],
           contact'.action = "none" => contact' = Lower!NoContact,
           contact'.action # "none" => contact'.finger \in FINGERS,
           lowerInput'.button # "none" =>
             /\ contact'.action = lowerInput'.button /\ contact'.inside
             /\ touching'[contact'.finger] # "lifted" /\ enabled'
    PROVE  LowerInv'
<1>1. Lower!HeldByContact' /\ Lower!NoContact' = Lower!NoContact
  BY DEF Lower!HeldByContact, Lower!NoContact
<1> QED BY <1>1, LowerPartsAfter

LEMMA NoContactIs ==
    /\ Lower!NoContact \in Touchings /\ Lower!NoContact.action = "none" /\ Lower!NoContact.finger = 0
    /\ Lower!NoInput \in LowerInputs /\ Lower!NoInput.button = "none"
BY DEF Lower!NoContact, Touchings, Lower!NoInput, LowerInputs

LEMMA LowerTick == ASSUME LowerInv, Lower!Tick \/ Lower!TellRadar PROVE LowerInv'
<1>0. /\ contact \in Touchings /\ lowerInput \in LowerInputs
      /\ zoom \in {1, 2, 4} /\ mark \in {0, map} /\ mark \in 0 .. 2 /\ map \in 0 .. 2
      /\ enabled \in BOOLEAN
      /\ touching \in [FINGERS -> CONTROLS \cup {"away", "lifted"}]
      /\ Lower!HeldByContact
      /\ contact.action = "none" => contact = Lower!NoContact
      /\ contact.action # "none" => contact.finger \in FINGERS
  BY LowerParts
<1>1. CASE Lower!Tick
  <2>1. enabled' \in BOOLEAN /\ UNCHANGED <<touching, map, zoom, mark>>
    BY <1>1 DEF Lower!Tick
  <2>2. Lower!Taken \in LowerInputs /\ Lower!Taken.button = lowerInput.button
    BY <1>0 DEF Lower!Taken, LowerInputs
  <2>3. CASE ~enabled' /\ enabled
    <3>1. contact' = Lower!NoContact /\ lowerInput' = Lower!Released(Lower!Taken)
      BY <1>1, <2>3 DEF Lower!Tick, Lower!Stops
    <3>2. lowerInput' \in LowerInputs /\ lowerInput'.button = "none"
      BY <2>2, <3>1, Releases
    <3> QED BY <1>0, <2>1, <3>1, <3>2, NoContactIs, LowerKept
  <2>4. CASE ~(~enabled' /\ enabled)
    <3>1. lowerInput' = Lower!Taken /\ contact' = contact
      BY <1>1, <2>4 DEF Lower!Tick, Lower!Stops
    <3>2. lowerInput'.button # "none" =>
             /\ contact'.action = lowerInput'.button /\ contact'.inside
             /\ touching'[contact'.finger] # "lifted" /\ enabled'
      BY <1>0, <2>1, <2>2, <2>4, <3>1 DEF Lower!HeldByContact
    <3> QED BY <1>0, <2>1, <2>2, <3>1, <3>2, LowerKept
  <2> QED BY <2>3, <2>4
<1>2. CASE Lower!TellRadar
  <2>1. /\ map' \in 0 .. 2 /\ contact' = Lower!NoContact /\ lowerInput' = Lower!NoInput
        /\ zoom' = 1 /\ mark' = 0 /\ UNCHANGED <<touching, enabled>>
    BY <1>2 DEF Lower!TellRadar, Lower!ForgetsMark
  <2> QED BY <1>0, <2>1, NoContactIs, LowerKept
<1> QED BY <1>1, <1>2

\* The finger f goes down, slides, lifts or is cancelled.
LEMMA LowerTouches == ASSUME LowerInv, NEW f \in FINGERS, Lower!Touches(f) PROVE LowerInv'
<1>0. /\ contact \in Touchings /\ lowerInput \in LowerInputs
      /\ zoom \in {1, 2, 4} /\ mark \in {0, map} /\ mark \in 0 .. 2 /\ map \in 0 .. 2
      /\ enabled \in BOOLEAN
      /\ touching \in [FINGERS -> CONTROLS \cup {"away", "lifted"}]
      /\ contact.action = "none" => contact = Lower!NoContact
      /\ contact.action # "none" => contact.finger \in FINGERS
  BY LowerParts
<1>1. lowerInput.button # "none" =>
        /\ contact.action = lowerInput.button /\ contact.inside
        /\ touching[contact.finger] # "lifted" /\ enabled
  BY LowerParts DEF Lower!HeldByContact
<1>2. f # 0 /\ "lifted" \notin CONTROLS \cup {"away"}
  BY LocalAssumption
<1>3. lowerInput.button # "none" => contact.finger \in FINGERS /\ contact # Lower!NoContact
  <2>1. ASSUME lowerInput.button # "none" PROVE contact.action # "none"
    BY <1>0, <1>1, <2>1
  <2> QED BY <1>0, <2>1, NoContactIs
<1>4. CASE Lower!Cancelled(f)
  <2>1. /\ touching' = [touching EXCEPT ![f] = "lifted"] /\ contact' = Lower!NoContact
        /\ lowerInput' = Lower!Released(lowerInput) /\ UNCHANGED <<enabled, map, zoom, mark>>
    BY <1>4 DEF Lower!Cancelled, Lower!Cancel
  <2>2. touching' \in [FINGERS -> CONTROLS \cup {"away", "lifted"}]
    BY <1>0, <2>1
  <2> QED BY <1>0, <2>1, <2>2, Releases, NoContactIs, LowerKept
<1>5. ASSUME NEW control \in CONTROLS \cup {"away"}, Lower!GoesDown(f, control)
      PROVE  LowerInv'
  <2>1. /\ touching[f] = "lifted" /\ touching' = [touching EXCEPT ![f] = control]
        /\ UNCHANGED <<enabled, map, zoom, mark>>
    BY <1>5 DEF Lower!GoesDown
  <2>2. touching' \in [FINGERS -> CONTROLS \cup {"away", "lifted"}] /\ touching'[f] = control
        /\ \A g \in FINGERS \ {f} : touching'[g] = touching[g]
    BY <1>0, <2>1
  <2>3. CASE contact # Lower!NoContact \/ ~enabled \/ control \notin Lower!Actions
    <3>1. UNCHANGED <<contact, lowerInput>>
      BY <1>5, <2>3 DEF Lower!GoesDown
    <3> QED BY <1>0, <1>1, <1>2, <1>3, <2>1, <2>2, <3>1, LowerKept
  <2>4. CASE contact = Lower!NoContact /\ enabled /\ control \in Lower!Actions
    <3>1. /\ contact' = [finger |-> f, action |-> control, inside |-> TRUE, dragged |-> FALSE]
          /\ lowerInput' = IF control \in Lower!Buttons \ {"reload"}
                           THEN Lower!Updated(lowerInput, control) ELSE lowerInput
      BY <1>5, <2>4 DEF Lower!GoesDown
    <3>2. PICK action \in Lower!Actions : action = control
      BY <2>4
    <3>3. /\ contact' \in Touchings /\ contact'.finger = f /\ contact'.action = control
          /\ contact'.inside
      <4>1. contact' = [finger |-> f, action |-> action, inside |-> TRUE, dragged |-> FALSE]
        BY <3>1, <3>2
      <4> QED BY <3>2, <4>1 DEF Touchings
    <3>4. control # "none"
      BY <3>2 DEF Lower!Actions, Lower!Buttons
    <3>5. lowerInput.button = "none"
      BY <1>3, <2>4
    <3>6. /\ lowerInput' \in LowerInputs
          /\ lowerInput'.button # "none" => lowerInput'.button = control
      BY <1>0, <3>1, <3>5, Updates
    <3> QED BY <1>0, <1>2, <2>1, <2>2, <2>4, <3>3, <3>4, <3>6, LowerKept
  <2> QED BY <2>3, <2>4
<1>6. ASSUME NEW control \in CONTROLS \cup {"away"}, Lower!Moves(f, control)
      PROVE  LowerInv'
  <2>1. /\ touching' = [touching EXCEPT ![f] = control] /\ UNCHANGED <<enabled, map, zoom, mark>>
    BY <1>6 DEF Lower!Moves
  <2>2. touching' \in [FINGERS -> CONTROLS \cup {"away", "lifted"}] /\ touching'[f] = control
        /\ \A g \in FINGERS \ {f} : touching'[g] = touching[g]
    BY <1>0, <2>1
  <2>3. CASE UNCHANGED <<contact, lowerInput>>
    BY <1>0, <1>1, <1>2, <1>3, <2>1, <2>2, <2>3, LowerKept
  <2>4. CASE /\ lowerInput' = Lower!Released(lowerInput) /\ contact' \in Touchings
             /\ contact'.action = "none" => contact' = Lower!NoContact
             /\ contact'.action # "none" => contact'.finger \in FINGERS
    BY <1>0, <2>1, <2>2, <2>4, Releases, LowerKept
  <2>5. \/ UNCHANGED <<contact, lowerInput>>
        \/ /\ lowerInput' = Lower!Released(lowerInput) /\ contact' \in Touchings
           /\ contact'.action = "none" => contact' = Lower!NoContact
           /\ contact'.action # "none" => contact'.finger \in FINGERS
    <3>1. CASE contact.finger # f
      BY <1>6, <3>1 DEF Lower!Moves
    <3>2. CASE contact.finger = f
      <4>1. contact.action # "none"
        BY <1>0, <1>2, <3>2, NoContactIs
      <4>2. /\ [contact EXCEPT !.inside = FALSE] \in Touchings
            /\ [contact EXCEPT !.inside = FALSE].action = contact.action
            /\ [contact EXCEPT !.inside = FALSE].finger = contact.finger
            /\ [contact EXCEPT !.dragged = TRUE] \in Touchings
            /\ [contact EXCEPT !.dragged = TRUE].action = contact.action
            /\ [contact EXCEPT !.dragged = TRUE].finger = contact.finger
        BY <1>0 DEF Touchings
      <4>3. Lower!Cancel \/ Lower!Drags \/ Lower!Slides(control)
        BY <1>6, <3>2 DEF Lower!Moves
      <4>4. contact.finger \in FINGERS
        BY <1>0, <4>1
      <4>5. CASE Lower!Cancel
        BY <4>5, NoContactIs DEF Lower!Cancel
      <4>6. CASE Lower!Drags
        BY <1>0, <4>1, <4>2, <4>4, <4>6 DEF Lower!Drags
      <4>7. CASE Lower!Slides(control)
        BY <1>0, <4>1, <4>2, <4>4, <4>7 DEF Lower!Slides
      <4> QED BY <4>3, <4>5, <4>6, <4>7
    <3> QED BY <3>1, <3>2
  <2> QED BY <2>3, <2>4, <2>5
<1>7. ASSUME NEW control \in CONTROLS \cup {"away"}, Lower!GoesUp(f, control)
      PROVE  LowerInv'
  <2>1. /\ touching' = [touching EXCEPT ![f] = "lifted"] /\ UNCHANGED <<enabled, map>>
    BY <1>7 DEF Lower!GoesUp
  <2>2. touching' \in [FINGERS -> CONTROLS \cup {"away", "lifted"}]
        /\ \A g \in FINGERS \ {f} : touching'[g] = touching[g]
    BY <1>0, <2>1
  <2>3. CASE contact.finger # f
    <3>1. UNCHANGED <<contact, lowerInput, zoom, mark>>
      BY <1>7, <2>3 DEF Lower!GoesUp
    <3> QED BY <1>0, <1>1, <1>3, <2>1, <2>2, <2>3, <3>1, LowerKept
  <2>4. CASE contact.finger = f
    <3> DEFINE acts == enabled /\ contact.inside /\ control = contact.action
    <3>1. /\ contact' = Lower!NoContact
          /\ lowerInput' = IF acts /\ control = "reload"
                           THEN Lower!Released(Lower!Updated(Lower!Released(lowerInput), "reload"))
                           ELSE Lower!Released(lowerInput)
          /\ zoom' = IF acts /\ control = "zoom" THEN Lower!NextZoom ELSE zoom
          /\ mark' = CASE acts /\ control = "clear" -> 0
                       [] acts /\ control = "map" /\ ~contact.dragged -> map
                       [] OTHER -> mark
      BY <1>7, <2>4 DEF Lower!GoesUp
    <3>2. lowerInput' \in LowerInputs /\ lowerInput'.button = "none"
      <4>1. Lower!Released(lowerInput) \in LowerInputs /\ Lower!Released(lowerInput).button = "none"
        BY <1>0, Releases
      <4>2. Lower!Updated(Lower!Released(lowerInput), "reload") \in LowerInputs
        BY <4>1, Updates DEF Lower!Buttons
      <4> QED BY <3>1, <4>1, <4>2, Releases
    <3>3. zoom' \in {1, 2, 4}
      BY <1>0, <3>1 DEF Lower!NextZoom
    <3>4. mark' = 0 \/ mark' = map \/ mark' = mark
      BY <3>1
    <3> QED BY <1>0, <2>1, <2>2, <3>1, <3>2, <3>3, <3>4, NoContactIs, LowerKept
  <2> QED BY <2>3, <2>4
<1> QED BY <1>4, <1>5, <1>6, <1>7 DEF Lower!Touches

LEMMA LowerStep == LowerInv /\ [Lower!Next]_lowerVars => LowerInv'
<1> SUFFICES ASSUME LowerInv, [Lower!Next]_lowerVars PROVE LowerInv'
  OBVIOUS
<1>1. CASE UNCHANGED lowerVars
  BY <1>1, LowerParts, LowerKept DEF lowerVars, Lower!HeldByContact
<1>2. CASE Lower!Next
  BY <1>2, LowerTick, LowerTouches DEF Lower!Next
<1> QED BY <1>1, <1>2

LEMMA LowerInit == Lower!Init => LowerInv
<1> SUFFICES ASSUME Lower!Init PROVE LowerInv
  OBVIOUS
<1>1. /\ touching \in [FINGERS -> CONTROLS \cup {"away", "lifted"}]
      /\ contact = Lower!NoContact /\ lowerInput = Lower!NoInput
      /\ enabled = FALSE /\ map = 0 /\ zoom = 1 /\ mark = 0
  BY DEF Lower!Init
<1>2. Lower!HeldByContact
  BY <1>1, NoContactIs DEF Lower!HeldByContact
<1>3. zoom \in {1, 2, 4} /\ mark \in {0, map} /\ enabled \in BOOLEAN
  BY <1>1
<1>5. mark \in 0 .. 2 /\ map \in 0 .. 2
  BY <1>1
<1>4. contact \in Touchings /\ lowerInput \in LowerInputs
      /\ contact.action = "none" /\ contact = Lower!NoContact
  BY <1>1, NoContactIs
<1> QED BY <1>1, <1>2, <1>3, <1>4, <1>5, LowerParts

-----------------------------------------------------------------------------
(* The HUD: what it paints.                                                 *)

\* What a record of paints, and of what was painted, consist of.
IsPainting(p) ==
    p = [banner |-> p.banner, title |-> p.title, sub |-> p.sub, hp |-> p.hp, hpColor |-> p.hpColor,
         ammo |-> p.ammo, ammoColor |-> p.ammoColor, barColor |-> p.barColor,
         reload |-> p.reload, vignette |-> p.vignette, score |-> p.score]
IsCache(c) ==
    c = [phase |-> c.phase, network |-> c.network, count |-> c.count, hp |-> c.hp,
         hpColor |-> c.hpColor, ammo |-> c.ammo, ammoColor |-> c.ammoColor, barColor |-> c.barColor,
         reloading |-> c.reloading, alive |-> c.alive, score |-> c.score]

\* What the hook remembers is on the screen: the values of a part, or that it
\* never painted it.
HpFits(c, p) ==
    IF c.hp = -1 THEN c.hpColor = "none"
    ELSE p.hp = c.hp /\ p.hpColor = c.hpColor /\ c.hpColor = Painting!HpColor(c.hp)
AmmoFits(c, p) ==
    IF c.ammo = -1 THEN c.ammoColor = "none" /\ c.barColor = "none"
    ELSE /\ p.ammo = c.ammo
         /\ p.ammoColor = c.ammoColor /\ c.ammoColor = Painting!AmmoColor(c.ammo)
         /\ p.barColor = c.barColor /\ c.barColor = Painting!BarColor(c.ammo)
BannerFits(c, p) ==
    c.phase # "" =>
        /\ p.banner = (c.phase # "live")
        /\ c.phase # "live" =>
             /\ p.title = IF c.network # "" THEN c.network ELSE c.phase
             /\ p.sub = <<IF c.network # "" THEN "network" ELSE c.phase, c.count>>
FlagsFit(c, p) ==
    /\ c.reloading \in BOOLEAN /\ p.reload = c.reloading
    /\ c.alive \in BOOLEAN /\ p.vignette = ~c.alive
ScoreFits(c, p) == c.score = -1 \/ p.score = c.score

PaintInv ==
    /\ s \in Painting!States
    /\ IsPainting(painted) /\ IsCache(cached)
    /\ HpFits(cached, painted) /\ AmmoFits(cached, painted) /\ BannerFits(cached, painted)
    /\ FlagsFit(cached, painted) /\ ScoreFits(cached, painted)
    /\ fresh \in BOOLEAN
    /\ Painting!FrameShowsState

\* A screen on which nothing was painted yet.
LEMMA MountFits ==
    ASSUME NEW st, NEW c, NEW p, c = Painting!Unpainted, p = Painting!Mounted(st)
    PROVE  /\ IsPainting(p) /\ IsCache(c)
           /\ HpFits(c, p) /\ AmmoFits(c, p) /\ BannerFits(c, p) /\ FlagsFit(c, p) /\ ScoreFits(c, p)
<1>2. IsPainting(p)
  BY DEF IsPainting, Painting!Mounted
<1>3. IsCache(c)
  BY DEF IsCache, Painting!Unpainted
<1>4. /\ c.phase = "" /\ c.hp = -1 /\ c.ammo = -1 /\ c.score = -1
      /\ c.hpColor = "none" /\ c.ammoColor = "none" /\ c.barColor = "none"
      /\ c.reloading = FALSE /\ c.alive = TRUE /\ p.reload = FALSE /\ p.vignette = FALSE
  <2>1. c.phase = "" /\ c.hp = -1 /\ c.ammo = -1 /\ c.score = -1
    BY DEF Painting!Unpainted
  <2>2. c.hpColor = "none" /\ c.ammoColor = "none" /\ c.barColor = "none"
    BY DEF Painting!Unpainted
  <2>3. c.reloading = FALSE /\ c.alive = TRUE
    BY DEF Painting!Unpainted
  <2>4. p.reload = FALSE /\ p.vignette = FALSE
    BY DEF Painting!Mounted
  <2> QED BY <2>1, <2>2, <2>3, <2>4
<1> QED BY <1>2, <1>3, <1>4 DEF HpFits, AmmoFits, BannerFits, FlagsFit, ScoreFits

\* The parts of a state.
LEMMA StateParts ==
    ASSUME NEW st \in Painting!States
    PROVE  /\ st.phase \in {"starting", "live", "won", "lost"} /\ st.network \in STATUSES
           /\ st.age \in 0 .. 1 /\ st.hp \in 0 .. 2 /\ st.ammo \in 0 .. 2
           /\ st.reloading \in BOOLEAN /\ st.alive \in BOOLEAN /\ st.score \in 0 .. 1
BY DEF Painting!States, Painting!Phases

\* What a frame paints is what it would paint if it painted everything.
LEMMA FramePaints ==
    ASSUME PaintInv, Painting!Paint, UNCHANGED s
    PROVE  /\ IsPainting(painted') /\ IsCache(cached')
           /\ HpFits(cached', painted') /\ AmmoFits(cached', painted')
           /\ BannerFits(cached', painted') /\ FlagsFit(cached', painted')
           /\ ScoreFits(cached', painted')
           /\ painted'.banner \in BOOLEAN
           /\ cached'.phase = s.phase /\ cached'.network = s.network
           /\ s.phase # "live" => cached'.count = Painting!CountOf(s)
           /\ cached'.hp = s.hp /\ cached'.ammo = s.ammo /\ cached'.score = s.score
           /\ cached'.reloading = s.reloading /\ cached'.alive = s.alive
<1>0. /\ s.phase \in {"starting", "live", "won", "lost"}
      /\ s.age \in 0 .. 1 /\ s.hp \in 0 .. 2 /\ s.ammo \in 0 .. 2
      /\ s.reloading \in BOOLEAN /\ s.alive \in BOOLEAN /\ s.score \in 0 .. 1
  BY StateParts DEF PaintInv
<1>1. PICK hpC, ammoC, barC :
        /\ hpC = Painting!Colored(s.hp # cached.hp, Painting!HpColor(s.hp), cached.hpColor, painted.hpColor)
        /\ ammoC = Painting!Colored(s.ammo # cached.ammo, Painting!AmmoColor(s.ammo), cached.ammoColor, painted.ammoColor)
        /\ barC = Painting!Colored(s.ammo # cached.ammo, Painting!BarColor(s.ammo), cached.barColor, painted.barColor)
  OBVIOUS
<1>2. PICK banner, title, sub, points, ammo, reload, vignette, score, counted :
        /\ banner = IF Painting!PhaseChanged THEN s.phase # "live" ELSE painted.banner
        /\ title = IF Painting!PhaseChanged /\ s.phase # "live" THEN Painting!Title(s) ELSE painted.title
        /\ sub = Painting!Subtitled.sub
        /\ points = IF s.hp # cached.hp THEN s.hp ELSE painted.hp
        /\ ammo = IF s.ammo # cached.ammo THEN s.ammo ELSE painted.ammo
        /\ reload = IF s.reloading # cached.reloading THEN s.reloading ELSE painted.reload
        /\ vignette = IF s.alive # cached.alive THEN ~s.alive ELSE painted.vignette
        /\ score = IF s.score # cached.score THEN s.score ELSE painted.score
        /\ counted = Painting!Subtitled.count
  OBVIOUS
<1>3. painted' = [banner |-> banner, title |-> title, sub |-> sub, hp |-> points, hpColor |-> hpC.shown,
                  ammo |-> ammo, ammoColor |-> ammoC.shown, barColor |-> barC.shown,
                  reload |-> reload, vignette |-> vignette, score |-> score]
  BY <1>1, <1>2, Zenon DEF Painting!Paint
<1>4. cached' = [phase |-> s.phase, network |-> s.network, count |-> counted,
                 hp |-> s.hp, hpColor |-> hpC.cache,
                 ammo |-> s.ammo, ammoColor |-> ammoC.cache, barColor |-> barC.cache,
                 reloading |-> s.reloading, alive |-> s.alive, score |-> s.score]
  BY <1>1, <1>2, Zenon DEF Painting!Paint
<1>5. IsPainting(painted')
  BY <1>3 DEF IsPainting
<1>6. IsCache(cached')
  BY <1>4 DEF IsCache
<1>p. /\ painted'.title = title /\ painted'.sub = sub /\ painted'.hp = points
      /\ painted'.ammo = ammo /\ painted'.score = score
      /\ painted'.hpColor = hpC.shown /\ painted'.ammoColor = ammoC.shown
      /\ painted'.barColor = barC.shown
      /\ painted'.banner = banner /\ painted'.reload = reload /\ painted'.vignette = vignette
  BY <1>3
<1>c. /\ cached'.phase = s.phase /\ cached'.network = s.network /\ cached'.count = counted
      /\ cached'.hp = s.hp /\ cached'.ammo = s.ammo /\ cached'.score = s.score
      /\ cached'.hpColor = hpC.cache /\ cached'.ammoColor = ammoC.cache
      /\ cached'.barColor = barC.cache
      /\ cached'.reloading = s.reloading /\ cached'.alive = s.alive
  BY <1>4
<1>7. HpFits(cached', painted')
  <2>1. HpFits(cached, painted)
    BY DEF PaintInv
  <2>2. Painting!HpColor(s.hp) # "none"
    BY <1>0 DEF Painting!HpColor
  <2>3. points = s.hp /\ hpC.shown = hpC.cache /\ hpC.cache = Painting!HpColor(s.hp)
    <3> DEFINE color == Painting!HpColor(s.hp)
    <3> HIDE DEF color
    <3>1. hpC = IF s.hp # cached.hp /\ color # cached.hpColor THEN [cache |-> color, shown |-> color]
                ELSE [cache |-> cached.hpColor, shown |-> painted.hpColor]
      BY <1>1 DEF Painting!Colored, color
    <3>2. color # "none"
      BY <2>2 DEF color
    <3>3. s.hp = cached.hp => cached.hpColor = color
      BY <1>0, <2>1 DEF HpFits, color
    <3>4. hpC.shown = hpC.cache /\ hpC.cache = color
      BY <1>0, <2>1, <3>1, <3>2, <3>3 DEF HpFits
    <3> QED BY <1>0, <1>2, <2>1, <3>4 DEF HpFits, color
  <2> QED BY <1>0, <1>p, <1>c, <2>3 DEF HpFits
<1>8. AmmoFits(cached', painted')
  <2>1. AmmoFits(cached, painted)
    BY DEF PaintInv
  <2> DEFINE color == Painting!AmmoColor(s.ammo)
             bar == Painting!BarColor(s.ammo)
  <2>2. color # "none" /\ bar # "none"
    BY <1>0 DEF Painting!AmmoColor, Painting!BarColor
  <2>3. s.ammo = cached.ammo => cached.ammoColor = color /\ cached.barColor = bar
    BY <1>0, <2>1 DEF AmmoFits
  <2>4. /\ ammoC = IF s.ammo # cached.ammo /\ color # cached.ammoColor
                   THEN [cache |-> color, shown |-> color]
                   ELSE [cache |-> cached.ammoColor, shown |-> painted.ammoColor]
        /\ barC = IF s.ammo # cached.ammo /\ bar # cached.barColor
                  THEN [cache |-> bar, shown |-> bar]
                  ELSE [cache |-> cached.barColor, shown |-> painted.barColor]
    BY <1>1 DEF Painting!Colored
  <2> HIDE DEF color, bar
  <2>5. ammoC.shown = ammoC.cache /\ ammoC.cache = color
    BY <1>0, <2>1, <2>2, <2>3, <2>4 DEF AmmoFits
  <2>6. barC.shown = barC.cache /\ barC.cache = bar
    BY <1>0, <2>1, <2>2, <2>3, <2>4 DEF AmmoFits
  <2>7. ammo = s.ammo
    BY <1>0, <1>2, <2>1 DEF AmmoFits
  <2> QED BY <1>0, <1>p, <1>c, <2>5, <2>6, <2>7 DEF AmmoFits, color, bar
<1>9. /\ BannerFits(cached', painted') /\ painted'.banner \in BOOLEAN
      /\ s.phase # "live" => counted = Painting!CountOf(s)
  <2>1. BannerFits(cached, painted)
    BY DEF PaintInv
  <2>2. Painting!CountOf(s) # -1
    <3>1. Painting!Countdown(s.phase) \in 1 .. 2
      BY DEF Painting!Countdown
    <3>2. Painting!Left(s) \in 0 .. 2
      BY <1>0, <3>1 DEF Painting!Left
    <3>3. Painting!CountOf(s) = -2 \/ Painting!CountOf(s) = Painting!Left(s)
      BY DEF Painting!CountOf
    <3> QED BY <3>2, <3>3
  <2>3. Painting!PhaseChanged <=> s.phase # cached.phase \/ s.network # cached.network
    BY DEF Painting!PhaseChanged
  <2>4. banner = (s.phase # "live")
    <3>1. CASE Painting!PhaseChanged
      BY <1>2, <3>1
    <3>2. CASE ~Painting!PhaseChanged
      <4>1. banner = painted.banner
        BY <1>2, <3>2
      <4> QED BY <1>0, <2>1, <2>3, <3>2, <4>1 DEF BannerFits
    <3> QED BY <3>1, <3>2
  <2>5. ASSUME s.phase # "live"
        PROVE  /\ title = IF s.network # "" THEN s.network ELSE s.phase
               /\ sub = <<IF s.network # "" THEN "network" ELSE s.phase, counted>>
               /\ counted = Painting!CountOf(s)
    <3>1. /\ counted = Painting!CountOf(s)
          /\ sub = IF Painting!CountOf(s) # Painting!CountBefore THEN Painting!SubOf(s) ELSE painted.sub
      BY <1>2, <2>5 DEF Painting!Subtitled
    <3>2. Painting!SubOf(s) = <<IF s.network # "" THEN "network" ELSE s.phase, counted>>
      BY <3>1 DEF Painting!SubOf
    <3>3. CASE Painting!PhaseChanged
      BY <1>2, <2>2, <2>5, <3>1, <3>2, <3>3 DEF Painting!CountBefore, Painting!Title
    <3>4. CASE ~Painting!PhaseChanged
      <4>1. title = painted.title /\ s.phase = cached.phase /\ s.network = cached.network
            /\ Painting!CountBefore = cached.count
        BY <1>2, <2>3, <3>4 DEF Painting!CountBefore
      <4>2. /\ painted.title = IF s.network # "" THEN s.network ELSE s.phase
            /\ painted.sub = <<IF s.network # "" THEN "network" ELSE s.phase, cached.count>>
        BY <1>0, <2>1, <2>5, <4>1 DEF BannerFits
      <4>3. sub = <<IF s.network # "" THEN "network" ELSE s.phase, counted>>
        BY <3>1, <3>2, <4>1, <4>2
      <4> QED BY <3>1, <4>1, <4>2, <4>3
    <3> QED BY <3>3, <3>4
  <2>6. painted'.banner = (cached'.phase # "live")
    BY <1>p, <1>c, <2>4
  <2> QED BY <1>p, <1>c, <2>5, <2>6 DEF BannerFits
<1>10. FlagsFit(cached', painted')
  <2>1. FlagsFit(cached, painted)
    BY DEF PaintInv
  <2>2. reload = s.reloading
    BY <1>0, <1>2, <2>1 DEF FlagsFit
  <2>3. vignette = ~s.alive
    BY <1>0, <1>2, <2>1 DEF FlagsFit
  <2> QED BY <1>0, <1>p, <1>c, <2>2, <2>3 DEF FlagsFit
<1>11. ScoreFits(cached', painted')
  <2>1. ScoreFits(cached, painted)
    BY DEF PaintInv
  <2> QED BY <1>0, <1>2, <1>p, <1>c, <2>1 DEF ScoreFits
<1> QED BY <1>5, <1>6, <1>c, <1>7, <1>8, <1>9, <1>10, <1>11

\* What is seen is then the state.
LEMMA FrameShows ==
    ASSUME PaintInv, Painting!Paint, UNCHANGED s
    PROVE  Painting!Seen' = Painting!Repainted(s)
<1>0. /\ s.phase \in {"starting", "live", "won", "lost"}
      /\ s.hp \in 0 .. 2 /\ s.ammo \in 0 .. 2 /\ s.score \in 0 .. 1
      /\ s.reloading \in BOOLEAN /\ s.alive \in BOOLEAN
  BY StateParts DEF PaintInv
<1>1. PICK c, p : c = cached' /\ p = painted'
  OBVIOUS
<1>2. /\ IsPainting(p)
      /\ HpFits(c, p) /\ AmmoFits(c, p) /\ BannerFits(c, p) /\ FlagsFit(c, p) /\ ScoreFits(c, p)
      /\ p.banner \in BOOLEAN
      /\ c.phase = s.phase /\ c.network = s.network
      /\ s.phase # "live" => c.count = Painting!CountOf(s)
      /\ c.hp = s.hp /\ c.ammo = s.ammo /\ c.score = s.score
      /\ c.reloading = s.reloading /\ c.alive = s.alive
  BY <1>1, FramePaints
<1>3. /\ p.hp = s.hp /\ p.hpColor = Painting!HpColor(s.hp)
      /\ p.ammo = s.ammo /\ p.ammoColor = Painting!AmmoColor(s.ammo)
      /\ p.barColor = Painting!BarColor(s.ammo) /\ p.score = s.score
  BY <1>0, <1>2 DEF HpFits, AmmoFits, ScoreFits
<1>4. p.reload = s.reloading /\ p.vignette = ~s.alive
  BY <1>0, <1>2 DEF FlagsFit
<1>5. /\ p.banner = (s.phase # "live")
      /\ s.phase # "live" => p.title = Painting!Title(s) /\ p.sub = Painting!SubOf(s)
  BY <1>0, <1>2 DEF BannerFits, Painting!Title, Painting!SubOf
<1>6. PICK title, sub : /\ title = IF s.phase = "live" THEN "" ELSE Painting!Title(s)
                        /\ sub = IF s.phase = "live" THEN <<>> ELSE Painting!SubOf(s)
  OBVIOUS
<1>7. [p EXCEPT !.title = IF p.banner THEN p.title ELSE "",
                !.sub = IF p.banner THEN p.sub ELSE <<>>]
        = [banner |-> p.banner, title |-> title, sub |-> sub, hp |-> p.hp, hpColor |-> p.hpColor,
           ammo |-> p.ammo, ammoColor |-> p.ammoColor, barColor |-> p.barColor,
           reload |-> p.reload, vignette |-> p.vignette, score |-> p.score]
  <2>1. title = (IF p.banner THEN p.title ELSE "") /\ sub = (IF p.banner THEN p.sub ELSE <<>>)
    BY <1>2, <1>5, <1>6
  <2>2. p \in [banner : {p.banner}, title : {p.title}, sub : {p.sub}, hp : {p.hp},
               hpColor : {p.hpColor}, ammo : {p.ammo}, ammoColor : {p.ammoColor},
               barColor : {p.barColor}, reload : {p.reload}, vignette : {p.vignette},
               score : {p.score}]
    BY <1>2 DEF IsPainting
  <2>3. PICK q : q = [p EXCEPT !.title = title, !.sub = sub]
    OBVIOUS
  <2>4. q = [banner |-> p.banner, title |-> title, sub |-> sub, hp |-> p.hp, hpColor |-> p.hpColor,
             ammo |-> p.ammo, ammoColor |-> p.ammoColor, barColor |-> p.barColor,
             reload |-> p.reload, vignette |-> p.vignette, score |-> p.score]
    BY <2>2, <2>3
  <2> QED BY <2>1, <2>3, <2>4
<1>8. Painting!Seen' = [p EXCEPT !.title = IF p.banner THEN p.title ELSE "",
                                 !.sub = IF p.banner THEN p.sub ELSE <<>>]
  BY <1>1 DEF Painting!Seen
<1>9. Painting!Repainted(s) =
        [hp |-> p.hp, hpColor |-> p.hpColor, ammo |-> p.ammo,
         ammoColor |-> p.ammoColor, barColor |-> p.barColor,
         reload |-> p.reload, vignette |-> p.vignette, score |-> p.score,
         banner |-> p.banner, title |-> title, sub |-> sub]
  BY <1>3, <1>4, <1>5, <1>6, Zenon DEF Painting!Repainted
<1> QED BY <1>7, <1>8, <1>9

LEMMA PaintParts ==
    PaintInv' <=> /\ s' \in Painting!States
                  /\ IsPainting(painted') /\ IsCache(cached')
                  /\ HpFits(cached', painted') /\ AmmoFits(cached', painted')
                  /\ BannerFits(cached', painted')
                  /\ FlagsFit(cached', painted') /\ ScoreFits(cached', painted')
                  /\ fresh' \in BOOLEAN
                  /\ Painting!FrameShowsState'
BY DEF PaintInv, IsPainting, IsCache, HpFits, AmmoFits, BannerFits, FlagsFit, ScoreFits,
       Painting!States, Painting!Phases, Painting!HpColor, Painting!AmmoColor, Painting!BarColor

\* The events do not paint, and another state waits for the next frame.
LEMMA PaintWaits ==
    ASSUME PaintInv, s' \in Painting!States, UNCHANGED <<cached, painted>>, fresh' = FALSE
    PROVE  PaintInv'
<1>1. Painting!FrameShowsState'
  BY DEF Painting!FrameShowsState
<1>2. /\ IsPainting(painted') /\ IsCache(cached')
      /\ HpFits(cached', painted') /\ AmmoFits(cached', painted') /\ BannerFits(cached', painted')
      /\ FlagsFit(cached', painted') /\ ScoreFits(cached', painted')
  BY DEF PaintInv
<1> QED BY <1>1, <1>2, PaintParts

\* The two huds differ in the states that are dispatched, and in what is told.
LEMMA HudsAlike ==
    /\ Feeding!Frame = Painting!Frame /\ Feeding!Fade = Painting!Fade
    /\ Feeding!States = Painting!States
    /\ \A st : Feeding!Mounted(st) = Painting!Mounted(st)
    /\ Feeding!Unpainted = Painting!Unpainted
BY Zenon DEF Feeding!Frame, Painting!Frame, Feeding!Fade, Painting!Fade, Feeding!Paint, Painting!Paint,
   Feeding!States, Painting!States, Feeding!Phases, Painting!Phases,
   Feeding!Mounted, Painting!Mounted, Feeding!Unpainted, Painting!Unpainted,
   Feeding!Clean, Painting!Clean, Feeding!NoEffects, Painting!NoEffects,
   Feeding!Colored, Painting!Colored, Feeding!Subtitled, Painting!Subtitled,
   Feeding!CountBefore, Painting!CountBefore, Feeding!CountOf, Painting!CountOf,
   Feeding!SubOf, Painting!SubOf, Feeding!Title, Painting!Title, Feeding!Left, Painting!Left,
   Feeding!Countdown, Painting!Countdown, Feeding!PhaseChanged, Painting!PhaseChanged,
   Feeding!HpColor, Painting!HpColor, Feeding!AmmoColor, Painting!AmmoColor,
   Feeding!BarColor, Painting!BarColor

\* A state that is dispatched is one of a round.
LEMMA StatesAre ==
    ASSUME s' \in {st \in Kinds!States : \E g \in Groups : \A f \in DOMAIN Calm \ g : st[f] = Calm[f]}
           \/ s' \in {Calm, [Calm EXCEPT !.phase = "live"]} \/ s' = Calm
    PROVE  s' \in Painting!States
<1>1. Kinds!States = Painting!States
  BY DEF Kinds!States, Painting!States, Kinds!Phases, Painting!Phases
<1>2. Calm \in Painting!States /\ [Calm EXCEPT !.phase = "live"] \in Painting!States
  <2>1. "" \in STATUSES
    BY LocalAssumption
  <2>2. Calm \in Painting!States
    <3>1. "starting" \in Painting!Phases /\ 0 \in 0 .. 1 /\ 2 \in 0 .. 2
      BY DEF Painting!Phases
    <3>2. \A network \in STATUSES, ph \in Painting!Phases :
            [phase |-> ph, network |-> network, age |-> 0, hp |-> 2, ammo |-> 2,
             reloading |-> FALSE, alive |-> TRUE, score |-> 0] \in Painting!States
      BY <3>1 DEF Painting!States
    <3> QED BY <2>1, <3>1, <3>2 DEF Calm
  <2>3. [Calm EXCEPT !.phase = "live"] \in Painting!States
    BY <2>2 DEF Painting!States, Painting!Phases
  <2> QED BY <2>2, <2>3
<1> QED BY <1>1, <1>2

-----------------------------------------------------------------------------
(* The HUD: what it was told.                                               *)

Texts == {"none", "new", "old"}
FeedRows == [1 .. ROWS -> [text : Texts, left : Nat]]
Flags == [feed : BOOLEAN, flash : BOOLEAN, hit : BOOLEAN, reset : BOOLEAN]
Flashes == [flash : Texts, hit : Texts]
Hearing == [feed : FeedRows, rows : FeedRows, dirty : Flags, effects : Flashes]
Events == {"damaged", "hit", "kill", "reset"}

\* Only what a reset has still to wipe is of another round, and the rows on the
\* screen are those of the feed unless the frame has still to show them. The feed
\* itself is wiped by the reset.
EventsFit(h) ==
    /\ \A i \in 1 .. ROWS : h.feed[i].left > 0 => h.feed[i].text = "new"
    /\ h.dirty.reset /\ ~h.dirty.feed => \A i \in 1 .. ROWS : h.feed[i].left = 0
    /\ ~h.dirty.reset =>
         /\ h.effects.flash # "old" /\ h.effects.hit # "old"
         /\ \A i \in 1 .. ROWS : h.rows[i].left > 0 => h.rows[i].text = "new"
    /\ ~h.dirty.reset /\ ~h.dirty.feed =>
         \A i \in 1 .. ROWS : h.rows[i].left > 0 \/ h.feed[i].left > 0 => h.rows[i] = h.feed[i]

Fitting == {h \in Hearing : EventsFit(h)}
TheHud == [feed |-> feed, rows |-> rows, dirty |-> dirty, effects |-> effects]
FeedInv == TheHud \in Fitting

LEMMA HearingIs ==
    ASSUME NEW f \in FeedRows, NEW r \in FeedRows, NEW d \in Flags, NEW e \in Flashes, NEW h,
           h = [feed |-> f, rows |-> r, dirty |-> d, effects |-> e]
    PROVE  h \in Hearing /\ h.feed = f /\ h.rows = r /\ h.dirty = d /\ h.effects = e
BY DEF Hearing

LEMMA HearingParts ==
    ASSUME NEW h \in Hearing
    PROVE  /\ h.feed \in FeedRows /\ h.rows \in FeedRows /\ h.dirty \in Flags /\ h.effects \in Flashes
           /\ h = [feed |-> h.feed, rows |-> h.rows, dirty |-> h.dirty, effects |-> h.effects]
BY DEF Hearing

\* The feed without its first row, and a new one behind the others.
LEMMA PushedIs ==
    ASSUME NEW f \in FeedRows, \A i \in 1 .. ROWS : f[i].left > 0 => f[i].text = "new"
    PROVE  /\ Feeding!Pushed(f) \in FeedRows
           /\ \A i \in 1 .. ROWS :
                Feeding!Pushed(f)[i].left > 0 => Feeding!Pushed(f)[i].text = "new"
<1>0. ROWS \in Nat \ {0} /\ KEEP \in Nat
  BY LocalAssumption
<1>1. PICK row \in [text : Texts, left : Nat] : row = [text |-> "new", left |-> KEEP] /\ row.text = "new"
  <2>1. [text |-> "new", left |-> KEEP] \in [text : Texts, left : Nat]
    BY <1>0 DEF Texts
  <2> QED BY <2>1
<1> DEFINE Row == [text : Texts, left : Nat]
<1> HIDE DEF Row
<1>2. f \in Seq(Row) /\ Len(f) = ROWS
  <2>1. f \in [1 .. ROWS -> Row] /\ ROWS \in Nat
    BY <1>0 DEF FeedRows, Row
  <2>2. f \in Seq(Row)
    BY <2>1, SeqDef
  <2> QED BY <2>1, <2>2
<1>3. /\ Tail(f) \in Seq(Row) /\ Len(Tail(f)) = ROWS - 1
      /\ \A i \in 1 .. ROWS - 1 : Tail(f)[i] = f[i + 1]
  BY <1>0, <1>2
<1>4. PICK t \in Seq(Row) : t = Tail(f) /\ Len(t) = ROWS - 1
  BY <1>3
<1>5. row \in Row
  BY DEF Row
<1>6. /\ Append(t, row) \in Seq(Row) /\ Len(Append(t, row)) = ROWS
      /\ \A i \in 1 .. ROWS - 1 : Append(t, row)[i] = t[i]
      /\ Append(t, row)[ROWS] = row
  BY <1>0, <1>4, <1>5
<1>7. Feeding!Pushed(f) = Append(t, row)
  BY <1>1, <1>4 DEF Feeding!Pushed
<1>8. Append(t, row) \in [1 .. ROWS -> Row]
  <2>1. PICK a \in Seq(Row) : a = Append(t, row) /\ Len(a) = ROWS
    BY <1>6
  <2>2. a \in [1 .. Len(a) -> Row]
    BY LenProperties
  <2> QED BY <2>1, <2>2
<1>9. ASSUME NEW i \in 1 .. ROWS, Append(t, row)[i].left > 0
      PROVE  Append(t, row)[i].text = "new"
  <2>1. CASE i = ROWS
    BY <1>1, <1>6, <2>1
  <2>2. CASE i # ROWS
    <3>1. i \in 1 .. ROWS - 1 /\ i + 1 \in 1 .. ROWS
      BY <1>0, <2>2
    <3>2. Append(t, row)[i] = f[i + 1]
      BY <1>3, <1>4, <1>6, <3>1
    <3> QED BY <1>9, <3>1, <3>2
  <2> QED BY <2>1, <2>2
<1> QED BY <1>7, <1>8, <1>9 DEF FeedRows, Row

LEMMA BlankIs ==
    /\ Feeding!BlankRows \in FeedRows
    /\ \A i \in 1 .. ROWS : Feeding!BlankRows[i].left = 0 /\ Feeding!BlankRows[i].text = "none"
    /\ Feeding!NoEffects \in Flashes
    /\ Feeding!NoEffects.flash = "none" /\ Feeding!NoEffects.hit = "none"
    /\ Feeding!Clean \in Flags /\ ~Feeding!Clean.reset /\ ~Feeding!Clean.feed
BY DEF Feeding!BlankRows, Feeding!Blank, FeedRows, Texts, Feeding!NoEffects, Flashes, Feeding!Clean, Flags

\* What one handler leaves.
LEMMA HeardKeeps == ASSUME NEW h \in Fitting, NEW e \in Events PROVE Feeding!Heard(h, e) \in Fitting
<1>0. /\ h \in Hearing /\ EventsFit(h)
      /\ h.feed \in FeedRows /\ h.rows \in FeedRows /\ h.dirty \in Flags /\ h.effects \in Flashes
  BY HearingParts DEF Fitting
<1>1. PICK after : after = Feeding!Heard(h, e)
  OBVIOUS
<1>2. CASE e = "damaged"
  <2>1. PICK d \in Flags : /\ d = [h.dirty EXCEPT !.flash = TRUE]
                           /\ d.feed = h.dirty.feed /\ d.reset = h.dirty.reset
    BY <1>0 DEF Flags
  <2>2. after = [feed |-> h.feed, rows |-> h.rows, dirty |-> d, effects |-> h.effects]
    BY <1>0, <1>1, <1>2, <2>1 DEF Feeding!Heard, Hearing
  <2>3. /\ after \in Hearing /\ after.feed = h.feed /\ after.rows = h.rows /\ after.dirty = d
        /\ after.effects = h.effects
    BY <1>0, <2>2, HearingIs
  <2> QED BY <1>0, <1>1, <2>1, <2>3 DEF Fitting, EventsFit
<1>3. CASE e = "hit"
  <2>1. PICK d \in Flags : /\ d = [h.dirty EXCEPT !.hit = TRUE]
                           /\ d.feed = h.dirty.feed /\ d.reset = h.dirty.reset
    BY <1>0 DEF Flags
  <2>2. after = [feed |-> h.feed, rows |-> h.rows, dirty |-> d, effects |-> h.effects]
    BY <1>0, <1>1, <1>3, <2>1 DEF Feeding!Heard, Hearing
  <2>3. /\ after \in Hearing /\ after.feed = h.feed /\ after.rows = h.rows /\ after.dirty = d
        /\ after.effects = h.effects
    BY <1>0, <2>2, HearingIs
  <2> QED BY <1>0, <1>1, <2>1, <2>3 DEF Fitting, EventsFit
<1>4. CASE e = "kill"
  <2>1. PICK d \in Flags : /\ d = [[h.dirty EXCEPT !.hit = TRUE] EXCEPT !.feed = TRUE]
                           /\ d.feed /\ d.reset = h.dirty.reset
    <3>1. PICK d : d = [[h.dirty EXCEPT !.hit = TRUE] EXCEPT !.feed = TRUE]
      OBVIOUS
    <3>2. d = [feed |-> TRUE, flash |-> h.dirty.flash, hit |-> TRUE, reset |-> h.dirty.reset]
          /\ h.dirty.flash \in BOOLEAN /\ h.dirty.reset \in BOOLEAN
      BY <1>0, <3>1 DEF Flags
    <3>3. d \in Flags /\ d.feed /\ d.reset = h.dirty.reset
      BY <3>2 DEF Flags
    <3> QED BY <3>1, <3>3
  <2>2. PICK f \in FeedRows : /\ f = Feeding!Pushed(h.feed)
                              /\ \A i \in 1 .. ROWS : f[i].left > 0 => f[i].text = "new"
    BY <1>0, PushedIs DEF EventsFit
  <2>3. after = [feed |-> f, rows |-> h.rows, dirty |-> d, effects |-> h.effects]
    BY <1>0, <1>1, <1>4, <2>1, <2>2 DEF Feeding!Heard, Hearing
  <2>4. /\ after \in Hearing /\ after.feed = f /\ after.rows = h.rows /\ after.dirty = d
        /\ after.effects = h.effects
    BY <1>0, <2>3, HearingIs
  <2> QED BY <1>0, <1>1, <2>1, <2>2, <2>4 DEF Fitting, EventsFit
<1>5. CASE e = "reset"
  <2>1. PICK d \in Flags : /\ d = [[h.dirty EXCEPT !.feed = FALSE] EXCEPT !.reset = TRUE]
                           /\ ~d.feed /\ d.reset
    <3>1. PICK d : d = [[h.dirty EXCEPT !.feed = FALSE] EXCEPT !.reset = TRUE]
      OBVIOUS
    <3>2. d = [feed |-> FALSE, flash |-> h.dirty.flash, hit |-> h.dirty.hit, reset |-> TRUE]
          /\ h.dirty.flash \in BOOLEAN /\ h.dirty.hit \in BOOLEAN
      BY <1>0, <3>1 DEF Flags
    <3>3. d \in Flags /\ ~d.feed /\ d.reset
      BY <3>2 DEF Flags
    <3> QED BY <3>1, <3>3
  <2>2. PICK r \in FeedRows :
          r = [i \in DOMAIN h.rows |-> [h.rows[i] EXCEPT !.text = Feeding!Aged(@)]]
    <3>1. ASSUME NEW i \in 1 .. ROWS
          PROVE  [h.rows[i] EXCEPT !.text = Feeding!Aged(@)] \in [text : Texts, left : Nat]
      <4>1. h.rows[i] \in [text : Texts, left : Nat]
        BY <1>0 DEF FeedRows
      <4>2. Feeding!Aged(h.rows[i].text) \in Texts
        BY <4>1 DEF Feeding!Aged, Texts
      <4> QED BY <4>1, <4>2
    <3>2. DOMAIN h.rows = 1 .. ROWS
      BY <1>0 DEF FeedRows
    <3> QED BY <3>1, <3>2 DEF FeedRows
  <2>3. PICK ef \in Flashes :
          ef = [flash |-> Feeding!Aged(h.effects.flash), hit |-> Feeding!Aged(h.effects.hit)]
    <3>1. h.effects.flash \in Texts /\ h.effects.hit \in Texts
      BY <1>0 DEF Flashes
    <3>2. Feeding!Aged(h.effects.flash) \in Texts /\ Feeding!Aged(h.effects.hit) \in Texts
      BY <3>1 DEF Feeding!Aged, Texts
    <3> QED BY <3>2 DEF Flashes
  <2>4. after = [feed |-> Feeding!BlankRows, rows |-> r, dirty |-> d, effects |-> ef]
    BY <1>0, <1>1, <1>5, <2>1, <2>2, <2>3 DEF Feeding!Heard, Feeding!RowsAfterReset
  <2>5. /\ after \in Hearing /\ after.feed = Feeding!BlankRows /\ after.rows = r /\ after.dirty = d
        /\ after.effects = ef
    BY <2>4, HearingIs, BlankIs
  <2>6. after.dirty.reset /\ ~after.dirty.feed /\ \A i \in 1 .. ROWS : after.feed[i].left = 0
    BY <2>1, <2>5, BlankIs
  <2>7. EventsFit(after)
    BY <2>6 DEF EventsFit
  <2> QED BY <1>1, <2>5, <2>7 DEF Fitting
<1> QED BY <1>2, <1>3, <1>4, <1>5 DEF Events

\* The time that passes.
LEMMA ElapsedKeeps ==
    ASSUME FeedInv
    PROVE  [feed |-> Feeding!Elapsed(feed), rows |-> Feeding!Elapsed(rows),
            dirty |-> dirty, effects |-> effects] \in Fitting
<1>0. feed \in FeedRows /\ rows \in FeedRows /\ dirty \in Flags /\ effects \in Flashes
  BY DEF FeedInv, TheHud, Fitting, Hearing
<1>1. ASSUME NEW r \in FeedRows
      PROVE  /\ Feeding!Elapsed(r) \in FeedRows
             /\ \A i \in 1 .. ROWS : /\ Feeding!Elapsed(r)[i].text = r[i].text
                                     /\ Feeding!Elapsed(r)[i].left = IF r[i].left > 0 THEN r[i].left - 1 ELSE 0
                                     /\ Feeding!Elapsed(r)[i] = [r[i] EXCEPT !.left = IF @ > 0 THEN @ - 1 ELSE 0]
  BY DEF Feeding!Elapsed, FeedRows
<1>2. PICK f \in FeedRows, r \in FeedRows :
        /\ f = Feeding!Elapsed(feed) /\ r = Feeding!Elapsed(rows)
        /\ \A i \in 1 .. ROWS : /\ f[i].text = feed[i].text /\ r[i].text = rows[i].text
                                /\ f[i].left > 0 => feed[i].left > 0
                                /\ r[i].left > 0 => rows[i].left > 0
                                /\ feed[i].left = 0 => f[i].left = 0
                                /\ rows[i] = feed[i] => r[i] = f[i]
  <2>1. PICK f \in FeedRows, r \in FeedRows : f = Feeding!Elapsed(feed) /\ r = Feeding!Elapsed(rows)
    BY <1>0, <1>1
  <2>2. ASSUME NEW i \in 1 .. ROWS
        PROVE  /\ f[i].text = feed[i].text /\ r[i].text = rows[i].text
               /\ f[i].left > 0 => feed[i].left > 0
               /\ r[i].left > 0 => rows[i].left > 0
               /\ feed[i].left = 0 => f[i].left = 0
               /\ rows[i] = feed[i] => r[i] = f[i]
    <3>1. feed[i].left \in Nat /\ rows[i].left \in Nat
      BY <1>0 DEF FeedRows
    <3>2. /\ f[i].text = feed[i].text /\ r[i].text = rows[i].text
          /\ f[i].left = IF feed[i].left > 0 THEN feed[i].left - 1 ELSE 0
          /\ r[i].left = IF rows[i].left > 0 THEN rows[i].left - 1 ELSE 0
      BY <1>0, <1>1, <2>1
    <3>3. /\ f[i] = [feed[i] EXCEPT !.left = IF @ > 0 THEN @ - 1 ELSE 0]
          /\ r[i] = [rows[i] EXCEPT !.left = IF @ > 0 THEN @ - 1 ELSE 0]
      BY <1>0, <1>1, <2>1
    <3> QED BY <3>1, <3>2, <3>3
  <2> QED BY <2>1, <2>2
<1>3. PICK h : h = [feed |-> f, rows |-> r, dirty |-> dirty, effects |-> effects]
  OBVIOUS
<1>4. h \in Hearing /\ h.feed = f /\ h.rows = r /\ h.dirty = dirty /\ h.effects = effects
  BY <1>0, <1>3, HearingIs
<1>5. PICK old : old = TheHud
  OBVIOUS
<1>6. EventsFit(old) /\ old.feed = feed /\ old.rows = rows /\ old.dirty = dirty /\ old.effects = effects
  BY <1>5 DEF FeedInv, TheHud, Fitting
<1>7. EventsFit(h)
  BY <1>2, <1>4, <1>6 DEF EventsFit
<1> QED BY <1>2, <1>3, <1>4, <1>7 DEF Fitting

\* The handlers of a turn are a loop over its events.
LEMMA ToldKeeps ==
    ASSUME NEW h \in Fitting, NEW events \in Seq(Events)
    PROVE  Feeding!Told(h, events) \in Fitting
<1> DEFINE turns == Len(events)
           after == CHOOSE f : f = [n \in 0 .. turns |->
                                      IF n = 0 THEN h ELSE Feeding!Heard(f[n - 1], events[n])]
           turn == [x \in (1 .. turns) \X Fitting |-> Feeding!Heard(x[2], events[x[1]])]
<1>1. turns \in Nat
  OBVIOUS
<1>2. turn \in [(1 .. turns) \X Fitting -> Fitting]
  <2>1. \A x \in (1 .. turns) \X Fitting : events[x[1]] \in Events /\ x[2] \in Fitting
    OBVIOUS
  <2> HIDE DEF turns
  <2> QED BY <2>1, HeardKeeps
<1>3. PICK f \in [0 .. turns -> Fitting] : IsLoop(f, turns, h, turn)
  <2> HIDE DEF turns, turn, after
  <2> QED BY <1>1, <1>2, LoopThrough
<1>4. f = [n \in 0 .. turns |-> IF n = 0 THEN h ELSE Feeding!Heard(f[n - 1], events[n])]
  <2>1. ASSUME NEW n \in 0 .. turns, n # 0
        PROVE  turn[<<n, f[n - 1]>>] = Feeding!Heard(f[n - 1], events[n])
    <3> HIDE DEF turns
    <3>1. n \in 1 .. turns /\ f[n - 1] \in Fitting
      BY <1>1, <1>3, <2>1
    <3> QED BY <3>1
  <2> HIDE DEF turn, turns
  <2> QED BY <1>3, <2>1 DEF IsLoop
<1>5. after = [n \in 0 .. turns |-> IF n = 0 THEN h ELSE Feeding!Heard(after[n - 1], events[n])]
  BY <1>4
<1>6. Feeding!Told(h, events) = after[turns]
  BY DEF Feeding!Told
<1>7. \A n \in 0 .. turns : after[n] = f[n]
  <2> HIDE DEF after, turns
  <2>1. after[0] = f[0]
    BY <1>1, <1>4, <1>5
  <2>2. ASSUME NEW n \in 1 .. turns, after[n - 1] = f[n - 1]
        PROVE  after[n] = f[n]
    <3>1. n \in 0 .. turns /\ n # 0
      BY <1>1
    <3>2. after[n] = Feeding!Heard(after[n - 1], events[n])
      BY <1>5, <3>1
    <3>3. f[n] = Feeding!Heard(f[n - 1], events[n])
      BY <1>4, <3>1
    <3> QED BY <2>2, <3>2, <3>3
  <2> QED BY <1>1, <2>1, <2>2, TurnsAgree, ZenonT(60)
<1> HIDE DEF after, turns
<1>8. after[turns] = f[turns] /\ f[turns] \in Fitting
  BY <1>1, <1>3, <1>7
<1> QED BY <1>6, <1>8

LEMMA ToldAlike == \A h, events : Painting!Told(h, events) = Feeding!Told(h, events)
BY Zenon DEF Painting!Told, Feeding!Told, Painting!Heard, Feeding!Heard, Painting!Pushed, Feeding!Pushed,
   Painting!RowsAfterReset, Feeding!RowsAfterReset, Painting!BlankRows, Feeding!BlankRows,
   Painting!Blank, Feeding!Blank, Painting!Aged, Feeding!Aged

LEMMA ElapsedAlike == \A r : Painting!Elapsed(r) = Feeding!Elapsed(r)
BY DEF Painting!Elapsed, Feeding!Elapsed

\* Time passes, and a turn's events are told.
LEMMA FeedDispatch ==
    ASSUME FeedInv, NEW events \in Seq(Events), NEW h,
           h = Feeding!Told([feed |-> Feeding!Elapsed(feed), rows |-> Feeding!Elapsed(rows),
                             dirty |-> dirty, effects |-> effects], events),
           feed' = h.feed, rows' = h.rows, dirty' = h.dirty, effects' = h.effects
    PROVE  FeedInv'
<1>1. h \in Fitting
  BY ElapsedKeeps, ToldKeeps
<1>2. h = [feed |-> h.feed, rows |-> h.rows, dirty |-> h.dirty, effects |-> h.effects]
  BY <1>1, HearingParts DEF Fitting
<1>3. TheHud' = h
  BY <1>2 DEF TheHud
<1> QED BY <1>1, <1>3 DEF FeedInv, Fitting, EventsFit, Hearing

\* What a step has to keep.
LEMMA FeedKept ==
    ASSUME NEW f \in FeedRows, NEW r \in FeedRows, NEW d \in Flags, NEW e \in Flashes,
           feed' = f, rows' = r, dirty' = d, effects' = e,
           EventsFit([feed |-> f, rows |-> r, dirty |-> d, effects |-> e])
    PROVE  FeedInv'
<1>1. TheHud' = [feed |-> f, rows |-> r, dirty |-> d, effects |-> e]
  BY DEF TheHud
<1>2. TheHud' \in Hearing
  BY <1>1, HearingIs
<1> QED BY <1>1, <1>2 DEF FeedInv, Fitting

LEMMA FeedParts ==
    ASSUME FeedInv
    PROVE  /\ feed \in FeedRows /\ rows \in FeedRows /\ dirty \in Flags /\ effects \in Flashes
           /\ \A i \in 1 .. ROWS : feed[i].left > 0 => feed[i].text = "new"
           /\ dirty.reset /\ ~dirty.feed => \A i \in 1 .. ROWS : feed[i].left = 0
           /\ ~dirty.reset =>
                /\ effects.flash # "old" /\ effects.hit # "old"
                /\ \A i \in 1 .. ROWS : rows[i].left > 0 => rows[i].text = "new"
           /\ ~dirty.reset /\ ~dirty.feed =>
                \A i \in 1 .. ROWS : rows[i].left > 0 \/ feed[i].left > 0 => rows[i] = feed[i]
<1>1. PICK h : h = TheHud
  OBVIOUS
<1>2. h \in Hearing /\ EventsFit(h)
  BY <1>1 DEF FeedInv, Fitting
<1>3. h.feed = feed /\ h.rows = rows /\ h.dirty = dirty /\ h.effects = effects
  BY <1>1 DEF TheHud
<1> QED BY <1>2, <1>3, HearingParts DEF EventsFit

\* The same, of what is there after a step.
LEMMA FeedFits ==
    ASSUME NEW f, NEW r, NEW d, NEW e,
           \A i \in 1 .. ROWS : f[i].left > 0 => f[i].text = "new",
           d.reset /\ ~d.feed => \A i \in 1 .. ROWS : f[i].left = 0,
           ~d.reset =>
             /\ e.flash # "old" /\ e.hit # "old"
             /\ \A i \in 1 .. ROWS : r[i].left > 0 => r[i].text = "new",
           ~d.reset /\ ~d.feed =>
             \A i \in 1 .. ROWS : r[i].left > 0 \/ f[i].left > 0 => r[i] = f[i]
    PROVE  EventsFit([feed |-> f, rows |-> r, dirty |-> d, effects |-> e])
BY DEF EventsFit

\* The frame that follows on a reset wipes what is of the round before.
LEMMA FeedFrame == ASSUME FeedInv, Feeding!Frame PROVE FeedInv'
<1>1. dirty' = Feeding!Clean /\ feed' = feed
  BY DEF Feeding!Frame
<1>2. PICK e \in Flashes : /\ effects' = e
                           /\ e.flash # "old" /\ e.hit # "old"
  <2>1. CASE dirty.reset
    BY <2>1, BlankIs DEF Feeding!Frame
  <2>2. CASE ~dirty.reset
    <3>1. effects' = [flash |-> IF dirty.flash THEN "new" ELSE effects.flash,
                      hit |-> IF dirty.hit THEN "new" ELSE effects.hit]
      BY <2>2 DEF Feeding!Frame
    <3>2. PICK flash \in Texts, hit \in Texts :
            /\ flash = (IF dirty.flash THEN "new" ELSE effects.flash)
            /\ hit = (IF dirty.hit THEN "new" ELSE effects.hit)
            /\ flash # "old" /\ hit # "old"
      BY <2>2, FeedParts DEF Flashes, Texts
    <3>3. effects' = [flash |-> flash, hit |-> hit]
      BY <3>1, <3>2
    <3> QED BY <3>2, <3>3 DEF Flashes
  <2> QED BY <2>1, <2>2
<1>3. PICK r \in FeedRows :
        /\ rows' = r
        /\ \A i \in 1 .. ROWS : r[i].left > 0 => r[i].text = "new"
        /\ \A i \in 1 .. ROWS : r[i].left > 0 \/ feed[i].left > 0 => r[i] = feed[i]
  <2>1. CASE dirty.feed
    <3>1. rows' = feed
      BY <2>1 DEF Feeding!Frame
    <3> QED BY <3>1, FeedParts
  <2>2. CASE ~dirty.feed /\ dirty.reset
    <3>1. rows' = [i \in DOMAIN rows |-> [rows[i] EXCEPT !.left = 0]]
      BY <2>2 DEF Feeding!Frame
    <3>2. rows \in FeedRows
      BY FeedParts
    <3>3. rows' \in FeedRows /\ \A i \in 1 .. ROWS : rows'[i].left = 0
      BY <3>1, <3>2 DEF FeedRows
    <3> QED BY <2>2, <3>3, FeedParts
  <2>3. CASE ~dirty.feed /\ ~dirty.reset
    <3>1. rows' = rows
      BY <2>3 DEF Feeding!Frame
    <3> QED BY <2>3, <3>1, FeedParts
  <2> QED BY <2>1, <2>2, <2>3
<1>4. EventsFit([feed |-> feed, rows |-> r, dirty |-> Feeding!Clean, effects |-> e])
  BY <1>2, <1>3, FeedParts, BlankIs, FeedFits
<1> QED BY <1>1, <1>2, <1>3, <1>4, FeedParts, BlankIs, FeedKept

LEMMA FeedBlank ==
    ASSUME feed' = Feeding!BlankRows, rows' = Feeding!BlankRows, dirty' = Feeding!Clean,
           effects' = Feeding!NoEffects
    PROVE  FeedInv'
<1>1. EventsFit([feed |-> Feeding!BlankRows, rows |-> Feeding!BlankRows, dirty |-> Feeding!Clean,
                 effects |-> Feeding!NoEffects])
  BY BlankIs, FeedFits
<1> QED BY <1>1, BlankIs, FeedKept

\* Nothing was told, or an effect ends.
LEMMA FeedOther ==
    ASSUME FeedInv,
           \/ UNCHANGED <<feed, rows, dirty, effects>>
           \/ Feeding!Fade
           \/ feed' = Feeding!BlankRows /\ rows' = Feeding!BlankRows /\ dirty' = Feeding!Clean
              /\ effects' = Feeding!NoEffects
    PROVE  FeedInv'
<1>1. CASE UNCHANGED <<feed, rows, dirty, effects>>
  BY <1>1 DEF FeedInv, TheHud, Fitting, Hearing, EventsFit
<1>2. CASE Feeding!Fade
  <2>1. UNCHANGED <<feed, rows, dirty>>
    BY <1>2 DEF Feeding!Fade
  <2>2. PICK e \in Flashes : /\ effects' = e
                             /\ e.flash \in {effects.flash, "none"} /\ e.hit \in {effects.hit, "none"}
    <3>1. effects \in Flashes
      BY FeedParts
    <3>2. CASE effects' = Feeding!NoEffects
      BY <3>2, BlankIs
    <3>3. CASE effects' = [effects EXCEPT !.flash = "none"]
      BY <3>1, <3>3 DEF Flashes, Texts
    <3>4. CASE effects' = [effects EXCEPT !.hit = "none"]
      BY <3>1, <3>4 DEF Flashes, Texts
    <3> QED BY <1>2, <3>2, <3>3, <3>4 DEF Feeding!Fade
  <2>3. EventsFit([feed |-> feed, rows |-> rows, dirty |-> dirty, effects |-> e])
    BY <2>2, FeedParts, FeedFits
  <2> QED BY <2>1, <2>2, <2>3, FeedParts, FeedKept
<1>3. CASE feed' = Feeding!BlankRows /\ rows' = Feeding!BlankRows /\ dirty' = Feeding!Clean
           /\ effects' = Feeding!NoEffects
  BY <1>3, FeedBlank
<1> QED BY <1>1, <1>2, <1>3

\* What a turn may report is a sequence of events.
LEMMA ReportsAre == /\ \A r \in Kinds!Reports : r \in Seq(Events)
                    /\ <<>> \in Seq(Events)
BY DEF Kinds!Reports, Events

\* The HUD, of which the states that are dispatched are those of either part.
HudInv == PaintInv /\ FeedInv

LEMMA PaintStays == ASSUME PaintInv, UNCHANGED <<s, cached, painted, fresh>> PROVE PaintInv'
<1>1. Painting!FrameShowsState' = Painting!FrameShowsState
  BY DEF Painting!FrameShowsState, Painting!Seen, Painting!Repainted, Painting!HpColor,
         Painting!AmmoColor, Painting!BarColor, Painting!Title, Painting!SubOf, Painting!CountOf,
         Painting!Left, Painting!Countdown
<1>2. Painting!States' = Painting!States
  BY DEF Painting!States, Painting!Phases
<1> QED BY <1>1, <1>2, PaintParts DEF PaintInv

LEMMA HudStep ==
    ASSUME HudInv, Painting!Next \/ Feeding!Next
    PROVE  HudInv'
<1>1. CASE Painting!Frame \/ Feeding!Frame
  <2>1. Painting!Frame /\ Feeding!Frame
    BY <1>1, HudsAlike
  <2>2. Painting!Paint /\ UNCHANGED s /\ fresh' = TRUE
    BY <2>1 DEF Painting!Frame
  <2>3. Painting!Repainted(s)' = Painting!Repainted(s)
    BY <2>2 DEF Painting!Repainted, Painting!HpColor, Painting!AmmoColor, Painting!BarColor,
                Painting!Title, Painting!SubOf, Painting!CountOf, Painting!Left, Painting!Countdown
  <2>4. Painting!FrameShowsState'
    BY <2>2, <2>3, FrameShows DEF HudInv, Painting!FrameShowsState
  <2>5. s' \in Painting!States
    BY <2>2 DEF HudInv, PaintInv, Painting!States, Painting!Phases
  <2>6. PaintInv'
    BY <2>2, <2>4, <2>5, FramePaints, PaintParts DEF HudInv
  <2> QED BY <2>1, <2>6, FeedFrame DEF HudInv
<1>2. CASE Painting!Fade \/ Feeding!Fade
  <2>1. Painting!Fade /\ Feeding!Fade
    BY <1>2, HudsAlike
  <2>2. UNCHANGED <<s, cached, painted, fresh>>
    BY <2>1 DEF Painting!Fade
  <2>3. PaintInv'
    BY <2>2, PaintStays DEF HudInv
  <2> QED BY <2>1, <2>3, FeedOther DEF HudInv
<1>3. ASSUME s' \in Painting!States, UNCHANGED <<cached, painted>>, fresh' = FALSE,
             NEW events \in Seq(Events), NEW h,
             h = Feeding!Told([feed |-> Feeding!Elapsed(feed), rows |-> Feeding!Elapsed(rows),
                               dirty |-> dirty, effects |-> effects], events),
             feed' = h.feed, rows' = h.rows, dirty' = h.dirty, effects' = h.effects
      PROVE  HudInv'
  BY <1>3, PaintWaits, FeedDispatch DEF HudInv
<1>4. CASE Painting!Dispatch
  <2>1. s' \in Painting!States
    BY <1>4, StatesAre DEF Painting!Dispatch
  <2>2. PICK h : /\ h = Painting!Told([feed |-> Painting!Elapsed(feed), rows |-> Painting!Elapsed(rows),
                                       dirty |-> dirty, effects |-> effects], <<>>)
                 /\ feed' = h.feed /\ rows' = h.rows /\ dirty' = h.dirty /\ effects' = h.effects
    BY <1>4 DEF Painting!Dispatch
  <2>3. h = Feeding!Told([feed |-> Feeding!Elapsed(feed), rows |-> Feeding!Elapsed(rows),
                          dirty |-> dirty, effects |-> effects], <<>>)
    BY <2>2, ToldAlike, ElapsedAlike
  <2>4. UNCHANGED <<cached, painted>> /\ fresh' = FALSE
    BY <1>4 DEF Painting!Dispatch
  <2> QED BY <1>3, <2>1, <2>2, <2>3, <2>4, ReportsAre
<1>5. CASE Feeding!Dispatch
  <2>1. s' \in Painting!States
    BY <1>5, StatesAre DEF Feeding!Dispatch
  <2>2. PICK events \in Kinds!Reports :
          \E h : /\ h = Feeding!Told([feed |-> Feeding!Elapsed(feed), rows |-> Feeding!Elapsed(rows),
                                      dirty |-> dirty, effects |-> effects], events)
                 /\ feed' = h.feed /\ rows' = h.rows /\ dirty' = h.dirty /\ effects' = h.effects
    BY <1>5 DEF Feeding!Dispatch
  <2>3. UNCHANGED <<cached, painted>> /\ fresh' = FALSE
    BY <1>5 DEF Feeding!Dispatch
  <2> QED BY <1>3, <2>1, <2>2, <2>3, ReportsAre
<1>6. ASSUME s' \in Painting!States, cached' = Painting!Unpainted, painted' = Painting!Mounted(s'),
             feed' = Feeding!BlankRows, rows' = Feeding!BlankRows, dirty' = Feeding!Clean,
             effects' = Feeding!NoEffects, fresh' = FALSE
      PROVE  HudInv'
  <2>1. PaintInv'
    <3>1. Painting!FrameShowsState'
      BY <1>6 DEF Painting!FrameShowsState
    <3> QED BY <1>6, <3>1, MountFits, PaintParts
  <2> QED BY <1>6, <2>1, FeedBlank DEF HudInv
<1>7. CASE Painting!Remount
  <2>1. s' \in Painting!States
    BY <1>7, StatesAre DEF Painting!Remount
  <2> QED BY <1>6, <1>7, <2>1
       DEF Painting!Remount, Painting!BlankRows, Feeding!BlankRows, Painting!Blank, Feeding!Blank,
           Painting!Clean, Feeding!Clean, Painting!NoEffects, Feeding!NoEffects
<1>8. CASE Feeding!Remount
  <2>1. s' \in Painting!States
    BY <1>8, StatesAre DEF Feeding!Remount
  <2>2. cached' = Painting!Unpainted /\ painted' = Painting!Mounted(s')
    BY <1>8, HudsAlike DEF Feeding!Remount
  <2> QED BY <1>6, <1>8, <2>1, <2>2 DEF Feeding!Remount
<1> QED BY <1>1, <1>2, <1>4, <1>5, <1>7, <1>8 DEF Painting!Next, Feeding!Next

LEMMA HudStays == HudInv /\ UNCHANGED hudVars => HudInv'
<1> SUFFICES ASSUME HudInv, UNCHANGED hudVars PROVE HudInv'
  OBVIOUS
<1> QED BY PaintStays, FeedOther DEF HudInv, hudVars

LEMMA HudInit == Painting!Init /\ (part # "paint" => s = Calm) => HudInv
<1> SUFFICES ASSUME Painting!Init PROVE HudInv
  OBVIOUS
<1>1. s \in Painting!States
  BY DEF Painting!Init, Kinds!States, Painting!States, Kinds!Phases, Painting!Phases
<1>2. /\ cached = Painting!Unpainted /\ painted = Painting!Mounted(s)
      /\ feed = Feeding!BlankRows /\ rows = Feeding!BlankRows /\ dirty = Feeding!Clean
      /\ effects = Feeding!NoEffects /\ fresh = FALSE
  BY DEF Painting!Init, Painting!Mount, Painting!BlankRows, Feeding!BlankRows, Painting!Blank, Feeding!Blank,
         Painting!Clean, Feeding!Clean, Painting!NoEffects, Feeding!NoEffects
<1>3. PaintInv
  <2>1. Painting!FrameShowsState
    BY <1>2 DEF Painting!FrameShowsState
  <2> QED BY <1>1, <1>2, <2>1, MountFits DEF PaintInv
<1>4. FeedInv
  <2>1. EventsFit([feed |-> feed, rows |-> rows, dirty |-> dirty, effects |-> effects])
    BY <1>2, BlankIs, FeedFits
  <2>2. TheHud \in Hearing
    BY <1>2, BlankIs, HearingIs DEF TheHud
  <2> QED BY <2>1, <2>2 DEF FeedInv, Fitting, TheHud
<1> QED BY <1>3, <1>4 DEF HudInv

LEMMA HudHolds == HudInv => Painting!TypeOK /\ Painting!FrameShowsState /\ Feeding!EffectsOfThisRound
<1> SUFFICES ASSUME HudInv PROVE Painting!TypeOK /\ Painting!FrameShowsState /\ Feeding!EffectsOfThisRound
  OBVIOUS
<1>1. DOMAIN painted = DOMAIN Painting!Mounted(s)
  BY DEF HudInv, PaintInv, IsPainting, Painting!Mounted
<1>2. DOMAIN cached = DOMAIN Painting!Unpainted
  BY DEF HudInv, PaintInv, IsCache, Painting!Unpainted
<1>3. Len(feed) = ROWS /\ Len(rows) = ROWS
  <2>1. feed \in FeedRows /\ rows \in FeedRows /\ ROWS \in Nat
    BY FeedParts, LocalAssumption DEF HudInv
  <2> QED BY <2>1 DEF FeedRows
<1>4. Feeding!EffectsOfThisRound
  BY FeedParts DEF HudInv, Feeding!EffectsOfThisRound
<1> QED BY <1>1, <1>2, <1>3, <1>4 DEF HudInv, PaintInv, Painting!TypeOK

-----------------------------------------------------------------------------
(* The properties of MCLocal.                                               *)

LEMMA MenuStep ==
    ASSUME MenuInv, Menus!Next \/ UNCHANGED menuVars
    PROVE  MenuInv' /\ (PromptInv => PromptInv')
<1>1. CASE UNCHANGED menuVars
  BY <1>1 DEF menuVars, MenuInv, PromptInv, Menus!TypeOK, Menus!NoWorld, Menus!FreshMenu, Menus!NoMap
<1>2. CASE Menus!Next
  <2>1. \/ \E online \in BOOLEAN : Menus!SelectMode(online)
        \/ \E m \in 1 .. MODS : Menus!ChooseMod(m)
        \/ Menus!Back
        \/ \E m \in 1 .. MAPS : Menus!Deploy(m)
        \/ Menus!Quit \/ Menus!Dispatch
        \/ Menus!Act \/ Menus!Upload
    BY <1>2 DEF Menus!Next
  <2>2. CASE Menus!Act \/ Menus!Upload
    BY <2>2, MenuHost
  <2> QED BY <2>1, <2>2, MenuChooses, MenuAsks
<1> QED BY <1>1, <1>2

LEMMA LateMenuStep == ASSUME MenuInv, LateMenus!Next PROVE MenuInv'
<1>1. \/ \E online \in BOOLEAN : Menus!SelectMode(online)
      \/ \E m \in 1 .. MODS : Menus!ChooseMod(m)
      \/ Menus!Back
      \/ \E m \in 1 .. MAPS : Menus!Deploy(m)
      \/ Menus!Quit \/ Menus!Dispatch
      \/ LateMenus!Act \/ Menus!Upload
  BY MenusAlike DEF LateMenus!Next
<1> QED BY <1>1, MenuChooses, MenuAsks, MenuHost

LEMMA MenuInit == Menus!Init => MenuInv /\ PromptInv
<1> SUFFICES ASSUME Menus!Init PROVE MenuInv /\ PromptInv
  OBVIOUS
<1>0. MODS \in Nat \ {0} /\ MAPS \in Nat /\ 0 \in 0 .. MAPS /\ 0 \in 0 .. MODS /\ 1 \in 1 .. MODS
  <2>1. MODS \in Nat \ {0} /\ MAPS \in Nat
    BY LocalAssumption
  <2> QED BY <2>1
<1>1. /\ screen = "starting" /\ inMenu = FALSE /\ crossplay = FALSE /\ mod = 1 /\ configured = 1
      /\ failed = FALSE
      /\ menu = [step |-> "mode", loading |-> 0, error |-> FALSE]
      /\ intent = [kind |-> "none", map |-> 0, mod |-> 0, net |-> FALSE]
      /\ world = Menus!NoWorld
      /\ Menus!NoWorld = [map |-> 0, mod |-> 0, net |-> FALSE, ready |-> FALSE]
      /\ Menus!FreshMenu = menu
  BY DEF Menus!Init, Menus!FreshMenu, Menus!NoIntent, Menus!NoWorld, Menus!NoMap
<1>2. intent \in Wishes /\ world \in Worlds /\ intent.kind = "none" /\ world.map = 0
  BY <1>0, <1>1 DEF Wishes, Worlds
<1>3. menu \in [step : {"mode", "mod", "map"}, loading : 0 .. MAPS, error : BOOLEAN]
  BY <1>0, <1>1
<1>4. Menus!TypeOK
  BY <1>0, <1>1, <1>2, <1>3 DEF Menus!TypeOK
<1> QED BY <1>1, <1>2, <1>4 DEF MenuInv, PromptInv

LEMMA MenuHolds ==
    /\ MenuInv => Menus!TypeOK /\ Menus!LoadedAsChosen /\ Menus!LoadingIsAsked
    /\ PromptInv => Menus!FailureShown
<1>1. MenuInv => Menus!TypeOK /\ Menus!LoadedAsChosen
  BY DEF MenuInv, Menus!LoadedAsChosen
<1>2. MenuInv => Menus!LoadingIsAsked
  BY DEF MenuInv, Menus!LoadingIsAsked, Menus!NoMap
<1>3. PromptInv => Menus!FailureShown
  BY DEF PromptInv, Menus!FailureShown
<1> QED BY <1>1, <1>2, <1>3

-----------------------------------------------------------------------------
(* The frame times.                                                         *)

Intervals == {1, 2}

\* Until the ring is full, it is written from its first place on; what is written
\* has no load in it, because a host that loads has paused.
FramesInv ==
    /\ next \in 0 .. SAMPLES - 1 /\ samples \in [0 .. SAMPLES - 1 -> {0} \cup Intervals]
    /\ running \in BOOLEAN /\ loaded \in BOOLEAN /\ drawn \in Seq(Intervals)
    /\ count = (IF Len(drawn) < SAMPLES THEN Len(drawn) ELSE SAMPLES)
    /\ Len(drawn) < SAMPLES => next = Len(drawn)
    /\ loaded => ~running
    /\ \A i \in 1 .. count : samples[Frames!Back(i)] = drawn[Len(drawn) + 1 - i]

LEMMA SamplesNatural == SAMPLES \in Nat \ {0}
BY LocalAssumption

\* The next place of the ring, without a remainder.
LEMMA RingNext ==
    ASSUME NEW n \in 0 .. SAMPLES - 1
    PROVE  (n + 1) % SAMPLES = IF n + 1 = SAMPLES THEN 0 ELSE n + 1
<1>1. SAMPLES \in Nat \ {0} /\ n \in Nat /\ n + 1 <= SAMPLES
  BY SamplesNatural
<1>2. CASE n + 1 = SAMPLES
  BY <1>1, <1>2, SMTT(30)
<1>3. CASE n + 1 < SAMPLES
  BY <1>1, <1>3, SMTT(30)
<1> QED BY <1>1, <1>2, <1>3

LEMMA FramesInit == Frames!Init => FramesInv
<1> SUFFICES ASSUME Frames!Init PROVE FramesInv
  OBVIOUS
<1>1. SAMPLES \in Nat \ {0}
  BY SamplesNatural
<1>2. drawn = <<>> /\ drawn \in Seq(Intervals) /\ Len(drawn) = 0
  BY DEF Frames!Init
<1>3. count = 0 /\ next = 0 /\ running = FALSE /\ loaded = FALSE
      /\ samples \in [0 .. SAMPLES - 1 -> {0} \cup Intervals]
  BY DEF Frames!Init
<1> QED BY <1>1, <1>2, <1>3 DEF FramesInv

\* A frame that is measured.
LEMMA FramesMeasured ==
    ASSUME FramesInv, running, NEW interval \in Intervals, Frames!Record(interval)
    PROVE  FramesInv'
<1>1. /\ SAMPLES \in Nat \ {0} /\ next \in 0 .. SAMPLES - 1 /\ ~loaded
      /\ drawn \in Seq(Intervals) /\ Len(drawn) \in Nat
      /\ samples \in [0 .. SAMPLES - 1 -> {0} \cup Intervals]
  BY SamplesNatural DEF FramesInv
<1>2. /\ running' = TRUE /\ loaded' = FALSE
      /\ samples' = [samples EXCEPT ![next] = interval]
      /\ next' = (next + 1) % SAMPLES
      /\ count' = (IF count < SAMPLES THEN count + 1 ELSE SAMPLES)
      /\ drawn' = Append(drawn, interval)
  BY <1>1 DEF Frames!Record
<1>3. next' = (IF next + 1 = SAMPLES THEN 0 ELSE next + 1) /\ next' \in 0 .. SAMPLES - 1
  BY <1>1, <1>2, RingNext
<1>4. samples' \in [0 .. SAMPLES - 1 -> {0} \cup Intervals]
  BY <1>1, <1>2
<1>5. /\ drawn' \in Seq(Intervals) /\ Len(drawn') = Len(drawn) + 1
      /\ drawn'[Len(drawn) + 1] = interval
      /\ \A i \in 1 .. Len(drawn) : drawn'[i] = drawn[i]
  BY <1>1, <1>2
<1>6. /\ count' = (IF Len(drawn') < SAMPLES THEN Len(drawn') ELSE SAMPLES)
      /\ Len(drawn') < SAMPLES => next' = Len(drawn')
  BY <1>1, <1>2, <1>3, <1>5 DEF FramesInv
<1>7. count \in Nat /\ count <= SAMPLES /\ count <= Len(drawn) /\ count' <= count + 1
      /\ count' \in Nat /\ count' <= SAMPLES /\ (count < SAMPLES => next = count)
  BY <1>1, <1>2 DEF FramesInv
<1>8. ASSUME NEW i \in 1 .. count' PROVE samples'[Frames!Back(i)'] = drawn'[Len(drawn') + 1 - i]
  <2>1. CASE i = 1
    <3>1. Frames!Back(i)' = next
      BY <1>1, <1>3, <2>1 DEF Frames!Back
    <3>2. samples'[next] = interval
      BY <1>1, <1>2
    <3> QED BY <1>1, <1>5, <2>1, <3>1, <3>2
  <2>2. CASE i > 1
    <3>1. i - 1 \in 1 .. count /\ i - 1 < SAMPLES
      BY <1>1, <1>7, <2>2
    <3>2. Frames!Back(i)' = Frames!Back(i - 1)
      BY <1>1, <1>3, <1>7, <2>2, <3>1 DEF Frames!Back
    <3>3. Frames!Back(i - 1) \in 0 .. SAMPLES - 1 /\ Frames!Back(i - 1) # next
      BY <1>1, <1>7, <3>1 DEF Frames!Back
    <3>4. samples'[Frames!Back(i - 1)] = samples[Frames!Back(i - 1)]
      BY <1>1, <1>2, <3>3
    <3>5. samples[Frames!Back(i - 1)] = drawn[Len(drawn) + 1 - (i - 1)]
      BY <3>1 DEF FramesInv
    <3>6. Len(drawn) + 1 - (i - 1) \in 1 .. Len(drawn)
          /\ Len(drawn) + 1 - (i - 1) = Len(drawn') + 1 - i
      BY <1>1, <1>5, <1>7, <2>2, <3>1
    <3> QED BY <1>5, <3>2, <3>4, <3>5, <3>6
  <2> QED BY <1>7, <2>1, <2>2
<1> QED BY <1>2, <1>3, <1>4, <1>5, <1>6, <1>8 DEF FramesInv

\* Where the ring stays.
LEMMA RingStays ==
    ASSUME FramesInv, UNCHANGED <<samples, next, count, drawn>>,
           running' \in BOOLEAN, loaded' \in BOOLEAN, loaded' => ~running'
    PROVE  FramesInv'
<1>1. \A i : Frames!Back(i)' = Frames!Back(i)
  BY DEF Frames!Back
<1> QED BY <1>1 DEF FramesInv

LEMMA FramesStep == FramesInv /\ [Frames!Next]_frameVars => FramesInv'
<1> SUFFICES ASSUME FramesInv, [Frames!Next]_frameVars PROVE FramesInv'
  OBVIOUS
<1>1. CASE UNCHANGED frameVars
  BY <1>1, RingStays DEF frameVars, FramesInv
<1>2. CASE Frames!Pause
  BY <1>2, RingStays DEF Frames!Pause, Frames!PauseForgets, FramesInv
<1>3. ASSUME NEW interval \in {1, 2}, Frames!Record(interval) PROVE FramesInv'
  <2>1. CASE running
    BY <1>3, <2>1, FramesMeasured DEF Intervals
  <2>2. CASE ~running
    BY <1>3, <2>2, RingStays DEF Frames!Record
  <2> QED BY <2>1, <2>2 DEF FramesInv
<1> QED BY <1>1, <1>2, <1>3 DEF Frames!Next

\* What is reported is of the last intervals, and each place is one that was written.
LEMMA FramesHold == FramesInv => Frames!TypeOK /\ Frames!WindowIsLast
<1> SUFFICES ASSUME FramesInv PROVE Frames!TypeOK /\ Frames!WindowIsLast
  OBVIOUS
<1>1. /\ SAMPLES \in Nat \ {0} /\ next \in 0 .. SAMPLES - 1
      /\ Len(drawn) \in Nat /\ count \in 0 .. SAMPLES /\ (count < SAMPLES => next = count)
  BY SamplesNatural DEF FramesInv
<1>2. ASSUME NEW i \in 1 .. count
      PROVE  Frames!Back(i) \in 0 .. count - 1
             /\ \A j \in 1 .. count : Frames!Back(i) = Frames!Back(j) => i = j
  BY <1>1 DEF Frames!Back
<1>3. ASSUME NEW i \in 1 .. count
      PROVE  samples[Frames!Back(i)] = drawn[Len(drawn) + 1 - i] /\ samples[Frames!Back(i)] # Frames!Load
  <2>1. samples[Frames!Back(i)] = drawn[Len(drawn) + 1 - i]
    BY DEF FramesInv
  <2>2. Len(drawn) + 1 - i \in 1 .. Len(drawn) /\ drawn \in Seq(Intervals)
    BY <1>1 DEF FramesInv
  <2>3. drawn[Len(drawn) + 1 - i] \in Intervals
    BY <2>2
  <2> QED BY <2>1, <2>3 DEF Frames!Load, Intervals
<1>4. count > 0 => /\ 0 <= Frames!Place(95) /\ Frames!Place(95) <= Frames!Place(99)
                   /\ Frames!Place(99) < count
  BY <1>1, SMTT(30) DEF Frames!Place
<1>5. count = (IF Len(drawn) < SAMPLES THEN Len(drawn) ELSE SAMPLES)
  BY DEF FramesInv
<1>6. Frames!WindowIsLast
  BY <1>1, <1>2, <1>3, <1>4, <1>5 DEF Frames!WindowIsLast
<1> QED BY <1>1, <1>6 DEF Frames!TypeOK

\* The screens of a game: each invariant is of variables that no other part moves.
ScreensInv ==
    /\ TouchInv /\ LowerInv /\ HudInv /\ FramesInv
    /\ MenuInv /\ (part # "late" => PromptInv)

LEMMA ScreensInit == MCInit => ScreensInv
BY TouchInit, LowerInit, HudInit, FramesInit, MenuInit DEF MCInit, ScreensInv

LEMMA ScreensStep == ScreensInv /\ [MCNext]_<<part, gameVars, screenVars>> => ScreensInv'
<1> SUFFICES ASSUME ScreensInv, [MCNext]_<<part, gameVars, screenVars>> PROVE ScreensInv'
  OBVIOUS
<1>1. /\ UNCHANGED part /\ [Touch!Next]_touchVars /\ [Lower!Next]_lowerVars
      /\ [Frames!Next]_frameVars
      /\ UNCHANGED hudVars \/ Painting!Next \/ Feeding!Next
      /\ \/ UNCHANGED menuVars
         \/ part = "menu" /\ Menus!Next
         \/ part = "late" /\ LateMenus!Next
  <2>1. CASE UNCHANGED <<part, gameVars, screenVars>>
    BY <2>1 DEF screenVars, gameVars
  <2>2. CASE Round \/ Fights \/ BotTick \/ BotShot \/ ClockCall \/ DrawnFrame
    BY <2>2 DEF Round, Fights, BotTick, BotShot, ClockCall, DrawnFrame, screenVars
  <2>3. CASE Touched \/ LowerTouched \/ Paints \/ Feeds
    BY <2>3 DEF Touched, LowerTouched, Paints, Feeds, gameVars
  <2>4. CASE Chooses \/ ChoosesLate
    BY <2>4 DEF Chooses, ChoosesLate, gameVars
  <2> QED BY <2>1, <2>2, <2>3, <2>4 DEF MCNext
<1>2. TouchInv'
  BY <1>1, TouchStep DEF ScreensInv
<1>3. LowerInv'
  BY <1>1, LowerStep DEF ScreensInv
<1>4. HudInv'
  BY <1>1, HudStep, HudStays DEF ScreensInv
<1>5. MenuInv' /\ (part' # "late" => PromptInv')
  <2>1. CASE UNCHANGED menuVars \/ (part = "menu" /\ Menus!Next)
    BY <1>1, <2>1, MenuStep DEF ScreensInv
  <2>2. CASE part = "late" /\ LateMenus!Next
    BY <1>1, <2>2, LateMenuStep DEF ScreensInv
  <2> QED BY <1>1, <2>1, <2>2
<1>6. FramesInv'
  BY <1>1, FramesStep DEF ScreensInv
<1> QED BY <1>2, <1>3, <1>4, <1>5, <1>6 DEF ScreensInv

LEMMA ScreensHold == ScreensInv => HeldDown /\ ShownIsState /\ LoadedAsShown
<1>1. LowerInv => Lower!TypeOK /\ Lower!HeldByContact /\ Lower!MarkOfThisMap
  BY DEF LowerInv
<1> QED BY <1>1, TouchHolds, HudHolds, FramesHold, MenuHolds
       DEF ScreensInv, HeldDown, ShownIsState, LoadedAsShown

LEMMA ScreensAlways == MCSpec => []ScreensInv
<1>1. MCSpec => MCInit /\ [][MCNext]_<<part, gameVars, screenVars>>
  BY PTL DEF MCSpec
<1> QED BY <1>1, ScreensInit, ScreensStep, PTL

\* What the host holds down is what fingers hold down, whatever screens change
\* under them: on the controls of the touch screens a button is down exactly while
\* a contact that is down, of which there is one for each role, holds it, and a
\* finger that is down in a dialog or in the menu holds nothing; on the lower
\* screen of the 3DS a button is down only under the contact that went down on it.
\* (PrimaryTouchGesture, TacticalTouch, TouchControls)
THEOREM HeldCorrect == MCSpec => []HeldDown
<1>1. ScreensInv => HeldDown
  BY ScreensHold
<1> QED BY <1>1, ScreensAlways, PTL

\* A frame of the HUD shows the state that was dispatched last, whatever it does not
\* paint again; no kill, flash or hit of a round that is over is seen after the frame
\* that follows on its reset; the radar's mark is of the map that is shown; and the frame
\* times are of the last frames, however often the ring went round, and of no load.
\* (hud.tsx, radar.tsx, FrameTimes)
THEOREM ShownCorrect == MCSpec => []ShownIsState
<1>1. ScreensInv => ShownIsState
  BY ScreensHold
<1> QED BY <1>1, ScreensAlways, PTL

\* The world that is played is the one the menus speak of, whatever the order of
\* choices, dispatches and what the host loads; a menu that waits for a map has
\* asked for it; and where the host fails before the round is shown the player is
\* told. (menu.tsx, screen.tsx, sdk.ts)
THEOREM LoadedCorrect == MCSpec => []LoadedAsShown
<1>1. ScreensInv => LoadedAsShown
  BY ScreensHold
<1> QED BY <1>1, ScreensAlways, PTL
=============================================================================
