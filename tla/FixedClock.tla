----------------------------- MODULE FixedClock -----------------------------
(***************************************************************************)
(* The clock every host and the Companion turn wall time into simulation   *)
(* ticks with: struct FixedClock of crates/openstrike-core/src/clock.rs.   *)
(* Ticks that a caller was too late for are discarded beyond a limit.      *)
(*                                                                         *)
(* Abstracted: 64-bit saturation, which takes 9,700 years of microseconds. *)
(***************************************************************************)
EXTENDS Integers

CONSTANTS
    TICK_HZ,    \* ticks in a second (60)
    SECOND,     \* units of wall time in a second (1,000,000)
    CATCH_UP,   \* ticks one call may return (4)
    MAX_TIME    \* bound on wall time

ASSUME ClockAssumption ==
    /\ TICK_HZ \in Nat \ {0} /\ SECOND \in Nat \ {0}
    /\ CATCH_UP \in Nat /\ MAX_TIME \in Nat

VARIABLES
    previous, rest,     \* the clock's fields: the time of the call before, and the phase
    run,                \* wall time seen to pass since the last reset
    ticks,              \* ticks returned since the last reset
    dropped             \* ticks discarded since the last reset

clockVars == <<previous, rest, run, ticks, dropped>>

ClockInit ==
    /\ previous \in 0 .. MAX_TIME /\ rest = 0
    /\ run = 0 /\ ticks = 0 /\ dropped = 0

Reset(now) ==
    /\ previous' = now /\ rest' = 0
    /\ run' = 0 /\ ticks' = 0 /\ dropped' = 0

\* Mutation: a clock that went back is a long wait.
ElapsedEitherWay(now) == IF now > previous THEN now - previous ELSE previous - now

\* Wall time that goes back does not count.
Elapsed(now) == IF now > previous THEN now - previous ELSE 0

Owed(now) == rest + Elapsed(now) * TICK_HZ
Due(now) == Owed(now) \div SECOND

\* Mutation: what is left over when ticks are discarded is discarded too.
LeftAfterStall(now) == IF Due(now) > CATCH_UP THEN 0 ELSE Owed(now) % SECOND

Left(now) == Owed(now) % SECOND

\* The ticks advance returns.
Returned(now) == IF Due(now) < CATCH_UP THEN Due(now) ELSE CATCH_UP

Advance(now) ==
    /\ previous' = now
    /\ rest' = Left(now)
    /\ run' = run + Elapsed(now)
    /\ ticks' = ticks + Returned(now)
    /\ dropped' = dropped + (Due(now) - Returned(now))

ClockNext == \E now \in 0 .. MAX_TIME : run + Elapsed(now) <= MAX_TIME /\ (Advance(now) \/ Reset(now))

ClockSpec == ClockInit /\ [][ClockNext]_clockVars

-----------------------------------------------------------------------------
(* Properties.                                                              *)

\* Every field has the shape the code gives it.
ClockTypeOK ==
    /\ previous \in Nat /\ rest \in 0 .. SECOND - 1
    /\ run \in Nat /\ ticks \in Nat /\ dropped \in Nat

\* "Integer microseconds avoid cumulative rounding drift": however the calls are
\* spaced, the ticks returned and discarded are the whole ticks of the time that
\* passed, and the phase is exactly what is left.
NoDrift == run * TICK_HZ = (ticks + dropped) * SECOND + rest

\* A call discards ticks only when it comes late: more than CATCH_UP ticks of
\* time after the one before.
DropsOnlyWhenLate ==
    [][dropped' > dropped => (previous' - previous) * TICK_HZ > CATCH_UP * SECOND]_clockVars
=============================================================================
