-------------------------------- MODULE Pace --------------------------------
(***************************************************************************)
(* The two clocks of a crossplay session on the Mac: the Companion's room, *)
(* which the loop of crates/openstrike-companion/src/main.rs steps by a    *)
(* FixedClock, and the desktop game, whose application loop ticks it at    *)
(* the rate crates/openstrike/src/main.rs asks for.  Each tick of the game *)
(* captures one input, each step of the room executes one.                 *)
(*                                                                         *)
(* The application loop is not part of the repository: it is taken at its  *)
(* word, HOST_HZ ticks to a second.                                        *)
(***************************************************************************)
EXTENDS Integers

CONSTANTS
    TICK_HZ, SECOND, CATCH_UP, MAX_TIME,    \* see module FixedClock
    HOST_HZ                                 \* the desktop's tick_hz (64)

VARIABLES
    now,                                    \* wall time
    previous, rest, run, ticks, dropped,   \* the room's FixedClock
    hosted                                  \* ticks of the desktop game

vars == <<now, previous, rest, run, ticks, dropped, hosted>>

Clock == INSTANCE FixedClock

Init == now = 0 /\ previous = 0 /\ Clock!ClockInit /\ hosted = 0

HostTicks(time) == (time * HOST_HZ) \div SECOND

\* Both loops run often: neither is ever late for a tick.
Next ==
    /\ now < MAX_TIME
    /\ now' = now + 1
    /\ Clock!Advance(now')
    /\ hosted' = HostTicks(now')

Spec == Init /\ [][Next]_vars

-----------------------------------------------------------------------------
(* Properties.                                                              *)

\* "The Companion and local hosts advance the shared Rust simulation at 60 Hz":
\* the game and the room have run the same number of ticks, to within the one
\* that is due at this instant.
SameRate == hosted - ticks \in -1 .. 1
=============================================================================
