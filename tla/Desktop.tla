------------------------------ MODULE Desktop ------------------------------
(***************************************************************************)
(* The desktop host: main of crates/openstrike/src/main.rs with its        *)
(* window, the turn of guest.rs and the shell of game.rs.                  *)
(*                                                                         *)
(* The world is there before the guest is: the map, the bots and whether   *)
(* the room decides are given on the command line and by the environment.  *)
(* The guest is the shipped bundle, which has one mod here and no menu: it *)
(* configures when it is evaluated, and its rules reset rounds.            *)
(*                                                                         *)
(* The application loop is not part of the repository: a frame of it is    *)
(* any number of ticks, and then it asks whether to exit. Abstracted: what *)
(* is drawn, the headless scripts, the events of a tick, and movement.     *)
(***************************************************************************)
EXTENDS Host

CONSTANTS
    BOTS,       \* what --bots may ask for; 3 unless it is given
    MAX_SAID    \* bound on what waits for a drain, when turns fail

VARIABLES
    pc,         \* the step of the loop that comes next
    guestError, \* whether a turn of the guest failed
    flying,     \* fly_mode
    bots        \* what --bots asked for

desktopVars == <<pc, guestError, flying, bots>>
vars == <<hostVars, desktopVars>>

-----------------------------------------------------------------------------
\* OpenStrike::new: a world of its own configuration, with its first roster.
Opened(n) == [NewSim EXCEPT !.serial = 1, !.count = n, !.roster = n]

\* A world the room decides in: its bots are cleared.
InRoom(sim) == [sim EXCEPT !.net = TRUE, !.roster = 0]

\* StrikeGuest::boot evaluates the bundle: what it configures waits for the
\* end of its first turn.
Boot(sim) ==
    LET said == <<Said(1, "weapon", 1), Said(1, "bots", 1)>>
    IN  guest = 1 /\ game = sim /\ commands = said /\ want = Replayed(sim, said)

Init ==
    /\ pc = "tick" /\ guestError = FALSE /\ flying = FALSE /\ bots \in BOTS
    /\ Boot(Opened(bots)) \/ Boot(InRoom(Opened(bots)))
    /\ intents = <<>> /\ config = <<>> /\ pending = NoIntent /\ asked = NewSim
    /\ reading = {} /\ edge = 0 /\ loading = FALSE

\* The rules say nothing about a round the room decides, and no round ends
\* before the first drain.
Rules == {<<>>} \cup IF game.net \/ game.weapon = 0 THEN {} ELSE {<<Said(1, "reset", 0)>>}

\* drain: in order, after the turn.
Drained(queue) == game' = Replayed(game, queue) /\ commands' = <<>>

\* A turn that throws, in the dispatch or in the frame, ends before the drain:
\* what was said in it is drained by the next, if there is one.
Throws(queue) == commands' = queue /\ guestError' = TRUE /\ UNCHANGED game

\* Windowed::tick: the simulation, with the key that toggles flying, and then
\* the turn of the guest.
Tick ==
    /\ pc = "tick" /\ Len(commands) <= MAX_SAID
    /\ flying' \in IF game.net THEN {flying} ELSE BOOLEAN
    /\ \E said \in Rules :
          /\ want' = Replayed(want, said)
          /\ \/ Throws(commands \o said)
             \/ Drained(commands \o said) /\ UNCHANGED guestError
    /\ UNCHANGED <<guest, intents, config, pending, reading, edge, loading, asked, pc, bots>>

\* wants_exit, after the frame was shown: a guest that failed once ends the
\* program, and so may its own time limit.
EndFrame ==
    /\ pc = "tick" /\ pc' \in IF guestError THEN {"closed"} ELSE {"tick", "closed"}
    /\ UNCHANGED <<hostVars, guestError, flying, bots>>

Closed == pc = "closed" /\ UNCHANGED vars

Next == Tick \/ EndFrame \/ Closed

Spec == Init /\ [][Next]_vars

-----------------------------------------------------------------------------
TypeOK ==
    /\ HostTypeOK /\ pc \in {"tick", "closed"} /\ guestError \in BOOLEAN /\ flying \in BOOLEAN

\* The room decides alone: no bot stands in its world and nobody flies there.
RoomDecides == game.net => game.roster = 0 /\ game.count = bots /\ ~flying

\* "enemy bot count per round" (USAGE of args.rs): every round begins with as
\* many bots as were asked for.
BotsAsAsked == ~game.net => game.roster = bots

=============================================================================
