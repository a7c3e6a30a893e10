------------------------------- MODULE Symbian -------------------------------
(***************************************************************************)
(* The Symbian host: the extension of crates/openstrike-symbian/src/lib.rs *)
(* that the PocketJS host calls (boot, before_guest, after_guest, render,  *)
(* shutdown). A turn is two ticks, 30 turns a second; a map is loaded, and *)
(* a world dropped, by render.                                             *)
(*                                                                         *)
(* What is said with no world is all replayed into the next one, not the   *)
(* latest settings alone. There is one mod. The order of the calls is the  *)
(* PocketJS host's, which ends an extension that fails in a turn; after a  *)
(* render that fails it may go on.                                         *)
(* Abstracted: the keyboard, the camera, and what is drawn.                *)
(***************************************************************************)
EXTENDS Host

CONSTANT MAX_LOG    \* bound on what is said with no world

VARIABLES
    pc,         \* the call that comes next, "off" before boot
    ticks       \* ticks of this turn that are left

symbianVars == <<pc, ticks>>
vars == <<hostVars, symbianVars>>

TICKS_PER_HOST_FRAME == 2

-----------------------------------------------------------------------------
Fresh ==
    /\ config' = <<>> /\ pending' = NoIntent
    /\ game' = NoWorld /\ want' = NoWorld /\ reading' = {}
    /\ edge' = 0 /\ loading' = FALSE
    /\ ticks' = TICKS_PER_HOST_FRAME

Init ==
    /\ pc = "off" /\ guest = 0 /\ ticks = TICKS_PER_HOST_FRAME
    /\ commands = <<>> /\ intents = <<>>
    /\ config = <<>> /\ pending = NoIntent
    /\ game = NoWorld /\ want = NoWorld /\ reading = {} /\ asked = NewSim
    /\ edge = 0 /\ loading = FALSE

NextGuest == IF \E c \in Range(commands) : c.by = 1 THEN 2 ELSE 1

\* boot empties the queues, and the guest is evaluated.
Boot ==
    /\ pc = "off" /\ pc' = "before"
    /\ Fresh /\ guest' = NextGuest /\ intents' = Discarded(intents)
    /\ \E m \in 1 .. MODS :
          LET said == <<Said(NextGuest, "weapon", m), Said(NextGuest, "bots", m)>>
          IN  commands' = Discarded(commands) \o said /\ asked' = Replayed(NewSim, said)

\* drain_commands: with no world, everything is kept for the next one.
LogAll(queue) == config \o queue

\* A guest that has a lot to say with no world is not looked at.
Bounded(said) == game # NoWorld \/ Len(config \o commands \o said) <= MAX_LOG

DrainCommands(said, meant) ==
    LET queue == commands \o said
    IN  /\ commands' = <<>> /\ intents' = <<>>
        /\ pending' = Newest(intents \o meant, pending)
        /\ IF game = NoWorld THEN config' = LogAll(queue) /\ UNCHANGED game
           ELSE game' = Replayed(game, queue) /\ UNCHANGED config

\* dispatch_tick: one tick, the turn of the guest in it, and the drain; what a
\* guest that threw had said is left in the queues.
DispatchTick ==
    /\ pc = "before"
    /\ \E said \in Says, meant \in Meant(FALSE), ok \in BOOLEAN :
          /\ Bounded(said)
          /\ asked' = AskedAfter(said) /\ want' = WantAfter(said)
          /\ loading' = LoadingAfter(meant)
          /\ \/ /\ ok /\ DrainCommands(said, meant)
                /\ ticks' = IF ticks = 1 THEN TICKS_PER_HOST_FRAME ELSE ticks - 1
                /\ pc' = IF ticks = 1 THEN "after" ELSE pc
             \/ /\ ~ok /\ pc' = "failed"
                /\ commands' = commands \o said /\ intents' = intents \o meant
                /\ UNCHANGED <<config, pending, game, ticks>>
    /\ UNCHANGED <<guest, reading, edge>>

\* The frame of the guest, and after_guest.
AfterGuest ==
    /\ pc = "after" /\ pc' = "render"
    /\ \E said \in Says, meant \in Meant(FALSE) :
          /\ Bounded(said) /\ DrainCommands(said, meant)
          /\ asked' = AskedAfter(said) /\ want' = WantAfter(said)
          /\ loading' = LoadingAfter(meant)
    /\ UNCHANGED <<guest, reading, edge, ticks>>

-----------------------------------------------------------------------------
\* shutdown_game: the world is gone even if the GPU could not be shut down.
GameGone == game' = NoWorld /\ want' = NoWorld /\ UNCHANGED loading

\* A map is only loaded for the one mod there is and an index there is; another
\* intent is dropped.
Loadable(i) == i.kind = "load" /\ i.mod = 1 /\ i.map \in 1 .. MAPS

\* load_game and initialize_gpu.
GameLoaded ==
    /\ game' = [FromMap(config) EXCEPT !.mod = 1]
    /\ want' = AskedWorld(1, FALSE) /\ loading' = FALSE

\* apply_pending_host, and what is drawn after it; a step that fails ends the
\* call and leaves what was done before it. The host goes on, or shuts down
\* after a call that failed.
Render ==
    /\ pc = "render" /\ pending' = NoIntent
    /\ pc' \in {"before", "failed"}
    /\ \/ Loadable(pending) /\ (GameLoaded \/ GameGone)
       \/ pending.kind = "menu" /\ GameGone
       \/ /\ ~Loadable(pending) /\ pending.kind # "menu"
          /\ UNCHANGED <<game, want, loading>>
    /\ UNCHANGED <<guest, commands, intents, config, reading, edge, asked, ticks>>

EmptyQueues == commands' = Discarded(commands) /\ intents' = Discarded(intents)

Shutdown ==
    /\ pc \in {"before", "failed"} /\ pc' = "off"
    /\ guest' = 0 /\ asked' = NewSim /\ Fresh /\ EmptyQueues

Next == Boot \/ DispatchTick \/ AfterGuest \/ Render \/ Shutdown

Spec == Init /\ [][Next]_vars

-----------------------------------------------------------------------------
TypeOK ==
    /\ HostTypeOK /\ pc \in {"off", "before", "after", "render", "failed"}
    /\ ticks \in 1 .. TICKS_PER_HOST_FRAME

=============================================================================
