-------------------------------- MODULE IPod --------------------------------
(***************************************************************************)
(* The iPod host: the extension of crates/openstrike-ipod/src/app.rs that  *)
(* the PocketJS host calls (boot, before, after, render, release_graphics, *)
(* shutdown), the touch input of input.rs that the guest hands to it, and  *)
(* the graphics names of world.rs and actors.rs.                           *)
(*                                                                         *)
(* The order of the calls is the PocketJS host's: boot and the evaluation  *)
(* of the guest; then, turn by turn, before, the frame of the guest, after *)
(* and render; graphics are released between turns, with the context or    *)
(* after it was lost; a call that returns 0 is followed by shutdown.       *)
(* Abstracted: the clock (whether ticks are due is free), the status file, *)
(* the amounts of look and movement, and what is drawn.                    *)
(***************************************************************************)
EXTENDS Host

VARIABLES
    pc,         \* the call that comes next, "off" before boot
    paused,     \* INPUT.paused
    context,    \* the graphics context there is: which of two successive ones
    names       \* the context the buffers and textures of the world are of, or 0

ipodVars == <<pc, paused, context, names>>
vars == <<hostVars, ipodVars>>

-----------------------------------------------------------------------------
Fresh ==
    /\ config' = <<>> /\ pending' = NoIntent
    /\ game' = NoWorld /\ want' = NoWorld /\ reading' = {}
    /\ edge' = 0 /\ loading' = FALSE /\ paused' = FALSE /\ names' = 0

Init ==
    /\ pc = "off" /\ context = 1 /\ guest = 0
    /\ commands = <<>> /\ intents = <<>>
    /\ config = <<>> /\ pending = NoIntent
    /\ game = NoWorld /\ want = NoWorld /\ reading = {} /\ asked = NewSim
    /\ edge = 0 /\ loading = FALSE /\ paused = FALSE /\ names = 0

NextGuest == IF \E c \in Range(commands) : c.by = 1 THEN 2 ELSE 1

\* boot, and the evaluation of the guest: rules.ts configures its mod.
Boot ==
    /\ pc = "off" /\ pc' = "before"
    /\ Fresh /\ guest' = NextGuest /\ UNCHANGED <<intents, context>>
    /\ \E m \in 1 .. MODS :
          LET said == <<Said(NextGuest, "weapon", m), Said(NextGuest, "bots", m)>>
          IN  commands' = commands \o said /\ asked' = Replayed(NewSim, said)

-----------------------------------------------------------------------------
\* What the guest calls of primaryInput and setPaused during a turn.
Touch == [kind |-> "touch", paused |-> FALSE]
SetPaused(b) == [kind |-> "pause", paused |-> b]
Calls == {<<>>, <<Touch>>, <<SetPaused(TRUE)>>, <<SetPaused(FALSE)>>,
          <<Touch, SetPaused(TRUE)>>, <<SetPaused(FALSE), Touch>>}

Here == IF game = NoWorld THEN 3 ELSE game.serial

\* GuestInput: touches are ignored while paused; pausing and resuming clear
\* what was not taken by a tick.
Called(input, c) ==
    IF c.kind = "pause" THEN [paused |-> c.paused, edge |-> 0]
    ELSE IF input.paused THEN input
    ELSE [input EXCEPT !.edge = Here]

CalledAll(input, calls) ==
    LET after[n \in 0 .. Len(calls)] ==
            IF n = 0 THEN input ELSE Called(after[n - 1], calls[n])
    IN  after[Len(calls)]

\* before, then the frame of the guest. While it is paused no tick is due. The
\* first tick takes the presses that were waiting; what the guest touches in
\* this turn waits for the next.
Turn ==
    /\ pc = "before"
    /\ \E said \in Says, meant \in Meant(FALSE), calls \in Calls, due, ok \in BOOLEAN :
          LET ticked == due /\ ~paused /\ game # NoWorld
              input == CalledAll([paused |-> paused,
                                  edge |-> IF ticked THEN 0 ELSE edge], calls)
          IN  /\ commands' = commands \o said /\ intents' = intents \o meant
              /\ paused' = input.paused /\ edge' = input.edge
              /\ asked' = AskedAfter(said) /\ want' = WantAfter(said)
              /\ loading' = LoadingAfter(meant)
              /\ pc' = IF ok THEN "after" ELSE "failed"
    /\ UNCHANGED <<guest, config, pending, game, reading, context, names>>

-----------------------------------------------------------------------------
\* The commands of the turn apply to the world, or are retained.
Drained ==
    IF game = NoWorld
    THEN [game |-> game, config |-> RetainAll(config, commands)]
    ELSE [game |-> Replayed(game, commands), config |-> config]

\* A new world, its configuration, and its graphics.
Loaded(i) ==
    /\ i.map \in 1 .. MAPS
    /\ game' = [FromMap(Drained.config) EXCEPT !.mod = i.mod]
    /\ want' = AskedWorld(i.mod, FALSE) /\ names' = context
    /\ paused' = FALSE /\ edge' = 0 /\ loading' = FALSE
    /\ commands' = <<>> /\ pc' = "render" /\ UNCHANGED asked

\* Mutation: the menu is not told that the map could not be loaded.
Untold(ok) == loading

\* __mapError: the menu offers to try again.
Told(ok) == loading /\ ~ok

\* A map that could not be loaded: the guest is back in the menu, and then
\* hears of it. It may say something in either, for the next turn to drain.
NotLoaded(i) ==
    /\ game' = NoWorld /\ want' = NoWorld /\ names' = 0
    /\ IF i.map \in 1 .. MAPS THEN paused' = FALSE /\ edge' = 0
                              ELSE UNCHANGED <<paused, edge>>
    /\ \E said \in Says, ok \in BOOLEAN :
          /\ commands' = said
          /\ asked' = Replayed(asked, said)
          /\ loading' = Told(ok)
          /\ pc' = IF ok THEN "render" ELSE "failed"

ToTheMenu ==
    /\ game' = NoWorld /\ want' = NoWorld /\ names' = 0
    /\ paused' = FALSE /\ edge' = 0
    /\ commands' = <<>> /\ pc' = "render" /\ UNCHANGED <<loading, asked>>

\* after: the commands are drained, and then the last intent is acted on.
After ==
    /\ pc = "after"
    /\ intents' = <<>> /\ config' = Drained.config
    /\ LET i == Newest(intents, NoIntent)
       IN  \/ i.kind = "load" /\ (Loaded(i) \/ NotLoaded(i))
           \/ i.kind = "menu" /\ ToTheMenu
           \/ /\ i.kind = "none" /\ game' = Drained.game
              /\ commands' = <<>> /\ pc' = "render"
              /\ UNCHANGED <<want, names, paused, edge, loading, asked>>
    /\ UNCHANGED <<guest, pending, reading, context>>

\* ensure_graphics: what was released is made again.
EnsureGraphics == names' = IF game = NoWorld THEN names ELSE context

\* render, which may fail.
Render ==
    /\ pc = "render"
    /\ \/ pc' = "before" /\ EnsureGraphics
       \/ pc' = "failed" /\ UNCHANGED names
    /\ UNCHANGED <<hostVars, paused, context>>

-----------------------------------------------------------------------------
\* abandon, or deletion: the names are forgotten.
ForgetNames == names' = 0

\* release_graphics, with the context or after it was lost.
ReleaseGraphics ==
    /\ pc = "before"
    /\ ForgetNames /\ edge' = 0
    /\ context' \in {context, 3 - context}
    /\ UNCHANGED <<guest, commands, intents, config, pending, game, reading, loading, asked, want>>
    /\ UNCHANGED <<pc, paused>>

\* shutdown: the queues are emptied after the state is gone.
Shutdown ==
    /\ pc \in {"before", "failed"} /\ pc' = "off"
    /\ guest' = 0 /\ asked' = NewSim
    /\ commands' = Discarded(commands) /\ intents' = Discarded(intents)
    /\ config' = <<>> /\ pending' = NoIntent
    /\ game' = NoWorld /\ want' = NoWorld /\ reading' = {}
    /\ edge' = 0 /\ loading' = FALSE /\ paused' = TRUE /\ ForgetNames
    /\ UNCHANGED context

Next == Boot \/ Turn \/ After \/ Render \/ ReleaseGraphics \/ Shutdown

Spec == Init /\ [][Next]_vars

-----------------------------------------------------------------------------
TypeOK ==
    /\ HostTypeOK /\ pc \in {"off", "before", "after", "render", "failed"}
    /\ paused \in BOOLEAN /\ context \in 1 .. 2 /\ names \in 0 .. 2

\* Buffers and textures are only used, or deleted, in the context they were
\* made in: after a context is lost its names are those of other objects.
NamesOfContext == names \in {0, context}

\* A press waits only while the game runs, and only for the world it was
\* made in.
NothingWaitsPaused == paused => edge = 0

=============================================================================
