-------------------------------- MODULE N3ds --------------------------------
(***************************************************************************)
(* The 3DS host: what crates/openstrike-3ds/src/native.rs does for the     *)
(* PocketJS host (os3ds_boot, tick, after, prepare, render, shutdown), the *)
(* touches of touch.rs, and what gpu.c and character.c hold for it.        *)
(*                                                                         *)
(* The textures of a map are uploaded one a frame, and its world stands    *)
(* still until they are all there; the minimap is drawn again, a piece a   *)
(* frame, when the player reached another floor. The order of the calls is *)
(* the PocketJS host's; one that returns 0 is followed by shutdown.        *)
(* Abstracted: the circle pads, what the radar and __perf are told, what   *)
(* is drawn, and the clock (how many ticks are due is free).               *)
(***************************************************************************)
EXTENDS Host

CONSTANTS
    TEXTURES,   \* textures of a map, at least one
    PIECES      \* calls of RasterJob::advance that a minimap takes, at least one

VARIABLES
    pc,         \* the call that comes next, "off" before boot
    next,       \* next_texture of the world
    gpu,        \* what gpu.c and character.c hold: [world, chars, uploaded]
    radar,      \* radar_texture, the UI texture of the minimap, 0 with no world
    uiTextures, \* the textures the UI holds
    job,        \* what is left of a minimap being drawn, 0 when none is
    touched     \* TOUCH_INPUT.reload: the world a reload was touched in, or 0

n3dsVars == <<pc, next, gpu, radar, uiTextures, job, touched>>
vars == <<hostVars, n3dsVars>>

EmptyGpu == [world |-> FALSE, chars |-> FALSE, uploaded |-> 0]
UiHandles == 1 .. 3

-----------------------------------------------------------------------------
Init ==
    /\ pc = "off" /\ guest = 0 /\ commands = <<>> /\ intents = <<>>
    /\ config = <<>> /\ pending = NoIntent
    /\ game = NoWorld /\ want = NoWorld /\ reading = {} /\ asked = NewSim
    /\ edge = 0 /\ loading = FALSE
    /\ next = 0 /\ gpu = EmptyGpu /\ radar = 0 /\ uiTextures = {} /\ job = 0 /\ touched = 0

NextGuest == IF \E c \in Range(commands) : c.by = 1 THEN 2 ELSE 1

\* os3ds_boot empties the queues, and the guest is evaluated.
Boot ==
    /\ pc = "off" /\ pc' = "tick"
    /\ guest' = NextGuest /\ intents' = Discarded(intents)
    /\ \E m \in 1 .. MODS :
          LET said == <<Said(NextGuest, "weapon", m), Said(NextGuest, "bots", m)>>
          IN  commands' = Discarded(commands) \o said /\ asked' = Replayed(NewSim, said)
    /\ edge' = 0
    /\ UNCHANGED <<config, pending, game, reading, loading, want>>
    /\ UNCHANGED <<next, gpu, radar, uiTextures, job, touched>>

-----------------------------------------------------------------------------
\* drain: applied to the world, or retained.
Drain(said, meant) ==
    LET queue == commands \o said
    IN  /\ commands' = <<>> /\ intents' = <<>>
        /\ pending' = Newest(intents \o meant, pending)
        /\ IF game = NoWorld
           THEN config' = RetainAll(config, queue) /\ UNCHANGED game
           ELSE game' = Replayed(game, queue) /\ UNCHANGED config
        /\ asked' = AskedAfter(said) /\ want' = WantAfter(said)
        /\ loading' = LoadingAfter(meant)

Here == IF game = NoWorld THEN 3 ELSE game.serial

\* The world runs once all its textures are uploaded.
Runs == game # NoWorld /\ next = TEXTURES

\* os3ds_tick: the first tick that is due takes the press that waits, and the
\* touch. In the menu a press is dropped. The guest is drained even if it
\* threw.
Tick ==
    /\ pc = "tick" /\ pc' \in {"after", "failed"}
    /\ \E said \in Says, meant \in Meant(FALSE), pressed, due \in BOOLEAN :
          /\ Drain(said, meant)
          /\ edge' = IF game = NoWorld \/ (Runs /\ due) THEN 0
                     ELSE IF pressed THEN Here ELSE edge
          /\ touched' = IF Runs /\ due THEN 0 ELSE touched
    /\ UNCHANGED <<guest, reading, next, gpu, radar, uiTextures, job>>

\* TOUCH_INPUT: a reload touched in the frame of the guest waits for a tick.
GuestTouches == touched' \in {touched, Here}

\* The frame of the guest, which hands over touches, and os3ds_after.
After ==
    /\ pc = "after" /\ pc' = "prepare"
    /\ \E said \in Says, meant \in Meant(FALSE) : Drain(said, meant)
    /\ GuestTouches
    /\ UNCHANGED <<guest, reading, edge, next, gpu, radar, uiTextures, job>>

-----------------------------------------------------------------------------
\* Mutation: what was touched in a world waits for the next one.
KeepTouches == UNCHANGED touched

NewTouches == touched' = 0

\* release_game: the GPU, the characters, the world, and the minimap.
ReleaseGame ==
    /\ NewTouches /\ gpu' = EmptyGpu
    /\ game' = NoWorld /\ want' = NoWorld /\ next' = 0 /\ job' = 0
    /\ radar' = 0 /\ uiTextures' = uiTextures \ {radar}

\* map_error: the guest is back in the menu, and then hears of it. What it
\* says in either waits in the queue for the next tick.
MapError ==
    /\ ReleaseGame
    /\ \E said \in Says, ok \in BOOLEAN :
          /\ commands' = commands \o said
          /\ asked' = Replayed(asked, said)
          /\ loading' = (loading /\ ~ok)
          /\ pc' = IF ok THEN "render" ELSE "failed"
    /\ UNCHANGED <<intents, config, edge>>

\* load gives back what the world before it held, and makes the new one.
Load(i) ==
    /\ i.map \in 1 .. MAPS
    /\ game' = [FromMap(config) EXCEPT !.mod = i.mod]
    /\ want' = AskedWorld(i.mod, FALSE)
    /\ \E t \in UiHandles \ (uiTextures \ {radar}) :
          radar' = t /\ uiTextures' = (uiTextures \ {radar}) \cup {t}
    /\ gpu' = [world |-> TRUE, chars |-> TRUE, uploaded |-> 0] /\ next' = 0
    /\ job' = 0 /\ NewTouches /\ edge' = 0 /\ loading' = FALSE
    /\ pc' \in {"upload", "failed"}
    /\ UNCHANGED <<commands, intents, config, asked>>

BackToMenu ==
    /\ ReleaseGame /\ pc' \in {"render", "failed"}
    /\ UNCHANGED <<commands, intents, config, edge, asked, loading>>

\* os3ds_prepare begins with the last intent; a world that is there after it
\* goes on with Upload, in the same call. The radar is told, or that fails.
Prepare ==
    /\ pc = "prepare" /\ pending' = NoIntent
    /\ \/ pending.kind = "load" /\ (Load(pending) \/ MapError)
       \/ pending.kind = "menu" /\ BackToMenu
       \/ /\ pending.kind = "none"
          /\ pc' = IF game = NoWorld THEN "render" ELSE "upload"
          /\ UNCHANGED <<commands, intents, config, game, edge, loading, asked, want>>
          /\ UNCHANGED <<next, gpu, radar, uiTextures, job, touched>>
    /\ UNCHANGED <<guest, reading>>

\* Mutation: the minimap before is not given back.
AddedTo(textures, old, t) == textures \cup {t}

\* The new minimap is uploaded, then the one before given back.
Swapped(textures, old, t) == (textures \ {old}) \cup {t}

\* A minimap is begun when the player stands on another floor, and is drawn in
\* PIECES calls; the one before stays if it cannot be uploaded.
Minimap ==
    \/ /\ job = 0 /\ pc' = "render" /\ UNCHANGED <<radar, uiTextures, job>>
    \/ /\ job # 0 \/ Runs
       /\ job' = (IF job = 0 THEN PIECES ELSE job) - 1
       /\ IF job' > 0 THEN pc' = "render" /\ UNCHANGED <<radar, uiTextures>>
          ELSE /\ pc' \in {"render", "failed"}
               /\ \/ UNCHANGED <<radar, uiTextures>>
                  \/ \E t \in UiHandles \ uiTextures :
                        radar' = t /\ uiTextures' = Swapped(uiTextures, radar, t)

\* The rest of os3ds_prepare: the next texture, which may not decode or not
\* fit, and a piece of the minimap.
Upload ==
    /\ pc = "upload"
    /\ \/ next < TEXTURES /\ MapError
       \/ /\ next' = IF next < TEXTURES THEN next + 1 ELSE next
          /\ gpu' = [gpu EXCEPT !.uploaded = next'] /\ Minimap
          /\ UNCHANGED <<commands, intents, config, game, edge, loading, asked, want, touched>>
    /\ UNCHANGED <<guest, pending, reading>>

\* os3ds_render, once for each eye: too much to draw fails.
Render ==
    /\ pc = "render"
    /\ pc' \in IF game = NoWorld THEN {"tick"} ELSE {"tick", "failed"}
    /\ UNCHANGED <<hostVars, next, gpu, radar, uiTextures, job, touched>>

Shutdown ==
    /\ pc \in {"tick", "failed"} /\ pc' = "off"
    /\ guest' = 0 /\ asked' = NewSim /\ config' = <<>> /\ pending' = NoIntent
    /\ commands' = Discarded(commands) /\ intents' = Discarded(intents)
    /\ ReleaseGame /\ edge' = 0 /\ loading' = FALSE
    /\ UNCHANGED reading

Next == Boot \/ Tick \/ After \/ Prepare \/ Upload \/ Render \/ Shutdown

Spec == Init /\ [][Next]_vars

-----------------------------------------------------------------------------
TypeOK ==
    /\ HostTypeOK
    /\ pc \in {"off", "tick", "after", "prepare", "upload", "render", "failed"}
    /\ next \in 0 .. TEXTURES /\ job \in 0 .. PIECES
    /\ gpu \in [world : BOOLEAN, chars : BOOLEAN, uploaded : 0 .. TEXTURES]
    /\ radar \in {0} \cup UiHandles /\ uiTextures \subseteq UiHandles
    /\ touched \in 0 .. 3

\* What the GPU and the UI hold is what the world there is needs: its
\* textures in the order they were uploaded, its characters and one minimap.
GpuMatchesGame ==
    /\ gpu.uploaded = next
    /\ gpu.world = (game # NoWorld) /\ gpu.chars = (game # NoWorld)
    /\ uiTextures = IF game = NoWorld THEN {} ELSE {radar}
    /\ game = NoWorld => job = 0

\* What was touched in the menu, or in a world that is gone, is not for
\* another.
TouchesOfThisWorld == game # NoWorld => touched \in {0, game.serial}

=============================================================================
