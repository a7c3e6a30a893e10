--------------------------------- MODULE Psp ---------------------------------
(***************************************************************************)
(* The PSP host: the loop of crates/openstrike-psp/src/main.rs and the     *)
(* loading of a map (maps.rs). There is one guest, for as long as the      *)
(* program runs; whatever it throws is only logged.                        *)
(*                                                                         *)
(* A turn of the loop is up to four Ticks, then Present, which shows the   *)
(* frame before and records the next one, and Transition, which acts on    *)
(* the intent that ended the ticks.                                        *)
(* Abstracted: autostart, the bench and capture builds, the collection of  *)
(* garbage, the camera and what is drawn.                                  *)
(***************************************************************************)
EXTENDS Host

VARIABLES
    pc,         \* the step of the loop that comes next
    activeMod   \* the mod whose characters, rifle and projectiles are shown

pspVars == <<pc, activeMod>>
vars == <<hostVars, pspVars>>

-----------------------------------------------------------------------------
\* The guest was evaluated, and its configuration retained.
Init ==
    /\ pc = "ticks" /\ activeMod = 1 /\ guest = 1
    /\ commands = <<>> /\ intents = <<>> /\ pending = NoIntent
    /\ game = NoWorld /\ want = NoWorld /\ reading = {} /\ edge = 0 /\ loading = FALSE
    /\ \E m \in 1 .. MODS :
          LET said == <<Said(1, "weapon", m), Said(1, "bots", m)>>
          IN  config = RetainAll(<<>>, said) /\ asked = Replayed(NewSim, said)

KeepsInMenu(queue) ==
    config' = IF game = NoWorld THEN RetainAll(config, queue) ELSE config

\* A tick of the world or of the menu, and the turn of the guest that belongs
\* to it: its commands apply to the world, or wait for one. The ticks stop at
\* an intent, the last of the turn.
Tick ==
    /\ pc = "ticks"
    /\ \E said \in Says, meant \in Meant(TRUE) :
          LET queue == commands \o said
          IN  /\ KeepsInMenu(queue)
              /\ game' = IF game = NoWorld THEN game ELSE Replayed(game, queue)
              /\ asked' = AskedAfter(said) /\ want' = WantAfter(said)
              /\ pending' = Newest(intents \o meant, NoIntent)
              /\ loading' = LoadingAfter(meant)
              /\ pc' = IF meant = <<>> THEN pc ELSE "present"
    /\ commands' = <<>> /\ intents' = <<>>
    /\ UNCHANGED <<guest, reading, edge, activeMod>>

\* No tick is due, or no more.
EndTicks ==
    /\ pc = "ticks" /\ pc' = "present"
    /\ UNCHANGED <<hostVars, activeMod>>

\* The GE finished the frame before, which is shown; its pools are taken back
\* and the next frame is recorded and started.
Present ==
    /\ pc = "present" /\ pc' = "transition"
    /\ reading' = IF game = NoWorld THEN {} ELSE {game.serial}
    /\ UNCHANGED <<guest, commands, intents, config, pending, game, edge, loading, asked, want>>
    /\ UNCHANGED activeMod

\* The GE finishes the frame before a world is freed or written over.
Fence == reading' = {}

\* maps::load: a new simulation with the configuration replayed into it, its
\* first roster and a full magazine.
Spawned(said) ==
    LET sim == Replayed(NewSim, said)
    IN  [sim EXCEPT !.serial = NextSerial, !.roster = sim.count]

\* Against a network authority there are no bots, and no commands.
Networked(sim, net) == IF net THEN [sim EXCEPT !.net = TRUE, !.roster = 0] ELSE sim

\* A map that cannot be loaded is logged. The menu is not told.
Transition ==
    /\ pc = "transition" /\ pc' = "ticks" /\ pending' = NoIntent
    /\ \/ /\ pending.kind = "none"
          /\ UNCHANGED <<game, want, reading, loading, activeMod>>
       \/ /\ pending.kind = "load" /\ Fence
          /\ UNCHANGED <<game, want, loading, activeMod>>
       \/ /\ pending.kind = "load" /\ game = NoWorld /\ pending.map \in 1 .. MAPS /\ Fence
          /\ activeMod' = pending.mod
          /\ game' = Networked([Spawned(config) EXCEPT !.mod = pending.mod], pending.net)
          /\ want' = AskedWorld(pending.mod, pending.net)
          /\ loading' = FALSE
       \/ /\ pending.kind = "menu" /\ Fence
          /\ game' = NoWorld /\ want' = NoWorld /\ UNCHANGED <<loading, activeMod>>
    /\ UNCHANGED <<guest, commands, intents, config, edge, asked>>

Next == Tick \/ EndTicks \/ Present \/ Transition

Spec == Init /\ [][Next]_vars

\* The loop never stops; the clock returns at most four ticks to a turn.
FairSpec == Spec /\ WF_vars(Next) /\ WF_vars(EndTicks)

-----------------------------------------------------------------------------
TypeOK ==
    /\ HostTypeOK /\ pc \in {"ticks", "present", "transition"}
    /\ activeMod \in 1 .. MODS

\* The characters, the rifle and the projectiles that are drawn are those of
\* the mod the world was loaded with. (active_mod)
ModShown == game # NoWorld => activeMod = game.mod

\* A menu that shows that a map is being loaded is left, or offers to try
\* again: "{error()} . TRY AGAIN" (menu.tsx).
LoadingEnds == loading ~> ~loading

=============================================================================
