-------------------------------- MODULE Menu --------------------------------
(***************************************************************************)
(* The screens of the guest: the menu's steps (game/menu.tsx), the switch  *)
(* between menu and round (screen.tsx), what of the choices the SDK keeps  *)
(* (sdk.ts), and the host as far as the menu sees it: it loads a map or    *)
(* fails, and dispatches what there is.                                    *)
(*                                                                         *)
(* A host that uploads a map piece by piece (the 3DS) may still fail when  *)
(* the round has been dispatched (Late).                                   *)
(***************************************************************************)
EXTENDS Integers

CONSTANTS
    MODS,       \* packs
    MAPS,       \* maps
    Networks,   \* whether the host has Crossplay
    Late        \* whether it may fail when the round is shown

VARIABLES
    phase,      \* current.phase: "starting", "menu" or "round"
    inMenu,     \* the menu is mounted, not the HUD
    menu,       \* the mounted menu: its step, the map being loaded, the error
    crossplay,  \* what the SDK keeps of the choices
    mod,
    configured, \* the pack whose rifle and bots were configured last
    intent,     \* what the host was asked for and has not acted on
    world,      \* the world of the host
    failed      \* history: a map could not be loaded, and the player has not gone on

vars == <<phase, inMenu, menu, crossplay, mod, configured, intent, world, failed>>

NoMap == 0
FreshMenu == [step |-> "mode", loading |-> NoMap, error |-> FALSE]
NoWorld == [map |-> NoMap, mod |-> 0, net |-> FALSE, ready |-> FALSE]
NoIntent == [kind |-> "none", map |-> NoMap, mod |-> 0, net |-> FALSE]

At(step) == inMenu /\ menu.step = step
Choose(step) == menu' = [menu EXCEPT !.step = step, !.error = FALSE]

-----------------------------------------------------------------------------
\* strike.selectNetwork and strike.selectMod: only in the menu.
SelectNetwork(enabled) ==
    crossplay' = IF phase = "menu" THEN enabled /\ Networks ELSE crossplay

\* Mutation: the pack that is shown is chosen, and not configured.
ShowsMod(m) == mod' = m /\ UNCHANGED configured

SelectsMod(m) == mod' = m /\ configured' = m

SelectMod(m) == IF phase = "menu" THEN SelectsMod(m) ELSE UNCHANGED <<mod, configured>>

\* ModeMenu. Crossplay is played with the first pack.
SelectMode(online) ==
    /\ At("mode") /\ (online => Networks)
    /\ SelectNetwork(online)
    /\ IF online THEN SelectMod(1) /\ Choose("map")
       ELSE UNCHANGED <<mod, configured>> /\ Choose(IF MODS > 1 THEN "mod" ELSE "map")
    /\ failed' = FALSE /\ UNCHANGED <<phase, inMenu, intent, world>>

\* ModMenu: on to the maps if the pack was taken.
ChooseMod(m) ==
    /\ At("mod")
    /\ SelectNetwork(FALSE) /\ SelectMod(m)
    /\ IF phase = "menu" THEN Choose("map") ELSE UNCHANGED menu
    /\ failed' = FALSE /\ UNCHANGED <<phase, inMenu, intent, world>>

Back ==
    /\ \/ At("mod") /\ Choose("mode")
       \/ /\ At("map") /\ menu.loading = NoMap
          /\ Choose(IF ~crossplay /\ MODS > 1 THEN "mod" ELSE "mode")
    /\ failed' = FALSE
    /\ UNCHANGED <<phase, inMenu, crossplay, mod, configured, intent, world>>

AsksOnce == menu.loading = NoMap

\* MapMenu's deploy: one map at a time. (js_load_map takes the first pack for
\* Crossplay.)
Deploy(m) ==
    /\ At("map") /\ AsksOnce
    /\ menu' = [menu EXCEPT !.loading = m, !.error = FALSE]
    /\ intent' = [kind |-> "load", map |-> m, mod |-> IF crossplay THEN 1 ELSE mod,
                  net |-> crossplay]
    /\ failed' = FALSE
    /\ UNCHANGED <<phase, inMenu, crossplay, mod, configured, world>>

\* The HUD's dialog leads back to the menu.
Quit ==
    /\ ~inMenu /\ intent' = [NoIntent EXCEPT !.kind = "menu"]
    /\ UNCHANGED <<phase, inMenu, menu, crossplay, mod, configured, world, failed>>

-----------------------------------------------------------------------------
\* What a dispatch of this phase does to the screen: a menu that was not shown
\* is mounted anew.
Published(p) ==
    /\ phase' = p /\ inMenu' = (p = "menu")
    /\ menu' = IF p = "menu" /\ inMenu THEN menu ELSE FreshMenu

Dispatch ==
    /\ Published(IF world = NoWorld THEN "menu" ELSE "round")
    /\ UNCHANGED <<crossplay, mod, configured, intent, world, failed>>

\* onMapError is heard by a mounted MapMenu.
MapError ==
    LET remounted == IF inMenu THEN menu ELSE FreshMenu
    IN  /\ phase' = "menu" /\ inMenu' = TRUE
        /\ menu' = IF remounted.step = "map"
                   THEN [remounted EXCEPT !.loading = NoMap, !.error = TRUE]
                   ELSE remounted

\* The host acts on what it was asked for: it loads the map, or has the menu
\* shown and tells it that it could not.
Act ==
    /\ intent.kind # "none" /\ intent' = NoIntent
    /\ \/ /\ intent.kind = "load"
          /\ world' = [map |-> intent.map, mod |-> intent.mod, net |-> intent.net, ready |-> ~Late]
          /\ UNCHANGED <<phase, inMenu, menu, failed>>
       \/ /\ intent.kind = "load" /\ world' = NoWorld /\ failed' = TRUE /\ MapError
       \/ /\ intent.kind = "menu" /\ world' = NoWorld
          /\ UNCHANGED <<phase, inMenu, menu, failed>>
    /\ UNCHANGED <<crossplay, mod, configured>>

\* The rest of the map is uploaded, or cannot be.
Upload ==
    /\ world # NoWorld /\ ~world.ready
    /\ \/ world' = [world EXCEPT !.ready = TRUE] /\ UNCHANGED <<phase, inMenu, menu, failed>>
       \/ world' = NoWorld /\ failed' = TRUE /\ MapError
    /\ UNCHANGED <<crossplay, mod, configured, intent>>

Init ==
    /\ phase = "starting" /\ inMenu = FALSE /\ menu = FreshMenu
    /\ crossplay = FALSE /\ mod = 1 /\ configured = 1
    /\ intent = NoIntent /\ world = NoWorld /\ failed = FALSE

Next ==
    \/ \E online \in BOOLEAN : SelectMode(online)
    \/ \E m \in 1 .. MODS : ChooseMod(m)
    \/ \E m \in 1 .. MAPS : Deploy(m)
    \/ Back \/ Quit \/ Dispatch \/ Act \/ Upload

Spec == Init /\ [][Next]_vars

-----------------------------------------------------------------------------
TypeOK ==
    /\ phase \in {"starting", "menu", "round"}
    /\ menu \in [step : {"mode", "mod", "map"}, loading : 0 .. MAPS, error : BOOLEAN]
    /\ mod \in 1 .. MODS /\ configured \in 1 .. MODS /\ world.map \in 0 .. MAPS

\* The world that is played is the one the screens speak of: its pack is the
\* one that was chosen, whose rifle the HUD counts and whose rifle and bots
\* were configured, and it is played over the network if that was chosen.
LoadedAsChosen ==
    world # NoWorld => world.mod = mod /\ configured = mod /\ world.net = crossplay

\* A menu that shows that a map is being loaded has asked for it, or it is
\* loaded: it does not wait for what was lost.
LoadingIsAsked ==
    inMenu /\ menu.loading # NoMap =>
        /\ menu.step = "map"
        /\ \/ intent.kind = "load" /\ intent.map = menu.loading
           \/ world.map = menu.loading

\* A player whose map could not be loaded is in the menu of the maps, with the
\* error and "TRY AGAIN", until he goes on. (map_error, onMapError)
FailureShown == failed => inMenu /\ menu.step = "map" /\ menu.error

=============================================================================
