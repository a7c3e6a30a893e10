-------------------------------- MODULE Host --------------------------------
(***************************************************************************)
(* What the handheld hosts (Vita, PSP, iPod, Symbian, 3DS) have in common: *)
(* the raw strike surface (crates/openstrike-psp/src/strike.rs, compiled   *)
(* by each of them), the configuration a guest gives before a world exists *)
(* (retain_configuration and apply of openstrike-core/src/sim.rs) and the  *)
(* world that is built from it. Each host is a module that EXTENDS this;   *)
(* the desktop host, that has no menu, takes the world and its commands.   *)
(*                                                                         *)
(* A guest turn is what the guest says in it: commands, and intents about  *)
(* the life of the world. The guest is the shipped menu and rules, but for *)
(* what it configures and when, which is free.                             *)
(*                                                                         *)
(* Abstracted: a mod's weapon and bots are the number of the mod, and so   *)
(* is the number of its bots; the simulation of a world is its settings.   *)
(***************************************************************************)
EXTENDS Integers, SequencesExt

CONSTANTS
    MAPS,       \* maps in the catalogue
    MODS,       \* packs the host can show
    COUNTS      \* what a guest may ask for with setBotCount

ASSUME HostAssumption ==
    MAPS \in Nat /\ MODS \in Nat \ {0} /\ COUNTS \subseteq Nat

VARIABLES
    guest,      \* the running guest, 0 when none runs
    commands,   \* COMMANDS: what guests said and no host has taken
    intents,    \* HOST_CMDS: the same for the life of the world
    config,     \* the retained configuration
    pending,    \* the intent the host has taken and not acted on
    game,       \* the world, NoWorld in the menu
    reading,    \* the worlds a submitted frame may still be read from
    edge,       \* the world a reload press that waits for a tick was made in
    loading,    \* whether the guest's menu shows that a map is being loaded
    asked,      \* history: the settings this guest gave with no world loaded
    want        \* history: the settings it gave that hold in this world

hostVars == <<guest, commands, intents, config, pending, game, reading, edge,
              loading, asked, want>>

-----------------------------------------------------------------------------
Kinds == {"weapon", "bots", "count", "reset"}

Said(by, kind, value) == [by |-> by, kind |-> kind, value |-> value]

\* What guest g can put in the queue: configureWeapon, configureBots,
\* setBotCount and resetRound.
CommandsOf(g) ==
    {Said(g, kind, m) : kind \in {"weapon", "bots"}, m \in 1 .. MODS}
        \cup {Said(g, "count", n) : n \in COUNTS}
        \cup {Said(g, "reset", 0)}

IsSetting(c) == c.kind \in Kinds \ {"reset"}

\* A new StrikeSim, before any command: its own defaults are number 0.
NewSim == [serial |-> 0, mod |-> 0, net |-> FALSE,
           weapon |-> 0, bots |-> 0, count |-> 0, roster |-> 0]

NoWorld == NewSim

\* StrikeSim::apply. A world that plays over the network takes no command.
Applied(sim, c) ==
    IF sim.net THEN sim
    ELSE CASE c.kind = "weapon" -> [sim EXCEPT !.weapon = c.value]
           [] c.kind = "bots"   -> [sim EXCEPT !.bots = c.value, !.count = c.value]
           [] c.kind = "count"  -> [sim EXCEPT !.count = c.value]
           [] c.kind = "reset"  -> [sim EXCEPT !.roster = sim.count]

Replayed(sim, said) ==
    LET after[n \in 0 .. Len(said)] ==
            IF n = 0 THEN sim ELSE Applied(after[n - 1], said[n])
    IN  after[Len(said)]

\* Mutation: a later setting replaces the earlier one where it stands.
RetainInPlace(kept, c) ==
    IF ~IsSetting(c) THEN kept
    ELSE IF \E i \in DOMAIN kept : kept[i].kind = c.kind
         THEN [i \in DOMAIN kept |-> IF kept[i].kind = c.kind THEN c ELSE kept[i]]
         ELSE Append(kept, c)

\* What is kept of the settings but for those of a kind: Vec::retain.
Without(kept, kind) ==
    LET upTo[n \in 0 .. Len(kept)] ==
            IF n = 0 THEN <<>>
            ELSE IF kept[n].kind = kind THEN upTo[n - 1]
            ELSE Append(upTo[n - 1], kept[n])
    IN  upTo[Len(kept)]

\* retain_configuration: the latest setting of each kind, in the order given.
Retain(kept, c) ==
    IF ~IsSetting(c) THEN kept ELSE Append(Without(kept, c.kind), c)

RetainAll(kept, said) ==
    LET after[n \in 0 .. Len(said)] ==
            IF n = 0 THEN kept ELSE Retain(after[n - 1], said[n])
    IN  after[Len(said)]

\* Mutation: the queue of the guest that was stopped is left for the next.
Inherited(queue) == queue

\* strike::drain(drop), strike::drain_host(drop).
Discarded(queue) == <<>>

-----------------------------------------------------------------------------
NoIntent == [by |-> 0, kind |-> "none", map |-> 0, mod |-> 0, net |-> FALSE]
ToMenu(g) == [NoIntent EXCEPT !.by = g, !.kind = "menu"]

\* js_load_map: Crossplay only where the host has it, and then with the first
\* mod; an index that is no map of the catalogue passes.
LoadsOf(g, crossplay) ==
    {i \in [by : {g}, kind : {"load"}, map : 1 .. MAPS + 1, mod : 1 .. MODS, net : BOOLEAN] :
        i.net => crossplay /\ i.mod = 1}

\* The intents of one guest turn: the map menu deploys once, until it hears of
\* an error; the HUD of a round leads back to the menu.
Meant(crossplay) ==
    {<<>>} \cup (IF game # NoWorld THEN {<<ToMenu(guest)>>}
                 ELSE IF loading THEN {}
                 ELSE {<<i>> : i \in LoadsOf(guest, crossplay)})

\* What it says in one turn.
Says == {<<>>} \cup {<<c>> : c \in CommandsOf(guest)}

\* The menu is up until a dispatch publishes another phase.
LoadingAfter(meant) ==
    game = NoWorld /\ (loading \/ \E i \in DOMAIN meant : meant[i].kind = "load")

\* What the guest wants of the world and of the next one, after it said this.
AskedAfter(said) == IF game = NoWorld THEN Replayed(asked, said) ELSE asked
WantAfter(said) == IF game = NoWorld THEN want ELSE Replayed(want, said)

Newest(queue, otherwise) == IF queue = <<>> THEN otherwise ELSE Last(queue)

-----------------------------------------------------------------------------
Serials == 1 .. 2

\* The worlds before and after a load are told apart.
NextSerial == IF 1 \in reading \cup {game.serial, edge} THEN 2 ELSE 1

\* sim_boot::from_map: the settings are replayed, then a round starts.
FromMap(said) ==
    LET sim == Replayed(NewSim, said)
    IN  [sim EXCEPT !.serial = NextSerial, !.roster = sim.count]

\* What the world should be, from what the guest asked for.
AskedWorld(mod, net) ==
    [asked EXCEPT !.serial = NextSerial, !.mod = mod, !.net = net,
                  !.roster = IF net THEN 0 ELSE asked.count]

Settings(sim) == [weapon |-> sim.weapon, bots |-> sim.bots, count |-> sim.count]

-----------------------------------------------------------------------------
HostTypeOK ==
    /\ guest \in 0 .. 2
    /\ \A c \in Range(commands) \cup Range(config) : c \in CommandsOf(1) \cup CommandsOf(2)
    /\ game.serial \in 0 .. 2 /\ reading \subseteq Serials /\ edge \in 0 .. 3
    /\ loading \in BOOLEAN

\* A world is the one the guest asked for: what it configured before the
\* world was loaded, in the order it did, and what it said since; what it says
\* to a world is forgotten with it. (retain_configuration, from_map, drain)
ConfiguredAsAsked ==
    IF game = NoWorld
    THEN Settings(Replayed(NewSim, config \o commands)) = Settings(asked)
    ELSE /\ Replayed(game, commands) = want
         /\ Settings(Replayed(NewSim, config)) = Settings(asked)

\* Nothing that a stopped guest said or meant reaches its successor: the
\* queues are static, and outlive every guest. (strike::drain(drop))
NothingOfAnother ==
    /\ \A c \in Range(commands) \cup Range(config) : c.by = guest
    /\ \A i \in Range(intents) \cup {pending} : i = NoIntent \/ i.by = guest

\* The memory of a world is not freed or written over while a frame that was
\* submitted may be read from it. (wait_rendering_done, GuSync, glFinish)
OnlyLiveWorldsRead == reading \subseteq {game.serial}

\* A reload pressed in the menu, or in a world that is gone, never reloads the
\* gun of another one. (reload_pending, GuestInput)
PressesOfThisWorld == game # NoWorld => edge \in {0, game.serial}

=============================================================================
