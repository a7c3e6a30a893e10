# OpenStrike in TLA+

OpenStrike is one first-person shooter for six kinds of device. A Rust core
simulates, a JavaScript guest decides, a host per device connects them to
input, screen and network, and a renderer per device draws a map that was cooked
for it. Two games can be joined by a Companion process that has the authority
over one crossplay room. These modules model that program: what is modelled was
translated from the source, is checked on small instances by TLC, and, where
section 4 says so, is proved by TLAPS for every value of the constants.

## 1. The system

| component | state it keeps | operations | talks to |
|---|---|---|---|
| Authority, `Duel` in `crates/openstrike-core/src/net.rs` | two peers (session, queue of inputs, numbers received and executed, last heard), two players, score, round, countdown, session counter | `exchange`, `disconnect`, `step` | Companion loop |
| Client, `Client` in `net.rs` | session, next input number, history of inputs, age of the last snapshot, pending snapshot, status | `request`, `receive`, `fail`, `tick` | simulation; guest script, through the host |
| Guest script `game/network.ts` | the exchange in flight, when it started | `onTick`, the callback of an answer | offload worker; commands to the host |
| Bridge `openstrike-companion/src/lib.rs` | one TCP connection or none | `handle` | offload worker; Companion |
| Companion `openstrike-companion/src/main.rs` | four connections, the room, a clock | `poll`, the loop | bridges |
| Simulation `sim.rs`, `projectile.rs`, `weapon.rs`, `bot.rs` | player, bots, weapon, projectiles, phase, score, events | `tick`, `apply`, `reset_round` | host |
| Rules `game/rules.ts` over `game/sdk.ts` | phase seen last, when it began | event handlers, `onTick` | state and events in, commands out |
| Fixed clock `clock.rs`, frame times `frame_times.rs` | wall time of the last call and the rest; a ring of intervals | `advance`, `reset`; `record`, `pause`, `summary` | every host but the desktop; Companion |
| Hosts (desktop, PSP, 3DS, Vita, iPod, Symbian) | the game or none, map buffer, guest, input edges, pending configuration, graphics objects | frame loop, map load, return to the menu | all of the above |
| Touch `game/primary-touch.ts`, `tactical-touch.ts` | contacts and the roles they own | down, move, up, cancel, sync | host input |
| Menus, HUD, radar `game/menu.tsx`, `hud.tsx`, `radar.tsx` | step of the menu, choices, error; texts painted last, feed and effects; zoom and mark | what the player does, what the host dispatches | host intents; SDK |
| Cooking `pocket3d-bsp/src/cook.rs`, `wad.rs`, `cooked*` | none between calls; caches on the device | cook, read, strip, group | renderers |
| Visibility and collision `vis.rs`, `trace.rs`, `collide.rs` | leaf and row of the camera, stamps of faces; a body | `update`, `gather`, `trace`, `move` | renderers; simulation |
| Renderers `pocket3d-gu`, `-gles2`, `-vita` | GPU objects, staged lists, a streaming store | upload, draw, drop | hosts |
| Characters `openstrike-character`, their bakers, the actors of four hosts | none after the build; a copy of the poses on the device | bake, validate, read, pose, draw | build; bots of the simulation |
| Packs, renderers of the desktop and the 3DS, scripts | device resources | | |

`PROJECT.json` lists every component with what is modelled of it, and every
hazard with the line where it bites.

What is hard here. *Crossplay*: three clocks (two games and the room) and two
asynchronous hops between client and room, each of which can lose, delay or
answer too late; numbers of inputs that restart with every round while requests
with the old ones are still on their way; sessions replaced by a reconnect while
the old connection still has a request to be read; one step of the room that
expires, resets, counts down and resolves two shots in one particular order.
*The local round*: simulation and script see each other only through a state
published once per tick and commands applied after the turn, so that two
handlers of one turn decide on the same, already old, state; lists are changed
under the loops that walk them. *The clock*: rest, limit and stalls. *Hosts*: a
map load, a menu, a lost context or another guest in the middle of any of these,
over queues that are static and outlive every guest, and memory that a submitted
frame still reads. *Screens*: components that are mounted and dropped while
fingers stay down and answers are still to come. *Maps and renderers*: 16-bit
limits, reads that end at the edge of a buffer, marks that wrap, caches keyed by
less than what they depend on, resources made in steps each of which may fail, and
a layout that is computed once by each program that writes, checks or reads it.

What makes each correct:

* Authority: a queue is exactly what was sent and not executed; sessions are
  never shared; the countdown, the dead, the phase shown and the score agree;
  nobody is hit while away; it implements the match of module `Match`.
* Client and script: one number names one input; nothing sent is lost or run
  twice within a session; a client never takes an answer of a session that was
  replaced; the ticket and the exchange agree; a live round is shown only while
  the room is heard.
* Companion: one connection per slot; nobody is in the room without one; every
  connection is polled once in a pass; a stream carries one request, and the room
  handles a bridge's requests in order; whoever connects is accepted in the end.
* Local round: one outcome per round, and the right one; no countdown cut short;
  another round always goes live; rounds of the rifle are neither made nor lost;
  everything that flies flies once a tick, and whoever falls falls once; a bot
  that sees the player keeps shooting.
* Clock: no time is lost but what is deliberately discarded.
* Hosts: a world is the one its guest configured; nothing of a guest that is gone
  reaches the next; graphics objects, buffers and presses belong to the world
  that is there; a pushed guest replaces the old one wholly or not at all; the
  menu hears what became of the map it waits for.
* Screens: what is held is held by a finger; what is painted is the state that
  was dispatched last; the world played is the one chosen.
* Maps: what is read is what was stored; no triangle and no texel is lost; what
  is in sight is drawn, or counted as left out; a body never ends up in a wall.
* Characters: whatever a build lets through every handheld can read, has room for,
  and draws in the same pose.

## 2. Modules

*Crossplay*

| module | what it is |
|---|---|
| `Match` | abstract specification: what a room promises its two players, without sessions, inputs or clocks |
| `Duel` | the authority: `exchange` (`Refuse`, `Join`, `Accept`), `disconnect`, `step`; its environment is any stream of the requests in the constant `Requests` |
| `Crossplay` | `Duel` (by INSTANCE) composed with a client, script, worker and connection for each slot in `Guests`, and a freely played rival in the others |
| `Companion` | bridges, listener, the list of connections and the loop that polls it; of the room only who is present |
| `FixedClock` | the clock |
| `Pace` | the room's clock (by INSTANCE of `FixedClock`) beside the desktop's tick rate |

*The local game*

| module | what it is |
|---|---|
| `LocalRound` | the round as the rules see it: `Tick` is `tick_world`, `Script` is one dispatch of the rules and the commands it leaves |
| `Bot`, `Combat` | one bot's brain; the same tick in full: rifle, bots (by INSTANCE of `Bot`), projectiles, and the commands a script gives between two ticks |
| `FrameTimes` | the ring of intervals a host reports |
| `PrimaryTouch`, `TacticalTouch` | touch controls of a round with the dialog over them and the iPod's input; the lower screen of the 3DS with radar and input |
| `Hud`, `Menu` | what the HUD paints and when; the screens of the menu and the switch to the round |

*Hosts*

| module | what it is |
|---|---|
| `Host` | what the handheld hosts share: queues of the strike surface, retained configuration, the world built from it, and the properties all must keep |
| `Desktop` | the desktop host: a world from the command line, then its guest; extends `Host` for the world and its commands |
| `Vita`, `Psp`, `N3ds`, `IPod`, `Symbian` | each host's loop, extending `Host` |
| `Hosts` | the six of them as one specification, what is said of all, and the proofs |

*Maps and drawing*

| module | what it is |
|---|---|
| `Wads`, `Textures`, `Cook` | what the cooker makes of a map: index of archives, pictures with their mips and placeholders, faces in batches of 16-bit indices |
| `Reader` | how four consoles read the file into their memory |
| `Strips`, `Clusters` | triangle strips and draw groups made on the device |
| `Vis` | leaf, row and faces in sight |
| `Runs` | the joining of index ranges that lie end to end (GLES2 and Vita) |
| `Gu`, `Gles2`, `Gxm` | the world renderers of the PSP, of GLES2 (Symbian) and of the Vita |
| `Collision`, `Walk` | traces through hulls; the body that walks by them |
| `Character` | the baked file of a bot's body: what writes it, what checks it, what four hosts keep and draw of it; its theorems at its end |

*Instances*: `MCDuel`, `MCCrossplay`, `MCLocal`, `MCMaps`; `Hosts`, `Companion` and
`Pace` are checked as they are.

*Proofs*: `Duel_proof`, `Crossplay_proof` (which extends it), `Companion_proof`,
`Local_proof` (of `MCLocal`: round, clock, fight, screens and frame times), and the ends
of `Hosts`, `Reader` and `Character`. `Iteration` holds what they need of loops, of
sequences and of division.

How state and actions correspond to the code:

* **Duel.** The variables are the fields of `struct Duel` with the same names.
  `peers` and `players` are functions of the slot. `Error` is the sequence of
  early returns of `exchange`, in their order; `Refuse` keeps the one change a
  failing request makes (a join that finds no session number left has already
  cleared `live`). `Takes` describes the loop over a batch that tells fresh
  inputs from repetitions and gaps by the places it takes: a place for each
  number after `received`, and no number above them. `Step` is `step`: the
  definitions `Expired`, `Present`, `Starts`, `Resets`, `Remaining`, `Playing`
  are its intermediate values in the order of the code; whether a held trigger
  hits, and for how much, is the choice `taken`.
* **Crossplay.** `ClientTick` is `Client::tick` as three functions of the
  client's record, `Adopt`, `GiveUp` and `Capture`, in that order. A host runs a
  simulation tick, then the guest's turn: `Tick(s)` is the tick of the client
  and the script's `onTick` with the request it may send; `Frame(s)` is the
  callback and the drain of the commands both queued. Between the two, and
  between any two turns, the worker and the Companion run. `wire[s]` holds the
  requests the worker has; `current` marks the one the script waits for.
  `links[s]` is its connection as the worker meets it. `Break`, `FailOver`,
  `ServeLate`, `Hangup` and `Close` are what the bridge's
  and the Companion's ends of the connection do to a request.
* **Companion.** A pass of the loop is many steps, since the bridges run beside it:
  `Accept`, then for each place `at` of the list the stages of `poll`, which
  `batch` tells apart (writing, reading, the records read and still to be
  handled), then `EndOfPass`. `Drop` is the error branch of the loop for all of
  them: the room is told, `swap_remove` closes the gap (`Without`), and `at` stays.
  A bridge's `handle` is `Connect` and `SendHello` or `Reuse`, `SendRequest`, then
  `Answered` or, for every error, `Leave`, which is also the end of the game.
  `lost` and `closed` in `Crossplay` are what this module makes of a slot's
  connection: streams given up and not closed yet, each with one late request at
  most (`OneInThePipe`), handled in order (`HeardInOrder`) and before the next
  stream is let in (`SlotHeldOnce`), and a stream the Companion closed.
* **LocalRound.** `Fight` is the part of `tick_world` behind `live`; traced
  shots (`TracedFight`) and projectiles (`BallisticFight`, where the pack is
  `ballistic`) differ in that
  projectiles outlive their thrower and land in the same tick on both sides.
  `Loses` is the handler of `playerDied`, `GoesLive`, `Wins` and `Restarts` the
  conditions of `onTick`, `Decide` and `Respawn` what the queued commands do when
  the host applies them: the last `setPhase` of the turn decides.
* **FixedClock.** `rest` is the code's `phase`; `run`, `ticks` and `dropped` are history variables: what the
  clock has seen and given out since its last reset.
* **Combat, Bot.** `CombatTick` is `tick_world` in its order: the rifle (`PlayerTurns`),
  each bot (`BotTurns`), the projectiles swept with `swap_remove` under the loop
  (`Landings`); `SetPhase`, `ResetRound`, `SetBotCount`, `ConfigureWeapon` are the arms of
  `apply`. How well a bot sees and what a shot meets are choices.
* **PrimaryTouch, TacticalTouch.** A turn is the host's ticks and `Dispatch`, the
  framework's `Latch`, one `Gesture` for each finger that changed, and `Hooks`.
  `input` is what the host holds down, `heldDown` what the simulation took.
* **Hud, Menu.** `Dispatch` and `Frame` are the two times the HUD looks at the
  state; `cached` are the variables that outlive a remount, `painted` what stands
  on the screen. In `Menu`, `Act` is the host, draining what `Deploy` and `Quit`
  asked for; `MapError` and `Dispatch` are what it tells the guest.
* **Host and the five handheld hosts.** A guest's turn puts what it `Says` and
  what it has `Meant` into the static queues; each host drains them in its own
  place and order. `FromMap` is the boot of a simulation, which has `Replayed`
  what was retained; `Retain` is what one command leaves retained: of each kind
  the last, in the order they came (`Without` is the `retain` of the vector).
  Worlds carry a serial, so that a buffer, a press or a name can be known to be of
  another one; `asked` and `want` are histories of what the guest configured. `pc`
  is the step of the host's loop, and every call of the PocketJS host or of
  `wired.rs` that may fail has a failing disjunct.
* **Desktop.** `Opened` and `InRoom` are the world `main` makes, `Boot` the bundle
  that configures it while it is evaluated. `Tick` is the simulation and one turn
  of the guest: what it said is applied after it (`Drained`), or stays in the
  queue when the turn fails (`Throws`); `EndFrame` asks whether to exit.
* **Wads, Textures, Cook.** `AddFile` walks a directory entry by entry, as far as
  it goes; `CookTextures` writes a section, `ExpandLevel0` reads one back;
  `CookFace` puts a face into its batch or seals it, and `Flattened` numbers the
  batches. `Accepted` is what the reader insists on.
* **Reader.** `Open`, `Read`, `Probe` and `Fails` are the reads of a file that may
  be short, fail, or find the file's size changed; the memory of the load before
  is still there.
* **Strips, Clusters.** `Seed`, `Continue` and `Store` are the loops that build a
  strip; `Place` puts a run into the group it fits; `UpdateVisibility` marks and
  unmarks groups as faces come into sight.
* **Vis.** `Update` decodes the row of a leaf only when the leaf changes,
  `GatherFaces` stamps faces with the number of the frame; `sees` of a world is
  what its compiler saw from a leaf, which `Packed` encodes.
* **Gu.** `Relocated` moves textures, vertices and indices to fast memory in the
  order of their use, while there is room; `GroupBounds` joins the planes and
  boxes of a group's faces; `Draw` marks, leaves out and calls.
* **Gles2, Gxm.** Each function that makes objects is an action that may fail
  after any of them and deletes what it made; `Render` and `DrawWorld` run the
  plan of batches through the state they are drawn in; the frame's end may fail at
  every list, and the counters say what was not drawn.
* **Collision, Walk.** The recursion over a hull's planes, which stops `EPS` in
  front of one; `BackUp`, by tenths of the segment looked at, which gives up in solid
  when the next tenth would lie before the segment; the bounds that skip an entity;
  `SlideMove`, `StepSlideMove`, the test for ground, and the tick of a character. A
  body in solid is stuck there: every trace from it starts in solid.
* **Character.** `Sections` are what the bakers write, in their order; `Valid` is
  `validate`, with its own sum of the length (`Expected`); `ColorsStart` to
  `TextureStart` are the reader's sums. A `Read` is a range of bytes and what it is
  taken for. `Build`, `Load` and `Draw` are the three times the file is looked at:
  by the build, by a renderer that copies it, and when a bot is drawn. A sample is
  the pair of frame and vertex it was baked for, a pose two samples with their
  weights, so that the PSP's pairs, the 3DS's padded frames and the CPU's blend can
  be compared.

External to the repository, and modelled from their use: the PocketJS offload
worker (it takes requests one after another, forgets cancelled ones, and runs a
callback in the guest's frame, after `onTick`), its touches and gestures, its
tweens and its interface that draws with the same context, the map compiler's
run-length rows, the swizzling of the PSP's GE, the end of a vita2d scene, and the
application loop of the desktop engine (it ticks at the rate it is asked for, any
number of times in a frame, and asks after a frame whether to exit).

## 3. Runs

| run | instance | distinct states | shows |
|---|---|---|---|
| `duel` | `MCDuel.cfg` | 350,338 | the authority keeps its queues, sessions, countdown, score and the match; whoever goes on calling is accepted |
| `crossplay` | `MCCrossplay.cfg` | 3,009,262 | inputs, sessions, tickets and numbers survive two faults at any points, several rounds, and two clients of one room |
| `connections` | `MCConnections.cfg` of `Companion` | 3,715,713 | slots, presence, the poll order and the order of requests survive every reconnect |
| `local` | `MCLocal.cfg` | 194,462 | round and script, fight and bot, clock and frame times, touch controls, HUD and menu |
| `hosts` | `MCHosts.cfg` | 116,648 | six hosts keep configuration, queues, memory, presses and guests apart through loads, failures and replacements |
| `maps` | `MCMaps.cfg` | 233,946 | archives, textures, geometry, reads, strips, groups, sight, three renderers, a body that walks, and what bots look like |
| `lastthrow` | `MCLastThrow.cfg` | violated | finding 1 |
| `pace` | `MCPace.cfg` | violated | finding 2 |
| `wait` | `MCWait.cfg` | violated | finding 3 |
| `late` | `MCLate.cfg` | violated | finding 4 |
| `wad` | `MCWad.cfg` | violated | finding 5 |
| `bots` | `MCBots.cfg` | violated | finding 6 |

`MCDuel`, `MCCrossplay`, `MCLocal`, `Hosts` and `MCMaps` put several instances
next to each other: the variable `part` says which of them a behaviour is one of, the
others never move, and each property says which parts it is about. A property of
such a run is often the conjunction of a few of the modules' own:

| property | says |
|---|---|
| `InputsKept` | one number names one input, and what a client sent and the room has not executed is an unbroken run |
| `ClientNeverAtFault` | the room finds no fault with a client that keeps its session and every input not executed |
| `PlaysWhatItHears` | a live round is shown only while the room is heard, and on the room's map |
| `OwnAnswersTaken` | one exchange at a time, of the session the room holds, and no answer of that session is rejected |
| `WellKept` | a stream carries one request or its answer, and only the one its bridge waits for |
| `Magazine`, `Struck` | the rifle holds no more than its magazine and rounds neither vanish nor appear; what flies flies once a tick, who falls falls once |
| `HeldDown` | what the simulation takes as held is held by a finger that is down, in a role it owns; on both kinds of screen |
| `ShownIsState` | what is painted is the state dispatched last; effects, feed and the radar's mark are of this round and map; the frame times are of the last frames, without loads |
| `LoadedAsShown` | the world played is the pack, map and network chosen on the menus; a failure is shown |
| `WorldAsAsked` | a world is the one its guest configured; on the desktop, a world the room decides in has no bot and nobody flies there |
| `GraphicsMatchWorld` | no freed world is read by a frame, no name of a lost context is used, the GPU holds what the world needs |
| `NoStalePress` | a press or touch made elsewhere or while paused does not act on this world |
| `PushedWhole` | a guest replaced over USB is replaced wholly, answered once, or gives way to the one before |
| `ReadsExactly` | a name is answered with its own block; a buffer holds the file, or the load failed, and nothing is written beyond it; a character is read inside its file, each section as what was baked there |
| `KeptWhole` | the reader accepts what the cooker wrote, each face is drawn with its own points, each texel comes back, also after the PSP's reordering, strips and groups draw what the lists did; a character that was baked is built, and one that was built has room everywhere |
| `SeenIsDrawn` | rows are those of the camera's leaf; each face in sight is drawn once or counted as left out, by objects that exist, in the state meant for it; nothing leaks when one of them cannot be made; a bot is drawn in the pose between its two frames |
| `WallsHold` | a trace says that it starts in solid exactly if it does; it passes nothing solid but for the epsilon that corners are cut by, and ends in solid only less than a tenth of its length behind a free place; a body gets no deeper, and has something below it on the ground; skipping entities or the step changes nothing |

Bounds, and why they are enough for what is asked:

* The limits of the protocol are scaled down together: 128 queued inputs to 2 or
  3, 12 per batch to 1 or 2, 120 ticks of silence to 2, 180 of countdown to 1 or
  2, 90 of timeout to 1. What matters is that each is reached and passed: queues
  fill up, batches have to be split, slots expire in the middle of a countdown,
  exchanges time out before, at and after their answer.
* `MAX_TICK` (5 in `duel`, 4, 3 and 2 in the parts of `crossplay`) covers a join, a
  live round, a death, the countdown and the next round; a fault and the recovery
  from it. `MAX_GENERATION` 3 lets sessions be replaced and the last number be
  asked for again. `MAX_FAULTS` allows two lost connections, idle closes, restarts
  or departures, at any points. `MAX_DRIFT` 2 keeps a game and the room within two
  ticks of each other; `MAX_WIRE` 2 lets a cancelled request precede the current
  one.
* In `duel`, slot 0 sends batches in sequence, overlapping, out of order, with a
  gap, malformed ones and joins; slot 1 what a round needs. Both run the same code.
* In `connections`, 3 streams and 2 requests per bridge let a bridge reconnect in
  front of its own old stream when the other's is removed from the place before;
  3 places hold all of them. `IDLE` 2 tells fresh, silent and expired. At the
  door of `duel` the list has one place, so that everybody has to wait for somebody.
* In `local`, `FULL_HP` counts hits; two bots and 3 projectiles let one side fill
  the list; `FREEZE` 2 and `PAUSE` 3 tell the two countdowns apart. The clock's 3
  ticks in 7 units of time leave a remainder after every call. The fight has two
  rifles whose magazines differ, so that a change can leave too many rounds in the
  gun. Two fingers over five areas are enough for each role to be taken from and
  kept by the other. The HUD changes one group of values at a time, as each group
  has guards of its own. Two packs and two maps tell right from wrong choices.
* In `hosts`, one map that loads or not, two packs where the host can choose, a
  bundle to push beside the embedded one, two textures to upload and a minimap in
  two pieces, so that something is half done whenever the guest or the user leaves.
  `MAX_LOG` bounds what a guest may say to the Symbian host before a world exists.
  On the desktop the command line asks for as many bots as the pack (1) or for more
  (3), `BOTS`; `MAX_SAID` bounds what failing turns leave in the queue.
* In `maps`, every module's constants are scaled so that the limit is met from
  both sides: 6 vertices in a batch for 65,535, 8 texels for the largest picture,
  stamps that wrap at 3, strips of 10 indices, groups of 2 faces, files and buffers
  of up to 4 bytes, hulls of a few planes. The inputs are all of a small set
  (pictures, archives, files, lists of triangles, rows) or chosen scenes
  (stairs with something overhead, boxes away from where they were built, two
  ceilings with an edge at which a jump ends in the middle of backing up, once out of
  solid and once given up in it, faces of
  every kind a plane can be joined from). Characters have the real frames of the
  two bakers' clips and the real limits; vertices are few, or at a budget and one
  behind it, and eighteen things may have happened to a file.

Deadlock is checked for `connections`, `local` and `hosts`, which never stop (a
desktop that has exited does nothing, explicitly). The others end: at
`MAX_TICK`, `MAX_GENERATION` or `MAX_TIME`, or, in `maps`, because a map is
cooked, read and grouped once. Their cfgs say `CHECK_DEADLOCK FALSE`.

**Fairness.** `LocalRound!Spec` assumes weak fairness of `Next`: the host's loop
runs a tick and a turn, then the next, for as long as the game runs. Which shots
hit stays free, so `RoundResets` asks only that a round in which a side *is*
eliminated ends, and that rounds go live for ever. `Bot!Spec` assumes weak
fairness of `Tick`, of the same loop: a bot that sees the player from some time
on shoots again and again. `Hosts!HostsSpec` assumes weak fairness of the host's
next step, whatever it is: each host runs its loop until it shuts down.
`Psp!FairSpec` adds that the ticks of a turn end, since the clock returns four
at most. `Companion!Spec`, and `MCDuel!MCSpec` for the door, assume weak
fairness of `Loop`, since nothing in it blocks (sockets and listener do not, and
the loop sleeps a millisecond), and strong fairness of `TimePasses`: however
short a pass, time goes by. Of the bridges it assumes nothing: they may fall
silent at any step. The bound on requests does make every talker fall silent in
the end; in the code it is the paired ones that may talk for ever, at most two
(`SlotHeldOnce`) of four places. Nothing else assumes fairness.

Every property of a passing run has a mutant in `PROJECT.json`: a variant of a
definition, written above it and marked *Mutation*, that makes TLC find the
property violated.

### Findings

1. `lastthrow`: with a pack of projectiles the player can die in the tick in
   which the last bot falls. `playerDied` queues a loss and phase `lost`; `onTick`,
   which runs after it on the same published state, queues a win and phase `won`,
   and comes last. `README.md` says "die and you lose". Traced shots cannot do
   this, which `OutcomeCorrect` proves.
2. `pace`: the desktop ticks at 64 Hz (`crates/openstrike/src/main.rs:81`), the
   Companion at 60, where `docs/CROSSPLAY.md` says both run at 60 Hz on the same
   clock. Every desktop tick is an input the room has to execute, so its backlog
   grows until the client gives the session up.
3. `wait`: the PSP host only logs that a map could not be loaded
   (`crates/openstrike-psp/src/main.rs:618`). The menu, which offers to try again
   when it is told (`game/menu.tsx:304`), shows that it is loading for ever. `hosts`
   shows that the Vita, the iPod and the 3DS tell it (`WaitEnds`); the Symbian host
   drops the intent likewise.
4. `late`: on the 3DS a texture may be found not to fit after the round has been
   shown. The host mounts the menu anew and dispatches the error
   (`crates/openstrike-3ds/src/native.rs:110`, `407`), but the menu starts at its
   first screen, and the one that listens for errors is not mounted.
5. `wad`: an archive whose directory is cut short is skipped, but the names read
   before stay in the index (`pocket3d-bsp/src/wad.rs:199`, `211`), with the number
   the next file will get.
6. `bots`: `--bots N` is documented as the number of bots per round
   (`crates/openstrike/src/args.rs:181`). It is the number of the first round only:
   the rules configure the pack's own number (`game/rules.ts:16`) when they are
   evaluated, and every round after that is spawned from it.

Two observations besides. A new round makes the client forget
inputs the room may still have queued (the history is cleared, the queue holds
what came after the reset). For a moment the client's history is shorter than
what is not executed, so the room's queue can overflow before the client's
history is full; the client then fails, and rejoins. `ClientNeverAtFault` says
exactly when (`KeepsUnexecuted`).

And a body can end a tick in solid. A trace is to be backed up "until it's out of
solid" (`pocket3d-bsp/src/trace.rs:425`), but the loop gives up in solid when a tenth
more would lie before the segment (`429`). In `maps` a body that jumps past the edge of
a ceiling that is a little higher behind it ends there and stays: `collide.rs:155`
leaves it to "the caller's unstick logic", and neither caller of `step_character` in the
simulation has any (`sim.rs:465`, `bot.rs:294`). The places in question are within
`DIST_EPSILON` of a corner, 1/32 of a unit in the game, so that it takes geometry that
is nearly flush. `WallsHold` is therefore not that bodies stay free, but how far they
get.

## 4. Proofs

All theorems are about the specifications as they are checked, from the
assumptions the modules state on their constants (`DuelAssumption`,
`CrossplayAssumption`, `CompanionAssumption`, `LocalRoundAssumption`,
`ClockAssumption`, `CombatAssumption`, `LocalAssumption`, `HostAssumption`,
`VitaAssumption`, `HostsAssumption`): limits are natural numbers, not zero where the
code could not work with zero. Of hosts, there may be any number of maps, packs,
textures, pieces of a minimap and bundles; on a screen, any fingers, areas and
controls, rows of the feed, samples, packs and maps. `Character` assumes nothing: its files
are any; `Reader` states its assumption with its theorem (`ReaderAssumption`), for
files, buffers and words of any size.

| theorem | says | inductive invariant |
|---|---|---|
| `TypeCorrect` | `[]DuelTypeOK` | itself |
| `QueueCorrect` | the queue is the unexecuted run, within its limit | `QueueInv` |
| `RoundCorrect` | countdown iff somebody is dead; playing means alive; one score per round | `RoundInv` |
| `SessionCorrect` | sessions are distinct; who is connected was heard | `SessionInv` |
| `NumbersCorrect` | numbers never go back, one input per step | `QueueInv` |
| `DamageCorrect` | nobody is hit while away | `RoundInv` |
| `MatchCorrect` | `Duel` implements `Match` | `RoundInv` |
| `CrossTypeCorrect` | `[]TypeOK` of `Crossplay` | `CrossInv` |
| `RoomRefined` | the room of `Crossplay` is one of `Duel`: what holds of `DuelSpec` holds end to end | `CrossInv` |
| `InputsCorrect` | one number names one input; what is captured and not executed is one unbroken run | `CrossInv` |
| `NeverAtFaultCorrect` | the room finds no fault with a client | `CrossInv` |
| `AnswersCorrect` | one exchange at a time; no answer of the own session is rejected | `CrossInv` |
| `PlayCorrect` | a game plays only what it hears, on the room's map | `CrossInv` |
| `LearningCorrect` | what a client learned does not go back | `CrossInv` |
| `SlotCorrect`, `PresenceCorrect`, `PollCorrect` | one connection per slot; nobody present without one; each polled once in a pass | `ListInv` |
| `PipeCorrect` | what streams carry: a hello and one request, in the order they were sent | `WholeInv` |
| `HeardCorrect`, `WellKeptCorrect` | requests are handled in order; a stream carries one request, or its answer | `WholeInv` |
| `LocalTypeCorrect` | `[]TypeOK` of `LocalRound` | itself |
| `CutShortCorrect` | no countdown is cut short | `PhaseInv` |
| `OutcomeCorrect` | one outcome per round of traced shots | `OutcomeInv` |
| `NoDriftCorrect`, `DropsCorrect` | the clock | `ClockInv` |
| `MagazineCorrect`, `StruckCorrect` | rounds are neither made nor lost, the magazine is never above its size; what flies flies once, who falls falls once | `CombatInv` |
| `HeldCorrect` | what is held is held by a finger that is down, in a role it owns | `ScreensInv` (`TouchInv`, `LowerInv`) |
| `ShownCorrect` | what is shown is of this state, this round and this map; the frame times are of the last frames | `ScreensInv` (`HudInv`, `LowerInv`, `FramesInv`) |
| `LoadedCorrect` | the world played is the one chosen; a failure is told | `ScreensInv` (`MenuInv`, `PromptInv`) |
| `HostsCorrect` | what each host keeps of queues, configuration, guest, graphics and input | `HostsInv` |
| `AsAskedCorrect` | a world is the one its guest configured | `HostsInv` |
| `OfAnotherCorrect` | nothing of a stopped guest reaches the next | `HostsInv` |
| `GraphicsCorrect` | graphics objects and their world come and go together; every field keeps its shape | `HostsInv` |
| `PressCorrect` | a press acts on the world it was made in, or on none | `HostsInv` |
| `PushedCorrect` | a pushed guest replaces wholly or not at all, and is answered once | `HostsInv` |
| `MapsCorrect` | a map that is loaded is the file, byte for byte; one that is refused has a reason; nothing is written behind the buffer | `ReaderInv` |
| `ReadsCorrect`, `BudgetsCorrect`, `PoseCorrect` | no host reads outside of a file that was built; none is too small for it; all draw the pose between its two frames | `CharacterInv` |
| `TexelsCorrect` | the PSP's reordering keeps each texel, for any width of whole blocks | (none) |

The arguments, in short:

* *Queue.* The counting step is `FreshInputsCounted`: the places a batch is taken
  at are distinct places of fresh inputs, so there are no more of them than
  `fresh`, which is what the code compares with the limit. A reset empties the
  queue and sets the executed number to the received one, which keeps the run
  empty rather than broken.
* *Round.* `StepRound` says that a step of the room either begins a round, with
  everybody alive and no victim, or goes on with one, and that victims were alive
  in a live round. From that the countdown, the score (counting the living as
  points not yet scored in this round) and the refinement follow case by case.
* *Match.* `StepMatch` maps a step of the clock to `StartRound`, `Kill`,
  `Interrupt`, `Revive` or a stutter, by whether the room is full, was live, and
  whether the countdown ends; `NextMatch` adds joins, refusals and departures.
* *End to end.* `CrossInv` is a relation for each slot between the values it
  consists of: the client and its peer in the room (`ClientFits`), every request on
  the way, in the worker or in a connection given up (`RequestFits`), a snapshot on
  its way or kept for the next tick (`SnapshotFits`), script and exchange
  (`ExchangeFits`), and what the game shows (`ShownFits`). It is needed whole: a
  request is harmless because it begins no later than what the room expects, that
  is so because a client drops from its history only what the room said it
  received, and what the room said is still true because snapshots of its session
  are accepted in order. `RoomMoves` says what of a peer may change while its
  client stands still: it only receives more, or its session is replaced. Each
  action is then one of three: it moves the game alone (`GameAlone`), the worker
  and its connection (`WorkerAlone`), or the room (`RoomActs`). A join that comes
  late replaces a session only while nobody is in it, because a join is on the way
  only while the client has none. That numbers name one input (`NamesFit`) is
  carried with it over all the copies of an input that are on the way.
* *List.* `ListInv` adds that no stream is listed twice, accepted or not, and that
  the records read are still in the stream. `WithoutElements` says what
  `swap_remove` does: the removed place gets the last element, from ahead of the
  loop, hence not polled yet, and the loop stays where it is. A slot is given away
  only while no other connection holds it, in a step in which nothing else moves.
* *Streams.* `PipeInv` says what a stream may carry, and in which of the three
  places (on the way, read and not handled, answered) its one request is. That
  requests are heard in order needs `News`: a request that may still be handled is
  newer than what was heard of its bridge, or its connection's hello is one the pass
  has still to come to and will refuse, because the bridge's new connection took the
  slot in this very pass (`Doomed`). That an old connection without a slot is always
  ahead of the loop (`OldFirst`) is what makes it so. `Bounded` adds that the
  list, the streams and the clocks stay within their limits.
* *Outcome.* The invariant needs what is true between the halves of a turn: an
  event waits exactly if the player died in this tick's live round, and then a bot
  stands, because the shot that fells the last one is traced before the bots
  shoot and leaves nobody to do so (`KillerStands`). With projectiles this last
  fact fails, which is finding 1.
* *Clock.* With `Owed = Due * SECOND + Left`, an advance adds
  `Elapsed * TICK_HZ` to both sides of `NoDrift`.
* *Fight.* The loops over bots and over projectiles are recursive functions.
  `Iteration` proves once that such a loop is defined (`LoopExists`) and that a
  turn which keeps a property keeps it to the end (`TurnsKeep`): by induction over
  sets of numbers, which needs no operator as a parameter. `SweepKeeps` is what a
  turn of the sweep keeps: the projectiles not yet looked at are those behind the
  place of the loop, also after `swap_remove` moved the last one there, so that
  each has flown once at the end; a bot told to be dead was alive before.
* *Touch.* `TouchInv` says what contacts own: a role belongs to one finger (`Owns`),
  what the host was told is what the contacts hold (`Tells`), and controls that are
  not active own nothing, while fingers that are down before they become so are
  ignored until they lift (`ActiveFits`). The last is what carries a dialog, a remount and the end of
  a round: the controls see them only with the next dispatch, and a finger held
  across must not become a press. On the lower screen (`LowerInv`) the button held
  is that of the one contact, which has a finger exactly while it has an action.
* *HUD.* A frame writes a text only where its guard says that something changed, so
  what has to be invariant is that what the hook remembers of each part
  (`HpFits`, `AmmoFits`, `BannerFits`, `FlagsFit`, `ScoreFits`) is on the screen, or
  was never painted. Of the banner it says so only outside of a live round, where it
  is shown; what was remembered of its count is forgotten with the phase. Of the feed, `EventsFit` says
  that only what a reset has still to wipe is of an earlier round, and that rows are
  those of the feed unless a frame has still to show them. A turn reports any
  sequence of events; that each handler keeps `EventsFit` (`HeardKeeps`) is carried to
  the end of the turn by `LoopThrough`.
* *Frame times.* `FramesInv`: counted back from the next place, the ring holds the
  last intervals; until it is full the next place is the number of frames, and a
  host that has loaded a map has paused, so that no load is measured.
* *Menus.* `MenuInv`: a menu waits for a map exactly while the host has its intent or
  the world, and stays in the step it was chosen in, so that nothing can be chosen
  anew; an intent carries the pack and the network of the menus; outside of the menu
  nothing is left of it. `PromptInv` adds, for a host that fails at once or not at
  all, that a failure leaves the menu that asked mounted, with the error in it. Of a
  host that may fail late it is false, which is finding 4; the rest is proved of
  that one too, whose actions are the same but for one (`MenusAlike`).
* *Hosts, what is common.* A host keeps of each kind of setting the last one said,
  and replays these when a world is made; the guest means all it said, in its
  order. That the two agree is `RetainAlike`, one word at a time: dropping the
  earlier setting of a kind (`WithoutAlike`) leaves a simulation that differs at
  most in what the later one sets anew (`AppliedSets`); the number of bots, which
  two kinds set, comes out right because the order of what is kept is the order it
  was said in. It holds of every queue (`RetainAllAlike`) because a queue is a
  finite sequence, over which `Iteration` has an induction for a set of sequences
  (`SequenceInduction`). With it, `Configured` is inductive: before there is a
  world, what is kept followed by what still waits sets a new simulation as the
  guest has asked; when there is one, what waits takes it to the world the guest
  wants, and what is kept is what the next one will be made from. It cannot be
  said of the world alone: what was said may still lie in the queue when the turn
  fails. `HostInv` is that, and that where no guest runs nothing of one is left
  (`NobodyHere`), that a submitted frame reads only worlds that live, and that an
  edge was made in this world. Lemmas for the steps all hosts take (`MenuTurn`,
  `WorldTurn`, `BackInMenu`, `Loads`, `Begun`) say what each keeps of it.
* *Hosts, one by one.* `VitaInv`, `PspInv`, `IPodInv`, `SymbianInv`, `N3dsInv` and
  `DesktopInv` add what depends on the step the host is at: the Vita's active
  bundle and the one its record names agree but while it recovers, and a candidate
  whose guest failed is only met there; the PSP's active pack is that of the
  world; names on the iPod are of the context there is, and no press waits while
  it is paused; the Symbian and the 3DS have drained the queue before they look
  for a map; the GPU of the 3DS has the world, the characters and as many textures
  as were uploaded, and the UI holds the radar's picture exactly while there is a
  world; a desktop in a room has no bot. Each has a step lemma, with one step per
  action. The hosts other than the Vita are instances, so their operators are
  copies of those of `Host` (`PspSame` to `DesktopSame` say so, and lemmas are
  applied through them).
* *Reader.* `ReaderInv`: until a load has ended, what was read of the file is what is
  held of it, from the start of the buffer on; a probe is made only of a full buffer,
  so that a byte more means that the file does not fit; a measured buffer has room
  for the file behind the first aligned address, wherever it was allocated
  (`StartAligned`, `MeasuredFits`), so that the 3DS and the E7 never refuse a file for
  its size. `Arrived` says that bytes which arrive follow on those before and go
  nowhere else.
* *Characters.* `SizesBounded` and `LayoutOf` say that the reader's sums end where
  the build's sum says, so that a place inside a section is inside the file
  (`Inside`); `ClipsInside` that a frame of a clip is one of the file.
  `IntoSplits` splits the age of an action into a frame and a part of one, which is
  0 at the last frame; then all four hosts draw `Between` (`DrawnBetween`): the PSP,
  whose second sample is of the next frame of the file and not of the clip, because
  it does not morph there; the 3DS because padding does not reach the next vertex
  (`KeptIsSample`). The rest is products and quotients (`DivisionUnique`).

Only model-checked:

* Bots on their own (`KeepsShooting`); the maps and the renderers
  (`ReadsExactly`, `KeptWhole`, `SeenIsDrawn`, `WallsHold`, of which `Character`
  has the parts about characters proved, and `Reader` the one about reading files). Their instances are small, but their
  properties do not depend on a size that the instance does not pass. The last four
  say that a cooked list, a picture or a path of a body equals a reference for
  every input, by loops whose results no invariant of fixed shape describes.
* Of the characters, that each section is read where it was baked (`ReadsBaked`)
  and that what was baked is built (`BakedIsBuilt`): the places a baker writes at
  are a sum over its sections by recursion, which the prover would have to unfold
  section by section.
* `EveryoneIsAccepted`, `RoundResets`, `KeepsShooting`, `WaitEnds`: liveness under
  fairness, and `ENABLED`, are beyond the prover.
* What `Strips`, `Collision` and `Walk` compute: they recurse as the code does, by
  RECURSIVE operators, which the prover has no backend for. Elsewhere loops are
  recursive functions of a number, which `Iteration` proves about.
* The runs that expect a violation.

## 5. Not modelled

Left out of what is modelled:

* Numbers of inputs are natural numbers: the wrap of a `u32` in `Client::tick`
  needs 2.2 years of one round. A snapshot that does not decode (`CONNECTION
  ERROR`) is not produced by the room. The budgets of payloads, `map_key` and
  encoding are left out; a request names the room's map or another. A record counts
  as sent when its newline is; the reply queue's limit is not modelled, because a
  stream never holds two replies (`OneInThePipe`).
* Every fourth tick offers the script a request; here it may be offered at any.
  A clock that goes back while the client survives does not occur in `Crossplay`.
* Where everybody is, in the round: movement, noclip, spread, recoil, what a bot
  sees and where it walks are choices.
* Positions of fingers are the areas they lie in; the amounts they turn the view
  by are left out. So are layout and styling of menus and HUD.
* Of the hosts, what is drawn in a frame, telemetry, autostart, bench and capture
  builds; of Vita and Symbian, the transports; of the desktop, the headless scripts
  and the arguments but `--bots` and `--auto-quit`.
* Shaders, matrices, colours and skies of the renderers. In `Gu` a face turns the
  way its first triangle does that has an area, as in the code; that a face bent by
  less than the code's tolerance may be left out by it is accepted there too.
* Traces are along an axis or a diagonal, in two dimensions and whole coordinates:
  planes oblique to the motion, and the rounding of floating-point numbers they
  bring, are not modelled. The unit is a twentieth of the epsilon, so that what lies
  inside an epsilon is told apart; a tick goes 3 epsilons (about 125 in the game), so
  that a tenth of a segment is less than one, and a trace may be backed up more than
  once before it gives up. A place backed up to is rounded to a whole one toward the
  start of its segment, by less than a unit, and is looked at where it is; the tenths
  themselves are exact, where the code subtracts 0.1 in floating point.
* Of the draw groups, the refusals to make any (too many runs, indices or
  groups, no memory): `Gu` draws a scene without groups as well.
* Colours of reduced pictures, the entities' sections, lumps and lightmaps.
* Of characters, coordinates, colours and texels themselves; a host that runs out of
  memory; the rounding of floating-point numbers, but for a frame rounded up to a
  whole one.

Components left out, with the reason in `PROJECT.json`: effects, muzzle,
presentation and energy (floating-point display state); the identity of maps (a
hash); the tables of mod packs beside the characters (parsers without state); build,
deployment and end-to-end scripts; the renderers of the desktop and the 3DS beyond
what `N3ds` uploads.

## 6. Plan

Done, in the order of what depends on what: authority and match; client, script and
transport; Companion; local round and clock; fight, bot and frame times; hosts;
touch, HUD and menus; maps, sight and movement; renderers; characters. Proved:
authority, crossplay end to end, Companion, local round, clock, fight, touch, HUD,
menus and frame times, all hosts, the reader of maps, characters. What is left:

1. *Input stream*: an abstract specification (inputs captured in order, executed
   in order, or discarded with a round or a session) that `Crossplay` implements;
   `InputsCorrect` has what its proof needs.
2. *Exchange liveness*: a client that is served, and whose host runs, is answered
   or gives up.
3. *Renderer of the 3DS*, and the desktop host's scripts (`scripts.rs`).
