-------------------------------- MODULE Vita --------------------------------
(***************************************************************************)
(* The Vita host: App of crates/openstrike-vita/src/app.rs, one lifetime   *)
(* of a guest and its world, and the loop of wired.rs that replaces guests *)
(* at the request of a developer over USB and restores the one before when *)
(* the new one does not reach the screen.                                  *)
(*                                                                         *)
(* One turn of the loop is Frame, Show and Poll. What the Vita itself and  *)
(* PocketJS do (reading the pad and the USB socket, the dev menu, whether  *)
(* a bundle evaluates, a file reads or a texture uploads) is free.         *)
(* Abstracted: autostart and the capture build, telemetry, the camera.     *)
(***************************************************************************)
EXTENDS Host

CONSTANT BUNDLES    \* guests that can be pushed; 0 is the embedded one

ASSUME VitaAssumption == BUNDLES \subseteq Nat \ {0}

VARIABLES
    pc,         \* the step of the loop that comes next
    active,     \* the bundle the next boot takes
    activeHash, \* dev.active_hash: the bundle the host says it runs
    running,    \* the bundle the running guest was made from
    candidate,  \* what to go back to while a replacement is on trial
    menuOpen,   \* dev.menu.visible
    owed,       \* history: requests received and not answered
    accepted    \* history: bundles that once reached the screen

vitaVars == <<pc, active, activeHash, running, candidate, menuOpen, owed, accepted>>
vars == <<hostVars, vitaVars>>

NoCandidate == [requested |-> FALSE, previous |-> -1, hash |-> -1]

-----------------------------------------------------------------------------
\* Another guest than the last one to run: the tags of its words differ.
NextGuest == IF guest = 1 \/ \E c \in Range(commands) : c.by = 1 THEN 2 ELSE 1

\* What a guest says while it is evaluated: rules.ts configures its mod.
SaysAtEval(g) == {<<Said(g, "weapon", m), Said(g, "bots", m)>> : m \in 1 .. MODS}

\* A new App, or the failure to make one: the queues are emptied before the
\* evaluation, and after one that failed.
Boots(queue, said) ==
    LET heard == Discarded(queue) \o said
        kept == RetainAll(<<>>, heard)
    IN  /\ guest' = NextGuest /\ running' = active'
        /\ commands' = <<>> /\ config' = kept
        /\ asked' = Replayed(NewSim, said)

BootFails ==
    /\ guest' = 0 /\ running' = -1
    /\ commands' = Discarded(commands) /\ config' = <<>>
    /\ asked' = NewSim

\* App::boot of the bundle that is active afterwards.
Boot(ok) == IF ok
            THEN \E said \in SaysAtEval(NextGuest) : Boots(Discarded(commands), said)
            ELSE BootFails

\* What App::shutdown leaves behind, and every new App begins with: the GPU
\* is waited for before the world is dropped.
NoApp ==
    /\ intents' = Discarded(intents) /\ pending' = NoIntent
    /\ reading' = {} /\ game' = NoWorld /\ want' = NoWorld
    /\ edge' = 0 /\ loading' = FALSE

\* stop with nothing after it.
Stay == NoApp /\ BootFails

\* recover: the guest is stopped and the dev menu opens. A candidate gives way
\* to what ran before it, and its request is answered with the error.
Recover(restored) ==
    /\ NoApp /\ menuOpen' = TRUE /\ candidate' = NoCandidate
    /\ IF candidate = NoCandidate
       THEN Stay /\ UNCHANGED <<active, activeHash, owed>>
       ELSE /\ active' = candidate.previous /\ activeHash' = candidate.hash
            /\ Boot(restored)
            /\ owed' = IF candidate.requested THEN owed - 1 ELSE owed
    /\ UNCHANGED accepted

-----------------------------------------------------------------------------
Init ==
    /\ pc = "frame" /\ candidate = NoCandidate /\ owed = 0
    /\ active = 0 /\ activeHash = 0 /\ accepted = {0}
    /\ commands = <<>> /\ intents = <<>> /\ pending = NoIntent
    /\ game = NoWorld /\ want = NoWorld /\ reading = {} /\ edge = 0 /\ loading = FALSE
    /\ \/ /\ guest = 0 /\ running = -1 /\ menuOpen = TRUE
          /\ config = <<>> /\ asked = NewSim
       \/ /\ guest = 1 /\ running = 0 /\ menuOpen = FALSE
          /\ \E said \in SaysAtEval(1) :
                config = RetainAll(<<>>, said) /\ asked = Replayed(NewSim, said)

\* The world after `due' ticks and a guest turn: its commands are applied, or
\* retained when there is no world. The last intent is kept for after_present.
Turn(said, meant) ==
    LET queue == commands \o said
    IN  /\ commands' = <<>> /\ intents' = <<>>
        /\ pending' = Newest(intents \o meant, pending)
        /\ IF game = NoWorld
           THEN config' = RetainAll(config, queue) /\ UNCHANGED game
           ELSE game' = Replayed(game, queue) /\ UNCHANGED config
        /\ asked' = AskedAfter(said) /\ want' = WantAfter(said)
        /\ loading' = LoadingAfter(meant)

\* A reload press waits for a tick of this world; the dev menu pauses it.
EdgeAfter(pressed, due) ==
    LET kept == IF pressed THEN (IF game = NoWorld THEN 3 ELSE game.serial) ELSE edge
    IN  IF menuOpen \/ (game # NoWorld /\ due) THEN 0 ELSE kept

\* App::frame, if there is a guest. It throws, or is over its time, on the
\* way; the menu may be opened or closed by the pad before it.
Frame ==
    /\ pc = "frame" /\ pc' = "show"
    /\ \/ /\ guest = 0 /\ menuOpen' \in BOOLEAN
          /\ UNCHANGED <<hostVars, active, activeHash, running, candidate, owed, accepted>>
       \/ /\ guest # 0 /\ menuOpen' \in BOOLEAN
          /\ \E said \in Says, meant \in Meant(FALSE), pressed, due \in BOOLEAN :
                Turn(said, meant) /\ edge' = EdgeAfter(pressed /\ ~menuOpen, due)
          /\ UNCHANGED <<guest, reading, active, activeHash, running, candidate, owed, accepted>>
       \/ guest # 0 /\ \E restored \in BOOLEAN : Recover(restored)

-----------------------------------------------------------------------------
\* What a frame refers to once it is submitted.
Submitted == IF game = NoWorld THEN {} ELSE {game.serial}

\* The GPU is waited for before the world and the buffer under it are touched.
Unload == reading' = {}

\* The pad and its pending press are new with the world.
FreshInput == edge' = 0

\* App::load: the map is read, a simulation made from it and configured.
Load(i) ==
    /\ i.map \in 1 .. MAPS /\ Unload
    /\ game' = [FromMap(config) EXCEPT !.mod = i.mod]
    /\ want' = AskedWorld(i.mod, FALSE)
    /\ FreshInput /\ loading' = FALSE

\* after_present, when what was pending is done without an error.
AfterPresent ==
    \/ /\ pending.kind = "none"
       /\ reading' = Submitted /\ UNCHANGED <<game, want, edge, loading>>
    \/ /\ pending.kind = "menu"
       /\ Unload /\ game' = NoWorld /\ want' = NoWorld /\ UNCHANGED <<edge, loading>>
    \/ pending.kind = "load" /\ Load(pending)

\* A guest that got through a whole turn is there to stay: the request that
\* brought it is answered.
Accept ==
    IF candidate = NoCandidate THEN UNCHANGED <<candidate, accepted, owed>>
    ELSE /\ candidate' = NoCandidate /\ accepted' = accepted \cup {active}
         /\ owed' = IF candidate.requested THEN owed - 1 ELSE owed

\* render and present, after_present, and the end of a trial. Without a guest
\* the screen is cleared. Rendering may fail after the frame was submitted
\* (GXM, a texture, the pool), and loading a map may fail.
Show ==
    /\ pc = "show" /\ pc' = "poll"
    /\ \/ guest = 0 /\ UNCHANGED <<hostVars, active, activeHash, running,
                                   candidate, menuOpen, owed, accepted>>
       \/ /\ guest # 0 /\ AfterPresent /\ pending' = NoIntent /\ Accept
          /\ UNCHANGED <<guest, commands, intents, config, asked>>
          /\ UNCHANGED <<active, activeHash, running, menuOpen>>
       \/ guest # 0 /\ \E restored \in BOOLEAN : Recover(restored)

-----------------------------------------------------------------------------
OthersKept == UNCHANGED <<hostVars, active, activeHash, running, candidate, accepted>>

\* Mutation: the name of the bundle is only noted once it is accepted.
HashKept(bundle) == UNCHANGED activeHash

\* The host says that it runs the bundle as soon as it is booted.
HashNoted(bundle) == activeHash' = bundle

\* Push, Reload and Reset put a guest on trial; one that does not boot is
\* dealt with as any error is.
Replace ==
    /\ pc = "poll"
    /\ \E bundle \in BUNDLES \cup {active, 0}, overUsb, ok \in BOOLEAN :
        /\ candidate' = [requested |-> overUsb, previous |-> active, hash |-> activeHash]
        /\ owed' = IF overUsb THEN owed + 1 ELSE owed
        /\ active' = bundle
        /\ NoApp /\ Boot(ok)
        /\ IF ok THEN pc' = "frame" /\ HashNoted(bundle)
                 ELSE pc' = "recover" /\ UNCHANGED activeHash
    /\ UNCHANGED <<menuOpen, accepted>>

Refuse ==
    /\ pc = "recover" /\ pc' = "frame"
    /\ \E restored \in BOOLEAN : Recover(restored)

\* A native module is run with no guest, and the same guest booted after it.
Native ==
    /\ pc = "poll" /\ pc' = "frame"
    /\ NoApp /\ UNCHANGED active
    /\ \E ok \in BOOLEAN : Boot(ok) /\ menuOpen' = (menuOpen \/ ~ok)
    /\ UNCHANGED <<activeHash, candidate, owed, accepted>>

\* No request, or one that is answered at once: Status, Capture and Menu.
Poll ==
    /\ pc = "poll" /\ pc' = "frame" /\ menuOpen' \in BOOLEAN
    /\ OthersKept /\ UNCHANGED owed

Next == Frame \/ Show \/ Replace \/ Refuse \/ Native \/ Poll

Spec == Init /\ [][Next]_vars

-----------------------------------------------------------------------------
TypeOK ==
    /\ HostTypeOK
    /\ pc \in {"frame", "show", "poll", "recover"}
    /\ active \in BUNDLES \cup {0} /\ activeHash \in BUNDLES \cup {0}
    /\ running \in BUNDLES \cup {0, -1} /\ (running = -1) = (guest = 0)
    /\ menuOpen \in BOOLEAN /\ owed \in 0 .. 1 /\ accepted \subseteq BUNDLES \cup {0}

\* Replacing a guest is all or nothing. A request is answered once, when the
\* guest it brought got through a turn or gave way to the one before, and not
\* after the next request; the host names the bundle that really runs; and a
\* bundle that was refused does not come back. (wired.rs, recover)
ReplacedWhole ==
    /\ owed = IF candidate.requested THEN 1 ELSE 0
    /\ pc = "poll" => candidate = NoCandidate
    /\ guest # 0 => running = active /\ activeHash = active
    /\ candidate = NoCandidate => active \in accepted

=============================================================================
