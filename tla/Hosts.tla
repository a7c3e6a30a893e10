-------------------------------- MODULE Hosts --------------------------------
(***************************************************************************)
(* All the hosts, one `part' each: the Vita (which this module extends),   *)
(* the PSP, the iPod, the Symbian, the 3DS and the desktop host. A         *)
(* behaviour is one of one part. What another part has of its own stays 0. *)
(*                                                                         *)
(* What is said of all hosts is stated here, and proved behind it.         *)
(***************************************************************************)
EXTENDS Vita, Iteration

CONSTANTS
    PSP_MODS,           \* packs the PSP can show
    MAX_LOG,            \* see Symbian
    TEXTURES, PIECES,   \* see N3ds
    BOTS, MAX_SAID      \* see Desktop

ASSUME HostsAssumption ==
    /\ PSP_MODS \in Nat \ {0} /\ MAX_LOG \in Nat
    /\ TEXTURES \in Nat \ {0} /\ PIECES \in Nat \ {0}
    /\ BOTS \subseteq Nat /\ MAX_SAID \in Nat

VARIABLES part, activeMod, paused, context, names, ticks, next, gpu, radar,
          uiTextures, job, touched, guestError, flying, bots

P == INSTANCE Psp WITH MODS <- PSP_MODS
I == INSTANCE IPod
S == INSTANCE Symbian
N == INSTANCE N3ds
D == INSTANCE Desktop WITH MODS <- 1

Parts == {"vita", "psp", "ipod", "symbian", "n3ds", "desktop"}

NoVita == active = 0 /\ activeHash = 0 /\ running = 0 /\ menuOpen = FALSE
          /\ candidate = NoCandidate /\ owed = 0 /\ accepted = {}
NoPsp == activeMod = 0
NoIPod == paused = FALSE /\ context = 0 /\ names = 0
NoSymbian == ticks = 0
NoDesktop == guestError = 0 /\ flying = 0 /\ bots = 0
NoN3ds == next = 0 /\ gpu = N!EmptyGpu /\ radar = 0 /\ uiTextures = {} /\ job = 0 /\ touched = 0

pspOwn == <<activeMod>>
ipodOwn == <<paused, context, names>>
symbianOwn == <<ticks>>
n3dsOwn == <<next, gpu, radar, uiTextures, job, touched>>
desktopOwn == <<guestError, flying, bots>>
vitaOwn == <<active, activeHash, running, candidate, menuOpen, owed, accepted>>

HostsInit ==
    /\ part \in Parts
    /\ IF part = "vita" THEN Init ELSE NoVita
    /\ IF part = "psp" THEN P!Init ELSE NoPsp
    /\ IF part = "ipod" THEN I!Init ELSE NoIPod
    /\ IF part = "symbian" THEN S!Init ELSE NoSymbian
    /\ IF part = "n3ds" THEN N!Init ELSE NoN3ds
    /\ IF part = "desktop" THEN D!Init ELSE NoDesktop

VitaNext == part = "vita" /\ Next
            /\ UNCHANGED <<part, pspOwn, ipodOwn, symbianOwn, n3dsOwn, desktopOwn>>
PspNext == part = "psp" /\ P!Next
           /\ UNCHANGED <<part, vitaOwn, ipodOwn, symbianOwn, n3dsOwn, desktopOwn>>
IPodNext == part = "ipod" /\ I!Next
            /\ UNCHANGED <<part, vitaOwn, pspOwn, symbianOwn, n3dsOwn, desktopOwn>>
SymbianNext == part = "symbian" /\ S!Next
               /\ UNCHANGED <<part, vitaOwn, pspOwn, ipodOwn, n3dsOwn, desktopOwn>>
N3dsNext == part = "n3ds" /\ N!Next
            /\ UNCHANGED <<part, vitaOwn, pspOwn, ipodOwn, symbianOwn, desktopOwn>>
DesktopNext == part = "desktop" /\ D!Next
               /\ UNCHANGED <<part, vitaOwn, pspOwn, ipodOwn, symbianOwn, n3dsOwn>>

HostsNext == VitaNext \/ PspNext \/ IPodNext \/ SymbianNext \/ N3dsNext \/ DesktopNext

allVars == <<vars, part, pspOwn, ipodOwn, symbianOwn, n3dsOwn, desktopOwn>>

\* Every host runs its loop for as long as the program runs.
HostsSpec == HostsInit /\ [][HostsNext]_allVars /\ WF_allVars(HostsNext)

-----------------------------------------------------------------------------
Types ==
    CASE part = "vita" -> TypeOK
      [] part = "psp" -> P!TypeOK
      [] part = "ipod" -> I!TypeOK
      [] part = "symbian" -> S!TypeOK
      [] part = "n3ds" -> N!TypeOK
      [] part = "desktop" -> D!TypeOK

\* A world is the one its guest configured (see Host), and where a room decides
\* it is the room's alone (see Desktop).
WorldAsAsked == ConfiguredAsAsked /\ (part = "desktop" => D!RoomDecides)

\* Graphics objects and the world they belong to come and go together: nothing
\* of a world that is gone is read, no name of a context that is gone is used,
\* the GPU holds what the world needs, and the mod that is shown is the one
\* that was loaded. (Every field keeps its shape, too.)
GraphicsMatchWorld ==
    /\ Types /\ OnlyLiveWorldsRead
    /\ part = "psp" => P!ModShown
    /\ part = "ipod" => I!NamesOfContext
    /\ part = "n3ds" => N!GpuMatchesGame

\* No press or touch made before a world was there, or while it was paused,
\* acts on the world that follows.
NoStalePress ==
    /\ PressesOfThisWorld
    /\ part = "ipod" => I!NothingWaitsPaused
    /\ part = "n3ds" => N!TouchesOfThisWorld

\* Replacing a guest over USB is all or nothing, see Vita.
PushedWhole == part = "vita" => ReplacedWhole

\* The menu does not wait for ever for a map: it is loaded, or the menu hears
\* of the error, or the host gives up. (The PSP and the Symbian host only log
\* it, or drop it.)
WaitEnds == (loading /\ part \in {"vita", "ipod", "n3ds"}) ~> ~loading

-----------------------------------------------------------------------------
(* Proofs. The inductive invariant: what all hosts keep, and beside it what *)
(* each keeps of its own.                                                   *)

\* The configured words of guest g, where mods packs can be shown.
WordsOf(mods, g) ==
    {Said(g, kind, m) : kind \in {"weapon", "bots"}, m \in 1 .. mods}
        \cup {Said(g, "count", n) : n \in COUNTS}
        \cup {Said(g, "reset", 0)}

\* The intents of guest g.
IntentsOf(mods, g) ==
    {i \in [by : {g}, kind : {"menu", "load"}, map : Nat, mod : Nat, net : BOOLEAN] :
        i.kind = "load" => i.mod \in 1 .. mods}

\* A simulation, as far as it is modelled.
Sim == [serial : 0 .. 2, mod : Nat, net : BOOLEAN,
        weapon : Nat, bots : Nat, count : Nat, roster : Nat]

\* Where no guest runs, nothing of one is left.
NobodyHere ==
    /\ commands = <<>> /\ config = <<>> /\ intents = <<>> /\ pending = NoIntent
    /\ game = NoWorld /\ want = NoWorld

\* What waits (cs) and what is retained (cf) is of guest g, and sets the next
\* world as it asked (as), or leads from the world there is (gm) to what it
\* wants of it (wt).
Configured(mods, g, cs, cf, gm, wt, as) ==
    /\ cs \in Seq(WordsOf(mods, g)) /\ cf \in Seq(WordsOf(mods, g))
    /\ gm \in Sim /\ wt \in Sim /\ as \in Sim /\ ~as.net
    /\ gm = NoWorld \/ gm.serial \in Serials
    /\ IF gm = NoWorld
       THEN Settings(Replayed(NewSim, cf \o cs)) = Settings(as)
       ELSE Replayed(gm, cs) = wt /\ Settings(Replayed(NewSim, cf)) = Settings(as)

HostInv(mods) ==
    /\ guest \in 0 .. 2 /\ (guest = 0 => NobodyHere)
    /\ Configured(mods, guest, commands, config, game, want, asked)
    /\ intents \in Seq(IntentsOf(mods, guest))
    /\ pending \in IntentsOf(mods, guest) \cup {NoIntent}
    /\ reading \subseteq Serials /\ OnlyLiveWorldsRead
    /\ edge \in 0 .. 3 /\ loading \in BOOLEAN
    /\ PressesOfThisWorld

VitaInv ==
    /\ HostInv(MODS) /\ commands = <<>> /\ intents = <<>>
    /\ pc \in {"frame", "show", "poll", "recover"}
    /\ active \in BUNDLES \cup {0} /\ activeHash \in BUNDLES \cup {0}
    /\ accepted \subseteq BUNDLES \cup {0} /\ menuOpen \in BOOLEAN
    /\ running \in BUNDLES \cup {0, -1} /\ (running = -1) = (guest = 0)
    /\ candidate \in [requested : BOOLEAN, previous : accepted, hash : accepted] \cup {NoCandidate}
    /\ candidate # NoCandidate => candidate.hash = candidate.previous
    /\ candidate # NoCandidate /\ guest = 0 => pc = "recover"
    /\ IF pc = "recover" THEN candidate # NoCandidate ELSE activeHash = active
    /\ ReplacedWhole

PspInv ==
    /\ HostInv(PSP_MODS) /\ commands = <<>> /\ guest = 1 /\ edge = 0
    /\ pc \in {"ticks", "present", "transition"}
    /\ activeMod \in 1 .. PSP_MODS /\ P!ModShown

IPodInv ==
    /\ HostInv(MODS) /\ pc \in {"off", "before", "after", "render", "failed"}
    /\ (pc = "off") = (guest = 0) /\ reading = {}
    /\ paused \in BOOLEAN /\ context \in 1 .. 2
    /\ I!NamesOfContext /\ I!NothingWaitsPaused

SymbianInv ==
    /\ HostInv(MODS) /\ pc \in {"off", "before", "after", "render", "failed"}
    /\ (pc = "off") = (guest = 0) /\ edge = 0 /\ reading = {}
    /\ pc = "render" => commands = <<>>
    /\ ticks \in 1 .. S!TICKS_PER_HOST_FRAME

N3dsInv ==
    /\ HostInv(MODS)
    /\ pc \in {"off", "tick", "after", "prepare", "upload", "render", "failed"}
    /\ (pc = "off") = (guest = 0) /\ reading = {}
    /\ pc \in {"prepare", "upload"} => commands = <<>>
    /\ pc = "upload" => game # NoWorld
    /\ next \in 0 .. TEXTURES /\ job \in 0 .. PIECES
    /\ gpu \in [world : BOOLEAN, chars : BOOLEAN, uploaded : 0 .. TEXTURES]
    /\ radar \in {0} \cup N!UiHandles /\ (game # NoWorld => radar # 0)
    /\ touched \in 0 .. 3
    /\ N!GpuMatchesGame /\ N!TouchesOfThisWorld

DesktopInv ==
    /\ HostInv(1) /\ game # NoWorld /\ guest = 1 /\ reading = {}
    /\ pc \in {"tick", "closed"} /\ guestError \in BOOLEAN /\ flying \in BOOLEAN
    /\ D!RoomDecides

HostsInv ==
    /\ part \in Parts
    /\ part = "vita" => VitaInv
    /\ part = "psp" => PspInv
    /\ part = "ipod" => IPodInv
    /\ part = "symbian" => SymbianInv
    /\ part = "n3ds" => N3dsInv
    /\ part = "desktop" => DesktopInv

-----------------------------------------------------------------------------
(* What a queue of words does.                                              *)

Word == [by : 0 .. 2, kind : Kinds, value : Nat]

\* The words of a guest are words.
LEMMA WordsAreWords ==
    ASSUME NEW mods \in Nat, NEW g \in 0 .. 2
    PROVE  WordsOf(mods, g) \subseteq Word /\ \A c \in WordsOf(mods, g) : c.by = g
BY HostAssumption DEF WordsOf, Word, Said, Kinds

\* Where two simulations are set alike.
Alike(s, t) == s.weapon = t.weapon /\ s.bots = t.bots /\ s.count = t.count

\* It is the same to have the same settings.
LEMMA SettingsAlike == \A s, t : Settings(s) = Settings(t) <=> Alike(s, t)
<1> SUFFICES ASSUME NEW s, NEW t PROVE Settings(s) = Settings(t) <=> Alike(s, t)
  OBVIOUS
<1>1. ASSUME Settings(s) = Settings(t) PROVE Alike(s, t)
  <2>1. Settings(s).weapon = s.weapon /\ Settings(s).bots = s.bots /\ Settings(s).count = s.count
    BY DEF Settings
  <2>2. Settings(t).weapon = t.weapon /\ Settings(t).bots = t.bots /\ Settings(t).count = t.count
    BY DEF Settings
  <2> QED BY <1>1, <2>1, <2>2 DEF Alike
<1>2. ASSUME Alike(s, t) PROVE Settings(s) = Settings(t)
  BY <1>2 DEF Settings, Alike
<1> QED BY <1>1, <1>2

\* One command: a simulation stays one, of the same world, and is set by what the
\* command says, but where the room decides.
LEMMA AppliedSets ==
    ASSUME NEW s \in Sim, NEW c \in Word
    PROVE  /\ Applied(s, c) \in Sim
           /\ Applied(s, c).serial = s.serial /\ Applied(s, c).mod = s.mod
           /\ Applied(s, c).net = s.net
           /\ s.net => Applied(s, c) = s
           /\ ~s.net =>
                /\ Applied(s, c).weapon = IF c.kind = "weapon" THEN c.value ELSE s.weapon
                /\ Applied(s, c).bots = IF c.kind = "bots" THEN c.value ELSE s.bots
                /\ Applied(s, c).count = IF c.kind \in {"bots", "count"} THEN c.value ELSE s.count
<1>1. c.kind \in {"weapon", "bots", "count", "reset"} /\ c.value \in Nat
  BY DEF Word, Kinds
<1>2. CASE s.net
  BY <1>2 DEF Applied
<1>3. CASE ~s.net /\ c.kind = "weapon"
  <2>1. Applied(s, c) = [s EXCEPT !.weapon = c.value]
    BY <1>3 DEF Applied
  <2> QED BY <1>1, <1>3, <2>1 DEF Sim
<1>4. CASE ~s.net /\ c.kind = "bots"
  <2>1. Applied(s, c) = [s EXCEPT !.bots = c.value, !.count = c.value]
    BY <1>4 DEF Applied
  <2> QED BY <1>1, <1>4, <2>1 DEF Sim
<1>5. CASE ~s.net /\ c.kind = "count"
  <2>1. Applied(s, c) = [s EXCEPT !.count = c.value]
    BY <1>5 DEF Applied
  <2> QED BY <1>1, <1>5, <2>1 DEF Sim
<1>6. CASE ~s.net /\ c.kind = "reset"
  <2>1. Applied(s, c) = [s EXCEPT !.roster = s.count]
    BY <1>6 DEF Applied
  <2> QED BY <1>1, <1>6, <2>1 DEF Sim
<1> QED BY <1>1, <1>2, <1>3, <1>4, <1>5, <1>6

\* Replayed goes through a sequence of simulations.
LEMMA ReplayedRuns ==
    ASSUME NEW s \in Sim, NEW q \in Seq(Word)
    PROVE  \E f \in [0 .. Len(q) -> Sim] :
             /\ f[0] = s /\ \A n \in 1 .. Len(q) : f[n] = Applied(f[n - 1], q[n])
             /\ Replayed(s, q) = f[Len(q)]
<1> DEFINE turns == Len(q)
           after == CHOOSE f : f = [n \in 0 .. turns |-> IF n = 0 THEN s ELSE Applied(f[n - 1], q[n])]
           step == [x \in (1 .. turns) \X Sim |-> Applied(x[2], q[x[1]])]
<1>1. turns \in Nat
  OBVIOUS
<1>2. step \in [(1 .. turns) \X Sim -> Sim]
  <2>1. \A x \in (1 .. turns) \X Sim : q[x[1]] \in Word /\ x[2] \in Sim
    OBVIOUS
  <2> HIDE DEF turns
  <2> QED BY <2>1, AppliedSets
<1>3. PICK f \in [0 .. turns -> Sim] : IsLoop(f, turns, s, step)
  <2> HIDE DEF turns, step, after
  <2> QED BY <1>1, <1>2, LoopThrough
<1>4. f = [n \in 0 .. turns |-> IF n = 0 THEN s ELSE Applied(f[n - 1], q[n])]
  <2>1. ASSUME NEW n \in 0 .. turns, n # 0
        PROVE  step[<<n, f[n - 1]>>] = Applied(f[n - 1], q[n])
    <3> HIDE DEF turns
    <3>1. n \in 1 .. turns /\ f[n - 1] \in Sim
      BY <1>1, <1>3, <2>1
    <3> QED BY <3>1
  <2> HIDE DEF step, turns
  <2> QED BY <1>3, <2>1 DEF IsLoop
<1>5. after = [n \in 0 .. turns |-> IF n = 0 THEN s ELSE Applied(after[n - 1], q[n])]
  BY <1>4
<1>6. Replayed(s, q) = after[turns]
  BY DEF Replayed
<1> HIDE DEF after, step
<1>7. after[0] = f[0] /\ \A n \in 1 .. turns : after[n - 1] = f[n - 1] => after[n] = f[n]
  <2> HIDE DEF turns
  <2>1. \A n \in 1 .. turns : after[n] = Applied(after[n - 1], q[n]) /\ f[n] = Applied(f[n - 1], q[n])
    BY <1>1, <1>4, <1>5
  <2>2. after[0] = s /\ f[0] = s
    BY <1>1, <1>4, <1>5
  <2> QED BY <2>1, <2>2
<1>8. \A n \in 0 .. turns : after[n] = f[n]
  <2> HIDE DEF turns
  <2> QED BY <1>1, <1>7, TurnsAgree, ZenonT(60)
<1>9. f[0] = s /\ \A n \in 1 .. turns : f[n] = Applied(f[n - 1], q[n])
  <2> HIDE DEF turns
  <2> QED BY <1>1, <1>4
<1>10. Replayed(s, q) = f[turns]
  BY <1>6, <1>8
<1> QED BY <1>9, <1>10

\* Nothing said, nothing done.
LEMMA ReplayedNone == ASSUME NEW s \in Sim PROVE Replayed(s, <<>>) = s
<1>1. PICK q \in Seq(Word) : q = <<>> /\ Len(q) = 0
  <2>1. <<>> \in Seq(Word) /\ Len(<<>>) = 0
    OBVIOUS
  <2> QED BY <2>1
<1>2. PICK f : f[0] = s /\ Replayed(s, q) = f[Len(q)]
  BY ReplayedRuns
<1> QED BY <1>1, <1>2

\* One word more.
LEMMA ReplayedMore ==
    ASSUME NEW s \in Sim, NEW q \in Seq(Word), NEW c \in Word
    PROVE  /\ Replayed(s, q) \in Sim
           /\ Replayed(s, Append(q, c)) = Applied(Replayed(s, q), c)
<1>1. PICK m \in Nat : m = Len(q)
  OBVIOUS
<1>2. PICK r \in Seq(Word) : /\ r = Append(q, c) /\ Len(r) = m + 1 /\ r[m + 1] = c
                             /\ \A n \in 1 .. m : r[n] = q[n]
  <2>1. Append(q, c) \in Seq(Word) /\ Len(Append(q, c)) = m + 1 /\ Append(q, c)[m + 1] = c
    BY <1>1
  <2>2. \A n \in 1 .. m : Append(q, c)[n] = q[n]
    BY <1>1
  <2> QED BY <2>1, <2>2
<1>3. PICK f :
        /\ \A n \in 0 .. m : f[n] \in Sim
        /\ f[0] = s /\ \A n \in 1 .. m : f[n] = Applied(f[n - 1], q[n])
        /\ Replayed(s, q) = f[m]
  <2>1. \E f \in [0 .. Len(q) -> Sim] :
          /\ f[0] = s /\ \A n \in 1 .. Len(q) : f[n] = Applied(f[n - 1], q[n])
          /\ Replayed(s, q) = f[Len(q)]
    BY ReplayedRuns
  <2> QED BY <1>1, <2>1
<1>4. PICK g :
        /\ g[0] = s /\ \A n \in 1 .. m + 1 : g[n] = Applied(g[n - 1], r[n])
        /\ Replayed(s, r) = g[m + 1]
  <2>1. \E g \in [0 .. Len(r) -> Sim] :
          /\ g[0] = s /\ \A n \in 1 .. Len(r) : g[n] = Applied(g[n - 1], r[n])
          /\ Replayed(s, r) = g[Len(r)]
    BY ReplayedRuns
  <2> QED BY <1>2, <2>1
<1>5. \A n \in 1 .. m : f[n - 1] = g[n - 1] => f[n] = g[n]
  BY <1>2, <1>3, <1>4
<1>6. \A n \in 0 .. m : f[n] = g[n]
  <2>1. f[0] = g[0]
    BY <1>3, <1>4
  <2>2. m \in Nat
    OBVIOUS
  <2> QED BY <1>5, <2>1, <2>2, TurnsAgree, ZenonT(60)
<1>7. g[m + 1] = Applied(g[m], r[m + 1])
  <2>1. m + 1 \in 1 .. m + 1 /\ (m + 1) - 1 = m
    OBVIOUS
  <2> QED BY <1>4, <2>1
<1>8. m \in 0 .. m
  OBVIOUS
<1> QED BY <1>2, <1>3, <1>4, <1>6, <1>7, <1>8

\* What is said to a simulation leaves it the same one, and leaves it alone where
\* the room decides.
LEMMA ReplayedKeeps ==
    ASSUME NEW s \in Sim, NEW q \in Seq(Word)
    PROVE  /\ Replayed(s, q) \in Sim
           /\ Replayed(s, q).serial = s.serial /\ Replayed(s, q).mod = s.mod
           /\ Replayed(s, q).net = s.net
           /\ s.net => Replayed(s, q) = s
<1> DEFINE Keeps(r) == /\ r \in Sim
                       /\ r.serial = s.serial /\ r.mod = s.mod /\ r.net = s.net
                       /\ s.net => r = s
           Good == {r \in Seq(Word) : Keeps(Replayed(s, r))}
<1>1. <<>> \in Good
  BY ReplayedNone
<1>2. ASSUME NEW r \in Seq(Word), NEW c \in Word, r \in Good
      PROVE  Append(r, c) \in Good
  <2>1. PICK t \in Sim : t = Replayed(s, r) /\ Keeps(t)
    BY <1>2
  <2>2. Replayed(s, Append(r, c)) = Applied(t, c) /\ Append(r, c) \in Seq(Word)
    BY <2>1, ReplayedMore
  <2>3. Keeps(Applied(t, c))
    BY <2>1, AppliedSets
  <2> HIDE DEF Keeps
  <2> QED BY <2>2, <2>3
<1> HIDE DEF Good
<1>3. q \in Good
  BY <1>1, <1>2, SequenceInduction
<1> QED BY <1>3 DEF Good

\* First the one, then the other.
LEMMA ReplayedJoined ==
    ASSUME NEW s \in Sim, NEW p \in Seq(Word), NEW q \in Seq(Word)
    PROVE  Replayed(s, p \o q) = Replayed(Replayed(s, p), q)
<1> DEFINE Good == {r \in Seq(Word) : Replayed(s, p \o r) = Replayed(Replayed(s, p), r)}
<1>1. <<>> \in Good
  <2>1. p \o <<>> = p
    OBVIOUS
  <2>2. Replayed(Replayed(s, p), <<>>) = Replayed(s, p)
    BY ReplayedKeeps, ReplayedNone
  <2> QED BY <2>1, <2>2
<1>2. ASSUME NEW r \in Seq(Word), NEW c \in Word, r \in Good
      PROVE  Append(r, c) \in Good
  <2>1. p \o Append(r, c) = Append(p \o r, c) /\ p \o r \in Seq(Word) /\ Append(r, c) \in Seq(Word)
    OBVIOUS
  <2>2. Replayed(s, Append(p \o r, c)) = Applied(Replayed(s, p \o r), c)
    BY <2>1, ReplayedMore
  <2>3. Replayed(Replayed(s, p), Append(r, c)) = Applied(Replayed(Replayed(s, p), r), c)
    BY ReplayedKeeps, ReplayedMore
  <2> QED BY <1>2, <2>1, <2>2, <2>3
<1> HIDE DEF Good
<1>3. q \in Good
  BY <1>1, <1>2, SequenceInduction
<1> QED BY <1>3 DEF Good

\* Simulations that are set alike stay so, when they hear the same.
LEMMA AlikeStayAlike ==
    ASSUME NEW s \in Sim, NEW t \in Sim, ~s.net, ~t.net, Alike(s, t), NEW q \in Seq(Word)
    PROVE  Alike(Replayed(s, q), Replayed(t, q))
<1> DEFINE Good == {r \in Seq(Word) : Alike(Replayed(s, r), Replayed(t, r))}
<1>1. <<>> \in Good
  BY ReplayedNone
<1>2. ASSUME NEW r \in Seq(Word), NEW c \in Word, r \in Good
      PROVE  Append(r, c) \in Good
  <2>0. Alike(Replayed(s, r), Replayed(t, r))
    BY <1>2
  <2> HIDE DEF Good
  <2>1. PICK u \in Sim : u = Replayed(s, r) /\ ~u.net
    BY ReplayedKeeps
  <2>2. PICK v \in Sim : v = Replayed(t, r) /\ ~v.net
    BY ReplayedKeeps
  <2>3. Alike(u, v)
    BY <2>0, <2>1, <2>2
  <2>4. Alike(Applied(u, c), Applied(v, c))
    <3>1. /\ Applied(u, c).weapon = IF c.kind = "weapon" THEN c.value ELSE u.weapon
          /\ Applied(u, c).bots = IF c.kind = "bots" THEN c.value ELSE u.bots
          /\ Applied(u, c).count = IF c.kind \in {"bots", "count"} THEN c.value ELSE u.count
      BY <2>1, AppliedSets
    <3>2. /\ Applied(v, c).weapon = IF c.kind = "weapon" THEN c.value ELSE v.weapon
          /\ Applied(v, c).bots = IF c.kind = "bots" THEN c.value ELSE v.bots
          /\ Applied(v, c).count = IF c.kind \in {"bots", "count"} THEN c.value ELSE v.count
      BY <2>2, AppliedSets
    <3> QED BY <2>3, <3>1, <3>2 DEF Alike
  <2>5. Replayed(s, Append(r, c)) = Applied(u, c) /\ Replayed(t, Append(r, c)) = Applied(v, c)
    BY <2>1, <2>2, ReplayedMore
  <2>6. Append(r, c) \in Seq(Word)
    OBVIOUS
  <2> QED BY <2>4, <2>5, <2>6 DEF Good
<1> HIDE DEF Good
<1>3. q \in Good
  BY <1>1, <1>2, SequenceInduction
<1> QED BY <1>3 DEF Good

-----------------------------------------------------------------------------
(* What is retained of it.                                                  *)

\* What a turn of Without makes of what it kept.
WithoutTurn(s, c, kind) == IF c.kind = kind THEN s ELSE Append(s, c)

\* Without goes through a sequence of sequences.
LEMMA WithoutRuns ==
    ASSUME NEW W \in SUBSET Word, NEW k \in Seq(W), NEW kind
    PROVE  \E f \in [0 .. Len(k) -> Seq(W)] :
             /\ f[0] = <<>>
             /\ \A n \in 1 .. Len(k) : f[n] = WithoutTurn(f[n - 1], k[n], kind)
             /\ Without(k, kind) = f[Len(k)]
<1> DEFINE turns == Len(k)
           Turn0(n, s) == WithoutTurn(s, k[n], kind)
           after == CHOOSE f : f = [n \in 0 .. turns |-> IF n = 0 THEN <<>>
                                       ELSE IF k[n].kind = kind THEN f[n - 1]
                                       ELSE Append(f[n - 1], k[n])]
           step == [x \in (1 .. turns) \X Seq(W) |-> Turn0(x[1], x[2])]
<1>0. after = CHOOSE f : f = [n \in 0 .. turns |-> IF n = 0 THEN <<>> ELSE Turn0(n, f[n - 1])]
  BY DEF WithoutTurn
<1>1. turns \in Nat /\ <<>> \in Seq(W)
  OBVIOUS
<1>2. step \in [(1 .. turns) \X Seq(W) -> Seq(W)]
  BY DEF WithoutTurn
<1>6. Without(k, kind) = after[turns]
  BY DEF Without
<1> HIDE DEF after
<1>3. PICK f \in [0 .. turns -> Seq(W)] : IsLoop(f, turns, <<>>, step)
  <2> HIDE DEF turns, step
  <2> QED BY <1>1, <1>2, LoopThrough
<1> HIDE DEF Turn0
<1>4. f = [n \in 0 .. turns |-> IF n = 0 THEN <<>> ELSE Turn0(n, f[n - 1])]
  <2>1. ASSUME NEW n \in 0 .. turns, n # 0
        PROVE  step[<<n, f[n - 1]>>] = Turn0(n, f[n - 1])
    <3> HIDE DEF turns
    <3>1. n \in 1 .. turns /\ f[n - 1] \in Seq(W)
      BY <1>1, <1>3, <2>1
    <3> QED BY <3>1
  <2> HIDE DEF step, turns
  <2> QED BY <1>3, <2>1 DEF IsLoop
<1>5. after = [n \in 0 .. turns |-> IF n = 0 THEN <<>> ELSE Turn0(n, after[n - 1])]
  BY <1>0, <1>4
<1> HIDE DEF step
<1>7. after[0] = f[0] /\ \A n \in 1 .. turns : after[n - 1] = f[n - 1] => after[n] = f[n]
  <2> HIDE DEF turns
  <2>1. \A n \in 1 .. turns : after[n] = Turn0(n, after[n - 1]) /\ f[n] = Turn0(n, f[n - 1])
    BY <1>1, <1>4, <1>5
  <2>2. after[0] = <<>> /\ f[0] = <<>>
    BY <1>1, <1>4, <1>5
  <2> QED BY <2>1, <2>2
<1>8. \A n \in 0 .. turns : after[n] = f[n]
  <2> HIDE DEF turns
  <2> QED BY <1>1, <1>7, TurnsAgree, ZenonT(60)
<1>9. f[0] = <<>> /\ \A n \in 1 .. turns : f[n] = Turn0(n, f[n - 1])
  <2> HIDE DEF turns
  <2> QED BY <1>1, <1>4
<1>10. Without(k, kind) = f[turns]
  BY <1>6, <1>8
<1> QED BY <1>9, <1>10 DEF Turn0

\* Of one element more.
LEMMA WithoutMore ==
    ASSUME NEW W \in SUBSET Word, NEW k \in Seq(W), NEW c \in W, NEW kind
    PROVE  /\ Without(<<>>, kind) = <<>>
           /\ Without(k, kind) \in Seq(W)
           /\ Without(Append(k, c), kind) =
                IF c.kind = kind THEN Without(k, kind) ELSE Append(Without(k, kind), c)
<1>0. Without(<<>>, kind) = <<>>
  <2>1. PICK e \in Seq(W) : e = <<>> /\ Len(e) = 0
    <3>1. <<>> \in Seq(W) /\ Len(<<>>) = 0
      OBVIOUS
    <3> QED BY <3>1
  <2>2. PICK f : f[0] = <<>> /\ Without(e, kind) = f[Len(e)]
    BY WithoutRuns
  <2> QED BY <2>1, <2>2
<1>9. \A e \in Seq(W) :
        \E g \in [0 .. Len(e) -> Seq(W)] :
          /\ g[0] = <<>>
          /\ \A n \in 1 .. Len(e) : g[n] = WithoutTurn(g[n - 1], e[n], kind)
          /\ Without(e, kind) = g[Len(e)]
  BY WithoutRuns, ZenonT(60)
<1>1. PICK m : m = Len(k) /\ m \in Nat
  OBVIOUS
<1>2. PICK r \in Seq(W) : /\ r = Append(k, c) /\ Len(r) = m + 1 /\ r[m + 1] = c
                          /\ \A n \in 1 .. m : r[n] = k[n]
  <2>1. Append(k, c) \in Seq(W) /\ Len(Append(k, c)) = m + 1 /\ Append(k, c)[m + 1] = c
    BY <1>1
  <2>2. \A n \in 1 .. m : Append(k, c)[n] = k[n]
    BY <1>1
  <2> QED BY <2>1, <2>2
<1>3. PICK f :
        /\ \A n \in 0 .. m : f[n] \in Seq(W)
        /\ f[0] = <<>>
        /\ \A n \in 1 .. m : f[n] = WithoutTurn(f[n - 1], k[n], kind)
        /\ Without(k, kind) = f[m]
  <2>1. \E f \in [0 .. Len(k) -> Seq(W)] :
          /\ f[0] = <<>>
          /\ \A n \in 1 .. Len(k) : f[n] = WithoutTurn(f[n - 1], k[n], kind)
          /\ Without(k, kind) = f[Len(k)]
    BY <1>9
  <2> QED BY <1>1, <2>1
<1>4. PICK g :
        /\ g[0] = <<>>
        /\ \A n \in 1 .. m + 1 : g[n] = WithoutTurn(g[n - 1], r[n], kind)
        /\ Without(r, kind) = g[m + 1]
  <2>1. \E g \in [0 .. Len(r) -> Seq(W)] :
          /\ g[0] = <<>>
          /\ \A n \in 1 .. Len(r) : g[n] = WithoutTurn(g[n - 1], r[n], kind)
          /\ Without(r, kind) = g[Len(r)]
    BY <1>2, <1>9
  <2> QED BY <1>2, <2>1
<1>5. \A n \in 1 .. m : f[n - 1] = g[n - 1] => f[n] = g[n]
  BY <1>1, <1>2, <1>3, <1>4
<1>6. \A n \in 0 .. m : f[n] = g[n]
  <2>1. f[0] = g[0]
    BY <1>3, <1>4
  <2>2. m \in Nat
    BY <1>1
  <2> QED BY <1>5, <2>1, <2>2, TurnsAgree, ZenonT(60)
<1>7. g[m + 1] = WithoutTurn(g[m], c, kind)
  <2>1. m + 1 \in 1 .. m + 1 /\ (m + 1) - 1 = m
    BY <1>1
  <2> QED BY <1>2, <1>4, <2>1
<1>8. m \in 0 .. m
  BY <1>1
<1> QED BY <1>0, <1>2, <1>3, <1>4, <1>6, <1>7, <1>8 DEF WithoutTurn

\* Where simulations are set alike but for what a command of the kind sets.
AlikeBut(kind, s, t) ==
    /\ kind # "weapon" => s.weapon = t.weapon
    /\ kind # "bots" => s.bots = t.bots
    /\ kind \notin {"bots", "count"} => s.count = t.count

\* What is left out of a kind is all that differs, and a command of the kind makes
\* up for it.
LEMMA WithoutAlike ==
    ASSUME NEW s \in Sim, ~s.net, NEW W \in SUBSET Word, NEW k \in Seq(W),
           NEW kind \in Kinds \ {"reset"}
    PROVE  AlikeBut(kind, Replayed(s, Without(k, kind)), Replayed(s, k))
<1> DEFINE Good == {r \in Seq(W) : AlikeBut(kind, Replayed(s, Without(r, kind)), Replayed(s, r))}
<1>0. W \subseteq Word /\ Seq(W) \subseteq Seq(Word)
  OBVIOUS
<1>1. <<>> \in Good
  <2>1. CASE W = {}
    <3>1. k = <<>> /\ Without(k, kind) = <<>>
      <4>1. k = <<>>
        BY <2>1
      <4>2. PICK f : f[0] = <<>> /\ Without(k, kind) = f[Len(k)]
        BY WithoutRuns
      <4> QED BY <4>1, <4>2
    <3> QED BY <3>1 DEF AlikeBut
  <2>2. CASE W # {}
    <3>1. PICK c \in W : TRUE
      BY <2>2
    <3>2. Without(<<>>, kind) = <<>>
      BY <3>1, WithoutMore
    <3> QED BY <3>2 DEF AlikeBut
  <2> QED BY <2>1, <2>2
<1>2. ASSUME NEW r \in Seq(W), NEW c \in W, r \in Good
      PROVE  Append(r, c) \in Good
  <2>0. AlikeBut(kind, Replayed(s, Without(r, kind)), Replayed(s, r))
    BY <1>2
  <2> HIDE DEF Good
  <2>1. PICK w \in Seq(W) : w = Without(r, kind)
    BY WithoutMore
  <2>2. PICK u \in Sim : u = Replayed(s, r) /\ ~u.net
    BY <1>0, ReplayedKeeps
  <2>3. PICK v \in Sim : v = Replayed(s, w) /\ ~v.net
    BY <1>0, ReplayedKeeps
  <2>4. AlikeBut(kind, v, u)
    BY <2>0, <2>1, <2>2, <2>3
  <2>5. Replayed(s, Append(r, c)) = Applied(u, c) /\ Append(r, c) \in Seq(W)
    BY <1>0, <2>2, ReplayedMore
  <2>6. /\ Applied(u, c).weapon = IF c.kind = "weapon" THEN c.value ELSE u.weapon
        /\ Applied(u, c).bots = IF c.kind = "bots" THEN c.value ELSE u.bots
        /\ Applied(u, c).count = IF c.kind \in {"bots", "count"} THEN c.value ELSE u.count
    BY <1>0, <2>2, AppliedSets
  <2>7. CASE c.kind = kind
    <3>1. Without(Append(r, c), kind) = w
      BY <2>1, <2>7, WithoutMore
    <3>2. AlikeBut(kind, v, Applied(u, c))
      BY <2>4, <2>6, <2>7 DEF AlikeBut
    <3> QED BY <2>3, <2>5, <3>1, <3>2 DEF Good
  <2>8. CASE c.kind # kind
    <3>1. Without(Append(r, c), kind) = Append(w, c)
      BY <2>1, <2>8, WithoutMore
    <3>2. Replayed(s, Append(w, c)) = Applied(v, c)
      BY <1>0, <2>3, ReplayedMore
    <3>3. /\ Applied(v, c).weapon = IF c.kind = "weapon" THEN c.value ELSE v.weapon
          /\ Applied(v, c).bots = IF c.kind = "bots" THEN c.value ELSE v.bots
          /\ Applied(v, c).count = IF c.kind \in {"bots", "count"} THEN c.value ELSE v.count
      BY <1>0, <2>3, AppliedSets
    <3>4. AlikeBut(kind, Applied(v, c), Applied(u, c))
      BY <2>4, <2>6, <3>3 DEF AlikeBut
    <3> QED BY <2>5, <3>1, <3>2, <3>4 DEF Good
  <2> QED BY <2>7, <2>8
<1> HIDE DEF Good
<1>3. k \in Good
  BY <1>1, <1>2, SequenceInduction
<1> QED BY <1>3 DEF Good

\* To retain a command sets a simulation as to append it does.
LEMMA RetainAlike ==
    ASSUME NEW s \in Sim, ~s.net, NEW W \in SUBSET Word, NEW k \in Seq(W), NEW c \in W
    PROVE  /\ Retain(k, c) \in Seq(W)
           /\ Alike(Replayed(s, Retain(k, c)), Replayed(s, Append(k, c)))
<1>0. W \subseteq Word /\ Seq(W) \subseteq Seq(Word)
  OBVIOUS
<1>2. PICK u \in Sim : u = Replayed(s, k) /\ ~u.net
  BY <1>0, ReplayedKeeps
<1>5. Replayed(s, Append(k, c)) = Applied(u, c)
  BY <1>0, <1>2, ReplayedMore
<1>6. /\ Applied(u, c).weapon = IF c.kind = "weapon" THEN c.value ELSE u.weapon
      /\ Applied(u, c).bots = IF c.kind = "bots" THEN c.value ELSE u.bots
      /\ Applied(u, c).count = IF c.kind \in {"bots", "count"} THEN c.value ELSE u.count
  BY <1>0, <1>2, AppliedSets
<1>7. CASE ~IsSetting(c)
  <2>1. c.kind = "reset" /\ Retain(k, c) = k
    BY <1>0, <1>7 DEF IsSetting, Retain, Word
  <2> QED BY <1>2, <1>5, <1>6, <2>1 DEF Alike
<1>8. CASE IsSetting(c)
  <2>0. PICK kind \in Kinds \ {"reset"} : kind = c.kind
    BY <1>8 DEF IsSetting
  <2>1. PICK w \in Seq(W) : w = Without(k, kind)
    BY WithoutMore
  <2>2. Retain(k, c) = Append(w, c) /\ Append(w, c) \in Seq(W)
    BY <1>8, <2>0, <2>1 DEF Retain
  <2>3. PICK v \in Sim : v = Replayed(s, w) /\ ~v.net
    BY <1>0, ReplayedKeeps
  <2>4. AlikeBut(kind, v, u)
    BY <1>2, <2>1, <2>3, WithoutAlike
  <2>5. Replayed(s, Append(w, c)) = Applied(v, c)
    BY <1>0, <2>3, ReplayedMore
  <2>6. /\ Applied(v, c).weapon = IF c.kind = "weapon" THEN c.value ELSE v.weapon
        /\ Applied(v, c).bots = IF c.kind = "bots" THEN c.value ELSE v.bots
        /\ Applied(v, c).count = IF c.kind \in {"bots", "count"} THEN c.value ELSE v.count
    BY <1>0, <2>3, AppliedSets
  <2>7. Alike(Applied(v, c), Applied(u, c))
    BY <1>6, <2>0, <2>4, <2>6 DEF Alike, AlikeBut, Kinds
  <2> QED BY <1>5, <2>2, <2>5, <2>7
<1> QED BY <1>7, <1>8

\* RetainAll goes through a sequence of sequences.
LEMMA RetainAllRuns ==
    ASSUME NEW W \in SUBSET Word, NEW k \in Seq(W), NEW q \in Seq(W)
    PROVE  \E f \in [0 .. Len(q) -> Seq(W)] :
             /\ f[0] = k /\ \A n \in 1 .. Len(q) : f[n] = Retain(f[n - 1], q[n])
             /\ RetainAll(k, q) = f[Len(q)]
<1> DEFINE turns == Len(q)
           after == CHOOSE f : f = [n \in 0 .. turns |-> IF n = 0 THEN k ELSE Retain(f[n - 1], q[n])]
           step == [x \in (1 .. turns) \X Seq(W) |-> Retain(x[2], q[x[1]])]
<1>1. turns \in Nat
  OBVIOUS
<1>2. step \in [(1 .. turns) \X Seq(W) -> Seq(W)]
  <2>1. \A x \in (1 .. turns) \X Seq(W) : q[x[1]] \in W /\ x[2] \in Seq(W)
    OBVIOUS
  <2>2. \A u \in Seq(W), c \in W : Retain(u, c) \in Seq(W)
    <3>1. PICK s \in Sim : ~s.net
      <4>1. NewSim \in Sim /\ ~NewSim.net
        BY DEF NewSim, Sim
      <4> QED BY <4>1
    <3> QED BY <3>1, RetainAlike
  <2> HIDE DEF turns
  <2> QED BY <2>1, <2>2
<1>3. PICK f \in [0 .. turns -> Seq(W)] : IsLoop(f, turns, k, step)
  <2> HIDE DEF turns, step, after
  <2> QED BY <1>1, <1>2, LoopThrough
<1>4. f = [n \in 0 .. turns |-> IF n = 0 THEN k ELSE Retain(f[n - 1], q[n])]
  <2>1. ASSUME NEW n \in 0 .. turns, n # 0
        PROVE  step[<<n, f[n - 1]>>] = Retain(f[n - 1], q[n])
    <3> HIDE DEF turns
    <3>1. n \in 1 .. turns /\ f[n - 1] \in Seq(W)
      BY <1>1, <1>3, <2>1
    <3> QED BY <3>1
  <2> HIDE DEF step, turns
  <2> QED BY <1>3, <2>1 DEF IsLoop
<1>5. after = [n \in 0 .. turns |-> IF n = 0 THEN k ELSE Retain(after[n - 1], q[n])]
  BY <1>4
<1>6. RetainAll(k, q) = after[turns]
  BY DEF RetainAll
<1> HIDE DEF after, step
<1>7. after[0] = f[0] /\ \A n \in 1 .. turns : after[n - 1] = f[n - 1] => after[n] = f[n]
  <2> HIDE DEF turns
  <2>1. \A n \in 1 .. turns : after[n] = Retain(after[n - 1], q[n]) /\ f[n] = Retain(f[n - 1], q[n])
    BY <1>1, <1>4, <1>5
  <2>2. after[0] = k /\ f[0] = k
    BY <1>1, <1>4, <1>5
  <2> QED BY <2>1, <2>2
<1>8. \A n \in 0 .. turns : after[n] = f[n]
  <2> HIDE DEF turns
  <2> QED BY <1>1, <1>7, TurnsAgree, ZenonT(60)
<1>9. f[0] = k /\ \A n \in 1 .. turns : f[n] = Retain(f[n - 1], q[n])
  <2> HIDE DEF turns
  <2> QED BY <1>1, <1>4
<1>10. RetainAll(k, q) = f[turns]
  BY <1>6, <1>8
<1> QED BY <1>9, <1>10

\* Of one word more.
LEMMA RetainAllMore ==
    ASSUME NEW W \in SUBSET Word, NEW k \in Seq(W), NEW q \in Seq(W), NEW c \in W
    PROVE  /\ RetainAll(k, q) \in Seq(W)
           /\ RetainAll(k, Append(q, c)) = Retain(RetainAll(k, q), c)
<1>1. PICK m : m = Len(q) /\ m \in Nat
  OBVIOUS
<1>2. PICK r : /\ r \in Seq(W) /\ r = Append(q, c) /\ Len(r) = m + 1 /\ r[m + 1] = c
               /\ \A n \in 1 .. m : r[n] = q[n]
  <2>1. Append(q, c) \in Seq(W) /\ Len(Append(q, c)) = m + 1 /\ Append(q, c)[m + 1] = c
    BY <1>1
  <2>2. \A n \in 1 .. m : Append(q, c)[n] = q[n]
    BY <1>1
  <2> QED BY <2>1, <2>2
<1>0. \A e \in Seq(W) : \E f \in [0 .. Len(e) -> Seq(W)] :
        /\ f[0] = k /\ \A n \in 1 .. Len(e) : f[n] = Retain(f[n - 1], e[n])
        /\ RetainAll(k, e) = f[Len(e)]
  BY RetainAllRuns
<1>3. PICK f :
        /\ \A n \in 0 .. m : f[n] \in Seq(W)
        /\ f[0] = k /\ \A n \in 1 .. m : f[n] = Retain(f[n - 1], q[n])
        /\ RetainAll(k, q) = f[m]
  <2>1. \E f \in [0 .. Len(q) -> Seq(W)] :
          /\ f[0] = k /\ \A n \in 1 .. Len(q) : f[n] = Retain(f[n - 1], q[n])
          /\ RetainAll(k, q) = f[Len(q)]
    BY <1>0
  <2> QED BY <1>1, <2>1
<1>4. PICK g :
        /\ g[0] = k /\ \A n \in 1 .. m + 1 : g[n] = Retain(g[n - 1], r[n])
        /\ RetainAll(k, r) = g[m + 1]
  <2>1. \E g \in [0 .. Len(r) -> Seq(W)] :
          /\ g[0] = k /\ \A n \in 1 .. Len(r) : g[n] = Retain(g[n - 1], r[n])
          /\ RetainAll(k, r) = g[Len(r)]
    BY <1>0, <1>2
  <2> QED BY <1>2, <2>1
<1>5. ASSUME NEW n \in 1 .. m, f[n - 1] = g[n - 1]
      PROVE  f[n] = g[n]
  <2>1. n \in 1 .. m + 1 /\ r[n] = q[n]
    BY <1>1, <1>2
  <2>2. f[n] = Retain(f[n - 1], q[n])
    BY <1>3
  <2>3. g[n] = Retain(g[n - 1], r[n])
    BY <1>4, <2>1
  <2> QED BY <1>5, <2>1, <2>2, <2>3
<1>6. \A n \in 0 .. m : f[n] = g[n]
  <2>1. f[0] = g[0]
    BY <1>3, <1>4
  <2>2. m \in Nat
    BY <1>1
  <2> QED BY <1>5, <2>1, <2>2, TurnsAgree, ZenonT(60)
<1>7. g[m + 1] = Retain(g[m], r[m + 1])
  <2>1. m + 1 \in 1 .. m + 1 /\ (m + 1) - 1 = m
    BY <1>1
  <2> QED BY <1>4, <2>1
<1>8. m \in 0 .. m
  BY <1>1
<1> QED BY <1>2, <1>3, <1>4, <1>6, <1>7, <1>8

\* Of nothing.
LEMMA RetainAllNone ==
    ASSUME NEW W \in SUBSET Word, NEW k \in Seq(W)
    PROVE  RetainAll(k, <<>>) = k
<1>1. PICK q : q \in Seq(W) /\ q = <<>> /\ Len(q) = 0
  <2>1. <<>> \in Seq(W) /\ Len(<<>>) = 0
    OBVIOUS
  <2> QED BY <2>1
<1>2. PICK f : f[0] = k /\ RetainAll(k, q) = f[Len(q)]
  BY <1>1, RetainAllRuns
<1> QED BY <1>1, <1>2

\* What is retained of a queue sets a simulation as the whole of it does.
LEMMA RetainAllAlike ==
    ASSUME NEW s \in Sim, ~s.net, NEW W \in SUBSET Word, NEW k \in Seq(W), NEW q \in Seq(W)
    PROVE  /\ RetainAll(k, q) \in Seq(W)
           /\ Alike(Replayed(s, RetainAll(k, q)), Replayed(s, k \o q))
<1> DEFINE Good == {r \in Seq(W) : /\ RetainAll(k, r) \in Seq(W)
                                /\ Alike(Replayed(s, RetainAll(k, r)), Replayed(s, k \o r))}
<1>0. W \subseteq Word /\ Seq(W) \subseteq Seq(Word) /\ k \o <<>> = k
  OBVIOUS
<1>1. <<>> \in Good
  BY <1>0, RetainAllNone DEF Alike
<1>2. ASSUME NEW r \in Seq(W), NEW c \in W, r \in Good
      PROVE  Append(r, c) \in Good
  <2>0. Alike(Replayed(s, RetainAll(k, r)), Replayed(s, k \o r))
    BY <1>2
  <2> HIDE DEF Good
  <2>1. PICK w : w \in Seq(W) /\ w = RetainAll(k, r)
    BY RetainAllMore
  <2>2. PICK e : e \in Seq(W) /\ e = k \o r
    <3>1. k \o r \in Seq(W)
      OBVIOUS
    <3> QED BY <3>1
  <2>3. k \o Append(r, c) = Append(e, c) /\ Append(r, c) \in Seq(W)
    BY <2>2
  <2>4. RetainAll(k, Append(r, c)) = Retain(w, c)
    BY <2>1, RetainAllMore
  <2>5. Retain(w, c) \in Seq(W) /\ Alike(Replayed(s, Retain(w, c)), Replayed(s, Append(w, c)))
    BY <2>1, RetainAlike
  <2>11. \A x \in Seq(Word) : Replayed(s, x) \in Sim /\ ~Replayed(s, x).net
    BY ReplayedKeeps
  <2>6. PICK u \in Sim : u = Replayed(s, w) /\ ~u.net
    BY <1>0, <2>1, <2>11
  <2>7. PICK v \in Sim : v = Replayed(s, e) /\ ~v.net
    BY <1>0, <2>2, <2>11
  <2>8. Replayed(s, Append(w, c)) = Applied(u, c) /\ Replayed(s, Append(e, c)) = Applied(v, c)
    BY <1>0, <2>1, <2>2, <2>6, <2>7, ReplayedMore
  <2>9. Alike(Applied(u, c), Applied(v, c))
    <3>1. Alike(u, v) /\ c \in Word
      BY <1>0, <2>0, <2>1, <2>2, <2>6, <2>7
    <3>2. /\ Applied(u, c).weapon = IF c.kind = "weapon" THEN c.value ELSE u.weapon
          /\ Applied(u, c).bots = IF c.kind = "bots" THEN c.value ELSE u.bots
          /\ Applied(u, c).count = IF c.kind \in {"bots", "count"} THEN c.value ELSE u.count
      BY <2>6, <3>1, AppliedSets
    <3>3. /\ Applied(v, c).weapon = IF c.kind = "weapon" THEN c.value ELSE v.weapon
          /\ Applied(v, c).bots = IF c.kind = "bots" THEN c.value ELSE v.bots
          /\ Applied(v, c).count = IF c.kind \in {"bots", "count"} THEN c.value ELSE v.count
      BY <2>7, <3>1, AppliedSets
    <3> QED BY <3>1, <3>2, <3>3 DEF Alike
  <2>10. Alike(Replayed(s, RetainAll(k, Append(r, c))), Replayed(s, k \o Append(r, c)))
    BY <2>3, <2>4, <2>5, <2>8, <2>9 DEF Alike
  <2> QED BY <2>3, <2>4, <2>5, <2>10 DEF Good
<1> HIDE DEF Good
<1>3. q \in Good
  BY <1>1, <1>2, SequenceInduction
<1> QED BY <1>3 DEF Good

-----------------------------------------------------------------------------
(* What all hosts do with what a guest says.                                *)

\* What is retained, and what waits, sets a new simulation as another is.
Sets(k, q, a) == Settings(Replayed(NewSim, k \o q)) = Settings(a)

\* And so does what is retained, or logged, with what is said now.
Retains(W, k, q, said, a) ==
    /\ RetainAll(k, q \o said) \in Seq(W)
    /\ Settings(Replayed(NewSim, RetainAll(k, q \o said))) = Settings(Replayed(a, said))
    /\ Settings(Replayed(NewSim, k \o (q \o said))) = Settings(Replayed(a, said))

\* Where no world is: what waits was asked for, and is retained with what is said
\* now.
LEMMA Retained ==
    ASSUME NEW W \in SUBSET Word, NEW k \in Seq(W), NEW q \in Seq(W), NEW said \in Seq(W),
           NEW a \in Sim, ~a.net, Sets(k, q, a)
    PROVE  Retains(W, k, q, said, a)
<1>0. Settings(Replayed(NewSim, k \o q)) = Settings(a)
  BY DEF Sets
<1>1. NewSim \in Sim /\ ~NewSim.net /\ Seq(W) \subseteq Seq(Word)
  BY DEF NewSim, Sim
<1>2. k \o (q \o said) = (k \o q) \o said /\ k \o q \in Seq(W) /\ q \o said \in Seq(W)
  OBVIOUS
<1>7. \A x \in Seq(Word) : Replayed(NewSim, x) \in Sim /\ ~Replayed(NewSim, x).net
  <2>1. \A s \in Sim : \A x \in Seq(Word) :
          Replayed(s, x) \in Sim /\ Replayed(s, x).net = s.net
    BY ReplayedKeeps
  <2> QED BY <1>1, <2>1
<1>3. PICK u \in Sim : u = Replayed(NewSim, k \o q) /\ ~u.net
  BY <1>1, <1>2, <1>7
<1>4. Alike(Replayed(u, said), Replayed(a, said))
  <2>1. Alike(u, a)
    BY <1>0, <1>3, SettingsAlike
  <2> QED BY <1>1, <1>3, <2>1, AlikeStayAlike
<1>5. Replayed(NewSim, k \o (q \o said)) = Replayed(u, said)
  <2>1. k \o q \in Seq(Word) /\ said \in Seq(Word)
    BY <1>1, <1>2
  <2>2. \A x, y \in Seq(Word) : Replayed(NewSim, x \o y) = Replayed(Replayed(NewSim, x), y)
    BY <1>1, ReplayedJoined
  <2> QED BY <1>2, <1>3, <2>1, <2>2
<1>6. /\ RetainAll(k, q \o said) \in Seq(W)
      /\ Alike(Replayed(NewSim, RetainAll(k, q \o said)), Replayed(NewSim, k \o (q \o said)))
  BY <1>1, <1>2, RetainAllAlike
<1> QED BY <1>4, <1>5, <1>6, SettingsAlike DEF Alike, Retains

\* In a world: what waits and what is said are applied to it.
LEMMA Heard ==
    ASSUME NEW W \in SUBSET Word, NEW s \in Sim, NEW w \in Sim,
           NEW q \in Seq(W), NEW said \in Seq(W), Replayed(s, q) = w
    PROVE  /\ Replayed(s, q \o said) = Replayed(w, said)
           /\ Replayed(s, q \o said) \in Sim
           /\ Replayed(s, q \o said).serial = s.serial /\ Replayed(s, q \o said).mod = s.mod
           /\ Replayed(s, q \o said).net = s.net
           /\ s.net => Replayed(s, q \o said) = s
<1>1. Seq(W) \subseteq Seq(Word) /\ q \o said \in Seq(W)
  OBVIOUS
<1> QED BY <1>1, ReplayedJoined, ReplayedKeeps

-----------------------------------------------------------------------------
(* What is configured, from one step to the next.                           *)

\* In a menu: what a guest says is retained, or logged, or waits.
LEMMA MenuTurn ==
    ASSUME NEW mods \in Nat, NEW g \in 0 .. 2, NEW cs, NEW cf, NEW wt, NEW as,
           Configured(mods, g, cs, cf, NoWorld, wt, as),
           NEW said \in Seq(WordsOf(mods, g))
    PROVE  /\ Configured(mods, g, <<>>, RetainAll(cf, cs \o said), NoWorld, wt, Replayed(as, said))
           /\ Configured(mods, g, <<>>, cf \o (cs \o said), NoWorld, wt, Replayed(as, said))
           /\ Configured(mods, g, cs \o said, cf, NoWorld, wt, Replayed(as, said))
<1>1. PICK W \in SUBSET Word : W = WordsOf(mods, g) /\ Seq(W) \subseteq Seq(Word)
  BY WordsAreWords
<1>2. /\ cs \in Seq(W) /\ cf \in Seq(W) /\ wt \in Sim /\ as \in Sim /\ ~as.net /\ NoWorld \in Sim
      /\ Settings(Replayed(NewSim, cf \o cs)) = Settings(as)
  BY <1>1 DEF Configured
<1>3. said \in Seq(W) /\ said \in Seq(Word) /\ <<>> \in Seq(W)
  BY <1>1
<1>4. cs \o said \in Seq(W)
  BY <1>2, <1>3
<1>5. cf \o (cs \o said) \in Seq(W)
  BY <1>2, <1>4
<1>6. /\ RetainAll(cf, cs \o said) \in Seq(W)
      /\ Settings(Replayed(NewSim, RetainAll(cf, cs \o said))) = Settings(Replayed(as, said))
      /\ Settings(Replayed(NewSim, cf \o (cs \o said))) = Settings(Replayed(as, said))
  <2>1. Sets(cf, cs, as)
    BY <1>2 DEF Sets
  <2>2. Retains(W, cf, cs, said, as)
    BY <1>1, <1>2, <1>3, <2>1, Retained
  <2> QED BY <2>2 DEF Retains
<1>7. Replayed(as, said) \in Sim /\ ~Replayed(as, said).net
  <2>1. \A s \in Sim : \A x \in Seq(Word) :
          Replayed(s, x) \in Sim /\ Replayed(s, x).net = s.net
    BY ReplayedKeeps
  <2> QED BY <1>2, <1>3, <2>1
<1>8. /\ RetainAll(cf, cs \o said) \o <<>> = RetainAll(cf, cs \o said)
      /\ (cf \o (cs \o said)) \o <<>> = cf \o (cs \o said)
  <2>1. \A x \in Seq(W) : x \o <<>> = x
    OBVIOUS
  <2> QED BY <1>5, <1>6, <2>1
<1> QED BY <1>1, <1>2, <1>3, <1>4, <1>5, <1>6, <1>7, <1>8 DEF Configured

\* In a world: what a guest says is applied to it, or waits.
LEMMA WorldTurn ==
    ASSUME NEW mods \in Nat, NEW g \in 0 .. 2, NEW cs, NEW cf, NEW gm, NEW wt, NEW as,
           Configured(mods, g, cs, cf, gm, wt, as), gm # NoWorld,
           NEW said \in Seq(WordsOf(mods, g))
    PROVE  /\ Configured(mods, g, <<>>, cf, Replayed(gm, cs \o said), Replayed(wt, said), as)
           /\ Configured(mods, g, cs \o said, cf, gm, Replayed(wt, said), as)
           /\ Replayed(gm, cs \o said) # NoWorld
           /\ Replayed(gm, cs \o said).serial = gm.serial
           /\ Replayed(gm, cs \o said).mod = gm.mod
           /\ Replayed(gm, cs \o said).net = gm.net
           /\ gm.net => Replayed(gm, cs \o said) = gm
<1>1. PICK W \in SUBSET Word : W = WordsOf(mods, g) /\ Seq(W) \subseteq Seq(Word)
  BY WordsAreWords
<1>2. /\ cs \in Seq(W) /\ cf \in Seq(W) /\ gm \in Sim /\ wt \in Sim /\ as \in Sim /\ ~as.net
      /\ gm.serial \in Serials /\ Replayed(gm, cs) = wt
      /\ Settings(Replayed(NewSim, cf)) = Settings(as)
  BY <1>1 DEF Configured
<1>3. said \in Seq(W) /\ <<>> \in Seq(W)
  BY <1>1
<1>4. cs \o said \in Seq(W)
  BY <1>2, <1>3
<1>5. PICK t \in Sim : /\ t = Replayed(gm, cs \o said) /\ t = Replayed(wt, said)
                       /\ t.serial = gm.serial /\ t.mod = gm.mod /\ t.net = gm.net
                       /\ gm.net => t = gm
  BY <1>2, <1>3, Heard
<1>6. Replayed(t, <<>>) = t
  BY ReplayedNone
<1>7. t # NoWorld
  BY <1>2, <1>5 DEF NoWorld, NewSim, Serials
<1>8. Configured(mods, g, <<>>, cf, t, t, as)
  BY <1>1, <1>2, <1>3, <1>5, <1>6, <1>7 DEF Configured
<1>9. Configured(mods, g, cs \o said, cf, gm, t, as)
  BY <1>1, <1>2, <1>4, <1>5 DEF Configured
<1> QED BY <1>5, <1>7, <1>8, <1>9

\* Where nothing waits: the way back to the menu.
LEMMA BackInMenu ==
    ASSUME NEW mods \in Nat, NEW g \in 0 .. 2, NEW cf, NEW gm, NEW wt, NEW as,
           Configured(mods, g, <<>>, cf, gm, wt, as)
    PROVE  /\ Configured(mods, g, <<>>, cf, NoWorld, NoWorld, as)
           /\ Settings(Replayed(NewSim, cf)) = Settings(as)
<1>1. PICK W \in SUBSET Word : W = WordsOf(mods, g)
  BY WordsAreWords
<1>2. cf \in Seq(W) /\ cf \o <<>> = cf
  <2>1. \A x \in Seq(W) : x \o <<>> = x
    OBVIOUS
  <2> QED BY <1>1, <2>1 DEF Configured
<1>3. Settings(Replayed(NewSim, cf)) = Settings(as)
  BY <1>2 DEF Configured
<1>4. NoWorld \in Sim
  BY DEF NoWorld, NewSim, Sim
<1> QED BY <1>2, <1>3, <1>4 DEF Configured

\* A world as a simulation is set: its number, its mod, and whether a room decides.
WorldOf(sim, n, m, net) ==
    [sim EXCEPT !.serial = n, !.mod = m, !.net = net, !.roster = IF net THEN 0 ELSE sim.count]

\* The world that is made of what was retained is what was asked for.
LEMMA WorldMade ==
    ASSUME NEW mods \in Nat, NEW g \in 0 .. 2, NEW cf, NEW gm, NEW wt, NEW as,
           Configured(mods, g, <<>>, cf, gm, wt, as),
           NEW n \in Serials, NEW m \in Nat, NEW net \in BOOLEAN
    PROVE  /\ WorldOf(Replayed(NewSim, cf), n, m, net) = WorldOf(as, n, m, net)
           /\ Configured(mods, g, <<>>, cf, WorldOf(as, n, m, net), WorldOf(as, n, m, net), as)
           /\ WorldOf(as, n, m, net) # NoWorld
           /\ WorldOf(as, n, m, net).serial = n /\ WorldOf(as, n, m, net).mod = m
           /\ WorldOf(as, n, m, net).net = net
<1>1. PICK W \in SUBSET Word : W = WordsOf(mods, g) /\ Seq(W) \subseteq Seq(Word)
  BY WordsAreWords
<1>2. Settings(Replayed(NewSim, cf)) = Settings(as)
  BY BackInMenu
<1>3. /\ cf \in Seq(W) /\ <<>> \in Seq(W) /\ as \in Sim /\ as.net = FALSE
      /\ NewSim \in Sim /\ NewSim.net = FALSE
  <2>1. cf \in Seq(W) /\ <<>> \in Seq(W) /\ as \in Sim /\ ~as.net
    BY <1>1 DEF Configured
  <2>2. as.net = FALSE
    BY <2>1 DEF Sim
  <2>3. NewSim \in Sim /\ NewSim.net = FALSE
    BY DEF NewSim, Sim
  <2> QED BY <2>1, <2>2, <2>3
<1>4. PICK r \in Sim : r = Replayed(NewSim, cf) /\ Alike(r, as)
  <2>1. \A s \in Sim : \A x \in Seq(Word) : Replayed(s, x) \in Sim
    BY ReplayedKeeps
  <2>2. cf \in Seq(Word)
    BY <1>1, <1>3
  <2> QED BY <1>2, <1>3, <2>1, <2>2, SettingsAlike
<1>5. PICK made : made = [r EXCEPT !.serial = n, !.mod = m, !.net = net,
                                    !.roster = IF net THEN 0 ELSE r.count]
  BY <1>4
<1> DEFINE full == [serial |-> n, mod |-> m, net |-> net, weapon |-> as.weapon,
                    bots |-> as.bots, count |-> as.count,
                    roster |-> IF net THEN 0 ELSE as.count]
<1>10. r.weapon = as.weapon /\ r.bots = as.bots /\ r.count = as.count
  BY <1>4 DEF Alike
<1>11. made = full
  BY <1>5, <1>10 DEF Sim
<1>6. [as EXCEPT !.serial = n, !.mod = m, !.net = net,
                 !.roster = IF net THEN 0 ELSE as.count] = full
  <2>1. PICK t : t = [as EXCEPT !.serial = n, !.mod = m, !.net = net,
                                !.roster = IF net THEN 0 ELSE as.count]
    OBVIOUS
  <2>2. t = full
    BY <1>3, <2>1 DEF Sim
  <2> QED BY <2>1, <2>2
<1>7. made \in Sim /\ made.serial = n /\ made.mod = m /\ made.net = net
  <2>1. n \in 0 .. 2
    BY DEF Serials
  <2>2. /\ as.weapon \in Nat /\ as.bots \in Nat /\ as.count \in Nat
        /\ (IF net THEN 0 ELSE as.count) \in Nat
    BY <1>3 DEF Sim
  <2>3. full \in Sim
    BY <2>1, <2>2 DEF Sim
  <2> QED BY <1>11, <2>3
<1>8. made # NoWorld
  <2>1. n # 0 /\ NoWorld.serial = 0
    BY DEF NoWorld, NewSim, Serials
  <2> QED BY <1>7, <2>1
<1>9. Replayed(made, <<>>) = made
  BY <1>7, ReplayedNone
<1> HIDE DEF full
<1>12. Configured(mods, g, <<>>, cf, made, made, as)
  BY <1>1, <1>2, <1>3, <1>7, <1>8, <1>9 DEF Configured
<1>13. WorldOf(Replayed(NewSim, cf), n, m, net) = made /\ WorldOf(as, n, m, net) = made
  BY <1>4, <1>5, <1>6, <1>11 DEF WorldOf
<1> QED BY <1>7, <1>8, <1>12, <1>13

\* A guest that only began, and one that said something while it was evaluated.
LEMMA Begun ==
    ASSUME NEW mods \in Nat, NEW g \in 0 .. 2
    PROVE  /\ Configured(mods, g, <<>>, <<>>, NoWorld, NoWorld, NewSim)
           /\ \A said \in Seq(WordsOf(mods, g)) :
                /\ Configured(mods, g, <<>>, RetainAll(<<>>, said), NoWorld, NoWorld,
                              Replayed(NewSim, said))
                /\ Configured(mods, g, said, <<>>, NoWorld, NoWorld, Replayed(NewSim, said))
<1>1. NewSim \in Sim /\ NoWorld = NewSim /\ ~NewSim.net
  BY DEF NewSim, Sim, NoWorld
<1>2. PICK e \in Seq(WordsOf(mods, g)) : e = <<>> /\ e \o e = e
  <2>1. <<>> \in Seq(WordsOf(mods, g)) /\ <<>> \o <<>> = <<>>
    OBVIOUS
  <2> QED BY <2>1
<1>3. Replayed(NewSim, <<>>) = NewSim
  BY <1>1, ReplayedNone
<1>4. Configured(mods, g, e, e, NoWorld, NoWorld, NewSim)
  BY <1>1, <1>2, <1>3 DEF Configured
<1>5. ASSUME NEW said \in Seq(WordsOf(mods, g))
      PROVE  /\ Configured(mods, g, <<>>, RetainAll(<<>>, said), NoWorld, NoWorld,
                           Replayed(NewSim, said))
             /\ Configured(mods, g, said, <<>>, NoWorld, NoWorld, Replayed(NewSim, said))
  <2>1. <<>> \o said = said
    OBVIOUS
  <2>2. /\ Configured(mods, g, <<>>, RetainAll(e, e \o said), NoWorld, NoWorld, Replayed(NewSim, said))
        /\ Configured(mods, g, e \o said, e, NoWorld, NoWorld, Replayed(NewSim, said))
    BY <1>4, MenuTurn
  <2> QED BY <1>2, <2>1, <2>2
<1> QED BY <1>2, <1>4, <1>5

\* The newest intent there is, if there is one.
LEMMA NewestIs ==
    ASSUME NEW T, NEW q \in Seq(T), NEW meant \in Seq(T), NEW otherwise
    PROVE  /\ Newest(q \o meant, otherwise) \in T \cup {otherwise}
           /\ Newest(q, otherwise) \in T \cup {otherwise}
<1>1. \A x \in Seq(T) : Newest(x, otherwise) \in T \cup {otherwise}
  BY DEF Newest, Last
<1>2. q \o meant \in Seq(T)
  OBVIOUS
<1> QED BY <1>1, <1>2

\* The way to the menu is an intent of the guest's own.
LEMMA MenuIsIntent == ASSUME NEW mods \in Nat, NEW g \in 0 .. 2 PROVE ToMenu(g) \in IntentsOf(mods, g)
<1>1. PICK i : i = [NoIntent EXCEPT !.by = g, !.kind = "menu"]
  OBVIOUS
<1>2. i = [by |-> g, kind |-> "menu", map |-> 0, mod |-> 0, net |-> FALSE]
  BY <1>1 DEF NoIntent
<1>3. i \in IntentsOf(mods, g)
  BY <1>2 DEF IntentsOf
<1> QED BY <1>1, <1>3 DEF ToMenu

-----------------------------------------------------------------------------
(* What all hosts do in a turn of the guest.                                *)

\* The queue is drained into the world, or kept for the next one, ...
Drains(said) ==
    /\ commands' = <<>>
    /\ game = NoWorld =>
         game' = game /\ config' \in {RetainAll(config, commands \o said), config \o (commands \o said)}
    /\ game # NoWorld => game' = Replayed(game, commands \o said) /\ config' = config

\* ... or waits.
Waits(said) == commands' = commands \o said /\ game' = game /\ config' = config

\* A turn keeps the world there is and how it was configured.
LEMMA Turned ==
    ASSUME NEW mods \in Nat, HostInv(mods), NEW said \in Seq(WordsOf(mods, guest)),
           Drains(said) \/ Waits(said), guest' = guest,
           asked' = AskedAfter(said), want' = WantAfter(said)
    PROVE  /\ Configured(mods, guest', commands', config', game', want', asked')
           /\ game' = NoWorld <=> game = NoWorld
           /\ game'.serial = game.serial /\ game'.mod = game.mod
           /\ game'.net = game.net /\ (game.net => game' = game)
<1>1. guest \in 0 .. 2 /\ Configured(mods, guest, commands, config, game, want, asked)
  BY DEF HostInv
<1>2. CASE game = NoWorld
  <2>1. asked' = Replayed(asked, said) /\ want' = want /\ game' = NoWorld
    BY <1>2 DEF AskedAfter, WantAfter, Drains, Waits
  <2>2. /\ Configured(mods, guest, <<>>, RetainAll(config, commands \o said), NoWorld, want, asked')
        /\ Configured(mods, guest, <<>>, config \o (commands \o said), NoWorld, want, asked')
        /\ Configured(mods, guest, commands \o said, config, NoWorld, want, asked')
    BY <1>1, <1>2, <2>1, MenuTurn
  <2> QED BY <1>2, <2>1, <2>2 DEF Drains, Waits
<1>3. CASE game # NoWorld
  <2>1. asked' = asked /\ want' = Replayed(want, said)
    BY <1>3 DEF AskedAfter, WantAfter
  <2>2. /\ Configured(mods, guest, <<>>, config, Replayed(game, commands \o said), want', asked)
        /\ Configured(mods, guest, commands \o said, config, game, want', asked)
        /\ Replayed(game, commands \o said) # NoWorld
        /\ Replayed(game, commands \o said).serial = game.serial
        /\ Replayed(game, commands \o said).mod = game.mod
        /\ Replayed(game, commands \o said).net = game.net
        /\ game.net => Replayed(game, commands \o said) = game
    BY <1>1, <1>3, <2>1, WorldTurn
  <2>3. CASE Drains(said)
    BY <1>3, <2>1, <2>2, <2>3 DEF Drains
  <2>4. CASE Waits(said)
    BY <1>3, <2>1, <2>2, <2>4 DEF Waits
  <2> QED BY <2>3, <2>4
<1> QED BY <1>2, <1>3

\* What a guest that shows mods packs says and means is of its own.
LEMMA OfItsOwn ==
    ASSUME NEW mods \in Nat \ {0}, NEW g \in 0 .. 2
    PROVE  /\ {<<>>} \cup {<<c>> : c \in WordsOf(mods, g)} \subseteq Seq(WordsOf(mods, g))
           /\ \A m \in 1 .. mods :
                <<Said(g, "weapon", m), Said(g, "bots", m)>> \in Seq(WordsOf(mods, g))
           /\ {<<>>} \cup {<<i>> : i \in IntentsOf(mods, g)} \subseteq Seq(IntentsOf(mods, g))
<1>1. ASSUME NEW T
      PROVE  {<<>>} \cup {<<c>> : c \in T} \subseteq Seq(T)
  <2>1. <<>> \in Seq(T)
    OBVIOUS
  <2>2. \A c \in T : <<c>> \in Seq(T)
    OBVIOUS
  <2> QED BY <2>1, <2>2
<1>2. ASSUME NEW m \in 1 .. mods
      PROVE  <<Said(g, "weapon", m), Said(g, "bots", m)>> \in Seq(WordsOf(mods, g))
  <2>1. Said(g, "weapon", m) \in WordsOf(mods, g) /\ Said(g, "bots", m) \in WordsOf(mods, g)
    BY DEF WordsOf
  <2>2. \A T : \A a, b \in T : <<a, b>> \in Seq(T)
    OBVIOUS
  <2> QED BY <2>1, <2>2
<1> QED BY <1>1, <1>2

\* A host with no world and no intent, and nothing of a guest where there is none.
LEMMA NoWorldYet ==
    ASSUME NEW mods \in Nat, guest' \in 0 .. 2, guest' = 0 => commands' = <<>> /\ config' = <<>>,
           Configured(mods, guest', commands', config', game', want', asked'),
           intents' = <<>>, pending' = NoIntent, game' = NoWorld, want' = NoWorld, reading' = {},
           edge' \in 0 .. 3, loading' \in BOOLEAN
    PROVE  HostInv(mods)'
<1>1. intents' \in Seq(IntentsOf(mods, guest'))
  <2>1. \A T : <<>> \in Seq(T)
    OBVIOUS
  <2> QED BY <2>1
<1>2. (guest = 0 => NobodyHere)'
  BY DEF NobodyHere
<1>3. pending' \in IntentsOf(mods, guest') \cup {NoIntent}
  OBVIOUS
<1>4. reading' \subseteq Serials /\ OnlyLiveWorldsRead' /\ PressesOfThisWorld'
  BY DEF OnlyLiveWorldsRead, PressesOfThisWorld
<1> QED BY <1>1, <1>2, <1>3, <1>4 DEF HostInv

\* A map is loaded: the world is what was asked for.
LEMMA Loads ==
    ASSUME NEW mods \in Nat, guest \in 0 .. 2, NEW cf, NEW gm, NEW wt,
           Configured(mods, guest, <<>>, cf, gm, wt, asked), NEW m \in Nat,
           game' = [FromMap(cf) EXCEPT !.mod = m], want' = AskedWorld(m, FALSE),
           commands' = <<>>, config' = cf, guest' = guest, asked' = asked
    PROVE  /\ Configured(mods, guest', commands', config', game', want', asked')
           /\ game' # NoWorld /\ game'.serial \in Serials /\ game'.mod = m
<1>2. PICK n \in Serials : n = NextSerial
  BY DEF NextSerial, Serials
<1>3. /\ Replayed(NewSim, cf) \in Sim /\ Replayed(NewSim, cf).net = FALSE
      /\ asked \in Sim /\ asked.net = FALSE
  <2>1. cf \in Seq(Word) /\ NewSim \in Sim /\ NewSim.net = FALSE
    <3>1. cf \in Seq(WordsOf(mods, guest)) /\ WordsOf(mods, guest) \subseteq Word
      BY WordsAreWords DEF Configured
    <3>2. \A A, B : A \subseteq B => Seq(A) \subseteq Seq(B)
      OBVIOUS
    <3>3. NewSim \in Sim /\ NewSim.net = FALSE
      BY DEF NewSim, Sim
    <3> QED BY <3>1, <3>2, <3>3
  <2>2. \A s \in Sim : \A x \in Seq(Word) : Replayed(s, x) \in Sim /\ Replayed(s, x).net = s.net
    BY ReplayedKeeps
  <2>3. asked \in Sim /\ ~asked.net
    BY DEF Configured
  <2>4. asked.net = FALSE
    BY <2>3 DEF Sim
  <2> QED BY <2>1, <2>2, <2>3, <2>4
<1>4. PICK r \in Sim : r = Replayed(NewSim, cf) /\ r.net = FALSE
  BY <1>3
<1>8. PICK net \in BOOLEAN : net = FALSE
  OBVIOUS
<1>5. game' = WorldOf(r, n, m, net)
  <2>1. game' = [[r EXCEPT !.serial = n, !.roster = r.count] EXCEPT !.mod = m]
    BY <1>2, <1>4 DEF FromMap
  <2>2. game' = [r EXCEPT !.serial = n, !.mod = m, !.net = FALSE, !.roster = r.count]
    BY <1>4, <2>1 DEF Sim
  <2> QED BY <1>8, <2>2 DEF WorldOf
<1>6. want' = WorldOf(asked, n, m, net)
  BY <1>2, <1>8 DEF AskedWorld, WorldOf
<1>7. /\ game' = want' /\ Configured(mods, guest, <<>>, cf, want', want', asked)
      /\ want' # NoWorld /\ want'.serial = n /\ want'.mod = m
  <2>1. /\ WorldOf(Replayed(NewSim, cf), n, m, net) = WorldOf(asked, n, m, net)
        /\ Configured(mods, guest, <<>>, cf, WorldOf(asked, n, m, net), WorldOf(asked, n, m, net), asked)
        /\ WorldOf(asked, n, m, net) # NoWorld
        /\ WorldOf(asked, n, m, net).serial = n /\ WorldOf(asked, n, m, net).mod = m
    BY <1>2, <1>8, WorldMade
  <2> QED BY <1>4, <1>5, <1>6, <2>1
<1> QED BY <1>7

\* Where nothing of what all hosts have changes, it stays as it should be.
LEMMA HostStays ==
    ASSUME NEW mods, HostInv(mods), UNCHANGED hostVars
    PROVE  HostInv(mods)'
BY DEF HostInv, hostVars, NobodyHere, OnlyLiveWorldsRead, PressesOfThisWorld

-----------------------------------------------------------------------------
(* The Vita.                                                                *)

\* What the guest of the Vita says and means.
LEMMA VitaSays ==
    ASSUME guest \in 0 .. 2
    PROVE  /\ Says \subseteq Seq(WordsOf(MODS, guest))
           /\ Meant(FALSE) \subseteq Seq(IntentsOf(MODS, guest))
           /\ \A g \in 0 .. 2 : SaysAtEval(g) \subseteq Seq(WordsOf(MODS, g))
<1>1. MODS \in Nat \ {0} /\ MAPS \in Nat
  BY HostAssumption
<1>2. Says = {<<>>} \cup {<<c>> : c \in WordsOf(MODS, guest)}
  BY DEF Says, CommandsOf, WordsOf
<1>3. ToMenu(guest) \in IntentsOf(MODS, guest) /\ LoadsOf(guest, FALSE) \subseteq IntentsOf(MODS, guest)
  <2>1. 1 .. MAPS + 1 \subseteq Nat /\ 1 .. MODS \subseteq Nat
    BY <1>1
  <2> QED BY <2>1, MenuIsIntent DEF LoadsOf, IntentsOf
<1>4. Meant(FALSE) \subseteq {<<>>} \cup {<<i>> : i \in IntentsOf(MODS, guest)}
  BY <1>3 DEF Meant
<1> QED BY <1>1, <1>2, <1>4, OfItsOwn DEF SaysAtEval

\* A new App, or none.
LEMMA VitaBooted ==
    ASSUME NoApp, NEW ok, Boot(ok), guest \in 0 .. 2
    PROVE  /\ HostInv(MODS)' /\ commands' = <<>> /\ intents' = <<>>
           /\ \/ guest' = 0 /\ running' = -1
              \/ guest' \in 1 .. 2 /\ running' = active'
<1>1. MODS \in Nat
  BY HostAssumption
<1>2. /\ intents' = <<>> /\ pending' = NoIntent /\ reading' = {} /\ game' = NoWorld
      /\ want' = NoWorld /\ edge' = 0 /\ loading' = FALSE
  BY DEF NoApp, Discarded
<1>4. CASE guest' = 0 /\ running' = -1 /\ BootFails
  <2>1. commands' = <<>> /\ config' = <<>> /\ asked' = NewSim
    BY <1>4 DEF BootFails, Discarded
  <2>2. Configured(MODS, guest', commands', config', game', want', asked')
    BY <1>1, <1>2, <1>4, <2>1, Begun
  <2>3. HostInv(MODS)'
    <3>1. guest' \in 0 .. 2 /\ (guest' = 0 => commands' = <<>> /\ config' = <<>>)
      BY <1>4, <2>1
    <3>2. edge' \in 0 .. 3
      BY <1>2
    <3>3. loading' \in BOOLEAN
      BY <1>2
    <3> QED BY <1>1, <1>2, <2>2, <3>1, <3>2, <3>3, NoWorldYet
  <2> QED BY <1>2, <1>4, <2>1, <2>3
<1>5. CASE \E said \in SaysAtEval(NextGuest) : Boots(Discarded(commands), said)
  <2>1. PICK said : said \in SaysAtEval(NextGuest) /\ Boots(Discarded(commands), said)
    BY <1>5
  <2>2. guest' = NextGuest /\ guest' \in 1 .. 2 /\ running' = active'
    BY <2>1 DEF Boots, NextGuest
  <2>3. said \in Seq(WordsOf(MODS, guest'))
    <3>1. \A g \in 0 .. 2 : SaysAtEval(g) \subseteq Seq(WordsOf(MODS, g))
      BY VitaSays
    <3> QED BY <2>1, <2>2, <3>1
  <2>4. commands' = <<>> /\ config' = RetainAll(<<>>, said) /\ asked' = Replayed(NewSim, said)
    <3>1. <<>> \o (<<>> \o said) = said /\ <<>> \o said = said
      BY <2>3
    <3> QED BY <2>1, <3>1 DEF Boots, Discarded
  <2>5. Configured(MODS, guest', commands', config', game', want', asked')
    BY <1>1, <1>2, <2>2, <2>3, <2>4, Begun
  <2>6. HostInv(MODS)'
    <3>1. guest' \in 0 .. 2 /\ (guest' = 0 => commands' = <<>> /\ config' = <<>>)
      BY <2>2
    <3>2. edge' \in 0 .. 3
      BY <1>2
    <3>3. loading' \in BOOLEAN
      BY <1>2
    <3> QED BY <1>1, <1>2, <2>5, <3>1, <3>2, <3>3, NoWorldYet
  <2> QED BY <1>2, <2>2, <2>4, <2>6
<1> QED BY <1>4, <1>5 DEF Boot, BootFails

\* Initially.
LEMMA VitaInit == Init => VitaInv
<1> SUFFICES ASSUME Init PROVE VitaInv
  OBVIOUS
<1>1. MODS \in Nat /\ commands = <<>> /\ intents = <<>> /\ game = NoWorld
  BY HostAssumption DEF Init
<1>2. Configured(MODS, guest, commands, config, game, want, asked) /\ guest \in 0 .. 1
  <2>1. CASE guest = 0 /\ config = <<>> /\ asked = NewSim
    BY <1>1, <2>1, Begun DEF Init
  <2>2. CASE guest = 1 /\ \E said \in SaysAtEval(1) :
                            config = RetainAll(<<>>, said) /\ asked = Replayed(NewSim, said)
    <3>1. PICK said : /\ said \in SaysAtEval(1)
                      /\ config = RetainAll(<<>>, said) /\ asked = Replayed(NewSim, said)
      BY <2>2
    <3>2. \A g \in 0 .. 2 : SaysAtEval(g) \subseteq Seq(WordsOf(MODS, g))
      BY <2>2, VitaSays
    <3>3. said \in Seq(WordsOf(MODS, 1))
      BY <3>1, <3>2
    <3>4. \A s \in Seq(WordsOf(MODS, 1)) :
            Configured(MODS, 1, <<>>, RetainAll(<<>>, s), NoWorld, NoWorld, Replayed(NewSim, s))
      BY <1>1, Begun
    <3> QED BY <1>1, <2>2, <3>1, <3>3, <3>4 DEF Init
  <2> QED BY <2>1, <2>2 DEF Init
<1>3. HostInv(MODS)
  <2>1. \A T : <<>> \in Seq(T)
    OBVIOUS
  <2>2. guest = 0 => NobodyHere
    BY DEF Init, NobodyHere
  <2>3. pending = NoIntent /\ reading = {} /\ edge = 0
    BY DEF Init
  <2>4. loading \in BOOLEAN
    BY DEF Init
  <2>5. OnlyLiveWorldsRead /\ PressesOfThisWorld
    BY <2>3 DEF OnlyLiveWorldsRead, PressesOfThisWorld
  <2> QED BY <1>1, <1>2, <2>1, <2>2, <2>3, <2>4, <2>5 DEF HostInv
<1>4. candidate = NoCandidate /\ active = 0 /\ activeHash = 0 /\ accepted = {0} /\ pc = "frame"
  BY DEF Init
<1>5. menuOpen \in BOOLEAN
  BY DEF Init
<1>6. running \in BUNDLES \cup {0, -1} /\ (running = -1) = (guest = 0)
  BY DEF Init
<1>7. ReplacedWhole
  BY DEF Init, ReplacedWhole, NoCandidate
<1> QED BY <1>1, <1>3, <1>4, <1>5, <1>6, <1>7 DEF VitaInv

\* A guest that is stopped, and what comes back.
LEMMA VitaRecovers ==
    ASSUME VitaInv, NEW restored, Recover(restored), pc' \in {"frame", "show", "poll"}
    PROVE  VitaInv'
<1>1. guest \in 0 .. 2 /\ NoApp /\ menuOpen' = TRUE /\ candidate' = NoCandidate /\ accepted' = accepted
  BY DEF VitaInv, HostInv, Recover
<1>2. ReplacedWhole /\ active \in BUNDLES \cup {0} /\ accepted \subseteq BUNDLES \cup {0}
  BY DEF VitaInv
<1>3. /\ HostInv(MODS)' /\ commands' = <<>> /\ intents' = <<>>
      /\ (guest' = 0 /\ running' = -1) \/ (guest' \in 1 .. 2 /\ running' = active')
      /\ active' \in BUNDLES \cup {0} /\ activeHash' = active' /\ active' \in accepted
      /\ owed' = 0
  <2>1. CASE candidate = NoCandidate
    <3>1. Boot(FALSE) /\ active' = active /\ activeHash' = activeHash /\ owed' = owed
      BY <2>1 DEF Recover, Stay, Boot
    <3>2. activeHash = active /\ active \in accepted /\ owed = 0
      BY <2>1 DEF VitaInv, ReplacedWhole, NoCandidate
    <3> QED BY <1>1, <1>2, <3>1, <3>2, VitaBooted
  <2>2. CASE candidate # NoCandidate
    <3>1. /\ Boot(restored) /\ active' = candidate.previous /\ activeHash' = candidate.hash
          /\ owed' = IF candidate.requested THEN owed - 1 ELSE owed
      BY <2>2 DEF Recover
    <3>2. candidate.previous \in accepted /\ candidate.hash = candidate.previous
      BY <2>2 DEF VitaInv
    <3>3. owed' = 0
      BY <1>2, <3>1 DEF ReplacedWhole
    <3>4. active' \in accepted /\ activeHash' = active'
      BY <3>1, <3>2
    <3> QED BY <1>1, <1>2, <3>1, <3>3, <3>4, VitaBooted
  <2> QED BY <2>1, <2>2
<1>4. ReplacedWhole'
  BY <1>1, <1>3 DEF ReplacedWhole, NoCandidate
<1>5. running' \in BUNDLES \cup {0, -1} /\ (running' = -1) = (guest' = 0)
  <2>1. BUNDLES \subseteq Nat
    BY VitaAssumption
  <2>2. active' # -1
    BY <1>3, <2>1
  <2> QED BY <1>3, <2>2
<1>6. menuOpen' \in BOOLEAN
  BY <1>1
<1> QED BY <1>1, <1>2, <1>3, <1>4, <1>5, <1>6 DEF VitaInv

\* A frame of the guest.
LEMMA VitaFrame == ASSUME VitaInv, Frame PROVE VitaInv'
<1>0. /\ HostInv(MODS) /\ guest \in 0 .. 2 /\ MODS \in Nat \ {0} /\ ReplacedWhole
      /\ commands = <<>> /\ intents = <<>> /\ pc = "frame" /\ pc' = "show"
  BY HostAssumption DEF VitaInv, HostInv, Frame
<1>1. CASE /\ guest = 0 /\ menuOpen' \in BOOLEAN
           /\ UNCHANGED <<hostVars, active, activeHash, running, candidate, owed, accepted>>
  <2>1. HostInv(MODS)'
    BY <1>0, <1>1 DEF HostInv, hostVars, NobodyHere, OnlyLiveWorldsRead, PressesOfThisWorld
  <2>2. ReplacedWhole'
    BY <1>0, <1>1 DEF hostVars, ReplacedWhole
  <2> QED BY <1>0, <1>1, <2>1, <2>2 DEF VitaInv, hostVars
<1>2. CASE /\ guest # 0 /\ menuOpen' \in BOOLEAN
           /\ \E said \in Says, meant \in Meant(FALSE), pressed, due \in BOOLEAN :
                Turn(said, meant) /\ edge' = EdgeAfter(pressed /\ ~menuOpen, due)
           /\ UNCHANGED <<guest, reading, active, activeHash, running, candidate, owed, accepted>>
  <2>1. PICK said \in Says, meant \in Meant(FALSE), pressed, due \in BOOLEAN :
             Turn(said, meant) /\ edge' = EdgeAfter(pressed /\ ~menuOpen, due)
    BY <1>2
  <2>2. said \in Seq(WordsOf(MODS, guest)) /\ meant \in Seq(IntentsOf(MODS, guest))
    BY <1>0, <2>1, VitaSays
  <2>3. /\ Configured(MODS, guest', commands', config', game', want', asked')
        /\ game' = NoWorld <=> game = NoWorld
        /\ game'.serial = game.serial
    <3>1. Drains(said) /\ asked' = AskedAfter(said) /\ want' = WantAfter(said)
      BY <2>1 DEF Turn, Drains
    <3>2. guest' = guest
      BY <1>2
    <3> QED BY <1>0, <2>2, <3>1, <3>2, Turned
  <2>4. /\ intents' = <<>> /\ intents' \in Seq(IntentsOf(MODS, guest'))
        /\ pending' \in IntentsOf(MODS, guest') \cup {NoIntent}
    <3>1. pending' = Newest(intents \o meant, pending) /\ intents' = <<>> /\ guest' = guest
      BY <1>2, <2>1 DEF Turn
    <3>2. intents \in Seq(IntentsOf(MODS, guest)) /\ pending \in IntentsOf(MODS, guest) \cup {NoIntent}
      BY <1>0 DEF HostInv
    <3>3. pending' \in IntentsOf(MODS, guest) \cup {pending}
      BY <2>2, <3>1, <3>2, NewestIs
    <3>4. \A T : <<>> \in Seq(T)
      OBVIOUS
    <3> QED BY <3>1, <3>2, <3>3, <3>4
  <2>5. edge' \in 0 .. 3 /\ PressesOfThisWorld'
    <3>1. edge \in 0 .. 3 /\ (game # NoWorld => edge \in {0, game.serial} /\ game.serial \in Serials)
      BY <1>0 DEF HostInv, PressesOfThisWorld, Configured
    <3>2. edge' \in 0 .. 3
      BY <2>1, <3>1 DEF EdgeAfter, Serials
    <3>3. game # NoWorld => edge' \in {0, game.serial}
      BY <2>1, <3>1 DEF EdgeAfter
    <3> QED BY <2>3, <3>2, <3>3 DEF PressesOfThisWorld
  <2>6. loading' \in BOOLEAN
    BY <2>1 DEF Turn, LoadingAfter
  <2>7. HostInv(MODS)'
    <3>1. guest' = guest /\ guest # 0 /\ reading' = reading
      BY <1>2
    <3>2. reading' \subseteq Serials /\ OnlyLiveWorldsRead'
      BY <1>0, <2>3, <3>1 DEF HostInv, OnlyLiveWorldsRead
    <3> QED BY <1>0, <2>3, <2>4, <2>5, <2>6, <3>1, <3>2 DEF HostInv
  <2>8. ReplacedWhole'
    BY <1>0, <1>2 DEF ReplacedWhole
  <2>9. commands' = <<>>
    BY <2>1 DEF Turn
  <2> QED BY <1>0, <1>2, <2>4, <2>7, <2>8, <2>9 DEF VitaInv
<1>3. CASE \E restored \in BOOLEAN : Recover(restored)
  BY <1>0, <1>3, VitaRecovers
<1> QED BY <1>1, <1>2, <1>3 DEF Frame

\* What follows a frame that was shown.
LEMMA VitaPresents ==
    ASSUME VitaInv, pc = "show", pc' = "poll", guest # 0, AfterPresent, pending' = NoIntent, Accept,
           UNCHANGED <<guest, commands, intents, config, asked>>,
           UNCHANGED <<active, activeHash, running, menuOpen>>
    PROVE  VitaInv'
<1>0. /\ HostInv(MODS) /\ guest \in 0 .. 2 /\ MODS \in Nat \ {0} /\ ReplacedWhole
      /\ commands = <<>> /\ intents = <<>>
      /\ activeHash = active /\ active \in BUNDLES \cup {0} /\ accepted \subseteq BUNDLES \cup {0}
  BY HostAssumption DEF VitaInv, HostInv
<1>1. Configured(MODS, guest, <<>>, config, game, want, asked)
  BY <1>0 DEF HostInv
<1>2. /\ Configured(MODS, guest', commands', config', game', want', asked')
      /\ reading' \subseteq Serials /\ OnlyLiveWorldsRead'
      /\ edge' \in 0 .. 3 /\ loading' \in BOOLEAN /\ PressesOfThisWorld'
  <2>1. CASE reading' = Submitted /\ UNCHANGED <<game, want, edge, loading>>
    <3>1. reading' \subseteq Serials /\ reading' \subseteq {game'.serial}
      BY <1>1, <2>1 DEF Submitted, Configured
    <3>2. Configured(MODS, guest', commands', config', game', want', asked')
      BY <1>0, <1>1, <2>1
    <3> QED BY <1>0, <2>1, <3>1, <3>2 DEF HostInv, OnlyLiveWorldsRead, PressesOfThisWorld
  <2>2. CASE Unload /\ game' = NoWorld /\ want' = NoWorld /\ UNCHANGED <<edge, loading>>
    <3>1. Configured(MODS, guest', commands', config', game', want', asked')
      BY <1>0, <1>1, <2>2, BackInMenu
    <3> QED BY <1>0, <2>2, <3>1 DEF HostInv, Unload, OnlyLiveWorldsRead, PressesOfThisWorld
  <2>3. CASE pending.kind = "load" /\ Load(pending)
    <3>1. pending.mod \in Nat
      <4>1. pending \in IntentsOf(MODS, guest)
        BY <1>0, <2>3 DEF HostInv, NoIntent
      <4> QED BY <4>1 DEF IntentsOf
    <3>2. game' = [FromMap(config) EXCEPT !.mod = pending.mod] /\ want' = AskedWorld(pending.mod, FALSE)
      BY <2>3 DEF Load
    <3>3. Configured(MODS, guest', commands', config', game', want', asked')
      BY <1>0, <1>1, <3>1, <3>2, Loads
    <3>4. reading' = {} /\ edge' = 0
      BY <2>3 DEF Load, Unload, FreshInput
    <3>5. loading' \in BOOLEAN
      BY <2>3 DEF Load
    <3> QED BY <3>3, <3>4, <3>5 DEF OnlyLiveWorldsRead, PressesOfThisWorld
  <2> QED BY <2>1, <2>2, <2>3 DEF AfterPresent
<1>3. HostInv(MODS)'
  <2>1. /\ guest' \in 0 .. 2 /\ guest' # 0 /\ pending' = NoIntent
        /\ intents' \in Seq(IntentsOf(MODS, guest'))
    BY <1>0 DEF HostInv
  <2> QED BY <1>2, <2>1 DEF HostInv
<1>4. /\ candidate' = NoCandidate /\ active \in accepted' /\ owed' = 0
      /\ accepted' \subseteq BUNDLES \cup {0}
  <2>1. CASE candidate = NoCandidate
    BY <1>0, <2>1 DEF Accept, ReplacedWhole, NoCandidate
  <2>2. CASE candidate # NoCandidate
    BY <1>0, <2>2 DEF Accept, ReplacedWhole
  <2> QED BY <2>1, <2>2
<1>5. ReplacedWhole'
  BY <1>0, <1>4 DEF ReplacedWhole, NoCandidate
<1>6. commands' = <<>> /\ intents' = <<>>
  BY <1>0
<1>7. menuOpen' \in BOOLEAN /\ running' \in BUNDLES \cup {0, -1} /\ (running' = -1) = (guest' = 0)
  BY DEF VitaInv
<1> QED BY <1>0, <1>3, <1>4, <1>5, <1>6, <1>7 DEF VitaInv

\* The end of a turn of the loop.
LEMMA VitaShow == ASSUME VitaInv, Show PROVE VitaInv'
<1>1. CASE guest = 0 /\ UNCHANGED <<hostVars, active, activeHash, running,
                                    candidate, menuOpen, owed, accepted>>
  <2>0. pc = "show" /\ pc' = "poll" /\ HostInv(MODS) /\ ReplacedWhole
    BY DEF Show, VitaInv
  <2>1. HostInv(MODS)'
    BY <1>1, <2>0 DEF HostInv, hostVars, NobodyHere, OnlyLiveWorldsRead, PressesOfThisWorld
  <2>2. candidate = NoCandidate /\ ReplacedWhole'
    BY <1>1, <2>0 DEF VitaInv, hostVars, ReplacedWhole
  <2> QED BY <1>1, <2>0, <2>1, <2>2 DEF VitaInv, hostVars
<1>2. CASE /\ guest # 0 /\ AfterPresent /\ pending' = NoIntent /\ Accept
           /\ UNCHANGED <<guest, commands, intents, config, asked>>
           /\ UNCHANGED <<active, activeHash, running, menuOpen>>
  BY <1>2, VitaPresents DEF Show
<1>3. CASE \E restored \in BOOLEAN : Recover(restored)
  BY <1>3, VitaRecovers DEF Show
<1> QED BY <1>1, <1>2, <1>3 DEF Show

\* A guest is replaced.
LEMMA VitaReplace == ASSUME VitaInv, Replace PROVE VitaInv'
<1>0. /\ guest \in 0 .. 2 /\ ReplacedWhole /\ pc = "poll" /\ BUNDLES \subseteq Nat
      /\ activeHash = active /\ active \in BUNDLES \cup {0} /\ accepted \subseteq BUNDLES \cup {0}
      /\ candidate = NoCandidate /\ active \in accepted /\ owed = 0
  BY VitaAssumption DEF VitaInv, HostInv, Replace, ReplacedWhole, NoCandidate
<1>1. PICK bundle \in BUNDLES \cup {active, 0}, overUsb \in BOOLEAN, ok \in BOOLEAN :
        /\ candidate' = [requested |-> overUsb, previous |-> active, hash |-> activeHash]
        /\ owed' = IF overUsb THEN owed + 1 ELSE owed
        /\ active' = bundle
        /\ NoApp /\ Boot(ok)
        /\ IF ok THEN pc' = "frame" /\ HashNoted(bundle)
                 ELSE pc' = "recover" /\ UNCHANGED activeHash
  BY DEF Replace
<1>2. menuOpen' = menuOpen /\ accepted' = accepted /\ menuOpen \in BOOLEAN
  BY DEF Replace, VitaInv
<1>3. /\ HostInv(MODS)' /\ commands' = <<>> /\ intents' = <<>>
      /\ \/ guest' = 0 /\ running' = -1
         \/ guest' \in 1 .. 2 /\ running' = active'
  BY <1>0, <1>1, VitaBooted
<1>4. active' \in BUNDLES \cup {0} /\ active' # -1
  BY <1>0, <1>1
<1>5. running' \in BUNDLES \cup {0, -1} /\ (running' = -1) = (guest' = 0)
  BY <1>3, <1>4
<1>6. /\ candidate' \in [requested : BOOLEAN, previous : accepted', hash : accepted']
      /\ candidate' # NoCandidate /\ candidate'.hash = candidate'.previous
  <2>1. candidate'.previous = active /\ candidate'.hash = activeHash
    BY <1>1
  <2>2. active # -1 /\ NoCandidate.previous = -1
    BY <1>0 DEF NoCandidate
  <2> QED BY <1>0, <1>1, <1>2, <2>1, <2>2
<1>7. owed' = IF candidate'.requested THEN 1 ELSE 0
  BY <1>0, <1>1
<1>8. CASE ok
  <2>1. pc' = "frame" /\ activeHash' = active' /\ guest' # 0
    <3>1. guest' = NextGuest
      BY <1>1, <1>8 DEF Boot, Boots
    <3> QED BY <1>1, <1>8, <3>1 DEF HashNoted, NextGuest
  <2>2. running' = active'
    BY <1>3, <2>1
  <2>3. ReplacedWhole'
    BY <1>6, <1>7, <2>1, <2>2 DEF ReplacedWhole
  <2> QED BY <1>2, <1>3, <1>4, <1>5, <1>6, <1>0, <2>1, <2>3 DEF VitaInv
<1>9. CASE ~ok
  <2>1. pc' = "recover" /\ activeHash' = activeHash /\ guest' = 0
    BY <1>1, <1>9 DEF Boot, BootFails
  <2>3. ReplacedWhole'
    BY <1>6, <1>7, <2>1 DEF ReplacedWhole
  <2> QED BY <1>2, <1>3, <1>4, <1>5, <1>6, <1>0, <2>1, <2>3 DEF VitaInv
<1> QED BY <1>8, <1>9

\* A native module is run.
LEMMA VitaNative == ASSUME VitaInv, Native PROVE VitaInv'
<1>0. /\ guest \in 0 .. 2 /\ ReplacedWhole /\ pc = "poll" /\ pc' = "frame" /\ BUNDLES \subseteq Nat
      /\ activeHash = active /\ active \in BUNDLES \cup {0} /\ accepted \subseteq BUNDLES \cup {0}
      /\ candidate = NoCandidate /\ active \in accepted /\ owed = 0
  BY VitaAssumption DEF VitaInv, HostInv, Native, ReplacedWhole, NoCandidate
<1>1. PICK ok \in BOOLEAN : Boot(ok) /\ menuOpen' = (menuOpen \/ ~ok)
  BY DEF Native
<1>2. NoApp /\ UNCHANGED <<active, activeHash, candidate, owed, accepted>>
  BY DEF Native
<1>3. /\ HostInv(MODS)' /\ commands' = <<>> /\ intents' = <<>>
      /\ \/ guest' = 0 /\ running' = -1
         \/ guest' \in 1 .. 2 /\ running' = active'
  BY <1>0, <1>1, <1>2, VitaBooted
<1>4. active' # -1
  BY <1>0, <1>2
<1>5. running' \in BUNDLES \cup {0, -1} /\ (running' = -1) = (guest' = 0)
  BY <1>0, <1>2, <1>3, <1>4
<1>6. menuOpen' \in BOOLEAN
  BY <1>1
<1>7. ReplacedWhole'
  BY <1>0, <1>2, <1>3 DEF ReplacedWhole, NoCandidate
<1> QED BY <1>0, <1>2, <1>3, <1>5, <1>6, <1>7 DEF VitaInv

\* The Vita keeps its invariant.
LEMMA VitaStep == VitaInv /\ [Next]_vars => VitaInv'
<1> SUFFICES ASSUME VitaInv, [Next]_vars PROVE VitaInv'
  OBVIOUS
<1>1. CASE Frame
  BY <1>1, VitaFrame
<1>2. CASE Show
  BY <1>2, VitaShow
<1>3. CASE Replace
  BY <1>3, VitaReplace
<1>4. CASE Refuse
  BY <1>4, VitaRecovers DEF Refuse
<1>5. CASE Native
  BY <1>5, VitaNative
<1>6. CASE Poll
  <2>0. /\ pc = "poll" /\ pc' = "frame" /\ menuOpen' \in BOOLEAN /\ HostInv(MODS) /\ ReplacedWhole
        /\ UNCHANGED <<hostVars, active, activeHash, running, candidate, accepted, owed>>
    BY <1>6 DEF Poll, OthersKept, VitaInv
  <2>1. HostInv(MODS)'
    BY <2>0 DEF HostInv, hostVars, NobodyHere, OnlyLiveWorldsRead, PressesOfThisWorld
  <2>2. candidate = NoCandidate /\ ReplacedWhole'
    BY <2>0 DEF hostVars, ReplacedWhole
  <2> QED BY <2>0, <2>1, <2>2 DEF VitaInv, hostVars
<1>7. CASE UNCHANGED vars
  <2>0. HostInv(MODS) /\ ReplacedWhole /\ UNCHANGED <<hostVars, vitaVars>>
    BY <1>7 DEF vars, VitaInv
  <2>1. HostInv(MODS)'
    BY <2>0 DEF HostInv, hostVars, NobodyHere, OnlyLiveWorldsRead, PressesOfThisWorld
  <2>2. ReplacedWhole'
    BY <2>0 DEF hostVars, vitaVars, ReplacedWhole
  <2> QED BY <2>0, <2>1, <2>2 DEF VitaInv, hostVars, vitaVars
<1> QED BY <1>1, <1>2, <1>3, <1>4, <1>5, <1>6, <1>7 DEF Next

-----------------------------------------------------------------------------
(* The PSP.                                                                 *)

\* The PSP's copies of what Host defines are what Host defines.
LEMMA PspSame ==
    /\ P!NewSim = NewSim /\ P!NoWorld = NoWorld /\ P!NoIntent = NoIntent
    /\ \A s, q : P!Replayed(s, q) = Replayed(s, q)
    /\ \A k, q : P!RetainAll(k, q) = RetainAll(k, q)
    /\ \A q, o : P!Newest(q, o) = Newest(q, o)
    /\ \A s : P!AskedAfter(s) = AskedAfter(s) /\ P!WantAfter(s) = WantAfter(s)
    /\ \A m : P!LoadingAfter(m) = LoadingAfter(m)
    /\ P!NextSerial = NextSerial
    /\ \A m, net : P!AskedWorld(m, net) = AskedWorld(m, net)
    /\ \A g, kind, m : P!Said(g, kind, m) = Said(g, kind, m)
    /\ P!Says = {<<>>} \cup {<<c>> : c \in WordsOf(PSP_MODS, guest)}
<1>1. P!NewSim = NewSim /\ P!NoWorld = NoWorld /\ P!NoIntent = NoIntent
  BY DEF P!NewSim, NewSim, P!NoWorld, NoWorld, P!NoIntent, NoIntent
<1>2. \A s, q : P!Replayed(s, q) = Replayed(s, q)
  BY DEF P!Replayed, Replayed, P!Applied, Applied
<1>3. \A k, q : P!RetainAll(k, q) = RetainAll(k, q)
  BY DEF P!RetainAll, RetainAll, P!Retain, Retain, P!Without, Without, P!IsSetting, IsSetting,
         P!Kinds, Kinds
<1>4. \A q, o : P!Newest(q, o) = Newest(q, o)
  BY DEF P!Newest, Newest, P!Last, Last
<1>5. \A s : P!AskedAfter(s) = AskedAfter(s) /\ P!WantAfter(s) = WantAfter(s)
  BY <1>1, <1>2 DEF P!AskedAfter, AskedAfter, P!WantAfter, WantAfter
<1>6. \A m : P!LoadingAfter(m) = LoadingAfter(m)
  BY <1>1 DEF P!LoadingAfter, LoadingAfter
<1>7. P!NextSerial = NextSerial
  BY DEF P!NextSerial, NextSerial
<1>8. \A m, net : P!AskedWorld(m, net) = AskedWorld(m, net)
  BY <1>7 DEF P!AskedWorld, AskedWorld
<1>9. \A g, kind, m : P!Said(g, kind, m) = Said(g, kind, m)
  BY DEF P!Said, Said
<1>10. P!Says = {<<>>} \cup {<<c>> : c \in WordsOf(PSP_MODS, guest)}
  BY DEF P!Says, P!CommandsOf, WordsOf, P!Said, Said
<1> QED BY <1>1, <1>2, <1>3, <1>4, <1>5, <1>6, <1>7, <1>8, <1>9, <1>10

\* What the guest of the PSP means.
LEMMA PspMeans ==
    ASSUME guest \in 0 .. 2
    PROVE  P!Meant(TRUE) \subseteq Seq(IntentsOf(PSP_MODS, guest))
<1>1. PSP_MODS \in Nat \ {0} /\ MAPS \in Nat
  BY HostAssumption, HostsAssumption
<1>2. P!ToMenu(guest) \in IntentsOf(PSP_MODS, guest)
  <2>1. P!ToMenu(guest) = ToMenu(guest)
    BY DEF P!ToMenu, ToMenu, P!NoIntent, NoIntent
  <2> QED BY <1>1, <2>1, MenuIsIntent
<1>3. P!LoadsOf(guest, TRUE) \subseteq IntentsOf(PSP_MODS, guest)
  <2>1. 1 .. MAPS + 1 \subseteq Nat /\ 1 .. PSP_MODS \subseteq Nat
    BY <1>1
  <2> QED BY <2>1 DEF P!LoadsOf, IntentsOf
<1>4. P!Meant(TRUE) \subseteq {<<>>} \cup {<<i>> : i \in IntentsOf(PSP_MODS, guest)}
  BY <1>2, <1>3 DEF P!Meant
<1> QED BY <1>1, <1>4, OfItsOwn

\* Initially.
LEMMA PspInit == ASSUME P!Init PROVE PspInv
<1>1. /\ PSP_MODS \in Nat \ {0} /\ commands = <<>> /\ intents = <<>> /\ game = NoWorld /\ guest = 1
      /\ pending = NoIntent /\ reading = {} /\ edge = 0 /\ want = NoWorld
      /\ pc = "ticks" /\ activeMod = 1
  BY HostsAssumption, PspSame DEF P!Init
<1>2. PICK m \in 1 .. PSP_MODS :
        /\ config = RetainAll(<<>>, <<Said(1, "weapon", m), Said(1, "bots", m)>>)
        /\ asked = Replayed(NewSim, <<Said(1, "weapon", m), Said(1, "bots", m)>>)
  BY PspSame DEF P!Init
<1>3. PICK said \in Seq(WordsOf(PSP_MODS, 1)) : said = <<Said(1, "weapon", m), Said(1, "bots", m)>>
  <2>1. <<Said(1, "weapon", m), Said(1, "bots", m)>> \in Seq(WordsOf(PSP_MODS, 1))
    BY <1>1, OfItsOwn
  <2> QED BY <2>1
<1>4. Configured(PSP_MODS, guest, commands, config, game, want, asked)
  <2>1. \A s \in Seq(WordsOf(PSP_MODS, 1)) :
          Configured(PSP_MODS, 1, <<>>, RetainAll(<<>>, s), NoWorld, NoWorld, Replayed(NewSim, s))
    BY <1>1, Begun
  <2> QED BY <1>1, <1>2, <1>3, <2>1
<1>5. HostInv(PSP_MODS)
  <2>1. \A T : <<>> \in Seq(T)
    OBVIOUS
  <2>2. loading \in BOOLEAN
    BY DEF P!Init
  <2>3. OnlyLiveWorldsRead /\ PressesOfThisWorld
    BY <1>1 DEF OnlyLiveWorldsRead, PressesOfThisWorld
  <2> QED BY <1>1, <1>4, <2>1, <2>2, <2>3 DEF HostInv
<1>6. P!ModShown
  BY <1>1, PspSame DEF P!ModShown
<1> QED BY <1>1, <1>5, <1>6 DEF PspInv

\* A tick, and the turn of the guest in it.
LEMMA PspTick == ASSUME PspInv, P!Tick PROVE PspInv'
<1>0. /\ HostInv(PSP_MODS) /\ guest = 1 /\ edge = 0 /\ PSP_MODS \in Nat \ {0}
      /\ activeMod \in 1 .. PSP_MODS /\ (game # NoWorld => activeMod = game.mod)
  BY HostsAssumption, PspSame DEF PspInv, P!ModShown
<1>1. PICK said \in P!Says, meant \in P!Meant(TRUE) :
        /\ P!KeepsInMenu(commands \o said)
        /\ game' = IF game = NoWorld THEN game ELSE Replayed(game, commands \o said)
        /\ asked' = AskedAfter(said) /\ want' = WantAfter(said)
        /\ pending' = Newest(intents \o meant, NoIntent)
        /\ loading' = P!LoadingAfter(meant)
        /\ pc' = IF meant = <<>> THEN pc ELSE "present"
  BY PspSame DEF P!Tick
<1>2. commands' = <<>> /\ intents' = <<>> /\ UNCHANGED <<guest, reading, edge, activeMod>> /\ pc = "ticks"
  BY DEF P!Tick
<1>3. said \in Seq(WordsOf(PSP_MODS, guest)) /\ meant \in Seq(IntentsOf(PSP_MODS, guest))
  <2>1. guest \in 0 .. 2
    BY <1>0
  <2>2. P!Says \subseteq Seq(WordsOf(PSP_MODS, guest))
    <3>1. P!Says = {<<>>} \cup {<<c>> : c \in WordsOf(PSP_MODS, guest)}
      BY PspSame
    <3>2. {<<>>} \cup {<<c>> : c \in WordsOf(PSP_MODS, guest)} \subseteq Seq(WordsOf(PSP_MODS, guest))
      BY <1>0, <2>1, OfItsOwn
    <3> QED BY <3>1, <3>2
  <2> QED BY <1>1, <2>1, <2>2, PspMeans
<1>4. /\ Configured(PSP_MODS, guest', commands', config', game', want', asked')
      /\ game' = NoWorld <=> game = NoWorld
      /\ game'.serial = game.serial /\ game'.mod = game.mod
  <2>1. Drains(said)
    BY <1>1, <1>2, PspSame DEF Drains, P!KeepsInMenu
  <2> QED BY <1>0, <1>1, <1>2, <1>3, <2>1, Turned
<1>5. pending' \in IntentsOf(PSP_MODS, guest') \cup {NoIntent}
  <2>1. intents \in Seq(IntentsOf(PSP_MODS, guest))
    BY <1>0 DEF HostInv
  <2> QED BY <1>1, <1>2, <1>3, <2>1, NewestIs
<1>6. HostInv(PSP_MODS)'
  <2>1. \A T : <<>> \in Seq(T)
    OBVIOUS
  <2>2. loading' \in BOOLEAN
    BY <1>1 DEF P!LoadingAfter
  <2>3. reading' \subseteq Serials /\ OnlyLiveWorldsRead' /\ PressesOfThisWorld'
    BY <1>0, <1>2, <1>4 DEF HostInv, OnlyLiveWorldsRead, PressesOfThisWorld
  <2> QED BY <1>0, <1>2, <1>4, <1>5, <2>1, <2>2, <2>3 DEF HostInv
<1>7. P!ModShown'
  BY <1>0, <1>2, <1>4, PspSame DEF P!ModShown
<1>8. pc' \in {"ticks", "present", "transition"}
  BY <1>1, <1>2
<1> QED BY <1>0, <1>2, <1>6, <1>7, <1>8 DEF PspInv

\* The transition that ends a turn of the loop.
LEMMA PspTransition == ASSUME PspInv, P!Transition PROVE PspInv'
<1>0. /\ HostInv(PSP_MODS) /\ guest = 1 /\ edge = 0 /\ PSP_MODS \in Nat \ {0} /\ commands = <<>>
      /\ activeMod \in 1 .. PSP_MODS /\ (game # NoWorld => activeMod = game.mod)
  BY HostsAssumption, PspSame DEF PspInv, P!ModShown
<1>1. /\ pending' = NoIntent /\ pc' = "ticks"
      /\ UNCHANGED <<guest, commands, intents, config, edge, asked>>
  BY PspSame DEF P!Transition
<1>2. Configured(PSP_MODS, guest, <<>>, config, game, want, asked)
  BY <1>0 DEF HostInv
<1>3. /\ Configured(PSP_MODS, guest', commands', config', game', want', asked')
      /\ activeMod' \in 1 .. PSP_MODS /\ (game' # NoWorld => activeMod' = game'.mod)
      /\ reading' \subseteq Serials /\ reading' \subseteq {game'.serial}
      /\ loading' \in BOOLEAN
  <2>1. CASE UNCHANGED <<game, want, reading, loading, activeMod>>
    <3>1. /\ reading \subseteq Serials /\ reading \subseteq {game.serial} /\ loading \in BOOLEAN
      BY <1>0 DEF HostInv, OnlyLiveWorldsRead
    <3> QED BY <1>0, <1>1, <1>2, <2>1, <3>1
  <2>2. CASE P!Fence /\ UNCHANGED <<game, want, loading, activeMod>>
    <3>1. loading \in BOOLEAN
      BY <1>0 DEF HostInv
    <3> QED BY <1>0, <1>1, <1>2, <2>2, <3>1 DEF P!Fence
  <2>3. CASE /\ pending.kind = "load" /\ game = P!NoWorld /\ pending.map \in 1 .. MAPS /\ P!Fence
             /\ activeMod' = pending.mod
             /\ game' = P!Networked([P!Spawned(config) EXCEPT !.mod = pending.mod], pending.net)
             /\ want' = P!AskedWorld(pending.mod, pending.net)
             /\ loading' = FALSE
    <3>1. pending.mod \in 1 .. PSP_MODS /\ pending.net \in BOOLEAN
      <4>1. pending \in IntentsOf(PSP_MODS, guest)
        BY <1>0, <2>3 DEF HostInv, NoIntent
      <4> QED BY <2>3, <4>1 DEF IntentsOf
    <3>2. PICK n \in Serials : n = NextSerial
      BY DEF NextSerial, Serials
    <3>3. PICK r \in Sim : r = Replayed(NewSim, config) /\ r.net = FALSE
      <4>1. config \in Seq(WordsOf(PSP_MODS, guest)) /\ WordsOf(PSP_MODS, guest) \subseteq Word
        BY <1>0, <1>2, WordsAreWords DEF Configured
      <4>2. \A A, B : A \subseteq B => Seq(A) \subseteq Seq(B)
        OBVIOUS
      <4>3. NewSim \in Sim /\ NewSim.net = FALSE
        BY DEF NewSim, Sim
      <4>4. \A s \in Sim : \A x \in Seq(Word) : Replayed(s, x) \in Sim /\ Replayed(s, x).net = s.net
        BY ReplayedKeeps
      <4> QED BY <4>1, <4>2, <4>3, <4>4
    <3>4. PICK m, net : m = pending.mod /\ net = pending.net /\ net \in BOOLEAN /\ m \in Nat
      BY <3>1
    <3>5. game' = WorldOf(r, n, m, net)
      <4>1. P!Spawned(config) = [r EXCEPT !.serial = n, !.roster = r.count]
        BY <3>2, <3>3, PspSame DEF P!Spawned
      <4>2. game' = P!Networked([[r EXCEPT !.serial = n, !.roster = r.count] EXCEPT !.mod = m], net)
        BY <2>3, <3>4, <4>1
      <4>3. CASE net
        <5>1. game' = [[[r EXCEPT !.serial = n, !.roster = r.count] EXCEPT !.mod = m]
                         EXCEPT !.net = TRUE, !.roster = 0]
          BY <4>2, <4>3 DEF P!Networked
        <5>2. game' = [r EXCEPT !.serial = n, !.mod = m, !.net = TRUE, !.roster = 0]
          BY <3>3, <5>1 DEF Sim
        <5>3. net = TRUE
          BY <3>4, <4>3
        <5> QED BY <5>2, <5>3 DEF WorldOf
      <4>4. CASE ~net
        <5>1. game' = [[r EXCEPT !.serial = n, !.roster = r.count] EXCEPT !.mod = m]
          BY <4>2, <4>4 DEF P!Networked
        <5>2. game' = [r EXCEPT !.serial = n, !.mod = m, !.net = FALSE, !.roster = r.count]
          BY <3>3, <5>1 DEF Sim
        <5>3. net = FALSE
          BY <3>4, <4>4
        <5> QED BY <5>2, <5>3 DEF WorldOf
      <4> QED BY <4>3, <4>4
    <3>6. want' = WorldOf(asked, n, m, net)
      BY <2>3, <3>2, <3>4, PspSame DEF AskedWorld, WorldOf
    <3>7. /\ WorldOf(Replayed(NewSim, config), n, m, net) = WorldOf(asked, n, m, net)
          /\ Configured(PSP_MODS, guest, <<>>, config, WorldOf(asked, n, m, net), WorldOf(asked, n, m, net), asked)
          /\ WorldOf(asked, n, m, net) # NoWorld
          /\ WorldOf(asked, n, m, net).mod = m
      BY <1>0, <1>2, <3>2, <3>4, WorldMade
    <3>8. loading' \in BOOLEAN
      BY <2>3
    <3> QED BY <1>0, <1>1, <2>3, <3>1, <3>3, <3>4, <3>5, <3>6, <3>7, <3>8 DEF P!Fence
  <2>4. CASE P!Fence /\ game' = P!NoWorld /\ want' = P!NoWorld /\ UNCHANGED <<loading, activeMod>>
    <3>1. Configured(PSP_MODS, guest', commands', config', game', want', asked')
      BY <1>0, <1>1, <1>2, <2>4, BackInMenu, PspSame
    <3>2. loading \in BOOLEAN
      BY <1>0 DEF HostInv
    <3> QED BY <1>0, <2>4, <3>1, <3>2, PspSame DEF P!Fence
  <2> QED BY <2>1, <2>2, <2>3, <2>4 DEF P!Transition
<1>4. HostInv(PSP_MODS)'
  <2>1. intents' \in Seq(IntentsOf(PSP_MODS, guest'))
    BY <1>0, <1>1 DEF HostInv
  <2>2. OnlyLiveWorldsRead' /\ PressesOfThisWorld'
    BY <1>0, <1>1, <1>3 DEF OnlyLiveWorldsRead, PressesOfThisWorld
  <2> QED BY <1>0, <1>1, <1>3, <2>1, <2>2 DEF HostInv
<1>5. P!ModShown'
  BY <1>3, PspSame DEF P!ModShown
<1> QED BY <1>0, <1>1, <1>3, <1>4, <1>5 DEF PspInv

\* The PSP keeps its invariant.
LEMMA PspStep == PspInv /\ [P!Next]_P!vars => PspInv'
<1> SUFFICES ASSUME PspInv, [P!Next]_P!vars PROVE PspInv'
  OBVIOUS
<1>0. HostInv(PSP_MODS) /\ commands = <<>> /\ guest = 1 /\ edge = 0 /\ activeMod \in 1 .. PSP_MODS
      /\ P!ModShown
  BY DEF PspInv
<1>1. CASE P!Tick
  BY <1>1, PspTick
<1>2. CASE P!EndTicks
  <2>1. UNCHANGED <<hostVars, activeMod>> /\ pc' = "present"
    BY <1>2 DEF P!EndTicks, P!hostVars, hostVars
  <2>2. HostInv(PSP_MODS)' /\ P!ModShown'
    BY <1>0, <2>1, HostStays DEF P!ModShown, hostVars
  <2> QED BY <1>0, <2>1, <2>2 DEF PspInv, hostVars
<1>3. CASE P!Present
  <2>1. /\ UNCHANGED <<guest, commands, intents, config, pending, game, edge, loading, asked, want, activeMod>>
        /\ pc' = "transition" /\ reading' = IF game = NoWorld THEN {} ELSE {game.serial}
    BY <1>3, PspSame DEF P!Present
  <2>2. game # NoWorld => game.serial \in Serials
    BY <1>0 DEF HostInv, Configured
  <2>3. reading' \subseteq Serials /\ OnlyLiveWorldsRead'
    BY <2>1, <2>2 DEF OnlyLiveWorldsRead
  <2>4. HostInv(PSP_MODS)' /\ P!ModShown'
    BY <1>0, <2>1, <2>3 DEF HostInv, PressesOfThisWorld, P!ModShown
  <2> QED BY <1>0, <2>1, <2>4 DEF PspInv
<1>4. CASE P!Transition
  BY <1>4, PspTransition
<1>5. CASE UNCHANGED P!vars
  <2>1. UNCHANGED <<hostVars, activeMod, pc>>
    BY <1>5 DEF P!vars, P!hostVars, P!pspVars, hostVars
  <2>2. HostInv(PSP_MODS)' /\ P!ModShown'
    BY <1>0, <2>1, HostStays DEF P!ModShown, hostVars
  <2> QED BY <1>0, <2>1, <2>2 DEF PspInv, hostVars
<1> QED BY <1>1, <1>2, <1>3, <1>4, <1>5 DEF P!Next

-----------------------------------------------------------------------------
(* What the iPod, the Symbian host and the 3DS have in common.              *)

\* A turn of the guest.
LEMMA TurnKeeps ==
    ASSUME HostInv(MODS), guest # 0, NEW said \in Says, NEW meant \in Meant(FALSE),
           Drains(said) \/ Waits(said), guest' = guest, reading' = reading,
           asked' = AskedAfter(said), want' = WantAfter(said), loading' = LoadingAfter(meant),
           \/ intents' = <<>> /\ pending' = Newest(intents \o meant, pending)
           \/ intents' = intents \o meant /\ pending' = pending,
           edge' \in 0 .. 3, game # NoWorld => edge' \in {0, game.serial}
    PROVE  /\ HostInv(MODS)'
           /\ game' = NoWorld <=> game = NoWorld
           /\ game'.serial = game.serial
<1>1. MODS \in Nat /\ guest \in 0 .. 2
  BY HostAssumption DEF HostInv
<1>2. said \in Seq(WordsOf(MODS, guest)) /\ meant \in Seq(IntentsOf(MODS, guest))
  BY <1>1, VitaSays
<1>3. /\ Configured(MODS, guest', commands', config', game', want', asked')
      /\ game' = NoWorld <=> game = NoWorld
      /\ game'.serial = game.serial
  BY <1>1, <1>2, Turned
<1>4. /\ intents' \in Seq(IntentsOf(MODS, guest'))
      /\ pending' \in IntentsOf(MODS, guest') \cup {NoIntent}
  <2>1. intents \in Seq(IntentsOf(MODS, guest)) /\ pending \in IntentsOf(MODS, guest) \cup {NoIntent}
    BY DEF HostInv
  <2>2. CASE intents' = <<>> /\ pending' = Newest(intents \o meant, pending)
    <3>1. pending' \in IntentsOf(MODS, guest) \cup {pending}
      BY <1>2, <2>1, <2>2, NewestIs
    <3>2. \A T : <<>> \in Seq(T)
      OBVIOUS
    <3> QED BY <2>1, <2>2, <3>1, <3>2
  <2>3. CASE intents' = intents \o meant /\ pending' = pending
    BY <1>2, <2>1, <2>3
  <2> QED BY <2>2, <2>3
<1>5. loading' \in BOOLEAN
  BY DEF LoadingAfter
<1>6. reading' \subseteq Serials /\ OnlyLiveWorldsRead' /\ PressesOfThisWorld'
  BY <1>3 DEF HostInv, OnlyLiveWorldsRead, PressesOfThisWorld
<1> QED BY <1>1, <1>3, <1>4, <1>5, <1>6 DEF HostInv

\* A guest is evaluated.
LEMMA Booted ==
    ASSUME guest' \in 1 .. 2, NEW m \in 1 .. MODS, NEW said,
           said = <<Said(guest', "weapon", m), Said(guest', "bots", m)>>,
           commands' = said, config' = <<>>, asked' = Replayed(NewSim, said),
           intents' = <<>>, pending' = NoIntent, game' = NoWorld, want' = NoWorld, reading' = {},
           edge' = 0, loading' \in BOOLEAN
    PROVE  HostInv(MODS)'
<1>1. MODS \in Nat \ {0} /\ guest' \in 0 .. 2 /\ guest' # 0 /\ edge' \in 0 .. 3
  BY HostAssumption
<1>2. said \in Seq(WordsOf(MODS, guest'))
  <2>1. PICK g \in 0 .. 2 : g = guest'
    BY <1>1
  <2>2. <<Said(g, "weapon", m), Said(g, "bots", m)>> \in Seq(WordsOf(MODS, g))
    BY <1>1, OfItsOwn
  <2> QED BY <2>1, <2>2
<1>3. Configured(MODS, guest', commands', config', game', want', asked')
  <2>1. PICK g \in 0 .. 2 : g = guest'
    BY <1>1
  <2>2. \A s \in Seq(WordsOf(MODS, g)) :
          Configured(MODS, g, s, <<>>, NoWorld, NoWorld, Replayed(NewSim, s))
    BY <1>1, Begun
  <2> QED BY <1>2, <2>1, <2>2
<1> QED BY <1>1, <1>3, NoWorldYet

\* A guest is gone.
LEMMA Gone ==
    ASSUME guest' = 0, commands' = <<>>, config' = <<>>, asked' = NewSim,
           intents' = <<>>, pending' = NoIntent, game' = NoWorld, want' = NoWorld, reading' = {},
           edge' = 0, loading' \in BOOLEAN
    PROVE  HostInv(MODS)'
<1>1. MODS \in Nat /\ guest' \in 0 .. 2 /\ edge' \in 0 .. 3
  BY HostAssumption
<1>2. Configured(MODS, guest', commands', config', game', want', asked')
  BY <1>1, Begun
<1> QED BY <1>1, <1>2, NoWorldYet

\* A map that is not loaded: the guest is in the menu, and says something there.
LEMMA NotThere ==
    ASSUME guest \in 0 .. 2, guest # 0, NEW cf, NEW gm, NEW wt,
           Configured(MODS, guest, <<>>, cf, gm, wt, asked), NEW said \in Says,
           commands' = said, config' = cf, game' = NoWorld, want' = NoWorld,
           asked' = Replayed(asked, said), guest' = guest
    PROVE  Configured(MODS, guest', commands', config', game', want', asked')
<1>1. MODS \in Nat /\ said \in Seq(WordsOf(MODS, guest))
  BY HostAssumption, VitaSays
<1>2. Configured(MODS, guest, <<>>, cf, NoWorld, NoWorld, asked)
  BY <1>1, BackInMenu
<1>3. <<>> \o said = said
  BY <1>1
<1>4. Configured(MODS, guest, <<>> \o said, cf, NoWorld, NoWorld, Replayed(asked, said))
  BY <1>1, <1>2, MenuTurn
<1> QED BY <1>3, <1>4

\* Initially, where no guest runs yet.
LEMMA AtFirst ==
    ASSUME guest = 0, commands = <<>>, config = <<>>, intents = <<>>, pending = NoIntent,
           game = NoWorld, want = NoWorld, reading = {}, asked = NewSim, edge = 0,
           loading \in BOOLEAN
    PROVE  HostInv(MODS)
<1>1. MODS \in Nat /\ guest \in 0 .. 2 /\ edge \in 0 .. 3
  BY HostAssumption
<1>2. Configured(MODS, guest, commands, config, game, want, asked)
  BY <1>1, Begun
<1>3. intents \in Seq(IntentsOf(MODS, guest)) /\ pending \in IntentsOf(MODS, guest) \cup {NoIntent}
  <2>1. \A T : <<>> \in Seq(T)
    OBVIOUS
  <2> QED BY <2>1
<1>4. NobodyHere /\ reading \subseteq Serials /\ OnlyLiveWorldsRead /\ PressesOfThisWorld
  BY DEF NobodyHere, OnlyLiveWorldsRead, PressesOfThisWorld
<1> QED BY <1>1, <1>2, <1>3, <1>4 DEF HostInv

\* What waits is drained when a turn is over.
LEMMA QueueDrained ==
    ASSUME HostInv(MODS)
    PROVE  /\ game = NoWorld =>
                Configured(MODS, guest, <<>>, RetainAll(config, commands), NoWorld, want, asked)
           /\ game # NoWorld =>
                /\ Configured(MODS, guest, <<>>, config, Replayed(game, commands), want, asked)
                /\ Replayed(game, commands) # NoWorld
                /\ Replayed(game, commands).serial = game.serial
<1>1. MODS \in Nat /\ guest \in 0 .. 2 /\ Configured(MODS, guest, commands, config, game, want, asked)
  BY HostAssumption DEF HostInv
<1>2. PICK said : said \in Seq(WordsOf(MODS, guest)) /\ said = <<>>
  <2>1. \A T : <<>> \in Seq(T)
    OBVIOUS
  <2> QED BY <2>1
<1>3. commands \o said = commands
  <2>1. commands \in Seq(WordsOf(MODS, guest))
    BY <1>1 DEF Configured
  <2> QED BY <1>2, <2>1
<1>4. Replayed(asked, said) = asked /\ Replayed(want, said) = want
  <2>1. asked \in Sim /\ want \in Sim
    BY <1>1 DEF Configured
  <2> QED BY <1>2, <2>1, ReplayedNone
<1>5. CASE game = NoWorld
  BY <1>1, <1>2, <1>3, <1>4, <1>5, MenuTurn
<1>6. CASE game # NoWorld
  <2>1. /\ Configured(MODS, guest, <<>>, config, Replayed(game, commands \o said), Replayed(want, said), asked)
        /\ Replayed(game, commands \o said) # NoWorld
        /\ Replayed(game, commands \o said).serial = game.serial
    <3>1. said \in Seq(WordsOf(MODS, guest))
      BY <1>2
    <3> QED BY <1>1, <1>6, <3>1, WorldTurn
  <2> QED BY <1>3, <1>4, <1>6, <2>1
<1> QED BY <1>5, <1>6

\* Once what is configured is settled, so is the rest.
LEMMA Settled ==
    ASSUME HostInv(MODS), guest # 0, guest' = guest, reading' = {},
           Configured(MODS, guest', commands', config', game', want', asked'),
           intents' \in {<<>>, intents}, pending' \in {NoIntent, pending},
           edge' \in 0 .. 3, loading' \in BOOLEAN, PressesOfThisWorld'
    PROVE  HostInv(MODS)'
<1>1. guest \in 0 .. 2 /\ guest' # 0
  BY DEF HostInv
<1>2. /\ intents' \in Seq(IntentsOf(MODS, guest'))
      /\ pending' \in IntentsOf(MODS, guest') \cup {NoIntent}
  <2>1. intents \in Seq(IntentsOf(MODS, guest)) /\ pending \in IntentsOf(MODS, guest) \cup {NoIntent}
    BY DEF HostInv
  <2>2. \A T : <<>> \in Seq(T)
    OBVIOUS
  <2> QED BY <2>1, <2>2
<1>3. reading' \subseteq Serials /\ OnlyLiveWorldsRead'
  BY DEF OnlyLiveWorldsRead
<1> QED BY <1>1, <1>2, <1>3 DEF HostInv

-----------------------------------------------------------------------------
(* The iPod.                                                                *)

\* The copies of what Host defines are what Host defines.
LEMMA IPodSame ==
    /\ I!NewSim = NewSim /\ I!NoWorld = NoWorld /\ I!NoIntent = NoIntent
    /\ \A s, q : I!Replayed(s, q) = Replayed(s, q)
    /\ \A k, q : I!RetainAll(k, q) = RetainAll(k, q)
    /\ \A q, o : I!Newest(q, o) = Newest(q, o)
    /\ \A s : I!AskedAfter(s) = AskedAfter(s) /\ I!WantAfter(s) = WantAfter(s)
    /\ \A m : I!LoadingAfter(m) = LoadingAfter(m)
    /\ \A said : I!FromMap(said) = FromMap(said)
    /\ \A m, net : I!AskedWorld(m, net) = AskedWorld(m, net)
    /\ \A g, kind, m : I!Said(g, kind, m) = Said(g, kind, m)
    /\ I!Says = Says /\ I!Meant(FALSE) = Meant(FALSE)
    /\ \A q : I!Discarded(q) = <<>>
<1>1. I!NewSim = NewSim /\ I!NoWorld = NoWorld /\ I!NoIntent = NoIntent
  BY DEF I!NewSim, NewSim, I!NoWorld, NoWorld, I!NoIntent, NoIntent
<1>2. \A s, q : I!Replayed(s, q) = Replayed(s, q)
  BY DEF I!Replayed, Replayed, I!Applied, Applied
<1>3. \A k, q : I!RetainAll(k, q) = RetainAll(k, q)
  BY DEF I!RetainAll, RetainAll, I!Retain, Retain, I!Without, Without, I!IsSetting, IsSetting,
         I!Kinds, Kinds
<1>4. \A q, o : I!Newest(q, o) = Newest(q, o)
  BY DEF I!Newest, Newest, I!Last, Last
<1>5. \A s : I!AskedAfter(s) = AskedAfter(s) /\ I!WantAfter(s) = WantAfter(s)
  BY <1>1, <1>2 DEF I!AskedAfter, AskedAfter, I!WantAfter, WantAfter
<1>6. \A m : I!LoadingAfter(m) = LoadingAfter(m)
  BY <1>1 DEF I!LoadingAfter, LoadingAfter
<1>7. I!NextSerial = NextSerial
  BY DEF I!NextSerial, NextSerial
<1>8. \A m, net : I!AskedWorld(m, net) = AskedWorld(m, net)
  BY <1>7 DEF I!AskedWorld, AskedWorld
<1>9. \A g, kind, m : I!Said(g, kind, m) = Said(g, kind, m)
  BY DEF I!Said, Said
<1>10. I!Says = Says
  BY DEF I!Says, I!CommandsOf, I!Said, Says, CommandsOf, Said
<1>11. I!Meant(FALSE) = Meant(FALSE)
  <2>1. I!ToMenu(guest) = ToMenu(guest) /\ I!LoadsOf(guest, FALSE) = LoadsOf(guest, FALSE)
    BY <1>1 DEF I!ToMenu, ToMenu, I!LoadsOf, LoadsOf
  <2> QED BY <1>1, <2>1 DEF I!Meant, Meant
<1>12. \A said : I!FromMap(said) = FromMap(said)
  BY <1>1, <1>2, <1>7 DEF I!FromMap, FromMap
<1>13. \A q : I!Discarded(q) = <<>>
  BY DEF I!Discarded
<1> QED BY <1>1, <1>2, <1>3, <1>4, <1>5, <1>6, <1>8, <1>9, <1>10, <1>11, <1>12, <1>13

\* The input that the guest leaves.
IPodInputs ==
    {i \in [paused : BOOLEAN, edge : {0, edge, I!Here}] : i.paused => i.edge = 0}

\* What the guest calls of its input.
IPodCall == [kind : {"touch", "pause"}, paused : BOOLEAN]

\* One call.
LEMMA IPodCalled ==
    ASSUME NEW i \in IPodInputs, NEW c \in IPodCall
    PROVE  I!Called(i, c) \in IPodInputs
<1>1. c.paused \in BOOLEAN
  BY DEF IPodCall
<1>2. CASE c.kind = "pause"
  <2>1. I!Called(i, c) = [paused |-> c.paused, edge |-> 0]
    BY <1>2 DEF I!Called
  <2> QED BY <1>1, <2>1 DEF IPodInputs
<1>3. CASE c.kind # "pause" /\ i.paused
  BY <1>3 DEF I!Called
<1>4. CASE c.kind # "pause" /\ ~i.paused
  <2>1. I!Called(i, c) = [i EXCEPT !.edge = I!Here]
    BY <1>4 DEF I!Called
  <2> QED BY <1>4, <2>1 DEF IPodInputs
<1> QED BY <1>2, <1>3, <1>4

\* All calls of a turn.
LEMMA IPodCalledAll ==
    ASSUME NEW i \in IPodInputs, NEW calls \in Seq(IPodCall)
    PROVE  I!CalledAll(i, calls) \in IPodInputs
<1> DEFINE turns == Len(calls)
           after == CHOOSE f : f = [n \in 0 .. turns |-> IF n = 0 THEN i ELSE I!Called(f[n - 1], calls[n])]
           step == [x \in (1 .. turns) \X IPodInputs |-> I!Called(x[2], calls[x[1]])]
<1>1. turns \in Nat
  OBVIOUS
<1>2. step \in [(1 .. turns) \X IPodInputs -> IPodInputs]
  <2>1. \A x \in (1 .. turns) \X IPodInputs : calls[x[1]] \in IPodCall /\ x[2] \in IPodInputs
    OBVIOUS
  <2> HIDE DEF turns
  <2> QED BY <2>1, IPodCalled
<1>3. PICK f \in [0 .. turns -> IPodInputs] : IsLoop(f, turns, i, step)
  <2> HIDE DEF turns, step, after
  <2> QED BY <1>1, <1>2, LoopThrough
<1>4. f = [n \in 0 .. turns |-> IF n = 0 THEN i ELSE I!Called(f[n - 1], calls[n])]
  <2>1. ASSUME NEW n \in 0 .. turns, n # 0
        PROVE  step[<<n, f[n - 1]>>] = I!Called(f[n - 1], calls[n])
    <3> HIDE DEF turns
    <3>1. n \in 1 .. turns /\ f[n - 1] \in IPodInputs
      BY <1>1, <1>3, <2>1
    <3> QED BY <3>1
  <2> HIDE DEF step, turns
  <2> QED BY <1>3, <2>1 DEF IsLoop
<1>5. after = [n \in 0 .. turns |-> IF n = 0 THEN i ELSE I!Called(after[n - 1], calls[n])]
  BY <1>4
<1>6. I!CalledAll(i, calls) = after[turns]
  BY DEF I!CalledAll
<1> HIDE DEF after, step
<1>7. after[0] = f[0] /\ \A n \in 1 .. turns : after[n - 1] = f[n - 1] => after[n] = f[n]
  <2> HIDE DEF turns
  <2>1. \A n \in 1 .. turns : /\ after[n] = I!Called(after[n - 1], calls[n])
                              /\ f[n] = I!Called(f[n - 1], calls[n])
    BY <1>1, <1>4, <1>5
  <2>2. after[0] = i /\ f[0] = i
    BY <1>1, <1>4, <1>5
  <2> QED BY <2>1, <2>2
<1>8. \A n \in 0 .. turns : after[n] = f[n]
  <2> HIDE DEF turns
  <2> QED BY <1>1, <1>7, TurnsAgree, ZenonT(60)
<1>9. f[turns] \in IPodInputs
  <2> HIDE DEF turns
  <2> QED BY <1>1, <1>3
<1> QED BY <1>6, <1>8, <1>9

\* Initially.
LEMMA IPodInit == ASSUME I!Init PROVE IPodInv
<1>1. /\ guest = 0 /\ commands = <<>> /\ config = <<>> /\ intents = <<>> /\ pending = NoIntent
      /\ game = NoWorld /\ want = NoWorld /\ reading = {} /\ asked = NewSim /\ edge = 0
      /\ loading = FALSE /\ pc = "off" /\ context = 1 /\ paused = FALSE /\ names = 0
  BY IPodSame DEF I!Init
<1>2. loading \in BOOLEAN
  BY <1>1
<1>3. HostInv(MODS)
  BY <1>1, <1>2, AtFirst
<1>4. paused \in BOOLEAN
  BY <1>1
<1> QED BY <1>1, <1>3, <1>4 DEF IPodInv, I!NamesOfContext, I!NothingWaitsPaused

\* before, and the frame of the guest.
LEMMA IPodTurn == ASSUME IPodInv, I!Turn PROVE IPodInv'
<1>0. /\ HostInv(MODS) /\ pc = "before" /\ guest # 0 /\ reading = {}
      /\ paused \in BOOLEAN /\ context \in 1 .. 2 /\ names \in {0, context}
      /\ (paused => edge = 0)
  BY DEF IPodInv, I!Turn, I!NamesOfContext, I!NothingWaitsPaused
<1>1. PICK said \in Says, meant \in Meant(FALSE), calls \in I!Calls, due \in BOOLEAN :
        LET ticked == due /\ ~paused /\ game # NoWorld
            input == I!CalledAll([paused |-> paused, edge |-> IF ticked THEN 0 ELSE edge], calls)
        IN  /\ commands' = commands \o said /\ intents' = intents \o meant
            /\ paused' = input.paused /\ edge' = input.edge
            /\ asked' = AskedAfter(said) /\ want' = WantAfter(said)
            /\ loading' = LoadingAfter(meant)
            /\ pc' \in {"after", "failed"}
  BY IPodSame DEF I!Turn
<1>2. UNCHANGED <<guest, config, pending, game, reading, context, names>>
  BY DEF I!Turn
<1>3. PICK i : i = [paused |-> paused,
                    edge |-> IF due /\ ~paused /\ game # NoWorld THEN 0 ELSE edge]
  OBVIOUS
<1>4. i \in IPodInputs
  BY <1>0, <1>3 DEF IPodInputs
<1>5. calls \in Seq(IPodCall)
  <2>1. I!Touch \in IPodCall /\ I!SetPaused(TRUE) \in IPodCall /\ I!SetPaused(FALSE) \in IPodCall
    BY DEF I!Touch, I!SetPaused, IPodCall
  <2>2. \A T : /\ <<>> \in Seq(T)
               /\ \A a \in T : <<a>> \in Seq(T)
               /\ \A a, b \in T : <<a, b>> \in Seq(T)
    OBVIOUS
  <2> QED BY <1>1, <2>1, <2>2 DEF I!Calls
<1>6. PICK o \in IPodInputs : o = I!CalledAll(i, calls)
  BY <1>4, <1>5, IPodCalledAll
<1>7. paused' = o.paused /\ edge' = o.edge
  BY <1>1, <1>3, <1>6
<1>8. edge' \in {0, edge, I!Here} /\ (paused' => edge' = 0)
  BY <1>6, <1>7 DEF IPodInputs
<1>9. paused' \in BOOLEAN
  BY <1>6, <1>7 DEF IPodInputs
<1>10. I!Here = IF game = NoWorld THEN 3 ELSE game.serial
  BY IPodSame DEF I!Here
<1>11. edge' \in 0 .. 3 /\ (game # NoWorld => edge' \in {0, game.serial})
  <2>1. edge \in 0 .. 3 /\ (game # NoWorld => edge \in {0, game.serial} /\ game.serial \in 0 .. 3)
    BY <1>0 DEF HostInv, PressesOfThisWorld, Configured, Sim
  <2> QED BY <1>8, <1>10, <2>1
<1>12. HostInv(MODS)'
  <2>1. Waits(said)
    BY <1>1, <1>2 DEF Waits
  <2> QED BY <1>0, <1>1, <1>2, <1>11, <2>1, TurnKeeps
<1> QED BY <1>0, <1>1, <1>2, <1>8, <1>9, <1>12 DEF IPodInv, I!NamesOfContext, I!NothingWaitsPaused

\* after: the queue is drained, and the last intent acted on.
LEMMA IPodAfter == ASSUME IPodInv, I!After PROVE IPodInv'
<1>0. /\ HostInv(MODS) /\ pc = "after" /\ guest # 0 /\ reading = {} /\ guest \in 0 .. 2
      /\ paused \in BOOLEAN /\ context \in 1 .. 2 /\ names \in {0, context}
      /\ (paused => edge = 0) /\ edge \in 0 .. 3 /\ loading \in BOOLEAN /\ MODS \in Nat
  BY HostAssumption DEF IPodInv, I!After, I!NamesOfContext, I!NothingWaitsPaused, HostInv
<1>1. /\ intents' = <<>> /\ config' = I!Drained.config
      /\ UNCHANGED <<guest, pending, reading, context>>
  BY DEF I!After
<1>2. PICK i : /\ i = Newest(intents, NoIntent)
               /\ \/ i.kind = "load" /\ (I!Loaded(i) \/ I!NotLoaded(i))
                  \/ i.kind = "menu" /\ I!ToTheMenu
                  \/ /\ i.kind = "none" /\ game' = I!Drained.game
                     /\ commands' = <<>> /\ pc' = "render"
                     /\ UNCHANGED <<want, names, paused, edge, loading, asked>>
  BY IPodSame DEF I!After
<1>3. PICK gm : /\ gm = I!Drained.game
                /\ Configured(MODS, guest, <<>>, config', gm, want, asked)
                /\ (gm = NoWorld <=> game = NoWorld) /\ gm.serial = game.serial
  BY <1>0, <1>1, QueueDrained, IPodSame DEF I!Drained
<1>4. \* The configuration.
      /\ Configured(MODS, guest', commands', config', game', want', asked')
      /\ (i.kind # "none" /\ game' # NoWorld => edge' = 0)
      /\ (i.kind = "none" => game' = gm /\ edge' = edge)
      /\ edge' \in 0 .. 3 /\ (paused' => edge' = 0) /\ names' \in {0, context'}
      /\ pc' \in {"render", "failed"}
  <2>1. CASE i.kind = "load" /\ I!Loaded(i)
    <3>1. /\ game' = [FromMap(config') EXCEPT !.mod = i.mod] /\ want' = AskedWorld(i.mod, FALSE)
          /\ commands' = <<>> /\ asked' = asked /\ names' = context /\ paused' = FALSE
          /\ edge' = 0 /\ pc' = "render"
      BY <1>1, <2>1, IPodSame DEF I!Loaded
    <3>2. i.mod \in Nat
      <4>1. intents \in Seq(IntentsOf(MODS, guest)) /\ NoIntent.mod = 0
        BY <1>0 DEF HostInv, NoIntent
      <4>2. i \in IntentsOf(MODS, guest) \cup {NoIntent}
        BY <1>2, <4>1, NewestIs
      <4> QED BY <4>1, <4>2 DEF IntentsOf
    <3>3. PICK m : m = i.mod /\ m \in Nat
      BY <3>2
    <3>4. Configured(MODS, guest', commands', config', game', want', asked')
      BY <1>0, <1>1, <1>3, <3>1, <3>3, Loads
    <3>5. context' = context /\ names' = context /\ paused' = FALSE /\ edge' = 0 /\ pc' = "render"
      BY <1>1, <3>1
    <3> QED BY <2>1, <3>4, <3>5
  <2>2. CASE i.kind = "load" /\ I!NotLoaded(i)
    <3>1. PICK said \in Says : commands' = said /\ asked' = Replayed(asked, said)
      BY <2>2, IPodSame DEF I!NotLoaded
    <3>2. /\ game' = NoWorld /\ want' = NoWorld /\ names' = 0
          /\ (paused' = FALSE /\ edge' = 0) \/ (paused' = paused /\ edge' = edge)
          /\ pc' \in {"render", "failed"}
      BY <2>2, IPodSame DEF I!NotLoaded
    <3>3. Configured(MODS, guest', commands', config', game', want', asked')
      BY <1>0, <1>1, <1>3, <3>1, <3>2, NotThere
    <3> QED BY <1>0, <1>1, <2>2, <3>2, <3>3
  <2>3. CASE i.kind = "menu" /\ I!ToTheMenu
    <3>1. /\ game' = NoWorld /\ want' = NoWorld /\ names' = 0 /\ paused' = FALSE /\ edge' = 0
          /\ commands' = <<>> /\ asked' = asked /\ pc' = "render"
      BY <2>3, IPodSame DEF I!ToTheMenu
    <3>2. Configured(MODS, guest', commands', config', game', want', asked')
      BY <1>0, <1>1, <1>3, <3>1, BackInMenu
    <3> QED BY <1>1, <2>3, <3>1, <3>2
  <2>4. CASE /\ i.kind = "none" /\ game' = I!Drained.game
             /\ commands' = <<>> /\ pc' = "render"
             /\ UNCHANGED <<want, names, paused, edge, loading, asked>>
    BY <1>0, <1>1, <1>3, <2>4
  <2> QED BY <1>2, <2>1, <2>2, <2>3, <2>4
<1>5. paused' \in BOOLEAN
  BY <1>0, <1>2 DEF I!Loaded, I!NotLoaded, I!ToTheMenu
<1>6. loading' \in BOOLEAN
  BY <1>0, <1>2 DEF I!Loaded, I!NotLoaded, I!ToTheMenu, I!Told
<1>7. PressesOfThisWorld'
  <2>1. game # NoWorld => edge \in {0, game.serial}
    BY <1>0 DEF HostInv, PressesOfThisWorld
  <2> QED BY <1>3, <1>4, <2>1 DEF PressesOfThisWorld
<1>8. HostInv(MODS)'
  BY <1>0, <1>1, <1>4, <1>6, <1>7, Settled
<1> QED BY <1>0, <1>1, <1>4, <1>5, <1>8 DEF IPodInv, I!NamesOfContext, I!NothingWaitsPaused

\* The iPod keeps its invariant.
LEMMA IPodStep == IPodInv /\ [I!Next]_I!vars => IPodInv'
<1> SUFFICES ASSUME IPodInv, [I!Next]_I!vars PROVE IPodInv'
  OBVIOUS
<1>0. /\ HostInv(MODS) /\ (pc = "off") = (guest = 0) /\ reading = {}
      /\ pc \in {"off", "before", "after", "render", "failed"}
      /\ context \in 1 .. 2 /\ names \in {0, context} /\ (paused => edge = 0)
  BY DEF IPodInv, I!NamesOfContext, I!NothingWaitsPaused
<1>8. paused \in BOOLEAN
  BY DEF IPodInv
<1>1. CASE I!Boot
  <2>1. commands = <<>> /\ intents = <<>> /\ pc' = "before"
    BY <1>0, <1>1 DEF HostInv, NobodyHere, I!Boot
  <2>2. PICK m \in 1 .. MODS :
          LET said == <<Said(I!NextGuest, "weapon", m), Said(I!NextGuest, "bots", m)>>
          IN  commands' = commands \o said /\ asked' = Replayed(NewSim, said)
    BY <1>1, IPodSame DEF I!Boot
  <2>3. /\ guest' = I!NextGuest /\ guest' \in 1 .. 2 /\ intents' = <<>> /\ context' = context
        /\ config' = <<>> /\ pending' = NoIntent /\ game' = NoWorld /\ want' = NoWorld
        /\ reading' = {} /\ edge' = 0 /\ loading' = FALSE /\ paused' = FALSE /\ names' = 0
    BY <1>1, <2>1, IPodSame DEF I!Boot, I!Fresh, I!NextGuest
  <2>4. PICK said : said = <<Said(guest', "weapon", m), Said(guest', "bots", m)>>
    OBVIOUS
  <2>5. commands' = said /\ asked' = Replayed(NewSim, said)
    <3>1. \A a, b : <<>> \o <<a, b>> = <<a, b>>
      OBVIOUS
    <3> QED BY <2>1, <2>2, <2>3, <2>4, <3>1
  <2>6. loading' \in BOOLEAN
    BY <2>3
  <2>7. paused' \in BOOLEAN
    BY <2>3
  <2>8. HostInv(MODS)'
    BY <2>2, <2>3, <2>4, <2>5, <2>6, Booted
  <2> QED BY <1>0, <2>1, <2>3, <2>7, <2>8 DEF IPodInv, I!NamesOfContext, I!NothingWaitsPaused
<1>2. CASE I!Turn
  BY <1>2, IPodTurn
<1>3. CASE I!After
  BY <1>3, IPodAfter
<1>4. CASE I!Render
  <2>1. UNCHANGED <<hostVars, paused, context>> /\ pc = "render" /\ pc' \in {"before", "failed"}
        /\ names' \in {names, context}
    BY <1>4 DEF I!Render, I!EnsureGraphics, I!hostVars, hostVars
  <2>2. HostInv(MODS)'
    BY <1>0, <2>1, HostStays
  <2> QED BY <1>0, <1>8, <2>1, <2>2 DEF IPodInv, I!NamesOfContext, I!NothingWaitsPaused, hostVars
<1>5. CASE I!ReleaseGraphics
  <2>1. /\ UNCHANGED <<guest, commands, intents, config, pending, game, reading, loading, asked, want>>
        /\ UNCHANGED <<pc, paused>> /\ names' = 0 /\ edge' = 0 /\ context' \in {context, 3 - context}
    BY <1>5 DEF I!ReleaseGraphics, I!ForgetNames
  <2>2. HostInv(MODS)'
    BY <1>0, <2>1 DEF HostInv, NobodyHere, OnlyLiveWorldsRead, PressesOfThisWorld
  <2> QED BY <1>0, <1>8, <2>1, <2>2 DEF IPodInv, I!NamesOfContext, I!NothingWaitsPaused
<1>6. CASE I!Shutdown
  <2>1. /\ guest' = 0 /\ asked' = NewSim /\ commands' = <<>> /\ intents' = <<>> /\ config' = <<>>
        /\ pending' = NoIntent /\ game' = NoWorld /\ want' = NoWorld /\ reading' = {}
        /\ edge' = 0 /\ loading' = FALSE /\ names' = 0 /\ context' = context /\ pc' = "off"
    BY <1>6, IPodSame DEF I!Shutdown, I!ForgetNames
  <2>2. loading' \in BOOLEAN
    BY <2>1
  <2>3. paused' \in BOOLEAN
    BY <1>6 DEF I!Shutdown
  <2>4. HostInv(MODS)'
    BY <2>1, <2>2, Gone
  <2> QED BY <1>0, <2>1, <2>3, <2>4 DEF IPodInv, I!NamesOfContext, I!NothingWaitsPaused
<1>7. CASE UNCHANGED I!vars
  <2>1. UNCHANGED <<hostVars, pc, paused, context, names>>
    BY <1>7 DEF I!vars, I!hostVars, I!ipodVars, hostVars
  <2>2. HostInv(MODS)'
    BY <1>0, <2>1, HostStays
  <2> QED BY <1>0, <1>8, <2>1, <2>2 DEF IPodInv, I!NamesOfContext, I!NothingWaitsPaused, hostVars
<1> QED BY <1>1, <1>2, <1>3, <1>4, <1>5, <1>6, <1>7 DEF I!Next

-----------------------------------------------------------------------------
(* The Symbian host.                                                        *)

\* The copies of what Host defines are what Host defines.
LEMMA SymbianSame ==
    /\ S!NewSim = NewSim /\ S!NoWorld = NoWorld /\ S!NoIntent = NoIntent
    /\ \A s, q : S!Replayed(s, q) = Replayed(s, q)
    /\ \A k, q : S!RetainAll(k, q) = RetainAll(k, q)
    /\ \A q, o : S!Newest(q, o) = Newest(q, o)
    /\ \A s : S!AskedAfter(s) = AskedAfter(s) /\ S!WantAfter(s) = WantAfter(s)
    /\ \A m : S!LoadingAfter(m) = LoadingAfter(m)
    /\ \A said : S!FromMap(said) = FromMap(said)
    /\ \A m, net : S!AskedWorld(m, net) = AskedWorld(m, net)
    /\ \A g, kind, m : S!Said(g, kind, m) = Said(g, kind, m)
    /\ S!Says = Says /\ S!Meant(FALSE) = Meant(FALSE)
    /\ \A q : S!Discarded(q) = <<>>
<1>1. S!NewSim = NewSim /\ S!NoWorld = NoWorld /\ S!NoIntent = NoIntent
  BY DEF S!NewSim, NewSim, S!NoWorld, NoWorld, S!NoIntent, NoIntent
<1>2. \A s, q : S!Replayed(s, q) = Replayed(s, q)
  BY DEF S!Replayed, Replayed, S!Applied, Applied
<1>3. \A k, q : S!RetainAll(k, q) = RetainAll(k, q)
  BY DEF S!RetainAll, RetainAll, S!Retain, Retain, S!Without, Without, S!IsSetting, IsSetting,
         S!Kinds, Kinds
<1>4. \A q, o : S!Newest(q, o) = Newest(q, o)
  BY DEF S!Newest, Newest, S!Last, Last
<1>5. \A s : S!AskedAfter(s) = AskedAfter(s) /\ S!WantAfter(s) = WantAfter(s)
  BY <1>1, <1>2 DEF S!AskedAfter, AskedAfter, S!WantAfter, WantAfter
<1>6. \A m : S!LoadingAfter(m) = LoadingAfter(m)
  BY <1>1 DEF S!LoadingAfter, LoadingAfter
<1>7. S!NextSerial = NextSerial
  BY DEF S!NextSerial, NextSerial
<1>8. \A m, net : S!AskedWorld(m, net) = AskedWorld(m, net)
  BY <1>7 DEF S!AskedWorld, AskedWorld
<1>9. \A g, kind, m : S!Said(g, kind, m) = Said(g, kind, m)
  BY DEF S!Said, Said
<1>10. S!Says = Says
  BY DEF S!Says, S!CommandsOf, S!Said, Says, CommandsOf, Said
<1>11. S!Meant(FALSE) = Meant(FALSE)
  <2>1. S!ToMenu(guest) = ToMenu(guest) /\ S!LoadsOf(guest, FALSE) = LoadsOf(guest, FALSE)
    BY <1>1 DEF S!ToMenu, ToMenu, S!LoadsOf, LoadsOf
  <2> QED BY <1>1, <2>1 DEF S!Meant, Meant
<1>12. \A said : S!FromMap(said) = FromMap(said)
  BY <1>1, <1>2, <1>7 DEF S!FromMap, FromMap
<1>13. \A q : S!Discarded(q) = <<>>
  BY DEF S!Discarded
<1> QED BY <1>1, <1>2, <1>3, <1>4, <1>5, <1>6, <1>8, <1>9, <1>10, <1>11, <1>12, <1>13

\* Initially.
LEMMA SymbianInit == ASSUME S!Init PROVE SymbianInv
<1>1. /\ guest = 0 /\ commands = <<>> /\ config = <<>> /\ intents = <<>> /\ pending = NoIntent
      /\ game = NoWorld /\ want = NoWorld /\ reading = {} /\ asked = NewSim /\ edge = 0
      /\ loading = FALSE /\ pc = "off" /\ ticks = S!TICKS_PER_HOST_FRAME
  BY SymbianSame DEF S!Init
<1>2. loading \in BOOLEAN
  BY <1>1
<1>3. HostInv(MODS)
  BY <1>1, <1>2, AtFirst
<1> QED BY <1>1, <1>3 DEF SymbianInv, S!TICKS_PER_HOST_FRAME

\* A drain is one as all hosts have.
LEMMA SymbianDrains ==
    ASSUME NEW said, NEW meant, S!DrainCommands(said, meant)
    PROVE  /\ Drains(said) /\ commands' = <<>> /\ intents' = <<>>
           /\ pending' = Newest(intents \o meant, pending)
BY SymbianSame DEF S!DrainCommands, S!LogAll, Drains

\* dispatch_tick.
LEMMA SymbianTick == ASSUME SymbianInv, S!DispatchTick PROVE SymbianInv'
<1>0. /\ HostInv(MODS) /\ pc = "before" /\ guest # 0 /\ edge = 0 /\ reading = {}
      /\ ticks \in 1 .. 2
  BY DEF SymbianInv, S!DispatchTick, S!TICKS_PER_HOST_FRAME
<1>1. PICK said \in Says, meant \in Meant(FALSE) :
        /\ asked' = AskedAfter(said) /\ want' = WantAfter(said) /\ loading' = LoadingAfter(meant)
        /\ \/ /\ S!DrainCommands(said, meant)
              /\ ticks' = IF ticks = 1 THEN S!TICKS_PER_HOST_FRAME ELSE ticks - 1
              /\ pc' = IF ticks = 1 THEN "after" ELSE pc
           \/ /\ pc' = "failed"
              /\ commands' = commands \o said /\ intents' = intents \o meant
              /\ UNCHANGED <<config, pending, game, ticks>>
  BY SymbianSame DEF S!DispatchTick
<1>2. UNCHANGED <<guest, reading, edge>>
  BY DEF S!DispatchTick
<1>3. ticks' \in 1 .. 2 /\ pc' \in {"before", "after", "failed"}
  BY <1>0, <1>1 DEF S!TICKS_PER_HOST_FRAME
<1>4. /\ Drains(said) \/ Waits(said)
      /\ \/ intents' = <<>> /\ pending' = Newest(intents \o meant, pending)
         \/ intents' = intents \o meant /\ pending' = pending
  BY <1>1, SymbianDrains DEF Waits
<1>5. HostInv(MODS)'
  <2>1. edge' \in 0 .. 3 /\ (game # NoWorld => edge' \in {0, game.serial})
    BY <1>0, <1>2
  <2> QED BY <1>0, <1>1, <1>2, <1>4, <2>1, TurnKeeps
<1> QED BY <1>0, <1>2, <1>3, <1>5 DEF SymbianInv, S!TICKS_PER_HOST_FRAME

\* The frame of the guest, and after_guest.
LEMMA SymbianAfter == ASSUME SymbianInv, S!AfterGuest PROVE SymbianInv'
<1>0. /\ HostInv(MODS) /\ pc = "after" /\ guest # 0 /\ edge = 0 /\ reading = {}
      /\ ticks \in 1 .. S!TICKS_PER_HOST_FRAME
  BY DEF SymbianInv, S!AfterGuest
<1>1. PICK said \in Says, meant \in Meant(FALSE) :
        /\ asked' = AskedAfter(said) /\ want' = WantAfter(said) /\ loading' = LoadingAfter(meant)
        /\ S!DrainCommands(said, meant)
  BY SymbianSame DEF S!AfterGuest
<1>2. UNCHANGED <<guest, reading, edge, ticks>> /\ pc' = "render"
  BY DEF S!AfterGuest
<1>3. /\ Drains(said) /\ commands' = <<>> /\ intents' = <<>>
      /\ pending' = Newest(intents \o meant, pending)
  BY <1>1, SymbianDrains
<1>4. HostInv(MODS)'
  <2>1. edge' \in 0 .. 3 /\ (game # NoWorld => edge' \in {0, game.serial})
    BY <1>0, <1>2
  <2> QED BY <1>0, <1>1, <1>2, <1>3, <2>1, TurnKeeps
<1> QED BY <1>0, <1>2, <1>3, <1>4 DEF SymbianInv

\* render, which loads and drops worlds.
LEMMA SymbianRender == ASSUME SymbianInv, S!Render PROVE SymbianInv'
<1>0. /\ HostInv(MODS) /\ pc = "render" /\ guest # 0 /\ edge = 0 /\ reading = {} /\ commands = <<>>
      /\ ticks \in 1 .. S!TICKS_PER_HOST_FRAME /\ guest \in 0 .. 2 /\ MODS \in Nat
      /\ loading \in BOOLEAN
  BY HostAssumption DEF SymbianInv, S!Render, HostInv
<1>1. /\ pending' = NoIntent /\ pc' \in {"before", "failed"}
      /\ UNCHANGED <<guest, commands, intents, config, reading, edge, asked, ticks>>
  BY SymbianSame DEF S!Render
<1>2. Configured(MODS, guest, <<>>, config, game, want, asked)
  BY <1>0 DEF HostInv
<1>3. Configured(MODS, guest', commands', config', game', want', asked')
  <2>1. CASE S!GameLoaded
    <3>1. game' = [FromMap(config) EXCEPT !.mod = 1] /\ want' = AskedWorld(1, FALSE)
      BY <2>1, SymbianSame DEF S!GameLoaded
    <3>2. PICK m \in Nat : m = 1
      OBVIOUS
    <3>3. game' = [FromMap(config) EXCEPT !.mod = m] /\ want' = AskedWorld(m, FALSE)
      BY <3>1, <3>2
    <3> QED BY <1>0, <1>1, <1>2, <3>3, Loads
  <2>2. CASE S!GameGone
    <3>1. game' = NoWorld /\ want' = NoWorld
      BY <2>2, SymbianSame DEF S!GameGone
    <3> QED BY <1>0, <1>1, <1>2, <3>1, BackInMenu
  <2>3. CASE UNCHANGED <<game, want, loading>>
    BY <1>0, <1>1, <1>2, <2>3
  <2> QED BY <2>1, <2>2, <2>3 DEF S!Render
<1>4. loading' \in BOOLEAN
  BY <1>0 DEF S!Render, S!GameLoaded, S!GameGone
<1>5. PressesOfThisWorld' /\ edge' \in 0 .. 3
  BY <1>0, <1>1 DEF PressesOfThisWorld
<1>6. HostInv(MODS)'
  BY <1>0, <1>1, <1>3, <1>4, <1>5, Settled
<1> QED BY <1>0, <1>1, <1>6 DEF SymbianInv

\* The Symbian host keeps its invariant.
LEMMA SymbianStep == SymbianInv /\ [S!Next]_S!vars => SymbianInv'
<1> SUFFICES ASSUME SymbianInv, [S!Next]_S!vars PROVE SymbianInv'
  OBVIOUS
<1>0. /\ HostInv(MODS) /\ (pc = "off") = (guest = 0) /\ edge = 0 /\ reading = {}
      /\ pc \in {"off", "before", "after", "render", "failed"}
      /\ (pc = "render" => commands = <<>>) /\ ticks \in 1 .. S!TICKS_PER_HOST_FRAME
  BY DEF SymbianInv
<1>1. CASE S!Boot
  <2>1. PICK m \in 1 .. MODS :
          LET said == <<Said(S!NextGuest, "weapon", m), Said(S!NextGuest, "bots", m)>>
          IN  commands' = <<>> \o said /\ asked' = Replayed(NewSim, said)
    BY <1>1, SymbianSame DEF S!Boot
  <2>2. /\ guest' = S!NextGuest /\ guest' \in 1 .. 2 /\ intents' = <<>> /\ pc' = "before"
        /\ config' = <<>> /\ pending' = NoIntent /\ game' = NoWorld /\ want' = NoWorld
        /\ reading' = {} /\ edge' = 0 /\ loading' = FALSE /\ ticks' = S!TICKS_PER_HOST_FRAME
    BY <1>1, SymbianSame DEF S!Boot, S!Fresh, S!NextGuest
  <2>3. PICK said : said = <<Said(guest', "weapon", m), Said(guest', "bots", m)>>
    OBVIOUS
  <2>4. commands' = said /\ asked' = Replayed(NewSim, said)
    <3>1. \A a, b : <<>> \o <<a, b>> = <<a, b>>
      OBVIOUS
    <3> QED BY <2>1, <2>2, <2>3, <3>1
  <2>5. loading' \in BOOLEAN
    BY <2>2
  <2>6. HostInv(MODS)'
    BY <2>1, <2>2, <2>3, <2>4, <2>5, Booted
  <2> QED BY <2>2, <2>6 DEF SymbianInv, S!TICKS_PER_HOST_FRAME
<1>2. CASE S!DispatchTick
  BY <1>2, SymbianTick
<1>3. CASE S!AfterGuest
  BY <1>3, SymbianAfter
<1>4. CASE S!Render
  BY <1>4, SymbianRender
<1>5. CASE S!Shutdown
  <2>1. /\ guest' = 0 /\ asked' = NewSim /\ commands' = <<>> /\ intents' = <<>> /\ config' = <<>>
        /\ pending' = NoIntent /\ game' = NoWorld /\ want' = NoWorld /\ reading' = {}
        /\ edge' = 0 /\ loading' = FALSE /\ pc' = "off" /\ ticks' = S!TICKS_PER_HOST_FRAME
    BY <1>5, SymbianSame DEF S!Shutdown, S!Fresh, S!EmptyQueues
  <2>2. loading' \in BOOLEAN
    BY <2>1
  <2>3. HostInv(MODS)'
    BY <2>1, <2>2, Gone
  <2> QED BY <2>1, <2>3 DEF SymbianInv, S!TICKS_PER_HOST_FRAME
<1>6. CASE UNCHANGED S!vars
  <2>1. UNCHANGED <<hostVars, pc, ticks>>
    BY <1>6 DEF S!vars, S!hostVars, S!symbianVars, hostVars
  <2>2. HostInv(MODS)'
    BY <1>0, <2>1, HostStays
  <2> QED BY <1>0, <2>1, <2>2 DEF SymbianInv, hostVars
<1> QED BY <1>1, <1>2, <1>3, <1>4, <1>5, <1>6 DEF S!Next

-----------------------------------------------------------------------------
(* The 3DS.                                                                 *)

\* The copies of what Host defines are what Host defines.
LEMMA N3dsSame ==
    /\ N!NewSim = NewSim /\ N!NoWorld = NoWorld /\ N!NoIntent = NoIntent
    /\ \A s, q : N!Replayed(s, q) = Replayed(s, q)
    /\ \A k, q : N!RetainAll(k, q) = RetainAll(k, q)
    /\ \A q, o : N!Newest(q, o) = Newest(q, o)
    /\ \A s : N!AskedAfter(s) = AskedAfter(s) /\ N!WantAfter(s) = WantAfter(s)
    /\ \A m : N!LoadingAfter(m) = LoadingAfter(m)
    /\ \A said : N!FromMap(said) = FromMap(said)
    /\ \A m, net : N!AskedWorld(m, net) = AskedWorld(m, net)
    /\ \A g, kind, m : N!Said(g, kind, m) = Said(g, kind, m)
    /\ N!Says = Says /\ N!Meant(FALSE) = Meant(FALSE)
    /\ \A q : N!Discarded(q) = <<>>
<1>1. N!NewSim = NewSim /\ N!NoWorld = NoWorld /\ N!NoIntent = NoIntent
  BY DEF N!NewSim, NewSim, N!NoWorld, NoWorld, N!NoIntent, NoIntent
<1>2. \A s, q : N!Replayed(s, q) = Replayed(s, q)
  BY DEF N!Replayed, Replayed, N!Applied, Applied
<1>3. \A k, q : N!RetainAll(k, q) = RetainAll(k, q)
  BY DEF N!RetainAll, RetainAll, N!Retain, Retain, N!Without, Without, N!IsSetting, IsSetting,
         N!Kinds, Kinds
<1>4. \A q, o : N!Newest(q, o) = Newest(q, o)
  BY DEF N!Newest, Newest, N!Last, Last
<1>5. \A s : N!AskedAfter(s) = AskedAfter(s) /\ N!WantAfter(s) = WantAfter(s)
  BY <1>1, <1>2 DEF N!AskedAfter, AskedAfter, N!WantAfter, WantAfter
<1>6. \A m : N!LoadingAfter(m) = LoadingAfter(m)
  BY <1>1 DEF N!LoadingAfter, LoadingAfter
<1>7. N!NextSerial = NextSerial
  BY DEF N!NextSerial, NextSerial
<1>8. \A m, net : N!AskedWorld(m, net) = AskedWorld(m, net)
  BY <1>7 DEF N!AskedWorld, AskedWorld
<1>9. \A g, kind, m : N!Said(g, kind, m) = Said(g, kind, m)
  BY DEF N!Said, Said
<1>10. N!Says = Says
  BY DEF N!Says, N!CommandsOf, N!Said, Says, CommandsOf, Said
<1>11. N!Meant(FALSE) = Meant(FALSE)
  <2>1. N!ToMenu(guest) = ToMenu(guest) /\ N!LoadsOf(guest, FALSE) = LoadsOf(guest, FALSE)
    BY <1>1 DEF N!ToMenu, ToMenu, N!LoadsOf, LoadsOf
  <2> QED BY <1>1, <2>1 DEF N!Meant, Meant
<1>12. \A said : N!FromMap(said) = FromMap(said)
  BY <1>1, <1>2, <1>7 DEF N!FromMap, FromMap
<1>13. \A q : N!Discarded(q) = <<>>
  BY DEF N!Discarded
<1> QED BY <1>1, <1>2, <1>3, <1>4, <1>5, <1>6, <1>8, <1>9, <1>10, <1>11, <1>12, <1>13

\* What the GPU holds for the world there is.
GpuHolds(gm, nx, g, r, tx, j) ==
    /\ nx \in 0 .. TEXTURES /\ j \in 0 .. PIECES
    /\ g \in [world : BOOLEAN, chars : BOOLEAN, uploaded : 0 .. TEXTURES]
    /\ r \in {0} \cup N!UiHandles /\ (gm # NoWorld => r # 0)
    /\ g.uploaded = nx
    /\ g.world = (gm # NoWorld) /\ g.chars = (gm # NoWorld)
    /\ tx = IF gm = NoWorld THEN {} ELSE {r}
    /\ gm = NoWorld => j = 0

\* The invariant of the 3DS, in parts.
LEMMA N3dsParts ==
    N3dsInv <=>
    /\ HostInv(MODS)
    /\ pc \in {"off", "tick", "after", "prepare", "upload", "render", "failed"}
    /\ (pc = "off") = (guest = 0) /\ reading = {}
    /\ pc \in {"prepare", "upload"} => commands = <<>>
    /\ pc = "upload" => game # NoWorld
    /\ touched \in 0 .. 3 /\ (game # NoWorld => touched \in {0, game.serial})
    /\ GpuHolds(game, next, gpu, radar, uiTextures, job)
BY N3dsSame DEF N3dsInv, GpuHolds, N!GpuMatchesGame, N!TouchesOfThisWorld

\* The parts, after a step.
LEMMA N3dsPartsAfter ==
    ASSUME HostInv(MODS)', guest' # 0 \/ pc' = "off", pc' = "off" => guest' = 0, reading' = {},
           pc' \in {"off", "tick", "after", "prepare", "upload", "render", "failed"},
           pc' \in {"prepare", "upload"} => commands' = <<>>,
           pc' = "upload" => game' # NoWorld,
           touched' \in 0 .. 3, game' # NoWorld => touched' \in {0, game'.serial},
           GpuHolds(game', next', gpu', radar', uiTextures', job')
    PROVE  N3dsInv'
BY N3dsSame DEF N3dsInv, GpuHolds, N!GpuMatchesGame, N!TouchesOfThisWorld

\* The GPU holds what it did, where there is a world as there was.
LEMMA GpuStays ==
    ASSUME NEW gm, NEW nx, NEW g, NEW r, NEW tx, NEW j, GpuHolds(gm, nx, g, r, tx, j),
           NEW hm, hm = NoWorld <=> gm = NoWorld
    PROVE  GpuHolds(hm, nx, g, r, tx, j)
<1>1. (hm # NoWorld) = (gm # NoWorld) /\ (hm = NoWorld) = (gm = NoWorld)
  OBVIOUS
<1>2. CASE gm = NoWorld
  BY <1>1, <1>2 DEF GpuHolds
<1>3. CASE gm # NoWorld
  BY <1>1, <1>3 DEF GpuHolds
<1> QED BY <1>2, <1>3

\* It holds nothing, where there is no world.
LEMMA GpuEmpty == GpuHolds(NoWorld, 0, N!EmptyGpu, 0, {}, 0)
<1>1. TEXTURES \in Nat \ {0} /\ PIECES \in Nat \ {0}
  BY HostsAssumption
<1>2. N!EmptyGpu \in [world : BOOLEAN, chars : BOOLEAN, uploaded : 0 .. TEXTURES]
  BY <1>1 DEF N!EmptyGpu
<1>3. /\ N!EmptyGpu.uploaded = 0
      /\ N!EmptyGpu.world = (NoWorld # NoWorld) /\ N!EmptyGpu.chars = (NoWorld # NoWorld)
  BY DEF N!EmptyGpu
<1> QED BY <1>1, <1>2, <1>3 DEF GpuHolds

\* It holds a new world.
LEMMA GpuNew ==
    ASSUME NEW gm, gm # NoWorld, NEW t \in N!UiHandles
    PROVE  GpuHolds(gm, 0, [world |-> TRUE, chars |-> TRUE, uploaded |-> 0], t, {t}, 0)
<1>1. TEXTURES \in Nat \ {0} /\ PIECES \in Nat \ {0} /\ t # 0
  BY HostsAssumption DEF N!UiHandles
<1>2. PICK g : g = [world |-> TRUE, chars |-> TRUE, uploaded |-> 0]
  OBVIOUS
<1>3. g \in [world : BOOLEAN, chars : BOOLEAN, uploaded : 0 .. TEXTURES]
  BY <1>1, <1>2
<1>4. g.uploaded = 0 /\ g.world = (gm # NoWorld) /\ g.chars = (gm # NoWorld)
  BY <1>2
<1>5. GpuHolds(gm, 0, g, t, {t}, 0)
  BY <1>1, <1>3, <1>4 DEF GpuHolds
<1> QED BY <1>2, <1>5

\* Initially.
LEMMA N3dsInit == ASSUME N!Init PROVE N3dsInv
<1>1. /\ guest = 0 /\ commands = <<>> /\ config = <<>> /\ intents = <<>> /\ pending = NoIntent
      /\ game = NoWorld /\ want = NoWorld /\ reading = {} /\ asked = NewSim /\ edge = 0
      /\ loading = FALSE /\ pc = "off" /\ touched = 0
      /\ next = 0 /\ gpu = N!EmptyGpu /\ radar = 0 /\ uiTextures = {} /\ job = 0
  BY N3dsSame DEF N!Init
<1>2. loading \in BOOLEAN
  BY <1>1
<1>3. HostInv(MODS)
  BY <1>1, <1>2, AtFirst
<1> QED BY <1>1, <1>3, GpuEmpty, N3dsParts

\* A drain is one as all hosts have.
LEMMA N3dsDrains ==
    ASSUME NEW said, NEW meant, N!Drain(said, meant)
    PROVE  /\ Drains(said) /\ commands' = <<>> /\ intents' = <<>>
           /\ pending' = Newest(intents \o meant, pending)
           /\ asked' = AskedAfter(said) /\ want' = WantAfter(said) /\ loading' = LoadingAfter(meant)
BY N3dsSame DEF N!Drain, Drains

\* What waits to be pressed or touched, where a host is.
LEMMA N3dsHere ==
    ASSUME HostInv(MODS)
    PROVE  /\ edge \in 0 .. 3 /\ (game # NoWorld => edge \in {0, game.serial})
           /\ N!Here \in 0 .. 3 /\ (game # NoWorld => N!Here = game.serial)
<1>1. edge \in 0 .. 3 /\ (game # NoWorld => edge \in {0, game.serial}) /\ game.serial \in 0 .. 2
  BY DEF HostInv, PressesOfThisWorld, Configured, Sim
<1> QED BY <1>1, N3dsSame DEF N!Here

\* os3ds_tick, and the frame of the guest before os3ds_after.
LEMMA N3dsTurns == ASSUME N3dsInv, N!Tick \/ N!After PROVE N3dsInv'
<1>0. /\ HostInv(MODS) /\ guest # 0 /\ reading = {} /\ touched \in 0 .. 3
      /\ (game # NoWorld => touched \in {0, game.serial})
      /\ GpuHolds(game, next, gpu, radar, uiTextures, job)
  BY N3dsParts DEF N!Tick, N!After
<1>1. PICK said \in Says, meant \in Meant(FALSE) : N!Drain(said, meant)
  BY N3dsSame DEF N!Tick, N!After
<1>2. /\ UNCHANGED <<guest, reading, next, gpu, radar, uiTextures, job>>
      /\ pc' \in {"after", "failed", "prepare"}
  BY DEF N!Tick, N!After
<1>3. edge' \in {0, edge, N!Here} /\ touched' \in {0, touched, N!Here}
  BY DEF N!Tick, N!After, N!GuestTouches
<1>4. /\ Drains(said) /\ commands' = <<>> /\ intents' = <<>>
      /\ pending' = Newest(intents \o meant, pending)
      /\ asked' = AskedAfter(said) /\ want' = WantAfter(said) /\ loading' = LoadingAfter(meant)
  BY <1>1, N3dsDrains
<1>5. /\ edge' \in 0 .. 3 /\ (game # NoWorld => edge' \in {0, game.serial})
      /\ touched' \in 0 .. 3 /\ (game # NoWorld => touched' \in {0, game.serial})
  BY <1>0, <1>3, N3dsHere
<1>6. /\ HostInv(MODS)' /\ (game' = NoWorld <=> game = NoWorld) /\ game'.serial = game.serial
  BY <1>0, <1>1, <1>2, <1>4, <1>5, TurnKeeps
<1>7. GpuHolds(game', next', gpu', radar', uiTextures', job')
  BY <1>0, <1>2, <1>6, GpuStays
<1> QED BY <1>0, <1>2, <1>4, <1>5, <1>6, <1>7, N3dsPartsAfter

\* A map that is not there: what the host held is released, and the guest in the
\* menu hears of it.
LEMMA N3dsMapError ==
    ASSUME N3dsInv, commands = <<>>, guest # 0, N!MapError, pending' \in {NoIntent, pending},
           guest' = guest, reading' = reading
    PROVE  N3dsInv'
<1>0. /\ HostInv(MODS) /\ reading = {} /\ guest \in 0 .. 2 /\ edge \in 0 .. 3 /\ loading \in BOOLEAN
      /\ uiTextures = IF game = NoWorld THEN {} ELSE {radar}
  BY N3dsParts DEF HostInv, GpuHolds
<1>1. PICK said \in Says : commands' = said /\ asked' = Replayed(asked, said)
  <2>1. PICK said \in Says : commands' = commands \o said /\ asked' = Replayed(asked, said)
    BY N3dsSame DEF N!MapError
  <2>2. said \in Seq(WordsOf(MODS, guest))
    BY <1>0, <2>1, VitaSays
  <2> QED BY <2>1, <2>2
<1>2. /\ touched' = 0 /\ gpu' = N!EmptyGpu /\ game' = NoWorld /\ want' = NoWorld /\ next' = 0
      /\ job' = 0 /\ radar' = 0 /\ uiTextures' = {}
      /\ UNCHANGED <<intents, config, edge>> /\ pc' \in {"render", "failed"}
  BY <1>0, N3dsSame DEF N!MapError, N!ReleaseGame, N!NewTouches
<1>3. loading' \in BOOLEAN
  BY DEF N!MapError
<1>4. Configured(MODS, guest', commands', config', game', want', asked')
  <2>1. Configured(MODS, guest, <<>>, config, game, want, asked)
    BY <1>0 DEF HostInv
  <2> QED BY <1>0, <1>1, <1>2, <2>1, NotThere
<1>5. HostInv(MODS)'
  <2>1. PressesOfThisWorld'
    BY <1>2 DEF PressesOfThisWorld
  <2> QED BY <1>0, <1>2, <1>3, <1>4, <2>1, Settled
<1>6. GpuHolds(game', next', gpu', radar', uiTextures', job')
  BY <1>2, GpuEmpty
<1> QED BY <1>0, <1>2, <1>5, <1>6, N3dsPartsAfter

\* os3ds_prepare begins with the intent.
LEMMA N3dsPrepare == ASSUME N3dsInv, N!Prepare PROVE N3dsInv'
<1>0. /\ HostInv(MODS) /\ reading = {} /\ guest \in 0 .. 2 /\ guest # 0 /\ edge \in 0 .. 3
      /\ commands = <<>> /\ touched \in 0 .. 3 /\ (game # NoWorld => touched \in {0, game.serial})
      /\ GpuHolds(game, next, gpu, radar, uiTextures, job) /\ MODS \in Nat
  BY HostAssumption, N3dsParts DEF HostInv, N!Prepare
<1>1. pending' = NoIntent /\ UNCHANGED <<guest, reading>>
  BY N3dsSame DEF N!Prepare
<1>2. /\ Configured(MODS, guest, <<>>, config, game, want, asked)
      /\ uiTextures = IF game = NoWorld THEN {} ELSE {radar}
      /\ loading \in BOOLEAN
  BY <1>0 DEF HostInv, GpuHolds
<1>3. CASE pending.kind = "load" /\ N!Load(pending)
  <2>1. /\ game' = [FromMap(config) EXCEPT !.mod = pending.mod]
        /\ want' = AskedWorld(pending.mod, FALSE)
        /\ gpu' = [world |-> TRUE, chars |-> TRUE, uploaded |-> 0] /\ next' = 0
        /\ job' = 0 /\ touched' = 0 /\ edge' = 0 /\ loading' = FALSE
        /\ pc' \in {"upload", "failed"} /\ UNCHANGED <<commands, intents, config, asked>>
    BY <1>3, N3dsSame DEF N!Load, N!NewTouches
  <2>2. PICK t \in N!UiHandles : radar' = t /\ uiTextures' = {t}
    <3>1. PICK t \in N!UiHandles : radar' = t /\ uiTextures' = (uiTextures \ {radar}) \cup {t}
      BY <1>3 DEF N!Load
    <3> QED BY <1>2, <3>1
  <2>3. PICK m \in Nat : m = pending.mod
    <3>1. pending \in IntentsOf(MODS, guest) \cup {NoIntent} /\ NoIntent.mod = 0
      BY <1>0 DEF HostInv, NoIntent
    <3>2. pending.mod \in Nat
      BY <3>1 DEF IntentsOf
    <3> QED BY <3>2
  <2>4. /\ Configured(MODS, guest', commands', config', game', want', asked')
        /\ game' # NoWorld
    BY <1>0, <1>1, <1>2, <2>1, <2>3, Loads
  <2>5. loading' \in BOOLEAN
    BY <2>1
  <2>6. PressesOfThisWorld' /\ edge' \in 0 .. 3
    BY <2>1 DEF PressesOfThisWorld
  <2>7. HostInv(MODS)'
    <3>1. intents' = intents
      BY <2>1
    <3> QED BY <1>0, <1>1, <2>4, <2>5, <2>6, <3>1, Settled
  <2>8. GpuHolds(game', next', gpu', radar', uiTextures', job')
    BY <2>1, <2>2, <2>4, GpuNew
  <2> QED BY <1>0, <1>1, <2>1, <2>4, <2>7, <2>8, N3dsPartsAfter
<1>4. CASE pending.kind = "load" /\ N!MapError
  BY <1>0, <1>1, <1>4, N3dsMapError
<1>5. CASE pending.kind = "menu" /\ N!BackToMenu
  <2>1. /\ touched' = 0 /\ gpu' = N!EmptyGpu /\ game' = NoWorld /\ want' = NoWorld /\ next' = 0
        /\ job' = 0 /\ radar' = 0 /\ uiTextures' = {} /\ pc' \in {"render", "failed"}
        /\ UNCHANGED <<commands, intents, config, edge, asked, loading>>
    BY <1>2, <1>5, N3dsSame DEF N!BackToMenu, N!ReleaseGame, N!NewTouches
  <2>2. Configured(MODS, guest', commands', config', game', want', asked')
    BY <1>0, <1>1, <1>2, <2>1, BackInMenu
  <2>3. loading' \in BOOLEAN
    BY <1>2, <2>1
  <2>4. PressesOfThisWorld' /\ edge' \in 0 .. 3 /\ intents' = intents
    BY <1>0, <2>1 DEF PressesOfThisWorld
  <2>5. HostInv(MODS)'
    BY <1>0, <1>1, <2>2, <2>3, <2>4, Settled
  <2>6. GpuHolds(game', next', gpu', radar', uiTextures', job')
    BY <2>1, GpuEmpty
  <2> QED BY <1>0, <1>1, <2>1, <2>5, <2>6, N3dsPartsAfter
<1>6. CASE /\ pending.kind = "none"
           /\ pc' = IF game = NoWorld THEN "render" ELSE "upload"
           /\ UNCHANGED <<commands, intents, config, game, edge, loading, asked, want>>
           /\ UNCHANGED <<next, gpu, radar, uiTextures, job, touched>>
  <2>1. PressesOfThisWorld'
    BY <1>0, <1>6 DEF HostInv, PressesOfThisWorld
  <2>2. Configured(MODS, guest', commands', config', game', want', asked')
    BY <1>0, <1>1, <1>2, <1>6
  <2>3. loading' \in BOOLEAN
    BY <1>2, <1>6
  <2>4. HostInv(MODS)'
    BY <1>0, <1>1, <1>6, <2>1, <2>2, <2>3, Settled
  <2> QED BY <1>0, <1>1, <1>6, <2>4, N3dsPartsAfter
<1> QED BY <1>3, <1>4, <1>5, <1>6, N3dsSame DEF N!Prepare

\* The rest of it: a texture, and a piece of the minimap.
LEMMA N3dsUpload == ASSUME N3dsInv, N!Upload PROVE N3dsInv'
<1>0. /\ HostInv(MODS) /\ reading = {} /\ guest # 0 /\ commands = <<>> /\ game # NoWorld
      /\ touched \in 0 .. 3 /\ (game # NoWorld => touched \in {0, game.serial})
      /\ GpuHolds(game, next, gpu, radar, uiTextures, job)
  BY N3dsParts DEF N!Upload
<1>1. UNCHANGED <<guest, pending, reading>>
  BY DEF N!Upload
<1>2. CASE N!MapError
  BY <1>0, <1>1, <1>2, N3dsMapError
<1>3. CASE /\ next' = IF next < TEXTURES THEN next + 1 ELSE next
           /\ gpu' = [gpu EXCEPT !.uploaded = next'] /\ N!Minimap
           /\ UNCHANGED <<commands, intents, config, game, edge, loading, asked, want, touched>>
  <2>0. TEXTURES \in Nat \ {0} /\ PIECES \in Nat \ {0}
    BY HostsAssumption
  <2>1. /\ next \in 0 .. TEXTURES /\ job \in 0 .. PIECES /\ radar \in N!UiHandles
        /\ gpu \in [world : BOOLEAN, chars : BOOLEAN, uploaded : 0 .. TEXTURES]
        /\ uiTextures = {radar}
    BY <1>0 DEF GpuHolds
  <2>2. next' \in 0 .. TEXTURES
    BY <1>3, <2>0, <2>1
  <2>3. pc' \in {"render", "failed"} /\ job' \in 0 .. PIECES
    BY <1>3, <2>0, <2>1 DEF N!Minimap
  <2>4. radar' \in N!UiHandles /\ uiTextures' = {radar'}
    BY <1>3, <2>1 DEF N!Minimap, N!Swapped
  <2>5. GpuHolds(game', next', gpu', radar', uiTextures', job')
    <3>1. PICK n, g : n = next' /\ g = gpu' /\ g = [gpu EXCEPT !.uploaded = n] /\ n \in 0 .. TEXTURES
      BY <1>3, <2>2
    <3>2. /\ g \in [world : BOOLEAN, chars : BOOLEAN, uploaded : 0 .. TEXTURES]
          /\ g.uploaded = n /\ g.world = gpu.world /\ g.chars = gpu.chars
      BY <2>1, <3>1
    <3>3. gpu.world = (game # NoWorld) /\ gpu.chars = (game # NoWorld)
      BY <1>0 DEF GpuHolds
    <3>4. game' = game /\ radar' # 0
      BY <1>3, <2>4 DEF N!UiHandles
    <3>5. g.world = (game' # NoWorld) /\ g.chars = (game' # NoWorld)
      BY <3>2, <3>3, <3>4
    <3> QED BY <1>0, <2>2, <2>3, <2>4, <3>1, <3>2, <3>4, <3>5 DEF GpuHolds
  <2>6. HostInv(MODS)'
    <3>1. UNCHANGED hostVars
      BY <1>1, <1>3 DEF hostVars
    <3> QED BY <1>0, <3>1, HostStays
  <2> QED BY <1>0, <1>1, <1>3, <2>3, <2>5, <2>6, N3dsPartsAfter
<1> QED BY <1>2, <1>3 DEF N!Upload

\* The 3DS keeps its invariant.
LEMMA N3dsStep == N3dsInv /\ [N!Next]_N!vars => N3dsInv'
<1> SUFFICES ASSUME N3dsInv, [N!Next]_N!vars PROVE N3dsInv'
  OBVIOUS
<1>0. /\ HostInv(MODS) /\ reading = {} /\ loading \in BOOLEAN
      /\ (pc = "off" => guest = 0) /\ (guest = 0 => pc = "off")
      /\ pc \in {"off", "tick", "after", "prepare", "upload", "render", "failed"}
      /\ (pc \in {"prepare", "upload"} => commands = <<>>) /\ (pc = "upload" => game # NoWorld)
      /\ touched \in 0 .. 3 /\ (game # NoWorld => touched \in {0, game.serial})
      /\ GpuHolds(game, next, gpu, radar, uiTextures, job)
      /\ uiTextures = IF game = NoWorld THEN {} ELSE {radar}
  BY N3dsParts DEF HostInv, GpuHolds
<1>1. CASE N!Boot
  <2>1. /\ commands = <<>> /\ config = <<>> /\ pending = NoIntent /\ game = NoWorld
        /\ want = NoWorld
    BY <1>0, <1>1 DEF HostInv, NobodyHere, N!Boot
  <2>2. PICK m \in 1 .. MODS :
          LET said == <<Said(N!NextGuest, "weapon", m), Said(N!NextGuest, "bots", m)>>
          IN  commands' = <<>> \o said /\ asked' = Replayed(NewSim, said)
    BY <1>1, N3dsSame DEF N!Boot
  <2>3. /\ guest' = N!NextGuest /\ guest' \in 1 .. 2 /\ intents' = <<>> /\ pc' = "tick"
        /\ edge' = 0 /\ UNCHANGED <<config, pending, game, reading, loading, want>>
        /\ UNCHANGED <<next, gpu, radar, uiTextures, job, touched>>
    BY <1>1, N3dsSame DEF N!Boot, N!NextGuest
  <2>4. PICK said : said = <<Said(guest', "weapon", m), Said(guest', "bots", m)>>
    OBVIOUS
  <2>5. commands' = said /\ asked' = Replayed(NewSim, said)
    <3>1. \A a, b : <<>> \o <<a, b>> = <<a, b>>
      OBVIOUS
    <3> QED BY <2>2, <2>3, <2>4, <3>1
  <2>6. loading' \in BOOLEAN
    BY <1>0, <2>3
  <2>7. HostInv(MODS)'
    BY <1>0, <2>1, <2>2, <2>3, <2>4, <2>5, <2>6, Booted
  <2> QED BY <1>0, <2>1, <2>3, <2>7, N3dsPartsAfter
<1>2. CASE N!Tick
  BY <1>2, N3dsTurns
<1>3. CASE N!After
  BY <1>3, N3dsTurns
<1>4. CASE N!Prepare
  BY <1>4, N3dsPrepare
<1>5. CASE N!Upload
  BY <1>5, N3dsUpload
<1>6. CASE N!Render
  <2>1. /\ UNCHANGED <<hostVars, next, gpu, radar, uiTextures, job, touched>>
        /\ pc = "render" /\ pc' \in {"tick", "failed"}
    BY <1>6 DEF N!Render, N!hostVars, hostVars
  <2>2. HostInv(MODS)'
    BY <1>0, <2>1, HostStays
  <2>3. UNCHANGED <<guest, game, commands, reading>>
    BY <2>1 DEF hostVars
  <2> QED BY <1>0, <2>1, <2>2, <2>3, N3dsPartsAfter
<1>7. CASE N!Shutdown
  <2>1. /\ guest' = 0 /\ asked' = NewSim /\ commands' = <<>> /\ intents' = <<>> /\ config' = <<>>
        /\ pending' = NoIntent /\ game' = NoWorld /\ want' = NoWorld /\ reading' = {}
        /\ edge' = 0 /\ loading' = FALSE /\ pc' = "off"
        /\ touched' = 0 /\ gpu' = N!EmptyGpu /\ next' = 0 /\ job' = 0 /\ radar' = 0 /\ uiTextures' = {}
    BY <1>0, <1>7, N3dsSame DEF N!Shutdown, N!ReleaseGame, N!NewTouches
  <2>2. loading' \in BOOLEAN
    BY <2>1
  <2>3. HostInv(MODS)'
    BY <2>1, <2>2, Gone
  <2> QED BY <2>1, <2>3, GpuEmpty, N3dsPartsAfter
<1>8. CASE UNCHANGED N!vars
  <2>1. UNCHANGED <<hostVars, pc, next, gpu, radar, uiTextures, job, touched>>
    BY <1>8 DEF N!vars, N!hostVars, N!n3dsVars, hostVars
  <2>2. HostInv(MODS)'
    BY <1>0, <2>1, HostStays
  <2>3. UNCHANGED <<guest, game, commands, reading>>
    BY <2>1 DEF hostVars
  <2> QED BY <1>0, <2>1, <2>2, <2>3, N3dsPartsAfter
<1> QED BY <1>1, <1>2, <1>3, <1>4, <1>5, <1>6, <1>7, <1>8 DEF N!Next

-----------------------------------------------------------------------------
(* The desktop host.                                                        *)

\* The copies of what Host defines are what Host defines.
LEMMA DesktopSame ==
    /\ D!NewSim = NewSim /\ D!NoIntent = NoIntent
    /\ \A s, q : D!Replayed(s, q) = Replayed(s, q)
    /\ \A g, kind, m : D!Said(g, kind, m) = Said(g, kind, m)
<1>1. D!NewSim = NewSim /\ D!NoIntent = NoIntent
  BY DEF D!NewSim, NewSim, D!NoIntent, NoIntent
<1>2. \A s, q : D!Replayed(s, q) = Replayed(s, q)
  BY DEF D!Replayed, Replayed, D!Applied, Applied
<1>3. \A g, kind, m : D!Said(g, kind, m) = Said(g, kind, m)
  BY DEF D!Said, Said
<1> QED BY <1>1, <1>2, <1>3

\* The world that is opened.
LEMMA DesktopOpens ==
    ASSUME NEW n \in Nat, NEW sim \in {D!Opened(n), D!InRoom(D!Opened(n))}
    PROVE  /\ sim \in Sim /\ sim.serial = 1
           /\ sim.net => sim.roster = 0 /\ sim.count = n
<1>1. PICK o : /\ o = [serial |-> 1, mod |-> 0, net |-> FALSE,
                       weapon |-> 0, bots |-> 0, count |-> n, roster |-> n]
               /\ o = D!Opened(n)
  <2>1. PICK o : o = [NewSim EXCEPT !.serial = 1, !.count = n, !.roster = n]
    OBVIOUS
  <2>2. o = D!Opened(n)
    BY <2>1, DesktopSame DEF D!Opened
  <2>3. o = [serial |-> 1, mod |-> 0, net |-> FALSE,
             weapon |-> 0, bots |-> 0, count |-> n, roster |-> n]
    BY <2>1 DEF NewSim
  <2> QED BY <2>2, <2>3
<1>2. PICK r : /\ r = [serial |-> 1, mod |-> 0, net |-> TRUE,
                       weapon |-> 0, bots |-> 0, count |-> n, roster |-> 0]
               /\ r = D!InRoom(D!Opened(n))
  <2>1. PICK r : r = [o EXCEPT !.net = TRUE, !.roster = 0]
    OBVIOUS
  <2>2. r = D!InRoom(D!Opened(n))
    BY <1>1, <2>1 DEF D!InRoom
  <2>3. r = [serial |-> 1, mod |-> 0, net |-> TRUE,
             weapon |-> 0, bots |-> 0, count |-> n, roster |-> 0]
    <3>1. o = [serial |-> 1, mod |-> 0, net |-> FALSE,
               weapon |-> 0, bots |-> 0, count |-> n, roster |-> n]
      BY <1>1
    <3>2. PICK net \in BOOLEAN : net = TRUE
      OBVIOUS
    <3>3. r = [o EXCEPT !.net = net, !.roster = 0]
      BY <2>1, <3>2
    <3> QED BY <3>1, <3>2, <3>3
  <2> QED BY <2>2, <2>3
<1>3. o \in Sim /\ o.serial = 1 /\ ~o.net
  BY <1>1 DEF Sim
<1>4. r \in Sim /\ r.serial = 1 /\ r.roster = 0 /\ r.count = n
  BY <1>2 DEF Sim
<1> QED BY <1>1, <1>2, <1>3, <1>4

\* Initially.
LEMMA DesktopInit == ASSUME D!Init PROVE DesktopInv
<1>1. /\ pc = "tick" /\ guestError = FALSE /\ flying = FALSE /\ bots \in Nat
      /\ intents = <<>> /\ config = <<>> /\ pending = NoIntent /\ asked = NewSim
      /\ reading = {} /\ edge = 0 /\ loading = FALSE
  BY HostsAssumption, DesktopSame DEF D!Init
<1>2. PICK sim \in {D!Opened(bots), D!InRoom(D!Opened(bots))} : D!Boot(sim)
  BY DEF D!Init
<1>3. PICK said : /\ said = <<Said(1, "weapon", 1), Said(1, "bots", 1)>>
                  /\ guest = 1 /\ game = sim /\ commands = said /\ want = Replayed(sim, said)
  BY <1>2, DesktopSame DEF D!Boot
<1>4. sim \in Sim /\ sim.serial = 1 /\ (sim.net => sim.roster = 0 /\ sim.count = bots)
  BY <1>1, <1>2, DesktopOpens
<1>5. game # NoWorld
  BY <1>3, <1>4 DEF NoWorld, NewSim
<1>6. said \in Seq(WordsOf(1, 1)) /\ Seq(WordsOf(1, 1)) \subseteq Seq(Word)
  <2>1. said \in Seq(WordsOf(1, 1))
    BY <1>3, OfItsOwn
  <2>2. WordsOf(1, 1) \subseteq Word
    BY WordsAreWords
  <2> QED BY <2>1, <2>2
<1>7. Configured(1, guest, commands, config, game, want, asked)
  <2>1. NewSim \in Sim /\ ~NewSim.net
    BY DEF NewSim, Sim
  <2>2. Replayed(NewSim, <<>>) = NewSim
    BY <2>1, ReplayedNone
  <2>3. want \in Sim
    <3>1. \A s \in Sim : \A x \in Seq(Word) : Replayed(s, x) \in Sim
      BY ReplayedKeeps
    <3> QED BY <1>3, <1>4, <1>6, <3>1
  <2>4. \A T : <<>> \in Seq(T)
    OBVIOUS
  <2> QED BY <1>1, <1>3, <1>4, <1>5, <1>6, <2>1, <2>2, <2>3, <2>4 DEF Configured, Serials
<1>8. HostInv(1)
  <2>1. \A T : <<>> \in Seq(T)
    OBVIOUS
  <2>2. loading \in BOOLEAN
    BY <1>1
  <2>3. OnlyLiveWorldsRead /\ PressesOfThisWorld
    BY <1>1 DEF OnlyLiveWorldsRead, PressesOfThisWorld
  <2> QED BY <1>1, <1>3, <1>7, <2>1, <2>2, <2>3 DEF HostInv
<1>9. guestError \in BOOLEAN /\ flying \in BOOLEAN /\ ~flying
  BY <1>1
<1>10. D!RoomDecides
  BY <1>3, <1>4, <1>9 DEF D!RoomDecides
<1> QED BY <1>1, <1>3, <1>5, <1>8, <1>9, <1>10 DEF DesktopInv

\* A tick, and the turn of the guest in it.
LEMMA DesktopTick == ASSUME DesktopInv, D!Tick PROVE DesktopInv'
<1>0. /\ HostInv(1) /\ game # NoWorld /\ guest = 1 /\ reading = {} /\ pc = "tick"
      /\ (game.net => game.roster = 0 /\ game.count = bots /\ ~flying)
  BY DEF DesktopInv, D!RoomDecides, D!Tick
<1>1. PICK said \in D!Rules :
        /\ want' = Replayed(want, said)
        /\ \/ D!Throws(commands \o said)
           \/ D!Drained(commands \o said) /\ UNCHANGED guestError
  BY DesktopSame DEF D!Tick
<1>2. /\ UNCHANGED <<guest, intents, config, pending, reading, edge, loading, asked, pc, bots>>
      /\ flying' \in IF game.net THEN {flying} ELSE BOOLEAN
  BY DEF D!Tick
<1>3. said \in Seq(WordsOf(1, guest))
  <2>1. Said(1, "reset", 0) \in WordsOf(1, 1)
    BY DEF WordsOf
  <2>2. \A T : <<>> \in Seq(T) /\ \A a \in T : <<a>> \in Seq(T)
    OBVIOUS
  <2>3. said \in {<<>>, <<Said(1, "reset", 0)>>}
    BY <1>1, DesktopSame DEF D!Rules
  <2> QED BY <1>0, <2>1, <2>2, <2>3
<1>4. Drains(said) \/ Waits(said)
  BY <1>0, <1>1, <1>2, DesktopSame DEF Drains, Waits, D!Throws, D!Drained
<1>5. /\ Configured(1, guest', commands', config', game', want', asked')
      /\ game' # NoWorld /\ game'.serial = game.serial /\ game'.net = game.net
      /\ game.net => game' = game
  <2>1. asked' = AskedAfter(said) /\ want' = WantAfter(said)
    BY <1>0, <1>1, <1>2 DEF AskedAfter, WantAfter
  <2> QED BY <1>0, <1>2, <1>3, <1>4, <2>1, Turned
<1>6. HostInv(1)'
  <2>1. reading' \subseteq Serials /\ OnlyLiveWorldsRead' /\ PressesOfThisWorld'
    BY <1>0, <1>2, <1>5 DEF HostInv, OnlyLiveWorldsRead, PressesOfThisWorld
  <2> QED BY <1>0, <1>2, <1>5, <2>1 DEF HostInv
<1>7. D!RoomDecides'
  <2>1. CASE game.net
    BY <1>0, <1>2, <1>5, <2>1 DEF D!RoomDecides
  <2>2. CASE ~game.net
    BY <1>5, <2>2 DEF D!RoomDecides
  <2> QED BY <2>1, <2>2
<1>8. flying' \in BOOLEAN
  BY <1>2 DEF DesktopInv
<1>9. guestError' \in BOOLEAN
  BY <1>1 DEF DesktopInv, D!Throws
<1> QED BY <1>0, <1>2, <1>5, <1>6, <1>7, <1>8, <1>9 DEF DesktopInv

\* The desktop host keeps its invariant.
LEMMA DesktopStep == DesktopInv /\ [D!Next]_D!vars => DesktopInv'
<1> SUFFICES ASSUME DesktopInv, [D!Next]_D!vars PROVE DesktopInv'
  OBVIOUS
<1>1. CASE D!Tick
  BY <1>1, DesktopTick
<1>2. CASE UNCHANGED <<hostVars, guestError, flying, bots>> /\ pc' \in {"tick", "closed"}
  <2>1. HostInv(1)'
    BY <1>2, HostStays DEF DesktopInv
  <2> QED BY <1>2, <2>1 DEF DesktopInv, D!RoomDecides, hostVars
<1>3. D!EndFrame \/ D!Closed \/ UNCHANGED D!vars
      => UNCHANGED <<hostVars, guestError, flying, bots>> /\ pc' \in {"tick", "closed"}
  BY DEF DesktopInv, D!EndFrame, D!Closed, D!vars, D!hostVars, D!desktopVars, hostVars
<1> QED BY <1>1, <1>2, <1>3 DEF D!Next

-----------------------------------------------------------------------------
(* All hosts.                                                               *)

\* Initially, whichever host it is.
LEMMA HostsInitial == HostsInit => HostsInv
<1> SUFFICES ASSUME HostsInit PROVE HostsInv
  OBVIOUS
<1>1. part \in Parts
  BY DEF HostsInit
<1>2. ASSUME part = "vita" PROVE VitaInv
  BY <1>2, VitaInit DEF HostsInit
<1>3. ASSUME part = "psp" PROVE PspInv
  BY <1>3, PspInit DEF HostsInit
<1>4. ASSUME part = "ipod" PROVE IPodInv
  BY <1>4, IPodInit DEF HostsInit
<1>5. ASSUME part = "symbian" PROVE SymbianInv
  BY <1>5, SymbianInit DEF HostsInit
<1>6. ASSUME part = "n3ds" PROVE N3dsInv
  BY <1>6, N3dsInit DEF HostsInit
<1>7. ASSUME part = "desktop" PROVE DesktopInv
  BY <1>7, DesktopInit DEF HostsInit
<1> QED BY <1>1, <1>2, <1>3, <1>4, <1>5, <1>6, <1>7 DEF HostsInv

\* A step is one of the host that runs.
LEMMA HostsInductive == HostsInv /\ [HostsNext]_allVars => HostsInv'
<1> SUFFICES ASSUME HostsInv, [HostsNext]_allVars PROVE HostsInv'
  OBVIOUS
<1>1. part' = part /\ part \in Parts
  BY DEF HostsInv, HostsNext, allVars, VitaNext, PspNext, IPodNext, SymbianNext, N3dsNext, DesktopNext
<1>8. UNCHANGED allVars => /\ UNCHANGED vars /\ UNCHANGED P!vars /\ UNCHANGED I!vars
                          /\ UNCHANGED S!vars /\ UNCHANGED N!vars /\ UNCHANGED D!vars
  BY DEF allVars, vars, hostVars, vitaVars, vitaOwn, pspOwn, ipodOwn, symbianOwn, n3dsOwn, desktopOwn,
         P!vars, P!hostVars, P!pspVars, I!vars, I!hostVars, I!ipodVars, S!vars, S!hostVars,
         S!symbianVars, N!vars, N!hostVars, N!n3dsVars, D!vars, D!hostVars, D!desktopVars
<1>2. ASSUME part = "vita" PROVE VitaInv'
  <2>1. [Next]_vars
    BY <1>2, <1>8 DEF HostsNext, VitaNext, PspNext, IPodNext, SymbianNext, N3dsNext, DesktopNext
  <2> QED BY <1>2, <2>1, VitaStep DEF HostsInv
<1>3. ASSUME part = "psp" PROVE PspInv'
  <2>1. [P!Next]_P!vars
    BY <1>3, <1>8 DEF HostsNext, VitaNext, PspNext, IPodNext, SymbianNext, N3dsNext, DesktopNext
  <2> QED BY <1>3, <2>1, PspStep DEF HostsInv
<1>4. ASSUME part = "ipod" PROVE IPodInv'
  <2>1. [I!Next]_I!vars
    BY <1>4, <1>8 DEF HostsNext, VitaNext, PspNext, IPodNext, SymbianNext, N3dsNext, DesktopNext
  <2> QED BY <1>4, <2>1, IPodStep DEF HostsInv
<1>5. ASSUME part = "symbian" PROVE SymbianInv'
  <2>1. [S!Next]_S!vars
    BY <1>5, <1>8 DEF HostsNext, VitaNext, PspNext, IPodNext, SymbianNext, N3dsNext, DesktopNext
  <2> QED BY <1>5, <2>1, SymbianStep DEF HostsInv
<1>6. ASSUME part = "n3ds" PROVE N3dsInv'
  <2>1. [N!Next]_N!vars
    BY <1>6, <1>8 DEF HostsNext, VitaNext, PspNext, IPodNext, SymbianNext, N3dsNext, DesktopNext
  <2> QED BY <1>6, <2>1, N3dsStep DEF HostsInv
<1>7. ASSUME part = "desktop" PROVE DesktopInv'
  <2>1. [D!Next]_D!vars
    BY <1>7, <1>8 DEF HostsNext, VitaNext, PspNext, IPodNext, SymbianNext, N3dsNext, DesktopNext
  <2> QED BY <1>7, <2>1, DesktopStep DEF HostsInv
<1> QED BY <1>1, <1>2, <1>3, <1>4, <1>5, <1>6, <1>7 DEF HostsInv

\* What any host has in common with all, as far as the properties speak of it.
LEMMA HostKeeps ==
    ASSUME NEW mods \in Nat, HostInv(mods)
    PROVE  /\ ConfiguredAsAsked /\ NothingOfAnother /\ OnlyLiveWorldsRead /\ PressesOfThisWorld
           /\ guest \in 0 .. 2 /\ game.serial \in 0 .. 2 /\ reading \subseteq Serials
           /\ edge \in 0 .. 3 /\ loading \in BOOLEAN
           /\ \A c \in Range(commands) \cup Range(config) : c \in WordsOf(mods, 1) \cup WordsOf(mods, 2)
<1>1. /\ guest \in 0 .. 2 /\ Configured(mods, guest, commands, config, game, want, asked)
      /\ intents \in Seq(IntentsOf(mods, guest))
      /\ pending \in IntentsOf(mods, guest) \cup {NoIntent}
  BY DEF HostInv
<1>2. ConfiguredAsAsked
  BY <1>1 DEF Configured, ConfiguredAsAsked
<1>3. \A T : \A q \in Seq(T) : Range(q) \subseteq T
  BY DEF Range
<1>4. Range(commands) \cup Range(config) \subseteq WordsOf(mods, guest)
  <2>1. commands \in Seq(WordsOf(mods, guest)) /\ config \in Seq(WordsOf(mods, guest))
    BY <1>1 DEF Configured
  <2> QED BY <1>3, <2>1
<1>5. NothingOfAnother
  <2>1. \A c \in WordsOf(mods, guest) : c.by = guest
    BY <1>1, WordsAreWords
  <2>2. \A i \in IntentsOf(mods, guest) : i.by = guest
    BY DEF IntentsOf
  <2>3. Range(intents) \subseteq IntentsOf(mods, guest)
    BY <1>1, <1>3
  <2> QED BY <1>1, <1>4, <2>1, <2>2, <2>3 DEF NothingOfAnother
<1>6. \A c \in Range(commands) \cup Range(config) : c \in WordsOf(mods, 1) \cup WordsOf(mods, 2)
  <2>1. CASE guest = 0
    <3>1. commands = <<>> /\ config = <<>>
      BY <2>1 DEF HostInv, NobodyHere
    <3>2. Range(<<>>) = {}
      BY DEF Range
    <3> QED BY <3>1, <3>2
  <2>2. CASE guest # 0
    <3>1. guest = 1 \/ guest = 2
      BY <1>1, <2>2
    <3> QED BY <1>4, <3>1
  <2> QED BY <2>1, <2>2
<1>7. game.serial \in 0 .. 2
  BY <1>1 DEF Configured, Sim
<1>8. loading \in BOOLEAN
  BY DEF HostInv
<1> QED BY <1>1, <1>2, <1>5, <1>6, <1>7, <1>8 DEF HostInv

\* Every host keeps what all have in common, for the mods it can show.
LEMMA SomeHost ==
    ASSUME HostsInv
    PROVE  /\ ConfiguredAsAsked /\ NothingOfAnother /\ OnlyLiveWorldsRead /\ PressesOfThisWorld
<1>1. MODS \in Nat /\ PSP_MODS \in Nat /\ 1 \in Nat
  BY HostAssumption, HostsAssumption
<1>2. HostInv(MODS) \/ HostInv(PSP_MODS) \/ HostInv(1)
  BY DEF HostsInv, Parts, VitaInv, PspInv, IPodInv, SymbianInv, N3dsInv, DesktopInv
<1> QED BY <1>1, <1>2, HostKeeps

\* Every field keeps its shape.
LEMMA HostsTyped == HostsInv => Types
<1> SUFFICES ASSUME HostsInv PROVE Types
  OBVIOUS
<1>0. MODS \in Nat /\ PSP_MODS \in Nat /\ 1 \in Nat /\ part \in Parts
  BY HostAssumption, HostsAssumption DEF HostsInv
<1>1. CASE part = "vita"
  <2>1. VitaInv /\ HostInv(MODS)
    BY <1>1 DEF HostsInv, VitaInv
  <2>2. HostTypeOK
    BY <1>0, <2>1, HostKeeps DEF HostTypeOK, CommandsOf, WordsOf
  <2>3. owed \in 0 .. 1
    BY <2>1 DEF VitaInv, ReplacedWhole
  <2>4. TypeOK
    BY <2>1, <2>2, <2>3 DEF TypeOK, VitaInv
  <2> QED BY <1>1, <2>4 DEF Types
<1>2. CASE part = "psp"
  <2>1. PspInv /\ HostInv(PSP_MODS)
    BY <1>2 DEF HostsInv, PspInv
  <2>2. \A c \in Range(commands) \cup Range(config) : c \in P!CommandsOf(1) \cup P!CommandsOf(2)
    <3>1. P!CommandsOf(1) = WordsOf(PSP_MODS, 1) /\ P!CommandsOf(2) = WordsOf(PSP_MODS, 2)
      BY DEF P!CommandsOf, P!Said, Said, WordsOf
    <3> QED BY <1>0, <2>1, <3>1, HostKeeps
  <2>3. P!HostTypeOK
    BY <1>0, <2>1, <2>2, HostKeeps DEF P!HostTypeOK, P!Range, Range, P!Serials, Serials
  <2>4. P!TypeOK
    BY <2>1, <2>3 DEF P!TypeOK, PspInv
  <2> QED BY <1>2, <2>4 DEF Types
<1>3. CASE part = "ipod"
  <2>1. IPodInv /\ HostInv(MODS)
    BY <1>3 DEF HostsInv, IPodInv
  <2>2. \A c \in Range(commands) \cup Range(config) : c \in I!CommandsOf(1) \cup I!CommandsOf(2)
    <3>1. I!CommandsOf(1) = WordsOf(MODS, 1) /\ I!CommandsOf(2) = WordsOf(MODS, 2)
      BY DEF I!CommandsOf, I!Said, Said, WordsOf
    <3> QED BY <1>0, <2>1, <3>1, HostKeeps
  <2>3. I!HostTypeOK
    BY <1>0, <2>1, <2>2, HostKeeps DEF I!HostTypeOK, I!Range, Range, I!Serials, Serials
  <2>4. names \in 0 .. 2
    BY <2>1 DEF IPodInv, I!NamesOfContext
  <2>5. I!TypeOK
    BY <2>1, <2>3, <2>4 DEF I!TypeOK, IPodInv
  <2> QED BY <1>3, <2>5 DEF Types
<1>4. CASE part = "symbian"
  <2>1. SymbianInv /\ HostInv(MODS)
    BY <1>4 DEF HostsInv, SymbianInv
  <2>2. \A c \in Range(commands) \cup Range(config) : c \in S!CommandsOf(1) \cup S!CommandsOf(2)
    <3>1. S!CommandsOf(1) = WordsOf(MODS, 1) /\ S!CommandsOf(2) = WordsOf(MODS, 2)
      BY DEF S!CommandsOf, S!Said, Said, WordsOf
    <3> QED BY <1>0, <2>1, <3>1, HostKeeps
  <2>3. S!HostTypeOK
    BY <1>0, <2>1, <2>2, HostKeeps DEF S!HostTypeOK, S!Range, Range, S!Serials, Serials
  <2>4. S!TypeOK
    BY <2>1, <2>3 DEF S!TypeOK, SymbianInv
  <2> QED BY <1>4, <2>4 DEF Types
<1>5. CASE part = "n3ds"
  <2>1. N3dsInv /\ HostInv(MODS)
    BY <1>5 DEF HostsInv, N3dsInv
  <2>2. \A c \in Range(commands) \cup Range(config) : c \in N!CommandsOf(1) \cup N!CommandsOf(2)
    <3>1. N!CommandsOf(1) = WordsOf(MODS, 1) /\ N!CommandsOf(2) = WordsOf(MODS, 2)
      BY DEF N!CommandsOf, N!Said, Said, WordsOf
    <3> QED BY <1>0, <2>1, <3>1, HostKeeps
  <2>3. N!HostTypeOK
    BY <1>0, <2>1, <2>2, HostKeeps DEF N!HostTypeOK, N!Range, Range, N!Serials, Serials
  <2>4. uiTextures \subseteq N!UiHandles
    <3>1. GpuHolds(game, next, gpu, radar, uiTextures, job)
      BY <2>1, N3dsParts
    <3> QED BY <3>1 DEF GpuHolds
  <2>5. N!TypeOK
    BY <2>1, <2>3, <2>4 DEF N!TypeOK, N3dsInv
  <2> QED BY <1>5, <2>5 DEF Types
<1>6. CASE part = "desktop"
  <2>1. DesktopInv /\ HostInv(1)
    BY <1>6 DEF HostsInv, DesktopInv
  <2>2. \A c \in Range(commands) \cup Range(config) : c \in D!CommandsOf(1) \cup D!CommandsOf(2)
    <3>1. D!CommandsOf(1) = WordsOf(1, 1) /\ D!CommandsOf(2) = WordsOf(1, 2)
      BY DEF D!CommandsOf, D!Said, Said, WordsOf
    <3> QED BY <1>0, <2>1, <3>1, HostKeeps
  <2>3. D!HostTypeOK
    BY <1>0, <2>1, <2>2, HostKeeps DEF D!HostTypeOK, D!Range, Range, D!Serials, Serials
  <2>4. D!TypeOK
    BY <2>1, <2>3 DEF D!TypeOK, DesktopInv
  <2> QED BY <1>6, <2>4 DEF Types
<1> QED BY <1>0, <1>1, <1>2, <1>3, <1>4, <1>5, <1>6 DEF Parts

\* The invariant of every reachable state, whatever packs, maps, textures and bots
\* there are.
THEOREM HostsCorrect == HostsSpec => []HostsInv
BY HostsInitial, HostsInductive, PTL DEF HostsSpec

\* Every world, on every host, is the one its guest configured, in the order it did,
\* however often a map fails to load, the guest is replaced or the world is left
\* (retain_configuration, from_map, drain); where a room decides it decides alone.
THEOREM AsAskedCorrect == HostsSpec => []WorldAsAsked
<1>1. HostsInv => WorldAsAsked
  BY SomeHost DEF WorldAsAsked, HostsInv, DesktopInv
<1> QED BY <1>1, HostsCorrect, PTL

\* Nothing that a stopped guest said or meant reaches the guest after it, though the
\* queues outlive both (strike::drain(drop)).
THEOREM OfAnotherCorrect == HostsSpec => []NothingOfAnother
<1>1. HostsInv => NothingOfAnother
  BY SomeHost
<1> QED BY <1>1, HostsCorrect, PTL

\* What the GPU, the UI and a submitted frame hold is of the world there is, and of
\* the context there is (ensure_graphics, release_game, wait_rendering_done).
THEOREM GraphicsCorrect == HostsSpec => []GraphicsMatchWorld
<1>1. HostsInv => GraphicsMatchWorld
  BY SomeHost, HostsTyped DEF GraphicsMatchWorld, HostsInv, PspInv, IPodInv, N3dsInv
<1> QED BY <1>1, HostsCorrect, PTL

\* A press or touch acts on the world it was made in, or on none (reload_pending,
\* GuestInput, TOUCH_INPUT).
THEOREM PressCorrect == HostsSpec => []NoStalePress
<1>1. HostsInv => NoStalePress
  BY SomeHost DEF NoStalePress, HostsInv, IPodInv, N3dsInv
<1> QED BY <1>1, HostsCorrect, PTL

\* A bundle that is pushed replaces the running one, or leaves it as it was, and is
\* answered once (wired.rs, recover).
THEOREM PushedCorrect == HostsSpec => []PushedWhole
<1>1. HostsInv => PushedWhole
  BY DEF PushedWhole, HostsInv, VitaInv
<1> QED BY <1>1, HostsCorrect, PTL

=============================================================================
