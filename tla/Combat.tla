------------------------------- MODULE Combat -------------------------------
(***************************************************************************)
(* One tick of combat in full: the rifle (crates/openstrike-core/src/      *)
(* weapon.rs), the brain of every bot (bot.rs), the projectiles            *)
(* (projectile.rs) and the tick that runs them in a fixed order            *)
(* (StrikeSim::tick_world of sim.rs), with the commands a script gives     *)
(* between two ticks (StrikeSim::apply).  LocalRound is the same tick seen *)
(* from the rules: there a shot is a choice, here it is ammunition, timers,*)
(* sight and flight.                                                       *)
(*                                                                         *)
(* Abstracted: where everybody is (how well a bot sees the player, and     *)
(* what a shot meets, are choices), movement, recoil and the effects.      *)
(* Times are counted in ticks.                                             *)
(***************************************************************************)
EXTENDS Integers, Sequences, FiniteSets

CONSTANTS
    Configs,        \* weapon configurations: [mag, reserve, interval, reload]
    MAX_BOTS,       \* bots of a round (16)
    HEALTH, BOT_HP,\* health of the player and of a bot (100)
    Damages,        \* what a player's shot may take: body and head
    CAPACITY, LIFETIME,  \* 32, and a projectile's configured lifetime
    LOSE, Volleys, BOT_MAG, BOT_RELOAD, POSE    \* of the bots: see Bot

ASSUME CombatAssumption ==
    /\ \A c \in Configs : c \in [mag : Nat, reserve : Nat, interval : Nat, reload : Nat]
    /\ MAX_BOTS \in Nat /\ HEALTH \in Nat /\ Damages \subseteq Nat
    /\ CAPACITY \in Nat /\ LIFETIME \in Nat
    /\ BOT_HP \in Nat /\ LOSE \in Nat /\ Volleys \subseteq Nat
    /\ BOT_MAG \in Nat /\ BOT_RELOAD \in Nat /\ POSE \in Nat

VARIABLES
    throws,  \* whether the mod throws projectiles instead of tracing shots
    live,       \* whether the phase is live
    cfg,        \* the weapon's configuration
    gun,        \* [ammo, reserve, cooldown, left]: left is what a reload still takes
    health,         \* the player's health
    botCount,   \* the bots the next round will have
    bots,       \* the bots of this round, in their order
    flight,     \* the projectiles in flight, in the order of their list
    shot,       \* what became of the round the player spent in the last tick
    hits,       \* the Hit events of the last tick: [bot, fatal]
    ran         \* what ran last: "tick" or "script"

combatVars == <<throws, live, cfg, gun, health, botCount, bots, flight, shot, hits, ran>>

Brain == INSTANCE Bot WITH bot <- bots, idle <- bots

-----------------------------------------------------------------------------
(* The rifle.                                                               *)

Min2(a, b) == IF a < b THEN a ELSE b
Less(t) == IF t > 0 THEN t - 1 ELSE 0

Loaded(c) == [ammo |-> c.mag, reserve |-> c.reserve, cooldown |-> 0, left |-> 0]

CanFire(g) == g.cooldown = 0 /\ g.ammo > 0 /\ g.left = 0

\* The timers run, and a reload that ends here fills the magazine.
GunTicked(g) ==
    LET take == Min2(cfg.mag - g.ammo, g.reserve)
        cooler == [g EXCEPT !.cooldown = Less(@), !.left = Less(@)]
    IN  IF g.left = 1 THEN [cooler EXCEPT !.ammo = @ + take, !.reserve = @ - take] ELSE cooler

\* A reload starts once, with room in the magazine and something to put in it.
Reloading(g) ==
    IF g.left = 0 /\ g.ammo < cfg.mag /\ g.reserve > 0 THEN [g EXCEPT !.left = cfg.reload] ELSE g

Fired(g) == [g EXCEPT !.ammo = @ - 1, !.cooldown = cfg.interval]

-----------------------------------------------------------------------------
(* Projectiles.                                                             *)

Flying(list) == {list[i].id : i \in DOMAIN list}

\* A launch without room is refused.
Launched(list, owner) ==
    IF Len(list) < CAPACITY
    THEN LET free == CHOOSE n \in 1 .. CAPACITY : n \notin Flying(list)
         IN  Append(list, [id |-> free, owner |-> owner, age |-> 0])
    ELSE list

\* swap_remove: the last one takes the place.
SwapRemoved(list, i) ==
    [j \in 1 .. Len(list) - 1 |-> IF j = i THEN list[Len(list)] ELSE list[j]]

\* What a projectile may meet on this tick's segment: nothing, cover, or
\* somebody; it only notices those it was not thrown by, and only the living.
Nothing == -1
Player == 0
Cover == MAX_BOTS + 1
Fates == Nothing .. Cover

\* Mutation: the sweep goes on to the next place after a removal, too.
NextPlace(i, gone) == i + 1

\* The one that takes the place of a removed one is swept next.
Place(i, gone) == IF gone THEN i ELSE i + 1

HitsBot(s, p, f) == p.owner = "player" /\ f \in DOMAIN s.bots /\ Brain!Alive(s.bots[f])

HitsPlayer(p, f) == p.owner = "bot" /\ f = Player /\ health > 0

\* One projectile flies on, and is gone after its first contact or at the end
\* of its lifetime.
Sweep(s, fate, damage) ==
    LET p == [s.list[s.i] EXCEPT !.age = Min2(@ + 1, LIFETIME)]
        f == fate[p.id]
        bot == HitsBot(s, p, f)
        gone == f = Cover \/ bot \/ HitsPlayer(p, f) \/ p.age = LIFETIME
        hurt == Brain!Hurt(s.bots[f], damage[p.id])
    IN  [i |-> Place(s.i, gone),
         list |-> IF gone THEN SwapRemoved(s.list, s.i) ELSE [s.list EXCEPT ![s.i] = p],
         bots |-> IF bot THEN [s.bots EXCEPT ![f] = hurt] ELSE s.bots,
         hits |-> IF bot THEN Append(s.hits, [bot |-> f, fatal |-> ~Brain!Alive(hurt)]) ELSE s.hits,
         incoming |-> IF HitsPlayer(p, f) THEN s.incoming + 1 ELSE s.incoming]

\* The loop over the list, which a removal shortens under it.
Swept(start, fate, damage) ==
    LET after[n \in 0 .. CAPACITY] ==
            IF n = 0 THEN start
            ELSE LET s == after[n - 1]
                 IN  IF s.i > Len(s.list) THEN s ELSE Sweep(s, fate, damage)
    IN  after[CAPACITY]

-----------------------------------------------------------------------------
(* The tick.                                                                *)

\* Mutation: the trigger does not ask for room in the air.
ReadyBlind(g) == live /\ health > 0 /\ CanFire(g)

Ready(g) == live /\ health > 0 /\ (throws => Len(flight) < CAPACITY) /\ CanFire(g)

\* What a turn of the player leaves: the gun, what became of the round, and who
\* was hit.
Turn(g, became, list, squad, told) ==
    [gun |-> g, shot |-> became, list |-> list, bots |-> squad, hits |-> told]

\* A thrown round is launched unless cover is between the eye and the hand.
Thrown(g) ==
    LET list == Launched(flight, "player")
    IN  {Turn(g, "stopped", flight, bots, <<>>),
         Turn(g, IF list = flight THEN "lost" ELSE "thrown", list, bots, <<>>)}

\* A traced one hits the nearest bot still alive, or nothing.
Traced(g) ==
    LET struck(n, hurt) ==
            Turn(g, "traced", flight, [bots EXCEPT ![n] = hurt],
                 <<[bot |-> n, fatal |-> ~Brain!Alive(hurt)]>>)
    IN  {Turn(g, "traced", flight, bots, <<>>)} \cup
        {struck(n, Brain!Hurt(bots[n], damage)) :
            n \in {m \in DOMAIN bots : Brain!Alive(bots[m])}, damage \in Damages}

\* What the player may do with the gun: shoot or not.  The round is spent before it
\* is known what it meets.
PlayerShots(g) ==
    {Turn(g, "none", flight, bots, <<>>)} \cup
    IF ~Ready(g) THEN {} ELSE IF throws THEN Thrown(Fired(g)) ELSE Traced(Fired(g))

\* A reload may be asked for first.
PlayerTurns ==
    LET g == GunTicked(gun)
    IN  PlayerShots(g) \cup IF live /\ health > 0 THEN PlayerShots(Reloading(g)) ELSE {}

\* The bots in their order, each with what it sees, when it will shoot again,
\* and whether a traced shot of it hits.
BotsTicked(s, sees, volley, lucky) ==
    LET after[n \in 0 .. Len(s.bots)] ==
            IF n = 0 THEN [bots |-> s.bots, list |-> s.list, incoming |-> 0]
            ELSE LET a == after[n - 1]
                     t == Brain!Ticked(a.bots[n], sees[n], volley)
                     counts == t.shoots /\ live
                 IN  [bots |-> [a.bots EXCEPT ![n] = t.bot],
                      list |-> IF counts /\ throws THEN Launched(a.list, "bot") ELSE a.list,
                      incoming |-> IF counts /\ ~throws /\ lucky[n] THEN a.incoming + 1
                                   ELSE a.incoming]
    IN  after[Len(s.bots)]

BotTurns(s) ==
    {BotsTicked(s, sees, volley, lucky) :
        sees \in [DOMAIN bots -> IF live /\ health > 0 THEN Brain!Sights ELSE {"none"}],
        volley \in Volleys,
        lucky \in [DOMAIN bots -> IF throws THEN {FALSE} ELSE BOOLEAN]}

\* What flies meets something only while the round is live; then it is gone.
Landings(s) ==
    IF ~live THEN {[s EXCEPT !.list = <<>>]}
    ELSE {Swept(s, fate, damage) : fate \in [Flying(s.list) -> Fates],
                               damage \in [Flying(s.list) -> Damages]}

CombatTick ==
    \E mine \in PlayerTurns : \E theirs \in BotTurns(mine) :
        \E end \in Landings([i |-> 1, list |-> theirs.list, bots |-> theirs.bots,
                             hits |-> mine.hits, incoming |-> theirs.incoming]) :
            /\ gun' = mine.gun /\ shot' = mine.shot
            /\ bots' = end.bots /\ flight' = end.list /\ hits' = end.hits
            /\ health' = IF end.incoming < health THEN health - end.incoming ELSE 0
            /\ ran' = "tick"
            /\ UNCHANGED <<throws, live, cfg, botCount>>

-----------------------------------------------------------------------------
(* The commands of the script.                                              *)

Quiet == shot' = "none" /\ hits' = <<>> /\ ran' = "script"

SetPhase(l) == live' = l /\ Quiet /\ UNCHANGED <<throws, cfg, gun, health, botCount, bots, flight>>

\* Everything but the configuration starts over, with the bots the count asks for.
ResetRound ==
    /\ health' = HEALTH /\ gun' = Loaded(cfg) /\ flight' = <<>> /\ live' = FALSE
    /\ bots' = [n \in 1 .. botCount |-> Brain!Spawned]
    /\ Quiet /\ UNCHANGED <<throws, cfg, botCount>>

SetBotCount(n) ==
    /\ botCount' = Min2(n, MAX_BOTS)
    /\ Quiet /\ UNCHANGED <<throws, live, cfg, gun, health, bots, flight>>

\* A smaller magazine keeps what fits in it; the reserve and a reload that has
\* begun stay as they are.
Refitted(c) == [gun EXCEPT !.ammo = Min2(@, c.mag)]

ConfigureWeapon(c) ==
    /\ cfg' = c /\ gun' = Refitted(c)
    /\ Quiet /\ UNCHANGED <<throws, live, health, botCount, bots, flight>>

CombatInit ==
    /\ throws \in BOOLEAN /\ live = FALSE /\ cfg \in Configs
    /\ gun = Loaded(cfg) /\ health = HEALTH
    /\ botCount \in 1 .. MAX_BOTS /\ bots = [n \in 1 .. botCount |-> Brain!Spawned]
    /\ flight = <<>> /\ shot = "none" /\ hits = <<>> /\ ran = "script"

Command ==
    \/ \E l \in BOOLEAN : SetPhase(l)
    \/ ResetRound
    \/ \E n \in 1 .. MAX_BOTS + 1 : SetBotCount(n)
    \/ \E c \in Configs : ConfigureWeapon(c)

CombatNext == CombatTick \/ Command

CombatSpec == CombatInit /\ [][CombatNext]_combatVars

-----------------------------------------------------------------------------
(* Properties.                                                              *)

\* The magazine never holds more than the configuration allows, whatever is
\* reconfigured in the middle of whatever reload: the subtraction of a finished
\* reload (mag_size - ammo, unsigned) cannot underflow.
MagazineHolds == gun.ammo <= cfg.mag

\* No round appears or disappears: in a tick the rounds in the gun and in
\* reserve become fewer by exactly the one that was shot, and one that was shot
\* was traced, thrown or stopped by cover, never lost for want of room.
RoundsAccounted ==
    [][ran' = "tick"
       => /\ gun'.ammo + gun'.reserve
               = gun.ammo + gun.reserve - (IF shot' = "none" THEN 0 ELSE 1)
          /\ shot' # "lost"]_combatVars

\* After a tick every projectile still in flight has flown exactly
\* one tick further, although removals reorder the list under the loop.
FliesOnce ==
    [][\A i \in DOMAIN flight, j \in DOMAIN flight' :
         ran' = "tick" /\ flight[i].id = flight'[j].id
         => flight'[j].age = flight[i].age + 1]_combatVars

\* A bot that dies in a tick is reported as killed exactly once, and one that was
\* dead before is not reported again, however many shots reach it.
KilledOnce ==
    [][ran' = "tick" => \A n \in DOMAIN bots :
         LET fatal == {k \in DOMAIN hits' : hits'[k].bot = n /\ hits'[k].fatal}
         IN  /\ Cardinality(fatal) = IF Brain!Alive(bots[n]) /\ ~Brain!Alive(bots'[n]) THEN 1 ELSE 0
             /\ ~Brain!Alive(bots[n]) => \A k \in DOMAIN hits' : hits'[k].bot # n]_combatVars
\* Rounds of the rifle neither vanish nor appear.
Magazine == []MagazineHolds /\ RoundsAccounted

\* What flies flies once a tick, and what falls falls once.
Struck == FliesOnce /\ KilledOnce
=============================================================================
