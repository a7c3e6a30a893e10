------------------------------- MODULE MCLocal -------------------------------
(***************************************************************************)
(* What a local game is made of, on small instances, one `part' each; a    *)
(* behaviour is one of one part, the others stay as they began:            *)
(*   round           the round, with projectiles or with traced shots      *)
(*   fight, bot      the rifle, the projectiles and one bot; a bot alone   *)
(*   clock, frames   the clock that drives it, the frames that are counted *)
(*   touch, lower    the touch controls; the lower screen of the 3DS       *)
(*   paint, feed     the HUD: what it paints; the kills and effects        *)
(*   menu, late      the menus; with a host that may fail late             *)
(***************************************************************************)
EXTENDS LocalRound, FixedClock, Combat

CONSTANTS
    FINGERS,            \* identifiers of contacts, on either screen
    AREAS,              \* see PrimaryTouch
    CONTROLS,           \* see TacticalTouch
    MODS, MAPS,         \* see Menu
    Networks,
    STATUSES, KEEP, ROWS,   \* see Hud
    SAMPLES, FRAMES         \* see FrameTimes

ASSUME LocalAssumption ==
    /\ 0 \notin FINGERS /\ "lifted" \notin AREAS \cup CONTROLS
    /\ MODS \in Nat \ {0} /\ MAPS \in Nat /\ Networks \in BOOLEAN
    /\ "" \in STATUSES /\ KEEP \in Nat /\ ROWS \in Nat \ {0}
    /\ SAMPLES \in Nat \ {0} /\ FRAMES \in Nat

VARIABLES
    part,
    bot, idle,
    samples, next, count, running, loaded, drawn, frames,
    step, playing, shown, dialog, fingers, changed, ignored, contacts, moving, walk,
    active, input, heldDown,
    touching, contact, enabled, map, zoom, mark, lowerInput,
    s, cached, painted, feed, rows, dirty, effects, fresh,
    screen, inMenu, menu, crossplay, mod, configured, intent, world, failed

Configurations == {[mag |-> 2, reserve |-> 2, interval |-> 1, reload |-> 1],
                   [mag |-> 1, reserve |-> 1, interval |-> 1, reload |-> 2]}

OneBot == INSTANCE Bot
Frames == INSTANCE FrameTimes
Touch == INSTANCE PrimaryTouch WITH
    live <- playing, held <- heldDown
Lower == INSTANCE TacticalTouch WITH
    input <- lowerInput

\* The HUD: of the values it paints each behind guards of its own, one group
\* changes at a time; or two states, and what a tick may report.
Calm == [phase |-> "starting", network |-> "", age |-> 0, hp |-> 2, ammo |-> 2,
          reloading |-> FALSE, alive |-> TRUE, score |-> 0]
Groups == {{"phase", "network", "age"}, {"hp", "alive"}, {"ammo", "reloading"}, {"score"}}
Kinds == INSTANCE Hud WITH STATES <- {}, REPORTS <- {}
Painting == INSTANCE Hud WITH REPORTS <- {<<>>},
    STATES <- {st \in Kinds!States :
                 \E g \in Groups : \A f \in DOMAIN Calm \ g : st[f] = Calm[f]}
Feeding == INSTANCE Hud WITH REPORTS <- Kinds!Reports,
    STATES <- {Calm, [Calm EXCEPT !.phase = "live"]}

Menus == INSTANCE Menu WITH phase <- screen, Late <- FALSE
LateMenus == INSTANCE Menu WITH phase <- screen, Late <- TRUE

-----------------------------------------------------------------------------
botVars == <<bot, idle>>
frameVars == <<samples, next, count, running, loaded, drawn, frames>>
touchVars == <<step, playing, shown, dialog, fingers, changed, ignored, contacts, moving, walk,
               active, input, heldDown>>
lowerVars == <<touching, contact, enabled, map, zoom, mark, lowerInput>>
hudVars == <<s, cached, painted, feed, rows, dirty, effects, fresh>>
menuVars == <<screen, inMenu, menu, crossplay, mod, configured, intent, world, failed>>
gameVars == <<vars, combatVars, botVars, clockVars, frameVars>>
screenVars == <<touchVars, lowerVars, hudVars, menuVars>>

Parts == {"round", "fight", "bot", "clock", "frames", "touch", "lower",
          "paint", "feed", "menu", "late"}

MCInit ==
    /\ part \in Parts /\ Init /\ OneBot!Init /\ Frames!Init /\ Touch!Init /\ Lower!Init
    /\ Menus!Init
    /\ CombatInit /\ (part # "fight" => ~throws /\ cfg.mag = 2 /\ botCount = 1)
    /\ part # "round" => ~ballistic
    /\ ClockInit /\ (part # "clock" => previous = 0)
    /\ Painting!Init /\ (part # "paint" => s = Calm)

Round == part = "round" /\ Next
         /\ UNCHANGED <<part, combatVars, botVars, clockVars, frameVars, screenVars>>
Fights == part = "fight" /\ CombatNext
         /\ UNCHANGED <<part, vars, botVars, clockVars, frameVars, screenVars>>
BotTick == part = "bot" /\ OneBot!Tick
           /\ UNCHANGED <<part, vars, combatVars, clockVars, frameVars, screenVars>>
BotShot == part = "bot" /\ OneBot!Shot
           /\ UNCHANGED <<part, vars, combatVars, clockVars, frameVars, screenVars>>
ClockCall == part = "clock" /\ ClockNext
             /\ UNCHANGED <<part, vars, combatVars, botVars, frameVars, screenVars>>
DrawnFrame == part = "frames" /\ Frames!Next
              /\ UNCHANGED <<part, vars, combatVars, botVars, clockVars, screenVars>>
Touched == part = "touch" /\ Touch!Next
           /\ UNCHANGED <<part, gameVars, lowerVars, hudVars, menuVars>>
LowerTouched == part = "lower" /\ Lower!Next
                /\ UNCHANGED <<part, gameVars, touchVars, hudVars, menuVars>>
Paints == part = "paint" /\ Painting!Next
          /\ UNCHANGED <<part, gameVars, touchVars, lowerVars, menuVars>>
Feeds == part = "feed" /\ Feeding!Next
         /\ UNCHANGED <<part, gameVars, touchVars, lowerVars, menuVars>>
Chooses == part = "menu" /\ Menus!Next
           /\ UNCHANGED <<part, gameVars, touchVars, lowerVars, hudVars>>
ChoosesLate == part = "late" /\ LateMenus!Next
               /\ UNCHANGED <<part, gameVars, touchVars, lowerVars, hudVars>>

MCNext == \/ Round \/ Fights \/ BotTick \/ BotShot \/ ClockCall \/ DrawnFrame
          \/ Touched \/ LowerTouched \/ Paints \/ Feeds \/ Chooses \/ ChoosesLate

\* The host's loop goes on for as long as the game runs.
MCSpec == MCInit /\ [][MCNext]_<<part, gameVars, screenVars>>
          /\ WF_vars(Round) /\ WF_botVars(BotTick)

\* A host that may fail when the round is on the screen.
LateSpec == MCInit /\ part = "late" /\ [][MCNext]_<<part, gameVars, screenVars>>

-----------------------------------------------------------------------------
\* Every round resets, see LocalRound.
RoundsReset == part = "round" => RoundResets

\* A bot that sees the player keeps shooting, see Bot.
KeepsShooting == part = "bot" => OneBot!KeepsShooting

\* What the host holds down is what fingers hold down, on either screen: see
\* PrimaryTouch and TacticalTouch.
HeldDown ==
    /\ Touch!TypeOK /\ Touch!HeldByFingers /\ Touch!OneFingerEach /\ Touch!HeldFingersIgnored
    /\ Lower!TypeOK /\ Lower!HeldByContact

\* What is on the screen is of this round, of this map, and of now, and what is
\* told of frames is of the last ones: see Hud, TacticalTouch and FrameTimes.
ShownIsState ==
    /\ Painting!TypeOK /\ Painting!FrameShowsState /\ Feeding!EffectsOfThisRound
    /\ Lower!MarkOfThisMap
    /\ Frames!TypeOK /\ Frames!WindowIsLast

\* The world that is played is the one the menus speak of, and the player hears
\* of one that could not be loaded: see Menu.
LoadedAsShown ==
    /\ Menus!TypeOK /\ Menus!LoadedAsChosen /\ Menus!LoadingIsAsked
    /\ part # "late" => Menus!FailureShown

FailureShown == LateMenus!FailureShown
=============================================================================
