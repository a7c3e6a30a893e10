--------------------------------- MODULE Hud ---------------------------------
(***************************************************************************)
(* The HUD of a round (game/hud.tsx): what its frame hook paints, guarded  *)
(* by what it painted before, of the state that was dispatched last, and   *)
(* the feed of kills and the effects that its event handlers ask for.      *)
(* A frame may follow on several dispatches, or on none.                   *)
(*                                                                         *)
(* Abstracted: the numbers to the ranges the HUD tells apart, the texts to *)
(* what they are made from, a time to the dispatches that are left of it.  *)
(* The scores, the bots and the reserve are one value, `score': each is    *)
(* shown behind a guard of its own, like it.                               *)
(***************************************************************************)
EXTENDS Integers, Sequences

CONSTANTS
    STATUSES,   \* what a network round can say of itself; "" in a local one
    STATES,     \* the states of a round that are dispatched
    REPORTS,    \* what a tick may report, of Reports
    KEEP,       \* dispatches for which a kill is shown (2.4 s)
    ROWS        \* rows of the feed (3)

VARIABLES
    s,          \* strike.state(), with the seconds its phase has lasted
    cached,     \* what the hook has painted, as it remembers it
    painted,    \* what is on the screen
    feed,       \* the rows as the handlers have them
    rows,       \* the rows as the screen has them
    dirty,      \* the flags the handlers leave for the frame
    effects,    \* the flash and the hit marker on the screen: of which round
    fresh       \* history: the last frame came after the last dispatch

vars == <<s, cached, painted, feed, rows, dirty, effects, fresh>>

Phases == {"starting", "live", "won", "lost"}
Countdown(phase) == IF phase = "starting" THEN 1 ELSE 2
States == [phase : Phases, network : STATUSES, age : 0 .. 1, hp : 0 .. 2, ammo : 0 .. 2,
           reloading : BOOLEAN, alive : BOOLEAN, score : 0 .. 1]

\* 2 is plenty, 1 is little, 0 is none.
HpColor(hp) == CASE hp = 2 -> "ink" [] hp = 1 -> "amber" [] hp = 0 -> "red"
AmmoColor(ammo) == IF ammo = 0 THEN "red" ELSE "ink"
BarColor(ammo) == IF ammo = 2 THEN "lime" ELSE "red"

Left(st) == IF Countdown(st.phase) > st.age THEN Countdown(st.phase) - st.age ELSE 0
Blank == [text |-> "none", left |-> 0]
BlankRows == [i \in 1 .. ROWS |-> Blank]
Clean == [feed |-> FALSE, flash |-> FALSE, hit |-> FALSE, reset |-> FALSE]
NoEffects == [flash |-> "none", hit |-> "none"]

-----------------------------------------------------------------------------
\* What the hook paints of each part when it last painted other values of it.
\* The caches begin with values no state has.
Unpainted == [phase |-> "", network |-> "", count |-> -1, hp |-> -1, hpColor |-> "none",
              ammo |-> -1, ammoColor |-> "none", barColor |-> "none",
              reloading |-> FALSE, alive |-> TRUE, score |-> -1]

\* What the tree and the first batch show.
Mounted(st) ==
    [banner |-> FALSE, title |-> "starting", sub |-> <<"starting", 2>>, hp |-> 2, hpColor |-> "ink",
     ammo |-> 2, ammoColor |-> "ink", barColor |-> "lime",
     reload |-> FALSE, vignette |-> FALSE, score |-> st.score]

Mount ==
    /\ cached = Unpainted /\ painted = Mounted(s)
    /\ feed = BlankRows /\ rows = BlankRows /\ dirty = Clean /\ effects = NoEffects
    /\ fresh = FALSE

Title(st) == IF st.network # "" THEN st.network ELSE st.phase

\* The sub-title is guarded by the count it shows, which a new phase forgets.
CountOf(st) == IF st.network # "" THEN -2 ELSE Left(st)
SubOf(st) == <<IF st.network # "" THEN "network" ELSE st.phase, CountOf(st)>>

PhaseChanged == s.phase # cached.phase \/ s.network # cached.network

\* Mutation: a new phase does not forget the count.
KeepsCount == cached.count

CountBefore == IF PhaseChanged THEN -1 ELSE cached.count

Subtitled ==
    IF s.phase = "live" THEN [count |-> CountBefore, sub |-> painted.sub]
    ELSE [count |-> CountOf(s),
          sub |-> IF CountOf(s) # CountBefore THEN SubOf(s) ELSE painted.sub]

\* The colours are guarded on their own, behind the guard of the value.
Colored(changed, color, before, shown) ==
    IF changed /\ color # before THEN [cache |-> color, shown |-> color]
    ELSE [cache |-> before, shown |-> shown]

Paint ==
    LET hp == s.hp # cached.hp
        ammo == s.ammo # cached.ammo
        hpC == Colored(hp, HpColor(s.hp), cached.hpColor, painted.hpColor)
        ammoC == Colored(ammo, AmmoColor(s.ammo), cached.ammoColor, painted.ammoColor)
        barC == Colored(ammo, BarColor(s.ammo), cached.barColor, painted.barColor)
    IN  /\ painted' =
             [banner |-> IF PhaseChanged THEN s.phase # "live" ELSE painted.banner,
              title |-> IF PhaseChanged /\ s.phase # "live" THEN Title(s) ELSE painted.title,
              sub |-> Subtitled.sub,
              hp |-> IF hp THEN s.hp ELSE painted.hp, hpColor |-> hpC.shown,
              ammo |-> IF ammo THEN s.ammo ELSE painted.ammo,
              ammoColor |-> ammoC.shown, barColor |-> barC.shown,
              reload |-> IF s.reloading # cached.reloading THEN s.reloading ELSE painted.reload,
              vignette |-> IF s.alive # cached.alive THEN ~s.alive ELSE painted.vignette,
              score |-> IF s.score # cached.score THEN s.score ELSE painted.score]
        /\ cached' =
             [phase |-> s.phase, network |-> s.network, count |-> Subtitled.count,
              hp |-> s.hp, hpColor |-> hpC.cache,
              ammo |-> s.ammo, ammoColor |-> ammoC.cache, barColor |-> barC.cache,
              reloading |-> s.reloading, alive |-> s.alive, score |-> s.score]

-----------------------------------------------------------------------------
(* Events. A text or an effect of a round that is over is called "old".     *)

Aged(text) == IF text = "new" THEN "old" ELSE text

\* pushFeed.
Pushed(rs) == Append(Tail(rs), [text |-> "new", left |-> KEEP])

RowsAfterReset(rs) == BlankRows

Heard(h, e) ==
    CASE e = "damaged" -> [h EXCEPT !.dirty.flash = TRUE]
      [] e = "hit" -> [h EXCEPT !.dirty.hit = TRUE]
      [] e = "kill" -> [h EXCEPT !.dirty.hit = TRUE, !.dirty.feed = TRUE, !.feed = Pushed(@)]
      [] e = "reset" ->
            [feed |-> RowsAfterReset(h.feed),
             rows |-> [i \in DOMAIN h.rows |-> [h.rows[i] EXCEPT !.text = Aged(@)]],
             dirty |-> [h.dirty EXCEPT !.feed = FALSE, !.reset = TRUE],
             effects |-> [flash |-> Aged(h.effects.flash), hit |-> Aged(h.effects.hit)]]

\* The handlers of one turn, in the order of its events.
Told(h, events) ==
    LET after[n \in 0 .. Len(events)] ==
            IF n = 0 THEN h ELSE Heard(after[n - 1], events[n])
    IN  after[Len(events)]

Elapsed(rs) == [i \in DOMAIN rs |-> [rs[i] EXCEPT !.left = IF @ > 0 THEN @ - 1 ELSE 0]]

\* What one tick of a round may report: a round that was reset reports nothing
\* of the one before.
Reports == {<<>>, <<"damaged">>, <<"hit">>, <<"kill">>, <<"kill", "damaged">>,
            <<"reset">>, <<"reset", "kill">>}

\* A dispatch. What happens to the round is free.
Dispatch ==
    /\ s' \in STATES
    /\ \E events \in REPORTS :
         LET h == Told([feed |-> Elapsed(feed), rows |-> Elapsed(rows),
                        dirty |-> dirty, effects |-> effects], events)
         IN  feed' = h.feed /\ rows' = h.rows /\ dirty' = h.dirty /\ effects' = h.effects
    /\ fresh' = FALSE /\ UNCHANGED <<cached, painted>>

\* The tweens end.
Fade ==
    /\ effects # NoEffects /\ effects' \in {NoEffects, [effects EXCEPT !.flash = "none"],
                                            [effects EXCEPT !.hit = "none"]}
    /\ UNCHANGED <<s, cached, painted, feed, rows, dirty, fresh>>

\* Effects are cancelled by a reset, also those of the frame that asked for it
\* and of what came after in it.
Frame ==
    /\ Paint /\ dirty' = Clean
    /\ effects' = IF dirty.reset THEN NoEffects
                  ELSE [flash |-> IF dirty.flash THEN "new" ELSE effects.flash,
                        hit |-> IF dirty.hit THEN "new" ELSE effects.hit]
    /\ rows' = IF dirty.feed THEN feed
               ELSE IF dirty.reset THEN [i \in DOMAIN rows |-> [rows[i] EXCEPT !.left = 0]]
               ELSE rows
    /\ fresh' = TRUE /\ UNCHANGED <<s, feed>>

\* Another round is shown, after the menu.
Remount ==
    /\ s' \in STATES /\ cached' = Unpainted /\ painted' = Mounted(s')
    /\ feed' = BlankRows /\ rows' = BlankRows /\ dirty' = Clean /\ effects' = NoEffects
    /\ fresh' = FALSE

Init == s \in STATES /\ Mount

Next == Dispatch \/ Fade \/ Frame \/ Remount

Spec == Init /\ [][Next]_vars

-----------------------------------------------------------------------------
TypeOK ==
    /\ s \in States /\ DOMAIN painted = DOMAIN Mounted(s) /\ DOMAIN cached = DOMAIN Unpainted
    /\ Len(feed) = ROWS /\ Len(rows) = ROWS

\* What a frame that paints everything would show of this state.
Repainted(st) ==
    [hp |-> st.hp, hpColor |-> HpColor(st.hp), ammo |-> st.ammo,
     ammoColor |-> AmmoColor(st.ammo), barColor |-> BarColor(st.ammo),
     reload |-> st.reloading, vignette |-> ~st.alive, score |-> st.score,
     banner |-> st.phase # "live",
     title |-> IF st.phase = "live" THEN "" ELSE Title(st),
     sub |-> IF st.phase = "live" THEN <<>> ELSE SubOf(st)]

\* What is seen: the banner's texts only with the banner.
Seen == [painted EXCEPT !.title = IF painted.banner THEN @ ELSE "",
                        !.sub = IF painted.banner THEN @ ELSE <<>>]

\* A frame shows the state that was dispatched last, whatever it skips because
\* it painted it before: what the guards remember is what is on the screen.
FrameShowsState == fresh => Seen = Repainted(s)

\* Kills, flashes and hits of a round that is over are not shown after the
\* frame that follows on its reset.
EffectsOfThisRound ==
    ~dirty.reset =>
        /\ effects.flash # "old" /\ effects.hit # "old"
        /\ \A i \in 1 .. ROWS : rows[i].left > 0 => rows[i].text = "new"
        /\ ~dirty.feed => \A i \in 1 .. ROWS : rows[i].left > 0 \/ feed[i].left > 0 => rows[i] = feed[i]

=============================================================================
