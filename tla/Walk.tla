-------------------------------- MODULE Walk --------------------------------
(***************************************************************************)
(* The character controller of pocket3d-bsp/src/collide.rs over the traces *)
(* of a map: a body walks, slides along what it touches, steps up stairs,  *)
(* jumps and falls.                                                        *)
(*                                                                         *)
(* Scaled: as the traces are; a velocity is a direction, and a tick goes   *)
(* REACH along it. Abstracted: friction, acceleration and gravity, which   *)
(* leave any direction to walk in, and let a body in the air fall at any   *)
(* time. Each touched plane lies across an axis, so that two of them cross *)
(* in no direction of this space.                                          *)
(***************************************************************************)
EXTENDS Collision

CONSTANTS
    MAPS,       \* a world, its entities, and a place to start from
    REACH,      \* how far a tick goes
    STEP,       \* step_height
    PROBE       \* how far below a body there is ground

VARIABLES
    map,
    pos, vel, on_ground

vars == <<map, pos, vel, on_ground>>

Up == <<0, 1>>
Dot(v, w) == v[1] * w[1] + v[2] * w[2]
Still == <<0, 0>>

-----------------------------------------------------------------------------
ClipVelocity(v, normal) == [k \in Axes |-> IF normal[k] = 0 THEN v[k] ELSE 0]

\* A velocity that leaves every touched plane.
Leaving(v, planes) ==
    LET clears(i) == \A j \in DOMAIN planes \ {i} : Dot(ClipVelocity(v, planes[i]), planes[j]) >= 0
        first == {i \in DOMAIN planes : clears(i) /\ \A j \in 1 .. i - 1 : ~clears(j)}
    IN  IF first = {} THEN Still ELSE ClipVelocity(v, planes[CHOOSE i \in first : TRUE])

\* slide_move: at most `bumps` more traces, `left` to go; the planes a body touches
\* are those since it last got ahead.
RECURSIVE Bump(_, _, _, _, _, _)
Slid(from, tr, target, v, next, original, touched, left, bumps) ==
    IF tr.startSolid THEN [pos |-> from, vel |-> Still]
    ELSE IF tr.end = target THEN [pos |-> target, vel |-> v]
    ELSE IF Dot(next, original) <= 0 THEN [pos |-> tr.end, vel |-> Still]
    ELSE Bump(tr.end, next, original, touched, left - Gap(from, tr.end), bumps - 1)

Touched(from, tr, planes) == Append(IF Gap(from, tr.end) > 0 THEN <<>> ELSE planes, tr.normal)

Met(from, tr, v, original, planes, left, bumps) ==
    Slid(from, tr, Along(from, v, left), v, Leaving(v, Touched(from, tr, planes)), original,
         Touched(from, tr, planes), left, bumps)

Bump(from, v, original, planes, left, bumps) ==
    IF v = Still \/ left = 0 \/ bumps = 0 THEN [pos |-> from, vel |-> v]
    ELSE Met(from, Trace(map, from, Along(from, v, left)), v, original, planes, left, bumps)

SlideMove(from, v) == Bump(from, v, v, <<>>, REACH, 4)

Farther2(stepped, direct) == stepped > direct

Off(x) == IF x < 0 THEN -x ELSE x

\* step_slide_move: the direct route, or up, along and down again if that goes
\* farther and ends above ground; not tried (skip) when the direct one is clear.
Stands(down, bottom) == ~down.startSolid /\ (down.end = bottom \/ down.normal = Up)

Better(from, direct, step, down) ==
    IF /\ Stands(down, Along(step.pos, Up, -(STEP + PROBE)))
       /\ Farther2(Off(down.end[1] - from[1]), Off(direct.pos[1] - from[1]))
    THEN [pos |-> down.end, vel |-> <<step.vel[1], direct.vel[2]>>]
    ELSE direct

Stepped(from, direct, step) ==
    Better(from, direct, step, Trace(map, step.pos, Along(step.pos, Up, -(STEP + PROBE))))

Routed(from, v, skip, direct) ==
    IF skip /\ v[2] = 0 /\ direct.pos[1] = from[1] + v[1] * REACH THEN direct
    ELSE Stepped(from, direct, SlideMove(Trace(map, from, Along(from, Up, STEP)).end, v))

StepSlideMove(from, v, skip) == Routed(from, v, skip, SlideMove(from, v))

\* categorize_ground: what is below a body that does not rise fast.
Below(p) == Trace(map, p, Along(p, Up, -PROBE))

IsGround(p, below) == below.end # Along(p, Up, -PROBE) /\ ~below.startSolid /\ below.normal = Up

Grounded(p, v, fast) == ~(v[2] > 0 /\ fast) /\ IsGround(p, Below(p))

\* step_character: the direction the player walks in, a jump, whether the body
\* begins to fall in the air, and whether it rises fast before and after.
Moved(stays, v) == IF stays THEN StepSlideMove(pos, v, TRUE) ELSE SlideMove(pos, v)

Wished(ground, walk, jumps, falls) ==
    << IF ground \/ vel[1] = 0 THEN walk ELSE vel[1],
       IF jumps THEN 1 ELSE IF ground THEN 0
       ELSE IF falls /\ vel[2] > -1 THEN vel[2] - 1 ELSE vel[2] >>

StepCharacter(walk, jump, falls, fast) ==
    \E ground \in {Grounded(pos, vel, fast)} :
    \E moved \in {Moved(ground /\ ~jump, Wished(ground, walk, jump /\ ground, falls))} :
        /\ vel' = moved.vel
        /\ on_ground' = Grounded(moved.pos, moved.vel, fast)
        /\ pos' = IF on_ground' THEN Below(moved.pos).end ELSE moved.pos
        /\ UNCHANGED map

Init == map \in MAPS /\ pos = map.spawn /\ vel = Still /\ on_ground = FALSE

Next == \E walk \in {-1, 0, 1}, jump, falls, fast \in BOOLEAN : StepCharacter(walk, jump, falls, fast)

Spec == Init /\ [][Next]_vars

-----------------------------------------------------------------------------
Models == {map.world} \cup {map.entities[e] : e \in DOMAIN map.entities}
Solid(p) == \E m \in Models : Contents(m.nodes, m.head, Along(p, m.origin, -1)) = SOLID

Near(p) == {<<p[1] + dx, p[2] + dy>> : dx, dy \in {-EPS - 1, 0, EPS + 1}}

TypeOK == pos \in Int \X Int /\ vel \in {-1, 0, 1} \X {-1, 0, 1} /\ on_ground \in BOOLEAN

\* However it walks, jumps, falls and steps, a body gets into walls only where a
\* trace that gives up leaves it, by less than EPS; every trace from there starts
\* in solid ("Stuck: kill velocity"), so that it stays. Of a body on the ground
\* there is something below.
EntersNoDeeper ==
    /\ Solid(pos) => \E p \in Near(pos) : ~Solid(p)
    /\ on_ground => \E n \in 1 .. PROBE : Solid(Along(pos, Up, -n))

\* From any place a body gets to, in any direction:
Probes == {<<dx, dy>> \in {-1, 0, 1} \X {-1, 0, 1} : <<dx, dy>> # Still}

\* - a trace knows whether it starts in solid; if not, it passes nothing solid but
\*   for the EPS that corners are cut by, ends in solid only where the next place
\*   to back up to lay before a free one, and stops in front of something;
TraceIsExact ==
    \A dir \in Probes :
        LET end == Along(pos, dir, REACH)
            tr == Trace(map, pos, end)
            free == {n \in 0 .. Gap(pos, tr.end) : ~Solid(Along(pos, dir, n))}
            FreeBehind(n, d) == \E k \in 0 .. d : n - k \in free
        IN  /\ tr.startSolid <=> Solid(pos)
            /\ ~tr.startSolid =>
                /\ \A n \in 0 .. Gap(pos, tr.end) : FreeBehind(n, EPS)
                /\ FreeBehind(Gap(pos, tr.end), REACH \div 10)
                /\ tr.end # end => \E p \in Near(tr.end) : Solid(p)

\* - the bounds of an entity only spare the work: "this can overestimate
\*   geometry but cannot cut it away";
BoundsLoseNothing ==
    \A dir \in Probes :
        LET end == Along(pos, dir, REACH)
        IN  Trace(map, pos, end) = TraceOf(map, pos, end, LAMBDA e : TRUE)

\* - and so does the clear route: "The stepped route cannot improve it".
ClearRouteIsBest ==
    \A walk \in {-1, 1} :
        StepSlideMove(pos, <<walk, 0>>, TRUE) = StepSlideMove(pos, <<walk, 0>>, FALSE)
=============================================================================
