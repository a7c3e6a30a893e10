------------------------------ MODULE Collision ------------------------------
(***************************************************************************)
(* Traces through the hulls of a map: pocket3d-bsp/src/trace.rs. A hull is *)
(* a tree of planes whose leaves are solid or not; a trace goes from start *)
(* to end and stops EPS in front of the first solid leaf. Brush entities   *)
(* have hulls of their own, and bounds outside of which they are skipped.  *)
(*                                                                         *)
(* Scaled: two dimensions, planes across the axes, whole coordinates, EPS  *)
(* for DIST_EPSILON; a trace goes along an axis or as far along both, so   *)
(* that the places where it crosses planes are whole too. A fraction is    *)
(* the distance along an axis. A place that a trace backs up to is a whole *)
(* one, toward the start if need be, and is looked at where it is.         *)
(***************************************************************************)
EXTENDS Integers, Sequences, TLC

LOCAL INSTANCE SequencesExt

CONSTANTS
    EPS,        \* DIST_EPSILON
    MAX_VISITED \* nodes looked at for the bounds of a hull (4,096)

EMPTY == -1
SOLID == -2
Axes == 1 .. 2
Infinite == 1000    \* beyond every coordinate

\* The planes of a hull: an axis, the way the normal points, and where. A node
\* is numbered from 0; a child below 0 is the contents of a leaf.
Distance(node, p) == node.facing * (p[node.axis] - node.at)

RECURSIVE Contents(_, _, _)
Contents(nodes, n, p) ==
    IF n < 0 THEN n
    ELSE Contents(nodes, nodes[n + 1].children[IF Distance(nodes[n + 1], p) < 0 THEN 2 ELSE 1], p)

Nearer(x, y) == IF x < y THEN x ELSE y
Farther(x, y) == IF x < y THEN y ELSE x

Toward(p, q) == [k \in Axes |-> IF q[k] > p[k] THEN 1 ELSE IF q[k] < p[k] THEN -1 ELSE 0]
Along(p, dir, n) == [k \in Axes |-> p[k] + dir[k] * n]
Gap(p, q) == Farther(q[1] - p[1], Farther(p[1] - q[1], Farther(q[2] - p[2], p[2] - q[2])))

NoHit(end) == [end |-> end, normal |-> <<0, 0>>, startSolid |-> FALSE, allSolid |-> TRUE]

-----------------------------------------------------------------------------
\* Mutation: a crossing that is in solid is where the trace stops.
StopsAtCrossing(nodes, head, p1, p2, f) == Along(p1, Toward(p1, p2), f \div 10)

\* "Back the impact point up off the surface until it's out of solid": by a
\* tenth of the way from p1 to p2 at a time, f tenths of a unit from p1. One that
\* would come to lie before p1 stays where it is, in solid.
RECURSIVE BackUp(_, _, _, _, _)
BackUp(nodes, head, p1, p2, f) ==
    LET mid == Along(p1, Toward(p1, p2), f \div 10)
        back == f - Gap(p1, p2)
    IN  IF back < 0 \/ Contents(nodes, head, mid) # SOLID THEN mid
        ELSE BackUp(nodes, head, p1, p2, back)

\* HullTree::check: what the trace is after the segment, and whether it is free
\* so far.
RECURSIVE Check(_, _, _, _, _, _)
Check(nodes, head, n, p1, p2, tr) ==
    IF n < 0
    THEN [free |-> TRUE,
          tr |-> IF n # SOLID THEN [tr EXCEPT !.allSolid = FALSE] ELSE [tr EXCEPT !.startSolid = TRUE]]
    ELSE
    LET node == nodes[n + 1]
        t1 == Distance(node, p1)
        t2 == Distance(node, p2)
        near == IF t1 < 0 THEN 2 ELSE 1
        away == Farther(0, (IF t1 < 0 THEN -t1 ELSE t1) - EPS)
        mid == Along(p1, Toward(p1, p2), away)
        first == Check(nodes, head, node.children[near], p1, mid, tr)
        far == node.children[3 - near]
    IN  IF (t1 >= 0) = (t2 >= 0) THEN Check(nodes, head, node.children[near], p1, p2, tr)
        ELSE IF ~first.free THEN first
        ELSE IF Contents(nodes, far, mid) # SOLID
        THEN Check(nodes, head, far, mid, p2, first.tr)
        ELSE IF first.tr.allSolid THEN [first EXCEPT !.free = FALSE]
        ELSE [free |-> FALSE,
              tr |-> [first.tr EXCEPT
                        !.normal = [k \in Axes |-> IF k # node.axis THEN 0
                                                   ELSE IF near = 1 THEN node.facing ELSE -node.facing],
                        !.end = BackUp(nodes, head, p1, p2, 10 * away)]]

\* MapCollision::trace_model_offset: at the place of the model. A trace that
\* starts in solid stays where it is.
Placed(model, start, tr) ==
    IF tr.startSolid \/ tr.allSolid
    THEN [tr EXCEPT !.startSolid = TRUE, !.end = start]
    ELSE [tr EXCEPT !.end = Along(@, model.origin, 1)]

TraceModel(model, start, end) ==
    LET place(p) == Along(p, model.origin, -1)
    IN  Placed(model, start, Check(model.nodes, model.head, model.head, place(start), place(end),
                                   NoHit(place(end))).tr)

-----------------------------------------------------------------------------
Everywhere == [mins |-> <<-Infinite, -Infinite>>, maxs |-> <<Infinite, Infinite>>]
Nowhere == [mins |-> Everywhere.maxs, maxs |-> Everywhere.mins]

Cut(bounds, node, side) ==
    IF (side = 1) = (node.facing > 0)
    THEN [bounds EXCEPT !.mins[node.axis] = Farther(@, node.at)]
    ELSE [bounds EXCEPT !.maxs[node.axis] = Nearer(@, node.at)]

Union(b, c) ==
    [mins |-> [k \in Axes |-> Nearer(b.mins[k], c.mins[k])],
     maxs |-> [k \in Axes |-> Farther(b.maxs[k], c.maxs[k])]]

\* solid_bounds: the box of the solid leaves that are not empty, and the nodes
\* and leaves that were looked at.
RECURSIVE SolidOf(_, _, _)
SolidOf(nodes, n, bounds) ==
    IF \E k \in Axes : bounds.mins[k] > bounds.maxs[k] THEN [visited |-> 0, box |-> Nowhere]
    ELSE IF n < 0 THEN [visited |-> 1, box |-> IF n = SOLID THEN bounds ELSE Nowhere]
    ELSE LET part(side) == SolidOf(nodes, nodes[n + 1].children[side], Cut(bounds, nodes[n + 1], side))
         IN  [visited |-> 1 + part(1).visited + part(2).visited, box |-> Union(part(1).box, part(2).box)]

\* No bounds (Everywhere) for a hull without end, or of too many nodes.
SolidBounds(model) ==
    LET solid == SolidOf(model.nodes, model.head, Everywhere)
    IN  IF \/ solid.visited > MAX_VISITED
           \/ \E k \in Axes : solid.box.mins[k] = -Infinite \/ solid.box.maxs[k] = Infinite
           \/ solid.box = Nowhere
        THEN Everywhere ELSE solid.box

Touches(bounds, start, end) ==
    \A k \in Axes : /\ Nearer(start[k], end[k]) <= bounds.maxs[k] + EPS
                    /\ Farther(start[k], end[k]) >= bounds.mins[k] - EPS

\* MapCollision::trace: the world, then the entities, each if it comes first or
\* if only it holds the start.
Sooner(start, t, best) ==
    IF Gap(start, t.end) < Gap(start, best.end) \/ (t.startSolid /\ ~best.startSolid)
    THEN t ELSE best

TraceOf(map, start, end, asked(_)) ==
    FoldLeft(LAMBDA best, e : IF asked(e) THEN Sooner(start, TraceModel(e, start, end), best) ELSE best,
             TraceModel(map.world, start, end), map.entities)

Trace(map, start, end) ==
    TraceOf(map, start, end,
            LAMBDA e : Touches(e.bounds, Along(start, e.origin, -1), Along(end, e.origin, -1)))

\* An entity as from_parts leaves it.
WithBounds(model) == model @@ [bounds |-> SolidBounds(model)]
=============================================================================
