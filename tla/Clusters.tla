------------------------------ MODULE Clusters ------------------------------
(***************************************************************************)
(* Draw groups of faces: ClusterCache of pocket3d-bsp/src/cooked/cluster.  *)
(* rs, and the visible faces it is asked for each frame. Faces near each   *)
(* other are drawn together, and all of them if one is seen.               *)
(*                                                                         *)
(* Abstracted: an index of a face is the face and a corner; where a face   *)
(* lies and turns to (the order it brings, and when it is too far from its *)
(* group) is free; allocations that fail.                                  *)
(***************************************************************************)
EXTENDS Integers, SequencesExt, FiniteSetsExt

CONSTANTS
    RUNS,       \* sets of runs: what is drawn of faces and entities
    GROUP,      \* faces in a group (8)
    GROUPED     \* indices of a group, if more than one face is in it (2,048)

VARIABLES
    runs,       \* run -> what is known of it
    order,      \* the runs that are not in a group yet, as they come
    indices,
    groups,
    faceGroups, \* run -> its group, 0 without one
    seen        \* the faces in sight at the last update

vars == <<runs, order, indices, groups, faceGroups, seen>>

\* A run: its batch, whether it is a strip, of an entity (an always run), and
\* how many indices it has. Batch 0 is of faces that are not drawn.
Drawn == {r \in DOMAIN runs : runs[r].batch # 0}

\* The indices of a run. A strip of n has n - 2 triangles, a list n / 3.
Source(r) == [i \in 1 .. runs[r].size |-> <<r, i>>]

-----------------------------------------------------------------------------
\* The runs come by batch, and lists before strips.
Before(r, q) ==
    \/ runs[r].batch < runs[q].batch
    \/ runs[r].batch = runs[q].batch /\ ~runs[r].strip /\ runs[q].strip

Init ==
    /\ runs \in RUNS
    /\ order = {r \in DOMAIN runs : runs[r].batch # 0}
    /\ indices = <<>> /\ groups = <<>> /\ faceGroups = [r \in DOMAIN runs |-> 0] /\ seen = {}

Current == groups[Len(groups)]

FitsKind(r) ==
    /\ Current.batch = runs[r].batch /\ Current.strip = runs[r].strip
    /\ Current.always = runs[r].always /\ Current.faces < GROUP

Fits(r) == groups # <<>> /\ FitsKind(r) /\ Current.count + runs[r].size + 2 <= GROUPED

\* Strips of a group are joined by two indices.
Connector(r) == <<indices[Len(indices)], Source(r)[1]>>

Place(r, near) ==
    /\ r \in order /\ \A q \in order : ~Before(q, r)
    /\ order' = order \ {r}
    /\ LET joins == near /\ Fits(r)
           group == IF joins THEN Current
                    ELSE [batch |-> runs[r].batch, strip |-> runs[r].strip,
                          start |-> Len(indices), count |-> 0, triangles |-> 0, faces |-> 0,
                          visible |-> FALSE, always |-> FALSE]
           added == (IF joins /\ runs[r].strip THEN Connector(r) ELSE <<>>) \o Source(r)
           grown == [group EXCEPT
                       !.count = Len(indices) + Len(added) - group.start, !.faces = @ + 1,
                       !.triangles = @ + runs[r].triangles, !.always = @ \/ runs[r].always]
       IN  /\ indices' = indices \o added
           /\ groups' = IF joins THEN [groups EXCEPT ![Len(groups)] = grown]
                        ELSE Append(groups, grown)
           /\ faceGroups' = [faceGroups EXCEPT ![r] = Len(groups')]
    /\ UNCHANGED <<runs, seen>>

HiddenAgain(g) == g.always

\* A frame: the faces of the world in sight.
UpdateVisibility ==
    /\ order = {} /\ seen' \in SUBSET {r \in DOMAIN runs : ~runs[r].always}
    /\ groups' = [g \in DOMAIN groups |->
          [groups[g] EXCEPT !.visible =
              HiddenAgain(groups[g]) \/ \E face \in seen' : faceGroups[face] = g]]
    /\ UNCHANGED <<runs, order, indices, faceGroups>>

Next == (\E r \in DOMAIN runs, near \in BOOLEAN : Place(r, near)) \/ UpdateVisibility

Spec == Init /\ [][Next]_vars

-----------------------------------------------------------------------------
TypeOK ==
    /\ order \subseteq DOMAIN runs /\ faceGroups \in [DOMAIN runs -> 0 .. Len(groups)]
    /\ \A g \in DOMAIN groups : groups[g].faces <= GROUP

\* The triangles a group fills, as the indices of their corners, in order.
Triangles(run, strip) ==
    LET all == IF strip THEN {SubSeq(run, i, i + 2) : i \in 1 .. Len(run) - 2}
               ELSE {SubSeq(run, 3 * i - 2, 3 * i) : i \in 1 .. Len(run) \div 3}
    IN  {t \in all : t[1] # t[2] /\ t[2] # t[3] /\ t[1] # t[3]}

Drawing(g) == SubSeq(indices, groups[g].start + 1, groups[g].start + groups[g].count)
Members(g) == {r \in DOMAIN runs : faceGroups[r] = g}

\* A group draws exactly the triangles of its faces, and they have its texture;
\* every face that is drawn is in one group. (Of a face no two indices are
\* alike, so that a triangle that is drawn twice would be two.)
GroupsWhole ==
    /\ \A r \in Drawn \ order : faceGroups[r] # 0
    /\ \A g \in DOMAIN groups :
         /\ Triangles(Drawing(g), groups[g].strip) =
              UNION {Triangles(Source(r), runs[r].strip) : r \in Members(g)}
         /\ \A r \in Members(g) : runs[r].batch = groups[g].batch
         /\ groups[g].triangles =
              FoldSet(LAMBDA r, n : n + runs[r].triangles, 0, Members(g))

\* "A group can overdraw nearby faces but never drops a face from a visible
\* leaf": what is in sight is in a group that is drawn, what is drawn without
\* being in sight shares its group; entities are drawn always.
SeenIsDrawn ==
    order = {} =>
        /\ \A r \in seen \cap Drawn : groups[faceGroups[r]].visible
        /\ \A g \in DOMAIN groups :
             groups[g].visible /\ ~groups[g].always => Members(g) \cap seen # {}
=============================================================================
