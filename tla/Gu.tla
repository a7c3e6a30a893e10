---------------------------------- MODULE Gu ----------------------------------
(***************************************************************************)
(* The renderer of a map on the PSP: domain/crates/pocket3d-gu/src/        *)
(* world.rs, the bounds it leaves faces out by (pocket3d-bsp/src/cooked/   *)
(* bounds.rs), and the fast memory it moves textures, vertices and indices *)
(* to (cooked/texture_cache.rs).                                           *)
(*                                                                         *)
(* A face is left out when it is out of view or turns its back. Faces near *)
(* each other are drawn as one group (see Clusters), that may only be left *)
(* out if all of them may. What was moved is read by the GPU, past the     *)
(* cache: it has to be written back.                                       *)
(*                                                                         *)
(* Abstracted: the contents of textures and vertices; which faces are near *)
(* each other and which are seen from where (both are given, see Clusters  *)
(* and Vis). Points are small and integer, planes exact: a length is       *)
(* compared by its square.                                                 *)
(***************************************************************************)
EXTENDS Integers, Sequences
LOCAL INSTANCE SequencesExt
LOCAL INSTANCE FiniteSetsExt

CONSTANTS
    SETUPS,     \* scenes, [textures, batches, runs, faces, groups, vertices,
                \* leaves], each with the fast memory there is, [at, size]
    EYES,       \* where the camera may be
    FRUSTA,     \* sets of planes <<x, y, z, d>>
    ALIGN,      \* 16
    ROOM        \* indices of one draw call, 32766

VARIABLES
    scene,
    storage,
    bounds,     \* face_bounds, entity_bounds and those of the groups
    kept,       \* what was moved: [what, at, size], one after the other
    written,    \* bytes of the storage that were written back
    inPvs,      \* the faces that may be seen from the leaf of the camera
    visible,    \* the groups that are marked
    drawn,      \* the draw calls of a frame
    camera      \* history: where that frame was seen from

vars == <<scene, storage, bounds, kept, written, inPvs, visible, drawn, camera>>

\* A run is a batch, 0 for none, its corners, three for each triangle, and
\* whether it became a strip, of how many indices. Runs behind the first `faces'
\* are of entities.
Runs == DOMAIN scene.runs
Faces == 1 .. scene.faces
KindOf(r) == scene.batches[scene.runs[r].batch].kind

-----------------------------------------------------------------------------
\* Bounds.
Minus(p, q) == [k \in 1 .. 3 |-> p[k] - q[k]]
Dot(p, q) == p[1] * q[1] + p[2] * q[2] + p[3] * q[3]
Cross(p, q) == <<p[2] * q[3] - p[3] * q[2], p[3] * q[1] - p[1] * q[3], p[1] * q[2] - p[2] * q[1]>>
Nowhere == <<0, 0, 0>>
Magnitude(n) == IF n < 0 THEN -n ELSE n
Shortest(n) ==
    LET least == Max({d \in 1 .. Max({Magnitude(n[k]) : k \in 1 .. 3}) : \A k \in 1 .. 3 : Magnitude(n[k]) % d = 0})
    IN  [k \in 1 .. 3 |-> IF n[k] < 0 THEN -(Magnitude(n[k]) \div least) ELSE n[k] \div least]

TrianglesOf(corners) == [i \in 1 .. Len(corners) \div 3 |-> SubSeq(corners, 3 * i - 2, 3 * i)]
NormalOf(t) == Cross(Minus(t[2], t[1]), Minus(t[3], t[1]))

Plane(normal, distance) == [normal |-> normal, distance |-> distance]
NoPlane == Plane(Nowhere, 0)
NoCamera == [there |-> FALSE, eye |-> Nowhere, planes |-> {}]
Empty == [there |-> FALSE, mins |-> Nowhere, maxs |-> Nowhere, plane |-> NoPlane]

\* The plane of the first triangle that has an area, if no corner is 1.5 away
\* from it.
PlaneOf(corners) ==
    LET solid == SelectSeq(TrianglesOf(corners), LAMBDA t : NormalOf(t) # Nowhere)
    IN  IF solid = <<>> THEN NoPlane
        ELSE LET n == Shortest(NormalOf(solid[1]))
                 away(p) == Dot(n, Minus(p, solid[1][1]))
             IN  IF \A p \in ToSet(corners) : 4 * away(p) * away(p) <= 9 * Dot(n, n)
                 THEN Plane(n, Dot(n, solid[1][1])) ELSE NoPlane

\* RunBounds::new, from_indices
BoundsOf(run) ==
    IF run.batch = 0 THEN Empty
    ELSE [there |-> TRUE, plane |-> PlaneOf(run.corners),
          mins |-> [k \in 1 .. 3 |-> Min({p[k] : p \in ToSet(run.corners)})],
          maxs |-> [k \in 1 .. 3 |-> Max({p[k] : p \in ToSet(run.corners)})]]

\* Planes that face alike are one, the one that is seen from farthest.
Farther(p, q) == Plane(p.normal, Max({p.distance, q.distance}))

\* RunBounds::union. (Rounded, planes that face alike may differ; a group then
\* has no plane, and is left out less often.)
Union(a, b) ==
    IF ~a.there THEN b
    ELSE [there |-> TRUE,
          mins |-> [k \in 1 .. 3 |-> IF b.there THEN Min({a.mins[k], b.mins[k]}) ELSE a.mins[k]],
          maxs |-> [k \in 1 .. 3 |-> IF b.there THEN Max({a.maxs[k], b.maxs[k]}) ELSE a.maxs[k]],
          plane |-> IF a.plane.normal = b.plane.normal THEN Farther(a.plane, b.plane) ELSE NoPlane]

GroupBounds(ofRuns, group) == FoldLeft(Union, Empty, [i \in DOMAIN group |-> ofRuns[group[i]]])

\* RunBounds::facing: not more than 2 behind the plane.
Facing(box, eye) ==
    LET behind == Dot(box.plane.normal, eye) - box.plane.distance
    IN  behind <= 0 \/ behind * behind <= 4 * Dot(box.plane.normal, box.plane.normal)

\* RunBounds::visible and Frustum::intersects_aabb
InView(box, planes) ==
    box.there /\ \A plane \in planes :
        plane[4] <= Dot(plane, [k \in 1 .. 3 |-> IF plane[k] >= 0 THEN box.maxs[k] ELSE box.mins[k]])

-----------------------------------------------------------------------------
\* The fast memory.
Up(n) == ALIGN * ((n + ALIGN - 1) \div ALIGN)
Padding == Up(storage.at) - storage.at
Free(at) == storage.at + storage.size - at

\* The indices that are drawn with a texture; it is not moved without any.
Uses(t) == MapThenSumSet(LAMBDA r : Len(scene.runs[r].corners),
               {r \in Runs : scene.runs[r].batch # 0 /\ scene.batches[scene.runs[r].batch].texture = t})
ByUse == SetToSortSeq({t \in DOMAIN scene.textures : Uses(t) # 0},
                      LAMBDA t, u : Uses(t) > Uses(u) \/ (Uses(t) = Uses(u) /\ t < u))

Moves(memory, what, sizes) ==
    FoldLeft(LAMBDA m, n : [at |-> m.at + Up(n), kept |-> Append(m.kept, [what |-> what, at |-> m.at, size |-> n])],
             memory, sizes)

\* A texture, its palette and mips, is moved whole or stays.
IfRoom(memory, what, sizes) ==
    IF FoldLeft(LAMBDA n, m : n + Up(m), 0, sizes) <= Free(memory.at)
    THEN Moves(memory, what, sizes) ELSE memory

\* relocate
Relocated ==
    FoldLeft(LAMBDA m, t : IfRoom(m, <<"texture", t>>, scene.textures[t]),
             [at |-> storage.at + Padding, kept |-> <<>>], ByUse)

\* Runs of one kind end to end; strips are joined by two indices.
Joined(runs) ==
    FoldLeft(LAMBDA n, r : n + scene.runs[r].indices, 0, runs)
    + IF scene.runs[runs[1]].strip THEN 2 * (Len(runs) - 1) ELSE 0
GroupedIndices == FoldLeft(LAMBDA n, g : n + Joined(g), 0, scene.groups)

\* WorldRenderer::new_cached: vertices and then indices go behind the textures,
\* and what was moved is written back.
Init ==
    /\ \E s \in SETUPS : scene = s[1] /\ storage = s[2]
    /\ LET ofRuns == [r \in Runs |-> BoundsOf(scene.runs[r])]
       IN  bounds = [runs |-> ofRuns,
                     groups |-> [g \in DOMAIN scene.groups |-> GroupBounds(ofRuns, scene.groups[g])]]
    /\ LET fits == Padding <= storage.size
           textures == IF fits THEN Relocated ELSE [at |-> storage.at, kept |-> <<>>]
           also(memory, what, n) ==
               IF n # 0 /\ memory.at % ALIGN = 0 THEN IfRoom(memory, what, <<n>>) ELSE memory
           vertices == also(textures, <<"vertices", 0>>, scene.vertices)
           all == also(vertices, <<"indices", 0>>, 2 * GroupedIndices)
       IN  kept = all.kept /\ written = all.at - storage.at
    /\ inPvs = {} /\ visible = {} /\ drawn = <<>> /\ camera = NoCamera

-----------------------------------------------------------------------------
\* A frame.
Call(runs, r, size) ==
    [runs |-> runs, batch |-> scene.runs[r].batch, strip |-> scene.runs[r].strip, size |-> size]

MayFace(kind, box, eye) == kind \in {"opaque", "masked"} => Facing(box, eye)

\* A group is drawn unless it is out of view or turned away.
DrawGroups(marked, eye, planes) ==
    LET draws(g) == /\ g \in marked
                    /\ MayFace(KindOf(scene.groups[g][1]), bounds.groups[g], eye)
                    /\ InView(bounds.groups[g], planes)
        chosen == SelectSeq([g \in DOMAIN scene.groups |-> g], draws)
    IN  [i \in DOMAIN chosen |->
            Call(scene.groups[chosen[i]], scene.groups[chosen[i]][1], Joined(scene.groups[chosen[i]]))]

\* draw_chunks; strips go on with two indices of the piece before.
Chunks(n, strip) ==
    LET sizes[k \in 0 .. n] ==
            IF k <= ROOM THEN <<k>> ELSE <<ROOM>> \o sizes[k - ROOM + (IF strip THEN 2 ELSE 0)]
    IN  sizes[n]

\* One kind of primitive of a batch: joined into one call if there is room.
DrawKind(runs) ==
    LET strip == scene.runs[runs[1]].strip
        pieces(r) == LET sizes == Chunks(scene.runs[r].indices, strip)
                     IN  [i \in DOMAIN sizes |-> Call(IF i = 1 THEN <<r>> ELSE <<>>, r, sizes[i])]
    IN  IF runs = <<>> THEN <<>>
        ELSE IF Joined(runs) <= ROOM THEN <<Call(runs, runs[1], Joined(runs))>>
        ELSE FlattenSeq([i \in DOMAIN runs |-> pieces(runs[i])])

\* Without groups: faces one by one, entities whichever way they face.
DrawFaces(pvs, eye, planes) ==
    LET ids == {r \in pvs : /\ scene.runs[r].batch # 0
                            /\ MayFace(KindOf(r), bounds.runs[r], eye)}
               \cup {r \in Runs \ Faces : scene.runs[r].batch # 0}
        chosen == {r \in ids : InView(bounds.runs[r], planes)}
        of(b, strip) == SetToSortSeq({r \in chosen : scene.runs[r].batch = b /\ scene.runs[r].strip = strip}, <)
    IN  FlattenSeq([b \in DOMAIN scene.batches |-> DrawKind(of(b, FALSE)) \o DrawKind(of(b, TRUE))])

\* The alpha test is switched where the kind changes, and off in the end.
WithAlpha(calls) ==
    FoldLeft(LAMBDA out, c :
                LET wants == scene.batches[c.batch].kind = "masked"
                    before == IF out = <<>> THEN [batch |-> 0, alpha |-> FALSE, texture |-> 0] ELSE Last(out)
                    bind == c.batch # before.batch
                IN  Append(out, [runs |-> c.runs, size |-> c.size, batch |-> c.batch,
                       alpha |-> IF bind THEN wants ELSE before.alpha,
                       texture |-> IF bind THEN scene.batches[c.batch].texture ELSE before.texture]),
             <<>>, calls)

Marked(pvs) == {g \in DOMAIN scene.groups :
                  \E i \in DOMAIN scene.groups[g] : scene.groups[g][i] \in pvs \cup (Runs \ Faces)}

\* WorldRenderer::draw. Groups are marked when the camera enters another leaf.
Draw ==
    /\ \E eye \in EYES, planes \in FRUSTA, moved \in BOOLEAN :
          /\ ~camera.there => moved
          /\ inPvs' \in (IF moved THEN scene.leaves ELSE {inPvs})
          /\ visible' = IF moved THEN Marked(inPvs') ELSE visible
          /\ drawn' = WithAlpha(IF scene.groups # <<>> THEN DrawGroups(visible', eye, planes)
                                ELSE DrawFaces(inPvs', eye, planes))
          /\ camera' = [there |-> TRUE, eye |-> eye, planes |-> planes]
    /\ UNCHANGED <<scene, storage, bounds, kept, written>>

Next == Draw

Spec == Init /\ [][Next]_vars

-----------------------------------------------------------------------------
\* What is moved lies in the memory that was given, aligned and apart, and was
\* written back to the last byte, whatever the address the memory starts at.
MovedWhole ==
    \A i \in DOMAIN kept :
        /\ kept[i].at % ALIGN = 0
        /\ storage.at <= kept[i].at /\ kept[i].at + kept[i].size <= storage.at + storage.size
        /\ kept[i].at + kept[i].size <= storage.at + written
        /\ \A j \in DOMAIN kept : i < j => kept[i].at + kept[i].size <= kept[j].at

\* A run of which a corner is in view, and of which a triangle faces the camera
\* (a polygon winds into its brush). Of a face that is bent by less than 1.5, the
\* first triangle decides, so the faces given are flat or bend more.
InSight(r) ==
    LET run == scene.runs[r]
    IN  /\ r \in inPvs \cup (Runs \ Faces) /\ run.batch # 0
        /\ \E p \in ToSet(run.corners) : \A plane \in camera.planes : plane[4] <= Dot(plane, p)
        /\ KindOf(r) \in {"opaque", "masked"} =>
              \E t \in ToSet(TrianglesOf(run.corners)) :
                  Dot(NormalOf(t), camera.eye) < Dot(NormalOf(t), t[1])

\* What is in sight is drawn, nothing is drawn twice, and each with its texture
\* and the alpha test of its kind, although faces are left out by group and the
\* groups are marked only when the camera enters another leaf.
DrawsInSight ==
    camera.there =>
        /\ \A r \in Runs : LET calls == {i \in DOMAIN drawn : Contains(drawn[i].runs, r)}
                           IN  (InSight(r) => calls # {}) /\ (\A i, j \in calls : i = j)
        /\ \A i \in DOMAIN drawn :
              /\ drawn[i].alpha = (scene.batches[drawn[i].batch].kind = "masked")
              /\ drawn[i].texture = scene.batches[drawn[i].batch].texture
              /\ drawn[i].size <= ROOM

=============================================================================
