--------------------------------- MODULE Vis ---------------------------------
(***************************************************************************)
(* What is in sight: pocket3d-bsp/src/vis.rs. The leaf the camera is in,   *)
(* the row of leaves that can be seen from it, decoded when the leaf       *)
(* changes, the faces of those leaves, and each frame those of them in     *)
(* front of the camera.                                                    *)
(*                                                                         *)
(* Scaled: bytes of BITS bits (8), stamps that wrap at WORD (2^32), a      *)
(* space of two dimensions and integers; the frustum is any set of planes. *)
(***************************************************************************)
EXTENDS Integers, SequencesExt, FiniteSetsExt

CONSTANTS
    WORLDS,     \* maps: nodes, leaves, marks, visibility, visleafs, faces;
                \* and what was seen from the leaves when it was compiled
    SPOTS,      \* points <<x, y>> the camera may be at
    FRUSTA,     \* sets of planes <<x, y, d>>: x * px + y * py >= d is inside
    BITS,       \* bits in a byte of a row
    WORD        \* stamps wrap at this

NoLeaf == -1    \* usize::MAX: before the first update
Nowhere == {<<0, 0, 1>>}    \* a frustum with nothing in it

VARIABLES
    world,
    leaf,       \* the leaf of the camera at the last update
    row,        \* the bytes of its row
    allVisible, \* the leaf has no row
    pvs,        \* the faces of the leaves in the row
    stamps, stamp,  \* face -> the call that emitted it; the number of calls
    emitted, frustum    \* what the last call since then emitted, for which frustum

vars == <<world, leaf, row, allVisible, pvs, stamps, stamp, emitted, frustum>>

Beyond(plane, p) == plane[1] * p[1] + plane[2] * p[2] < plane[3]

\* VisData::leaf_at. Nodes and leaves are numbered from 0; a child below 0 is
\* the leaf -1 - child.
LeafAt(w, p) ==
    LET walk[depth \in 0 .. Len(w.nodes)] ==
          IF depth = 0 THEN 0
          ELSE IF walk[depth - 1] < 0 THEN walk[depth - 1]
          ELSE LET node == w.nodes[walk[depth - 1] + 1]
               IN  node.children[IF Beyond(node.plane, p) THEN 2 ELSE 1]
    IN  IF w.nodes = <<>> THEN 0 ELSE -1 - walk[Len(w.nodes)]

RowBytes(w) == (w.visleafs + BITS - 1) \div BITS

\* The compiler's packing of a row of bytes: runs of zeros are counted. A run at
\* the end of the table may be left out.
Packed(bytes) ==
    LET pack == FoldLeft(LAMBDA s, b :
                  IF b = 0 THEN [s EXCEPT !.zeros = @ + 1]
                  ELSE [out |-> s.out \o (IF s.zeros = 0 THEN <<>> ELSE <<0, s.zeros>>) \o <<b>>,
                        zeros |-> 0],
                  [out |-> <<>>, zeros |-> 0], bytes)
    IN  [bytes |-> pack.out, tail |-> IF pack.zeros = 0 THEN <<>> ELSE <<0, pack.zeros>>]

-----------------------------------------------------------------------------
Cleared == [b \in DOMAIN row |-> 0]

\* VisData::decode_row. A zero is followed by the length of the run; what the
\* map has no bytes for stays zero. The row is as long as the scratch made it.
Decoded(w, from) ==
    LET at(i) == w.visibility[i + 1]    \* numbered from 0
        end == Len(w.visibility)
        \* where the scan is after some steps: next byte, next of the row, row
        scan[k \in 0 .. RowBytes(w)] ==
          IF k = 0 THEN [src |-> from, out |-> 0, row |-> Cleared]
          ELSE LET s == scan[k - 1] IN
               IF s.out >= RowBytes(w) \/ s.src >= end THEN s
               ELSE IF at(s.src) # 0
               THEN [src |-> s.src + 1, out |-> s.out + 1,
                     row |-> [s.row EXCEPT ![s.out + 1] = at(s.src)]]
               ELSE IF s.src + 1 >= end THEN s
               ELSE [s EXCEPT !.src = @ + 2,
                     !.out = @ + IF at(s.src + 1) = 0 THEN 1 ELSE at(s.src + 1)]
    IN  scan[RowBytes(w)].row

HasRow(w, l) ==
    l # 0 /\ l < Len(w.leaves) /\ w.leaves[l + 1].vis \in 0 .. Len(w.visibility)

Bit(byte, i) == (byte \div 2 ^ i) % 2 = 1

\* Of a row r, or of none.
LeafVisible(r, all, i) ==
    all \/ (/\ (i - 1) \div BITS < Len(r)
            /\ Bit(r[(i - 1) \div BITS + 1], (i - 1) % BITS))

\* The faces a leaf lists, cut at the end of the table.
Marks(w, i) ==
    LET l == w.leaves[i + 1]
    IN  SubSeq(w.marks, l.first + 1, Min({l.first + l.count, Len(w.marks)}))

Candidates(w) ==
    SelectSeq([i \in 1 .. Min({w.visleafs, Len(w.leaves) - 1}) |-> i],
              LAMBDA i : ~w.leaves[i + 1].solid)

Visited(r, all) ==
    SelectSeq(Candidates(world), LAMBDA i : LeafVisible(r, all, i))

\* The faces of a list of leaves, each once, where its leaf has it first.
FacesOf(w, leaves) ==
    FoldLeft(LAMBDA faces, f : IF Contains(faces, f) THEN faces ELSE Append(faces, f),
             <<>>, FlattenSeq([k \in DOMAIN leaves |-> Marks(w, leaves[k])]))

-----------------------------------------------------------------------------
\* VisSet::update.
Update(p) ==
    /\ LeafAt(world, p) # leaf
    /\ leaf' = LeafAt(world, p)
    /\ allVisible' = ~HasRow(world, leaf')
    /\ row' = IF allVisible' THEN row ELSE Decoded(world, world.leaves[leaf' + 1].vis)
    /\ pvs' = FacesOf(world, Visited(row', allVisible'))
    /\ stamps' = [f \in DOMAIN stamps |-> 0]
    /\ emitted' = <<>> /\ frustum' = Nowhere
    /\ UNCHANGED <<world, stamp>>

\* Frustum::intersects_aabb: for each plane the corner farthest along it.
Intersects(planes, box) ==
    \A plane \in planes :
        ~Beyond(plane, [k \in 1 .. 2 |-> IF plane[k] >= 0 THEN box.maxs[k] ELSE box.mins[k]])

\* Mutation: when the stamps wrap, those of the calls before are kept.
WrapsOnly == stamps

WrapsClean == [f \in DOMAIN stamps |-> 0]

\* VisSet::gather_faces: a face is emitted unless it has the stamp of the call.
GatherFaces(planes) ==
    LET wraps == (stamp + 1) % WORD = 0
        now == IF wraps THEN 1 ELSE stamp + 1
        old == IF wraps THEN WrapsClean ELSE stamps
        inView == SelectSeq(Visited(row, allVisible),
                            LAMBDA i : Intersects(planes, world.leaves[i + 1]))
    IN  /\ leaf # NoLeaf
        /\ stamp' = now /\ frustum' = planes
        /\ emitted' = SelectSeq(FacesOf(world, inView), LAMBDA f : old[f] # now)
        /\ stamps' = [f \in DOMAIN stamps |->
                        IF Contains(FacesOf(world, inView), f) THEN now ELSE old[f]]
        /\ UNCHANGED <<world, leaf, row, allVisible, pvs>>

Init ==
    /\ world \in WORLDS
    /\ leaf = NoLeaf /\ row = [b \in 1 .. RowBytes(world) |-> 0] /\ allVisible = TRUE
    /\ pvs = <<>> /\ stamps = [f \in 1 .. world.faces |-> 0] /\ stamp = 0
    /\ emitted = <<>> /\ frustum = Nowhere

Next == (\E p \in SPOTS : Update(p)) \/ (\E planes \in FRUSTA : GatherFaces(planes))

Spec == Init /\ [][Next]_vars

-----------------------------------------------------------------------------
TypeOK ==
    /\ leaf \in NoLeaf .. Len(world.leaves) - 1
    /\ row \in [1 .. RowBytes(world) -> 0 .. 2 ^ BITS - 1]
    /\ stamps \in [1 .. world.faces -> 0 .. WORD - 1] /\ stamp \in 0 .. WORD - 1

\* What the map's compiler saw from a leaf; everything if it says nothing.
Sees(l) ==
    IF l # 0 /\ l \in DOMAIN world.sees THEN world.sees[l] ELSE 1 .. world.visleafs

SeenFaces(leaves) == UNION {ToSet(Marks(world, i)) : i \in leaves}

\* The faces of the row are those of the leaves that are seen from the leaf the
\* camera is in, each of them once. ("Shared leaf lists are traversed only on a
\* camera-leaf change")
RowOfTheCamera ==
    leaf # NoLeaf =>
        /\ IsInjective(pvs)
        /\ ToSet(pvs) = SeenFaces({i \in Sees(leaf) : ~world.leaves[i + 1].solid})

\* "Emit every face in a PVS-visible, frustum-intersecting leaf, exactly once
\* per call": no call, however many there were, leaves out a face whose leaf
\* has a point in front of the camera, and none emits a face twice, or one that
\* is not in the row.
GathersInSight ==
    LET points(i) == {p \in SPOTS : \A k \in 1 .. 2 :
             p[k] \in world.leaves[i + 1].mins[k] .. world.leaves[i + 1].maxs[k]}
        infront == {i \in Sees(leaf) :
             /\ ~world.leaves[i + 1].solid
             /\ \E p \in points(i) : \A plane \in frustum : ~Beyond(plane, p)}
    IN  leaf # NoLeaf =>
          /\ IsInjective(emitted)
          /\ SeenFaces(infront) \subseteq ToSet(emitted)
          /\ ToSet(emitted) \subseteq ToSet(pvs)
=============================================================================
