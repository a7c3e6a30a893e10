-------------------------------- MODULE Cook --------------------------------
(***************************************************************************)
(* How the cooker packs the faces of a map into batches a console draws,   *)
(* and what the reader of a cooked map insists on: cook_geometry of        *)
(* pocket3d-bsp/src/cook.rs and read of pocket3d-bsp/src/cooked.rs. An     *)
(* index has 16 bits, so a batch that would outgrow it is sealed and       *)
(* another one opened.                                                     *)
(*                                                                         *)
(* Abstracted: a vertex is its face and the point it was snapped to, the   *)
(* pieces a face was cut into are given; textures and light.               *)
(***************************************************************************)
EXTENDS Integers, SequencesExt

CONSTANTS
    KEYS,       \* batches are kept apart by texture and kind, in this order
    SHAPES,     \* the pieces a face may be cut into, each the points of a polygon
    FACES,      \* bound on the faces
    MAX_VERTS   \* vertices an index tells apart (65,535); more than any face has

VARIABLES
    faces,      \* history: the faces so far
    open,       \* key -> the batch that accumulates, or NoBatch
    sealed,     \* the batches that are complete
    cooked      \* what the reader is given, or NotYet

vars == <<faces, open, sealed, cooked>>

\* Key 0 is of the surfaces that are not drawn.
Face == [key : 0 .. KEYS, world : BOOLEAN, pieces : SHAPES]

NoBatch == [verts |-> <<>>, indices |-> <<>>, runs |-> <<>>]
NotYet == <<>>
Undrawn == [batch |-> -1, base |-> 0, count |-> 0]

-----------------------------------------------------------------------------
(* One face.                                                                *)

Pieces(f) == SelectSeq(f.pieces, LAMBDA piece : Len(piece) >= 3)

\* The points of a face, each once.
Points(f) ==
    FoldLeft(LAMBDA ps, p : IF Contains(ps, p) THEN ps ELSE Append(ps, p),
             <<>>, FlattenSeq(Pieces(f)))

\* A piece is a fan of triangles; those that snapping made degenerate are dropped.
Fan(piece) ==
    SelectSeq([i \in 1 .. Len(piece) - 2 |-> <<piece[1], piece[i + 1], piece[i + 2]>>],
              LAMBDA t : t[1] # t[2] /\ t[2] # t[3] /\ t[1] # t[3])

Triangles(f) == FlattenSeq([i \in DOMAIN Pieces(f) |-> Fan(Pieces(f)[i])])

\* The number of a point in its face.
Local(f, p) == (CHOOSE i \in DOMAIN Points(f) : Points(f)[i] = p) - 1

-----------------------------------------------------------------------------
(* The batches.                                                             *)

Init ==
    /\ faces = <<>> /\ open = [k \in 1 .. KEYS |-> NoBatch]
    /\ sealed = <<>> /\ cooked = NotYet

Outgrows(batch, f) == Len(batch.verts) + Len(Points(f)) > MAX_VERTS

\* The face that is face number `id`, behind what is in the batch.
Extended(batch, f, id) ==
    [verts |-> batch.verts \o [i \in DOMAIN Points(f) |-> <<id, Points(f)[i]>>],
     indices |-> batch.indices \o
        FlattenSeq([i \in DOMAIN Triangles(f) |->
                      [j \in 1 .. 3 |-> Local(f, Triangles(f)[i][j]) + Len(batch.verts)]]),
     runs |-> Append(batch.runs,
        [face |-> id, world |-> f.world, base |-> Len(batch.indices),
         count |-> 3 * Len(Triangles(f))])]

CookFace(f) ==
    /\ cooked = NotYet /\ Len(faces) < FACES /\ faces' = Append(faces, f)
    /\ IF f.key = 0 \/ Triangles(f) = <<>> THEN UNCHANGED <<open, sealed>>
       ELSE LET full == open[f.key] # NoBatch /\ Outgrows(open[f.key], f)
                batch == IF full THEN NoBatch ELSE open[f.key]
            IN  /\ sealed' = IF full THEN Append(sealed, <<f.key, open[f.key]>>) ELSE sealed
                /\ open' = [open EXCEPT ![f.key] = Extended(batch, f, Len(faces'))]
    /\ UNCHANGED cooked

\* The batches in the order of their keys, those of one key in that of sealing.
Sorted ==
    LET rest == SelectSeq([k \in 1 .. KEYS |-> <<k, open[k]>>], LAMBDA b : b[2] # NoBatch)
    IN  FlattenSeq([k \in 1 .. KEYS |-> SelectSeq(sealed \o rest, LAMBDA b : b[1] = k)])

\* Mutation: the runs keep the places they had in their batch.
RunInBatch(map, run) == run.base

RunInMap(map, run) == Len(map.indices) + run.base

\* One batch goes behind what the map has.
Flattened(map, keyed) ==
    LET batch == keyed[2]
        RunOf(run) == [batch |-> Len(map.batches), base |-> RunInMap(map, run), count |-> run.count]
        ofEntities == SelectSeq(batch.runs, LAMBDA run : ~run.world)
    IN  [verts |-> map.verts \o batch.verts,
         indices |-> map.indices \o batch.indices,
         batches |-> Append(map.batches,
            [key |-> keyed[1], vertBase |-> Len(map.verts), verts |-> Len(batch.verts),
             indexBase |-> Len(map.indices), indices |-> Len(batch.indices)]),
         runs |-> [id \in DOMAIN map.runs |->
            IF \E run \in ToSet(batch.runs) : run.face = id /\ run.world
            THEN RunOf(CHOOSE run \in ToSet(batch.runs) : run.face = id)
            ELSE map.runs[id]],
         always |-> map.always \o [i \in DOMAIN ofEntities |->
            RunOf(ofEntities[i]) @@ [face |-> ofEntities[i].face]]]

Finish ==
    /\ cooked = NotYet
    /\ cooked' = FoldLeft(Flattened,
           [verts |-> <<>>, indices |-> <<>>, batches |-> <<>>,
            runs |-> [id \in DOMAIN faces |-> Undrawn], always |-> <<>>], Sorted)
    /\ UNCHANGED <<faces, open, sealed>>

Next == Finish \/ \E f \in Face : CookFace(f)

Spec == Init /\ [][Next]_vars

-----------------------------------------------------------------------------
(* What the reader insists on.                                              *)

BatchAccepted(map, b) ==
    /\ b.vertBase + b.verts <= Len(map.verts)
    /\ b.indices % 3 = 0 /\ b.indexBase + b.indices <= Len(map.indices)
    /\ \A i \in b.indexBase + 1 .. b.indexBase + b.indices : map.indices[i] < b.verts

RunAccepted(map, r) ==
    r.batch # -1 =>
        /\ r.batch < Len(map.batches) /\ r.count % 3 = 0
        /\ LET b == map.batches[r.batch + 1]
           IN  b.indexBase <= r.base /\ r.base + r.count <= b.indexBase + b.indices

Accepted(map) ==
    /\ \A b \in ToSet(map.batches) : BatchAccepted(map, b)
    /\ \A id \in DOMAIN map.runs : RunAccepted(map, map.runs[id])
    /\ \A r \in ToSet(map.always) : RunAccepted(map, r)

-----------------------------------------------------------------------------
TypeOK ==
    /\ faces \in Seq(Face) /\ Len(faces) <= FACES
    /\ \A k \in 1 .. KEYS : Len(open[k].verts) <= MAX_VERTS

\* The triangles a run draws, as faces and points.
Drawn(map, r) ==
    LET b == map.batches[r.batch + 1]
        Vertex(i) == map.verts[b.vertBase + map.indices[i] + 1]
    IN  [t \in 1 .. r.count \div 3 |->
           [j \in 1 .. 3 |-> Vertex(r.base + 3 * (t - 1) + j)]]

Expected(id) ==
    [t \in DOMAIN Triangles(faces[id]) |->
       [j \in 1 .. 3 |-> <<id, Triangles(faces[id])[t][j]>>]]

\* What the cooker writes the reader takes, and a console that draws the run of
\* a face draws the triangles of that face, with its texture, and no others.
\* Entities are drawn always, faces of the world when they are seen.
FacesKept ==
    cooked # NotYet =>
        /\ Accepted(cooked)
        /\ \A b \in ToSet(cooked.batches) : b.verts <= MAX_VERTS
        /\ \A id \in DOMAIN faces :
             LET drawn == faces[id].key # 0 /\ Triangles(faces[id]) # <<>>
                 runs == (IF cooked.runs[id] = Undrawn THEN {} ELSE {cooked.runs[id]})
                         \cup {r \in ToSet(cooked.always) : r.face = id}
             IN  /\ (cooked.runs[id] # Undrawn) = (drawn /\ faces[id].world)
                 /\ drawn => \E r \in runs :
                      /\ runs = {r} /\ Drawn(cooked, r) = Expected(id)
                      /\ cooked.batches[r.batch + 1].key = faces[id].key

=============================================================================
