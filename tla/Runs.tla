--------------------------------- MODULE Runs ---------------------------------
(***************************************************************************)
(* What the renderers of the Vita and of GLES2 ask the GPU to draw: every  *)
(* visible face is a range of the indices of its batch; the ranges of a    *)
(* batch are sorted, and those that lie end to end are joined into one     *)
(* draw call. (gather and merge_runs of pocket3d-gles2/src/world.rs, and   *)
(* gather_runs and merge_runs of pocket3d-vita/src/world.rs)               *)
(*                                                                         *)
(* A face is a record of its batch, 0 for none, and of the base and the    *)
(* count of its indices. Which faces are seen is what Vis decides.         *)
(***************************************************************************)
LOCAL INSTANCE Integers
LOCAL INSTANCE Sequences
LOCAL INSTANCE SequencesExt

\* What is pushed for a batch, in the order of its bases.
Pushed(faces, seen, batch) ==
    SetToSortSeq({<<faces[f].base, faces[f].count>> : f \in {g \in seen : faces[g].batch = batch}},
                 LAMBDA a, b : a[1] < b[1] \/ (a[1] = b[1] /\ a[2] < b[2]))

Joins(a, b) == a[1] + a[2] = b[1]

\* merge_runs
Merged(ranges) ==
    FoldLeft(LAMBDA out, next :
                IF out # <<>> /\ Joins(Last(out), next)
                THEN Front(out) \o << <<Last(out)[1], Last(out)[2] + next[2]>> >>
                ELSE Append(out, next),
             <<>>, ranges)

TrianglesOf(ranges) == FoldLeft(LAMBDA n, r : n + r[2] \div 3, 0, ranges)

\* The first indices of the triangles that ranges draw.
Corners(ranges) == UNION {{r[1] + 3 * i : i \in 0 .. r[2] \div 3 - 1} : r \in {ranges[k] : k \in DOMAIN ranges}}

\* Joined, the ranges draw the triangles of the faces that are seen, each once,
\* and no two of them could have been one. (merge_runs)
DrawsEachOnce(faces, seen, batch) ==
    LET given == Pushed(faces, seen, batch)
        drawn == Merged(given)
    IN  /\ Corners(drawn) = Corners(given)
        /\ TrianglesOf(drawn) = TrianglesOf(given)
        /\ \A i \in 1 .. Len(drawn) - 1 : drawn[i][1] + drawn[i][2] < drawn[i + 1][1]

=============================================================================
