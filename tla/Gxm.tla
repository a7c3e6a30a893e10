---------------------------------- MODULE Gxm ----------------------------------
(***************************************************************************)
(* The GXM renderer of the Vita: domain/crates/pocket3d-vita. The pipeline *)
(* of programs (src/gxm.rs), a pass that records and then submits what is  *)
(* drawn (src/lib.rs, src/pool.rs, src/mesh.rs, src/sky.rs), and a map     *)
(* whose geometry and textures are made resident when it is first drawn    *)
(* (src/world.rs, src/texture.rs).                                         *)
(*                                                                         *)
(* Every call of the GPU's library may fail; what is not drawn is counted, *)
(* and the rest goes on. What was drawn is read by the GPU until it has    *)
(* been waited for.                                                        *)
(*                                                                         *)
(* Abstracted: matrices, colours, depths and the order of translucent      *)
(* triangles. A list is the number of its vertices. Most of this code is   *)
(* compiled for the console alone.                                         *)
(***************************************************************************)
EXTENDS Integers, Sequences
LOCAL INSTANCE FiniteSetsExt

CONSTANTS
    FACES,      \* the faces of the map, see Runs
    BATCHES,    \* sequence of [texture, masked]
    TEXTURES,   \* number of textures
    LISTS,      \* the lists of a frame: backdrop, opaque, blended, ...
    SIZES,      \* sizes of the lists of vertices that are staged
    STAGED,     \* how many lists a frame stages
    CHUNK       \* vertices of one draw call of a list, 65535

R == INSTANCE Runs

VARIABLES
    pc,         \* "closed" outside a pass, "pass" in it, "ended" after it
    pipeline,   \* "none", "made" or "failed"
    patched,    \* programs and memory of the pipeline that exist
    drawer,     \* the renderer of the map
    lists,      \* the vertices that are staged, by list
    cutouts,    \* the masked runs that are staged, of the resident geometry
    counted,    \* FrameStats: triangles and dropped_triangles
    drawn,      \* the triangles that the GPU was given
    inFlight    \* what the GPU may be reading

vars == <<pc, pipeline, patched, drawer, lists, cutouts, counted, drawn, inFlight>>

NoList == [l \in LISTS |-> 0]
NoCount == [triangles |-> 0, dropped |-> 0]

NoDrawer == [there |-> FALSE, geometry |-> "none", resident |-> {}]
NewDrawer == [there |-> TRUE, geometry |-> "none", resident |-> {}]

\* Registered shaders, vertex and fragment programs, and the slab of indices.
Parts(ids, vertex, fragment, slab) ==
    [ids |-> ids, vertex |-> vertex, fragment |-> fragment, slab |-> slab]
NoParts == Parts(0, 0, 0, 0)
AllParts == Parts(5, 3, 6, 1)

Init ==
    /\ pc = "closed" /\ pipeline = "none" /\ patched = NoParts /\ drawer = NoDrawer
    /\ lists = NoList /\ cutouts = {} /\ counted = NoCount /\ drawn = 0 /\ inFlight = {}

-----------------------------------------------------------------------------
\* The pipeline. build ends early at any of its steps, with what it had made.
Prefixes ==
    {Parts(i, 0, 0, 0) : i \in 0 .. 5} \cup {Parts(5, v, 0, 0) : v \in 0 .. 3}
    \cup {Parts(5, 3, f, 0) : f \in 0 .. 6}

\* BuildGuard::drop releases what it has recorded.
Released(made) ==
    LET recorded == [made EXCEPT !.slab = 0]
    IN  [f \in DOMAIN made |-> made[f] - recorded[f]]

\* pipeline(): built once, and not tried again after it failed.
Built ==
    \/ pipeline # "none" /\ UNCHANGED <<pipeline, patched>>
    \/ pipeline = "none" /\ pipeline' = "made" /\ patched' = AllParts
    \/ /\ pipeline = "none" /\ pipeline' = "failed"
       /\ \E made \in Prefixes : patched' = Released(made)

\* shutdown, between passes; a pipeline may be built again afterwards.
Shutdown ==
    /\ pc = "closed" /\ pipeline' = "none"
    /\ IF pipeline = "made" THEN inFlight' = {} /\ patched' = NoParts
       ELSE UNCHANGED <<inFlight, patched>>
    /\ UNCHANGED <<pc, drawer, lists, cutouts, counted, drawn>>

-----------------------------------------------------------------------------
Forgotten == lists' = NoList /\ cutouts' = {} /\ counted' = NoCount /\ drawn' = 0

\* A frame: pool.reset and begin_3d.
Begin ==
    /\ pc = "closed" /\ pc' = "pass" /\ Built
    /\ Forgotten
    /\ UNCHANGED <<drawer, inFlight>>

\* sky::draw, draw_color_tris, draw_blend_tris and draw_additive_tris, the last
\* three also after the layer of the view model was begun.
Stage ==
    /\ pc = "pass"
    /\ Quantify(LISTS, LAMBDA l : lists[l] # 0) < STAGED
    /\ \E l \in LISTS, n \in SIZES : lists' = [lists EXCEPT ![l] = n] /\ lists[l] = 0
    /\ UNCHANGED <<pc, pipeline, patched, drawer, cutouts, counted, drawn, inFlight>>

\* Which ranges of which batch are seen, and of which kind they are.
Seen(seen) == [b \in DOMAIN BATCHES |-> R!Merged(R!Pushed(FACES, seen, b))]
Textured(b, resident) == BATCHES[b].texture \in resident
RunsOf(plan, batches) == UNION {{<<b, i>> : i \in DOMAIN plan[b]} : b \in batches}
TrianglesOf(plan, runs) == MapThenSumSet(LAMBDA r : plan[r[1]][r[2]][2] \div 3, runs)

\* TextureBank::upload_missing: one after the other, up to the first that fails.
Uploaded(resident) ==
    LET missing == 1 .. TEXTURES \ resident
    IN  {resident \cup {t \in missing : t < stop} : stop \in missing \cup {TEXTURES + 1}}

\* What may become of one pass over the ranges of some batches: any of them
\* fail, or all, if nothing can be bound for them.
Passes(plan, runs) ==
    {[drawn |-> TrianglesOf(plan, runs \ fail), dropped |-> TrianglesOf(plan, fail)] :
        fail \in SUBSET runs}

\* What is submitted before the pool is: the textured ranges twice, once for
\* their light. (WorldRenderer::submit)
Direct(textured, fallback, maskedFallback) == 2 * textured + fallback + maskedFallback

\* WorldRenderer::draw and submit, once in a frame.
DrawWorld ==
    /\ pc = "pass" /\ drawer.there /\ cutouts = {} /\ counted = NoCount
    /\ \E seen \in SUBSET {f \in DOMAIN FACES : FACES[f].batch # 0},
          resident \in Uploaded(drawer.resident) :
          LET plan == Seen(seen)
              solid == {b \in DOMAIN BATCHES : ~BATCHES[b].masked}
              ready == {b \in DOMAIN BATCHES : Textured(b, resident)}
              textured == RunsOf(plan, solid \cap ready)
              fallback == RunsOf(plan, solid \ ready)
              maskedFallback == RunsOf(plan, DOMAIN BATCHES \ (solid \cup ready))
              masked == RunsOf(plan, ready \ solid)
              direct == Direct(TrianglesOf(plan, textured), TrianglesOf(plan, fallback),
                               TrianglesOf(plan, maskedFallback))
              all == direct + TrianglesOf(plan, masked)
          IN  \/ \* without a pipeline, or memory for the geometry
                 /\ \/ pipeline # "made" /\ UNCHANGED inFlight
                       /\ drawer' = [drawer EXCEPT !.resident = resident]
                    \/ pipeline = "made" /\ drawer.geometry # "there" /\ UNCHANGED inFlight
                       /\ drawer' = [drawer EXCEPT !.resident = resident, !.geometry = "failed"]
                 /\ counted' = [triangles |-> all, dropped |-> all]
                 /\ UNCHANGED <<cutouts, drawn>>
              \/ /\ pipeline = "made" /\ drawer.geometry # "failed"
                 /\ drawer' = [drawer EXCEPT !.resident = resident, !.geometry = "there"]
                 /\ \E first, light \in Passes(plan, textured),
                       gouraud \in Passes(plan, fallback \cup maskedFallback) :
                       /\ counted' = [triangles |-> direct, dropped |-> first.dropped
                                                       + gouraud.dropped + light.dropped]
                       /\ drawn' = first.drawn + gouraud.drawn + light.drawn
                 /\ cutouts' = {[texture |-> BATCHES[r[1]].texture, run |-> r,
                                 count |-> plan[r[1]][r[2]][2]] : r \in masked}
                 /\ inFlight' = inFlight \cup {<<"geometry", 0>>}
                                \cup {<<"texture", BATCHES[b].texture>> : b \in solid \cap ready}
    /\ UNCHANGED <<pc, pipeline, patched, lists>>

\* draw_color_list: copied to the memory of the frame, if there is any, and
\* drawn in chunks.
ChunksOf(n) == {[start |-> s, count |-> IF n - s < CHUNK THEN n - s ELSE CHUNK] :
                   s \in {k * CHUNK : k \in 0 .. (IF n = 0 THEN -1 ELSE (n - 1) \div CHUNK)}}

\* What becomes of a list: [drawn, dropped] triangles.
ListFates(n) ==
    LET sum(chunks) == MapThenSumSet(LAMBDA c : c.count \div 3, chunks)
    IN  {[drawn |-> 0, dropped |-> n \div 3]}
        \cup {[drawn |-> sum(ChunksOf(n) \ fail), dropped |-> sum(fail)] : fail \in SUBSET ChunksOf(n)}

Fates ==
    FoldSet(LAMBDA l, all : {[drawn |-> a.drawn + b.drawn, dropped |-> a.dropped + b.dropped] :
                                a \in all, b \in ListFates(lists[l])},
            {[drawn |-> 0, dropped |-> 0]}, {l \in LISTS : lists[l] # 0})

CutoutFates ==
    LET sum(runs) == MapThenSumSet(LAMBDA c : c.count \div 3, runs)
    IN  {[drawn |-> 0, dropped |-> sum(cutouts)]}
        \cup {[drawn |-> sum(cutouts \ fail), dropped |-> sum(fail)] : fail \in SUBSET cutouts}

Staged == MapThenSumSet(LAMBDA l : lists[l] \div 3, LISTS)
          + MapThenSumSet(LAMBDA c : c.count \div 3, cutouts)

\* end_3d, FramePool::flush and submit.
End ==
    /\ pc = "pass" /\ pc' = "ended"
    /\ \/ /\ pipeline # "made" /\ UNCHANGED <<drawn, inFlight>>
          /\ counted' = [triangles |-> counted.triangles + Staged, dropped |-> counted.dropped + Staged]
       \/ /\ pipeline = "made"
          /\ \E fates \in Fates, cut \in CutoutFates :
                /\ counted' = [triangles |-> counted.triangles + Staged,
                               dropped |-> counted.dropped + cut.dropped + fates.dropped]
                /\ drawn' = drawn + cut.drawn + fates.drawn
          /\ inFlight' = inFlight \cup {<<"slab", 0>>} \cup {<<"texture", c.texture>> : c \in cutouts}
    /\ UNCHANGED <<pipeline, patched, drawer, lists, cutouts>>

\* The scene is ended and shown; the GPU is done with it now, or later. What was
\* staged and counted is forgotten here, not at the next begin.
Present ==
    /\ pc = "ended" /\ pc' = "closed"
    /\ inFlight' \in {inFlight, {}} /\ Forgotten
    /\ UNCHANGED <<pipeline, patched, drawer>>

\* WorldRenderer::new touches nothing of the GPU.
Load ==
    /\ pc = "closed" /\ ~drawer.there /\ drawer' = NewDrawer
    /\ UNCHANGED <<pc, pipeline, patched, lists, cutouts, counted, drawn, inFlight>>

\* The GPU is waited for if there is anything that it could be reading.
Waited == IF drawer.geometry = "there" \/ drawer.resident # {} THEN {} ELSE inFlight

\* WorldRenderer::drop and TextureBank::drop.
Drop ==
    /\ pc = "closed" /\ drawer.there /\ drawer' = NoDrawer /\ inFlight' = Waited
    /\ UNCHANGED <<pc, pipeline, patched, lists, cutouts, counted, drawn>>

Next == Shutdown \/ Begin \/ Stage \/ DrawWorld \/ End \/ Present \/ Load \/ Drop

Spec == Init /\ [][Next]_vars

-----------------------------------------------------------------------------
\* Whichever calls fail, a frame accounts for every triangle it was to draw:
\* each was given to the GPU or is counted as dropped. (FrameStats)
TrianglesAccounted == pc = "ended" => counted.triangles = drawn + counted.dropped

\* A pipeline is whole, or nothing is left of it. (BuildGuard)
PipelineWhole == patched = IF pipeline = "made" THEN AllParts ELSE NoParts

\* What the GPU may be reading exists: it is freed only after a wait.
ReadsWhatExists ==
    /\ <<"slab", 0>> \in inFlight => pipeline = "made"
    /\ <<"geometry", 0>> \in inFlight => drawer.geometry = "there"
    /\ \A t \in 1 .. TEXTURES : <<"texture", t>> \in inFlight => t \in drawer.resident

=============================================================================
