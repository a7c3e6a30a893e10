------------------------------- MODULE MCMaps -------------------------------
(***************************************************************************)
(* The way of a map from its sources to the screen, on small instances,    *)
(* one `part' each; a behaviour is one of one part, and what the others    *)
(* have of their own stays 0:                                              *)
(*   wads, textures, cook    the archives, the textures and the geometry   *)
(*                           the cooker makes of a map                     *)
(*   read                    how a console reads what was cooked           *)
(*   strips, clusters        what a console makes of it to draw            *)
(*   vis, walk               what is in sight, and where a body can go     *)
(*   gles2, gxm, gu          what three of the renderers draw of it        *)
(*   character               and what the handhelds draw of a bot in it    *)
(***************************************************************************)
EXTENDS Integers, Sequences, TLC

CONSTANT CUT    \* whether directories of archives may end early

VARIABLES
    part,
    offered, files, entries,
    allowed, textures, section, cooking, verified,
    faces, open, sealed, cooked,
    host, load, size, capacity, memory, base, start, filled, stage, failed,
    source, out, used, indices, ranges,
    runs, order, grouped, groups, faceGroups, seen,
    world, leaf, row, allVisible, pvs, stamps, stamp, emitted, frustum,
    map, place, vel, on_ground,
    live, state, store, resident, next, dynamic, call,
    pc, pipeline, patched, drawer, queued, cutouts, counted, drawn, inFlight,
    scene, storage, bounds, kept, written, inPvs, visible, submitted, camera,
    asset, progress, renderer, taken, posed

-----------------------------------------------------------------------------
\* Archives that share names, one that is none, and two that end early.
Lump(name, good) == [name |-> name, good |-> good]
File(magic, names, whole) == [magic |-> magic, lists |-> names, whole |-> whole]
WholeFiles == {File(TRUE, <<Lump("a", TRUE), Lump("b", TRUE)>>, 2),
               File(TRUE, <<Lump("b", FALSE), Lump("c", TRUE), Lump("b", TRUE)>>, 3),
               File(FALSE, <<Lump("a", TRUE)>>, 1),
               File(TRUE, <<Lump("d", TRUE), Lump("c", FALSE)>>, 2)}
CutFiles == {File(TRUE, <<Lump("a", TRUE), Lump("b", TRUE)>>, 2),
             File(TRUE, <<Lump("c", TRUE), Lump("d", TRUE)>>, 1)}
Archives == INSTANCE Wads WITH FILES <- IF CUT THEN CutFiles ELSE WholeFiles,
                               NAMES <- {"a", "b", "c", "d"}

\* Pictures below, at and above a block and the limit; masked; not found.
Image(w, h, masked, found, shown) ==
    [w |-> w, h |-> h, masked |-> masked, found |-> found, drawn |-> shown]
Pictures == {Image(w, h, FALSE, TRUE, TRUE) : w \in {2, 4, 6, 16}, h \in {2, 8, 12}}
            \cup {Image(4, 4, TRUE, TRUE, TRUE), Image(6, 2, TRUE, TRUE, FALSE),
                  Image(4, 4, FALSE, FALSE, TRUE), Image(4, 4, FALSE, FALSE, FALSE)}
Pictured == INSTANCE Textures WITH
    cooked <- cooking, PICTURES <- Pictures, BW <- 4, BH <- 2, LIMIT <- 8, SMALLEST <- 2,
    STORED <- 2, MAX_MIPS <- 3, HEADER <- 3, PALETTE <- 4, ALIGN <- 4

\* A triangle, a quad, one that snapping made degenerate and one it made
\* vanish, and pieces that share points.
Cooking == INSTANCE Cook WITH KEYS <- 2, FACES <- 3, MAX_VERTS <- 6, SHAPES <-
    {<< <<1, 2, 3>> >>, << <<1, 2, 3, 4>> >>, << <<1, 2, 2>>, <<2, 3, 4>> >>, << <<1, 1, 2>> >>,
     << <<1, 2, 3>>, <<2, 1>>, <<3, 2, 4, 1>> >>}

Reading == INSTANCE Reader WITH pos <- place, BYTES <- 4, LOADS <- 2, WORD <- 2, WORDS <- 2

\* Any triangle, also without area; two and three of them; a strip of five.
Corner == 1 .. 4
Triangle == [1 .. 3 -> Corner]
Lists == {<<t>> : t \in Triangle} \cup {<< <<1, 2, 3>>, t >> : t \in Triangle}
         \cup {<< <<1, 2, 3>>, t, u >> : t \in {<<2, 3, 4>>, <<3, 4, 1>>, <<4, 4, 1>>},
                                         u \in {<<1, 2, 4>>, <<3, 2, 1>>, <<4, 3, 2>>}}
         \cup {<< <<1, 2, 3>>, <<2, 3, 4>>, <<3, 4, 5>>, <<4, 5, 6>>, <<5, 6, 7>> >>}
Stripping == INSTANCE Strips WITH SOURCES <- Lists, LIMIT <- 10, RUNS <- 1, CHUNK <- 6

\* Four runs of two batches and of none, lists and strips of two lengths,
\* faces and entities.
ListOf(batch, always) ==
    [batch |-> batch, strip |-> FALSE, always |-> always, size |-> 3, triangles |-> 1]
StripOf(batch, always, n) ==
    [batch |-> batch, strip |-> TRUE, always |-> always, size |-> n, triangles |-> n - 2]
OfFaces == {ListOf(1, FALSE), StripOf(1, FALSE, 4), StripOf(1, FALSE, 5), ListOf(2, FALSE),
            ListOf(0, FALSE)}
Grouping == INSTANCE Clusters WITH indices <- grouped, GROUP <- 2, GROUPED <- 12, RUNS <-
    {rs \in [1 .. 4 -> OfFaces \cup {StripOf(1, TRUE, 4), ListOf(2, TRUE)}] :
       \A i \in 1 .. 2 : ~rs[i].always /\ (rs[i + 2].always => i = 2 \/ rs[4].always)}

\* Five leaves in a line, one of them solid and one beside another; rows of two
\* of them, the last of which may end early.
Spots == (0 .. 4) \X (0 .. 1)
Line == << [plane |-> <<1, 0, 1>>, children |-> <<1, -2>>],
           [plane |-> <<1, 0, 2>>, children |-> <<2, -3>>],
           [plane |-> <<0, 1, 1>>, children |-> <<-6, 3>>],
           [plane |-> <<1, 0, 3>>, children |-> <<4, -4>>],
           [plane |-> <<-1, 0, -3>>, children |-> <<-5, -1>>] >>
Leaf(mins, maxs, vis, first, count, solid) ==
    [mins |-> mins, maxs |-> maxs, vis |-> vis, first |-> first, count |-> count, solid |-> solid]
BytesOf(S) == [b \in 1 .. 3 |-> (IF 2 * b - 1 \in S THEN 1 ELSE 0) + (IF 2 * b \in S THEN 2 ELSE 0)]
Packing == INSTANCE Vis WITH WORLDS <- {}, SPOTS <- {}, FRUSTA <- {}, BITS <- 2, WORD <- 3
LineWorld(a, b, cut) ==
    LET one == Packing!Packed(BytesOf(a))
        two == Packing!Packed(BytesOf(b))
        first == one.bytes \o one.tail
    IN  [nodes |-> Line,
         leaves |-> << Leaf(<<0, 0>>, <<0, 0>>, -1, 0, 0, TRUE),
                       Leaf(<<0, 0>>, <<0, 1>>, 0, 0, 2, FALSE),
                       Leaf(<<1, 0>>, <<1, 1>>, Len(first), 1, 2, FALSE),
                       Leaf(<<2, 0>>, <<2, 0>>, -1, 3, 1, FALSE),
                       Leaf(<<3, 0>>, <<3, 0>>, -1, 3, 2, TRUE),
                       Leaf(<<2, 1>>, <<4, 1>>, -1, 4, 3, FALSE) >>,
         marks |-> <<1, 2, 3, 1, 3, 4>>,
         visibility |-> first \o two.bytes \o (IF cut THEN <<>> ELSE two.tail),
         visleafs |-> 5, faces |-> 4, sees |-> (1 :> a) @@ (2 :> b)]
SeenSets == {{1}, {1, 2}, {3, 5}, {1, 5}, {2, 3, 4}}
Sighted == INSTANCE Vis WITH
    WORLDS <- {LineWorld(a, b, cut) : a \in SeenSets, b \in SeenSets, cut \in BOOLEAN},
    SPOTS <- Spots, FRUSTA <- {{}, {<<1, 0, 1>>}, {<<-1, 0, -1>>}, {<<1, 1, 2>>, <<0, -1, 0>>}},
    BITS <- 2, WORD <- 3

\* A room with stairs and something overhead, one with two boxes that stand away
\* from where they were built, and two with a ceiling a little lower on one side.
Hulls == INSTANCE Collision WITH EPS <- 20, MAX_VISITED <- 10
Split(axis, facing, at, front, back) ==
    [axis |-> axis, facing |-> facing, at |-> at, children |-> <<front, back>>]
HullOf(nodes, origin) == [nodes |-> nodes, head |-> 0, origin |-> origin]
E == Hulls!EMPTY
X == Hulls!SOLID
RoomWith(above) ==
    HullOf(<<Split(2, 1, 40, 1, X), Split(1, 1, 0, 2, X), Split(1, -1, 280, 3, X)>> \o above, <<0, 0>>)
Room == RoomWith(<<Split(2, -1, 200, E, X)>>)
Stairs == RoomWith(<<Split(2, -1, 200, 4, X), Split(1, 1, 140, 5, E), Split(2, -1, 80, X, 6),
                        Split(1, 1, 200, 7, E), Split(2, -1, 120, X, E)>>)
Lowered(height) ==
    RoomWith(<<Split(1, 1, 200, 4, 5), Split(2, 1, 235, X, E), Split(2, 1, height, X, E)>>)
Box(mins, maxs, origin) ==
    Hulls!WithBounds(HullOf(<<Split(1, 1, mins[1], 1, E), Split(1, -1, maxs[1], 2, E),
                              Split(2, 1, mins[2], 3, E), Split(2, -1, maxs[2], X, E)>>, origin))
Walking == INSTANCE Walk WITH pos <- place, EPS <- 20, MAX_VISITED <- 10,
    REACH <- 60, STEP <- 60, PROBE <- 40, MAPS <-
    {[world |-> Stairs, entities |-> <<Box(<<60, 100>>, <<100, 160>>, <<0, 0>>)>>, spawn |-> <<40, 60>>],
     [world |-> Room, spawn |-> <<40, 60>>,
      entities |-> <<Box(<<40, 0>>, <<100, 40>>, <<80, 40>>), Box(<<0, 0>>, <<60, 100>>, <<220, 40>>)>>]}
    \cup {[world |-> Lowered(h), entities |-> <<>>, spawn |-> <<40, 60>>] : h \in {201, 206}}

\* Faces that lie end to end, and one that is nothing; a batch that is masked.
FaceOf(batch, first, count) == [batch |-> batch, base |-> first, count |-> count]
Faces == <<FaceOf(1, 0, 3), FaceOf(1, 3, 6), FaceOf(2, 15, 3), FaceOf(0, 9, 3)>>
Batches == <<[texture |-> 1, masked |-> FALSE], [texture |-> 2, masked |-> TRUE]>>
Gl == INSTANCE Gles2 WITH world <- resident, FACES <- Faces \o <<FaceOf(1, 12, 3), FaceOf(2, 18, 0)>>,
    BATCHES <- Batches, TEXTURES <- 2, SIZES <- {0, 2, 3, 6, 9}, MIN_STORE <- 4
Joining == INSTANCE Runs
JoinsLoseNothing ==
    \A faced \in SUBSET DOMAIN Faces, batch \in DOMAIN Batches :
        Joining!DrawsEachOnce(Faces, faced, batch)
Vita2d == INSTANCE Gxm WITH lists <- queued, FACES <- Faces \o <<FaceOf(1, 12, 3)>>,
    BATCHES <- Batches, TEXTURES <- 2, LISTS <- {"backdrop", "opaque", "viewmodel"}, SIZES <- {3, 9},
    STAGED <- 2, CHUNK <- 6

\* A floor and a higher one, a fold, walls, a slope, water, and a face of which
\* the first triangle has no area; three of them are of entities.
Flat(h, x) == << <<x, h, 0>>, <<x + 4, h, 0>>, <<x, h, 4>>, <<x + 4, h, 0>>, <<x + 4, h, 4>>, <<x, h, 4>> >>
WallAt(x) == << <<x, 0, 0>>, <<x, 4, 0>>, <<x, 0, 4>> >>
Slope == << <<0, 0, 0>>, <<4, 4, 0>>, <<0, 0, 4>> >>
Fold == << <<0, 0, 0>>, <<4, 0, 0>>, <<0, 0, 4>>, <<0, 0, 0>>, <<0, 0, 4>>, <<0, 4, 4>> >>
Thin == << <<2, 0, 0>>, <<2, 0, 0>>, <<2, 4, 0>>, <<2, 0, 0>>, <<2, 4, 0>>, <<2, 4, 4>> >>
DrawnRun(batch, corners, strip, n) == [batch |-> batch, corners |-> corners, strip |-> strip, indices |-> n]
TheRuns(n) ==
    << DrawnRun(1, Flat(0, 0), TRUE, 4), DrawnRun(1, Flat(9, 4), TRUE, 4), DrawnRun(1, Fold, FALSE, 6),
       DrawnRun(2, WallAt(4), FALSE, 3), DrawnRun(2, Slope, FALSE, 3), DrawnRun(3, WallAt(0), FALSE, n),
       DrawnRun(0, <<>>, FALSE, 0), DrawnRun(1, Thin, FALSE, 6), DrawnRun(2, WallAt(2), FALSE, 3) >>
Scene(n, near) ==
    [textures |-> << <<8, 12, 3>>, <<8, 5>>, <<4>> >>,
     batches |-> << [texture |-> 1, kind |-> "opaque"], [texture |-> 2, kind |-> "masked"],
                    [texture |-> 1, kind |-> "water"] >>,
     runs |-> TheRuns(n), faces |-> 7, vertices |-> 10, groups |-> near,
     leaves |-> {{1, 3, 6}, {2, 4}, {1, 2, 5, 7}, 1 .. 7}]
NearOnes == << <<1, 2>>, <<3>>, <<8>>, <<4, 5>>, <<9>>, <<6>> >>
Small == [Scene(3, << <<1>>, <<2>>, <<3, 4>> >>) EXCEPT
             !.runs = SubSeq(TheRuns(3), 2, 5), !.faces = 1, !.leaves = {{1}}]
Memory(at, n) == [at |-> at, size |-> n]
Gpu == INSTANCE Gu WITH drawn <- submitted,
    SETUPS <- {<<Scene(12, <<>>), Memory(0, 0)>>, <<Scene(3, NearOnes), Memory(1, 200)>>}
              \cup {<<Small, Memory(a, n)>> : a \in {0, 1, 3}, n \in {0, 2, 16, 24, 41, 60, 100}},
    EYES <- {<<2, 1, 2>>, <<9, 20, 2>>, <<9, -9, 1>>},
    FRUSTA <- {{}, {<<1, 0, 0, 5>>}, {<<-1, 0, 0, -3>>, <<0, 1, 0, 1>>}},
    ALIGN <- 4, ROOM <- 10

\* Characters of the bakers' clips, in twelfths of a second: small ones, and those
\* at a budget and behind it; a short one; and files that something happened to.
Packs == INSTANCE Character WITH
    FILES <- {}, TIMES <- {}, LONGEST <- 360,
    file <- asset, stage <- progress, host <- renderer, reads <- taken, drawn <- posed
Durations == <<24, 12, 8, 4, 24, 4, 15>>
Textured(v, n, side) == Packs!Baked(2, v, n, side, <<5, 17, 17, 11, 15, 7, 21>>, Durations)
Colored(v, n) == Packs!Baked(1, v, n, 0, <<5, 17, 17, 5, 17, 5, 31>>, Durations)
Hurt(f) ==
    {[f EXCEPT !.magic = FALSE], [f EXCEPT !.version = 3 - f.version], [f EXCEPT !.clips = 6],
     [f EXCEPT !.vertices = @ + 1], [f EXCEPT !.indices = @ + 1], [f EXCEPT !.frames = @ + 1],
     [f EXCEPT !.side = 24, !.texels = 2304], [f EXCEPT !.texels = 4], [f EXCEPT !.highest = f.vertices],
     [f EXCEPT !.length = @ - 1], [f EXCEPT !.length = @ + 12], [f EXCEPT !.near = FALSE],
     [f EXCEPT !.records[2].count = 1], [f EXCEPT !.records[6].count = @ + 1],
     [f EXCEPT !.records[3].start = f.frames], [f EXCEPT !.records[1].duration = 0],
     [f EXCEPT !.records[3].looping = TRUE],
     [f EXCEPT !.records[0].count = @ + 1, !.records[1].start = @ + 1, !.records[1].count = @ - 1]}
Characters ==
    {Textured(3, 6, 16), Textured(5637, 32766, 32), Textured(5638, 3, 16), Colored(2, 3), Colored(700, 4200),
     Packs!Baked(2, 3, 3, 16, [c \in 1 .. 7 |-> 2], [c \in 1 .. 7 |-> 12])}
    \cup UNION {{[g EXCEPT !.baked = FALSE] : g \in Hurt(f)} : f \in {Textured(3, 6, 16), Colored(2, 3)}}
Acting == INSTANCE Character WITH
    FILES <- Characters, TIMES <- {0, 1, 3, 4, 11, 23, 24, 50}, LONGEST <- 360,
    file <- asset, stage <- progress, host <- renderer, reads <- taken, drawn <- posed

-----------------------------------------------------------------------------
wadVars == <<offered, files, entries>>
textureVars == <<allowed, textures, section, cooking, verified>>
cookVars == <<faces, open, sealed, cooked>>
readVars == <<host, load, size, capacity, memory, base, start, filled, stage, failed>>
stripVars == <<source, out, used, indices, ranges>>
clusterVars == <<runs, order, grouped, groups, faceGroups, seen>>
visVars == <<world, leaf, row, allVisible, pvs, stamps, stamp, emitted, frustum>>
walkVars == <<map, vel, on_ground>>
glVars == <<live, state, store, resident, next, dynamic, call>>
gxmVars == <<pc, pipeline, patched, drawer, queued, cutouts, counted, drawn, inFlight>>
guVars == <<scene, storage, bounds, kept, written, inPvs, visible, submitted, camera>>
characterVars == <<asset, progress, renderer, taken, posed>>
mcVars == <<part, wadVars, textureVars, cookVars, readVars, stripVars, clusterVars, visVars,
            walkVars, glVars, gxmVars, guVars, characterVars, place>>

NoWad == offered = 0 /\ files = 0 /\ entries = 0
NoTexture == allowed = 0 /\ textures = 0 /\ section = 0 /\ cooking = 0 /\ verified = 0
NoCook == faces = 0 /\ open = 0 /\ sealed = 0 /\ cooked = 0
NoRead == host = 0 /\ load = 0 /\ size = 0 /\ capacity = 0 /\ memory = 0 /\ base = 0
    /\ start = 0 /\ filled = 0 /\ stage = 0 /\ failed = 0
NoStrip == source = 0 /\ out = 0 /\ used = 0 /\ indices = 0 /\ ranges = 0
NoCluster == runs = 0 /\ order = 0 /\ grouped = 0 /\ groups = 0 /\ faceGroups = 0 /\ seen = 0
NoVis == world = 0 /\ leaf = 0 /\ row = 0 /\ allVisible = 0 /\ pvs = 0 /\ stamps = 0
    /\ stamp = 0 /\ emitted = 0 /\ frustum = 0
NoWalk == map = 0 /\ vel = 0 /\ on_ground = 0
NoGl == live = 0 /\ state = 0 /\ store = 0 /\ resident = 0 /\ next = 0 /\ dynamic = 0 /\ call = 0
NoGxm == pc = 0 /\ pipeline = 0 /\ patched = 0 /\ drawer = 0 /\ queued = 0 /\ cutouts = 0
    /\ counted = 0 /\ drawn = 0 /\ inFlight = 0
NoGu == scene = 0 /\ storage = 0 /\ bounds = 0 /\ kept = 0 /\ written = 0 /\ inPvs = 0
    /\ visible = 0 /\ submitted = 0 /\ camera = 0
NoCharacter == asset = 0 /\ progress = 0 /\ renderer = 0 /\ taken = 0 /\ posed = 0

MCInit ==
    /\ part \in {"wads", "textures", "cook", "read", "strips", "clusters", "vis", "walk", "gles2", "gxm",
                "gu", "character"}
    /\ IF part = "wads" THEN Archives!Init ELSE NoWad
    /\ IF part = "textures" THEN Pictured!Init ELSE NoTexture
    /\ IF part = "cook" THEN Cooking!Init ELSE NoCook
    /\ IF part = "read" THEN Reading!Init ELSE NoRead
    /\ IF part = "strips" THEN Stripping!Init ELSE NoStrip
    /\ IF part = "clusters" THEN Grouping!Init ELSE NoCluster
    /\ IF part = "vis" THEN Sighted!Init ELSE NoVis
    /\ IF part = "walk" THEN Walking!Init ELSE NoWalk
    /\ IF part = "gles2" THEN Gl!Init ELSE NoGl
    /\ IF part = "gxm" THEN Vita2d!Init ELSE NoGxm
    /\ IF part = "gu" THEN Gpu!Init ELSE NoGu
    /\ IF part = "character" THEN Acting!Init ELSE NoCharacter
    /\ part \notin {"read", "walk"} => place = 0

IndexesArchive == part = "wads" /\ Archives!Next
    /\ UNCHANGED <<part, textureVars, cookVars, readVars, stripVars,
                   clusterVars, visVars, walkVars, glVars, gxmVars, guVars, characterVars,
                   place>>
CooksTextures == part = "textures" /\ Pictured!Next
    /\ UNCHANGED <<part, wadVars, cookVars, readVars, stripVars, clusterVars,
                   visVars, walkVars, glVars, gxmVars, guVars, characterVars, place>>
CooksGeometry == part = "cook" /\ Cooking!Next
    /\ UNCHANGED <<part, wadVars, textureVars, readVars, stripVars, clusterVars,
                   visVars, walkVars, glVars, gxmVars, guVars, characterVars, place>>
Reads == part = "read" /\ Reading!Next
    /\ UNCHANGED <<part, wadVars, textureVars, cookVars, stripVars, clusterVars,
                   visVars, walkVars, glVars, gxmVars, guVars, characterVars>>
MakesStrips == part = "strips" /\ Stripping!Next
    /\ UNCHANGED <<part, wadVars, textureVars, cookVars, readVars, clusterVars,
                   visVars, walkVars, glVars, gxmVars, guVars, characterVars, place>>
Groups == part = "clusters" /\ Grouping!Next
    /\ UNCHANGED <<part, wadVars, textureVars, cookVars, readVars, stripVars,
                   visVars, walkVars, glVars, gxmVars, guVars, characterVars, place>>
Looks == part = "vis" /\ Sighted!Next
    /\ UNCHANGED <<part, wadVars, textureVars, cookVars, readVars, stripVars,
                   clusterVars, walkVars, glVars, gxmVars, guVars, characterVars, place>>
Walks == part = "walk" /\ Walking!Next
    /\ UNCHANGED <<part, wadVars, textureVars, cookVars, readVars, stripVars,
                   clusterVars, visVars, glVars, gxmVars, guVars, characterVars>>
DrawsByGl == part = "gles2" /\ Gl!Next
    /\ UNCHANGED <<part, wadVars, textureVars, cookVars, readVars, stripVars,
                   clusterVars, visVars, walkVars, gxmVars, guVars, characterVars, place>>
DrawsByGxm == part = "gxm" /\ Vita2d!Next
    /\ UNCHANGED <<part, wadVars, textureVars, cookVars, readVars, stripVars,
                   clusterVars, visVars, walkVars, glVars, guVars, characterVars, place>>
DrawsByGu == part = "gu" /\ Gpu!Next
    /\ UNCHANGED <<part, wadVars, textureVars, cookVars, readVars, stripVars,
                   clusterVars, visVars, walkVars, glVars, gxmVars, characterVars, place>>
Acts == part = "character" /\ Acting!Next
    /\ UNCHANGED <<part, wadVars, textureVars, cookVars, readVars, stripVars,
                   clusterVars, visVars, walkVars, glVars, gxmVars, guVars, place>>

MCNext == \/ IndexesArchive \/ CooksTextures \/ CooksGeometry \/ Reads \/ MakesStrips \/ Groups
          \/ Looks \/ Walks \/ DrawsByGl \/ DrawsByGxm \/ DrawsByGu \/ Acts

MCSpec == MCInit /\ [][MCNext]_mcVars

WadSpec == MCInit /\ part = "wads" /\ [][MCNext]_mcVars

-----------------------------------------------------------------------------
\* What is looked up and read is what was stored: see Wads, Reader and Character.
ReadsExactly ==
    /\ part = "wads" => Archives!TypeOK /\ Archives!FoundIsNamed
    /\ part = "read" => Reading!TypeOK /\ Reading!ReadsExactly
    /\ part = "character" => Acting!TypeOK /\ Acting!ReadsInside /\ Acting!ReadsBaked

\* No triangle and no texel is lost on the way to the screen: see Cook,
\* Textures, Strips, Clusters and Character.
KeptWhole ==
    /\ part = "cook" => Cooking!TypeOK /\ Cooking!FacesKept
    /\ part = "textures" => Pictured!TypeOK /\ Pictured!TexelsKept /\ Pictured!MissingIsRefused
    /\ part = "strips" => Stripping!TypeOK /\ Stripping!StripsLossless /\ Stripping!DrawnWhole
    /\ part = "clusters" => Grouping!TypeOK /\ Grouping!GroupsWhole
    /\ part = "character" => Acting!BakedIsBuilt /\ Acting!HostsTakeIt /\ Acting!TexelsInPlace

\* What is in sight is drawn, or counted as left out, with what exists and as it
\* was meant: see Vis, Clusters, Gles2, Gxm, Gu and Character.
SeenIsDrawn ==
    /\ part = "vis" => Sighted!TypeOK /\ Sighted!RowOfTheCamera /\ Sighted!GathersInSight
    /\ part = "clusters" => Grouping!SeenIsDrawn
    /\ part = "gles2" => /\ Gl!OwnsWhatLives /\ Gl!UploadsAll
                        /\ Gl!DrawnAsMeant /\ Gl!CountsAddUp /\ JoinsLoseNothing
    /\ part = "gxm" => Vita2d!TrianglesAccounted /\ Vita2d!PipelineWhole /\ Vita2d!ReadsWhatExists
    /\ part = "gu" => Gpu!MovedWhole /\ Gpu!DrawsInSight
    /\ part = "character" => Acting!DrawnIsPose

\* A body and its traces get no further into walls than corners let them, and what
\* is skipped to save work changes nothing: see Walk.
WallsHold ==
    part = "walk" => /\ Walking!TypeOK /\ Walking!EntersNoDeeper /\ Walking!TraceIsExact
                     /\ Walking!BoundsLoseNothing /\ Walking!ClearRouteIsBest

\* What is found under a name is of that name, see Wads.
FoundIsNamed == Archives!FoundIsNamed
=============================================================================
