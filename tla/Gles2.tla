--------------------------------- MODULE Gles2 ---------------------------------
(***************************************************************************)
(* The GLES2 renderer of a map and of what moves in it:                    *)
(* domain/crates/pocket3d-gles2, src/world.rs, src/mesh.rs and src/gl.rs.  *)
(* The Symbian host calls it on one thread, in any order that its own      *)
(* failures leave (openstrike-symbian/src/lib.rs).                         *)
(*                                                                         *)
(* GL objects are made in steps, each of which may fail; what is made      *)
(* before is then deleted by hand. The user interface draws with the same  *)
(* context and leaves its state to us, and the context may be lost, and    *)
(* everything in it, after which the host abandons what it had.            *)
(*                                                                         *)
(* Abstracted: shaders, matrices, colours and what texels look like. A     *)
(* list of triangles is the number of its vertices, and so is a store.     *)
(***************************************************************************)
EXTENDS Integers, Sequences
LOCAL INSTANCE FiniteSetsExt

CONSTANTS
    FACES,      \* the faces of the map, see Runs
    BATCHES,    \* sequence of [texture, masked]
    TEXTURES,   \* number of textures
    SIZES,      \* sizes of the lists of vertices that are drawn
    MIN_STORE   \* the smallest store that is allocated, 256 vertices

R == INSTANCE Runs

VARIABLES
    live,       \* how many of each object the context has
    state,      \* state of the context that a draw or a clear depends on
    store,      \* size of the streaming buffer, as the context has it
    world,      \* GpuWorld: made, and the textures that are resident
    next,       \* next_texture, the first that may not be
    dynamic,    \* DynamicGpu: made, and the capacity it knows of
    call        \* what the last call did

vars == <<live, state, store, world, next, dynamic, call>>

Texture(t) == <<"texture", t>>
OfPrograms == {<<"opaque", 0>>, <<"masked", 0>>}
OfBuffers == {<<"vertices", 0>>, <<"indices", 0>>}
OfDynamic == {<<"color", 0>>, <<"stream", 0>>}
Shaders == {<<"vertex", 0>>, <<"fragment", 0>>}
Objects == OfPrograms \cup OfBuffers \cup OfDynamic \cup Shaders \cup {Texture(t) : t \in 1 .. TEXTURES}

With(some, objects) == [o \in Objects |-> some[o] + IF o \in objects THEN 1 ELSE 0]
Without(some, objects) == [o \in Objects |-> some[o] - IF o \in objects THEN 1 ELSE 0]

NoTextures == {}
NoWorld == [made |-> FALSE, resident |-> NoTextures]
NoDynamic == [made |-> FALSE, capacity |-> 0]

\* The state between our calls, if nobody else draws.
Neutral == [blend |-> FALSE, depth |-> FALSE, mask |-> TRUE, scissor |-> FALSE]

\* A call: whether it succeeded, what it drew and cleared and in which state,
\* and what it counted.
Did(name, ok) == [name |-> name, ok |-> ok, drawn |-> <<>>, planned |-> 0, submitted |-> 0,
                  skipped |-> 0, triangles |-> 0, complete |-> FALSE]

Init ==
    /\ live = [o \in Objects |-> 0] /\ state = Neutral /\ store = 0
    /\ world = NoWorld /\ next = 0 /\ dynamic = NoDynamic
    /\ call = Did("none", TRUE)

-----------------------------------------------------------------------------
\* Objects. What making some of them leaves: made, or what is left of it.
Outcome(made, left) == [made |-> made, left |-> left]

\* Program::create, ColorProgram::create: two shaders, a program, linked and
\* with its uniforms; the shaders are deleted in any case.
Program(p, before) ==
    LET one == With(before, {<<"vertex", 0>>})
        both == With(one, {<<"fragment", 0>>})
        program == With(both, {p})
        linked == Without(program, Shaders)
    IN  {Outcome(TRUE, linked)}
        \cup {Outcome(FALSE, l) : l \in {before, Without(one, {<<"vertex", 0>>}),
                                          Without(both, Shaders), Without(linked, {p})}}

DestroysOpaque(left) == Without(left, {<<"opaque", 0>>})

\* GpuWorld::new: two programs, two buffers, and a last look for errors.
WorldMade(before) ==
    UNION {IF ~a.made THEN {a}
           ELSE UNION {IF ~b.made THEN {Outcome(FALSE, DestroysOpaque(b.left))}
                       ELSE LET all == With(b.left, OfBuffers)
                            IN  {Outcome(TRUE, all),
                                 Outcome(FALSE, Without(b.left, OfPrograms)),
                                 Outcome(FALSE, Without(Without(all, OfBuffers), OfPrograms))} :
                       b \in Program(<<"masked", 0>>, a.left)} :
           a \in Program(<<"opaque", 0>>, before)}

\* WorldRenderer::initialize_gpu
InitializeWorld ==
    /\ \/ world.made /\ call' = Did("initialize", TRUE) /\ UNCHANGED <<live, world>>
       \/ /\ ~world.made
          /\ \E o \in WorldMade(live) :
                /\ live' = o.left /\ call' = Did("initialize", o.made)
                /\ world' = IF o.made THEN [made |-> TRUE, resident |-> NoTextures] ELSE world
    /\ UNCHANGED <<state, store, next, dynamic>>

\* The textures that upload_next_texture passes over.
AlreadyThere == CHOOSE n \in next .. TEXTURES :
              /\ \A t \in next + 1 .. n : t \in world.resident
              /\ n = TEXTURES \/ n + 1 \notin world.resident

\* WorldRenderer::upload_next_texture: at most one; decoding it, its size, its
\* name and its upload may fail, the last after the name was taken.
UploadNextTexture ==
    /\ \/ ~world.made /\ call' = Did("upload", FALSE) /\ UNCHANGED <<live, world, next>>
       \/ /\ world.made /\ AlreadyThere = TEXTURES /\ next' = TEXTURES
          /\ call' = [Did("upload", TRUE) EXCEPT !.complete = TRUE]
          /\ UNCHANGED <<live, world>>
       \/ /\ world.made /\ AlreadyThere < TEXTURES
          /\ LET named == With(live, {Texture(AlreadyThere + 1)})
             IN  \/ /\ call' = Did("upload", TRUE) /\ live' = named
                    /\ world' = [world EXCEPT !.resident = @ \cup {AlreadyThere + 1}]
                    /\ next' = AlreadyThere + 1
                 \/ /\ call' = Did("upload", FALSE) /\ next' = AlreadyThere
                    /\ live' \in {live, Without(named, {Texture(AlreadyThere + 1)})}
                    /\ UNCHANGED world
    /\ UNCHANGED <<state, store, dynamic>>

FromTheStart == next' = 0

OfWorld == OfPrograms \cup OfBuffers \cup {Texture(t) : t \in world.resident}

\* WorldRenderer::shutdown_gpu and GpuWorld::destroy.
ShutdownWorld ==
    /\ live' = IF world.made THEN Without(live, OfWorld) ELSE live
    /\ world' = NoWorld /\ FromTheStart /\ call' = Did("shutdown", TRUE)
    /\ UNCHANGED <<state, store, dynamic>>

\* DynamicRenderer::initialize_gpu and DynamicGpu::new: a program and a buffer
\* with nothing in it.
InitializeDynamic ==
    /\ \/ dynamic.made /\ call' = Did("initialize", TRUE) /\ UNCHANGED <<live, dynamic, store>>
       \/ /\ ~dynamic.made
          /\ \E p \in Program(<<"color", 0>>, live) :
                \/ /\ p.made /\ live' = With(p.left, {<<"stream", 0>>})
                   /\ dynamic' = [made |-> TRUE, capacity |-> 0] /\ store' = 0
                   /\ call' = Did("initialize", TRUE)
                \/ /\ live' = IF p.made THEN Without(p.left, {<<"color", 0>>}) ELSE p.left
                   /\ call' = Did("initialize", FALSE) /\ UNCHANGED <<dynamic, store>>
    /\ UNCHANGED <<state, world, next>>

ShutdownDynamic ==
    /\ live' = IF dynamic.made THEN Without(live, OfDynamic) ELSE live
    /\ dynamic' = NoDynamic /\ store' = 0 /\ call' = Did("shutdown", TRUE)
    /\ UNCHANGED <<state, world, next>>

\* The context is gone, and the host abandons both renderers.
ContextLost ==
    /\ live' = [o \in Objects |-> 0] /\ store' = 0 /\ state' = Neutral
    /\ world' = NoWorld /\ next' = 0 /\ dynamic' = NoDynamic /\ call' = Did("abandon", TRUE)

-----------------------------------------------------------------------------
\* Frames. What is drawn or cleared, with what, and in which state.
Drawing(what, program, batch, at) ==
    [what |-> what, program |-> program, batch |-> batch, state |-> at]

\* clear_frame: the mask of depths holds for the clear of them, too.
Cleared == [state EXCEPT !.scissor = FALSE, !.blend = FALSE, !.depth = FALSE, !.mask = TRUE]
Clear(at) == <<Drawing("clear", 0, 0, at)>>

\* DynamicRenderer::clear_frame, for a menu.
ClearFrame ==
    /\ \E valid \in BOOLEAN, ok \in BOOLEAN :
          /\ state' = IF valid THEN Cleared ELSE state
          /\ call' = [Did("clear", valid /\ ok) EXCEPT !.drawn = IF valid THEN Clear(Cleared) ELSE <<>>]
    /\ UNCHANGED <<live, store, world, next, dynamic>>

\* The batches of a pass that have something to draw and a texture to draw it
\* with.
RunsOf(seen, b) == R!Merged(R!Pushed(FACES, seen, b))
Plan(seen) == [b \in DOMAIN BATCHES |-> RunsOf(seen, b)]
IsReady(b) == BATCHES[b].texture \in world.resident
CallsOf(plan, batches) == MapThenSumSet(LAMBDA b : Len(plan[b]), batches)

\* GpuWorld::draw: the opaque batches, then the masked ones.
Drawn(plan, at) ==
    LET pass(masked) == SelectSeq([b \in DOMAIN BATCHES |-> b],
                           LAMBDA b : BATCHES[b].masked = masked /\ plan[b] # <<>> /\ IsReady(b))
        with(masked) == [i \in DOMAIN pass(masked) |->
                           Drawing("world", IF masked THEN <<"masked", 0>> ELSE <<"opaque", 0>>,
                                   pass(masked)[i], at)]
    IN  with(FALSE) \o with(TRUE)

\* WorldRenderer::render: gather, and draw what is resident; an error that GL
\* reports is found after the clear, or at the end.
Render ==
    /\ \E seen \in SUBSET {f \in DOMAIN FACES : FACES[f].batch # 0 /\ FACES[f].count # 0},
          valid, clears, draws \in BOOLEAN :
          LET plan == Plan(seen)
              planned == CallsOf(plan, DOMAIN BATCHES)
              ready == {b \in DOMAIN BATCHES : IsReady(b)}
              gathered == [Did("render", FALSE) EXCEPT !.planned = planned]
              at == [Cleared EXCEPT !.depth = TRUE]
          IN  \/ /\ ~valid \/ ~world.made
                 /\ call' = gathered /\ UNCHANGED state
              \/ /\ valid /\ world.made /\ ~clears
                 /\ call' = [gathered EXCEPT !.drawn = Clear(Cleared)] /\ state' = Cleared
              \/ /\ valid /\ world.made /\ clears
                 /\ state' = [at EXCEPT !.depth = FALSE]
                 /\ call' = [gathered EXCEPT
                       !.ok = draws, !.drawn = Clear(Cleared) \o Drawn(plan, at),
                       !.submitted = CallsOf(plan, ready),
                       !.skipped = CallsOf(plan, DOMAIN BATCHES \ ready),
                       !.triangles = MapThenSumSet(LAMBDA b : R!TrianglesOf(plan[b]), ready)]
    /\ UNCHANGED <<live, store, world, next, dynamic>>

\* The power of two at or above.
PowerOfTwo(n) == CHOOSE p \in {2 ^ k : k \in 0 .. 10} : p >= n /\ (p = 1 \/ p \div 2 < n)

\* The state a list is drawn in; additive ones are seen behind nothing.
DrawState(additive) ==
    [state EXCEPT !.scissor = FALSE, !.depth = TRUE, !.blend = additive, !.mask = ~additive]
AfterDraw == [state EXCEPT !.scissor = FALSE, !.depth = FALSE, !.blend = FALSE, !.mask = TRUE]

\* The buffer grows; if it cannot, the context may have taken the old one.
Grows(n) == n > dynamic.capacity
Grown(n) == PowerOfTwo(IF n > MIN_STORE THEN n ELSE MIN_STORE)

\* DynamicRenderer::draw_color_tris. An upload beyond the store is an error of
\* GL, and nothing is drawn then.
DrawColorTris ==
    /\ \E n \in SIZES, additive \in BOOLEAN :
          \/ /\ n % 3 # 0 \/ ~dynamic.made \/ n = 0
             /\ call' = Did("tris", n % 3 = 0 /\ dynamic.made)
             /\ UNCHANGED <<state, store, dynamic>>
          \/ /\ n % 3 = 0 /\ dynamic.made /\ n > 0 /\ Grows(n)
             /\ store' \in {store, 0} /\ call' = Did("tris", FALSE)
             /\ UNCHANGED <<state, dynamic>>
          \/ /\ n % 3 = 0 /\ dynamic.made /\ n > 0
             /\ store' = (IF Grows(n) THEN Grown(n) ELSE store)
             /\ dynamic' = [dynamic EXCEPT !.capacity = IF Grows(n) THEN Grown(n) ELSE @]
             /\ \/ call' = Did("tris", FALSE) /\ UNCHANGED state
                \/ /\ n <= store'
                   /\ \E ok \in BOOLEAN :
                         call' = [Did("tris", ok) EXCEPT !.triangles = n \div 3, !.drawn =
                                    <<Drawing(IF additive THEN "added" ELSE "solid",
                                              <<"color", 0>>, 0, DrawState(additive))>>]
                   /\ state' = AfterDraw
    /\ UNCHANGED <<live, world, next>>

\* clear_depth_for_viewmodel: only the mask and the scissor are set.
ClearDepth ==
    /\ \/ ~dynamic.made /\ call' = Did("depth", FALSE) /\ UNCHANGED state
       \/ /\ dynamic.made /\ state' = [state EXCEPT !.scissor = FALSE, !.mask = TRUE]
          /\ \E ok \in BOOLEAN : call' = [Did("depth", ok) EXCEPT !.drawn = Clear(state')]
    /\ UNCHANGED <<live, store, world, next, dynamic>>

\* The user interface has drawn, and left the state as it likes.
InterfaceDraws ==
    /\ state' \in [blend : BOOLEAN, depth : BOOLEAN, mask : BOOLEAN, scissor : BOOLEAN]
    /\ call' = Did("none", TRUE)
    /\ UNCHANGED <<live, store, world, next, dynamic>>

Next ==
    \/ InitializeWorld \/ UploadNextTexture \/ ShutdownWorld \/ InitializeDynamic
    \/ ShutdownDynamic \/ ContextLost \/ ClearFrame \/ Render \/ DrawColorTris
    \/ ClearDepth \/ InterfaceDraws

Spec == Init /\ [][Next]_vars

-----------------------------------------------------------------------------
\* Whatever step of the making failed, the context has exactly the objects that
\* the renderers own: nothing is left behind, nothing is deleted twice.
OwnsWhatLives ==
    LET owned == (IF world.made THEN OfWorld ELSE {}) \cup (IF dynamic.made THEN OfDynamic ELSE {})
    IN  live = [o \in Objects |-> IF o \in owned THEN 1 ELSE 0]

\* Textures are passed over only when they are there: "Complete" is said of all.
UploadsAll ==
    /\ \A t \in 1 .. next : t \in world.resident
    /\ call.complete => world.resident = 1 .. TEXTURES

\* Whatever state the user interface left, and whichever call came before, what
\* is drawn is drawn in the state it needs, with a program that exists: without
\* it a clear of the depths would do nothing, or a wall would be seen through.
DrawnAsMeant ==
    \A i \in DOMAIN call.drawn :
        LET d == call.drawn[i]
        IN  /\ ~d.state.scissor
            /\ d.what = "clear" => d.state.mask
            /\ d.what \in {"world", "solid"} => d.state.depth /\ d.state.mask /\ ~d.state.blend
            /\ d.what = "added" => d.state.depth /\ ~d.state.mask /\ d.state.blend
            /\ d.what # "clear" => live[d.program] = 1
            /\ d.what = "world" => live[Texture(BATCHES[d.batch].texture)] = 1

\* What a frame says of itself is true: every planned draw call is made or
\* counted as left out.
CountsAddUp ==
    call.name = "render" /\ call.ok => call.planned = call.submitted + call.skipped

=============================================================================
