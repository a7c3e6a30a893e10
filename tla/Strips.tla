------------------------------- MODULE Strips -------------------------------
(***************************************************************************)
(* Triangle strips of the faces of a cooked map: append_strips, StripCache *)
(* ::build and draw_chunks of pocket3d-bsp/src/cooked/strip.rs. A strip    *)
(* draws a triangle with every index behind its second; strips are joined  *)
(* by triangles without area. The winding does not matter.                 *)
(*                                                                         *)
(* Abstracted: allocations that fail.                                      *)
(***************************************************************************)
EXTENDS Integers, SequencesExt, BagsExt

CONSTANTS
    SOURCES,    \* the triangle lists of faces
    LIMIT,      \* indices the cache may hold (262,144)
    RUNS,       \* bound on the faces
    CHUNK       \* indices a draw may take (32,766): whole triangles, at least 3

VARIABLES
    source,     \* the triangles of the face that is converted
    out,        \* the strips so far
    used,       \* the triangles that are in them
    indices,    \* what the cache holds
    ranges      \* of every face: where its strips are, its list if they are not kept

vars == <<source, out, used, indices, ranges>>

Idle == <<>>
HasArea(t) == t[1] # t[2] /\ t[2] # t[3] /\ t[1] # t[3]
Corners(t) == {t[1], t[2], t[3]}

-----------------------------------------------------------------------------
(* One face.                                                                *)

\* A triangle that has the edge {a, b}, and the corner across from it.
Edges(i) ==
    LET t == source[i]
    IN  {<<{t[1], t[2]}, t[3]>>, <<{t[2], t[3]}, t[1]>>, <<{t[3], t[1]}, t[2]>>}

IsUsed(i) == i \in used

\* What continues a strip that ends with a and b: of the triangles with that
\* edge the first one that is not used, with its smallest corner.
Neighbors(a, b) == {i \in DOMAIN source : ~IsUsed(i) /\ \E e \in Edges(i) : e[1] = {a, b}}
FirstOf(S) == CHOOSE x \in S : \A y \in S : x <= y
Across(i, a, b) == FirstOf({e[2] : e \in {d \in Edges(i) : d[1] = {a, b}}})

\* The face is taken up.
Take(list) ==
    /\ source = Idle /\ Len(ranges) < RUNS
    /\ source' = list /\ out' = <<>> /\ used' = {}
    /\ UNCHANGED <<indices, ranges>>

End == out[Len(out)]
Continues == out # <<>> /\ Neighbors(out[Len(out) - 1], End) # {}

Continue ==
    /\ Continues
    /\ LET i == FirstOf(Neighbors(out[Len(out) - 1], End))
       IN  out' = Append(out, Across(i, out[Len(out) - 1], End)) /\ used' = used \cup {i}
    /\ UNCHANGED <<source, indices, ranges>>

Rotated(t, r) == [j \in 1 .. 3 |-> t[((r + j - 2) % 3) + 1]]

Joined(first) == IF out = <<>> THEN <<>> ELSE <<End, first>>

\* A new strip begins with the first triangle left, turned so that another one
\* continues it if that is possible.
Seed ==
    /\ ~Continues /\ used # DOMAIN source
    /\ LET seed == FirstOf(DOMAIN source \ used)
           Turned(r) == Rotated(source[seed], r)
           others(r) == Neighbors(Turned(r)[2], Turned(r)[3]) \ {seed}
           turn == IF \E r \in 1 .. 3 : others(r) # {}
                   THEN FirstOf({r \in 1 .. 3 : others(r) # {}}) ELSE 1
       IN  out' = out \o Joined(Turned(turn)[1]) \o Turned(turn) /\ used' = used \cup {seed}
    /\ UNCHANGED <<source, indices, ranges>>

\* Strips are kept if they are shorter, and if there is room for them.
Kept == Len(out) + 2 < 3 * Len(source) /\ Len(indices) + Len(out) <= LIMIT

Store ==
    /\ source # Idle /\ ~Continues /\ used = DOMAIN source
    /\ indices' = IF Kept THEN indices \o out ELSE indices
    /\ ranges' = Append(ranges, [list |-> source, base |-> Len(indices),
                                 count |-> IF Kept THEN Len(out) ELSE 0])
    /\ source' = Idle /\ out' = <<>> /\ used' = {}

Init == source = Idle /\ out = <<>> /\ used = {} /\ indices = <<>> /\ ranges = <<>>

Next == (\E list \in SOURCES : Take(list)) \/ Continue \/ Seed \/ Store

Spec == Init /\ [][Next]_vars

-----------------------------------------------------------------------------
(* Drawing.                                                                 *)

Overlap == 2

RECURSIVE Chunks(_, _)
\* The draws of a run of indices: triangle lists are cut between triangles, a
\* strip takes its last two corners along.
Chunks(run, strip) ==
    IF Len(run) <= CHUNK THEN <<run>>
    ELSE <<SubSeq(run, 1, CHUNK)>>
         \o Chunks(SubSeq(run, CHUNK + 1 - (IF strip THEN Overlap ELSE 0), Len(run)), strip)

\* The triangles one draw fills.
Filled(run, strip) ==
    LET triangles == IF strip
                     THEN [i \in 1 .. IF Len(run) < 3 THEN 0 ELSE Len(run) - 2 |-> SubSeq(run, i, i + 2)]
                     ELSE [i \in 1 .. Len(run) \div 3 |-> SubSeq(run, 3 * i - 2, 3 * i)]
        filled == SelectSeq(triangles, HasArea)
    IN  FoldLeft(LAMBDA bag, t : BagAdd(bag, Corners(t)), EmptyBag, filled)

\* Those of all draws of a run.
DrawnOf(run, strip) ==
    FoldLeft(LAMBDA bag, chunk : bag (+) Filled(chunk, strip), EmptyBag, Chunks(run, strip))

OfTriangles(list) == Filled(FlattenSeq(list), FALSE)

TypeOK == used \subseteq DOMAIN source /\ Len(indices) <= LIMIT

\* "Every non-degenerate input triangle appears once with the same three vertex
\* indices": at every moment the strips fill the triangles used so far.
StripsLossless ==
    Filled(out, TRUE) = OfTriangles(SelectSeq(
        [i \in DOMAIN source |-> IF i \in used THEN source[i] ELSE <<0, 0, 0>>], HasArea))

\* What is drawn of a face, from the cache or of its list, in as many draws as
\* it takes, is every triangle of it, once.
DrawnWhole ==
    \A r \in ToSet(ranges) :
        LET strips == SubSeq(indices, r.base + 1, r.base + r.count)
        IN  OfTriangles(r.list) = IF r.count > 0 THEN DrawnOf(strips, TRUE)
                                  ELSE DrawnOf(FlattenSeq(r.list), FALSE)
=============================================================================
