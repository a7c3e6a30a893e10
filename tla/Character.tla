------------------------------ MODULE Character ------------------------------
(***************************************************************************)
(* The baked characters of the handhelds: the file their bakers write      *)
(* (scripts/bake-character.py, and assets/characters/police/build.py for   *)
(* the colour-only version 1), the check every build makes of it (validate *)
(* of openstrike-character/src/format.rs), how it is read (Asset of        *)
(* src/lib.rs), and what four hosts keep of it and draw of a bot.          *)
(*                                                                         *)
(* Abstracted: a coordinate is the frame and the vertex it was baked for,  *)
(* what is drawn the weights of such samples. A duration is a number of    *)
(* units of time; the float of a frame is exact, or rounded up to a whole  *)
(* one that is less than a part away. Memory that is out, and the index    *)
(* of a bot's clip, see Bot, are left out.                                 *)
(***************************************************************************)
EXTENDS Integers, Sequences, Iteration

CONSTANTS
    FILES,      \* the files a build is given
    TIMES,      \* the ages of an action
    LONGEST     \* units of time in 30 seconds

VARIABLES
    file,       \* the file of the build; `baked' if it is as a baker wrote it
    stage,      \* "source", "refused" or "built"; "refused by host" or "loaded"
    host,       \* whose renderer loads it
    reads,      \* what the last step read of it
    drawn       \* the vertex that was drawn, or Nothing

vars == <<file, stage, host, reads, drawn>>

Clip == 0 .. 6
Fire == 3
MAX_CACHE_BYTES == 16 * 1024 * 1024
RECORD == 16
VERTICES == 16000
INDICES == 32766
Nothing == [drawn |-> FALSE]

\* What a file says: the sizes of its header, a record for each clip, its
\* length, the highest of its indices and whether its sockets are all near.
Record == [start : Nat, count : Nat, duration : Nat, looping : BOOLEAN]
File == [magic : BOOLEAN, version : Nat, vertices : Nat, indices : Nat, clips : Nat, frames : Nat,
         side : Nat, texels : Nat, records : [Clip -> Record], length : Nat, highest : Nat,
         near : BOOLEAN, baked : BOOLEAN]

Textured(f) == f.version = 2
Least(a, b) == IF a < b THEN a ELSE b

-----------------------------------------------------------------------------
(* The bakers.                                                              *)

\* Sections, in the order they are written, as bytes of one and how many.
Sections(f) ==
    << <<"header", IF Textured(f) THEN 40 ELSE 24, 1>>, <<"record", 16, 7>>, <<"color", 4, f.vertices>>,
       <<"uv", 4, IF Textured(f) THEN f.vertices ELSE 0>>, <<"index", 2, f.indices>>,
       <<"pose", 6, f.frames * f.vertices>>, <<"socket", 12, IF Textured(f) THEN f.frames ELSE 0>>,
       <<"texel", 4, f.side * f.side>> >>
Begins(f) ==
    LET begin[s \in 1 .. 9] ==
            IF s = 1 THEN 0 ELSE begin[s - 1] + (Sections(f)[s - 1][2] * Sections(f)[s - 1][3])
    IN  begin

\* Where the n-th of a section was written.
WrittenAt(f, of, n) ==
    LET s == CHOOSE i \in 1 .. 8 : Sections(f)[i][1] = of
    IN  Begins(f)[s] + n * Sections(f)[s][2]

\* A character of seven clips, one behind the other, of `counts' frames.
Baked(version, vertices, indices, side, counts, durations) ==
    LET starts[c \in 0 .. 7] == IF c = 0 THEN 0 ELSE starts[c - 1] + counts[c]
        f == [magic |-> TRUE, version |-> version, vertices |-> vertices, indices |-> indices,
              clips |-> 7, frames |-> starts[7], side |-> side, texels |-> side * side * 4,
              records |-> [c \in Clip |-> [start |-> starts[c], count |-> counts[c + 1],
                                           duration |-> durations[c + 1], looping |-> c < 3]],
              length |-> 0, highest |-> vertices - 1, near |-> TRUE, baked |-> TRUE]
    IN  [f EXCEPT !.length = Begins(f)[9]]

\* What the bakers refuse to write.
BakesTextured(f) ==
    /\ f.vertices <= VERTICES /\ f.indices <= INDICES /\ f.side \in {16, 32, 64, 128, 256}
    /\ f.frames * f.vertices * 32 <= 16 * 1024 * 1024
BakesColored(f) == f.indices \div 3 <= 1400 /\ f.length <= 512 * 1024
Bakes(f) == IF Textured(f) THEN BakesTextured(f) ELSE BakesColored(f)

-----------------------------------------------------------------------------
(* The check of a build.                                                    *)

\* What the PSP's cache of a character takes, which both compute alike.
CacheBytes(f) == f.frames * f.vertices * (IF Textured(f) THEN 32 ELSE 24)

HeaderOf(f) == IF f.version = 2 THEN 40 ELSE 24

SizesValid(f) ==
    /\ f.magic /\ f.version \in {1, 2} /\ f.length >= HeaderOf(f)
    /\ f.vertices \in 1 .. VERTICES /\ f.indices \in 1 .. INDICES /\ f.indices % 3 = 0
    /\ f.clips = 7 /\ f.frames \in 14 .. 512
    /\ CacheBytes(f) <= MAX_CACHE_BYTES

TextureValid(f) ==
    f.version = 2 => f.side \in {16, 32, 64, 128, 256} /\ f.texels = f.side * f.side * 4

\* What the length has to be: the end of what the file says is in it.
Expected(f) ==
    LET index_start == HeaderOf(f) + f.clips * 16 + f.vertices * (IF f.version = 2 THEN 8 ELSE 4)
        poses == index_start + f.indices * 2
        sockets == poses + f.frames * f.vertices * 6
    IN  sockets + IF f.version = 2 THEN f.frames * 12 + f.side * f.side * 4 ELSE 0

\* Clips lie one behind the other and have all the frames.
Behind(f, clip) == f.records[clip].start + f.records[clip].count
RecordsValid(f) ==
    /\ \A c \in Clip :
         /\ f.records[c].start = (IF c = 0 THEN 0 ELSE Behind(f, c - 1))
         /\ f.records[c].count >= 2 /\ f.records[c].count <= f.frames - f.records[c].start
         /\ f.records[c].duration \in 1 .. LONGEST
         /\ f.records[c].looping = (c < 3)
    /\ Behind(f, 6) = f.frames

Valid(f) ==
    /\ SizesValid(f) /\ TextureValid(f) /\ f.length = Expected(f) /\ RecordsValid(f)
    /\ f.highest < f.vertices /\ (f.version = 2 => f.near)

-----------------------------------------------------------------------------
(* Where a reader looks for what.                                           *)

Header(f) == IF Textured(f) THEN 40 ELSE 24
ColorsStart(f) == Header(f) + f.clips * RECORD
UvStart(f) == ColorsStart(f) + f.vertices * 4
IndicesStart(f) == UvStart(f) + IF Textured(f) THEN f.vertices * 4 ELSE 0
PosesStart(f) == IndicesStart(f) + f.indices * 2
SocketsStart(f) == PosesStart(f) + f.frames * f.vertices * 6
TextureStart(f) == SocketsStart(f) + f.frames * 12

Read(of, n, at, size) == [of |-> of, n |-> n, at |-> at, size |-> size]
ColorOf(f, i) == Read("color", i, ColorsStart(f) + i * 4, 4)
UvOf(f, i) == Read("uv", i, UvStart(f) + i * 4, 4)
IndexOf(f, k) == Read("index", k, IndicesStart(f) + k * 2, 2)
SampleOf(f, frame, i) ==
    Read("pose", frame * f.vertices + i, PosesStart(f) + (frame * f.vertices + i) * 6, 6)

\* The bot's muzzle is the socket of the first frame of Fire.
AttackOrigin(f) ==
    LET frame == f.records[Fire].start
    IN  Read("socket", frame, SocketsStart(f) + frame * 12, 12)
TextureOf(f) == Read("texel", 0, TextureStart(f), f.length - TextureStart(f))

\* The 16 bytes the PSP moves to a place of its texture: rows of 16 bytes lie
\* in tiles of eight.
BlockAt(width, block) ==
    LET row_bytes == width * 4
        tiles_per_row == row_bytes \div 16
        tile == block \div 8
        row == (tile \div tiles_per_row) * 8 + (block % 8)
    IN  row * row_bytes + (tile % tiles_per_row) * 16

-----------------------------------------------------------------------------
(* A pose, between two frames of a clip.                                    *)

\* How far into the clip, in parts of a frame: a `duration' of them is one.
Into(f, clip, time) ==
    LET r == f.records[clip]
        age == IF r.looping THEN time % r.duration ELSE Least(time, r.duration)
    IN  age * (r.count - 1)
Rounded(into, whole) ==
    {into} \cup IF into % whole # 0 /\ (into + 1) % whole = 0 THEN {into + 1} ELSE {}

PoseAt(f, clip, into) ==
    LET r == f.records[clip]
        a == into \div r.duration
    IN  [a |-> r.start + a, b |-> r.start + Least(a + 1, r.count - 1),
         mix |-> into - a * r.duration, whole |-> r.duration]

\* Two samples with their weights.
Blend(x, y, mix, whole) ==
    IF x = y THEN {<<x, whole>>} ELSE {w \in {<<x, whole - mix>>, <<y, mix>>} : w[2] # 0}

-----------------------------------------------------------------------------
(* The hosts.                                                               *)

\* The PSP keeps pairs of each sample and that of the frame behind it. A pose
\* that is held is drawn without morphing, of every second sample.
Pair(f, k) ==
    LET frame == k \div f.vertices
        i == k % f.vertices
    IN  << <<frame, i>>, <<Least(frame + 1, f.frames - 1), i>> >>
HeldIndex(n) == (n * 2) % 65536
OnPsp(f, pose, n) ==
    LET mix == IF pose.a = pose.b THEN 0 ELSE pose.mix
        first == pose.a * f.vertices
        half == HeldIndex(n)
    IN  IF mix = 0
        THEN {<<Pair(f, first + half \div 2)[(half % 2) + 1], pose.whole>>}
        ELSE Blend(Pair(f, first + n)[1], Pair(f, first + n)[2], mix, pose.whole)

\* The 3DS keeps frames at a stride of whole 16 bytes, and blends any two.
Stride(f) == ((f.vertices * 6 + 15) \div 16) * 16
KeptAt(f, byte) == <<byte \div Stride(f), (byte % Stride(f)) \div 6>>
On3ds(f, pose, n) ==
    IF pose.a >= f.frames \/ pose.b >= f.frames
    THEN {}
    ELSE Blend(KeptAt(f, pose.a * Stride(f) + n * 6), KeptAt(f, pose.b * Stride(f) + n * 6),
               pose.mix, pose.whole)

\* The Vita and the iPod blend on the CPU, from the file.
OnCpu(pose, n) == Blend(<<pose.a, n>>, <<pose.b, n>>, pose.mix, pose.whole)

\* What the hosts have room for.
TakenByPsp(f) == CacheBytes(f) <= MAX_CACHE_BYTES /\ f.vertices * 2 <= 65535
TakenBy3ds(f) ==
    /\ f.vertices > 0 /\ f.vertices <= 32767 /\ f.frames > 0 /\ f.frames <= 1024
    /\ f.indices > 0 /\ f.indices % 3 = 0
    /\ Stride(f) * f.frames <= 8 * 1024 * 1024
TakenByIpod(f) == f.vertices <= 65536

Takes(f, on) ==
    /\ on = "psp" => TakenByPsp(f)
    /\ on = "3ds" => TakenBy3ds(f)
    /\ on = "ipod" => TakenByIpod(f)

\* Loading reads all of it: of every section the first and the last.
Ends(n) == {0, n - 1}
LoadReads(f) ==
    {ColorOf(f, i) : i \in Ends(f.vertices)} \cup {IndexOf(f, k) : k \in Ends(f.indices)}
    \cup {SampleOf(f, frame, i) : frame \in Ends(f.frames), i \in Ends(f.vertices)}
    \cup IF Textured(f)
         THEN {UvOf(f, i) : i \in Ends(f.vertices)} \cup {AttackOrigin(f), TextureOf(f)}
         ELSE {}

\* Drawing the vertex that an index names reads these, where there is no copy.
DrawReads(f, pose, n) ==
    {SampleOf(f, pose.a, n), SampleOf(f, pose.b, n), ColorOf(f, n)}
    \cup IF Textured(f) THEN {UvOf(f, n)} ELSE {}

-----------------------------------------------------------------------------
Init ==
    /\ file \in FILES /\ file \in File
    /\ stage = "source" /\ host = "none" /\ reads = {} /\ drawn = Nothing

\* build.rs: a character that is not valid ends the build.
Build ==
    /\ stage = "source"
    /\ stage' = IF Valid(file) THEN "built" ELSE "refused"
    /\ UNCHANGED <<file, host, reads, drawn>>

Load ==
    /\ stage = "built"
    /\ host' \in {"psp", "3ds", "vita", "ipod"}
    /\ stage' = IF Takes(file, host') THEN "loaded" ELSE "refused by host"
    /\ reads' = LoadReads(file)
    /\ UNCHANGED <<file, drawn>>

\* A bot is drawn: of all its vertices the one index `n' names.
Draw ==
    /\ stage = "loaded"
    /\ \E clip \in Clip, time \in TIMES \cap Nat, n \in {0, file.highest} :
         \E into \in Rounded(Into(file, clip, time), file.records[clip].duration) :
           LET pose == PoseAt(file, clip, into)
           IN  /\ drawn' = [drawn |-> TRUE, clip |-> clip, into |-> into, vertex |-> n,
                            of |-> CASE host = "psp" -> OnPsp(file, pose, n)
                                     [] host = "3ds" -> On3ds(file, pose, n)
                                     [] OTHER -> OnCpu(pose, n)]
               /\ reads' = IF host \in {"vita", "ipod"} THEN DrawReads(file, pose, n) ELSE {}
    /\ UNCHANGED <<file, stage, host>>

Next == Build \/ Load \/ Draw

Spec == Init /\ [][Next]_vars

-----------------------------------------------------------------------------
(* Properties.                                                              *)

\* The file is one, and the stage one of the five.
TypeOK ==
    /\ file \in File
    /\ stage \in {"source", "refused", "built", "refused by host", "loaded"}
    /\ host \in {"none", "psp", "3ds", "vita", "ipod"}

\* "Runtime data has already passed it": whatever file a build lets through, no
\* read of any host leaves it, and what is left for the texture is a texture.
ReadsInside ==
    \A r \in reads : /\ r.at >= 0 /\ r.at + r.size <= file.length
                     /\ r.of = "texel" => r.size = file.side * file.side * 4

\* What is read as something was written as it.
ReadsBaked == file.baked => \A r \in reads : r.at = WrittenAt(file, r.of, r.n)

\* The budgets of the build cover those of the hosts: no host refuses what a
\* build let through, and no index of theirs wraps around.
HostsTakeIt ==
    /\ stage # "refused by host"
    /\ stage \in {"built", "loaded"} => HeldIndex(file.highest) = 2 * file.highest

\* What a baker writes is let through.
BakedIsBuilt == file.baked /\ Bakes(file) => stage # "refused"

\* How far a frame is.
Far(into, k, whole) == IF into < k * whole THEN k * whole - into ELSE into - k * whole

\* The hosts draw the pose that lies between the two frames of the clip around
\* its age: a frame weighs the less the farther it is, and nothing from one on.
Near(into, count, whole) == {k \in 0 .. count - 1 : Far(into, k, whole) < whole}
Between(r, into, n) ==
    {<< <<r.start + k, n>>, r.duration - Far(into, k, r.duration)>> :
       k \in Near(into, r.count, r.duration)}
DrawnIsPose == drawn.drawn => drawn.of = Between(file.records[drawn.clip], drawn.into, drawn.vertex)

\* The texture of the PSP has every texel in its place: those of a tile one
\* behind the other, four to a row.
SwizzleExact(width) ==
    \A x, y \in 0 .. width - 1 :
        LET tile == (y \div 8) * (width \div 4) + x \div 4
        IN  BlockAt(width, tile * 8 + (y % 8)) + (x % 4) * 4 = (y * width + x) * 4
TexelsInPlace == stage = "loaded" /\ host = "psp" /\ Textured(file) => SwizzleExact(file.side)

-----------------------------------------------------------------------------
(* Theorems: of every file, however large.  ReadsBaked and BakedIsBuilt,    *)
(* which are about the sums of the bakers, are only model-checked.          *)

\* There is one quotient and one rest.
LEMMA DivisionUnique ==
  ASSUME NEW q \in Nat, NEW n \in Nat \ {0}, NEW r \in 0 .. n - 1
  PROVE  (q * n + r) \div n = q /\ (q * n + r) % n = r
<1> DEFINE a == q * n + r
           p == a \div n
           m == a % n
<1>1. a \in Nat /\ q * n \in Nat
  OBVIOUS
<1>2. p \in Nat /\ m \in 0 .. n - 1 /\ a = p * n + m
  BY <1>1, DivisionWithRest
<1>3. a = q * n + r
  OBVIOUS
<1> HIDE DEF a, p, m
<1>4. p * n \in Nat
  BY <1>2
<1>5. ~ p < q
  <2>1. p < q => p * n + n <= q * n
    BY <1>2, ProductMonotone
  <2> QED BY <1>1, <1>2, <1>3, <1>4, <2>1
<1>6. ~ q < p
  <2>1. q < p => q * n + n <= p * n
    BY <1>2, ProductMonotone
  <2> QED BY <1>1, <1>2, <1>3, <1>4, <2>1
<1>7. p = q
  BY <1>2, <1>5, <1>6
<1>8. m = r
  BY <1>1, <1>2, <1>3, <1>7
<1> QED BY <1>7, <1>8 DEF a, p, m

\* The clips of a valid file lie in its frames.
LEMMA ClipsInside ==
  ASSUME NEW f \in File, Valid(f), NEW c \in Clip
  PROVE  /\ f.records[c] \in Record
         /\ f.records[c].start \in Nat /\ f.records[c].count \in Nat
         /\ f.records[c].duration \in Nat \ {0} /\ f.records[c].looping \in BOOLEAN
         /\ f.records[c].count >= 2
         /\ f.records[c].start + f.records[c].count <= f.frames
<1>1. f.records[c] \in Record
  BY DEF File
<1>2. /\ f.records[c].start \in Nat /\ f.records[c].count \in Nat
      /\ f.records[c].duration \in Nat /\ f.records[c].looping \in BOOLEAN
  BY <1>1 DEF Record
<1>3. f.frames \in Nat
  BY DEF File
<1>4. /\ f.records[c].count >= 2 /\ f.records[c].count <= f.frames - f.records[c].start
      /\ f.records[c].duration \in 1 .. LONGEST
  BY DEF Valid, RecordsValid
<1> QED BY <1>1, <1>2, <1>3, <1>4

\* The budgets in numbers.
LEMMA Budgets ==
    /\ VERTICES \in Nat /\ VERTICES * 2 <= 65535 /\ VERTICES <= 32767
    /\ INDICES \in Nat /\ MAX_CACHE_BYTES \in Nat
    /\ \A p \in Nat : p * 24 <= MAX_CACHE_BYTES =>
                        p * 6 + 7680 <= 8 * 1024 * 1024
  BY SMT DEF VERTICES, INDICES, MAX_CACHE_BYTES

\* What the sizes of a valid file are.
LEMMA SizesBounded ==
  ASSUME NEW f \in File, Valid(f)
  PROVE  /\ f.vertices \in 1 .. VERTICES /\ f.indices \in 1 .. INDICES /\ f.frames \in 14 .. 512
         /\ f.vertices \in Nat /\ f.indices \in Nat /\ f.frames \in Nat
         /\ f.version \in {1, 2} /\ f.clips = 7 /\ f.highest \in 0 .. f.vertices - 1
         /\ f.frames * f.vertices \in Nat /\ f.frames * f.vertices * 24 <= MAX_CACHE_BYTES
<1>1. SizesValid(f) /\ f.highest < f.vertices
  BY DEF Valid
<1>2. /\ f.vertices \in 1 .. VERTICES /\ f.indices \in 1 .. INDICES /\ f.frames \in 14 .. 512
      /\ f.version \in {1, 2} /\ f.clips = 7
  BY <1>1 DEF SizesValid
<1>3. f.highest \in Nat /\ f.vertices \in Nat /\ f.indices \in Nat /\ f.frames \in Nat
  BY DEF File
<1>4. PICK p : p = f.frames * f.vertices
  OBVIOUS
<1>5. p \in Nat
  BY <1>3, <1>4
<1>6. p * 24 <= MAX_CACHE_BYTES
  <2>1. CacheBytes(f) <= MAX_CACHE_BYTES
    BY <1>1 DEF SizesValid
  <2>2. CASE Textured(f)
    <3>1. p * 32 <= MAX_CACHE_BYTES
      BY <1>4, <2>1, <2>2 DEF CacheBytes
    <3> QED BY <1>5, <3>1, Budgets
  <2>3. CASE ~ Textured(f)
    BY <1>4, <2>1, <2>3 DEF CacheBytes
  <2> QED BY <2>2, <2>3
<1> QED BY <1>1, <1>2, <1>3, <1>4, <1>5, <1>6, Budgets

\* Where the sections of a valid file begin, and what it is long.
LEMMA LayoutOf ==
  ASSUME NEW f \in File, Valid(f),
         NEW v, v = f.vertices, NEW p, p = f.frames * f.vertices,
         NEW s, s = f.side * f.side * 4
  PROVE  /\ s \in Nat
         /\ Textured(f) =>
              /\ ColorsStart(f) = 152 /\ UvStart(f) = 152 + 4 * v /\ IndicesStart(f) = 152 + 8 * v
              /\ PosesStart(f) = 152 + 8 * v + 2 * f.indices
              /\ SocketsStart(f) = 152 + 8 * v + 2 * f.indices + 6 * p
              /\ TextureStart(f) = 152 + 8 * v + 2 * f.indices + 6 * p + 12 * f.frames
              /\ f.length = 152 + 8 * v + 2 * f.indices + 6 * p + 12 * f.frames + s
         /\ ~ Textured(f) =>
              /\ ColorsStart(f) = 136 /\ IndicesStart(f) = 136 + 4 * v
              /\ PosesStart(f) = 136 + 4 * v + 2 * f.indices
              /\ f.length = 136 + 4 * v + 2 * f.indices + 6 * p
<1>1. /\ v \in Nat /\ f.indices \in Nat /\ f.frames \in Nat /\ p \in Nat /\ f.version \in {1, 2}
      /\ f.clips = 7 /\ f.side \in Nat /\ f.length \in Nat
  BY SizesBounded DEF File
<1>2. s \in Nat
  <2>1. f.side * f.side \in Nat
    BY <1>1
  <2> QED BY <2>1
<1>3. f.length = Expected(f)
  BY DEF Valid
<1>4. CASE Textured(f)
  <2>1. f.version = 2
    BY <1>4 DEF Textured
  <2>2. Expected(f) = 40 + 7 * 16 + v * 8 + f.indices * 2 + p * 6 + (f.frames * 12 + s)
    BY <1>1, <2>1 DEF Expected, HeaderOf
  <2>3. ColorsStart(f) = 152
    BY <1>1, <1>4 DEF ColorsStart, Header, RECORD
  <2>4. UvStart(f) = 152 + 4 * v
    BY <1>1, <2>3 DEF UvStart
  <2>5. IndicesStart(f) = 152 + 8 * v
    BY <1>1, <1>4, <2>4 DEF IndicesStart
  <2>6. PosesStart(f) = 152 + 8 * v + 2 * f.indices
    BY <1>1, <2>5 DEF PosesStart
  <2>7. SocketsStart(f) = 152 + 8 * v + 2 * f.indices + 6 * p
    BY <1>1, <2>6 DEF SocketsStart
  <2>8. TextureStart(f) = 152 + 8 * v + 2 * f.indices + 6 * p + 12 * f.frames
    BY <1>1, <2>7 DEF TextureStart
  <2> QED BY <1>1, <1>2, <1>3, <1>4, <2>2, <2>3, <2>4, <2>5, <2>6, <2>7, <2>8
<1>5. CASE ~ Textured(f)
  <2>1. f.version # 2
    BY <1>5 DEF Textured
  <2>2. Expected(f) = 24 + 7 * 16 + v * 4 + f.indices * 2 + p * 6 + 0
    BY <1>1, <2>1 DEF Expected, HeaderOf
  <2>3. ColorsStart(f) = 136
    BY <1>1, <1>5 DEF ColorsStart, Header, RECORD
  <2>4. IndicesStart(f) = 136 + 4 * v
    BY <1>1, <1>5, <2>3 DEF UvStart, IndicesStart
  <2>5. PosesStart(f) = 136 + 4 * v + 2 * f.indices
    BY <1>1, <2>4 DEF PosesStart
  <2> QED BY <1>1, <1>2, <1>3, <1>5, <2>2, <2>3, <2>4, <2>5
<1> QED BY <1>4, <1>5

\* What a sample's place in its section is.
LEMMA SampleInside ==
  ASSUME NEW f \in File, NEW frame \in 0 .. f.frames - 1, NEW i \in 0 .. f.vertices - 1
  PROVE  frame * f.vertices + i \in 0 .. f.frames * f.vertices - 1
<1> DEFINE v == f.vertices
<1>1. v \in Nat \ {0} /\ f.frames \in Nat /\ frame \in Nat /\ frame < f.frames /\ i \in Nat /\ i < v
  BY DEF File
<1> HIDE DEF v
<1>2. frame * v + v <= f.frames * v
  BY <1>1, ProductMonotone
<1>3. frame * v \in Nat /\ f.frames * v \in Nat
  BY <1>1
<1>4. frame * v + i \in 0 .. f.frames * v - 1
  BY <1>1, <1>2, <1>3
<1> QED BY <1>4 DEF v

\* Whether a read lies in a file, and reads a whole texture if it reads one.
Inside(f, r) ==
    /\ r.at >= 0 /\ r.at + r.size <= f.length
    /\ r.of = "texel" => r.size = f.side * f.side * 4

\* Every read of a valid file lies in it.
LEMMA EachInside ==
  ASSUME NEW f \in File, Valid(f)
  PROVE  /\ \A i \in 0 .. f.vertices - 1 : Inside(f, ColorOf(f, i)) /\ (Textured(f) => Inside(f, UvOf(f, i)))
         /\ \A k \in 0 .. f.indices - 1 : Inside(f, IndexOf(f, k))
         /\ \A frame \in 0 .. f.frames - 1, i \in 0 .. f.vertices - 1 : Inside(f, SampleOf(f, frame, i))
         /\ Textured(f) => Inside(f, AttackOrigin(f)) /\ Inside(f, TextureOf(f))
<1>1. PICK v : v = f.vertices
  OBVIOUS
<1>2. PICK p : p = f.frames * f.vertices
  OBVIOUS
<1>3. PICK s : s = f.side * f.side * 4
  OBVIOUS
<1>4. v \in Nat /\ p \in Nat /\ f.indices \in Nat /\ f.frames \in Nat /\ f.length \in Nat
  BY <1>1, <1>2, SizesBounded DEF File
<1>5. /\ s \in Nat
      /\ Textured(f) =>
           /\ ColorsStart(f) = 152 /\ UvStart(f) = 152 + 4 * v /\ IndicesStart(f) = 152 + 8 * v
           /\ PosesStart(f) = 152 + 8 * v + 2 * f.indices
           /\ SocketsStart(f) = 152 + 8 * v + 2 * f.indices + 6 * p
           /\ TextureStart(f) = 152 + 8 * v + 2 * f.indices + 6 * p + 12 * f.frames
           /\ f.length = 152 + 8 * v + 2 * f.indices + 6 * p + 12 * f.frames + s
      /\ ~ Textured(f) =>
           /\ ColorsStart(f) = 136 /\ IndicesStart(f) = 136 + 4 * v
           /\ PosesStart(f) = 136 + 4 * v + 2 * f.indices
           /\ f.length = 136 + 4 * v + 2 * f.indices + 6 * p
  BY <1>1, <1>2, <1>3, LayoutOf
<1>6. ASSUME NEW i \in 0 .. f.vertices - 1
      PROVE  Inside(f, ColorOf(f, i)) /\ (Textured(f) => Inside(f, UvOf(f, i)))
  <2>1. /\ ColorOf(f, i).at = ColorsStart(f) + i * 4 /\ ColorOf(f, i).size = 4 /\ ColorOf(f, i).of = "color"
        /\ UvOf(f, i).at = UvStart(f) + i * 4 /\ UvOf(f, i).size = 4 /\ UvOf(f, i).of = "uv"
    BY DEF ColorOf, UvOf, Read
  <2>2. i \in Nat /\ i < v
    BY <1>1, <1>4
  <2>3. CASE Textured(f)
    BY <1>4, <1>5, <2>1, <2>2, <2>3 DEF Inside
  <2>4. CASE ~ Textured(f)
    BY <1>4, <1>5, <2>1, <2>2, <2>4 DEF Inside
  <2> QED BY <2>3, <2>4
<1>7. ASSUME NEW k \in 0 .. f.indices - 1
      PROVE  Inside(f, IndexOf(f, k))
  <2>1. IndexOf(f, k).at = IndicesStart(f) + k * 2 /\ IndexOf(f, k).size = 2 /\ IndexOf(f, k).of = "index"
    BY DEF IndexOf, Read
  <2>2. k \in Nat /\ k < f.indices
    BY <1>4
  <2>3. CASE Textured(f)
    BY <1>4, <1>5, <2>1, <2>2, <2>3 DEF Inside
  <2>4. CASE ~ Textured(f)
    BY <1>4, <1>5, <2>1, <2>2, <2>4 DEF Inside
  <2> QED BY <2>3, <2>4
<1>8. ASSUME NEW frame \in 0 .. f.frames - 1, NEW i \in 0 .. f.vertices - 1
      PROVE  Inside(f, SampleOf(f, frame, i))
  <2>1. PICK e : e = frame * f.vertices + i
    OBVIOUS
  <2>2. e \in Nat /\ e < p
    BY <1>2, <1>4, <2>1, SampleInside
  <2>3. /\ SampleOf(f, frame, i).at = PosesStart(f) + e * 6 /\ SampleOf(f, frame, i).size = 6
        /\ SampleOf(f, frame, i).of = "pose"
    BY <2>1 DEF SampleOf, Read
  <2>4. CASE Textured(f)
    BY <1>4, <1>5, <2>2, <2>3, <2>4 DEF Inside
  <2>5. CASE ~ Textured(f)
    BY <1>4, <1>5, <2>2, <2>3, <2>5 DEF Inside
  <2> QED BY <2>4, <2>5
<1>9. ASSUME Textured(f)
      PROVE  Inside(f, AttackOrigin(f)) /\ Inside(f, TextureOf(f))
  <2>1. PICK frame : frame = f.records[Fire].start
    OBVIOUS
  <2>2. frame \in Nat /\ frame < f.frames
    <3>1. Fire \in Clip
      BY DEF Fire, Clip
    <3> QED BY <1>4, <2>1, <3>1, ClipsInside
  <2>3. /\ AttackOrigin(f).at = SocketsStart(f) + frame * 12 /\ AttackOrigin(f).size = 12
        /\ AttackOrigin(f).of = "socket"
    BY <2>1 DEF AttackOrigin, Read
  <2>4. Inside(f, AttackOrigin(f))
    BY <1>4, <1>5, <1>9, <2>2, <2>3 DEF Inside
  <2>5. /\ TextureOf(f).at = TextureStart(f) /\ TextureOf(f).size = f.length - TextureStart(f)
    BY DEF TextureOf, Read
  <2>6. f.length - TextureStart(f) = s /\ TextureStart(f) \in Nat /\ TextureStart(f) + s <= f.length
    BY <1>4, <1>5, <1>9
  <2>7. Inside(f, TextureOf(f))
    BY <1>3, <2>5, <2>6 DEF Inside
  <2> QED BY <2>4, <2>7
<1> QED BY <1>6, <1>7, <1>8, <1>9

\* The first and the last of something are of it.
LEMMA EndsInside == ASSUME NEW n \in Nat \ {0} PROVE Ends(n) \subseteq 0 .. n - 1
  BY DEF Ends

\* Loading a valid file reads nothing outside of it.
LEMMA LoadInside ==
  ASSUME NEW f \in File, Valid(f), NEW r \in LoadReads(f)
  PROVE  Inside(f, r)
<1>1. f.vertices \in Nat \ {0} /\ f.indices \in Nat \ {0} /\ f.frames \in Nat \ {0}
  BY SizesBounded, SMTT(30)
<1>2. /\ Ends(f.vertices) \subseteq 0 .. f.vertices - 1 /\ Ends(f.indices) \subseteq 0 .. f.indices - 1
      /\ Ends(f.frames) \subseteq 0 .. f.frames - 1
  BY <1>1, EndsInside
<1>3. \/ \E i \in Ends(f.vertices) : r = ColorOf(f, i)
      \/ \E k \in Ends(f.indices) : r = IndexOf(f, k)
      \/ \E frame \in Ends(f.frames), i \in Ends(f.vertices) : r = SampleOf(f, frame, i)
      \/ Textured(f) /\ \E i \in Ends(f.vertices) : r = UvOf(f, i)
      \/ Textured(f) /\ (r = AttackOrigin(f) \/ r = TextureOf(f))
  <2>1. CASE Textured(f)
    BY <2>1, SMT DEF LoadReads
  <2>2. CASE ~ Textured(f)
    BY <2>2, SMT DEF LoadReads
  <2> QED BY <2>1, <2>2, Zenon
<1> QED BY <1>2, <1>3, EachInside, Zenon

\* The budgets of a build cover those of the hosts.
LEMMA TakesValid ==
  ASSUME NEW f \in File, Valid(f), NEW on
  PROVE  Takes(f, on) /\ HeldIndex(f.highest) = 2 * f.highest
<1>1. /\ f.vertices \in 1 .. VERTICES /\ f.indices \in Nat /\ f.indices > 0 /\ f.frames \in 14 .. 512
      /\ f.highest \in 0 .. f.vertices - 1 /\ f.vertices \in Nat /\ f.frames \in Nat
      /\ f.frames * f.vertices \in Nat /\ f.frames * f.vertices * 24 <= MAX_CACHE_BYTES
  BY SizesBounded
<1>2. CacheBytes(f) <= MAX_CACHE_BYTES /\ f.indices % 3 = 0
  BY DEF Valid, SizesValid
<1>3. f.vertices * 2 <= 65535 /\ f.vertices > 0 /\ f.vertices <= 32767 /\ f.vertices <= 65536
  <2>1. VERTICES \in Nat /\ VERTICES * 2 <= 65535 /\ VERTICES <= 32767
    BY Budgets, SMT
  <2>2. PICK v : v = f.vertices
    OBVIOUS
  <2>3. PICK m : m = VERTICES
    OBVIOUS
  <2>4. v \in Nat /\ 1 <= v /\ v <= m /\ m \in Nat /\ m * 2 <= 65535 /\ m <= 32767
    BY <1>1, <2>1, <2>2, <2>3, SMT
  <2>5. v * 2 <= 65535 /\ v > 0 /\ v <= 32767 /\ v <= 65536
    BY <2>4, SMT
  <2> QED BY <2>2, <2>5, SMT
<1>4. Stride(f) * f.frames <= 8 * 1024 * 1024
  <2>1. PICK v : v = f.vertices
    OBVIOUS
  <2>2. PICK t : t = Stride(f)
    OBVIOUS
  <2>3. t \in Nat /\ t <= v * 6 + 15
    BY <1>1, <2>1, <2>2 DEF Stride
  <2>4. t * f.frames <= (v * 6 + 15) * f.frames
    <3>1. v * 6 + 15 \in Nat
      BY <1>1, <2>1
    <3>2. CASE t = v * 6 + 15
      BY <1>1, <3>1, <3>2
    <3>3. CASE t < v * 6 + 15
      <4>1. t * f.frames + f.frames <= (v * 6 + 15) * f.frames
        BY <1>1, <2>3, <3>1, <3>3, ProductMonotone
      <4>2. t * f.frames \in Nat /\ (v * 6 + 15) * f.frames \in Nat
        BY <1>1, <2>3, <3>1, ProductOfSum
      <4> QED BY <1>1, <4>1, <4>2
    <3> QED BY <2>3, <3>1, <3>2, <3>3
  <2>5. (v * 6 + 15) * f.frames = f.frames * v * 6 + 15 * f.frames
    BY <1>1, <2>1
  <2>6. PICK p : p = f.frames * v
    OBVIOUS
  <2>7. p \in Nat /\ p * 24 <= MAX_CACHE_BYTES
    BY <1>1, <2>1, <2>6
  <2>8. p * 6 + 7680 <= 8 * 1024 * 1024
    BY <2>7, Budgets
  <2>9. p * 6 + 15 * f.frames <= p * 6 + 7680
    BY <1>1, <2>7, SMT
  <2>10. t * f.frames \in Nat
    BY <1>1, <2>3
  <2>11. t * f.frames <= p * 6 + 15 * f.frames
    BY <2>4, <2>5, <2>6
  <2> QED BY <1>1, <2>2, <2>7, <2>8, <2>9, <2>10, <2>11, SMT
<1>5. HeldIndex(f.highest) = 2 * f.highest
  BY <1>1, <1>3, SMT DEF HeldIndex
<1>7. TakenByPsp(f)
  BY <1>2, <1>3, SMT DEF TakenByPsp
<1>8. TakenBy3ds(f)
  <2>1. f.indices % 3 = 0
    BY <1>2
  <2>2. f.frames > 0 /\ f.frames <= 1024
    BY <1>1, SMT
  <2> QED BY <1>1, <1>3, <1>4, <2>1, <2>2, SMT DEF TakenBy3ds
<1>9. TakenByIpod(f)
  BY <1>3, SMT DEF TakenByIpod
<1>10. Takes(f, on)
  BY <1>7, <1>8, <1>9, Zenon DEF Takes
<1> QED BY <1>5, <1>10, Zenon

\* `into' is `mix' parts behind the a-th of `count' frames, the last of which is
\* not passed.
IsSplit(into, a, mix, count, whole) ==
    /\ whole \in Nat \ {0} /\ count \in Nat /\ a \in Nat /\ mix \in 0 .. whole - 1
    /\ into = a * whole + mix /\ a <= count - 1
    /\ a = count - 1 => mix = 0

\* The frames that are less than one away: the one before, and the next if it is
\* not exactly there.
LEMMA NearFrames ==
  ASSUME NEW d, NEW c, NEW a, NEW mix, NEW into, IsSplit(into, a, mix, c, d)
  PROVE  /\ Far(into, a, d) = mix
         /\ mix = 0 => Near(into, c, d) = {a}
         /\ mix # 0 => Near(into, c, d) = {a, a + 1} /\ Far(into, a + 1, d) = d - mix
<1>0. /\ d \in Nat \ {0} /\ c \in Nat /\ a \in Nat /\ mix \in 0 .. d - 1
      /\ into = a * d + mix /\ a <= c - 1 /\ (a = c - 1 => mix = 0)
  BY DEF IsSplit
<1>n. PICK near : near = Near(into, c, d)
  OBVIOUS
<1> USE DEF Near
<1>1. a * d \in Nat /\ into \in Nat /\ (a + 1) * d = a * d + d
  <2>1. a * d \in Nat
    BY <1>0
  <2>2. (a + 1) * d = a * d + 1 * d
    BY <1>0, ProductOfSum
  <2> QED BY <1>0, <2>1, <2>2
<1>2. Far(into, a, d) = mix
  BY <1>0, <1>1 DEF Far
<1>3. Far(into, a + 1, d) = d - mix
  BY <1>0, <1>1 DEF Far
<1>4. ASSUME NEW j \in 0 .. c - 1, j # a, j # a + 1
      PROVE  ~ Far(into, j, d) < d
  <2>1. PICK jd : jd = j * d
    OBVIOUS
  <2>2. jd \in Nat /\ j \in Nat
    BY <1>0, <2>1
  <2>3. CASE j < a
    <3>1. jd + d <= a * d
      BY <1>0, <2>1, <2>2, <2>3, ProductMonotone
    <3> QED BY <1>0, <1>1, <2>1, <2>2, <3>1 DEF Far
  <2>4. CASE a + 1 < j
    <3>1. (a + 1) * d + d <= jd
      BY <1>0, <2>1, <2>2, <2>4, ProductMonotone
    <3> QED BY <1>0, <1>1, <2>1, <2>2, <3>1 DEF Far
  <2> QED BY <1>0, <1>4, <2>2, <2>3, <2>4
<1>5. a \in 0 .. c - 1 /\ a \in near
  BY <1>0, <1>2, <1>n
<1>6. CASE mix = 0
  <2>1. ~ Far(into, a + 1, d) < d
    BY <1>0, <1>3, <1>6
  <2> QED BY <1>n, <1>2, <1>4, <1>5, <1>6, <2>1, Zenon
<1>7. CASE mix # 0
  <2>1. a + 1 \in 0 .. c - 1 /\ Far(into, a + 1, d) < d
    BY <1>0, <1>3, <1>7
  <2>2. a + 1 \in near
    BY <1>n, <1>0, <2>1
  <2> QED BY <1>n, <1>2, <1>3, <1>4, <1>5, <1>7, <2>2, Zenon
<1> QED BY <1>n, <1>2, <1>6, <1>7

\* What is blended of the two frames is what lies between them.
LEMMA BlendIsBetween ==
  ASSUME NEW r \in Record, NEW n, NEW a, NEW mix, NEW into,
         IsSplit(into, a, mix, r.count, r.duration)
  PROVE  Blend(<<r.start + a, n>>, <<r.start + Least(a + 1, r.count - 1), n>>, mix, r.duration)
           = Between(r, into, n)
<1>1. PICK d : d = r.duration
  OBVIOUS
<1>2. PICK c : c = r.count
  OBVIOUS
<1>3. PICK start : start = r.start
  OBVIOUS
<1>4. /\ d \in Nat \ {0} /\ c \in Nat /\ a \in Nat /\ start \in Nat /\ mix \in 0 .. d - 1
      /\ into = a * d + mix /\ a <= c - 1 /\ (a = c - 1 => mix = 0)
  BY <1>1, <1>2, <1>3 DEF Record, IsSplit
<1>5. PICK b : b = start + Least(a + 1, c - 1)
  OBVIOUS
<1>6. PICK x : x = <<start + a, n>>
  OBVIOUS
<1>7. PICK y : y = <<b, n>>
  OBVIOUS
<1>8. PICK near : near = Near(into, c, d)
  OBVIOUS
<1>9. /\ Far(into, a, d) = mix
      /\ mix = 0 => near = {a}
      /\ mix # 0 => near = {a, a + 1} /\ Far(into, a + 1, d) = d - mix
  <2>1. IsSplit(into, a, mix, c, d)
    BY <1>1, <1>2
  <2>2. /\ Far(into, a, d) = mix
        /\ mix = 0 => Near(into, c, d) = {a}
        /\ mix # 0 => Near(into, c, d) = {a, a + 1} /\ Far(into, a + 1, d) = d - mix
    BY <2>1, NearFrames
  <2> QED BY <1>8, <2>2
<1>10. Between(r, into, n) = {<< <<start + k, n>>, d - Far(into, k, d)>> : k \in near}
  BY <1>1, <1>2, <1>3, <1>8 DEF Between
<1>11. d - 0 = d /\ d # 0 /\ d - mix # 0 /\ d - (d - mix) = mix
  BY <1>4
<1>12. Blend(x, y, mix, d) = Between(r, into, n)
  <2>1. CASE mix = 0
    <3>1. Between(r, into, n) = {<<x, d>>}
      BY <1>6, <1>9, <1>10, <1>11, <2>1, Zenon
    <3>2. Blend(x, y, mix, d) = {<<x, d>>}
      <4>1. CASE x = y
        BY <4>1 DEF Blend
      <4>2. CASE x # y
        <5>1. Blend(x, y, mix, d) = {w \in {<<x, d>>, <<y, 0>>} : w[2] # 0}
          BY <1>11, <2>1, <4>2 DEF Blend
        <5>2. <<x, d>>[2] # 0 /\ <<y, 0>>[2] = 0
          BY <1>11
        <5> QED BY <5>1, <5>2
      <4> QED BY <4>1, <4>2
    <3> QED BY <3>1, <3>2
  <2>2. CASE mix # 0
    <3>1. a + 1 <= c - 1 /\ b = start + (a + 1) /\ b # start + a
      BY <1>2, <1>4, <1>5, <2>2 DEF Least
    <3>2. x # y
      BY <1>6, <1>7, <3>1
    <3>3. Between(r, into, n) = {<< <<start + a, n>>, d - mix>>, << <<start + (a + 1), n>>, d - (d - mix)>>}
      BY <1>9, <1>10, <2>2, Zenon
    <3>4. Between(r, into, n) = {<<x, d - mix>>, <<y, mix>>}
      BY <1>6, <1>7, <1>11, <3>1, <3>3, Zenon
    <3>5. Blend(x, y, mix, d) = {w \in {<<x, d - mix>>, <<y, mix>>} : w[2] # 0}
      BY <3>2 DEF Blend
    <3>6. <<x, d - mix>>[2] # 0 /\ <<y, mix>>[2] # 0
      BY <1>11, <2>2
    <3> QED BY <3>4, <3>5, <3>6
  <2> QED BY <2>1, <2>2
<1> QED BY <1>1, <1>2, <1>3, <1>5, <1>6, <1>7, <1>12, Zenon

\* What the hosts keep of a sample is that sample.
LEMMA KeptIsSample ==
  ASSUME NEW f \in File, Valid(f), NEW frame \in 0 .. f.frames - 1, NEW n \in 0 .. f.vertices - 1
  PROVE  /\ Pair(f, frame * f.vertices + n) = << <<frame, n>>, <<Least(frame + 1, f.frames - 1), n>> >>
         /\ KeptAt(f, frame * Stride(f) + n * 6) = <<frame, n>>
<1>1. PICK v : v = f.vertices
  OBVIOUS
<1>2. v \in Nat \ {0} /\ frame \in Nat /\ n \in 0 .. v - 1
  BY <1>1, SizesBounded
<1>3. (frame * v + n) \div v = frame /\ (frame * v + n) % v = n
  BY <1>2, DivisionUnique
<1>4. Pair(f, frame * f.vertices + n) = << <<frame, n>>, <<Least(frame + 1, f.frames - 1), n>> >>
  BY <1>1, <1>3 DEF Pair
<1>5. PICK t : t = Stride(f)
  OBVIOUS
<1>6. t \in Nat \ {0} /\ n * 6 \in 0 .. t - 1
  BY <1>1, <1>2, <1>5 DEF Stride
<1>7. (frame * t + n * 6) \div t = frame /\ (frame * t + n * 6) % t = n * 6
  BY <1>2, <1>6, DivisionUnique
<1>8. (n * 6) \div 6 = n
  BY <1>2
<1>9. KeptAt(f, frame * Stride(f) + n * 6) = <<frame, n>>
  BY <1>5, <1>7, <1>8 DEF KeptAt
<1> QED BY <1>4, <1>9

\* The PSP and the 3DS draw, of what they keep, what the others blend.
LEMMA HostsAgree ==
  ASSUME NEW f \in File, Valid(f), NEW n \in 0 .. f.highest,
         NEW a \in 0 .. f.frames - 1, NEW b \in 0 .. f.frames - 1, b = a \/ b = a + 1,
         NEW whole \in Nat \ {0}, NEW mix \in 0 .. whole - 1,
         NEW pose, pose = [a |-> a, b |-> b, mix |-> mix, whole |-> whole]
  PROVE  /\ OnPsp(f, pose, n) = Blend(<<a, n>>, <<b, n>>, mix, whole)
         /\ On3ds(f, pose, n) = Blend(<<a, n>>, <<b, n>>, mix, whole)
         /\ OnCpu(pose, n) = Blend(<<a, n>>, <<b, n>>, mix, whole)
<1>1. /\ pose.a = a /\ pose.b = b /\ pose.mix = mix /\ pose.whole = whole
      /\ f.frames \in Nat /\ f.vertices \in Nat /\ f.highest \in 0 .. f.vertices - 1
      /\ n \in 0 .. f.vertices - 1
  BY SizesBounded
<1>2. OnCpu(pose, n) = Blend(<<a, n>>, <<b, n>>, mix, whole)
  BY <1>1 DEF OnCpu
<1>3. On3ds(f, pose, n) = Blend(<<a, n>>, <<b, n>>, mix, whole)
  <2>1. ~ (pose.a >= f.frames \/ pose.b >= f.frames)
    BY <1>1
  <2>2. KeptAt(f, a * Stride(f) + n * 6) = <<a, n>> /\ KeptAt(f, b * Stride(f) + n * 6) = <<b, n>>
    BY <1>1, KeptIsSample
  <2> QED BY <1>1, <2>1, <2>2, Zenon DEF On3ds
<1>4. OnPsp(f, pose, n) = Blend(<<a, n>>, <<b, n>>, mix, whole)
  <2>1. PICK pair : pair = Pair(f, a * f.vertices + n)
    OBVIOUS
  <2>2. pair = << <<a, n>>, <<Least(a + 1, f.frames - 1), n>> >>
    BY <1>1, <2>1, KeptIsSample
  <2>3. PICK half : half = HeldIndex(n)
    OBVIOUS
  <2>4. half = n * 2 /\ half \div 2 = n /\ (half % 2) + 1 = 1
    <3>1. half = n * 2
      <4>1. TakenByPsp(f)
        BY TakesValid, Zenon DEF Takes
      <4> QED BY <1>1, <2>3, <4>1, SMT DEF HeldIndex, TakenByPsp
    <3> QED BY <1>1, <3>1
  <2>5. PICK still : still = IF a = b THEN 0 ELSE mix
    OBVIOUS
  <2>6. OnPsp(f, pose, n) = IF still = 0 THEN {<<pair[1], whole>>}
                                         ELSE Blend(pair[1], pair[2], still, whole)
    BY <1>1, <2>1, <2>3, <2>4, <2>5, Zenon DEF OnPsp
  <2>7. pair[1] = <<a, n>> /\ pair[2] = <<Least(a + 1, f.frames - 1), n>>
    BY <2>2
  <2>8. CASE a = b
    BY <2>5, <2>6, <2>7, <2>8 DEF Blend
  <2>9. CASE a # b /\ mix = 0
    <3>1. <<a, n>> # <<b, n>>
      BY <2>9
    <3>2. PICK x : x = <<a, n>>
      OBVIOUS
    <3>3. PICK y : y = <<b, n>>
      OBVIOUS
    <3>4. Blend(x, y, mix, whole) = {w \in {<<x, whole>>, <<y, 0>>} : w[2] # 0}
      BY <2>9, <3>1, <3>2, <3>3 DEF Blend
    <3>5. <<x, whole>>[2] # 0 /\ <<y, 0>>[2] = 0
      OBVIOUS
    <3>6. Blend(x, y, mix, whole) = {<<x, whole>>}
      BY <3>4, <3>5
    <3> QED BY <2>5, <2>6, <2>7, <2>9, <3>2, <3>3, <3>6
  <2>10. CASE a # b /\ mix # 0
    <3>1. pair[2] = <<b, n>>
      BY <1>1, <2>7, <2>10 DEF Least
    <3> QED BY <2>5, <2>6, <2>7, <2>10, <3>1
  <2> QED BY <2>8, <2>9, <2>10
<1> QED BY <1>2, <1>3, <1>4

\* However old an action is, its pose does not pass the last frame of the clip.
LEMMA IntoSplits ==
  ASSUME NEW r \in Record, r.duration \in Nat \ {0}, r.count >= 2,
         NEW f, NEW clip, f.records[clip] = r, NEW time \in Nat,
         NEW into \in Rounded(Into(f, clip, time), r.duration)
  PROVE  IsSplit(into, into \div r.duration, into - (into \div r.duration) * r.duration,
                 r.count, r.duration)
<1>1. PICK d : d = r.duration
  OBVIOUS
<1>2. PICK c : c = r.count
  OBVIOUS
<1>3. d \in Nat \ {0} /\ c \in Nat /\ c >= 2 /\ c - 1 \in Nat
  BY <1>1, <1>2 DEF Record
<1>4. PICK end : end = d * (c - 1)
  OBVIOUS
<1>5. end \in Nat /\ end = (c - 1) * d
  BY <1>3, <1>4
<1>6. PICK exact : exact = Into(f, clip, time)
  OBVIOUS
<1>7. exact \in Nat /\ exact <= end
  <2>1. PICK age : age = IF r.looping THEN time % d ELSE Least(time, d)
    OBVIOUS
  <2>2. age \in Nat /\ age <= d
    <3>1. CASE r.looping
      <4>1. time % d \in 0 .. d - 1
        BY <1>3, DivisionWithRest
      <4> QED BY <1>3, <2>1, <3>1, <4>1
    <3>2. CASE ~ r.looping
      BY <1>3, <2>1, <3>2 DEF Least
    <3> QED BY <3>1, <3>2
  <2>3. exact = age * (c - 1)
    BY <1>1, <1>2, <1>6, <2>1 DEF Into
  <2>4. CASE age = d
    BY <1>4, <1>5, <2>3, <2>4
  <2>5. CASE age < d /\ c - 1 \in Nat \ {0}
    <3>1. age * (c - 1) + (c - 1) <= d * (c - 1)
      BY <1>3, <2>2, <2>5, ProductMonotone
    <3>2. age * (c - 1) \in Nat
      BY <1>3, <2>2
    <3> QED BY <1>3, <1>4, <1>5, <2>3, <3>1, <3>2
  <2> QED BY <1>3, <2>2, <2>4, <2>5
<1>8. end \div d = c - 1 /\ end % d = 0
  <2>1. (c - 1) * d + 0 = end /\ 0 \in 0 .. d - 1
    BY <1>3, <1>5
  <2>2. ((c - 1) * d + 0) \div d = c - 1 /\ ((c - 1) * d + 0) % d = 0
    BY <1>3, <2>1, DivisionUnique
  <2> QED BY <2>1, <2>2
<1>9. into \in Nat /\ into <= end
  <2>1. into = exact \/ (into = exact + 1 /\ exact % d # 0)
    BY <1>1, <1>6 DEF Rounded
  <2>2. into = exact + 1 => exact # end
    BY <1>8, <2>1, <1>7
  <2> QED BY <1>5, <1>7, <2>1, <2>2
<1>10. PICK a : a = into \div d
  OBVIOUS
<1>11. PICK m : m = into % d
  OBVIOUS
<1>12. a \in Nat /\ m \in 0 .. d - 1 /\ into = a * d + m /\ a * d \in Nat
  <2>1. a \in Nat /\ m \in 0 .. d - 1 /\ into = a * d + m
    BY <1>3, <1>9, <1>10, <1>11, DivisionWithRest
  <2>2. d \in Nat
    BY <1>3
  <2> QED BY <2>1, <2>2, ProductOfSum
<1>13. m = into - a * d
  BY <1>9, <1>12
<1>14. a <= c - 1 /\ (a = c - 1 => m = 0)
  <2>1. ~ c - 1 < a
    <3>1. c - 1 < a => (c - 1) * d + d <= a * d
      BY <1>3, <1>12, ProductMonotone
    <3> QED BY <1>3, <1>5, <1>9, <1>12, <3>1
  <2>2. a = c - 1 => m = 0
    BY <1>5, <1>9, <1>12
  <2> QED BY <1>3, <1>12, <2>1, <2>2
<1>15. IsSplit(into, a, into - a * d, c, d)
  BY <1>3, <1>12, <1>13, <1>14 DEF IsSplit
<1> QED BY <1>1, <1>2, <1>10, <1>15

\* What any host draws of a valid character is what lies between two of its
\* frames.
LEMMA DrawnBetween ==
  ASSUME NEW f \in File, Valid(f), NEW clip \in Clip, NEW time \in Nat, NEW n \in 0 .. f.highest,
         NEW into \in Rounded(Into(f, clip, time), f.records[clip].duration),
         NEW pose, pose = PoseAt(f, clip, into)
  PROVE  /\ pose.a \in 0 .. f.frames - 1 /\ pose.b \in 0 .. f.frames - 1
         /\ OnPsp(f, pose, n) = Between(f.records[clip], into, n)
         /\ On3ds(f, pose, n) = Between(f.records[clip], into, n)
         /\ OnCpu(pose, n) = Between(f.records[clip], into, n)
<1>1. PICK r : r = f.records[clip]
  OBVIOUS
<1>2. /\ r \in Record /\ r.start \in Nat /\ r.count \in Nat /\ r.duration \in Nat \ {0}
      /\ r.count >= 2 /\ r.start + r.count <= f.frames /\ f.frames \in Nat
  BY <1>1, ClipsInside, SizesBounded
<1>3. PICK k : k = into \div r.duration
  OBVIOUS
<1>4. PICK mix : mix = into - k * r.duration
  OBVIOUS
<1>5. IsSplit(into, k, mix, r.count, r.duration)
  <2>1. into \in Rounded(Into(f, clip, time), r.duration)
    BY <1>1
  <2> QED BY <1>1, <1>2, <1>3, <1>4, <2>1, IntoSplits
<1>6. k \in Nat /\ k <= r.count - 1 /\ mix \in 0 .. r.duration - 1
  BY <1>5 DEF IsSplit
<1>7. PICK a : a = r.start + k
  OBVIOUS
<1>8. PICK b : b = r.start + Least(k + 1, r.count - 1)
  OBVIOUS
<1>9. a \in 0 .. f.frames - 1 /\ b \in 0 .. f.frames - 1 /\ (b = a \/ b = a + 1)
  <2>1. Least(k + 1, r.count - 1) = k + 1 \/ (Least(k + 1, r.count - 1) = k /\ k = r.count - 1)
    BY <1>2, <1>6 DEF Least
  <2>2. Least(k + 1, r.count - 1) <= r.count - 1
    BY <1>2, <1>6 DEF Least
  <2> QED BY <1>2, <1>6, <1>7, <1>8, <2>1, <2>2
<1>10. pose = [a |-> a, b |-> b, mix |-> mix, whole |-> r.duration]
  BY <1>1, <1>3, <1>4, <1>7, <1>8, Zenon DEF PoseAt
<1>11. Blend(<<a, n>>, <<b, n>>, mix, r.duration) = Between(r, into, n)
  BY <1>2, <1>5, <1>7, <1>8, BlendIsBetween
<1>12. /\ OnPsp(f, pose, n) = Blend(<<a, n>>, <<b, n>>, mix, r.duration)
       /\ On3ds(f, pose, n) = Blend(<<a, n>>, <<b, n>>, mix, r.duration)
       /\ OnCpu(pose, n) = Blend(<<a, n>>, <<b, n>>, mix, r.duration)
  BY <1>2, <1>6, <1>9, <1>10, HostsAgree
<1> QED BY <1>1, <1>9, <1>10, <1>11, <1>12

\* Drawing reads nothing outside of a valid file.
LEMMA DrawInside ==
  ASSUME NEW f \in File, Valid(f), NEW n \in 0 .. f.highest,
         NEW pose, pose.a \in 0 .. f.frames - 1, pose.b \in 0 .. f.frames - 1,
         NEW r \in DrawReads(f, pose, n)
  PROVE  Inside(f, r)
<1>1. n \in 0 .. f.vertices - 1
  BY SizesBounded
<1>2. r = SampleOf(f, pose.a, n) \/ r = SampleOf(f, pose.b, n) \/ r = ColorOf(f, n)
      \/ (Textured(f) /\ r = UvOf(f, n))
  BY DEF DrawReads
<1> QED BY <1>1, <1>2, EachInside, Zenon

-----------------------------------------------------------------------------
\* What is built is valid; then no host refuses it, and what was read and drawn
\* of it is as it should be.
CharacterInv ==
    /\ TypeOK
    /\ stage \in {"built", "loaded", "refused by host"} => Valid(file)
    /\ stage # "refused by host"
    /\ \A r \in reads : Inside(file, r)
    /\ DrawnIsPose

\* CharacterInv holds before the build.
LEMMA CharacterInitial == Init => CharacterInv
<1> SUFFICES ASSUME Init PROVE CharacterInv
  OBVIOUS
<1>1. TypeOK
  BY DEF Init, TypeOK
<1>2. drawn.drawn = FALSE
  BY DEF Init, Nothing
<1> QED BY <1>1, <1>2 DEF Init, CharacterInv, DrawnIsPose

\* Every step keeps CharacterInv.
LEMMA CharacterInductive == CharacterInv /\ [Next]_vars => CharacterInv'
<1> SUFFICES ASSUME CharacterInv, [Next]_vars PROVE CharacterInv'
  OBVIOUS
<1>1. /\ file \in File /\ TypeOK /\ stage # "refused by host" /\ (\A r \in reads : Inside(file, r)) /\ DrawnIsPose
      /\ stage \in {"built", "loaded", "refused by host"} => Valid(file)
  BY DEF CharacterInv, TypeOK
<1>2. CASE UNCHANGED vars
  BY <1>1, <1>2 DEF CharacterInv, TypeOK, DrawnIsPose, vars
<1>3. CASE Build
  <2>1. /\ UNCHANGED <<file, host, reads, drawn>> /\ stage' \in {"built", "refused"}
        /\ stage' = "built" => Valid(file)
    BY <1>3 DEF Build
  <2> QED BY <1>1, <2>1 DEF CharacterInv, TypeOK, DrawnIsPose
<1>4. CASE Load
  <2>1. /\ stage = "built" /\ host' \in {"psp", "3ds", "vita", "ipod"}
        /\ stage' = (IF Takes(file, host') THEN "loaded" ELSE "refused by host")
        /\ reads' = LoadReads(file) /\ UNCHANGED <<file, drawn>>
    BY <1>4 DEF Load
  <2>2. Valid(file)
    BY <1>1, <2>1
  <2>3. stage' = "loaded"
    <3>1. PICK on : on = host'
      OBVIOUS
    <3>2. Takes(file, on)
      BY <1>1, <2>2, TakesValid
    <3> QED BY <2>1, <3>1, <3>2
  <2>4. \A r \in LoadReads(file) : Inside(file, r)
    BY <1>1, <2>2, LoadInside
  <2>5. TypeOK'
    BY <1>1, <2>1, <2>3 DEF TypeOK
  <2>6. DrawnIsPose'
    BY <1>1, <2>1 DEF DrawnIsPose
  <2> QED BY <2>1, <2>2, <2>3, <2>4, <2>5, <2>6 DEF CharacterInv
<1>5. CASE Draw
  <2>1. stage = "loaded" /\ UNCHANGED <<file, stage, host>>
    BY <1>5 DEF Draw
  <2>2. Valid(file) /\ file.highest \in Nat
    BY <1>1, <2>1 DEF File
  <2>3. PICK clip \in Clip, time \in TIMES \cap Nat, n \in {0, file.highest} :
          \E into \in Rounded(Into(file, clip, time), file.records[clip].duration) :
            LET pose == PoseAt(file, clip, into)
            IN  /\ drawn' = [drawn |-> TRUE, clip |-> clip, into |-> into, vertex |-> n,
                             of |-> CASE host = "psp" -> OnPsp(file, pose, n)
                                      [] host = "3ds" -> On3ds(file, pose, n)
                                      [] OTHER -> OnCpu(pose, n)]
                /\ reads' = IF host \in {"vita", "ipod"} THEN DrawReads(file, pose, n) ELSE {}
    BY <1>5, Zenon DEF Draw
  <2>4. PICK into \in Rounded(Into(file, clip, time), file.records[clip].duration) :
          LET pose == PoseAt(file, clip, into)
          IN  /\ drawn' = [drawn |-> TRUE, clip |-> clip, into |-> into, vertex |-> n,
                           of |-> CASE host = "psp" -> OnPsp(file, pose, n)
                                    [] host = "3ds" -> On3ds(file, pose, n)
                                    [] OTHER -> OnCpu(pose, n)]
              /\ reads' = IF host \in {"vita", "ipod"} THEN DrawReads(file, pose, n) ELSE {}
    BY <2>3, Zenon
  <2>5. PICK pose : pose = PoseAt(file, clip, into)
    OBVIOUS
  <2>6. PICK of : of = CASE host = "psp" -> OnPsp(file, pose, n)
                         [] host = "3ds" -> On3ds(file, pose, n)
                         [] OTHER -> OnCpu(pose, n)
    OBVIOUS
  <2>7. /\ drawn' = [drawn |-> TRUE, clip |-> clip, into |-> into, vertex |-> n, of |-> of]
        /\ reads' = IF host \in {"vita", "ipod"} THEN DrawReads(file, pose, n) ELSE {}
    BY <2>4, <2>5, <2>6, Zenon
  <2>8. n \in 0 .. file.highest /\ time \in Nat
    BY <2>2, <2>3
  <2>9. /\ pose.a \in 0 .. file.frames - 1 /\ pose.b \in 0 .. file.frames - 1
        /\ OnPsp(file, pose, n) = Between(file.records[clip], into, n)
        /\ On3ds(file, pose, n) = Between(file.records[clip], into, n)
        /\ OnCpu(pose, n) = Between(file.records[clip], into, n)
    <3>1. file \in File /\ clip \in Clip
      BY <1>1, <2>3 DEF TypeOK
    <3>2. into \in Rounded(Into(file, clip, time), file.records[clip].duration)
      OBVIOUS
    <3>3. Valid(file) /\ time \in Nat /\ n \in 0 .. file.highest
      BY <2>2, <2>8
    <3> QED BY <2>5, <3>1, <3>2, <3>3, DrawnBetween
  <2>10. of = Between(file.records[clip], into, n)
    BY <2>6, <2>9
  <2>11. DrawnIsPose'
    BY <2>1, <2>7, <2>10 DEF DrawnIsPose
  <2>12. \A r \in reads' : Inside(file, r)
    <3>1. \A r \in DrawReads(file, pose, n) : Inside(file, r)
      BY <1>1, <2>2, <2>8, <2>9, DrawInside, Zenon
    <3> QED BY <2>7, <3>1
  <2>13. TypeOK'
    BY <1>1, <2>1 DEF TypeOK
  <2> QED BY <1>1, <2>1, <2>2, <2>11, <2>12, <2>13 DEF CharacterInv
<1> QED BY <1>2, <1>3, <1>4, <1>5 DEF Next

\* CharacterInv holds in every state.
LEMMA CharacterAlways == Spec => []CharacterInv
  BY CharacterInitial, CharacterInductive, PTL DEF Spec

\* Whatever file a build lets through, no host reads outside of it.
THEOREM ReadsCorrect == Spec => []ReadsInside
<1>1. CharacterInv => ReadsInside
  BY DEF CharacterInv, ReadsInside, Inside
<1> QED BY <1>1, CharacterAlways, PTL

\* No host is too small for what a build let through.
THEOREM BudgetsCorrect == Spec => []HostsTakeIt
<1>1. CharacterInv => HostsTakeIt
  <2> SUFFICES ASSUME CharacterInv PROVE HostsTakeIt
    OBVIOUS
  <2>1. stage # "refused by host" /\ file \in File
    BY DEF CharacterInv, TypeOK
  <2>2. stage \in {"built", "loaded"} => Valid(file)
    BY DEF CharacterInv
  <2>3. Valid(file) => HeldIndex(file.highest) = 2 * file.highest
    BY <2>1, TakesValid
  <2> QED BY <2>1, <2>2, <2>3, Zenon DEF HostsTakeIt
<1> QED BY <1>1, CharacterAlways, PTL

\* The hosts draw the pose that lies between the frames of the clip.
THEOREM PoseCorrect == Spec => []DrawnIsPose
<1>1. CharacterInv => DrawnIsPose
  BY DEF CharacterInv
<1> QED BY <1>1, CharacterAlways, PTL

\* The texture of the PSP has every texel in its place, of whatever width.
THEOREM TexelsCorrect ==
  ASSUME NEW tiles \in Nat \ {0}
  PROVE  SwizzleExact(4 * tiles)
<1> DEFINE width == 4 * tiles
<1> SUFFICES ASSUME NEW x \in 0 .. width - 1, NEW y \in 0 .. width - 1
             PROVE  BlockAt(width, ((y \div 8) * (width \div 4) + x \div 4) * 8 + (y % 8)) + (x % 4) * 4
                      = (y * width + x) * 4
  BY Zenon DEF SwizzleExact
<1>1. width \in Nat \ {0} /\ width \div 4 = tiles /\ (width * 4) \div 16 = tiles /\ x \in Nat /\ y \in Nat
  OBVIOUS
<1>2. PICK i : i = x \div 4
  OBVIOUS
<1>3. PICK q : q = x % 4
  OBVIOUS
<1>4. PICK j : j = y \div 8
  OBVIOUS
<1>5. PICK h : h = y % 8
  OBVIOUS
<1>6. /\ i \in 0 .. tiles - 1 /\ x = i * 4 + q /\ q \in 0 .. 3
      /\ j \in Nat /\ h \in 0 .. 7 /\ y = j * 8 + h
  BY <1>1, <1>2, <1>3, <1>4, <1>5
<1>7. PICK tile : tile = j * tiles + i
  OBVIOUS
<1>8. tile \in Nat /\ tile \div tiles = j /\ tile % tiles = i
  BY <1>6, <1>7, DivisionUnique
<1>9. (tile * 8 + h) \div 8 = tile /\ (tile * 8 + h) % 8 = h
  BY <1>6, <1>8
<1>10. BlockAt(width, tile * 8 + h) = y * (width * 4) + i * 16
  BY <1>1, <1>6, <1>8, <1>9, Zenon DEF BlockAt
<1>11. PICK yw : yw = y * width
  OBVIOUS
<1>12. yw \in Nat /\ y * (width * 4) = yw * 4
  BY <1>1, <1>11
<1>13. yw * 4 + i * 16 + q * 4 = (yw + x) * 4
  BY <1>6, <1>12
<1> QED BY <1>1, <1>2, <1>3, <1>4, <1>5, <1>7, <1>10, <1>11, <1>12, <1>13
=============================================================================
