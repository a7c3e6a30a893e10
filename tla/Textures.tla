------------------------------ MODULE Textures ------------------------------
(***************************************************************************)
(* The textures of a cooked map, written by cook_textures_section (cook.   *)
(* rs), read by the WTEX part of the reader and by expand_level0_rgba      *)
(* (cooked.rs): the chain of mips, the blocks they are swizzled in, where  *)
(* they lie in the file; and the placeholders of textures that are         *)
(* missing, refused when the map is cooked or when a package is verified.  *)
(*                                                                         *)
(* Scaled by the constants below; a blob's bytes are its elements. A texel *)
(* is what it shows: a place of the picture it was drawn as, or blended    *)
(* from it (resample_indexed, downsample_indexed); colours are left out    *)
(* but that a texel may be clear.                                          *)
(***************************************************************************)
EXTENDS Integers, Sequences, FiniteSets

CONSTANTS
    PICTURES,   \* textures: width, height, masked, whether it was found, drawn
    BW, BH,     \* width and height of a swizzle block (16, 8)
    LIMIT,      \* the widest texture of the GE (512)
    SMALLEST,   \* no mip below this is added (8)
    STORED,     \* mips of a WAD's texture (4)
    MAX_MIPS,   \* mips of a cooked texture (8)
    HEADER, PALETTE, ALIGN  \* bytes (64, 1024, 16)

VARIABLES
    allowed,    \* allow_missing_textures
    textures,   \* those the map is cooked from
    section,    \* the cooked blobs
    cooked,     \* "not_yet", "cooked", or "refused"
    verified    \* what verify_cooked_textures says of the package

vars == <<allowed, textures, section, cooked, verified>>

Larger(x, y) == IF x > y THEN x ELSE y
Shifted(n, level) == Larger(n \div 2 ^ level, 1)
RoundedUp(n, to) == ((n + to - 1) \div to) * to

Clear == "clear"    \* index 255 of a masked texture
Pad == "pad"

\* nearest_pow2: up, but not above the limit.
NearestPow2(dim) ==
    LET powers == {2 ^ k : k \in 0 .. 10}
        up == CHOOSE p \in powers : p >= dim /\ \A q \in powers : q >= dim => p <= q
    IN  IF up > LIMIT THEN LIMIT ELSE up

\* A mip: its texels row by row, each a picture and a place in it, or blended
\* at a place. Every other texel of a masked picture's first column is clear.
Picture(t, level) ==
    LET w == Shifted(t.w, level)
        h == Shifted(t.h, level)
    IN  [i \in 1 .. w * h |->
           LET x == (i - 1) % w
               y == (i - 1) \div w
           IN  IF t.masked /\ level = 0 /\ x = 0 /\ y % 2 = 0 THEN Clear ELSE <<t.art, level, x, y>>]

Blended(t, w, h) == [i \in 1 .. w * h |-> <<t.art, "blend", (i - 1) % w, (i - 1) \div w>>]

\* placeholder_indexed: a checkerboard of one block's width, with all its mips.
Placeholder == [w |-> BW, h |-> BW, masked |-> FALSE, art |-> "missing", drawn |-> FALSE]

Cooking(t) ==
    IF t.found THEN [w |-> t.w, h |-> t.h, masked |-> t.masked, art |-> "own", drawn |-> t.drawn]
    ELSE [Placeholder EXCEPT !.drawn = t.drawn]

-----------------------------------------------------------------------------
\* The chain: the stored mips of a texture whose sides are powers of two, one
\* blended anew of any other; and smaller ones, while both sides allow.
Extended(t, pw, ph, first) ==
    LET more[n \in Len(first) .. MAX_MIPS] ==
          IF n = Len(first) THEN first
          ELSE LET level == n - 1
               IN  IF \/ Len(more[n - 1]) < level
                      \/ pw \div 2 ^ level < SMALLEST \/ ph \div 2 ^ level < SMALLEST
                   THEN more[n - 1]
                   ELSE Append(more[n - 1], Blended(t, pw \div 2 ^ level, ph \div 2 ^ level))
    IN  more[MAX_MIPS]

Mips(t) ==
    LET pw == NearestPow2(t.w)
        ph == NearestPow2(t.h)
    IN  Extended(t, pw, ph,
          IF <<pw, ph>> = <<t.w, t.h>> THEN [level \in 1 .. STORED |-> Picture(t, level - 1)]
          ELSE <<Blended(t, pw, ph)>>)

\* mip_stride and mip_rows.
MipStride(w, level) == Larger(Shifted(w, level), BW)
MipRows(h, level) == RoundedUp(Shifted(h, level), BH)

Aligned(at) == RoundedUp(at, ALIGN)

\* Where the texel x, y of a mip lies: block by block, row by row in a block.
PlaceOf(x, y, stride) ==
    ((y \div BH) * (stride \div BW) + x \div BW) * BW * BH + (y % BH) * BW + (x % BW) + 1

\* swizzle8, of the GE crate: in blocks, padded to whole ones.
Swizzled(texels, w, h) ==
    LET stride == Larger(w, BW)
        rows == RoundedUp(h, BH)
        texel == [p \in (0 .. w - 1) \X (0 .. h - 1) |-> texels[p[2] * w + p[1] + 1]]
        at == [p \in DOMAIN texel |-> PlaceOf(p[1], p[2], stride)]
    IN  [i \in 1 .. stride * rows |->
           IF \E p \in DOMAIN at : at[p] = i THEN texel[CHOOSE p \in DOMAIN at : at[p] = i] ELSE Pad]

\* One blob: header, palette, and the mips at their offsets (counted from 0).
Blob(t) ==
    LET mips == Mips(t)
        w == NearestPow2(t.w)
        h == NearestPow2(t.h)
        fill(bytes) == bytes \o [i \in 1 .. Aligned(Len(bytes)) - Len(bytes) |-> Pad]
        written[level \in 0 .. Len(mips)] ==
          IF level = 0 THEN [bytes |-> [i \in 1 .. HEADER + PALETTE |-> Pad], offsets |-> <<>>]
          ELSE LET before == fill(written[level - 1].bytes)
               IN  [bytes |-> before \o Swizzled(mips[level], Shifted(w, level - 1), Shifted(h, level - 1)),
                    offsets |-> Append(written[level - 1].offsets, Len(before))]
    IN  [w |-> w, h |-> h, masked |-> t.masked, levels |-> Len(mips),
         offsets |-> written[Len(mips)].offsets, bytes |-> written[Len(mips)].bytes]

\* cook_parsed: the textures, refused if one is missing that is drawn.
CookTextures ==
    /\ cooked = "not_yet"
    /\ LET missing == {i \in DOMAIN textures : ~textures[i].found /\ textures[i].drawn}
       IN  IF missing # {} /\ ~allowed THEN cooked' = "refused" /\ UNCHANGED section
           ELSE /\ cooked' = "cooked"
                /\ section' = [i \in DOMAIN textures |-> Blob(Cooking(textures[i]))]
    /\ UNCHANGED <<allowed, textures, verified>>

-----------------------------------------------------------------------------
\* What the reader takes for a mip.
ReadMip(blob, level) ==
    LET size == MipStride(blob.w, level) * MipRows(blob.h, level)
        from == blob.offsets[level + 1]
    IN  IF from + size > Len(blob.bytes) THEN <<>> ELSE SubSeq(blob.bytes, from + 1, from + size)

\* expand_level0_rgba, which refuses a mip that is too short.
ExpandLevel0(blob) ==
    LET source == ReadMip(blob, 0)
        stride == MipStride(blob.w, 0)
    IN  IF Len(source) < stride * MipRows(blob.h, 0) THEN <<>>
        ELSE [i \in 1 .. blob.w * blob.h |->
                source[PlaceOf((i - 1) % blob.w, (i - 1) \div blob.w, stride)]]

\* verify_cooked_textures, of a package: no batch has the whole checkerboard.
IsPlaceholder(blob) ==
    /\ blob.w = BW /\ blob.h = BW /\ ~blob.masked /\ blob.levels = STORED
    /\ \A level \in 0 .. STORED - 1 :
         ReadMip(blob, level) =
           Swizzled(Picture(Placeholder, level), Shifted(BW, level), Shifted(BW, level))

Verify ==
    /\ cooked = "cooked" /\ verified = "not_yet"
    /\ verified' = IF \E i \in DOMAIN textures : textures[i].drawn /\ IsPlaceholder(section[i])
                   THEN "refused" ELSE "accepted"
    /\ UNCHANGED <<allowed, textures, section, cooked>>

Init ==
    /\ allowed \in BOOLEAN
    /\ \E t, u \in PICTURES : textures = <<t, u>>
    /\ section = <<>> /\ cooked = "not_yet" /\ verified = "not_yet"

Next == CookTextures \/ Verify

Spec == Init /\ [][Next]_vars

-----------------------------------------------------------------------------
TypeOK ==
    /\ cooked \in {"not_yet", "cooked", "refused"}
    /\ verified \in {"not_yet", "accepted", "refused"}

\* What is read is what was cooked: every mip within its blob, whole, and none
\* on another; and a texture whose sides are powers of two shows each of its
\* texels where it was. ("pow2 conversion must never discard native texel
\* detail", up to the limit.)
TexelsKept ==
    \A i \in DOMAIN section :
        LET t == Cooking(textures[i])
            blob == section[i]
            texels == ExpandLevel0(blob)
        IN  /\ blob.levels \in 1 .. MAX_MIPS 
            /\ \A level \in 0 .. blob.levels - 1 :
                 ReadMip(blob, level) =
                   Swizzled(Mips(t)[level + 1], Shifted(blob.w, level), Shifted(blob.h, level))
            /\ t.w <= LIMIT => blob.w >= t.w
            /\ blob.w = t.w /\ blob.h = t.h => texels = Picture(t, 0)
            /\ Len(texels) = blob.w * blob.h /\ \A p \in DOMAIN texels : texels[p] # Pad

\* No map that draws a texture that was not found is cooked, or if that is
\* allowed, verified; and no other is refused.
MissingIsRefused ==
    LET missing == \E i \in DOMAIN textures : ~textures[i].found /\ textures[i].drawn
    IN  /\ cooked = "refused" => missing /\ ~allowed
        /\ cooked = "cooked" /\ missing => allowed
        /\ verified # "not_yet" => (verified = "refused" <=> missing)
=============================================================================
