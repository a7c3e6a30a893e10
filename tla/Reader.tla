------------------------------- MODULE Reader -------------------------------
(***************************************************************************)
(* How a map comes from its file into the memory the renderers draw from.  *)
(* The PSP and the Vita read pieces into a buffer until the file ends      *)
(* (read_into of openstrike-psp/src/maps/read.rs, read_file of             *)
(* openstrike-vita/src/map_data.rs); the 3DS and the E7 measure the file   *)
(* and read it at once, behind an aligned start (load of their maps.rs).   *)
(*                                                                         *)
(* Abstracted: a byte is the load and the place in the file it comes from. *)
(*                                                                         *)
(* At the end, what is proved of it: MapsCorrect.                          *)
(***************************************************************************)
EXTENDS Integers, Iteration

CONSTANTS
    BYTES,      \* bound on the sizes of files and buffers
    LOADS,      \* bound on the loads
    WORD,       \* bytes in a word of the measured buffer (8)
    WORDS       \* words of the alignment sections need (2)

VARIABLES
    host,       \* whose reader it is
    load,       \* loads so far
    size,       \* bytes in the file that is open
    pos,        \* how far it has been read
    capacity,   \* bytes in the buffer
    memory,     \* what the buffer holds, and what lies behind it
    base,       \* where the allocator put the buffer, in an alignment
    start,      \* where the map starts in it
    filled,     \* bytes of the map in it
    stage,      \* "idle", "reading", "probing", "ok" or "error"
    failed      \* history: the system failed a call of this load

vars == <<host, load, size, pos, capacity, memory, base, start, filled, stage, failed>>

ALIGN == WORD * WORDS
Junk == <<0, 0>>
Address == 0 .. BYTES + ALIGN + ALIGN
RoundedUp(bytes) == ((bytes + ALIGN - 1) \div ALIGN) * ALIGN
Measures == host \in {"3ds", "symbian"}
Room == capacity - filled

-----------------------------------------------------------------------------
\* `count` bytes of the file come to the place they are read to.
Arrive(count) ==
    memory' = [a \in Address |->
                 IF start + filled <= a /\ a < start + filled + count
                 THEN <<load, pos + (a - (start + filled))>>
                 ELSE memory[a]]

\* A load ends, one way or the other.
Ends(outcome, why) ==
    /\ stage' = outcome /\ failed' = why
    /\ UNCHANGED <<host, load, size, capacity, base, start>>

Init ==
    /\ host \in {"psp", "vita", "3ds", "symbian"} /\ load = 0 /\ size = 0 /\ pos = 0
    /\ capacity \in (IF host = "psp" THEN 0 .. BYTES ELSE {0})
    /\ memory = [a \in Address |-> Junk] /\ base = 0 /\ start = 0 /\ filled = 0
    /\ stage = "idle" /\ failed = FALSE

\* The Vita's buffer has room for the largest map of the catalogue, in words of
\* 16 bytes, and keeps what it has; the PSP's never grows. Words beyond the new
\* end of a measured buffer are gone.
Allocated(largest) ==
    CASE host = "psp" -> capacity
      [] host = "vita" -> IF capacity < RoundedUp(largest) THEN RoundedUp(largest) ELSE capacity
      [] OTHER -> ((size' + ALIGN + WORD - 1) \div WORD) * WORD

\* The start of a measured buffer is the first aligned address in it: its base
\* lies anywhere a word may.
AlignedStart == RoundedUp(base') - base'

Open ==
    /\ stage \notin {"reading", "probing"} /\ load < LOADS
    /\ load' = load + 1 /\ size' \in 0 .. BYTES /\ pos' = 0 /\ filled' = 0
    /\ \E largest \in 0 .. BYTES : capacity' = Allocated(largest)
    /\ memory' = [a \in Address |-> IF a < capacity' THEN memory[a] ELSE Junk]
    /\ \E i \in 0 .. WORDS - 1 : base' = (IF Measures THEN i * WORD ELSE 0)
    /\ start' = AlignedStart
    /\ stage' = (IF Measures /\ size' = 0 THEN "error" ELSE "reading")
    /\ failed' = FALSE /\ UNCHANGED host

-----------------------------------------------------------------------------
(* Piece by piece.                                                          *)

\* The system delivers no more than there is room for, and at least one byte
\* before the end of the file.
Read(count) ==
    /\ stage = "reading" /\ ~Measures
    /\ count \in 1 .. Room /\ pos + count <= size
    /\ Arrive(count) /\ pos' = pos + count /\ filled' = filled + count
    /\ UNCHANGED <<host, load, size, capacity, base, start, stage, failed>>

MustProbe == TRUE

Full ==
    /\ stage = "reading" /\ ~Measures /\ Room = 0
    /\ UNCHANGED <<host, load, size, pos, capacity, memory, base, start, filled, failed>>
    /\ stage' = IF MustProbe THEN "probing" ELSE "ok"

ReachesEnd ==
    /\ stage = "reading" /\ ~Measures /\ Room > 0 /\ pos = size
    /\ Ends("ok", FALSE) /\ UNCHANGED <<pos, memory, filled>>

\* A byte behind a full buffer goes into storage of its own.
Probe ==
    /\ stage = "probing"
    /\ IF pos = size THEN Ends("ok", FALSE) /\ UNCHANGED pos
                     ELSE Ends("error", FALSE) /\ pos' = pos + 1
    /\ UNCHANGED <<memory, filled>>

(* At once.                                                                 *)

ReadAll ==
    /\ stage = "reading" /\ Measures
    /\ IF start + size <= capacity
       THEN /\ Arrive(size) /\ pos' = size /\ filled' = size /\ Ends("ok", FALSE)
       ELSE Ends("error", FALSE) /\ UNCHANGED <<pos, memory, filled>>

\* A call fails, or a piece is shorter or longer than it may be; some bytes may
\* have come.
Fails ==
    /\ stage \in {"reading", "probing"}
    /\ \E count \in 0 .. size - pos :
         /\ \/ count = 0
            \/ stage = "reading" /\ start + filled + count <= capacity
         /\ Arrive(count)
    /\ Ends("error", TRUE) /\ UNCHANGED <<pos, filled>>

Next ==
    \/ Open \/ (\E count \in 1 .. BYTES : Read(count)) \/ Full \/ ReachesEnd \/ Probe
    \/ ReadAll \/ Fails

Spec == Init /\ [][Next]_vars

-----------------------------------------------------------------------------
TypeOK ==
    /\ stage \in {"idle", "reading", "probing", "ok", "error"}
    /\ size \in 0 .. BYTES /\ pos \in 0 .. size /\ filled \in 0 .. size

\* A load that succeeds leaves the file in the buffer, byte for byte and no
\* byte more, none of them from a map before.
ReadWhole ==
    stage = "ok" =>
        /\ filled = size
        /\ \A i \in 0 .. BYTES : i < size => memory[start + i] = <<load, i>>

\* A file is refused only if the system failed, if it does not fit, or, where
\* it is measured, if it is empty.
RefusedForReason ==
    stage = "error" => failed \/ (IF Measures THEN size = 0 ELSE size > capacity)

\* Nothing is written behind the buffer, and a measured map starts aligned.
NoOverrun ==
    /\ \A a \in Address : a >= capacity => memory[a] = Junk
    /\ \E i \in 0 .. WORDS : base + start = i * ALIGN

ReadsExactly == ReadWhole /\ RefusedForReason /\ NoOverrun
-----------------------------------------------------------------------------
(* Proofs, for any sizes of files, buffers and words.                       *)

ReaderAssumption ==
    BYTES \in Nat /\ LOADS \in Nat /\ WORD \in Nat \ {0} /\ WORDS \in Nat \ {0}

Hosts == {"psp", "vita", "3ds", "symbian"}

\* What is held of the file is its first bytes, unless the load has failed; a
\* probe is only made of a full buffer; a measured one has room behind its start.
ReaderInv ==
    /\ host \in Hosts /\ stage \in {"idle", "reading", "probing", "ok", "error"}
    /\ load \in Nat /\ size \in 0 .. BYTES /\ pos \in 0 .. size /\ filled \in 0 .. size
    /\ capacity \in Nat /\ base \in Nat /\ start \in 0 .. ALIGN
    /\ start + filled <= capacity
    /\ ~Measures => start = 0
    /\ Measures /\ stage = "reading" => filled = 0 /\ start + size <= capacity
    /\ stage \in {"reading", "probing", "ok"} =>
         /\ pos = filled
         /\ \A i \in 0 .. BYTES : i < filled => memory[start + i] = <<load, i>>
    /\ stage = "probing" => ~Measures /\ filled = capacity
    /\ stage = "ok" => filled = size
    /\ RefusedForReason /\ NoOverrun

LEMMA AlignNatural == ASSUME ReaderAssumption PROVE ALIGN \in Nat \ {0} /\ WORD <= ALIGN
<1>1. PICK a : a = WORD * WORDS
  OBVIOUS
<1>2. WORD \in Nat \ {0} /\ WORDS \in Nat \ {0}
  BY DEF ReaderAssumption
<1>3. a \in Nat /\ WORD <= a
  <2>1. PICK w \in Nat : WORDS = w + 1
    <3>1. WORDS - 1 \in Nat /\ WORDS = (WORDS - 1) + 1
      BY <1>2
    <3> QED BY <3>1
  <2>2. WORD * (w + 1) = WORD * w + WORD /\ WORD * w \in Nat
    BY <1>2, <2>1
  <2> QED BY <1>1, <1>2, <2>1, <2>2
<1> QED BY <1>1, <1>2, <1>3 DEF ALIGN

\* Rounding up goes to the next multiple, and no further.
LEMMA RoundingUp ==
    ASSUME ReaderAssumption, NEW b \in Nat
    PROVE  /\ RoundedUp(b) \in Nat /\ b <= RoundedUp(b) /\ RoundedUp(b) < b + ALIGN
           /\ \E q \in Nat : RoundedUp(b) = q * ALIGN
<1>1. PICK n : n = ALIGN
  OBVIOUS
<1>2. n \in Nat \ {0}
  BY <1>1, AlignNatural
<1>3. PICK a : a = b + n - 1
  OBVIOUS
<1>4. a \in Nat
  BY <1>2, <1>3
<1>5. PICK q : q = a \div n
  OBVIOUS
<1>6. PICK r : r = a % n
  OBVIOUS
<1>7. q \in Nat /\ r \in 0 .. n - 1 /\ a = q * n + r
  BY <1>2, <1>4, <1>5, <1>6, DivisionWithRest
<1>8. PICK p : p = q * n
  OBVIOUS
<1>9. p \in Nat /\ b <= p /\ p < b + n
  BY <1>2, <1>3, <1>7, <1>8
<1>10. RoundedUp(b) = p
  BY <1>1, <1>3, <1>5, <1>8 DEF RoundedUp
<1> QED BY <1>1, <1>7, <1>8, <1>9, <1>10

\* The first aligned address of a buffer is less than an alignment away, and it
\* is one.
LEMMA StartAligned ==
    ASSUME ReaderAssumption, NEW i \in 0 .. WORDS - 1, NEW b, b = i * WORD \/ b = 0
    PROVE  /\ b \in Nat /\ RoundedUp(b) - b \in 0 .. ALIGN
           /\ \E j \in 0 .. WORDS : b + (RoundedUp(b) - b) = j * ALIGN
           /\ b = 0 => RoundedUp(b) - b = 0
<1>1. WORD \in Nat \ {0} /\ WORDS \in Nat \ {0} /\ ALIGN \in Nat \ {0} /\ i \in Nat
      /\ ALIGN = WORD * WORDS
  BY AlignNatural DEF ReaderAssumption, ALIGN
<1>2. b \in Nat /\ b < ALIGN
  <2>1. i * WORD + WORD <= WORDS * WORD
    BY <1>1, ProductMonotone
  <2>2. PICK m : m = i * WORD
    OBVIOUS
  <2>3. m \in Nat
    BY <1>1, <2>2
  <2>4. WORDS * WORD = ALIGN
    BY <1>1
  <2> QED BY <1>1, <2>1, <2>2, <2>3, <2>4
<1>3. PICK r : r = RoundedUp(b)
  OBVIOUS
<1>4. r \in Nat /\ b <= r /\ r < b + ALIGN /\ \E q \in Nat : r = q * ALIGN
  BY <1>2, <1>3, RoundingUp
<1>5. PICK q \in Nat : r = q * ALIGN
  BY <1>4
<1>6. q < 2
  <2>1. 1 < q => 1 * ALIGN + ALIGN <= q * ALIGN
    BY <1>1, <1>5, ProductMonotone
  <2> QED BY <1>1, <1>2, <1>4, <1>5, <2>1
<1>7. q \in 0 .. WORDS /\ b + (r - b) = q * ALIGN
  BY <1>1, <1>2, <1>4, <1>5, <1>6
<1>8. b = 0 => r = 0
  <2>1. q = 1 => r = ALIGN
    BY <1>1, <1>5
  <2>2. q = 0 => r = 0
    BY <1>1, <1>5
  <2> QED BY <1>4, <1>1, <1>6, <2>1, <2>2
<1>9. r - b \in 0 .. ALIGN
  BY <1>1, <1>2, <1>4
<1> QED BY <1>2, <1>3, <1>7, <1>8, <1>9

\* A measured buffer holds the file wherever in an alignment it starts.
LEMMA MeasuredFits ==
    ASSUME ReaderAssumption, NEW n \in Nat
    PROVE  ((n + ALIGN + WORD - 1) \div WORD) * WORD \in Nat
           /\ n + ALIGN <= ((n + ALIGN + WORD - 1) \div WORD) * WORD
<1>1. WORD \in Nat \ {0} /\ ALIGN \in Nat
  BY AlignNatural DEF ReaderAssumption
<1>2. PICK a : a = n + ALIGN + WORD - 1
  OBVIOUS
<1>3. a \in Nat
  BY <1>1, <1>2
<1>4. PICK q : q = a \div WORD
  OBVIOUS
<1>5. PICK r : r = a % WORD
  OBVIOUS
<1>6. q \in Nat /\ r \in 0 .. WORD - 1 /\ a = q * WORD + r
  BY <1>1, <1>3, <1>4, <1>5, DivisionWithRest
<1>7. PICK p : p = q * WORD
  OBVIOUS
<1>8. p \in Nat /\ n + ALIGN <= p
  BY <1>1, <1>2, <1>6, <1>7
<1> QED BY <1>2, <1>4, <1>7, <1>8

LEMMA ReaderInit == ASSUME ReaderAssumption PROVE Init => ReaderInv
<1> SUFFICES ASSUME Init PROVE ReaderInv
  OBVIOUS
<1>1. BYTES \in Nat /\ ALIGN \in Nat \ {0} /\ WORDS \in Nat \ {0}
  BY AlignNatural DEF ReaderAssumption
<1>2. host \in Hosts /\ capacity \in Nat /\ base = 0 /\ start = 0 /\ filled = 0 /\ load = 0
      /\ size = 0 /\ pos = 0 /\ stage = "idle" /\ \A a \in Address : memory[a] = Junk
  BY <1>1 DEF Init, Hosts
<1>3. NoOverrun
  BY <1>1, <1>2 DEF NoOverrun
<1>4. RefusedForReason
  BY <1>2 DEF RefusedForReason
<1> QED BY <1>1, <1>2, <1>3, <1>4 DEF ReaderInv

LEMMA OpenKeeps == ASSUME ReaderAssumption, ReaderInv, Open PROVE ReaderInv'
<1>1. /\ BYTES \in Nat /\ ALIGN \in Nat \ {0} /\ WORDS \in Nat \ {0}
      /\ host \in Hosts /\ host' = host /\ capacity \in Nat /\ load \in Nat
  BY AlignNatural DEF ReaderAssumption, ReaderInv, Open
<1>2. /\ load' = load + 1 /\ size' \in 0 .. BYTES /\ pos' = 0 /\ filled' = 0 /\ failed' = FALSE
      /\ stage' = (IF Measures /\ size' = 0 THEN "error" ELSE "reading")
  BY DEF Open
<1>3. PICK w \in 0 .. WORDS - 1 : base' = IF Measures THEN w * WORD ELSE 0
  BY DEF Open
<1>4. start' = RoundedUp(base') - base'
  BY DEF Open, AlignedStart
<1>5. /\ base' \in Nat /\ start' \in 0 .. ALIGN /\ (~Measures => start' = 0)
      /\ \E j \in 0 .. WORDS : base' + start' = j * ALIGN
  BY <1>3, <1>4, StartAligned
<1>6. capacity' \in Nat /\ (Measures => size' + ALIGN <= capacity')
  <2>1. PICK largest \in 0 .. BYTES : capacity' = Allocated(largest)
    BY DEF Open
  <2>2. largest \in Nat /\ RoundedUp(largest) \in Nat /\ size' \in Nat
    BY <1>1, <1>2, RoundingUp
  <2>3. CASE host = "psp"
    BY <1>1, <2>1, <2>3 DEF Allocated, Measures
  <2>4. CASE host = "vita"
    BY <1>1, <2>1, <2>2, <2>4 DEF Allocated, Measures
  <2>5. CASE Measures
    <3>1. capacity' = ((size' + ALIGN + WORD - 1) \div WORD) * WORD
      BY <2>1, <2>5 DEF Allocated, Measures
    <3> QED BY <2>2, <3>1, MeasuredFits
  <2> QED BY <1>1, <2>3, <2>4, <2>5 DEF Hosts, Measures
<1>7. start' + filled' <= capacity' /\ (Measures => start' + size' <= capacity')
  <2>1. PICK p : p = start'
    OBVIOUS
  <2>2. PICK n : n = size'
    OBVIOUS
  <2>3. PICK c : c = capacity'
    OBVIOUS
  <2>4. PICK a : a = ALIGN
    OBVIOUS
  <2>5. size' \in 0 .. BYTES /\ BYTES \in Nat /\ a \in Nat
    BY <1>1, <1>2, <2>4
  <2>6. p \in 0 .. a
    BY <1>5, <2>1, <2>4
  <2>7. c \in Nat /\ (Measures => n + a <= c)
    BY <1>6, <2>2, <2>3, <2>4
  <2>8. p \in Nat /\ p <= a /\ n \in Nat /\ c \in Nat
    BY <2>2, <2>5, <2>6, <2>7
  <2>9. filled' = 0 /\ p + 0 = p
    BY <1>2, <2>8
  <2>10. ASSUME Measures PROVE p + n <= c /\ p <= c
    BY <2>8, <2>10, <2>5, <2>7
  <2>11. ASSUME ~Measures PROVE p <= c
    BY <1>5, <2>1, <2>8, <2>11
  <2> QED BY <2>1, <2>2, <2>3, <2>9, <2>10, <2>11
<1>8. RefusedForReason'
  BY <1>1, <1>2 DEF RefusedForReason, Measures
<1>9. NoOverrun'
  <2>1. \A a \in Address : memory'[a] = (IF a < capacity' THEN memory[a] ELSE Junk)
    BY DEF Open
  <2>2. \A a \in Address : a \in Nat /\ (a >= capacity' => ~ (a < capacity'))
    BY <1>1, <1>6 DEF Address
  <2> QED BY <1>5, <2>1, <2>2 DEF NoOverrun
<1>10. Measures' = Measures
  BY <1>1 DEF Measures
<1>11. stage' \in {"reading", "error"}
       /\ load' \in Nat /\ pos' \in 0 .. size' /\ filled' \in 0 .. size'
       /\ \A i \in 0 .. BYTES : ~ (i < filled')
  BY <1>1, <1>2
<1> QED BY <1>1, <1>2, <1>5, <1>6, <1>7, <1>8, <1>9, <1>10, <1>11 DEF ReaderInv

\* Bytes that arrive follow on those that are there, and go nowhere else.
LEMMA Arrived ==
    ASSUME ReaderAssumption, ReaderInv, NEW count \in Nat, Arrive(count),
           start + filled + count <= capacity, capacity' = capacity, base' = base, start' = start
    PROVE  /\ NoOverrun'
           /\ pos = filled /\ filled + count <= BYTES =>
                /\ \A i \in 0 .. BYTES : i < filled => memory'[start + i] = memory[start + i]
                /\ \A i \in 0 .. BYTES :
                     filled <= i /\ i < filled + count => memory'[start + i] = <<load, i>>
<1>1. /\ BYTES \in Nat /\ ALIGN \in Nat /\ start \in 0 .. ALIGN /\ filled \in Nat /\ capacity \in Nat
      /\ pos \in Nat
  BY AlignNatural DEF ReaderAssumption, ReaderInv
<1>2. \A a \in Address : memory'[a] = IF start + filled <= a /\ a < start + filled + count
                                      THEN <<load, pos + (a - (start + filled))>>
                                      ELSE memory[a]
  BY DEF Arrive
<1>3. \A a \in Address : a \in Nat /\ (a >= capacity => ~ (a < start + filled + count))
  BY <1>1 DEF Address
<1>4. \A a \in Address : a >= capacity' => memory'[a] = Junk
  BY <1>2, <1>3 DEF ReaderInv, NoOverrun
<1>5. NoOverrun'
  BY <1>4 DEF NoOverrun, ReaderInv
<1>6. \A i \in 0 .. BYTES : start + i \in Address
  BY <1>1 DEF Address
<1>7. ASSUME NEW i \in 0 .. BYTES, i < filled PROVE memory'[start + i] = memory[start + i]
  <2>1. ~ (start + filled <= start + i)
    BY <1>1, <1>7
  <2> QED BY <1>2, <1>6, <2>1
<1>8. ASSUME pos = filled, NEW i \in 0 .. BYTES, filled <= i, i < filled + count
      PROVE  memory'[start + i] = <<load, i>>
  <2>1. start + filled <= start + i /\ start + i < start + filled + count
        /\ pos + ((start + i) - (start + filled)) = i
    BY <1>1, <1>8
  <2>2. memory'[start + i] = <<load, pos + ((start + i) - (start + filled))>>
    BY <1>2, <1>6, <2>1
  <2> QED BY <2>1, <2>2
<1> QED BY <1>5, <1>7, <1>8

LEMMA ReadKeeps ==
    ASSUME ReaderAssumption, ReaderInv, NEW count \in 1 .. BYTES, Read(count)
    PROVE  ReaderInv'
<1>1. /\ BYTES \in Nat /\ start \in Nat /\ filled \in 0 .. size /\ size \in 0 .. BYTES
      /\ capacity \in Nat /\ count \in Nat /\ pos = filled /\ start = 0
  BY AlignNatural DEF ReaderAssumption, ReaderInv, Read
<1>2. start + filled + count <= capacity /\ filled + count <= size /\ filled + count <= BYTES
  BY <1>1 DEF Read, Room
<1>3. Arrive(count) /\ UNCHANGED <<host, load, size, capacity, base, start, stage, failed>>
      /\ stage = "reading" /\ ~Measures /\ pos' = pos + count /\ filled' = filled + count
  BY DEF Read
<1>4. NoOverrun' /\ \A i \in 0 .. BYTES : i < filled' => memory'[start + i] = <<load, i>>
  BY <1>1, <1>2, <1>3, Arrived DEF ReaderInv
<1>5. RefusedForReason'
  BY <1>3 DEF RefusedForReason
<1>6. Measures' = Measures
  BY <1>3 DEF Measures
<1>7. pos' \in 0 .. size /\ filled' \in 0 .. size /\ pos' = filled' /\ start + filled' <= capacity
  BY <1>1, <1>2, <1>3
<1> QED BY <1>3, <1>4, <1>5, <1>6, <1>7 DEF ReaderInv

LEMMA ReadAllKeeps == ASSUME ReaderAssumption, ReaderInv, ReadAll PROVE ReaderInv'
<1>1. /\ BYTES \in Nat /\ start \in Nat /\ filled = 0 /\ pos = filled /\ size \in 0 .. BYTES
      /\ size \in Nat /\ capacity \in Nat /\ start + size <= capacity
      /\ stage = "reading" /\ Measures
  BY AlignNatural DEF ReaderAssumption, ReaderInv, ReadAll
<1>2. Arrive(size) /\ UNCHANGED <<host, load, size, capacity, base, start>>
      /\ pos' = size /\ filled' = size /\ stage' = "ok" /\ failed' = FALSE
  BY <1>1 DEF ReadAll, Ends
<1>3. NoOverrun' /\ \A i \in 0 .. BYTES : i < filled' => memory'[start + i] = <<load, i>>
  BY <1>1, <1>2, Arrived
<1>4. RefusedForReason'
  BY <1>2 DEF RefusedForReason
<1>5. Measures' = Measures
  BY <1>2 DEF Measures
<1> QED BY <1>1, <1>2, <1>3, <1>4, <1>5 DEF ReaderInv

LEMMA FailsKeeps == ASSUME ReaderAssumption, ReaderInv, Fails PROVE ReaderInv'
<1>1. UNCHANGED <<host, load, size, capacity, base, start, pos, filled>>
      /\ stage' = "error" /\ failed' = TRUE
  BY DEF Fails, Ends
<1>2. PICK count \in 0 .. size - pos :
        /\ count = 0 \/ (stage = "reading" /\ start + filled + count <= capacity)
        /\ Arrive(count)
  BY DEF Fails
<1>3. count \in Nat /\ start + filled + count <= capacity
  <2>1. start \in Nat /\ filled \in Nat /\ capacity \in Nat /\ start + filled <= capacity
        /\ size \in Nat /\ pos \in Nat
    BY AlignNatural DEF ReaderAssumption, ReaderInv
  <2> QED BY <1>2, <2>1
<1>4. NoOverrun'
  BY <1>1, <1>2, <1>3, Arrived
<1>5. RefusedForReason'
  BY <1>1 DEF RefusedForReason
<1>6. Measures' = Measures
  BY <1>1 DEF Measures
<1> QED BY <1>1, <1>4, <1>5, <1>6 DEF ReaderInv

\* A step that reads nothing into the buffer.
LEMMA BufferStays ==
    ASSUME ReaderInv, UNCHANGED <<host, load, size, capacity, base, start, memory, filled>>
    PROVE  NoOverrun' /\ Measures' = Measures
BY DEF ReaderInv, NoOverrun, Measures

LEMMA EndKeeps == ASSUME ReaderAssumption, ReaderInv, Full \/ ReachesEnd \/ Probe PROVE ReaderInv'
<1>1. /\ BYTES \in Nat /\ size \in 0 .. BYTES /\ pos \in 0 .. size /\ filled \in 0 .. size
      /\ capacity \in Nat /\ pos = filled /\ ~Measures /\ start = 0 /\ start + filled <= capacity
  BY DEF ReaderAssumption, ReaderInv, Full, ReachesEnd, Probe
<1>2. UNCHANGED <<host, load, size, capacity, base, start, memory, filled>>
  BY DEF Full, ReachesEnd, Probe, Ends
<1>3. NoOverrun' /\ Measures' = Measures
  BY <1>2, BufferStays
<1>4. CASE Full
  <2>1. stage' = "probing" /\ pos' = pos /\ failed' = failed /\ filled = capacity
    BY <1>1, <1>4 DEF Full, MustProbe, Room
  <2>2. RefusedForReason'
    BY <2>1 DEF RefusedForReason
  <2> QED BY <1>1, <1>2, <1>3, <1>4, <2>1, <2>2 DEF ReaderInv, Full
<1>5. CASE ReachesEnd
  <2>1. stage' = "ok" /\ pos' = pos /\ filled = size
    BY <1>1, <1>5 DEF ReachesEnd, Ends
  <2>2. RefusedForReason'
    BY <2>1 DEF RefusedForReason
  <2> QED BY <1>1, <1>2, <1>3, <1>5, <2>1, <2>2 DEF ReaderInv, ReachesEnd
<1>6. CASE Probe
  <2>1. stage = "probing" /\ filled = capacity
    BY <1>6 DEF Probe, ReaderInv
  <2>2. CASE pos = size
    <3>1. stage' = "ok" /\ pos' = pos /\ filled = size
      BY <1>1, <1>6, <2>2 DEF Probe, Ends
    <3>2. RefusedForReason'
      BY <3>1 DEF RefusedForReason
    <3> QED BY <1>1, <1>2, <1>3, <2>1, <3>1, <3>2 DEF ReaderInv
  <2>3. CASE pos # size
    <3>1. stage' = "error" /\ pos' = pos + 1 /\ pos' \in 0 .. size /\ size > capacity
      BY <1>1, <1>6, <2>1, <2>3 DEF Probe, Ends
    <3>2. RefusedForReason'
      BY <1>1, <1>2, <1>3, <3>1 DEF RefusedForReason
    <3> QED BY <1>1, <1>2, <1>3, <2>1, <3>1, <3>2 DEF ReaderInv
  <2> QED BY <2>2, <2>3
<1> QED BY <1>4, <1>5, <1>6

LEMMA ReaderStep == ASSUME ReaderAssumption PROVE ReaderInv /\ [Next]_vars => ReaderInv'
<1> SUFFICES ASSUME ReaderInv, [Next]_vars PROVE ReaderInv'
  OBVIOUS
<1>1. CASE UNCHANGED vars
  BY <1>1 DEF vars, ReaderInv, RefusedForReason, NoOverrun, Measures
<1>2. CASE Open
  BY <1>2, OpenKeeps
<1>3. CASE \E count \in 1 .. BYTES : Read(count)
  BY <1>3, ReadKeeps
<1>4. CASE Full \/ ReachesEnd \/ Probe
  BY <1>4, EndKeeps
<1>5. CASE ReadAll
  BY <1>5, ReadAllKeeps
<1>6. CASE Fails
  BY <1>6, FailsKeeps
<1> QED BY <1>1, <1>2, <1>3, <1>4, <1>5, <1>6 DEF Next

\* Whatever pieces a file arrives in, whatever its size and that of the buffer,
\* and whatever was there of maps before: a load that succeeds leaves the file,
\* byte for byte; one that fails has a reason; and nothing is written behind
\* the buffer. (read_into, read_file, load)
THEOREM MapsCorrect == ASSUME ReaderAssumption PROVE Spec => []ReadsExactly
<1>1. ReaderInv => ReadsExactly
  <2> SUFFICES ASSUME ReaderInv PROVE ReadsExactly
    OBVIOUS
  <2>1. ReadWhole
    BY DEF ReaderInv, ReadWhole
  <2> QED BY <2>1 DEF ReaderInv, ReadsExactly
<1>2. Init => ReaderInv
  BY ReaderInit
<1>3. ReaderInv /\ [Next]_vars => ReaderInv'
  BY ReaderStep
<1> QED BY <1>1, <1>2, <1>3, PTL DEF Spec
=============================================================================
