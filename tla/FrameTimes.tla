----------------------------- MODULE FrameTimes -----------------------------
(***************************************************************************)
(* The intervals between frames the hosts keep for a report: struct        *)
(* FrameTimes of crates/openstrike-core/src/frame_times.rs. A host pauses  *)
(* it while it draws no round, and so whenever a map is loaded.            *)
(*                                                                         *)
(* Abstracted: an interval is 1, 2 or a Load; 32-bit saturation.           *)
(***************************************************************************)
EXTENDS Integers, Sequences

CONSTANTS
    SAMPLES,    \* intervals that are kept (360)
    FRAMES      \* bound on the frames

VARIABLES
    samples, next, count, running,  \* the fields; running: previous is not 0
    loaded,     \* a map was loaded since the last frame
    drawn,      \* history: the intervals between frames of one round
    frames

vars == <<samples, next, count, running, loaded, drawn, frames>>

Load == 9

Init ==
    /\ samples = [i \in 0 .. SAMPLES - 1 |-> 0] /\ next = 0 /\ count = 0
    /\ running = FALSE /\ loaded = FALSE /\ drawn = <<>> /\ frames = 0

\* What pause leaves of the time of the last frame.
PauseForgets == FALSE

\* A turn without a round, in which a map may be loaded.
Pause ==
    /\ running' = PauseForgets /\ loaded' \in {loaded, TRUE}
    /\ UNCHANGED <<samples, next, count, drawn, frames>>

\* A frame, `interval` after the one before.
Record(interval) ==
    LET measured == IF loaded THEN Load ELSE interval
    IN  /\ frames < FRAMES /\ frames' = frames + 1
        /\ running' = TRUE /\ loaded' = FALSE
        /\ IF running
           THEN /\ samples' = [samples EXCEPT ![next] = measured]
                /\ next' = (next + 1) % SAMPLES
                /\ count' = (IF count < SAMPLES THEN count + 1 ELSE SAMPLES)
                /\ drawn' = Append(drawn, measured)
           ELSE UNCHANGED <<samples, next, count, drawn>>

Next == Pause \/ \E interval \in {1, 2} : Record(interval)

Spec == Init /\ [][Next]_vars

-----------------------------------------------------------------------------
\* summary: of the first `count` samples, which it sorts, the values at these
\* places are those behind which 95 and 99 of a hundred lie.
Place(p) == ((count - 1) * p) \div 100

\* The sample that was written i frames before the next one.
Back(i) == IF i <= next THEN next - i ELSE next - i + SAMPLES

TypeOK == next \in 0 .. SAMPLES - 1 /\ count \in 0 .. SAMPLES

\* "Bounded frame intervals": the report is of the last intervals, each once,
\* and of none in which a map was loaded, and its values are among them.
WindowIsLast ==
    /\ count = (IF Len(drawn) < SAMPLES THEN Len(drawn) ELSE SAMPLES)
    /\ \A i \in 1 .. count :
          /\ Back(i) < count /\ \A j \in 1 .. count : Back(i) = Back(j) => i = j
          /\ samples[Back(i)] = drawn[Len(drawn) + 1 - i]
          /\ samples[Back(i)] # Load
    /\ count > 0 => 0 <= Place(95) /\ Place(95) <= Place(99) /\ Place(99) < count
=============================================================================
