------------------------------ MODULE Chunking ------------------------------
(***************************************************************************)
(* Where a recording is cut: the pauses ffmpeg reports become candidate    *)
(* cuts, the planner walks through the recording and picks the pause       *)
(* nearest the target length or cuts blindly, and the words heard in each  *)
(* chunk are shifted back to the time line of the whole recording.         *)
(*                                                                         *)
(* Source: backend/app/chunking.py, media.py (detect_silences), worker.py  *)
(* (_plan_chunks and the loop of _process over the plan).                  *)
(*                                                                         *)
(* Time is counted in ticks of EPSILON seconds, so that the comparisons    *)
(* with EPSILON are exact: a float that is off by less than EPSILON is the *)
(* same tick.  The ends of the reported pauses are even ticks, so that     *)
(* their middle is a tick.  A provider hears one word in every tick of a   *)
(* piece and tells when, counted from the start of the piece.              *)
(***************************************************************************)
EXTENDS Integers, Sequences, FiniteSets

CONSTANTS
    Durations,  \* lengths a recording may have
    Targets,    \* chunk_target_seconds
    HardMaxes,  \* chunk_max_seconds
    Reports     \* what silencedetect may print: the starts and the ends

\* A chunk_max_seconds of 0 would make the planner cut at the cursor for ever.
ASSUME HardMaxAssumption == \A h \in HardMaxes : h \in Int /\ h > 1
ASSUME DurationAssumption == \A d \in Durations : d \in Int /\ d >= 0
ASSUME TargetAssumption == \A t \in Targets : t \in Int
ASSUME ReportAssumption ==
    \A r \in Reports : /\ r.starts \in Seq(Int) /\ r.ends \in Seq(Int)
                       /\ \A i \in DOMAIN r.starts : r.starts[i] % 2 = 0
                       /\ \A i \in DOMAIN r.ends : r.ends[i] % 2 = 0

Epsilon == 1

VARIABLES
    mode,       \* stt_chunking
    duration,   \* what ffprobe says
    target,
    hardMax,
    report,     \* what silencedetect prints for this recording
    pc,         \* "start", "loop", "send" or "done"
    midpoints,  \* candidate cuts
    cursor,     \* where the next chunk starts
    chunks,     \* the plan
    sent,       \* how many chunks have been transcribed
    words       \* the words heard, with their times

input == <<mode, duration, target, hardMax, report>>
vars == <<input, pc, midpoints, cursor, chunks, sent, words>>

TypeOK ==
    /\ pc \in {"start", "loop", "send", "done"}
    /\ midpoints \in SUBSET (0 .. duration)
    /\ cursor \in 0 .. duration
    /\ chunks \in Seq([start: 0 .. duration, end: 0 .. duration])
    /\ sent \in 0 .. Len(chunks)
    /\ words \in Seq(0 .. duration - 1)

\* A recording and the settings of the server.  A pause is reported only when it
\* starts within the recording.
Init ==
    /\ mode \in {"never", "auto", "always"}
    /\ duration \in Durations /\ target \in Targets /\ hardMax \in HardMaxes
    /\ report \in Reports
    /\ \A i \in DOMAIN report.starts : report.starts[i] < duration
    /\ pc = "start"
    /\ midpoints = {} /\ cursor = 0 /\ chunks = << >> /\ sent = 0 /\ words = << >>

-----------------------------------------------------------------------------

\* Where pause i ends: a recording that ends in a pause has a start without an end.
PauseEnd(i) == IF i \in DOMAIN report.ends THEN report.ends[i] ELSE duration

\* detect_silences: the reported pauses, kept within the recording.
Silences ==
    {s \in {[start |-> IF report.starts[i] > 0 THEN report.starts[i] ELSE 0,
             end |-> IF PauseEnd(i) < duration THEN PauseEnd(i) ELSE duration] :
            i \in DOMAIN report.starts} :
        s.end > s.start}

Distance(a, b) == IF a < b THEN b - a ELSE a - b

\* Mutant: a pause at the cursor counts.
CandidatesAtCursor(upper) == {p \in midpoints : cursor <= p /\ p <= upper}
Candidates(upper) == {p \in midpoints : cursor + Epsilon < p /\ p <= upper}

\* Mutant: the cut is at the target, wherever the pauses are.
CutAtTarget(upper) == cursor + target

\* The order in which min() prefers pauses, the list being sorted.
Preferred(p, q, ideal) ==
    \/ Distance(p, ideal) < Distance(q, ideal)
    \/ Distance(p, ideal) = Distance(q, ideal) /\ p <= q

\* _best_cut
BestCut(upper) ==
    IF Candidates(upper) = {} THEN upper
    ELSE CHOOSE p \in Candidates(upper) :
            \A q \in Candidates(upper) : Preferred(p, q, cursor + target)

\* Mutants: the last chunk is not cut off at the end of the recording; the rest is
\* taken as it is unless it is more than two chunks long.
NextCutPastEnd == BestCut(cursor + hardMax)
NextCutLongRest ==
    IF cursor + 2 * hardMax >= duration - Epsilon THEN duration
    ELSE BestCut(cursor + hardMax)

NextCut ==
    IF cursor + hardMax >= duration - Epsilon THEN duration
    ELSE BestCut(cursor + hardMax)

\* _plan_chunks and the first lines of plan_chunks: cases without a cut.
Whole ==
    \/ mode = "never" \/ duration <= 0
    \/ mode = "auto" /\ duration <= hardMax
    \/ duration <= hardMax + Epsilon

TakeWhole ==
    /\ pc = "start" /\ Whole
    /\ chunks' = <<[start |-> 0, end |-> duration]>>
    /\ pc' = "send"
    /\ UNCHANGED <<input, midpoints, cursor, sent, words>>

Detect ==
    /\ pc = "start" /\ ~Whole
    /\ midpoints' = {(s.start + s.end) \div 2 : s \in Silences}
    /\ pc' = "loop"
    /\ UNCHANGED <<input, cursor, chunks, sent, words>>

\* One turn of the while loop.
Cut ==
    /\ pc = "loop" /\ cursor < duration - Epsilon
    /\ chunks' = Append(chunks, [start |-> cursor, end |-> NextCut])
    /\ cursor' = NextCut
    /\ UNCHANGED <<input, pc, midpoints, sent, words>>

Planned ==
    /\ pc = "loop" /\ cursor >= duration - Epsilon
    /\ pc' = "send"
    /\ UNCHANGED <<input, midpoints, cursor, chunks, sent, words>>

\* Mutant: the time within the piece is taken for the time in the recording.
NotShifted(t, chunk) == t
\* start=segment.start + chunk.start
Shifted(t, chunk) == t + chunk.start

\* A piece is cut out and transcribed; its words are put on the time line.
Transcribe ==
    /\ pc = "send" /\ sent < Len(chunks)
    /\ LET chunk == chunks[sent + 1]
       IN  words' = words \o [i \in 1 .. (chunk.end - chunk.start) |-> Shifted(i - 1, chunk)]
    /\ sent' = sent + 1
    /\ UNCHANGED <<input, pc, midpoints, cursor, chunks>>

AllSent ==
    /\ pc = "send" /\ sent = Len(chunks)
    /\ pc' = "done"
    /\ UNCHANGED <<input, midpoints, cursor, chunks, sent, words>>

Next == TakeWhole \/ Detect \/ Cut \/ Planned \/ Transcribe \/ AllSent

\* The plan is done and the loop over it as well.
Finished == pc = "done" /\ UNCHANGED vars

Spec == Init /\ [][Next \/ Finished]_vars

-----------------------------------------------------------------------------
(* Properties *)

\* Every word of the recording is in the transcript once, in order and at its time
\* (test_chunks_always_tile_the_recording: "five seconds in the middle are simply
\* gone" is the failure nobody sees).
EveryWordOnce ==
    /\ \A i \in DOMAIN words : words[i] = i - 1
    /\ pc = "done" => Len(words) = duration

\* No chunk that was planned is empty or longer than the provider's limit, whatever
\* the pauses are; "never" means no limit.
ChunkLengths ==
    mode # "never" /\ duration > 0 =>
        \A i \in DOMAIN chunks :
            /\ chunks[i].end > chunks[i].start
            /\ chunks[i].end - chunks[i].start <= hardMax + Epsilon

\* A cut between two chunks is inside a pause, unless the longest chunk that could
\* start there holds no complete pause (the docstring of plan_chunks).
CutsLandInPauses ==
    \A i \in DOMAIN chunks :
        LET start == chunks[i].start
            end == chunks[i].end
        IN  end < duration =>
              \/ \E s \in Silences : s.start < end /\ end < s.end
              \/ \A s \in Silences :
                    \/ s.start < start \/ s.end > start + hardMax
                    \/ s.end - s.start <= 2 * Epsilon

\* The planner comes to an end, and a burst of pauses costs at most one request each
\* above what blind cuts would cost.
NotTooManyChunks ==
    mode # "never" /\ duration > 0 =>
        Len(chunks) <= Cardinality(midpoints) + ((duration + hardMax - 1) \div hardMax)

=============================================================================
