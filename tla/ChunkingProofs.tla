--------------------------- MODULE ChunkingProofs ---------------------------
(***************************************************************************)
(* The plan of Chunking is right for every recording, every setting and    *)
(* every report of pauses: the chunks tile the recording, so that each     *)
(* word is heard once and gets its time back; none is empty or too long;   *)
(* and the cuts are in pauses where there are any.                         *)
(*                                                                         *)
(* The invariant is Plan: while the planner runs, the cursor is the end of *)
(* the last chunk and either the end of the recording or more than EPSILON *)
(* before it; afterwards, the words heard are those before the end of the  *)
(* last chunk that was sent.  For the number of chunks, Counted charges    *)
(* each cut to the pause it is in, or to a full hardMax of the recording.  *)
(***************************************************************************)
EXTENDS Chunking, Induction, TLAPS, FiniteSetTheorems, SequenceTheorems

-----------------------------------------------------------------------------
(* The nearest pause exists *)

\* _best_cut returns a candidate or, when there is none, the limit.
LEMMA BestCutIsInReach ==
    ASSUME midpoints \in SUBSET Int, cursor \in Int, target \in Int, NEW upper \in Int
    PROVE  \/ Candidates(upper) = {} /\ BestCut(upper) = upper
           \/ BestCut(upper) \in Candidates(upper)
<1>1. CASE Candidates(upper) = {}
  BY <1>1 DEF BestCut
<1>2. CASE Candidates(upper) # {}
  <2> DEFINE C == Candidates(upper)
             ideal == cursor + target
             Distances == {Distance(p, ideal) : p \in C}
  <2>1. C \in SUBSET Int /\ ideal \in Int
    <3>1. C \subseteq midpoints
      BY DEF Candidates
    <3>2. ideal \in Int
      OBVIOUS
    <3> QED
      BY <3>1, <3>2
  <2>2. \A p \in C : Distance(p, ideal) \in Nat
    BY <2>1 DEF Distance
  <2>3. PICK d \in Distances : \A e \in Distances : d <= e
    <3>1. Distances \in SUBSET Nat /\ Distances # {}
      BY <1>2, <2>2
    <3> HIDE DEF Distances
    <3> QED
      BY <3>1, LeastElement
  <2>4. PICK near \in C : Distance(near, ideal) = d
    OBVIOUS
  <2>5. \A q \in C : Distance(near, ideal) <= Distance(q, ideal)
    BY <2>3, <2>4
  <2>6. \E p \in C : \A q \in C : Preferred(p, q, ideal)
    <3>1. CASE \E p \in C : p < near /\ Distance(p, ideal) = Distance(near, ideal)
      <4>1. PICK p \in C : p < near /\ Distance(p, ideal) = Distance(near, ideal)
        BY <3>1
      <4>2. ASSUME NEW q \in C PROVE Preferred(p, q, ideal)
        BY <2>1, <2>5, <4>1 DEF Preferred, Distance
      <4> QED
        BY <4>2
    <3>2. CASE \A p \in C : p < near => Distance(p, ideal) # Distance(near, ideal)
      <4>1. ASSUME NEW q \in C PROVE Preferred(near, q, ideal)
        BY <2>1, <2>5, <3>2 DEF Preferred, Distance
      <4> QED
        BY <4>1
    <3> QED
      BY <3>1, <3>2
  <2> QED
    BY <1>2, <2>6 DEF BestCut
<1> QED
  BY <1>1, <1>2

-----------------------------------------------------------------------------
(* The invariant *)

\* Where the chunks planned so far end, and where those sent so far end.
Reach == IF chunks = << >> THEN 0 ELSE chunks[Len(chunks)].end
HeardUpTo == IF sent = 0 THEN 0 ELSE chunks[sent].end

Inputs ==
    /\ mode \in {"never", "auto", "always"}
    /\ duration \in Nat /\ target \in Int /\ hardMax \in Int /\ hardMax > 1
    /\ report \in Reports

\* The control of _plan_chunks and of the loop over the plan.
Progress ==
    /\ pc = "start" => chunks = << >> /\ cursor = 0
    /\ pc \in {"start", "loop"} => sent = 0
    /\ pc = "loop" =>
         /\ ~ Whole
         /\ cursor = Reach
         /\ cursor = duration \/ cursor < duration - Epsilon
         /\ midpoints = {(s.start + s.end) \div 2 : s \in Silences}
    /\ pc \in {"send", "done"} => chunks # << >> /\ Reach = duration
    /\ pc = "done" => sent = Len(chunks)

\* Each chunk starts where the one before it ends.
Tiled ==
    \A i \in DOMAIN chunks :
        /\ chunks[i].start <= chunks[i].end
        /\ chunks[i].start = IF i = 1 THEN 0 ELSE chunks[i - 1].end

Heard ==
    /\ Len(words) = HeardUpTo
    /\ \A i \in DOMAIN words : words[i] = i - 1

Plan ==
    /\ Inputs /\ TypeOK /\ Progress /\ Tiled /\ Heard
    /\ ChunkLengths /\ CutsLandInPauses

-----------------------------------------------------------------------------
(* Pauses and cuts *)

\* A pause lies within the recording, and starts and ends on even ticks, unless it
\* ends with the recording.
LEMMA SilencesAreWithin ==
    ASSUME Inputs, NEW s \in Silences
    PROVE  /\ s.start \in Nat /\ s.end \in Nat
           /\ s.start < s.end /\ s.end <= duration
           /\ s.start % 2 = 0
           /\ s.end = duration \/ s.end % 2 = 0
<1>1. PICK i \in DOMAIN report.starts :
        /\ s.start = IF report.starts[i] > 0 THEN report.starts[i] ELSE 0
        /\ s.end = IF PauseEnd(i) < duration THEN PauseEnd(i) ELSE duration
        /\ s.end > s.start
  BY DEF Silences
<1>2. report.starts[i] \in Int /\ report.starts[i] % 2 = 0
  BY ReportAssumption DEF Inputs
<1>3. PauseEnd(i) = duration \/ (PauseEnd(i) \in Int /\ PauseEnd(i) % 2 = 0)
  BY ReportAssumption DEF Inputs, PauseEnd
<1> QED
  BY <1>1, <1>2, <1>3 DEF Inputs

\* The middle of a pause is a place to cut.
LEMMA MidpointsAreWithin ==
    ASSUME Inputs, NEW s \in Silences
    PROVE  (s.start + s.end) \div 2 \in 0 .. duration
BY SilencesAreWithin DEF Inputs

\* One turn of the loop makes progress, stays within the limit, and ends at the end
\* of the recording or well before it.
LEMMA NextCutAdvances ==
    ASSUME Inputs, TypeOK, cursor < duration - Epsilon
    PROVE  /\ NextCut \in cursor + 1 .. duration
           /\ NextCut <= cursor + hardMax + Epsilon
           /\ NextCut = duration \/ NextCut < duration - Epsilon
<1> DEFINE upper == cursor + hardMax
<1>1. /\ midpoints \in SUBSET Int /\ cursor \in Int /\ target \in Int /\ upper \in Int
      /\ duration \in Int /\ hardMax \in Int /\ hardMax > 1
  BY DEF Inputs, TypeOK
<1>2. CASE upper >= duration - Epsilon
  BY <1>1, <1>2 DEF NextCut, Epsilon
<1>3. CASE ~ (upper >= duration - Epsilon)
  <2>1. NextCut = BestCut(upper)
    BY <1>3 DEF NextCut
  <2>2. BestCut(upper) = upper \/ BestCut(upper) \in Candidates(upper)
    BY <1>1, BestCutIsInReach
  <2>3. NextCut = upper \/ (NextCut \in Int /\ cursor + 1 < NextCut /\ NextCut <= upper)
    BY <1>1, <2>1, <2>2 DEF Candidates, Epsilon
  <2>4. NextCut \in Int /\ cursor < NextCut /\ NextCut <= upper
    BY <1>1, <2>3
  <2> QED
    BY <1>1, <1>3, <2>4 DEF Epsilon
<1> QED
  BY <1>2, <1>3

\* A cut before the end is inside a pause, or no pause fits below the limit.
LEMMA NextCutIsInAPause ==
    ASSUME Inputs, TypeOK, cursor < duration - Epsilon, NextCut < duration,
           midpoints = {(s.start + s.end) \div 2 : s \in Silences}
    PROVE  \/ \E s \in Silences : s.start < NextCut /\ NextCut < s.end
           \/ \A s \in Silences :
                 \/ s.start < cursor \/ s.end > cursor + hardMax
                 \/ s.end - s.start <= 2 * Epsilon
<1> DEFINE upper == cursor + hardMax
<1>1. /\ midpoints \in SUBSET Int /\ cursor \in Int /\ target \in Int /\ upper \in Int
      /\ duration \in Int /\ hardMax \in Int
  BY DEF Inputs, TypeOK
<1>2. upper < duration - Epsilon /\ NextCut = BestCut(upper)
  BY <1>1 DEF NextCut, Epsilon
<1>3. CASE BestCut(upper) \in Candidates(upper)
  <2>1. PICK s \in Silences : NextCut = (s.start + s.end) \div 2
    BY <1>2, <1>3 DEF Candidates
  <2>2. NextCut <= upper
    BY <1>2, <1>3 DEF Candidates
  <2>3. s.start < NextCut /\ NextCut < s.end
    BY <1>1, <1>2, <2>1, <2>2, SilencesAreWithin DEF Epsilon
  <2> QED
    BY <2>3
<1>4. CASE Candidates(upper) = {}
  <2>1. ASSUME NEW s \in Silences, s.start >= cursor, s.end <= upper, s.end - s.start > 2
        PROVE  FALSE
    <3>1. (s.start + s.end) \div 2 \in midpoints
      OBVIOUS
    <3>2. ~ (cursor + 1 < (s.start + s.end) \div 2 /\ (s.start + s.end) \div 2 <= upper)
      BY <1>4, <3>1 DEF Candidates, Epsilon
    <3> QED
      BY <1>1, <1>2, <2>1, <3>2, SilencesAreWithin DEF Epsilon
  <2> QED
    BY <1>1, <2>1, SilencesAreWithin DEF Epsilon
<1> QED
  BY <1>1, <1>3, <1>4, BestCutIsInReach

-----------------------------------------------------------------------------
(* The invariant holds *)

\* No chunk is planned and no word is heard.
LEMMA PlanAtStart == Init => Plan
<1> SUFFICES ASSUME Init PROVE Plan
  OBVIOUS
<1>1. Inputs
  BY HardMaxAssumption, DurationAssumption, TargetAssumption DEF Init, Inputs
<1>2. TypeOK
  BY <1>1 DEF Init, Inputs, TypeOK
<1>3. Progress
  BY DEF Init, Progress
<1>4. Tiled /\ Heard /\ ChunkLengths /\ CutsLandInPauses
  BY DEF Init, Tiled, Heard, HeardUpTo, ChunkLengths, CutsLandInPauses
<1> QED
  BY <1>1, <1>2, <1>3, <1>4 DEF Plan

\* A recording that is not cut is one chunk.
LEMMA TakeWholeKeepsPlan == Plan /\ TakeWhole => Plan'
<1> SUFFICES ASSUME Plan, TakeWhole PROVE Plan'
  OBVIOUS
<1>1. Inputs /\ TypeOK /\ Progress /\ Heard
  BY DEF Plan
<1>2. Inputs' /\ duration \in Nat /\ hardMax \in Int /\ hardMax > 1
  BY <1>1 DEF TakeWhole, input, Inputs
<1>3. /\ chunks' = <<[start |-> 0, end |-> duration]>>
      /\ Len(chunks') = 1 /\ DOMAIN chunks' = {1}
      /\ chunks'[1].start = 0 /\ chunks'[1].end = duration
  BY <1>2 DEF TakeWhole
<1>4. /\ duration' = duration /\ hardMax' = hardMax /\ mode' = mode /\ pc' = "send"
      /\ midpoints' = midpoints /\ cursor' = cursor /\ sent' = 0 /\ words' = words /\ sent = 0
  BY <1>1 DEF TakeWhole, input, Progress
<1>5. chunks' \in Seq([start: 0 .. duration, end: 0 .. duration])
  BY <1>2, <1>3
<1>6. TypeOK'
  BY <1>1, <1>2, <1>3, <1>4, <1>5 DEF TypeOK
<1>7. Progress' /\ Heard'
  BY <1>1, <1>3, <1>4 DEF Progress, Reach, Heard, HeardUpTo
<1>8. Tiled'
  BY <1>2, <1>3 DEF Tiled
<1>9. ChunkLengths'
  BY <1>2, <1>3, <1>4 DEF ChunkLengths, TakeWhole, Whole, Epsilon
<1>10. CutsLandInPauses'
  BY <1>2, <1>3, <1>4 DEF CutsLandInPauses
<1> QED
  BY <1>2, <1>6, <1>7, <1>8, <1>9, <1>10 DEF Plan

\* The candidates are the middles of the pauses.
LEMMA DetectKeepsPlan == Plan /\ Detect => Plan'
<1> SUFFICES ASSUME Plan, Detect PROVE Plan'
  OBVIOUS
<1>1. Inputs /\ TypeOK /\ Progress
  BY DEF Plan
<1>2. Inputs' /\ Silences' = Silences /\ Whole' = Whole
  BY <1>1 DEF Detect, input, Inputs, Silences, PauseEnd, Whole
<1>3. TypeOK'
  <2>1. midpoints' \subseteq 0 .. duration
    BY <1>1, MidpointsAreWithin DEF Detect
  <2> QED
    BY <1>1, <2>1 DEF Detect, input, TypeOK
<1>4. Progress'
  BY <1>1, <1>2 DEF Detect, input, Inputs, Progress, Reach, Whole, Epsilon
<1>5. Tiled' /\ Heard' /\ ChunkLengths' /\ CutsLandInPauses'
  BY <1>2 DEF Plan, Detect, input, Tiled, Heard, HeardUpTo, ChunkLengths, CutsLandInPauses
<1> QED
  BY <1>2, <1>3, <1>4, <1>5 DEF Plan

\* The chunk that is cut starts where the last one ends.
LEMMA CutKeepsPlan == Plan /\ Cut => Plan'
<1> SUFFICES ASSUME Plan, Cut PROVE Plan'
  OBVIOUS
<1> DEFINE chunk == [start |-> cursor, end |-> NextCut]
           n == Len(chunks)
<1>1. Inputs /\ TypeOK /\ Progress /\ Tiled /\ Heard /\ ChunkLengths /\ CutsLandInPauses
  BY DEF Plan
<1>2. /\ duration \in Nat /\ cursor \in 0 .. duration /\ hardMax \in Int
      /\ chunks \in Seq([start: 0 .. duration, end: 0 .. duration])
      /\ n \in Nat /\ cursor < duration - Epsilon
  BY <1>1 DEF Inputs, TypeOK, Cut
<1>3. /\ NextCut \in cursor + 1 .. duration
      /\ NextCut <= cursor + hardMax + Epsilon
      /\ NextCut = duration \/ NextCut < duration - Epsilon
  BY <1>1, <1>2, NextCutAdvances
<1>4. Inputs' /\ Silences' = Silences /\ Whole' = Whole
  BY <1>1 DEF Cut, input, Inputs, Silences, PauseEnd, Whole
<1>5. /\ pc = "loop" /\ pc' = "loop" /\ chunks' = Append(chunks, chunk) /\ cursor' = NextCut
      /\ duration' = duration /\ mode' = mode /\ hardMax' = hardMax
      /\ midpoints' = midpoints /\ sent' = sent /\ words' = words
  BY DEF Cut, input
<1>6. chunk \in [start: 0 .. duration, end: 0 .. duration]
  BY <1>2, <1>3
<1>7. /\ chunks' \in Seq([start: 0 .. duration, end: 0 .. duration])
      /\ Len(chunks') = n + 1 /\ chunks' # << >>
      /\ DOMAIN chunks = 1 .. n /\ DOMAIN chunks' = 1 .. n + 1
      /\ \A i \in 1 .. n : chunks'[i] = chunks[i]
      /\ chunks'[n + 1].start = cursor /\ chunks'[n + 1].end = NextCut
  <2> HIDE DEF chunk
  <2>1. /\ chunks' \in Seq([start: 0 .. duration, end: 0 .. duration])
        /\ Len(chunks') = n + 1 /\ chunks' # << >>
        /\ DOMAIN chunks = 1 .. n /\ DOMAIN chunks' = 1 .. n + 1
        /\ \A i \in 1 .. n : chunks'[i] = chunks[i]
        /\ chunks'[n + 1] = chunk
    BY <1>2, <1>5, <1>6
  <2> QED
    BY <2>1 DEF chunk
<1>8. TypeOK'
  <2>1. cursor' \in 0 .. duration
    BY <1>2, <1>3, <1>5
  <2>2. sent' \in 0 .. Len(chunks')
    BY <1>1, <1>2, <1>5, <1>7 DEF TypeOK
  <2> QED
    BY <1>1, <1>5, <1>7, <2>1, <2>2 DEF TypeOK
<1>9. sent = 0 /\ cursor = Reach /\ ~ Whole /\ midpoints = {(s.start + s.end) \div 2 : s \in Silences}
  BY <1>1, <1>5 DEF Progress
<1>10. Progress'
  <2>1. Reach' = NextCut
    BY <1>2, <1>7 DEF Reach
  <2> QED
    BY <1>3, <1>4, <1>5, <1>9, <2>1 DEF Progress
<1>11. Tiled'
  <2>1. chunks'[n + 1].start = IF n + 1 = 1 THEN 0 ELSE chunks'[n].end
    <3>1. CASE n = 0
      BY <1>2, <1>7, <1>9, <3>1 DEF Reach
    <3>2. CASE n # 0
      <4>1. n \in 1 .. n /\ chunks # << >>
        BY <1>2, <3>2
      <4> QED
        BY <1>7, <1>9, <3>2, <4>1 DEF Reach
    <3> QED
      BY <3>1, <3>2
  <2>2. ASSUME NEW i \in DOMAIN chunks'
        PROVE  /\ chunks'[i].start <= chunks'[i].end
               /\ chunks'[i].start = IF i = 1 THEN 0 ELSE chunks'[i - 1].end
    <3>1. CASE i = n + 1
      <4>1. chunks'[i].start <= chunks'[i].end
        BY <1>2, <1>3, <1>7, <3>1
      <4> QED
        BY <1>2, <2>1, <3>1, <4>1
    <3>2. CASE i \in 1 .. n
      <4>1. chunks'[i] = chunks[i] /\ i \in DOMAIN chunks
        BY <1>7, <3>2
      <4>2. i = 1 \/ i - 1 \in 1 .. n
        BY <1>2, <3>2
      <4> QED
        BY <1>1, <1>7, <4>1, <4>2 DEF Tiled
    <3> QED
      BY <1>2, <1>7, <3>1, <3>2
  <2> QED
    BY <2>2 DEF Tiled
<1>12. Heard'
  BY <1>1, <1>5, <1>9 DEF Heard, HeardUpTo
<1>13. ChunkLengths'
  <2>1. SUFFICES ASSUME mode # "never", duration > 0, NEW i \in 1 .. n + 1
                 PROVE  /\ chunks'[i].end > chunks'[i].start
                        /\ chunks'[i].end - chunks'[i].start <= hardMax + Epsilon
    BY <1>5, <1>7 DEF ChunkLengths, Epsilon
  <2>2. CASE i = n + 1
    BY <1>2, <1>3, <1>7, <2>2 DEF Epsilon
  <2>3. CASE i \in 1 .. n
    BY <1>1, <1>7, <2>1, <2>3 DEF ChunkLengths
  <2> QED
    BY <1>2, <2>2, <2>3
<1>14. CutsLandInPauses'
  <2>1. ASSUME NEW i \in 1 .. n + 1, chunks'[i].end < duration
        PROVE  \/ \E s \in Silences : s.start < chunks'[i].end /\ chunks'[i].end < s.end
               \/ \A s \in Silences :
                     \/ s.start < chunks'[i].start \/ s.end > chunks'[i].start + hardMax
                     \/ s.end - s.start <= 2 * Epsilon
    <3>1. CASE i = n + 1
      BY <1>1, <1>2, <1>7, <1>9, <2>1, <3>1, NextCutIsInAPause
    <3>2. CASE i \in 1 .. n
      BY <1>1, <1>7, <2>1, <3>2 DEF CutsLandInPauses
    <3> QED
      BY <1>2, <3>1, <3>2
  <2> QED
    BY <1>4, <1>5, <1>7, <2>1 DEF CutsLandInPauses, Epsilon
<1> QED
  BY <1>4, <1>8, <1>10, <1>11, <1>12, <1>13, <1>14 DEF Plan

\* The loop ends at the end of the recording, and not before a chunk was cut.
LEMMA PlannedKeepsPlan == Plan /\ Planned => Plan'
<1> SUFFICES ASSUME Plan, Planned PROVE Plan'
  OBVIOUS
<1>1. Inputs /\ TypeOK /\ Progress
  BY DEF Plan
<1>2. chunks # << >> /\ Reach = duration
  <2>1. duration \in Nat /\ hardMax \in Int /\ hardMax > 1 /\ cursor \in 0 .. duration
    BY <1>1 DEF Inputs, TypeOK
  <2>2. cursor = Reach /\ cursor = duration /\ duration > hardMax + Epsilon
    BY <1>1, <2>1 DEF Planned, Progress, Whole, Epsilon
  <2> QED
    BY <2>1, <2>2 DEF Reach, Epsilon
<1>3. Inputs' /\ TypeOK'
  BY <1>1 DEF Planned, input, Inputs, TypeOK
<1>4. Progress'
  BY <1>2 DEF Planned, input, Progress, Reach
<1>5. Tiled' /\ Heard' /\ ChunkLengths' /\ CutsLandInPauses'
  BY DEF Plan, Planned, input, Tiled, Heard, HeardUpTo, ChunkLengths, CutsLandInPauses,
         Silences, PauseEnd
<1> QED
  BY <1>3, <1>4, <1>5 DEF Plan

\* The words of a chunk follow those of the chunks before it.
LEMMA TranscribeKeepsPlan == Plan /\ Transcribe => Plan'
<1> SUFFICES ASSUME Plan, Transcribe PROVE Plan'
  OBVIOUS
<1> DEFINE first == chunks[sent + 1].start
           last == chunks[sent + 1].end
           piece == [i \in 1 .. (last - first) |-> i - 1 + first]
<1>1. Inputs /\ TypeOK /\ Progress /\ Tiled /\ Heard
  BY DEF Plan
<1>2. /\ duration \in Nat /\ sent \in 0 .. Len(chunks) /\ sent < Len(chunks)
      /\ chunks \in Seq([start: 0 .. duration, end: 0 .. duration])
      /\ words \in Seq(0 .. duration - 1)
  BY <1>1 DEF Inputs, TypeOK, Transcribe
<1>3. sent \in Nat /\ sent + 1 \in DOMAIN chunks /\ Len(chunks) \in Nat
  BY <1>2
<1>4. first \in 0 .. duration /\ last \in 0 .. duration
  <2>1. sent + 1 \in 1 .. Len(chunks)
    BY <1>2
  <2>2. chunks[sent + 1] \in [start: 0 .. duration, end: 0 .. duration]
    BY <1>2, <2>1, ElementOfSeq
  <2> QED
    BY <2>2
<1>5. first <= last /\ Len(words) = first
  BY <1>1, <1>3 DEF Tiled, Heard, HeardUpTo
<1>6. words' = words \o piece /\ sent' = sent + 1
  BY DEF Transcribe, Shifted
<1>7. /\ piece \in Seq(0 .. duration - 1) /\ Len(piece) = last - first
      /\ \A i \in 1 .. (last - first) : piece[i] = i - 1 + first
  <2> HIDE DEF first, last
  <2>1. last - first \in Nat
    BY <1>2, <1>4, <1>5
  <2>2. \A i \in 1 .. (last - first) : i - 1 + first \in 0 .. duration - 1
    BY <1>2, <1>4, <1>5
  <2>3. piece \in [1 .. (last - first) -> 0 .. duration - 1]
    BY <2>2
  <2>4. \A i \in 1 .. (last - first) : piece[i] = i - 1 + first
    OBVIOUS
  <2> HIDE DEF piece
  <2>5. piece \in Seq(0 .. duration - 1)
    BY <2>1, <2>3, SeqDef
  <2>6. Len(piece) = last - first
    BY <2>1, <2>3, <2>5, LenProperties
  <2> QED
    BY <2>4, <2>5, <2>6
<1>8. /\ words' \in Seq(0 .. duration - 1) /\ Len(words') = last
      /\ \A i \in 1 .. last : words'[i] = IF i <= first THEN words[i] ELSE piece[i - first]
  <2> HIDE DEF piece, first, last
  <2>1. Len(words') = Len(words) + Len(piece) /\ words' \in Seq(0 .. duration - 1)
    BY <1>2, <1>6, <1>7, ConcatProperties
  <2>2. Len(words') = last
    BY <1>2, <1>4, <1>5, <1>7, <2>1
  <2>3. \A i \in 1 .. Len(words') :
           words'[i] = IF i <= Len(words) THEN words[i] ELSE piece[i - Len(words)]
    BY <1>2, <1>6, <1>7, <2>1, ConcatProperties
  <2> QED
    BY <1>5, <2>1, <2>2, <2>3
<1>9. \A i \in DOMAIN words' : words'[i] = i - 1
  <2>1. ASSUME NEW i \in 1 .. last PROVE words'[i] = i - 1
    <3> HIDE DEF piece, first, last
    <3>1. CASE i <= first
      <4>1. i \in DOMAIN words
        BY <1>2, <1>4, <1>5, <3>1
      <4> QED
        BY <1>1, <1>8, <3>1, <4>1 DEF Heard
    <3>2. CASE ~ (i <= first)
      <4>1. i - first \in 1 .. (last - first)
        BY <1>4, <3>2
      <4>2. words'[i] = i - first - 1 + first
        BY <1>7, <1>8, <3>2, <4>1
      <4> QED
        BY <1>4, <4>2
    <3> QED
      BY <3>1, <3>2
  <2> QED
    BY <1>8, <2>1
<1>10. /\ chunks' = chunks /\ pc' = pc /\ cursor' = cursor /\ midpoints' = midpoints
       /\ duration' = duration /\ mode' = mode /\ hardMax' = hardMax /\ pc = "send"
  BY DEF Transcribe, input
<1>11. Inputs' /\ Silences' = Silences
  BY <1>1 DEF Transcribe, input, Inputs, Silences, PauseEnd
<1>12. TypeOK'
  BY <1>1, <1>2, <1>3, <1>6, <1>8, <1>10 DEF TypeOK
<1>13. Progress'
  BY <1>1, <1>10 DEF Progress, Reach
<1>14. Heard'
  <2>1. HeardUpTo' = last
    BY <1>3, <1>6, <1>10 DEF HeardUpTo
  <2> QED
    BY <1>8, <1>9, <2>1 DEF Heard
<1>15. Tiled' /\ ChunkLengths' /\ CutsLandInPauses'
  BY <1>10, <1>11 DEF Plan, Tiled, ChunkLengths, CutsLandInPauses
<1> QED
  BY <1>11, <1>12, <1>13, <1>14, <1>15 DEF Plan

\* The last chunk has been sent.
LEMMA AllSentKeepsPlan == Plan /\ AllSent => Plan'
<1> SUFFICES ASSUME Plan, AllSent PROVE Plan'
  OBVIOUS
<1>1. Inputs' /\ TypeOK' /\ Progress'
  BY DEF Plan, AllSent, input, Inputs, TypeOK, Progress, Reach
<1>2. Tiled' /\ Heard' /\ ChunkLengths' /\ CutsLandInPauses'
  BY DEF Plan, AllSent, input, Tiled, Heard, HeardUpTo, ChunkLengths, CutsLandInPauses,
         Silences, PauseEnd
<1> QED
  BY <1>1, <1>2 DEF Plan

\* Every step keeps the plan.
LEMMA PlanIsInvariant == Spec => []Plan
<1>1. Plan /\ UNCHANGED vars => Plan'
  BY DEF Plan, vars, input, Inputs, TypeOK, Progress, Reach, Whole, Tiled, Heard, HeardUpTo,
         ChunkLengths, CutsLandInPauses, Silences, PauseEnd
<1>2. Plan /\ [Next \/ Finished]_vars => Plan'
  BY <1>1, TakeWholeKeepsPlan, DetectKeepsPlan, CutKeepsPlan, PlannedKeepsPlan,
     TranscribeKeepsPlan, AllSentKeepsPlan DEF Next, Finished
<1> QED
  BY <1>2, PlanAtStart, PTL DEF Spec

-----------------------------------------------------------------------------
(* How many chunks *)

\* The pauses that the planner has passed.
Behind == {p \in midpoints : p <= cursor}

\* Of the chunks planned before the last one, the blind ones are hardMax long, and
\* each of the others has used up a pause.
Counted ==
    /\ pc = "loop" /\ cursor < duration - Epsilon =>
         \E blind \in Nat : /\ blind * hardMax <= cursor
                           /\ Len(chunks) <= Cardinality(Behind) + blind
    /\ NotTooManyChunks

\* One chunk more than fits is what ceil() allows.
LEMMA OneMoreFits ==
    ASSUME NEW d \in Int, NEW h \in Int, h > 0, NEW b \in Int, b * h < d
    PROVE  b + 1 <= (d + h - 1) \div h
<1> DEFINE q == (d + h - 1) \div h
<1>1. q \in Int /\ q * h <= d + h - 1 /\ d + h - 1 < (q + 1) * h
  OBVIOUS
<1> HIDE DEF q
<1>2. ASSUME q <= b PROVE FALSE
  <2>1. (b - q) * h \in Nat /\ (b - q) * h = b * h - q * h /\ (q + 1) * h = q * h + h
    BY <1>1, <1>2
  <2> QED
    BY <1>1, <2>1
<1>3. b < q
  BY <1>1, <1>2
<1> QED
  BY <1>1, <1>3 DEF q

\* ffmpeg reports finitely many pauses.
LEMMA FiniteMidpoints ==
    ASSUME Inputs, TypeOK
    PROVE  /\ IsFiniteSet(midpoints) /\ Cardinality(midpoints) \in Nat
           /\ \A S \in SUBSET midpoints :
                 IsFiniteSet(S) /\ Cardinality(S) \in Nat /\ Cardinality(S) <= Cardinality(midpoints)
<1>1. IsFiniteSet(0 .. duration)
  BY FS_Interval DEF Inputs
<1>2. IsFiniteSet(midpoints)
  BY <1>1, FS_Subset DEF TypeOK
<1> QED
  BY <1>2, FS_Subset, FS_CardinalityType

\* One more chunk is within the bound as long as the blind ones left some recording.
LEMMA RoomForOne ==
    ASSUME Inputs, TypeOK, NEW blind \in Nat, NEW n \in Nat,
           blind * hardMax < duration, n <= Cardinality(Behind) + blind
    PROVE  n + 1 <= Cardinality(midpoints) + ((duration + hardMax - 1) \div hardMax)
<1>1. duration \in Int /\ hardMax \in Int /\ hardMax > 0
  BY DEF Inputs
<1>2. blind + 1 <= (duration + hardMax - 1) \div hardMax
  BY <1>1, OneMoreFits
<1>3. Cardinality(Behind) \in Nat /\ Cardinality(Behind) <= Cardinality(midpoints)
  BY FiniteMidpoints DEF Behind
<1>4. Cardinality(midpoints) \in Nat /\ (duration + hardMax - 1) \div hardMax \in Int
  BY <1>1, FiniteMidpoints
<1> QED
  BY <1>2, <1>3, <1>4

\* A cut in a pause uses up the pause; a blind one uses up hardMax.
LEMMA CutKeepsCounted == Plan /\ Counted /\ Cut => Counted'
<1> SUFFICES ASSUME Plan, Counted, Cut PROVE Counted'
  OBVIOUS
<1>1. Inputs /\ TypeOK /\ Progress
  BY DEF Plan
<1>2. /\ duration \in Nat /\ hardMax \in Int /\ hardMax > 1 /\ cursor \in 0 .. duration
      /\ target \in Int /\ midpoints \in SUBSET Int
      /\ Len(chunks) \in Nat /\ pc = "loop" /\ cursor < duration - 1
  BY <1>1 DEF Inputs, TypeOK, Cut, Epsilon
<1>3. /\ Len(chunks') = Len(chunks) + 1 /\ cursor' = NextCut /\ midpoints' = midpoints
      /\ duration' = duration /\ hardMax' = hardMax /\ mode' = mode
  <2>1. Len(chunks') = Len(chunks) + 1
    BY <1>1, AppendProperties DEF Cut, TypeOK
  <2> QED
    BY <2>1 DEF Cut, input
<1>4. PICK blind \in Nat : /\ blind * hardMax <= cursor
                          /\ Len(chunks) <= Cardinality(Behind) + blind
  BY <1>2 DEF Counted, Epsilon
<1>5. NotTooManyChunks'
  <2>1. blind * hardMax < duration
    BY <1>2, <1>4
  <2>2. Len(chunks) + 1 <= Cardinality(midpoints) + ((duration + hardMax - 1) \div hardMax)
    BY <1>1, <1>2, <1>4, <2>1, RoomForOne
  <2> QED
    BY <1>3, <2>2 DEF NotTooManyChunks
<1>6. ASSUME cursor' < duration - 1
      PROVE  \E b \in Nat : b * hardMax <= cursor' /\ Len(chunks') <= Cardinality(Behind') + b
  <2> DEFINE upper == cursor + hardMax
  <2>1. NextCut = BestCut(upper) /\ upper \in Int
    BY <1>2, <1>3, <1>6 DEF NextCut, Epsilon
  <2>2. NextCut \in cursor + 1 .. duration
    BY <1>1, <1>2, NextCutAdvances DEF Epsilon
  <2>3. /\ Behind \subseteq Behind' /\ IsFiniteSet(Behind') /\ IsFiniteSet(Behind)
        /\ Cardinality(Behind) \in Nat /\ Cardinality(Behind') \in Nat
        /\ Cardinality(Behind) <= Cardinality(Behind')
    <3>1. Behind \subseteq Behind' /\ Behind' \subseteq midpoints /\ Behind \subseteq midpoints
      <4>1. \A p \in midpoints : p <= cursor => p <= cursor'
        BY <1>2, <1>3, <2>2
      <4> QED
        BY <1>3, <4>1 DEF Behind
    <3>2. IsFiniteSet(Behind')
      BY <1>1, <3>1, FiniteMidpoints
    <3> QED
      BY <3>1, <3>2, FS_Subset, FS_CardinalityType
  <2>4. CASE NextCut = upper
    <3>1. (blind + 1) * hardMax = blind * hardMax + hardMax
      BY <1>2, <1>4
    <3>2. (blind + 1) * hardMax <= cursor'
      BY <1>2, <1>3, <1>4, <2>4, <3>1
    <3>3. Len(chunks') <= Cardinality(Behind') + (blind + 1)
      BY <1>2, <1>3, <1>4, <2>3
    <3> QED
      BY <1>4, <3>2, <3>3
  <2>5. CASE NextCut \in Candidates(upper)
    <3>1. NextCut \in Behind' /\ NextCut \notin Behind
      BY <1>2, <1>3, <2>2, <2>5 DEF Behind, Candidates
    <3>2. Cardinality(Behind \cup {NextCut}) = Cardinality(Behind) + 1
      BY <2>3, <3>1, FS_AddElement
    <3>3. Cardinality(Behind \cup {NextCut}) <= Cardinality(Behind')
      <4>1. Behind \cup {NextCut} \subseteq Behind'
        BY <2>3, <3>1
      <4> QED
        BY <2>3, <4>1, FS_Subset
    <3>4. Len(chunks') <= Cardinality(Behind') + blind
      BY <1>2, <1>3, <1>4, <2>3, <3>2, <3>3
    <3>5. blind * hardMax <= cursor'
      BY <1>2, <1>3, <1>4, <2>2
    <3> QED
      BY <3>4, <3>5
  <2> QED
    BY <1>2, <2>1, <2>4, <2>5, BestCutIsInReach
<1> QED
  BY <1>3, <1>5, <1>6 DEF Counted, Epsilon

\* The other steps plan one chunk, which always fits, or none.
LEMMA OthersKeepCounted ==
    Plan /\ Counted /\ (TakeWhole \/ Detect \/ Planned \/ Transcribe \/ AllSent) => Counted'
<1> SUFFICES ASSUME Plan, Counted PROVE
        /\ TakeWhole => Counted'
        /\ Detect => Counted'
        /\ Planned \/ Transcribe \/ AllSent => Counted'
  OBVIOUS
<1>1. Inputs /\ TypeOK /\ Progress
  BY DEF Plan
<1>2. /\ duration \in Nat /\ hardMax \in Int /\ hardMax > 1
      /\ Cardinality(midpoints) \in Nat
  BY <1>1, FiniteMidpoints DEF Inputs
<1>3. ASSUME duration > 0 PROVE 1 <= (duration + hardMax - 1) \div hardMax
  BY <1>2, <1>3, OneMoreFits
<1>4. TakeWhole => Counted'
  <2>1. TakeWhole => Len(chunks') = 1
    BY DEF TakeWhole
  <2> QED
    BY <1>2, <1>3, <2>1 DEF TakeWhole, input, Counted, NotTooManyChunks
<1>5. ASSUME Detect PROVE Counted'
  <2>1. Plan'
    BY <1>5, DetectKeepsPlan
  <2>2. /\ chunks' = << >> /\ cursor' = 0 /\ duration' = duration /\ hardMax' = hardMax
        /\ mode' = mode
    BY <1>1, <1>5 DEF Detect, input, Progress
  <2>3. Cardinality(midpoints)' \in Nat /\ Cardinality(Behind') \in Nat
    <3>1. Inputs' /\ TypeOK' /\ Behind' \subseteq midpoints'
      BY <2>1 DEF Plan, Behind
    <3>2. IsFiniteSet((0 .. duration)')
      BY <1>2, <2>2, FS_Interval
    <3>3. midpoints' \subseteq (0 .. duration)'
      BY <3>1 DEF TypeOK
    <3>4. IsFiniteSet(midpoints')
      BY <3>2, <3>3, FS_Subset
    <3> QED
      BY <3>1, <3>4, FS_Subset, FS_CardinalityType
  <2>4. Len(chunks') = 0 /\ 0 * hardMax <= 0 /\ 0 <= Cardinality(Behind') + 0
    BY <1>2, <2>2, <2>3
  <2>5. NotTooManyChunks'
    BY <1>2, <1>3, <2>2, <2>3, <2>4 DEF NotTooManyChunks
  <2> QED
    BY <2>2, <2>4, <2>5 DEF Counted
<1>6. Planned \/ Transcribe \/ AllSent => Counted'
  BY DEF Planned, Transcribe, AllSent, input, Counted, NotTooManyChunks
<1> QED
  BY <1>4, <1>5, <1>6

\* Every step keeps the account.
LEMMA CountedIsInvariant == Spec => []Counted
<1>1. Init => Counted
  <2> SUFFICES ASSUME Init PROVE Counted
    OBVIOUS
  <2>1. Inputs /\ TypeOK
    BY PlanAtStart DEF Plan
  <2>2. /\ Len(chunks) = 0 /\ pc = "start" /\ Cardinality(midpoints) \in Nat
        /\ duration \in Int /\ hardMax \in Int /\ hardMax > 0
    BY <2>1, FiniteMidpoints DEF Init, Inputs
  <2>3. duration > 0 => 0 + 1 <= (duration + hardMax - 1) \div hardMax
    BY <2>2, OneMoreFits
  <2> QED
    BY <2>2, <2>3 DEF Counted, NotTooManyChunks
<1>2. Counted /\ UNCHANGED vars => Counted'
  BY DEF vars, input, Counted, Behind, NotTooManyChunks
<1>3. Plan /\ Counted /\ [Next \/ Finished]_vars => Counted'
  BY <1>2, CutKeepsCounted, OthersKeepCounted DEF Next, Finished
<1> QED
  BY <1>1, <1>3, PlanIsInvariant, PTL DEF Spec

-----------------------------------------------------------------------------
(* What follows *)

\* Whatever the pauses and the settings, the cuts stay within the recording.
THEOREM TypesHold == Spec => []TypeOK
<1>1. Plan => TypeOK
  BY DEF Plan
<1> QED
  BY <1>1, PlanIsInvariant, PTL

\* For every recording, every setting and every report of pauses, the words are heard
\* once, in order and at their times (the loop of worker._process over plan_chunks).
THEOREM NoWordLostOrDoubled == Spec => []EveryWordOnce
<1>1. Plan => EveryWordOnce
  BY DEF Plan, Inputs, TypeOK, Progress, Reach, Heard, HeardUpTo, EveryWordOnce
<1> QED
  BY <1>1, PlanIsInvariant, PTL

\* No chunk of plan_chunks is empty or above the provider's limit, for every limit
\* above EPSILON.
THEOREM ChunksFitTheProvider == Spec => []ChunkLengths
<1>1. Plan => ChunkLengths
  BY DEF Plan
<1> QED
  BY <1>1, PlanIsInvariant, PTL

\* _best_cut cuts inside a pause wherever one is within the limit.
THEOREM CutsAreInPauses == Spec => []CutsLandInPauses
<1>1. Plan => CutsLandInPauses
  BY DEF Plan
<1> QED
  BY <1>1, PlanIsInvariant, PTL

\* A burst of pauses costs at most one request each above what blind cuts cost, for
\* every recording and every limit (the loop of plan_chunks comes to an end).
THEOREM RequestsAreBounded == Spec => []NotTooManyChunks
<1>1. Counted => NotTooManyChunks
  BY DEF Counted
<1> QED
  BY <1>1, CountedIsInvariant, PTL

=============================================================================
