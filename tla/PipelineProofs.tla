--------------------------- MODULE PipelineProofs ---------------------------
(***************************************************************************)
(* Proofs about Pipeline, for any number of chunks, of attempts and of     *)
(* languages.                                                              *)
(*                                                                         *)
(* The invariant: Place says what the row, the tool and the disk may look  *)
(* like while the worker is at a given step; Cursor, how far the loop over *)
(* the chunks is; Collected, what the replies of this attempt have in      *)
(* common, which the transcript inherits (Saved); Published, that nobody   *)
(* works on a job with a transcript, however late it is cancelled.         *)
(* With it, the steps of the work are steps of JobLease, the specification *)
(* that the queue implements as well.                                      *)
(***************************************************************************)
EXTENDS Pipeline, SequenceTheorems, TLAPS

-----------------------------------------------------------------------------
(* The invariant *)

BeforePlan == {"start", "normalising", "normalised", "commit", "plan"}
InChunk == {"cut", "cutting", "ask", "waiting"}
InLoop == InChunk \union {"replied", "save"}

Place ==
    /\ pc \in Working => status \in {"running", "cancelling", "cancelled"}
    /\ pc \in {"stopped", "tidy"} => status \notin {"queued", "running"}
    /\ tool # "none" => pc \in {"normalising", "cutting", "waiting"}
    /\ status = "queued" => progress = 0
    /\ status \in {"queued", "running"} \/ pc \in Working => source \/ audio # "none"
    /\ failure # "source_missing"
    /\ pc = "normalising" => source /\ audio = "partial"
    /\ pc = "normalised" => audio = "whole"

\* How many chunks have been replied to.
Cursor ==
    /\ pc \in BeforePlan \union {"down", "idle"} =>
         chunk = 1 /\ tries = 0 /\ parts = << >>
    /\ pc \in BeforePlan => progress = 0
    /\ pc \in InLoop => chunk <= plan /\ (audio = "whole" => plan = Chunks)
    /\ pc \in InChunk =>
         /\ Len(parts) = chunk - 1
         /\ progress = ((chunk - 1) * Chunks) \div plan
    /\ pc = "replied" => Len(parts) = chunk
    /\ pc = "save" => Len(parts) = plan
    /\ pc \in {"cut", "cutting"} => tries = 0
    /\ pc = "ask" => tries < Attempts

\* Replies in order, the first language detected being forced on the later ones; final is
\* the language after them.
InOrder(replies) == \A k \in 1 .. Len(replies) : replies[k].chunk = k
Forcing(replies, final) ==
    /\ \A a \in 1 .. Len(replies) :
         /\ replies[a].asked # NoLanguage => final = replies[a].asked
         /\ replies[a].got # NoLanguage => final # NoLanguage
    /\ \A a, b \in 1 .. Len(replies) :
         a < b /\ (replies[a].asked # NoLanguage \/ replies[a].got # NoLanguage) =>
             replies[b].asked = final

Collected == InOrder(parts) /\ Forcing(parts, lang)

Saved ==
    /\ TranscriptIsComplete
    /\ Forcing(transcript.parts, transcript.language)

Published ==
    transcript # NoTranscript =>
        status \in {"done", "cancelling", "cancelled"} /\ pc \in {"tidy", "idle", "down"}

Inv == TypeOK /\ Place /\ Cursor /\ Collected /\ Saved /\ Published

\* A queued job with its upload.
LEMMA InitInv == Init => Inv
<1> SUFFICES ASSUME Init PROVE Inv
  OBVIOUS
<1> USE ChunksAssumption, AttemptsAssumption DEF Init
<1>1. TypeOK
  <2>1. << >> \in Seq(Part)
    BY EmptySeq
  <2> QED
    BY <2>1 DEF TypeOK, NoTranscript, MaybeLanguage, Errors, Over, Working
<1>2. Place
  BY DEF Place, Working, Over
<1>3. Cursor
  BY EmptySeq DEF Cursor, BeforePlan, InChunk, InLoop
<1>4. Collected
  BY EmptySeq DEF Collected, InOrder, Forcing
<1>5. Saved
  BY EmptySeq DEF Saved, TranscriptIsComplete, Forcing, NoTranscript
<1>6. Published
  BY DEF Published
<1> QED
  BY <1>1, <1>2, <1>3, <1>4, <1>5, <1>6 DEF Inv

-----------------------------------------------------------------------------
(* Types *)

\* The progress a worker commits is a number of chunks of the recording.
LEMMA ProgressIsAShare ==
    ASSUME NEW p \in Nat \ {0}, NEW k \in 0 .. p
    PROVE  (k * Chunks) \div p \in 0 .. Chunks
<1> DEFINE a == k * Chunks
           q == a \div p
<1>1. Chunks \in Nat /\ a \in Nat /\ a <= p * Chunks
  BY ChunksAssumption
<1>2. q \in Nat /\ p * q <= a
  BY <1>1
<1>3. ASSUME q > Chunks PROVE FALSE
  <2>1. p * q >= p * (Chunks + 1)
    BY <1>1, <1>2, <1>3
  <2>2. p * (Chunks + 1) = p * Chunks + p
    BY <1>1
  <2> QED
    BY <1>1, <1>2, <2>1, <2>2
<1> QED
  BY <1>1, <1>2, <1>3

\* An attempt that has done no chunk has done nothing.
LEMMA NoShare ==
    ASSUME NEW p \in Nat \ {0}
    PROVE  0 \div p = 0
<1> DEFINE q == 0 \div p
<1>1. q \in Int /\ p * q <= 0 /\ 0 < p * q + p
  OBVIOUS
<1>2. ASSUME q > 0 PROVE FALSE
  <2>1. p * q >= p
    BY <1>1, <1>2
  <2> QED
    BY <1>1, <2>1
<1>3. ASSUME q < 0 PROVE FALSE
  <2>1. p * q <= 0 - p
    BY <1>1, <1>3
  <2> QED
    BY <1>1, <2>1
<1> QED
  BY <1>1, <1>2, <1>3

\* The reply that is collected.
LEMMA ReplyIsAPart ==
    ASSUME TypeOK, NEW got \in MaybeLanguage
    PROVE  [chunk |-> chunk, asked |-> lang, got |-> got] \in Part
  BY DEF TypeOK, Part

\* Every step keeps the types.
LEMMA NextTypes == Inv /\ [Next]_vars => TypeOK'
<1> SUFFICES ASSUME Inv, [Next]_vars PROVE TypeOK'
  OBVIOUS
<1> USE ChunksAssumption, AttemptsAssumption
    DEF TypeOK, Over, Errors, Working, MaybeLanguage, row, disk, attempt, local
<1>0. TypeOK
  BY DEF Inv
<1>e. << >> \in Seq(Part)
  BY EmptySeq
<1>1. CASE Claim
  BY <1>0, <1>1 DEF Claim
<1>2. CASE UseCheckpoint
  BY <1>0, <1>2 DEF UseCheckpoint, Raise
<1>3. CASE StartNormalising
  BY <1>0, <1>3 DEF StartNormalising
<1>4. CASE NothingToNormalise
  BY <1>0, <1>4 DEF NothingToNormalise, Raise
<1>5. CASE NormaliseSucceeds
  BY <1>0, <1>5 DEF NormaliseSucceeds, Raise
<1>20. CASE NormaliseFails
  BY <1>0, <1>20 DEF NormaliseFails, Raise
<1>21. CASE DropSource
  <2>1. source' \in BOOLEAN
    BY <1>21, Zenon DEF DropSource
  <2>2. pc' = "commit" /\ UNCHANGED <<row, asks, audio, pieces, tool, local>>
    BY <1>21 DEF DropSource
  <2> QED
    BY <1>0, <2>1, <2>2
<1>6. CASE FirstCommit
  BY <1>0, <1>6, <1>e DEF FirstCommit, Raise, NoTranscript
<1>7. CASE Plan
  BY <1>0, <1>7 DEF Plan
<1>8. CASE StartCutting
  <2>1. /\ pieces' \in SUBSET (1 .. Chunks)
        /\ tool' \in {"none", "ffmpeg", "http"}
        /\ pc' \in {"ask", "cutting"}
    BY <1>0, <1>8 DEF StartCutting
  <2>2. UNCHANGED <<row, asks, source, audio, local>>
    BY <1>8 DEF StartCutting
  <2> QED
    BY <1>0, <2>1, <2>2
<1>9. CASE CutSucceeds
  BY <1>0, <1>9 DEF CutSucceeds
<1>22. CASE CutFails
  BY <1>0, <1>22 DEF CutFails, Raise
<1>10. CASE Ask
  <2>1. tries < Attempts
    BY <1>10 DEF Ask, Inv, Cursor
  <2> QED
    BY <1>0, <1>10, <2>1 DEF Ask
<1>11. ASSUME NEW got \in MaybeLanguage, Reply(got) PROVE TypeOK'
  <2> DEFINE r == [chunk |-> chunk, asked |-> lang, got |-> got]
  <2>1. parts' = Append(parts, r) /\ Append(parts, r) \in Seq(Part)
    <3>1. r \in Part /\ parts \in Seq(Part)
      BY <1>0, ReplyIsAPart
    <3> HIDE DEF r
    <3>2. Append(parts, r) \in Seq(Part)
      BY <3>1, AppendProperties
    <3> QED
      BY <3>2, <1>11 DEF Reply, r
  <2>2. Forced(got) \in MaybeLanguage
    BY <1>0, <1>11 DEF Forced
  <2> HIDE DEF r
  <2> QED
    BY <1>0, <1>11, <2>1, <2>2 DEF Reply
<1>12. CASE NoReply
  <2>1. pc' \in {"ask", "fail"} /\ failure' \in Errors /\ tool' = "none"
    BY <1>0, <1>12 DEF NoReply, Raise
  <2>2. UNCHANGED <<row, asks, disk, attempt>>
    BY <1>12 DEF NoReply
  <2> QED
    BY <1>0, <2>1, <2>2
<1>23. CASE Rejected
  BY <1>0, <1>23 DEF Rejected, Raise
<1>13. CASE ChunkDone
  <2>1. plan \in Nat \ {0} /\ chunk \in 0 .. plan
    BY <1>0, <1>13 DEF ChunkDone, Inv, Cursor, InLoop
  <2>2. (chunk * Chunks) \div plan \in 0 .. Chunks
    BY <2>1, ProgressIsAShare
  <2> DEFINE share == (chunk * Chunks) \div plan
  <2>3. progress' = share
    BY <1>13 DEF ChunkDone
  <2> HIDE DEF share
  <2>4. progress' \in 0 .. Chunks
    BY <2>2, <2>3 DEF share
  <2>5. chunk' \in 1 .. Chunks
    BY <1>0, <1>13 DEF ChunkDone
  <2>6. /\ UNCHANGED <<asks, status, error, transcript, source, audio, tool, plan, lang, parts,
                       failure>>
        /\ pieces' = pieces \ {chunk} /\ tries' = 0 /\ pc' \in {"cut", "save"}
    BY <1>13 DEF ChunkDone
  <2> QED
    BY <1>0, <2>4, <2>5, <2>6
<1>14. CASE Save
  BY <1>0, <1>14 DEF Save
<1>15. CASE Fail
  BY <1>0, <1>15 DEF Fail
<1>24. CASE Finish
  BY <1>0, <1>24 DEF Finish
<1>25. CASE CancelRead
  <2>1. asks' \subseteq {"queued", "running"}
    BY <1>0, <1>25 DEF CancelRead
  <2> QED
    BY <1>0, <1>25, <2>1 DEF CancelRead
<1>27. CASE CancelWrite
  <2>1. asks' \subseteq asks /\ status' \in {"cancelled", "cancelling"}
    BY <1>27 DEF CancelWrite
  <2>2. UNCHANGED <<error, progress, transcript, disk, pc, tool, local>>
    BY <1>27 DEF CancelWrite
  <2> QED
    BY <1>0, <2>1, <2>2
<1>26. CASE Stop
  BY <1>0, <1>26 DEF Stop
<1>16. CASE Tidy
  <2>1. parts' \in Seq(Part)
    BY <1>16, <1>e DEF Tidy, FreshLocal
  <2>2. source' \in BOOLEAN
    BY <1>16, Zenon DEF Tidy
  <2>3. /\ plan' = 0 /\ chunk' = 1 /\ tries' = 0 /\ lang' = NoLanguage /\ failure' = "none"
        /\ pieces' = {} /\ pc' = "idle" /\ UNCHANGED <<row, asks, audio, tool>>
    BY <1>16 DEF Tidy, FreshLocal
  <2> QED
    BY <1>0, <2>1, <2>2, <2>3
<1>17. CASE Die
  <2>1. parts' \in Seq(Part)
    BY <1>17, <1>e DEF Die, FreshLocal
  <2>2. /\ plan' = 0 /\ chunk' = 1 /\ tries' = 0 /\ lang' = NoLanguage /\ failure' = "none"
        /\ pc' = "down" /\ tool' = "none" /\ UNCHANGED <<row, asks, disk>>
    BY <1>17 DEF Die, FreshLocal
  <2> QED
    BY <1>0, <2>1, <2>2
<1>18. CASE Restart
  BY <1>0, <1>18 DEF Restart
<1>19. CASE UNCHANGED vars
  BY <1>0, <1>19 DEF vars
<1> QED
  BY <1>1, <1>2, <1>3, <1>4, <1>5, <1>6, <1>7, <1>8, <1>9, <1>10, <1>11, <1>12,
     <1>13, <1>14, <1>15, <1>16, <1>17, <1>18, <1>19, <1>20, <1>21, <1>22, <1>23,
     <1>24, <1>25, <1>26, <1>27
  DEF Next, Checkpoint, DoChunks, End, Crash, Unreadable

-----------------------------------------------------------------------------
(* The row, the tool and the disk *)

\* What the worker waits for agrees with the row and with the files there are.
LEMMA NextPlace == Inv /\ [Next]_vars => Place'
<1> SUFFICES ASSUME Inv, [Next]_vars PROVE Place'
  OBVIOUS
<1> USE DEF Place, Over, Working, row, disk, attempt, local
<1>0. TypeOK /\ Place /\ Cursor
  BY DEF Inv
<1>1. CASE Claim \/ UseCheckpoint
  BY <1>0, <1>1 DEF Claim, UseCheckpoint, Raise
<1>2. CASE StartNormalising
  BY <1>0, <1>2 DEF StartNormalising
<1>3. CASE NothingToNormalise
  BY <1>0, <1>3 DEF NothingToNormalise, Raise
<1>4. CASE NormaliseSucceeds \/ NormaliseFails
  BY <1>0, <1>4 DEF NormaliseSucceeds, NormaliseFails, Raise
<1>5. CASE DropSource
  BY <1>0, <1>5 DEF DropSource
<1>6. CASE FirstCommit
  BY <1>0, <1>6 DEF FirstCommit, Raise
<1>7. CASE Plan \/ StartCutting \/ CutSucceeds
  BY <1>0, <1>7 DEF Plan, StartCutting, CutSucceeds
<1>8. CASE CutFails
  BY <1>0, <1>8 DEF CutFails, Raise
<1>9. CASE Ask
  BY <1>0, <1>9 DEF Ask
<1>10. ASSUME NEW got \in MaybeLanguage, Reply(got) PROVE Place'
  BY <1>0, <1>10 DEF Reply
<1>11. CASE NoReply \/ Rejected
  BY <1>0, <1>11 DEF NoReply, Rejected, Raise
<1>12. CASE ChunkDone
  <2>1. /\ UNCHANGED <<asks, status, error, transcript, source, audio, tool, plan, lang, parts,
                       failure>>
        /\ pc = "replied" /\ pc' \in {"cut", "save"}
    BY <1>12 DEF ChunkDone
  <2> QED
    BY <1>0, <2>1
<1>13. CASE Save
  BY <1>0, <1>13 DEF Save
<1>14. CASE Fail \/ Finish
  BY <1>0, <1>14 DEF Fail, Finish
<1>15. CASE CancelRead \/ CancelWrite
  BY <1>0, <1>15 DEF CancelRead, CancelWrite
<1>16. CASE Stop
  BY <1>0, <1>16 DEF Stop
<1>17. CASE Tidy
  BY <1>0, <1>17 DEF Tidy, FreshLocal
<1>18. CASE Die
  BY <1>0, <1>18 DEF Die, FreshLocal
<1>19. CASE Restart
  BY <1>0, <1>19 DEF Restart
<1>20. CASE UNCHANGED vars
  BY <1>0, <1>20 DEF vars
<1> QED
  BY <1>1, <1>2, <1>3, <1>4, <1>5, <1>6, <1>7, <1>8, <1>9, <1>10, <1>11, <1>12,
     <1>13, <1>14, <1>15, <1>16, <1>17, <1>18, <1>19, <1>20
  DEF Next, Checkpoint, DoChunks, End, Crash, Unreadable

-----------------------------------------------------------------------------
(* The loop over the chunks *)

\* The loop over the plan stays within the plan and within the attempts for a chunk.
LEMMA NextCursor == Inv /\ [Next]_vars => Cursor'
<1> SUFFICES ASSUME Inv, [Next]_vars PROVE Cursor'
  OBVIOUS
<1> USE ChunksAssumption, AttemptsAssumption
    DEF Cursor, BeforePlan, InChunk, InLoop, row, disk, attempt, local
<1>0. TypeOK /\ Place /\ Cursor
  BY DEF Inv
<1>n. Len(<< >>) = 0 /\ Len(parts) \in Nat
  BY <1>0, EmptySeq, LenProperties DEF TypeOK
<1>1. CASE Claim \/ UseCheckpoint
  BY <1>0, <1>1 DEF Claim, UseCheckpoint, Raise, Place
<1>2. CASE StartNormalising
  BY <1>0, <1>2 DEF StartNormalising
<1>3. CASE NothingToNormalise
  BY <1>0, <1>3 DEF NothingToNormalise, Raise
<1>4. CASE NormaliseSucceeds \/ NormaliseFails
  BY <1>0, <1>4 DEF NormaliseSucceeds, NormaliseFails, Raise
<1>5. CASE DropSource
  BY <1>0, <1>5 DEF DropSource
<1>6. CASE FirstCommit
  BY <1>0, <1>6 DEF FirstCommit, Raise
<1>7. CASE Plan
  <2>1. plan' \in 1 .. Chunks /\ (audio = "whole" => plan' = Chunks)
    BY <1>7 DEF Plan
  <2>2. chunk = 1 /\ progress = 0 /\ tries = 0 /\ parts = << >>
    BY <1>0, <1>7 DEF Plan
  <2>3. UNCHANGED <<progress, chunk, tries, parts, audio>> /\ pc' = "cut"
    BY <1>7 DEF Plan
  <2>4. progress' = ((chunk' - 1) * Chunks) \div plan'
    <3>1. (chunk' - 1) * Chunks = 0
      BY <2>2, <2>3
    <3>2. 0 \div plan' = 0
      <4>1. plan' \in Nat \ {0}
        BY <2>1
      <4> QED
        BY <4>1, NoShare, Zenon
    <3> QED
      BY <2>2, <2>3, <3>1, <3>2
  <2>5. chunk' <= plan' /\ (audio' = "whole" => plan' = Chunks) /\ Len(parts') = chunk' - 1
    BY <1>n, <2>1, <2>2, <2>3
  <2> QED
    BY <2>2, <2>3, <2>4, <2>5
<1>8. CASE StartCutting
  BY <1>0, <1>8 DEF StartCutting
<1>9. CASE CutSucceeds \/ CutFails
  BY <1>0, <1>9 DEF CutSucceeds, CutFails, Raise
<1>10. CASE Ask
  BY <1>0, <1>10 DEF Ask, TypeOK
<1>11. ASSUME NEW got \in MaybeLanguage, Reply(got) PROVE Cursor'
  <2>1. Len(parts') = Len(parts) + 1
    BY <1>0, <1>11, ReplyIsAPart, AppendProperties DEF Reply, TypeOK
  <2>2. chunk \in Nat
    BY <1>0 DEF TypeOK
  <2> QED
    BY <1>0, <1>11, <2>1, <2>2 DEF Reply
<1>12. CASE NoReply \/ Rejected
  BY <1>0, <1>12 DEF NoReply, Rejected, Raise
<1>13. CASE ChunkDone
  <2>1. chunk \in Nat /\ plan \in Nat /\ chunk <= plan /\ Len(parts) = chunk
    BY <1>0, <1>13 DEF ChunkDone, TypeOK
  <2>2. progress' = (chunk * Chunks) \div plan /\ tries' = 0
    BY <1>13 DEF ChunkDone
  <2>3. UNCHANGED <<audio, plan, parts>> /\ (audio = "whole" => plan = Chunks)
    BY <1>0, <1>13 DEF ChunkDone
  <2>4. CASE chunk < plan
    <3>1. chunk' = chunk + 1 /\ pc' = "cut" /\ chunk' - 1 = chunk
      BY <1>13, <2>1, <2>4 DEF ChunkDone
    <3> QED
      BY <2>1, <2>2, <2>3, <2>4, <3>1
  <2>5. CASE ~ (chunk < plan)
    <3>1. chunk' = chunk /\ pc' = "save" /\ chunk = plan
      BY <1>13, <2>1, <2>5 DEF ChunkDone
    <3> QED
      BY <2>1, <2>2, <2>3, <3>1
  <2> QED
    BY <2>4, <2>5
<1>14. CASE Save \/ Fail \/ Finish \/ Stop
  BY <1>0, <1>14 DEF Save, Fail, Finish, Stop
<1>15. CASE CancelRead \/ CancelWrite
  BY <1>0, <1>15 DEF CancelRead, CancelWrite
<1>16. CASE Tidy
  BY <1>0, <1>16 DEF Tidy, FreshLocal
<1>17. CASE Die
  BY <1>0, <1>17 DEF Die, FreshLocal
<1>18. CASE Restart
  BY <1>0, <1>18 DEF Restart
<1>19. CASE UNCHANGED vars
  BY <1>0, <1>19 DEF vars
<1> QED
  BY <1>1, <1>2, <1>3, <1>4, <1>5, <1>6, <1>7, <1>8, <1>9, <1>10, <1>11, <1>12,
     <1>13, <1>14, <1>15, <1>16, <1>17, <1>18, <1>19
  DEF Next, Checkpoint, DoChunks, End, Crash, Unreadable

-----------------------------------------------------------------------------
(* The replies and the transcript *)

\* A reply is put behind those of the chunks before.
LEMMA ReplyIsCollected ==
    ASSUME Inv, NEW got \in MaybeLanguage, Reply(got)
    PROVE  Collected'
<1> DEFINE r == [chunk |-> chunk, asked |-> lang, got |-> got]
<1>1. parts \in Seq(Part) /\ r \in Part /\ chunk \in Nat /\ Len(parts) = chunk - 1
  BY ReplyIsAPart DEF Reply, Inv, TypeOK, Cursor, InChunk
<1>2. r.chunk = chunk /\ r.asked = lang /\ r.got = got
  OBVIOUS
<1>3. parts' = Append(parts, r) /\ lang' = Forced(got)
  BY DEF Reply
<1> HIDE DEF r
<1>4. /\ Len(parts') = chunk /\ parts'[chunk] = r
      /\ \A k \in 1 .. chunk - 1 : parts'[k] = parts[k]
  BY <1>1, <1>3, AppendProperties
<1>5. InOrder(parts) /\ Forcing(parts, lang)
  BY DEF Inv, Collected
<1>6. InOrder(parts')
  BY <1>1, <1>2, <1>4, <1>5 DEF InOrder
<1>7. Forcing(parts', lang')
  <2>1. CASE lang = NoLanguage
    <3>1. \A a \in 1 .. chunk - 1 :
            parts[a].asked = NoLanguage /\ parts[a].got = NoLanguage
      BY <1>1, <1>5, <2>1 DEF Forcing
    <3>2. lang' = got
      BY <1>3, <2>1 DEF Forced
    <3> QED
      BY <1>1, <1>2, <1>4, <2>1, <3>1, <3>2 DEF Forcing
  <2>2. CASE lang # NoLanguage
    <3>1. lang' = lang
      BY <1>3, <2>2 DEF Forced
    <3> QED
      BY <1>1, <1>2, <1>4, <1>5, <2>2, <3>1 DEF Forcing
  <2> QED
    BY <2>1, <2>2
<1> QED
  BY <1>6, <1>7 DEF Collected

\* The replies so far are one per chunk before the current one, in one language.
LEMMA NextCollected == Inv /\ [Next]_vars => Collected'
<1> SUFFICES ASSUME Inv, [Next]_vars PROVE Collected'
  OBVIOUS
<1> USE DEF row, disk, attempt, local
<1>0. Collected
  BY DEF Inv
<1>1. CASE UNCHANGED <<parts, lang>>
  BY <1>0, <1>1 DEF Collected
<1>2. CASE parts' = << >>
  BY <1>2, EmptySeq DEF Collected, InOrder, Forcing
<1>3. CASE Checkpoint
  BY <1>1, <1>3
  DEF Checkpoint, Claim, UseCheckpoint, StartNormalising, NothingToNormalise,
      NormaliseSucceeds, NormaliseFails, DropSource, FirstCommit
<1>4. CASE Plan \/ StartCutting \/ CutSucceeds \/ CutFails \/ Ask \/ NoReply \/ Rejected
  BY <1>1, <1>4 DEF Plan, StartCutting, CutSucceeds, CutFails, Ask, NoReply, Rejected
<1>5. CASE ChunkDone
  BY <1>1, <1>5 DEF ChunkDone
<1>6. CASE End
  BY <1>1, <1>2, <1>6 DEF End, Save, Fail, Finish, Tidy, FreshLocal
<1>7. CASE CancelRead \/ CancelWrite \/ Stop \/ Restart
  BY <1>1, <1>7 DEF CancelRead, CancelWrite, Stop, Restart
<1>8. CASE Crash \/ Unreadable
  BY <1>2, <1>8 DEF Crash, Unreadable, Die, FreshLocal
<1>9. CASE UNCHANGED vars
  BY <1>1, <1>9 DEF vars
<1> QED
  BY <1>3, <1>4, <1>5, <1>6, <1>7, <1>8, <1>9, ReplyIsCollected DEF Next, DoChunks

\* A transcript is written whole, and nothing happens to it or to the recording once
\* the job is done.
LEMMA NextSaved == Inv /\ [Next]_vars => Saved'
<1> SUFFICES ASSUME Inv, [Next]_vars PROVE Saved'
  OBVIOUS
<1> USE DEF row, disk, attempt, local
<1>0. TypeOK /\ Place /\ Cursor /\ Collected /\ Saved
  BY DEF Inv
<1>1. CASE UNCHANGED <<transcript, audio>> /\ (status' = "done" => status = "done")
  BY <1>0, <1>1 DEF Saved, TranscriptIsComplete
<1>2. CASE UNCHANGED transcript /\ status' # "done"
  BY <1>0, <1>2 DEF Saved, TranscriptIsComplete
<1>3. CASE pc \in Working /\ UNCHANGED <<transcript, status>>
  BY <1>0, <1>2, <1>3 DEF Place
<1>4. CASE FirstCommit
  <2>1. transcript'.parts = << >> /\ status' # "done"
    BY <1>0, <1>4 DEF FirstCommit, NoTranscript, Place, Working
  <2> QED
    BY <2>1, EmptySeq DEF Saved, TranscriptIsComplete, Forcing
<1>5. CASE Save
  <2>1. transcript'.parts = parts /\ transcript'.language = lang /\ audio' = audio
    BY <1>5 DEF Save
  <2>2. /\ Len(parts) \in Nat /\ Len(parts) > 0 /\ (audio = "whole" => Len(parts) = Chunks)
        /\ parts \in Seq(Part)
    BY <1>0, <1>5, LenProperties DEF Save, TypeOK, Cursor, InLoop
  <2>3. parts # << >>
    BY <2>2, EmptySeq
  <2>4. TranscriptIsComplete'
    BY <1>0, <2>1, <2>2, <2>3 DEF TranscriptIsComplete, Collected, InOrder
  <2>5. Forcing(transcript.parts, transcript.language)'
    BY <1>0, <2>1 DEF Collected, Forcing
  <2> QED
    BY <2>4, <2>5 DEF Saved
<1>6. CASE Claim
  BY <1>2, <1>6 DEF Claim
<1>7. CASE Fail \/ Finish \/ CancelWrite
  BY <1>2, <1>7 DEF Fail, Finish, CancelWrite
<1>8. CASE Restart
  BY <1>1, <1>8 DEF Restart
<1>9. CASE CancelRead \/ Stop \/ Tidy
  BY <1>1, <1>9 DEF CancelRead, Stop, Tidy
<1>10. CASE Crash \/ Unreadable
  BY <1>1, <1>10 DEF Crash, Unreadable, Die
<1>11. CASE \/ UseCheckpoint \/ StartNormalising \/ NothingToNormalise
            \/ NormaliseSucceeds \/ NormaliseFails \/ DropSource
  BY <1>3, <1>11
  DEF UseCheckpoint, StartNormalising, NothingToNormalise, NormaliseSucceeds,
      NormaliseFails, DropSource, Working
<1>12. CASE Plan \/ StartCutting \/ CutSucceeds \/ CutFails \/ Ask \/ NoReply \/ Rejected
  BY <1>3, <1>12
  DEF Plan, StartCutting, CutSucceeds, CutFails, Ask, NoReply, Rejected, Working
<1>13. CASE ChunkDone
  BY <1>3, <1>13 DEF ChunkDone, Working
<1>14. ASSUME NEW got \in MaybeLanguage, Reply(got) PROVE Saved'
  BY <1>3, <1>14 DEF Reply, Working
<1>15. CASE UNCHANGED vars
  BY <1>1, <1>15 DEF vars
<1> QED
  BY <1>4, <1>5, <1>6, <1>7, <1>8, <1>9, <1>10, <1>11, <1>12, <1>13, <1>14, <1>15
  DEF Next, Checkpoint, DoChunks, End

\* Whoever claims a job finds no transcript of it, and one appears with its last commit.
LEMMA NextPublished == Inv /\ [Next]_vars => Published'
<1> SUFFICES ASSUME Inv, [Next]_vars PROVE Published'
  OBVIOUS
<1> USE DEF Published
<1>0. Published
  BY DEF Inv
<1>1. CASE pc \in Working \union {"stopped"} /\ UNCHANGED transcript
  BY <1>0, <1>1 DEF Working, NoTranscript
<1>2. CASE UNCHANGED <<transcript, status>> /\ (pc' = pc \/ pc' \in {"tidy", "idle", "down"})
  BY <1>0, <1>2 DEF NoTranscript
<1>3. CASE \/ UseCheckpoint \/ StartNormalising \/ NothingToNormalise
           \/ NormaliseSucceeds \/ NormaliseFails \/ DropSource
  BY <1>1, <1>3
  DEF UseCheckpoint, StartNormalising, NothingToNormalise, NormaliseSucceeds, NormaliseFails,
      DropSource, row, Working
<1>4. CASE \/ Plan \/ StartCutting \/ CutSucceeds \/ CutFails \/ Ask \/ NoReply \/ Rejected
           \/ ChunkDone \/ \E got \in MaybeLanguage : Reply(got)
  BY <1>1, <1>4
  DEF Plan, StartCutting, CutSucceeds, CutFails, Ask, NoReply, Rejected, ChunkDone, Reply,
      row, Working
<1>5. CASE Claim
  BY <1>0, <1>5 DEF Claim, NoTranscript
<1>6. CASE FirstCommit
  BY <1>6 DEF FirstCommit, NoTranscript
<1>7. CASE Save
  BY <1>7 DEF Save
<1>8. CASE Fail \/ Finish \/ Stop
  BY <1>1, <1>8 DEF Fail, Finish, Stop, row, Working
<1>9. CASE CancelWrite
  BY <1>0, <1>9 DEF CancelWrite, NoTranscript
<1>10. CASE CancelRead \/ Tidy \/ Crash \/ Unreadable \/ UNCHANGED vars
  BY <1>2, <1>10 DEF CancelRead, Tidy, Crash, Unreadable, Die, row, vars
<1>11. CASE Restart
  BY <1>0, <1>11 DEF Restart, row, NoTranscript
<1> QED
  BY <1>3, <1>4, <1>5, <1>6, <1>7, <1>8, <1>9, <1>10, <1>11
  DEF Next, Checkpoint, DoChunks, End

-----------------------------------------------------------------------------
(* What follows *)

\* Every step keeps the invariant.
LEMMA PipelineInvariant == Spec => []Inv
<1>1. Inv /\ [Next]_vars => Inv'
  BY NextTypes, NextPlace, NextCursor, NextCollected, NextSaved, NextPublished DEF Inv
<1> QED
  BY InitInv, <1>1, PTL DEF Spec

\* Every variable keeps its type: no progress beyond the recording, no request beyond the
\* attempts allowed for a chunk.
THEOREM PipelineTypeCorrect == Spec => []TypeOK
<1>1. Inv => TypeOK
  BY DEF Inv
<1> QED
  BY PipelineInvariant, <1>1, PTL

\* Between the upload and audio.ogg there is always something for the next attempt to start
\* from: worker.py removes the one only when the other is whole, whatever it is stopped at.
THEOREM AttemptsHaveInput == Spec => []ResumableHasInput
<1>1. Inv => ResumableHasInput
  BY DEF Inv, Place, Over, ResumableHasInput
<1> QED
  BY PipelineInvariant, <1>1, PTL

\* No retry, cancellation or restart makes the loop of worker.py skip, repeat or reorder a
\* chunk of the transcript it saves.
THEOREM DoneIsComplete == Spec => []TranscriptIsComplete
<1>1. Inv => TranscriptIsComplete
  BY DEF Inv, Saved
<1> QED
  BY PipelineInvariant, <1>1, PTL

\* A transcript is in one language: the first one detected is asked for from then on.
THEOREM LanguageIsForced == Spec => []OneLanguage
<1>1. Inv => OneLanguage
  <2> SUFFICES ASSUME Inv PROVE OneLanguage
    OBVIOUS
  <2>1. Forcing(transcript.parts, transcript.language)
    BY DEF Inv, Saved
  <2> QED
    BY <2>1 DEF Forcing, OneLanguage
<1> QED
  BY PipelineInvariant, <1>1, PTL

\* The progress of an attempt starts at nothing and counts its own chunks.
THEOREM ProgressIsCurrent == Spec => []ProgressIsThisAttempts
<1>1. Inv => ProgressIsThisAttempts
  BY DEF Inv, Cursor, BeforePlan, InChunk, ProgressIsThisAttempts
<1> QED
  BY PipelineInvariant, <1>1, PTL

-----------------------------------------------------------------------------
(* Steps *)

\* What no step undoes: a whole recording, a saved transcript, and that a job is over or
\* being cancelled (which of the final words its row bears may still change: a late cancel
\* overwrites any of them, and a worker that goes on overwrites "cancelled").
LastingSteps ==
    /\ audio = "whole" => audio' = "whole"
    /\ transcript # NoTranscript => transcript' = transcript
    /\ status \in Over \union {"cancelling"} => status' \notin {"queued", "running"}

\* A step of the work, of a cancel request or of a recovery is such a step.
LEMMA StepsLast == Inv /\ [Next]_vars => [LastingSteps]_vars
<1> SUFFICES ASSUME Inv, [Next]_vars PROVE LastingSteps \/ UNCHANGED vars
  OBVIOUS
<1> USE DEF LastingSteps, Over, row, disk
<1>0. Place /\ Published
  BY DEF Inv
<1>1. CASE UNCHANGED <<audio, status, transcript>>
  BY <1>1
<1>2. CASE StartNormalising \/ NormaliseSucceeds \/ NormaliseFails
  BY <1>0, <1>2 DEF StartNormalising, NormaliseSucceeds, NormaliseFails, Place
<1>3. CASE UseCheckpoint \/ NothingToNormalise \/ DropSource
  BY <1>1, <1>3 DEF UseCheckpoint, NothingToNormalise, DropSource
<1>4. CASE Claim \/ Fail \/ Finish \/ CancelWrite
  BY <1>4 DEF Claim, Fail, Finish, CancelWrite
<1>5. CASE FirstCommit \/ Save
  BY <1>0, <1>5 DEF FirstCommit, Save, Published
<1>6. CASE Plan \/ StartCutting \/ CutSucceeds \/ CutFails \/ Ask \/ NoReply \/ Rejected
  BY <1>1, <1>6 DEF Plan, StartCutting, CutSucceeds, CutFails, Ask, NoReply, Rejected
<1>7. CASE ChunkDone \/ CancelRead \/ Stop \/ Tidy
  BY <1>1, <1>7 DEF ChunkDone, CancelRead, Stop, Tidy
<1>8. ASSUME NEW got \in MaybeLanguage, Reply(got) PROVE LastingSteps
  BY <1>1, <1>8 DEF Reply
<1>9. CASE Restart
  BY <1>9 DEF Restart
<1>10. CASE Crash \/ Unreadable
  BY <1>1, <1>10 DEF Crash, Unreadable, Die
<1> QED
  BY <1>2, <1>3, <1>4, <1>5, <1>6, <1>7, <1>8, <1>9, <1>10
  DEF Next, Checkpoint, DoChunks, End

\* As long as one worker at a time runs the job, nothing in worker.py, media.py or
\* api/jobs.py damages the checkpoint, takes a transcript away, or starts a job again that
\* is over or being cancelled.
THEOREM SettledStaysSettled == Spec => [][LastingSteps]_vars
  BY PipelineInvariant, StepsLast, PTL DEF Spec

\* The DELETE in the first commit of an attempt (worker.py:301) never meets a transcript
\* that readers have seen, in spite of late cancels and the recoveries that follow them.
THEOREM TranscriptStays == Spec => SavedTranscriptStays
<1>1. LastingSteps => (transcript # NoTranscript => transcript' = transcript)
  BY DEF LastingSteps
<1> QED
  BY SettledStaysSettled, <1>1, PTL DEF SavedTranscriptStays

-----------------------------------------------------------------------------
(* The work as the queue sees it *)

\* The job and its worker are 1, nobody is 0.
Holding == Working \union {"stopped", "tidy"}
Stage == IF status = "queued" THEN "waiting"
         ELSE IF status = "running" THEN "active" ELSE "over"
Owner == IF pc \in Holding THEN 1 ELSE 0
Delivered == IF transcript = NoTranscript THEN {} ELSE {1}

Lease == INSTANCE JobLease WITH
            Jobs <- {1}, Workers <- {1}, Nobody <- 0,
            stage <- [j \in {1} |-> Stage],
            owner <- [j \in {1} |-> Owner],
            delivered <- Delivered

\* A step of the work is one of the lease's, or changes nothing that it sees.
LEMMA StepIsLease == Inv /\ [Next]_vars => [Lease!Next]_(Lease!vars)
<1> SUFFICES ASSUME Inv, [Next]_vars PROVE [Lease!Next]_(Lease!vars)
  OBVIOUS
<1> DEFINE stage == [j \in {1} |-> Stage]
           owner == [j \in {1} |-> Owner]
<1>0. TypeOK /\ Place /\ Published
  BY DEF Inv
<1>1. CASE UNCHANGED <<Stage, Owner, Delivered>>
  <2>1. UNCHANGED Lease!vars
    BY <1>1 DEF Lease!vars
  <2> QED
    BY <2>1
<1>2. CASE Claim
  <2>1. /\ Stage = "waiting" /\ Stage' = "active" /\ Owner = 0 /\ Owner' = 1
        /\ Delivered' = Delivered
    BY <1>2 DEF Claim, Stage, Owner, Delivered, Holding, Working, NoTranscript
  <2>2. Lease!Grant(1, 1)
    BY <2>1 DEF Lease!Grant
  <2> QED
    BY <2>2 DEF Lease!Next
<1>3. CASE Save
  <2>1. status \in {"running", "cancelling", "cancelled"} /\ transcript = NoTranscript
    BY <1>0, <1>3 DEF Save, Place, Working, Published
  <2>2. transcript'.parts # << >>
    <3>1. Len(parts) = plan /\ plan > 0
      BY <1>3 DEF Inv, Cursor, InLoop, Save, TypeOK
    <3> QED
      BY <1>3, <3>1 DEF Save
  <2>3. /\ Stage \in {"active", "over"} /\ Stage' = "over" /\ Owner = 1 /\ Owner' = 1
        /\ Delivered = {} /\ Delivered' = {1}
    BY <1>3, <2>1, <2>2 DEF Save, Stage, Owner, Delivered, Holding, Working, NoTranscript
  <2>4. Lease!Deliver(1, 1)
    BY <2>3 DEF Lease!Deliver
  <2> QED
    BY <2>4 DEF Lease!Next
<1>4. CASE Fail \/ CancelWrite \/ Finish
  <2>1. /\ Stage' = "over" /\ Owner' = Owner /\ Delivered' = Delivered
    BY <1>4 DEF Fail, CancelWrite, Finish, Stage, Owner, Delivered, Holding, Working, NoTranscript
  <2>2. CASE Stage = "over"
    BY <1>1, <2>1, <2>2
  <2>3. CASE Stage \in {"waiting", "active"}
    <3>1. Lease!Close(1)
      BY <2>1, <2>3 DEF Lease!Close
    <3> QED
      BY <3>1 DEF Lease!Next
  <2> QED
    BY <2>2, <2>3 DEF Stage
<1>5. CASE Tidy \/ Crash \/ Unreadable
  <2>1. Stage' = Stage /\ Owner' = 0 /\ Delivered' = Delivered
    BY <1>5 DEF Tidy, Crash, Unreadable, Die, row, Stage, Owner, Delivered, Holding, Working,
                NoTranscript
  <2>2. CASE Owner = 0
    BY <1>1, <2>1, <2>2
  <2>3. CASE Owner = 1
    <3>1. Lease!Release(1, 1)
      BY <2>1, <2>3 DEF Lease!Release
    <3> QED
      BY <3>1 DEF Lease!Next
  <2> QED
    BY <2>2, <2>3 DEF Owner
<1>6. CASE Restart
  <2>1. Owner = 0 /\ Owner' = 0 /\ Delivered' = Delivered
    BY <1>6 DEF Restart, row, Owner, Delivered, Holding, Working, NoTranscript
  <2>2. CASE Stage' = Stage
    BY <1>1, <2>1, <2>2
  <2>3. CASE Stage' # Stage
    <3>1. Stage = "active" /\ Stage' = "waiting"
      BY <1>6, <2>3 DEF Restart, row, Stage
    <3>2. Lease!GiveBack({1})
      BY <2>1, <3>1 DEF Lease!GiveBack
    <3> QED
      BY <3>2 DEF Lease!Next
  <2> QED
    BY <2>2, <2>3
<1>7. CASE FirstCommit
  <2>1. transcript = NoTranscript
    BY <1>0, <1>7 DEF FirstCommit, Published
  <2> QED
    BY <1>1, <1>7, <2>1
    DEF FirstCommit, Raise, Stage, Owner, Delivered, Holding, Working, NoTranscript
<1>8. CASE \/ UseCheckpoint \/ StartNormalising \/ NothingToNormalise \/ NormaliseSucceeds
           \/ NormaliseFails \/ DropSource \/ Stop \/ CancelRead
  BY <1>1, <1>8
  DEF UseCheckpoint, StartNormalising, NothingToNormalise, NormaliseSucceeds, NormaliseFails,
      DropSource, Stop, CancelRead, Raise, row, Stage, Owner, Delivered, Holding, Working, NoTranscript
<1>9. CASE \/ Plan \/ StartCutting \/ CutSucceeds \/ CutFails \/ Ask \/ NoReply \/ Rejected
           \/ (\E got \in MaybeLanguage : Reply(got)) \/ ChunkDone
  BY <1>1, <1>9
  DEF Plan, StartCutting, CutSucceeds, CutFails, Ask, Reply, NoReply, Rejected, ChunkDone,
      Raise, row, Stage, Owner, Delivered, Holding, Working, NoTranscript
<1>10. CASE UNCHANGED vars
  BY <1>1, <1>10 DEF vars, row, Stage, Owner, Delivered, NoTranscript
<1> QED
  BY <1>2, <1>3, <1>4, <1>5, <1>6, <1>7, <1>8, <1>9, <1>10 DEF Next, Checkpoint, DoChunks, End

\* From the state after JobLease's Submit on, every step of the work is one of JobLease's or
\* changes nothing that it sees: checkpoints, retries, failures, cancels and restarts of
\* worker.py add nothing to what the queue's specification allows.
THEOREM WorkKeepsTheLease ==
    Spec => /\ Stage = "waiting" /\ Owner = 0 /\ Delivered = {}
            /\ [][Lease!Next]_(Lease!vars)
<1>1. Init => Stage = "waiting" /\ Owner = 0 /\ Delivered = {}
  BY DEF Init, Stage, Owner, Delivered, Holding, Working
<1> QED
  BY PipelineInvariant, StepIsLease, <1>1, PTL DEF Spec

=============================================================================
