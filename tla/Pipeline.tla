------------------------------ MODULE Pipeline ------------------------------
(***************************************************************************)
(* The transcription of one job: the upload is normalised to audio.ogg,    *)
(* the audio is planned into chunks, each chunk is cut out and sent to the *)
(* provider, and the replies become the transcript.  The worker may crash, *)
(* or be told to stop, between any two steps, and start over.              *)
(*                                                                         *)
(* Source: backend/app/worker.py (_process and what it calls), media.py,   *)
(* stt.py.                                                                 *)
(*                                                                         *)
(* Covered: every file the job leaves on disk and when; the subprocess or  *)
(*   the HTTP request under way; the retries of a chunk; the language that *)
(*   is detected once and then forced; every commit to the row; cancel     *)
(*   requests, which write what follows from what they read; ApiErrors.    *)
(* Abstracted: the audio itself ("partial": ffmpeg was stopped while it    *)
(*   wrote it), the texts, the plan (Chunking models it), of which only    *)
(*   the number of chunks is kept; the short ffprobe and silencedetect     *)
(*   runs, which are part of the step around them.                         *)
(* Left to JobQueue: two workers, heartbeats, and a supervisor that races  *)
(*   with the final commit of the work (Stop is one step here).            *)
(***************************************************************************)
EXTENDS Integers, Sequences

CONSTANTS
    Chunks,     \* how many chunks the whole recording is planned into
    Attempts,   \* stt_retry_attempts, at least 1
    Languages,  \* what a provider may detect
    NoLanguage  \* a reply, or a row, without one

ASSUME ChunksAssumption == Chunks \in Nat \ {0}
ASSUME AttemptsAssumption == Attempts \in Nat \ {0}
ASSUME LanguageAssumption == NoLanguage \notin Languages

VARIABLES
    \* the row
    status,     \* jobs.status
    error,      \* jobs.error_code
    progress,   \* jobs.progress, in chunks
    transcript, \* the transcripts row: its parts and its language
    \* the API
    asks,       \* what cancel requests have read and not written yet
    \* the disk
    source,     \* tmp/{id}/source* is there
    audio,      \* media/{id}/audio.ogg: "none", "partial" or "whole"
    pieces,     \* the chunk files in tmp/{id}
    \* the worker process
    pc,         \* where _run_transcription is
    tool,       \* the ffmpeg or the request it waits for
    plan,       \* how many chunks this attempt has to do
    chunk,      \* the current one
    tries,      \* requests sent for it
    lang,       \* the language to force, if any
    failure,    \* the code of the ApiError to record
    parts       \* the replies collected in this attempt

row == <<status, error, progress, transcript>>
disk == <<source, audio, pieces>>
attempt == <<plan, chunk, tries, lang, parts>>
local == <<attempt, failure>>
vars == <<row, asks, disk, pc, tool, local>>

Over == {"done", "failed", "cancelled"}
MaybeLanguage == Languages \union {NoLanguage}
Part == [chunk: 1 .. Chunks, asked: MaybeLanguage, got: MaybeLanguage]
NoTranscript == [parts |-> << >>, language |-> NoLanguage]
\* "bad_media" stands for unsupported_media, no_audio_stream and normalisation_failed,
\* "no_stt_provider" for no_stt_model as well.
Errors == {"none", "source_missing", "bad_media", "no_stt_provider",
           "chunking_failed", "stt_rejected_request", "stt_unavailable"}

\* Where the working task can be when a CancelledError reaches it.
Working == {"start", "normalising", "normalised", "commit", "plan", "cut", "cutting",
            "ask", "waiting", "replied", "save", "fail"}

TypeOK ==
    /\ status \in {"queued", "running", "cancelling"} \union Over
    /\ error \in Errors
    /\ progress \in 0 .. Chunks
    /\ transcript \in [parts: Seq(Part), language: MaybeLanguage]
    /\ asks \subseteq {"queued", "running"}
    /\ source \in BOOLEAN
    /\ audio \in {"none", "partial", "whole"}
    /\ pieces \in SUBSET (1 .. Chunks)
    /\ pc \in {"down", "idle", "stopped", "tidy"} \union Working
    /\ tool \in {"none", "ffmpeg", "http"}
    /\ plan \in 0 .. Chunks
    /\ chunk \in 1 .. Chunks
    /\ tries \in 0 .. Attempts
    /\ lang \in MaybeLanguage
    /\ failure \in Errors
    /\ parts \in Seq(Part)

\* What a process without a job has in memory.
FreshLocal ==
    /\ plan' = 0
    /\ chunk' = 1
    /\ tries' = 0
    /\ lang' = NoLanguage
    /\ failure' = "none"
    /\ parts' = << >>

\* The upload has been committed.
Init ==
    /\ status = "queued" /\ error = "none" /\ progress = 0 /\ transcript = NoTranscript
    /\ asks = {}
    /\ source = TRUE /\ audio = "none" /\ pieces = {}
    /\ pc = "down" /\ tool = "none"
    /\ plan = 0 /\ chunk = 1 /\ tries = 0 /\ lang = NoLanguage /\ parts = << >>
    /\ failure = "none"

-----------------------------------------------------------------------------
(* The checkpoint *)

Claim ==
    /\ pc = "idle" /\ status = "queued"
    /\ status' = "running"
    /\ pc' = "start"
    /\ UNCHANGED <<asks, error, progress, transcript, disk, tool, local>>

\* An ApiError: what is left is to record it.
Raise(code) ==
    /\ failure' = code
    /\ pc' = "fail"

\* audio.ogg is there: it is probed and ffmpeg is skipped.  A partial file may be
\* one that ffprobe cannot read.
UseCheckpoint ==
    /\ pc = "start" /\ audio # "none"
    /\ \/ pc' = "commit" /\ UNCHANGED failure
       \/ audio = "partial" /\ Raise("bad_media")
    /\ UNCHANGED <<row, asks, disk, tool, attempt>>

\* ffmpeg writes audio.ogg in place, so the file exists from here on.
StartNormalising ==
    /\ pc = "start" /\ audio = "none" /\ source
    /\ audio' = "partial"
    /\ tool' = "ffmpeg"
    /\ pc' = "normalising"
    /\ UNCHANGED <<row, asks, source, pieces, local>>

\* No upload, or one that ffprobe rejects or that has no sound.
NothingToNormalise ==
    /\ pc = "start" /\ audio = "none"
    /\ Raise(IF source THEN "bad_media" ELSE "source_missing")
    /\ UNCHANGED <<row, asks, disk, tool, attempt>>

\* ffmpeg is done; the result is probed, which may fail and leaves the file.
NormaliseSucceeds ==
    /\ pc = "normalising"
    /\ audio' = "whole"
    /\ tool' = "none"
    /\ \/ pc' = "normalised" /\ UNCHANGED failure
       \/ Raise("bad_media")
    /\ UNCHANGED <<row, asks, source, pieces, attempt>>

NormaliseFails ==
    /\ pc = "normalising"
    /\ audio' = "none"
    /\ tool' = "none"
    /\ Raise("bad_media")
    /\ UNCHANGED <<row, asks, source, pieces, attempt>>

\* The upload goes.
DropSource ==
    /\ pc = "normalised"
    /\ source' = FALSE
    /\ pc' = "commit"
    /\ UNCHANGED <<row, asks, audio, pieces, tool, local>>

\* The first commit deletes the transcript of an earlier attempt.
FirstCommit ==
    /\ pc = "commit"
    /\ transcript' = NoTranscript
    /\ \/ pc' = "plan" /\ UNCHANGED failure
       \/ Raise("no_stt_provider")
    /\ UNCHANGED <<asks, status, error, progress, disk, tool, attempt>>

-----------------------------------------------------------------------------
(* The chunks *)

\* A partial recording is shorter.
Plan ==
    /\ pc = "plan"
    /\ plan' \in IF audio = "whole" THEN {Chunks} ELSE 1 .. Chunks
    /\ pc' = "cut"
    /\ UNCHANGED <<row, asks, disk, tool, chunk, tries, lang, parts, failure>>

\* A single chunk is the audio itself.
StartCutting ==
    /\ pc = "cut"
    /\ IF plan = 1
       THEN pc' = "ask" /\ UNCHANGED <<pieces, tool>>
       ELSE pc' = "cutting" /\ tool' = "ffmpeg" /\ pieces' = pieces \union {chunk}
    /\ UNCHANGED <<row, asks, source, audio, local>>

CutSucceeds ==
    /\ pc = "cutting"
    /\ tool' = "none"
    /\ pc' = "ask"
    /\ UNCHANGED <<row, asks, disk, local>>

CutFails ==
    /\ pc = "cutting"
    /\ tool' = "none"
    /\ pieces' = pieces \ {chunk}
    /\ Raise("chunking_failed")
    /\ UNCHANGED <<row, asks, source, audio, attempt>>

Ask ==
    /\ pc = "ask"
    /\ tool' = "http"
    /\ tries' = tries + 1
    /\ pc' = "waiting"
    /\ UNCHANGED <<row, asks, disk, plan, chunk, lang, parts, failure>>

\* Mutant: what the provider detects last wins.
ForcedLast(got) == IF got = NoLanguage THEN lang ELSE got
\* language = language or result.language
Forced(got) == IF lang = NoLanguage THEN got ELSE lang

Reply(got) ==
    /\ pc = "waiting"
    /\ tool' = "none"
    /\ lang' = Forced(got)
    /\ parts' = Append(parts, [chunk |-> chunk, asked |-> lang, got |-> got])
    /\ pc' = "replied"
    /\ UNCHANGED <<row, asks, disk, plan, chunk, tries, failure>>

\* Mutants: one request too many; no limit at all; the chunk is skipped.
NoReplyOneMore ==
    /\ pc = "waiting"
    /\ tool' = "none"
    /\ IF tries <= Attempts THEN pc' = "ask" /\ UNCHANGED failure
                            ELSE Raise("stt_unavailable")
    /\ UNCHANGED <<row, asks, disk, attempt>>
NoReplyForever ==
    /\ pc = "waiting"
    /\ tool' = "none"
    /\ tries' = 0
    /\ pc' = "ask"
    /\ UNCHANGED <<row, asks, disk, plan, chunk, lang, parts, failure>>
NoReplySkips ==
    /\ pc = "waiting"
    /\ tool' = "none"
    /\ pc' = IF tries < Attempts THEN "ask" ELSE "replied"
    /\ UNCHANGED <<row, asks, disk, local>>

\* stt_unreachable or stt_server_error: back to Ask after a pause, or give up.
NoReply ==
    /\ pc = "waiting"
    /\ tool' = "none"
    /\ IF tries < Attempts THEN pc' = "ask" /\ UNCHANGED failure
                           ELSE Raise("stt_unavailable")
    /\ UNCHANGED <<row, asks, disk, attempt>>

Rejected ==
    /\ pc = "waiting"
    /\ tool' = "none"
    /\ Raise("stt_rejected_request")
    /\ UNCHANGED <<row, asks, disk, attempt>>

\* The piece goes and the progress is committed.
ChunkDone ==
    /\ pc = "replied"
    /\ pieces' = pieces \ {chunk}
    /\ progress' = (chunk * Chunks) \div plan
    /\ tries' = 0
    /\ IF chunk < plan THEN chunk' = chunk + 1 /\ pc' = "cut"
                       ELSE chunk' = chunk /\ pc' = "save"
    /\ UNCHANGED <<asks, status, error, transcript, source, audio, tool, plan, lang, parts,
                   failure>>

-----------------------------------------------------------------------------
(* The end of an attempt *)

\* The transcript and the status are one commit.
Save ==
    /\ pc = "save"
    /\ transcript' = [parts |-> parts, language |-> lang]
    /\ status' = "done"
    /\ progress' = Chunks
    /\ pc' = "tidy"
    /\ UNCHANGED <<asks, error, disk, tool, local>>

Fail ==
    /\ pc = "fail"
    /\ status' = "failed"
    /\ error' = failure
    /\ pc' = "tidy"
    /\ UNCHANGED <<asks, progress, transcript, disk, tool, local>>

\* POST /api/jobs/{id}/cancel loads the row (any other status is a 409); the SELECT
\* opens no transaction, so nothing holds the row.
CancelRead ==
    /\ status \in {"queued", "running"}
    /\ asks' = asks \union {status}
    /\ UNCHANGED <<row, disk, pc, tool, local>>

\* UPDATE jobs SET status WHERE id, over whatever the worker has made of the job since.
\* The request stays when another one that read the same is under way.
CancelWrite == \E saw \in asks :
    /\ status' = IF saw = "queued" THEN "cancelled" ELSE "cancelling"
    /\ asks' \in {asks, asks \ {saw}}
    /\ UNCHANGED <<error, progress, transcript, disk, pc, tool, local>>

\* The supervisor looks for nothing but "cancelling".  It cancels the working task:
\* media.run kills ffmpeg, httpx drops the request.
Stop ==
    /\ status = "cancelling" /\ pc \in Working
    /\ tool' = "none"
    /\ pc' = "stopped"
    /\ UNCHANGED <<row, asks, disk, local>>

Finish ==
    /\ pc = "stopped"
    /\ status' = "cancelled"
    /\ pc' = "tidy"
    /\ UNCHANGED <<asks, error, progress, transcript, disk, tool, local>>

\* _clear_workspace removes all of tmp/{id}.
Tidy ==
    /\ pc = "tidy"
    /\ source' = FALSE
    /\ pieces' = {}
    /\ pc' = "idle"
    /\ FreshLocal
    /\ UNCHANGED <<row, asks, audio, tool>>

-----------------------------------------------------------------------------
(* Crash and restart *)

\* Mutant: a shutdown cleans up as if the job were over.
CrashTidies ==
    /\ pc # "down"
    /\ pc' = "down"
    /\ tool' = "none"
    /\ FreshLocal
    /\ source' = FALSE
    /\ pieces' = {}
    /\ UNCHANGED <<row, asks, audio>>

\* The process ends, and whatever it was waiting for; rows and files stay.
Die ==
    /\ pc' = "down"
    /\ tool' = "none"
    /\ FreshLocal
    /\ UNCHANGED <<row, asks, disk>>

\* The container goes.
Crash == pc # "down" /\ Die

\* A reply with status 200 that is no JSON raises no ApiError, so that nothing records it:
\* the exception leaves _execute, _run_transcription and run_forever.
Unreadable == pc = "waiting" /\ Die

\* Mutants: a requeued job keeps the progress of the attempt that died; a job that was
\* being cancelled is requeued.
RestartKeepsProgress ==
    /\ pc = "down"
    /\ pc' = "idle"
    /\ \/ UNCHANGED row
       \/ /\ status \in {"running", "cancelling"}
          /\ status' = IF status = "running" THEN "queued" ELSE "cancelled"
          /\ UNCHANGED <<error, progress, transcript>>
    /\ UNCHANGED <<asks, disk, tool, local>>

RestartRequeuesAll ==
    /\ pc = "down"
    /\ pc' = "idle"
    /\ \/ UNCHANGED row
       \/ /\ status \in {"running", "cancelling"}
          /\ status' = "queued" /\ progress' = 0
          /\ UNCHANGED <<error, transcript>>
    /\ UNCHANGED <<asks, disk, tool, local>>

\* recover_stale_jobs: the heartbeat may be too young for it.
Restart ==
    /\ pc = "down"
    /\ pc' = "idle"
    /\ \/ UNCHANGED row
       \/ /\ status = "running"
          /\ status' = "queued" /\ progress' = 0
          /\ UNCHANGED <<error, transcript>>
       \/ /\ status = "cancelling"
          /\ status' = "cancelled"
          /\ UNCHANGED <<error, progress, transcript>>
    /\ UNCHANGED <<asks, disk, tool, local>>

-----------------------------------------------------------------------------

Checkpoint ==
    \/ Claim \/ UseCheckpoint \/ StartNormalising \/ NothingToNormalise
    \/ NormaliseSucceeds \/ NormaliseFails \/ DropSource \/ FirstCommit

DoChunks ==
    \/ Plan \/ StartCutting \/ CutSucceeds \/ CutFails \/ Ask
    \/ \E got \in MaybeLanguage : Reply(got)
    \/ NoReply \/ Rejected \/ Unreadable \/ ChunkDone

End == Save \/ Fail \/ Finish \/ Tidy

Next ==
    \/ Checkpoint \/ DoChunks \/ End
    \/ CancelRead \/ CancelWrite \/ Stop
    \/ Crash \/ Restart

Spec == Init /\ [][Next]_vars

\* The event loop goes on, ffmpeg ends, and requests time out; a container that
\* exits is started again.
FairSpec ==
    /\ Spec
    /\ WF_vars(Checkpoint \/ DoChunks \/ End)
    /\ WF_vars(Stop)
    /\ WF_vars(Restart)

-----------------------------------------------------------------------------
(* Properties *)

\* A job that is queued, runs or was left behind has something to start from: the
\* upload or the checkpoint.  Nobody is told that the upload is gone.
ResumableHasInput ==
    /\ status \in {"queued", "running"} => source \/ audio # "none"
    /\ failure # "source_missing"

\* The transcript of a done job has every chunk of the audio once, in order,
\* whatever was retried, cancelled or started over on the way.
TranscriptIsComplete ==
    status = "done" =>
        /\ \A k \in 1 .. Len(transcript.parts) : transcript.parts[k].chunk = k
        /\ audio = "whole" => Len(transcript.parts) = Chunks
        /\ transcript.parts # << >>

\* The first language detected is forced on every later chunk and is the language
\* of the transcript (worker.py:324).
OneLanguage ==
    \A a, b \in 1 .. Len(transcript.parts) :
        LET first == transcript.parts[a]
            later == transcript.parts[b]
        IN  a < b =>
              /\ first.asked # NoLanguage => later.asked = first.asked
              /\ first.got # NoLanguage =>
                    later.asked # NoLanguage /\ transcript.language = later.asked

\* The progress users see is that of the attempt under way, not of one that died.
ProgressIsThisAttempts ==
    /\ pc \in {"start", "normalising", "normalised", "commit", "plan"} => progress = 0
    /\ pc \in {"cut", "cutting", "ask", "waiting"} =>
          progress = ((chunk - 1) * Chunks) \div plan

\* A transcript that was saved stays as it is.  The first commit of an attempt deletes
\* what it finds, and late cancels, crashes and recoveries go on after the last commit
\* of another; they never lead to a new attempt.
SavedTranscriptStays ==
    [][transcript # NoTranscript => transcript' = transcript]_vars

\* Every attempt comes to an end: the retries are bounded.
AttemptEnds == pc \in Working ~> pc \in {"idle", "down"}

\* backend/app/worker.py:286, "Normalised audio is the checkpoint": a job is done
\* only with the whole recording.
CheckpointIsNormalised == status = "done" => audio = "whole"

=============================================================================
