----------------------------- MODULE Summaries ------------------------------
(***************************************************************************)
(* Summaries: users queue them, delete them and edit or delete the presets *)
(* they use; the worker claims them when no recording waits, summarises    *)
(* the transcript part by part (map), then the partial summaries (reduce), *)
(* and streams the answer into the row.                                    *)
(*                                                                         *)
(* Source: backend/app/summary_runner.py, worker.py (run_once,             *)
(* _claim_summary, _run_summary), api/summaries.py, api/presets.py,        *)
(* seed.py (the built-in presets).                                         *)
(*                                                                         *)
(* Covered: the statements of the worker, between any two of which the row *)
(*   or its preset may be deleted, the preset edited, and the worker may   *)
(*   crash; the order of the queue; the two error paths, an ApiError that  *)
(*   is recorded and any other exception, which ends the process.          *)
(* Abstracted: texts and budgets (only the number of parts is kept, and of *)
(*   a preset whether it reads as it did at first); owners and names; a    *)
(*   recording is one that waits, that is being transcribed, or none.      *)
(* A deleted row's id stands for a new row afterwards, so that there is no *)
(* limit to how many summaries users ask for.                              *)
(***************************************************************************)
EXTENDS Integers, FiniteSets, SequencesExt

CONSTANTS
    Ids,        \* summaries that exist at a time
    Presets,    \* presets, users' and built-in ones
    Builtin,    \* those that come with the release
    NoPreset,   \* summaries.preset_id is NULL
    NoSummary,  \* the worker has none
    MaxParts    \* the most parts a transcript is split into

ASSUME PresetAssumption == NoPreset \notin Presets /\ Builtin \subseteq Presets
ASSUME SummaryAssumption == NoSummary \notin Ids
ASSUME PartsAssumption == MaxParts \in Nat

VARIABLES
    status,     \* summaries.status, "absent" when there is no row
    queue,      \* the queued summaries, oldest first
    preset,     \* summaries.preset_id
    partials,   \* how many map results are in partials_json
    content,    \* summaries.content: "empty", "growing" or "final"
    presets,    \* the presets that exist
    wording,    \* what each reads like, see Wordings
    recording,  \* "none", "waiting" or "running"
    pc,         \* where the worker is
    current,    \* the summary it is busy with
    parts,      \* how many parts the transcript was split into
    mapped,     \* how many of them the model has answered
    loaded,     \* the wording in the Preset object of its session
    asked,      \* history: the wordings in the requests for that summary
    split       \* history: the number of parts of each summary

rows == <<status, queue, preset, partials, content>>
shelf == <<presets, wording>>
prompt == <<loaded, asked>>
worker == <<pc, current, parts, mapped, prompt>>
vars == <<rows, shelf, recording, worker, split>>

Wordings == {"first", "edited"}

Running == {"claimed", "map", "mapped", "stream", "answered", "failing"}

TypeOK ==
    /\ status \in [Ids -> {"absent", "queued", "running", "done", "failed"}]
    /\ queue \in Seq(Ids)
    /\ preset \in [Ids -> Presets \union {NoPreset}]
    /\ partials \in [Ids -> 0 .. MaxParts]
    /\ content \in [Ids -> {"empty", "growing", "final"}]
    /\ presets \in SUBSET Presets
    /\ wording \in [Presets -> Wordings]
    /\ recording \in {"none", "waiting", "running"}
    /\ pc \in {"down", "idle", "transcribing"} \union Running
    /\ current \in Ids \union {NoSummary}
    /\ parts \in 0 .. MaxParts
    /\ mapped \in 0 .. MaxParts
    /\ loaded \in Wordings /\ asked \subseteq Wordings
    /\ split \in [Ids -> 0 .. MaxParts]

Init ==
    /\ status = [s \in Ids |-> "absent"]
    /\ queue = << >>
    /\ preset = [s \in Ids |-> NoPreset]
    /\ partials = [s \in Ids |-> 0]
    /\ content = [s \in Ids |-> "empty"]
    /\ presets = {}
    /\ wording = [p \in Presets |-> "first"]
    /\ recording = "none"
    /\ pc = "down" /\ current = NoSummary /\ parts = 0 /\ mapped = 0
    /\ loaded = "first" /\ asked = {}
    /\ split = [s \in Ids |-> 0]

-----------------------------------------------------------------------------
(* The API *)

\* POST /jobs/{id}/summaries, for a transcript that is there.  The worker never
\* meets the new row under the id of one it still works on.
Create(s, p) ==
    /\ status[s] = "absent" /\ s # current
    /\ p \in presets
    /\ status' = [status EXCEPT ![s] = "queued"]
    /\ queue' = Append(queue, s)
    /\ preset' = [preset EXCEPT ![s] = p]
    /\ UNCHANGED <<partials, content, shelf, recording, worker, split>>

\* DELETE /summaries/{id} takes a row in any status.
Delete(s) ==
    /\ status[s] # "absent"
    /\ status' = [status EXCEPT ![s] = "absent"]
    /\ queue' = RemoveFirst(queue, s)
    /\ preset' = [preset EXCEPT ![s] = NoPreset]
    /\ partials' = [partials EXCEPT ![s] = 0]
    /\ content' = [content EXCEPT ![s] = "empty"]
    /\ split' = [split EXCEPT ![s] = 0]
    /\ UNCHANGED <<shelf, recording, worker>>

\* Mutant: nobody looks whether a preset is a built-in one.
EditableAll(p) == p \in presets
\* _editable_preset
Editable(p) == p \in presets \ Builtin

\* DELETE /presets/{id}: the foreign key sets preset_id to NULL.
DeletePreset(p) ==
    /\ Editable(p)
    /\ presets' = presets \ {p}
    /\ preset' = [s \in Ids |-> IF preset[s] = p THEN NoPreset ELSE preset[s]]
    /\ wording' = [wording EXCEPT ![p] = "first"]
    /\ UNCHANGED <<status, queue, partials, content, recording, worker, split>>

\* POST /presets
CreatePreset(p) ==
    /\ p \notin presets \union Builtin
    /\ presets' = presets \union {p}
    /\ UNCHANGED <<rows, wording, recording, worker, split>>

\* PUT /presets/{id}
UpdatePreset(p, w) ==
    /\ Editable(p)
    /\ wording' = [wording EXCEPT ![p] = w]
    /\ UNCHANGED <<rows, presets, recording, worker, split>>

\* seed_builtin_presets, at each start of the API: those that are missing.
Seed ==
    /\ ~ Builtin \subseteq presets
    /\ presets' = presets \union Builtin
    /\ UNCHANGED <<rows, wording, recording, worker, split>>

\* POST /api/jobs
Upload ==
    /\ recording = "none"
    /\ recording' = "waiting"
    /\ UNCHANGED <<rows, shelf, worker, split>>

-----------------------------------------------------------------------------
(* The worker *)

\* Mutant: summaries do not wait for recordings.
SummaryTurnAlways == TRUE
\* run_once: a summary is claimed only when _claim found no recording.
SummaryTurn == recording # "waiting"

\* Mutant: the newest first.
NewestQueued == queue[Len(queue)]
\* ORDER BY created_at LIMIT 1
NextQueued == Head(queue)

\* Mutants of the loop: one part too few, one too many.
MorePartsButOne == mapped + 1 < parts
MorePartsAndOne == mapped <= parts
\* for index, part in enumerate(parts)
MoreParts == mapped < parts

ClaimRecording ==
    /\ pc = "idle" /\ recording = "waiting"
    /\ recording' = "running"
    /\ pc' = "transcribing"
    /\ UNCHANGED <<rows, shelf, current, parts, mapped, prompt, split>>

\* Done, failed or cancelled: the loop goes on.
EndRecording ==
    /\ pc = "transcribing"
    /\ recording' = "none"
    /\ pc' = "idle"
    /\ UNCHANGED <<rows, shelf, current, parts, mapped, prompt, split>>

ClaimSummary ==
    /\ pc = "idle" /\ SummaryTurn
    /\ queue # << >>
    /\ current' = NextQueued
    /\ status' = [status EXCEPT ![NextQueued] = "running"]
    /\ queue' = RemoveFirst(queue, NextQueued)
    /\ pc' = "claimed"
    /\ UNCHANGED <<preset, partials, content, shelf, recording, parts, mapped, prompt, split>>

RowThere == status[current] # "absent"

\* The preset is gone, or there is no model to ask.
CannotRun ==
    /\ pc = "claimed" /\ RowThere
    /\ pc' = "failing"
    /\ UNCHANGED <<rows, shelf, recording, current, parts, mapped, prompt, split>>

\* The transcript is split.  One part needs no map; an empty transcript has no
\* part and goes straight to reduce.
Prepare(n) ==
    /\ pc = "claimed" /\ RowThere
    /\ preset[current] # NoPreset
    /\ parts' = n
    /\ mapped' = 0
    /\ split' = [split EXCEPT ![current] = n]
    /\ pc' = IF n > 1 THEN "map" ELSE "stream"
    /\ loaded' = wording[preset[current]] /\ asked' = {}
    /\ UNCHANGED <<rows, shelf, recording, current>>

\* Mutant: a commit expires the objects of the session, as is SQLAlchemy's default, so
\* that the preset is read again for the next request.
AskingAfresh ==
    /\ loaded' = IF preset[current] # NoPreset THEN wording[preset[current]] ELSE loaded
    /\ asked' = asked \union {loaded'}

\* A request is made from the Preset object: expire_on_commit is False (db.py).
Asking ==
    /\ loaded' = loaded
    /\ asked' = asked \union {loaded}

MapReply ==
    /\ pc = "map"
    /\ mapped' = mapped + 1
    /\ Asking
    /\ pc' = "mapped"
    /\ UNCHANGED <<rows, shelf, recording, current, parts, split>>

\* The commit of partials_json.
KeepPartial ==
    /\ pc = "mapped" /\ RowThere
    /\ partials' = [partials EXCEPT ![current] = mapped]
    /\ pc' = IF MoreParts THEN "map" ELSE "stream"
    /\ UNCHANGED <<status, queue, preset, content, shelf, recording, current, parts,
                   mapped, prompt, split>>

\* What has been streamed so far is committed for the browser to see.
Flush ==
    /\ pc = "stream" /\ RowThere
    /\ content' = [content EXCEPT ![current] = "growing"]
    /\ Asking
    /\ UNCHANGED <<status, queue, preset, partials, shelf, recording, pc, current, parts,
                   mapped, split>>

StreamEnds ==
    /\ pc = "stream"
    /\ pc' = "answered"
    /\ Asking
    /\ UNCHANGED <<rows, shelf, recording, current, parts, mapped, split>>

\* An ApiError of the language model: it is asked once only.
ModelFails ==
    /\ pc \in {"map", "stream"}
    /\ pc' = "failing"
    /\ UNCHANGED <<rows, shelf, recording, current, parts, mapped, prompt, split>>

Leave ==
    /\ current' = NoSummary
    /\ parts' = 0
    /\ mapped' = 0
    /\ loaded' = "first" /\ asked' = {}

Succeed ==
    /\ pc = "answered" /\ RowThere
    /\ status' = [status EXCEPT ![current] = "done"]
    /\ content' = [content EXCEPT ![current] = "final"]
    /\ pc' = "idle"
    /\ Leave
    /\ UNCHANGED <<queue, preset, partials, shelf, recording, split>>

\* Mutant: a failure starts the row over.
RecordFailureClears ==
    /\ pc = "failing" /\ RowThere
    /\ status' = [status EXCEPT ![current] = "failed"]
    /\ partials' = [partials EXCEPT ![current] = 0]
    /\ pc' = "idle"
    /\ Leave
    /\ UNCHANGED <<queue, preset, content, shelf, recording, split>>

RecordFailure ==
    /\ pc = "failing" /\ RowThere
    /\ status' = [status EXCEPT ![current] = "failed"]
    /\ pc' = "idle"
    /\ Leave
    /\ UNCHANGED <<queue, preset, partials, content, shelf, recording, split>>

\* The row was deleted: the assert after the claim, or an UPDATE that matches no
\* row, is no ApiError and ends the process.
RowGone ==
    /\ pc \in {"claimed", "mapped", "stream", "answered", "failing"}
    /\ ~RowThere
    /\ pc' = "down"
    /\ Leave
    /\ UNCHANGED <<rows, shelf, recording, split>>

\* The row stays running, and a recording would be left as JobQueue says.
Crash ==
    /\ pc # "down"
    /\ pc' = "down"
    /\ Leave
    /\ recording' = IF recording = "running" THEN "none" ELSE recording
    /\ UNCHANGED <<rows, shelf, split>>

\* recover_stale_jobs never looks at summaries.
Restart ==
    /\ pc = "down"
    /\ pc' = "idle"
    /\ UNCHANGED <<rows, shelf, recording, current, parts, mapped, prompt, split>>

-----------------------------------------------------------------------------

Api ==
    \/ \E s \in Ids, p \in Presets : Create(s, p)
    \/ \E s \in Ids : Delete(s)
    \/ \E p \in Presets :
          DeletePreset(p) \/ CreatePreset(p) \/ (\E w \in Wordings : UpdatePreset(p, w))
    \/ Seed
    \/ Upload

Work ==
    \/ ClaimRecording \/ EndRecording \/ ClaimSummary
    \/ CannotRun \/ (\E n \in 0 .. MaxParts : Prepare(n))
    \/ MapReply \/ KeepPartial \/ StreamEnds \/ ModelFails
    \/ Succeed \/ RecordFailure \/ RowGone

Next == Api \/ Work \/ Flush \/ Crash \/ Restart

Spec == Init /\ [][Next]_vars

\* The worker's loop goes on (a stream ends, by its timeout if need be) and a
\* worker that exits is started again.
FairSpec == Spec /\ WF_vars(Work) /\ WF_vars(Restart)

WorkerStaysUp == <>[](pc # "down")
UploadsStop == <>[](recording = "none")

-----------------------------------------------------------------------------
(* Properties *)

\* A finished summary of a long transcript rests on every part of it, and its text
\* is the whole answer.
DoneCoversTranscript ==
    \A s \in Ids : status[s] = "done" =>
        /\ split[s] > 1 => partials[s] = split[s]
        /\ content[s] = "final"

\* A row per attempt, never an overwrite (models.py:157): a finished summary stays
\* as it is until it is deleted, and map results are never lost.
AttemptsAreKept ==
    [][\A s \in Ids : status[s] # "absent" /\ status'[s] # "absent" =>
          /\ partials'[s] >= partials[s]
          /\ status[s] \in {"done", "failed"} =>
                status'[s] = status[s] /\ content'[s] = content[s]]_vars

\* All parts of a summary, and what is made of them, are asked for in the words of one
\* version of the preset, whoever edits it meanwhile; those of a built-in one are as
\* released.
OneWordingPerSummary ==
    /\ Cardinality(asked) <= 1
    /\ current \in Ids /\ preset[current] \in Builtin => "edited" \notin asked

\* However many summaries users ask for, a recording is taken (worker.py:120).
RecordingsAreNotStarved ==
    WorkerStaysUp => (recording = "waiting" ~> recording # "waiting")

\* When recordings stop coming, no summary waits for ever, however many others are
\* asked for after it.
SummariesAreTaken ==
    WorkerStaysUp /\ UploadsStop =>
        \A s \in Ids : status[s] = "queued" ~> status[s] # "queued"

=============================================================================
