# Tany: TLA+ models of the job queue and what runs on it

Tany is a self-hosted transcription service: a browser uploads a recording, an API process
(FastAPI) queues it in an SQLite table, one worker process turns it into a transcript with
ffmpeg and a speech-to-text server, and further jobs turn transcripts into summaries with a
language model. This directory holds TLA+ models of the parts that carry state across
processes, crashes and users, the TLC configurations that check them, and TLAPS proofs about
every one of them. Paths below are relative to `backend/app/` unless they say otherwise.

    tlc -config JobQueueSafety.cfg MCJobQueue      (and so on, one line per run below)
    tlapm JobQueueProofs.tla                       (and so on, the modules of section 4)

## 1. Inventory

| Part | State | Operations | Meets |
|---|---|---|---|
| Job queue: `api/jobs.py`, `worker.py` | the rows of `jobs`, `transcripts`, the directories `tmp/{id}`; per worker a working task and a supervisor task | submit, cancel (read, then write), claim, first commit, progress, done, failed, cancelled, heartbeat, poll, recover at start, crash | API and workers share the rows; the two tasks of a worker share the row and each other |
| Transcription: `worker.py` `_process`, `media.py`, `stt.py` | the upload, `audio.ogg`, chunk files, the subprocess or request under way, replies so far | normalise or use the checkpoint, cut, ask, retry, save, clean up | runs inside a claimed job; stopped by the supervisor |
| Chunk planning: `chunking.py`, `media.py` `detect_silences` | cursor and plan | detect pauses, cut, shift the words | called by the transcription |
| Transcript budget: `summarize.py` | parts, current part and its estimate | budget, split | called by summaries |
| Summaries: `summary_runner.py`, `api/summaries.py`, `llm.py` | rows of `summaries`, partial results, streamed text | create, delete, claim, map, reduce, stream, fail | same worker as recordings, which go first; presets may vanish |
| Presets, providers, seeding | rows | create, update, delete, seed | read by summaries and transcription |
| Events: `/events` of jobs and summaries | what was last sent | poll, send when changed, close at a terminal status | read the rows; feed the browser |
| Browser: `frontend/src` | job list, open stream | refresh, watch, cancel, upload | API and events |
| Accounts: `api/setup.py`, `api/auth.py`, `deps.py`, `sessions.py` | rows of `users`, cookies | first administrator, log in, user on first sight | every request |
| Uploads and the lock: `storage.py`, `db.py` | a row that is not committed, a file that grows, SQLite's write lock | copy, refuse, commit | the worker's writes wait for the lock |
| Shell: `main.py`, `static.py`, `errors.py`, `config.py`, migrations, containers | none that changes | start | - |

What is hard here: the status of a job is written by the API, by both tasks of its worker and by
the next worker, each from what it read earlier; nothing but a heartbeat tells a dead worker from
a slow one; a cancellation must stop real work, and a shutdown, which arrives as the same
`CancelledError`, must not look like one; a crash may leave any prefix of the files; and
mistakes in cutting audio or text produce output that reads well and is incomplete.
`PROJECT.json` lists each such hazard at its line, with the properties that watch it.

What makes each part correct, in one line: no job in two hands and no transcript lost or doubled
(queue); complete transcripts in one language from whatever was left on disk (transcription);
every second exactly once, cuts in pauses (chunks); every segment exactly once, in few requests
that fit (budget); finished summaries that rest on every part, asked for in the words of one
preset, and nobody starved (summaries); pages that end up showing the last status (events and
browser); rows in the queue that have their file, and a lock and a pool that come free again
(accounts and uploads).

## 2. Modules

### JobQueue

One job row is `status[j]`, `beat[j]` (the heartbeat: absent, fresh, or older than
`heartbeat_stale_seconds`), its place in `created`, and membership in `transcript` and
`workspace`. A worker process has `task` (where `_run_transcription` and `_execute` are), `held`
(its job) and `sup` (where `_supervise` is). Every database statement that touches a status is
one action:

| Action | Code |
|---|---|
| `Submit` | `create_job`, its commit |
| `CancelRead`, `CancelWrite` | `cancel_job`: the SELECT and the UPDATE, with anything in between |
| `Start` | `main`, `recover_stale_jobs`: two UPDATEs in one commit |
| `Claim` | `_claim`, and the two tasks `_run_transcription` creates |
| `Begin`, `ChunkDone`, `Complete`, `Fail` | the commits of `_process` and `_execute` |
| `Resume`, `Finish`, `Tidy` | the rest of `_run_transcription` after the working task ends |
| `Poll`, `Heartbeat`, `StopWork` | `_supervise`, one action per await |
| `Crash`, `SupervisorFails`, `Expire` | a kill, a shutdown or an unexpected exception; a database error in `_supervise`; the passing of 120 s |

`cancel_job` assigns the status and commits an UPDATE whose WHERE is only the id, so
`CancelWrite` overwrites whatever is there. `Complete` and `StopWork` can both happen: a task
whose commit has landed but which has not resumed (`"landed"`) still receives the
`CancelledError`. `MayStall` says whether a live worker may let its heartbeat expire; with it
two workers can hold one job, without it they cannot. `SupervisorsFail` says whether a supervisor
may end on a database error. `asks` is a set, and a write may leave its
request there: two requests that read the same are the same element, so that any number of
requests is covered. `asked` is a history variable.

### JobLease

What the queue promises: a job waits, is leased to one worker, is delivered at most once, by the
holder, and is never leased again once over. `JobQueue!Lease` maps `status` to a stage, `held` to
an owner and `transcript` to the delivered set; `ImplementsLease` is JobLease's specification
under that mapping. A cancel of a leased job closes it at once while its holder still holds it,
which is why `Deliver` is allowed in the stage `"over"`.

### JobLife

What everybody outside the queue may rely on, stalled workers or not: a row appears queued and
never vanishes, and once a job is over or being cancelled it is never waiting or running again.
Which of the final words it bears may still change, because late writers exist (finding 1).
`JobQueue!ImplementsLife` is this specification of `status`; `JobsPage` takes its rows from it, so
that what is shown of the page holds for whatever the queue does.

### Pipeline

One job again, but with its files and with what its worker waits for. `audio` is `"partial"` from
the moment ffmpeg opens the file, since ffmpeg writes it in place. `plan`, `chunk`, `tries`,
`lang`, `parts` are the locals of `_process`; a crash loses them, a restart starts over from
`source` and `audio`. A cancel request is two steps here as well, `CancelRead` and `CancelWrite`,
and `asks` holds what the requests under way have read. A request that read queued may thus write
cancelled over the job while its worker runs a tool, waits for a reply or has saved the
transcript; the supervisor, which looks for cancelling only, lets the worker go on to its outcome.
`NormaliseSucceeds` includes the probe of the new file, which may raise `bad_media` and leaves the
file where it is. ApiErrors are `Raise(code)`, and `Fail` records them.
`Stop` combines the supervisor's `cancel()` with what `media.run` does about it. `Unreadable` is a
reply with status 200 that is no JSON (`stt.py:96`): no ApiError, so it ends the process.

### Chunking

`Detect` is `detect_silences` (clamping, the pause without an end) and the midpoints; each `Cut`
is one turn of `plan_chunks`'s loop with `_best_cut`; `Transcribe` is one turn of `_process`'s
loop over the plan, reduced to where words land. Time is counted in ticks of EPSILON, which
makes the comparisons of the code exact: the interesting float effects are those the EPSILON is
for, and they become off-by-one cases here. `mode`, the duration, the settings and the report
are chosen in `Init` and do not change.

### Budget

`Take` is one turn of `split_for_budget`'s loop; a segment is its length. `RequestTokens` is what
`summary_runner.py` sends for a part. `FewestParts` compares the result with every other way to
cut the transcript (`PartEnds`), the reference definition.

### Summaries

The worker's turn (`SummaryTurn`: recordings first), the claim, the map and reduce requests with
a commit after each, and the API's creations and deletions between any two of them. A row that
was deleted under the worker is `RowGone`: the assert or the UPDATE that matches no row is no
ApiError and ends the process. A crash leaves the row running, as recovery looks only at jobs.
Row ids are reused after a deletion so that the number of summaries has no bound; `split` is a
history variable.

The presets are here as well: `Seed` (the built-in ones at the start of the API), `CreatePreset`,
`UpdatePreset` and `DeletePreset`, the last two guarded by `Editable`. Of a preset's text only
whether it was edited is kept. `loaded` is the text in the worker's `Preset` object, which
`expire_on_commit=False` keeps from being read again between two parts.

### JobsPage

One browser page. `list` is its React state, `watched` the dependency its effect ran with last,
`stream` and `server` the two ends of its EventSource, `sent` the variable `previous` of
`job_list_events`. Lists on their way to the page are `flying`: stream events come in order,
answers in any. `SetJobs` replaces the list by whatever arrives; `Render` is React's next render
with the effect, and several lists may have come since the one before. `Close` is `onerror`.

Rows move as `JobLife` allows: `Move` for what the stream waits for, `ChangeElsewhere` for other
pages and late cancels. `muddled`, `cut` and `elsewhere` are history variables that say why the
page may be wrong; `Excused` lists the cases:

- a refresh overtook a newer list;
- the stream broke, and `client.ts:176` closes it for good, although `job_events`
  (`api/jobs.py:139`) and `SPEC.md:213` count on the browser to reconnect;
- a refresh came between the last event of the stream and the render, so that `pendingCount` went
  from one to none and back without a render in between: the effect does not run again, the ended
  stream is not reopened, and the work looks pending until something else changes the count;
- nothing was pending, so the page has no stream, and somebody else changed a row.

The second and the third case are what finding 4 is about: `DroppedStreamReconnects` says that a
page with pending work has a stream again, and TLC refutes it. `WatchedPageIsRight` is about pages
whose stream lives: they come to show every change. `QuietIsRight` in `JobsPageProofs` says that
there is no case beside these four. For `previous` a final write always differs from what
was sent (a new `finished_at`), which `Write` models by forgetting that row in `sent`.

### Requests

Requests of the API as tasks: an upload, a stream or the setup of the first administrator, each
at one of the `Places` where it may have to wait. `Connect` takes a connection from SQLAlchemy's
pool, `Register` and `Add` need SQLite's write lock, `GiveUp` is either timeout. An upload flushes
its row (`Add`), and with it takes the lock, before it copies the file, and commits after; `owner`
has only committed rows. `Go` is the end of `get_session`: rollback, and the connection goes back.
FastAPI (0.118 and later) leaves dependencies only after a streamed response, so that a stream
keeps its connection and each of its polls needs a second one (`PollTimesOut`).

Two overlapping setup requests may both find no user and make two administrators, and the second
of two overlapping first requests of one identity fails with status 500 (`Collide`, see section
5). No property is about users; the others hold with both. `CommitFails` is a COMMIT that is
refused after the file is whole.

## 3. Runs

| Run | Question | Bounds |
|---|---|---|
| `queue_safety` | `OneWorkerPerJob`, `TranscriptMatchesStatus`, `ResumableKeepsWorkspace`, `NoTranscriptCollision`, `CancelledOnlyOnRequest`; `ImplementsLease` and `ImplementsLife`: is the queue a lease, and do jobs live the life others rely on? | 2 jobs, 2 workers, symmetric, workers keep their heartbeats, supervisors may fail; 300,000 states |
| `queue_live` | `StopReachesWorker`, `QueuedIsTaken`, `StaleJobIsRecovered` | 2 jobs, 1 worker, as deployed, which may stall but whose supervisor does not fail; 320,000 states |
| `cancel_leaves_transcript` | finding 1 | 1 job, 1 worker |
| `abandoned_job` | finding 2 | 1 job, 1 worker |
| `pipeline` | `ResumableHasInput`, `TranscriptIsComplete`, `OneLanguage`, `ProgressIsThisAttempts`, `SavedTranscriptStays`, `AttemptEnds` | 3 chunks, 2 requests per chunk, 2 languages; attempts and cancel requests unbounded; 50,000 states |
| `checkpoint` | finding 3 | 3 chunks, 1 language |
| `summaries` | `OneWordingPerSummary`, `DoneCoversTranscript`, `AttemptsAreKept`, `RecordingsAreNotStarved`, `SummariesAreTaken` | 2 summaries at a time, a user's preset and a built-in one, up to 3 parts; 480,000 states |
| `chunking` | `EveryWordOnce`, `ChunkLengths`, `CutsLandInPauses`, `NotTooManyChunks` | durations to 20 ticks, limits 6 and 7, targets 3, 6, 9, every report of up to 2 pauses |
| `budget` | `EverySegmentOnce`, `FewestParts` | up to 5 segments of 1 to 4 tokens, budgets 2 to 5 |
| `jobs_page` | `WatchedPageIsRight`, `ShownGoesForward` | an old and a new job, one refresh not read, two lists on their way; 740,000 states |
| `dropped_stream` | finding 4 | two old jobs, one refresh not read, one list on its way |
| `requests` | `FilesMatchRows`, `LockAndPoolComeFree` | 2 requests at a time, 2 identities, 2 uploads, 1 or 2 connections, every auth mode; 140,000 states |

Why the bounds are enough. Interference between jobs in the queue goes only through the choice of
the oldest row and through a worker's one `held` job, which two jobs and two workers show; what
needs more (any number of workers and jobs) is proved. So is what two workers do with one job when
one of them stalls: TLC explores stalls with one worker only (with two, four million states did
not exhaust it), and `QueueImplementsLife` and `CancelNeedsRequest` cover both together. Three chunks have a first, a middle and a
last one; two requests per chunk have one that is retried and one that is not; the formula for
progress and the retries treat all others alike. Two summaries give an older and a newer one. In
`chunking` the longest recording needs more than three chunks at the limit, the pauses fall on,
next to and across every boundary, and 6 and 7 against even pause ends give both parities. In
`budget` the constants `RESPONSE_RESERVE_TOKENS` and `MINIMUM_BUDGET_TOKENS` are scaled down to 2
so that budgets from the minimum to above the largest segment occur with five segments.
`jobs_page` needs two jobs so that the number of pending ones can stay the same while the list
changes, and two lists on their way so that one can overtake the other; the statuses queued,
cancelling and cancelled stand for what may still be cancelled, what is pending but may not, and
what is over. `requests` needs two
requests for every conflict there is (two for the lock, for a name, for the pool), with one
connection so that one request can exhaust it and two so that a stream can starve itself beside
another; more of each is proved.

The queue, the pipeline and the summaries never stop (jobs and restarts go on), so their runs
check deadlock where TLC can; a page at rest may stop, so `jobs_page` does not check it;
`Chunking` and `Budget` end in an explicit stuttering step `Finished`, so that a plan which gets
stuck is still reported.

### Fairness

`JobQueue!Fairness` assumes that the event loop of a live worker runs what is ready (claim,
supervise, the steps after the working task) and that `docker-compose.yml` starts a worker that
has exited (`restart: unless-stopped`). The transcription itself is not fair: `StopReachesWorker`
has to hold for work that never ends. `QueuedIsTaken` adds as premises that work ends (ffmpeg
ends, httpx has timeouts) and that workers stop dying. Nothing is assumed of users, of the API,
or of time. `Pipeline!FairSpec` lets the loop go on, the supervisor act and the container come
back; `Summaries!FairSpec` the loop and the container. In `Summaries` the two liveness properties
presuppose that the worker stays up eventually: a worker that always crashes serves nobody.
`JobsPage!FairSpec` assumes that requests are read, the server's loop polls, what is sent arrives
unless the stream breaks, and React renders; nothing of users, workers or faults:
`WatchedPageIsRight` has as premise that rows stop changing. `Requests!FairSpec` lets the event loop go on with each
request, copies end and waiting time out; how long a stream stays open is not assumed.

## 4. What is proved

`JobQueueProofs` proves for every set of jobs and workers:

| Theorem | Says |
|---|---|
| `TypeCorrect` | `Spec => []TypeOK`, with stalls |
| `QueueImplementsLife` | `Spec => ImplementsLife`, with stalls: a job that is over never runs again |
| `CancelNeedsRequest` | `CancelledOnlyOnRequest`, with stalls |
| `MutualExclusion`, `TranscriptWhenDone`, `WorkspaceKept`, `NoCollision` | the safety invariants of `queue_safety`, when `MayStall = FALSE` |
| `QueueImplementsLease` | `Spec => ImplementsLease`, when `MayStall = FALSE` |

Assumptions: `NoJob` is neither a job nor a worker, `MayStall` and `SupervisorsFail` are Booleans;
the last five
assume `MayStall = FALSE`, that is, that a live worker's heartbeat is never older than
`heartbeat_stale_seconds`. They fail without it, as two live workers then hold one job.

The argument. The properties are not inductive by themselves. `QueueInv` is the conjunction of

- `TypeInv` and `OneWorkerPerJob`,
- `HeldIsFresh`: the heartbeat of a held job is fresh, so that no recovery touches it. This is
  what makes a job's worker the only one;
- `Published`: transcripts and statuses agree, counting cancelling and cancelled jobs;
- `AttemptUnpublished`: a worker past its first commit and before its last finds no transcript;
- `SettledIsOver`: a worker past its last commit holds a job that is over or being cancelled, so
  that what it still does (`Finish`, `Tidy`) hurts no live job;
- `AsksExist`: a cancel request under way is about a row that exists;
- `ResumableKeepsWorkspace`.

`QueueImplementsLife` and `CancelNeedsRequest` need much less and hold with stalls: a status changes
only from a non-final one to another or towards the end, whoever writes it and however late. For
the refinement each action is mapped: `Claim` to `Grant`, `Complete` to `Deliver`, `Fail` and
`CancelWrite` to `Close` or a stutter, `Tidy` and `Crash` to `Release` or a stutter, `Start` to
`GiveBack` of exactly the stale running jobs, which no live worker holds; the rest stutters.

`ChunkingProofs` proves for every recording, target, limit above `EPSILON` and report of pauses:

| Theorem | Says |
|---|---|
| `TypesHold` | `Spec => []TypeOK`: candidates, cursor and chunks stay within the recording |
| `NoWordLostOrDoubled` | `Spec => []EveryWordOnce` |
| `ChunksFitTheProvider` | `Spec => []ChunkLengths` |
| `CutsAreInPauses` | `Spec => []CutsLandInPauses` |
| `RequestsAreBounded` | `Spec => []NotTooManyChunks` |

Assumptions: limits above `EPSILON` (with 0 the loop would not advance), durations that are not
negative, integer targets, pauses at even ticks. The argument: `min()` has a result because a
non-empty set of distances has a least element (`LeastElement` of `Induction`), so the next cut is
a candidate or the limit (`BestCutIsInReach`), lies after the cursor and no further than the
limit, and is the end or more than `EPSILON` before it (`NextCutAdvances`). The invariant `Plan`
then says that the cursor is the end of the last chunk, that each chunk starts where the one
before it ends, and that the words heard are those before the end of the last chunk that was sent.
`CutsLandInPauses` needs the parity of the reports: the middle of a pause of three ticks could be
`EPSILON` after the cursor and be refused, but only a pause at the end of the recording has an odd
length, and no cut is planned there. `NotTooManyChunks` is the second invariant, `Counted`: each
cut before the last one has used up a pause that no other cut can use again, or a full `hardMax`
of the recording.

`RequestsProofs` proves for every finite set of requests, every set of identities and of uploads, and
every size of the pool:

| Theorem | Says |
|---|---|
| `RequestsTypeCorrect` | `Spec => []TypeOK`: also, `Used <= pool` |
| `RowsHaveTheirFiles` | `Spec => []FilesMatchRows` |

Assumptions: finitely many requests, a pool of at least one, and `Nobody` is none of the others.
`RequestsInv` adds what the properties lack: `Identified` (beyond its first SELECTs a request
bears the name of a user, and only uploads copy files) and `UploadsApart` (no two uploads have one
id, there is no row under it yet, and its file is as far as the upload). The count of connections
goes through the set `Holders`: only `Connect` adds to it, one element, when there is room.

`PipelineProofs` proves for any number of chunks and of attempts per chunk, and any languages:

| Theorem | Says |
|---|---|
| `PipelineTypeCorrect` | `Spec => []TypeOK` |
| `AttemptsHaveInput` | `Spec => []ResumableHasInput` |
| `DoneIsComplete` | `Spec => []TranscriptIsComplete` |
| `LanguageIsForced` | `Spec => []OneLanguage` |
| `ProgressIsCurrent` | `Spec => []ProgressIsThisAttempts` |
| `TranscriptStays` | `Spec => SavedTranscriptStays` |
| `SettledStaysSettled` | no step takes back a whole `audio.ogg` or a saved transcript, or starts a job again that is over or being cancelled |
| `WorkKeepsTheLease` | each step of the work is one of `JobLease`'s for this job, or nothing it sees |

Assumptions: at least one chunk and one attempt, and `NoLanguage` is no language. `Inv` adds to
the types `Place` (what the worker waits for, against the row and the files), `Cursor` (how many
replies there are at each place of the loop), `Collected` (the replies so far are in order, and
asked for in the first language that was detected), `Saved` (the same of the transcript) and
`Published` (where a transcript is, the job is over or being cancelled, and no worker is about to
delete it: what a late cancel request writes does not lead to another attempt).
`Place` has a result of its own: the error `source_missing` (`worker.py:425`) is never recorded.
`WorkKeepsTheLease` is the step simulation behind the two models of the worker: `JobQueue` and
`Pipeline` refine the same lease, `Pipeline` from the state after `Submit` on, with `Claim` as
`Grant`, `Save` as `Deliver`, `Tidy` and `Crash` as `Release` and recovery as `GiveBack`. It needs
`Published`, so that `FirstCommit` deletes no transcript. `SettledStaysSettled` does not say that the
final word of a job stays: a late cancel overwrites it (finding 1), and a worker that goes on
overwrites cancelled. What these theorems do not say: with finding 3, the chunks may be those of a part of the
recording.

`BudgetProofs` proves for every transcript, context, prompt and template:

| Theorem | Says |
|---|---|
| `BudgetTypeCorrect` | `Spec => []TypeOK`: the budget is positive |
| `NoSegmentLost` | `Spec => []EverySegmentOnce` |
| `NoPlanIsShorter` | `Spec => []FewestParts`: the greedy split is optimal |
| `OverrunIsBounded` | a request exceeds the context by no more than the spaces `split_for_budget` does not count |

Assumptions: segments are not empty (`summary_runner.py` leaves such texts out), prompts and
numbers of placeholders are natural numbers; a context may be any integer. In `Inv` the parts and
the one in hand are intervals that follow each other (`Tiled`, `InHand`), each within the budget
or a single segment (`Sized`). Optimality is `Ahead`: any other plan that fits has at least as
many cuts among the segments of the closed parts. A step keeps it because the closed part and the
segment that overflowed it are more than the budget, and a part that starts sooner and ends later
costs no less. `OverrunIsBounded` is no promise of the code: `tests/test_summarize.py:56` says that no
part exceeds the budget unless a segment does, which the spaces break (section 5); the theorem says
by how much. It rests on rounding up being subadditive.

`SummariesProofs` proves for any number of summaries, presets and parts:

| Theorem | Says |
|---|---|
| `SummariesTypeCorrect` | `Spec => []TypeOK` |
| `DoneIsWhole` | `Spec => []DoneCoversTranscript` |
| `WordingIsKept` | `Spec => []OneWordingPerSummary` |
| `AttemptsStay` | `Spec => AttemptsAreKept` |
| `QueueIsExact` | the queue has each waiting row once and nothing else |
| `AbandonedRunsForEver` | a running row whose worker died stays running until it is deleted |

Assumptions: those of the module (`NoPreset` and `NoSummary` are none of the others, `MaxParts` is a
natural number). `Inv` is `TypeOK` with `Queued` (needed because a deletion in the middle of the queue and
the reuse of an id must not leave a second entry), `Blank` (a row without an attempt has no results),
`Held` (a row that is worked on is running, or deleted), `Busy` (how many partials it has at each place of
`run`, if it still is there), `Worded` and `DoneCoversTranscript`.
`AbandonedRunsForEver` is no promise of the code: it states what recovery leaves out (`worker.py:87`).

`JobsPageProofs` proves for any finite set of jobs, any statuses, and any number of requests and
of lists on their way:

| Theorem | Says |
|---|---|
| `PageTypeCorrect` | `Spec => []TypeOK` |
| `PageGoesForward` | `Spec => ShownGoesForward` |
| `QuietPageIsRight` | `Spec => []QuietIsRight`: when nothing is on its way and every job is over, the page shows the rows, or is excused |

Assumptions: those of the module. `Ordered` says that a list read later is further on and that only lists
marked late are behind what is shown; `Marked`, `Answered` and `ShownHolds` that whatever is shown or on
its way and does not hold any more is followed by an answer that does; `Streaming` when there is a
stream. `QuietIsRight` has the excuses in it, and finding 4 is one of them: it says that they are all.
"Every job is over" is needed: where statuses may also go back (a recovery turns
`running` into `queued`), a row that is again as it was sent last is not sent, and a refresh read
in between stays on the page until the next change.

`Induction` holds what these proofs share: non-empty sets of numbers have a least element, those
with a bound a greatest one. With it, what a recursive function computes (`Without`, the sums of
`Budget`) is proved by looking at the least argument at which it would fail.

Checked with TLC only: the liveness properties (`StopReachesWorker`, `QueuedIsTaken`,
`StaleJobIsRecovered`, `AttemptEnds`, `RecordingsAreNotStarved`, `SummariesAreTaken`,
`WatchedPageIsRight`, `LockAndPoolComeFree`), because the proof system handles neither `ENABLED` nor fairness; and all of
section 5, which are counterexamples. Every invariant, every action property and both refinements of
the passing runs are proved. Each invariant named above was first checked by TLC on the instance of its run.

## 5. Findings

1. **A late cancel overwrites the outcome** (`api/jobs.py:189`). `cancel_job` reads, then writes with
   the id as the only condition. The run: the request reads queued, the worker claims the job and
   finishes it, and the request writes cancelled over done: a cancelled job with a transcript.
   `tests/test_cancel.py:76` expects none. A request that read running (line 193) writes cancelling
   over done instead, and `_finish` (`worker.py:246`) or the next recovery makes it cancelled.
2. **A quick restart abandons the job** (`worker.py:114`). A worker that is killed and started again
   within 120 s skips its own job, whose heartbeat is young, and recovery does not run a second time.
   The job stays running while that worker lives. `worker.py:78` promises to requeue it.
3. **A partial `audio.ogg` is taken for the checkpoint** (`worker.py:288`, `media.py:167`). A kill
   during ffmpeg leaves the file; the next attempt skips ffmpeg and transcribes what is there.
4. **A dropped stream is never reopened** (`frontend/src/api/client.ts:176`). Any error closes the
   page's EventSource, and the effect that opens one runs again only when the number of pending jobs
   changes in the page, which nothing tells it any more. The run: the page shows a pending job, its
   stream opens and breaks, and the page shows that job as pending for ever, though it is over. `api/jobs.py:139` and `SPEC.md:213` count on browsers to reconnect.

Met while modelling, and not checked by a run of its own:

- A cancel that read queued and is written after the claim makes the row cancelled while its worker
  works. `_supervise` (`worker.py:233`) looks for cancelling only, so ffmpeg and the requests go on,
  against its docstring (`worker.py:224`), and done or failed may be written over cancelled.
- Two overlapping first requests of one identity (`deps.py:41`) both insert it, and the second is
  answered with status 500. `tests/test_auth_modes.py:18` expects all simultaneous ones to succeed.
  Likewise, two overlapping setups make two administrators (`api/setup.py:32`).
- A part can exceed the budget by the spaces that join its segments (`summarize.py:45`): ten
  segments of nine characters make 33 estimated tokens under a budget of 30. The test
  `test_no_part_exceeds_the_budget_unless_one_segment_alone_does` (`tests/test_summarize.py:56`)
  says otherwise, and its random inputs seldom come so close.
- Chunk files are not collected (`SPEC.md:132` describes a collector; a job that is killed in the
  middle, requeued and then cancelled leaves its directory).
- A summary whose worker died stays running for ever (`worker.py:87`).

## 6. What is not modelled

Listed with reasons in `PROJECT.json`. In short: the streams of a single job and of a summary, and the
browser's summary panel, repeat what `JobsPage` shows of the list; a refresh that fails is left out
(after an upload or a cancel the page says so, the first one fails in silence,
`JobsPage.tsx:53`). Log in and log out keep no state on the server. Forms, layout, static files, migrations
and encryption keep no state that processes share. The clock is only
"older than the limit". SQLite is taken as atomic per commit; its lock is in `Requests`, and for
the worker a lock timeout is the end of a supervisor or of the process (`SupervisorFails`, `Crash`).
What providers answer is arbitrary; that ffmpeg cuts where it is told is assumed.

## 7. Plan

In this order; what matters most came first.

1. Done: `JobQueue` with `JobLease` and `JobLife` and its proofs, `Pipeline`, `Chunking` with its
   proofs, `Budget`, `Summaries` with the presets, `JobsPage`, `Requests` with its proofs.
2. Done: proofs about `Pipeline`, `Budget`, `Summaries` and `JobsPage`, and the number of chunks.
3. Composition: done for the lease (`WorkKeepsTheLease`); what is left is one module in which a worker
   of `JobQueue` has the files of `Pipeline`, so that races of late writes and files are seen together.
4. Proofs: what the liveness properties rest on, as `QuietIsRight` does for the page: which step is
   possible, and what it decreases, for `AttemptEnds` and `LockAndPoolComeFree`.
5. The summary panel: one stream per unfinished summary, with rows that are deleted under it.
