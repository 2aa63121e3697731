------------------------------ MODULE JobQueue ------------------------------
(***************************************************************************)
(* The jobs table as a queue: the API process inserts and cancels rows,    *)
(* worker processes claim them, run them, keep a heartbeat, and recover    *)
(* the rows of a dead predecessor when they start.                         *)
(*                                                                         *)
(* Source: backend/app/worker.py, backend/app/api/jobs.py.                 *)
(*                                                                         *)
(* Covered: every statement that reads or writes the status of a job, as   *)
(*   a step of its own; a crash or a shutdown of a worker between any two  *)
(*   of them; the supervisor task racing the working task in one process;  *)
(*   any number of cancel requests, each of which reads the status in one  *)
(*   transaction and writes it in the next; workers that stall for longer  *)
(*   than the heartbeat limit (MayStall); supervisors that end on an error *)
(*   of the database (SupervisorsFail).                                    *)
(* Abstracted: what the work computes and how it fails; the clock, of      *)
(*   which only "older than heartbeat_stale_seconds" is kept; owners,      *)
(*   titles, error texts, worker_id (no code reads it), progress.          *)
(* Not covered: the upload before its commit, and SQLite refusing a write  *)
(*   because another connection holds the lock, except as the end of a     *)
(*   supervisor (SupervisorFails).                                         *)
(***************************************************************************)
EXTENDS Integers, Sequences

CONSTANTS
    Jobs,            \* the job ids
    Workers,         \* the worker processes (docker-compose.yml starts one)
    NoJob,           \* what an idle worker holds
    MayStall,        \* whether the heartbeat of a live worker can get too old
    SupervisorsFail  \* whether a supervisor can end on a database error

ASSUME NoJobAssumption == NoJob \notin Jobs \union Workers
ASSUME MayStallAssumption == MayStall \in BOOLEAN
ASSUME SupervisorsFailAssumption == SupervisorsFail \in BOOLEAN

VARIABLES
    status,     \* jobs.status, or "absent" before the row exists
    created,    \* the jobs in the order of created_at
    beat,       \* heartbeat_at: "none" is NULL, "stale" is older than the limit
    transcript, \* the jobs with a row in transcripts
    workspace,  \* the jobs with a directory tmp/{job_id}
    asks,       \* cancel requests between their read and their write
    asked,      \* history: the jobs some cancel request was accepted for
    task,       \* where each worker process is, see Tasks
    held,       \* the job each worker is busy with
    sup         \* where each worker's supervisor task is, see Sups

table == <<status, created, beat, transcript>>
worker == <<task, held, sup>>
vars == <<table, workspace, asks, asked, worker>>

Terminal == {"done", "failed", "cancelled"}
Statuses == {"absent", "queued", "running", "cancelling"} \union Terminal

(***************************************************************************)
(* "down": no process.  "idle": in the claim loop.  "started": _execute    *)
(* before its first commit.  "working": after it.  "landed": the commit of *)
(* the outcome is in the database, the coroutine has not resumed yet.      *)
(* "stopped": CancelledError came out of _execute and the user had asked.  *)
(* "over": what is left is to clear the workspace.                         *)
(***************************************************************************)
Tasks == {"down", "idle", "started", "working", "landed", "stopped", "over"}
Executing == {"started", "working", "landed"}

(***************************************************************************)
(* "asleep": between two polls.  "alive": read a status other than         *)
(* cancelling, the heartbeat is not written yet.  "stopping": read         *)
(* cancelling, the working task is not cancelled yet.                      *)
(***************************************************************************)
Sups == {"off", "asleep", "alive", "stopping"}

Asks == [job: Jobs, saw: {"queued", "running"}]

Holds(w, j) == held[w] = j
Held(j) == \E w \in Workers : Holds(w, j)

TypeOK ==
    /\ status \in [Jobs -> Statuses]
    /\ created \in Seq(Jobs)
    /\ beat \in [Jobs -> {"none", "fresh", "stale"}]
    /\ transcript \in SUBSET Jobs
    /\ workspace \in SUBSET Jobs
    /\ asks \in SUBSET Asks
    /\ asked \in SUBSET Jobs
    /\ task \in [Workers -> Tasks]
    /\ held \in [Workers -> Jobs \union {NoJob}]
    /\ sup \in [Workers -> Sups]

Init ==
    /\ status = [j \in Jobs |-> "absent"]
    /\ created = << >>
    /\ beat = [j \in Jobs |-> "none"]
    /\ transcript = {}
    /\ workspace = {}
    /\ asks = {}
    /\ asked = {}
    /\ task = [w \in Workers |-> "down"]
    /\ held = [w \in Workers |-> NoJob]
    /\ sup = [w \in Workers |-> "off"]

-----------------------------------------------------------------------------
(* The API process *)

\* POST /api/jobs commits: the source is on disk and the row is queued.
Submit(j) ==
    /\ status[j] = "absent"
    /\ status' = [status EXCEPT ![j] = "queued"]
    /\ created' = Append(created, j)
    /\ workspace' = workspace \union {j}
    /\ UNCHANGED <<beat, transcript, asks, asked, worker>>

\* POST /api/jobs/{id}/cancel loads the row.  Any other status is a 409, which
\* changes nothing.  The SELECT opens no transaction, so nothing holds the row.
CancelRead(j) ==
    /\ status[j] \in {"queued", "running"}
    /\ asks' = asks \union {[job |-> j, saw |-> status[j]]}
    /\ asked' = asked \union {j}
    /\ UNCHANGED <<table, workspace, worker>>

\* Mutant: a status no other code knows.
CancelOutcomeMisspelt(saw) == IF saw = "queued" THEN "canceled" ELSE "cancelling"

\* What the handler assigns, given what it read.
CancelOutcome(saw) == IF saw = "queued" THEN "cancelled" ELSE "cancelling"

\* The commit: UPDATE jobs SET status WHERE id, whatever the status is by now.
\* The request stays in asks when another one that read the same is under way.
CancelWrite(a) ==
    /\ status' = [status EXCEPT ![a.job] = CancelOutcome(a.saw)]
    /\ asks' \in {asks, asks \ {a}}
    /\ UNCHANGED <<created, beat, transcript, workspace, asked, worker>>

-----------------------------------------------------------------------------
(* The start of a worker process *)

\* Mutants: recovery takes every heartbeat for stale, or none but NULL.
StaleAlways(j) == TRUE
StaleOnlyNull(j) == beat[j] = "none"

\* The WHERE of both recovery statements: heartbeat NULL or past the cutoff.
Stale(j) == beat[j] # "fresh"

\* Mutants: a cancelled job comes back to life; the statement forgets the status.
RecoveredCancelling(j) ==
    IF status[j] \in {"running", "cancelling"} /\ Stale(j) THEN "queued" ELSE status[j]
RecoveredAnyStatus(j) ==
    IF status[j] # "absent" /\ Stale(j) THEN "queued" ELSE status[j]

Recovered(j) == IF ~Stale(j) THEN status[j]
                ELSE IF status[j] = "running" THEN "queued"
                ELSE IF status[j] = "cancelling" THEN "cancelled"
                ELSE status[j]

\* main: recover_stale_jobs commits its two statements, then the claim loop.
Start(w) ==
    /\ task[w] = "down"
    /\ task' = [task EXCEPT ![w] = "idle"]
    /\ status' = [j \in Jobs |-> Recovered(j)]
    /\ beat' = [j \in Jobs |->
                  IF status[j] = "running" /\ Stale(j) THEN "none" ELSE beat[j]]
    /\ UNCHANGED <<created, transcript, workspace, asks, asked, held, sup>>

-----------------------------------------------------------------------------
(* A worker process: the claim loop and the working task *)

\* Mutants: a claim that also takes running rows; a subquery without the status.
OldestUnfinished(j) == status[j] \in {"queued", "running"}
OldestOfAll(j) == status[j] = "queued" /\ created[1] = j

Oldest(j) ==
    /\ status[j] = "queued"
    /\ \E i \in 1 .. Len(created) :
          /\ created[i] = j
          /\ \A k \in 1 .. (i - 1) : status[created[k]] # "queued"

\* One UPDATE ... RETURNING, then the two tasks are created.
Claim(w) == \E j \in Jobs :
    /\ task[w] = "idle"
    /\ Oldest(j)
    /\ status' = [status EXCEPT ![j] = "running"]
    /\ beat' = [beat EXCEPT ![j] = "fresh"]
    /\ task' = [task EXCEPT ![w] = "started"]
    /\ held' = [held EXCEPT ![w] = j]
    /\ sup' = [sup EXCEPT ![w] = "asleep"]
    /\ UNCHANGED <<created, transcript, workspace, asks, asked>>

\* The first commit of _process: an earlier transcript is deleted, the provider
\* and the model are recorded.
Begin(w) ==
    /\ task[w] = "started"
    /\ task' = [task EXCEPT ![w] = "working"]
    /\ transcript' = transcript \ {held[w]}
    /\ UNCHANGED <<status, created, beat, workspace, asks, asked, held, sup>>

\* One more chunk is transcribed: its commit writes the heartbeat as well.
ChunkDone(w) ==
    /\ task[w] = "working"
    /\ beat' = [beat EXCEPT ![held[w]] = "fresh"]
    /\ UNCHANGED <<status, created, transcript, workspace, asks, asked, worker>>

\* The commit of a transcript and of the status "done", in one transaction.
Complete(w) ==
    /\ task[w] = "working"
    /\ held[w] \notin transcript
    /\ status' = [status EXCEPT ![held[w]] = "done"]
    /\ transcript' = transcript \union {held[w]}
    /\ task' = [task EXCEPT ![w] = "landed"]
    /\ UNCHANGED <<created, beat, workspace, asks, asked, held, sup>>

\* An ApiError anywhere in _process.  Before the first commit, the DELETE may or
\* may not be part of the transaction that records the failure.
Fail(w) ==
    /\ task[w] \in {"started", "working"}
    /\ status' = [status EXCEPT ![held[w]] = "failed"]
    /\ transcript' \in IF task[w] = "started"
                       THEN {transcript, transcript \ {held[w]}}
                       ELSE {transcript}
    /\ task' = [task EXCEPT ![w] = "landed"]
    /\ UNCHANGED <<created, beat, workspace, asks, asked, held, sup>>

\* The working task ends, so the await in _run_transcription returns.
Resume(w) ==
    /\ task[w] = "landed"
    /\ task' = [task EXCEPT ![w] = "over"]
    /\ UNCHANGED <<table, workspace, asks, asked, held, sup>>

\* _finish, after a CancelledError the user asked for: it looks at no status.
Finish(w) ==
    /\ task[w] = "stopped"
    /\ status' = [status EXCEPT ![held[w]] = "cancelled"]
    /\ task' = [task EXCEPT ![w] = "over"]
    /\ UNCHANGED <<created, beat, transcript, workspace, asks, asked, held, sup>>

\* supervisor.cancel() and _clear_workspace, with no await between them.
Tidy(w) ==
    /\ task[w] = "over"
    /\ workspace' = workspace \ {held[w]}
    /\ task' = [task EXCEPT ![w] = "idle"]
    /\ held' = [held EXCEPT ![w] = NoJob]
    /\ sup' = [sup EXCEPT ![w] = "off"]
    /\ UNCHANGED <<table, asks, asked>>

-----------------------------------------------------------------------------
(* A worker process: the supervisor task *)

Poll(w) ==
    /\ sup[w] = "asleep"
    /\ sup' = [sup EXCEPT ![w] =
                 IF status[held[w]] = "cancelling" THEN "stopping" ELSE "alive"]
    /\ UNCHANGED <<table, workspace, asks, asked, task, held>>

Heartbeat(w) ==
    /\ sup[w] = "alive"
    /\ beat' = [beat EXCEPT ![held[w]] = "fresh"]
    /\ sup' = [sup EXCEPT ![w] = "asleep"]
    /\ UNCHANGED <<status, created, transcript, workspace, asks, asked, task, held>>

\* Mutant: the cancellation sets a flag and leaves the task alone.
StopWorkFlagOnly(w) ==
    /\ sup[w] = "stopping"
    /\ sup' = [sup EXCEPT ![w] = "off"]
    /\ UNCHANGED <<table, workspace, asks, asked, task, held>>

\* request_stop(), working.cancel(), return.  A coroutine whose commit landed but
\* that has not resumed still gets the CancelledError; one that has ended does not.
StopWork(w) ==
    /\ sup[w] = "stopping"
    /\ sup' = [sup EXCEPT ![w] = "off"]
    /\ task' = [task EXCEPT ![w] = IF @ \in Executing THEN "stopped" ELSE @]
    /\ UNCHANGED <<table, workspace, asks, asked, held>>

-----------------------------------------------------------------------------
(* What goes wrong *)

\* Mutants: a shutdown that cleans up as if the job were over, or that marks the
\* job cancelled.
CrashTidies(w) ==
    /\ task[w] # "down"
    /\ task' = [task EXCEPT ![w] = "down"]
    /\ held' = [held EXCEPT ![w] = NoJob]
    /\ sup' = [sup EXCEPT ![w] = "off"]
    /\ workspace' = workspace \ {held[w]}
    /\ UNCHANGED <<table, asks, asked>>
CrashCancels(w) ==
    /\ task[w] # "down"
    /\ task' = [task EXCEPT ![w] = "down"]
    /\ held' = [held EXCEPT ![w] = NoJob]
    /\ sup' = [sup EXCEPT ![w] = "off"]
    /\ status' = [j \in Jobs |-> IF j = held[w] THEN "cancelled" ELSE status[j]]
    /\ UNCHANGED <<created, beat, transcript, workspace, asks, asked>>

\* kill -9, a shutdown, or an exception that is no ApiError (it comes out of
\* run_forever): the row and the workspace stay as they are.
Crash(w) ==
    /\ task[w] # "down"
    /\ task' = [task EXCEPT ![w] = "down"]
    /\ held' = [held EXCEPT ![w] = NoJob]
    /\ sup' = [sup EXCEPT ![w] = "off"]
    /\ UNCHANGED <<table, workspace, asks, asked>>

\* A database error ends the supervisor; nothing awaits it, so nobody notices.
SupervisorFails(w) ==
    /\ SupervisorsFail
    /\ sup[w] \in {"asleep", "alive"}
    /\ sup' = [sup EXCEPT ![w] = "off"]
    /\ UNCHANGED <<table, workspace, asks, asked, task, held>>

\* heartbeat_stale_seconds (120) pass without a heartbeat.  A worker polls every
\* second, so this happens to a held job only when its worker stalls.
Expire(j) ==
    /\ beat[j] = "fresh"
    /\ MayStall \/ ~Held(j)
    /\ beat' = [beat EXCEPT ![j] = "stale"]
    /\ UNCHANGED <<status, created, transcript, workspace, asks, asked, worker>>

-----------------------------------------------------------------------------

Work(w) == Claim(w) \/ Begin(w) \/ ChunkDone(w) \/ Complete(w) \/ Fail(w)
Settle(w) == Resume(w) \/ Finish(w) \/ Tidy(w)
Supervise(w) == Poll(w) \/ Heartbeat(w) \/ StopWork(w)
Api == \/ \E j \in Jobs : Submit(j) \/ CancelRead(j)
       \/ \E a \in asks : CancelWrite(a)
Fault == \/ \E w \in Workers : Crash(w) \/ SupervisorFails(w)
         \/ \E j \in Jobs : Expire(j)

Next ==
    \/ Api
    \/ \E w \in Workers : Start(w) \/ Work(w) \/ Settle(w) \/ Supervise(w)
    \/ Fault

Spec == Init /\ [][Next]_vars

-----------------------------------------------------------------------------
(* Fairness and liveness *)

\* The event loop of a live worker runs its supervisor and whatever follows the
\* working task, and docker-compose.yml restarts a worker that exits.  Nothing is
\* assumed of the API, of time, or of the transcription itself.
Fairness == \A w \in Workers : /\ WF_vars(Start(w))
                               /\ WF_vars(Claim(w))
                               /\ WF_vars(Settle(w))
                               /\ WF_vars(Supervise(w))

FairSpec == Spec /\ Fairness

\* Assumptions of some of the liveness properties: ffmpeg and the provider come
\* to an end (they have timeouts), and the workers stop dying.
WorkEnds == \A w \in Workers : WF_vars(Begin(w) \/ Complete(w) \/ Fail(w))
WorkersStayUp == <>[](\A w \in Workers : task[w] # "down")

-----------------------------------------------------------------------------
(* Safety *)

\* No job is ever in the hands of two live workers (the docstring of _claim and
\* SPEC.md:312), through claims, cancellations, crashes and recoveries.
OneWorkerPerJob ==
    \A v, w \in Workers : held[v] = held[w] /\ held[v] # NoJob => v = w

\* A job reads "done" only when its transcript can be read, and a job that waits,
\* runs or has failed offers no transcript, not even one of an earlier attempt.
TranscriptMatchesStatus ==
    \A j \in Jobs :
        /\ status[j] = "done" => j \in transcript
        /\ status[j] \in {"queued", "running", "failed"} => j \notin transcript

\* A job that will be run or resumed still has its workspace, with the upload
\* in it (_run_transcription leaves it to the successor).
ResumableKeepsWorkspace ==
    \A j \in Jobs : status[j] \in {"queued", "running"} => j \in workspace

\* The commit of a transcript never meets a row that is already there: the
\* UNIQUE constraint on transcripts.job_id never ends a worker.
NoTranscriptCollision ==
    \A w \in Workers : task[w] = "working" => held[w] \notin transcript

\* Nothing tells users they stopped something they never touched: a job is
\* cancelled, or being cancelled, only when some request for it was accepted.
CancelledOnlyOnRequest ==
    \A j \in Jobs : status[j] \in {"cancelling", "cancelled"} => j \in asked

-----------------------------------------------------------------------------
(* Liveness *)

\* A cancellation recorded while the work goes on stops it, even when the work
\* itself never ends (SPEC.md: a cancel does not just set a flag).
StopReachesWorker ==
    \A w \in Workers, j \in Jobs :
        (status[j] = "cancelling" /\ Holds(w, j) /\ task[w] \in {"started", "working"})
            ~> (status[j] \in Terminal \/ ~Holds(w, j))

\* No queued job waits for ever once the workers stay up and the work ends.
QueuedIsTaken ==
    WorkEnds /\ WorkersStayUp =>
        \A j \in Jobs : status[j] = "queued" ~> status[j] # "queued"

\* A job whose heartbeat is already too old when its worker comes back is
\* recovered.
StaleJobIsRecovered ==
    \A j \in Jobs :
        (status[j] = "running" /\ beat[j] = "stale" /\ \E w \in Workers : task[w] = "down")
            ~> status[j] # "running"

-----------------------------------------------------------------------------
(* What the documentation says and the code does not do *)

\* backend/tests/test_cancel.py:76, "cancelling leaves no transcript behind".
CancelLeavesNoTranscript ==
    \A j \in Jobs : status[j] = "cancelled" => j \notin transcript

\* backend/app/worker.py:78, "Requeue whatever the previous worker was holding
\* when it died".
AbandonedJobIsRequeued ==
    \A j \in Jobs : (status[j] = "running" /\ ~Held(j)) ~> status[j] # "running"

-----------------------------------------------------------------------------
(* The queue implements leases *)

Stage(j) == IF status[j] = "absent" THEN "none"
            ELSE IF status[j] = "queued" THEN "waiting"
            ELSE IF status[j] = "running" THEN "active"
            ELSE "over"

Owner(j) == IF Held(j) THEN CHOOSE w \in Workers : Holds(w, j) ELSE NoJob

Lease == INSTANCE JobLease WITH
            Nobody <- NoJob,
            stage <- [j \in Jobs |-> Stage(j)],
            owner <- [j \in Jobs |-> Owner(j)],
            delivered <- transcript

\* Every behaviour of the queue is one of JobLease, as long as no live worker
\* stalls past the heartbeat limit (MayStall = FALSE).
ImplementsLease == Lease!Spec

-----------------------------------------------------------------------------
(* The queue and the life of a job *)

Life == INSTANCE JobLife

\* Every behaviour of the queue, stalled workers included, gives each job the life
\* that JobLife describes: pages that watch it can rely on a job that is over, or
\* being cancelled, not to become a waiting or running one again.
ImplementsLife == Life!Spec

=============================================================================
