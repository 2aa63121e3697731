--------------------------- MODULE JobQueueProofs ---------------------------
(***************************************************************************)
(* Proofs about JobQueue, for any number of jobs and of workers.           *)
(***************************************************************************)
EXTENDS JobQueue, TLAPS

-----------------------------------------------------------------------------
(* Types.  A worker holds a job exactly while it is busy, and only a busy    *)
(* worker has a supervisor: without that, the writes of held[w] would not be *)
(* writes to a job.                                                          *)

BusyHolds ==
    \A w \in Workers : /\ task[w] \in {"down", "idle"} <=> held[w] = NoJob
                       /\ sup[w] # "off" => held[w] # NoJob

TypeInv == TypeOK /\ BusyHolds

\* The statuses recovery writes are statuses.
LEMMA RecoveredType ==
    ASSUME TypeOK, NEW j \in Jobs
    PROVE  Recovered(j) \in Statuses
  BY DEF TypeOK, Recovered, Statuses, Terminal

\* The handler of a cancel request writes a status.
LEMMA CancelOutcomeType ==
    ASSUME NEW saw
    PROVE  CancelOutcome(saw) \in {"cancelled", "cancelling"}
  BY DEF CancelOutcome

\* An empty table and dead workers.
LEMMA InitTypeInv == Init => TypeInv
  BY DEF Init, TypeInv, TypeOK, BusyHolds, Statuses, Tasks, Sups

\* What an action of worker w finds: w is busy with a job of the table.
LEMMA BusyHasJob ==
    ASSUME TypeInv, NEW w \in Workers, task[w] \notin {"down", "idle"} \/ sup[w] # "off"
    PROVE  held[w] \in Jobs
  BY DEF TypeInv, TypeOK, BusyHolds

\* Every step keeps the types and the link between task, held and sup.
LEMMA NextTypeInv == TypeInv /\ [Next]_vars => TypeInv'
<1> SUFFICES ASSUME TypeInv, [Next]_vars
             PROVE  TypeInv'
  OBVIOUS
<1> USE NoJobAssumption DEF TypeInv, TypeOK, BusyHolds, Statuses, Terminal, Tasks, Sups
<1>1. ASSUME NEW j \in Jobs, Submit(j)
      PROVE  TypeInv'
  BY <1>1 DEF Submit, worker
<1>2. ASSUME NEW j \in Jobs, CancelRead(j)
      PROVE  TypeInv'
  BY <1>2 DEF CancelRead, Asks, table, worker
<1>3. ASSUME NEW a \in asks, CancelWrite(a)
      PROVE  TypeInv'
  BY <1>3, CancelOutcomeType DEF CancelWrite, Asks, worker
<1>4. ASSUME NEW w \in Workers, Start(w)
      PROVE  TypeInv'
  BY <1>4, RecoveredType DEF Start
<1>5. ASSUME NEW w \in Workers, Claim(w)
      PROVE  TypeInv'
  BY <1>5 DEF Claim
<1>6. ASSUME NEW w \in Workers, Begin(w)
      PROVE  TypeInv'
  BY <1>6, BusyHasJob DEF Begin
<1>7. ASSUME NEW w \in Workers, ChunkDone(w)
      PROVE  TypeInv'
  BY <1>7, BusyHasJob DEF ChunkDone, worker
<1>8. ASSUME NEW w \in Workers, Complete(w)
      PROVE  TypeInv'
  BY <1>8, BusyHasJob DEF Complete
<1>9. ASSUME NEW w \in Workers, Fail(w)
      PROVE  TypeInv'
  BY <1>9, BusyHasJob DEF Fail
<1>10. ASSUME NEW w \in Workers, Resume(w)
       PROVE  TypeInv'
  BY <1>10 DEF Resume, table
<1>11. ASSUME NEW w \in Workers, Finish(w)
       PROVE  TypeInv'
  BY <1>11, BusyHasJob DEF Finish
<1>12. ASSUME NEW w \in Workers, Tidy(w)
       PROVE  TypeInv'
  BY <1>12 DEF Tidy, table
<1>13. ASSUME NEW w \in Workers, Poll(w)
       PROVE  TypeInv'
  BY <1>13 DEF Poll, table
<1>14. ASSUME NEW w \in Workers, Heartbeat(w)
       PROVE  TypeInv'
  BY <1>14, BusyHasJob DEF Heartbeat
<1>15. ASSUME NEW w \in Workers, StopWork(w)
       PROVE  TypeInv'
  BY <1>15, BusyHasJob DEF StopWork, Executing, table
<1>16. ASSUME NEW w \in Workers, Crash(w)
       PROVE  TypeInv'
  BY <1>16 DEF Crash, table
<1>17. ASSUME NEW w \in Workers, SupervisorFails(w)
       PROVE  TypeInv'
  BY <1>17 DEF SupervisorFails, table
<1>18. ASSUME NEW j \in Jobs, Expire(j)
       PROVE  TypeInv'
  BY <1>18 DEF Expire, worker
<1>19. CASE UNCHANGED vars
  BY <1>19 DEF vars, table, worker
<1>20. QED
  BY <1>1, <1>2, <1>3, <1>4, <1>5, <1>6, <1>7, <1>8, <1>9, <1>10, <1>11, <1>12,
     <1>13, <1>14, <1>15, <1>16, <1>17, <1>18, <1>19
  DEF Next, Api, Work, Settle, Supervise, Fault

\* Every variable keeps its type, stalls and crashes included.
THEOREM TypeCorrect == Spec => []TypeOK
<1>1. TypeInv => TypeOK
  BY DEF TypeInv
<1>2. QED
  BY InitTypeInv, NextTypeInv, <1>1, PTL DEF Spec

-----------------------------------------------------------------------------
(* What holds however long a worker stalls                                   *)

\* Whoever is about to write a status has a row to write to.
RowsExist ==
    /\ \A w \in Workers : held[w] \in Jobs => status[held[w]] # "absent"
    /\ \A a \in asks : status[a.job] # "absent"

\* Every statement leaves each job in its phase or takes it to a later one: a claim
\* and a recovery look at the status they replace, and what the API and the workers
\* write unconditionally is never "queued" or "running".
LEMMA NextKeepsLife ==
    ASSUME TypeInv, RowsExist, [Next]_vars, NEW j \in Jobs
    PROVE  Life!May(status[j], status'[j])
<1> USE DEF TypeInv, TypeOK, Statuses, Terminal, Life!May, Life!Phase, Life!Live
<1>1. ASSUME NEW i \in Jobs, Submit(i) \/ CancelRead(i) \/ Expire(i)
      PROVE  Life!May(status[j], status'[j])
  BY <1>1 DEF Submit, CancelRead, Expire, table
<1>2. ASSUME NEW a \in asks, CancelWrite(a)
      PROVE  Life!May(status[j], status'[j])
  BY <1>2, CancelOutcomeType DEF CancelWrite, RowsExist, Asks
<1>3. ASSUME NEW w \in Workers, Start(w)
      PROVE  Life!May(status[j], status'[j])
  BY <1>3 DEF Start, Recovered
<1>4. ASSUME NEW w \in Workers, Claim(w)
      PROVE  Life!May(status[j], status'[j])
  BY <1>4 DEF Claim, Oldest
<1>5. ASSUME NEW w \in Workers, Complete(w) \/ Fail(w) \/ Finish(w)
      PROVE  Life!May(status[j], status'[j])
  <2>1. held[w] \in Jobs /\ status[held[w]] # "absent"
    BY <1>5, BusyHasJob DEF Complete, Fail, Finish, RowsExist
  <2>2. QED
    BY <1>5, <2>1 DEF Complete, Fail, Finish
<1>6. ASSUME NEW w \in Workers,
             \/ Begin(w) \/ ChunkDone(w) \/ Resume(w) \/ Tidy(w)
             \/ Supervise(w) \/ Crash(w) \/ SupervisorFails(w)
      PROVE  Life!May(status[j], status'[j])
  BY <1>6 DEF Begin, ChunkDone, Resume, Tidy, Supervise, Poll, Heartbeat, StopWork,
              Crash, SupervisorFails, table
<1>7. CASE UNCHANGED vars
  BY <1>7 DEF vars, table
<1>8. QED
  BY <1>1, <1>2, <1>3, <1>4, <1>5, <1>6, <1>7 DEF Next, Api, Work, Settle, Fault

\* A job that is claimed or asked to stop has a row, and rows do not vanish.
LEMMA NextRowsExist == TypeInv /\ RowsExist /\ [Next]_vars => RowsExist'
<1> SUFFICES ASSUME TypeInv, RowsExist, [Next]_vars
             PROVE  RowsExist'
  OBVIOUS
<1> USE NoJobAssumption DEF TypeInv, TypeOK
<1>1. \A j \in Jobs : status[j] # "absent" => status'[j] # "absent"
  BY NextKeepsLife DEF Life!May, Life!Phase, Life!Live
<1>2. \A a \in asks' : status'[a.job] # "absent"
  <2>1. CASE asks' = asks
    BY <1>1, <2>1 DEF RowsExist, Asks
  <2>2. ASSUME NEW i \in Jobs, CancelRead(i)
        PROVE  \A a \in asks' : status'[a.job] # "absent"
    BY <1>1, <2>2 DEF RowsExist, Asks, CancelRead
  <2>3. ASSUME NEW a \in asks, CancelWrite(a)
        PROVE  asks' \subseteq asks
    BY <2>3 DEF CancelWrite
  <2>4. CASE asks' \subseteq asks
    BY <1>1, <2>4 DEF RowsExist, Asks
  <2>5. QED
    BY <2>1, <2>2, <2>3, <2>4
    DEF Next, Api, Work, Settle, Supervise, Fault, Submit, Start, Claim, Begin, ChunkDone,
        Complete, Fail, Resume, Finish, Tidy, Poll, Heartbeat, StopWork, Crash,
        SupervisorFails, Expire, vars
<1>3. \A w \in Workers : held'[w] \in Jobs => status'[held'[w]] # "absent"
  <2>1. ASSUME NEW w \in Workers, Claim(w)
        PROVE  \A v \in Workers : held'[v] \in Jobs => status'[held'[v]] # "absent"
    BY <1>1, <2>1 DEF RowsExist, Claim
  <2>2. CASE \A w \in Workers : held'[w] \in {held[w], NoJob}
    BY <1>1, <2>2 DEF RowsExist
  <2>3. QED
    BY <2>1, <2>2
    DEF Next, Api, Work, Settle, Supervise, Fault, Submit, CancelRead, CancelWrite, Start,
        Begin, ChunkDone, Complete, Fail, Resume, Finish, Tidy, Poll, Heartbeat, StopWork,
        Crash, SupervisorFails, Expire, vars, worker
<1>4. QED
  BY <1>2, <1>3 DEF RowsExist

\* The queue gives every job the life JobLife describes, even when two workers end up
\* on the same job: what is over, or being cancelled, is never queued or run again.
THEOREM QueueImplementsLife == Spec => ImplementsLife
<1>1. Init => Life!Init /\ RowsExist
  BY NoJobAssumption DEF Init, Life!Init, RowsExist
<1>2. TypeInv /\ RowsExist /\ [Next]_vars => [Life!Next]_status
  <2> SUFFICES ASSUME TypeInv, RowsExist, [Next]_vars
               PROVE  Life!Next
    OBVIOUS
  <2>1. TypeInv'
    BY NextTypeInv
  <2>2. status' \in [Jobs -> Life!Statuses]
    BY <2>1 DEF TypeInv, TypeOK, Statuses, Terminal, Life!Statuses, Life!Live, Life!Final
  <2>3. QED
    BY <2>2, NextKeepsLife DEF Life!Next
<1>3. QED
  BY InitTypeInv, NextTypeInv, NextRowsExist, <1>1, <1>2, PTL
  DEF Spec, ImplementsLife, Life!Spec

\* Every trace of a cancellation goes back to an accepted request: the request
\* itself, what the supervisor read, the CancelledError, the status.
CancelInv ==
    /\ \A a \in asks : a.job \in asked
    /\ \A w \in Workers : sup[w] = "stopping" \/ task[w] = "stopped" => held[w] \in asked
    /\ CancelledOnlyOnRequest

\* Every step keeps that trace.
LEMMA NextCancelInv == TypeInv /\ CancelInv /\ [Next]_vars => CancelInv'
<1> SUFFICES ASSUME TypeInv, CancelInv, [Next]_vars
             PROVE  CancelInv'
  OBVIOUS
<1> USE NoJobAssumption DEF TypeInv, TypeOK, CancelInv, CancelledOnlyOnRequest
<1>1. ASSUME NEW i \in Jobs, Submit(i) \/ CancelRead(i) \/ Expire(i)
      PROVE  CancelInv'
  BY <1>1 DEF Submit, CancelRead, Expire, table, worker
<1>2. ASSUME NEW a \in asks, CancelWrite(a)
      PROVE  CancelInv'
  BY <1>2 DEF CancelWrite, Asks, worker
<1>3. ASSUME NEW w \in Workers, Start(w)
      PROVE  CancelInv'
  BY <1>3 DEF Start, Recovered
<1>4. ASSUME NEW w \in Workers, Claim(w)
      PROVE  CancelInv'
  BY <1>4 DEF Claim
<1>5. ASSUME NEW w \in Workers, Complete(w) \/ Fail(w) \/ Finish(w)
      PROVE  CancelInv'
  BY <1>5 DEF Complete, Fail, Finish
<1>6. ASSUME NEW w \in Workers,
             Begin(w) \/ ChunkDone(w) \/ Resume(w) \/ Tidy(w) \/ Crash(w) \/ SupervisorFails(w)
      PROVE  CancelInv'
  BY <1>6 DEF Begin, ChunkDone, Resume, Tidy, Crash, SupervisorFails, table, worker
<1>7. ASSUME NEW w \in Workers, Poll(w)
      PROVE  CancelInv'
  BY <1>7, BusyHasJob DEF Poll, table
<1>8. ASSUME NEW w \in Workers, Heartbeat(w) \/ StopWork(w)
      PROVE  CancelInv'
  BY <1>8 DEF Heartbeat, StopWork, table
<1>9. CASE UNCHANGED vars
  BY <1>9 DEF vars, table, worker
<1>10. QED
  BY <1>1, <1>2, <1>3, <1>4, <1>5, <1>6, <1>7, <1>8, <1>9
  DEF Next, Api, Work, Settle, Supervise, Fault

\* Nobody's job is cancelled unless a request for it was accepted.
THEOREM CancelNeedsRequest == Spec => []CancelledOnlyOnRequest
<1>1. Init => CancelInv
  BY DEF Init, CancelInv, CancelledOnlyOnRequest
<1>2. CancelInv => CancelledOnlyOnRequest
  BY DEF CancelInv
<1>3. QED
  BY InitTypeInv, NextTypeInv, NextCancelInv, <1>1, <1>2, PTL DEF Spec

-----------------------------------------------------------------------------
(* What holds as long as live workers keep their heartbeats                  *)

\* What a live worker holds cannot be recovered, nor claimed by anyone.
HeldIsFresh ==
    \A w \in Workers : held[w] # NoJob =>
        /\ beat[held[w]] = "fresh"
        /\ status[held[w]] \notin {"absent", "queued"}

\* A transcript exists only once its job has been done.
Published ==
    \A j \in Jobs :
        /\ status[j] = "done" => j \in transcript
        /\ status[j] \in {"absent", "queued", "running", "failed"} => j \notin transcript

\* An attempt under way has not published yet.
AttemptUnpublished ==
    \A w \in Workers : task[w] \in {"started", "working"} => held[w] \notin transcript

\* The workspace goes only when the job is over.
SettledIsOver ==
    \A w \in Workers : task[w] \in {"landed", "over"} =>
        status[held[w]] \in Terminal \union {"cancelling"}

\* A request is about a job that exists.
AsksExist == \A a \in asks : status[a.job] # "absent"

QueueInv ==
    /\ TypeInv
    /\ OneWorkerPerJob
    /\ HeldIsFresh
    /\ Published
    /\ AttemptUnpublished
    /\ SettledIsOver
    /\ AsksExist
    /\ ResumableKeepsWorkspace

\* Nothing is held, asked for or published at first.
LEMMA InitQueueInv == Init => QueueInv
  BY InitTypeInv
  DEF Init, QueueInv, OneWorkerPerJob, HeldIsFresh, Published, AttemptUnpublished,
      SettledIsOver, AsksExist, ResumableKeepsWorkspace

\* Every step keeps the invariant.
LEMMA NextQueueInv ==
    ASSUME MayStall = FALSE, QueueInv, [Next]_vars
    PROVE  QueueInv'
<1> USE NoJobAssumption
    DEF TypeInv, TypeOK, BusyHolds, Terminal, OneWorkerPerJob, HeldIsFresh, Published,
        AttemptUnpublished, SettledIsOver, AsksExist, ResumableKeepsWorkspace, QueueInv
<1>0. TypeInv'
  BY NextTypeInv
<1>1. ASSUME NEW j \in Jobs, Submit(j)
      PROVE  QueueInv'
  BY <1>0, <1>1 DEF Submit, Asks, worker
<1>2. ASSUME NEW j \in Jobs, CancelRead(j)
      PROVE  QueueInv'
  BY <1>0, <1>2 DEF CancelRead, Asks, table, worker
<1>3. ASSUME NEW a \in asks, CancelWrite(a)
      PROVE  QueueInv'
  BY <1>0, <1>3, CancelOutcomeType DEF CancelWrite, Asks, worker
<1>4. ASSUME NEW w \in Workers, Start(w)
      PROVE  QueueInv'
  BY <1>0, <1>4 DEF Start, Recovered, Stale, Asks
<1>5. ASSUME NEW w \in Workers, Claim(w)
      PROVE  QueueInv'
  BY <1>0, <1>5 DEF Claim, Oldest, Asks
<1>6. ASSUME NEW w \in Workers, Begin(w)
      PROVE  QueueInv'
  BY <1>0, <1>6, BusyHasJob DEF Begin
<1>7. ASSUME NEW w \in Workers, ChunkDone(w)
      PROVE  QueueInv'
  BY <1>0, <1>7, BusyHasJob DEF ChunkDone, worker
<1>8. ASSUME NEW w \in Workers, Complete(w)
      PROVE  QueueInv'
  BY <1>0, <1>8, BusyHasJob DEF Complete, Asks
<1>9. ASSUME NEW w \in Workers, Fail(w)
      PROVE  QueueInv'
  BY <1>0, <1>9, BusyHasJob DEF Fail, Asks
<1>10. ASSUME NEW w \in Workers, Resume(w)
       PROVE  QueueInv'
  BY <1>0, <1>10 DEF Resume, table
<1>11. ASSUME NEW w \in Workers, Finish(w)
       PROVE  QueueInv'
  BY <1>0, <1>11, BusyHasJob DEF Finish, Asks
<1>12. ASSUME NEW w \in Workers, Tidy(w)
       PROVE  QueueInv'
  BY <1>0, <1>12, BusyHasJob DEF Tidy, table
<1>13. ASSUME NEW w \in Workers, Poll(w)
       PROVE  QueueInv'
  BY <1>0, <1>13 DEF Poll, table
<1>14. ASSUME NEW w \in Workers, Heartbeat(w)
       PROVE  QueueInv'
  BY <1>0, <1>14, BusyHasJob DEF Heartbeat
<1>15. ASSUME NEW w \in Workers, StopWork(w)
       PROVE  QueueInv'
  BY <1>0, <1>15 DEF StopWork, Executing, table
<1>16. ASSUME NEW w \in Workers, Crash(w)
       PROVE  QueueInv'
  BY <1>0, <1>16 DEF Crash, table
<1>17. ASSUME NEW w \in Workers, SupervisorFails(w)
       PROVE  QueueInv'
  BY <1>0, <1>17 DEF SupervisorFails, table
<1>18. ASSUME NEW j \in Jobs, Expire(j)
       PROVE  QueueInv'
  BY <1>0, <1>18 DEF Expire, Held, Holds, worker
<1>19. CASE UNCHANGED vars
  BY <1>19 DEF vars, table, worker
<1>20. QED
  BY <1>1, <1>2, <1>3, <1>4, <1>5, <1>6, <1>7, <1>8, <1>9, <1>10, <1>11, <1>12,
     <1>13, <1>14, <1>15, <1>16, <1>17, <1>18, <1>19
  DEF Next, Api, Work, Settle, Supervise, Fault

\* The invariant holds of every reachable state.
LEMMA QueueInvariant ==
    ASSUME MayStall = FALSE
    PROVE  Spec => []QueueInv
<1>1. QueueInv /\ [Next]_vars => QueueInv'
  BY NextQueueInv
<1>2. QED
  BY InitQueueInv, <1>1, PTL DEF Spec

\* No job is ever in the hands of two live workers.
THEOREM MutualExclusion ==
    ASSUME MayStall = FALSE
    PROVE  Spec => []OneWorkerPerJob
<1>1. QueueInv => OneWorkerPerJob
  BY DEF QueueInv
<1>2. QED
  BY QueueInvariant, <1>1, PTL

\* Users see a transcript exactly when its job has been done.
THEOREM TranscriptWhenDone ==
    ASSUME MayStall = FALSE
    PROVE  Spec => []TranscriptMatchesStatus
<1>1. QueueInv => TranscriptMatchesStatus
  BY DEF QueueInv, Published, TranscriptMatchesStatus
<1>2. QED
  BY QueueInvariant, <1>1, PTL

\* A job to run or to resume still has its upload.
THEOREM WorkspaceKept ==
    ASSUME MayStall = FALSE
    PROVE  Spec => []ResumableKeepsWorkspace
<1>1. QueueInv => ResumableKeepsWorkspace
  BY DEF QueueInv
<1>2. QED
  BY QueueInvariant, <1>1, PTL

\* The UNIQUE constraint on transcripts.job_id is never hit.
THEOREM NoCollision ==
    ASSUME MayStall = FALSE
    PROVE  Spec => []NoTranscriptCollision
<1>1. QueueInv => NoTranscriptCollision
  BY DEF QueueInv, AttemptUnpublished, NoTranscriptCollision
<1>2. QED
  BY QueueInvariant, <1>1, PTL

-----------------------------------------------------------------------------
(* The queue implements JobLease                                             *)

\* Since a job has one holder at most, the mapped owner is that holder.
LEMMA OwnerIsHolder ==
    ASSUME OneWorkerPerJob, NEW w \in Workers, NEW j \in Jobs, held[w] = j
    PROVE  Owner(j) = w
  BY NoJobAssumption DEF OneWorkerPerJob, Owner, Held, Holds

\* The same after a step.
LEMMA OwnerIsHolderNext ==
    ASSUME OneWorkerPerJob', NEW w \in Workers, NEW j \in Jobs, held'[w] = j
    PROVE  Owner(j)' = w
  BY NoJobAssumption DEF OneWorkerPerJob, Owner, Held, Holds

\* A job nobody holds is owned by nobody.
LEMMA FreeHasNoOwner ==
    /\ \A j \in Jobs : ~Held(j) => Owner(j) = NoJob
    /\ \A j \in Jobs : ~Held(j)' => Owner(j)' = NoJob
  BY DEF Owner

\* The owners stay when no worker takes or leaves a job.
LEMMA OwnersStay ==
    ASSUME UNCHANGED held
    PROVE  [j \in Jobs |-> Owner(j)]' = [j \in Jobs |-> Owner(j)]
  BY DEF Owner, Held, Holds

\* Stages, owners and transcripts stay when their parts of the state do.
LEMMA LeaseStutters ==
    ASSUME UNCHANGED <<status, held, transcript>>
    PROVE  UNCHANGED Lease!vars
  BY OwnersStay DEF Lease!vars, Stage

\* Recording an outcome closes the job or, when it is over already, changes nothing.
LEMMA OverCloses ==
    ASSUME TypeInv, NEW j \in Jobs, NEW s \in {"failed", "cancelled", "cancelling"},
           status[j] # "absent",
           status' = [status EXCEPT ![j] = s],
           UNCHANGED held, UNCHANGED transcript
    PROVE  [Lease!Next]_(Lease!vars)
<1> DEFINE stage == [i \in Jobs |-> Stage(i)]
<1>1. stage' = [stage EXCEPT ![j] = "over"]
  BY DEF TypeInv, TypeOK, Stage
<1>2. CASE stage[j] \in {"waiting", "active"}
  <2>1. Lease!Close(j)
    BY <1>1, <1>2, OwnersStay DEF Lease!Close
  <2>2. QED
    BY <2>1 DEF Lease!Next
<1>3. CASE stage[j] \notin {"waiting", "active"}
  <2>1. stage[j] = "over"
    BY <1>3 DEF Stage
  <2>2. stage' = stage
    BY <1>1, <2>1
  <2>3. QED
    BY <2>2, OwnersStay DEF Lease!vars
<1>4. QED
  BY <1>2, <1>3

\* A worker that leaves its job releases the lease.
LEMMA LeavingReleases ==
    ASSUME QueueInv, QueueInv', NEW w \in Workers, held[w] \in Jobs,
           held' = [held EXCEPT ![w] = NoJob],
           UNCHANGED status, UNCHANGED transcript
    PROVE  Lease!Next
<1> DEFINE owner == [j \in Jobs |-> Owner(j)]
<1> USE NoJobAssumption DEF QueueInv
<1>1. owner[held[w]] = w
  BY OwnerIsHolder
<1>2. ASSUME NEW j \in Jobs
      PROVE  owner'[j] = IF j = held[w] THEN NoJob ELSE owner[j]
  <2>1. CASE j = held[w]
    <3>1. ~Held(j)'
      BY <2>1 DEF TypeInv, TypeOK, OneWorkerPerJob, Held, Holds
    <3>2. QED
      BY <2>1, <3>1, FreeHasNoOwner
  <2>2. CASE j # held[w]
    <3>1. CASE Held(j)
      <4>1. PICK v \in Workers : held[v] = j
        BY <3>1 DEF Held, Holds
      <4>2. held'[v] = j
        BY <2>2, <4>1 DEF TypeInv, TypeOK
      <4>3. Owner(j) = v /\ Owner(j)' = v
        BY <4>1, <4>2, OwnerIsHolder, OwnerIsHolderNext
      <4>4. QED
        BY <2>2, <4>3
    <3>2. CASE ~Held(j)
      <4>1. ~Held(j)'
        BY <3>2 DEF TypeInv, TypeOK, Held, Holds
      <4>2. QED
        BY <2>2, <3>2, <4>1, FreeHasNoOwner
    <3>3. QED
      BY <3>1, <3>2
  <2>3. QED
    BY <2>1, <2>2
<1>3. owner' = [owner EXCEPT ![held[w]] = NoJob]
  BY <1>2
<1>4. Lease!Release(w, held[w])
  BY <1>1, <1>3 DEF Lease!Release, Stage
<1>5. QED
  BY <1>4 DEF Lease!Next

\* A claim grants the lease of a job nobody has.
LEMMA ClaimGrants ==
    ASSUME QueueInv, QueueInv', NEW w \in Workers, Claim(w)
    PROVE  Lease!Next
<1> DEFINE owner == [j \in Jobs |-> Owner(j)]
<1> USE NoJobAssumption DEF QueueInv
<1>1. PICK j \in Jobs :
        /\ task[w] = "idle"
        /\ status[j] = "queued"
        /\ status' = [status EXCEPT ![j] = "running"]
        /\ held' = [held EXCEPT ![w] = j]
        /\ transcript' = transcript
  BY DEF Claim, Oldest
<1>2. held[w] = NoJob /\ held'[w] = j
  BY <1>1 DEF TypeInv, TypeOK, BusyHolds
<1>3. ~Held(j)
  BY <1>1 DEF HeldIsFresh, Held, Holds
<1>4. owner[j] = NoJob /\ owner'[j] = w
  BY <1>2, <1>3, FreeHasNoOwner, OwnerIsHolderNext
<1>5. ASSUME NEW i \in Jobs, i # j
      PROVE  owner'[i] = owner[i]
  <2>1. CASE Held(i)
    <3>1. PICK v \in Workers : held[v] = i
      BY <2>1 DEF Held, Holds
    <3>2. held'[v] = i
      BY <1>1, <1>2, <3>1 DEF TypeInv, TypeOK
    <3>3. QED
      BY <3>1, <3>2, OwnerIsHolder, OwnerIsHolderNext
  <2>2. CASE ~Held(i)
    <3>1. ~Held(i)'
      BY <1>1, <1>5, <2>2 DEF TypeInv, TypeOK, Held, Holds
    <3>2. QED
      BY <2>2, <3>1, FreeHasNoOwner
  <2>3. QED
    BY <2>1, <2>2
<1>6. owner' = [owner EXCEPT ![j] = w]
  BY <1>4, <1>5
<1>7. [i \in Jobs |-> Stage(i)]' = [[i \in Jobs |-> Stage(i)] EXCEPT ![j] = "active"]
  BY <1>1 DEF Stage, TypeInv, TypeOK
<1>8. Lease!Grant(w, j)
  BY <1>1, <1>4, <1>6, <1>7 DEF Lease!Grant, Stage
<1>9. QED
  BY <1>8 DEF Lease!Next

\* Recovery gives back jobs whose holder died.
LEMMA StartGivesBack ==
    ASSUME QueueInv, NEW w \in Workers, Start(w)
    PROVE  Lease!Next
<1> DEFINE S == {j \in Jobs : status[j] = "running" /\ Stale(j)}
<1> USE NoJobAssumption DEF QueueInv
<1>1. \A j \in S : ~Held(j)
  BY DEF HeldIsFresh, Stale, Held, Holds
<1>2. \A j \in S : Stage(j) = "active" /\ Owner(j) = NoJob
  BY <1>1, FreeHasNoOwner DEF Stage
<1>3. [i \in Jobs |-> Stage(i)]'
        = [j \in Jobs |-> IF j \in S THEN "waiting" ELSE Stage(j)]
  BY DEF Start, Recovered, Stage
<1>4. Lease!GiveBack(S)
  BY <1>2, <1>3, OwnersStay DEF Lease!GiveBack, Start
<1>5. QED
  BY <1>4 DEF Lease!Next

\* The commit of a transcript delivers it.
LEMMA CompleteDelivers ==
    ASSUME QueueInv, NEW w \in Workers, Complete(w)
    PROVE  Lease!Next
<1> DEFINE j == held[w]
<1> USE NoJobAssumption DEF QueueInv
<1>1. j \in Jobs /\ j # NoJob
  BY BusyHasJob DEF Complete
<1>2. Owner(j) = w
  BY <1>1, OwnerIsHolder
<1>3. status[j] \notin {"absent", "queued"}
  BY <1>1 DEF HeldIsFresh
<1>4. Stage(j) \in {"active", "over"}
  BY <1>3 DEF Stage
<1>5. [i \in Jobs |-> Stage(i)]' = [[i \in Jobs |-> Stage(i)] EXCEPT ![j] = "over"]
  BY DEF Complete, Stage, TypeInv, TypeOK
<1>6. Lease!Deliver(w, j)
  BY <1>1, <1>2, <1>4, <1>5, OwnersStay DEF Lease!Deliver, Complete
<1>7. QED
  BY <1>1, <1>6 DEF Lease!Next

\* Every step of the queue is a step of the leases or none.
LEMMA StepImplementsLease ==
    ASSUME QueueInv, QueueInv', [Next]_vars
    PROVE  [Lease!Next]_(Lease!vars)
<1> USE NoJobAssumption DEF QueueInv
<1>1. ASSUME NEW j \in Jobs, Submit(j)
      PROVE  Lease!Next
  <2>1. [i \in Jobs |-> Stage(i)]' = [[i \in Jobs |-> Stage(i)] EXCEPT ![j] = "waiting"]
    BY <1>1 DEF Submit, Stage, TypeInv, TypeOK
  <2>2. Lease!Submit(j)
    BY <1>1, <2>1, OwnersStay DEF Submit, Stage, Lease!Submit, worker
  <2>3. QED
    BY <2>2 DEF Lease!Next
<1>2. ASSUME NEW j \in Jobs, CancelRead(j) \/ Expire(j)
      PROVE  UNCHANGED Lease!vars
  BY <1>2, LeaseStutters DEF CancelRead, Expire, table, worker
<1>3. ASSUME NEW a \in asks, CancelWrite(a)
      PROVE  [Lease!Next]_(Lease!vars)
  <2>1. a.job \in Jobs /\ status[a.job] # "absent"
    BY DEF TypeInv, TypeOK, Asks, AsksExist
  <2>2. CancelOutcome(a.saw) \in {"failed", "cancelled", "cancelling"}
    BY CancelOutcomeType
  <2>3. QED
    BY <1>3, <2>1, <2>2, OverCloses DEF CancelWrite, worker
<1>4. ASSUME NEW w \in Workers, Start(w)
      PROVE  Lease!Next
  BY <1>4, StartGivesBack
<1>5. ASSUME NEW w \in Workers, Claim(w)
      PROVE  Lease!Next
  BY <1>5, ClaimGrants
<1>6. ASSUME NEW w \in Workers, Complete(w)
      PROVE  Lease!Next
  BY <1>6, CompleteDelivers
<1>7. ASSUME NEW w \in Workers, Begin(w)
      PROVE  UNCHANGED Lease!vars
  <2>1. UNCHANGED <<status, held, transcript>>
    BY <1>7 DEF Begin, AttemptUnpublished
  <2>2. QED
    BY <2>1, LeaseStutters
<1>8. ASSUME NEW w \in Workers, Fail(w)
      PROVE  [Lease!Next]_(Lease!vars)
  <2>1. held[w] \in Jobs /\ status[held[w]] # "absent"
    BY <1>8, BusyHasJob DEF Fail, HeldIsFresh
  <2>2. UNCHANGED <<held, transcript>>
    BY <1>8 DEF Fail, AttemptUnpublished
  <2>3. QED
    BY <1>8, <2>1, <2>2, OverCloses DEF Fail
<1>9. ASSUME NEW w \in Workers, Finish(w)
      PROVE  [Lease!Next]_(Lease!vars)
  <2>1. held[w] \in Jobs /\ status[held[w]] # "absent"
    BY <1>9, BusyHasJob DEF Finish, HeldIsFresh
  <2>2. QED
    BY <1>9, <2>1, OverCloses DEF Finish
<1>10. ASSUME NEW w \in Workers, Tidy(w)
       PROVE  Lease!Next
  BY <1>10, BusyHasJob, LeavingReleases DEF Tidy, table
<1>11. ASSUME NEW w \in Workers, Crash(w)
       PROVE  [Lease!Next]_(Lease!vars)
  <2>1. CASE held[w] = NoJob
    <3>1. held' = held
      BY <1>11, <2>1 DEF Crash, TypeInv, TypeOK
    <3>2. QED
      BY <1>11, <3>1, LeaseStutters DEF Crash, table
  <2>2. CASE held[w] # NoJob
    <3>1. held[w] \in Jobs
      BY <2>2 DEF TypeInv, TypeOK
    <3>2. QED
      BY <1>11, <3>1, LeavingReleases DEF Crash, table
  <2>3. QED
    BY <2>1, <2>2
<1>12. ASSUME NEW w \in Workers,
              ChunkDone(w) \/ Resume(w) \/ Supervise(w) \/ SupervisorFails(w)
       PROVE  UNCHANGED Lease!vars
  BY <1>12, LeaseStutters
  DEF ChunkDone, Resume, Supervise, Poll, Heartbeat, StopWork, SupervisorFails,
      table, worker
<1>13. CASE UNCHANGED vars
  BY <1>13, LeaseStutters DEF vars, table, worker
<1>14. QED
  BY <1>1, <1>2, <1>3, <1>4, <1>5, <1>6, <1>7, <1>8, <1>9, <1>10, <1>11, <1>12, <1>13
  DEF Next, Api, Work, Settle, Fault

\* The queue implements the leases of JobLease as long as no live worker lets its
\* heartbeat expire.
THEOREM QueueImplementsLease ==
    ASSUME MayStall = FALSE
    PROVE  Spec => ImplementsLease
<1>1. Init => Lease!Init
  BY NoJobAssumption DEF Init, Lease!Init, Stage, Owner, Held, Holds
<1>2. QueueInv /\ QueueInv' /\ [Next]_vars => [Lease!Next]_(Lease!vars)
  BY StepImplementsLease
<1>3. QED
  BY QueueInvariant, <1>1, <1>2, PTL DEF Spec, ImplementsLease, Lease!Spec

=============================================================================
