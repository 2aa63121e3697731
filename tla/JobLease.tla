------------------------------ MODULE JobLease ------------------------------
(***************************************************************************)
(* What the queue promises, without saying how: a job is leased to at most *)
(* one worker at a time, only the holder of the lease delivers a           *)
(* transcript, a transcript is delivered once and is never taken back, and *)
(* a job that is over is never leased again.                               *)
(*                                                                         *)
(* JobQueue implements this specification as long as no live worker lets   *)
(* its heartbeat expire.                                                   *)
(***************************************************************************)
CONSTANTS Jobs, Workers, Nobody

VARIABLES
    stage,      \* "none", "waiting", "active" or "over"
    owner,      \* the worker that holds the lease of a job, or Nobody
    delivered   \* the jobs whose transcript can be read

vars == <<stage, owner, delivered>>

Init ==
    /\ stage = [j \in Jobs |-> "none"]
    /\ owner = [j \in Jobs |-> Nobody]
    /\ delivered = {}

\* A user hands in a job.
Submit(j) ==
    /\ stage[j] = "none"
    /\ stage' = [stage EXCEPT ![j] = "waiting"]
    /\ UNCHANGED <<owner, delivered>>

\* A worker takes the lease of a waiting job.
Grant(w, j) ==
    /\ stage[j] = "waiting"
    /\ owner[j] = Nobody
    /\ stage' = [stage EXCEPT ![j] = "active"]
    /\ owner' = [owner EXCEPT ![j] = w]
    /\ UNCHANGED delivered

\* The holder of the lease publishes the transcript, perhaps after the user
\* has already cancelled the job.
Deliver(w, j) ==
    /\ owner[j] = w
    /\ stage[j] \in {"active", "over"}
    /\ j \notin delivered
    /\ stage' = [stage EXCEPT ![j] = "over"]
    /\ delivered' = delivered \union {j}
    /\ UNCHANGED owner

\* The job fails or its cancellation is asked for.
Close(j) ==
    /\ stage[j] \in {"waiting", "active"}
    /\ stage' = [stage EXCEPT ![j] = "over"]
    /\ UNCHANGED <<owner, delivered>>

\* The holder is through with the job, or dies.
Release(w, j) ==
    /\ owner[j] = w
    /\ owner' = [owner EXCEPT ![j] = Nobody]
    /\ UNCHANGED <<stage, delivered>>

\* Jobs whose holder died wait again.
GiveBack(S) ==
    /\ \A j \in S : stage[j] = "active" /\ owner[j] = Nobody
    /\ stage' = [j \in Jobs |-> IF j \in S THEN "waiting" ELSE stage[j]]
    /\ UNCHANGED <<owner, delivered>>

Next ==
    \/ \E j \in Jobs : Submit(j) \/ Close(j)
    \/ \E w \in Workers, j \in Jobs :
          Grant(w, j) \/ Deliver(w, j) \/ Release(w, j)
    \/ \E S \in SUBSET Jobs : GiveBack(S)

Spec == Init /\ [][Next]_vars

=============================================================================
