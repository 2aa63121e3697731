------------------------------ MODULE JobLife -------------------------------
(***************************************************************************)
(* The life of a job as everybody outside the queue sees it, whoever       *)
(* writes its status and however late: a row appears queued and never      *)
(* vanishes; while the job is live it may wait and run any number of       *)
(* times; once it is over, or being cancelled, it is never live again,     *)
(* although which of the final words it bears may still change.            *)
(*                                                                         *)
(* JobQueue implements this specification even when workers stall, and     *)
(* JobsPage takes its rows from it.                                        *)
(***************************************************************************)
EXTENDS Integers

CONSTANT Jobs

VARIABLE status     \* jobs.status of each job, "absent" before its row

Live == {"queued", "running"}
Final == {"done", "failed", "cancelled"}
Statuses == {"absent", "cancelling"} \union Live \union Final

Phase(s) == IF s = "absent" THEN 0 ELSE IF s \in Live THEN 1 ELSE 2

Init == status = [j \in Jobs |-> "absent"]

\* Mutant: somebody puts failed jobs back into the queue.
MayRetry(s, t) ==
    IF s = "absent" THEN t \in {"absent", "queued"}
    ELSE t # "absent" /\ (Phase(t) >= Phase(s) \/ s = "failed" \/ s = "cancelling")

\* The statuses that a job with status s may have next.
May(s, t) ==
    IF s = "absent" THEN t \in {"absent", "queued"} ELSE Phase(t) >= Phase(s)

\* A commit may write several rows (recovery does).
Next ==
    /\ status' \in [Jobs -> Statuses]
    /\ \A j \in Jobs : May(status[j], status'[j])

Spec == Init /\ [][Next]_status

=============================================================================
