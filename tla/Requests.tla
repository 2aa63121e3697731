------------------------------ MODULE Requests ------------------------------
(***************************************************************************)
(* What the requests of the API share besides the queue: the table of      *)
(* users, where identities turn up for the first time; the write lock of   *)
(* SQLite, which an upload takes before it copies its file; the files in   *)
(* tmp/; and the pool of database connections.                             *)
(*                                                                         *)
(* Source: backend/app/deps.py, db.py, storage.py, api/setup.py,           *)
(* api/jobs.py (create_job, and the session of a stream).                  *)
(*                                                                         *)
(* Covered: every request as a task of its own, interleaved at its awaits; *)
(*   a SELECT sees what is committed and locks nothing, the first INSERT   *)
(*   takes the lock that the COMMIT or the rollback gives back; waiting    *)
(*   for the lock (busy_timeout) and for a connection (the pool's timeout),*)
(*   and giving up; uploads that are refused, that fail, and an API that   *)
(*   dies while they run.                                                  *)
(* Abstracted: passwords and cookies (a request bears the name of its user,*)
(*   or a name no row has); what a request does after it knows its user,   *)
(*   unless it writes.  The writes of the worker hold the lock for no time *)
(*   that the API could notice; that they may wait for an upload in vain is*)
(*   JobQueue's SupervisorFails and Crash.                                 *)
(* External: SQLAlchemy's pool and SQLite's locks, as db.py uses them.     *)
(***************************************************************************)
EXTENDS Integers, FiniteSets

CONSTANTS
    Requests,   \* the requests under way at a time
    Names,      \* identities
    Jobs,       \* the ids of the uploads
    Nobody,     \* no user, no request, no job
    MaxPool     \* the most connections there may be (15 by SQLAlchemy's defaults)

ASSUME NobodyAssumption == Nobody \notin Requests \union Names \union Jobs
ASSUME RequestsAssumption == IsFiniteSet(Requests)
ASSUME PoolAssumption == MaxPool \in Nat \ {0}

VARIABLES
    delegated,  \* auth_mode is "proxy" or "disabled", not "builtin"
    pool,       \* how many connections there are
    users,      \* the names in the table users
    admins,     \* those that create_first_admin inserted
    owner,      \* the owner of each row of jobs, Nobody when there is no row
    file,       \* tmp/{id}: "none", "dir" (empty), "part" or "whole" source
    lock,       \* the request in whose transaction SQLite's write lock is
    req,        \* the requests, see Reqs
    died        \* history: uploads that ended without cleaning up

setting == <<delegated, pool>>
tables == <<users, admins, owner>>
vars == <<setting, tables, file, lock, req, died>>

Kinds == {"upload", "stream", "setup"}

\* "pool": before its first SELECT, for which it needs a connection.  "whoami": that
\* SELECT, of its user or of the number of users.  "insert": before the INSERT of a
\* user.  "add": before that of a job.  "copy", "commit": in save_upload, after it.
\* "watch": a stream.
Places == {"pool", "whoami", "insert", "add", "copy", "commit", "watch"}

\* conn: its session has a connection.
Reqs == [at: Places, kind: Kinds, name: Names, job: Jobs \union {Nobody}, conn: BOOLEAN]

ASSUME ReqsAssumption == Nobody \notin Reqs

At(r, place) == req[r] # Nobody /\ req[r].at = place
Holders == {r \in Requests : req[r] # Nobody /\ req[r].conn}
Used == Cardinality(Holders)

Copying(j) ==
    \E r \in Requests : (At(r, "copy") \/ At(r, "commit")) /\ req[r].job = j

TypeOK ==
    /\ delegated \in BOOLEAN
    /\ pool \in 1 .. MaxPool
    /\ users \subseteq Names /\ admins \subseteq users
    /\ owner \in [Jobs -> users \union {Nobody}]
    /\ file \in [Jobs -> {"none", "dir", "part", "whole"}]
    /\ lock \in Requests \union {Nobody}
    /\ req \in [Requests -> Reqs \union {Nobody}]
    /\ died \subseteq Jobs
    /\ Used <= pool

Init ==
    /\ delegated \in BOOLEAN
    /\ pool \in 1 .. MaxPool
    /\ users = {} /\ admins = {}
    /\ owner = [j \in Jobs |-> Nobody]
    /\ file = [j \in Jobs |-> "none"]
    /\ lock = Nobody
    /\ req = [r \in Requests |-> Nobody]
    /\ died = {}

-----------------------------------------------------------------------------
(* A request comes, gets a connection, and goes *)

Unused(j) ==
    /\ owner[j] = Nobody /\ file[j] = "none"
    /\ \A r \in Requests : req[r] # Nobody => req[r].job # j

\* An upload brings the id of its job, which the code draws in the flush.
Arrive(r, k, n, j) ==
    /\ req[r] = Nobody
    /\ IF k = "upload" THEN j # Nobody /\ Unused(j) ELSE j = Nobody
    /\ req' = [req EXCEPT ![r] =
                 [at |-> "pool", kind |-> k, name |-> n, job |-> j, conn |-> FALSE]]
    /\ UNCHANGED <<setting, tables, file, lock, died>>

\* Mutant: only a commit ends the transaction.
GoAfterCommit(r) == req' = [req EXCEPT ![r] = Nobody] /\ lock' = lock

\* get_session closes the session: an open transaction is rolled back, the
\* connection goes back to the pool.
Go(r) ==
    /\ req' = [req EXCEPT ![r] = Nobody]
    /\ lock' = IF lock = r THEN Nobody ELSE lock

WaitsForConnection(r) == (At(r, "pool") \/ At(r, "add")) /\ ~req[r].conn
WaitsForLock(r) == (At(r, "insert") \/ At(r, "add")) /\ req[r].conn

\* What a request that has its connection goes on with.
Onward(r) == IF req[r].at = "pool" THEN "whoami" ELSE "add"

\* Mutant: as many connections as there are requests.
ConnectAlways(r) ==
    /\ WaitsForConnection(r)
    /\ req' = [req EXCEPT ![r].conn = TRUE, ![r].at = Onward(r)]
    /\ UNCHANGED <<setting, tables, file, lock, died>>

\* The pool has a connection left, or may make one.
Connect(r) ==
    /\ WaitsForConnection(r) /\ Used < pool
    /\ req' = [req EXCEPT ![r].conn = TRUE, ![r].at = Onward(r)]
    /\ UNCHANGED <<setting, tables, file, lock, died>>

\* The pool's timeout, or busy_timeout: an answer with status 500.
GiveUp(r) ==
    /\ \/ WaitsForConnection(r) /\ Used = pool
       \/ WaitsForLock(r) /\ lock # Nobody
    /\ Go(r)
    /\ UNCHANGED <<setting, tables, file, died>>

-----------------------------------------------------------------------------
(* Who is it? *)

\* What follows once the user is known.
Served(r) == IF req[r].kind = "upload" THEN "add" ELSE "watch"

\* get_current_user finds the row.
Known(r) ==
    /\ At(r, "whoami") /\ req[r].kind # "setup"
    /\ req[r].name \in users
    /\ req' = [req EXCEPT ![r].at = Served(r)]
    /\ UNCHANGED <<setting, tables, file, lock, died>>

\* The number of users is not 0 any more, or nobody has signed in: 409, 401.
Refused(r) ==
    /\ At(r, "whoami")
    /\ IF req[r].kind = "setup" THEN users # {}
                                ELSE ~delegated /\ req[r].name \notin users
    /\ Go(r)
    /\ UNCHANGED <<setting, tables, file, died>>

\* create_first_admin has counted nobody, or resolve_user has found nobody.
Unknown(r) ==
    /\ At(r, "whoami")
    /\ IF req[r].kind = "setup" THEN users = {}
                                ELSE delegated /\ req[r].name \notin users
    /\ req' = [req EXCEPT ![r].at = "insert"]
    /\ UNCHANGED <<setting, tables, file, lock, died>>

\* INSERT and COMMIT, after which the session has no connection any more.
Register(r) ==
    /\ At(r, "insert") /\ lock = Nobody
    /\ req[r].name \notin users
    /\ users' = users \union {req[r].name}
    /\ admins' = IF req[r].kind = "setup" THEN admins \union {req[r].name} ELSE admins
    /\ req' = [req EXCEPT ![r] =
                 IF req[r].kind = "setup" THEN Nobody
                 ELSE [@ EXCEPT !.at = Served(r), !.conn = FALSE]]
    /\ UNCHANGED <<setting, owner, file, lock, died>>

\* Another request has inserted the name since: IntegrityError, which nobody catches,
\* status 500.  (tests/test_auth_modes.py:18 says that simultaneous first requests resolve
\* to one user; they do when none of them overlaps the insert of another.)
Collide(r) ==
    /\ At(r, "insert") /\ lock = Nobody
    /\ req[r].name \in users
    /\ Go(r)
    /\ UNCHANGED <<setting, tables, file, died>>

-----------------------------------------------------------------------------
(* Uploads *)

\* Mutant: the row is committed before the file is there.
AddCommits(r) ==
    /\ At(r, "add") /\ req[r].conn /\ lock = Nobody
    /\ owner' = [owner EXCEPT ![req[r].job] = req[r].name]
    /\ file' = [file EXCEPT ![req[r].job] = "part"]
    /\ req' = [req EXCEPT ![r].at = "copy"]
    /\ UNCHANGED <<setting, users, admins, lock, died>>

\* session.flush() inserts the row and takes the lock; save_upload makes the
\* directory and opens the file.
Add(r) ==
    /\ At(r, "add") /\ req[r].conn /\ lock = Nobody
    /\ lock' = r
    /\ file' = [file EXCEPT ![req[r].job] = "part"]
    /\ req' = [req EXCEPT ![r].at = "copy"]
    /\ UNCHANGED <<setting, tables, died>>

Copied(r) ==
    /\ At(r, "copy")
    /\ file' = [file EXCEPT ![req[r].job] = "whole"]
    /\ req' = [req EXCEPT ![r].at = "commit"]
    /\ UNCHANGED <<setting, tables, lock, died>>

\* Too large, or empty: the file goes, the directory stays.
Refuse(r) ==
    /\ At(r, "copy")
    /\ file' = [file EXCEPT ![req[r].job] = "dir"]
    /\ Go(r)
    /\ UNCHANGED <<setting, tables, died>>

\* The disk is full: what has been written stays.
CopyFails(r) ==
    /\ At(r, "copy")
    /\ died' = died \union {req[r].job}
    /\ Go(r)
    /\ UNCHANGED <<setting, tables, file>>

CommitJob(r) ==
    /\ At(r, "commit")
    /\ owner' = [owner EXCEPT ![req[r].job] = req[r].name]
    /\ Go(r)
    /\ UNCHANGED <<setting, users, admins, file, died>>

\* The COMMIT fails (a full disk): the row is rolled back, nobody removes the file.
CommitFails(r) ==
    /\ At(r, "commit")
    /\ died' = died \union {req[r].job}
    /\ Go(r)
    /\ UNCHANGED <<setting, tables, file>>

-----------------------------------------------------------------------------
(* Streams *)

\* The session of the request keeps its connection as long as the response lasts, so
\* that each poll needs a second one: without any, it times out and ends the stream.
PollTimesOut(r) ==
    /\ At(r, "watch") /\ Used = pool
    /\ Go(r)
    /\ UNCHANGED <<setting, tables, file, died>>

\* Everything is over, or the page closes the stream.
StreamEnds(r) ==
    /\ At(r, "watch")
    /\ Go(r)
    /\ UNCHANGED <<setting, tables, file, died>>

-----------------------------------------------------------------------------

\* The API process dies: open transactions are rolled back, files stay.
Crash ==
    /\ \E r \in Requests : req[r] # Nobody
    /\ req' = [r \in Requests |-> Nobody]
    /\ lock' = Nobody
    /\ died' = died \union {j \in Jobs : Copying(j)}
    /\ UNCHANGED <<setting, tables, file>>

Step(r) ==
    \/ Connect(r) \/ GiveUp(r)
    \/ Known(r) \/ Refused(r) \/ Unknown(r) \/ Register(r) \/ Collide(r)
    \/ Add(r) \/ Copied(r) \/ Refuse(r) \/ CopyFails(r) \/ CommitJob(r)
    \/ CommitFails(r) \/ PollTimesOut(r)

Next ==
    \/ \E r \in Requests, k \in Kinds, n \in Names, j \in Jobs \union {Nobody} :
          Arrive(r, k, n, j)
    \/ \E r \in Requests : Step(r) \/ StreamEnds(r)
    \/ Crash

Spec == Init /\ [][Next]_vars

\* The event loop goes on with every request, copies end, and waiting has a timeout.
\* Nothing is assumed of how long streams stay open.
FairSpec == Spec /\ \A r \in Requests : WF_vars(Step(r))

-----------------------------------------------------------------------------
(* Properties *)

\* A row in the queue has its whole upload on disk, and what else lies there is being
\* written, or is the rest of an upload that nobody could clean up; an upload that is
\* refused leaves no file.
FilesMatchRows ==
    \A j \in Jobs :
        /\ owner[j] # Nobody => file[j] = "whole"
        /\ file[j] \in {"part", "whole"} =>
              \/ owner[j] # Nobody \/ j \in died
              \/ Copying(j)

\* Requests wait for what other requests hold, streams for a second connection while
\* they hold their first: the lock becomes free again whatever becomes of the upload
\* that has it, and a pool that is used up gets a connection back.
LockAndPoolComeFree ==
    /\ lock # Nobody ~> lock = Nobody
    /\ Used = pool ~> Used < pool

=============================================================================
