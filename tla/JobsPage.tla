------------------------------ MODULE JobsPage ------------------------------
(***************************************************************************)
(* One browser page with the list of jobs, and the stream of server-sent   *)
(* events that keeps it current.  The rows live the life of JobLife.       *)
(*                                                                         *)
(* Source: frontend/src/pages/JobsPage.tsx, frontend/src/api/client.ts     *)
(* (watchJobs), backend/app/api/jobs.py (list_jobs, job_list_events).      *)
(*                                                                         *)
(* Covered: the polling loop of the stream and its end; the page's effect, *)
(*   which runs after a render, when several lists may have arrived since  *)
(*   the last one; refreshes after the page's own uploads and cancels,     *)
(*   whose answers overtake each other and the stream; a stream that       *)
(*   breaks; rows changed by other pages and by late writes.               *)
(* Abstracted: the fields of a row but its status; requests that are       *)
(*   refused (they change nothing here); an upload, which is its commit.   *)
(* Not covered: a refresh that fails.  After an upload or a cancel the page *)
(*   says so; the first one fails in silence and leaves the page empty.    *)
(***************************************************************************)
EXTENDS Integers, Sequences, FiniteSets

CONSTANTS
    Jobs,       \* the job ids of one owner
    Old,        \* those that exist when the page is opened
    Seen,       \* the statuses that rows go through here, "absent" aside
    NoList,     \* the page before its first list; a stream before its first event
    MaxAsks,    \* requests of the page that are not read yet
    MaxFlying   \* lists on their way to the page

VARIABLES
    status,     \* the rows, see JobLife
    list,       \* the list in the state of the page, or NoList
    watched,    \* the pendingCount for which the effect ran last
    stream,     \* the page's EventSource: "none" when there is none or it is closed
    server,     \* job_list_events: "off", "polling", or "ended" when it returned
    sent,       \* its variable previous
    asking,     \* GET /api/jobs of the page, not read by the server yet
    flying,     \* lists on their way to the page, in the order they were read
    muddled,    \* history: what the page shows is older than what it showed before
    cut,        \* history: since the effect ran last, an error closed the stream, or a list
                \* was replaced before it could run again
    elsewhere   \* history: rows were changed behind the page's back after the list it
                \* shows was read

page == <<list, watched>>
source == <<stream, server, sent>>
history == <<muddled, cut, elsewhere>>
vars == <<status, page, source, asking, flying, history>>

Life == INSTANCE JobLife

ASSUME SeenAssumption == "queued" \in Seen /\ Seen \subseteq Life!Statuses \ {"absent"}
ASSUME JobsAssumption == IsFiniteSet(Jobs)
ASSUME OldAssumption == Old \subseteq Jobs
ASSUME BoundsAssumption == MaxAsks \in Nat \ {0} /\ MaxFlying \in Nat

Rows == [Jobs -> Seen \union {"absent"}]
ASSUME NoListAssumption == NoList \notin Rows
NoRows == [j \in Jobs |-> "absent"]
Lists == [via: {"stream", "answer"}, rows: Rows, late: BOOLEAN, missed: BOOLEAN]

Pending(rows) == Cardinality({j \in Jobs : rows[j] \notin Life!Final \union {"absent"}})

\* What the page shows.
Shown == IF list = NoList THEN NoRows ELSE list

TypeOK ==
    /\ status \in Rows
    /\ list \in Rows \union {NoList}
    /\ watched \in 0 .. Cardinality(Jobs)
    /\ stream \in {"none", "open"}
    /\ server \in {"off", "polling", "ended"}
    /\ stream = "open" <=> server # "off"
    /\ sent \in Rows \union {NoList}
    /\ asking \in 0 .. MaxAsks
    /\ flying \in Seq(Lists) /\ Len(flying) <= MaxFlying
    /\ {muddled, cut, elsewhere} \subseteq BOOLEAN

\* The page is opened; its first refresh is under way.
Init ==
    /\ status \in Rows /\ \A j \in Jobs : j \in Old <=> status[j] # "absent"
    /\ list = NoList /\ watched = 0
    /\ stream = "none" /\ server = "off" /\ sent = NoList
    /\ asking = 1 /\ flying = << >>
    /\ muddled = FALSE /\ cut = FALSE /\ elsewhere = FALSE

-----------------------------------------------------------------------------
(* The rows *)

\* Row j gets one of the statuses S, as far as its life allows.  A final one comes
\* with a new finished_at, so that the row equals none that was sent before.
Write(j, S) == \E s \in S \intersect Seen :
    /\ Life!May(status[j], s)
    /\ status' = [status EXCEPT ![j] = s]
    /\ sent' = IF s \in Life!Final /\ sent # NoList THEN [sent EXCEPT ![j] = "absent"]
               ELSE sent

\* The worker, or a request of another page, moves a job that is not over.
Move(j) ==
    /\ status[j] \notin Life!Final \union {"absent"}
    /\ Write(j, Seen)
    /\ UNCHANGED <<page, stream, server, asking, flying, history>>

\* Behind the page's back: another page uploads, or a late cancel writes over a
\* final status, which ends streams as if nothing could follow it.
ChangeElsewhere(j) ==
    /\ status[j] \in Life!Final \union {"absent"}
    /\ Write(j, Seen)
    /\ elsewhere' = TRUE
    /\ flying' = [i \in DOMAIN flying |-> [flying[i] EXCEPT !.missed = TRUE]]
    /\ UNCHANGED <<page, stream, server, asking, muddled, cut>>

-----------------------------------------------------------------------------
(* The user *)

\* upload: POST /api/jobs, then refresh.
Upload(j) ==
    /\ asking < MaxAsks
    /\ status[j] = "absent"
    /\ Write(j, {"queued"})
    /\ asking' = asking + 1
    /\ UNCHANGED <<page, stream, server, flying, history>>

\* cancel: the button is there for what the page shows as waiting or running.  The
\* request writes over whatever the row has become, then the page refreshes.
Cancel(j) ==
    /\ asking < MaxAsks
    /\ Shown[j] \in Life!Live
    /\ Write(j, {"cancelling", "cancelled"})
    /\ asking' = asking + 1
    /\ UNCHANGED <<page, stream, server, flying, history>>

-----------------------------------------------------------------------------
(* The server *)

Send(via) ==
    Append(flying, [via |-> via, rows |-> status, late |-> FALSE, missed |-> FALSE])

\* list_jobs
Read ==
    /\ asking > 0 /\ Len(flying) < MaxFlying
    /\ asking' = asking - 1
    /\ flying' = Send("answer")
    /\ UNCHANGED <<status, page, source, history>>

\* Mutant: the loop ends before it has sent what ended it.
PollEndsFirst ==
    /\ server = "polling" /\ Len(flying) < MaxFlying
    /\ IF Pending(status) = 0
       THEN server' = "ended" /\ UNCHANGED <<sent, flying>>
       ELSE /\ status # sent
            /\ server' = server /\ sent' = status /\ flying' = Send("stream")
    /\ UNCHANGED <<status, page, stream, asking, history>>

\* One turn of job_list_events: what differs from the last event is sent, and the
\* loop returns when every job is over.
Poll ==
    /\ server = "polling" /\ Len(flying) < MaxFlying
    /\ status # sent
    /\ sent' = status
    /\ flying' = Send("stream")
    /\ server' = IF Pending(status) = 0 THEN "ended" ELSE "polling"
    /\ UNCHANGED <<status, page, stream, asking, history>>

-----------------------------------------------------------------------------
(* The page *)

\* What is left of q: the lists that do not come by way of via.
Without(via, q) ==
    LET rest[k \in 0 .. Len(q)] ==
            IF k = 0 THEN << >>
            ELSE IF q[k].via = via THEN rest[k - 1] ELSE Append(rest[k - 1], q[k])
    IN  rest[Len(q)]

\* Events come in order, answers in any.  Lists that were read before this one and
\* are still on their way are late from now on.
Arrives(k) ==
    /\ flying[k].via = "stream" => \A i \in 1 .. (k - 1) : flying[i].via # "stream"
    /\ flying' = [i \in 1 .. (Len(flying) - 1) |->
                    IF i < k THEN [flying[i] EXCEPT !.late = TRUE] ELSE flying[i + 1]]

\* setJobs, from onmessage or from refresh, looks at nothing but the list it gets.
SetJobs(k) ==
    /\ Arrives(k)
    /\ list' = flying[k].rows
    /\ muddled' = (flying[k].late /\ (muddled \/ flying[k].rows # list))
    /\ elsewhere' = flying[k].missed
    /\ cut' = (cut \/ (list # NoList /\ Pending(list) # watched))
    /\ UNCHANGED <<status, watched, source, asking>>

\* A render, and the effect when pendingCount differs from the one it last ran with:
\* the old stream is closed, and a new one opened as long as something is pending.
Render ==
    /\ list # NoList /\ Pending(list) # watched
    /\ watched' = Pending(list)
    /\ IF Pending(list) > 0 THEN stream' = "open" /\ server' = "polling"
                            ELSE stream' = "none" /\ server' = "off"
    /\ sent' = NoList
    /\ flying' = Without("stream", flying)
    /\ cut' = FALSE
    /\ UNCHANGED <<status, list, asking, muddled, elsewhere>>

\* Mutant: the loop of the server goes on after the page has left.
CloseClientOnly ==
    /\ stream' = "none" /\ server' = server /\ sent' = sent
    /\ flying' = Without("stream", flying)
    /\ UNCHANGED <<status, page, asking, muddled, elsewhere>>

\* onerror closes the stream, for good as far as this render goes.
Close ==
    /\ stream' = "none" /\ server' = "off" /\ sent' = NoList
    /\ flying' = Without("stream", flying)
    /\ UNCHANGED <<status, page, asking, muddled, elsewhere>>

\* The end of the response is an error event, after the last message.
StreamEnds ==
    /\ server = "ended"
    /\ flying = Without("stream", flying)
    /\ Close
    /\ UNCHANGED cut

\* A broken connection, a restarted API or a proxy that loses patience is one, too.
StreamBreaks ==
    /\ stream = "open"
    /\ Close
    /\ cut' = TRUE

-----------------------------------------------------------------------------

User == \E j \in Jobs : Upload(j) \/ Cancel(j)
Environment == \E j \in Jobs : Move(j) \/ ChangeElsewhere(j)
Browser == Render \/ StreamEnds \/ \E k \in 1 .. Len(flying) : SetJobs(k)

Next == User \/ Environment \/ Read \/ Poll \/ Browser \/ StreamBreaks

Spec == Init /\ [][Next]_vars

\* Requests that are sent are read, the loop polls, what is sent arrives (or the
\* stream breaks), and React renders.  Nothing is assumed of users, workers or faults.
FairSpec ==
    /\ Spec
    /\ WF_vars(Read) /\ WF_vars(Poll)
    /\ WF_vars(Render) /\ WF_vars(StreamEnds)
    /\ WF_vars(\E k \in 1 .. Len(flying) : SetJobs(k))

-----------------------------------------------------------------------------
(* Properties *)

\* Why the page may go on showing what is no longer so (QuietIsRight in JobsPageProofs):
\* a list overtook a newer one; the stream broke, or a refresh came between the last event
\* of the stream and the render, so that pendingCount did not seem to change; or others
\* changed rows while the page had no stream.
Excused == \/ muddled
           \/ cut /\ Pending(Shown) > 0
           \/ elsewhere /\ stream = "none"

\* While the page waits for work on a stream that neither broke nor ended between two of
\* its renders, it comes to show every change, the last one before the server ends the
\* stream included, unless a refresh was read before the change and came after it.  Of the
\* other pages see DroppedStreamReconnects.
WatchedPageIsRight ==
    <>[][status' = status]_vars =>
        <>[](watched > 0 /\ ~cut => list = status \/ muddled)

\* A job that the page shows never goes back from over to waiting or running, nor
\* from the page, except by a list that was overtaken.
ShownGoesForward ==
    [][~muddled' => \A j \in Jobs : Life!Phase(Shown'[j]) >= Life!Phase(Shown[j])]_vars

-----------------------------------------------------------------------------
(* What the documentation says and the code does not do *)

\* backend/app/api/jobs.py:139, "browsers reconnect a dropped stream by themselves"
\* (SPEC.md:213 says the same, and JobsPage.tsx:59 "Reopened whenever work starts"): a page
\* that shows pending work and has no stream gets one, unless that work turns out to be over.
DroppedStreamReconnects ==
    (stream = "none" /\ Pending(Shown) > 0) ~> (stream = "open" \/ Pending(Shown) = 0)

=============================================================================
