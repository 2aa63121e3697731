-------------------------- MODULE SummariesProofs ---------------------------
(***************************************************************************)
(* Proofs about Summaries, for any number of summaries, presets and parts. *)
(*                                                                         *)
(* The invariant has, besides the types and DoneCoversTranscript, Queued   *)
(* (what is in the queue), Blank (what the rows without an attempt look    *)
(* like), Held (which row the worker has), Busy (how far it is with that   *)
(* row, if it is still there) and Worded (in which words it asks).         *)
(***************************************************************************)
EXTENDS Summaries, SequenceTheorems, Induction, TLAPS

-----------------------------------------------------------------------------
(* The invariant *)

\* The queue has each queued row once, and nothing else.
Queued ==
    /\ \A i \in 1 .. Len(queue) : status[queue[i]] = "queued"
    /\ \A i, j \in 1 .. Len(queue) : queue[i] = queue[j] => i = j
    /\ \A s \in Ids : status[s] = "queued" => \E i \in 1 .. Len(queue) : queue[i] = s

Blank ==
    \A s \in Ids : status[s] \in {"absent", "queued"} =>
        partials[s] = 0 /\ content[s] = "empty" /\ split[s] = 0

Asked == {"map", "mapped", "stream", "answered"}

Held ==
    /\ current \in Ids <=> pc \in Running
    /\ current \in Ids => status[current] \in {"running", "absent"}

Busy ==
    /\ pc = "map" => mapped < parts
    /\ pc = "mapped" => 0 < mapped /\ mapped <= parts
    /\ pc \in {"map", "mapped"} => parts > 1
    /\ pc \in Running /\ status[current] = "running" =>
         /\ pc = "claimed" => partials[current] = 0
         /\ pc \in Asked => split[current] = parts
         /\ pc = "map" => partials[current] = mapped
         /\ pc = "mapped" => partials[current] = mapped - 1
         /\ pc \in {"stream", "answered"} /\ parts > 1 => partials[current] = parts

Worded ==
    /\ asked \subseteq {loaded}
    /\ \A p \in Builtin : wording[p] = "first"
    /\ current \in Ids /\ preset[current] \in Builtin => loaded = "first"
    /\ pc \notin Running \/ pc = "claimed" => loaded = "first" /\ asked = {}

Inv == TypeOK /\ Queued /\ Blank /\ Held /\ Busy /\ Worded /\ DoneCoversTranscript

-----------------------------------------------------------------------------
(* The queue *)

\* r is what is left of q, which has no element twice, when e is taken out of it.
Leaves(S, q, e, r) ==
    /\ r \in Seq(S)
    /\ \A i \in 1 .. Len(r) : r[i] # e /\ \E j \in 1 .. Len(q) : r[i] = q[j]
    /\ \A i, j \in 1 .. Len(r) : r[i] = r[j] => i = j
    /\ \A j \in 1 .. Len(q) : q[j] # e => \E i \in 1 .. Len(r) : r[i] = q[j]

\* RemoveFirst takes e out of q.
LEMMA RemoveFirstLeaves ==
    ASSUME NEW S, NEW q \in Seq(S), NEW e,
           \A i, j \in 1 .. Len(q) : q[i] = q[j] => i = j
    PROVE  Leaves(S, q, e, RemoveFirst(q, e))
<1> DEFINE r == RemoveFirst(q, e)
           n == Len(q)
           I == {i \in 1 .. n : q[i] = e}
<1>1. n \in Nat
  OBVIOUS
<1>2. CASE I = {}
  <2>1. r = q
    BY <1>2 DEF RemoveFirst
  <2>2. \A i \in 1 .. n : q[i] # e
    BY <1>2
  <2> QED
    BY <2>1, <2>2 DEF Leaves
<1>3. CASE I # {}
  <2>1. PICK k \in I : \A i \in I : k <= i
    <3>1. I \in SUBSET Nat
      OBVIOUS
    <3> HIDE DEF I
    <3> QED
      BY <1>3, <3>1, LeastElement
  <2>2. Min(I) \in I
    <3> HIDE DEF I
    <3> QED
      BY <2>1 DEF Min
  <2>3. r = RemoveAt(q, Min(I))
    BY <1>3 DEF RemoveFirst, SelectInSeq
  <2>4. PICK m : m = Min(I)
    OBVIOUS
  <2>5. m \in 1 .. n /\ q[m] = e /\ r = SubSeq(q, 1, m - 1) \o SubSeq(q, m + 1, n)
    BY <2>2, <2>3, <2>4 DEF RemoveAt
  <2>6. PICK a, b : a = SubSeq(q, 1, m - 1) /\ b = SubSeq(q, m + 1, n)
    OBVIOUS
  <2>7. a \in Seq(S) /\ Len(a) = m - 1 /\ \A i \in 1 .. m - 1 : a[i] = q[i]
    BY <2>5, <2>6, SubSeqProperties
  <2>8. b \in Seq(S) /\ Len(b) = n - m /\ \A i \in 1 .. n - m : b[i] = q[m + i]
    BY <2>5, <2>6, SubSeqProperties
  <2>9. r = a \o b
    BY <2>5, <2>6
  <2>10. /\ r \in Seq(S) /\ Len(r) = Len(a) + Len(b)
         /\ \A i \in 1 .. Len(a) + Len(b) :
               r[i] = IF i <= Len(a) THEN a[i] ELSE b[i - Len(a)]
    <3>1. a \in Seq(S) /\ b \in Seq(S)
      BY <2>7, <2>8
    <3> HIDE DEF r
    <3> QED
      BY <2>9, <3>1, ConcatProperties
  <2>11. Len(r) = n - 1
    <3>1. m \in Int
      BY <2>5
    <3>2. Len(a) = m - 1 /\ Len(b) = n - m
      BY <2>7, <2>8, Zenon
    <3>3. Len(r) = Len(a) + Len(b)
      BY <2>10, Zenon
    <3> HIDE DEF n, r
    <3> QED
      BY <1>1, <3>1, <3>2, <3>3
  <2>12. ASSUME NEW i \in 1 .. n - 1
         PROVE  r[i] = IF i < m THEN q[i] ELSE q[i + 1]
    <3>1. i \in 1 .. Len(a) + Len(b)
      BY <1>1, <2>5, <2>7, <2>8
    <3>2. CASE i < m
      <4>1. i <= Len(a) /\ i \in 1 .. m - 1
        BY <2>5, <2>7, <3>2
      <4> QED
        BY <2>7, <2>10, <3>1, <3>2, <4>1
    <3>3. CASE ~ (i < m)
      <4>1. ~ (i <= Len(a)) /\ i - (m - 1) \in 1 .. n - m /\ m + (i - (m - 1)) = i + 1
        BY <1>1, <2>5, <2>7, <3>3
      <4>2. r[i] = b[i - (m - 1)]
        BY <2>7, <2>10, <3>1, <4>1
      <4>3. b[i - (m - 1)] = q[i + 1]
        BY <2>8, <4>1
      <4> QED
        BY <3>3, <4>2, <4>3
    <3> QED
      BY <3>2, <3>3
  <2> DEFINE at(i) == IF i < m THEN i ELSE i + 1
  <2>13. ASSUME NEW i \in 1 .. n - 1
         PROVE  at(i) \in 1 .. n /\ at(i) # m /\ r[i] = q[at(i)]
    <3>1. r[i] = IF i < m THEN q[i] ELSE q[i + 1]
      BY <2>12
    <3>2. m \in 1 .. n
      BY <2>5
    <3> HIDE DEF r, n
    <3> QED
      BY <1>1, <3>1, <3>2
  <2>14. \A i \in 1 .. Len(r) : r[i] # e /\ \E j \in 1 .. Len(q) : r[i] = q[j]
    <3>1. \A i \in 1 .. n - 1 : q[at(i)] # e
      <4> SUFFICES ASSUME NEW i \in 1 .. n - 1, q[at(i)] = e PROVE FALSE
        OBVIOUS
      <4>1. at(i) \in 1 .. n /\ at(i) # m
        BY <2>13
      <4>2. PICK j : j = at(i)
        OBVIOUS
      <4> HIDE DEF at
      <4> QED
        BY <2>5, <4>1, <4>2
    <3> HIDE DEF at
    <3> QED
      BY <2>11, <2>13, <3>1
  <2>15. \A i, j \in 1 .. Len(r) : r[i] = r[j] => i = j
    <3> SUFFICES ASSUME NEW i \in 1 .. n - 1, NEW j \in 1 .. n - 1, r[i] = r[j]
                 PROVE  i = j
      BY <2>11
    <3>1. at(i) = at(j)
      <4> HIDE DEF at
      <4> QED
        BY <2>13
    <3> QED
      BY <2>5, <3>1
  <2>16. \A j \in 1 .. Len(q) : q[j] # e => \E i \in 1 .. Len(r) : r[i] = q[j]
    <3> SUFFICES ASSUME NEW j \in 1 .. n, q[j] # e
                 PROVE  \E i \in 1 .. n - 1 : r[i] = q[j]
      BY <2>11
    <3>1. j # m
      BY <2>5
    <3>2. PICK i \in 1 .. n - 1 : at(i) = j
      <4>1. CASE j < m
        <5>1. j \in 1 .. n - 1 /\ at(j) = j
          BY <2>5, <4>1
        <5> QED
          BY <5>1
      <4>2. CASE ~ (j < m)
        <5>1. j - 1 \in 1 .. n - 1 /\ at(j - 1) = j
          BY <2>5, <3>1, <4>2
        <5> QED
          BY <5>1
      <4> QED
        BY <4>1, <4>2
    <3> HIDE DEF at
    <3> QED
      BY <2>13, <3>2
  <2> HIDE DEF at
  <2> QED
    BY <2>10, <2>14, <2>15, <2>16 DEF Leaves
<1> QED
  BY <1>2, <1>3

-----------------------------------------------------------------------------
(* The invariant holds *)

\* The steps that write to the rows.
LEMMA RowSteps ==
    ASSUME [Next]_vars
    PROVE  \/ UNCHANGED <<status, queue, partials, content, split>>
           \/ \E s \in Ids : Delete(s) \/ \E p \in Presets : Create(s, p)
           \/ ClaimSummary
           \/ \E n \in 0 .. MaxParts : Prepare(n)
           \/ KeepPartial \/ Flush
           \/ Succeed \/ RecordFailure
<1> USE DEF rows, shelf, prompt, worker
<1>1. ASSUME Seed \/ Upload \/ ClaimRecording \/ EndRecording
      PROVE  UNCHANGED <<status, queue, partials, content, split>>
  BY <1>1 DEF Seed, Upload, ClaimRecording, EndRecording
<1>2. ASSUME NEW p \in Presets,
             DeletePreset(p) \/ CreatePreset(p) \/ \E w \in Wordings : UpdatePreset(p, w)
      PROVE  UNCHANGED <<status, queue, partials, content, split>>
  BY <1>2 DEF DeletePreset, CreatePreset, UpdatePreset
<1>3. ASSUME CannotRun \/ MapReply \/ StreamEnds \/ ModelFails
      PROVE  UNCHANGED <<status, queue, partials, content, split>>
  BY <1>3 DEF CannotRun, MapReply, StreamEnds, ModelFails
<1>4. ASSUME RowGone \/ Crash \/ Restart
      PROVE  UNCHANGED <<status, queue, partials, content, split>>
  BY <1>4 DEF RowGone, Crash, Restart
<1>5. ASSUME UNCHANGED vars
      PROVE  UNCHANGED <<status, queue, partials, content, split>>
  BY <1>5 DEF vars
<1> QED
  BY <1>1, <1>2, <1>3, <1>4, <1>5 DEF Next, Api, Work

\* No summaries at first.
LEMMA InitInv == Init => Inv
<1> SUFFICES ASSUME Init PROVE Inv
  OBVIOUS
<1> USE PresetAssumption, SummaryAssumption, PartsAssumption DEF Init
<1>1. TypeOK
  <2>1. << >> \in Seq(Ids)
    BY EmptySeq
  <2> QED
    BY <2>1 DEF TypeOK, Wordings
<1>2. Queued
  BY EmptySeq DEF Queued
<1>3. Blank /\ Held /\ Busy /\ Worded
  BY DEF Blank, Held, Busy, Worded, Asked, Running
<1>4. DoneCoversTranscript
  BY DEF DoneCoversTranscript
<1> QED
  BY <1>1, <1>2, <1>3, <1>4 DEF Inv

\* Types: only the parts that were split off are counted.
LEMMA TypesKept == Inv /\ [Next]_vars => TypeOK'
<1> SUFFICES ASSUME Inv, [Next]_vars PROVE TypeOK'
  OBVIOUS
<1> USE PresetAssumption, SummaryAssumption, PartsAssumption
        DEF TypeOK, Running, Wordings, rows, shelf, prompt, worker
<1>0. TypeOK /\ Queued /\ Busy
  BY DEF Inv
<1>h. pc \in Running => current \in Ids
  BY DEF Inv, Held
<1>1. CASE UNCHANGED vars
  BY <1>0, <1>1 DEF vars
<1>2. ASSUME NEW s \in Ids, NEW p \in Presets, Create(s, p) PROVE TypeOK'
  BY <1>0, <1>1, <1>2 DEF Create
<1>3. ASSUME NEW s \in Ids, Delete(s) PROVE TypeOK'
  <2>1. queue' \in Seq(Ids)
    BY <1>0, <1>3, RemoveFirstLeaves DEF Delete, Queued, Leaves
  <2> QED
    BY <1>0, <1>3, <2>1 DEF Delete
<1>4. ASSUME NEW p \in Presets, DeletePreset(p) PROVE TypeOK'
  BY <1>0, <1>1, <1>4 DEF DeletePreset
<1>5. ASSUME NEW p \in Presets, CreatePreset(p) PROVE TypeOK'
  BY <1>0, <1>1, <1>5 DEF CreatePreset
<1>6. ASSUME NEW p \in Presets, NEW w \in Wordings, UpdatePreset(p, w) PROVE TypeOK'
  BY <1>0, <1>1, <1>6 DEF UpdatePreset
<1>7. CASE Seed
  BY <1>0, <1>1, <1>7 DEF Seed
<1>8. CASE Upload
  BY <1>0, <1>1, <1>8 DEF Upload
<1>9. CASE ClaimRecording
  BY <1>0, <1>1, <1>9 DEF ClaimRecording
<1>10. CASE EndRecording
  BY <1>0, <1>1, <1>10 DEF EndRecording
<1>11. CASE ClaimSummary
  <2>1. NextQueued \in Ids
    BY <1>0, <1>11 DEF ClaimSummary, NextQueued
  <2>2. queue' \in Seq(Ids)
    BY <1>0, <1>11, <2>1, RemoveFirstLeaves DEF ClaimSummary, Queued, Leaves
  <2> QED
    BY <1>0, <1>11, <2>1, <2>2 DEF ClaimSummary
<1>12. CASE CannotRun
  BY <1>0, <1>1, <1>12 DEF CannotRun
<1>13. ASSUME NEW n \in 0 .. MaxParts, Prepare(n) PROVE TypeOK'
  <2>1. current \in Ids /\ preset[current] \in Presets
    BY <1>0, <1>h, <1>13 DEF Prepare
  <2>2. loaded' \in Wordings /\ asked' \subseteq Wordings
    BY <1>0, <1>13, <2>1 DEF Prepare
  <2>3. mapped' \in 0 .. MaxParts /\ parts' \in 0 .. MaxParts
    BY <1>13 DEF Prepare
  <2>4. split' \in [Ids -> 0 .. MaxParts]
    BY <1>0, <1>13, <2>1 DEF Prepare
  <2>5. pc' \in {"map", "stream"}
    BY <1>13 DEF Prepare
  <2> QED
    BY <1>0, <1>13, <2>1, <2>2, <2>3, <2>4, <2>5 DEF Prepare
<1>14. CASE MapReply
  <2>1. mapped + 1 \in 0 .. MaxParts
    BY <1>0, <1>14 DEF MapReply, Busy
  <2> QED
    BY <1>0, <1>14, <2>1 DEF MapReply, Asking
<1>15. CASE KeepPartial
  BY <1>0, <1>1, <1>15, <1>h DEF KeepPartial
<1>16. CASE Flush
  BY <1>0, <1>1, <1>16, <1>h DEF Flush, Asking
<1>17. CASE StreamEnds
  BY <1>0, <1>1, <1>17 DEF StreamEnds, Asking
<1>18. CASE ModelFails
  BY <1>0, <1>1, <1>18 DEF ModelFails
<1>19. CASE Succeed
  BY <1>0, <1>1, <1>19, <1>h DEF Succeed, Leave
<1>20. CASE RecordFailure
  BY <1>0, <1>1, <1>20, <1>h DEF RecordFailure, Leave
<1>21. CASE RowGone
  BY <1>0, <1>1, <1>21 DEF RowGone, Leave
<1>22. CASE Crash
  BY <1>0, <1>1, <1>22 DEF Crash, Leave
<1>23. CASE Restart
  BY <1>0, <1>1, <1>23 DEF Restart
<1>24. CASE UNCHANGED vars
  BY <1>1, <1>24 DEF vars
<1> QED
  BY <1>2, <1>3, <1>4, <1>5, <1>6, <1>7, <1>8, <1>9, <1>10, <1>11, <1>12, <1>13,
     <1>14, <1>15, <1>16, <1>17, <1>18, <1>19, <1>20, <1>21, <1>22, <1>23, <1>24
  DEF Next, Api, Work

\* The queue loses the row that is claimed or deleted and gains the one that is made.
LEMMA QueuedKept == Inv /\ [Next]_vars => Queued'
<1> SUFFICES ASSUME Inv, [Next]_vars PROVE Queued'
  OBVIOUS
<1> USE DEF Queued, rows, shelf, prompt, worker
<1>0. TypeOK /\ Queued /\ Held
  BY DEF Inv
<1>h. pc \in Running => current \in Ids
  BY DEF Inv, Held
<1>1. CASE UNCHANGED <<status, queue, partials, content, split>>
  BY <1>0, <1>1
<1>2. ASSUME NEW s \in Ids, NEW p \in Presets, Create(s, p) PROVE Queued'
  <2> DEFINE n == Len(queue)
             m == n + 1
  <2>1. Len(queue') = m /\ n \in Nat
        /\ (\A i \in 1 .. n : queue'[i] = queue[i] /\ queue[i] \in Ids)
        /\ queue'[m] = s
    BY <1>0, <1>2, AppendProperties DEF TypeOK, Create
  <2>2. m \in 1 .. m /\ \A i : i \in 1 .. m <=> i \in 1 .. n \/ i = m
    BY <2>1
  <2>3. \A t \in Ids : t # s => status'[t] = status[t]
    BY <1>0, <1>2 DEF TypeOK, Create
  <2>4. status'[s] = "queued" /\ status[s] = "absent"
    BY <1>0, <1>2 DEF TypeOK, Create
  <2>5. \A i \in 1 .. n : status[queue[i]] = "queued"
    BY <1>0
  <2>6. \A i, j \in 1 .. n : queue[i] = queue[j] => i = j
    BY <1>0
  <2>7. \A t \in Ids : status[t] = "queued" => \E i \in 1 .. n : queue[i] = t
    BY <1>0
  <2> HIDE DEF n, m, Queued
  <2>8. \A i \in 1 .. n : queue'[i] # s
    BY <2>1, <2>4, <2>5
  <2>9. ASSUME NEW i \in 1 .. m PROVE status'[queue'[i]] = "queued"
    BY <2>1, <2>2, <2>3, <2>4, <2>5, <2>8
  <2>10. ASSUME NEW i \in 1 .. m, NEW j \in 1 .. m, queue'[i] = queue'[j] PROVE i = j
    BY <2>1, <2>2, <2>6, <2>8, <2>10
  <2>11. ASSUME NEW t \in Ids, status'[t] = "queued" PROVE \E i \in 1 .. m : queue'[i] = t
    BY <2>1, <2>2, <2>3, <2>7, <2>11
  <2> QED
    BY <2>1, <2>9, <2>10, <2>11 DEF Queued
<1>3. ASSUME NEW s \in Ids, Delete(s) PROVE Queued'
  <2>1. queue \in Seq(Ids) /\ \A i, j \in 1 .. Len(queue) : queue[i] = queue[j] => i = j
    BY <1>0 DEF TypeOK
  <2>2. Leaves(Ids, queue, s, queue')
    BY <1>3, <2>1, RemoveFirstLeaves DEF Delete
  <2>3. \A t \in Ids : t # s => status'[t] = status[t]
    BY <1>0, <1>3 DEF TypeOK, Delete
  <2>4. status'[s] # "queued"
    BY <1>0, <1>3 DEF TypeOK, Delete
  <2>5. \A i \in 1 .. Len(queue) : queue[i] \in Ids
    BY <2>1
  <2>6. ASSUME NEW i \in 1 .. Len(queue') PROVE status'[queue'[i]] = "queued"
    <3>1. PICK j \in 1 .. Len(queue) : queue'[i] = queue[j]
      BY <2>2 DEF Leaves
    <3> QED
      BY <1>0, <2>2, <2>3, <2>5, <3>1 DEF Leaves
  <2>7. ASSUME NEW t \in Ids, status'[t] = "queued"
        PROVE  \E i \in 1 .. Len(queue') : queue'[i] = t
    <3>1. t # s /\ status[t] = "queued"
      BY <2>3, <2>4, <2>7
    <3>2. PICK j \in 1 .. Len(queue) : queue[j] = t
      BY <1>0, <3>1
    <3> QED
      BY <2>2, <3>1, <3>2 DEF Leaves
  <2> QED
    BY <2>2, <2>6, <2>7 DEF Leaves
<1>4. CASE ClaimSummary
  <2>0. NextQueued \in Ids
    BY <1>0, <1>4 DEF TypeOK, ClaimSummary, NextQueued
  <2>1. queue \in Seq(Ids) /\ \A i, j \in 1 .. Len(queue) : queue[i] = queue[j] => i = j
    BY <1>0 DEF TypeOK
  <2>2. Leaves(Ids, queue, NextQueued, queue')
    BY <1>4, <2>0, <2>1, RemoveFirstLeaves DEF ClaimSummary
  <2>3. \A t \in Ids : t # NextQueued => status'[t] = status[t]
    BY <1>0, <1>4, <2>0 DEF TypeOK, ClaimSummary
  <2>4. status'[NextQueued] # "queued"
    BY <1>0, <1>4, <2>0 DEF TypeOK, ClaimSummary
  <2>5. \A i \in 1 .. Len(queue) : queue[i] \in Ids
    BY <2>1
  <2>6. ASSUME NEW i \in 1 .. Len(queue') PROVE status'[queue'[i]] = "queued"
    <3>1. PICK j \in 1 .. Len(queue) : queue'[i] = queue[j]
      BY <2>2 DEF Leaves
    <3> QED
      BY <1>0, <2>2, <2>3, <2>5, <3>1 DEF Leaves
  <2>7. ASSUME NEW t \in Ids, status'[t] = "queued"
        PROVE  \E i \in 1 .. Len(queue') : queue'[i] = t
    <3>1. t # NextQueued /\ status[t] = "queued"
      BY <2>3, <2>4, <2>7
    <3>2. PICK j \in 1 .. Len(queue) : queue[j] = t
      BY <1>0, <3>1
    <3> QED
      BY <2>2, <3>1, <3>2 DEF Leaves
  <2> QED
    BY <2>2, <2>6, <2>7 DEF Leaves
<1>5. ASSUME NEW n \in 0 .. MaxParts, Prepare(n) PROVE Queued'
  BY <1>0, <1>1, <1>5 DEF Prepare
<1>6. CASE KeepPartial
  BY <1>0, <1>1, <1>6 DEF KeepPartial
<1>7. CASE Flush
  BY <1>0, <1>1, <1>7 DEF Flush, Asking
<1>8. CASE Succeed
  <2>1. \A t \in Ids : t # current => status'[t] = status[t]
    BY <1>0, <1>h, <1>8 DEF TypeOK, Succeed
  <2>2. status[current] = "running" /\ status'[current] # "queued" /\ queue' = queue
    BY <1>0, <1>h, <1>8 DEF TypeOK, Held, Running, Succeed, RowThere
  <2>3. \A i \in 1 .. Len(queue) : queue[i] \in Ids
    BY <1>0 DEF TypeOK
  <2> QED
    BY <1>0, <2>1, <2>2, <2>3
<1>9. CASE RecordFailure
  <2>1. \A t \in Ids : t # current => status'[t] = status[t]
    BY <1>0, <1>h, <1>9 DEF TypeOK, RecordFailure
  <2>2. status[current] = "running" /\ status'[current] # "queued" /\ queue' = queue
    BY <1>0, <1>h, <1>9 DEF TypeOK, Held, Running, RecordFailure, RowThere
  <2>3. \A i \in 1 .. Len(queue) : queue[i] \in Ids
    BY <1>0 DEF TypeOK
  <2> QED
    BY <1>0, <2>1, <2>2, <2>3
<1> QED
  BY <1>1, <1>2, <1>3, <1>4, <1>5, <1>6, <1>7, <1>8, <1>9, RowSteps

\* Only the claimed row is written to.
LEMMA BlankKept == Inv /\ [Next]_vars => Blank'
<1> SUFFICES ASSUME Inv, [Next]_vars PROVE Blank'
  OBVIOUS
<1> USE DEF Blank, rows, shelf, prompt, worker
<1>0. TypeOK /\ Queued /\ Blank /\ Held
  BY DEF Inv
<1>h. pc \in Running => current \in Ids
  BY DEF Inv, Held
<1>1. CASE UNCHANGED <<status, queue, partials, content, split>>
  BY <1>0, <1>1
<1>2. ASSUME NEW s \in Ids, NEW p \in Presets, Create(s, p) PROVE Blank'
  BY <1>0, <1>1, <1>2 DEF Create
<1>3. ASSUME NEW s \in Ids, Delete(s) PROVE Blank'
  <2> SUFFICES ASSUME NEW t \in Ids, status'[t] \in {"absent", "queued"}
               PROVE  partials'[t] = 0 /\ content'[t] = "empty" /\ split'[t] = 0
    OBVIOUS
  <2>1. CASE t = s
    BY <1>0, <1>3, <2>1 DEF TypeOK, Delete
  <2>2. CASE t # s
    BY <1>0, <1>3, <2>2 DEF TypeOK, Delete
  <2> QED
    BY <2>1, <2>2
<1>4. CASE ClaimSummary
  BY <1>0, <1>1, <1>4 DEF ClaimSummary
<1>5. ASSUME NEW n \in 0 .. MaxParts, Prepare(n) PROVE Blank'
  <2> SUFFICES ASSUME NEW t \in Ids, status'[t] \in {"absent", "queued"}
               PROVE  partials'[t] = 0 /\ content'[t] = "empty" /\ split'[t] = 0
    OBVIOUS
  <2>1. status[current] = "running"
    BY <1>0, <1>h, <1>5 DEF Held, Running, Prepare, RowThere
  <2>2. CASE t = current
    BY <1>0, <1>h, <1>5, <2>1, <2>2 DEF TypeOK, Running, Prepare
  <2>3. CASE t # current
    BY <1>0, <1>5, <2>3 DEF TypeOK, Prepare
  <2> QED
    BY <2>2, <2>3
<1>6. CASE KeepPartial
  <2> SUFFICES ASSUME NEW t \in Ids, status'[t] \in {"absent", "queued"}
               PROVE  partials'[t] = 0 /\ content'[t] = "empty" /\ split'[t] = 0
    OBVIOUS
  <2>1. status[current] = "running"
    BY <1>0, <1>h, <1>6 DEF Held, Running, KeepPartial, RowThere
  <2>2. CASE t = current
    BY <1>0, <1>h, <1>6, <2>1, <2>2 DEF TypeOK, Running, KeepPartial
  <2>3. CASE t # current
    BY <1>0, <1>6, <2>3 DEF TypeOK, KeepPartial
  <2> QED
    BY <2>2, <2>3
<1>7. CASE Flush
  <2> SUFFICES ASSUME NEW t \in Ids, status'[t] \in {"absent", "queued"}
               PROVE  partials'[t] = 0 /\ content'[t] = "empty" /\ split'[t] = 0
    OBVIOUS
  <2>1. status[current] = "running"
    BY <1>0, <1>h, <1>7 DEF Held, Running, Flush, RowThere
  <2>2. CASE t = current
    BY <1>0, <1>h, <1>7, <2>1, <2>2 DEF TypeOK, Running, Flush
  <2>3. CASE t # current
    BY <1>0, <1>7, <2>3 DEF TypeOK, Flush
  <2> QED
    BY <2>2, <2>3
<1>8. CASE Succeed
  <2> SUFFICES ASSUME NEW t \in Ids, status'[t] \in {"absent", "queued"}
               PROVE  partials'[t] = 0 /\ content'[t] = "empty" /\ split'[t] = 0
    OBVIOUS
  <2>1. status[current] = "running"
    BY <1>0, <1>h, <1>8 DEF Held, Running, Succeed, RowThere
  <2>2. CASE t = current
    BY <1>0, <1>h, <1>8, <2>1, <2>2 DEF TypeOK, Running, Succeed
  <2>3. CASE t # current
    BY <1>0, <1>8, <2>3 DEF TypeOK, Succeed
  <2> QED
    BY <2>2, <2>3
<1>9. CASE RecordFailure
  BY <1>0, <1>1, <1>9 DEF RecordFailure, Leave
<1> QED
  BY <1>1, <1>2, <1>3, <1>4, <1>5, <1>6, <1>7, <1>8, <1>9, RowSteps

\* The row the worker holds is not put back into the queue under it.
LEMMA HeldKept == Inv /\ [Next]_vars => Held'
<1> SUFFICES ASSUME Inv, [Next]_vars PROVE Held'
  OBVIOUS
<1> USE DEF Held, Running, rows, shelf, prompt, worker
<1>0. TypeOK /\ Held
  BY DEF Inv
<1>h. pc \in Running => current \in Ids
  BY DEF Inv, Held
<1>t. status \in [Ids -> {"absent", "queued", "running", "done", "failed"}]
  BY DEF Inv, TypeOK
<1>n. NoSummary \notin Ids
  BY SummaryAssumption
<1>1. CASE UNCHANGED <<status, pc, current>>
  BY <1>0, <1>1
<1>2. ASSUME NEW s \in Ids, NEW p \in Presets, Create(s, p) PROVE Held'
  BY <1>0, <1>h, <1>t, <1>n, <1>1, <1>2 DEF Create
<1>3. ASSUME NEW s \in Ids, Delete(s) PROVE Held'
  BY <1>0, <1>h, <1>t, <1>n, <1>1, <1>3 DEF Delete
<1>4. ASSUME NEW p \in Presets, DeletePreset(p) PROVE Held'
  BY <1>0, <1>h, <1>t, <1>n, <1>1, <1>4 DEF DeletePreset
<1>5. ASSUME NEW p \in Presets, CreatePreset(p) PROVE Held'
  BY <1>0, <1>h, <1>t, <1>n, <1>1, <1>5 DEF CreatePreset
<1>6. ASSUME NEW p \in Presets, NEW w \in Wordings, UpdatePreset(p, w) PROVE Held'
  BY <1>0, <1>h, <1>t, <1>n, <1>1, <1>6 DEF UpdatePreset
<1>7. CASE Seed
  BY <1>0, <1>h, <1>t, <1>n, <1>1, <1>7 DEF Seed
<1>8. CASE Upload
  BY <1>0, <1>h, <1>t, <1>n, <1>1, <1>8 DEF Upload
<1>9. CASE ClaimRecording
  BY <1>0, <1>h, <1>t, <1>n, <1>1, <1>9 DEF ClaimRecording
<1>10. CASE EndRecording
  BY <1>0, <1>h, <1>t, <1>n, <1>1, <1>10 DEF EndRecording
<1>11. CASE ClaimSummary
  <2>1. NextQueued \in Ids /\ status'[NextQueued] = "running"
    BY <1>0, <1>t, <1>11 DEF TypeOK, ClaimSummary, NextQueued
  <2> QED
    BY <1>11, <2>1 DEF ClaimSummary
<1>12. CASE CannotRun
  BY <1>0, <1>h, <1>t, <1>n, <1>1, <1>12 DEF CannotRun
<1>13. ASSUME NEW n \in 0 .. MaxParts, Prepare(n) PROVE Held'
  BY <1>0, <1>h, <1>t, <1>n, <1>1, <1>13 DEF Prepare
<1>14. CASE MapReply
  BY <1>0, <1>h, <1>t, <1>n, <1>1, <1>14 DEF MapReply, Asking
<1>15. CASE KeepPartial
  BY <1>0, <1>h, <1>t, <1>n, <1>1, <1>15 DEF KeepPartial
<1>16. CASE Flush
  BY <1>0, <1>h, <1>t, <1>n, <1>1, <1>16 DEF Flush, Asking
<1>17. CASE StreamEnds
  BY <1>0, <1>h, <1>t, <1>n, <1>1, <1>17 DEF StreamEnds, Asking
<1>18. CASE ModelFails
  BY <1>0, <1>h, <1>t, <1>n, <1>1, <1>18 DEF ModelFails
<1>19. CASE Succeed
  BY <1>0, <1>h, <1>t, <1>n, <1>1, <1>19 DEF Succeed, Leave
<1>20. CASE RecordFailure
  BY <1>0, <1>h, <1>t, <1>n, <1>1, <1>20 DEF RecordFailure, Leave
<1>21. CASE RowGone
  BY <1>0, <1>h, <1>t, <1>n, <1>1, <1>21 DEF RowGone, Leave
<1>22. CASE Crash
  BY <1>0, <1>h, <1>t, <1>n, <1>1, <1>22 DEF Crash, Leave
<1>23. CASE Restart
  BY <1>0, <1>h, <1>t, <1>n, <1>1, <1>23 DEF Restart
<1>24. CASE UNCHANGED vars
  BY <1>1, <1>24 DEF vars
<1> QED
  BY <1>2, <1>3, <1>4, <1>5, <1>6, <1>7, <1>8, <1>9, <1>10, <1>11, <1>12, <1>13,
     <1>14, <1>15, <1>16, <1>17, <1>18, <1>19, <1>20, <1>21, <1>22, <1>23, <1>24
  DEF Next, Api, Work

\* The map results in the row keep up with the loop over the parts.
LEMMA BusyKept == Inv /\ [Next]_vars => Busy'
<1> SUFFICES ASSUME Inv, [Next]_vars PROVE Busy'
  OBVIOUS
<1> USE DEF Busy, Running, Asked, rows, shelf, prompt, worker
<1>0. TypeOK /\ Queued /\ Blank /\ Held /\ Busy
  BY DEF Inv
<1>h. pc \in Running => current \in Ids
  BY DEF Inv, Held
<1>t. /\ status \in [Ids -> {"absent", "queued", "running", "done", "failed"}]
      /\ partials \in [Ids -> Nat] /\ split \in [Ids -> Nat]
      /\ parts \in Nat /\ mapped \in Nat
  BY PartsAssumption DEF Inv, TypeOK
<1>1. CASE UNCHANGED <<status, pc, current, parts, mapped, partials, split>>
  BY <1>0, <1>1
<1>2. ASSUME NEW s \in Ids, NEW p \in Presets, Create(s, p) PROVE Busy'
  BY <1>0, <1>h, <1>t, <1>1, <1>2 DEF Create
<1>3. ASSUME NEW s \in Ids, Delete(s) PROVE Busy'
  BY <1>0, <1>h, <1>t, <1>1, <1>3 DEF Delete
<1>4. ASSUME NEW p \in Presets, DeletePreset(p) PROVE Busy'
  BY <1>0, <1>h, <1>t, <1>1, <1>4 DEF DeletePreset
<1>5. ASSUME NEW p \in Presets, CreatePreset(p) PROVE Busy'
  BY <1>0, <1>h, <1>t, <1>1, <1>5 DEF CreatePreset
<1>6. ASSUME NEW p \in Presets, NEW w \in Wordings, UpdatePreset(p, w) PROVE Busy'
  BY <1>0, <1>h, <1>t, <1>1, <1>6 DEF UpdatePreset
<1>7. CASE Seed
  BY <1>0, <1>h, <1>t, <1>1, <1>7 DEF Seed
<1>8. CASE Upload
  BY <1>0, <1>h, <1>t, <1>1, <1>8 DEF Upload
<1>9. CASE ClaimRecording
  BY <1>0, <1>h, <1>t, <1>1, <1>9 DEF ClaimRecording
<1>10. CASE EndRecording
  BY <1>0, <1>h, <1>t, <1>1, <1>10 DEF EndRecording
<1>11. CASE ClaimSummary
  <2>1. NextQueued \in Ids /\ status[NextQueued] = "queued"
    BY <1>0, <1>t, <1>11 DEF TypeOK, Queued, ClaimSummary, NextQueued
  <2>2. partials[NextQueued] = 0
    BY <1>0, <2>1 DEF Blank
  <2> QED
    BY <1>11, <2>2 DEF ClaimSummary
<1>12. CASE CannotRun
  BY <1>0, <1>h, <1>t, <1>1, <1>12 DEF CannotRun
<1>13. ASSUME NEW n \in 0 .. MaxParts, Prepare(n) PROVE Busy'
  BY <1>0, <1>h, <1>t, <1>1, <1>13 DEF Prepare
<1>14. CASE MapReply
  BY <1>0, <1>h, <1>t, <1>1, <1>14 DEF MapReply, Asking
<1>15. CASE KeepPartial
  <2>1. status[current] = "running"
    BY <1>0, <1>h, <1>15 DEF Held, KeepPartial, RowThere
  <2>2. partials'[current] = mapped
    BY <1>h, <1>t, <1>15 DEF KeepPartial
  <2>3. CASE mapped < parts
    <3>1. pc' = "map"
      BY <1>15, <2>3 DEF KeepPartial, MoreParts
    <3> QED
      BY <1>0, <1>h, <1>15, <2>1, <2>2, <2>3, <3>1 DEF KeepPartial
  <2>4. CASE ~ (mapped < parts)
    <3>1. pc' = "stream" /\ mapped = parts
      BY <1>0, <1>t, <1>15, <2>4 DEF KeepPartial, MoreParts
    <3> QED
      BY <1>0, <1>h, <1>15, <2>1, <2>2, <3>1 DEF KeepPartial
  <2> QED
    BY <2>3, <2>4
<1>16. CASE Flush
  BY <1>0, <1>h, <1>t, <1>1, <1>16 DEF Flush, Asking
<1>17. CASE StreamEnds
  BY <1>0, <1>h, <1>t, <1>1, <1>17 DEF StreamEnds, Asking
<1>18. CASE ModelFails
  BY <1>0, <1>h, <1>t, <1>1, <1>18 DEF ModelFails
<1>19. CASE Succeed
  BY <1>0, <1>h, <1>t, <1>1, <1>19 DEF Succeed, Leave
<1>20. CASE RecordFailure
  BY <1>0, <1>h, <1>t, <1>1, <1>20 DEF RecordFailure, Leave
<1>21. CASE RowGone
  BY <1>0, <1>h, <1>t, <1>1, <1>21 DEF RowGone, Leave
<1>22. CASE Crash
  BY <1>0, <1>h, <1>t, <1>1, <1>22 DEF Crash, Leave
<1>23. CASE Restart
  BY <1>0, <1>h, <1>t, <1>1, <1>23 DEF Restart
<1>24. CASE UNCHANGED vars
  BY <1>1, <1>24 DEF vars
<1> QED
  BY <1>2, <1>3, <1>4, <1>5, <1>6, <1>7, <1>8, <1>9, <1>10, <1>11, <1>12, <1>13,
     <1>14, <1>15, <1>16, <1>17, <1>18, <1>19, <1>20, <1>21, <1>22, <1>23, <1>24
  DEF Next, Api, Work

\* Nobody edits what has been read, or a built-in preset.
LEMMA WordedKept == Inv /\ [Next]_vars => Worded'
<1> SUFFICES ASSUME Inv, [Next]_vars PROVE Worded'
  OBVIOUS
<1> USE DEF Worded, Held, Running, rows, shelf, prompt, worker
<1>0. Held /\ Worded
  BY DEF Inv
<1>h. pc \in Running => current \in Ids
  BY DEF Inv, Held
<1>t. preset \in [Ids -> Presets \union {NoPreset}] /\ wording \in [Presets -> Wordings]
  BY DEF Inv, TypeOK
<1>n. NoPreset \notin Builtin /\ Builtin \subseteq Presets /\ NoSummary \notin Ids
  BY PresetAssumption, SummaryAssumption
<1>1. CASE UNCHANGED <<loaded, asked, wording, preset, current, pc>>
  BY <1>0, <1>1
<1>2. ASSUME NEW s \in Ids, NEW p \in Presets, Create(s, p) PROVE Worded'
  BY <1>0, <1>h, <1>t, <1>n, <1>1, <1>2 DEF Create
<1>3. ASSUME NEW s \in Ids, Delete(s) PROVE Worded'
  BY <1>0, <1>h, <1>t, <1>n, <1>1, <1>3 DEF Delete
<1>4. ASSUME NEW p \in Presets, DeletePreset(p) PROVE Worded'
  BY <1>0, <1>h, <1>t, <1>n, <1>1, <1>4 DEF DeletePreset, Editable
<1>5. ASSUME NEW p \in Presets, CreatePreset(p) PROVE Worded'
  BY <1>0, <1>h, <1>t, <1>n, <1>1, <1>5 DEF CreatePreset
<1>6. ASSUME NEW p \in Presets, NEW w \in Wordings, UpdatePreset(p, w) PROVE Worded'
  BY <1>0, <1>h, <1>t, <1>n, <1>1, <1>6 DEF UpdatePreset, Editable
<1>7. CASE Seed
  BY <1>0, <1>h, <1>t, <1>n, <1>1, <1>7 DEF Seed
<1>8. CASE Upload
  BY <1>0, <1>h, <1>t, <1>n, <1>1, <1>8 DEF Upload
<1>9. CASE ClaimRecording
  BY <1>0, <1>h, <1>t, <1>n, <1>1, <1>9 DEF ClaimRecording
<1>10. CASE EndRecording
  BY <1>0, <1>h, <1>t, <1>n, <1>1, <1>10 DEF EndRecording
<1>11. CASE ClaimSummary
  BY <1>0, <1>h, <1>t, <1>n, <1>1, <1>11 DEF ClaimSummary
<1>12. CASE CannotRun
  BY <1>0, <1>h, <1>t, <1>n, <1>1, <1>12 DEF CannotRun
<1>13. ASSUME NEW n \in 0 .. MaxParts, Prepare(n) PROVE Worded'
  BY <1>0, <1>h, <1>t, <1>n, <1>1, <1>13 DEF Prepare
<1>14. CASE MapReply
  BY <1>0, <1>h, <1>t, <1>n, <1>1, <1>14 DEF MapReply, Asking
<1>15. CASE KeepPartial
  BY <1>0, <1>h, <1>t, <1>n, <1>1, <1>15 DEF KeepPartial
<1>16. CASE Flush
  BY <1>0, <1>h, <1>t, <1>n, <1>1, <1>16 DEF Flush, Asking
<1>17. CASE StreamEnds
  BY <1>0, <1>h, <1>t, <1>n, <1>1, <1>17 DEF StreamEnds, Asking
<1>18. CASE ModelFails
  BY <1>0, <1>h, <1>t, <1>n, <1>1, <1>18 DEF ModelFails
<1>19. CASE Succeed
  BY <1>0, <1>h, <1>t, <1>n, <1>1, <1>19 DEF Succeed, Leave
<1>20. CASE RecordFailure
  BY <1>0, <1>h, <1>t, <1>n, <1>1, <1>20 DEF RecordFailure, Leave
<1>21. CASE RowGone
  BY <1>0, <1>h, <1>t, <1>n, <1>1, <1>21 DEF RowGone, Leave
<1>22. CASE Crash
  BY <1>0, <1>h, <1>t, <1>n, <1>1, <1>22 DEF Crash, Leave
<1>23. CASE Restart
  BY <1>0, <1>h, <1>t, <1>n, <1>1, <1>23 DEF Restart
<1>24. CASE UNCHANGED vars
  BY <1>1, <1>24 DEF vars
<1> QED
  BY <1>2, <1>3, <1>4, <1>5, <1>6, <1>7, <1>8, <1>9, <1>10, <1>11, <1>12, <1>13,
     <1>14, <1>15, <1>16, <1>17, <1>18, <1>19, <1>20, <1>21, <1>22, <1>23, <1>24
  DEF Next, Api, Work

\* What Succeed finds in the row is complete, and nothing touches it later.
LEMMA DoneKept == Inv /\ [Next]_vars => DoneCoversTranscript'
<1> SUFFICES ASSUME Inv, [Next]_vars PROVE DoneCoversTranscript'
  OBVIOUS
<1> USE DEF DoneCoversTranscript, rows, shelf, prompt, worker
<1>0. TypeOK /\ Blank /\ Held /\ Busy /\ DoneCoversTranscript
  BY DEF Inv
<1>h. pc \in Running => current \in Ids
  BY DEF Inv, Held
<1>t. /\ status \in [Ids -> {"absent", "queued", "running", "done", "failed"}]
      /\ partials \in [Ids -> Nat] /\ split \in [Ids -> Nat]
      /\ content \in [Ids -> {"empty", "growing", "final"}]
      /\ parts \in Nat /\ mapped \in Nat
  BY PartsAssumption DEF Inv, TypeOK
<1>1. CASE UNCHANGED <<status, queue, partials, content, split>>
  BY <1>0, <1>1
<1>2. ASSUME NEW s \in Ids, NEW p \in Presets, Create(s, p) PROVE DoneCoversTranscript'
  BY <1>0, <1>h, <1>t, <1>1, <1>2 DEF Create
<1>3. ASSUME NEW s \in Ids, Delete(s) PROVE DoneCoversTranscript'
  BY <1>0, <1>h, <1>t, <1>1, <1>3 DEF Delete
<1>4. CASE ClaimSummary
  BY <1>0, <1>h, <1>t, <1>1, <1>4 DEF ClaimSummary
<1>5. ASSUME NEW n \in 0 .. MaxParts, Prepare(n) PROVE DoneCoversTranscript'
  <2> SUFFICES ASSUME NEW t \in Ids, status'[t] = "done"
               PROVE  /\ split'[t] > 1 => partials'[t] = split'[t]
                      /\ content'[t] = "final"
    OBVIOUS
  <2>1. status[current] = "running" /\ current \in Ids
    BY <1>0, <1>h, <1>5 DEF Held, Running, Prepare, RowThere
  <2>2. t # current => status[t] = "done"
    BY <1>t, <1>5, <2>1 DEF Prepare
  <2>3. CASE t # current
    BY <1>0, <1>t, <1>5, <2>1, <2>2, <2>3 DEF Prepare
  <2>4. CASE t = current
    BY <1>t, <1>5, <2>1, <2>4 DEF Prepare
  <2> QED
    BY <2>3, <2>4
<1>6. CASE KeepPartial
  <2> SUFFICES ASSUME NEW t \in Ids, status'[t] = "done"
               PROVE  /\ split'[t] > 1 => partials'[t] = split'[t]
                      /\ content'[t] = "final"
    OBVIOUS
  <2>1. status[current] = "running" /\ current \in Ids
    BY <1>0, <1>h, <1>6 DEF Held, Running, KeepPartial, RowThere
  <2>2. t # current => status[t] = "done"
    BY <1>t, <1>6, <2>1 DEF KeepPartial
  <2>3. CASE t # current
    BY <1>0, <1>t, <1>6, <2>1, <2>2, <2>3 DEF KeepPartial
  <2>4. CASE t = current
    BY <1>t, <1>6, <2>1, <2>4 DEF KeepPartial
  <2> QED
    BY <2>3, <2>4
<1>7. CASE Flush
  <2> SUFFICES ASSUME NEW t \in Ids, status'[t] = "done"
               PROVE  /\ split'[t] > 1 => partials'[t] = split'[t]
                      /\ content'[t] = "final"
    OBVIOUS
  <2>1. status[current] = "running" /\ current \in Ids
    BY <1>0, <1>h, <1>7 DEF Held, Running, Flush, RowThere
  <2>2. t # current => status[t] = "done"
    BY <1>t, <1>7, <2>1 DEF Flush
  <2>3. CASE t # current
    BY <1>0, <1>t, <1>7, <2>1, <2>2, <2>3 DEF Flush
  <2>4. CASE t = current
    BY <1>t, <1>7, <2>1, <2>4 DEF Flush
  <2> QED
    BY <2>3, <2>4
<1>8. CASE Succeed
  <2> SUFFICES ASSUME NEW t \in Ids, status'[t] = "done"
               PROVE  /\ split'[t] > 1 => partials'[t] = split'[t]
                      /\ content'[t] = "final"
    OBVIOUS
  <2>1. status[current] = "running" /\ current \in Ids
    BY <1>0, <1>h, <1>8 DEF Held, Running, Succeed, RowThere
  <2>2. t # current => status[t] = "done"
    BY <1>t, <1>8, <2>1 DEF Succeed
  <2>3. CASE t # current
    BY <1>0, <1>t, <1>8, <2>1, <2>2, <2>3 DEF Succeed
  <2>4. CASE t = current
    <3>1. split[t] > 1 => partials[t] = split[t]
      BY <1>0, <1>t, <1>8, <2>1, <2>4 DEF Busy, Running, Asked, Succeed
    <3> QED
      BY <1>t, <1>8, <2>1, <2>4, <3>1 DEF Succeed
  <2> QED
    BY <2>3, <2>4
<1>9. CASE RecordFailure
  BY <1>0, <1>h, <1>t, <1>1, <1>9 DEF RecordFailure, Leave
<1> QED
  BY <1>1, <1>2, <1>3, <1>4, <1>5, <1>6, <1>7, <1>8, <1>9, RowSteps

\* The invariant, for any constants.
THEOREM SummariesInvariant == Spec => []Inv
<1>1. Inv /\ [Next]_vars => Inv'
  BY TypesKept, QueuedKept, BlankKept, HeldKept, BusyKept, WordedKept, DoneKept DEF Inv
<1> QED
  BY InitInv, <1>1, PTL DEF Spec

-----------------------------------------------------------------------------
(* States *)

\* The variables keep their types: no step of summary_runner.py or the API leaves a row
\* of models.py ill-formed, and no partial is kept beyond the last part.
THEOREM SummariesTypeCorrect == Spec => []TypeOK
<1>1. Inv => TypeOK
  BY DEF Inv
<1> QED
  BY SummariesInvariant, <1>1, PTL

\* Whatever is deleted, edited or restarted meanwhile, a summary that is done rests on
\* every part of its transcript (summary_runner.py) and has its whole text.
THEOREM DoneIsWhole == Spec => []DoneCoversTranscript
<1>1. Inv => DoneCoversTranscript
  BY DEF Inv
<1> QED
  BY SummariesInvariant, <1>1, PTL

\* One summary is asked for in one version of its preset, a built-in one as released,
\* because the Preset object of the worker's session is not read again (db.py).
THEOREM WordingIsKept == Spec => []OneWordingPerSummary
<1>1. Inv => OneWordingPerSummary
  <2> SUFFICES ASSUME Inv PROVE OneWordingPerSummary
    OBVIOUS
  <2>1. Worded
    BY DEF Inv
  <2>2. IsFiniteSet({loaded}) /\ Cardinality({loaded}) = 1
    BY FS_Singleton
  <2>3. asked \subseteq {loaded}
    BY <2>1 DEF Worded
  <2>4. Cardinality(asked) <= Cardinality({loaded})
    BY <2>2, <2>3, FS_Subset
  <2>5. current \in Ids /\ preset[current] \in Builtin => "edited" \notin asked
    BY <2>1, <2>3 DEF Worded
  <2> QED
    BY <2>2, <2>4, <2>5 DEF OneWordingPerSummary
<1> QED
  BY SummariesInvariant, <1>1, PTL

\* Each queued row is in line once, and nothing else is: what _claim_summary finds is
\* always a row that waits, and a row that waits can be found.
THEOREM QueueIsExact == Spec => []Queued
<1>1. Inv => Queued
  BY DEF Inv
<1> QED
  BY SummariesInvariant, <1>1, PTL

-----------------------------------------------------------------------------
(* Steps *)

\* What a step leaves of an attempt.
Kept(s) ==
    /\ partials'[s] >= partials[s]
    /\ status[s] \in {"done", "failed"} =>
          status'[s] = status[s] /\ content'[s] = content[s]

\* No step of the worker, of a request or of a restart takes back a map result or changes
\* a summary that has ended: an attempt is a row of its own.
THEOREM AttemptsStay == Spec => AttemptsAreKept
<1>1. ASSUME Inv, [Next]_vars, NEW s \in Ids, status[s] # "absent", status'[s] # "absent"
      PROVE  Kept(s)
  <2> USE DEF Kept, rows, shelf, worker, prompt, Running
  <2>h. pc \in Running => current \in Ids
    BY <1>1 DEF Inv, Held
  <2>t. /\ status \in [Ids -> {"absent", "queued", "running", "done", "failed"}]
        /\ partials \in [Ids -> Nat] /\ content \in [Ids -> {"empty", "growing", "final"}]
    BY <1>1, PartsAssumption DEF Inv, TypeOK
  <2>1. CASE UNCHANGED <<status, queue, partials, content, split>>
    BY <2>t, <2>1
  <2>2. ASSUME NEW p \in Presets, NEW r \in Ids, Create(r, p) PROVE Kept(s)
    BY <1>1, <2>t, <2>2 DEF Create
  <2>3. ASSUME NEW r \in Ids, Delete(r) PROVE Kept(s)
    BY <1>1, <2>t, <2>3 DEF Delete
  <2>4. CASE ClaimSummary
    <3>1. NextQueued \in Ids /\ status[NextQueued] = "queued"
      BY <1>1, <2>4 DEF Inv, TypeOK, Queued, ClaimSummary, NextQueued
    <3> QED
      BY <2>t, <2>4, <3>1 DEF ClaimSummary
  <2>5. ASSUME NEW n \in 0 .. MaxParts, Prepare(n) PROVE Kept(s)
    BY <2>t, <2>1, <2>5 DEF Prepare
  <2>6. CASE KeepPartial
    <3>1. partials[current] = mapped - 1 /\ mapped \in Nat /\ current \in Ids
      BY <1>1, <2>h, <2>6 DEF Inv, TypeOK, Held, Busy, RowThere, KeepPartial
    <3> QED
      BY <2>t, <2>6, <3>1 DEF KeepPartial
  <2>7. CASE Flush
    <3>1. status[current] = "running" /\ current \in Ids
      BY <1>1, <2>h, <2>7 DEF Inv, Held, RowThere, Flush
    <3> QED
      BY <2>t, <2>7, <3>1 DEF Flush
  <2>8. CASE Succeed
    <3>1. status[current] = "running" /\ current \in Ids
      BY <1>1, <2>h, <2>8 DEF Inv, Held, RowThere, Succeed
    <3> QED
      BY <2>t, <2>8, <3>1 DEF Succeed
  <2>9. CASE RecordFailure
    <3>1. status[current] = "running" /\ current \in Ids
      BY <1>1, <2>h, <2>9 DEF Inv, Held, RowThere, RecordFailure
    <3> QED
      BY <2>t, <2>9, <3>1 DEF RecordFailure
  <2> QED
    BY <1>1, <2>1, <2>2, <2>3, <2>4, <2>5, <2>6, <2>7, <2>8, <2>9, RowSteps
<1>2. Inv /\ [Next]_vars => [\A s \in Ids : status[s] # "absent" /\ status'[s] # "absent" =>
          /\ partials'[s] >= partials[s]
          /\ status[s] \in {"done", "failed"} =>
                status'[s] = status[s] /\ content'[s] = content[s]]_vars
  BY <1>1 DEF Kept
<1> QED
  BY SummariesInvariant, <1>2, PTL DEF Spec, AttemptsAreKept

\* A summary whose worker died: nobody is busy with it.
Abandoned(s) == status[s] = "running" /\ s # current
StaysAbandoned(s) == Abandoned(s) => Abandoned(s)' \/ status'[s] = "absent"

\* recover_stale_jobs and _claim_summary never take up a summary whose worker died: it
\* runs for ever, or until its user deletes it.
THEOREM AbandonedRunsForEver == Spec => [][\A s \in Ids : StaysAbandoned(s)]_vars
<1>1. ASSUME Inv, [Next]_vars, NEW s \in Ids
      PROVE  StaysAbandoned(s)
  <2> USE DEF StaysAbandoned, Abandoned, rows, shelf, worker, prompt, Running
  <2>h. NoSummary \notin Ids /\ (pc \in Running => current \in Ids)
    BY <1>1, SummaryAssumption DEF Inv, Held
  <2>t. status \in [Ids -> {"absent", "queued", "running", "done", "failed"}]
    BY <1>1 DEF Inv, TypeOK
  <2>1. CASE UNCHANGED <<status, current>>
    BY <2>h, <2>t, <2>1
  <2>2. ASSUME NEW p \in Presets, NEW r \in Ids, Create(r, p) PROVE StaysAbandoned(s)
    BY <2>h, <2>t, <2>1, <2>2 DEF Create
  <2>3. ASSUME NEW r \in Ids, Delete(r) PROVE StaysAbandoned(s)
    BY <2>h, <2>t, <2>1, <2>3 DEF Delete
  <2>4. ASSUME NEW p \in Presets, DeletePreset(p) PROVE StaysAbandoned(s)
    BY <2>h, <2>t, <2>1, <2>4 DEF DeletePreset
  <2>5. ASSUME NEW p \in Presets, CreatePreset(p) PROVE StaysAbandoned(s)
    BY <2>h, <2>t, <2>1, <2>5 DEF CreatePreset
  <2>6. ASSUME NEW p \in Presets, NEW w \in Wordings, UpdatePreset(p, w)
        PROVE  StaysAbandoned(s)
    BY <2>h, <2>t, <2>1, <2>6 DEF UpdatePreset
  <2>7. CASE Seed
    BY <2>h, <2>t, <2>1, <2>7 DEF Seed
  <2>8. CASE Upload
    BY <2>h, <2>t, <2>1, <2>8 DEF Upload
  <2>9. CASE ClaimRecording
    BY <2>h, <2>t, <2>1, <2>9 DEF ClaimRecording
  <2>10. CASE EndRecording
    BY <2>h, <2>t, <2>1, <2>10 DEF EndRecording
  <2>11. CASE ClaimSummary
    <3>1. NextQueued \in Ids /\ status[NextQueued] = "queued"
      BY <1>1, <2>11 DEF Inv, TypeOK, Queued, ClaimSummary, NextQueued
    <3> QED
      BY <2>t, <2>11, <3>1 DEF ClaimSummary
  <2>12. CASE CannotRun
    BY <2>h, <2>t, <2>1, <2>12 DEF CannotRun
  <2>13. ASSUME NEW n \in 0 .. MaxParts, Prepare(n) PROVE StaysAbandoned(s)
    BY <2>h, <2>t, <2>1, <2>13 DEF Prepare
  <2>14. CASE MapReply
    BY <2>h, <2>t, <2>1, <2>14 DEF MapReply
  <2>15. CASE KeepPartial
    BY <2>h, <2>t, <2>1, <2>15 DEF KeepPartial
  <2>16. CASE Flush
    BY <2>h, <2>t, <2>1, <2>16 DEF Flush
  <2>17. CASE StreamEnds
    BY <2>h, <2>t, <2>1, <2>17 DEF StreamEnds
  <2>18. CASE ModelFails
    BY <2>h, <2>t, <2>1, <2>18 DEF ModelFails
  <2>19. CASE Succeed
    BY <2>h, <2>t, <2>1, <2>19 DEF Succeed, Leave
  <2>20. CASE RecordFailure
    BY <2>h, <2>t, <2>1, <2>20 DEF RecordFailure, Leave
  <2>21. CASE RowGone
    BY <2>h, <2>t, <2>1, <2>21 DEF RowGone, Leave
  <2>22. CASE Crash
    BY <2>h, <2>t, <2>1, <2>22 DEF Crash, Leave
  <2>23. CASE Restart
    BY <2>h, <2>t, <2>1, <2>23 DEF Restart
  <2>24. CASE UNCHANGED vars
    BY <2>1, <2>24 DEF vars
  <2> QED
    BY <1>1, <2>2, <2>3, <2>4, <2>5, <2>6, <2>7, <2>8, <2>9, <2>10, <2>11, <2>12,
       <2>13, <2>14, <2>15, <2>16, <2>17, <2>18, <2>19, <2>20, <2>21, <2>22, <2>23,
       <2>24
    DEF Next, Api, Work
<1>2. Inv /\ [Next]_vars => [\A s \in Ids : StaysAbandoned(s)]_vars
  BY <1>1
<1> QED
  BY SummariesInvariant, <1>2, PTL DEF Spec

=============================================================================
