--------------------------- MODULE RequestsProofs ---------------------------
(***************************************************************************)
(* Proofs about Requests, for any number of requests, identities, uploads  *)
(* and connections.                                                        *)
(***************************************************************************)
EXTENDS Requests, FiniteSetTheorems, TLAPS

-----------------------------------------------------------------------------
(* The inductive invariant                                                   *)

\* TypeOK but for the pool.
TypeInv ==
    /\ delegated \in BOOLEAN
    /\ pool \in 1 .. MaxPool
    /\ users \subseteq Names /\ admins \subseteq users
    /\ owner \in [Jobs -> users \union {Nobody}]
    /\ file \in [Jobs -> {"none", "dir", "part", "whole"}]
    /\ lock \in Requests \union {Nobody}
    /\ req \in [Requests -> Reqs \union {Nobody}]
    /\ died \subseteq Jobs

\* Beyond its first SELECTs a request knows its user, and only uploads write files.
Identified ==
    \A r \in Requests : req[r] # Nobody =>
        /\ req[r].at \in {"add", "copy", "commit", "watch"} => req[r].name \in users
        /\ req[r].at \in {"add", "copy", "commit"} => req[r].kind = "upload"
        /\ req[r].kind = "upload" => req[r].job \in Jobs

\* The id of an upload under way is its own, no row bears it yet, and its file is as
\* far as the upload has come.
UploadsApart ==
    \A r \in Requests : req[r] # Nobody /\ req[r].kind = "upload" =>
        /\ \A s \in Requests \ {r} : req[s] # Nobody => req[s].job # req[r].job
        /\ owner[req[r].job] = Nobody
        /\ file[req[r].job] = IF req[r].at = "copy" THEN "part"
                              ELSE IF req[r].at = "commit" THEN "whole" ELSE "none"

-----------------------------------------------------------------------------
(* Types                                                                     *)

\* No request, no row and no file.
LEMMA InitTypeInv == Init => TypeInv
  BY DEF Init, TypeInv

\* Every step keeps the types: a row's owner is a user, as only requests that know
\* their user write rows.
LEMMA NextTypeInv == TypeInv /\ Identified /\ [Next]_vars => TypeInv'
<1> SUFFICES ASSUME TypeInv, Identified, [Next]_vars
             PROVE  TypeInv'
  OBVIOUS
<1> USE NobodyAssumption, ReqsAssumption DEF TypeInv, Reqs, Places, Kinds, setting, tables
<1>1. ASSUME NEW r \in Requests, NEW k \in Kinds, NEW n \in Names,
             NEW j \in Jobs \union {Nobody}, Arrive(r, k, n, j)
      PROVE  TypeInv'
  BY <1>1 DEF Arrive
<1>2. ASSUME NEW r \in Requests, Connect(r)
      PROVE  TypeInv'
  <2>1. req[r] \in Reqs
    BY <1>2 DEF Connect, WaitsForConnection, At
  <2>2. Onward(r) \in Places
    BY DEF Onward
  <2>3. QED
    BY <1>2, <2>1, <2>2 DEF Connect
<1>3. ASSUME NEW r \in Requests,
             \/ GiveUp(r) \/ Refused(r) \/ Collide(r) \/ Refuse(r)
             \/ CopyFails(r) \/ CommitFails(r) \/ PollTimesOut(r) \/ StreamEnds(r)
      PROVE  TypeInv'
  BY <1>3 DEF GiveUp, Refused, Collide, Refuse, CopyFails, CommitFails, PollTimesOut,
              StreamEnds, Go, Identified, At
<1>4. ASSUME NEW r \in Requests, Known(r) \/ Unknown(r)
      PROVE  TypeInv'
  BY <1>4 DEF Known, Unknown, Served, At
<1>5. ASSUME NEW r \in Requests, Register(r)
      PROVE  TypeInv'
  <2>1. req[r] \in Reqs
    BY <1>5 DEF Register, At
  <2>2. Served(r) \in Places
    BY DEF Served
  <2>3. req' \in [Requests -> Reqs \union {Nobody}]
    BY <1>5, <2>1, <2>2 DEF Register
  <2>4. owner' \in [Jobs -> users' \union {Nobody}]
    BY <1>5 DEF Register
  <2>5. QED
    BY <1>5, <2>1, <2>3, <2>4 DEF Register
<1>6. ASSUME NEW r \in Requests, Add(r) \/ Copied(r)
      PROVE  TypeInv'
  BY <1>6 DEF Add, Copied, Identified, At
<1>7. ASSUME NEW r \in Requests, CommitJob(r)
      PROVE  TypeInv'
  BY <1>7 DEF CommitJob, Go, Identified, At
<1>8. CASE Crash
  BY <1>8 DEF Crash
<1>9. CASE UNCHANGED vars
  BY <1>9 DEF vars
<1>10. QED
  BY <1>1, <1>2, <1>3, <1>4, <1>5, <1>6, <1>7, <1>8, <1>9 DEF Next, Step

-----------------------------------------------------------------------------
(* The pool                                                                  *)

\* No connection is in use.
LEMMA InitPool == Init => Used <= pool
<1> SUFFICES ASSUME Init
             PROVE  Used <= pool
  OBVIOUS
<1>1. Holders = {}
  BY DEF Init, Holders
<1>2. QED
  BY <1>1, PoolAssumption, FS_EmptySet DEF Init, Used

\* Only Connect makes a request hold a connection, and only when one is free.
LEMMA NextPool == TypeInv /\ Used <= pool /\ [Next]_vars => Used' <= pool'
<1> SUFFICES ASSUME TypeInv, Used <= pool, [Next]_vars
             PROVE  Used' <= pool'
  OBVIOUS
<1> USE DEF TypeInv, setting
<1>1. IsFiniteSet(Holders) /\ Used \in Nat
  BY RequestsAssumption, FS_Subset, FS_CardinalityType DEF Holders, Used
<1>2. ASSUME Holders' \subseteq Holders, pool' = pool
      PROVE  Used' <= pool'
  <2>1. Cardinality(Holders') <= Cardinality(Holders) /\ IsFiniteSet(Holders')
    BY <1>1, <1>2, FS_Subset
  <2>2. Used' \in Nat
    BY <2>1, FS_CardinalityType DEF Used
  <2>3. QED
    BY <1>1, <1>2, <2>1, <2>2, PoolAssumption DEF Used
<1>3. ASSUME NEW r \in Requests, Connect(r)
      PROVE  Used' <= pool'
  <2>1. Holders' \subseteq Holders \union {r} /\ pool' = pool
    BY <1>3 DEF Connect, Holders
  <2>2. /\ IsFiniteSet(Holders \union {r})
        /\ Cardinality(Holders \union {r}) <= Cardinality(Holders) + 1
    <3>1. /\ IsFiniteSet(Holders \union {r})
          /\ Cardinality(Holders \union {r}) =
               IF r \in Holders THEN Cardinality(Holders) ELSE Cardinality(Holders) + 1
      BY <1>1, FS_AddElement
    <3>2. QED
      BY <1>1, <3>1 DEF Used
  <2>3. /\ IsFiniteSet(Holders') 
        /\ Cardinality(Holders') <= Cardinality(Holders \union {r})
    BY <2>1, <2>2, FS_Subset
  <2>4. Used' \in Nat /\ Cardinality(Holders \union {r}) \in Nat
    BY <2>2, <2>3, FS_CardinalityType DEF Used
  <2>5. Used < pool
    BY <1>3 DEF Connect
  <2>6. QED
    BY <1>1, <2>1, <2>2, <2>3, <2>4, <2>5, PoolAssumption DEF Used
<1>4. ASSUME NEW r \in Requests, NEW k \in Kinds, NEW n \in Names,
             NEW j \in Jobs \union {Nobody}, Arrive(r, k, n, j)
      PROVE  Used' <= pool'
  BY <1>4, <1>2 DEF Arrive, Holders
<1>5. ASSUME NEW r \in Requests,
             \/ GiveUp(r) \/ Refused(r) \/ Collide(r) \/ Refuse(r) \/ CopyFails(r)
             \/ CommitJob(r) \/ CommitFails(r) \/ PollTimesOut(r) \/ StreamEnds(r)
      PROVE  Used' <= pool'
  <2>1. req' = [req EXCEPT ![r] = Nobody] /\ pool' = pool
    BY <1>5 DEF GiveUp, Refused, Collide, Refuse, CopyFails, CommitJob, CommitFails,
                PollTimesOut, StreamEnds, Go
  <2>2. QED
    BY <1>2, <2>1 DEF Holders
<1>6. ASSUME NEW r \in Requests, Known(r) \/ Unknown(r) \/ Register(r) \/ Add(r) \/ Copied(r)
      PROVE  Used' <= pool'
  <2>1. /\ pool' = pool
        /\ req[r] \in Reqs
        /\ \A s \in Requests \ {r} : req'[s] = req[s]
        /\ r \in Holders' => r \in Holders
    <3> USE ReqsAssumption DEF At, Reqs, Holders
    <3>1. CASE Known(r) \/ Unknown(r)
      BY <3>1 DEF Known, Unknown
    <3>2. CASE Register(r)
      BY <3>2 DEF Register
    <3>3. CASE Add(r) \/ Copied(r)
      BY <3>3 DEF Add, Copied
    <3>4. QED
      BY <1>6, <3>1, <3>2, <3>3
  <2>2. QED
    BY <1>2, <2>1, ReqsAssumption DEF Holders
<1>7. CASE Crash
  BY <1>7, <1>2 DEF Crash, Holders
<1>8. CASE UNCHANGED vars
  BY <1>8, <1>2 DEF vars, Holders
<1>9. QED
  BY <1>3, <1>4, <1>5, <1>6, <1>7, <1>8 DEF Next, Step

-----------------------------------------------------------------------------
(* Requests that end, and those that go on                                   *)

\* The actions that only end a request.
Leaves(r) ==
    \/ GiveUp(r) \/ Refused(r) \/ Collide(r) \/ Refuse(r) \/ CopyFails(r)
    \/ CommitFails(r) \/ PollTimesOut(r) \/ StreamEnds(r)

\* They touch no table and no other request.
LEMMA LeavingIsLocal ==
    ASSUME NEW r \in Requests, Leaves(r)
    PROVE  req' = [req EXCEPT ![r] = Nobody] /\ UNCHANGED <<users, admins, owner>>
  BY DEF Leaves, GiveUp, Refused, Collide, Refuse, CopyFails, CommitFails, PollTimesOut,
         StreamEnds, Go, tables

\* What a request that is served knows stays so, as users never vanish.
LEMMA NextIdentified == TypeInv /\ Identified /\ [Next]_vars => Identified'
<1> SUFFICES ASSUME TypeInv, Identified, [Next]_vars
             PROVE  Identified'
  OBVIOUS
<1> USE NobodyAssumption, ReqsAssumption DEF TypeInv, Reqs, Places, Kinds, tables, Identified
<1>1. ASSUME NEW r \in Requests, NEW k \in Kinds, NEW n \in Names,
             NEW j \in Jobs \union {Nobody}, Arrive(r, k, n, j)
      PROVE  Identified'
  BY <1>1 DEF Arrive
<1>2. ASSUME NEW r \in Requests, Connect(r)
      PROVE  Identified'
  BY <1>2 DEF Connect, WaitsForConnection, Onward, At
<1>3. ASSUME NEW r \in Requests, Leaves(r)
      PROVE  Identified'
  BY <1>3, LeavingIsLocal
<1>4. ASSUME NEW r \in Requests, Known(r) \/ Unknown(r)
      PROVE  Identified'
  BY <1>4 DEF Known, Unknown, Served, At
<1>5. ASSUME NEW r \in Requests, Register(r)
      PROVE  Identified'
  BY <1>5 DEF Register, Served, At
<1>6. ASSUME NEW r \in Requests, Add(r) \/ Copied(r)
      PROVE  Identified'
  BY <1>6 DEF Add, Copied, At
<1>7. ASSUME NEW r \in Requests, CommitJob(r)
      PROVE  Identified'
  BY <1>7 DEF CommitJob, Go, At
<1>8. CASE Crash
  BY <1>8 DEF Crash
<1>9. CASE UNCHANGED vars
  BY <1>9 DEF vars
<1>10. QED
  BY <1>1, <1>2, <1>3, <1>4, <1>5, <1>6, <1>7, <1>8, <1>9 DEF Next, Step, Leaves

-----------------------------------------------------------------------------
(* Rows and files                                                            *)

FilesInv == UploadsApart /\ FilesMatchRows

\* An upload that comes brings an id that nobody has, so that what another upload does
\* to its file is not done to this one's.
LEMMA NextFiles == TypeInv /\ Identified /\ FilesInv /\ [Next]_vars => FilesInv'
<1> SUFFICES ASSUME TypeInv, Identified, FilesInv, [Next]_vars
             PROVE  FilesInv'
  OBVIOUS
<1> USE NobodyAssumption, ReqsAssumption
    DEF TypeInv, Reqs, Places, Kinds, tables, Identified, FilesInv, UploadsApart,
        FilesMatchRows, Copying, At
<1>1. ASSUME NEW r \in Requests, NEW k \in Kinds, NEW n \in Names,
             NEW j \in Jobs \union {Nobody}, Arrive(r, k, n, j)
      PROVE  FilesInv'
  BY <1>1 DEF Arrive, Unused
<1>2. ASSUME NEW r \in Requests, Connect(r)
      PROVE  FilesInv'
  BY <1>2 DEF Connect, WaitsForConnection, Onward
<1>3. ASSUME NEW r \in Requests,
             GiveUp(r) \/ Refused(r) \/ Collide(r) \/ PollTimesOut(r) \/ StreamEnds(r)
      PROVE  FilesInv'
  BY <1>3 DEF GiveUp, Refused, Collide, PollTimesOut, StreamEnds, Go, WaitsForConnection,
              WaitsForLock
<1>4. ASSUME NEW r \in Requests, Refuse(r)
      PROVE  FilesInv'
  BY <1>4 DEF Refuse, Go
<1>5. ASSUME NEW r \in Requests, CopyFails(r) \/ CommitFails(r)
      PROVE  FilesInv'
  BY <1>5 DEF CopyFails, CommitFails, Go
<1>6. ASSUME NEW r \in Requests, Known(r) \/ Unknown(r)
      PROVE  FilesInv'
  BY <1>6 DEF Known, Unknown, Served
<1>7. ASSUME NEW r \in Requests, Register(r)
      PROVE  FilesInv'
  BY <1>7 DEF Register, Served
<1>8. ASSUME NEW r \in Requests, Add(r)
      PROVE  FilesInv'
  BY <1>8 DEF Add
<1>9. ASSUME NEW r \in Requests, Copied(r)
      PROVE  FilesInv'
  BY <1>9 DEF Copied
<1>10. ASSUME NEW r \in Requests, CommitJob(r)
       PROVE  FilesInv'
  BY <1>10 DEF CommitJob, Go
<1>11. CASE Crash
  BY <1>11 DEF Crash
<1>12. CASE UNCHANGED vars
  BY <1>12 DEF vars
<1>13. QED
  BY <1>1, <1>2, <1>3, <1>4, <1>5, <1>6, <1>7, <1>8, <1>9, <1>10, <1>11, <1>12
  DEF Next, Step

-----------------------------------------------------------------------------
(* The theorems                                                              *)

RequestsInv ==
    /\ TypeInv /\ Used <= pool
    /\ Identified /\ FilesInv

\* Every step keeps the invariant.
LEMMA RequestsInvariant == Spec => []RequestsInv
<1>1. Init => RequestsInv
  <2>1. Init => Identified /\ FilesInv
    BY NobodyAssumption DEF Init, Identified, FilesInv, UploadsApart, FilesMatchRows, At
  <2>2. QED
    BY <2>1, InitTypeInv, InitPool DEF RequestsInv
<1>2. RequestsInv /\ [Next]_vars => RequestsInv'
  BY NextTypeInv, NextPool, NextIdentified, NextFiles DEF RequestsInv
<1>3. QED
  BY <1>1, <1>2, PTL DEF Spec

\* Every variable keeps its type, and no more connections are used than there are.
THEOREM RequestsTypeCorrect == Spec => []TypeOK
<1>1. RequestsInv => TypeOK
  BY DEF RequestsInv, TypeInv, TypeOK
<1>2. QED
  BY RequestsInvariant, <1>1, PTL

\* A row in the queue has its whole upload, and what lies in tmp/ belongs to a row, to an
\* upload under way or to one that died.
THEOREM RowsHaveTheirFiles == Spec => []FilesMatchRows
<1>1. RequestsInv => FilesMatchRows
  BY DEF RequestsInv, FilesInv
<1>2. QED
  BY RequestsInvariant, <1>1, PTL

=============================================================================
