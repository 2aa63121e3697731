--------------------------- MODULE JobsPageProofs ---------------------------
(***************************************************************************)
(* Proofs about JobsPage, for any number of jobs, of requests and of lists *)
(* on their way.                                                           *)
(*                                                                         *)
(* The invariant: Ordered, the lists on their way are older the sooner     *)
(* they were read, and only late ones are older than what is shown;        *)
(* Marked, which of them are late or missed a change; Answered and         *)
(* ShownHolds, a list that does not hold any more is followed by an answer *)
(* that does; Streaming, when the page has a stream.  With it the page     *)
(* never goes back but by a list that was overtaken, and is right when     *)
(* nothing is left to happen.                                              *)
(***************************************************************************)
EXTENDS JobsPage, SequenceTheorems, Induction, TLAPS

-----------------------------------------------------------------------------
(* Lists that are left *)

\* The recursion of Without.
Rest(via, q) ==
    CHOOSE rest : rest = [k \in 0 .. Len(q) |->
            IF k = 0 THEN << >>
            ELSE IF q[k].via = via THEN rest[k - 1] ELSE Append(rest[k - 1], q[k])]

\* r is made of the elements of q up to the n-th that did not come by way of via: the
\* a-th of r is the at[a]-th of q.
Picks(via, q, n, r, at) ==
    /\ at \in [1 .. Len(r) -> 1 .. n]
    /\ \A a \in 1 .. Len(r) : r[a] = q[at[a]] /\ q[at[a]].via # via
    /\ \A a, b \in 1 .. Len(r) : a < b => at[a] < at[b]
    /\ \A i \in 1 .. n : q[i].via # via => \E a \in 1 .. Len(r) : at[a] = i

\* r is a selection of that kind from the first n elements of q.
Selects(S, via, q, n, r) ==
    /\ r \in Seq(S) /\ Len(r) <= n
    /\ \E at : Picks(via, q, n, r, at)

\* One more element.
LEMMA SelectsOne ==
    ASSUME NEW S, NEW via, NEW q \in Seq(S), NEW n \in Nat, n + 1 <= Len(q),
           NEW r, Selects(S, via, q, n, r)
    PROVE  Selects(S, via, q, n + 1, IF q[n + 1].via = via THEN r ELSE Append(r, q[n + 1]))
<1> DEFINE m == n + 1
           x == q[m]
           l == Len(r)
<1>1. r \in Seq(S) /\ l \in Nat /\ l <= n /\ m \in 1 .. m /\ x \in S
  BY DEF Selects
<1>2. \A i : i \in 1 .. m <=> i \in 1 .. n \/ i = m
  OBVIOUS
<1>3. \A i \in 1 .. n : i < m
  OBVIOUS
<1>4. PICK at : Picks(via, q, n, r, at)
  BY DEF Selects
<1>5. CASE x.via = via
  <2>1. Len(r) <= m
    BY <1>1
  <2>2. Picks(via, q, m, r, at)
    <3> HIDE DEF m
    <3> QED
      BY <1>2, <1>4, <1>5 DEF Picks
  <2>3. Selects(S, via, q, m, r)
    <3> HIDE DEF m
    <3> QED
      BY <1>1, <2>1, <2>2 DEF Selects
  <2> QED
    BY <1>5, <2>3
<1>6. CASE x.via # via
  <2> DEFINE k == l + 1
             to == [a \in 1 .. k |-> IF a \in 1 .. l THEN at[a] ELSE m]
  <2>1. PICK t : t = Append(r, x)
    OBVIOUS
  <2>2. t \in Seq(S) /\ Len(t) = k /\ (\A a \in 1 .. l : t[a] = r[a]) /\ t[k] = x
    BY <1>1, <2>1, AppendProperties
  <2>3. k <= m /\ k \in 1 .. k /\ k \notin 1 .. l /\ \A a : a \in 1 .. k <=> a \in 1 .. l \/ a = k
    BY <1>1
  <2>4. \A a \in 1 .. l : ~ (k < a)
    BY <1>1
  <2>5. ~ (k < k)
    BY <1>1
  <2> HIDE DEF k, m, l
  <2>6. /\ \A a \in 1 .. l : to[a] = at[a] /\ at[a] \in 1 .. n /\ at[a] \in 1 .. m
        /\ to[k] = m
    BY <1>2, <1>4, <2>3 DEF Picks, l
  <2>7. to \in [1 .. k -> 1 .. m]
    BY <1>1, <2>3, <2>6
  <2> HIDE DEF to
  <2>8. \A a \in 1 .. k : t[a] = q[to[a]] /\ q[to[a]].via # via
    BY <1>4, <1>6, <2>2, <2>3, <2>6 DEF Picks, l
  <2>9. ASSUME NEW a \in 1 .. k, NEW b \in 1 .. k, a < b PROVE to[a] < to[b]
    <3>1. a \in 1 .. l
      BY <2>3, <2>4, <2>5, <2>9
    <3>2. CASE b = k
      BY <1>3, <2>6, <3>1, <3>2
    <3>3. CASE b \in 1 .. l
      BY <1>4, <2>6, <2>9, <3>1, <3>3 DEF Picks, l
    <3> QED
      BY <2>3, <3>2, <3>3
  <2>10. ASSUME NEW i \in 1 .. m, q[i].via # via PROVE \E a \in 1 .. k : to[a] = i
    <3>1. CASE i = m
      BY <2>3, <2>6, <3>1
    <3>2. CASE i \in 1 .. n
      <4>1. PICK a \in 1 .. l : at[a] = i
        BY <1>4, <2>10, <3>2 DEF Picks, l
      <4> QED
        BY <2>3, <2>6, <4>1
    <3> QED
      BY <1>2, <3>1, <3>2
  <2>11. Picks(via, q, m, t, to)
    BY <2>2, <2>7, <2>8, <2>9, <2>10 DEF Picks
  <2>12. Selects(S, via, q, m, t)
    BY <2>2, <2>3, <2>11 DEF Selects
  <2> QED
    BY <1>6, <2>1, <2>12 DEF m
<1> QED
  BY <1>5, <1>6

\* Without selects.
LEMMA WithoutSelects ==
    ASSUME NEW S, NEW via, NEW q \in Seq(S)
    PROVE  Selects(S, via, q, Len(q), Without(via, q))
<1> DEFINE n == Len(q)
           One(k, r) == IF q[k].via = via THEN r ELSE Append(r, q[k])
           Is(g, m) == g = [k \in 0 .. m |-> IF k = 0 THEN << >> ELSE One(k, g[k - 1])]
           T == {m \in Nat : \E g : Is(g, m)}
<1>1. n \in Nat
  BY LenProperties
<1> HIDE DEF One
<1>2. 0 \in T
  <2> DEFINE g == [k \in 0 .. 0 |-> << >>]
  <2>1. Is(g, 0)
    OBVIOUS
  <2> QED
    BY <2>1
<1>3. ASSUME NEW m \in 0 .. n - 1, m \in T PROVE m + 1 \in T
  <2>1. PICK g : Is(g, m)
    BY <1>3
  <2> DEFINE h == [k \in 0 .. m + 1 |-> IF k <= m THEN g[k] ELSE One(m + 1, g[m])]
  <2>2. ASSUME NEW k \in 0 .. m + 1
        PROVE  h[k] = IF k = 0 THEN << >> ELSE One(k, h[k - 1])
    <3>1. CASE k <= m
      BY <1>1, <2>1, <3>1
    <3>2. CASE k = m + 1
      BY <1>1, <3>2
    <3> QED
      BY <1>1, <3>1, <3>2
  <2>3. Is(h, m + 1)
    <3> DEFINE H == [k \in 0 .. m + 1 |-> IF k = 0 THEN << >> ELSE One(k, h[k - 1])]
    <3>1. h = [k \in 0 .. m + 1 |-> h[k]]
      OBVIOUS
    <3> HIDE DEF h
    <3>2. [k \in 0 .. m + 1 |-> h[k]] = H
      BY <2>2
    <3> QED
      BY <3>1, <3>2
  <2> HIDE DEF h
  <2> QED
    BY <1>1, <2>3
<1>4. \E g : Is(g, n)
  <2> HIDE DEF T
  <2>1. \A m \in 0 .. n : m \in T
    BY <1>1, <1>2, <1>3, UpTo
  <2>2. n \in 0 .. n
    BY <1>1
  <2> QED
    BY <2>1, <2>2 DEF T
<1> DEFINE s == Rest(via, q)
<1>5. Is(s, n)
  BY <1>4 DEF Rest, One
<1> HIDE DEF s
<1>6. \A k \in 0 .. n : s[k] = IF k = 0 THEN << >> ELSE One(k, s[k - 1])
  BY <1>5
<1> DEFINE K == {k \in Nat : Selects(S, via, q, k, s[k])}
<1>7. 0 \in K
  <2>1. s[0] = << >>
    BY <1>1, <1>6
  <2>2. << >> \in Seq(S) /\ Len(<< >>) = 0
    BY EmptySeq
  <2> DEFINE at == [a \in 1 .. 0 |-> 0]
  <2>3. Picks(via, q, 0, << >>, at)
    BY <2>2 DEF Picks
  <2> HIDE DEF at
  <2>4. Selects(S, via, q, 0, << >>)
    BY <2>2, <2>3 DEF Selects
  <2> QED
    BY <2>1, <2>4
<1>8. ASSUME NEW k \in 0 .. n - 1, k \in K PROVE k + 1 \in K
  <2>1. k + 1 \in 0 .. n /\ (k + 1) - 1 = k /\ k + 1 # 0 /\ k + 1 <= n
    BY <1>1
  <2>2. s[k + 1] = One(k + 1, s[k])
    BY <1>6, <2>1
  <2>3. Selects(S, via, q, k + 1, s[k + 1])
    BY <1>8, <2>1, <2>2, SelectsOne DEF One
  <2> QED
    BY <2>3
<1> HIDE DEF K
<1>9. \A k \in 0 .. n : k \in K
  BY <1>1, <1>7, <1>8, UpTo
<1>10. n \in 0 .. n
  BY <1>1
<1>11. Selects(S, via, q, n, s[n])
  BY <1>9, <1>10 DEF K
<1> QED
  BY <1>11 DEF s, Rest, Without

-----------------------------------------------------------------------------
(* The invariant *)

\* Nothing in the rows b is behind what it is in a.
Behind(a, b) == \A j \in Jobs : Life!Phase(a[j]) <= Life!Phase(b[j])

Ordered ==
    /\ Behind(Shown, status)
    /\ \A a \in 1 .. Len(flying) : Behind(flying[a].rows, status)
    /\ \A a \in 1 .. Len(flying) : ~ flying[a].late => Behind(Shown, flying[a].rows)
    /\ \A a, b \in 1 .. Len(flying) : a < b => Behind(flying[a].rows, flying[b].rows)

\* The lists that are late are the oldest ones, and the older a list the more it missed.
Marked ==
    \A a, b \in 1 .. Len(flying) : a < b =>
        /\ flying[b].late => flying[a].late
        /\ flying[b].missed => flying[a].missed

\* What is over in rows, or not there, is so now.
Over(s) == s \in Life!Final \union {"absent"}
Agree(rows, now) == \A j \in Jobs : Over(rows[j]) => now[j] = rows[j]
Good(m, now) == m.missed \/ Agree(m.rows, now)
GoodAnswer(m, now) == m.via = "answer" /\ Good(m, now)

\* A list that does not hold any more, because of a request of the page itself, is
\* followed by the answer to the refresh after that request.
Answered ==
    \A a \in 1 .. Len(flying) : ~ flying[a].late =>
        \/ Good(flying[a], status)
        \/ asking > 0
        \/ \E b \in 1 .. Len(flying) : a < b /\ GoodAnswer(flying[b], status)

\* So is the list that is shown.  (An older list that equals it may arrive late and then
\* passes for what is shown.)
MayPass(a) == flying[a].late /\ ~ flying[a].missed /\ flying[a].rows = list
Promised ==
    \/ list # NoList /\ Agree(list, status)
    \/ asking > 0
    \/ \E b \in 1 .. Len(flying) : ~ flying[b].late /\ GoodAnswer(flying[b], status)
ShownHolds ==
    /\ ~ muddled
    /\ ~ elsewhere \/ \E a \in 1 .. Len(flying) : MayPass(a)
    => Promised

\* The page has a stream when it thinks something is pending, unless it has been cut off,
\* or the stream has told the page that nothing is.
Streaming ==
    /\ stream = "open" => watched > 0
    /\ stream = "none" /\ watched > 0 /\ ~ cut => list # NoList /\ Pending(list) = 0
    /\ server = "ended" /\ ~ cut =>
         \/ list # NoList /\ Pending(list) = 0
         \/ \E a \in 1 .. Len(flying) :
               flying[a].via = "stream" /\ Pending(flying[a].rows) = 0
    /\ server = "polling" /\ Pending(status) = 0 => sent # status

Inv == TypeOK /\ Ordered /\ Marked /\ Answered /\ ShownHolds /\ Streaming

\* Being behind is an order.
LEMMA BehindIsTransitive ==
    ASSUME NEW a, NEW b, NEW c, Behind(a, b), Behind(b, c)
    PROVE  Behind(a, c)
<1> SUFFICES ASSUME NEW j \in Jobs PROVE Life!Phase(a[j]) <= Life!Phase(c[j])
  BY DEF Behind
<1>1. \A r : Life!Phase(r) \in Int
  BY DEF Life!Phase
<1>2. Life!Phase(a[j]) <= Life!Phase(b[j]) /\ Life!Phase(b[j]) <= Life!Phase(c[j])
  BY DEF Behind
<1> HIDE DEF Life!Phase
<1> QED
  BY <1>1, <1>2

\* Rows are not behind themselves.
LEMMA BehindIsReflexive == \A a : Behind(a, a)
  BY DEF Behind, Life!Phase

\* How many jobs are not over is bounded.
LEMMA PendingIsBounded ==
    ASSUME NEW rows
    PROVE  Pending(rows) \in 0 .. Cardinality(Jobs)
<1> DEFINE P == {j \in Jobs : rows[j] \notin Life!Final \union {"absent"}}
<1>1. P \subseteq Jobs
  OBVIOUS
<1> HIDE DEF P
<1>2. IsFiniteSet(P) /\ Cardinality(P) <= Cardinality(Jobs)
  BY <1>1, JobsAssumption, FS_Subset
<1>3. Cardinality(P) \in Nat /\ Cardinality(Jobs) \in Nat
  BY <1>2, JobsAssumption, FS_CardinalityType
<1>4. Cardinality(P) \in 0 .. Cardinality(Jobs)
  BY <1>2, <1>3
<1> QED
  BY <1>4 DEF P, Pending

\* A write keeps the types and takes no row back.
LEMMA WriteIsForward ==
    ASSUME TypeOK, NEW j \in Jobs, NEW S, Write(j, S)
    PROVE  /\ status' \in Rows /\ sent' \in Rows \union {NoList}
           /\ Behind(status, status')
<1>1. PICK s \in S \intersect Seen :
         /\ Life!May(status[j], s)
         /\ status' = [status EXCEPT ![j] = s]
         /\ sent' = IF s \in Life!Final /\ sent # NoList THEN [sent EXCEPT ![j] = "absent"]
                    ELSE sent
  BY DEF Write
<1>2. status' \in Rows /\ sent' \in Rows \union {NoList}
  BY <1>1 DEF TypeOK, Rows
<1>3. ASSUME NEW i \in Jobs PROVE Life!Phase(status[i]) <= Life!Phase(status'[i])
  <2>1. CASE i = j
    BY <1>1, <2>1 DEF TypeOK, Rows, Life!May, Life!Phase
  <2>2. CASE i # j
    BY <1>1, <2>2 DEF TypeOK, Rows, Life!Phase
  <2> QED
    BY <2>1, <2>2
<1> QED
  BY <1>2, <1>3 DEF Behind

-----------------------------------------------------------------------------
(* Types *)

\* The first list is on its way.
LEMMA InitInv == Init => Inv
<1> SUFFICES ASSUME Init PROVE Inv
  OBVIOUS
<1>1. << >> \in Seq(Lists) /\ Len(<< >>) = 0
  BY EmptySeq
<1>2. 0 \in 0 .. Cardinality(Jobs)
  BY JobsAssumption, FS_CardinalityType
<1>3. TypeOK
  <2>1. 1 \in 0 .. MaxAsks /\ 0 <= MaxFlying
    BY BoundsAssumption
  <2>2. {muddled, cut, elsewhere} \subseteq BOOLEAN
    BY DEF Init
  <2> QED
    BY <1>1, <1>2, <2>1, <2>2 DEF Init, TypeOK
<1>4. Ordered
  <2>1. Behind(Shown, status)
    BY DEF Init, Behind, Shown, NoRows, Life!Phase
  <2> QED
    BY <1>1, <2>1 DEF Init, Ordered
<1>5. Marked /\ Answered
  BY <1>1 DEF Init, Marked, Answered
<1>6. ShownHolds /\ Streaming
  BY DEF Init, ShownHolds, Promised, Streaming
<1> QED
  BY <1>3, <1>4, <1>5, <1>6 DEF Inv

-----------------------------------------------------------------------------
(* What the steps do to the lists on their way *)

\* The new n-th list.
New(n, via) == flying'[n] = [via |-> via, rows |-> status, late |-> FALSE, missed |-> FALSE]

\* One list is added, the rows as they are now.
Sent(via) ==
    /\ flying' \in Seq(Lists) /\ Len(flying') = Len(flying) + 1
    /\ \A a \in 1 .. Len(flying) : flying'[a] = flying[a]
    /\ New(Len(flying) + 1, via)

\* What is sent comes last.
LEMMA SendSends ==
    ASSUME TypeOK, NEW via \in {"stream", "answer"}, flying' = Send(via)
    PROVE  Sent(via)
<1> DEFINE m == [via |-> via, rows |-> status, late |-> FALSE, missed |-> FALSE]
<1>1. m \in Lists
  BY DEF TypeOK, Lists
<1>2. flying \in Seq(Lists) /\ flying' = Append(flying, m)
  BY DEF TypeOK, Send
<1> HIDE DEF m
<1>3. /\ flying' \in Seq(Lists) /\ Len(flying') = Len(flying) + 1
      /\ \A a \in 1 .. Len(flying) : flying'[a] = flying[a]
      /\ flying'[Len(flying) + 1] = m
  BY <1>1, <1>2, AppendProperties
<1> QED
  BY <1>3 DEF m, Sent, New

\* The a-th list afterwards was the i-th before.
Was(a, i) == flying'[a].via = flying[i].via /\ flying'[a].rows = flying[i].rows

\* The same lists, all of them too old now.
AllMissed ==
    /\ flying' \in Seq(Lists) /\ Len(flying') = Len(flying)
    /\ \A a \in 1 .. Len(flying) :
         Was(a, a) /\ flying'[a].late = flying[a].late /\ flying'[a].missed = TRUE

\* A change behind the back of the page is missed by all lists that are on their way.
LEMMA ChangeMarksAll ==
    ASSUME TypeOK,
           flying' = [i \in DOMAIN flying |-> [flying[i] EXCEPT !.missed = TRUE]]
    PROVE  AllMissed
<1> DEFINE n == Len(flying)
<1>1. n \in Nat /\ DOMAIN flying = 1 .. n /\ \A a \in 1 .. n : flying[a] \in Lists
  BY DEF TypeOK
<1>2. \A a \in 1 .. n : flying'[a] = [flying[a] EXCEPT !.missed = TRUE]
  BY <1>1
<1>3. ASSUME NEW a \in 1 .. n
      PROVE  /\ flying'[a] \in Lists /\ Was(a, a)
             /\ flying'[a].late = flying[a].late /\ flying'[a].missed = TRUE
  BY <1>1, <1>2 DEF Lists, Was
<1>4. flying' \in [1 .. n -> Lists]
  BY <1>1, <1>3
<1>5. flying' \in Seq(Lists)
  BY <1>1, <1>4, SeqDef
<1>6. Len(flying') = n
  BY <1>1, <1>4, <1>5, LenProperties
<1> QED
  BY <1>3, <1>5, <1>6 DEF AllMissed

\* Where in the list was what is the a-th after the k-th has arrived.
Before(k, a) == IF a < k THEN a ELSE a + 1

\* List k is gone, and those in front of it are late.
Arrived(k) ==
    /\ flying' \in Seq(Lists) /\ Len(flying') = Len(flying) - 1
    /\ \A a \in 1 .. Len(flying) - 1 :
         /\ Was(a, Before(k, a))
         /\ flying'[a].late = (a < k \/ flying[Before(k, a)].late)
         /\ flying'[a].missed = flying[Before(k, a)].missed

\* What arrives is taken out, and what is older is late from now on.
LEMMA ArrivesArrives ==
    ASSUME TypeOK, NEW k \in 1 .. Len(flying), Arrives(k)
    PROVE  Arrived(k)
<1> DEFINE n == Len(flying) - 1
<1>1. n \in Nat /\ \A a \in 1 .. n + 1 : flying[a] \in Lists
  BY DEF TypeOK
<1>2. flying' = [i \in 1 .. n |-> IF i < k THEN [flying[i] EXCEPT !.late = TRUE]
                                            ELSE flying[i + 1]]
  BY DEF Arrives
<1>3. ASSUME NEW a \in 1 .. n
      PROVE  /\ flying'[a] \in Lists /\ Was(a, Before(k, a))
             /\ flying'[a].late = (a < k \/ flying[Before(k, a)].late)
             /\ flying'[a].missed = flying[Before(k, a)].missed
  <2>1. a \in 1 .. n + 1 /\ a + 1 \in 1 .. n + 1
    BY <1>1
  <2>2. CASE a < k
    <3>1. flying'[a] = [flying[a] EXCEPT !.late = TRUE] /\ Before(k, a) = a
      BY <1>2, <2>2 DEF Before
    <3> QED
      BY <1>1, <2>1, <2>2, <3>1 DEF Lists, Was
  <2>3. CASE ~ (a < k)
    <3>1. flying'[a] = flying[a + 1] /\ Before(k, a) = a + 1
      BY <1>2, <2>3 DEF Before
    <3>2. flying[a + 1].late \in BOOLEAN
      BY <1>1, <2>1 DEF Lists
    <3> QED
      BY <1>1, <2>1, <2>3, <3>1, <3>2 DEF Was
  <2> QED
    BY <2>2, <2>3
<1>4. flying' \in [1 .. n -> Lists]
  BY <1>2, <1>3
<1>5. flying' \in Seq(Lists)
  BY <1>1, <1>4, SeqDef
<1>6. Len(flying') = n
  BY <1>1, <1>4, <1>5, LenProperties
<1> QED
  BY <1>3, <1>5, <1>6 DEF Arrived

\* An index after the arrival of the k-th stands for another one before, in the same order.
LEMMA BeforeIsOrdered ==
    ASSUME TypeOK, NEW k \in 1 .. Len(flying)
    PROVE  /\ \A a \in 1 .. Len(flying) - 1 : Before(k, a) \in 1 .. Len(flying) /\ Before(k, a) # k
           /\ \A a, b \in 1 .. Len(flying) - 1 : a < b <=> Before(k, a) < Before(k, b)
           /\ \A a \in 1 .. Len(flying) - 1 : a < k <=> Before(k, a) < k
           /\ \A i \in 1 .. Len(flying) :
                i # k => \E a \in 1 .. Len(flying) - 1 : Before(k, a) = i
<1> DEFINE n == Len(flying)
<1>1. n \in Nat
  BY DEF TypeOK
<1>2. ASSUME NEW i \in 1 .. n, i # k PROVE \E a \in 1 .. n - 1 : Before(k, a) = i
  <2>1. CASE i < k
    <3>1. i \in 1 .. n - 1 /\ Before(k, i) = i
      BY <1>1, <2>1 DEF Before
    <3> QED
      BY <3>1
  <2>2. CASE i > k
    <3>1. i - 1 \in 1 .. n - 1 /\ Before(k, i - 1) = i
      BY <1>1, <2>2 DEF Before
    <3> QED
      BY <3>1
  <2> QED
    BY <1>1, <1>2, <2>1, <2>2
<1>3. /\ \A a \in 1 .. n - 1 : Before(k, a) \in 1 .. n /\ Before(k, a) # k
      /\ \A a, b \in 1 .. n - 1 : a < b <=> Before(k, a) < Before(k, b)
      /\ \A a \in 1 .. n - 1 : a < k <=> Before(k, a) < k
  BY <1>1 DEF Before
<1> QED
  BY <1>2, <1>3

\* Nothing but events of the stream is gone.
Thinned ==
    /\ flying' \in Seq(Lists) /\ Len(flying') <= Len(flying)
    /\ \E at : Picks("stream", flying, Len(flying), flying', at)

\* A stream that is closed takes its events with it.
LEMMA WithoutThins ==
    ASSUME TypeOK, flying' = Without("stream", flying)
    PROVE  Thinned
<1>1. flying \in Seq(Lists)
  BY DEF TypeOK
<1>2. Selects(Lists, "stream", flying, Len(flying), flying')
  BY <1>1, WithoutSelects
<1> QED
  BY <1>2 DEF Selects, Thinned

-----------------------------------------------------------------------------
(* The steps, by what they do *)

\* A row changes, in view of the page or its stream; and the stream is dropped.
RowStep(j) == Move(j) \/ Upload(j) \/ Cancel(j)
DropStep == Render \/ StreamEnds \/ StreamBreaks

\* Each step is one of these.
LEMMA StepKinds ==
    ASSUME TypeOK, [Next]_vars
    PROVE  \/ \E j \in Jobs : RowStep(j)
           \/ \E j \in Jobs : ChangeElsewhere(j)
           \/ Read \/ Poll
           \/ \E k \in 1 .. Len(flying) : SetJobs(k)
           \/ DropStep
           \/ UNCHANGED vars
  BY DEF Next, User, Environment, Browser, RowStep, DropStep

\* A row changes, and the page knows or is told: it asks, or the job was not over.
LEMMA RowStepDoes ==
    ASSUME TypeOK, NEW j \in Jobs, RowStep(j)
    PROVE  /\ status' \in Rows /\ sent' \in Rows \union {NoList}
           /\ Behind(status, status')
           /\ UNCHANGED <<flying, list, watched, stream, server, muddled, cut, elsewhere>>
           /\ asking' \in 0 .. MaxAsks /\ asking' >= asking
<1> USE DEF TypeOK, page, source, history
<1>1. PICK S : Write(j, S)
  BY DEF RowStep, Move, Upload, Cancel
<1>2. /\ status' \in Rows /\ sent' \in Rows \union {NoList}
      /\ Behind(status, status')
  BY <1>1, WriteIsForward
<1>3. CASE Move(j)
  BY <1>2, <1>3, BoundsAssumption DEF Move
<1>4. CASE Upload(j)
  BY <1>2, <1>4, BoundsAssumption DEF Upload
<1>5. CASE Cancel(j)
  BY <1>2, <1>5, BoundsAssumption DEF Cancel
<1> QED
  BY <1>3, <1>4, <1>5 DEF RowStep

\* A row changes behind the back of the page.
LEMMA ChangeDoes ==
    ASSUME TypeOK, NEW j \in Jobs, ChangeElsewhere(j)
    PROVE  /\ status' \in Rows /\ sent' \in Rows \union {NoList}
           /\ Behind(status, status')
           /\ AllMissed
           /\ elsewhere' = TRUE
           /\ UNCHANGED <<list, watched, stream, server, asking, muddled, cut>>
<1>1. Write(j, Seen)
  BY DEF ChangeElsewhere
<1> QED
  BY <1>1, WriteIsForward, ChangeMarksAll DEF ChangeElsewhere, page

\* A list arrives.
LEMMA SetJobsDoes ==
    ASSUME TypeOK, NEW k \in 1 .. Len(flying), SetJobs(k)
    PROVE  /\ Arrived(k)
           /\ flying[k] \in Lists
           /\ list' = flying[k].rows
           /\ muddled' = (flying[k].late /\ (muddled \/ flying[k].rows # list))
           /\ elsewhere' = flying[k].missed
           /\ cut' = (cut \/ (list # NoList /\ Pending(list) # watched))
           /\ UNCHANGED <<status, watched, stream, server, sent, asking>>
<1>1. Arrived(k)
  BY ArrivesArrives DEF SetJobs
<1>2. flying[k] \in Lists
  BY DEF TypeOK
<1> QED
  BY <1>1, <1>2 DEF SetJobs, source

\* A stream is closed.
LEMMA DropDoes ==
    ASSUME TypeOK, DropStep
    PROVE  /\ Thinned
           /\ UNCHANGED <<status, list, asking, muddled, elsewhere>>
<1> USE DEF page, history
<1>1. flying' = Without("stream", flying)
  BY DEF DropStep, Render, StreamEnds, StreamBreaks, Close
<1>2. Thinned
  BY <1>1, WithoutThins
<1> QED
  BY <1>2 DEF DropStep, Render, StreamEnds, StreamBreaks, Close

-----------------------------------------------------------------------------
(* Types and order *)

\* The steps keep the types.
LEMMA TypesKept == Inv /\ [Next]_vars => TypeOK'
<1> SUFFICES ASSUME TypeOK, [Next]_vars PROVE TypeOK'
  BY DEF Inv
<1> USE DEF TypeOK
<1>1. ASSUME NEW j \in Jobs, RowStep(j) PROVE TypeOK'
  BY <1>1, RowStepDoes
<1>2. ASSUME NEW j \in Jobs, ChangeElsewhere(j) PROVE TypeOK'
  BY <1>2, ChangeDoes DEF AllMissed
<1>3. CASE Read
  <2>1. Sent("answer")
    BY <1>3, SendSends DEF Read
  <2>2. Len(flying') <= MaxFlying /\ asking' \in 0 .. MaxAsks
    BY <1>3, <2>1, BoundsAssumption DEF Read, Sent
  <2> QED
    BY <1>3, <2>1, <2>2 DEF Read, Sent, page, source, history
<1>4. CASE Poll
  <2>1. Sent("stream")
    BY <1>4, SendSends DEF Poll
  <2>2. Len(flying') <= MaxFlying
    BY <1>4, <2>1, BoundsAssumption DEF Poll, Sent
  <2> QED
    BY <1>4, <2>1, <2>2 DEF Poll, Sent, page, history
<1>5. ASSUME NEW k \in 1 .. Len(flying), SetJobs(k) PROVE TypeOK'
  <2>1. /\ Arrived(k) /\ flying[k] \in Lists
        /\ UNCHANGED <<status, watched, stream, server, sent, asking>>
    BY <1>5, SetJobsDoes
  <2>2. list' \in Rows
    BY <1>5, SetJobsDoes DEF Lists
  <2>3. Len(flying') <= MaxFlying /\ flying' \in Seq(Lists)
    BY <2>1, BoundsAssumption DEF Arrived
  <2>4. muddled' \in BOOLEAN /\ cut' \in BOOLEAN
    BY <1>5, Zenon DEF SetJobs
  <2>5. elsewhere' \in BOOLEAN
    BY <1>5, SetJobsDoes DEF Lists
  <2> QED
    BY <2>1, <2>2, <2>3, <2>4, <2>5
<1>6. CASE DropStep
  <2>1. Thinned /\ UNCHANGED <<status, list, asking, muddled, elsewhere>>
    BY <1>6, DropDoes
  <2>2. flying' \in Seq(Lists) /\ Len(flying') <= MaxFlying
    BY <2>1, BoundsAssumption DEF Thinned
  <2>3. /\ watched' \in 0 .. Cardinality(Jobs) /\ cut' \in BOOLEAN
        /\ stream' \in {"none", "open"} /\ server' \in {"off", "polling", "ended"}
        /\ stream' = "open" <=> server' # "off"
        /\ sent' \in Rows \union {NoList}
    <3>1. CASE Render
      BY <3>1, PendingIsBounded DEF Render
    <3>2. CASE StreamEnds
      BY <3>2 DEF StreamEnds, Close, page
    <3>3. CASE StreamBreaks
      BY <3>3 DEF StreamBreaks, Close, page
    <3> QED
      BY <1>6, <3>1, <3>2, <3>3 DEF DropStep
  <2> QED
    BY <2>1, <2>2, <2>3
<1>7. CASE UNCHANGED vars
  BY <1>7 DEF vars, page, source, history
<1> QED
  BY <1>1, <1>2, <1>3, <1>4, <1>5, <1>6, <1>7, StepKinds

\* Lists arrive and are read, but none overtakes what is shown without being late.
LEMMA OrderKept == Inv /\ [Next]_vars => Ordered'
<1> SUFFICES ASSUME TypeOK, Ordered, Marked, [Next]_vars PROVE Ordered'
  BY DEF Inv
<1>0. Len(flying) \in Nat
  BY DEF TypeOK
<1>1. ASSUME NEW j \in Jobs, RowStep(j) PROVE Ordered'
  <2>1. Behind(status, status') /\ UNCHANGED <<flying, list>>
    BY <1>1, RowStepDoes
  <2>2. \A r : Behind(r, status) => Behind(r, status')
    BY <2>1, BehindIsTransitive
  <2>3. Shown' = Shown
    BY <2>1 DEF Shown
  <2> QED
    BY <2>1, <2>2, <2>3 DEF Ordered
<1>2. ASSUME NEW j \in Jobs, ChangeElsewhere(j) PROVE Ordered'
  <2>1. Behind(status, status') /\ AllMissed /\ UNCHANGED list
    BY <1>2, ChangeDoes
  <2>2. \A r : Behind(r, status) => Behind(r, status')
    BY <2>1, BehindIsTransitive
  <2>3. Shown' = Shown
    BY <2>1 DEF Shown
  <2> QED
    BY <2>1, <2>2, <2>3 DEF Ordered, AllMissed, Was
<1>3. ASSUME NEW via \in {"stream", "answer"}, Sent(via), UNCHANGED <<status, list>>
      PROVE  Ordered'
  <2> DEFINE n == Len(flying)
             m == n + 1
  <2>1. m \in 1 .. m /\ (\A i : i \in 1 .. m <=> i \in 1 .. n \/ i = m)
        /\ \A i \in 1 .. n : ~ (m < i) /\ ~ (m < m)
    BY <1>0
  <2>2. Len(flying') = m /\ (\A a \in 1 .. n : flying'[a] = flying[a])
        /\ flying'[m].rows = status
    BY <1>3 DEF Sent, New
  <2>3. Shown' = Shown /\ status' = status
    BY <1>3 DEF Shown
  <2>4. Behind(status, status)
    BY BehindIsReflexive
  <2> HIDE DEF m
  <2>5. \A a \in 1 .. m : Behind(flying'[a].rows, status)
    BY <2>1, <2>2, <2>4 DEF Ordered
  <2>6. \A a \in 1 .. m : ~ flying'[a].late => Behind(Shown, flying'[a].rows)
    BY <2>1, <2>2 DEF Ordered
  <2>7. \A a, b \in 1 .. m : a < b => Behind(flying'[a].rows, flying'[b].rows)
    BY <1>0, <2>1, <2>2 DEF Ordered
  <2> QED
    BY <2>2, <2>3, <2>5, <2>6, <2>7 DEF Ordered
<1>4. CASE Read
  BY <1>3, <1>4, SendSends DEF Read, page
<1>5. CASE Poll
  BY <1>3, <1>5, SendSends DEF Poll, page
<1>6. ASSUME NEW k \in 1 .. Len(flying), SetJobs(k) PROVE Ordered'
  <2> DEFINE n == Len(flying) - 1
  <2>1. /\ Arrived(k) /\ flying[k] \in Lists /\ list' = flying[k].rows
        /\ UNCHANGED status
    BY <1>6, SetJobsDoes
  <2>2. Len(flying') = n
    BY <2>1 DEF Arrived
  <2>3. /\ \A a \in 1 .. n : Before(k, a) \in 1 .. Len(flying) /\ Before(k, a) # k
        /\ \A a, b \in 1 .. n : a < b => Before(k, a) < Before(k, b)
        /\ \A a \in 1 .. n : a < k <=> Before(k, a) < k
    BY BeforeIsOrdered
  <2>4. Shown' = flying[k].rows \/ Shown' = NoRows
    BY <2>1 DEF Shown
  <2>5. \A r : Behind(NoRows, r)
    BY DEF Behind, NoRows, Life!Phase
  <2>6. Behind(Shown', status')
    BY <2>1, <2>4, <2>5 DEF Ordered
  <2>7. ASSUME NEW a \in 1 .. n PROVE Behind(flying'[a].rows, status')
    BY <2>1, <2>3 DEF Ordered, Arrived, Was
  <2>8. ASSUME NEW a \in 1 .. n, ~ flying'[a].late PROVE Behind(Shown', flying'[a].rows)
    <3>1. ~ (a < k) /\ flying'[a].rows = flying[Before(k, a)].rows
      BY <2>1, <2>8 DEF Arrived, Was
    <3>2. k < Before(k, a) /\ Before(k, a) \in 1 .. Len(flying)
      BY <1>0, <2>3, <3>1
    <3> QED
      BY <2>4, <2>5, <3>1, <3>2 DEF Ordered
  <2>9. ASSUME NEW a \in 1 .. n, NEW b \in 1 .. n, a < b
        PROVE  Behind(flying'[a].rows, flying'[b].rows)
    <3>1. PICK c, d : c = Before(k, a) /\ d = Before(k, b)
      OBVIOUS
    <3>2. c \in 1 .. Len(flying) /\ d \in 1 .. Len(flying) /\ c < d
      BY <2>3, <2>9, <3>1
    <3>3. flying'[a].rows = flying[c].rows /\ flying'[b].rows = flying[d].rows
      BY <2>1, <3>1 DEF Arrived, Was
    <3>4. Behind(flying[c].rows, flying[d].rows)
      BY <3>2 DEF Ordered
    <3> QED
      BY <3>3, <3>4
  <2> QED
    BY <2>2, <2>6, <2>7, <2>8, <2>9 DEF Ordered
<1>7. CASE DropStep
  <2>1. Thinned /\ UNCHANGED <<status, list>>
    BY <1>7, DropDoes
  <2>2. PICK at : Picks("stream", flying, Len(flying), flying', at)
    BY <2>1 DEF Thinned
  <2>3. Shown' = Shown
    BY <2>1 DEF Shown
  <2>4. \A a \in 1 .. Len(flying') : at[a] \in 1 .. Len(flying) /\ flying'[a] = flying[at[a]]
    BY <2>2 DEF Picks
  <2>5. ASSUME NEW a \in 1 .. Len(flying'), NEW b \in 1 .. Len(flying'), a < b
        PROVE  Behind(flying'[a].rows, flying'[b].rows)
    <3>1. at[a] < at[b]
      BY <2>2, <2>5 DEF Picks
    <3>2. Behind(flying[at[a]].rows, flying[at[b]].rows)
      BY <2>4, <3>1 DEF Ordered
    <3> QED
      BY <2>4, <3>2
  <2>6. \A a \in 1 .. Len(flying') : Behind(flying'[a].rows, status)
    BY <2>4 DEF Ordered
  <2>7. \A a \in 1 .. Len(flying') : ~ flying'[a].late => Behind(Shown, flying'[a].rows)
    BY <2>4 DEF Ordered
  <2>8. Behind(Shown, status)
    BY DEF Ordered
  <2> QED
    BY <2>1, <2>3, <2>5, <2>6, <2>7, <2>8 DEF Ordered
<1>8. CASE UNCHANGED vars
  BY <1>8 DEF vars, page, Ordered, Shown
<1> QED
  BY <1>1, <1>2, <1>4, <1>5, <1>6, <1>7, <1>8, StepKinds

\* Lists become late from the oldest on, and miss a change all together.
LEMMA MarksKept == Inv /\ [Next]_vars => Marked'
<1> SUFFICES ASSUME TypeOK, Marked, [Next]_vars PROVE Marked'
  BY DEF Inv
<1>0. Len(flying) \in Nat
  BY DEF TypeOK
<1>1. ASSUME NEW j \in Jobs, RowStep(j) PROVE Marked'
  BY <1>1, RowStepDoes DEF Marked
<1>2. ASSUME NEW j \in Jobs, ChangeElsewhere(j) PROVE Marked'
  BY <1>2, ChangeDoes DEF Marked, AllMissed
<1>3. ASSUME NEW via \in {"stream", "answer"}, Sent(via) PROVE Marked'
  <2> DEFINE n == Len(flying)
             m == n + 1
  <2>1. (\A i : i \in 1 .. m <=> i \in 1 .. n \/ i = m)
        /\ \A i \in 1 .. n : ~ (m < i) /\ ~ (m < m)
    BY <1>0
  <2>2. Len(flying') = m /\ (\A a \in 1 .. n : flying'[a] = flying[a])
        /\ flying'[m].late = FALSE /\ flying'[m].missed = FALSE
    BY <1>3 DEF Sent, New
  <2> HIDE DEF m
  <2> QED
    BY <1>0, <2>1, <2>2 DEF Marked
<1>4. CASE Read
  BY <1>3, <1>4, SendSends DEF Read
<1>5. CASE Poll
  BY <1>3, <1>5, SendSends DEF Poll
<1>6. ASSUME NEW k \in 1 .. Len(flying), SetJobs(k) PROVE Marked'
  <2> DEFINE n == Len(flying) - 1
  <2>1. Arrived(k)
    BY <1>6, SetJobsDoes
  <2>2. /\ \A a \in 1 .. n : Before(k, a) \in 1 .. Len(flying) /\ Before(k, a) # k
        /\ \A a, b \in 1 .. n : a < b => Before(k, a) < Before(k, b)
    BY BeforeIsOrdered
  <2>3. ASSUME NEW a \in 1 .. n, NEW b \in 1 .. n, a < b
        PROVE  /\ flying'[b].late => flying'[a].late
               /\ flying'[b].missed => flying'[a].missed
    <3>1. b < k => a < k
      BY <1>0, <2>3
    <3> QED
      BY <2>1, <2>2, <2>3, <3>1 DEF Marked, Arrived
  <2> QED
    BY <2>1, <2>3 DEF Marked, Arrived
<1>7. CASE DropStep
  <2>1. PICK at : Picks("stream", flying, Len(flying), flying', at)
    BY <1>7, DropDoes DEF Thinned
  <2> QED
    BY <2>1 DEF Marked, Picks
<1>8. CASE UNCHANGED vars
  BY <1>8 DEF vars, Marked
<1> QED
  BY <1>1, <1>2, <1>4, <1>5, <1>6, <1>7, <1>8, StepKinds

-----------------------------------------------------------------------------
(* What the page will know *)

\* A change is not behind the back of the page if it asks afterwards, or if the job was
\* not over before.
LEMMA RowStepTells ==
    ASSUME TypeOK, NEW j \in Jobs, RowStep(j)
    PROVE  asking' > 0 \/ \A r : Agree(r, status) => Agree(r, status')
<1> USE DEF TypeOK
<1>1. CASE Upload(j) \/ Cancel(j)
  BY <1>1, BoundsAssumption DEF Upload, Cancel
<1>2. CASE Move(j)
  <2>1. ~ Over(status[j]) /\ \A i \in Jobs : i # j => status'[i] = status[i]
    BY <1>2 DEF Move, Write, Over, Rows
  <2> QED
    BY <2>1 DEF Agree
<1> QED
  BY <1>1, <1>2 DEF RowStep

\* Rows agree with themselves.
LEMMA AgreeIsReflexive == \A r : Agree(r, r)
  BY DEF Agree

\* What is picked is in the order it was in.
LEMMA PicksIsOrdered ==
    ASSUME NEW via, NEW q, NEW r, Len(q) \in Nat, Len(r) \in Nat,
           NEW at, Picks(via, q, Len(q), r, at),
           NEW a \in 1 .. Len(r), NEW b \in 1 .. Len(r), at[a] < at[b]
    PROVE  a < b
<1>1. at[a] \in Int /\ at[b] \in Int
  BY DEF Picks
<1>2. b < a => at[b] < at[a]
  BY DEF Picks
<1>3. a = b \/ b < a \/ a < b
  OBVIOUS
<1> QED
  BY <1>1, <1>2, <1>3

\* A request of the page is followed by a refresh, whose answer no stream takes along.
LEMMA AnsweredKept == Inv /\ [Next]_vars => Answered'
<1> SUFFICES ASSUME TypeOK, Marked, Answered, [Next]_vars PROVE Answered'
  BY DEF Inv
<1>0. Len(flying) \in Nat /\ asking \in Nat
  BY BoundsAssumption DEF TypeOK
<1>1. ASSUME NEW j \in Jobs, RowStep(j) PROVE Answered'
  <2>1. UNCHANGED flying /\ (asking > 0 => asking' > 0)
    BY <1>0, <1>1, RowStepDoes, BoundsAssumption
  <2>2. CASE asking' > 0
    BY <2>2 DEF Answered
  <2>3. CASE \A r : Agree(r, status) => Agree(r, status')
    BY <2>1, <2>3 DEF Answered, Good, GoodAnswer
  <2> QED
    BY <1>1, <2>2, <2>3, RowStepTells
<1>2. ASSUME NEW j \in Jobs, ChangeElsewhere(j) PROVE Answered'
  BY <1>2, ChangeDoes DEF Answered, AllMissed, Good
<1>3. ASSUME NEW via \in {"stream", "answer"}, Sent(via), UNCHANGED status,
             via = "answer" \/ asking' = asking
      PROVE  Answered'
  <2> DEFINE n == Len(flying)
  <2>0. PICK m : m = n + 1
    OBVIOUS
  <2>1. m \in 1 .. m /\ (\A i : i \in 1 .. m <=> i \in 1 .. n \/ i = m)
        /\ \A i \in 1 .. n : i < m
    BY <1>0, <2>0
  <2>2. Len(flying') = m /\ (\A a \in 1 .. n : flying'[a] = flying[a])
        /\ flying'[m].via = via /\ flying'[m].rows = status
    BY <1>3, <2>0 DEF Sent, New
  <2>3. Good(flying'[m], status') /\ status' = status
    BY <1>3, <2>2, AgreeIsReflexive DEF Good
  <2>4. ASSUME NEW a \in 1 .. m, ~ flying'[a].late
        PROVE  \/ Good(flying'[a], status') \/ asking' > 0
               \/ \E b \in 1 .. m : a < b /\ GoodAnswer(flying'[b], status')
    <3>1. CASE a = m
      BY <2>3, <3>1
    <3>2. CASE a \in 1 .. n /\ via = "answer"
      BY <2>1, <2>2, <2>3, <3>2 DEF GoodAnswer
    <3>3. CASE a \in 1 .. n /\ asking' = asking
      <4>1. \/ Good(flying[a], status) \/ asking > 0
            \/ \E b \in 1 .. n : a < b /\ GoodAnswer(flying[b], status)
        BY <2>2, <2>4, <3>3 DEF Answered
      <4> QED
        BY <2>1, <2>2, <2>3, <3>3, <4>1
    <3> QED
      BY <1>3, <2>1, <3>1, <3>2, <3>3
  <2> QED
    BY <2>2, <2>4 DEF Answered
<1>4. CASE Read
  BY <1>3, <1>4, SendSends DEF Read
<1>5. CASE Poll
  BY <1>3, <1>5, SendSends DEF Poll
<1>6. ASSUME NEW k \in 1 .. Len(flying), SetJobs(k) PROVE Answered'
  <2>0. PICK n : n = Len(flying) - 1
    OBVIOUS
  <2>1. Arrived(k) /\ UNCHANGED <<status, asking>>
    BY <1>6, SetJobsDoes
  <2>2. /\ \A a \in 1 .. n : Before(k, a) \in 1 .. Len(flying) /\ Before(k, a) # k
        /\ \A a, b \in 1 .. n : a < b <=> Before(k, a) < Before(k, b)
        /\ \A a \in 1 .. n : a < k <=> Before(k, a) < k
        /\ \A i \in 1 .. Len(flying) : i # k => \E a \in 1 .. n : Before(k, a) = i
    BY <2>0, BeforeIsOrdered
  <2>3. \A a \in 1 .. n :
          /\ Good(flying'[a], status') <=> Good(flying[Before(k, a)], status)
          /\ GoodAnswer(flying'[a], status') <=> GoodAnswer(flying[Before(k, a)], status)
    BY <2>0, <2>1 DEF Arrived, Was, Good, GoodAnswer
  <2>4. ASSUME NEW a \in 1 .. n, ~ flying'[a].late
        PROVE  \/ Good(flying'[a], status') \/ asking' > 0
               \/ \E b \in 1 .. n : a < b /\ GoodAnswer(flying'[b], status')
    <3>1. PICK i \in 1 .. Len(flying) : i = Before(k, a)
      BY <2>2
    <3>2. ~ flying[i].late /\ k < i
      <4>1. ~ (a < k) /\ ~ flying[i].late
        BY <2>0, <2>1, <2>4, <3>1 DEF Arrived
      <4> QED
        BY <1>0, <2>2, <3>1, <4>1
    <3>3. CASE \E j \in 1 .. Len(flying) : i < j /\ GoodAnswer(flying[j], status)
      <4>1. PICK j \in 1 .. Len(flying) : i < j /\ GoodAnswer(flying[j], status)
        BY <3>3
      <4>2. j # k
        BY <1>0, <3>2, <4>1
      <4>3. PICK b \in 1 .. n : Before(k, b) = j
        BY <2>2, <4>2
      <4> QED
        BY <2>2, <2>3, <3>1, <4>1, <4>3
    <3>4. CASE Good(flying[i], status) \/ asking > 0
      BY <2>1, <2>3, <3>1, <3>4
    <3> QED
      BY <3>2, <3>3, <3>4 DEF Answered
  <2>5. Len(flying') = n
    BY <2>0, <2>1 DEF Arrived
  <2> QED
    BY <2>4, <2>5 DEF Answered
<1>7. CASE DropStep
  <2>1. Thinned /\ UNCHANGED <<status, asking>>
    BY <1>7, DropDoes
  <2>2. PICK at : Picks("stream", flying, Len(flying), flying', at)
    BY <2>1 DEF Thinned
  <2>3. Len(flying') \in Nat
    BY <2>1 DEF Thinned
  <2>4. ASSUME NEW a \in 1 .. Len(flying'), ~ flying'[a].late
        PROVE  \/ Good(flying'[a], status') \/ asking' > 0
               \/ \E b \in 1 .. Len(flying') : a < b /\ GoodAnswer(flying'[b], status')
    <3>1. at[a] \in 1 .. Len(flying) /\ flying'[a] = flying[at[a]]
      BY <2>2 DEF Picks
    <3>2. CASE \E j \in 1 .. Len(flying) : at[a] < j /\ GoodAnswer(flying[j], status)
      <4>1. PICK j \in 1 .. Len(flying) : at[a] < j /\ GoodAnswer(flying[j], status)
        BY <3>2
      <4>2. PICK b \in 1 .. Len(flying') : at[b] = j
        BY <2>2, <4>1 DEF Picks, GoodAnswer
      <4>3. a < b
        BY <1>0, <2>2, <2>3, <4>1, <4>2, PicksIsOrdered
      <4>4. flying'[b] = flying[j]
        BY <2>2, <4>2 DEF Picks
      <4> QED
        BY <2>1, <4>1, <4>3, <4>4
    <3>3. CASE Good(flying[at[a]], status) \/ asking > 0
      BY <2>1, <3>1, <3>3
    <3> QED
      BY <2>4, <3>1, <3>2, <3>3 DEF Answered
  <2> QED
    BY <2>4 DEF Answered
<1>8. CASE UNCHANGED vars
  BY <1>8 DEF vars, Answered
<1> QED
  BY <1>1, <1>2, <1>4, <1>5, <1>6, <1>7, <1>8, StepKinds

\* What arrives holds, is followed by what holds, or muddles the page.
LEMMA ShownKept == Inv /\ [Next]_vars => ShownHolds'
<1> SUFFICES ASSUME TypeOK, Marked, Answered, ShownHolds, [Next]_vars PROVE ShownHolds'
  BY DEF Inv
<1>0. Len(flying) \in Nat /\ asking \in Nat
  BY BoundsAssumption DEF TypeOK
<1>1. ASSUME NEW j \in Jobs, RowStep(j) PROVE ShownHolds'
  <2>1. UNCHANGED <<flying, list, muddled, elsewhere>> /\ (asking > 0 => asking' > 0)
    BY <1>0, <1>1, RowStepDoes, BoundsAssumption
  <2>2. CASE asking' > 0
    BY <2>2 DEF ShownHolds, Promised
  <2>3. CASE \A r : Agree(r, status) => Agree(r, status')
    BY <2>1, <2>3 DEF ShownHolds, Promised, MayPass, Good, GoodAnswer
  <2> QED
    BY <1>1, <2>2, <2>3, RowStepTells
<1>2. ASSUME NEW j \in Jobs, ChangeElsewhere(j) PROVE ShownHolds'
  BY <1>2, ChangeDoes DEF ShownHolds, AllMissed, MayPass
<1>3. ASSUME NEW via \in {"stream", "answer"}, Sent(via),
             UNCHANGED <<status, list, muddled, elsewhere>>,
             via = "answer" \/ asking' = asking
      PROVE  ShownHolds'
  <2> DEFINE n == Len(flying)
  <2>0. PICK m : m = n + 1
    OBVIOUS
  <2>1. m \in 1 .. m /\ (\A i : i \in 1 .. m <=> i \in 1 .. n \/ i = m)
    BY <1>0, <2>0
  <2>2. Len(flying') = m /\ (\A a \in 1 .. n : flying'[a] = flying[a])
        /\ flying'[m].via = via /\ flying'[m].rows = status /\ flying'[m].late = FALSE
    BY <1>3, <2>0 DEF Sent, New
  <2>3. CASE via = "answer"
    <3>1. ~ flying'[m].late /\ GoodAnswer(flying'[m], status')
      BY <1>3, <2>2, <2>3, AgreeIsReflexive DEF GoodAnswer, Good
    <3>2. Promised'
      BY <2>1, <2>2, <3>1 DEF Promised
    <3> QED
      BY <3>2 DEF ShownHolds
  <2>4. CASE asking' = asking
    <3>1. Promised => Promised'
      BY <1>3, <2>1, <2>2, <2>4 DEF Promised
    <3>2. ASSUME NEW a \in 1 .. m, MayPass(a)' PROVE a \in 1 .. n /\ MayPass(a)
      BY <1>3, <2>1, <2>2, <3>2 DEF MayPass
    <3> QED
      BY <1>3, <2>2, <3>1, <3>2 DEF ShownHolds
  <2> QED
    BY <1>3, <2>3, <2>4
<1>4. CASE Read
  BY <1>3, <1>4, SendSends DEF Read, page, history
<1>5. CASE Poll
  BY <1>3, <1>5, SendSends DEF Poll, page, history
<1>6. ASSUME NEW k \in 1 .. Len(flying), SetJobs(k) PROVE ShownHolds'
  <2>0. PICK n : n = Len(flying) - 1
    OBVIOUS
  <2>1. /\ Arrived(k) /\ flying[k] \in Lists /\ list' = flying[k].rows
        /\ muddled' = (flying[k].late /\ (muddled \/ flying[k].rows # list))
        /\ elsewhere' = flying[k].missed
        /\ UNCHANGED <<status, asking>>
    BY <1>6, SetJobsDoes
  <2>2. /\ \A a \in 1 .. n : Before(k, a) \in 1 .. Len(flying) /\ Before(k, a) # k
        /\ \A a \in 1 .. n : a < k <=> Before(k, a) < k
        /\ \A i \in 1 .. Len(flying) : i # k => \E a \in 1 .. n : Before(k, a) = i
    BY <2>0, BeforeIsOrdered
  <2>3. \A a \in 1 .. n :
          /\ GoodAnswer(flying'[a], status') <=> GoodAnswer(flying[Before(k, a)], status)
          /\ flying'[a].late = (a < k \/ flying[Before(k, a)].late)
    BY <2>0, <2>1 DEF Arrived, Was, Good, GoodAnswer
  <2>4. Len(flying') = n
    BY <2>0, <2>1 DEF Arrived
  \* An answer that is to come after this list is still to come.
  <2>5. ASSUME NEW b \in 1 .. Len(flying), k < b, ~ flying[b].late,
               GoodAnswer(flying[b], status)
        PROVE  Promised'
    <3>1. b # k /\ ~ (b < k)
      BY <1>0, <2>5
    <3>2. PICK a \in 1 .. n : Before(k, a) = b
      BY <2>2, <3>1
    <3>3. ~ flying'[a].late /\ GoodAnswer(flying'[a], status')
      BY <2>2, <2>3, <2>5, <3>1, <3>2
    <3> QED
      BY <2>4, <3>2, <3>3 DEF Promised
  <2>6. ASSUME NEW a \in 1 .. n, MayPass(a)'
        PROVE  \E i \in 1 .. Len(flying) :
                  /\ i = Before(k, a) /\ i # k
                  /\ ~ flying[i].missed /\ flying[i].rows = list'
                  /\ i < k \/ flying[i].late
    BY <2>0, <2>1, <2>2, <2>3, <2>6 DEF MayPass, Arrived, Was
  <2> SUFFICES ASSUME ~ muddled', ~ elsewhere' \/ \E a \in 1 .. n : MayPass(a)'
               PROVE  Promised'
    BY <2>4 DEF ShownHolds
  <2>7. CASE flying[k].late
    <3>1. ~ muddled /\ list' = list
      BY <2>1, <2>7
    <3>2. Promised
      <4>1. CASE ~ elsewhere'
        BY <2>1, <2>7, <3>1, <4>1 DEF ShownHolds, MayPass
      <4>2. CASE \E a \in 1 .. n : MayPass(a)'
        <5>1. PICK i \in 1 .. Len(flying) :
                 ~ flying[i].missed /\ flying[i].rows = list /\ (i < k \/ flying[i].late)
          BY <2>6, <3>1, <4>2
        <5>2. flying[i].late
          BY <2>7, <5>1 DEF Marked
        <5> QED
          BY <3>1, <5>1, <5>2 DEF ShownHolds, MayPass
      <4> QED
        BY <4>1, <4>2
    <3>3. CASE \E b \in 1 .. Len(flying) : ~ flying[b].late /\ GoodAnswer(flying[b], status)
      <4>1. PICK b \in 1 .. Len(flying) : ~ flying[b].late /\ GoodAnswer(flying[b], status)
        BY <3>3
      <4>2. ~ (b < k) /\ b # k
        BY <2>7, <4>1 DEF Marked
      <4>3. k < b
        BY <1>0, <4>2
      <4> QED
        BY <2>5, <4>1, <4>3
    <3>4. CASE (list # NoList /\ Agree(list, status)) \/ asking > 0
      BY <2>1, <3>1, <3>4 DEF Promised
    <3> QED
      BY <3>2, <3>3, <3>4 DEF Promised
  <2>8. CASE ~ flying[k].late
    <3>1. CASE asking > 0
      BY <2>1, <3>1 DEF Promised
    <3>2. CASE Agree(flying[k].rows, status)
      BY <2>1, <3>2, NoListAssumption DEF Promised, Lists
    <3>3. CASE flying[k].missed
      <4>1. PICK a \in 1 .. n : MayPass(a)'
        BY <2>1, <3>3
      <4>2. PICK i \in 1 .. Len(flying) :
               i # k /\ ~ flying[i].missed /\ (i < k \/ flying[i].late)
        BY <2>6, <4>1
      <4>3. CASE i < k
        BY <3>3, <4>2, <4>3 DEF Marked
      <4>4. CASE k < i
        BY <1>0, <2>8, <4>2, <4>4 DEF Marked
      <4> QED
        BY <1>0, <4>2, <4>3, <4>4
    <3>4. CASE \E b \in 1 .. Len(flying) : k < b /\ GoodAnswer(flying[b], status)
      <4>1. PICK b \in 1 .. Len(flying) : k < b /\ GoodAnswer(flying[b], status)
        BY <3>4
      <4>2. ~ flying[b].late
        BY <2>8, <4>1 DEF Marked
      <4> QED
        BY <2>5, <4>1, <4>2
    <3> QED
      BY <2>8, <3>1, <3>2, <3>3, <3>4 DEF Answered, Good
  <2> QED
    BY <2>7, <2>8
<1>7. CASE DropStep
  <2>1. Thinned /\ UNCHANGED <<status, list, asking, muddled, elsewhere>>
    BY <1>7, DropDoes
  <2>2. PICK at : Picks("stream", flying, Len(flying), flying', at)
    BY <2>1 DEF Thinned
  <2>3. \A a \in 1 .. Len(flying') : at[a] \in 1 .. Len(flying) /\ flying'[a] = flying[at[a]]
    BY <2>2 DEF Picks
  <2>4. \A a \in 1 .. Len(flying') : MayPass(a)' => MayPass(at[a])
    BY <2>1, <2>3 DEF MayPass
  <2>5. ASSUME NEW b \in 1 .. Len(flying), ~ flying[b].late, GoodAnswer(flying[b], status)
        PROVE  Promised'
    <3>1. PICK a \in 1 .. Len(flying') : at[a] = b
      BY <2>2, <2>5 DEF Picks, GoodAnswer
    <3> QED
      BY <2>1, <2>3, <2>5, <3>1 DEF Promised
  <2>6. Promised => Promised'
    BY <2>1, <2>5 DEF Promised
  <2> QED
    BY <2>1, <2>3, <2>4, <2>6 DEF ShownHolds
<1>8. CASE UNCHANGED vars
  BY <1>8 DEF vars, page, history, ShownHolds, Promised, MayPass
<1> QED
  BY <1>1, <1>2, <1>4, <1>5, <1>6, <1>7, <1>8, StepKinds

-----------------------------------------------------------------------------
(* The stream *)

\* Nothing is pending when everything is over.
LEMMA NothingPending ==
    ASSUME NEW rows
    PROVE  Pending(rows) = 0 <=> \A j \in Jobs : Over(rows[j])
<1> DEFINE P == {j \in Jobs : rows[j] \notin Life!Final \union {"absent"}}
<1>1. P \subseteq Jobs
  OBVIOUS
<1>2. P = {} <=> \A j \in Jobs : Over(rows[j])
  BY DEF Over
<1> HIDE DEF P
<1>3. IsFiniteSet(P)
  BY <1>1, JobsAssumption, FS_Subset
<1>4. Cardinality(P) = 0 <=> P = {}
  BY <1>3, FS_EmptySet
<1> QED
  BY <1>2, <1>4 DEF P, Pending

\* A write never makes the rows what the stream has sent already, if nothing is pending
\* then: the last write is of a final status, with a new finished_at.
LEMMA WriteIsNews ==
    ASSUME TypeOK, NEW j \in Jobs, NEW S, Write(j, S), Pending(status') = 0
    PROVE  sent' # status'
<1>1. PICK s \in S \intersect Seen :
         /\ status' = [status EXCEPT ![j] = s]
         /\ sent' = IF s \in Life!Final /\ sent # NoList THEN [sent EXCEPT ![j] = "absent"]
                    ELSE sent
  BY DEF Write
<1>2. status' \in Rows /\ status'[j] = s
  BY <1>1 DEF TypeOK, Rows
<1>3. s \in Life!Final
  BY <1>1, <1>2, NothingPending, SeenAssumption DEF Over
<1>4. CASE sent = NoList
  BY <1>1, <1>2, <1>4, NoListAssumption
<1>5. CASE sent # NoList
  <2>1. sent' = [sent EXCEPT ![j] = "absent"]
    BY <1>1, <1>3, <1>5
  <2>2. sent'[j] = "absent"
    BY <1>5, <2>1 DEF TypeOK, Rows
  <2>3. s # "absent"
    BY <1>3 DEF Life!Final
  <2> QED
    BY <1>2, <2>2, <2>3
<1> QED
  BY <1>4, <1>5

\* The stream ends with an event that nothing is pending, which arrives or is cut off.
LEMMA StreamingKept == Inv /\ [Next]_vars => Streaming'
<1> SUFFICES ASSUME TypeOK, Streaming, [Next]_vars PROVE Streaming'
  BY DEF Inv
<1>0. Len(flying) \in Nat /\ watched \in Nat /\ Pending(list) \in Nat
  BY JobsAssumption, FS_CardinalityType, PendingIsBounded DEF TypeOK
<1>1. ASSUME NEW j \in Jobs, RowStep(j) PROVE Streaming'
  <2>1. UNCHANGED <<flying, list, watched, stream, server, cut>>
    BY <1>1, RowStepDoes
  <2>2. Pending(status') = 0 => sent' # status'
    BY <1>1, WriteIsNews DEF RowStep, Move, Upload, Cancel
  <2> QED
    BY <2>1, <2>2 DEF Streaming, Pending
<1>2. ASSUME NEW j \in Jobs, ChangeElsewhere(j) PROVE Streaming'
  <2>1. AllMissed /\ UNCHANGED <<list, watched, stream, server, cut>>
    BY <1>2, ChangeDoes
  <2>2. Pending(status') = 0 => sent' # status'
    BY <1>2, WriteIsNews DEF ChangeElsewhere
  <2>3. Len(flying') = Len(flying) /\ \A a \in 1 .. Len(flying) :
           flying'[a].via = flying[a].via /\ flying'[a].rows = flying[a].rows
    BY <2>1 DEF AllMissed, Was
  <2> QED
    BY <2>1, <2>2, <2>3 DEF Streaming, Pending
<1>3. CASE Read
  <2>1. Sent("answer")
    BY <1>3, SendSends DEF Read
  <2>2. \A a \in 1 .. Len(flying) : a \in 1 .. Len(flying') /\ flying'[a] = flying[a]
    BY <1>0, <2>1 DEF Sent
  <2> QED
    BY <1>3, <2>2 DEF Read, page, source, history, Streaming, Pending
<1>4. CASE Poll
  <2>1. Sent("stream")
    BY <1>4, SendSends DEF Poll
  <2>2. PICK m : m = Len(flying) + 1
    OBVIOUS
  <2>3. m \in 1 .. Len(flying') /\ flying'[m].via = "stream" /\ flying'[m].rows = status
    BY <1>0, <2>1, <2>2 DEF Sent, New
  <2>4. UNCHANGED <<status, list, watched, stream, cut>>
    BY <1>4 DEF Poll, page, history
  <2>5. CASE Pending(status) = 0
    BY <1>4, <2>3, <2>4, <2>5 DEF Poll, Streaming, Pending
  <2>6. CASE Pending(status) # 0
    BY <1>4, <2>4, <2>6 DEF Poll, Streaming, Pending
  <2> QED
    BY <2>5, <2>6
<1>5. ASSUME NEW k \in 1 .. Len(flying), SetJobs(k) PROVE Streaming'
  <2>0. PICK n : n = Len(flying) - 1
    OBVIOUS
  <2>1. /\ Arrived(k) /\ flying[k] \in Lists /\ list' = flying[k].rows
        /\ cut' = (cut \/ (list # NoList /\ Pending(list) # watched))
        /\ UNCHANGED <<status, watched, stream, server, sent>>
    BY <1>5, SetJobsDoes
  <2>2. list' # NoList
    BY <2>1, NoListAssumption DEF Lists
  <2>3. ASSUME list # NoList, Pending(list) = 0, watched > 0 PROVE cut'
    <3>1. Pending(list) # watched
      BY <1>0, <2>3
    <3> QED
      BY <2>1, <2>3, <3>1, Zenon
  <2>4. stream = "none" /\ watched > 0 => cut'
    BY <2>1, <2>3 DEF Streaming
  <2>5. ASSUME server = "ended", ~ cut'
        PROVE  \/ Pending(list') = 0
               \/ \E a \in 1 .. n : flying'[a].via = "stream" /\ Pending(flying'[a].rows) = 0
    <3>1. watched > 0
      BY <2>5 DEF TypeOK, Streaming
    <3>2. PICK i \in 1 .. Len(flying) : flying[i].via = "stream" /\ Pending(flying[i].rows) = 0
      BY <2>1, <2>3, <2>5, <3>1 DEF Streaming
    <3>3. CASE i = k
      BY <2>1, <3>2, <3>3
    <3>4. CASE i # k
      <4>1. PICK a \in 1 .. n : Before(k, a) = i
        BY <2>0, <3>4, BeforeIsOrdered
      <4>2. flying'[a].via = flying[i].via /\ flying'[a].rows = flying[i].rows
        BY <2>0, <2>1, <4>1 DEF Arrived, Was
      <4> QED
        BY <3>2, <4>2
    <3> QED
      BY <3>3, <3>4
  <2>6. Len(flying') = n
    BY <2>0, <2>1 DEF Arrived
  <2> QED
    BY <2>1, <2>2, <2>4, <2>5, <2>6 DEF Streaming, Pending
<1>6. CASE Render
  <2>1. Pending(list) > 0 <=> Pending(list) # 0
    BY <1>0
  <2> QED
    BY <1>6, <2>1, NoListAssumption DEF Render, Streaming, TypeOK, Pending
<1>7. CASE StreamEnds
  <2>1. \A a \in 1 .. Len(flying) : flying[a].via # "stream"
    <3>1. Selects(Lists, "stream", flying, Len(flying), flying)
      BY <1>7, WithoutSelects DEF StreamEnds, TypeOK
    <3>2. PICK at : Picks("stream", flying, Len(flying), flying, at)
      BY <3>1 DEF Selects
    <3> QED
      BY <3>2 DEF Picks
  <2>2. watched > 0 /\ ~ cut => list # NoList /\ Pending(list) = 0
    BY <1>7, <2>1 DEF StreamEnds, Streaming
  <2> QED
    BY <1>7, <2>2 DEF StreamEnds, Close, page, Streaming, Pending
<1>8. CASE StreamBreaks
  BY <1>8 DEF StreamBreaks, Close, Streaming
<1>9. CASE UNCHANGED vars
  BY <1>9 DEF vars, page, source, history, Streaming, Pending
<1> QED
  BY <1>1, <1>2, <1>3, <1>4, <1>5, <1>6, <1>7, <1>8, <1>9, StepKinds DEF DropStep

\* The invariant, for any constants.
THEOREM PageInvariant == Spec => []Inv
<1>1. Inv /\ [Next]_vars => Inv'
  BY TypesKept, OrderKept, MarksKept, AnsweredKept, ShownKept, StreamingKept DEF Inv
<1> QED
  BY InitInv, <1>1, PTL DEF Spec

-----------------------------------------------------------------------------
(* Theorems *)

\* The variables keep their types; in particular the page has a stream exactly when
\* job_list_events serves one.
THEOREM PageTypeCorrect == Spec => []TypeOK
<1>1. Inv => TypeOK
  BY DEF Inv
<1> QED
  BY PageInvariant, <1>1, PTL

\* Answers and events overtake each other, but only a list that was overtaken takes a
\* job back in JobsPage.tsx.
THEOREM PageGoesForward == Spec => ShownGoesForward
<1>1. Inv /\ [Next]_vars =>
        [~muddled' => \A j \in Jobs : Life!Phase(Shown'[j]) >= Life!Phase(Shown[j])]_vars
  <2> SUFFICES ASSUME Inv, [Next]_vars, ~ muddled', NEW j \in Jobs
               PROVE  Life!Phase(Shown'[j]) >= Life!Phase(Shown[j])
    OBVIOUS
  <2>0. TypeOK /\ Ordered
    BY DEF Inv
  <2>1. Behind(Shown, Shown')
    <3>1. CASE UNCHANGED list
      BY <3>1, BehindIsReflexive DEF Shown
    <3>2. ASSUME NEW k \in 1 .. Len(flying), SetJobs(k) PROVE Behind(Shown, Shown')
      <4>1. /\ flying[k] \in Lists /\ list' = flying[k].rows
            /\ muddled' = (flying[k].late /\ (muddled \/ flying[k].rows # list))
        BY <2>0, <3>2, SetJobsDoes
      <4>2. CASE flying[k].late
        BY <3>1, <4>1, <4>2
      <4>3. CASE ~ flying[k].late
        <5>1. Shown' = flying[k].rows
          BY <4>1, NoListAssumption DEF Shown, Lists
        <5> QED
          BY <2>0, <4>3, <5>1 DEF Ordered
      <4> QED
        BY <4>2, <4>3
    <3>3. ASSUME NEW i \in Jobs, RowStep(i) PROVE UNCHANGED list
      BY <2>0, <3>3, RowStepDoes
    <3>4. ASSUME NEW i \in Jobs, ChangeElsewhere(i) PROVE UNCHANGED list
      BY <2>0, <3>4, ChangeDoes
    <3>5. DropStep => UNCHANGED list
      BY <2>0, DropDoes
    <3>6. Read \/ Poll \/ UNCHANGED vars => UNCHANGED list
      BY DEF Read, Poll, vars, page
    <3> QED
      BY <2>0, <3>1, <3>2, <3>3, <3>4, <3>5, <3>6, StepKinds
  <2>2. \A r : Life!Phase(r) \in Int
    BY DEF Life!Phase
  <2>3. Life!Phase(Shown[j]) <= Life!Phase(Shown'[j])
    BY <2>1 DEF Behind
  <2> HIDE DEF Life!Phase
  <2> QED
    BY <2>2, <2>3
<1> QED
  BY PageInvariant, <1>1, PTL DEF Spec, ShownGoesForward

\* Nothing is left that the page, the server or the network would do by themselves: no
\* request to read, no event to send, no list to arrive, no stream to end, no render.
Quiet ==
    /\ asking = 0 /\ flying = << >>
    /\ server # "ended"
    /\ server = "polling" => sent = status
    /\ list # NoList /\ Pending(list) = watched

\* When all is quiet and every job over, the page shows the rows, except as Excused says.
\* The exceptions are real: a page whose stream broke keeps its last list, which is what
\* DroppedStreamReconnects denies and TLC refutes.
QuietIsRight == Quiet /\ Pending(status) = 0 => list = status \/ Excused

\* However refreshes, events, renders and breaking streams of JobsPage.tsx mix with the
\* jobs' changes, the page is right in the end, or excused.
THEOREM QuietPageIsRight == Spec => []QuietIsRight
<1>1. Inv => QuietIsRight
  <2> SUFFICES ASSUME TypeOK, ShownHolds, Streaming, Quiet, Pending(status) = 0, ~ Excused
               PROVE  list = status
    BY DEF Inv, QuietIsRight
  <2>1. Shown = list /\ list \in Rows /\ status \in Rows
    BY DEF Quiet, Shown, TypeOK
  <2>2. server = "off" /\ stream = "none"
    BY DEF Quiet, Streaming, TypeOK
  <2>3. ~ muddled /\ ~ elsewhere
    BY <2>2 DEF Excused
  <2>4. Len(flying) = 0
    BY EmptySeq DEF Quiet
  <2>5. Agree(list, status)
    BY <2>3, <2>4 DEF ShownHolds, Promised, Quiet
  <2>6. Pending(list) = 0
    <3>1. Pending(list) \in Nat
      BY JobsAssumption, FS_CardinalityType, PendingIsBounded
    <3>2. SUFFICES ASSUME Pending(list) > 0 PROVE FALSE
      BY <3>1
    <3>3. ~ cut
      BY <2>1, <3>2 DEF Excused
    <3> QED
      BY <2>2, <3>2, <3>3 DEF Streaming, Quiet
  <2>7. \A j \in Jobs : status[j] = list[j]
    BY <2>5, <2>6, NothingPending DEF Agree
  <2> QED
    BY <2>1, <2>7 DEF Rows
<1> QED
  BY PageInvariant, <1>1, PTL

=============================================================================
