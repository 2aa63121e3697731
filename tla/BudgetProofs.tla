---------------------------- MODULE BudgetProofs -----------------------------
(***************************************************************************)
(* Proofs about Budget, for transcripts, budgets and prompts of any size:  *)
(* the parts hold every segment once and in order, none but a part of one  *)
(* segment exceeds the budget, no request exceeds the context, and no      *)
(* other way of cutting needs fewer parts.                                 *)
(*                                                                         *)
(* The invariant is Inv.  A part is a tile, the numbers from one segment   *)
(* to another: each closed part begins where the one before ends, and what *)
(* the loop has in hand begins where the last closed part ends.  The       *)
(* greedy argument is Ahead: up to the last closed part, any other way of  *)
(* cutting has made at least as many cuts.                                 *)
(***************************************************************************)
EXTENDS Budget, Induction, SequenceTheorems, TLAPS

-----------------------------------------------------------------------------
(* Sums *)

\* The partial sums that SumOver goes through.
Sums(f, part) ==
    CHOOSE sum : sum = [k \in 0 .. Len(part) |-> IF k = 0 THEN 0 ELSE sum[k - 1] + f[part[k]]]

\* They satisfy the recursion.
Adds(f, part) ==
    /\ Sums(f, part)[0] = 0
    /\ \A k \in 1 .. Len(part) : Sums(f, part)[k] = Sums(f, part)[k - 1] + f[part[k]]
    /\ \A k \in 0 .. Len(part) : Sums(f, part)[k] \in Nat

\* A sum is the last of the partial sums.
LEMMA SumIsLast ==
    ASSUME NEW f, NEW part
    PROVE  SumOver(f, part) = Sums(f, part)[Len(part)]
  BY DEF SumOver, Sums

\* The recursion of SumOver has a solution, whatever it sums.
LEMMA SumsExist ==
    ASSUME NEW S, NEW f \in [S -> Nat], NEW part \in Seq(S)
    PROVE  Adds(f, part)
<1> DEFINE n == Len(part)
           Is(g, m) == g = [k \in 0 .. m |-> IF k = 0 THEN 0 ELSE g[k - 1] + f[part[k]]]
           T == {m \in Nat : \E g : Is(g, m)}
<1>1. n \in Nat
  BY LenProperties
<1>2. 0 \in T
  <2> DEFINE g == [k \in 0 .. 0 |-> 0]
  <2>1. Is(g, 0)
    OBVIOUS
  <2> QED
    BY <2>1
<1>3. ASSUME NEW m \in 0 .. n - 1, m \in T PROVE m + 1 \in T
  <2>1. PICK g : Is(g, m)
    BY <1>3
  <2> DEFINE h == [k \in 0 .. m + 1 |-> IF k <= m THEN g[k] ELSE g[m] + f[part[m + 1]]]
  <2>2. ASSUME NEW k \in 0 .. m + 1
        PROVE  h[k] = IF k = 0 THEN 0 ELSE h[k - 1] + f[part[k]]
    <3>1. CASE k <= m
      BY <1>1, <2>1, <3>1
    <3>2. CASE k = m + 1
      BY <1>1, <3>2
    <3> QED
      BY <1>1, <3>1, <3>2
  <2>3. Is(h, m + 1)
    <3> DEFINE H == [k \in 0 .. m + 1 |-> IF k = 0 THEN 0 ELSE h[k - 1] + f[part[k]]]
    <3>1. h = [k \in 0 .. m + 1 |-> h[k]]
      OBVIOUS
    <3> HIDE DEF h
    <3>2. [k \in 0 .. m + 1 |-> h[k]] = H
      BY <2>2
    <3> QED
      BY <3>1, <3>2
  <2> HIDE DEF h
  <2> QED
    BY <1>1, <2>3
<1>4. \E g : Is(g, n)
  <2> HIDE DEF T
  <2>1. \A m \in 0 .. n : m \in T
    BY <1>1, <1>2, <1>3, UpTo
  <2>2. n \in 0 .. n
    BY <1>1
  <2> QED
    BY <2>1, <2>2 DEF T
<1> DEFINE s == Sums(f, part)
<1>5. Is(s, n)
  BY <1>4 DEF Sums
<1> HIDE DEF s
<1>6. /\ s[0] = 0
      /\ \A k \in 1 .. n : s[k] = s[k - 1] + f[part[k]]
  <2>1. \A k \in 0 .. n : s[k] = IF k = 0 THEN 0 ELSE s[k - 1] + f[part[k]]
    BY <1>5
  <2> QED
    BY <1>1, <2>1
<1>7. \A k \in 0 .. n : s[k] \in Nat
  <2> DEFINE N == {k \in Nat : s[k] \in Nat}
  <2>1. ASSUME NEW k \in 0 .. n - 1, k \in N PROVE k + 1 \in N
    <3>1. k + 1 \in 1 .. n /\ (k + 1) - 1 = k
      BY <1>1
    <3>2. f[part[k + 1]] \in Nat
      BY <3>1, ElementOfSeq
    <3> QED
      BY <1>6, <2>1, <3>1, <3>2
  <2>2. 0 \in N
    BY <1>6
  <2> HIDE DEF N
  <2>3. \A k \in 0 .. n : k \in N
    BY <1>1, <2>1, <2>2, UpTo
  <2> QED
    BY <2>3 DEF N
<1> QED
  BY <1>6, <1>7 DEF s, Adds

\* Natural numbers add up to a natural number.
LEMMA SumIsNatural ==
    ASSUME NEW S, NEW f \in [S -> Nat], NEW part \in Seq(S)
    PROVE  SumOver(f, part) \in Nat
<1>1. Len(part) \in 0 .. Len(part)
  BY LenProperties
<1> QED
  BY <1>1, SumsExist, SumIsLast DEF Adds

\* Nothing adds up to 0.
LEMMA SumOfNothing ==
    ASSUME NEW S, NEW f \in [S -> Nat]
    PROVE  SumOver(f, << >>) = 0
<1>1. << >> \in Seq(S) /\ Len(<< >>) = 0
  BY EmptySeq
<1>2. Sums(f, << >>)[0] = 0
  BY <1>1, SumsExist DEF Adds
<1> QED
  BY <1>1, <1>2, SumIsLast

\* A sum grows by what is appended.
LEMMA SumOfAppend ==
    ASSUME NEW S, NEW f \in [S -> Nat], NEW part \in Seq(S), NEW x \in S
    PROVE  SumOver(f, Append(part, x)) = SumOver(f, part) + f[x]
<1>0. PICK longer : longer = Append(part, x)
  OBVIOUS
<1> DEFINE n == Len(part)
           s == Sums(f, part)
           t == Sums(f, longer)
           T == {k \in Nat : t[k] = s[k]}
<1>1. /\ n \in Nat /\ longer \in Seq(S) /\ Len(longer) = n + 1
      /\ \A k \in 1 .. n : longer[k] = part[k]
      /\ longer[n + 1] = x
  BY <1>0, LenProperties, AppendProperties
<1>2. /\ s[0] = 0 /\ t[0] = 0
      /\ \A k \in 1 .. n : s[k] = s[k - 1] + f[part[k]]
      /\ \A k \in 1 .. n + 1 : t[k] = t[k - 1] + f[longer[k]]
  <2>1. s[0] = 0 /\ \A k \in 1 .. n : s[k] = s[k - 1] + f[part[k]]
    BY SumsExist DEF Adds
  <2>2. t[0] = 0 /\ \A k \in 1 .. Len(longer) : t[k] = t[k - 1] + f[longer[k]]
    <3>1. Adds(f, longer)
      BY <1>1, SumsExist
    <3> QED
      BY <3>1 DEF Adds
  <2> QED
    BY <1>1, <2>1, <2>2
<1> HIDE DEF s, t
<1>3. 0 \in T
  BY <1>2
<1>4. ASSUME NEW k \in 0 .. n - 1, k \in T PROVE k + 1 \in T
  <2>1. k + 1 \in 1 .. n /\ k + 1 \in 1 .. n + 1 /\ (k + 1) - 1 = k
    BY <1>1
  <2> QED
    <3>1. t[k + 1] = t[k] + f[longer[k + 1]] /\ s[k + 1] = s[k] + f[part[k + 1]]
      BY <1>2, <2>1
    <3>2. longer[k + 1] = part[k + 1] /\ t[k] = s[k] /\ k + 1 \in Nat
      BY <1>1, <1>4, <2>1
    <3> QED
      BY <3>1, <3>2
<1>5. t[n] = s[n]
  <2> HIDE DEF T
  <2>1. \A k \in 0 .. n : k \in T
    BY <1>1, <1>3, <1>4, UpTo
  <2>2. n \in 0 .. n
    BY <1>1
  <2> QED
    BY <2>1, <2>2 DEF T
<1>6. t[n + 1] = s[n] + f[x]
  <2>1. n + 1 \in 1 .. n + 1 /\ (n + 1) - 1 = n
    BY <1>1
  <2> QED
    BY <1>1, <1>2, <1>5, <2>1
<1>7. SumOver(f, longer) = t[n + 1] /\ SumOver(f, part) = s[n]
  BY <1>1, SumIsLast DEF s, t
<1> QED
  BY <1>0, <1>6, <1>7

-----------------------------------------------------------------------------
(* Parts of consecutive segments *)

Tile(a, b) == [k \in 1 .. b - a + 1 |-> a + k - 1]

\* A tile is the run of numbers from a to b.
LEMMA TileType ==
    ASSUME NEW n \in Nat, NEW a \in 1 .. n + 1, NEW b \in a - 1 .. n
    PROVE  /\ Tile(a, b) \in Seq(1 .. n)
           /\ Len(Tile(a, b)) = b - a + 1
           /\ \A k \in 1 .. b - a + 1 : Tile(a, b)[k] = a + k - 1
  BY DEF Tile

\* A tile that ends before it starts is empty.
LEMMA TileOfNone ==
    ASSUME NEW a \in Nat \ {0}
    PROVE  Tile(a, a - 1) = << >>
<1>1. a \in 1 .. a + 1 /\ a - 1 \in a - 1 .. a
  OBVIOUS
<1>2. Tile(a, a - 1) \in Seq(1 .. a) /\ Len(Tile(a, a - 1)) = 0
  BY <1>1, TileType
<1> QED
  BY <1>2, EmptySeq

\* One more number at the end of a tile.
LEMMA TileAppend ==
    ASSUME NEW n \in Nat, NEW a \in 1 .. n, NEW b \in a - 1 .. n - 1
    PROVE  Tile(a, b + 1) = Append(Tile(a, b), b + 1)
<1> DEFINE s == Tile(a, b + 1)
           t == Tile(a, b)
<1>1. /\ a \in 1 .. n + 1 /\ b \in a - 1 .. n /\ b + 1 \in a - 1 .. n /\ b + 1 \in 1 .. n
  OBVIOUS
<1>2. /\ s \in Seq(1 .. n) /\ Len(s) = b - a + 2
      /\ \A k \in 1 .. b - a + 2 : s[k] = a + k - 1
  BY <1>1, TileType
<1>3. /\ t \in Seq(1 .. n) /\ Len(t) = b - a + 1
      /\ \A k \in 1 .. b - a + 1 : t[k] = a + k - 1
  BY <1>1, TileType
<1> HIDE DEF s, t
<1>4. PICK x, u : x \in 1 .. n /\ x = b + 1 /\ u = Append(t, x)
  BY <1>1
<1>5. /\ u \in Seq(1 .. n) /\ Len(u) = b - a + 2
      /\ \A k \in 1 .. b - a + 1 : u[k] = t[k]
      /\ u[b - a + 2] = b + 1
  <2>1. /\ u \in Seq(1 .. n) /\ Len(u) = Len(t) + 1
        /\ \A k \in 1 .. Len(t) : u[k] = t[k]
        /\ u[Len(t) + 1] = x
    BY <1>3, <1>4, AppendProperties, Z3
  <2>2. (b - a + 1) + 1 = b - a + 2
    OBVIOUS
  <2> QED
    BY <1>3, <1>4, <2>1, <2>2
<1>6. \A k \in 1 .. b - a + 2 : s[k] = u[k]
  <2> SUFFICES ASSUME NEW k \in 1 .. b - a + 2 PROVE s[k] = u[k]
    OBVIOUS
  <2>1. s[k] = a + k - 1
    BY <1>2
  <2>2. CASE k = b - a + 2
    BY <1>5, <2>1, <2>2
  <2>3. CASE k \in 1 .. b - a + 1
    BY <1>3, <1>5, <2>1, <2>3
  <2> QED
    BY <2>2, <2>3
<1>7. s = u
  BY <1>2, <1>5, <1>6, SeqEqual
<1> QED
  BY <1>4, <1>7 DEF s, t

\* Two tiles that meet are one.
LEMMA TileConcat ==
    ASSUME NEW n \in Nat, NEW a \in 0 .. n, NEW b \in a .. n
    PROVE  Tile(1, a) \o Tile(a + 1, b) = Tile(1, b)
<1> DEFINE s == Tile(1, a)
           t == Tile(a + 1, b)
           w == Tile(1, b)
<1>1. /\ s \in Seq(1 .. n) /\ Len(s) = a
      /\ \A k \in 1 .. a : s[k] = k
  <2>1. 1 \in 1 .. n + 1 /\ a \in 1 - 1 .. n /\ a - 1 + 1 = a /\ \A k \in 1 .. a : 1 + k - 1 = k
    OBVIOUS
  <2> QED
    BY <2>1, TileType
<1>2. /\ t \in Seq(1 .. n) /\ Len(t) = b - a
      /\ \A k \in 1 .. b - a : t[k] = a + k
  <2>1. /\ a + 1 \in 1 .. n + 1 /\ b \in (a + 1) - 1 .. n /\ b - (a + 1) + 1 = b - a
        /\ \A k \in 1 .. b - a : (a + 1) + k - 1 = a + k
    OBVIOUS
  <2> QED
    BY <2>1, TileType
<1>3. /\ w \in Seq(1 .. n) /\ Len(w) = b
      /\ \A k \in 1 .. b : w[k] = k
  <2>1. 1 \in 1 .. n + 1 /\ b \in 1 - 1 .. n /\ b - 1 + 1 = b /\ \A k \in 1 .. b : 1 + k - 1 = k
    OBVIOUS
  <2> QED
    BY <2>1, TileType
<1> HIDE DEF s, t, w
<1>4. PICK u : u = s \o t
  OBVIOUS
<1>5. /\ u \in Seq(1 .. n) /\ Len(u) = b
      /\ \A k \in 1 .. b : u[k] = IF k <= a THEN s[k] ELSE t[k - a]
  <2>1. /\ u \in Seq(1 .. n) /\ Len(u) = Len(s) + Len(t)
        /\ \A k \in 1 .. Len(s) + Len(t) : u[k] = IF k <= Len(s) THEN s[k] ELSE t[k - Len(s)]
    BY <1>1, <1>2, <1>4, ConcatProperties
  <2>2. Len(s) + Len(t) = b
    BY <1>1, <1>2
  <2> QED
    BY <1>1, <2>1, <2>2
<1>6. \A k \in 1 .. b : u[k] = w[k]
  <2> SUFFICES ASSUME NEW k \in 1 .. b PROVE u[k] = w[k]
    OBVIOUS
  <2>1. CASE k <= a
    BY <1>1, <1>3, <1>5, <2>1
  <2>2. CASE ~ (k <= a)
    BY <1>2, <1>3, <1>5, <2>2
  <2> QED
    BY <2>1, <2>2
<1>7. u = w
  BY <1>3, <1>5, <1>6, SeqEqual
<1> QED
  BY <1>4, <1>7 DEF s, t, w

-----------------------------------------------------------------------------
(* Costs *)

Costs == [i \in Numbers |-> EstimateTokens(segments[i])]

Inputs ==
    /\ segments \in Seq(Nat \ {0})
    /\ context \in Int /\ prompt \in Nat /\ copies \in Nat

\* One estimate for two texts is no more than the estimates of both.
LEMMA EstimateIsSubadditive ==
    ASSUME NEW a \in Int, NEW b \in Int
    PROVE  /\ EstimateTokens(a) \in Int
           /\ EstimateTokens(a + b) <= EstimateTokens(a) + EstimateTokens(b)
           /\ a <= b => EstimateTokens(a) <= EstimateTokens(b)
           /\ a <= 3 * b => EstimateTokens(a) <= b
           /\ a <= 3 * EstimateTokens(a)
           /\ a >= 0 => EstimateTokens(a) >= 0
  BY DEF EstimateTokens, CharsPerToken

\* Every segment has an estimate and a length.
LEMMA CostsType ==
    ASSUME Inputs
    PROVE  /\ Len(segments) \in Nat
           /\ Costs \in [Numbers -> Nat]
           /\ segments \in [Numbers -> Nat]
           /\ \A i \in Numbers : Costs[i] = EstimateTokens(segments[i])
<1>1. Len(segments) \in Nat /\ segments \in [Numbers -> Nat]
  <2>1. segments \in [Numbers -> Nat \ {0}] /\ Len(segments) \in Nat
    BY LenProperties DEF Inputs, Numbers
  <2> QED
    BY <2>1
<1>2. \A i \in Numbers : EstimateTokens(segments[i]) \in Nat
  <2> SUFFICES ASSUME NEW i \in Numbers PROVE EstimateTokens(segments[i]) \in Nat
    OBVIOUS
  <2>1. segments[i] \in Nat
    BY <1>1
  <2> QED
    BY <2>1 DEF EstimateTokens, CharsPerToken
<1> QED
  BY <1>1, <1>2 DEF Costs

\* The cost of a part is the sum of the estimates of its segments.
LEMMA CostIsSum ==
    ASSUME NEW part
    PROVE  Cost(part) = SumOver(Costs, part)
  BY DEF Cost, Costs

\* Cost and length in characters of a tile, one segment at a time.
LEMMA CostOfNoTile ==
    ASSUME Inputs, NEW a \in Nat \ {0}
    PROVE  Cost(Tile(a, a - 1)) = 0 /\ SumOver(segments, Tile(a, a - 1)) = 0
  BY TileOfNone, CostsType, CostIsSum, SumOfNothing

\* Costs and lengths grow by those of the segment that is taken.
LEMMA CostOfAppend ==
    ASSUME Inputs, NEW a \in Numbers, NEW b \in a - 1 .. Len(segments) - 1
    PROVE  /\ Cost(Tile(a, b)) \in Nat
           /\ SumOver(segments, Tile(a, b)) \in Nat
           /\ Cost(Tile(a, b + 1)) = Cost(Tile(a, b)) + EstimateTokens(segments[b + 1])
           /\ SumOver(segments, Tile(a, b + 1)) = SumOver(segments, Tile(a, b)) + segments[b + 1]
<1> DEFINE n == Len(segments)
<1>1. n \in Nat /\ b + 1 \in Numbers /\ a \in 1 .. n /\ b \in a - 1 .. n - 1
      /\ a \in 1 .. n + 1 /\ b \in a - 1 .. n
  BY CostsType DEF Numbers
<1>2. PICK t, x : x \in Numbers /\ x = b + 1 /\ t = Tile(a, b)
  BY <1>1
<1>3. t \in Seq(Numbers)
  BY <1>1, <1>2, TileType DEF Numbers
<1>4. Tile(a, b + 1) = Append(t, x)
  BY <1>1, <1>2, TileAppend
<1>5. /\ SumOver(Costs, t) \in Nat
      /\ SumOver(Costs, Append(t, x)) = SumOver(Costs, t) + Costs[x]
  BY <1>2, <1>3, CostsType, SumIsNatural, SumOfAppend
<1>6. /\ SumOver(segments, t) \in Nat
      /\ SumOver(segments, Append(t, x)) = SumOver(segments, t) + segments[x]
  BY <1>2, <1>3, CostsType, SumIsNatural, SumOfAppend
<1>7. Costs[x] = EstimateTokens(segments[x])
  BY <1>2, CostsType
<1> QED
  BY <1>2, <1>4, <1>5, <1>6, <1>7, CostIsSum

\* The parts of a tile, and its characters, cost no more than the tile.
LEMMA TileCosts ==
    ASSUME Inputs, NEW a \in Numbers, NEW c \in Numbers, a <= c,
           NEW b \in c - 1 .. Len(segments)
    PROVE  /\ Cost(Tile(a, b)) \in Nat
           /\ Cost(Tile(c, b)) <= Cost(Tile(a, b))
           /\ SumOver(segments, Tile(a, b)) <= 3 * Cost(Tile(a, b))
           /\ SumOver(segments, Tile(a, b)) \in Nat
<1> DEFINE n == Len(segments)
           C(x, y) == Cost(Tile(x, y))
           Chars(x, y) == SumOver(segments, Tile(x, y))
<1>1. n \in Nat /\ a \in 1 .. n /\ c \in 1 .. n
  BY CostsType DEF Numbers
<1>2. \A y \in a - 1 .. n :
        C(a, y) \in Nat /\ Chars(a, y) \in Nat /\ Chars(a, y) <= 3 * C(a, y)
  <2> DEFINE T == {d \in Nat : /\ C(a, (a - 1) + d) \in Nat /\ Chars(a, (a - 1) + d) \in Nat
                               /\ Chars(a, (a - 1) + d) <= 3 * C(a, (a - 1) + d)}
             m == n - (a - 1)
  <2>1. 0 \in T
    <3>1. C(a, a - 1) = 0 /\ Chars(a, a - 1) = 0 /\ (a - 1) + 0 = a - 1
      BY <1>1, CostOfNoTile
    <3> QED
      BY <3>1
  <2>2. ASSUME NEW d \in 0 .. m - 1, d \in T PROVE d + 1 \in T
    <3>1. PICK y \in a - 1 .. n - 1 : y = (a - 1) + d
      BY <1>1
    <3>2. /\ C(a, y + 1) = C(a, y) + EstimateTokens(segments[y + 1])
          /\ Chars(a, y + 1) = Chars(a, y) + segments[y + 1]
      BY CostOfAppend
    <3>3. C(a, y) \in Nat /\ Chars(a, y) \in Nat /\ Chars(a, y) <= 3 * C(a, y)
      BY <2>2, <3>1
    <3>4. /\ segments[y + 1] \in Nat /\ EstimateTokens(segments[y + 1]) \in Nat
          /\ segments[y + 1] <= 3 * EstimateTokens(segments[y + 1])
      <4>1. y + 1 \in Numbers
        BY <1>1 DEF Numbers
      <4>2. segments[y + 1] \in Nat
        BY <4>1, CostsType
      <4> QED
        BY <4>2 DEF EstimateTokens, CharsPerToken
    <3> DEFINE chars == segments[y + 1]
               cost == EstimateTokens(chars)
    <3> HIDE DEF C, Chars, chars, cost
    <3>5. C(a, y + 1) \in Nat /\ Chars(a, y + 1) \in Nat /\ Chars(a, y + 1) <= 3 * C(a, y + 1)
      <4>1. chars \in Nat /\ cost \in Nat /\ chars <= 3 * cost
        BY <3>4 DEF chars, cost
      <4>2. C(a, y + 1) = C(a, y) + cost /\ Chars(a, y + 1) = Chars(a, y) + chars
        BY <3>2 DEF chars, cost
      <4> QED
        BY <3>3, <4>1, <4>2
    <3>6. (a - 1) + (d + 1) = y + 1 /\ d + 1 \in Nat
      BY <1>1, <3>1
    <3> QED
      BY <3>5, <3>6
  <2>3. \A d \in 0 .. m : d \in T
    <3> HIDE DEF T
    <3>1. m \in Nat
      BY <1>1
    <3> QED
      BY <2>1, <2>2, <3>1, UpTo
  <2> SUFFICES ASSUME NEW y \in a - 1 .. n
               PROVE  C(a, y) \in Nat /\ Chars(a, y) \in Nat /\ Chars(a, y) <= 3 * C(a, y)
    OBVIOUS
  <2>4. y - (a - 1) \in 0 .. m /\ (a - 1) + (y - (a - 1)) = y
    BY <1>1
  <2> HIDE DEF C, Chars
  <2> QED
    BY <2>3, <2>4
<1>3. \A y \in c - 1 .. n : C(c, y) <= C(a, y) /\ C(c, y) \in Nat
  <2> DEFINE T == {d \in Nat : C(c, (c - 1) + d) <= C(a, (c - 1) + d)
                                /\ C(c, (c - 1) + d) \in Nat}
             m == n - (c - 1)
  <2>1. 0 \in T
    <3>1. C(c, c - 1) = 0 /\ (c - 1) + 0 = c - 1
      BY <1>1, CostOfNoTile
    <3>2. c - 1 \in a - 1 .. n
      BY <1>1
    <3>3. C(a, c - 1) \in Nat
      BY <1>2, <3>2
    <3> QED
      BY <3>1, <3>3
  <2>2. ASSUME NEW d \in 0 .. m - 1, d \in T PROVE d + 1 \in T
    <3>1. PICK y \in c - 1 .. n - 1 : y = (c - 1) + d
      BY <1>1
    <3>2. y \in a - 1 .. n - 1 /\ y \in a - 1 .. n
      BY <1>1
    <3>3. /\ C(a, y + 1) = C(a, y) + EstimateTokens(segments[y + 1])
          /\ C(c, y + 1) = C(c, y) + EstimateTokens(segments[y + 1])
      BY <3>2, CostOfAppend
    <3>4. C(c, y) <= C(a, y) /\ C(c, y) \in Nat /\ C(a, y) \in Nat
      BY <1>2, <2>2, <3>1, <3>2
    <3>5. EstimateTokens(segments[y + 1]) \in Nat
      <4>1. y + 1 \in Numbers
        BY <1>1 DEF Numbers
      <4>2. segments[y + 1] \in Nat
        BY <4>1, CostsType
      <4> QED
        BY <4>2 DEF EstimateTokens, CharsPerToken
    <3> HIDE DEF C
    <3>6. C(c, y + 1) <= C(a, y + 1) /\ C(c, y + 1) \in Nat
      BY <3>3, <3>4, <3>5
    <3>7. (c - 1) + (d + 1) = y + 1 /\ d + 1 \in Nat
      BY <1>1, <3>1
    <3> QED
      BY <3>6, <3>7
  <2>3. \A d \in 0 .. m : d \in T
    <3> HIDE DEF T
    <3>1. m \in Nat
      BY <1>1
    <3> QED
      BY <2>1, <2>2, <3>1, UpTo
  <2> SUFFICES ASSUME NEW y \in c - 1 .. n
               PROVE  C(c, y) <= C(a, y) /\ C(c, y) \in Nat
    OBVIOUS
  <2>4. y - (c - 1) \in 0 .. m /\ (c - 1) + (y - (c - 1)) = y
    BY <1>1
  <2> HIDE DEF C
  <2> QED
    BY <2>3, <2>4
<1>4. b \in a - 1 .. n
  BY <1>1
<1> HIDE DEF C, Chars
<1>5. C(a, b) \in Nat /\ C(c, b) <= C(a, b) /\ Chars(a, b) <= 3 * C(a, b) /\ Chars(a, b) \in Nat
  BY <1>2, <1>3, <1>4
<1> QED
  BY <1>5 DEF C, Chars

\* A tile costs no less than the tiles it begins with.
LEMMA TileGrows ==
    ASSUME Inputs, NEW a \in Numbers, NEW d \in a - 1 .. Len(segments),
           NEW b \in d .. Len(segments)
    PROVE  Cost(Tile(a, d)) <= Cost(Tile(a, b))
<1> DEFINE n == Len(segments)
           C(y) == Cost(Tile(a, y))
           T == {e \in Nat : C(d) <= C(d + e)}
           m == b - d
<1>1. n \in Nat /\ a \in 1 .. n
  BY CostsType DEF Numbers
<1>2. \A y \in a - 1 .. n : C(y) \in Nat
  BY <1>1, TileCosts
<1>3. 0 \in T
  <2>1. d + 0 = d /\ C(d) \in Nat
    BY <1>1, <1>2
  <2> QED
    BY <2>1
<1>4. ASSUME NEW e \in 0 .. m - 1, e \in T PROVE e + 1 \in T
  <2>1. PICK y \in a - 1 .. n - 1 : y = d + e
    BY <1>1
  <2>2. C(y + 1) = C(y) + EstimateTokens(segments[y + 1])
    BY CostOfAppend
  <2>3. C(d) \in Nat /\ C(y) \in Nat /\ C(d) <= C(y)
    BY <1>1, <1>2, <1>4, <2>1
  <2>4. EstimateTokens(segments[y + 1]) \in Nat
    <3>1. y + 1 \in Numbers
      BY <1>1 DEF Numbers
    <3>2. segments[y + 1] \in Nat
      BY <3>1, CostsType
    <3> QED
      BY <3>2 DEF EstimateTokens, CharsPerToken
  <2> HIDE DEF C
  <2>5. C(d) <= C(y + 1)
    BY <2>2, <2>3, <2>4
  <2>6. d + (e + 1) = y + 1 /\ e + 1 \in Nat
    BY <1>1, <2>1
  <2> QED
    BY <2>5, <2>6
<1>5. \A e \in 0 .. m : e \in T
  <2> HIDE DEF T
  <2>1. m \in Nat
    BY <1>1
  <2> QED
    BY <1>3, <1>4, <2>1, UpTo
<1>6. m \in 0 .. m /\ d + m = b
  BY <1>1
<1> HIDE DEF C
<1>7. C(d) <= C(b)
  BY <1>5, <1>6
<1> QED
  BY <1>7 DEF C

-----------------------------------------------------------------------------
(* The invariant *)

\* The last segment of part k.
EndOf(done, k) == IF k = 0 THEN 0 ELSE done[k][Len(done[k])]
Closed == EndOf(parts, Len(parts))

Tiled(done) ==
    \A k \in 1 .. Len(done) :
        /\ EndOf(done, k) \in Numbers
        /\ EndOf(done, k - 1) < EndOf(done, k)
        /\ done[k] = Tile(EndOf(done, k - 1) + 1, EndOf(done, k))

\* What the loop has in hand is what comes after the parts that are closed.
InHand ==
    /\ pc = "start" => next = 1 /\ parts = << >> /\ current = << >> /\ tokens = 0
    /\ pc = "loop" =>
         /\ IF next = 1 THEN Closed = 0 ELSE Closed < next - 1
         /\ current = Tile(Closed + 1, next - 1)
         /\ tokens = Cost(current)
    /\ pc = "done" => Closed = Len(segments)
    /\ pc # "start" => budget = InputBudget

AllFit(done) == \A k \in 1 .. Len(done) : Fits(done[k])
Sized ==
    /\ AllFit(parts)
    /\ pc = "loop" => (current = << >> \/ Fits(current))

\* Any other way to cut has at least as many cuts by now: the loop stays ahead.
Cuts(ends) == ends \in PartEnds /\ \A i \in ends : Fits(PartUpTo(ends, i))
Ahead ==
    \A ends : Cuts(ends) =>
        IF pc = "done" THEN Len(parts) <= Cardinality(ends)
                       ELSE Len(parts) <= Cardinality(ends \cap 1 .. Closed)

Inv == Inputs /\ TypeOK /\ Tiled(parts) /\ InHand /\ Sized /\ Ahead

\* Nothing is taken and no part is closed.
LEMMA InitInv == Init => Inv
<1> SUFFICES ASSUME Init PROVE Inv
  OBVIOUS
<1>1. Inputs
  BY TranscriptAssumption, InputAssumption DEF Init, Inputs
<1>2. parts = << >> /\ Len(parts) = 0 /\ current = << >> /\ Closed = 0
  BY EmptySeq DEF Init, Closed, EndOf
<1>3. TypeOK
  <2>1. Len(segments) \in Nat
    BY <1>1, CostsType
  <2>2. << >> \in Seq(Numbers) /\ << >> \in Seq(Seq(Numbers))
    BY EmptySeq
  <2> QED
    BY <1>2, <2>1, <2>2 DEF Init, TypeOK
<1>4. Tiled(parts) /\ InHand /\ Sized
  BY <1>2 DEF Init, Tiled, InHand, Sized, AllFit
<1>5. Ahead
  <2> SUFFICES ASSUME NEW ends, Cuts(ends) PROVE Len(parts) <= Cardinality(ends \cap 1 .. Closed)
    BY DEF Ahead, Init
  <2>1. ends \cap 1 .. Closed = {}
    BY <1>2
  <2> QED
    BY <1>2, <2>1, FS_EmptySet
<1> QED
  BY <1>1, <1>3, <1>4, <1>5 DEF Inv

\* What the loop knows about its own position.
LEMMA Position ==
    ASSUME Inv, pc = "loop"
    PROVE  /\ Len(segments) \in Nat /\ Len(parts) \in Nat
           /\ next \in 1 .. Len(segments) + 1
           /\ Closed \in 0 .. next - 1
           /\ (next = 1 <=> current = << >>)
           /\ next = 1 => Closed = 0 /\ Len(parts) = 0
           /\ next # 1 => Closed < next - 1
           /\ current = Tile(Closed + 1, next - 1) /\ current \in Seq(Numbers)
           /\ Len(current) = next - 1 - Closed
           /\ tokens = Cost(current)
<1>1. Len(segments) \in Nat /\ Len(parts) \in Nat
  BY CostsType, LenProperties DEF Inv, TypeOK
<1>2. next \in 1 .. Len(segments) + 1 /\ current \in Seq(Numbers)
  BY DEF Inv, TypeOK
<1>3. /\ IF next = 1 THEN Closed = 0 ELSE Closed < next - 1
      /\ current = Tile(Closed + 1, next - 1)
      /\ tokens = Cost(current)
  BY DEF Inv, InHand
<1>4. Closed \in 0 .. Len(segments) /\ (Len(parts) # 0 => Closed # 0)
  BY <1>1 DEF Inv, Tiled, Closed, EndOf, Numbers
<1>5. Closed \in 0 .. next - 1
  BY <1>1, <1>2, <1>3, <1>4
<1>6. Len(current) = next - 1 - Closed
  <2>1. Closed + 1 \in 1 .. Len(segments) + 1 /\ next - 1 \in (Closed + 1) - 1 .. Len(segments)
    BY <1>1, <1>2, <1>5
  <2>2. Len(Tile(Closed + 1, next - 1)) = (next - 1) - (Closed + 1) + 1
    BY <1>1, <2>1, TileType
  <2> QED
    BY <1>2, <1>3, <1>4, <2>2
<1>7. next = 1 <=> current = << >>
  <2>1. current = << >> <=> Len(current) = 0
    BY <1>2, EmptySeq
  <2> QED
    BY <1>2, <1>3, <1>4, <1>6, <2>1
<1> QED
  BY <1>1, <1>2, <1>3, <1>4, <1>5, <1>6, <1>7

\* The part in hand may be closed.
LEMMA CloseKeepsTiles ==
    ASSUME Inv, pc = "loop", next > 1, NEW done, done = Append(parts, current)
    PROVE  /\ done \in Seq(Seq(Numbers)) /\ Len(done) = Len(parts) + 1
           /\ Tiled(done) /\ AllFit(done)
           /\ EndOf(done, Len(done)) = next - 1
<1> DEFINE m == Len(parts)
<1>1. /\ m \in Nat /\ Len(segments) \in Nat
      /\ next \in 2 .. Len(segments) + 1 /\ Closed \in 0 .. next - 2
      /\ current \in Seq(Numbers) /\ current = Tile(Closed + 1, next - 1)
      /\ Len(current) = next - 1 - Closed /\ current # << >>
  BY Position
<1>2. parts \in Seq(Seq(Numbers)) /\ current \in Seq(Numbers)
  BY DEF Inv, TypeOK
<1>3. /\ done \in Seq(Seq(Numbers)) /\ Len(done) = m + 1
      /\ \A k \in 1 .. m : done[k] = parts[k]
      /\ done[m + 1] = current
  BY <1>2, AppendProperties, Z3
<1>4. current[Len(current)] = next - 1
  <2>1. Closed + 1 \in 1 .. Len(segments) + 1 /\ next - 1 \in (Closed + 1) - 1 .. Len(segments)
    BY <1>1
  <2>2. \A k \in 1 .. (next - 1) - (Closed + 1) + 1 :
            Tile(Closed + 1, next - 1)[k] = (Closed + 1) + k - 1
    BY <1>1, <2>1, TileType
  <2>3. /\ Len(current) \in 1 .. (next - 1) - (Closed + 1) + 1
        /\ (Closed + 1) + Len(current) - 1 = next - 1
    BY <1>1
  <2> QED
    BY <1>1, <2>2, <2>3
<1>5. /\ \A k \in 0 .. m : EndOf(done, k) = EndOf(parts, k)
      /\ EndOf(done, m + 1) = next - 1
      /\ EndOf(done, m) = Closed
  BY <1>1, <1>3, <1>4 DEF EndOf, Closed
<1>6. Tiled(done)
  <2> SUFFICES ASSUME NEW k \in 1 .. m + 1
               PROVE  /\ EndOf(done, k) \in Numbers
                      /\ EndOf(done, k - 1) < EndOf(done, k)
                      /\ done[k] = Tile(EndOf(done, k - 1) + 1, EndOf(done, k))
    BY <1>3 DEF Tiled
  <2>1. CASE k = m + 1
    <3>1. k - 1 = m
      BY <1>1, <2>1
    <3> QED
      BY <1>1, <1>3, <1>5, <2>1, <3>1 DEF Numbers
  <2>2. CASE k \in 1 .. m
    <3>1. /\ EndOf(parts, k) \in Numbers
          /\ EndOf(parts, k - 1) < EndOf(parts, k)
          /\ parts[k] = Tile(EndOf(parts, k - 1) + 1, EndOf(parts, k))
      BY <2>2 DEF Inv, Tiled
    <3>2. k \in 0 .. m /\ k - 1 \in 0 .. m
      BY <1>1, <2>2
    <3> QED
      BY <1>3, <1>5, <2>2, <3>1, <3>2
  <2> QED
    BY <1>1, <2>1, <2>2
<1>7. AllFit(done)
  <2>1. Fits(current) /\ AllFit(parts)
    BY <1>1 DEF Inv, Sized
  <2> QED
    BY <1>1, <1>3, <2>1 DEF AllFit
<1> QED
  BY <1>3, <1>5, <1>6, <1>7

-----------------------------------------------------------------------------
(* The loop stays ahead *)

\* A cut behind m makes one cut more.
LEMMA OneMoreCut ==
    ASSUME NEW n \in Nat, NEW ends \in SUBSET (1 .. n), NEW m \in Nat, NEW e \in Nat,
           NEW i \in ends, m < i, i <= e
    PROVE  Cardinality(ends \cap 1 .. m) + 1 <= Cardinality(ends \cap 1 .. e)
<1> DEFINE A == ends \cap 1 .. m
           B == ends \cap 1 .. e
<1>1. IsFiniteSet(A) /\ IsFiniteSet(B)
  <2>1. IsFiniteSet(1 .. n)
    BY FS_Interval
  <2>2. A \subseteq 1 .. n /\ B \subseteq 1 .. n
    OBVIOUS
  <2> HIDE DEF A, B
  <2> QED
    BY <2>1, <2>2, FS_Subset
<1>2. i \notin A /\ A \cup {i} \subseteq B
  <2>1. i \in Int /\ i > 0
    OBVIOUS
  <2>2. i \notin A /\ i \in B
    BY <2>1
  <2>3. A \subseteq B
    BY <2>1
  <2> QED
    BY <2>2, <2>3
<1> HIDE DEF A, B
<1>3. Cardinality(A \cup {i}) = Cardinality(A) + 1
  BY <1>1, <1>2, FS_AddElement
<1>4. Cardinality(A \cup {i}) <= Cardinality(B)
  BY <1>1, <1>2, FS_Subset
<1> QED
  BY <1>3, <1>4 DEF A, B

\* The first segment of the part that ends with i.
LEMMA FirstOfPart ==
    ASSUME NEW n \in Nat, NEW ends \in SUBSET (1 .. n), NEW i \in ends
    PROVE  \E first \in 1 .. i :
             /\ first = 1 \/ first - 1 \in ends
             /\ first .. (i - 1) \cap ends = {}
             /\ PartUpTo(ends, i) = Tile(first, i)
<1> DEFINE P(f) == (f = 1 \/ f - 1 \in ends) /\ f .. (i - 1) \cap ends = {}
           T == {f \in 1 .. i : f = 1 \/ f - 1 \in ends}
<1>1. i \in 1 .. n
  OBVIOUS
<1>2. PICK f \in T : \A g \in T : g <= f
  <2>1. T \in SUBSET Int /\ T # {} /\ \A x \in T : x <= i
    <3>1. 1 \in T
      BY <1>1
    <3>2. \A x \in T : x \in Int /\ x <= i
      BY <1>1
    <3> HIDE DEF T
    <3> QED
      BY <3>1, <3>2
  <2>2. i \in Int
    BY <1>1
  <2> HIDE DEF T
  <2> QED
    BY <2>1, <2>2, GreatestElement
<1>3. P(f)
  <2>1. ASSUME NEW g \in f .. (i - 1), g \in ends PROVE FALSE
    <3>1. g + 1 \in T
      <4>1. g + 1 \in 1 .. i /\ (g + 1) - 1 = g
        BY <1>1
      <4> QED
        BY <2>1, <4>1
    <3> QED
      BY <1>1, <1>2, <3>1
  <2> QED
    BY <2>1
<1>4. \E g \in 1 .. i : P(g)
  BY <1>3
<1>5. PICK first : first = CHOOSE g \in 1 .. i : P(g)
  OBVIOUS
<1>6. first \in 1 .. i /\ P(first)
  BY <1>4, <1>5
<1>7. PartUpTo(ends, i) = Tile(first, i)
  BY <1>5 DEF PartUpTo, Tile
<1> QED
  BY <1>6, <1>7

\* When the next segment does not fit any more, any other way of cutting has made a cut
\* since the last part was closed.
LEMMA OthersCutToo ==
    ASSUME Inv, pc = "loop", next > 1, next <= Len(segments),
           tokens + EstimateTokens(segments[next]) > budget,
           NEW ends, Cuts(ends)
    PROVE  Len(parts) + 1 <= Cardinality(ends \cap 1 .. next - 1)
<1> DEFINE n == Len(segments)
           c == Closed + 1
<1>1. /\ n \in Nat /\ Len(parts) \in Nat /\ next \in 2 .. n /\ Closed \in 0 .. next - 2
      /\ tokens = Cost(Tile(c, next - 1)) /\ Inputs
  BY Position DEF Inv
<1>2. ends \in SUBSET (1 .. n) /\ n \in ends /\ \A i \in ends : Fits(PartUpTo(ends, i))
  BY DEF Cuts, PartEnds, Numbers
<1>3. \E i \in ends : Closed < i /\ i <= next - 1
  <2>1. SUFFICES ASSUME \A i \in ends : ~ (Closed < i /\ i <= next - 1) PROVE FALSE
    OBVIOUS
  <2>2. PICK i \in ends : i >= next /\ \A j \in ends : j >= next => i <= j
    <3> DEFINE T == {j \in ends : j >= next}
    <3>1. T \in SUBSET Nat /\ T # {}
      <4>1. n \in T /\ \A j \in ends : j \in Nat
        BY <1>1, <1>2
      <4> QED
        BY <4>1
    <3> HIDE DEF T
    <3>2. PICK i \in T : \A j \in T : i <= j
      BY <3>1, LeastElement
    <3> QED
      BY <3>2 DEF T
  <2>3. PICK first \in 1 .. i : /\ first = 1 \/ first - 1 \in ends
                                /\ PartUpTo(ends, i) = Tile(first, i)
    BY <1>1, <1>2, FirstOfPart
  <2>4. i \in next .. n
    BY <1>1, <1>2, <2>2
  <2>5. first <= c
    <3>1. SUFFICES ASSUME first > c PROVE FALSE
      BY <1>1, <2>4
    <3>2. first - 1 \in ends /\ first - 1 < i /\ first - 1 > Closed
      BY <1>1, <2>3, <2>4, <3>1
    <3>3. first - 1 >= next
      BY <1>1, <1>2, <2>1, <3>2
    <3> QED
      BY <1>2, <2>2, <2>4, <3>2, <3>3
  <2>6. /\ first \in Numbers /\ c \in Numbers /\ i \in first - 1 .. n /\ i \in c - 1 .. n
        /\ next \in c - 1 .. n /\ i \in next .. n /\ next - 1 \in c - 1 .. n - 1
    BY <1>1, <2>4, <2>5 DEF Numbers
  <2>7. Cost(Tile(first, i)) <= budget
    <3>1. Fits(Tile(first, i))
      BY <1>2, <2>3
    <3>2. Len(Tile(first, i)) = i - first + 1
      <4>1. first \in 1 .. n + 1 /\ i \in first - 1 .. n
        BY <1>1, <2>6 DEF Numbers
      <4> QED
        BY <1>1, <4>1, TileType
    <3>3. i - first + 1 # 1
      BY <1>1, <2>4, <2>5
    <3> QED
      BY <3>1, <3>2, <3>3 DEF Fits
  <2>8. Cost(Tile(c, i)) <= Cost(Tile(first, i)) /\ Cost(Tile(first, i)) \in Nat
    BY <1>1, <2>5, <2>6, TileCosts
  <2>9. Cost(Tile(c, next)) <= Cost(Tile(c, i))
    BY <1>1, <2>6, TileGrows
  <2>10. Cost(Tile(c, next)) = tokens + EstimateTokens(segments[next])
    <3>1. (next - 1) + 1 = next
      BY <1>1
    <3> QED
      BY <1>1, <2>6, <3>1, CostOfAppend
  <2>11. Cost(Tile(c, next)) \in Nat /\ Cost(Tile(c, i)) \in Nat
    <3>1. c <= c
      BY <1>1
    <3> QED
      BY <1>1, <2>6, <3>1, TileCosts
  <2>12. budget \in Nat
    BY DEF Inv, TypeOK
  <2> QED
    BY <2>7, <2>8, <2>9, <2>10, <2>11, <2>12
<1>4. PICK i \in ends : Closed < i /\ i <= next - 1
  BY <1>3
<1>5. Cardinality(ends \cap 1 .. Closed) + 1 <= Cardinality(ends \cap 1 .. next - 1)
  <2>1. Closed \in Nat /\ next - 1 \in Nat
    BY <1>1
  <2> QED
    BY <1>1, <1>2, <1>4, <2>1, OneMoreCut
<1>6. Len(parts) <= Cardinality(ends \cap 1 .. Closed)
  BY DEF Inv, Ahead
<1>7. /\ Cardinality(ends \cap 1 .. Closed) \in Nat
      /\ Cardinality(ends \cap 1 .. next - 1) \in Nat
  <2>1. IsFiniteSet(1 .. Closed) /\ IsFiniteSet(1 .. next - 1)
    BY <1>1, FS_Interval
  <2>2. IsFiniteSet(ends \cap 1 .. Closed) /\ IsFiniteSet(ends \cap 1 .. next - 1)
    BY <2>1, FS_Subset
  <2> QED
    BY <2>2, FS_CardinalityType
<1> QED
  BY <1>1, <1>5, <1>6, <1>7

-----------------------------------------------------------------------------
(* Every step keeps the invariant *)

\* The budget is at least the minimum, and the empty plan fits it.
LEMMA SetBudgetKeepsInv == Inv /\ SetBudget => Inv'
<1> SUFFICES ASSUME Inv, SetBudget PROVE Inv'
  OBVIOUS
<1>1. UNCHANGED <<segments, context, prompt, copies, next, current, tokens, parts>>
  BY DEF SetBudget, input
<1>2. pc = "start" /\ pc' = "loop" /\ budget' = InputBudget
  BY DEF SetBudget
<1>3. next = 1 /\ parts = << >> /\ current = << >>
  BY <1>2 DEF Inv, InHand
<1>4. Inputs' /\ InputBudget' = InputBudget /\ Closed' = Closed /\ Closed = 0
  BY <1>1, <1>3, EmptySeq
  DEF Inv, Inputs, InputBudget, Remaining, EstimateTokens, CharsPerToken, Closed, EndOf
<1>5. InputBudget \in Nat \ {0}
  BY MinimumAssumption, ReserveAssumption
  DEF Inv, Inputs, InputBudget, Remaining, EstimateTokens, CharsPerToken
<1>6. TypeOK'
  BY <1>1, <1>2, <1>5 DEF Inv, TypeOK, Numbers
<1>7. Tiled(parts)'
  BY <1>1, <1>3, EmptySeq DEF Tiled
<1>8. InHand'
  <2>1. Tile(1, 0) = << >> /\ Cost(<< >>) = 0
    <3>1. Inputs /\ 1 - 1 = 0 /\ 1 \in Nat \ {0}
      BY DEF Inv
    <3>2. Tile(1, 0) = << >> /\ Cost(Tile(1, 0)) = 0
      BY <3>1, TileOfNone, CostOfNoTile
    <3> QED
      BY <3>2
  <2>2. tokens = 0
    BY <1>2 DEF Inv, InHand
  <2>3. Closed + 1 = 1 /\ next - 1 = 0
    BY <1>3, <1>4
  <2>4. Cost(current)' = Cost(current)
    BY <1>1 DEF Cost, Numbers
  <2> QED
    BY <1>1, <1>2, <1>3, <1>4, <2>1, <2>2, <2>3, <2>4 DEF InHand
<1>9. Sized'
  BY <1>1, <1>3, EmptySeq DEF Sized, AllFit
<1>10. Ahead'
  <2> SUFFICES ASSUME NEW ends PROVE Len(parts') <= Cardinality(ends \cap 1 .. Closed')
    BY <1>2 DEF Ahead
  <2>1. ends \cap 1 .. Closed' = {} /\ Len(parts') = 0
    BY <1>1, <1>3, <1>4, EmptySeq
  <2> QED
    BY <2>1, FS_EmptySet
<1> QED
  BY <1>4, <1>6, <1>7, <1>8, <1>9, <1>10 DEF Inv

\* What does not change while the loop runs.
LEMMA SameInput ==
    ASSUME UNCHANGED input, UNCHANGED budget
    PROVE  /\ Inputs' = Inputs /\ Numbers' = Numbers /\ InputBudget' = InputBudget
           /\ \A part : Cost(part)' = Cost(part) /\ Fits(part)' = Fits(part)
           /\ \A ends : Cuts(ends)' = Cuts(ends)
  BY DEF input, Inputs, Numbers, InputBudget, Remaining, Cost, Fits, Cuts, PartEnds

\* The next segment goes into the part in hand.
LEMMA TakeFitting ==
    ASSUME Inv, Take, ~ Overflows(EstimateTokens(segments[next]))
    PROVE  Inv'
<1> DEFINE n == Len(segments)
           cost == EstimateTokens(segments[next])
<1>1. /\ pc = "loop" /\ pc' = "loop" /\ next <= n /\ next' = next + 1
      /\ UNCHANGED input /\ UNCHANGED budget
      /\ parts' = parts /\ current' = Append(current, next) /\ tokens' = tokens + cost
  BY DEF Take
<1>2. /\ n \in Nat /\ Len(parts) \in Nat /\ next \in 1 .. n /\ Closed \in 0 .. next - 1
      /\ (next = 1 <=> current = << >>) /\ (next = 1 => Closed = 0)
      /\ current = Tile(Closed + 1, next - 1) /\ current \in Seq(Numbers)
      /\ Len(current) = next - 1 - Closed
      /\ tokens = Cost(current)
  BY <1>1, Position
<1>3. /\ Inputs' /\ Inputs /\ Numbers' = Numbers /\ InputBudget' = InputBudget
      /\ \A part : Cost(part)' = Cost(part) /\ Fits(part)' = Fits(part)
      /\ \A ends : Cuts(ends)' = Cuts(ends)
  BY <1>1, SameInput DEF Inv
<1>4. Closed' = Closed /\ segments' = segments
  BY <1>1 DEF Closed, EndOf, input
<1> DEFINE c == Closed + 1
<1>5. /\ c \in Numbers /\ next - 1 \in c - 1 .. n - 1 /\ (next - 1) + 1 = next
      /\ next \in Numbers
  BY <1>2 DEF Numbers
<1>6. current' = Tile(c, next)
  <2>1. c \in 1 .. n
    BY <1>5 DEF Numbers
  <2> QED
    BY <1>1, <1>2, <1>5, <2>1, TileAppend
<1>7. tokens' = Cost(current') /\ tokens' \in Nat
  <2>1. Cost(Tile(c, next)) = tokens + cost
    BY <1>2, <1>3, <1>5, CostOfAppend
  <2>2. c <= c /\ next \in c - 1 .. Len(segments)
    BY <1>2
  <2>3. Cost(Tile(c, next)) \in Nat
    BY <1>3, <1>5, <2>2, TileCosts
  <2> QED
    BY <1>1, <1>6, <2>1, <2>3
<1>8. current' \in Seq(Numbers) /\ Len(current') = Len(current) + 1
  BY <1>1, <1>2, <1>5, AppendProperties
<1>9. TypeOK'
  <2>1. next' \in 1 .. n + 1
    BY <1>1, <1>2
  <2>2. /\ budget \in Nat /\ budget > 0 /\ parts \in Seq(Seq(Numbers))
    BY <1>1 DEF Inv, TypeOK
  <2> QED
    BY <1>1, <1>3, <1>4, <1>7, <1>8, <2>1, <2>2 DEF TypeOK
<1>10. Tiled(parts)'
  BY <1>1, <1>3 DEF Inv, Tiled
<1>11. InHand'
  <2>1. next' # 1 /\ Closed < next' - 1 /\ next' - 1 = next
    BY <1>1, <1>2
  <2>2. budget' = InputBudget'
    BY <1>1, <1>3 DEF Inv, InHand
  <2>3. Cost(current)' = Cost(current')
    BY <1>1, <1>4 DEF Cost, Numbers
  <2> QED
    BY <1>1, <1>4, <1>6, <1>7, <2>1, <2>2, <2>3 DEF InHand
<1>12. Sized'
  <2>1. AllFit(parts)'
    BY <1>1, <1>3 DEF Inv, Sized, AllFit
  <2>2. Fits(current')
    <3>1. CASE current = << >>
      <4>1. Len(current') = 1
        BY <1>2, <1>8, <3>1, EmptySeq
      <4> QED
        BY <4>1 DEF Fits
    <3>2. CASE current # << >>
      <4>1. ~ (tokens + cost > budget)
        BY <3>2 DEF Overflows
      <4>2. tokens \in Nat /\ cost \in Int /\ budget \in Nat
        <5>1. segments[next] \in Nat
          BY <1>3, <1>5, CostsType
        <5> QED
          BY <5>1 DEF Inv, TypeOK, EstimateTokens, CharsPerToken
      <4> HIDE DEF cost
      <4> QED
        BY <1>1, <1>7, <4>1, <4>2 DEF Fits
    <3> QED
      BY <3>1, <3>2
  <2>3. Fits(current)' = Fits(current')
    BY <1>1, <1>4 DEF Fits, Cost, Numbers
  <2> QED
    BY <2>1, <2>2, <2>3 DEF Sized
<1>13. Ahead'
  BY <1>1, <1>3, <1>4 DEF Inv, Ahead
<1> QED
  BY <1>3, <1>9, <1>10, <1>11, <1>12, <1>13 DEF Inv

\* A tile of one segment.
LEMMA TileOfOne ==
    ASSUME Inputs, NEW i \in Numbers
    PROVE  Tile(i, i) = <<i>> /\ Cost(<<i>>) = EstimateTokens(segments[i])
<1>1. Len(segments) \in Nat /\ i \in 1 .. Len(segments)
  BY CostsType DEF Numbers
<1>2. /\ i - 1 \in i - 1 .. Len(segments) - 1 /\ (i - 1) + 1 = i /\ i \in Nat \ {0}
  BY <1>1
<1>3. Tile(i, i - 1) = << >>
  BY <1>2, TileOfNone
<1>4. Tile(i, i) = Append(<< >>, i)
  BY <1>1, <1>2, <1>3, TileAppend
<1>5. Append(<< >>, i) = <<i>>
  OBVIOUS
<1>6. Cost(Tile(i, i)) = 0 + EstimateTokens(segments[i])
  BY <1>2, CostOfAppend, CostOfNoTile
<1>7. EstimateTokens(segments[i]) \in Int
  <2>1. segments[i] \in Nat
    BY CostsType
  <2> QED
    BY <2>1 DEF EstimateTokens, CharsPerToken
<1> QED
  BY <1>4, <1>5, <1>6, <1>7

\* The next segment starts a new part.
LEMMA TakeOverflowing ==
    ASSUME Inv, Take, Overflows(EstimateTokens(segments[next]))
    PROVE  Inv'
<1> DEFINE n == Len(segments)
           cost == EstimateTokens(segments[next])
<1>1. /\ pc = "loop" /\ pc' = "loop" /\ next <= n /\ next' = next + 1
      /\ UNCHANGED input /\ UNCHANGED budget
      /\ parts' = Append(parts, current) /\ current' = <<next>> /\ tokens' = cost
  BY DEF Take
<1>2. /\ n \in Nat /\ next \in 2 .. n /\ Len(parts) \in Nat
  <2>1. current # << >>
    BY DEF Overflows
  <2> QED
    BY <1>1, <2>1, Position
<1>3. /\ Inputs' /\ Inputs /\ Numbers' = Numbers /\ InputBudget' = InputBudget
      /\ \A part : Cost(part)' = Cost(part) /\ Fits(part)' = Fits(part)
      /\ \A ends : Cuts(ends)' = Cuts(ends)
  BY <1>1, SameInput DEF Inv
<1>4. /\ parts' \in Seq(Seq(Numbers)) /\ Len(parts') = Len(parts) + 1
      /\ Tiled(parts') /\ AllFit(parts')
      /\ EndOf(parts', Len(parts')) = next - 1
  <2>1. next > 1
    BY <1>2
  <2> QED
    BY <1>1, <2>1, CloseKeepsTiles
<1>5. Closed' = next - 1 /\ segments' = segments
  BY <1>1, <1>4 DEF Closed, input
<1>6. next \in Numbers
  BY <1>2 DEF Numbers
<1>7. current' = Tile(next, next) /\ tokens' = Cost(current') /\ current' \in Seq(Numbers)
  <2>1. <<next>> = Tile(next, next) /\ Cost(<<next>>) = cost
    BY <1>3, <1>6, TileOfOne
  <2>2. <<next>> \in Seq(Numbers)
    BY <1>6
  <2> QED
    BY <1>1, <2>1, <2>2
<1>8. TypeOK'
  <2>1. next' \in 1 .. n + 1
    BY <1>1, <1>2
  <2>2. /\ budget \in Nat /\ budget > 0
    BY <1>1 DEF Inv, TypeOK
  <2>3. cost \in Nat
    <3>1. segments[next] \in Nat
      BY <1>3, <1>6, CostsType
    <3> QED
      BY <3>1 DEF EstimateTokens, CharsPerToken
  <2> QED
    BY <1>1, <1>3, <1>4, <1>5, <1>7, <2>1, <2>2, <2>3 DEF TypeOK
<1>9. Tiled(parts)'
  BY <1>3, <1>4 DEF Tiled
<1>10. InHand'
  <2>1. next' # 1 /\ next - 1 < next' - 1 /\ next' - 1 = next /\ (next - 1) + 1 = next
    BY <1>1, <1>2
  <2>2. budget' = InputBudget'
    BY <1>1, <1>3 DEF Inv, InHand
  <2>3. Cost(current)' = Cost(current')
    BY <1>1, <1>5 DEF Cost, Numbers
  <2> QED
    BY <1>1, <1>5, <1>7, <2>1, <2>2, <2>3 DEF InHand
<1>11. Sized'
  <2>1. AllFit(parts)'
    BY <1>3, <1>4 DEF AllFit
  <2>2. Len(current') = 1
    BY <1>1
  <2>3. Fits(current)'
    BY <2>2 DEF Fits
  <2> QED
    BY <2>1, <2>3 DEF Sized
<1>12. Ahead'
  <2> SUFFICES ASSUME NEW ends, Cuts(ends)
               PROVE  Len(parts') <= Cardinality(ends \cap 1 .. Closed')
    BY <1>1, <1>3 DEF Ahead
  <2>1. next > 1 /\ tokens + cost > budget
    BY <1>2 DEF Overflows
  <2>2. Len(parts) + 1 <= Cardinality(ends \cap 1 .. next - 1)
    BY <1>1, <2>1, OthersCutToo
  <2> QED
    BY <1>4, <1>5, <2>2
<1> QED
  BY <1>3, <1>8, <1>9, <1>10, <1>11, <1>12 DEF Inv

\* What is left in hand becomes the last part.
LEMMA CloseLastKeepsInv == Inv /\ CloseLast => Inv'
<1> SUFFICES ASSUME Inv, CloseLast PROVE Inv'
  OBVIOUS
<1> DEFINE n == Len(segments)
<1>1. /\ pc = "loop" /\ pc' = "done" /\ next > n
      /\ UNCHANGED input /\ UNCHANGED budget
      /\ UNCHANGED <<next, current, tokens>>
      /\ parts' = IF current = << >> THEN parts ELSE Append(parts, current)
  BY DEF CloseLast
<1>2. /\ n \in Nat /\ Len(parts) \in Nat /\ next = n + 1 /\ (next = 1 <=> current = << >>)
      /\ next = 1 => Closed = 0 /\ Len(parts) = 0
      /\ next # 1 => Closed \in 0 .. n - 1
  BY <1>1, Position
<1>3. /\ Inputs' /\ Inputs /\ Numbers' = Numbers /\ InputBudget' = InputBudget
      /\ \A part : Cost(part)' = Cost(part) /\ Fits(part)' = Fits(part)
      /\ \A ends : Cuts(ends)' = Cuts(ends)
  BY <1>1, SameInput DEF Inv
<1>4. segments' = segments
  BY <1>1 DEF input
<1>5. /\ parts' \in Seq(Seq(Numbers)) /\ Tiled(parts') /\ AllFit(parts')
      /\ EndOf(parts', Len(parts')) = n
  <2>1. CASE current = << >>
    <3>1. parts' = parts /\ Closed = 0 /\ n = 0
      BY <1>1, <1>2, <2>1
    <3> QED
      BY <3>1 DEF Inv, TypeOK, Sized, Closed
  <2>2. CASE current # << >>
    <3>1. parts' = Append(parts, current) /\ next > 1 /\ next - 1 = n
      BY <1>1, <1>2, <2>2
    <3> QED
      BY <1>1, <3>1, CloseKeepsTiles
  <2> QED
    BY <2>1, <2>2
<1>6. TypeOK'
  <2>1. UNCHANGED <<next, current, tokens, budget>> /\ budget > 0
    BY <1>1 DEF Inv, TypeOK
  <2> QED
    BY <1>1, <1>3, <1>4, <1>5, <2>1 DEF Inv, TypeOK
<1>7. Tiled(parts)'
  BY <1>3, <1>5 DEF Tiled
<1>8. InHand'
  <2>1. budget' = InputBudget'
    BY <1>1, <1>3 DEF Inv, InHand
  <2> QED
    BY <1>1, <1>4, <1>5, <2>1 DEF InHand, Closed
<1>9. Sized'
  BY <1>1, <1>3, <1>5 DEF Sized, AllFit
<1>10. Ahead'
  <2> SUFFICES ASSUME NEW ends, Cuts(ends)
               PROVE  Len(parts') <= Cardinality(ends)
    BY <1>1, <1>3 DEF Ahead
  <2>1. ends \in SUBSET (1 .. n) /\ n \in ends
    BY DEF Cuts, PartEnds, Numbers
  <2>2. next # 1 /\ current # << >> /\ Closed \in 0 .. n - 1
    BY <1>2, <2>1
  <2>3. Len(parts') = Len(parts) + 1
    BY <1>1, <1>2, <2>2, CloseKeepsTiles
  <2>4. Len(parts) <= Cardinality(ends \cap 1 .. Closed)
    BY <1>1 DEF Inv, Ahead
  <2>5. Cardinality(ends \cap 1 .. Closed) + 1 <= Cardinality(ends \cap 1 .. n)
    <3>1. Closed \in Nat /\ Closed < n /\ n <= n
      BY <1>2, <2>2
    <3> QED
      BY <1>2, <2>1, <3>1, OneMoreCut
  <2>6. ends \cap 1 .. n = ends
    BY <2>1
  <2>7. Cardinality(ends \cap 1 .. Closed) \in Nat /\ Cardinality(ends) \in Nat
    <3>1. IsFiniteSet(1 .. n)
      BY <1>2, FS_Interval
    <3>2. IsFiniteSet(ends) /\ IsFiniteSet(ends \cap 1 .. Closed)
      BY <2>1, <3>1, FS_Subset
    <3> QED
      BY <3>2, FS_CardinalityType
  <2>8. Cardinality(ends \cap 1 .. Closed) + 1 <= Cardinality(ends)
    BY <2>5, <2>6
  <2> QED
    BY <1>2, <2>3, <2>4, <2>7, <2>8
<1> QED
  BY <1>3, <1>6, <1>7, <1>8, <1>9, <1>10 DEF Inv

\* Every step keeps the invariant.
LEMMA BudgetInvariant == Spec => []Inv
<1>1. Inv /\ [Next]_vars => Inv'
  <2> SUFFICES ASSUME Inv, [Next]_vars PROVE Inv'
    OBVIOUS
  <2>1. CASE Take
    BY <2>1, TakeFitting, TakeOverflowing
  <2>2. CASE UNCHANGED vars
    <3>1. UNCHANGED <<pc, next, current, tokens, parts, segments, budget>>
          /\ UNCHANGED input /\ UNCHANGED budget
      BY <2>2 DEF vars, input
    <3>2. /\ Inputs' /\ Numbers' = Numbers /\ InputBudget' = InputBudget
          /\ \A part : Cost(part)' = Cost(part) /\ Fits(part)' = Fits(part)
          /\ \A ends : Cuts(ends)' = Cuts(ends)
      BY <3>1, SameInput DEF Inv
    <3>3. Cost(current)' = Cost(current) /\ Fits(current)' = Fits(current)
      BY <3>1 DEF Cost, Fits, Numbers
    <3>4. TypeOK' /\ Tiled(parts)' /\ InHand'
      BY <3>1, <3>2, <3>3 DEF Inv, TypeOK, Tiled, InHand, Closed, EndOf
    <3>5. Sized' /\ Ahead'
      BY <3>1, <3>2, <3>3 DEF Inv, Sized, AllFit, Ahead, Closed, EndOf
    <3> QED
      BY <3>2, <3>4, <3>5 DEF Inv
  <2> QED
    BY <2>1, <2>2, SetBudgetKeepsInv, CloseLastKeepsInv DEF Next, Finished
<1> QED
  BY InitInv, <1>1, PTL DEF Spec

-----------------------------------------------------------------------------
(* What follows *)

\* Every variable keeps its type; in particular, the loop starts with a positive budget,
\* however small the context of the model.
THEOREM BudgetTypeCorrect == Spec => []TypeOK
<1>1. Inv => TypeOK
  BY DEF Inv
<1> QED
  BY BudgetInvariant, <1>1, PTL

\* split_for_budget makes as few parts as fit, whatever the lengths of the segments.
THEOREM NoPlanIsShorter == Spec => []FewestParts
<1>1. Inv => FewestParts
  BY DEF Inv, Ahead, Cuts, FewestParts
<1> QED
  BY BudgetInvariant, <1>1, PTL

\* Where the parts end.
LEMMA EndsInside ==
    ASSUME Inv, NEW k \in 0 .. Len(parts)
    PROVE  EndOf(parts, k) \in 0 .. Len(segments)
<1>1. Len(segments) \in Nat /\ Len(parts) \in Nat
  BY CostsType, LenProperties DEF Inv, TypeOK
<1> QED
  BY <1>1 DEF Inv, Tiled, EndOf, Numbers

\* No part loses, repeats or moves a segment of the transcript.
THEOREM NoSegmentLost == Spec => []EverySegmentOnce
<1>1. Inv => EverySegmentOnce
  <2> SUFFICES ASSUME Inv, pc = "done"
               PROVE  LET order[k \in 0 .. Len(parts)] ==
                              IF k = 0 THEN << >> ELSE order[k - 1] \o parts[k]
                      IN  order[Len(parts)] = [i \in Numbers |-> i]
    BY DEF EverySegmentOnce
  <2> DEFINE n == Len(segments)
             m == Len(parts)
             Is(g) == g = [k \in 0 .. m |-> IF k = 0 THEN << >> ELSE g[k - 1] \o parts[k]]
             order == CHOOSE g : Is(g)
             tiles == [k \in 0 .. m |-> Tile(1, EndOf(parts, k))]
             T == {k \in 0 .. m : order[k] = tiles[k]}
  <2>1. n \in Nat /\ m \in Nat
    BY CostsType, LenProperties DEF Inv, TypeOK
  <2>2. \A k \in 1 .. m : tiles[k - 1] \o parts[k] = tiles[k]
    <3> SUFFICES ASSUME NEW k \in 1 .. m PROVE tiles[k - 1] \o parts[k] = tiles[k]
      OBVIOUS
    <3>1. PICK a, b : a = EndOf(parts, k - 1) /\ b = EndOf(parts, k)
      OBVIOUS
    <3>2. k - 1 \in 0 .. m /\ k \in 0 .. m
      BY <2>1
    <3>3. a \in 0 .. n /\ b \in 0 .. n /\ a < b /\ parts[k] = Tile(a + 1, b)
      BY <3>1, <3>2, EndsInside DEF Inv, Tiled
    <3>4. a \in 0 .. n /\ b \in a .. n
      BY <2>1, <3>3
    <3>5. Tile(1, a) \o Tile(a + 1, b) = Tile(1, b)
      BY <2>1, <3>4, TileConcat
    <3> QED
      BY <3>1, <3>2, <3>3, <3>5
  <2>3. tiles[0] = << >>
    <3>1. Tile(1, 0) = << >>
      <4>1. 1 \in Nat \ {0} /\ 1 - 1 = 0
        OBVIOUS
      <4> QED
        BY <4>1, TileOfNone
    <3> QED
      BY <2>1, <3>1 DEF EndOf
  <2>4. Is(tiles)
    <3> DEFINE longer == [k \in 0 .. m |-> IF k = 0 THEN << >> ELSE tiles[k - 1] \o parts[k]]
    <3>1. tiles = [k \in 0 .. m |-> tiles[k]]
      OBVIOUS
    <3> HIDE DEF tiles
    <3>2. ASSUME NEW k \in 0 .. m
          PROVE  tiles[k] = IF k = 0 THEN << >> ELSE tiles[k - 1] \o parts[k]
      <4>1. CASE k = 0
        BY <2>3, <4>1
      <4>2. CASE k # 0
        <5>1. k \in 1 .. m
          BY <2>1, <4>2
        <5> QED
          BY <2>2, <4>2, <5>1
      <4> QED
        BY <4>1, <4>2
    <3>3. [k \in 0 .. m |-> tiles[k]] = longer
      BY <3>2
    <3> QED
      BY <3>1, <3>3
  <2>5. Is(order)
    <3>1. \E g : Is(g)
      <4> HIDE DEF tiles
      <4> QED
        BY <2>4
    <3> QED
      BY <3>1
  <2>6. order[m] = tiles[m]
    <3>1. 0 \in T
      <4> HIDE DEF tiles, order
      <4> QED
        BY <2>1, <2>3, <2>5
    <3>2. ASSUME NEW k \in 0 .. m - 1, k \in T PROVE k + 1 \in T
      <4> HIDE DEF tiles, order
      <4>1. k + 1 \in 1 .. m /\ k + 1 \in 0 .. m /\ (k + 1) - 1 = k
        BY <2>1
      <4>2. order[k + 1] = order[k] \o parts[k + 1]
        BY <2>5, <4>1
      <4> QED
        BY <2>2, <3>2, <4>1, <4>2
    <3> HIDE DEF T
    <3>3. \A k \in 0 .. m : k \in T
      BY <2>1, <3>1, <3>2, UpTo
    <3>4. m \in 0 .. m
      BY <2>1
    <3> QED
      BY <3>3, <3>4 DEF T
  <2>7. tiles[m] = [i \in Numbers |-> i]
    <3>1. EndOf(parts, m) = n
      BY DEF Inv, InHand, Closed
    <3>2. n - 1 + 1 = n /\ \A k \in 1 .. n : 1 + k - 1 = k
      BY <2>1
    <3>3. m \in 0 .. m
      BY <2>1
    <3> QED
      BY <3>1, <3>2, <3>3 DEF Tile, Numbers
  <2>8. order[m] = [i \in Numbers |-> i]
    BY <2>6, <2>7
  <2> QED
    BY <2>8
<1> QED
  BY BudgetInvariant, <1>1, PTL

\* The estimate of a request: what the prompt, the part and its spaces cost.
LEMMA RequestCosts ==
    ASSUME Inputs, copies = 1, NEW part, NEW cost \in Int,
           SumOver(segments, part) \in Nat, Len(part) \in Nat,
           SumOver(segments, part) <= 3 * cost
    PROVE  RequestTokens(part) <= EstimateTokens(prompt) + cost + EstimateTokens(Len(part) - 1)
<1> DEFINE chars == SumOver(segments, part)
           len == Len(part)
<1>1. prompt \in Nat /\ chars \in Nat /\ len \in Nat /\ chars <= 3 * cost
  BY DEF Inputs
<1> HIDE DEF chars, len
<1>2. JoinedChars(part) = chars + len - 1
  BY DEF JoinedChars, chars, len
<1>3. copies * (JoinedChars(part) - PlaceholderChars) = chars + len - 1 - PlaceholderChars
  BY <1>1, <1>2 DEF PlaceholderChars
<1>4. EstimateTokens(prompt + (chars + len - 1 - PlaceholderChars))
        <= EstimateTokens(prompt) + cost + EstimateTokens(len - 1)
  BY <1>1 DEF EstimateTokens, CharsPerToken, PlaceholderChars
<1> QED
  BY <1>3, <1>4 DEF RequestTokens, len

\* By how much a part can miss the budget.  split_for_budget joins segments with spaces
\* it has not counted, so that a part of several may exceed the budget, which
\* tests/test_summarize.py:56 says happens only when a segment alone does.  The request
\* then exceeds the context by no more than the tokens of those spaces, provided that the
\* context has room for the minimum budget, that the template names the transcript once
\* and that every segment fits by itself.
OverrunIsSpaces ==
    pc = "done" /\ copies = 1 /\ Remaining >= MinimumBudget =>
        \A k \in DOMAIN parts :
            \/ \E i \in Numbers : EstimateTokens(segments[i]) > budget
            \/ RequestTokens(parts[k]) + ResponseReserve
                 <= context + EstimateTokens(Len(parts[k]) - 1)

\* The spaces are all that input_budget and split_for_budget leave out: the overrun of a
\* request never comes from the prompt, the placeholder or the rounding of estimates.
THEOREM OverrunIsBounded == Spec => []OverrunIsSpaces
<1>1. Inv => OverrunIsSpaces
  <2> SUFFICES ASSUME Inv, pc = "done", copies = 1, Remaining >= MinimumBudget,
                      NEW k \in DOMAIN parts,
                      ~ \E i \in Numbers : EstimateTokens(segments[i]) > budget
               PROVE  RequestTokens(parts[k]) + ResponseReserve
                        <= context + EstimateTokens(Len(parts[k]) - 1)
    BY DEF OverrunIsSpaces
  <2> DEFINE n == Len(segments)
             part == parts[k]
             cost == Cost(part)
  <2>1. n \in Nat /\ Len(parts) \in Nat /\ k \in 1 .. Len(parts) /\ Inputs
    BY CostsType, LenProperties DEF Inv, TypeOK
  <2>2. PICK a, b : a = EndOf(parts, k - 1) + 1 /\ b = EndOf(parts, k)
    OBVIOUS
  <2>3. a \in Numbers /\ b \in a .. n /\ part = Tile(a, b)
    <3>1. k - 1 \in 0 .. Len(parts) /\ k \in 0 .. Len(parts)
      BY <2>1
    <3>2. EndOf(parts, k - 1) \in 0 .. n /\ EndOf(parts, k) \in 0 .. n
      BY <3>1, EndsInside
    <3> QED
      BY <2>1, <2>2, <3>2 DEF Inv, Tiled, Numbers
  <2>4. a <= a /\ b \in a - 1 .. n /\ a \in 1 .. n + 1
    BY <2>1, <2>3 DEF Numbers
  <2>5. /\ cost \in Nat /\ SumOver(segments, part) \in Nat
        /\ SumOver(segments, part) <= 3 * cost
    BY <2>1, <2>3, <2>4, TileCosts
  <2>6. Len(part) = b - a + 1
    BY <2>1, <2>3, <2>4, TileType
  <2>7. budget = Remaining
    <3>1. budget = InputBudget
      BY DEF Inv, InHand
    <3>2. Remaining \in Int /\ MinimumBudget \in Int
      BY <2>1, ReserveAssumption, MinimumAssumption
      DEF Inputs, Remaining, EstimateTokens, CharsPerToken
    <3> QED
      BY <3>1, <3>2 DEF InputBudget
  <2>8. cost <= budget
    <3>1. Fits(part)
      BY <2>1 DEF Inv, Sized, AllFit
    <3>2. CASE Len(part) = 1
      <4>1. b = a
        <5>1. b - a + 1 = 1
          BY <2>6, <3>2
        <5>2. a \in Int /\ b \in Int
          BY <2>1, <2>3 DEF Numbers
        <5> QED
          BY <5>1, <5>2
      <4>2. part = <<a>> /\ cost = EstimateTokens(segments[a])
        BY <2>1, <2>3, <4>1, TileOfOne
      <4>3. budget \in Nat
        BY DEF Inv, TypeOK
      <4> QED
        BY <2>3, <2>5, <4>2, <4>3
    <3> QED
      BY <3>1, <3>2 DEF Fits
  <2>9. Len(part) \in Nat
    BY <2>1, <2>3, <2>6 DEF Numbers
  <2> DEFINE spaces == EstimateTokens(Len(part) - 1)
  <2>10. RequestTokens(part) <= EstimateTokens(prompt) + cost + spaces
    <3> HIDE DEF part, cost
    <3>1. cost \in Int
      BY <2>5
    <3> QED
      BY <2>1, <2>5, <2>9, <3>1, RequestCosts
  <2>11. /\ spaces \in Int /\ EstimateTokens(prompt) \in Int /\ context \in Int
         /\ cost \in Int /\ ResponseReserve \in Int
    BY <2>1, <2>5, <2>9, ReserveAssumption DEF Inputs, EstimateTokens, CharsPerToken
  <2>12. RequestTokens(part) \in Int
    <3>1. JoinedChars(part) \in Int
      BY <2>5, <2>9 DEF JoinedChars
    <3> QED
      BY <2>1, <3>1 DEF Inputs, RequestTokens, EstimateTokens, CharsPerToken, PlaceholderChars
  <2>13. cost <= context - EstimateTokens(prompt) - ResponseReserve
    BY <2>7, <2>8 DEF Remaining
  <2> HIDE DEF part, cost, spaces
  <2>14. RequestTokens(part) + ResponseReserve <= context + spaces
    BY <2>10, <2>11, <2>12, <2>13
  <2> QED
    BY <2>14 DEF part, spaces
<1> QED
  BY BudgetInvariant, <1>1, PTL

=============================================================================
