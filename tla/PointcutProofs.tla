---------------------------- MODULE PointcutProofs ----------------------------
(***************************************************************************)
(* Proofs about the pointcut language, for every set of tokens, every      *)
(* length of the texts and every bound: the macros' parser reads the       *)
(* grammar as it is meant, the driver's parser answers the same texts the  *)
(* same, both accept nothing but well-formed expressions, and the          *)
(* attributes' matcher and the driver's agree on what an expression says.  *)
(*                                                                         *)
(* The grammar is a set of readings, built from leaves by the rules; both  *)
(* parsers work on a text by the depth of its brackets. What brackets do   *)
(* to a text and its parts comes first, then what the grammar's texts look *)
(* like at each operator, then each parser by the length of the text.      *)
(***************************************************************************)
EXTENDS MCPointcut, DriverProofs

-----------------------------------------------------------------------------
(* Open brackets *)

\* A token opens or closes at most one bracket.
LEMMA TurnIsSmall == \A t : Turn(t) \in -1..1
BY DEF Turn

Turns(s) == [i \in 1..Len(s) |-> [v \in Int |-> v + Turn(s[i])]]

\* Depth is what its recursion says.
LEMMA DepthIsDefined ==
  ASSUME NEW X, NEW s \in Seq(X)
  PROVE  Recurses(Depth(s), Int, 0, Len(s), Turns(s))
<1> DEFINE n == Len(s)
           step == Turns(s)
           Def(f) == [i \in 0..n |-> IF i = 0 THEN 0 ELSE f[i - 1] + Turn(s[i])]
           depth == CHOOSE f : f = Def(f)
<1>1. 0 \in Int /\ n \in Nat /\ StepsIn(Int, n, step)
  BY TurnIsSmall DEF StepsIn, Turns
<1>2. \A i \in 1..n, v \in Int : step[i][v] = v + Turn(s[i])
  BY DEF Turns
<1> HIDE DEF n, step
<1>3. PICK g : Recurses(g, Int, 0, n, step)
  BY <1>1, Recursion, Zenon
<1>4. g = Def(g)
  <2>1. \A i \in 1..n : g[i] = g[i - 1] + Turn(s[i])
    BY <1>1, <1>2, <1>3 DEF Recurses
  <2>2. ASSUME NEW i \in 0..n  PROVE g[i] = Def(g)[i]
    BY <1>1, <1>3, <2>1 DEF Recurses
  <2>3. g = [i \in 0..n |-> g[i]]
    BY <1>3 DEF Recurses
  <2>4. Def(g) = [i \in 0..n |-> Def(g)[i]]
    OBVIOUS
  <2> QED
    <3> HIDE DEF Def
    <3> QED  BY <2>2, <2>3, <2>4
<1>5. depth = Def(depth)
  <2> HIDE DEF Def
  <2> QED  BY <1>4
<1> HIDE DEF depth
<1>6. Recurses(depth, Int, 0, n, step)
  <2>1. \A i \in 0..n : depth[i] = Def(depth)[i]
    BY <1>5
  <2>2. depth[0] = 0 /\ IsFunctionOn(depth, 0..n)
    BY <1>1, <1>5, <2>1 DEF IsFunctionOn
  <2>3. \A i \in 1..n : depth[i - 1] \in Int => depth[i] = step[i][depth[i - 1]]
    BY <1>1, <1>2, <2>1
  <2> QED  BY <1>1, <2>2, <2>3, RecursionStays, Zenon
<1>7. Depth(s) = depth
  BY DEF Depth, depth, n
<1> QED  BY <1>6, <1>7 DEF n, step

\* The brackets are counted token by token.
LEMMA DepthIs ==
  ASSUME NEW X, NEW s \in Seq(X)
  PROVE  /\ Depth(s) \in [0..Len(s) -> Int] /\ Depth(s)[0] = 0
         /\ \A i \in 1..Len(s) : Depth(s)[i] = Depth(s)[i - 1] + Turn(s[i])
<1>1. Recurses(Depth(s), Int, 0, Len(s), Turns(s))
  BY DepthIsDefined, Zenon
<1> DEFINE n == Len(s)
           d == Depth(s)
<1>2. \A i \in 1..n, v \in Int : Turns(s)[i][v] = v + Turn(s[i])
  BY Zenon DEF Turns
<1> HIDE DEF n, d
<1>3. d \in [0..n -> Int] /\ d[0] = 0 /\ \A i \in 1..n : d[i] = Turns(s)[i][d[i - 1]]
  BY <1>1, Zenon DEF Recurses, n, d
<1>4. n \in Nat
  BY DEF n
<1>5. ASSUME NEW i \in 1..n  PROVE d[i] = d[i - 1] + Turn(s[i])
  <2>1. d[i - 1] \in Int
    BY <1>3, <1>4
  <2> QED  BY <1>2, <1>3, <2>1
<1> QED  BY <1>3, <1>5 DEF n, d

\* A text that stands in another one: its tokens are those behind the first a.
PartOf(u, s, a) ==
  /\ a \in Nat /\ a + Len(u) <= Len(s)
  /\ \A i \in 1..Len(u) : u[i] = s[a + i]

\* It brings its depths to that of the place where it stands.
DepthsFrom(u, s, a) ==
  \A i \in 0..Len(u) : Depth(s)[a + i] = Depth(s)[a] + Depth(u)[i]

\* Inside a part, the depths are the part's own, raised by the depth where it stands.
LEMMA DepthOfPart ==
  ASSUME NEW X, NEW s \in Seq(X), NEW u \in Seq(X), NEW a, PartOf(u, s, a)
  PROVE  DepthsFrom(u, s, a)
<1> DEFINE ds == Depth(s)
           du == Depth(u)
           n == Len(u)
           T == {i \in 0..n : ds[a + i] = ds[a] + du[i]}
<1>1. /\ ds \in [0..Len(s) -> Int] /\ ds[0] = 0
      /\ \A i \in 1..Len(s) : ds[i] = ds[i - 1] + Turn(s[i])
  BY DepthIs
<1>2. /\ du \in [0..n -> Int] /\ du[0] = 0
      /\ \A i \in 1..n : du[i] = du[i - 1] + Turn(u[i])
  BY DepthIs
<1>3. a \in Nat /\ n \in Nat /\ Len(s) \in Nat /\ a + n <= Len(s) /\ \A i \in 1..n : u[i] = s[a + i]
  BY DEF PartOf
<1> HIDE DEF ds, du, n
<1>4. 0 \in T
  <2>1. a \in 0..Len(s) /\ 0 \in 0..n /\ a + 0 = a
    BY <1>3
  <2>2. ds[a] \in Int
    BY <1>1, <2>1
  <2> QED  BY <1>2, <2>1, <2>2
<1>5. ASSUME NEW i \in 0..(n - 1), i \in T  PROVE i + 1 \in T
  <2>1. /\ i + 1 \in 1..n /\ a + (i + 1) \in 1..Len(s)
        /\ (i + 1) - 1 = i /\ (a + (i + 1)) - 1 = a + i
    BY <1>3
  <2>2. du[i + 1] = du[i] + Turn(u[i + 1])
    BY <1>2, <2>1
  <2>3. ds[a + (i + 1)] = ds[a + i] + Turn(s[a + (i + 1)])
    BY <1>1, <2>1
  <2>4. u[i + 1] = s[a + (i + 1)]
    BY <1>3, <2>1
  <2>5. ds[a + i] = ds[a] + du[i]
    BY <1>5
  <2>6. a \in 0..Len(s) /\ i \in 0..n
    BY <1>3
  <2>7. ds[a] \in Int /\ du[i] \in Int /\ Turn(u[i + 1]) \in Int
    <3>1. ds[a] \in Int
      BY <1>1, <2>6
    <3>2. du[i] \in Int
      BY <1>2, <2>6
    <3> QED  BY <3>1, <3>2, TurnIsSmall
  <2> HIDE DEF T
  <2>8. ds[a + (i + 1)] = ds[a] + du[i + 1]
    BY <2>2, <2>3, <2>4, <2>5, <2>7
  <2> QED  BY <2>8, <2>1 DEF T
<1>6. 0..n \subseteq T
  <2> HIDE DEF T
  <2> QED  BY <1>3, <1>4, <1>5, InductionTo
<1> QED  BY <1>6 DEF ds, du, n, DepthsFrom

-----------------------------------------------------------------------------
(* Texts in texts *)

\* What stands between two places of a text.
LEMMA SubSeqIsPart ==
  ASSUME NEW X, NEW s \in Seq(X), NEW i \in 1..(Len(s) + 1), NEW j \in (i - 1)..Len(s)
  PROVE  /\ SubSeq(s, i, j) \in Seq(X) /\ Len(SubSeq(s, i, j)) = j - i + 1
         /\ PartOf(SubSeq(s, i, j), s, i - 1)
<1> DEFINE n == Len(s)
           u == SubSeq(s, i, j)
<1>1. /\ n \in Nat /\ i \in Int /\ i >= 1 /\ j \in Int /\ i - 1 <= j /\ j <= n
      /\ \A k \in i..j : k \in 1..n
  OBVIOUS
<1>2. \A k \in i..j : s[k] \in X
  BY <1>1
<1> DEFINE m == j - i + 1
<1>3. u = [k \in 1..m |-> s[k + i - 1]]
  OBVIOUS
<1>4. m \in Nat /\ \A k \in 1..m : s[k + i - 1] \in X
  <2>1. m \in Nat
    BY <1>1
  <2>2. ASSUME NEW k \in 1..m  PROVE s[k + i - 1] \in X
    <3>1. k + i - 1 \in i..j
      BY <1>1
    <3> QED  BY <1>2, <3>1
  <2> QED  BY <2>1, <2>2
<1>5. u \in Seq(X) /\ Len(u) = m /\ \A k \in 1..m : u[k] = s[k + i - 1]
  <2> HIDE DEF u, m
  <2> QED  BY <1>3, <1>4
<1>6. i - 1 + Len(u) <= n
  <2> HIDE DEF u, n
  <2> QED  BY <1>1, <1>5
<1>7. ASSUME NEW k \in 1..Len(u)  PROVE u[k] = s[(i - 1) + k]
  <2> HIDE DEF u, n
  <2>1. k \in 1..m /\ k + i - 1 = (i - 1) + k
    BY <1>1, <1>5
  <2> QED  BY <1>5, <2>1
<1> QED  BY <1>1, <1>6, <1>7, <1>5 DEF PartOf

\* Two texts with a token in between.
Joins(s, l, op, r) ==
  /\ Len(s) = Len(l) + 1 + Len(r) /\ s[Len(l) + 1] = op
  /\ PartOf(l, s, 0) /\ PartOf(r, s, Len(l) + 1)

\* Concatenation puts the parts in their places.
LEMMA JoinedIs ==
  ASSUME NEW X, NEW l \in Seq(X), NEW op \in X, NEW r \in Seq(X),
         NEW s, s = l \o <<op>> \o r
  PROVE  s \in Seq(X) /\ Joins(s, l, op, r)
<1> DEFINE k == Len(l)
           m == Len(r)
<1>1. s \in Seq(X) /\ Len(s) = k + 1 + m /\ k \in Nat /\ m \in Nat
  OBVIOUS
<1>2. \A i \in 1..k : s[i] = l[i]
  OBVIOUS
<1>3. s[k + 1] = op
  OBVIOUS
<1>4. \A i \in 1..m : s[(k + 1) + i] = r[i]
  OBVIOUS
<1>5. PartOf(l, s, 0) /\ PartOf(r, s, k + 1)
  BY <1>1, <1>2, <1>4 DEF PartOf
<1> QED  BY <1>1, <1>3, <1>5 DEF Joins

\* A part is a subsequence.
LEMMA PartIsSubSeq ==
  ASSUME NEW X, NEW s \in Seq(X), NEW u \in Seq(X), NEW a, PartOf(u, s, a)
  PROVE  SubSeq(s, a + 1, a + Len(u)) = u
<1> DEFINE n == Len(u)
           v == SubSeq(s, a + 1, a + n)
<1>1. a \in Nat /\ n \in Nat /\ Len(s) \in Nat /\ a + n <= Len(s)
  BY DEF PartOf
<1>2. \A k \in 1..n : u[k] = s[a + k]
  BY DEF PartOf
<1> HIDE DEF n
<1>3. a + 1 \in 1..(Len(s) + 1) /\ a + n \in ((a + 1) - 1)..Len(s)
  BY <1>1
<1>4. v \in Seq(X) /\ Len(v) = (a + n) - (a + 1) + 1 /\ PartOf(v, s, (a + 1) - 1)
  BY <1>3, SubSeqIsPart, Zenon
<1> HIDE DEF v
<1>5. Len(v) = n /\ (a + 1) - 1 = a
  BY <1>1, <1>4
<1>6. \A k \in 1..n : v[k] = u[k]
  BY <1>2, <1>4, <1>5 DEF PartOf
<1>7. Len(u) = n
  BY DEF n
<1> QED  BY <1>4, <1>5, <1>6, <1>7, SeqEqual, Zenon DEF v, n

\* A text is what stands before and what stands behind each of its tokens.
LEMMA SplitIs ==
  ASSUME NEW X, NEW s \in Seq(X), NEW i \in 1..Len(s)
  PROVE  LET l == SubSeq(s, 1, i - 1)
             r == SubSeq(s, i + 1, Len(s))
         IN  /\ l \in Seq(X) /\ r \in Seq(X) /\ s[i] \in X /\ s = l \o <<s[i]>> \o r
             /\ Len(l) = i - 1 /\ Len(r) = Len(s) - i
             /\ PartOf(l, s, 0) /\ PartOf(r, s, i)
<1> DEFINE l == SubSeq(s, 1, i - 1)
           r == SubSeq(s, i + 1, Len(s))
           n == Len(s)
<1>1. n \in Nat /\ i \in Nat /\ i >= 1 /\ i <= n /\ s[i] \in X
  OBVIOUS
<1>2. l \in Seq(X) /\ Len(l) = i - 1 /\ PartOf(l, s, 0)
  <2>1. 1 \in 1..(n + 1) /\ i - 1 \in (1 - 1)..n
    BY <1>1
  <2>2. l \in Seq(X) /\ Len(l) = (i - 1) - 1 + 1 /\ PartOf(l, s, 1 - 1)
    BY <2>1, SubSeqIsPart, Zenon
  <2> HIDE DEF l, n
  <2>3. (i - 1) - 1 + 1 = i - 1 /\ 1 - 1 = 0
    BY <1>1
  <2> QED  BY <2>2, <2>3
<1>3. r \in Seq(X) /\ Len(r) = n - i /\ PartOf(r, s, i)
  <2>1. i + 1 \in 1..(n + 1) /\ n \in ((i + 1) - 1)..n
    BY <1>1
  <2>2. r \in Seq(X) /\ Len(r) = n - (i + 1) + 1 /\ PartOf(r, s, (i + 1) - 1)
    BY <2>1, SubSeqIsPart, Zenon
  <2> HIDE DEF r, n
  <2>3. n - (i + 1) + 1 = n - i /\ (i + 1) - 1 = i
    BY <1>1
  <2> QED  BY <2>2, <2>3
<1>4. s = l \o <<s[i]>> \o r
  <2> DEFINE op == s[i]
  <2> HIDE DEF l, r, op
  <2>1. op \in X
    BY <1>1 DEF op
  <2> SUFFICES ASSUME NEW v, v = l \o <<op>> \o r  PROVE s = v
    BY DEF op
  <2>2. /\ v \in Seq(X) /\ Len(v) = Len(l) + 1 + Len(r) /\ v[Len(l) + 1] = op
        /\ PartOf(l, v, 0) /\ PartOf(r, v, Len(l) + 1)
    <3>1. l \in Seq(X) /\ r \in Seq(X) /\ v = l \o <<op>> \o r
      BY <1>2, <1>3
    <3>2. v \in Seq(X) /\ Joins(v, l, op, r)
      BY <2>1, <3>1, JoinedIs, Zenon
    <3> QED  BY <3>2, Zenon DEF Joins
  <2> HIDE DEF n
  <2>3. Len(v) = n
    BY <1>1, <1>2, <1>3, <2>2
  <2>4. ASSUME NEW k \in 1..n  PROVE s[k] = v[k]
    <3>1. CASE k = i
      <4>1. v[i] = op
        BY <1>1, <1>2, <2>2
      <4> QED  BY <3>1, <4>1 DEF op
    <3>2. CASE k < i
      <4>1. k \in 1..(i - 1) /\ 0 + k = k
        BY <1>1, <3>2
      <4>2. l[k] = s[0 + k] /\ l[k] = v[0 + k]
        BY <1>2, <2>2, <4>1 DEF PartOf
      <4> QED  BY <4>1, <4>2
    <3>3. CASE k > i
      <4>1. k - i \in 1..(n - i) /\ i + (k - i) = k /\ Len(l) + 1 = i
        BY <1>1, <1>2, <3>3
      <4>2. r[k - i] = s[i + (k - i)] /\ r[k - i] = v[i + (k - i)]
        BY <1>3, <2>2, <4>1 DEF PartOf
      <4> QED  BY <4>1, <4>2
    <3>4. k < i \/ k = i \/ k > i
      BY <1>1
    <3> QED  BY <3>1, <3>2, <3>3, <3>4
  <2>5. Len(s) = n
    BY DEF n
  <2> QED  BY <2>2, <2>3, <2>4, <2>5, SeqEqual, Zenon
<1> QED  BY <1>1, <1>2, <1>3, <1>4

\* A text behind one token, and one between two.
Prefixed(s, op, r) == Len(s) = Len(r) + 1 /\ s[1] = op /\ PartOf(r, s, 1)

Encloses(s, open, r, close) ==
  Len(s) = Len(r) + 2 /\ s[1] = open /\ s[Len(s)] = close /\ PartOf(r, s, 1)

\* A token before a text.
LEMMA FollowedIs ==
  ASSUME NEW X, NEW op \in X, NEW r \in Seq(X), NEW s, s = <<op>> \o r
  PROVE  /\ s \in Seq(X) /\ s # << >> /\ Prefixed(s, op, r)
         /\ Head(s) = op /\ Tail(s) = r
<1>1. s \in Seq(X) /\ Len(s) = Len(r) + 1 /\ Len(r) \in Nat /\ s[1] = op
  OBVIOUS
<1>2. \A i \in 1..Len(r) : r[i] = s[1 + i]
  OBVIOUS
<1>3. s # << >> /\ Head(s) = s[1]
  BY <1>1
<1>4. Tail(s) = r
  <2>1. /\ Tail(s) \in Seq(X) /\ Len(Tail(s)) = Len(s) - 1
        /\ \A i \in 1..Len(Tail(s)) : Tail(s)[i] = s[i + 1]
    BY <1>1, <1>3, HeadTailProperties, Zenon
  <2> DEFINE u == Tail(s)
  <2> HIDE DEF u
  <2>2. Len(u) = Len(r) /\ \A i \in 1..Len(u) : u[i] = r[i]
    BY <1>1, <1>2, <2>1 DEF u
  <2> QED  BY <2>1, <2>2, SeqEqual, Zenon DEF u
<1> QED  BY <1>1, <1>2, <1>3, <1>4 DEF Prefixed, PartOf

\* A token before and one behind a text.
LEMMA EnclosedIs ==
  ASSUME NEW X, NEW open \in X, NEW r \in Seq(X), NEW close \in X,
         NEW s, s = <<open>> \o r \o <<close>>
  PROVE  s \in Seq(X) /\ s # << >> /\ Encloses(s, open, r, close) /\ Inside(s) = r
<1> DEFINE n == Len(s)
           m == Len(r)
<1>1. s \in Seq(X) /\ n = m + 2 /\ m \in Nat /\ s[1] = open /\ s[n] = close
  OBVIOUS
<1>2. \A i \in 1..m : r[i] = s[1 + i]
  OBVIOUS
<1>3. PartOf(r, s, 1)
  BY <1>1, <1>2 DEF PartOf
<1>4. SubSeq(s, 1 + 1, 1 + m) = r
  BY <1>1, <1>3, PartIsSubSeq, Zenon
<1>5. 1 + 1 = 2 /\ 1 + m = n - 1
  BY <1>1
<1>6. SubSeq(s, 2, n - 1) = r
  BY <1>4, <1>5
<1> QED  BY <1>1, <1>3, <1>6 DEF Encloses, Inside

\* The depths in a text and in its parts.
SameDepths(u, s, a) == \A i \in 0..Len(u) : Depth(s)[a + i] = Depth(u)[i]

\* The depths of both sides of an operator, if it stands outside of brackets.
LEMMA DepthJoined ==
  ASSUME NEW X, NEW s \in Seq(X), NEW l \in Seq(X), NEW r \in Seq(X),
         NEW op, Joins(s, l, op, r), Turn(op) = 0
  PROVE  /\ SameDepths(l, s, 0)
         /\ Depth(s)[Len(l)] = 0 => SameDepths(r, s, Len(l) + 1)
<1> DEFINE ds == Depth(s)
           dl == Depth(l)
           dr == Depth(r)
           k == Len(l)
           m == Len(r)
<1>1. /\ k \in Nat /\ m \in Nat /\ Len(s) = k + 1 + m /\ s[k + 1] = op
      /\ PartOf(l, s, 0) /\ PartOf(r, s, k + 1)
  BY DEF Joins
<1>2. /\ ds \in [0..Len(s) -> Int] /\ ds[0] = 0
      /\ \A i \in 1..Len(s) : ds[i] = ds[i - 1] + Turn(s[i])
  BY DepthIs
<1>3. dl \in [0..k -> Int] /\ dr \in [0..m -> Int]
  BY DepthIs
<1>4. DepthsFrom(l, s, 0) /\ DepthsFrom(r, s, k + 1)
  BY <1>1, DepthOfPart, Zenon
<1>5. \A i \in 0..k : ds[0 + i] = ds[0] + dl[i]
  BY <1>4, Zenon DEF DepthsFrom
<1>6. \A i \in 0..m : ds[(k + 1) + i] = ds[k + 1] + dr[i]
  BY <1>4, Zenon DEF DepthsFrom
<1> HIDE DEF ds, dl, dr, k, m
<1>7. \A i \in 0..k : ds[0 + i] = dl[i]
  <2> SUFFICES ASSUME NEW i \in 0..k  PROVE ds[0 + i] = dl[i]
    OBVIOUS
  <2>1. dl[i] \in Int
    BY <1>1, <1>3
  <2> QED  BY <1>2, <1>5, <2>1
<1>8. ds[k + 1] = ds[k]
  <2>1. k + 1 \in 1..Len(s) /\ (k + 1) - 1 = k /\ k \in 0..Len(s)
    BY <1>1
  <2>2. ds[k + 1] = ds[k] + Turn(op) /\ ds[k] \in Int
    BY <1>1, <1>2, <2>1
  <2> QED  BY <2>2
<1>9. ASSUME ds[k] = 0, NEW i \in 0..m  PROVE ds[(k + 1) + i] = dr[i]
  <2>1. dr[i] \in Int
    BY <1>3
  <2> QED  BY <1>6, <1>8, <1>9, <2>1
<1> QED  BY <1>7, <1>9 DEF SameDepths, ds, dl, dr, k, m

RaisedDepths(r, s, d) == \A i \in 0..Len(r) : Depth(s)[1 + i] = d + Depth(r)[i]

\* A token before a text raises its depths by what it opens.
LEMMA DepthFollowed ==
  ASSUME NEW X, NEW s \in Seq(X), NEW r \in Seq(X), PartOf(r, s, 1), Len(s) > 0
  PROVE  RaisedDepths(r, s, Turn(s[1]))
<1> DEFINE ds == Depth(s)
           dr == Depth(r)
<1>1. /\ ds \in [0..Len(s) -> Int] /\ ds[0] = 0
      /\ \A i \in 1..Len(s) : ds[i] = ds[i - 1] + Turn(s[i])
  BY DepthIs
<1>2. DepthsFrom(r, s, 1)
  BY DepthOfPart, Zenon
<1>3. \A i \in 0..Len(r) : ds[1 + i] = ds[1] + dr[i]
  BY <1>2, Zenon DEF DepthsFrom
<1> HIDE DEF ds, dr
<1>4. ds[1] = Turn(s[1])
  <2>1. 1 \in 1..Len(s) /\ 1 - 1 = 0
    OBVIOUS
  <2>2. ds[1] = ds[0] + Turn(s[1]) /\ Turn(s[1]) \in Int
    BY <1>1, <2>1, TurnIsSmall
  <2> QED  BY <1>1, <2>2
<1> QED  BY <1>3, <1>4 DEF RaisedDepths, ds, dr

\* Whether brackets match, and what stands outside of them, is decided part by part.
LEMMA BalancedJoin ==
  ASSUME NEW X, NEW s \in Seq(X), NEW l \in Seq(X), NEW r \in Seq(X),
         NEW op, Joins(s, l, op, r), Turn(op) = 0, Balanced(l), Balanced(r)
  PROVE  Balanced(s) /\ Depth(s)[Len(l)] = 0
<1> DEFINE ds == Depth(s)
           dl == Depth(l)
           dr == Depth(r)
           k == Len(l)
           m == Len(r)
           n == Len(s)
<1>1. k \in Nat /\ m \in Nat /\ n = k + 1 + m
  BY DEF Joins
<1>2. /\ \A i \in 0..k : ds[i] = dl[i]
      /\ ds[k] = 0 => \A i \in 0..m : ds[k + 1 + i] = dr[i]
  <2>1. SameDepths(l, s, 0) /\ (ds[k] = 0 => SameDepths(r, s, k + 1))
    BY DepthJoined, Zenon
  <2>2. \A i \in 0..k : ds[0 + i] = dl[i] /\ 0 + i = i
    BY <2>1 DEF SameDepths
  <2>3. ds[k] = 0 => \A i \in 0..m : ds[k + 1 + i] = dr[i]
    BY <2>1, Zenon DEF SameDepths
  <2> QED  BY <2>2, <2>3
<1>3. dr[0] = 0 /\ dl[k] = 0 /\ dr[m] = 0
  BY DepthIs, Zenon DEF Balanced
<1>4. (\A i \in 1..k : dl[i] >= 0) /\ (\A i \in 1..m : dr[i] >= 0)
  BY DEF Balanced
<1> HIDE DEF ds, dl, dr, k, m, n
<1>5. ds[k] = 0
  BY <1>1, <1>2, <1>3
<1>6. \A i \in 0..m : ds[k + 1 + i] = dr[i]
  BY <1>2, <1>5
<1>7. ds[n] = 0
  BY <1>1, <1>3, <1>6
<1>8. ASSUME NEW i \in 1..n  PROVE ds[i] >= 0
  <2>1. CASE i <= k
    <3>1. i \in 1..k /\ i \in 0..k
      BY <1>1, <2>1
    <3> QED  BY <1>2, <1>4, <3>1
  <2>2. CASE i > k
    <3>1. i - (k + 1) \in 0..m /\ k + 1 + (i - (k + 1)) = i
      BY <1>1, <2>2
    <3>2. ds[i] = dr[i - (k + 1)]
      BY <1>6, <3>1
    <3>3. dr[i - (k + 1)] >= 0
      <4>1. i - (k + 1) = 0 \/ i - (k + 1) \in 1..m
        BY <1>1, <3>1
      <4> QED  BY <1>3, <1>4, <4>1
    <3> QED  BY <3>2, <3>3
  <2> QED  BY <1>1, <2>1, <2>2
<1> QED  BY <1>5, <1>7, <1>8 DEF Balanced, ds, k, n

\* An operator outside of brackets splits a text with matching brackets in two such.
LEMMA JoinBalanced ==
  ASSUME NEW X, NEW s \in Seq(X), NEW l \in Seq(X), NEW r \in Seq(X),
         NEW op, Joins(s, l, op, r), Turn(op) = 0, Balanced(s), Depth(s)[Len(l)] = 0
  PROVE  Balanced(l) /\ Balanced(r)
<1> DEFINE ds == Depth(s)
           dl == Depth(l)
           dr == Depth(r)
           k == Len(l)
           m == Len(r)
           n == Len(s)
<1>1. k \in Nat /\ m \in Nat /\ n = k + 1 + m
  BY DEF Joins
<1>2. /\ \A i \in 0..k : ds[i] = dl[i]
      /\ ds[k] = 0 => \A i \in 0..m : ds[k + 1 + i] = dr[i]
  <2>1. SameDepths(l, s, 0) /\ (ds[k] = 0 => SameDepths(r, s, k + 1))
    BY DepthJoined, Zenon
  <2>2. \A i \in 0..k : ds[0 + i] = dl[i] /\ 0 + i = i
    BY <2>1 DEF SameDepths
  <2>3. ds[k] = 0 => \A i \in 0..m : ds[k + 1 + i] = dr[i]
    BY <2>1, Zenon DEF SameDepths
  <2> QED  BY <2>2, <2>3
<1>3. ds[k] = 0 /\ ds[n] = 0 /\ \A i \in 1..n : ds[i] >= 0
  BY DEF Balanced
<1> HIDE DEF ds, dl, dr, k, m, n
<1>4. \A i \in 0..m : ds[k + 1 + i] = dr[i]
  BY <1>2, <1>3
<1>5. dl[k] = 0 /\ dr[m] = 0
  BY <1>1, <1>2, <1>3, <1>4
<1>6. ASSUME NEW i \in 1..k  PROVE dl[i] >= 0
  BY <1>1, <1>2, <1>3
<1>7. ASSUME NEW i \in 1..m  PROVE dr[i] >= 0
  <2>1. k + 1 + i \in 1..n /\ i \in 0..m
    BY <1>1
  <2> QED  BY <1>3, <1>4, <2>1
<1> QED  BY <1>5, <1>6, <1>7 DEF Balanced, dl, dr, k, m

\* What stands outside of brackets in either side stands outside in the whole.
LEMMA OutsideOfJoin ==
  ASSUME NEW X, NEW s \in Seq(X), NEW l \in Seq(X), NEW r \in Seq(X),
         NEW op, Joins(s, l, op, r), Turn(op) = 0, Depth(s)[Len(l)] = 0, NEW ts
  PROVE  /\ \A i \in 1..Len(l) : i \in Outside(s, ts) <=> i \in Outside(l, ts)
         /\ Len(l) + 1 \in Outside(s, ts) <=> op \in ts
         /\ \A i \in 1..Len(r) : Len(l) + 1 + i \in Outside(s, ts) <=> i \in Outside(r, ts)
<1> DEFINE ds == Depth(s)
           dl == Depth(l)
           dr == Depth(r)
           k == Len(l)
           m == Len(r)
           n == Len(s)
<1>1. /\ k \in Nat /\ m \in Nat /\ n = k + 1 + m /\ s[k + 1] = op
      /\ \A i \in 1..k : l[i] = s[0 + i]
      /\ \A i \in 1..m : r[i] = s[k + 1 + i]
  BY DEF Joins, PartOf
<1>2. /\ \A i \in 0..k : ds[i] = dl[i]
      /\ ds[k] = 0 => \A i \in 0..m : ds[k + 1 + i] = dr[i]
  <2>1. SameDepths(l, s, 0) /\ (ds[k] = 0 => SameDepths(r, s, k + 1))
    BY DepthJoined, Zenon
  <2>2. \A i \in 0..k : ds[0 + i] = dl[i] /\ 0 + i = i
    BY <2>1 DEF SameDepths
  <2>3. ds[k] = 0 => \A i \in 0..m : ds[k + 1 + i] = dr[i]
    BY <2>1, Zenon DEF SameDepths
  <2> QED  BY <2>2, <2>3
<1>3. ds[k] = 0
  OBVIOUS
<1>4. \A i : i \in Outside(s, ts) <=> i \in 1..n /\ s[i] \in ts /\ ds[i - 1] = 0
  BY DEF Outside
<1>5. \A i : i \in Outside(l, ts) <=> i \in 1..k /\ l[i] \in ts /\ dl[i - 1] = 0
  BY DEF Outside
<1>6. \A i : i \in Outside(r, ts) <=> i \in 1..m /\ r[i] \in ts /\ dr[i - 1] = 0
  BY DEF Outside
<1>7. \A i \in 0..m : ds[k + 1 + i] = dr[i]
  BY <1>2, <1>3
<1> HIDE DEF ds, dl, dr, k, m, n
<1>8. ASSUME NEW i \in 1..k  PROVE i \in Outside(s, ts) <=> i \in Outside(l, ts)
  <2>1. i \in 1..n /\ 0 + i = i /\ i - 1 \in 0..k
    BY <1>1
  <2>2. l[i] = s[i] /\ ds[i - 1] = dl[i - 1]
    BY <1>1, <1>2, <2>1
  <2> QED  BY <1>4, <1>5, <2>1, <2>2
<1>9. k + 1 \in Outside(s, ts) <=> op \in ts
  <2>1. k + 1 \in 1..n /\ (k + 1) - 1 = k
    BY <1>1
  <2> QED  BY <1>1, <1>3, <1>4, <2>1
<1>10. ASSUME NEW i \in 1..m  PROVE k + 1 + i \in Outside(s, ts) <=> i \in Outside(r, ts)
  <2>1. k + 1 + i \in 1..n /\ (k + 1 + i) - 1 = k + 1 + (i - 1) /\ i - 1 \in 0..m
    BY <1>1
  <2>2. r[i] = s[k + 1 + i] /\ ds[(k + 1 + i) - 1] = dr[i - 1]
    BY <1>1, <1>7, <2>1
  <2> QED  BY <1>4, <1>6, <2>1, <2>2
<1> QED  BY <1>8, <1>9, <1>10 DEF k, m

\* A token before a text that is no bracket changes nothing about its brackets.
LEMMA FollowedBalanced ==
  ASSUME NEW X, NEW s \in Seq(X), NEW r \in Seq(X),
         NEW op, Prefixed(s, op, r), Turn(op) = 0
  PROVE  /\ Balanced(s) <=> Balanced(r)
         /\ \A ts : 1 \in Outside(s, ts) <=> op \in ts
         /\ \A ts : \A i \in 1..Len(r) : 1 + i \in Outside(s, ts) <=> i \in Outside(r, ts)
<1> DEFINE ds == Depth(s)
           dr == Depth(r)
           m == Len(r)
           n == Len(s)
<1>1. /\ m \in Nat /\ n = m + 1 /\ s[1] = op /\ PartOf(r, s, 1)
      /\ \A i \in 1..m : r[i] = s[1 + i]
  BY DEF Prefixed, PartOf
<1>2. \A i \in 0..m : ds[1 + i] = Turn(s[1]) + dr[i]
  <2>1. Len(s) > 0
    BY <1>1
  <2>2. RaisedDepths(r, s, Turn(s[1]))
    BY <1>1, <2>1, DepthFollowed, Zenon
  <2> QED  BY <2>2, Zenon DEF RaisedDepths
<1>3. ds[0] = 0 /\ dr[0] = 0 /\ dr \in [0..m -> Int]
  BY DepthIs, Zenon
<1>4. \A i, ts : i \in Outside(s, ts) <=> i \in 1..n /\ s[i] \in ts /\ ds[i - 1] = 0
  BY DEF Outside
<1>5. \A i, ts : i \in Outside(r, ts) <=> i \in 1..m /\ r[i] \in ts /\ dr[i - 1] = 0
  BY DEF Outside
<1>6. Balanced(s) <=> ds[n] = 0 /\ \A i \in 1..n : ds[i] >= 0
  BY DEF Balanced
<1>7. Balanced(r) <=> dr[m] = 0 /\ \A i \in 1..m : dr[i] >= 0
  BY DEF Balanced
<1> HIDE DEF ds, dr, m, n
<1>8. \A i \in 0..m : ds[1 + i] = dr[i]
  <2>1. \A i \in 0..m : dr[i] \in Int /\ ds[1 + i] = 0 + dr[i]
    BY <1>1, <1>2, <1>3
  <2> QED  BY <2>1
<1>9. Balanced(s) => Balanced(r)
  <2> SUFFICES ASSUME Balanced(s)  PROVE Balanced(r)
    OBVIOUS
  <2>1. dr[m] = 0
    BY <1>1, <1>6, <1>8
  <2>2. ASSUME NEW i \in 1..m  PROVE dr[i] >= 0
    <3>1. 1 + i \in 1..n /\ i \in 0..m
      BY <1>1
    <3> QED  BY <1>6, <1>8, <3>1
  <2> QED  BY <1>7, <2>1, <2>2
<1>10. Balanced(r) => Balanced(s)
  <2> SUFFICES ASSUME Balanced(r)  PROVE Balanced(s)
    OBVIOUS
  <2>1. ds[n] = 0
    BY <1>1, <1>7, <1>8
  <2>2. ASSUME NEW i \in 1..n  PROVE ds[i] >= 0
    <3>1. i - 1 \in 0..m /\ 1 + (i - 1) = i /\ (i - 1 = 0 \/ i - 1 \in 1..m)
      BY <1>1
    <3>2. ds[i] = dr[i - 1]
      BY <1>8, <3>1
    <3> QED  BY <1>3, <1>7, <3>1, <3>2
  <2> QED  BY <1>6, <2>1, <2>2
<1>11. ASSUME NEW ts  PROVE 1 \in Outside(s, ts) <=> op \in ts
  <2>1. 1 \in 1..n /\ 1 - 1 = 0
    BY <1>1
  <2> QED  BY <1>1, <1>3, <1>4, <2>1
<1>12. ASSUME NEW ts, NEW i \in 1..m
       PROVE  1 + i \in Outside(s, ts) <=> i \in Outside(r, ts)
  <2>1. 1 + i \in 1..n /\ (1 + i) - 1 = 1 + (i - 1) /\ i - 1 \in 0..m
    BY <1>1
  <2>2. r[i] = s[1 + i] /\ ds[(1 + i) - 1] = dr[i - 1]
    BY <1>1, <1>8, <2>1
  <2> QED  BY <1>4, <1>5, <2>1, <2>2
<1> QED  BY <1>9, <1>10, <1>11, <1>12 DEF m

\* Brackets around a text leave nothing outside of them.
LEMMA EnclosedBalanced ==
  ASSUME NEW X, NEW s \in Seq(X), NEW r \in Seq(X),
         Encloses(s, "(", r, ")"), Balanced(r)
  PROVE  /\ Balanced(s)
         /\ \A ts : "(" \notin ts /\ ")" \notin ts => Outside(s, ts) = {}
<1> DEFINE ds == Depth(s)
           dr == Depth(r)
           m == Len(r)
           n == Len(s)
<1>1. m \in Nat /\ n = m + 2 /\ s[1] = "(" /\ s[n] = ")" /\ PartOf(r, s, 1)
  BY DEF Encloses
<1>2. \A i \in 0..m : ds[1 + i] = Turn(s[1]) + dr[i]
  <2>1. Len(s) > 0
    BY <1>1
  <2>2. RaisedDepths(r, s, Turn(s[1]))
    BY <1>1, <2>1, DepthFollowed, Zenon
  <2> QED  BY <2>2, Zenon DEF RaisedDepths
<1>3. dr[0] = 0 /\ dr \in [0..m -> Int]
  BY DepthIs, Zenon
<1>4. \A i \in 1..n : ds[i] = ds[i - 1] + Turn(s[i])
  BY DepthIs, Zenon
<1>5. dr[m] = 0 /\ \A i \in 1..m : dr[i] >= 0
  BY DEF Balanced
<1>6. Turn("(") = 1 /\ Turn(")") = -1
  BY DEF Turn
<1> HIDE DEF ds, dr, m, n
<1>7. ASSUME NEW i \in 1..(n - 1)  PROVE ds[i] \in Int /\ ds[i] >= 1
  <2>1. i - 1 \in 0..m /\ 1 + (i - 1) = i /\ (i - 1 = 0 \/ i - 1 \in 1..m)
    BY <1>1
  <2>2. ds[i] = 1 + dr[i - 1]
    BY <1>1, <1>2, <1>6, <2>1
  <2>3. dr[i - 1] \in Int /\ dr[i - 1] >= 0
    BY <1>3, <1>5, <2>1
  <2> QED  BY <2>2, <2>3
<1>8. ds[n] = 0
  <2>1. n \in 1..n /\ n - 1 = 1 + m /\ m \in 0..m
    BY <1>1
  <2>2. ds[n - 1] = 1
    BY <1>1, <1>2, <1>5, <1>6, <2>1
  <2> QED  BY <1>1, <1>4, <1>6, <2>1, <2>2
<1>9. \A i \in 1..n : ds[i] >= 0
  <2> SUFFICES ASSUME NEW i \in 1..n  PROVE ds[i] >= 0
    OBVIOUS
  <2>1. i = n \/ i \in 1..(n - 1)
    BY <1>1
  <2> QED  BY <1>7, <1>8, <2>1
<1>10. ASSUME NEW ts, "(" \notin ts, ")" \notin ts, NEW i \in Outside(s, ts)  PROVE FALSE
  <2>1. i \in 1..n /\ s[i] \in ts /\ ds[i - 1] = 0
    BY DEF Outside, ds, n
  <2>2. i # 1 /\ i # n
    BY <1>1, <1>10, <2>1
  <2>3. i - 1 \in 1..(n - 1)
    BY <1>1, <2>1, <2>2
  <2> QED  BY <1>7, <2>1, <2>3
<1> QED  BY <1>8, <1>9, <1>10 DEF Balanced, ds, n

-----------------------------------------------------------------------------
(* The grammar *)

\* What the rules make of shorter readings.
Atomic(x) == \E a \in Atoms : x = Reading(<<a>>, Pattern(a))
Negation(x, r) == x = Reading(<<"!">> \o r.text, Not(r.means))
Brackets(x, r) == x = Reading(<<"(">> \o r.text \o <<")">>, r.means)
JoinOf(x, ops, name, l, r) ==
  \E op \in ops : x = Reading(l.text \o <<op>> \o r.text, Join(name, l.means, r.means))

IsFactor(x, v, n) ==
  \/ n = 1 /\ Atomic(x)
  \/ n >= 2 /\ \E r \in v[n - 1].factor : Negation(x, r)
  \/ n >= 3 /\ \E r \in v[n - 2].expr : Brackets(x, r)

IsAnd(x, v, n) ==
  \E k \in 1..(n - 2) : \E l \in v[k].factor : \E r \in v[n - 1 - k].term :
    JoinOf(x, Ands, "and", l, r)

IsOr(x, v, n) ==
  \E k \in 1..(n - 2) : \E l \in v[k].term : \E r \in v[n - 1 - k].expr :
    JoinOf(x, Ors, "or", l, r)

\* Joined has the readings that join one from the left and one from the right.
LEMMA JoinedAre ==
  ASSUME NEW ops, NEW name, NEW left, NEW right, NEW n
  PROVE  \A x : x \in Joined(ops, name, left, right, n) <=>
           \E k \in 1..(n - 2) : \E l \in left[k] : \E r \in right[n - 1 - k] :
             JoinOf(x, ops, name, l, r)
<1> DEFINE Made(op, l, r) == Reading(l.text \o <<op>> \o r.text, Join(name, l.means, r.means))
           S(k) == {Made(op, l, r) : op \in ops, l \in left[k], r \in right[n - 1 - k]}
<1>1. ASSUME NEW k, NEW x
      PROVE  x \in S(k) <=> \E l \in left[k] : \E r \in right[n - 1 - k] :
                              JoinOf(x, ops, name, l, r)
  <2>1. ASSUME x \in S(k)
        PROVE  \E l \in left[k] : \E r \in right[n - 1 - k] : JoinOf(x, ops, name, l, r)
    <3> HIDE DEF Made
    <3>1. PICK op \in ops, l \in left[k], r \in right[n - 1 - k] : x = Made(op, l, r)
      BY <2>1
    <3> USE DEF Made
    <3>2. JoinOf(x, ops, name, l, r)
      BY <3>1 DEF JoinOf
    <3> QED  BY <3>2
  <2>2. ASSUME NEW l \in left[k], NEW r \in right[n - 1 - k], JoinOf(x, ops, name, l, r)
        PROVE  x \in S(k)
    <3>1. PICK op \in ops :
            x = Reading(l.text \o <<op>> \o r.text, Join(name, l.means, r.means))
      BY <2>2 DEF JoinOf
    <3> QED  BY <3>1
  <2> QED  BY <2>1, <2>2
<1>2. Joined(ops, name, left, right, n) = UNION {S(k) : k \in 1..(n - 2)}
  BY DEF Joined
<1> HIDE DEF S
<1>3. \A x : x \in UNION {S(k) : k \in 1..(n - 2)} <=> \E k \in 1..(n - 2) : x \in S(k)
  BY Zenon
<1> QED  BY <1>1, <1>2, <1>3, Zenon

\* ReadingsOf has the readings that the three rules make.
LEMMA ReadingsAre ==
  ASSUME NEW v, NEW n \in Nat, n >= 1
  PROVE  LET level == ReadingsOf(v, n)
         IN  /\ \A x : x \in level.factor <=> IsFactor(x, v, n)
             /\ \A x : x \in level.term <=> x \in level.factor \/ IsAnd(x, v, n)
             /\ \A x : x \in level.expr <=> x \in level.term \/ IsOr(x, v, n)
<1> DEFINE factors == [k \in 1..(n - 1) |-> v[k].factor]
           terms == [k \in 1..(n - 1) |-> v[k].term]
           exprs == [k \in 1..(n - 1) |-> v[k].expr]
           atomic == IF n = 1 THEN {Reading(<<a>>, Pattern(a)) : a \in Atoms} ELSE {}
           negated == IF n < 2 THEN {} ELSE
                 {Reading(<<"!">> \o r.text, Not(r.means)) : r \in factors[n - 1]}
           bracketed == IF n < 3 THEN {} ELSE
                 {Reading(<<"(">> \o r.text \o <<")">>, r.means) : r \in exprs[n - 2]}
           factor == atomic \cup negated \cup bracketed
           ands == Joined(Ands, "and", factors, terms, n)
           ors == Joined(Ors, "or", terms, exprs, n)
           level == ReadingsOf(v, n)
<1>1. level = [factor |-> factor, term |-> factor \cup ands, expr |-> (factor \cup ands) \cup ors]
  BY DEF ReadingsOf
<1>2. \A x : x \in atomic <=> n = 1 /\ Atomic(x)
  BY DEF Atomic
<1>3. \A x : x \in negated <=> n >= 2 /\ \E r \in v[n - 1].factor : Negation(x, r)
  <2>1. n >= 2 => factors[n - 1] = v[n - 1].factor
    OBVIOUS
  <2> HIDE DEF factors
  <2>2. CASE n >= 2
    <3>1. negated = {Reading(<<"!">> \o r.text, Not(r.means)) : r \in v[n - 1].factor}
      BY <2>1, <2>2
    <3> HIDE DEF negated
    <3> QED  BY <2>2, <3>1, Zenon DEF Negation
  <2>3. CASE ~(n >= 2)
    BY <2>3
  <2> QED  BY <2>2, <2>3
<1>4. \A x : x \in bracketed <=> n >= 3 /\ \E r \in v[n - 2].expr : Brackets(x, r)
  <2>1. n >= 3 => exprs[n - 2] = v[n - 2].expr
    OBVIOUS
  <2> HIDE DEF exprs
  <2>2. CASE n >= 3
    <3>1. bracketed = {Reading(<<"(">> \o r.text \o <<")">>, r.means) : r \in v[n - 2].expr}
      BY <2>1, <2>2
    <3> HIDE DEF bracketed
    <3> QED  BY <2>2, <3>1, Zenon DEF Brackets
  <2>3. CASE ~(n >= 3)
    BY <2>3
  <2> QED  BY <2>2, <2>3
<1>5. \A k \in 1..(n - 2) : /\ factors[k] = v[k].factor /\ terms[k] = v[k].term
                            /\ terms[n - 1 - k] = v[n - 1 - k].term
                            /\ exprs[n - 1 - k] = v[n - 1 - k].expr
  OBVIOUS
<1> HIDE DEF factors, terms, exprs
<1>6. \A x : x \in ands <=> IsAnd(x, v, n)
  <2>1. \A x : x \in ands <=>
           \E k \in 1..(n - 2) : \E l \in factors[k] : \E r \in terms[n - 1 - k] :
             JoinOf(x, Ands, "and", l, r)
    BY JoinedAre, Zenon
  <2> QED  BY <1>5, <2>1, Zenon DEF IsAnd
<1>7. \A x : x \in ors <=> IsOr(x, v, n)
  <2>1. \A x : x \in ors <=>
           \E k \in 1..(n - 2) : \E l \in terms[k] : \E r \in exprs[n - 1 - k] :
             JoinOf(x, Ors, "or", l, r)
    BY JoinedAre, Zenon
  <2> QED  BY <1>5, <2>1, Zenon DEF IsOr
<1> HIDE DEF atomic, negated, bracketed, ands, ors
<1>8. \A x : x \in factor <=> IsFactor(x, v, n)
  BY <1>2, <1>3, <1>4, Zenon DEF IsFactor
<1> HIDE DEF factor
<1>9. /\ level.factor = factor /\ level.term = factor \cup ands
      /\ level.expr = (factor \cup ands) \cup ors
  BY <1>1
<1> HIDE DEF level
<1>10. /\ \A x : x \in level.factor <=> IsFactor(x, v, n)
       /\ \A x : x \in level.term <=> x \in level.factor \/ IsAnd(x, v, n)
       /\ \A x : x \in level.expr <=> x \in level.term \/ IsOr(x, v, n)
  BY <1>6, <1>7, <1>8, <1>9, Zenon
<1> QED  BY <1>10, Zenon DEF level

\* The trees that the parsers build.
LEMMA TreesOver ==
  ASSUME NEW N, Connectives \subseteq N
  PROVE  /\ Err \in Seq(N) /\ Not(Err) = Err
         /\ \A a \in N : Pattern(a) \in Seq(N) /\ Pattern(a) # Err
         /\ \A e \in Seq(N) : Not(e) \in Seq(N) /\ (e # Err => Not(e) # Err)
         /\ \A op \in Connectives, l, r \in Seq(N) :
              Join(op, l, r) \in Seq(N) /\ (Join(op, l, r) # Err <=> l # Err /\ r # Err)
<1>1. Err \in Seq(N) /\ Not(Err) = Err
  BY DEF Err, Not
<1>2. \A a \in N : Pattern(a) \in Seq(N) /\ Pattern(a) # Err
  BY DEF Pattern, Err
<1>3. ASSUME NEW e \in Seq(N)
      PROVE  Not(e) \in Seq(N) /\ (e # Err => Not(e) # Err)
  <2>1. CASE e = Err
    BY <1>1, <2>1
  <2>2. CASE e # Err
    <3>1. Not(e) = <<"not">> \o e
      BY <2>2 DEF Not
    <3>2. "not" \in N
      BY DEF Connectives
    <3> DEFINE t == <<"not">> \o e
    <3>3. t \in Seq(N) /\ Len(t) = 1 + Len(e)
      BY <3>2
    <3>4. Len(e) \in Nat
      OBVIOUS
    <3> HIDE DEF t
    <3>5. Len(t) # 0
      BY <3>3, <3>4
    <3>6. t # << >>
      BY <3>5
    <3> QED  BY <3>1, <3>3, <3>6 DEF Err, t
  <2> QED  BY <2>1, <2>2
<1>4. ASSUME NEW op \in Connectives, NEW l \in Seq(N), NEW r \in Seq(N)
      PROVE  Join(op, l, r) \in Seq(N) /\ (Join(op, l, r) # Err <=> l # Err /\ r # Err)
  <2>1. CASE Err \in {l, r}
    BY <1>1, <2>1 DEF Join
  <2>2. CASE Err \notin {l, r}
    <3>1. Join(op, l, r) = <<op>> \o l \o r
      BY <2>2 DEF Join
    <3>2. op \in N
      OBVIOUS
    <3> DEFINE t == <<op>> \o l \o r
    <3>3. t \in Seq(N) /\ Len(t) = 1 + Len(l) + Len(r)
      BY <3>2
    <3>4. Len(l) \in Nat /\ Len(r) \in Nat
      OBVIOUS
    <3> HIDE DEF t
    <3>5. Len(t) # 0
      BY <3>3, <3>4
    <3>6. t # << >>
      BY <3>5
    <3> QED  BY <2>2, <3>1, <3>3, <3>6 DEF Err, t
  <2> QED  BY <2>1, <2>2
<1> QED  BY <1>1, <1>2, <1>3, <1>4

\* The constructors make trees of trees, and fail only with a part that failed.
LEMMA TreesAre ==
  /\ Err \in Seq(Nodes) /\ Not(Err) = Err
  /\ \A a \in Nodes : Pattern(a) \in Seq(Nodes) /\ Pattern(a) # Err
  /\ \A e \in Seq(Nodes) : Not(e) \in Seq(Nodes) /\ (e # Err => Not(e) # Err)
  /\ \A op \in Connectives, l, r \in Seq(Nodes) :
       Join(op, l, r) \in Seq(Nodes) /\ (Join(op, l, r) # Err <=> l # Err /\ r # Err)
<1>1. Connectives \subseteq Nodes
  BY DEF Nodes
<1> QED  BY <1>1, TreesOver

ReadingSet == [text : Seq(Tokens), means : Seq(Nodes)]
LevelSet == [factor : SUBSET ReadingSet, term : SUBSET ReadingSet, expr : SUBSET ReadingSet]

\* The parts of a reading.
LEMMA ReadingIs ==
  ASSUME NEW s, NEW e
  PROVE  /\ Reading(s, e).text = s /\ Reading(s, e).means = e
         /\ s \in Seq(Tokens) /\ e \in Seq(Nodes) => Reading(s, e) \in ReadingSet
BY DEF Reading, ReadingSet

\* What the rules make of readings are readings.
LEMMA RulesAreTyped ==
  /\ \A x : Atomic(x) => x \in ReadingSet
  /\ \A x, r : r \in ReadingSet /\ Negation(x, r) => x \in ReadingSet
  /\ \A x, r : r \in ReadingSet /\ Brackets(x, r) => x \in ReadingSet
  /\ \A x, l, r : /\ l \in ReadingSet /\ r \in ReadingSet
                  /\ JoinOf(x, Ands, "and", l, r) \/ JoinOf(x, Ors, "or", l, r)
                  => x \in ReadingSet
<1>1. ASSUME NEW x, Atomic(x)  PROVE x \in ReadingSet
  <2>1. PICK a \in Atoms : x = Reading(<<a>>, Pattern(a))
    BY <1>1 DEF Atomic
  <2>2. a \in Tokens /\ a \in Nodes
    BY DEF Tokens, Nodes
  <2>3. <<a>> \in Seq(Tokens) /\ Pattern(a) \in Seq(Nodes)
    BY <2>2, TreesAre
  <2> QED  BY <2>1, <2>3, ReadingIs, Zenon
<1>2. \A r \in ReadingSet : r.text \in Seq(Tokens) /\ r.means \in Seq(Nodes)
  BY DEF ReadingSet
<1>3. {"!", "(", ")"} \cup Ands \cup Ors \subseteq Tokens
  BY DEF Tokens, Symbols, Ands, Ors
<1>4. ASSUME NEW x, NEW r \in ReadingSet, Negation(x, r)  PROVE x \in ReadingSet
  <2> DEFINE s == r.text
             e == r.means
             t == <<"!">> \o s
  <2>1. s \in Seq(Tokens) /\ e \in Seq(Nodes)
    BY <1>2
  <2>2. x = Reading(t, Not(e))
    BY <1>4 DEF Negation
  <2> HIDE DEF s, e
  <2>3. t \in Seq(Tokens)
    BY <1>3, <2>1
  <2>4. Not(e) \in Seq(Nodes)
    BY <2>1, TreesAre
  <2> HIDE DEF t
  <2> QED  BY <2>2, <2>3, <2>4, ReadingIs, Zenon
<1>5. ASSUME NEW x, NEW r \in ReadingSet, Brackets(x, r)  PROVE x \in ReadingSet
  <2> DEFINE s == r.text
             e == r.means
             t == <<"(">> \o s \o <<")">>
  <2>1. s \in Seq(Tokens) /\ e \in Seq(Nodes)
    BY <1>2
  <2>2. x = Reading(t, e)
    BY <1>5 DEF Brackets
  <2> HIDE DEF s, e
  <2>3. t \in Seq(Tokens)
    BY <1>3, <2>1
  <2> HIDE DEF t
  <2> QED  BY <2>1, <2>2, <2>3, ReadingIs, Zenon
<1>6. ASSUME NEW x, NEW l \in ReadingSet, NEW r \in ReadingSet, NEW ops, NEW name \in Connectives,
             ops \subseteq Ands \cup Ors, JoinOf(x, ops, name, l, r)
      PROVE  x \in ReadingSet
  <2>1. PICK op \in ops :
          x = Reading(l.text \o <<op>> \o r.text, Join(name, l.means, r.means))
    BY <1>6 DEF JoinOf
  <2>2. op \in Tokens
    BY <1>3, <1>6
  <2> DEFINE sl == l.text
             sr == r.text
             t == sl \o <<op>> \o sr
             e == Join(name, l.means, r.means)
  <2>3. sl \in Seq(Tokens) /\ sr \in Seq(Tokens)
    BY <1>2
  <2>4. e \in Seq(Nodes)
    BY <1>2, TreesAre
  <2>5. x = Reading(t, e)
    BY <2>1
  <2> HIDE DEF sl, sr, e
  <2>6. t \in Seq(Tokens)
    BY <2>2, <2>3
  <2> HIDE DEF t
  <2> QED  BY <2>4, <2>5, <2>6, ReadingIs, Zenon
<1>7. "and" \in Connectives /\ "or" \in Connectives
  BY DEF Connectives
<1> QED  BY <1>1, <1>4, <1>5, <1>6, <1>7

\* So is all that ReadingsOf makes.
LEMMA ReadingsAreTyped ==
  ASSUME NEW v \in Seq(LevelSet), NEW n \in Nat, n = Len(v) + 1
  PROVE  ReadingsOf(v, n) \in LevelSet
<1> DEFINE level == ReadingsOf(v, n)
<1>1. /\ \A x : x \in level.factor <=> IsFactor(x, v, n)
      /\ \A x : x \in level.term <=> x \in level.factor \/ IsAnd(x, v, n)
      /\ \A x : x \in level.expr <=> x \in level.term \/ IsOr(x, v, n)
  <2>1. n >= 1
    OBVIOUS
  <2> QED  BY <2>1, ReadingsAre
<1>2. \A k \in 1..(n - 1) : /\ v[k].factor \subseteq ReadingSet /\ v[k].term \subseteq ReadingSet
                            /\ v[k].expr \subseteq ReadingSet
  <2>1. \A k \in 1..(n - 1) : v[k] \in LevelSet
    OBVIOUS
  <2> QED  BY <2>1 DEF LevelSet
<1>3. \A x : IsFactor(x, v, n) => x \in ReadingSet
  <2> SUFFICES ASSUME NEW x, IsFactor(x, v, n)  PROVE x \in ReadingSet
    OBVIOUS
  <2>1. CASE Atomic(x)
    BY <2>1, RulesAreTyped
  <2>2. ASSUME n >= 2, NEW r \in v[n - 1].factor, Negation(x, r)  PROVE x \in ReadingSet
    <3>1. n - 1 \in 1..(n - 1)
      BY <2>2
    <3>2. r \in ReadingSet
      BY <1>2, <2>2, <3>1
    <3> QED  BY <2>2, <3>2, RulesAreTyped
  <2>3. ASSUME n >= 3, NEW r \in v[n - 2].expr, Brackets(x, r)  PROVE x \in ReadingSet
    <3>1. n - 2 \in 1..(n - 1)
      BY <2>3
    <3>2. r \in ReadingSet
      BY <1>2, <2>3, <3>1
    <3> QED  BY <2>3, <3>2, RulesAreTyped
  <2> QED  BY <2>1, <2>2, <2>3 DEF IsFactor
<1>4. \A x : IsAnd(x, v, n) => x \in ReadingSet
  <2> SUFFICES ASSUME NEW x, IsAnd(x, v, n)  PROVE x \in ReadingSet
    OBVIOUS
  <2>1. PICK k \in 1..(n - 2) : \E l \in v[k].factor : \E r \in v[n - 1 - k].term :
               JoinOf(x, Ands, "and", l, r)
    BY DEF IsAnd
  <2>2. k \in 1..(n - 1) /\ n - 1 - k \in 1..(n - 1)
    OBVIOUS
  <2>3. v[k].factor \subseteq ReadingSet /\ v[n - 1 - k].term \subseteq ReadingSet
    BY <1>2, <2>2
  <2> QED  BY <2>1, <2>3, RulesAreTyped
<1>5. \A x : IsOr(x, v, n) => x \in ReadingSet
  <2> SUFFICES ASSUME NEW x, IsOr(x, v, n)  PROVE x \in ReadingSet
    OBVIOUS
  <2>1. PICK k \in 1..(n - 2) : \E l \in v[k].term : \E r \in v[n - 1 - k].expr :
               JoinOf(x, Ors, "or", l, r)
    BY DEF IsOr
  <2>2. k \in 1..(n - 1) /\ n - 1 - k \in 1..(n - 1)
    OBVIOUS
  <2>3. v[k].term \subseteq ReadingSet /\ v[n - 1 - k].expr \subseteq ReadingSet
    BY <1>2, <2>2
  <2> QED  BY <2>1, <2>3, RulesAreTyped
<1>6. /\ level.factor \subseteq ReadingSet /\ level.term \subseteq ReadingSet
      /\ level.expr \subseteq ReadingSet
  BY <1>1, <1>3, <1>4, <1>5
<1>7. level = [factor |-> level.factor, term |-> level.term, expr |-> level.expr]
  BY DEF ReadingsOf
<1> HIDE DEF level
<1> QED  BY <1>6, <1>7 DEF LevelSet, level

\* The rules look only at shorter readings.
LEMMA RulesLookBelow ==
  ASSUME NEW v, NEW w, NEW n \in Nat, \A k \in 1..(n - 1) : v[k] = w[k], NEW x
  PROVE  /\ IsFactor(x, v, n) <=> IsFactor(x, w, n)
         /\ IsAnd(x, v, n) <=> IsAnd(x, w, n)
         /\ IsOr(x, v, n) <=> IsOr(x, w, n)
<1>1. n >= 2 => v[n - 1] = w[n - 1]
  OBVIOUS
<1>2. n >= 3 => v[n - 2] = w[n - 2]
  OBVIOUS
<1>3. \A k \in 1..(n - 2) : v[k] = w[k] /\ v[n - 1 - k] = w[n - 1 - k]
  OBVIOUS
<1>4. IsFactor(x, v, n) <=> IsFactor(x, w, n)
  BY <1>1, <1>2, Zenon DEF IsFactor
<1>5. IsAnd(x, v, n) <=> IsAnd(x, w, n)
  BY <1>3, Zenon DEF IsAnd
<1>6. IsOr(x, v, n) <=> IsOr(x, w, n)
  BY <1>3, Zenon DEF IsOr
<1> QED  BY <1>4, <1>5, <1>6

\* The steps of ByLength.
Longer == [n \in 1..MaxGrammar |-> [v \in Seq(LevelSet) |->
             IF Len(v) = n - 1 THEN Append(v, ReadingsOf(v, n)) ELSE v]]

IsUpto(c, n) ==
  /\ c \in [0..n -> Seq(LevelSet)] /\ c[0] = << >>
  /\ \A i \in 1..n : c[i] = Append(c[i - 1], ReadingsOf(c[i - 1], i))

\* One step of ByLength.
LEMMA LongerIs ==
  /\ StepsIn(Seq(LevelSet), MaxGrammar, Longer)
  /\ \A n \in 1..MaxGrammar, v \in Seq(LevelSet) :
       Len(v) = n - 1 => /\ Longer[n][v] = Append(v, ReadingsOf(v, n))
                         /\ Longer[n][v] \in Seq(LevelSet) /\ Len(Longer[n][v]) = n
<1>1. MaxGrammar \in Nat
  BY TextAssumption DEF TextAssumption
<1>2. ASSUME NEW n \in 1..MaxGrammar, NEW v \in Seq(LevelSet), Len(v) = n - 1
      PROVE  /\ Append(v, ReadingsOf(v, n)) \in Seq(LevelSet)
             /\ Len(Append(v, ReadingsOf(v, n))) = n
  <2>1. n \in Nat /\ n = Len(v) + 1
    BY <1>1, <1>2
  <2>2. ReadingsOf(v, n) \in LevelSet
    BY <2>1, ReadingsAreTyped, Zenon
  <2> DEFINE l == ReadingsOf(v, n)
  <2> HIDE DEF l
  <2>3. l \in LevelSet
    BY <2>2 DEF l
  <2>4. Append(v, l) \in Seq(LevelSet) /\ Len(Append(v, l)) = n
    BY <2>1, <2>3
  <2> QED  BY <2>4 DEF l
<1>3. \A n \in 1..MaxGrammar, v \in Seq(LevelSet) :
        Longer[n][v] = IF Len(v) = n - 1 THEN Append(v, ReadingsOf(v, n)) ELSE v
  BY Zenon DEF Longer
<1>4. \A n \in 1..MaxGrammar, v \in Seq(LevelSet) : Longer[n][v] \in Seq(LevelSet)
  BY <1>2, <1>3
<1>5. StepsIn(Seq(LevelSet), MaxGrammar, Longer)
  <2> DEFINE V == Seq(LevelSet)
             F(n, v) == IF Len(v) = n - 1 THEN Append(v, ReadingsOf(v, n)) ELSE v
  <2>1. Longer = [n \in 1..MaxGrammar |-> [v \in V |-> F(n, v)]]
    BY DEF Longer
  <2>2. \A n \in 1..MaxGrammar, v \in V : F(n, v) \in V
    BY <1>2
  <2> HIDE DEF F, V
  <2>3. Longer \in [1..MaxGrammar -> [V -> V]]
    BY <2>1, <2>2
  <2> QED  BY <2>3 DEF V, StepsIn
<1> QED  BY <1>2, <1>3, <1>5

\* Steps from the empty sequence have the length of their number.
LEMMA UptoFromSteps ==
  ASSUME NEW c, Recurses(c, Seq(LevelSet), << >>, MaxGrammar, Longer)
  PROVE  IsUpto(c, MaxGrammar) /\ \A i \in 0..MaxGrammar : Len(c[i]) = i
<1> DEFINE m == MaxGrammar
           T == {i \in 0..m : Len(c[i]) = i}
<1>1. m \in Nat
  BY TextAssumption DEF TextAssumption
<1>2. /\ c \in [0..m -> Seq(LevelSet)] /\ c[0] = << >>
      /\ \A i \in 1..m : c[i] = Longer[i][c[i - 1]]
  BY DEF Recurses
<1> HIDE DEF m
<1>3. 0 \in T
  BY <1>1, <1>2
<1>4. ASSUME NEW i \in 0..(m - 1), i \in T  PROVE i + 1 \in T
  <2>1. i + 1 \in 1..m /\ (i + 1) - 1 = i /\ i \in 0..m
    BY <1>1
  <2>2. c[i] \in Seq(LevelSet) /\ Len(c[i]) = (i + 1) - 1
    BY <1>2, <1>4, <2>1
  <2>3. Len(Longer[i + 1][c[i]]) = i + 1
    BY <2>1, <2>2, LongerIs DEF m
  <2> QED  BY <1>2, <2>1, <2>3
<1>5. 0..m \subseteq T
  <2> HIDE DEF T
  <2> QED  BY <1>1, <1>3, <1>4, InductionTo
<1>6. ASSUME NEW i \in 1..m  PROVE c[i] = Append(c[i - 1], ReadingsOf(c[i - 1], i))
  <2>1. i - 1 \in 0..m
    BY <1>1
  <2>2. c[i - 1] \in Seq(LevelSet) /\ Len(c[i - 1]) = i - 1
    BY <1>2, <1>5, <2>1
  <2>3. Longer[i][c[i - 1]] = Append(c[i - 1], ReadingsOf(c[i - 1], i))
    BY <2>2, LongerIs DEF m
  <2> QED  BY <1>2, <2>3
<1> QED  BY <1>2, <1>5, <1>6 DEF IsUpto, m

\* ByLength has, for each length, what ReadingsOf makes of the shorter ones.
LEMMA ByLengthIsDefined ==
  \E c : /\ Recurses(c, Seq(LevelSet), << >>, MaxGrammar, Longer)
         /\ ByLength = c[MaxGrammar]
<1> DEFINE m == MaxGrammar
           V == Seq(LevelSet)
           Def(f) == [n \in 0..m |->
                        IF n = 0 THEN << >>
                        ELSE LET shorter == f[n - 1]
                             IN  Append(shorter, ReadingsOf(shorter, n))]
           upto == CHOOSE f : f = Def(f)
           base == << >>
<1>1. m \in Nat /\ base \in V /\ StepsIn(V, m, Longer)
  BY TextAssumption, LongerIs DEF TextAssumption
<1> HIDE DEF base
<1>2. PICK g : Recurses(g, V, base, m, Longer)
  BY <1>1, Recursion, Zenon
<1>3. IsUpto(g, m)
  BY <1>2, UptoFromSteps, Zenon DEF base
<1> HIDE DEF m
<1>4. g = Def(g)
  <2>1. ASSUME NEW n \in 0..m  PROVE g[n] = Def(g)[n]
    <3>1. Def(g)[n] = IF n = 0 THEN << >> ELSE Append(g[n - 1], ReadingsOf(g[n - 1], n))
      BY Zenon
    <3>2. n # 0 => n \in 1..m
      BY <1>1
    <3> HIDE DEF Def
    <3> QED  BY <1>3, <3>1, <3>2, Zenon DEF IsUpto
  <2>2. g = [n \in 0..m |-> g[n]]
    BY <1>3 DEF IsUpto
  <2>3. Def(g) = [n \in 0..m |-> Def(g)[n]]
    BY Zenon
  <2> HIDE DEF Def
  <2> QED  BY <2>1, <2>2, <2>3
<1>5. upto = Def(upto)
  <2> HIDE DEF Def
  <2> QED  BY <1>4
<1> HIDE DEF upto
<1>6. IsFunctionOn(upto, 0..m) /\ upto[0] = base
  <2>1. \A n \in 0..m : upto[n] = Def(upto)[n]
    BY <1>5
  <2>2. Def(upto)[0] = << >>
    BY <1>1
  <2>3. Def(upto) = [n \in 0..m |-> Def(upto)[n]]
    BY Zenon
  <2> HIDE DEF Def
  <2>4. upto = [n \in 0..m |-> upto[n]]
    BY <1>5, <2>1, <2>3
  <2>5. 0 \in 0..m
    BY <1>1
  <2> QED  BY <2>1, <2>2, <2>4, <2>5 DEF IsFunctionOn, base
<1>7. \A n \in 1..m : upto[n] = Append(upto[n - 1], ReadingsOf(upto[n - 1], n))
  <2> SUFFICES ASSUME NEW n \in 1..m
               PROVE  upto[n] = Append(upto[n - 1], ReadingsOf(upto[n - 1], n))
    OBVIOUS
  <2>1. n \in 0..m /\ n # 0
    BY <1>1
  <2>2. Def(upto)[n] = Append(upto[n - 1], ReadingsOf(upto[n - 1], n))
    BY <2>1, Zenon
  <2> HIDE DEF Def
  <2> QED  BY <1>5, <2>2
<1>8. \A i \in 0..m : i \in {j \in 0..m : upto[j] = g[j]}
  <2> DEFINE T == {j \in 0..m : upto[j] = g[j]}
  <2>1. 0 \in T
    BY <1>1, <1>2, <1>6 DEF Recurses
  <2>2. ASSUME NEW j \in 0..(m - 1), j \in T  PROVE j + 1 \in T
    <3>1. j + 1 \in 1..m /\ (j + 1) - 1 = j
      BY <1>1
    <3>2. upto[j + 1] = Append(upto[j], ReadingsOf(upto[j], j + 1))
      BY <1>7, <3>1
    <3>3. g[j + 1] = Append(g[j], ReadingsOf(g[j], j + 1))
      BY <1>3, <3>1 DEF IsUpto
    <3>4. upto[j + 1] = g[j + 1]
      BY <2>2, <3>2, <3>3
    <3> QED  BY <3>1, <3>4
  <2>3. 0..m \subseteq T
    <3> HIDE DEF T
    <3> QED  BY <1>1, <2>1, <2>2, InductionTo
  <2> QED  BY <2>3
<1>9. ByLength = g[m]
  <2>1. ByLength = upto[m]
    BY DEF ByLength, upto, m
  <2> QED  BY <1>1, <1>8, <2>1
<1> QED  BY <1>2, <1>9 DEF m, base

\* The readings of each length are what the rules make of the shorter ones.
LEMMA GrammarIs ==
  /\ ByLength \in Seq(LevelSet) /\ Len(ByLength) = MaxGrammar
  /\ \A n \in 1..MaxGrammar :
       /\ \A x : x \in ByLength[n].factor <=> IsFactor(x, ByLength, n)
       /\ \A x : x \in ByLength[n].term <=> x \in ByLength[n].factor \/ IsAnd(x, ByLength, n)
       /\ \A x : x \in ByLength[n].expr <=> x \in ByLength[n].term \/ IsOr(x, ByLength, n)
<1> DEFINE m == MaxGrammar
           w == ByLength
<1>1. m \in Nat
  BY TextAssumption DEF TextAssumption
<1>2. PICK c : Recurses(c, Seq(LevelSet), << >>, m, Longer) /\ w = c[m]
  BY ByLengthIsDefined, Zenon
<1>3. IsUpto(c, m) /\ \A i \in 0..m : Len(c[i]) = i
  BY <1>2, UptoFromSteps, Zenon
<1> HIDE DEF m, w
<1>4. \A i \in 0..m : c[i] \in Seq(LevelSet) /\ Len(c[i]) = i
  BY <1>3 DEF IsUpto
<1>5. ASSUME NEW i \in 1..m
      PROVE  /\ c[i][i] = ReadingsOf(c[i - 1], i)
             /\ \A k \in 1..(i - 1) : c[i][k] = c[i - 1][k]
  <2>1. i - 1 \in 0..m /\ i \in Nat /\ (i - 1) + 1 = i
    BY <1>1
  <2>2. c[i - 1] \in Seq(LevelSet) /\ Len(c[i - 1]) = i - 1
    BY <1>4, <2>1
  <2> DEFINE v == c[i - 1]
             l == ReadingsOf(v, i)
  <2>3. l \in LevelSet /\ c[i] = Append(v, l)
    <3>1. i = Len(v) + 1
      BY <2>1, <2>2
    <3> QED  BY <1>3, <2>1, <2>2, <3>1, ReadingsAreTyped, Zenon DEF IsUpto
  <2> HIDE DEF v, l
  <2>4. v \in Seq(LevelSet) /\ Len(v) = i - 1
    BY <2>2 DEF v
  <2>5. Append(v, l)[i] = l /\ \A k \in 1..(i - 1) : Append(v, l)[k] = v[k]
    BY <2>1, <2>3, <2>4
  <2> QED  BY <2>3, <2>5 DEF v, l
<1>6. \A i \in 0..m : i \in {j \in 0..m : \A n \in 1..j : c[j][n] = c[n][n]}
  <2> DEFINE T == {j \in 0..m : \A n \in 1..j : c[j][n] = c[n][n]}
  <2>1. 0 \in T
    BY <1>1
  <2>2. ASSUME NEW j \in 0..(m - 1), j \in T  PROVE j + 1 \in T
    <3>1. j + 1 \in 1..m /\ (j + 1) - 1 = j
      BY <1>1
    <3>2. ASSUME NEW n \in 1..(j + 1)  PROVE c[j + 1][n] = c[n][n]
      <4>1. CASE n = j + 1
        BY <4>1
      <4>2. CASE n # j + 1
        <5>1. n \in 1..j
          BY <4>2
        <5>2. c[j + 1][n] = c[j][n]
          BY <1>5, <3>1, <5>1
        <5> QED  BY <2>2, <5>1, <5>2
      <4> QED  BY <4>1, <4>2
    <3> QED  BY <3>1, <3>2
  <2>3. 0..m \subseteq T
    <3> HIDE DEF T
    <3> QED  BY <1>1, <2>1, <2>2, InductionTo
  <2> QED  BY <2>3
<1>7. w \in Seq(LevelSet) /\ Len(w) = m
  BY <1>1, <1>2, <1>4
<1>8. ASSUME NEW n \in 1..m
      PROVE  /\ \A x : x \in w[n].factor <=> IsFactor(x, w, n)
             /\ \A x : x \in w[n].term <=> x \in w[n].factor \/ IsAnd(x, w, n)
             /\ \A x : x \in w[n].expr <=> x \in w[n].term \/ IsOr(x, w, n)
  <2> DEFINE v == c[n - 1]
  <2>1. w[n] = ReadingsOf(v, n)
    <3>1. m \in 0..m /\ n \in 1..m
      BY <1>1
    <3>2. w[n] = c[n][n]
      BY <1>2, <1>6, <3>1
    <3> QED  BY <1>5, <3>2
  <2>2. \A k \in 1..(n - 1) : v[k] = w[k]
    <3> SUFFICES ASSUME NEW k \in 1..(n - 1)  PROVE v[k] = w[k]
      OBVIOUS
    <3>1. n - 1 \in 0..m /\ m \in 0..m /\ k \in 1..m
      BY <1>1
    <3>2. v[k] = c[k][k] /\ w[k] = c[k][k]
      BY <1>2, <1>6, <3>1
    <3> QED  BY <3>2
  <2>3. n \in Nat /\ n >= 1
    BY <1>1
  <2> HIDE DEF v
  <2>4. /\ \A x : x \in w[n].factor <=> IsFactor(x, v, n)
        /\ \A x : x \in w[n].term <=> x \in w[n].factor \/ IsAnd(x, v, n)
        /\ \A x : x \in w[n].expr <=> x \in w[n].term \/ IsOr(x, v, n)
    BY <2>1, <2>3, ReadingsAre
  <2>5. \A x : /\ IsFactor(x, v, n) <=> IsFactor(x, w, n)
               /\ IsAnd(x, v, n) <=> IsAnd(x, w, n)
               /\ IsOr(x, v, n) <=> IsOr(x, w, n)
    BY <2>2, <2>3, RulesLookBelow, Zenon
  <2> QED  BY <2>4, <2>5, Zenon
<1> QED  BY <1>7, <1>8 DEF m, w

-----------------------------------------------------------------------------
(* Recursion on texts *)

\* Least and greatest of a set of numbers.
LEMMA MinIs ==
  ASSUME NEW T \in SUBSET Nat, T # {}
  PROVE  Min(T) \in T /\ \A x \in T : Min(T) <= x
<1>1. \E m \in T : \A x \in T : m <= x
  BY LeastNatural, Zenon
<1> QED  BY <1>1, Zenon DEF Min

\* The same for the greatest, if there is a bound.
LEMMA MaxIs ==
  ASSUME NEW T \in SUBSET Nat, T # {}, NEW b \in Nat, \A x \in T : x <= b
  PROVE  Max(T) \in T /\ \A x \in T : x <= Max(T)
<1>1. PICK m \in T : \A x \in T : x <= m
  BY GreatestNatural, Zenon
<1>2. \E y \in T : \A x \in T : y >= x
  <2>1. \A x \in T : x \in Nat
    OBVIOUS
  <2> QED  BY <1>1, <2>1
<1> DEFINE top == Max(T)
<1>3. top \in T /\ \A x \in T : top >= x
  BY <1>2, Zenon DEF Max
<1> HIDE DEF top
<1>4. \A x \in T : x <= top
  <2>1. \A x \in T : x \in Nat
    OBVIOUS
  <2> QED  BY <1>3, <2>1
<1> QED  BY <1>3, <1>4 DEF top

\* What holds of x when it holds of all that is smaller holds of everything.
LEMMA InductionBySize ==
  ASSUME NEW S, NEW size \in [S -> Nat], NEW T,
         \A x \in S : (\A y \in S : size[y] < size[x] => y \in T) => x \in T
  PROVE  S \subseteq T
<1> SUFFICES ASSUME NEW z \in S, z \notin T  PROVE FALSE
  OBVIOUS
<1> DEFINE N == {n \in Nat : \E x \in S : x \notin T /\ size[x] = n}
<1>1. N \in SUBSET Nat /\ N # {}
  OBVIOUS
<1>2. PICK n \in N : \A m \in N : n <= m
  <2> HIDE DEF N
  <2> QED  BY <1>1, LeastNatural
<1>3. PICK x \in S : x \notin T /\ size[x] = n
  BY <1>2
<1>4. ASSUME NEW y \in S, size[y] < size[x]  PROVE y \in T
  <2>1. y \notin T => size[y] \in N
    OBVIOUS
  <2> HIDE DEF N
  <2>2. size[y] \in Nat /\ n \in Nat
    BY <1>1, <1>2
  <2> QED  BY <1>2, <1>3, <1>4, <2>1, <2>2
<1> QED  BY <1>3, <1>4

\* A step that looks only at smaller arguments has a function that it defines.
LooksBelow(S, V, size, step) ==
  \A f, g \in [S -> V], x \in S :
    (\A y \in S : size[y] < size[x] => f[y] = g[y]) => step[f][x] = step[g][x]

MapsFunctions(S, V, step) == step \in [[S -> V] -> [S -> V]]

IsStepOf(g, S, V, step) == g \in [S -> V] /\ g = step[g]

\* A recursion whose calls are for smaller arguments has a solution.
LEMMA RecursionBySize ==
  ASSUME NEW S, NEW V, V # {}, NEW size, size \in [S -> Nat],
         NEW step, MapsFunctions(S, V, step), LooksBelow(S, V, size, step)
  PROVE  \E g : IsStepOf(g, S, V, step)
<1> USE DEF MapsFunctions
<1> DEFINE F == [S -> V]
           A(n) == {g \in F : \A x \in S : size[x] < n => step[g][x] = g[x]}
           T == {n \in Nat : A(n) # {}}
<1>1. 0 \in T
  <2>1. PICK v \in V : TRUE
    OBVIOUS
  <2> DEFINE g == [x \in S |-> v]
  <2>2. g \in A(0)
    OBVIOUS
  <2> QED  BY <2>2
<1>2. ASSUME NEW n \in Nat, n \in T  PROVE n + 1 \in T
  <2>1. PICK g \in F : \A x \in S : size[x] < n => step[g][x] = g[x]
    BY <1>2
  <2> DEFINE h == step[g]
  <2>2. h \in F
    OBVIOUS
  <2>3. ASSUME NEW x \in S, size[x] < n + 1  PROVE step[h][x] = h[x]
    <3>1. \A y \in S : size[y] < size[x] => h[y] = g[y]
      BY <2>1, <2>3
    <3> QED  BY <2>2, <3>1 DEF LooksBelow
  <2> HIDE DEF h
  <2>4. h \in A(n + 1)
    BY <2>2, <2>3
  <2> QED  BY <2>4
<1>3. Nat \subseteq T
  <2> HIDE DEF T
  <2> QED  BY <1>1, <1>2, Induction
<1>4. ASSUME NEW n \in Nat, NEW m \in Nat, NEW g \in A(n), NEW h \in A(m)
      PROVE  \A x \in S : size[x] < n /\ size[x] < m => g[x] = h[x]
  <2> DEFINE U == {x \in S : size[x] < n /\ size[x] < m => g[x] = h[x]}
  <2>1. g \in F /\ h \in F
    OBVIOUS
  <2>2. ASSUME NEW x \in S, \A y \in S : size[y] < size[x] => y \in U  PROVE x \in U
    <3>1. CASE size[x] < n /\ size[x] < m
      <4>1. \A y \in S : size[y] < size[x] => g[y] = h[y]
        BY <2>2, <3>1
      <4>2. step[g][x] = step[h][x]
        BY <2>1, <4>1 DEF LooksBelow
      <4>3. step[g][x] = g[x] /\ step[h][x] = h[x]
        BY <3>1
      <4> QED  BY <4>2, <4>3
    <3> QED  BY <3>1
  <2>3. S \subseteq U
    <3> HIDE DEF U
    <3> QED  BY <2>2, InductionBySize, ZenonT(30)
  <2> QED  BY <2>3
<1> DEFINE at(x) == CHOOSE g : g \in A(size[x] + 1)
           G == [x \in S |-> at(x)[x]]
<1>5. \A x \in S : at(x) \in A(size[x] + 1)
  <2> SUFFICES ASSUME NEW x \in S  PROVE at(x) \in A(size[x] + 1)
    OBVIOUS
  <2>1. size[x] + 1 \in T
    BY <1>3
  <2>2. \E g : g \in A(size[x] + 1)
    BY <2>1
  <2> HIDE DEF A
  <2> QED  BY <2>2
<1>6. \A x \in S : at(x) \in F /\ step[at(x)][x] = at(x)[x]
  <2> SUFFICES ASSUME NEW x \in S  PROVE at(x) \in F /\ step[at(x)][x] = at(x)[x]
    OBVIOUS
  <2>1. at(x) \in A(size[x] + 1)
    BY <1>5
  <2> HIDE DEF at
  <2>2. \A y \in S : size[y] < size[x] + 1 => step[at(x)][y] = at(x)[y]
    BY <2>1
  <2>3. size[x] < size[x] + 1
    OBVIOUS
  <2> QED  BY <2>1, <2>2, <2>3
<1>7. ASSUME NEW x \in S, NEW y \in S, size[y] < size[x]  PROVE G[y] = at(x)[y]
  <2>1. size[x] + 1 \in Nat /\ size[y] + 1 \in Nat /\ size[y] < size[x] + 1 /\ size[y] < size[y] + 1
    BY <1>7
  <2>2. at(x) \in A(size[x] + 1) /\ at(y) \in A(size[y] + 1)
    BY <1>5
  <2> HIDE DEF at, A
  <2>3. at(y)[y] = at(x)[y]
    BY <1>4, <2>1, <2>2
  <2> QED  BY <2>3
<1>8. G \in F
  <2> HIDE DEF at
  <2> QED  BY <1>6
<1>9. \A x \in S : G[x] = at(x)[x]
  OBVIOUS
<1> HIDE DEF G, at, A
<1>10. ASSUME NEW x \in S  PROVE step[G][x] = G[x]
  <2>1. \A y \in S : size[y] < size[x] => G[y] = at(x)[y]
    BY <1>7
  <2>2. step[G][x] = step[at(x)][x]
    BY <1>6, <1>8, <2>1 DEF LooksBelow
  <2> QED  BY <1>6, <1>9, <2>2
<1>11. step[G] \in F
  BY <1>8
<1>12. G = step[G]
  BY <1>8, <1>10, <1>11
<1> QED  BY <1>8, <1>12 DEF IsStepOf

-----------------------------------------------------------------------------
(* What a call of a parser hands on *)

LeftOf(s, i) == SubSeq(s, 1, i - 1)
RightOf(s, i) == SubSeq(s, i + 1, Len(s))

\* What stands left and right of a token.
LEMMA CutIs ==
  ASSUME NEW X, NEW s \in Seq(X), NEW i \in 1..Len(s)
  PROVE  /\ LeftOf(s, i) \in Seq(X) /\ Len(LeftOf(s, i)) = i - 1
         /\ RightOf(s, i) \in Seq(X) /\ Len(RightOf(s, i)) = Len(s) - i
         /\ Joins(s, LeftOf(s, i), s[i], RightOf(s, i))
<1> DEFINE l == SubSeq(s, 1, i - 1)
           r == SubSeq(s, i + 1, Len(s))
<1>1. /\ l \in Seq(X) /\ r \in Seq(X) /\ Len(l) = i - 1 /\ Len(r) = Len(s) - i
      /\ PartOf(l, s, 0) /\ PartOf(r, s, i)
  BY SplitIs, Zenon
<1> HIDE DEF l, r
<1>2. Len(l) + 1 = i /\ Len(s) = Len(l) + 1 + Len(r)
  BY <1>1
<1>3. Joins(s, l, s[i], r)
  BY <1>1, <1>2 DEF Joins
<1> QED  BY <1>1, <1>3 DEF l, r, LeftOf, RightOf

\* A text is its first token and the rest.
LEMMA TailIs ==
  ASSUME NEW X, NEW s \in Seq(X), s # << >>
  PROVE  /\ Tail(s) \in Seq(X) /\ Len(Tail(s)) = Len(s) - 1 /\ Len(s) \in Nat /\ Len(s) >= 1
         /\ Head(s) = s[1] /\ s[1] \in X /\ Prefixed(s, s[1], Tail(s))
<1>1. /\ Tail(s) \in Seq(X) /\ Len(Tail(s)) = Len(s) - 1
      /\ \A i \in 1..Len(Tail(s)) : Tail(s)[i] = s[i + 1]
  BY HeadTailProperties, Zenon
<1>2. Len(s) \in Nat /\ Len(s) >= 1 /\ Head(s) = s[1] /\ s[1] \in X
  OBVIOUS
<1> DEFINE u == Tail(s)
<1> HIDE DEF u
<1>3. PartOf(u, s, 1)
  <2>1. \A i \in 1..Len(u) : u[i] = s[1 + i]
    BY <1>1 DEF u
  <2> QED  BY <1>1, <1>2, <2>1 DEF PartOf, u
<1> QED  BY <1>1, <1>2, <1>3 DEF Prefixed, u

\* A text without its first and last token.
LEMMA InsideIs ==
  ASSUME NEW X, NEW s \in Seq(X), Len(s) >= 2
  PROVE  /\ Inside(s) \in Seq(X) /\ Len(Inside(s)) = Len(s) - 2 /\ Len(s) \in Nat
         /\ PartOf(Inside(s), s, 1)
<1> DEFINE n == Len(s)
           u == Inside(s)
<1>1. n \in Nat /\ n >= 2
  OBVIOUS
<1> HIDE DEF n
<1>2. 2 \in 1..(n + 1) /\ n - 1 \in (2 - 1)..n
  BY <1>1
<1>3. /\ SubSeq(s, 2, n - 1) \in Seq(X) /\ Len(SubSeq(s, 2, n - 1)) = (n - 1) - 2 + 1
      /\ PartOf(SubSeq(s, 2, n - 1), s, 2 - 1)
  BY <1>2, SubSeqIsPart, Zenon DEF n
<1>4. u = SubSeq(s, 2, n - 1)
  BY DEF Inside, n
<1> HIDE DEF u
<1>5. (n - 1) - 2 + 1 = n - 2 /\ 2 - 1 = 1
  BY <1>1
<1> QED  BY <1>1, <1>3, <1>4, <1>5 DEF n, u

\* A text without its last token.
LEMMA FrontIs ==
  ASSUME NEW X, NEW s \in Seq(X), s # << >>
  PROVE  /\ Front(s) \in Seq(X) /\ Len(Front(s)) = Len(s) - 1 /\ Len(s) \in Nat /\ Len(s) >= 1
         /\ Last(s) = s[Len(s)] /\ s[Len(s)] \in X /\ PartOf(Front(s), s, 0)
<1> DEFINE n == Len(s)
           u == Front(s)
<1>1. n \in Nat /\ n >= 1 /\ s[n] \in X
  OBVIOUS
<1> HIDE DEF n
<1>2. 1 \in 1..(n + 1) /\ n - 1 \in (1 - 1)..n
  BY <1>1
<1>3. /\ SubSeq(s, 1, n - 1) \in Seq(X) /\ Len(SubSeq(s, 1, n - 1)) = (n - 1) - 1 + 1
      /\ PartOf(SubSeq(s, 1, n - 1), s, 1 - 1)
  BY <1>2, SubSeqIsPart, Zenon DEF n
<1>4. u = SubSeq(s, 1, n - 1)
  BY DEF Front, n
<1> HIDE DEF u
<1>5. (n - 1) - 1 + 1 = n - 1 /\ 1 - 1 = 0
  BY <1>1
<1> QED  BY <1>1, <1>3, <1>4, <1>5 DEF n, u, Last

\* An operator that is found divides a text in two.
LEMMA OutsideIs ==
  ASSUME NEW s \in Seq(Tokens), NEW ts, Outside(s, ts) # {}
  PROVE  LET i == Min(Outside(s, ts))
         IN  /\ i \in Outside(s, ts) /\ i \in 1..Len(s) /\ s[i] \in ts /\ Depth(s)[i - 1] = 0
             /\ \A j \in Outside(s, ts) : i <= j
<1> DEFINE T == Outside(s, ts)
           i == Min(T)
<1>1. T \in SUBSET Nat
  BY DEF Outside
<1> HIDE DEF T
<1>2. i \in T /\ \A j \in T : i <= j
  BY <1>1, MinIs DEF T
<1> HIDE DEF i
<1>3. i \in 1..Len(s) /\ s[i] \in ts /\ Depth(s)[i - 1] = 0
  BY <1>2 DEF T, Outside
<1> QED  BY <1>2, <1>3 DEF i, T

\* The first place where aspect-core splits a text.
LEMMA CoreOperatorsAre ==
  ASSUME NEW s \in Seq(Tokens), NEW op, CoreOperators(s, op) # {}
  PROVE  LET i == Min(CoreOperators(s, op))
         IN  /\ i \in CoreOperators(s, op) /\ i \in 1..Len(s) /\ s[i] = op
             /\ Depth(s)[i - 1] = 0 /\ i > 1 /\ i < Len(s)
             /\ \A j \in CoreOperators(s, op) : i <= j
<1> DEFINE T == CoreOperators(s, op)
           i == Min(T)
<1>1. T \in SUBSET Nat
  BY DEF Outside, CoreOperators
<1> HIDE DEF T
<1>2. i \in T /\ \A j \in T : i <= j
  BY <1>1, MinIs DEF T
<1> HIDE DEF i
<1>3. i \in 1..Len(s) /\ s[i] = op /\ Depth(s)[i - 1] = 0 /\ i # 1 /\ i # Len(s)
  BY <1>2 DEF T, Outside, CoreOperators
<1>4. Len(s) \in Nat
  OBVIOUS
<1> QED  BY <1>2, <1>3, <1>4 DEF i, T

\* The trees of a text have no patterns but those in it.
NodesOf(A) == A \cup Connectives \cup {Garbage}

\* A leaf is a pattern of the text, or garbage, or nothing.
LEMMA LeavesAre ==
  ASSUME NEW A \in SUBSET Atoms, NEW s \in Seq(A \cup Symbols), s # << >>
  PROVE  /\ CoreLeaf(s) \in Seq(NodesOf(A))
         /\ \A cut : DriverLeaf(s, cut) \in Seq(NodesOf(A))
<1> DEFINE h == Head(s)
           N == NodesOf(A)
<1>1. Connectives \subseteq N /\ Garbage \in N /\ A \subseteq N
  BY DEF NodesOf
<1> HIDE DEF N
<1>2. Err \in Seq(N) /\ Pattern(Garbage) \in Seq(N)
  BY <1>1, TreesOver
<1>3. h \in Atoms => Pattern(h) \in Seq(N) /\ Patterns[h].kind \in {"execution", "within", "name"}
  <2> SUFFICES ASSUME h \in Atoms
               PROVE  Pattern(h) \in Seq(N) /\ Patterns[h].kind \in {"execution", "within", "name"}
    OBVIOUS
  <2>1. h \in A \cup Symbols
    OBVIOUS
  <2>2. Atoms \cap Symbols = {} /\ Patterns[h].kind \in {"execution", "within", "name"}
    BY PatternAssumption DEF PatternAssumption
  <2>3. h \in N
    BY <1>1, <2>1, <2>2
  <2> QED  BY <1>1, <2>2, <2>3, TreesOver
<1>4. CoreLeaf(s) \in Seq(N)
  BY <1>2, <1>3 DEF CoreLeaf
<1>5. ASSUME NEW cut  PROVE DriverLeaf(s, cut) \in Seq(N)
  BY <1>2, <1>3 DEF DriverLeaf
<1> QED  BY <1>4, <1>5 DEF N

-----------------------------------------------------------------------------
(* The parsers call themselves with shorter texts. *)

Shorter(X, s) == {t \in Seq(X) : Len(t) < Len(s)}

\* The texts with which they may.
LEMMA CallsAre ==
  ASSUME NEW X, NEW s \in Seq(X), s # << >>
  PROVE  /\ Tail(s) \in Shorter(X, s)
         /\ Len(s) >= 2 => Inside(s) \in Shorter(X, s)
         /\ Front(s) \in Shorter(X, s)
         /\ \A i \in 1..Len(s) : LeftOf(s, i) \in Shorter(X, s) /\ RightOf(s, i) \in Shorter(X, s)
<1>1. Tail(s) \in Seq(X) /\ Len(Tail(s)) = Len(s) - 1 /\ Len(s) \in Nat
  BY TailIs
<1>2. Len(s) >= 2 => Inside(s) \in Seq(X) /\ Len(Inside(s)) = Len(s) - 2
  BY InsideIs
<1>3. ASSUME NEW i \in 1..Len(s)
      PROVE  LeftOf(s, i) \in Shorter(X, s) /\ RightOf(s, i) \in Shorter(X, s)
  <2>1. /\ LeftOf(s, i) \in Seq(X) /\ Len(LeftOf(s, i)) = i - 1
        /\ RightOf(s, i) \in Seq(X) /\ Len(RightOf(s, i)) = Len(s) - i
    BY CutIs
  <2> QED  BY <1>1, <2>1 DEF Shorter
<1>4. Tail(s) \in Shorter(X, s)
  BY <1>1 DEF Shorter
<1>5. Len(s) >= 2 => Inside(s) \in Shorter(X, s)
  BY <1>1, <1>2 DEF Shorter
<1>6. Front(s) \in Shorter(X, s)
  BY FrontIs DEF Shorter
<1> QED  BY <1>3, <1>4, <1>5, <1>6

\* Texts no longer than one side of an operator are shorter than the whole.
LEMMA ShorterThanSide ==
  ASSUME NEW X, NEW s \in Seq(X), NEW l \in Shorter(X, s), l # << >>
  PROVE  Front(l) \in Shorter(X, s)
<1>1. l \in Seq(X) /\ Len(l) < Len(s) /\ Len(l) \in Nat /\ Len(s) \in Nat
  BY DEF Shorter
<1>2. Front(l) \in Seq(X) /\ Len(Front(l)) = Len(l) - 1
  BY <1>1, FrontIs
<1> DEFINE n == Len(s)
           k == Len(l)
           m == Len(Front(l))
<1>3. n \in Nat /\ k \in Nat /\ k < n /\ m = k - 1
  BY <1>1, <1>2
<1> HIDE DEF n, k, m
<1>4. m < n
  BY <1>3
<1> QED  BY <1>2, <1>4 DEF Shorter, n, m

\* A text without wide patterns, the empty one above all, is cut where it ends.
LEMMA NothingIsNotWide == Wide(<< >>) = {}
BY DEF Wide

\* parse_pointcut of aspect-core calls itself only for shorter texts.
LEMMA CoreCallsShorter ==
  ASSUME NEW s \in Seq(Tokens), NEW f, NEW g, \A t \in Shorter(Tokens, s) : f[t] = g[t]
  PROVE  CoreStep(f, s) = CoreStep(g, s)
<1>1. StripOuterParens(s) /\ s # << >> => f[Inside(s)] = g[Inside(s)]
  BY CallsAre DEF StripOuterParens, BracketsAtBothEnds
<1>2. s # << >> => f[Tail(s)] = g[Tail(s)]
  BY CallsAre
<1>3. ASSUME NEW op, NEW name, CoreOperators(s, op) # {}, s # << >>
      PROVE  CoreSplit(f, s, op, name) = CoreSplit(g, s, op, name)
  <2> DEFINE i == Min(CoreOperators(s, op))
  <2>1. i \in 1..Len(s)
    BY <1>3, CoreOperatorsAre
  <2>2. \A h : CoreSplit(h, s, op, name) = Join(name, CoreLeft(h, LeftOf(s, i)), h[RightOf(s, i)])
    BY Zenon DEF CoreSplit, LeftOf, RightOf
  <2> DEFINE l == LeftOf(s, i)
  <2> HIDE DEF i
  <2>3. l \in Shorter(Tokens, s) /\ RightOf(s, i) \in Shorter(Tokens, s)
    BY <1>3, <2>1, CallsAre
  <2>4. Wide(l) # {} => Front(l) \in Shorter(Tokens, s)
    BY <2>3, ShorterThanSide, NothingIsNotWide
  <2>5. CoreLeft(f, l) = CoreLeft(g, l)
    <3>1. f[l] = g[l] /\ (Wide(l) # {} => f[Front(l)] = g[Front(l)])
      BY <2>3, <2>4
    <3> QED  BY <3>1, Zenon DEF CoreLeft
  <2>6. f[RightOf(s, i)] = g[RightOf(s, i)]
    BY <2>3
  <2> QED  BY <2>2, <2>5, <2>6 DEF l
<1> QED  BY <1>1, <1>2, <1>3, Zenon DEF CoreStep

\* A call that gets trees of the text's patterns returns one.
LEMMA CoreStepIsTree ==
  ASSUME NEW A \in SUBSET Atoms, NEW s \in Seq(A \cup Symbols), NEW f,
         \A t \in Shorter(A \cup Symbols, s) : f[t] \in Seq(NodesOf(A))
  PROVE  CoreStep(f, s) \in Seq(NodesOf(A))
<1> DEFINE X == A \cup Symbols
           N == NodesOf(A)
<1>1. Connectives \subseteq N
  BY DEF NodesOf
<1>2. s \in Seq(Tokens) /\ s \in Seq(X)
  BY DEF Tokens
<1>3. \A t \in Shorter(X, s) : f[t] \in Seq(N)
  OBVIOUS
<1>4. s # << >> => CoreLeaf(s) \in Seq(N)
  BY LeavesAre
<1>9. Err \in Seq(N)
  BY <1>1, TreesOver
<1> HIDE DEF X, N
<1>5. StripOuterParens(s) /\ s # << >> => f[Inside(s)] \in Seq(N)
  BY <1>2, <1>3, CallsAre DEF StripOuterParens, BracketsAtBothEnds
<1>6. s # << >> => Not(f[Tail(s)]) \in Seq(N)
  <2> SUFFICES ASSUME s # << >>  PROVE Not(f[Tail(s)]) \in Seq(N)
    OBVIOUS
  <2>1. f[Tail(s)] \in Seq(N)
    BY <1>2, <1>3, CallsAre
  <2> QED  BY <1>1, <2>1, TreesOver
<1>7. ASSUME NEW op, NEW name \in Connectives, CoreOperators(s, op) # {}, s # << >>
      PROVE  CoreSplit(f, s, op, name) \in Seq(N)
  <2> DEFINE i == Min(CoreOperators(s, op))
  <2>1. i \in 1..Len(s)
    BY <1>2, <1>7, CoreOperatorsAre
  <2>2. CoreSplit(f, s, op, name) = Join(name, CoreLeft(f, LeftOf(s, i)), f[RightOf(s, i)])
    BY Zenon DEF CoreSplit, LeftOf, RightOf
  <2> DEFINE l == LeftOf(s, i)
  <2> HIDE DEF i
  <2>3. l \in Shorter(X, s) /\ RightOf(s, i) \in Shorter(X, s)
    BY <1>2, <1>7, <2>1, CallsAre
  <2>4. Wide(l) # {} => Front(l) \in Shorter(X, s)
    BY <1>2, <2>3, ShorterThanSide, NothingIsNotWide
  <2>5. CoreLeft(f, l) \in Seq(N)
    <3>1. f[l] \in Seq(N) /\ (Wide(l) # {} => f[Front(l)] \in Seq(N))
      BY <1>3, <2>3, <2>4
    <3> QED  BY <1>9, <3>1, Zenon DEF CoreLeft
  <2>6. f[RightOf(s, i)] \in Seq(N)
    BY <1>3, <2>3
  <2> QED  BY <1>1, <2>2, <2>5, <2>6, TreesOver DEF l
<1>8. "and" \in Connectives /\ "or" \in Connectives
  BY DEF Connectives
<1>10. CoreStep(f, s) \in Seq(N)
  BY <1>4, <1>5, <1>6, <1>7, <1>8, <1>9, Zenon DEF CoreStep
<1> QED  BY <1>10 DEF N

\* The tokens are the patterns and the symbols.
LEMMA AllTokens ==
  ASSUME NEW s \in Seq(Tokens), NEW f, \A t \in Shorter(Tokens, s) : f[t] \in Seq(Nodes)
  PROVE  CoreStep(f, s) \in Seq(Nodes)
<1>1. Tokens = Atoms \cup Symbols /\ Nodes = NodesOf(Atoms) /\ Atoms \in SUBSET Atoms
  BY DEF Tokens, Nodes, NodesOf
<1> DEFINE A == Atoms
<1> HIDE DEF A
<1>2. s \in Seq(A \cup Symbols) /\ \A t \in Shorter(A \cup Symbols, s) : f[t] \in Seq(NodesOf(A))
  BY <1>1 DEF A
<1>3. CoreStep(f, s) \in Seq(NodesOf(A))
  BY <1>1, <1>2, CoreStepIsTree DEF A
<1> QED  BY <1>1, <1>3 DEF A

CoreReading == [s \in Seq(Tokens) |-> CoreParse(s)]

\* A call of the parser does what the code says, with what the calls it makes return.
LEMMA CoreParseIs ==
  ASSUME NEW s \in Seq(Tokens)
  PROVE  CoreParse(s) = CoreStep(CoreReading, s) /\ CoreParse(s) \in Seq(Nodes)
<1> DEFINE D == Seq(Tokens)
           V == Seq(Nodes)
           size == [t \in D |-> Len(t)]
           F == [D -> V]
           Def(f) == [t \in D |-> CoreStep(f, t)]
           step == [f \in F |-> Def(f)]
           parse == CHOOSE f : f = Def(f)
<1>1. size \in [D -> Nat] /\ \A t \in D : size[t] = Len(t)
  OBVIOUS
<1>2. V # {}
  BY TreesAre
<1>3. step \in [F -> F]
  <2>1. ASSUME NEW f \in F, NEW t \in D  PROVE CoreStep(f, t) \in V
    <3>1. \A u \in Shorter(Tokens, t) : f[u] \in V
      BY DEF Shorter
    <3> QED  BY <3>1, AllTokens, Zenon
  <2> HIDE DEF D, V
  <2> QED  BY <2>1
<1>4. \A f \in F : step[f] = Def(f)
  BY Zenon
<1>5. LooksBelow(D, V, size, step)
  <2> SUFFICES ASSUME NEW f \in F, NEW g \in F, NEW t \in D,
                      \A u \in D : size[u] < size[t] => f[u] = g[u]
               PROVE  step[f][t] = step[g][t]
    BY Zenon DEF LooksBelow
  <2>1. \A u \in Shorter(Tokens, t) : f[u] = g[u]
    BY <1>1 DEF Shorter
  <2>2. CoreStep(f, t) = CoreStep(g, t)
    BY <2>1, CoreCallsShorter, Zenon
  <2>3. step[f] = Def(f) /\ step[g] = Def(g)
    BY <1>4, Zenon
  <2>4. Def(f)[t] = CoreStep(f, t) /\ Def(g)[t] = CoreStep(g, t)
    BY Zenon
  <2> HIDE DEF Def
  <2> QED  BY <2>2, <2>3, <2>4
<1>6. PICK g : IsStepOf(g, D, V, step)
  <2>1. MapsFunctions(D, V, step)
    BY <1>3, Zenon DEF MapsFunctions
  <2>2. size \in [D -> Nat]
    BY <1>1
  <2> HIDE DEF D, V, size, step
  <2> QED  BY <1>2, <1>5, <2>1, <2>2, RecursionBySize, Zenon
<1>7. parse = Def(parse)
  <2>1. g = Def(g)
    BY <1>4, <1>6, Zenon DEF IsStepOf
  <2> HIDE DEF Def
  <2> QED  BY <2>1, Zenon
<1>8. \A t \in D : CoreParse(t) = parse[t]
  BY Zenon DEF CoreParse
<1> HIDE DEF parse
<1>9. \A t \in D : parse[t] = CoreStep(parse, t)
  <2> SUFFICES ASSUME NEW t \in D  PROVE parse[t] = CoreStep(parse, t)
    OBVIOUS
  <2>1. Def(parse)[t] = CoreStep(parse, t)
    BY Zenon
  <2> HIDE DEF Def
  <2> QED  BY <1>7, <2>1
<1>10. \A t \in D : t \in {u \in D : parse[u] \in V}
  <2> DEFINE T == {u \in D : parse[u] \in V}
  <2>1. ASSUME NEW t \in D, \A u \in D : size[u] < size[t] => u \in T  PROVE t \in T
    <3>1. \A u \in Shorter(Tokens, t) : parse[u] \in V
      BY <1>1, <2>1 DEF Shorter
    <3>2. CoreStep(parse, t) \in V
      BY <3>1, AllTokens, Zenon
    <3> HIDE DEF D, V
    <3> QED  BY <1>9, <3>2
  <2>2. D \subseteq T
    <3> HIDE DEF T, D, size
    <3> QED  BY <1>1, <2>1, InductionBySize, Zenon
  <2> QED  BY <2>2
<1>11. CoreStep(CoreReading, s) = CoreStep(parse, s)
  <2>1. \A u \in Shorter(Tokens, s) : CoreReading[u] = parse[u]
    BY <1>8 DEF CoreReading, Shorter
  <2> QED  BY <2>1, CoreCallsShorter, Zenon
<1> QED  BY <1>8, <1>9, <1>10, <1>11

\* The tree of a text has no patterns but those in it.
LEMMA CoreTreeIsOf ==
  ASSUME NEW A \in SUBSET Atoms, NEW s \in Seq(A \cup Symbols)
  PROVE  CoreParse(s) \in Seq(NodesOf(A))
<1> DEFINE D == Seq(A \cup Symbols)
           T == {u \in D : CoreParse(u) \in Seq(NodesOf(A))}
           size == [t \in D |-> Len(t)]
<1>1. size \in [D -> Nat] /\ \A t \in D : size[t] = Len(t)
  OBVIOUS
<1>2. D \subseteq Seq(Tokens)
  <2>1. A \cup Symbols \subseteq Tokens
    BY DEF Tokens
  <2> QED  BY <2>1
<1>3. ASSUME NEW t \in D, \A u \in D : size[u] < size[t] => u \in T  PROVE t \in T
  <2>1. \A u \in Shorter(A \cup Symbols, t) : CoreReading[u] \in Seq(NodesOf(A))
    <3> SUFFICES ASSUME NEW u \in Shorter(A \cup Symbols, t)
                 PROVE  CoreReading[u] \in Seq(NodesOf(A))
      OBVIOUS
    <3>1. u \in D /\ size[u] < size[t]
      BY <1>1 DEF Shorter
    <3>2. CoreReading[u] = CoreParse(u)
      BY <1>2, <3>1 DEF CoreReading
    <3> QED  BY <1>3, <3>1, <3>2
  <2>2. CoreStep(CoreReading, t) \in Seq(NodesOf(A))
    BY <2>1, CoreStepIsTree, Zenon
  <2>3. CoreParse(t) = CoreStep(CoreReading, t)
    BY <1>2, CoreParseIs
  <2> QED  BY <2>2, <2>3
<1>4. D \subseteq T
  <2> HIDE DEF T, D, size
  <2> QED  BY <1>1, <1>3, InductionBySize, Zenon
<1> QED  BY <1>4

\* A call of the parser, case by case.
LEMMA CoreRules ==
  ASSUME NEW s \in Seq(Tokens), s # << >>
  PROVE  /\ StripOuterParens(s) => CoreParse(s) = CoreParse(Inside(s))
         /\ ~StripOuterParens(s) =>
              /\ Head(s) = "!" => CoreParse(s) = Not(CoreParse(Tail(s)))
              /\ Head(s) # "!" =>
                   /\ CoreOperators(s, " || ") # {} =>
                        LET i == Min(CoreOperators(s, " || "))
                        IN  CoreParse(s) =
                              Join("or", CoreLeft(CoreReading, LeftOf(s, i)), CoreParse(RightOf(s, i)))
                   /\ CoreOperators(s, " || ") = {} =>
                        /\ CoreOperators(s, " && ") # {} =>
                             LET i == Min(CoreOperators(s, " && "))
                             IN  CoreParse(s) =
                                   Join("and", CoreLeft(CoreReading, LeftOf(s, i)), CoreParse(RightOf(s, i)))
                        /\ CoreOperators(s, " && ") = {} => CoreParse(s) = CoreLeaf(s)
<1>1. CoreParse(s) = CoreStep(CoreReading, s)
  BY CoreParseIs
<1>2. \A t \in Shorter(Tokens, s) : CoreReading[t] = CoreParse(t)
  BY DEF CoreReading, Shorter
<1>3. StripOuterParens(s) => CoreReading[Inside(s)] = CoreParse(Inside(s))
  BY <1>2, CallsAre DEF StripOuterParens, BracketsAtBothEnds
<1>4. CoreReading[Tail(s)] = CoreParse(Tail(s))
  BY <1>2, CallsAre
<1>5. ASSUME NEW op, NEW name, CoreOperators(s, op) # {}
      PROVE  CoreSplit(CoreReading, s, op, name) =
               Join(name, CoreLeft(CoreReading, LeftOf(s, Min(CoreOperators(s, op)))),
                          CoreParse(RightOf(s, Min(CoreOperators(s, op)))))
  <2> DEFINE i == Min(CoreOperators(s, op))
             l == LeftOf(s, i)
             r == RightOf(s, i)
  <2>1. i \in 1..Len(s)
    BY <1>5, CoreOperatorsAre
  <2>2. CoreSplit(CoreReading, s, op, name) = Join(name, CoreLeft(CoreReading, l), CoreReading[r])
    BY Zenon DEF CoreSplit, LeftOf, RightOf
  <2>3. CoreReading[r] = CoreParse(r)
    <3> HIDE DEF i
    <3> QED  BY <1>2, <2>1, CallsAre
  <2> HIDE DEF l, r
  <2>4. CoreSplit(CoreReading, s, op, name) = Join(name, CoreLeft(CoreReading, l), CoreParse(r))
    BY <2>2, <2>3
  <2> QED  BY <2>4 DEF l, r
<1> QED  BY <1>1, <1>3, <1>4, <1>5, Zenon DEF CoreStep

\* What aspect-core reads left of an operator: the text there, if no cut comes out
\* early; and otherwise that, or what is left of it without its last byte, or nothing.
LEMMA CoreLeftIs ==
  ASSUME NEW l \in Seq(Tokens)
  PROVE  /\ Wide(l) = {} => CoreLeft(CoreReading, l) = CoreParse(l)
         /\ \/ CoreLeft(CoreReading, l) = CoreParse(l)
            \/ CoreLeft(CoreReading, l) = Err
            \/ /\ l # << >> /\ Last(l) \in {"(", ")", "!"}
               /\ CoreLeft(CoreReading, l) = CoreParse(Front(l))
<1>1. CoreReading[l] = CoreParse(l)
  BY DEF CoreReading
<1>2. Wide(l) # {} => l # << >> /\ CoreReading[Front(l)] = CoreParse(Front(l))
  BY FrontIs, NothingIsNotWide DEF CoreReading
<1> QED  BY <1>1, <1>2, Zenon DEF CoreLeft

\* The empty text is not accepted.
LEMMA CoreOfNothing == CoreParse(<< >>) = Err
<1> DEFINE s == << >>
<1>1. s \in Seq(Tokens)
  OBVIOUS
<1> HIDE DEF s
<1>2. CoreParse(s) = CoreStep(CoreReading, s)
  BY <1>1, CoreParseIs
<1>3. s = << >>
  BY DEF s
<1>4. CoreStep(CoreReading, s) = Err
  BY <1>3, Zenon DEF CoreStep
<1> QED  BY <1>2, <1>3, <1>4

-----------------------------------------------------------------------------
(* The same for parse_pointcut of the driver *)

Calls == Seq(Tokens) \X BOOLEAN

\* parse_pointcut of the driver calls itself only for shorter texts.
LEMMA DriverCallsShorter ==
  ASSUME NEW s \in Seq(Tokens), NEW cut \in BOOLEAN, NEW f, NEW g,
         \A t \in Shorter(Tokens, s), c \in BOOLEAN : f[<<t, c>>] = g[<<t, c>>]
  PROVE  DriverStep(f, s, cut) = DriverStep(g, s, cut)
<1>1. s # << >> => \A c \in BOOLEAN : f[<<Tail(s), c>>] = g[<<Tail(s), c>>]
  BY CallsAre
<1>2. Head(s) = "(" /\ Last(s) = ")" /\ s # << >> => f[<<Inside(s), FALSE>>] = g[<<Inside(s), FALSE>>]
  <2> SUFFICES ASSUME Head(s) = "(", Last(s) = ")", s # << >>
               PROVE  f[<<Inside(s), FALSE>>] = g[<<Inside(s), FALSE>>]
    OBVIOUS
  <2>1. s[1] = "(" /\ s[Len(s)] = ")" /\ Len(s) >= 1
    BY DEF Last
  <2>2. Len(s) >= 2
    BY <2>1
  <2> QED  BY <2>2, CallsAre
<1>3. ASSUME NEW ts, NEW name, DriverOperators(s, ts) # {}, s # << >>
      PROVE  DriverSplit(f, s, cut, ts, name) = DriverSplit(g, s, cut, ts, name)
  <2> DEFINE i == Min(DriverOperators(s, ts))
  <2>1. i \in 1..Len(s)
    BY <1>3, OutsideIs DEF DriverOperators
  <2>2. \A h : DriverSplit(h, s, cut, ts, name) =
                 IF Wide(LeftOf(s, i)) # {} THEN Err
                 ELSE Join(name, h[<<LeftOf(s, i), FALSE>>], h[<<RightOf(s, i), cut>>])
    BY Zenon DEF DriverSplit, LeftOf, RightOf
  <2> HIDE DEF i
  <2>3. LeftOf(s, i) \in Shorter(Tokens, s) /\ RightOf(s, i) \in Shorter(Tokens, s)
    BY <1>3, <2>1, CallsAre
  <2>4. f[<<LeftOf(s, i), FALSE>>] = g[<<LeftOf(s, i), FALSE>>]
    BY <2>3
  <2>5. f[<<RightOf(s, i), cut>>] = g[<<RightOf(s, i), cut>>]
    BY <2>3
  <2> QED  BY <2>2, <2>4, <2>5
<1>4. TRUE \in BOOLEAN
  OBVIOUS
<1> QED  BY <1>1, <1>2, <1>3, <1>4, Zenon DEF DriverStep

\* A call that gets trees returns one.
LEMMA DriverStepIsTree ==
  ASSUME NEW s \in Seq(Tokens), NEW cut \in BOOLEAN, NEW f,
         \A t \in Shorter(Tokens, s), c \in BOOLEAN : f[<<t, c>>] \in Seq(Nodes)
  PROVE  DriverStep(f, s, cut) \in Seq(Nodes)
<1>1. s # << >> => \A c \in BOOLEAN : f[<<Tail(s), c>>] \in Seq(Nodes)
  BY CallsAre
<1>2. Head(s) = "(" /\ Last(s) = ")" /\ s # << >> => f[<<Inside(s), FALSE>>] \in Seq(Nodes)
  <2> SUFFICES ASSUME Head(s) = "(", Last(s) = ")", s # << >>
               PROVE  f[<<Inside(s), FALSE>>] \in Seq(Nodes)
    OBVIOUS
  <2>1. s[1] = "(" /\ s[Len(s)] = ")" /\ Len(s) >= 1
    BY DEF Last
  <2>2. Len(s) >= 2
    BY <2>1
  <2> QED  BY <2>2, CallsAre
<1>3. ASSUME NEW ts, NEW name \in Connectives, DriverOperators(s, ts) # {}, s # << >>
      PROVE  DriverSplit(f, s, cut, ts, name) \in Seq(Nodes)
  <2> DEFINE i == Min(DriverOperators(s, ts))
  <2>1. i \in 1..Len(s)
    BY <1>3, OutsideIs DEF DriverOperators
  <2>2. DriverSplit(f, s, cut, ts, name) =
          IF Wide(LeftOf(s, i)) # {} THEN Err
          ELSE Join(name, f[<<LeftOf(s, i), FALSE>>], f[<<RightOf(s, i), cut>>])
    BY Zenon DEF DriverSplit, LeftOf, RightOf
  <2> HIDE DEF i
  <2>3. LeftOf(s, i) \in Shorter(Tokens, s) /\ RightOf(s, i) \in Shorter(Tokens, s)
    BY <1>3, <2>1, CallsAre
  <2>4. f[<<LeftOf(s, i), FALSE>>] \in Seq(Nodes) /\ f[<<RightOf(s, i), cut>>] \in Seq(Nodes)
    BY <2>3
  <2> QED  BY <2>2, <2>4, TreesAre
<1>4. "and" \in Connectives /\ "or" \in Connectives
  BY DEF Connectives
<1>5. s # << >> => Not(f[<<Tail(s), cut>>]) \in Seq(Nodes) /\ f[<<Tail(s), TRUE>>] \in Seq(Nodes)
  <2> SUFFICES ASSUME s # << >>
               PROVE  Not(f[<<Tail(s), cut>>]) \in Seq(Nodes) /\ f[<<Tail(s), TRUE>>] \in Seq(Nodes)
    OBVIOUS
  <2>1. f[<<Tail(s), cut>>] \in Seq(Nodes) /\ f[<<Tail(s), TRUE>>] \in Seq(Nodes)
    BY <1>1
  <2> QED  BY <2>1, TreesAre
<1>6. s # << >> => DriverLeaf(s, cut) \in Seq(Nodes)
  <2>1. Tokens = Atoms \cup Symbols /\ Nodes = NodesOf(Atoms)
    BY DEF Tokens, Nodes, NodesOf
  <2> DEFINE A == Atoms
  <2> HIDE DEF A
  <2>2. s # << >> => DriverLeaf(s, cut) \in Seq(NodesOf(A))
    <3>1. A \in SUBSET Atoms /\ s \in Seq(A \cup Symbols)
      BY <2>1 DEF A
    <3> QED  BY <3>1, LeavesAre
  <2> QED  BY <2>1, <2>2 DEF A
<1>7. Err \in Seq(Nodes)
  BY TreesAre
<1> QED  BY <1>2, <1>3, <1>4, <1>5, <1>6, <1>7, Zenon DEF DriverStep

\* `parse` returns what the driver's parser does.
ReadsLikeDriver(parse) ==
  /\ \A s \in Seq(Tokens), cut \in BOOLEAN : parse[<<s, cut>>] = DriverStep(parse, s, cut)
  /\ \A s \in Seq(Tokens) : DriverParse(s) = parse[<<s, FALSE>>]

\* There is a function that does what the code of parse_pointcut says.
LEMMA DriverParseIs == \E parse : ReadsLikeDriver(parse)
<1> DEFINE D == Calls
           V == Seq(Nodes)
           size == [c \in D |-> Len(c[1])]
           F == [D -> V]
           Def(f) == [c \in D |-> DriverStep(f, c[1], c[2])]
           step == [f \in F |-> Def(f)]
           parse == CHOOSE f : f = Def(f)
<1>1. \A c \in D : c[1] \in Seq(Tokens) /\ c[2] \in BOOLEAN /\ c = <<c[1], c[2]>>
  BY DEF Calls
<1>2. size \in [D -> Nat] /\ \A c \in D : size[c] = Len(c[1])
  BY <1>1
<1>3. \A t \in Seq(Tokens), cut \in BOOLEAN : /\ <<t, cut>> \in D
                                              /\ <<t, cut>>[1] = t /\ <<t, cut>>[2] = cut
  BY DEF Calls
<1>4. V # {}
  BY TreesAre
<1>5. MapsFunctions(D, V, step)
  <2>1. ASSUME NEW f \in F, NEW c \in D  PROVE DriverStep(f, c[1], c[2]) \in V
    <3>1. \A t \in Shorter(Tokens, c[1]), b \in BOOLEAN : f[<<t, b>>] \in V
      <4>1. \A t \in Shorter(Tokens, c[1]), b \in BOOLEAN : <<t, b>> \in D
        BY <1>3 DEF Shorter
      <4> HIDE DEF D, V
      <4> QED  BY <4>1
    <3> QED  BY <1>1, <3>1, DriverStepIsTree, Zenon
  <2> HIDE DEF D, V
  <2>2. step \in [F -> F]
    BY <2>1
  <2> QED  BY <2>2, Zenon DEF MapsFunctions
<1>6. \A f \in F : step[f] = Def(f)
  BY Zenon
<1>7. LooksBelow(D, V, size, step)
  <2> SUFFICES ASSUME NEW f \in F, NEW g \in F, NEW c \in D,
                      \A d \in D : size[d] < size[c] => f[d] = g[d]
               PROVE  step[f][c] = step[g][c]
    BY Zenon DEF LooksBelow
  <2>1. \A t \in Shorter(Tokens, c[1]), b \in BOOLEAN : f[<<t, b>>] = g[<<t, b>>]
    <3> SUFFICES ASSUME NEW t \in Shorter(Tokens, c[1]), NEW b \in BOOLEAN
                 PROVE  f[<<t, b>>] = g[<<t, b>>]
      OBVIOUS
    <3>1. t \in Seq(Tokens) /\ Len(t) < Len(c[1])
      BY DEF Shorter
    <3>2. <<t, b>> \in D /\ size[<<t, b>>] = Len(t) /\ size[c] = Len(c[1])
      BY <1>2, <1>3, <3>1
    <3> QED  BY <3>1, <3>2
  <2>2. DriverStep(f, c[1], c[2]) = DriverStep(g, c[1], c[2])
    <3> DEFINE t == c[1]
               b == c[2]
    <3>1. t \in Seq(Tokens) /\ b \in BOOLEAN
      BY <1>1
    <3>2. \A u \in Shorter(Tokens, t), d \in BOOLEAN : f[<<u, d>>] = g[<<u, d>>]
      BY <2>1
    <3> HIDE DEF t, b
    <3>3. DriverStep(f, t, b) = DriverStep(g, t, b)
      BY <3>1, <3>2, DriverCallsShorter
    <3> QED  BY <3>3 DEF t, b
  <2>3. step[f] = Def(f) /\ step[g] = Def(g)
    BY <1>6, Zenon
  <2>4. Def(f)[c] = DriverStep(f, c[1], c[2]) /\ Def(g)[c] = DriverStep(g, c[1], c[2])
    BY Zenon
  <2> HIDE DEF Def
  <2> QED  BY <2>2, <2>3, <2>4
<1>8. PICK g : IsStepOf(g, D, V, step)
  <2>1. size \in [D -> Nat]
    BY <1>2
  <2> HIDE DEF D, V, size, step
  <2> QED  BY <1>4, <1>5, <1>7, <2>1, RecursionBySize, Zenon
<1>9. parse = Def(parse)
  <2>1. g = Def(g)
    BY <1>6, <1>8, Zenon DEF IsStepOf
  <2> HIDE DEF Def
  <2> QED  BY <2>1, Zenon
<1>10. \A t \in Seq(Tokens) : DriverParse(t) = parse[<<t, FALSE>>]
  BY Zenon DEF DriverParse, Calls
<1> HIDE DEF parse
<1>11. \A c \in D : parse[c] = DriverStep(parse, c[1], c[2])
  <2> SUFFICES ASSUME NEW c \in D  PROVE parse[c] = DriverStep(parse, c[1], c[2])
    OBVIOUS
  <2>1. Def(parse)[c] = DriverStep(parse, c[1], c[2])
    BY Zenon
  <2> HIDE DEF Def
  <2> QED  BY <1>9, <2>1
<1>12. ASSUME NEW t \in Seq(Tokens), NEW cut \in BOOLEAN
       PROVE  parse[<<t, cut>>] = DriverStep(parse, t, cut)
  <2> DEFINE c == <<t, cut>>
  <2>1. c \in D /\ c[1] = t /\ c[2] = cut
    BY <1>3
  <2> HIDE DEF c
  <2>2. parse[c] = DriverStep(parse, t, cut)
    BY <1>11, <2>1
  <2> QED  BY <2>2 DEF c
<1> QED  BY <1>10, <1>12, Zenon DEF ReadsLikeDriver

\* What the driver does with each form of text.
LEMMA DriverRules ==
  ASSUME NEW s \in Seq(Tokens), s # << >>
  PROVE  /\ Head(s) = "!" => DriverParse(s) = Not(DriverParse(Tail(s)))
         /\ Head(s) # "!" =>
              /\ Outside(s, Ands) # {} =>
                   LET i == Min(Outside(s, Ands))
                   IN  DriverParse(s) =
                         IF Wide(LeftOf(s, i)) # {} THEN Err
                         ELSE Join("and", DriverParse(LeftOf(s, i)), DriverParse(RightOf(s, i)))
              /\ Outside(s, Ands) = {} =>
                   /\ Outside(s, Ors) # {} =>
                        LET i == Min(Outside(s, Ors))
                        IN  DriverParse(s) =
                              IF Wide(LeftOf(s, i)) # {} THEN Err
                              ELSE Join("or", DriverParse(LeftOf(s, i)), DriverParse(RightOf(s, i)))
                   /\ Outside(s, Ors) = {} =>
                        /\ Head(s) = "(" /\ Last(s) = ")" => DriverParse(s) = DriverParse(Inside(s))
                        /\ Head(s) # "(" => DriverParse(s) = DriverLeaf(s, FALSE)
                        /\ ~EndsClosed(s) => DriverParse(s) = DriverLeaf(s, FALSE)
<1>1. PICK parse : ReadsLikeDriver(parse)
  BY DriverParseIs
<1>2. DriverParse(s) = DriverStep(parse, s, FALSE)
  BY <1>1 DEF ReadsLikeDriver
<1>3. \A t \in Shorter(Tokens, s) : DriverParse(t) = parse[<<t, FALSE>>]
  BY <1>1 DEF ReadsLikeDriver, Shorter
<1>4. Head(s) = "(" /\ Last(s) = ")" => parse[<<Inside(s), FALSE>>] = DriverParse(Inside(s))
  <2> SUFFICES ASSUME Head(s) = "(", Last(s) = ")"
               PROVE  parse[<<Inside(s), FALSE>>] = DriverParse(Inside(s))
    OBVIOUS
  <2>1. s[1] = "(" /\ s[Len(s)] = ")" /\ Len(s) >= 1
    BY DEF Last
  <2>2. Len(s) >= 2
    BY <2>1
  <2> QED  BY <1>3, <2>2, CallsAre
<1>5. parse[<<Tail(s), FALSE>>] = DriverParse(Tail(s))
  BY <1>3, CallsAre
<1>6. ASSUME NEW ts, NEW name, Outside(s, ts) # {}
      PROVE  DriverSplit(parse, s, FALSE, ts, name) =
               IF Wide(LeftOf(s, Min(Outside(s, ts)))) # {} THEN Err
               ELSE Join(name, DriverParse(LeftOf(s, Min(Outside(s, ts)))),
                               DriverParse(RightOf(s, Min(Outside(s, ts)))))
  <2> DEFINE i == Min(Outside(s, ts))
             l == LeftOf(s, i)
             r == RightOf(s, i)
  <2>1. i \in 1..Len(s)
    BY <1>6, OutsideIs
  <2>2. DriverSplit(parse, s, FALSE, ts, name) =
          IF Wide(l) # {} THEN Err ELSE Join(name, parse[<<l, FALSE>>], parse[<<r, FALSE>>])
    BY Zenon DEF DriverSplit, DriverOperators, LeftOf, RightOf
  <2>3. parse[<<l, FALSE>>] = DriverParse(l) /\ parse[<<r, FALSE>>] = DriverParse(r)
    <3> HIDE DEF i
    <3> QED  BY <1>3, <2>1, CallsAre
  <2> HIDE DEF l, r
  <2>4. DriverSplit(parse, s, FALSE, ts, name) =
          IF Wide(l) # {} THEN Err ELSE Join(name, DriverParse(l), DriverParse(r))
    BY <2>2, <2>3
  <2> QED  BY <2>4 DEF l, r
<1>7. {" && ", "&&"} = Ands /\ {" || ", "||"} = Ors
  BY DEF Ands, Ors
<1>8. \A ts : DriverOperators(s, ts) = Outside(s, ts)
  BY DEF DriverOperators
<1>9. ")" \in Atoms \cup {")"}
  OBVIOUS
<1> QED  BY <1>2, <1>4, <1>5, <1>6, <1>7, <1>8, <1>9, Zenon DEF DriverStep, EndsClosed

-----------------------------------------------------------------------------
(* The readings, and induction on them *)

\* How long the texts are that the rules make.
LEMMA LengthsOfRules ==
  /\ \A x : Atomic(x) => Len(x.text) = 1
  /\ \A r \in ReadingSet : Len(r.text) \in Nat
  /\ \A x, r : r \in ReadingSet /\ Negation(x, r) => Len(x.text) = Len(r.text) + 1
  /\ \A x, r : r \in ReadingSet /\ Brackets(x, r) => Len(x.text) = Len(r.text) + 2
<1>1. ASSUME NEW x, Atomic(x)  PROVE Len(x.text) = 1
  <2>1. PICK a \in Atoms : x = Reading(<<a>>, Pattern(a))
    BY <1>1 DEF Atomic
  <2>2. x.text = <<a>>
    BY <2>1, ReadingIs
  <2> QED  BY <2>2
<1>2. \A r \in ReadingSet : r.text \in Seq(Tokens) /\ Len(r.text) \in Nat
  <2>1. \A r \in ReadingSet : r.text \in Seq(Tokens)
    BY DEF ReadingSet
  <2> QED  BY <2>1
<1>3. ASSUME NEW x, NEW r \in ReadingSet, Negation(x, r)  PROVE Len(x.text) = Len(r.text) + 1
  <2> DEFINE s == r.text
             t == <<"!">> \o s
  <2>1. x.text = t
    BY <1>3, ReadingIs DEF Negation
  <2>2. s \in Seq(Tokens)
    BY <1>2
  <2> HIDE DEF s
  <2>3. Len(t) = Len(s) + 1
    BY <2>2
  <2> HIDE DEF t
  <2> QED  BY <2>1, <2>3 DEF s
<1>4. ASSUME NEW x, NEW r \in ReadingSet, Brackets(x, r)  PROVE Len(x.text) = Len(r.text) + 2
  <2> DEFINE s == r.text
             t == <<"(">> \o s \o <<")">>
  <2>1. x.text = t
    BY <1>4, ReadingIs DEF Brackets
  <2>2. s \in Seq(Tokens)
    BY <1>2
  <2> HIDE DEF s
  <2>3. Len(t) = Len(s) + 2
    BY <2>2
  <2> HIDE DEF t
  <2> QED  BY <2>1, <2>3 DEF s
<1> QED  BY <1>1, <1>2, <1>3, <1>4

\* And that of an operator between two texts.
LEMMA LengthOfJoin ==
  ASSUME NEW x, NEW ops, NEW name, NEW l \in ReadingSet, NEW r \in ReadingSet,
         JoinOf(x, ops, name, l, r)
  PROVE  Len(x.text) = Len(l.text) + 1 + Len(r.text)
<1>1. PICK op \in ops :
        x = Reading(l.text \o <<op>> \o r.text, Join(name, l.means, r.means))
  BY DEF JoinOf
<1> DEFINE s == l.text
           u == r.text
           t == s \o <<op>> \o u
<1>2. x.text = t
  BY <1>1, ReadingIs
<1>3. s \in Seq(Tokens) /\ u \in Seq(Tokens)
  BY DEF ReadingSet
<1> HIDE DEF s, u
<1>4. Len(t) = Len(s) + 1 + Len(u)
  BY <1>3
<1> HIDE DEF t
<1> QED  BY <1>2, <1>4 DEF s, u

\* The readings of ByLength[n] have n tokens.
LEMMA LengthsAre ==
  \A n \in 1..MaxGrammar :
    /\ ByLength[n].factor \subseteq ByLength[n].term
    /\ ByLength[n].term \subseteq ByLength[n].expr
    /\ ByLength[n].expr \subseteq ReadingSet
    /\ \A x \in ByLength[n].expr : Len(x.text) = n
<1> DEFINE m == MaxGrammar
           S == 1..m
           w == ByLength
           size == [n \in S |-> n]
           T == {n \in S : \A x \in w[n].expr : Len(x.text) = n}
<1>1. m \in Nat
  BY TextAssumption DEF TextAssumption
<1>2. /\ w \in Seq(LevelSet) /\ Len(w) = m
      /\ \A n \in S :
           /\ \A x : x \in w[n].factor <=> IsFactor(x, w, n)
           /\ \A x : x \in w[n].term <=> x \in w[n].factor \/ IsAnd(x, w, n)
           /\ \A x : x \in w[n].expr <=> x \in w[n].term \/ IsOr(x, w, n)
  BY GrammarIs, Zenon
<1> HIDE DEF w, m
<1>3. \A n \in S : w[n] \in LevelSet
  BY <1>1, <1>2
<1>4. \A n \in S : /\ w[n].factor \subseteq w[n].term /\ w[n].term \subseteq w[n].expr
                   /\ w[n].expr \subseteq ReadingSet
  BY <1>2, <1>3 DEF LevelSet
<1>5. ASSUME NEW n \in S, \A k \in S : size[k] < size[n] => k \in T  PROVE n \in T
  <2>1. \A k \in 1..(n - 1) : k \in T
    BY <1>1, <1>5
  <2>2. \A k \in 1..(n - 1) : \A x : \/ x \in w[k].factor \/ x \in w[k].term \/ x \in w[k].expr
                                     => x \in ReadingSet /\ Len(x.text) = k
    <3>1. \A k \in 1..(n - 1) : k \in S
      BY <1>1
    <3> HIDE DEF S
    <3> QED  BY <1>4, <2>1, <3>1
  <2>3. ASSUME NEW x \in w[n].expr  PROVE Len(x.text) = n
    <3>1. CASE IsFactor(x, w, n)
      <4>1. CASE n = 1 /\ Atomic(x)
        BY <4>1, LengthsOfRules
      <4>2. ASSUME n >= 2, NEW r \in w[n - 1].factor, Negation(x, r)  PROVE Len(x.text) = n
        <5>1. n - 1 \in 1..(n - 1)
          BY <4>2
        <5>2. r \in ReadingSet /\ Len(r.text) = n - 1
          BY <2>2, <4>2, <5>1
        <5>3. Len(x.text) = (n - 1) + 1
          BY <4>2, <5>2, LengthsOfRules
        <5> QED  BY <5>3
      <4>3. ASSUME n >= 3, NEW r \in w[n - 2].expr, Brackets(x, r)  PROVE Len(x.text) = n
        <5>1. n - 2 \in 1..(n - 1)
          BY <4>3
        <5>2. r \in ReadingSet /\ Len(r.text) = n - 2
          BY <2>2, <4>3, <5>1
        <5>3. Len(x.text) = (n - 2) + 2
          BY <4>3, <5>2, LengthsOfRules
        <5> QED  BY <5>3
      <4> QED  BY <3>1, <4>1, <4>2, <4>3 DEF IsFactor
    <3>2. ASSUME NEW ops, NEW name, NEW k \in 1..(n - 2), NEW l, NEW r,
                 l \in w[k].factor \/ l \in w[k].term,
                 r \in w[n - 1 - k].term \/ r \in w[n - 1 - k].expr, JoinOf(x, ops, name, l, r)
          PROVE  Len(x.text) = n
      <4>1. k \in 1..(n - 1) /\ n - 1 - k \in 1..(n - 1)
        BY <1>1
      <4>2. l \in ReadingSet /\ Len(l.text) = k /\ r \in ReadingSet /\ Len(r.text) = n - 1 - k
        BY <2>2, <3>2, <4>1
      <4>3. Len(x.text) = k + 1 + (n - 1 - k)
        <5>1. Len(x.text) = Len(l.text) + 1 + Len(r.text)
          BY <3>2, <4>2, LengthOfJoin, Zenon
        <5> QED  BY <4>2, <5>1
      <4> QED  BY <4>3
    <3>3. CASE IsAnd(x, w, n)
      BY <3>2, <3>3 DEF IsAnd
    <3>4. CASE IsOr(x, w, n)
      BY <3>2, <3>4 DEF IsOr
    <3>5. IsFactor(x, w, n) \/ IsAnd(x, w, n) \/ IsOr(x, w, n)
      BY <1>2, Zenon
    <3> QED  BY <3>1, <3>3, <3>4, <3>5
  <2> QED  BY <2>3
<1>6. S \subseteq T
  <2>1. size \in [S -> Nat]
    BY <1>1
  <2> HIDE DEF S, T, size
  <2> QED  BY <1>5, <2>1, InductionBySize, Zenon
<1> QED  BY <1>4, <1>6 DEF w, m

Factors == {x \in ReadingSet : Len(x.text) \in 1..MaxGrammar /\ x \in ByLength[Len(x.text)].factor}
Terms == {x \in ReadingSet : Len(x.text) \in 1..MaxGrammar /\ x \in ByLength[Len(x.text)].term}
Exprs == {x \in ReadingSet : Len(x.text) \in 1..MaxGrammar /\ x \in ByLength[Len(x.text)].expr}

Readings == ReadingsUpTo(MaxGrammar)

\* Factors, terms and expressions are those of all lengths.
LEMMA OfLength ==
  /\ Factors \subseteq Terms /\ Terms \subseteq Exprs /\ Exprs \subseteq ReadingSet
  /\ Readings = Exprs
  /\ \A n \in 1..MaxGrammar :
       /\ \A x \in ByLength[n].factor : x \in Factors /\ Len(x.text) = n
       /\ \A x \in ByLength[n].term : x \in Terms /\ Len(x.text) = n
       /\ \A x \in ByLength[n].expr : x \in Exprs /\ Len(x.text) = n
<1> DEFINE w == ByLength
<1>1. \A n \in 1..MaxGrammar : /\ w[n].factor \subseteq w[n].term /\ w[n].term \subseteq w[n].expr
                               /\ w[n].expr \subseteq ReadingSet
                               /\ \A x \in w[n].expr : Len(x.text) = n
  BY LengthsAre, Zenon
<1> HIDE DEF w
<1>2. Factors \subseteq Terms /\ Terms \subseteq Exprs /\ Exprs \subseteq ReadingSet
  <2>1. Factors \subseteq Terms
    BY <1>1, Zenon DEF Factors, Terms, w
  <2>2. Terms \subseteq Exprs
    BY <1>1, Zenon DEF Terms, Exprs, w
  <2>3. Exprs \subseteq ReadingSet
    BY Zenon DEF Exprs
  <2> QED  BY <2>1, <2>2, <2>3
<1>3. ASSUME NEW n \in 1..MaxGrammar
      PROVE  /\ \A x \in w[n].factor : x \in Factors /\ Len(x.text) = n
             /\ \A x \in w[n].term : x \in Terms /\ Len(x.text) = n
             /\ \A x \in w[n].expr : x \in Exprs /\ Len(x.text) = n
  <2>1. \A x \in w[n].factor : x \in Factors /\ Len(x.text) = n
    BY <1>1, Zenon DEF Factors, w
  <2>2. \A x \in w[n].term : x \in Terms /\ Len(x.text) = n
    BY <1>1, Zenon DEF Terms, w
  <2>3. \A x \in w[n].expr : x \in Exprs /\ Len(x.text) = n
    BY <1>1, Zenon DEF Exprs, w
  <2> QED  BY <2>1, <2>2, <2>3
<1>4. Readings = Exprs
  <2>1. \A x : x \in Readings <=> \E n \in 1..MaxGrammar : x \in w[n].expr
    BY Zenon DEF Readings, ReadingsUpTo, w
  <2>2. \A x \in Exprs : \E n \in 1..MaxGrammar : x \in w[n].expr
    BY Zenon DEF Exprs, w
  <2> QED  BY <1>3, <2>1, <2>2
<1> QED  BY <1>2, <1>3, <1>4 DEF w

\* The grammar, rule by rule.
LEMMA RulesAre ==
  /\ \A x \in Factors : \/ Atomic(x)
                        \/ \E r \in Factors : Negation(x, r)
                        \/ \E r \in Exprs : Brackets(x, r)
  /\ \A x \in Terms : x \in Factors \/ \E l \in Factors : \E r \in Terms : JoinOf(x, Ands, "and", l, r)
  /\ \A x \in Exprs : x \in Terms \/ \E l \in Terms : \E r \in Exprs : JoinOf(x, Ors, "or", l, r)
<1> DEFINE w == ByLength
<1>1. \A n \in 1..MaxGrammar :
           /\ \A x : x \in w[n].factor <=> IsFactor(x, w, n)
           /\ \A x : x \in w[n].term <=> x \in w[n].factor \/ IsAnd(x, w, n)
           /\ \A x : x \in w[n].expr <=> x \in w[n].term \/ IsOr(x, w, n)
  BY GrammarIs, Zenon
<1>2. \A n \in 1..MaxGrammar :
           /\ \A x \in w[n].factor : x \in Factors
           /\ \A x \in w[n].term : x \in Terms
           /\ \A x \in w[n].expr : x \in Exprs
  BY OfLength, Zenon
<1>3. MaxGrammar \in Nat
  BY TextAssumption DEF TextAssumption
<1> HIDE DEF w
<1>4. ASSUME NEW x \in Factors
      PROVE  \/ Atomic(x)
             \/ \E r \in Factors : Negation(x, r)
             \/ \E r \in Exprs : Brackets(x, r)
  <2> DEFINE n == Len(x.text)
  <2>1. n \in 1..MaxGrammar /\ x \in w[n].factor
    BY DEF Factors, w
  <2> HIDE DEF n
  <2>2. IsFactor(x, w, n)
    BY <1>1, <2>1, Zenon
  <2>3. /\ n >= 2 => n - 1 \in 1..MaxGrammar
        /\ n >= 3 => n - 2 \in 1..MaxGrammar
    BY <1>3, <2>1
  <2> QED  BY <1>2, <2>2, <2>3, Zenon DEF IsFactor
<1>5. ASSUME NEW x \in Terms
      PROVE  x \in Factors \/ \E l \in Factors : \E r \in Terms : JoinOf(x, Ands, "and", l, r)
  <2> DEFINE n == Len(x.text)
  <2>1. n \in 1..MaxGrammar /\ x \in w[n].term
    BY DEF Terms, w
  <2> HIDE DEF n
  <2>2. x \in w[n].factor \/ IsAnd(x, w, n)
    BY <1>1, <2>1, Zenon
  <2>3. \A k \in 1..(n - 2) : k \in 1..MaxGrammar /\ n - 1 - k \in 1..MaxGrammar
    BY <1>3, <2>1
  <2> QED  BY <1>2, <2>1, <2>2, <2>3, Zenon DEF IsAnd
<1>6. ASSUME NEW x \in Exprs
      PROVE  x \in Terms \/ \E l \in Terms : \E r \in Exprs : JoinOf(x, Ors, "or", l, r)
  <2> DEFINE n == Len(x.text)
  <2>1. n \in 1..MaxGrammar /\ x \in w[n].expr
    BY DEF Exprs, w
  <2> HIDE DEF n
  <2>2. x \in w[n].term \/ IsOr(x, w, n)
    BY <1>1, <2>1, Zenon
  <2>3. \A k \in 1..(n - 2) : k \in 1..MaxGrammar /\ n - 1 - k \in 1..MaxGrammar
    BY <1>3, <2>1
  <2> QED  BY <1>2, <2>1, <2>2, <2>3, Zenon DEF IsOr
<1> QED  BY <1>4, <1>5, <1>6

\* What the rules make of readings is a reading, unless it is too long.
Fits(x) == Len(x.text) <= MaxGrammar

\* The rules make them, up to the bound on their length.
LEMMA RulesApply ==
  /\ \A x : Atomic(x) => x \in Factors
  /\ \A r \in Factors : \A x : Negation(x, r) /\ Fits(x) => x \in Factors
  /\ \A r \in Exprs : \A x : Brackets(x, r) /\ Fits(x) => x \in Factors
  /\ \A l \in Factors, r \in Terms : \A x : JoinOf(x, Ands, "and", l, r) /\ Fits(x) => x \in Terms
  /\ \A l \in Terms, r \in Exprs : \A x : JoinOf(x, Ors, "or", l, r) /\ Fits(x) => x \in Exprs
<1> DEFINE w == ByLength
<1>1. \A n \in 1..MaxGrammar :
           /\ \A x : x \in w[n].factor <=> IsFactor(x, w, n)
           /\ \A x : x \in w[n].term <=> x \in w[n].factor \/ IsAnd(x, w, n)
           /\ \A x : x \in w[n].expr <=> x \in w[n].term \/ IsOr(x, w, n)
  BY GrammarIs, Zenon
<1>2. MaxGrammar \in Nat /\ MaxGrammar >= 1
  BY TextAssumption DEF TextAssumption
<1>3. /\ \A x \in Factors : x \in ReadingSet /\ Len(x.text) \in 1..MaxGrammar /\ x \in w[Len(x.text)].factor
      /\ \A x \in Terms : x \in ReadingSet /\ Len(x.text) \in 1..MaxGrammar /\ x \in w[Len(x.text)].term
      /\ \A x \in Exprs : x \in ReadingSet /\ Len(x.text) \in 1..MaxGrammar /\ x \in w[Len(x.text)].expr
  BY Zenon DEF Factors, Terms, Exprs, w
<1>4. /\ \A n \in 1..MaxGrammar : \A x \in w[n].factor : x \in Factors
      /\ \A n \in 1..MaxGrammar : \A x \in w[n].term : x \in Terms
      /\ \A n \in 1..MaxGrammar : \A x \in w[n].expr : x \in Exprs
  BY OfLength, Zenon DEF w
<1> HIDE DEF w
<1>5. ASSUME NEW x, Atomic(x)  PROVE x \in Factors
  <2>1. 1 \in 1..MaxGrammar /\ IsFactor(x, w, 1)
    BY <1>2, <1>5 DEF IsFactor
  <2> QED  BY <1>1, <1>4, <2>1, Zenon
<1>6. ASSUME NEW r \in Factors, NEW x, Negation(x, r), Fits(x)  PROVE x \in Factors
  <2> DEFINE n == Len(x.text)
             k == Len(r.text)
  <2>1. n = k + 1 /\ k \in 1..MaxGrammar /\ n <= MaxGrammar /\ r \in w[k].factor
    BY <1>3, <1>6, LengthsOfRules DEF Fits
  <2> HIDE DEF n, k
  <2>2. n \in 1..MaxGrammar /\ n >= 2 /\ n - 1 = k
    BY <1>2, <2>1
  <2>3. IsFactor(x, w, n)
    BY <1>6, <2>1, <2>2 DEF IsFactor
  <2> QED  BY <1>1, <1>4, <2>2, <2>3, Zenon
<1>7. ASSUME NEW r \in Exprs, NEW x, Brackets(x, r), Fits(x)  PROVE x \in Factors
  <2> DEFINE n == Len(x.text)
             k == Len(r.text)
  <2>1. n = k + 2 /\ k \in 1..MaxGrammar /\ n <= MaxGrammar /\ r \in w[k].expr
    BY <1>3, <1>7, LengthsOfRules DEF Fits
  <2> HIDE DEF n, k
  <2>2. n \in 1..MaxGrammar /\ n >= 3 /\ n - 2 = k
    BY <1>2, <2>1
  <2>3. IsFactor(x, w, n)
    BY <1>7, <2>1, <2>2 DEF IsFactor
  <2> QED  BY <1>1, <1>4, <2>2, <2>3, Zenon
<1>8. ASSUME NEW l \in Factors, NEW r \in Terms, NEW x, JoinOf(x, Ands, "and", l, r), Fits(x)
      PROVE  x \in Terms
  <2> DEFINE n == Len(x.text)
             j == Len(l.text)
             k == Len(r.text)
  <2>1. n = j + 1 + k
    <3>1. l \in ReadingSet /\ r \in ReadingSet
      BY <1>3
    <3> QED  BY <1>8, <3>1, LengthOfJoin, Zenon
  <2>2. /\ j \in 1..MaxGrammar /\ k \in 1..MaxGrammar /\ n <= MaxGrammar
        /\ l \in w[j].factor /\ r \in w[k].term
    BY <1>3, <1>8 DEF Fits
  <2> HIDE DEF n, j, k
  <2>3. n \in 1..MaxGrammar /\ j \in 1..(n - 2) /\ n - 1 - j = k
    BY <1>2, <2>1, <2>2
  <2>4. IsAnd(x, w, n)
    BY <1>8, <2>2, <2>3, Zenon DEF IsAnd
  <2> QED  BY <1>1, <1>4, <2>3, <2>4, Zenon
<1>9. ASSUME NEW l \in Terms, NEW r \in Exprs, NEW x, JoinOf(x, Ors, "or", l, r), Fits(x)
      PROVE  x \in Exprs
  <2> DEFINE n == Len(x.text)
             j == Len(l.text)
             k == Len(r.text)
  <2>1. n = j + 1 + k
    <3>1. l \in ReadingSet /\ r \in ReadingSet
      BY <1>3
    <3> QED  BY <1>9, <3>1, LengthOfJoin, Zenon
  <2>2. /\ j \in 1..MaxGrammar /\ k \in 1..MaxGrammar /\ n <= MaxGrammar
        /\ l \in w[j].term /\ r \in w[k].expr
    BY <1>3, <1>9 DEF Fits
  <2> HIDE DEF n, j, k
  <2>3. n \in 1..MaxGrammar /\ j \in 1..(n - 2) /\ n - 1 - j = k
    BY <1>2, <2>1, <2>2
  <2>4. IsOr(x, w, n)
    BY <1>9, <2>2, <2>3, Zenon DEF IsOr
  <2> QED  BY <1>1, <1>4, <2>3, <2>4, Zenon
<1> QED  BY <1>5, <1>6, <1>7, <1>8, <1>9

\* Properties of factors, terms and expressions that the rules keep.
Closed(F, T, E) ==
  /\ \A x \in Factors : x \in F => x \in T
  /\ \A x \in Terms : x \in T => x \in E
  /\ \A x \in Factors : Atomic(x) => x \in F
  /\ \A x \in Factors, r \in Factors : r \in F /\ Negation(x, r) => x \in F
  /\ \A x \in Factors, r \in Exprs : r \in E /\ Brackets(x, r) => x \in F
  /\ \A x \in Terms, l \in Factors, r \in Terms :
       l \in F /\ r \in T /\ JoinOf(x, Ands, "and", l, r) => x \in T
  /\ \A x \in Exprs, l \in Terms, r \in Exprs :
       l \in T /\ r \in E /\ JoinOf(x, Ors, "or", l, r) => x \in E

\* What the rules keep holds for all of them.
LEMMA ReadingsInduction ==
  ASSUME NEW F, NEW T, NEW E, Closed(F, T, E)
  PROVE  Factors \subseteq F /\ Terms \subseteq T /\ Exprs \subseteq E
<1> DEFINE Good(x) == /\ x \in Factors => x \in F
                      /\ x \in Terms => x \in T
                      /\ x \in Exprs => x \in E
           G == {x \in Exprs : Good(x)}
           size == [x \in Exprs |-> Len(x.text)]
<1>1. Factors \subseteq Terms /\ Terms \subseteq Exprs /\ Exprs \subseteq ReadingSet
  BY OfLength, Zenon
<1>2. size \in [Exprs -> Nat] /\ \A x \in Exprs : size[x] = Len(x.text) /\ Len(x.text) \in Nat
  <2>1. \A x \in Exprs : Len(x.text) \in Nat
    BY <1>1, LengthsOfRules
  <2> QED  BY <2>1
<1>3. ASSUME NEW x \in Exprs, \A y \in Exprs : size[y] < size[x] => y \in G  PROVE Good(x)
  <2>1. \A y \in Exprs : Len(y.text) < Len(x.text) => Good(y)
    BY <1>2, <1>3
  <2> HIDE DEF Good
  <2>2. \A r \in Exprs : Negation(x, r) => Good(r)
    <3> SUFFICES ASSUME NEW r \in Exprs, Negation(x, r)  PROVE Good(r)
      OBVIOUS
    <3>1. Len(x.text) = Len(r.text) + 1
      BY <1>1, LengthsOfRules
    <3>2. Len(r.text) < Len(x.text)
      BY <1>2, <3>1
    <3> QED  BY <2>1, <3>2
  <2>3. \A r \in Exprs : Brackets(x, r) => Good(r)
    <3> SUFFICES ASSUME NEW r \in Exprs, Brackets(x, r)  PROVE Good(r)
      OBVIOUS
    <3>1. Len(x.text) = Len(r.text) + 2
      BY <1>1, LengthsOfRules
    <3>2. Len(r.text) < Len(x.text)
      BY <1>2, <3>1
    <3> QED  BY <2>1, <3>2
  <2>4. ASSUME NEW ops, NEW name, NEW l \in Exprs, NEW r \in Exprs, JoinOf(x, ops, name, l, r)
        PROVE  Good(l) /\ Good(r)
    <3>1. Len(x.text) = Len(l.text) + 1 + Len(r.text)
      <4>1. l \in ReadingSet /\ r \in ReadingSet
        BY <1>1
      <4> QED  BY <2>4, <4>1, LengthOfJoin, Zenon
    <3>2. Len(l.text) < Len(x.text) /\ Len(r.text) < Len(x.text)
      <4> DEFINE i == Len(l.text)
                 j == Len(r.text)
                 n == Len(x.text)
      <4>1. i \in Nat /\ j \in Nat /\ n = i + 1 + j
        BY <1>2, <3>1, Zenon
      <4> HIDE DEF i, j, n
      <4>2. i < n /\ j < n
        BY <4>1
      <4> QED  BY <4>2 DEF i, j, n
    <3> QED  BY <2>1, <3>2
  <2>5. x \in Factors => x \in F
    <3> SUFFICES ASSUME x \in Factors  PROVE x \in F
      OBVIOUS
    <3>1. CASE Atomic(x)
      BY <3>1, Zenon DEF Closed
    <3>2. ASSUME NEW r \in Factors, Negation(x, r)  PROVE x \in F
      <4>1. r \in F
        BY <1>1, <2>2, <3>2 DEF Good
      <4> QED  BY <3>2, <4>1, Zenon DEF Closed
    <3>3. ASSUME NEW r \in Exprs, Brackets(x, r)  PROVE x \in F
      <4>1. r \in E
        BY <2>3, <3>3 DEF Good
      <4> QED  BY <3>3, <4>1, Zenon DEF Closed
    <3> QED  BY <3>1, <3>2, <3>3, RulesAre, Zenon
  <2>6. x \in Terms => x \in T
    <3> SUFFICES ASSUME x \in Terms  PROVE x \in T
      OBVIOUS
    <3>1. CASE x \in Factors
      BY <2>5, <3>1, Zenon DEF Closed
    <3>2. ASSUME NEW l \in Factors, NEW r \in Terms, JoinOf(x, Ands, "and", l, r)  PROVE x \in T
      <4>1. l \in F /\ r \in T
        BY <1>1, <2>4, <3>2 DEF Good
      <4> QED  BY <3>2, <4>1, Zenon DEF Closed
    <3> QED  BY <3>1, <3>2, RulesAre, Zenon
  <2>7. x \in E
    <3>1. CASE x \in Terms
      BY <2>6, <3>1, Zenon DEF Closed
    <3>2. ASSUME NEW l \in Terms, NEW r \in Exprs, JoinOf(x, Ors, "or", l, r)  PROVE x \in E
      <4>1. l \in T /\ r \in E
        BY <1>1, <2>4, <3>2 DEF Good
      <4> QED  BY <3>2, <4>1, Zenon DEF Closed
    <3> QED  BY <3>1, <3>2, RulesAre, Zenon
  <2> QED  BY <2>5, <2>6, <2>7 DEF Good
<1>4. Exprs \subseteq G
  <2>1. \A x \in Exprs : (\A y \in Exprs : size[y] < size[x] => y \in G) => x \in G
    BY <1>3, Zenon
  <2> HIDE DEF G, size
  <2> QED  BY <1>2, <2>1, InductionBySize, Zenon
<1> QED  BY <1>1, <1>4

-----------------------------------------------------------------------------
(* What the readings look like *)

\* An element below all others is the least.
LEMMA MinEquals ==
  ASSUME NEW T \in SUBSET Nat, NEW v \in T, \A x \in T : v <= x
  PROVE  Min(T) = v
<1>1. Min(T) \in T /\ \A x \in T : Min(T) <= x
  BY MinIs
<1> DEFINE m == Min(T)
<1> HIDE DEF m
<1>2. m \in Nat /\ v \in Nat /\ m <= v /\ v <= m
  BY <1>1 DEF m
<1> QED  BY <1>2 DEF m

\* The kinds of tokens, and what they do to the depth.
LEMMA TokensAre ==
  /\ Operators \subseteq Tokens /\ Operators = Ands \cup Ors /\ Ands \cap Ors = {}
  /\ {"!", "(", ")"} \subseteq Tokens /\ Atoms \subseteq Tokens
  /\ {"!", "(", ")"} \cap Operators = {}
  /\ Atoms \cap ({"!", "(", ")"} \cup Operators) = {}
  /\ Tokens \subseteq Atoms \cup {"!", "(", ")"} \cup Operators
  /\ Turn("(") = 1 /\ Turn(")") = -1
  /\ \A t \in Atoms \cup {"!"} \cup Operators : Turn(t) = 0
<1>1. Operators \subseteq Symbols /\ {"!", "(", ")"} \subseteq Symbols
  BY DEF Operators, Ands, Ors, Symbols
<1>2. Operators = Ands \cup Ors /\ Ands \cap Ors = {} /\ {"!", "(", ")"} \cap Operators = {}
  BY DEF Operators, Ands, Ors
<1>3. Atoms \cap Symbols = {}
  BY PatternAssumption DEF PatternAssumption
<1>4. Symbols \subseteq {"!", "(", ")"} \cup Operators
  BY DEF Symbols, Operators, Ands, Ors
<1>5. Turn("(") = 1 /\ Turn(")") = -1
  BY DEF Turn
<1>6. ASSUME NEW t \in Atoms \cup {"!"} \cup Operators  PROVE Turn(t) = 0
  <2>1. t # "(" /\ t # ")"
    BY <1>1, <1>2, <1>3
  <2> QED  BY <2>1 DEF Turn
<1> QED  BY <1>1, <1>2, <1>3, <1>4, <1>5, <1>6 DEF Tokens

\* What a reading is made of, as parts of its text and of its tree.
LEMMA FormsAre ==
  /\ \A x : Atomic(x) => \E a \in Atoms : x.text = <<a>> /\ x.means = Pattern(a)
  /\ \A x, r : r \in ReadingSet /\ Negation(x, r) =>
       /\ Prefixed(x.text, "!", r.text) /\ Tail(x.text) = r.text
       /\ x.text # << >> /\ x.means = Not(r.means)
  /\ \A x, r : r \in ReadingSet /\ Brackets(x, r) =>
       /\ Encloses(x.text, "(", r.text, ")") /\ Inside(x.text) = r.text
       /\ x.text # << >> /\ x.means = r.means
<1>1. ASSUME NEW x, Atomic(x)
      PROVE  \E a \in Atoms : x.text = <<a>> /\ x.means = Pattern(a)
  BY <1>1, ReadingIs DEF Atomic
<1>2. \A r \in ReadingSet : r.text \in Seq(Tokens)
  BY DEF ReadingSet
<1>3. ASSUME NEW x, NEW r \in ReadingSet, Negation(x, r)
      PROVE  /\ Prefixed(x.text, "!", r.text) /\ Tail(x.text) = r.text
             /\ x.text # << >> /\ x.means = Not(r.means)
  <2> DEFINE u == r.text
             s == <<"!">> \o u
  <2>1. x.text = s /\ x.means = Not(r.means)
    BY <1>3, ReadingIs DEF Negation
  <2>2. u \in Seq(Tokens) /\ "!" \in Tokens
    BY <1>2, TokensAre
  <2> HIDE DEF u
  <2>3. s # << >> /\ Prefixed(s, "!", u) /\ Tail(s) = u
    <3> SUFFICES ASSUME NEW t, t = <<"!">> \o u
                 PROVE  t # << >> /\ Prefixed(t, "!", u) /\ Tail(t) = u
      OBVIOUS
    <3> QED  BY <2>2, FollowedIs
  <2> HIDE DEF s
  <2> QED  BY <2>1, <2>3 DEF u
<1>4. ASSUME NEW x, NEW r \in ReadingSet, Brackets(x, r)
      PROVE  /\ Encloses(x.text, "(", r.text, ")") /\ Inside(x.text) = r.text
             /\ x.text # << >> /\ x.means = r.means
  <2> DEFINE u == r.text
             s == <<"(">> \o u \o <<")">>
  <2>1. x.text = s /\ x.means = r.means
    BY <1>4, ReadingIs DEF Brackets
  <2>2. u \in Seq(Tokens) /\ "(" \in Tokens /\ ")" \in Tokens
    BY <1>2, TokensAre
  <2> HIDE DEF u
  <2>3. s # << >> /\ Encloses(s, "(", u, ")") /\ Inside(s) = u
    <3> SUFFICES ASSUME NEW t, t = <<"(">> \o u \o <<")">>
                 PROVE  t # << >> /\ Encloses(t, "(", u, ")") /\ Inside(t) = u
      OBVIOUS
    <3> DEFINE open == "("
               close == ")"
    <3>1. open \in Tokens /\ close \in Tokens /\ t = <<open>> \o u \o <<close>>
      BY <2>2
    <3> HIDE DEF open, close
    <3>2. t # << >> /\ Encloses(t, open, u, close) /\ Inside(t) = u
      BY <2>2, <3>1, EnclosedIs
    <3> QED  BY <3>2 DEF open, close
  <2> HIDE DEF s
  <2> QED  BY <2>1, <2>3 DEF u
<1> QED  BY <1>1, <1>3, <1>4

MeansJoin(x, name, l, r) == x.means = Join(name, l.means, r.means)

\* A join has its parts in its text and in its tree.
LEMMA FormOfJoin ==
  ASSUME NEW x, NEW l \in ReadingSet, NEW r \in ReadingSet, NEW name, NEW ops \in {Ands, Ors},
         JoinOf(x, ops, name, l, r)
  PROVE  (\E op \in ops : Joins(x.text, l.text, op, r.text)) /\ MeansJoin(x, name, l, r)
<1>1. PICK op \in ops :
        x = Reading(l.text \o <<op>> \o r.text, Join(name, l.means, r.means))
  BY DEF JoinOf
<1> DEFINE u == l.text
           v == r.text
           s == u \o <<op>> \o v
<1>2. x.text = s /\ x.means = Join(name, l.means, r.means)
  BY <1>1, ReadingIs
<1>3. u \in Seq(Tokens) /\ v \in Seq(Tokens) /\ op \in Tokens
  BY TokensAre DEF ReadingSet
<1> HIDE DEF u, v
<1>4. Joins(s, u, op, v)
  <2> SUFFICES ASSUME NEW t, t = u \o <<op>> \o v  PROVE Joins(t, u, op, v)
    OBVIOUS
  <2> QED  BY <1>3, JoinedIs
<1> HIDE DEF s
<1> QED  BY <1>2, <1>4 DEF u, v, MeansJoin

-----------------------------------------------------------------------------
(* Two texts with an operator in between *)

\* Both are texts with matching brackets.
JoinsTwo(s, l, op, r) ==
  /\ s \in Seq(Tokens) /\ l \in Seq(Tokens) /\ r \in Seq(Tokens) /\ op \in Operators
  /\ Joins(s, l, op, r) /\ l # << >> /\ r # << >> /\ Balanced(l) /\ Balanced(r)

\* The parts of such a text, and where they stand.
LEMMA JoinParts ==
  ASSUME NEW s, NEW l, NEW op, NEW r, JoinsTwo(s, l, op, r)
  PROVE  /\ s # << >> /\ s[1] = l[1] /\ s[Len(l) + 1] = op
         /\ Len(l) >= 1 /\ Len(r) >= 1 /\ Len(l) \in Nat /\ Len(r) \in Nat
         /\ Len(s) = Len(l) + 1 + Len(r)
         /\ LeftOf(s, Len(l) + 1) = l /\ RightOf(s, Len(l) + 1) = r
         /\ Balanced(s) /\ Depth(s)[Len(l)] = 0 /\ Turn(op) = 0
<1> USE DEF JoinsTwo
<1> DEFINE k == Len(l)
           m == Len(r)
           n == Len(s)
<1>1. k >= 1 /\ m >= 1 /\ k \in Nat /\ m \in Nat /\ n \in Nat
  OBVIOUS
<1>2. n = k + 1 + m /\ s[k + 1] = op /\ PartOf(l, s, 0) /\ PartOf(r, s, k + 1)
  BY DEF Joins
<1>3. Turn(op) = 0
  BY TokensAre
<1>4. Balanced(s) /\ Depth(s)[k] = 0
  BY <1>3, BalancedJoin, Zenon
<1>5. SubSeq(s, 0 + 1, 0 + k) = l
  BY <1>2, PartIsSubSeq, Zenon
<1>6. SubSeq(s, (k + 1) + 1, (k + 1) + m) = r
  BY <1>2, PartIsSubSeq, Zenon
<1>7. \A i \in 1..k : l[i] = s[0 + i]
  BY <1>2 DEF PartOf
<1> HIDE DEF k, m, n
<1>8. 0 + 1 = 1 /\ 0 + k = (k + 1) - 1 /\ (k + 1) + m = n /\ 1 \in 1..k
  BY <1>1, <1>2
<1>9. LeftOf(s, k + 1) = l /\ RightOf(s, k + 1) = r
  BY <1>5, <1>6, <1>8 DEF LeftOf, RightOf, n
<1>10. s[1] = l[1]
  BY <1>7, <1>8
<1>11. s # << >>
  BY <1>1, <1>2 DEF n
<1> QED  BY <1>1, <1>2, <1>3, <1>4, <1>9, <1>10, <1>11 DEF k, m, n

\* The operator is the first of its kind, if there is none to the left of it.
LEMMA JoinOperators ==
  ASSUME NEW s, NEW l, NEW op, NEW r, JoinsTwo(s, l, op, r), NEW ts
  PROVE  /\ Outside(l, ts) = {} /\ op \in ts =>
              Outside(s, ts) # {} /\ Min(Outside(s, ts)) = Len(l) + 1
         /\ Outside(l, ts) = {} /\ Outside(r, ts) = {} /\ op \notin ts => Outside(s, ts) = {}
         /\ op \in ts => Len(l) + 1 \in Outside(s, ts)
<1> DEFINE k == Len(l)
           m == Len(r)
           n == Len(s)
           out == Outside(s, ts)
<1>1. k >= 1 /\ m >= 1 /\ k \in Nat /\ m \in Nat /\ n = k + 1 + m /\ Depth(s)[k] = 0 /\ Turn(op) = 0
  BY JoinParts
<1>2. /\ \A i \in 1..k : i \in out <=> i \in Outside(l, ts)
      /\ k + 1 \in out <=> op \in ts
      /\ \A i \in 1..m : k + 1 + i \in out <=> i \in Outside(r, ts)
  BY <1>1, OutsideOfJoin, Zenon DEF JoinsTwo
<1>3. out \subseteq 1..n /\ out \in SUBSET Nat
  BY DEF Outside
<1> HIDE DEF k, m, n, out
<1>5. ASSUME Outside(l, ts) = {}, op \in ts
      PROVE  k + 1 \in out /\ \A i \in out : k + 1 <= i
  <2>1. ASSUME NEW i \in out  PROVE k + 1 <= i
    <3>1. i \in 1..n /\ i \notin 1..k
      BY <1>2, <1>3, <1>5
    <3> QED  BY <1>1, <3>1
  <2> QED  BY <1>2, <1>5, <2>1
<1>6. ASSUME Outside(l, ts) = {}, op \in ts  PROVE out # {} /\ Min(out) = k + 1
  BY <1>3, <1>5, <1>6, MinEquals
<1>8. ASSUME Outside(l, ts) = {}, Outside(r, ts) = {}, op \notin ts, NEW i \in out  PROVE FALSE
  <2>1. i \in 1..n
    BY <1>3
  <2>2. i \in 1..k \/ i = k + 1 \/ i - (k + 1) \in 1..m
    BY <1>1, <2>1
  <2>3. i - (k + 1) \in 1..m => i = k + 1 + (i - (k + 1))
    BY <1>1, <2>1
  <2> QED  BY <1>2, <1>8, <2>2, <2>3
<1> QED  BY <1>2, <1>6, <1>8 DEF k, n, out

\* Brackets at both ends do not belong together.
LEMMA JoinIsNotStripped ==
  ASSUME NEW s, NEW l, NEW op, NEW r, JoinsTwo(s, l, op, r)
  PROVE  ~StripOuterParens(s)
<1> SUFFICES ASSUME Len(s) >= 2, s[1] = "(", Balanced(Inside(s))  PROVE FALSE
  <2>1. s # << >> /\ s \in Seq(Tokens)
    BY JoinParts DEF JoinsTwo
  <2> QED  BY <2>1 DEF StripOuterParens, BracketsAtBothEnds
<1> DEFINE k == Len(l)
           n == Len(s)
           u == Inside(s)
           ds == Depth(s)
           dl == Depth(l)
           du == Depth(u)
<1>1. k >= 1 /\ k \in Nat /\ n \in Nat /\ n >= k + 2 /\ ds[k] = 0 /\ l[1] = "("
  <2>1. k \in Nat /\ Len(r) \in Nat /\ Len(r) >= 1 /\ n = k + 1 + Len(r)
    BY JoinParts
  <2> QED  BY <2>1, JoinParts
<1>2. s \in Seq(Tokens) /\ l \in Seq(Tokens) /\ Balanced(l)
  BY DEF JoinsTwo
<1>3. u \in Seq(Tokens) /\ Len(u) = n - 2 /\ PartOf(u, s, 1)
  BY <1>2, InsideIs
<1>4. RaisedDepths(u, s, Turn(s[1]))
  <2>1. Len(s) > 0
    OBVIOUS
  <2> QED  BY <1>2, <1>3, <2>1, DepthFollowed, Zenon
<1>5. \A i \in 0..Len(u) : ds[1 + i] = Turn(s[1]) + du[i]
  BY <1>4, Zenon DEF RaisedDepths
<1>6. du \in [0..Len(u) -> Int] /\ \A i \in 1..Len(u) : du[i] >= 0
  BY <1>3, DepthIs DEF Balanced
<1>7. dl[0] = 0 /\ dl[1] = dl[0] + Turn(l[1]) /\ dl[k] = 0
  <2>1. dl[0] = 0 /\ \A i \in 1..k : dl[i] = dl[i - 1] + Turn(l[i])
    BY <1>2, DepthIs, Zenon
  <2>2. 1 \in 1..k /\ 1 - 1 = 0
    BY <1>1
  <2>3. dl[1] = dl[0] + Turn(l[1])
    BY <2>1, <2>2
  <2> QED  BY <1>2, <2>1, <2>3 DEF Balanced
<1>8. Turn("(") = 1
  BY TokensAre
<1> HIDE DEF k, n, u, ds, dl, du
<1>9. k # 1
  BY <1>1, <1>7, <1>8
<1>10. k - 1 \in 1..Len(u) /\ k - 1 \in 0..Len(u) /\ 1 + (k - 1) = k
  BY <1>1, <1>3, <1>9
<1>11. ds[k] = 1 + du[k - 1]
  BY <1>5, <1>8, <1>10
<1> QED  BY <1>1, <1>6, <1>10, <1>11

\* Every expression has matching brackets and a meaning. What joins its parts
\* stands outside of them.
HasShape(x) ==
  x.text \in Seq(Tokens) /\ x.text # << >> /\ Balanced(x.text) /\ x.means \in Seq(Nodes) /\ x.means # Err

ShapedFactors == {x \in Factors : HasShape(x) /\ Outside(x.text, Operators) = {}}
ShapedTerms == {x \in Terms : HasShape(x) /\ Outside(x.text, Ors) = {}}
ShapedExprs == {x \in Exprs : HasShape(x)}

\* The readings have this shape; a term has no || outside of brackets, a factor no operator.
LEMMA ShapesAre ==
  /\ \A x \in Exprs : HasShape(x)
  /\ \A x \in Terms : Outside(x.text, Ors) = {}
  /\ \A x \in Factors : Outside(x.text, Operators) = {}
<1> DEFINE F == ShapedFactors
           T == ShapedTerms
           E == ShapedExprs
<1>1. Factors \subseteq Terms /\ Terms \subseteq Exprs /\ Exprs \subseteq ReadingSet
  BY OfLength, Zenon
<1>2. \A x \in Exprs : x \in ReadingSet /\ x.text \in Seq(Tokens) /\ x.means \in Seq(Nodes)
  BY <1>1 DEF ReadingSet
<1>3. \A s : Outside(s, Operators) = {} => Outside(s, Ors) = {}
  BY TokensAre DEF Outside
<1>4. ASSUME NEW x \in Factors, Atomic(x)  PROVE x \in F
  <2>1. PICK a \in Atoms : x.text = <<a>> /\ x.means = Pattern(a)
    BY <1>4, FormsAre
  <2> DEFINE s == <<a>>
             d == Depth(s)
  <2>2. s \in Seq(Tokens) /\ Len(s) = 1 /\ s[1] = a /\ s # << >>
    BY TokensAre
  <2>3. d[0] = 0 /\ \A i \in 1..Len(s) : d[i] = d[i - 1] + Turn(s[i])
    BY <2>2, DepthIs, Zenon
  <2>4. Turn(a) = 0
    BY TokensAre
  <2> HIDE DEF s, d
  <2>5. d[1] = 0
    <3>1. 1 \in 1..Len(s) /\ 1 - 1 = 0
      BY <2>2
    <3> QED  BY <2>2, <2>3, <2>4, <3>1
  <2>6. Balanced(s)
    BY <2>2, <2>5 DEF Balanced, d
  <2>7. Outside(s, Operators) = {}
    BY <2>2, TokensAre DEF Outside
  <2>8. Pattern(a) # Err
    BY TreesAre DEF Nodes
  <2>9. x \in Exprs
    BY <1>1
  <2> QED  BY <1>2, <2>1, <2>2, <2>6, <2>7, <2>8, <2>9 DEF s, HasShape, ShapedFactors
<1>5. ASSUME NEW x \in Factors, NEW r \in Factors, r \in F, Negation(x, r)  PROVE x \in F
  <2>1. x \in Exprs /\ r \in Exprs /\ r \in ReadingSet
    BY <1>1
  <2>2. Prefixed(x.text, "!", r.text) /\ x.text # << >> /\ x.means = Not(r.means)
    BY <1>5, <2>1, FormsAre
  <2>3. HasShape(r) /\ Outside(r.text, Operators) = {}
    BY <1>5 DEF ShapedFactors
  <2>4. x.text \in Seq(Tokens) /\ r.text \in Seq(Tokens) /\ Turn("!") = 0 /\ "!" \notin Operators
    BY <1>2, <2>1, TokensAre
  <2>5. /\ Balanced(x.text) <=> Balanced(r.text)
        /\ \A ts : 1 \in Outside(x.text, ts) <=> "!" \in ts
        /\ \A ts : \A i \in 1..Len(r.text) : 1 + i \in Outside(x.text, ts) <=> i \in Outside(r.text, ts)
    <3> DEFINE op == "!"
    <3> HIDE DEF op
    <3>1. /\ Balanced(x.text) <=> Balanced(r.text)
          /\ \A ts : 1 \in Outside(x.text, ts) <=> op \in ts
          /\ \A ts : \A i \in 1..Len(r.text) : 1 + i \in Outside(x.text, ts) <=> i \in Outside(r.text, ts)
      <4>1. Prefixed(x.text, op, r.text) /\ Turn(op) = 0
        BY <2>2, <2>4 DEF op
      <4> QED  BY <2>4, <4>1, FollowedBalanced, Zenon
    <3> QED  BY <3>1 DEF op
  <2>6. Outside(x.text, Operators) = {}
    <3> SUFFICES ASSUME NEW i \in Outside(x.text, Operators)  PROVE FALSE
      OBVIOUS
    <3>1. i \in 1..Len(x.text) /\ Len(x.text) = Len(r.text) + 1
      BY <2>2 DEF Prefixed, Outside
    <3>2. Len(r.text) \in Nat
      BY <2>4
    <3>3. i = 1 \/ (i - 1 \in 1..Len(r.text) /\ 1 + (i - 1) = i)
      BY <3>1, <3>2
    <3> QED  BY <2>3, <2>4, <2>5, <3>3
  <2>7. x.means # Err
    BY <1>2, <2>1, <2>2, <2>3, TreesAre DEF HasShape
  <2> QED  BY <1>2, <2>1, <2>2, <2>3, <2>5, <2>6, <2>7 DEF HasShape, ShapedFactors
<1>6. ASSUME NEW x \in Factors, NEW r \in Exprs, r \in E, Brackets(x, r)  PROVE x \in F
  <2>1. x \in Exprs /\ r \in ReadingSet
    BY <1>1
  <2>2. Encloses(x.text, "(", r.text, ")") /\ x.text # << >> /\ x.means = r.means
    BY <1>6, <2>1, FormsAre
  <2>3. HasShape(r)
    BY <1>6 DEF ShapedExprs
  <2>4. /\ Balanced(x.text)
        /\ \A ts : "(" \notin ts /\ ")" \notin ts => Outside(x.text, ts) = {}
    BY <1>2, <2>1, <2>2, <2>3, EnclosedBalanced DEF HasShape
  <2>5. Outside(x.text, Operators) = {}
    BY <2>4, TokensAre
  <2> QED  BY <1>2, <2>1, <2>2, <2>3, <2>4, <2>5 DEF HasShape, ShapedFactors
<1>7. ASSUME NEW x \in Exprs, NEW l \in Exprs, NEW r \in Exprs, HasShape(l), HasShape(r),
             NEW ops \in {Ands, Ors}, NEW name \in Connectives, JoinOf(x, ops, name, l, r)
      PROVE  HasShape(x) /\ \E op \in ops : JoinsTwo(x.text, l.text, op, r.text)
  <2>1. PICK op \in ops : Joins(x.text, l.text, op, r.text)
    BY <1>2, <1>7, FormOfJoin, Zenon
  <2>2. MeansJoin(x, name, l, r)
    BY <1>2, <1>7, FormOfJoin, Zenon
  <2>3. JoinsTwo(x.text, l.text, op, r.text)
    BY <1>2, <1>7, <2>1, TokensAre DEF JoinsTwo, HasShape
  <2>4. Balanced(x.text) /\ x.text # << >>
    BY <2>3, JoinParts, Zenon
  <2>5. x.means # Err
    BY <1>2, <1>7, <2>2, TreesAre DEF HasShape, MeansJoin
  <2> QED  BY <1>2, <2>3, <2>4, <2>5 DEF HasShape
<1>8. "and" \in Connectives /\ "or" \in Connectives
  BY DEF Connectives
<1>9. ASSUME NEW x \in Terms, NEW l \in Factors, NEW r \in Terms, l \in F, r \in T,
             JoinOf(x, Ands, "and", l, r)
      PROVE  x \in T
  <2>1. x \in Exprs /\ l \in Exprs /\ r \in Exprs
    BY <1>1
  <2>2. /\ HasShape(l) /\ HasShape(r)
        /\ Outside(l.text, Ors) = {} /\ Outside(r.text, Ors) = {}
    BY <1>3, <1>9 DEF ShapedFactors, ShapedTerms
  <2>3. HasShape(x)
    BY <1>7, <1>8, <1>9, <2>1, <2>2
  <2>4. PICK op \in Ands : JoinsTwo(x.text, l.text, op, r.text)
    BY <1>7, <1>8, <1>9, <2>1, <2>2
  <2>5. op \notin Ors
    BY TokensAre
  <2>6. Outside(x.text, Ors) = {}
    <3> DEFINE ts == Ors
    <3>1. Outside(l.text, ts) = {} /\ Outside(r.text, ts) = {} /\ op \notin ts
      BY <2>2, <2>5
    <3> HIDE DEF ts
    <3>2. Outside(x.text, ts) = {}
      BY <2>4, <3>1, JoinOperators
    <3> QED  BY <3>2 DEF ts
  <2> QED  BY <2>3, <2>6 DEF ShapedTerms
<1>10. ASSUME NEW x \in Exprs, NEW l \in Terms, NEW r \in Exprs, l \in T, r \in E,
              JoinOf(x, Ors, "or", l, r)
       PROVE  x \in E
  <2>1. l \in Exprs
    BY <1>1
  <2>2. HasShape(l) /\ HasShape(r)
    BY <1>10 DEF ShapedTerms, ShapedExprs
  <2> QED  BY <1>7, <1>8, <1>10, <2>1, <2>2 DEF ShapedExprs
<1>11. \A x \in Factors : x \in F => x \in T
  BY <1>1, <1>3 DEF ShapedFactors, ShapedTerms
<1>12. \A x \in Terms : x \in T => x \in E
  BY <1>1 DEF ShapedTerms, ShapedExprs
<1>13. Closed(F, T, E)
  BY <1>4, <1>5, <1>6, <1>9, <1>10, <1>11, <1>12, Zenon DEF Closed
<1>14. Factors \subseteq F /\ Terms \subseteq T /\ Exprs \subseteq E
  BY <1>13, ReadingsInduction, Zenon
<1> QED  BY <1>14 DEF ShapedFactors, ShapedTerms, ShapedExprs

\* Every join of readings is a join of texts with matching brackets.
LEMMA JoinsAre ==
  ASSUME NEW x, NEW l \in Exprs, NEW r \in Exprs, NEW ops \in {Ands, Ors}, NEW name,
         JoinOf(x, ops, name, l, r), x.text \in Seq(Tokens)
  PROVE  (\E op \in ops : JoinsTwo(x.text, l.text, op, r.text)) /\ MeansJoin(x, name, l, r)
<1>1. l \in ReadingSet /\ r \in ReadingSet
  BY OfLength
<1>2. (\E op \in ops : Joins(x.text, l.text, op, r.text)) /\ MeansJoin(x, name, l, r)
  BY <1>1, FormOfJoin, Zenon
<1>3. HasShape(l) /\ HasShape(r)
  BY ShapesAre
<1>4. ops \subseteq Operators
  BY TokensAre
<1> QED  BY <1>2, <1>3, <1>4 DEF JoinsTwo, HasShape

\* What is wrong with a part of a text is wrong with the text.
LEMMA GroupOfPart ==
  ASSUME NEW s \in Seq(Tokens), NEW u \in Seq(Tokens), NEW a, PartOf(u, s, a),
         NEW i \in 1..Len(u), NEW j \in i..Len(u), SameGroup(u, i, j)
  PROVE  SameGroup(s, a + i, a + j)
<1> DEFINE ds == Depth(s)
           du == Depth(u)
           m == Len(u)
           n == Len(s)
<1>1. a \in Nat /\ m \in Nat /\ n \in Nat /\ a + m <= n /\ \A k \in 1..m : u[k] = s[a + k]
  <2>1. m \in Nat /\ n \in Nat
    OBVIOUS
  <2>2. a \in Nat /\ a + m <= n /\ \A k \in 1..m : u[k] = s[a + k]
    BY Zenon DEF PartOf
  <2> QED  BY <2>1, <2>2
<1>2. DepthsFrom(u, s, a)
  BY DepthOfPart, Zenon
<1>3. \A k \in 0..m : ds[a + k] = ds[a] + du[k]
  BY <1>2, Zenon DEF DepthsFrom
<1>4. ds \in [0..n -> Int] /\ du \in [0..m -> Int]
  BY DepthIs
<1>5. du[j - 1] = du[i - 1] /\ \A k \in i..j : du[k] >= du[i - 1]
  BY DEF SameGroup
<1> HIDE DEF ds, du, m, n
<1>6. i \in 1..m /\ j \in i..m
  BY DEF m
<1>7. /\ (a + j) - 1 = a + (j - 1) /\ (a + i) - 1 = a + (i - 1) /\ i - 1 \in 0..m /\ j - 1 \in 0..m
      /\ a \in 0..n
  BY <1>1, <1>6
<1>8. ds[a] \in Int /\ du[i - 1] \in Int
  BY <1>4, <1>7
<1>9. ds[(a + j) - 1] = ds[(a + i) - 1]
  BY <1>3, <1>5, <1>7
<1>10. ASSUME NEW k \in (a + i)..(a + j)  PROVE ds[k] >= ds[(a + i) - 1]
  <2>1. k - a \in i..j /\ k - a \in 0..m /\ a + (k - a) = k
    BY <1>1, <1>6
  <2>2. ds[k] = ds[a] + du[k - a] /\ ds[(a + i) - 1] = ds[a] + du[i - 1]
    BY <1>3, <1>7, <2>1
  <2>3. du[k - a] \in Int /\ du[k - a] >= du[i - 1]
    BY <1>4, <1>5, <2>1
  <2> QED  BY <1>8, <2>2, <2>3
<1> QED  BY <1>9, <1>10, Zenon DEF SameGroup, ds

\* Least and greatest of two numbers.
LEMMA MinMaxOfTwo ==
  ASSUME NEW i \in Nat, NEW j \in Nat, i <= j
  PROVE  Min({i, j}) = i /\ Max({i, j}) = j /\ Min({j, i}) = i /\ Max({j, i}) = j
<1> DEFINE T == {i, j}
<1>1. T \in SUBSET Nat /\ i \in T /\ j \in T /\ \A x \in T : i <= x /\ x <= j
  OBVIOUS
<1>2. T = {j, i}
  OBVIOUS
<1> HIDE DEF T
<1>3. Min(T) = i
  BY <1>1, MinEquals
<1>4. Max(T) = j
  <2>1. Max(T) \in T /\ \A x \in T : x <= Max(T)
    BY <1>1, MaxIs
  <2> DEFINE m == Max(T)
  <2> HIDE DEF m
  <2>2. m \in Nat /\ m <= j /\ j <= m
    BY <1>1, <2>1 DEF m
  <2> QED  BY <2>2 DEF m
<1> QED  BY <1>2, <1>3, <1>4 DEF T

\* Texts that both parsers can read.
Plain(s) == ForBoth(s) /\ ~WideBeforeOperator(s)

\* A part of a text has none of these flaws that the text does not have.
LEMMA PartInherits ==
  ASSUME NEW s \in Seq(Tokens), NEW u \in Seq(Tokens), NEW a, PartOf(u, s, a)
  PROVE  /\ ~Unspaced(s) => ~Unspaced(u)
         /\ Plain(s) => Plain(u)
         /\ ~WideBeforeOperator(s) => ~WideBeforeOperator(u)
         /\ ~NegationBeforeOperator(s) => ~NegationBeforeOperator(u)
         /\ ~MixesOperators(s) => ~MixesOperators(u)
         /\ ~SideBySide(s) => ~SideBySide(u)
<1> DEFINE m == Len(u)
           n == Len(s)
<1>1. a \in Nat /\ m \in Nat /\ n \in Nat /\ a + m <= n /\ \A k \in 1..m : u[k] = s[a + k]
  BY DEF PartOf
<1>2. \A i \in 1..m : a + i \in 1..n
  BY <1>1
<1>3. ~Unspaced(s) => ~Unspaced(u)
  BY <1>1, <1>2 DEF Unspaced
<1>4. ForBoth(s) => ForBoth(u)
  BY <1>1, <1>2, <1>3 DEF ForBoth
<1>8. ASSUME WideBeforeOperator(u)  PROVE WideBeforeOperator(s)
  <2>1. PICK i \in 1..m, j \in 1..m : i < j /\ i \in Wide(u) /\ u[j] \in Operators
    BY <1>8 DEF WideBeforeOperator
  <2>2. a + i \in 1..n /\ a + j \in 1..n /\ a + i < a + j /\ s[a + i] = u[i] /\ s[a + j] = u[j]
    BY <1>1, <1>2, <2>1
  <2>3. a + i \in Wide(s)
    BY <2>1, <2>2 DEF Wide
  <2> QED  BY <2>1, <2>2, <2>3 DEF WideBeforeOperator
<1>5. ASSUME NegationBeforeOperator(u)  PROVE NegationBeforeOperator(s)
  <2>1. PICK i \in 1..m, j \in 1..m : i < j /\ u[i] = "!" /\ u[j] \in Operators /\ SameGroup(u, i, j)
    BY <1>5 DEF NegationBeforeOperator
  <2>2. j \in i..m
    BY <1>1, <2>1
  <2>3. SameGroup(s, a + i, a + j)
    BY <2>1, <2>2, GroupOfPart, Zenon
  <2>4. /\ a + i \in 1..n /\ a + j \in 1..n /\ a + i < a + j
        /\ s[a + i] = u[i] /\ s[a + j] = u[j]
    BY <1>1, <1>2, <2>1
  <2> QED  BY <2>1, <2>3, <2>4 DEF NegationBeforeOperator
<1>6. ASSUME MixesOperators(u)  PROVE MixesOperators(s)
  <2>1. PICK i \in 1..m, j \in 1..m :
               u[i] \in Ands /\ u[j] \in Ors /\ SameGroup(u, Min({i, j}), Max({i, j}))
    BY <1>6 DEF MixesOperators
  <2>2. a + i \in 1..n /\ a + j \in 1..n /\ s[a + i] = u[i] /\ s[a + j] = u[j]
    BY <1>1, <1>2
  <2>3. SameGroup(s, Min({a + i, a + j}), Max({a + i, a + j}))
    <3>1. CASE i <= j
      <4>1. i \in Nat /\ j \in Nat /\ a + i \in Nat /\ a + j \in Nat /\ a + i <= a + j /\ j \in i..m
        BY <1>1, <3>1
      <4>2. SameGroup(u, i, j)
        BY <2>1, <3>1, <4>1, MinMaxOfTwo
      <4>3. SameGroup(s, a + i, a + j)
        BY <4>1, <4>2, GroupOfPart, Zenon
      <4>4. Min({a + i, a + j}) = a + i /\ Max({a + i, a + j}) = a + j
        BY <4>1, MinMaxOfTwo, Zenon
      <4> QED  BY <4>3, <4>4
    <3>2. CASE j <= i
      <4>1. i \in Nat /\ j \in Nat /\ a + i \in Nat /\ a + j \in Nat /\ a + j <= a + i /\ i \in j..m
        BY <1>1, <3>2
      <4>2. SameGroup(u, j, i)
        BY <2>1, <3>2, <4>1, MinMaxOfTwo
      <4>3. SameGroup(s, a + j, a + i)
        BY <4>1, <4>2, GroupOfPart, Zenon
      <4>4. Min({a + i, a + j}) = a + j /\ Max({a + i, a + j}) = a + i
        BY <4>1, MinMaxOfTwo, Zenon
      <4> QED  BY <4>3, <4>4
    <3> QED  BY <3>1, <3>2
  <2> QED  BY <2>1, <2>2, <2>3 DEF MixesOperators
<1>7. ASSUME SideBySide(u)  PROVE SideBySide(s)
  <2>1. PICK i \in 1..(m - 1) :
               u[i] \in Atoms \cup {")"} /\ u[i + 1] \in Atoms \cup {"(", "!"}
    BY <1>7 DEF SideBySide
  <2>2. a + i \in 1..(n - 1) /\ i \in 1..m /\ i + 1 \in 1..m /\ a + (i + 1) = (a + i) + 1
    BY <1>1
  <2>3. u[i] = s[a + i] /\ u[i + 1] = s[(a + i) + 1]
    BY <1>1, <2>2
  <2> QED  BY <2>1, <2>2, <2>3 DEF SideBySide
<1> QED  BY <1>3, <1>4, <1>5, <1>6, <1>7, <1>8 DEF Plain

-----------------------------------------------------------------------------
(* What the parsers make of each form *)

\* Both parsers read a pattern that both know as itself.
LEMMA ReadsAtom ==
  ASSUME NEW a \in Atoms, Patterns[a].kind # "name"
  PROVE  CoreParse(<<a>>) = Pattern(a) /\ DriverParse(<<a>>) = Pattern(a)
<1> DEFINE s == <<a>>
<1>1. s \in Seq(Tokens) /\ s # << >> /\ Len(s) = 1 /\ s[1] = a /\ Head(s) = a /\ Last(s) = a
  BY TokensAre DEF Last
<1>2. a # "!" /\ a # "(" /\ a \notin Operators
  BY TokensAre
<1>3. Patterns[a].kind \in {"execution", "within"}
  BY PatternAssumption DEF PatternAssumption
<1> HIDE DEF s
<1>4. ~StripOuterParens(s)
  BY <1>1 DEF StripOuterParens, BracketsAtBothEnds
<1>5. \A op : CoreOperators(s, op) = {}
  BY <1>1 DEF CoreOperators, Outside
<1>6. CoreParse(s) = CoreLeaf(s)
  BY <1>1, <1>2, <1>4, <1>5, CoreRules
<1>7. CoreLeaf(s) = Pattern(a)
  BY <1>1, <1>3 DEF CoreLeaf, EndsClosed
<1>8. \A ts \in {Ands, Ors} : Outside(s, ts) = {}
  BY <1>1, <1>2 DEF Outside, Operators
<1>9. DriverParse(s) = DriverLeaf(s, FALSE)
  BY <1>1, <1>2, <1>8, DriverRules
<1>10. DriverLeaf(s, FALSE) = Pattern(a)
  <2> DEFINE closed == {i \in 1..Len(s) : /\ s[i] \in Atoms \cup {")"}
                                          /\ i = Len(s) /\ FALSE => Patterns[s[i]].kind = "execution"}
  <2>1. closed = {1}
    BY <1>1
  <2>2. Max({1}) = 1
    <3>1. {1} \in SUBSET Nat /\ {1} # {} /\ 1 \in Nat /\ \A x \in {1} : x <= 1
      OBVIOUS
    <3>2. Max({1}) \in {1}
      BY <3>1, MaxIs, Zenon
    <3> QED  BY <3>2
  <2>3. DriverLeaf(s, FALSE) = IF Head(s) \notin Atoms \/ closed = {} THEN Err
                               ELSE Pattern(IF Max(closed) = 1 /\ ~(FALSE /\ Len(s) = 1)
                                            THEN Head(s) ELSE Garbage)
    BY DEF DriverLeaf
  <2> HIDE DEF closed
  <2> QED  BY <1>1, <2>1, <2>2, <2>3
<1> QED  BY <1>6, <1>7, <1>9, <1>10 DEF s

\* Both take a leading ! for all that is behind it.
LEMMA ReadsNegation ==
  ASSUME NEW s \in Seq(Tokens), s # << >>, s[1] = "!"
  PROVE  /\ CoreParse(s) = Not(CoreParse(Tail(s)))
         /\ DriverParse(s) = Not(DriverParse(Tail(s)))
<1>1. Head(s) = "!" /\ Head(s) # "("
  OBVIOUS
<1>2. ~StripOuterParens(s)
  BY <1>1 DEF StripOuterParens, BracketsAtBothEnds
<1>3. CoreParse(s) = Not(CoreParse(Tail(s)))
  BY <1>1, <1>2, CoreRules
<1>4. DriverParse(s) = Not(DriverParse(Tail(s)))
  BY <1>1, DriverRules
<1> QED  BY <1>3, <1>4

\* Both remove brackets around a text.
LEMMA ReadsBrackets ==
  ASSUME NEW s \in Seq(Tokens), NEW u \in Seq(Tokens),
         Encloses(s, "(", u, ")"), Inside(s) = u, Balanced(u)
  PROVE  CoreParse(s) = CoreParse(u) /\ DriverParse(s) = DriverParse(u)
<1>1. Len(s) >= 2 /\ Head(s) = "(" /\ Last(s) = ")" /\ s # << >>
  <2>1. Len(s) = Len(u) + 2 /\ s[1] = "(" /\ s[Len(s)] = ")" /\ Len(u) \in Nat
    BY DEF Encloses
  <2>2. Len(s) >= 2
    BY <2>1
  <2>3. s # << >>
    BY <2>2
  <2> QED  BY <2>1, <2>2, <2>3 DEF Last
<1>2. StripOuterParens(s)
  BY <1>1 DEF StripOuterParens, BracketsAtBothEnds
<1>3. CoreParse(s) = CoreParse(u)
  BY <1>1, <1>2, CoreRules
<1>4. \A ts : "(" \notin ts /\ ")" \notin ts => Outside(s, ts) = {}
  BY EnclosedBalanced, Zenon
<1>5. Outside(s, Ands) = {} /\ Outside(s, Ors) = {}
  BY <1>4, TokensAre
<1>6. DriverParse(s) = DriverParse(u)
  BY <1>1, <1>5, DriverRules
<1> QED  BY <1>3, <1>6

\* The place of the operator.
LEMMA JoinPlace ==
  ASSUME NEW s, NEW l, NEW op, NEW r, JoinsTwo(s, l, op, r)
  PROVE  s[Len(l) + 1] = op /\ Len(l) + 1 \in 1..Len(s)
<1>1. /\ Len(l) \in Nat /\ Len(r) \in Nat /\ Len(s) = Len(l) + 1 + Len(r)
      /\ s[Len(l) + 1] = op
  BY JoinParts
<1> QED  BY <1>1

Lacks(s, op) == Outside(s, {op}) = {}
CoreJoins(s, name, l, r) == CoreParse(s) = Join(name, CoreParse(l), CoreParse(r))

\* aspect-core splits at an operator if there is none like it on its left.
LEMMA FirstOperator ==
  ASSUME NEW s, NEW l, NEW op, NEW r, JoinsTwo(s, l, op, r), Lacks(l, op)
  PROVE  CoreOperators(s, op) # {} /\ Min(CoreOperators(s, op)) = Len(l) + 1
<1> DEFINE ts == {op}
           T == CoreOperators(s, op)
           out == Outside(s, ts)
           i == Len(l) + 1
           n == Len(s)
<1>1. Outside(l, ts) = {} /\ op \in ts
  BY DEF Lacks
<1>2. T = out \ {1, n}
  BY DEF CoreOperators
<1>3. out \in SUBSET Nat
  BY DEF Outside
<1>4. i # 1 /\ i # n /\ i \in Nat
  <2>1. n = Len(l) + 1 + Len(r) /\ Len(l) >= 1 /\ Len(r) >= 1 /\ Len(l) \in Nat /\ Len(r) \in Nat
    BY JoinParts
  <2> QED  BY <2>1
<1> HIDE DEF ts
<1>5. out # {} /\ Min(out) = i
  BY <1>1, JoinOperators, Zenon
<1> HIDE DEF out, i, T, n
<1>6. i \in out /\ \A j \in out : i <= j
  BY <1>3, <1>5, MinIs
<1>7. T \in SUBSET Nat /\ i \in T /\ \A j \in T : i <= j
  BY <1>2, <1>3, <1>4, <1>6
<1>8. Min(T) = i
  BY <1>7, MinEquals
<1> QED  BY <1>7, <1>8 DEF i, T

\* In a plain text no cut comes out early.
LEMMA PlainLeft ==
  ASSUME NEW s, NEW l, NEW op, NEW r, JoinsTwo(s, l, op, r), Plain(s)
  PROVE  Wide(l) = {}
<1> SUFFICES ASSUME NEW i \in Wide(l)  PROVE FALSE
  OBVIOUS
<1> DEFINE j == Len(l) + 1
           n == Len(s)
<1>1. i \in 1..Len(l) /\ l[i] \in Atoms /\ Patterns[l[i]].wide > 0 /\ l \in Seq(Tokens)
  BY DEF Wide, JoinsTwo
<1>2. s[j] = op /\ j \in 1..n /\ Len(l) \in Nat
  BY <1>1, JoinPlace
<1>3. op \in Operators /\ \A k \in 1..Len(l) : l[k] = s[0 + k]
  BY DEF JoinsTwo, Joins, PartOf
<1>4. i < j /\ i \in 1..n /\ 0 + i = i
  BY <1>1, <1>2
<1> HIDE DEF j, n
<1>5. s[i] = l[i]
  BY <1>1, <1>3, <1>4
<1>6. i \in Wide(s)
  BY <1>1, <1>4, <1>5 DEF Wide, n
<1> QED  BY <1>2, <1>3, <1>4, <1>6 DEF Plain, WideBeforeOperator, n

\* So it reads || between two texts, and && if there is no || outside of brackets.
LEMMA CoreReadsJoin ==
  ASSUME NEW s, NEW l, NEW op, NEW r, JoinsTwo(s, l, op, r), s[1] # "!", Lacks(l, op), Wide(l) = {}
  PROVE  /\ op = " || " => CoreJoins(s, "or", l, r)
         /\ op = " && " /\ Lacks(s, " || ") => CoreJoins(s, "and", l, r)
<1> DEFINE i == Len(l) + 1
<1>1. /\ s \in Seq(Tokens) /\ s # << >> /\ Head(s) # "!"
      /\ LeftOf(s, i) = l /\ RightOf(s, i) = r
  BY JoinParts DEF JoinsTwo
<1>2. ~StripOuterParens(s)
  BY JoinIsNotStripped
<1>3. CoreOperators(s, op) # {} /\ Min(CoreOperators(s, op)) = i
  BY FirstOperator
<1>6. CoreLeft(CoreReading, l) = CoreParse(l)
  BY CoreLeftIs DEF JoinsTwo
<1> HIDE DEF i
<1>4. ASSUME op = " || "  PROVE CoreJoins(s, "or", l, r)
  BY <1>1, <1>2, <1>3, <1>4, <1>6, CoreRules DEF CoreJoins
<1>5. ASSUME op = " && ", Lacks(s, " || ")  PROVE CoreJoins(s, "and", l, r)
  <2>1. CoreOperators(s, " || ") = {}
    BY <1>5 DEF CoreOperators, Lacks
  <2> QED  BY <1>1, <1>2, <1>3, <1>5, <1>6, <2>1, CoreRules DEF CoreJoins
<1> QED  BY <1>4, <1>5

DriverJoins(s, name, l, r) == DriverParse(s) = Join(name, DriverParse(l), DriverParse(r))

\* The driver reads && between two texts, and || if there is no && outside of brackets.
LEMMA DriverReadsJoin ==
  ASSUME NEW s, NEW l, NEW op, NEW r, JoinsTwo(s, l, op, r), s[1] # "!", Wide(l) = {}
  PROVE  /\ op \in Ands /\ Outside(l, Ands) = {} => DriverJoins(s, "and", l, r)
         /\ op \in Ors /\ Outside(l, Ors) = {} /\ Outside(s, Ands) = {} =>
              DriverJoins(s, "or", l, r)
<1> DEFINE i == Len(l) + 1
<1>1. /\ s \in Seq(Tokens) /\ s # << >> /\ Head(s) # "!"
      /\ LeftOf(s, i) = l /\ RightOf(s, i) = r
  BY JoinParts DEF JoinsTwo
<1>2. \A ts : Outside(l, ts) = {} /\ op \in ts => Outside(s, ts) # {} /\ Min(Outside(s, ts)) = i
  BY JoinOperators, Zenon
<1> HIDE DEF i
<1>3. ASSUME op \in Ands, Outside(l, Ands) = {}
      PROVE  DriverJoins(s, "and", l, r)
  BY <1>1, <1>2, <1>3, DriverRules DEF DriverJoins
<1>4. ASSUME op \in Ors, Outside(l, Ors) = {}, Outside(s, Ands) = {}
      PROVE  DriverJoins(s, "or", l, r)
  BY <1>1, <1>2, <1>4, DriverRules DEF DriverJoins
<1> QED  BY <1>3, <1>4

-----------------------------------------------------------------------------
(* aspect-core reads the grammar *)

\* A text that begins with ! and has an operator outside of brackets.
LEMMA NegationBeforeJoin ==
  ASSUME NEW s, NEW l, NEW op, NEW r, JoinsTwo(s, l, op, r), s[1] = "!"
  PROVE  NegationBeforeOperator(s)
<1> DEFINE d == Depth(s)
           j == Len(l) + 1
           n == Len(s)
<1>1. /\ Len(l) \in Nat /\ Len(r) \in Nat /\ Len(l) >= 1 /\ Len(r) >= 1 /\ n = Len(l) + 1 + Len(r)
      /\ s[j] = op /\ Balanced(s) /\ d[Len(l)] = 0
  BY JoinParts
<1>2. 1 \in 1..n /\ j \in 1..n /\ 1 < j /\ j - 1 = Len(l) /\ 1 - 1 = 0 /\ \A k \in 1..j : k \in 1..n
  BY <1>1
<1>3. s \in Seq(Tokens) /\ op \in Operators
  BY DEF JoinsTwo
<1>4. d[0] = 0
  BY <1>3, DepthIs
<1> HIDE DEF j, n, d
<1>5. SameGroup(s, 1, j)
  <2>1. d[j - 1] = d[1 - 1]
    BY <1>1, <1>2, <1>4
  <2>2. \A k \in 1..j : d[k] >= d[1 - 1]
    BY <1>1, <1>2, <1>4 DEF Balanced, n, d
  <2> QED  BY <2>1, <2>2 DEF SameGroup, d
<1> QED  BY <1>1, <1>2, <1>3, <1>5 DEF NegationBeforeOperator, n

CoreReadsIt(x) ==
  Plain(x.text) /\ ~NegationBeforeOperator(x.text) => CoreParse(x.text) = x.means

JoinRead(x, op, name, l, r) ==
  /\ op \in {" && ", " || "}
  /\ JoinsTwo(x.text, l.text, op, r.text)
  /\ x.text[1] # "!" /\ Wide(l.text) = {}
  /\ x.means = Join(name, CoreParse(l.text), CoreParse(r.text))

\* By induction on the rules: it reads each expression as the grammar does.
LEMMA CoreReads == \A x \in Exprs : CoreReadsIt(x)
<1> DEFINE G == {x \in Exprs : CoreReadsIt(x)}
<1>1. Factors \subseteq Terms /\ Terms \subseteq Exprs /\ Exprs \subseteq ReadingSet
  BY OfLength, Zenon
<1>2. \A x \in Exprs : x \in ReadingSet /\ x.text \in Seq(Tokens)
  BY <1>1 DEF ReadingSet
<1>3. ASSUME NEW x \in Exprs, Atomic(x)  PROVE CoreReadsIt(x)
  <2>1. PICK a \in Atoms : x.text = <<a>> /\ x.means = Pattern(a)
    BY <1>3, FormsAre
  <2>2. Plain(x.text) => Patterns[a].kind # "name"
    BY <2>1 DEF Plain, ForBoth
  <2> QED  BY <2>1, <2>2, ReadsAtom DEF CoreReadsIt
<1>4. ASSUME NEW x \in Exprs, NEW r \in Exprs, CoreReadsIt(r), Negation(x, r)  PROVE CoreReadsIt(x)
  <2>1. /\ Prefixed(x.text, "!", r.text) /\ Tail(x.text) = r.text
        /\ x.text # << >> /\ x.means = Not(r.means)
    BY <1>2, <1>4, FormsAre
  <2>2. x.text[1] = "!" /\ PartOf(r.text, x.text, 1)
    BY <2>1 DEF Prefixed
  <2>3. CoreParse(x.text) = Not(CoreParse(r.text))
    BY <1>2, <2>1, <2>2, ReadsNegation
  <2>4. /\ Plain(x.text) => Plain(r.text)
        /\ ~NegationBeforeOperator(x.text) => ~NegationBeforeOperator(r.text)
    BY <1>2, <2>2, PartInherits
  <2> QED  BY <1>4, <2>1, <2>3, <2>4 DEF CoreReadsIt
<1>5. ASSUME NEW x \in Exprs, NEW r \in Exprs, CoreReadsIt(r), Brackets(x, r)  PROVE CoreReadsIt(x)
  <2>1. /\ Encloses(x.text, "(", r.text, ")") /\ Inside(x.text) = r.text
        /\ x.text # << >> /\ x.means = r.means
    BY <1>2, <1>5, FormsAre
  <2>2. PartOf(r.text, x.text, 1)
    BY <2>1 DEF Encloses
  <2>3. Balanced(r.text)
    BY ShapesAre DEF HasShape
  <2>4. CoreParse(x.text) = CoreParse(r.text)
    BY <1>2, <2>1, <2>3, ReadsBrackets
  <2>5. /\ Plain(x.text) => Plain(r.text)
        /\ ~NegationBeforeOperator(x.text) => ~NegationBeforeOperator(r.text)
    BY <1>2, <2>2, PartInherits
  <2> QED  BY <1>5, <2>1, <2>4, <2>5 DEF CoreReadsIt
<1>6. ASSUME NEW x \in Exprs, NEW l \in Exprs, NEW r \in Exprs, NEW ops \in {Ands, Ors}, NEW name,
             CoreReadsIt(l), CoreReadsIt(r), JoinOf(x, ops, name, l, r),
             Plain(x.text), ~NegationBeforeOperator(x.text)
      PROVE  \E op \in ops : JoinRead(x, op, name, l, r)
  <2>1. PICK op \in ops : JoinsTwo(x.text, l.text, op, r.text)
    BY <1>2, <1>6, JoinsAre
  <2>2. x.means = Join(name, l.means, r.means)
    BY <1>2, <1>6, JoinsAre DEF MeansJoin
  <2>3. PartOf(l.text, x.text, 0) /\ PartOf(r.text, x.text, Len(l.text) + 1)
    BY <2>1 DEF JoinsTwo, Joins
  <2>4. /\ Plain(l.text) /\ Plain(r.text)
        /\ ~NegationBeforeOperator(l.text) /\ ~NegationBeforeOperator(r.text)
    BY <1>2, <1>6, <2>3, PartInherits
  <2>5. CoreParse(l.text) = l.means /\ CoreParse(r.text) = r.means
    BY <1>6, <2>4 DEF CoreReadsIt
  <2>6. x.text[1] # "!"
    BY <1>6, <2>1, NegationBeforeJoin
  <2>7. op \in {" && ", " || "}
    <3> DEFINE j == Len(l.text) + 1
    <3>1. x.text[j] = op /\ j \in 1..Len(x.text)
      BY <2>1, JoinPlace, Zenon
    <3>2. ~Unspaced(x.text)
      BY <1>6 DEF Plain, ForBoth
    <3> HIDE DEF j
    <3>3. op \notin {"&&", "||"}
      BY <3>1, <3>2 DEF Unspaced
    <3> QED  BY <3>3 DEF Ands, Ors
  <2>8. Wide(l.text) = {}
    BY <1>6, <2>1, PlainLeft
  <2> QED  BY <2>1, <2>2, <2>5, <2>6, <2>7, <2>8 DEF JoinRead
<1>7. ASSUME NEW x \in Terms, NEW l \in Factors, NEW r \in Terms,
             CoreReadsIt(l), CoreReadsIt(r), JoinOf(x, Ands, "and", l, r)
      PROVE  CoreReadsIt(x)
  <2> SUFFICES ASSUME Plain(x.text), ~NegationBeforeOperator(x.text)
               PROVE  CoreParse(x.text) = x.means
    BY DEF CoreReadsIt
  <2>1. x \in Exprs /\ l \in Exprs /\ r \in Exprs
    BY <1>1
  <2>2. Ands \in {Ands, Ors}
    OBVIOUS
  <2>3. \E op \in Ands : JoinRead(x, op, "and", l, r)
    BY <1>6, <1>7, <2>1, <2>2, Zenon
  <2>4. PICK op \in Ands : JoinRead(x, op, "and", l, r)
    BY <2>3, Zenon
  <2>5. op = " && "
    BY <2>4 DEF Ands, JoinRead
  <2>6. Outside(l.text, {op}) = {} /\ Outside(x.text, {" || "}) = {}
    <3>1. Outside(l.text, Operators) = {} /\ Outside(x.text, Ors) = {}
      BY ShapesAre
    <3>2. op \in Operators /\ " || " \in Ors
      BY TokensAre DEF Ors
    <3> QED  BY <3>1, <3>2 DEF Outside
  <2>7. CoreParse(x.text) = Join("and", CoreParse(l.text), CoreParse(r.text))
    <3> DEFINE s == x.text
               left == l.text
               right == r.text
    <3>1. JoinsTwo(s, left, op, right) /\ s[1] # "!" /\ Lacks(left, op) /\ Wide(left) = {}
      BY <2>4, <2>6 DEF JoinRead, Lacks
    <3>2. op = " && " /\ Lacks(s, " || ")
      BY <2>5, <2>6 DEF Lacks
    <3> HIDE DEF s, left, right
    <3>3. CoreJoins(s, "and", left, right)
      BY <3>1, <3>2, CoreReadsJoin, Zenon
    <3> QED  BY <3>3 DEF s, left, right, CoreJoins
  <2> QED  BY <2>4, <2>7 DEF JoinRead
<1>8. ASSUME NEW x \in Exprs, NEW l \in Terms, NEW r \in Exprs,
             CoreReadsIt(l), CoreReadsIt(r), JoinOf(x, Ors, "or", l, r)
      PROVE  CoreReadsIt(x)
  <2> SUFFICES ASSUME Plain(x.text), ~NegationBeforeOperator(x.text)
               PROVE  CoreParse(x.text) = x.means
    BY DEF CoreReadsIt
  <2>1. l \in Exprs
    BY <1>1
  <2>2. Ors \in {Ands, Ors}
    OBVIOUS
  <2>3. \E op \in Ors : JoinRead(x, op, "or", l, r)
    BY <1>6, <1>8, <2>1, <2>2, Zenon
  <2>4. PICK op \in Ors : JoinRead(x, op, "or", l, r)
    BY <2>3, Zenon
  <2>5. op = " || "
    BY <2>4 DEF Ors, JoinRead
  <2>6. Outside(l.text, {op}) = {}
    <3>1. Outside(l.text, Ors) = {}
      BY ShapesAre
    <3> QED  BY <3>1 DEF Outside
  <2>7. CoreParse(x.text) = Join("or", CoreParse(l.text), CoreParse(r.text))
    <3> DEFINE s == x.text
               left == l.text
               right == r.text
    <3>1. JoinsTwo(s, left, op, right) /\ s[1] # "!" /\ Lacks(left, op) /\ Wide(left) = {}
      BY <2>4, <2>6 DEF JoinRead, Lacks
    <3>2. op = " || "
      BY <2>5
    <3> HIDE DEF s, left, right
    <3>3. CoreJoins(s, "or", left, right)
      BY <3>1, <3>2, CoreReadsJoin, Zenon
    <3> QED  BY <3>3 DEF s, left, right, CoreJoins
  <2> QED  BY <2>4, <2>7 DEF JoinRead
<1>9. Closed(G, G, G)
  <2>1. \A x \in Factors : Atomic(x) => x \in G
    BY <1>1, <1>3
  <2>2. \A x \in Factors, r \in Factors : r \in G /\ Negation(x, r) => x \in G
    BY <1>1, <1>4
  <2>3. \A x \in Factors, r \in Exprs : r \in G /\ Brackets(x, r) => x \in G
    BY <1>1, <1>5
  <2>4. \A x \in Terms, l \in Factors, r \in Terms :
          l \in G /\ r \in G /\ JoinOf(x, Ands, "and", l, r) => x \in G
    BY <1>1, <1>7
  <2>5. \A x \in Exprs, l \in Terms, r \in Exprs :
          l \in G /\ r \in G /\ JoinOf(x, Ors, "or", l, r) => x \in G
    BY <1>1, <1>8
  <2> HIDE DEF G
  <2> QED  BY <2>1, <2>2, <2>3, <2>4, <2>5, Zenon DEF Closed
<1>10. Exprs \subseteq G
  <2> HIDE DEF G
  <2> QED  BY <1>9, ReadingsInduction, Zenon
<1> QED  BY <1>10

-----------------------------------------------------------------------------
(* Parts of parts *)

\* A part of a part is one.
LEMMA PartOfPart ==
  ASSUME NEW s \in Seq(Tokens), NEW v \in Seq(Tokens), NEW u \in Seq(Tokens), NEW a, NEW b,
         PartOf(u, v, a), PartOf(v, s, b)
  PROVE  PartOf(u, s, b + a)
<1> DEFINE m == Len(u)
           k == Len(v)
           n == Len(s)
<1>1. /\ m \in Nat /\ k \in Nat /\ n \in Nat /\ a \in Nat /\ b \in Nat
      /\ a + m <= k /\ b + k <= n
      /\ \A i \in 1..m : u[i] = v[a + i]
      /\ \A i \in 1..k : v[i] = s[b + i]
  BY DEF PartOf
<1> HIDE DEF m, k, n
<1>2. b + a \in Nat /\ (b + a) + m <= n
  BY <1>1
<1>3. ASSUME NEW i \in 1..m  PROVE u[i] = s[(b + a) + i]
  <2>1. a + i \in 1..k /\ b + (a + i) = (b + a) + i
    BY <1>1
  <2> QED  BY <1>1, <2>1
<1> QED  BY <1>2, <1>3 DEF PartOf, m, n

\* What joins two parts is the text, if it stands where they do.
LEMMA PartOfJoin ==
  ASSUME NEW s \in Seq(Tokens), NEW v \in Seq(Tokens), NEW l \in Seq(Tokens), NEW r \in Seq(Tokens),
         NEW op, NEW a, Joins(v, l, op, r),
         PartOf(l, s, a), s[a + (Len(l) + 1)] = op, PartOf(r, s, a + (Len(l) + 1))
  PROVE  PartOf(v, s, a)
<1> DEFINE j == Len(l)
           k == Len(r)
           m == Len(v)
           n == Len(s)
<1>1. /\ j \in Nat /\ k \in Nat /\ m \in Nat /\ n \in Nat /\ a \in Nat
      /\ m = j + 1 + k /\ (a + (j + 1)) + k <= n /\ v[j + 1] = op /\ s[a + (j + 1)] = op
      /\ \A i \in 1..j : l[i] = v[0 + i] /\ l[i] = s[a + i]
      /\ \A i \in 1..k : r[i] = v[(j + 1) + i] /\ r[i] = s[(a + (j + 1)) + i]
  BY DEF Joins, PartOf
<1> HIDE DEF j, k, m, n
<1>2. a + m <= n
  BY <1>1
<1>3. ASSUME NEW i \in 1..m  PROVE v[i] = s[a + i]
  <2>1. CASE i \in 1..j
    <3>1. 0 + i = i
      BY <2>1
    <3> QED  BY <1>1, <2>1, <3>1
  <2>2. CASE i = j + 1
    BY <1>1, <2>2
  <2>3. CASE i - (j + 1) \in 1..k
    <3>1. /\ (j + 1) + (i - (j + 1)) = i
          /\ (a + (j + 1)) + (i - (j + 1)) = a + i
      BY <1>1
    <3>2. /\ r[i - (j + 1)] = v[(j + 1) + (i - (j + 1))]
          /\ r[i - (j + 1)] = s[(a + (j + 1)) + (i - (j + 1))]
      BY <1>1, <2>3
    <3> QED  BY <3>1, <3>2
  <2>4. i \in 1..j \/ i = j + 1 \/ i - (j + 1) \in 1..k
    BY <1>1
  <2> QED  BY <2>1, <2>2, <2>3, <2>4
<1> QED  BY <1>1, <1>2, <1>3 DEF PartOf, m, n

\* A part as long as the text is the text.
LEMMA PartIsAll ==
  ASSUME NEW s \in Seq(Tokens), NEW u \in Seq(Tokens), PartOf(u, s, 0), Len(u) = Len(s)
  PROVE  u = s
<1>1. \A i \in 1..Len(u) : u[i] = s[0 + i]
  BY DEF PartOf
<1>2. \A i \in 1..Len(u) : u[i] = s[i]
  <2>1. ASSUME NEW i \in 1..Len(u)  PROVE 0 + i = i
    OBVIOUS
  <2> QED  BY <1>1, <2>1
<1> QED  BY <1>2, SeqEqual, Zenon

\* (t o e) op r is t o (e op r).
LEMMA JoinsRight ==
  ASSUME NEW z \in Seq(Tokens), NEW l \in Seq(Tokens), NEW r \in Seq(Tokens),
         NEW t \in Seq(Tokens), NEW e \in Seq(Tokens), NEW y \in Seq(Tokens), NEW o, NEW op,
         Joins(l, t, o, e), Joins(y, e, op, r), Joins(z, t, o, y)
  PROVE  Joins(z, l, op, r)
<1> DEFINE nt == Len(t)
           ne == Len(e)
           nr == Len(r)
           nl == Len(l)
           ny == Len(y)
           nz == Len(z)
<1>1. /\ nt \in Nat /\ ne \in Nat /\ nr \in Nat /\ nl \in Nat /\ ny \in Nat /\ nz \in Nat
      /\ nl = nt + 1 + ne /\ ny = ne + 1 + nr /\ nz = nt + 1 + ny
  BY DEF Joins
<1>2. /\ PartOf(t, z, 0) /\ z[nt + 1] = o /\ PartOf(y, z, nt + 1)
      /\ PartOf(e, y, 0) /\ y[ne + 1] = op /\ PartOf(r, y, ne + 1)
  BY DEF Joins
<1>3. PartOf(e, z, (nt + 1) + 0) /\ PartOf(r, z, (nt + 1) + (ne + 1))
  BY <1>2, PartOfPart, Zenon
<1>4. \A i \in 1..ny : y[i] = z[(nt + 1) + i]
  BY <1>2 DEF PartOf
<1> HIDE DEF ne, nr, nl, ny, nz
<1>5. PartOf(l, z, 0)
  <2>1. 0 + (nt + 1) = nt + 1 /\ (nt + 1) + 0 = nt + 1
    BY <1>1
  <2>2. PartOf(t, z, 0) /\ z[0 + (nt + 1)] = o /\ PartOf(e, z, 0 + (nt + 1))
    BY <1>2, <1>3, <2>1
  <2> QED  BY <2>2, PartOfJoin, Zenon
<1> HIDE DEF nt
<1>6. ne + 1 \in 1..ny /\ (nt + 1) + (ne + 1) = nl + 1 /\ nz = nl + 1 + nr
  BY <1>1
<1>7. z[nl + 1] = op
  BY <1>2, <1>4, <1>6
<1>8. PartOf(r, z, nl + 1)
  BY <1>3, <1>6
<1> QED  BY <1>5, <1>6, <1>7, <1>8 DEF Joins, nl, nr, nz

\* l op (t o e) is (l op t) o e.
LEMMA JoinsLeft ==
  ASSUME NEW z \in Seq(Tokens), NEW l \in Seq(Tokens), NEW r \in Seq(Tokens),
         NEW t \in Seq(Tokens), NEW e \in Seq(Tokens), NEW y \in Seq(Tokens), NEW o, NEW op,
         Joins(r, t, o, e), Joins(y, l, op, t), Joins(z, y, o, e)
  PROVE  Joins(z, l, op, r)
<1> DEFINE nt == Len(t)
           ne == Len(e)
           nr == Len(r)
           nl == Len(l)
           ny == Len(y)
           nz == Len(z)
<1>1. /\ nt \in Nat /\ ne \in Nat /\ nr \in Nat /\ nl \in Nat /\ ny \in Nat /\ nz \in Nat
      /\ nr = nt + 1 + ne /\ ny = nl + 1 + nt /\ nz = ny + 1 + ne
  BY DEF Joins
<1>2. /\ PartOf(y, z, 0) /\ z[ny + 1] = o /\ PartOf(e, z, ny + 1)
      /\ PartOf(l, y, 0) /\ y[nl + 1] = op /\ PartOf(t, y, nl + 1)
  BY DEF Joins
<1>3. PartOf(l, z, 0 + 0) /\ PartOf(t, z, 0 + (nl + 1))
  BY <1>2, PartOfPart, Zenon
<1>4. \A i \in 1..ny : y[i] = z[0 + i]
  BY <1>2 DEF PartOf
<1> HIDE DEF ne, nr, nl, ny, nz
<1>5. PartOf(r, z, nl + 1)
  <2>1. (nl + 1) + (nt + 1) = ny + 1 /\ 0 + (nl + 1) = nl + 1
    BY <1>1
  <2>2. PartOf(t, z, nl + 1) /\ z[(nl + 1) + (nt + 1)] = o /\ PartOf(e, z, (nl + 1) + (nt + 1))
    BY <1>2, <1>3, <2>1
  <2> QED  BY <2>2, PartOfJoin, Zenon
<1> HIDE DEF nt
<1>6. nl + 1 \in 1..ny /\ 0 + (nl + 1) = nl + 1 /\ nz = nl + 1 + nr /\ 0 + 0 = 0
  BY <1>1
<1>7. z[nl + 1] = op
  BY <1>2, <1>4, <1>6
<1>8. PartOf(l, z, 0)
  BY <1>3, <1>6
<1> QED  BY <1>5, <1>6, <1>7, <1>8 DEF Joins, nl, nr, nz

\* A token before a text and an operator behind it.
LEMMA PrefixedJoin ==
  ASSUME NEW s \in Seq(Tokens), NEW l \in Seq(Tokens), NEW r \in Seq(Tokens),
         NEW y \in Seq(Tokens), NEW t \in Seq(Tokens), NEW c, NEW op,
         Joins(s, l, op, r), Prefixed(l, c, y), Joins(t, y, op, r)
  PROVE  Prefixed(s, c, t)
<1> DEFINE ns == Len(s)
           nr == Len(r)
           nl == Len(l)
           ny == Len(y)
           nt == Len(t)
<1>1. /\ ns \in Nat /\ nr \in Nat /\ nl \in Nat /\ ny \in Nat /\ nt \in Nat
      /\ ns = nl + 1 + nr /\ nl = ny + 1 /\ nt = ny + 1 + nr
  BY DEF Joins, Prefixed
<1>2. /\ PartOf(l, s, 0) /\ s[nl + 1] = op /\ PartOf(r, s, nl + 1)
      /\ l[1] = c /\ PartOf(y, l, 1)
  BY DEF Joins, Prefixed
<1>3. PartOf(y, s, 0 + 1)
  BY <1>2, PartOfPart, Zenon
<1>4. \A i \in 1..nl : l[i] = s[0 + i]
  BY <1>2 DEF PartOf
<1> HIDE DEF ns, nr, nl, nt
<1>5. PartOf(t, s, 1)
  <2>1. 1 + (ny + 1) = nl + 1 /\ 0 + 1 = 1
    BY <1>1
  <2>2. PartOf(y, s, 1) /\ s[1 + (ny + 1)] = op /\ PartOf(r, s, 1 + (ny + 1))
    BY <1>2, <1>3, <2>1
  <2> QED  BY <2>2, PartOfJoin, Zenon
<1> HIDE DEF ny
<1>6. 1 \in 1..nl /\ 0 + 1 = 1 /\ ns = nt + 1
  BY <1>1
<1>7. s[1] = c
  BY <1>2, <1>4, <1>6
<1> QED  BY <1>5, <1>6, <1>7 DEF Prefixed, ns, nt

\* The parts make the text.
LEMMA SameJoin ==
  ASSUME NEW s \in Seq(Tokens), NEW z \in Seq(Tokens), NEW l \in Seq(Tokens), NEW r \in Seq(Tokens),
         NEW op, Joins(s, l, op, r), Joins(z, l, op, r)
  PROVE  s = z
<1> DEFINE j == Len(l)
<1>1. j \in Nat /\ Len(s) = Len(z)
  BY DEF Joins
<1>2. PartOf(l, z, 0) /\ z[j + 1] = op /\ PartOf(r, z, j + 1)
  BY DEF Joins
<1>3. 0 + (j + 1) = j + 1
  BY <1>1
<1>4. PartOf(l, z, 0) /\ z[0 + (j + 1)] = op /\ PartOf(r, z, 0 + (j + 1))
  BY <1>2, <1>3
<1>5. PartOf(s, z, 0)
  BY <1>4, PartOfJoin, Zenon
<1> QED  BY <1>1, <1>5, PartIsAll

\* The same for a token before a text.
LEMMA SamePrefixed ==
  ASSUME NEW s \in Seq(Tokens), NEW z \in Seq(Tokens), NEW u \in Seq(Tokens),
         NEW c, Prefixed(s, c, u), Prefixed(z, c, u)
  PROVE  s = z
<1> DEFINE n == Len(s)
           m == Len(u)
<1>1. n \in Nat /\ m \in Nat /\ n = m + 1 /\ Len(z) = n /\ s[1] = c /\ z[1] = c
  BY DEF Prefixed
<1>2. \A i \in 1..m : u[i] = s[1 + i] /\ u[i] = z[1 + i]
  BY DEF Prefixed, PartOf
<1> HIDE DEF n, m
<1>3. ASSUME NEW i \in 1..n  PROVE s[i] = z[i]
  <2>1. i = 1 \/ (i - 1 \in 1..m /\ 1 + (i - 1) = i)
    BY <1>1
  <2> QED  BY <1>1, <1>2, <2>1
<1>4. Len(s) = n
  BY DEF n
<1> QED  BY <1>1, <1>3, <1>4, SeqEqual, Zenon

\* And for a text between two tokens.
LEMMA SameEncloses ==
  ASSUME NEW s \in Seq(Tokens), NEW z \in Seq(Tokens), NEW u \in Seq(Tokens),
         NEW b, NEW c, Encloses(s, b, u, c), Encloses(z, b, u, c)
  PROVE  s = z
<1> DEFINE n == Len(s)
           m == Len(u)
<1>1. /\ n \in Nat /\ m \in Nat /\ n = m + 2 /\ Len(z) = n
      /\ s[1] = b /\ z[1] = b /\ s[n] = c /\ z[n] = c
  BY DEF Encloses
<1>2. \A i \in 1..m : u[i] = s[1 + i] /\ u[i] = z[1 + i]
  BY DEF Encloses, PartOf
<1> HIDE DEF n, m
<1>3. ASSUME NEW i \in 1..n  PROVE s[i] = z[i]
  <2>1. i = 1 \/ i = n \/ (i - 1 \in 1..m /\ 1 + (i - 1) = i)
    BY <1>1
  <2> QED  BY <1>1, <1>2, <2>1
<1>4. Len(s) = n
  BY DEF n
<1> QED  BY <1>1, <1>3, <1>4, SeqEqual, Zenon

-----------------------------------------------------------------------------
(* The texts of the grammar *)

ExprTexts == {x.text : x \in Exprs}

\* The types of expressions and of their texts.
LEMMA ExprsAreReadings ==
  /\ Factors \subseteq Terms /\ Terms \subseteq Exprs /\ Exprs \subseteq ReadingSet
  /\ \A x \in Exprs : x.text \in Seq(Tokens) /\ Len(x.text) \in Nat /\ Fits(x)
  /\ \A u \in ExprTexts : u \in Seq(Tokens) /\ u # << >> /\ Balanced(u)
<1>1. Factors \subseteq Terms /\ Terms \subseteq Exprs /\ Exprs \subseteq ReadingSet
  BY OfLength, Zenon
<1>2. \A x \in Exprs : x.text \in Seq(Tokens) /\ Len(x.text) \in 1..MaxGrammar
  BY <1>1 DEF Exprs, ReadingSet
<1>3. MaxGrammar \in Nat
  BY TextAssumption DEF TextAssumption
<1>4. \A x \in Exprs : Len(x.text) \in Nat /\ Fits(x)
  BY <1>2, <1>3 DEF Fits
<1>5. \A x \in Exprs : x.text # << >> /\ Balanced(x.text)
  BY ShapesAre DEF HasShape
<1> QED  BY <1>1, <1>2, <1>4, <1>5 DEF ExprTexts

\* For two expressions and an operator there is a reading that joins them.
LEMMA MakeJoin ==
  ASSUME NEW l \in Exprs, NEW r \in Exprs, NEW ops \in {Ands, Ors}, NEW op \in ops, NEW name
  PROVE  \E z : /\ JoinOf(z, ops, name, l, r) /\ z.text \in Seq(Tokens)
                /\ Joins(z.text, l.text, op, r.text)
<1> DEFINE u == l.text
           v == r.text
           s == u \o <<op>> \o v
           e == Join(name, l.means, r.means)
           z == Reading(s, e)
<1>1. u \in Seq(Tokens) /\ v \in Seq(Tokens) /\ op \in Tokens
  BY ExprsAreReadings, TokensAre
<1>2. z = Reading(l.text \o <<op>> \o r.text, Join(name, l.means, r.means))
  OBVIOUS
<1> HIDE DEF z
<1>3. JoinOf(z, ops, name, l, r)
  BY <1>2 DEF JoinOf
<1>4. z.text = s
  BY ReadingIs DEF z
<1> HIDE DEF u, v
<1>5. s \in Seq(Tokens) /\ Joins(s, u, op, v)
  <2> SUFFICES ASSUME NEW t, t = u \o <<op>> \o v  PROVE t \in Seq(Tokens) /\ Joins(t, u, op, v)
    OBVIOUS
  <2> QED  BY <1>1, JoinedIs
<1> HIDE DEF s
<1> QED  BY <1>3, <1>4, <1>5 DEF u, v

\* The operand of a leading ! reaches to the end, or its first operator stands
\* behind it.
NegatedIn(x, S) == x.text[1] = "!" => \E y \in S : Prefixed(x.text, "!", y.text)

\* A join whose left side begins with ! is one too, without that !.
LEMMA NegatedJoin ==
  ASSUME NEW x \in Exprs, NEW l \in Exprs, NEW r \in Exprs, NEW ops \in {Ands, Ors}, NEW name,
         JoinOf(x, ops, name, l, r), NEW S \in SUBSET Exprs, NegatedIn(l, S), x.text[1] = "!"
  PROVE  \E y \in S : \E z : JoinOf(z, ops, name, y, r) /\ Fits(z) /\ Prefixed(x.text, "!", z.text)
<1>1. /\ x.text \in Seq(Tokens) /\ l.text \in Seq(Tokens) /\ r.text \in Seq(Tokens)
      /\ Len(x.text) \in Nat /\ Fits(x)
  BY ExprsAreReadings
<1>2. PICK op \in ops : JoinsTwo(x.text, l.text, op, r.text)
  BY <1>1, JoinsAre, Zenon
<1>3. l.text[1] = "!"
  BY <1>2, JoinParts
<1>4. PICK y \in S : Prefixed(l.text, "!", y.text)
  BY <1>3 DEF NegatedIn
<1>5. y \in Exprs /\ y.text \in Seq(Tokens)
  BY ExprsAreReadings
<1>6. PICK z : JoinOf(z, ops, name, y, r) /\ z.text \in Seq(Tokens) /\ Joins(z.text, y.text, op, r.text)
  BY <1>5, MakeJoin, Zenon
<1>7. Prefixed(x.text, "!", z.text)
  <2> DEFINE s == x.text
             u == l.text
             v == r.text
             w == y.text
             t == z.text
             c == "!"
  <2>1. /\ s \in Seq(Tokens) /\ u \in Seq(Tokens) /\ v \in Seq(Tokens) /\ w \in Seq(Tokens)
        /\ t \in Seq(Tokens) /\ Joins(s, u, op, v) /\ Prefixed(u, c, w) /\ Joins(t, w, op, v)
    BY <1>1, <1>2, <1>4, <1>5, <1>6 DEF JoinsTwo
  <2> HIDE DEF s, u, v, w, t, c
  <2>2. Prefixed(s, c, t)
    BY <2>1, PrefixedJoin, Zenon
  <2> QED  BY <2>2 DEF s, t, c
<1>8. Fits(z)
  <2>1. Len(x.text) = Len(z.text) + 1 /\ Len(z.text) \in Nat /\ Len(x.text) <= MaxGrammar
    BY <1>1, <1>6, <1>7 DEF Prefixed, Fits
  <2>2. MaxGrammar \in Nat
    BY TextAssumption DEF TextAssumption
  <2> QED  BY <1>1, <2>1, <2>2 DEF Fits
<1> QED  BY <1>6, <1>7, <1>8

\* An expression that begins with ! is another one behind a !.
LEMMA Negated == \A x \in Exprs : NegatedIn(x, Exprs)
<1> DEFINE F == {x \in Factors : NegatedIn(x, Factors)}
           T == {x \in Terms : NegatedIn(x, Terms)}
           E == {x \in Exprs : NegatedIn(x, Exprs)}
<1>1. Factors \subseteq Terms /\ Terms \subseteq Exprs /\ Exprs \subseteq ReadingSet
  BY ExprsAreReadings
<1>2. \A x \in Exprs : x.text \in Seq(Tokens)
  BY ExprsAreReadings
<1>3. ASSUME NEW x \in Factors, Atomic(x)  PROVE x \in F
  <2>1. PICK a \in Atoms : x.text = <<a>>
    BY <1>3, FormsAre
  <2>2. x.text[1] # "!"
    BY <2>1, TokensAre
  <2> QED  BY <2>2 DEF NegatedIn
<1>4. ASSUME NEW x \in Factors, NEW r \in Factors, Negation(x, r)  PROVE x \in F
  <2>1. r \in ReadingSet
    BY <1>1
  <2>2. Prefixed(x.text, "!", r.text)
    BY <1>4, <2>1, FormsAre
  <2> QED  BY <2>2 DEF NegatedIn
<1>5. ASSUME NEW x \in Factors, NEW r \in Exprs, Brackets(x, r)  PROVE x \in F
  <2>1. r \in ReadingSet
    BY <1>1
  <2>2. x.text[1] = "("
    BY <1>5, <2>1, FormsAre DEF Encloses
  <2> QED  BY <2>2 DEF NegatedIn
<1>6. ASSUME NEW x \in Terms, NEW l \in Factors, NEW r \in Terms, l \in F,
             JoinOf(x, Ands, "and", l, r)
      PROVE  x \in T
  <2> SUFFICES ASSUME x.text[1] = "!"  PROVE \E z \in Terms : Prefixed(x.text, "!", z.text)
    BY DEF NegatedIn
  <2>1. /\ x \in Exprs /\ l \in Exprs /\ r \in Exprs /\ Factors \in SUBSET Exprs
        /\ NegatedIn(l, Factors) /\ Ands \in {Ands, Ors}
    BY <1>1, <1>6
  <2>2. PICK y \in Factors : \E z : /\ JoinOf(z, Ands, "and", y, r) /\ Fits(z)
                                   /\ Prefixed(x.text, "!", z.text)
    BY <1>6, <2>1, NegatedJoin, Zenon
  <2>3. PICK z : JoinOf(z, Ands, "and", y, r) /\ Fits(z) /\ Prefixed(x.text, "!", z.text)
    BY <2>2
  <2>4. z \in Terms
    BY <2>3, RulesApply, Zenon
  <2> QED  BY <2>3, <2>4
<1>7. ASSUME NEW x \in Exprs, NEW l \in Terms, NEW r \in Exprs, l \in T,
             JoinOf(x, Ors, "or", l, r)
      PROVE  x \in E
  <2> SUFFICES ASSUME x.text[1] = "!"  PROVE \E z \in Exprs : Prefixed(x.text, "!", z.text)
    BY DEF NegatedIn
  <2>1. /\ l \in Exprs /\ Terms \in SUBSET Exprs
        /\ NegatedIn(l, Terms) /\ Ors \in {Ands, Ors}
    BY <1>1, <1>7
  <2>2. PICK y \in Terms : \E z : /\ JoinOf(z, Ors, "or", y, r) /\ Fits(z)
                                 /\ Prefixed(x.text, "!", z.text)
    BY <1>7, <2>1, NegatedJoin, Zenon
  <2>3. PICK z : JoinOf(z, Ors, "or", y, r) /\ Fits(z) /\ Prefixed(x.text, "!", z.text)
    BY <2>2
  <2>4. z \in Exprs
    BY <2>3, RulesApply, Zenon
  <2> QED  BY <2>3, <2>4
<1>8. (\A x \in Factors : x \in F => x \in T) /\ (\A x \in Terms : x \in T => x \in E)
  BY <1>1 DEF NegatedIn
<1>9. Closed(F, T, E)
  <2>1. \A x \in Factors : Atomic(x) => x \in F
    BY <1>3
  <2>2. \A x \in Factors, r \in Factors : r \in F /\ Negation(x, r) => x \in F
    BY <1>4
  <2>3. \A x \in Factors, r \in Exprs : r \in E /\ Brackets(x, r) => x \in F
    BY <1>5
  <2>4. \A x \in Terms, l \in Factors, r \in Terms :
          l \in F /\ r \in T /\ JoinOf(x, Ands, "and", l, r) => x \in T
    BY <1>6
  <2>5. \A x \in Exprs, l \in Terms, r \in Exprs :
          l \in T /\ r \in E /\ JoinOf(x, Ors, "or", l, r) => x \in E
    BY <1>7
  <2> HIDE DEF F, T, E
  <2> QED  BY <1>8, <2>1, <2>2, <2>3, <2>4, <2>5, Zenon DEF Closed
<1>10. Exprs \subseteq E
  <2> HIDE DEF F, T, E
  <2> QED  BY <1>9, ReadingsInduction, Zenon
<1> QED  BY <1>10

\* What a text of the grammar is.
IsNegation(s) == s[1] = "!" /\ Tail(s) \in ExprTexts /\ Prefixed(s, "!", Tail(s))
IsBracketed(s) == \E u \in ExprTexts : Encloses(s, "(", u, ")") /\ Inside(s) = u
IsAndText(s) ==
  \E l, r \in ExprTexts, op \in Ands :
    JoinsTwo(s, l, op, r) /\ Outside(l, Operators) = {} /\ Outside(s, Ors) = {}
IsOrText(s) ==
  \E l, r \in ExprTexts, op \in Ors : JoinsTwo(s, l, op, r) /\ Outside(l, Ors) = {}

\* Each text of the grammar has one of these forms.
LEMMA FormOfText ==
  ASSUME NEW s \in ExprTexts
  PROVE  \/ \E a \in Atoms : s = <<a>>
         \/ IsNegation(s)
         \/ IsBracketed(s)
         \/ s[1] # "!" /\ (IsAndText(s) \/ IsOrText(s))
<1>1. PICK x \in Exprs : s = x.text
  BY DEF ExprTexts
<1>2. s \in Seq(Tokens) /\ s # << >>
  BY ExprsAreReadings
<1>3. ASSUME s[1] = "!"  PROVE IsNegation(s)
  <2>1. NegatedIn(x, Exprs)
    BY Negated, Zenon
  <2>2. PICK y \in Exprs : Prefixed(s, "!", y.text)
    BY <1>1, <1>3, <2>1 DEF NegatedIn
  <2>3. Tail(s) \in Seq(Tokens) /\ Prefixed(s, "!", Tail(s))
    BY <1>2, <1>3, TailIs
  <2> DEFINE t == Tail(s)
             u == y.text
  <2>4. u \in Seq(Tokens) /\ u \in ExprTexts
    BY ExprsAreReadings DEF ExprTexts
  <2>5. t = u
    <3>1. PartOf(t, s, 1) /\ PartOf(u, s, 1) /\ Len(s) = Len(t) + 1 /\ Len(s) = Len(u) + 1
      BY <2>2, <2>3 DEF Prefixed
    <3>2. t \in Seq(Tokens) /\ Len(t) \in Nat /\ Len(u) \in Nat
      BY <2>3, <2>4
    <3> HIDE DEF t, u
    <3>3. SubSeq(s, 1 + 1, 1 + Len(t)) = t /\ SubSeq(s, 1 + 1, 1 + Len(u)) = u
      BY <1>2, <2>4, <3>1, <3>2, PartIsSubSeq, Zenon
    <3>4. Len(t) = Len(u)
      BY <3>1, <3>2
    <3> QED  BY <3>3, <3>4
  <2> QED  BY <1>3, <2>3, <2>4, <2>5 DEF IsNegation
<1>4. ASSUME x \in Factors, s[1] # "!"  PROVE (\E a \in Atoms : s = <<a>>) \/ IsBracketed(s)
  <2>1. CASE Atomic(x)
    BY <1>1, <2>1, FormsAre
  <2>2. CASE \E r \in Factors : Negation(x, r)
    <3>1. PICK r \in Factors : Negation(x, r)
      BY <2>2
    <3>2. r \in ReadingSet
      BY ExprsAreReadings
    <3>3. x.text[1] = "!"
      BY <3>1, <3>2, FormsAre DEF Prefixed
    <3> QED  BY <1>1, <1>4, <3>3
  <2>3. CASE \E r \in Exprs : Brackets(x, r)
    <3>1. PICK r \in Exprs : Brackets(x, r)
      BY <2>3
    <3>2. r \in ReadingSet
      BY ExprsAreReadings
    <3>3. Encloses(x.text, "(", r.text, ")") /\ Inside(x.text) = r.text
      BY <3>1, <3>2, FormsAre
    <3> QED  BY <1>1, <3>3 DEF IsBracketed, ExprTexts
  <2> QED  BY <1>4, <2>1, <2>2, <2>3, RulesAre
<1>5. ASSUME x \in Terms, x \notin Factors  PROVE IsAndText(s)
  <2>1. PICK l \in Factors, r \in Terms : JoinOf(x, Ands, "and", l, r)
    BY <1>5, RulesAre
  <2>2. l \in Exprs /\ r \in Exprs /\ x.text \in Seq(Tokens) /\ Ands \in {Ands, Ors}
    BY <1>1, <1>2, ExprsAreReadings
  <2>3. \E op \in Ands : JoinsTwo(x.text, l.text, op, r.text)
    BY <2>1, <2>2, JoinsAre, Zenon
  <2>4. Outside(l.text, Operators) = {} /\ Outside(x.text, Ors) = {}
    BY <1>5, ShapesAre
  <2> QED  BY <1>1, <2>2, <2>3, <2>4 DEF IsAndText, ExprTexts
<1>6. ASSUME x \notin Terms  PROVE IsOrText(s)
  <2>1. PICK l \in Terms, r \in Exprs : JoinOf(x, Ors, "or", l, r)
    BY <1>6, RulesAre
  <2>2. l \in Exprs /\ x.text \in Seq(Tokens) /\ Ors \in {Ands, Ors}
    BY <1>1, <1>2, ExprsAreReadings
  <2>3. \E op \in Ors : JoinsTwo(x.text, l.text, op, r.text)
    BY <2>1, <2>2, JoinsAre, Zenon
  <2>4. Outside(l.text, Ors) = {}
    BY ShapesAre
  <2> QED  BY <1>1, <2>2, <2>3, <2>4 DEF IsOrText, ExprTexts
<1> QED  BY <1>3, <1>4, <1>5, <1>6

-----------------------------------------------------------------------------
(* The driver reads as aspect-core does *)

\* Outside of brackets, all is in one group.
LEMMA OutsideMixes ==
  ASSUME NEW s \in Seq(Tokens), Balanced(s), NEW i \in Outside(s, Ands), NEW j \in Outside(s, Ors)
  PROVE  MixesOperators(s)
<1> DEFINE a == Min({i, j})
           b == Max({i, j})
           n == Len(s)
           d == Depth(s)
<1>1. /\ i \in 1..n /\ j \in 1..n /\ n \in Nat /\ s[i] \in Ands /\ s[j] \in Ors
      /\ d[i - 1] = 0 /\ d[j - 1] = 0
  BY DEF Outside
<1>2. \A k \in 1..n : d[k] >= 0
  BY DEF Balanced
<1>3. a \in {i, j} /\ b \in {i, j}
  <2>1. CASE i <= j
    <3>1. i \in Nat /\ j \in Nat
      BY <1>1
    <3> QED  BY <2>1, <3>1, MinMaxOfTwo
  <2>2. CASE j <= i
    <3>1. i \in Nat /\ j \in Nat
      BY <1>1
    <3> QED  BY <2>2, <3>1, MinMaxOfTwo
  <2> QED  BY <1>1, <2>1, <2>2
<1> HIDE DEF a, b, n, d
<1>4. /\ d[b - 1] = 0 /\ d[a - 1] = 0
      /\ \A k \in a..b : k \in 1..n
  BY <1>1, <1>3
<1>5. SameGroup(s, a, b)
  BY <1>2, <1>4 DEF SameGroup, d
<1> QED  BY <1>1, <1>5 DEF MixesOperators, n, a, b

AgreesOn(s) == Plain(s) /\ ~MixesOperators(s) => DriverParse(s) = CoreParse(s)

\* If both split a text at the same place, they agree on it when they do on its sides.
LEMMA AgreeOnJoin ==
  ASSUME NEW s, NEW l, NEW op, NEW r, JoinsTwo(s, l, op, r), NEW name,
         AgreesOn(l), AgreesOn(r), Plain(s), ~MixesOperators(s),
         DriverJoins(s, name, l, r), CoreJoins(s, name, l, r)
  PROVE  DriverParse(s) = CoreParse(s)
<1>1. s \in Seq(Tokens) /\ l \in Seq(Tokens) /\ r \in Seq(Tokens)
  BY DEF JoinsTwo
<1>2. PartOf(l, s, 0) /\ PartOf(r, s, Len(l) + 1)
  BY DEF JoinsTwo, Joins
<1>3. Plain(l) /\ ~MixesOperators(l) /\ Plain(r) /\ ~MixesOperators(r)
  BY <1>1, <1>2, PartInherits
<1> QED  BY <1>3 DEF AgreesOn, DriverJoins, CoreJoins

\* By induction on the length: the parsers agree on every text of the grammar.
LEMMA ParsersAgreeOnTexts == \A s \in ExprTexts : AgreesOn(s)
<1> DEFINE G == {s \in ExprTexts : AgreesOn(s)}
           size == [s \in ExprTexts |-> Len(s)]
<1>1. \A s \in ExprTexts : s \in Seq(Tokens) /\ s # << >> /\ Balanced(s) /\ Len(s) \in Nat
  BY ExprsAreReadings
<1>2. ASSUME NEW s \in ExprTexts, \A u \in ExprTexts : Len(u) < Len(s) => AgreesOn(u)
      PROVE  AgreesOn(s)
  <2> SUFFICES ASSUME Plain(s), ~MixesOperators(s)  PROVE DriverParse(s) = CoreParse(s)
    BY DEF AgreesOn
  <2>1. ASSUME NEW a \in Atoms, s = <<a>>  PROVE DriverParse(s) = CoreParse(s)
    <3>1. Patterns[a].kind # "name"
      BY <2>1 DEF Plain, ForBoth
    <3> QED  BY <2>1, <3>1, ReadsAtom
  <2>2. ASSUME IsNegation(s)  PROVE DriverParse(s) = CoreParse(s)
    <3> DEFINE u == Tail(s)
    <3>1. s[1] = "!" /\ u \in ExprTexts /\ Len(s) = Len(u) + 1 /\ PartOf(u, s, 1)
      BY <2>2 DEF IsNegation, Prefixed
    <3>2. CoreParse(s) = Not(CoreParse(u)) /\ DriverParse(s) = Not(DriverParse(u))
      BY <1>1, <3>1, ReadsNegation
    <3> HIDE DEF u
    <3>3. AgreesOn(u)
      <4>1. Len(u) < Len(s)
        BY <1>1, <3>1
      <4> QED  BY <1>2, <3>1, <4>1
    <3>4. Plain(u) /\ ~MixesOperators(u)
      BY <1>1, <3>1, PartInherits
    <3> QED  BY <3>2, <3>3, <3>4 DEF AgreesOn
  <2>3. ASSUME IsBracketed(s)  PROVE DriverParse(s) = CoreParse(s)
    <3>1. PICK u \in ExprTexts : Encloses(s, "(", u, ")") /\ Inside(s) = u
      BY <2>3 DEF IsBracketed
    <3>2. CoreParse(s) = CoreParse(u) /\ DriverParse(s) = DriverParse(u)
      BY <1>1, <3>1, ReadsBrackets
    <3>3. Len(s) = Len(u) + 2 /\ PartOf(u, s, 1)
      BY <3>1 DEF Encloses
    <3>4. AgreesOn(u)
      <4>1. Len(u) < Len(s)
        BY <1>1, <3>3
      <4> QED  BY <1>2, <4>1
    <3>5. Plain(u) /\ ~MixesOperators(u)
      BY <1>1, <3>3, PartInherits
    <3> QED  BY <3>2, <3>4, <3>5 DEF AgreesOn
  <2>4. ASSUME NEW l \in ExprTexts, NEW r \in ExprTexts, NEW op, JoinsTwo(s, l, op, r)
        PROVE  AgreesOn(l) /\ AgreesOn(r) /\ op \notin {"&&", "||"} /\ Wide(l) = {}
    <3>1. Len(s) = Len(l) + 1 + Len(r) /\ Len(l) \in Nat /\ Len(r) \in Nat
      BY <2>4, JoinParts
    <3>2. Len(l) < Len(s) /\ Len(r) < Len(s)
      BY <3>1
    <3> DEFINE j == Len(l) + 1
    <3>3. s[j] = op /\ j \in 1..Len(s)
      BY <2>4, JoinPlace, Zenon
    <3> HIDE DEF j
    <3>4. op \notin {"&&", "||"}
      BY <3>3 DEF Plain, ForBoth, Unspaced
    <3>5. Wide(l) = {}
      BY <2>4, PlainLeft
    <3> QED  BY <1>2, <3>2, <3>4, <3>5
  <2>5. ASSUME s[1] # "!", IsAndText(s)  PROVE DriverParse(s) = CoreParse(s)
    <3>1. PICK l \in ExprTexts, r \in ExprTexts, op \in Ands :
                 JoinsTwo(s, l, op, r) /\ Outside(l, Operators) = {} /\ Outside(s, Ors) = {}
      BY <2>5 DEF IsAndText
    <3>2. op = " && " /\ AgreesOn(l) /\ AgreesOn(r) /\ Wide(l) = {}
      BY <2>4, <3>1 DEF Ands
    <3>3. Lacks(l, op) /\ Outside(l, Ands) = {}
      BY <3>1, TokensAre DEF Lacks, Outside
    <3>4. Lacks(s, " || ")
      BY <3>1 DEF Lacks, Outside, Ors
    <3>5. CoreJoins(s, "and", l, r)
      BY <2>5, <3>1, <3>2, <3>3, <3>4, CoreReadsJoin, Zenon
    <3>6. DriverJoins(s, "and", l, r)
      BY <2>5, <3>1, <3>2, <3>3, DriverReadsJoin, Zenon
    <3> QED  BY <3>1, <3>2, <3>5, <3>6, AgreeOnJoin, Zenon
  <2>6. ASSUME s[1] # "!", IsOrText(s)  PROVE DriverParse(s) = CoreParse(s)
    <3>1. PICK l \in ExprTexts, r \in ExprTexts, op \in Ors :
                 JoinsTwo(s, l, op, r) /\ Outside(l, Ors) = {}
      BY <2>6 DEF IsOrText
    <3>2. op = " || " /\ AgreesOn(l) /\ AgreesOn(r) /\ Wide(l) = {}
      BY <2>4, <3>1 DEF Ors
    <3>3. Lacks(l, op)
      BY <3>1 DEF Lacks, Outside
    <3>4. Outside(s, Ands) = {}
      <4>1. Len(l) + 1 \in Outside(s, Ors)
        BY <3>1, JoinOperators, Zenon
      <4> QED  BY <1>1, <4>1, OutsideMixes
    <3>5. CoreJoins(s, "or", l, r)
      BY <2>6, <3>1, <3>2, <3>3, CoreReadsJoin, Zenon
    <3>6. DriverJoins(s, "or", l, r)
      BY <2>6, <3>1, <3>2, <3>4, DriverReadsJoin, Zenon
    <3> QED  BY <3>1, <3>2, <3>5, <3>6, AgreeOnJoin, Zenon
  <2> QED  BY <2>1, <2>2, <2>3, <2>5, <2>6, FormOfText
<1>3. ExprTexts \subseteq G
  <2>1. /\ size \in [ExprTexts -> Nat]
        /\ \A s \in ExprTexts : (\A u \in ExprTexts : size[u] < size[s] => u \in G) => s \in G
    BY <1>1, <1>2
  <2> HIDE DEF G, size
  <2> QED  BY <2>1, InductionBySize, Zenon
<1> QED  BY <1>3

-----------------------------------------------------------------------------
(* Both match the same functions *)

\* A tree says the same of two sets of patterns that do not differ in its own.
DifferNotIn(X, M1, M2) == \A n \in X : n \notin Connectives => (n \in M1 <=> n \in M2)
SaysTheSame(e, M1, M2) == Evaluate(e, M1) = Evaluate(e, M2)

\* Its value depends on the patterns in it and on no others.
LEMMA EvaluateSame ==
  ASSUME NEW X, NEW e \in Seq(X), NEW M1, NEW M2, DifferNotIn(X, M1, M2)
  PROVE  SaysTheSame(e, M1, M2)
<1> DEFINE Values(f, M) ==
             [i \in 1..(Len(e) + 1) |->
                IF i > Len(e) THEN << >>
                ELSE LET v == f[i + 1]
                     IN  CASE e[i] = "not" -> <<~v[1]>> \o Tail(v)
                           [] e[i] = "and" -> <<v[1] /\ v[2]>> \o SubSeq(v, 3, Len(v))
                           [] e[i] = "or" -> <<v[1] \/ v[2]>> \o SubSeq(v, 3, Len(v))
                           [] OTHER -> <<e[i] \in M>> \o v]
<1>1. ASSUME NEW f  PROVE Values(f, M1) = Values(f, M2)
  <2>1. ASSUME NEW i \in 1..(Len(e) + 1), ~(i > Len(e)), e[i] \notin Connectives
        PROVE  (e[i] \in M1) = (e[i] \in M2)
    <3>1. i \in 1..Len(e)
      BY <2>1
    <3>2. e[i] \in X
      BY <3>1
    <3> QED  BY <2>1, <3>2 DEF DifferNotIn
  <2>2. {"not", "and", "or"} = Connectives
    BY DEF Connectives
  <2> QED  BY <2>1, <2>2
<1>2. Evaluate(e, M1) = (CHOOSE f : f = Values(f, M1))[1][1]
  BY DEF Evaluate
<1>3. Evaluate(e, M2) = (CHOOSE f : f = Values(f, M2))[1][1]
  BY DEF Evaluate
<1> HIDE DEF Values
<1>4. (CHOOSE f : f = Values(f, M1)) = (CHOOSE f : f = Values(f, M2))
  BY <1>1, Zenon
<1> QED  BY <1>2, <1>3, <1>4 DEF SaysTheSame

\* Both crates match the same functions with a portable pattern.
LEMMA PortableMatches ==
  ASSUME NEW a \in Atoms, NEW f, Portable(a, f)
  PROVE  /\ CoreMatchesPattern(a, f) <=> DriverMatchesPattern(a, f)
         /\ Patterns[a].kind # "name"
<1> DEFINE p == Patterns[a]
           q == p.name
<1>1. CASE p.kind = "within"
  BY <1>1 DEF CoreMatchesPattern, DriverMatchesPattern
<1>2. CASE p.kind # "within"
  <2>1. /\ p.kind = "execution" /\ p.anyArgs
        /\ p.vis = "any" \/ (p.vis = "pub" /\ f.vis \in {"pub", ""})
    BY <1>2 DEF Portable
  <2>2. \/ Anything(q)
        \/ ~q.before /\ (q.after => \A i \in 2..Len(f.path) : ~IsPrefix(q.word, f.path[i]))
    BY <1>2 DEF Portable
  <2>3. DriverVisibility(p.vis, f) <=> p.vis \in {"any", f.vis}
    BY <2>1 DEF DriverVisibility
  <2>4. CoreMatchesName(q, f) <=> DriverMatchesName(q, f)
    <3>1. CASE Anything(q)
      BY <3>1 DEF CoreMatchesName, DriverMatchesName
    <3>2. CASE ~Anything(q)
      BY <2>2, <3>2, Zenon DEF CoreMatchesName, DriverMatchesName
    <3> QED  BY <3>1, <3>2
  <2>5. p.kind # "within" /\ p.kind # "name"
    BY <1>2, <2>1
  <2> QED  BY <2>1, <2>3, <2>4, <2>5 DEF CoreMatchesPattern, DriverMatchesPattern
<1> QED  BY <1>1, <1>2

\* So they do with a text of such patterns.
LEMMA MatchersAgree ==
  ASSUME NEW s \in ExprTexts, ~Unspaced(s), ~MixesOperators(s), ~WideBeforeOperator(s), NEW f,
         \A i \in 1..Len(s) : s[i] \in Atoms => Portable(s[i], f)
  PROVE  CoreMatches(s, f) <=> DriverMatches(s, f)
<1> DEFINE A == {a \in Atoms : \E i \in 1..Len(s) : s[i] = a}
           M1 == {a \in Atoms : CoreMatchesPattern(a, f)}
           M2 == {a \in Atoms : DriverMatchesPattern(a, f)}
           e == CoreParse(s)
<1>1. s \in Seq(Tokens)
  BY ExprsAreReadings
<1>2. Plain(s)
  BY PortableMatches DEF Plain, ForBoth
<1>3. DriverParse(s) = e
  BY <1>2, ParsersAgreeOnTexts DEF AgreesOn
<1>4. e \in Seq(NodesOf(A))
  <2>1. A \in SUBSET Atoms
    OBVIOUS
  <2>2. s \in Seq(A \cup Symbols)
    <3>1. \A i \in 1..Len(s) : s[i] \in A \cup Symbols
      BY <1>1 DEF Tokens
    <3> HIDE DEF A
    <3> QED  BY <1>1, <3>1
  <2> HIDE DEF A
  <2> QED  BY <2>1, <2>2, CoreTreeIsOf, Zenon
<1>5. ASSUME NEW n \in NodesOf(A), n \notin Connectives  PROVE n \in M1 <=> n \in M2
  <2>1. CASE n \in A
    BY <2>1, PortableMatches
  <2>2. CASE n \notin A
    <3>1. n = Garbage
      BY <1>5, <2>2 DEF NodesOf
    <3> QED  BY <3>1, PatternAssumption DEF PatternAssumption
  <2> QED  BY <2>1, <2>2
<1> HIDE DEF A, M1, M2, e
<1>6. SaysTheSame(e, M1, M2)
  <2> DEFINE X == NodesOf(A)
  <2>1. DifferNotIn(X, M1, M2) /\ e \in Seq(X)
    BY <1>4, <1>5 DEF DifferNotIn
  <2> HIDE DEF X
  <2> QED  BY <2>1, EvaluateSame, Zenon
<1>7. CoreMatches(s, f) <=> e # Err /\ Evaluate(e, M1)
  BY DEF CoreMatches, M1, e
<1>8. DriverMatches(s, f) <=> e # Err /\ Evaluate(e, M2)
  BY <1>3 DEF DriverMatches, M2
<1> QED  BY <1>6, <1>7, <1>8 DEF SaysTheSame

-----------------------------------------------------------------------------
(* What can be written with texts of the grammar *)

\* A ! before an expression makes one.
NegatableIn(x, S) == Len(x.text) + 1 <= MaxGrammar => \E z \in S : Prefixed(z.text, "!", x.text)

\* A ! before a join is a join, if it can stand before its left side.
LEMMA NegatableJoin ==
  ASSUME NEW x \in Exprs, NEW l \in Exprs, NEW r \in Exprs, NEW ops \in {Ands, Ors}, NEW name,
         JoinOf(x, ops, name, l, r), NEW S \in SUBSET Exprs, NegatableIn(l, S),
         Len(x.text) + 1 <= MaxGrammar
  PROVE  \E y \in S : \E z : JoinOf(z, ops, name, y, r) /\ Fits(z) /\ Prefixed(z.text, "!", x.text)
<1>1. /\ x.text \in Seq(Tokens) /\ l.text \in Seq(Tokens) /\ r.text \in Seq(Tokens)
      /\ Len(x.text) \in Nat /\ Len(l.text) \in Nat /\ Len(r.text) \in Nat
  BY ExprsAreReadings
<1>2. PICK op \in ops : JoinsTwo(x.text, l.text, op, r.text)
  BY <1>1, JoinsAre, Zenon
<1>3. MaxGrammar \in Nat
  BY TextAssumption DEF TextAssumption
<1>4. Len(x.text) = Len(l.text) + 1 + Len(r.text)
  BY <1>2 DEF JoinsTwo, Joins
<1>5. Len(l.text) + 1 <= MaxGrammar
  <2> DEFINE a == Len(l.text)
             b == Len(r.text)
             n == Len(x.text)
  <2>1. a \in Nat /\ b \in Nat /\ n = a + 1 + b /\ n + 1 <= MaxGrammar
    BY <1>1, <1>4
  <2> HIDE DEF a, b, n
  <2>2. a + 1 <= MaxGrammar
    BY <1>3, <2>1
  <2> QED  BY <2>2 DEF a
<1>6. PICK y \in S : Prefixed(y.text, "!", l.text)
  BY <1>5 DEF NegatableIn
<1>7. y \in Exprs /\ y.text \in Seq(Tokens) /\ Len(y.text) \in Nat
  BY ExprsAreReadings
<1>8. PICK z : JoinOf(z, ops, name, y, r) /\ z.text \in Seq(Tokens) /\ Joins(z.text, y.text, op, r.text)
  BY <1>7, MakeJoin, Zenon
<1>9. Prefixed(z.text, "!", x.text)
  <2> DEFINE s == x.text
             u == l.text
             v == r.text
             w == y.text
             t == z.text
             c == "!"
  <2>1. /\ s \in Seq(Tokens) /\ u \in Seq(Tokens) /\ v \in Seq(Tokens) /\ w \in Seq(Tokens)
        /\ t \in Seq(Tokens) /\ Joins(s, u, op, v) /\ Prefixed(w, c, u) /\ Joins(t, w, op, v)
    BY <1>1, <1>2, <1>6, <1>7, <1>8 DEF JoinsTwo
  <2> HIDE DEF s, u, v, w, t, c
  <2>2. Prefixed(t, c, s)
    BY <2>1, PrefixedJoin, Zenon
  <2> QED  BY <2>2 DEF s, t, c
<1>10. Fits(z)
  <2>1. Len(z.text) = Len(x.text) + 1
    BY <1>9 DEF Prefixed
  <2> QED  BY <2>1 DEF Fits
<1> QED  BY <1>8, <1>9, <1>10

\* By induction on the rules: a ! can stand before each expression.
LEMMA Negatable == \A x \in Exprs : NegatableIn(x, Exprs)
<1> DEFINE F == {x \in Factors : NegatableIn(x, Factors)}
           T == {x \in Terms : NegatableIn(x, Terms)}
           E == {x \in Exprs : NegatableIn(x, Exprs)}
<1>1. Factors \subseteq Terms /\ Terms \subseteq Exprs /\ Exprs \subseteq ReadingSet
  BY ExprsAreReadings
<1>2. \A x \in Factors : x \in F
  <2> SUFFICES ASSUME NEW x \in Factors, Len(x.text) + 1 <= MaxGrammar
               PROVE  \E z \in Factors : Prefixed(z.text, "!", x.text)
    BY DEF NegatableIn
  <2> DEFINE z == Reading(<<"!">> \o x.text, Not(x.means))
  <2>1. z = Reading(<<"!">> \o x.text, Not(x.means))
    OBVIOUS
  <2> HIDE DEF z
  <2>2. Negation(z, x) /\ x \in ReadingSet
    BY <1>1, <2>1 DEF Negation
  <2>3. Prefixed(z.text, "!", x.text)
    BY <2>2, FormsAre
  <2>4. Fits(z)
    BY <2>3 DEF Prefixed, Fits
  <2>5. z \in Factors
    BY <2>2, <2>4, RulesApply, Zenon
  <2> QED  BY <2>3, <2>5
<1>3. ASSUME NEW x \in Terms, NEW l \in Factors, NEW r \in Terms, l \in F,
             JoinOf(x, Ands, "and", l, r)
      PROVE  x \in T
  <2> SUFFICES ASSUME Len(x.text) + 1 <= MaxGrammar
               PROVE  \E z \in Terms : Prefixed(z.text, "!", x.text)
    BY DEF NegatableIn
  <2>1. /\ x \in Exprs /\ l \in Exprs /\ r \in Exprs /\ Factors \in SUBSET Exprs
        /\ NegatableIn(l, Factors) /\ Ands \in {Ands, Ors}
    BY <1>1, <1>3
  <2>2. PICK y \in Factors : \E z : /\ JoinOf(z, Ands, "and", y, r) /\ Fits(z)
                                   /\ Prefixed(z.text, "!", x.text)
    BY <1>3, <2>1, NegatableJoin, Zenon
  <2>3. PICK z : JoinOf(z, Ands, "and", y, r) /\ Fits(z) /\ Prefixed(z.text, "!", x.text)
    BY <2>2
  <2>4. z \in Terms
    BY <2>3, RulesApply, Zenon
  <2> QED  BY <2>3, <2>4
<1>4. ASSUME NEW x \in Exprs, NEW l \in Terms, NEW r \in Exprs, l \in T,
             JoinOf(x, Ors, "or", l, r)
      PROVE  x \in E
  <2> SUFFICES ASSUME Len(x.text) + 1 <= MaxGrammar
               PROVE  \E z \in Exprs : Prefixed(z.text, "!", x.text)
    BY DEF NegatableIn
  <2>1. /\ l \in Exprs /\ Terms \in SUBSET Exprs
        /\ NegatableIn(l, Terms) /\ Ors \in {Ands, Ors}
    BY <1>1, <1>4
  <2>2. PICK y \in Terms : \E z : /\ JoinOf(z, Ors, "or", y, r) /\ Fits(z)
                                 /\ Prefixed(z.text, "!", x.text)
    BY <1>4, <2>1, NegatableJoin, Zenon
  <2>3. PICK z : JoinOf(z, Ors, "or", y, r) /\ Fits(z) /\ Prefixed(z.text, "!", x.text)
    BY <2>2
  <2>4. z \in Exprs
    BY <2>3, RulesApply, Zenon
  <2> QED  BY <2>3, <2>4
<1>5. (\A x \in Factors : x \in F => x \in T) /\ (\A x \in Terms : x \in T => x \in E)
  BY <1>1 DEF NegatableIn
<1>6. Closed(F, T, E)
  <2>1. \A x \in Terms, l \in Factors, r \in Terms :
          l \in F /\ r \in T /\ JoinOf(x, Ands, "and", l, r) => x \in T
    BY <1>3
  <2>2. \A x \in Exprs, l \in Terms, r \in Exprs :
          l \in T /\ r \in E /\ JoinOf(x, Ors, "or", l, r) => x \in E
    BY <1>4
  <2> HIDE DEF F, T, E
  <2> QED  BY <1>2, <1>5, <2>1, <2>2, Zenon DEF Closed
<1>7. Exprs \subseteq E
  <2> HIDE DEF F, T, E
  <2> QED  BY <1>6, ReadingsInduction, Zenon
<1> QED  BY <1>7

\* So does an operator between two expressions: it is one of the operators of
\* the left one, of the right one, or the one between their first and last.
JoinableTo(x, op, r, S) ==
  Len(x.text) + 1 + Len(r.text) <= MaxGrammar =>
    \E z \in S : Joins(z.text, x.text, op, r.text)

\* Where a rule of the grammar says so.
LEMMA JoinByRule ==
  /\ \A l \in Factors, r \in Terms, op \in Ands : JoinableTo(l, op, r, Terms)
  /\ \A l \in Terms, r \in Exprs, op \in Ors : JoinableTo(l, op, r, Exprs)
<1>1. Factors \subseteq Exprs /\ Terms \subseteq Exprs
  BY ExprsAreReadings
<1>2. ASSUME NEW l \in Factors, NEW r \in Terms, NEW op \in Ands,
             Len(l.text) + 1 + Len(r.text) <= MaxGrammar
      PROVE  \E z \in Terms : Joins(z.text, l.text, op, r.text)
  <2>1. l \in Exprs /\ r \in Exprs /\ Ands \in {Ands, Ors}
    BY <1>1
  <2>2. PICK z : JoinOf(z, Ands, "and", l, r) /\ z.text \in Seq(Tokens)
                 /\ Joins(z.text, l.text, op, r.text)
    BY <2>1, MakeJoin, Zenon
  <2>3. Fits(z)
    BY <1>2, <2>2 DEF Fits, Joins
  <2>4. z \in Terms
    BY <2>2, <2>3, RulesApply, Zenon
  <2> QED  BY <2>2, <2>4
<1>3. ASSUME NEW l \in Terms, NEW r \in Exprs, NEW op \in Ors,
             Len(l.text) + 1 + Len(r.text) <= MaxGrammar
      PROVE  \E z \in Exprs : Joins(z.text, l.text, op, r.text)
  <2>1. l \in Exprs /\ Ors \in {Ands, Ors}
    BY <1>1
  <2>2. PICK z : JoinOf(z, Ors, "or", l, r) /\ z.text \in Seq(Tokens)
                 /\ Joins(z.text, l.text, op, r.text)
    BY <2>1, MakeJoin, Zenon
  <2>3. Fits(z)
    BY <1>3, <2>2 DEF Fits, Joins
  <2>4. z \in Exprs
    BY <2>2, <2>3, RulesApply, Zenon
  <2> QED  BY <2>2, <2>4
<1> QED  BY <1>2, <1>3 DEF JoinableTo

\* The same of all in a set.
JoinableToAll(t, o, S, S2) == \A y \in S : JoinableTo(t, o, y, S2)
AllJoinableTo(S, o, e, S2) == \A y \in S : JoinableTo(y, o, e, S2)

\* l is t o e, and e can be joined with r: then so can l.
LEMMA JoinRight ==
  ASSUME NEW l \in Exprs, NEW r \in Exprs, NEW t \in Exprs, NEW e \in Exprs, NEW o, NEW op,
         Joins(l.text, t.text, o, e.text), NEW S \in SUBSET Exprs, NEW S2 \in SUBSET Exprs,
         JoinableTo(e, op, r, S), JoinableToAll(t, o, S, S2)
  PROVE  JoinableTo(l, op, r, S2)
<1> SUFFICES ASSUME Len(l.text) + 1 + Len(r.text) <= MaxGrammar
             PROVE  \E z \in S2 : Joins(z.text, l.text, op, r.text)
  BY DEF JoinableTo
<1> DEFINE a == Len(l.text)
           b == Len(r.text)
           c == Len(t.text)
           d == Len(e.text)
<1>1. /\ a \in Nat /\ b \in Nat /\ c \in Nat /\ d \in Nat
      /\ l.text \in Seq(Tokens) /\ r.text \in Seq(Tokens) /\ t.text \in Seq(Tokens)
      /\ e.text \in Seq(Tokens)
  BY ExprsAreReadings
<1>2. MaxGrammar \in Nat
  BY TextAssumption DEF TextAssumption
<1>3. a = c + 1 + d /\ a + 1 + b <= MaxGrammar
  BY DEF Joins
<1>4. Len(e.text) + 1 + Len(r.text) <= MaxGrammar
  <2> HIDE DEF a, b, c, d
  <2>1. d + 1 + b <= MaxGrammar
    BY <1>1, <1>2, <1>3
  <2> QED  BY <2>1 DEF b, d
<1>5. PICK y \in S : Joins(y.text, e.text, op, r.text)
  BY <1>4 DEF JoinableTo
<1>6. Len(y.text) = Len(e.text) + 1 + Len(r.text) /\ y.text \in Seq(Tokens)
  BY <1>5, ExprsAreReadings DEF Joins
<1>7. Len(t.text) + 1 + Len(y.text) <= MaxGrammar
  <2> DEFINE n == Len(y.text)
  <2>1. n = d + 1 + b
    BY <1>6
  <2> HIDE DEF a, b, c, d, n
  <2>2. c + 1 + n <= MaxGrammar
    BY <1>1, <1>2, <1>3, <2>1
  <2> QED  BY <2>2 DEF c, n
<1>8. PICK z \in S2 : Joins(z.text, t.text, o, y.text)
  BY <1>7 DEF JoinableTo, JoinableToAll
<1>9. z.text \in Seq(Tokens)
  BY ExprsAreReadings
<1>10. Joins(z.text, l.text, op, r.text)
  BY <1>1, <1>5, <1>6, <1>8, <1>9, JoinsRight, Zenon
<1> QED  BY <1>10

\* r is t o e, and l can be joined with t: then so can l and r.
LEMMA JoinLeft ==
  ASSUME NEW l \in Exprs, NEW r \in Exprs, NEW t \in Exprs, NEW e \in Exprs, NEW o, NEW op,
         Joins(r.text, t.text, o, e.text), NEW S \in SUBSET Exprs, NEW S2 \in SUBSET Exprs,
         JoinableTo(l, op, t, S), AllJoinableTo(S, o, e, S2)
  PROVE  JoinableTo(l, op, r, S2)
<1> SUFFICES ASSUME Len(l.text) + 1 + Len(r.text) <= MaxGrammar
             PROVE  \E z \in S2 : Joins(z.text, l.text, op, r.text)
  BY DEF JoinableTo
<1> DEFINE a == Len(l.text)
           b == Len(r.text)
           c == Len(t.text)
           d == Len(e.text)
<1>1. /\ a \in Nat /\ b \in Nat /\ c \in Nat /\ d \in Nat
      /\ l.text \in Seq(Tokens) /\ r.text \in Seq(Tokens) /\ t.text \in Seq(Tokens)
      /\ e.text \in Seq(Tokens)
  BY ExprsAreReadings
<1>2. MaxGrammar \in Nat
  BY TextAssumption DEF TextAssumption
<1>3. b = c + 1 + d /\ a + 1 + b <= MaxGrammar
  BY DEF Joins
<1>4. Len(l.text) + 1 + Len(t.text) <= MaxGrammar
  <2> HIDE DEF a, b, c, d
  <2>1. a + 1 + c <= MaxGrammar
    BY <1>1, <1>2, <1>3
  <2> QED  BY <2>1 DEF a, c
<1>5. PICK y \in S : Joins(y.text, l.text, op, t.text)
  BY <1>4 DEF JoinableTo
<1>6. Len(y.text) = Len(l.text) + 1 + Len(t.text) /\ y.text \in Seq(Tokens)
  BY <1>5, ExprsAreReadings DEF Joins
<1>7. Len(y.text) + 1 + Len(e.text) <= MaxGrammar
  <2> DEFINE n == Len(y.text)
  <2>1. n = a + 1 + c
    BY <1>6
  <2> HIDE DEF a, b, c, d, n
  <2>2. n + 1 + d <= MaxGrammar
    BY <1>1, <1>2, <1>3, <2>1
  <2> QED  BY <2>2 DEF d, n
<1>8. PICK z \in S2 : Joins(z.text, y.text, o, e.text)
  BY <1>7 DEF JoinableTo, AllJoinableTo
<1>9. z.text \in Seq(Tokens)
  BY ExprsAreReadings
<1>10. Joins(z.text, l.text, op, r.text)
  BY <1>1, <1>5, <1>6, <1>8, <1>9, JoinsLeft, Zenon
<1> QED  BY <1>10

\* By induction on the left side: || can stand between any two expressions.
LEMMA OrJoins == \A x, r \in Exprs, op \in Ors : JoinableTo(x, op, r, Exprs)
<1> DEFINE Good(x) == \A r \in Exprs, op \in Ors : JoinableTo(x, op, r, Exprs)
           E == {x \in Exprs : Good(x)}
<1>1. Terms \subseteq Exprs /\ Factors \subseteq Terms
  BY ExprsAreReadings
<1>2. \A x \in Terms : x \in E
  BY <1>1, JoinByRule
<1>3. ASSUME NEW x \in Exprs, NEW t \in Terms, NEW e \in Exprs, e \in E, JoinOf(x, Ors, "or", t, e)
      PROVE  x \in E
  <2>1. t \in Exprs /\ x.text \in Seq(Tokens) /\ Ors \in {Ands, Ors}
    BY <1>1, ExprsAreReadings
  <2>2. \E o \in Ors : JoinsTwo(x.text, t.text, o, e.text)
    BY <1>3, <2>1, JoinsAre, Zenon
  <2>3. PICK o \in Ors : Joins(x.text, t.text, o, e.text)
    BY <2>2 DEF JoinsTwo
  <2>4. JoinableToAll(t, o, Exprs, Exprs)
    BY JoinByRule DEF JoinableToAll
  <2>5. ASSUME NEW r \in Exprs, NEW op \in Ors  PROVE JoinableTo(x, op, r, Exprs)
    <3>1. JoinableTo(e, op, r, Exprs) /\ Exprs \in SUBSET Exprs
      BY <1>3
    <3> QED  BY <2>1, <2>3, <2>4, <3>1, JoinRight, Zenon
  <2> QED  BY <2>5
<1>4. Closed(Factors, Terms, E)
  <2>1. \A x \in Exprs, l \in Terms, r \in Exprs :
          l \in Terms /\ r \in E /\ JoinOf(x, Ors, "or", l, r) => x \in E
    BY <1>3
  <2> HIDE DEF E
  <2> QED  BY <1>1, <1>2, <2>1, Zenon DEF Closed
<1>5. Exprs \subseteq E
  <2> HIDE DEF E
  <2> QED  BY <1>4, ReadingsInduction, Zenon
<1> QED  BY <1>5

\* And so can &&.
LEMMA AndJoins == \A x, r \in Exprs, op \in Ands : JoinableTo(x, op, r, Exprs)
<1> DEFINE Good(x) == \A r \in Exprs, op \in Ands : JoinableTo(x, op, r, Exprs)
           F == {x \in Factors : Good(x)}
           T == {x \in Terms : Good(x)}
           E == {x \in Exprs : Good(x)}
<1>1. Factors \subseteq Terms /\ Terms \subseteq Exprs /\ \A x \in Exprs : x.text \in Seq(Tokens)
  BY ExprsAreReadings
<1>2. ASSUME NEW l \in Factors, NEW r \in Exprs, NEW op \in Ands  PROVE JoinableTo(l, op, r, Exprs)
  <2>1. CASE r \in Terms
    <3>1. JoinableTo(l, op, r, Terms)
      BY <2>1, JoinByRule
    <3> QED  BY <1>1, <3>1 DEF JoinableTo
  <2>2. CASE r \notin Terms
    <3>1. PICK t \in Terms, e \in Exprs : JoinOf(r, Ors, "or", t, e)
      BY <2>2, RulesAre
    <3>2. /\ t \in Exprs /\ l \in Exprs /\ r.text \in Seq(Tokens) /\ Ors \in {Ands, Ors}
          /\ Terms \in SUBSET Exprs /\ Exprs \in SUBSET Exprs
      BY <1>1
    <3>3. \E o \in Ors : JoinsTwo(r.text, t.text, o, e.text)
      BY <3>1, <3>2, JoinsAre, Zenon
    <3>4. PICK o \in Ors : Joins(r.text, t.text, o, e.text)
      BY <3>3 DEF JoinsTwo
    <3>5. JoinableTo(l, op, t, Terms) /\ AllJoinableTo(Terms, o, e, Exprs)
      BY JoinByRule DEF AllJoinableTo
    <3> QED  BY <3>2, <3>4, <3>5, JoinLeft, Zenon
  <2> QED  BY <2>1, <2>2
<1>3. \A x \in Factors : x \in F
  BY <1>2
<1>4. ASSUME NEW x \in Exprs, NEW t \in Exprs, NEW e \in Exprs, Good(e), NEW ops \in {Ands, Ors},
             NEW name, JoinOf(x, ops, name, t, e),
             \A o \in ops, y \in Exprs : JoinableTo(t, o, y, Exprs)
      PROVE  Good(x)
  <2>1. x.text \in Seq(Tokens)
    BY <1>1
  <2>2. \E o \in ops : JoinsTwo(x.text, t.text, o, e.text)
    BY <1>4, <2>1, JoinsAre, Zenon
  <2>3. PICK o \in ops : Joins(x.text, t.text, o, e.text)
    BY <2>2 DEF JoinsTwo
  <2>4. ASSUME NEW r \in Exprs, NEW op \in Ands  PROVE JoinableTo(x, op, r, Exprs)
    <3>1. JoinableTo(e, op, r, Exprs) /\ Exprs \in SUBSET Exprs
      BY <1>4
    <3>2. JoinableToAll(t, o, Exprs, Exprs)
      BY <1>4 DEF JoinableToAll
    <3> QED  BY <2>3, <3>1, <3>2, JoinRight, Zenon
  <2> QED  BY <2>4
<1>5. ASSUME NEW x \in Terms, NEW l \in Factors, NEW r \in Terms, r \in T, JoinOf(x, Ands, "and", l, r)
      PROVE  x \in T
  <2>1. x \in Exprs /\ l \in Exprs /\ r \in Exprs /\ Good(r) /\ Ands \in {Ands, Ors}
    BY <1>1, <1>5
  <2>2. \A o \in Ands, y \in Exprs : JoinableTo(l, o, y, Exprs)
    BY <1>2
  <2> HIDE DEF Good
  <2>3. Good(x)
    BY <1>4, <1>5, <2>1, <2>2, Zenon
  <2> QED  BY <2>3
<1>6. ASSUME NEW x \in Exprs, NEW l \in Terms, NEW r \in Exprs, r \in E, JoinOf(x, Ors, "or", l, r)
      PROVE  x \in E
  <2>1. l \in Exprs /\ Good(r) /\ Ors \in {Ands, Ors}
    BY <1>1, <1>6
  <2>2. \A o \in Ors, y \in Exprs : JoinableTo(l, o, y, Exprs)
    BY JoinByRule
  <2> HIDE DEF Good
  <2>3. Good(x)
    BY <1>4, <1>6, <2>1, <2>2, Zenon
  <2> QED  BY <2>3
<1>7. (\A x \in Factors : x \in F => x \in T) /\ (\A x \in Terms : x \in T => x \in E)
  BY <1>1
<1>8. Closed(F, T, E)
  <2>1. \A x \in Terms, l \in Factors, r \in Terms :
          l \in F /\ r \in T /\ JoinOf(x, Ands, "and", l, r) => x \in T
    BY <1>5
  <2>2. \A x \in Exprs, l \in Terms, r \in Exprs :
          l \in T /\ r \in E /\ JoinOf(x, Ors, "or", l, r) => x \in E
    BY <1>6
  <2> HIDE DEF F, T, E
  <2> QED  BY <1>3, <1>7, <2>1, <2>2, Zenon DEF Closed
<1>9. Exprs \subseteq E
  <2> HIDE DEF F, T, E
  <2> QED  BY <1>8, ReadingsInduction, Zenon
<1> QED  BY <1>9

\* Texts of the grammar are closed under what its rules say of its readings.
LEMMA TextOfAtom == \A a \in Atoms : <<a>> \in ExprTexts
<1> SUFFICES ASSUME NEW a \in Atoms  PROVE <<a>> \in ExprTexts
  OBVIOUS
<1> DEFINE z == Reading(<<a>>, Pattern(a))
<1>1. Atomic(z) /\ z.text = <<a>>
  BY ReadingIs DEF Atomic
<1> HIDE DEF z
<1>2. z \in Exprs
  BY <1>1, RulesApply, ExprsAreReadings
<1> QED  BY <1>1, <1>2 DEF ExprTexts

\* ! before a text of the grammar.
LEMMA TextOfNegation ==
  ASSUME NEW s \in Seq(Tokens), NEW u \in ExprTexts, Prefixed(s, "!", u), Len(s) <= MaxGrammar
  PROVE  s \in ExprTexts
<1>1. PICK x \in Exprs : u = x.text
  BY DEF ExprTexts
<1>2. Len(x.text) + 1 <= MaxGrammar
  BY <1>1 DEF Prefixed
<1>3. PICK z \in Exprs : Prefixed(z.text, "!", u)
  BY <1>1, <1>2, Negatable DEF NegatableIn
<1>4. z.text \in Seq(Tokens) /\ u \in Seq(Tokens)
  BY ExprsAreReadings
<1>5. s = z.text
  BY <1>3, <1>4, SamePrefixed
<1> QED  BY <1>5 DEF ExprTexts

\* Brackets around one.
LEMMA TextOfBrackets ==
  ASSUME NEW s \in Seq(Tokens), NEW u \in ExprTexts, Encloses(s, "(", u, ")"), Len(s) <= MaxGrammar
  PROVE  s \in ExprTexts
<1>1. PICK x \in Exprs : u = x.text
  BY DEF ExprTexts
<1> DEFINE z == Reading(<<"(">> \o x.text \o <<")">>, x.means)
<1>2. z = Reading(<<"(">> \o x.text \o <<")">>, x.means)
  OBVIOUS
<1> HIDE DEF z
<1>3. Brackets(z, x) /\ x \in ReadingSet
  BY <1>2, ExprsAreReadings DEF Brackets
<1>4. Encloses(z.text, "(", u, ")")
  BY <1>1, <1>3, FormsAre
<1>5. Fits(z)
  BY <1>4 DEF Encloses, Fits
<1>6. z \in Exprs
  BY <1>3, <1>5, RulesApply, ExprsAreReadings
<1>7. z.text \in Seq(Tokens) /\ u \in Seq(Tokens)
  BY <1>6, ExprsAreReadings
<1>8. s = z.text
  BY <1>4, <1>7, SameEncloses
<1> QED  BY <1>6, <1>8 DEF ExprTexts

\* An operator between two.
LEMMA TextOfJoin ==
  ASSUME NEW s \in Seq(Tokens), NEW l \in ExprTexts, NEW r \in ExprTexts, NEW op \in Operators,
         Joins(s, l, op, r), Len(s) <= MaxGrammar
  PROVE  s \in ExprTexts
<1>1. PICK x \in Exprs : l = x.text
  BY DEF ExprTexts
<1>2. PICK y \in Exprs : r = y.text
  BY DEF ExprTexts
<1>3. JoinableTo(x, op, y, Exprs)
  BY AndJoins, OrJoins DEF Operators
<1>4. Len(x.text) + 1 + Len(y.text) <= MaxGrammar
  BY <1>1, <1>2 DEF Joins
<1>5. PICK z \in Exprs : Joins(z.text, l, op, r)
  BY <1>1, <1>2, <1>3, <1>4 DEF JoinableTo
<1>6. z.text \in Seq(Tokens) /\ l \in Seq(Tokens) /\ r \in Seq(Tokens)
  BY ExprsAreReadings
<1>7. s = z.text
  BY <1>5, <1>6, SameJoin
<1> QED  BY <1>7 DEF ExprTexts

-----------------------------------------------------------------------------
(* What the parsers accept *)

\* The empty text is not accepted by the driver either.
LEMMA DriverOfNothing == DriverParse(<< >>) = Err
<1> DEFINE s == << >>
<1>1. s \in Seq(Tokens) /\ FALSE \in BOOLEAN
  OBVIOUS
<1> HIDE DEF s
<1>2. PICK parse : ReadsLikeDriver(parse)
  BY DriverParseIs
<1>3. DriverParse(s) = DriverStep(parse, s, FALSE)
  BY <1>1, <1>2 DEF ReadsLikeDriver
<1>4. s = << >>
  BY DEF s
<1>5. DriverStep(parse, s, FALSE) = Err
  BY <1>4, Zenon DEF DriverStep
<1> QED  BY <1>3, <1>4, <1>5

\* Matching brackets, and an operator between any two operands.
Tidy(s) == Balanced(s) /\ ~SideBySide(s) /\ Len(s) <= MaxGrammar

\* RightOf an operand outside of brackets stands an operator.
LEMMA AfterOperand ==
  ASSUME NEW s \in Seq(Tokens), Tidy(s), NEW i \in 1..Len(s), i < Len(s),
         s[i] \in Atoms \cup {")"}, Depth(s)[i] = 0
  PROVE  s[i + 1] \in Operators /\ i + 1 \in Outside(s, Operators)
<1> DEFINE d == Depth(s)
           n == Len(s)
           k == i + 1
<1>1. i \in 1..n /\ n \in Nat /\ i < n
  OBVIOUS
<1>2. d[0] = 0 /\ \A j \in 1..n : d[j] = d[j - 1] + Turn(s[j])
  BY DepthIs, Zenon
<1>3. Balanced(s) /\ ~SideBySide(s)
  BY DEF Tidy
<1>4. \A j \in 1..n : d[j] >= 0
  BY <1>3 DEF Balanced
<1> HIDE DEF n
<1>5. k \in 1..n /\ k - 1 = i /\ i \in 1..(n - 1)
  BY <1>1
<1>6. s[k] \notin Atoms \cup {"(", "!"}
  BY <1>3, <1>5 DEF SideBySide, n
<1>7. s[k] # ")"
  <2>1. d[k] = Turn(s[k]) /\ d[k] >= 0
    <3>1. d[k] = d[k - 1] + Turn(s[k]) /\ d[k] >= 0
      BY <1>2, <1>4, <1>5
    <3>2. Turn(s[k]) \in Int
      BY TurnIsSmall
    <3> HIDE DEF d, k
    <3>3. d[k - 1] = 0
      BY <1>5 DEF d
    <3> QED  BY <3>1, <3>2, <3>3
  <2>2. Turn(")") = -1
    BY TokensAre
  <2> QED  BY <2>1, <2>2
<1>8. s[k] \in Tokens
  BY <1>5 DEF n
<1>9. s[k] \in Operators
  BY <1>6, <1>7, <1>8, TokensAre
<1>10. k \in Outside(s, Operators)
  BY <1>5, <1>9 DEF Outside, n
<1> QED  BY <1>9, <1>10

\* A text of several tokens whose first is a pattern has an operator behind it.
LEMMA AfterAtom ==
  ASSUME NEW s \in Seq(Tokens), Tidy(s), s # << >>, s[1] \in Atoms, Len(s) # 1
  PROVE  s[2] \in Operators /\ 2 \in Outside(s, Operators) /\ Len(s) >= 2
<1>1. Len(s) \in Nat /\ Len(s) >= 1 /\ 1 \in 1..Len(s)
  BY TailIs
<1>2. Depth(s)[0] = 0 /\ Depth(s)[1] = Depth(s)[1 - 1] + Turn(s[1])
  BY <1>1, DepthIs
<1>3. Turn(s[1]) = 0 /\ 1 - 1 = 0 /\ 1 + 1 = 2
  BY TokensAre
<1>4. Depth(s)[1] = 0
  BY <1>2, <1>3
<1>5. 1 < Len(s) /\ Len(s) >= 2
  <2> DEFINE n == Len(s)
  <2>1. n \in Nat /\ n >= 1 /\ n # 1
    BY <1>1
  <2> HIDE DEF n
  <2>2. 1 < n /\ n >= 2
    BY <2>1
  <2> QED  BY <2>2 DEF n
<1> QED  BY <1>1, <1>3, <1>4, <1>5, AfterOperand

\* A bracket that opens a text without operators outside of brackets is closed
\* at its end.
LEMMA OuterBrackets ==
  ASSUME NEW s \in Seq(Tokens), Tidy(s), s # << >>, s[1] = "(", Outside(s, Operators) = {}
  PROVE  Len(s) >= 2 /\ s[Len(s)] = ")" /\ Balanced(Inside(s))
<1> DEFINE n == Len(s)
           d == Depth(s)
           P == {i \in 1..n : d[i] = 0}
           j == Min(P)
<1>1. n \in Nat /\ n >= 1
  BY TailIs
<1>2. d \in [0..n -> Int] /\ d[0] = 0 /\ \A i \in 1..n : d[i] = d[i - 1] + Turn(s[i])
  BY DepthIs, Zenon
<1>3. Balanced(s)
  BY DEF Tidy
<1>4. d[n] = 0 /\ \A i \in 1..n : d[i] >= 0
  BY <1>3 DEF Balanced
<1> HIDE DEF n, d
<1>5. P \in SUBSET Nat /\ n \in P
  BY <1>1, <1>4
<1>6. \A i \in 1..n : i \in P <=> d[i] = 0
  OBVIOUS
<1> HIDE DEF P
<1>7. j \in P /\ \A i \in P : j <= i
  BY <1>5, MinIs
<1>8. j \in 1..n /\ d[j] = 0
  <2>1. P \subseteq 1..n
    BY DEF P
  <2> QED  BY <1>6, <1>7, <2>1
<1> HIDE DEF j
<1>9. Turn("(") = 1 /\ Turn(")") = -1
  BY TokensAre
<1>10. d[1] = 1
  <2>1. d[1] = d[1 - 1] + Turn(s[1]) /\ 1 - 1 = 0
    BY <1>1, <1>2
  <2> QED  BY <1>2, <1>9, <2>1
<1>11. j - 1 \in 1..n /\ d[j - 1] > 0
  <2>1. j # 1
    BY <1>8, <1>10
  <2>2. j - 1 \in 1..n /\ j - 1 < j
    BY <1>1, <1>8, <2>1
  <2>3. j - 1 \notin P
    BY <1>1, <1>7, <1>8, <2>2
  <2>4. d[j - 1] \in Int /\ d[j - 1] # 0 /\ d[j - 1] >= 0
    BY <1>1, <1>2, <1>4, <1>6, <2>2, <2>3
  <2> QED  BY <2>2, <2>4
<1>12. s[j] = ")"
  <2>1. d[j] = d[j - 1] + Turn(s[j]) /\ d[j - 1] \in Int /\ Turn(s[j]) \in Int
    BY <1>1, <1>2, <1>8, <1>11, TurnIsSmall
  <2>2. Turn(s[j]) < 0
    BY <1>8, <1>11, <2>1
  <2> QED  BY <2>2 DEF Turn
<1>13. j = n
  <2> SUFFICES ASSUME j < n  PROVE FALSE
    BY <1>1, <1>8
  <2>1. s[j] \in Atoms \cup {")"} /\ j \in 1..Len(s) /\ j < Len(s) /\ Depth(s)[j] = 0
    BY <1>8, <1>12 DEF n, d
  <2>2. j + 1 \in Outside(s, Operators)
    BY <2>1, AfterOperand
  <2> QED  BY <2>2
<1>14. n >= 2
  BY <1>1, <1>11, <1>13
<1> DEFINE u == Inside(s)
           du == Depth(u)
           m == Len(u)
<1>15. u \in Seq(Tokens) /\ m = n - 2 /\ PartOf(u, s, 1)
  <2>1. Len(s) >= 2
    BY <1>14 DEF n
  <2> QED  BY <2>1, InsideIs DEF n
<1>16. RaisedDepths(u, s, Turn(s[1]))
  <2>1. Len(s) > 0
    BY <1>14 DEF n
  <2> QED  BY <1>15, <2>1, DepthFollowed, Zenon
<1>17. \A i \in 0..m : d[1 + i] = 1 + du[i]
  BY <1>9, <1>16 DEF RaisedDepths, d
<1>18. du \in [0..m -> Int]
  BY <1>15, DepthIs
<1> HIDE DEF u, du, m
<1>19. ASSUME NEW i \in 0..m  PROVE du[i] >= 0
  <2>1. 1 + i \in 1..n /\ 1 + i < n /\ i \in 0..m
    BY <1>1, <1>14, <1>15
  <2>2. 1 + i \notin P
    BY <1>1, <1>7, <1>13, <2>1
  <2>3. d[1 + i] >= 0 /\ d[1 + i] # 0
    BY <1>4, <1>6, <2>1, <2>2
  <2>4. d[1 + i] = 1 + du[i] /\ du[i] \in Int
    BY <1>17, <1>18, <2>1
  <2> QED  BY <2>3, <2>4
<1>20. du[m] = 0
  <2>1. m \in 0..m /\ 1 + m = n - 1 /\ n - 1 \in 0..n /\ n \in 1..n
    BY <1>1, <1>14, <1>15
  <2>2. d[n - 1] = 1 + du[m] /\ du[m] \in Int
    BY <1>17, <1>18, <2>1
  <2>3. d[n] = d[n - 1] + Turn(s[n]) /\ Turn(s[n]) = -1
    BY <1>2, <1>9, <1>12, <1>13, <2>1
  <2> QED  BY <1>4, <2>2, <2>3
<1>21. Balanced(u)
  <2>1. \A i \in 1..m : i \in 0..m
    OBVIOUS
  <2> QED  BY <1>19, <1>20, <2>1 DEF Balanced, m, du
<1> QED  BY <1>12, <1>13, <1>14, <1>21 DEF n, u

\* The two sides of an operator outside of brackets.
LEMMA CutTidy ==
  ASSUME NEW s \in Seq(Tokens), Tidy(s), NEW ts \in SUBSET Operators, NEW i \in Outside(s, ts)
  PROVE  /\ LeftOf(s, i) \in Seq(Tokens) /\ RightOf(s, i) \in Seq(Tokens) /\ s[i] \in Operators
         /\ Joins(s, LeftOf(s, i), s[i], RightOf(s, i))
         /\ Tidy(LeftOf(s, i)) /\ Tidy(RightOf(s, i))
         /\ Len(LeftOf(s, i)) < Len(s) /\ Len(RightOf(s, i)) < Len(s)
         /\ ~Unspaced(s) => ~Unspaced(LeftOf(s, i)) /\ ~Unspaced(RightOf(s, i))
<1> DEFINE l == LeftOf(s, i)
           r == RightOf(s, i)
           op == s[i]
<1>1. i \in 1..Len(s) /\ op \in ts /\ Depth(s)[i - 1] = 0
  BY DEF Outside
<1>2. /\ l \in Seq(Tokens) /\ Len(l) = i - 1 /\ r \in Seq(Tokens) /\ Len(r) = Len(s) - i
      /\ Joins(s, l, op, r)
  BY <1>1, CutIs
<1>3. op \in Operators /\ Turn(op) = 0 /\ Balanced(s) /\ ~SideBySide(s) /\ Len(s) <= MaxGrammar
  BY <1>1, TokensAre DEF Tidy
<1> HIDE DEF l, r, op
<1>4. Balanced(l) /\ Balanced(r)
  <2>1. Depth(s)[Len(l)] = 0
    BY <1>1, <1>2
  <2> QED  BY <1>2, <1>3, <2>1, JoinBalanced, Zenon
<1>5. PartOf(l, s, 0) /\ PartOf(r, s, Len(l) + 1)
  BY <1>2 DEF Joins
<1>6. /\ ~SideBySide(l) /\ ~SideBySide(r)
      /\ ~Unspaced(s) => ~Unspaced(l) /\ ~Unspaced(r)
  BY <1>2, <1>3, <1>5, PartInherits
<1>7. Len(l) < Len(s) /\ Len(r) < Len(s) /\ Len(l) <= MaxGrammar /\ Len(r) <= MaxGrammar
  <2>1. Len(s) \in Nat /\ i \in 1..Len(s) /\ MaxGrammar \in Nat
    BY <1>1, TextAssumption DEF TextAssumption
  <2> DEFINE n == Len(s)
             a == Len(l)
             b == Len(r)
  <2>2. a = i - 1 /\ b = n - i /\ n \in Nat /\ i \in 1..n /\ n <= MaxGrammar
    BY <1>2, <1>3, <2>1
  <2> HIDE DEF n, a, b
  <2>3. a < n /\ b < n /\ a <= MaxGrammar /\ b <= MaxGrammar
    BY <2>1, <2>2
  <2> QED  BY <2>3 DEF n, a, b
<1> QED  BY <1>2, <1>3, <1>4, <1>6, <1>7 DEF l, r, op, Tidy

Accepted(s) == (CoreParse(s) # Err /\ ~Unspaced(s)) \/ DriverParse(s) # Err

\* The empty text is not accepted.
LEMMA NothingAccepted == ~Accepted(<< >>)
BY CoreOfNothing, DriverOfNothing DEF Accepted

\* A parser that finds no operator outside of brackets and no brackets wants
\* one pattern.
LEMMA AcceptedLeaf ==
  ASSUME NEW s \in Seq(Tokens), Tidy(s), s # << >>, s[1] \in Atoms, Len(s) # 1
  PROVE  /\ Outside(s, Ands) # {} \/ Outside(s, Ors) # {}
         /\ EndsClosed(s) /\ ~Unspaced(s) =>
              CoreOperators(s, " || ") # {} \/ CoreOperators(s, " && ") # {}
<1>1. s[2] \in Operators /\ 2 \in Outside(s, Operators) /\ Len(s) >= 2
  BY AfterAtom
<1>2. 2 \in Outside(s, Ands) \/ 2 \in Outside(s, Ors)
  BY <1>1 DEF Outside, Operators
<1>3. ASSUME EndsClosed(s), ~Unspaced(s)
      PROVE  CoreOperators(s, " || ") # {} \/ CoreOperators(s, " && ") # {}
  <2>1. 2 \in 1..Len(s) /\ Depth(s)[2 - 1] = 0
    BY <1>1 DEF Outside
  <2>2. s[2] \in {" && ", " || "}
    <3>1. s[2] \notin {"&&", "||"}
      BY <1>3, <2>1 DEF Unspaced
    <3> QED  BY <1>1, <3>1 DEF Operators, Ands, Ors
  <2>3. Len(s) # 2
    <3>1. s[Len(s)] \in Atoms \cup {")"}
      BY <1>3 DEF EndsClosed, Last
    <3> QED  BY <1>1, <3>1, TokensAre
  <2>4. 2 \in Outside(s, {s[2]}) \ {1, Len(s)}
    BY <2>1, <2>3 DEF Outside
  <2>5. 2 \in CoreOperators(s, s[2])
    BY <2>4 DEF CoreOperators
  <2> QED  BY <2>2, <2>5
<1> QED  BY <1>2, <1>3

IsText(s) == Tidy(s) /\ Accepted(s) => s \in ExprTexts

\* If both sides of an operator are accepted, and so are in the grammar, the text is in it.
LEMMA AcceptedJoin ==
  ASSUME NEW s \in Seq(Tokens), Tidy(s), NEW ts \in SUBSET Operators, NEW i \in Outside(s, ts),
         Accepted(LeftOf(s, i)), Accepted(RightOf(s, i)),
         \A u \in Seq(Tokens) : Len(u) < Len(s) => IsText(u)
  PROVE  s \in ExprTexts
<1> DEFINE l == LeftOf(s, i)
           r == RightOf(s, i)
           op == s[i]
<1>1. /\ l \in Seq(Tokens) /\ r \in Seq(Tokens) /\ op \in Operators /\ Joins(s, l, op, r)
      /\ Tidy(l) /\ Tidy(r) /\ Len(l) < Len(s) /\ Len(r) < Len(s)
  BY CutTidy
<1>2. l \in ExprTexts /\ r \in ExprTexts
  BY <1>1 DEF IsText
<1>3. Len(s) <= MaxGrammar
  BY DEF Tidy
<1> HIDE DEF l, r, op
<1> QED  BY <1>1, <1>2, <1>3, TextOfJoin

\* The same for what is behind a !.
LEMMA AcceptedNegation ==
  ASSUME NEW s \in Seq(Tokens), Tidy(s), s # << >>, s[1] = "!", Accepted(Tail(s)),
         \A u \in Seq(Tokens) : Len(u) < Len(s) => IsText(u)
  PROVE  s \in ExprTexts
<1> DEFINE u == Tail(s)
           c == "!"
<1>1. u \in Seq(Tokens) /\ Len(u) = Len(s) - 1 /\ Len(s) \in Nat /\ Prefixed(s, c, u)
  BY TailIs
<1>2. Turn(c) = 0 /\ Balanced(s) /\ ~SideBySide(s) /\ Len(s) <= MaxGrammar
  BY TokensAre DEF Tidy
<1> HIDE DEF u
<1>3. Len(u) < Len(s) /\ Len(u) <= MaxGrammar
  <2> DEFINE n == Len(s)
             m == Len(u)
  <2>1. MaxGrammar \in Nat /\ n \in Nat /\ m = n - 1 /\ n <= MaxGrammar
    BY <1>1, <1>2, TextAssumption DEF TextAssumption
  <2> HIDE DEF n, m
  <2>2. m < n /\ m <= MaxGrammar
    BY <2>1
  <2> QED  BY <2>2 DEF n, m
<1>4. Balanced(u)
  <2> HIDE DEF c
  <2>1. Balanced(s) <=> Balanced(u)
    BY <1>1, <1>2, FollowedBalanced, Zenon
  <2> QED  BY <1>2, <2>1
<1>5. ~SideBySide(u)
  BY <1>1, <1>2, PartInherits DEF Prefixed
<1>6. u \in ExprTexts
  BY <1>1, <1>3, <1>4, <1>5 DEF IsText, Tidy, u
<1> QED  BY <1>1, <1>2, <1>6, TextOfNegation

\* And for what is between brackets.
LEMMA AcceptedBrackets ==
  ASSUME NEW s \in Seq(Tokens), Tidy(s), Len(s) >= 2, s[1] = "(", s[Len(s)] = ")",
         Balanced(Inside(s)), Accepted(Inside(s)),
         \A u \in Seq(Tokens) : Len(u) < Len(s) => IsText(u)
  PROVE  s \in ExprTexts
<1> DEFINE u == Inside(s)
<1>1. u \in Seq(Tokens) /\ Len(u) = Len(s) - 2 /\ Len(s) \in Nat /\ PartOf(u, s, 1)
  BY InsideIs
<1>2. ~SideBySide(s) /\ Len(s) <= MaxGrammar
  BY DEF Tidy
<1> HIDE DEF u
<1>3. Len(u) < Len(s) /\ Len(u) <= MaxGrammar /\ Len(s) = Len(u) + 2
  <2> DEFINE n == Len(s)
             m == Len(u)
  <2>1. MaxGrammar \in Nat /\ n \in Nat /\ m = n - 2 /\ n <= MaxGrammar
    BY <1>1, <1>2, TextAssumption DEF TextAssumption
  <2> HIDE DEF n, m
  <2>2. m < n /\ m <= MaxGrammar /\ n = m + 2
    BY <2>1
  <2> QED  BY <2>2 DEF n, m
<1>4. ~SideBySide(u)
  BY <1>1, <1>2, PartInherits
<1>5. u \in ExprTexts
  BY <1>1, <1>3, <1>4 DEF IsText, Tidy, u
<1>6. Encloses(s, "(", u, ")")
  BY <1>1, <1>3 DEF Encloses
<1> QED  BY <1>2, <1>5, <1>6, TextOfBrackets

-----------------------------------------------------------------------------
(* What an early cut leaves of the left side *)

\* More brackets are opened than closed, an operator stands between any two operands.
Open(s) ==
  /\ Depth(s)[Len(s)] >= 1 /\ \A i \in 1..Len(s) : Depth(s)[i] >= 0
  /\ ~SideBySide(s) /\ ~Unspaced(s)

\* The end of a text that begins outside of brackets.
LEMMA OpenEnd ==
  ASSUME NEW s \in Seq(Tokens), NEW u \in Seq(Tokens), NEW a,
         PartOf(u, s, a), Len(s) = a + Len(u), u # << >>
  PROVE  /\ EndsClosed(u) => EndsClosed(s)
         /\ Open(s) /\ Depth(s)[a] = 0 => Open(u)
<1> DEFINE n == Len(s)
           m == Len(u)
           d == Depth(s)
           du == Depth(u)
<1>1. a \in Nat /\ m \in Nat /\ n = a + m /\ \A i \in 1..m : u[i] = s[a + i]
  BY DEF PartOf
<1>2. m \in 1..m
  <2>1. m # 0
    OBVIOUS
  <2> HIDE DEF m
  <2> QED  BY <1>1, <2>1
<1>3. Last(s) = Last(u)
  BY <1>1, <1>2 DEF Last
<1>4. ASSUME Open(s), d[a] = 0  PROVE Open(u)
  <2>1. ~SideBySide(u) /\ ~Unspaced(u)
    BY <1>4, PartInherits DEF Open
  <2>2. \A i \in 0..m : d[a + i] = d[a] + du[i]
    <3>1. DepthsFrom(u, s, a)
      BY DepthOfPart, Zenon
    <3> QED  BY <3>1, Zenon DEF DepthsFrom
  <2>3. d[n] >= 1 /\ \A i \in 1..n : d[i] >= 0
    BY <1>4 DEF Open
  <2>4. du \in [0..m -> Int]
    BY DepthIs
  <2> HIDE DEF n, m, d, du
  <2>5. ASSUME NEW i \in 1..m  PROVE du[i] = d[a + i] /\ a + i \in 1..n
    <3>1. i \in 0..m /\ a + i \in 1..n
      BY <1>1
    <3>2. du[i] \in Int
      BY <2>4, <3>1
    <3> QED  BY <1>4, <2>2, <3>1, <3>2
  <2>6. du[m] >= 1 /\ \A i \in 1..m : du[i] >= 0
    BY <1>1, <1>2, <2>3, <2>5
  <2> QED  BY <2>1, <2>6 DEF Open, m, du
<1> QED  BY <1>3, <1>4 DEF EndsClosed, d

\* What stands right of an operator outside of brackets is such an end.
LEMMA RightEnd ==
  ASSUME NEW s \in Seq(Tokens), NEW i \in 1..Len(s), s[i] \in Operators, Depth(s)[i - 1] = 0
  PROVE  /\ RightOf(s, i) \in Seq(Tokens) /\ PartOf(RightOf(s, i), s, i)
         /\ Len(s) = i + Len(RightOf(s, i)) /\ Depth(s)[i] = 0
<1> DEFINE n == Len(s)
           r == RightOf(s, i)
           m == Len(r)
<1>1. r \in Seq(Tokens) /\ m = n - i /\ PartOf(r, s, i) /\ n \in Nat
  <2>1. /\ SubSeq(s, i + 1, Len(s)) \in Seq(Tokens) /\ Len(SubSeq(s, i + 1, Len(s))) = Len(s) - i
        /\ PartOf(SubSeq(s, i + 1, Len(s)), s, i)
    BY SplitIs, Zenon
  <2>2. Len(s) \in Nat
    OBVIOUS
  <2> QED  BY <2>1, <2>2, Zenon DEF RightOf
<1>2. n = i + m
  <2> HIDE DEF n, m
  <2> QED  BY <1>1
<1>3. Turn(s[i]) = 0
  BY TokensAre
<1>4. Depth(s)[i] = Depth(s)[i - 1] + Turn(s[i])
  BY DepthIs
<1> QED  BY <1>1, <1>2, <1>3, <1>4

\* A pattern at the front of an open text has an operator with spaces behind it.
LEMMA OpenLeaf ==
  ASSUME NEW s \in Seq(Tokens), s # << >>, Open(s), s[1] \in Atoms
  PROVE  CoreOperators(s, " || ") # {} \/ CoreOperators(s, " && ") # {}
<1> DEFINE n == Len(s)
           d == Depth(s)
<1>1. n \in Nat /\ n >= 1
  BY TailIs
<1>2. d[0] = 0 /\ \A i \in 1..n : d[i] = d[i - 1] + Turn(s[i]) /\ Turn(s[i]) \in Int
  BY DepthIs, TurnIsSmall
<1>3. d[n] >= 1 /\ \A i \in 1..n : d[i] >= 0
  BY DEF Open
<1>4. Turn(s[1]) = 0 /\ Turn(")") = -1
  BY TokensAre
<1> HIDE DEF n, d
<1>5. d[1] = 0
  <2>1. 1 \in 1..n /\ 1 - 1 = 0
    BY <1>1
  <2>2. d[1] = d[0] + Turn(s[1])
    BY <1>2, <2>1
  <2> QED  BY <1>2, <1>4, <2>2
<1>6. n >= 2
  BY <1>1, <1>3, <1>5
<1>7. 1 \in 1..(n - 1) /\ 2 \in 1..n /\ 2 - 1 = 1 /\ 1 + 1 = 2
  BY <1>1, <1>6
<1>8. d[2] = d[1] + Turn(s[2]) /\ Turn(s[2]) \in Int /\ d[2] >= 0
  BY <1>2, <1>3, <1>7
<1>9. s[2] # ")"
  BY <1>4, <1>5, <1>8
<1>10. s[2] \notin Atoms \cup {"(", "!"} /\ s[2] \notin {"&&", "||"}
  BY <1>7 DEF Open, SideBySide, Unspaced, n
<1>11. s[2] \in {" && ", " || "}
  <2>1. s[2] \in Tokens
    BY <1>7 DEF n
  <2> QED  BY <1>9, <1>10, <2>1, TokensAre DEF Operators, Ands, Ors
<1>12. n # 2
  <2>1. Turn(s[2]) = 0
    BY <1>11, TokensAre DEF Operators, Ands, Ors
  <2> QED  BY <1>3, <1>5, <1>8, <2>1
<1>13. 2 \in CoreOperators(s, s[2])
  <2>1. 2 \in 1..Len(s) /\ Depth(s)[2 - 1] = 0 /\ 2 # 1 /\ 2 # Len(s)
    BY <1>5, <1>7, <1>12 DEF n, d
  <2> QED  BY <2>1 DEF CoreOperators, Outside
<1> QED  BY <1>11, <1>13

\* What aspect-core accepts ends with a closing bracket, and closes each that opens.
CloseAll(s) == CoreParse(s) # Err => EndsClosed(s) /\ ~Open(s)

LEMMA CoreCloses == \A s \in Seq(Tokens) : CloseAll(s)
<1> DEFINE S == Seq(Tokens)
           G == {s \in S : CloseAll(s)}
           size == [s \in S |-> Len(s)]
<1>1. \A s \in S : Len(s) \in Nat
  OBVIOUS
<1>2. ASSUME NEW s \in S, \A u \in S : Len(u) < Len(s) => CloseAll(u)  PROVE CloseAll(s)
  <2> SUFFICES ASSUME CoreParse(s) # Err  PROVE EndsClosed(s) /\ ~Open(s)
    BY DEF CloseAll
  <2>1. s # << >>
    BY CoreOfNothing
  <2>2. /\ Len(s) \in Nat /\ Len(s) >= 1 /\ Head(s) = s[1] /\ Tail(s) \in S
        /\ Len(Tail(s)) = Len(s) - 1 /\ Prefixed(s, s[1], Tail(s))
    BY <2>1, TailIs
  <2>3. ASSUME NEW u \in S, NEW a \in 1..Len(s), PartOf(u, s, a), Len(s) = a + Len(u),
               CoreParse(u) # Err, Depth(s)[a] = 0
        PROVE  EndsClosed(s) /\ ~Open(s)
    <3>1. u # << >>
      BY <2>3, CoreOfNothing
    <3>2. Len(u) < Len(s)
      <4> DEFINE n == Len(s)
                 m == Len(u)
      <4>1. n \in Nat /\ m \in Nat /\ a \in 1..n /\ n = a + m
        BY <2>2, <2>3
      <4> HIDE DEF n, m
      <4>2. m < n
        BY <4>1
      <4> QED  BY <4>2 DEF n, m
    <3>3. EndsClosed(u) /\ ~Open(u)
      BY <1>2, <2>3, <3>2 DEF CloseAll
    <3> QED  BY <2>3, <3>1, <3>3, OpenEnd
  <2>4. ASSUME StripOuterParens(s)  PROVE EndsClosed(s) /\ ~Open(s)
    <3>1. Len(s) >= 2 /\ s[1] = "(" /\ s[Len(s)] = ")" /\ Balanced(Inside(s))
      BY <2>2, <2>4 DEF StripOuterParens, BracketsAtBothEnds, Last
    <3>2. /\ Inside(s) \in Seq(Tokens) /\ Len(Inside(s)) = Len(s) - 2 /\ PartOf(Inside(s), s, 1)
      BY <3>1, InsideIs
    <3>3. Len(s) = Len(Inside(s)) + 2
      <4> DEFINE n == Len(s)
                 m == Len(Inside(s))
      <4>1. n \in Nat /\ m = n - 2
        BY <2>2, <3>2
      <4> HIDE DEF n, m
      <4>2. n = m + 2
        BY <4>1
      <4> QED  BY <4>2 DEF n, m
    <3>4. Encloses(s, "(", Inside(s), ")")
      BY <3>1, <3>2, <3>3 DEF Encloses
    <3>5. Balanced(s)
      BY <3>1, <3>2, <3>4, EnclosedBalanced
    <3>6. ~Open(s)
      BY <3>5 DEF Balanced, Open
    <3> QED  BY <3>1, <3>6 DEF EndsClosed, Last
  <2>5. ASSUME ~StripOuterParens(s), s[1] = "!"  PROVE EndsClosed(s) /\ ~Open(s)
    <3>1. CoreParse(s) = Not(CoreParse(Tail(s)))
      BY <2>1, <2>2, <2>5, CoreRules
    <3>2. CoreParse(Tail(s)) # Err
      BY <3>1 DEF Not
    <3>3. 1 \in 1..Len(s) /\ PartOf(Tail(s), s, 1) /\ Len(s) = 1 + Len(Tail(s))
      BY <2>2 DEF Prefixed
    <3>4. Depth(s)[1] = 0
      <4>1. Depth(s)[1] = Depth(s)[1 - 1] + Turn(s[1]) /\ Depth(s)[0] = 0 /\ 1 - 1 = 0
        BY <3>3, DepthIs
      <4>2. Turn(s[1]) = 0
        BY <2>5, TokensAre
      <4> QED  BY <4>1, <4>2
    <3> QED  BY <2>2, <2>3, <3>2, <3>3, <3>4
  <2>6. ASSUME ~StripOuterParens(s), s[1] # "!", NEW op \in {" || ", " && "},
               CoreOperators(s, op) # {}, op = " && " => CoreOperators(s, " || ") = {}
        PROVE  EndsClosed(s) /\ ~Open(s)
    <3> DEFINE i == Min(CoreOperators(s, op))
               r == RightOf(s, i)
    <3>1. \E name, t : CoreParse(s) = Join(name, t, CoreParse(RightOf(s, i)))
      <4>1. CASE op = " || "
        BY <2>1, <2>2, <2>6, <4>1, CoreRules
      <4>2. CASE op = " && "
        BY <2>1, <2>2, <2>6, <4>2, CoreRules
      <4> QED  BY <2>6, <4>1, <4>2
    <3>2. i \in 1..Len(s) /\ s[i] = op /\ Depth(s)[i - 1] = 0
      BY <2>6, CoreOperatorsAre
    <3> HIDE DEF i
    <3>3. CoreParse(r) # Err
      BY <3>1 DEF Join
    <3>4. r \in S /\ PartOf(r, s, i) /\ Len(s) = i + Len(r) /\ Depth(s)[i] = 0
      <4>1. op \in Operators
        BY <2>6 DEF Operators, Ands, Ors
      <4> QED  BY <3>2, <4>1, RightEnd
    <3> HIDE DEF r
    <3> QED  BY <2>3, <3>2, <3>3, <3>4
  <2>7. ASSUME ~StripOuterParens(s), s[1] # "!",
               CoreOperators(s, " || ") = {}, CoreOperators(s, " && ") = {}
        PROVE  EndsClosed(s) /\ ~Open(s)
    <3>1. CoreLeaf(s) # Err
      BY <2>1, <2>2, <2>7, CoreRules
    <3>2. s[1] \in Atoms /\ EndsClosed(s)
      BY <2>2, <3>1 DEF CoreLeaf
    <3> QED  BY <2>1, <2>7, <3>2, OpenLeaf
  <2>8. CASE CoreOperators(s, " || ") = {} /\ CoreOperators(s, " && ") # {}
    BY <2>4, <2>5, <2>6, <2>8
  <2>9. CASE CoreOperators(s, " || ") # {}
    BY <2>4, <2>5, <2>6, <2>9
  <2> QED  BY <2>4, <2>5, <2>7, <2>8, <2>9
<1>3. /\ size \in [S -> Nat]
      /\ \A s \in S : (\A u \in S : size[u] < size[s] => u \in G) => s \in G
  BY <1>1, <1>2
<1>4. S \subseteq G
  <2> HIDE DEF S, G, size
  <2> QED  BY <1>3, InductionBySize, Zenon
<1> QED  BY <1>4

\* Without its last byte a text that ends with a bracket or a ! is not accepted.
LEMMA LeftIsAccepted ==
  ASSUME NEW l \in Seq(Tokens), Tidy(l), ~Unspaced(l), CoreLeft(CoreReading, l) # Err
  PROVE  CoreParse(l) # Err
<1> SUFFICES ASSUME l # << >>, Last(l) \in {"(", ")", "!"}, CoreParse(Front(l)) # Err
             PROVE  FALSE
  BY CoreLeftIs
<1> DEFINE n == Len(l)
           u == Front(l)
           m == Len(u)
           d == Depth(l)
           du == Depth(u)
<1>1. u \in Seq(Tokens) /\ m = n - 1 /\ n \in Nat /\ n >= 1 /\ Last(l) = l[n] /\ PartOf(u, l, 0)
  BY FrontIs
<1>2. EndsClosed(u) /\ ~Open(u) /\ u # << >>
  BY <1>1, CoreCloses, CoreOfNothing DEF CloseAll
<1>3. \A i \in 1..m : u[i] = l[0 + i]
  BY <1>1 DEF PartOf
<1>4. d \in [0..n -> Int] /\ d[0] = 0 /\ \A i \in 1..n : d[i] = d[i - 1] + Turn(l[i])
  BY DepthIs, Zenon
<1>5. d[n] = 0 /\ (\A i \in 1..n : d[i] >= 0) /\ ~SideBySide(l)
  BY DEF Tidy, Balanced
<1>6. Turn("(") = 1 /\ Turn(")") = -1
  BY TokensAre
<1>7. n >= 2 /\ Last(u) = l[n - 1]
  <2>1. m # 0 /\ Last(u) = u[m]
    BY <1>1, <1>2 DEF Last
  <2> HIDE DEF n, m, u
  <2>2. m \in 1..m /\ n >= 2 /\ 0 + m = n - 1
    BY <1>1, <2>1
  <2> QED  BY <1>3, <2>1, <2>2
<1>8. l[n] # "!"
  <2> SUFFICES ASSUME l[n] = "!"  PROVE FALSE
    OBVIOUS
  <2>1. l[n - 1] \in Atoms \cup {")"}
    BY <1>2, <1>7 DEF EndsClosed
  <2>2. n - 1 \in 1..(n - 1) /\ (n - 1) + 1 = n
    BY <1>1, <1>7
  <2> QED  BY <1>5, <2>1, <2>2 DEF SideBySide
<1>9. d[n] = d[n - 1] + Turn(l[n]) /\ d[n - 1] \in Int /\ d[n - 1] >= 0
  <2> HIDE DEF n, d
  <2>1. n \in 1..n /\ n - 1 \in 1..n /\ n - 1 \in 0..n
    BY <1>1, <1>7
  <2> QED  BY <1>4, <1>5, <2>1
<1>10. l[n] = ")"
  <2>1. l[n] # "("
    <3> HIDE DEF n, d
    <3> QED  BY <1>5, <1>6, <1>9
  <2> QED  BY <1>1, <1>8, <2>1
<1>11. d[n - 1] = 1
  <2> HIDE DEF n, d
  <2> QED  BY <1>5, <1>6, <1>9, <1>10
<1>12. \A i \in 0..m : d[0 + i] = d[0] + du[i]
  <2>1. DepthsFrom(u, l, 0)
    BY <1>1, DepthOfPart, Zenon
  <2> QED  BY <2>1, Zenon DEF DepthsFrom
<1>13. du \in [0..m -> Int]
  BY <1>1, DepthIs
<1>14. ASSUME NEW i \in 1..m  PROVE du[i] = d[i] /\ i \in 1..n
  <2> HIDE DEF n, m, d, du
  <2>1. i \in 0..m /\ i \in 1..n /\ 0 + i = i
    BY <1>1
  <2>2. du[i] \in Int
    BY <1>13, <2>1
  <2> QED  BY <1>4, <1>12, <2>1, <2>2
<1>15. du[m] >= 1 /\ \A i \in 1..m : du[i] >= 0
  <2> HIDE DEF n, m, d, du
  <2>1. m \in 1..m
    BY <1>1, <1>7
  <2>2. du[m] = 1
    BY <1>1, <1>11, <1>14, <2>1
  <2> QED  BY <1>5, <1>14, <2>2
<1>16. ~SideBySide(u) /\ ~Unspaced(u)
  BY <1>1, <1>5, PartInherits
<1> QED  BY <1>2, <1>15, <1>16 DEF Open

-----------------------------------------------------------------------------
(* What the parsers accept *)

\* aspect-core accepts only texts of the grammar, if it does so for shorter ones.
LEMMA CoreAccepts ==
  ASSUME NEW s \in Seq(Tokens), Tidy(s), CoreParse(s) # Err, ~Unspaced(s),
         \A u \in Seq(Tokens) : Len(u) < Len(s) => IsText(u)
  PROVE  s \in ExprTexts
<1>1. s # << >>
  BY CoreOfNothing
<1>2. Len(s) \in Nat /\ Len(s) >= 1 /\ Head(s) = s[1] /\ Prefixed(s, s[1], Tail(s)) /\ Tail(s) \in Seq(Tokens)
  BY <1>1, TailIs
<1>3. ASSUME StripOuterParens(s)  PROVE s \in ExprTexts
  <2>1. Len(s) >= 2 /\ s[1] = "(" /\ s[Len(s)] = ")" /\ Balanced(Inside(s))
    BY <1>2, <1>3 DEF StripOuterParens, BracketsAtBothEnds, Last
  <2>2. CoreParse(Inside(s)) # Err
    BY <1>1, <1>3, CoreRules
  <2>3. ~Unspaced(Inside(s))
    BY <2>1, InsideIs, PartInherits
  <2> QED  BY <2>1, <2>2, <2>3, AcceptedBrackets DEF Accepted
<1>4. ASSUME ~StripOuterParens(s), s[1] = "!"  PROVE s \in ExprTexts
  <2>1. CoreParse(s) = Not(CoreParse(Tail(s)))
    BY <1>1, <1>2, <1>4, CoreRules
  <2>2. CoreParse(Tail(s)) # Err
    BY <2>1 DEF Not
  <2>3. ~Unspaced(Tail(s))
    BY <1>2, PartInherits DEF Prefixed
  <2> QED  BY <1>1, <1>4, <2>2, <2>3, AcceptedNegation DEF Accepted
<1>5. ASSUME ~StripOuterParens(s), s[1] # "!", NEW op \in {" || ", " && "},
             CoreOperators(s, op) # {}, op = " && " => CoreOperators(s, " || ") = {}
      PROVE  s \in ExprTexts
  <2> DEFINE i == Min(CoreOperators(s, op))
             ts == {op}
  <2>1. i \in Outside(s, ts)
    BY <1>5, CoreOperatorsAre DEF CoreOperators
  <2>2. \E name : CoreParse(s) =
                     Join(name, CoreLeft(CoreReading, LeftOf(s, i)), CoreParse(RightOf(s, i)))
    <3>1. CASE op = " || "
      BY <1>1, <1>2, <1>5, <3>1, CoreRules
    <3>2. CASE op = " && "
      BY <1>1, <1>2, <1>5, <3>2, CoreRules
    <3> QED  BY <1>5, <3>1, <3>2
  <2>3. ts \in SUBSET Operators
    BY <1>5 DEF Operators, Ands, Ors
  <2> HIDE DEF i, ts
  <2>4. CoreLeft(CoreReading, LeftOf(s, i)) # Err /\ CoreParse(RightOf(s, i)) # Err
    BY <2>2 DEF Join
  <2>5. /\ ~Unspaced(LeftOf(s, i)) /\ ~Unspaced(RightOf(s, i))
        /\ LeftOf(s, i) \in Seq(Tokens) /\ Tidy(LeftOf(s, i))
    BY <2>1, <2>3, CutTidy
  <2>7. CoreParse(LeftOf(s, i)) # Err
    BY <2>4, <2>5, LeftIsAccepted
  <2>6. Accepted(LeftOf(s, i)) /\ Accepted(RightOf(s, i))
    BY <2>4, <2>5, <2>7 DEF Accepted
  <2> QED  BY <2>1, <2>3, <2>6, AcceptedJoin
<1>6. ASSUME ~StripOuterParens(s), s[1] # "!",
             CoreOperators(s, " || ") = {}, CoreOperators(s, " && ") = {}
      PROVE  s \in ExprTexts
  <2>1. CoreLeaf(s) # Err
    BY <1>1, <1>2, <1>6, CoreRules
  <2>2. s[1] \in Atoms /\ EndsClosed(s)
    BY <1>2, <2>1 DEF CoreLeaf
  <2>3. Len(s) = 1
    BY <1>1, <1>6, <2>2, AcceptedLeaf
  <2>4. s = <<s[1]>>
    BY <2>3
  <2> QED  BY <2>2, <2>4, TextOfAtom
<1>7. CASE StripOuterParens(s) \/ s[1] = "!"
  BY <1>3, <1>4, <1>7
<1>8. CASE ~StripOuterParens(s) /\ s[1] # "!"
  <2>1. CASE CoreOperators(s, " || ") # {}
    BY <1>5, <1>8, <2>1
  <2>2. CASE CoreOperators(s, " || ") = {} /\ CoreOperators(s, " && ") # {}
    BY <1>5, <1>8, <2>2
  <2> QED  BY <1>6, <1>8, <2>1, <2>2
<1> QED  BY <1>7, <1>8

\* So does the driver.
LEMMA DriverAccepts ==
  ASSUME NEW s \in Seq(Tokens), Tidy(s), DriverParse(s) # Err,
         \A u \in Seq(Tokens) : Len(u) < Len(s) => IsText(u)
  PROVE  s \in ExprTexts
<1>1. s # << >>
  BY DriverOfNothing
<1>2. Len(s) \in Nat /\ Len(s) >= 1 /\ Head(s) = s[1] /\ Tail(s) \in Seq(Tokens)
  BY <1>1, TailIs
<1>3. ASSUME s[1] = "!"  PROVE s \in ExprTexts
  <2>1. DriverParse(s) = Not(DriverParse(Tail(s)))
    BY <1>1, <1>2, <1>3, DriverRules
  <2>2. DriverParse(Tail(s)) # Err
    BY <2>1 DEF Not
  <2> QED  BY <1>1, <1>3, <2>2, AcceptedNegation DEF Accepted
<1>4. ASSUME s[1] # "!", NEW ts \in {Ands, Ors}, Outside(s, ts) # {},
             ts = Ors => Outside(s, Ands) = {}
      PROVE  s \in ExprTexts
  <2> DEFINE i == Min(Outside(s, ts))
  <2>1. i \in Outside(s, ts)
    BY <1>4, OutsideIs
  <2>2. \E name : DriverParse(s) =
          IF Wide(LeftOf(s, i)) # {} THEN Err
          ELSE Join(name, DriverParse(LeftOf(s, i)), DriverParse(RightOf(s, i)))
    <3>1. CASE ts = Ors
      BY <1>1, <1>2, <1>4, <3>1, DriverRules
    <3>2. CASE ts = Ands
      BY <1>1, <1>2, <1>4, <3>2, DriverRules
    <3> QED  BY <1>4, <3>1, <3>2
  <2>3. ts \in SUBSET Operators
    BY <1>4 DEF Operators
  <2> HIDE DEF i
  <2>4. DriverParse(LeftOf(s, i)) # Err /\ DriverParse(RightOf(s, i)) # Err
    BY <2>2 DEF Join
  <2> QED  BY <2>1, <2>3, <2>4, AcceptedJoin DEF Accepted
<1>5. ASSUME s[1] # "!", Outside(s, Ands) = {}, Outside(s, Ors) = {}  PROVE s \in ExprTexts
  <2>1. ASSUME s[1] = "("  PROVE s \in ExprTexts
    <3>1. Outside(s, Operators) = {}
      BY <1>5 DEF Outside, Operators
    <3>2. Len(s) >= 2 /\ s[Len(s)] = ")" /\ Balanced(Inside(s))
      BY <1>1, <2>1, <3>1, OuterBrackets
    <3>3. DriverParse(Inside(s)) # Err
      <4>1. Head(s) = "(" /\ Last(s) = ")"
        BY <1>2, <2>1, <3>2 DEF Last
      <4> QED  BY <1>1, <1>5, <4>1, DriverRules
    <3> QED  BY <2>1, <3>2, <3>3, AcceptedBrackets DEF Accepted
  <2>2. ASSUME s[1] # "("  PROVE s \in ExprTexts
    <3>1. DriverLeaf(s, FALSE) # Err
      BY <1>1, <1>2, <1>5, <2>2, DriverRules
    <3>2. s[1] \in Atoms
      BY <1>2, <3>1 DEF DriverLeaf
    <3>3. Len(s) = 1
      BY <1>1, <1>5, <3>2, AcceptedLeaf
    <3>4. s = <<s[1]>>
      BY <3>3
    <3> QED  BY <3>2, <3>4, TextOfAtom
  <2> QED  BY <2>1, <2>2
<1>6. CASE s[1] # "!"
  <2>1. CASE Outside(s, Ands) # {}
    <3>1. Ands # Ors
      BY DEF Ands, Ors
    <3> QED  BY <1>4, <1>6, <2>1, <3>1
  <2>2. CASE Outside(s, Ands) = {} /\ Outside(s, Ors) # {}
    BY <1>4, <1>6, <2>2
  <2> QED  BY <1>5, <1>6, <2>1, <2>2
<1> QED  BY <1>3, <1>6

\* By induction on the length: what is accepted is in the grammar.
LEMMA AcceptedTexts == \A s \in Seq(Tokens) : IsText(s)
<1> DEFINE S == Seq(Tokens)
           G == {s \in S : IsText(s)}
           size == [s \in S |-> Len(s)]
<1>1. \A s \in S : Len(s) \in Nat
  OBVIOUS
<1>2. ASSUME NEW s \in S, \A u \in S : Len(u) < Len(s) => IsText(u)  PROVE IsText(s)
  <2> SUFFICES ASSUME Tidy(s), Accepted(s)  PROVE s \in ExprTexts
    BY DEF IsText
  <2> QED  BY <1>2, CoreAccepts, DriverAccepts DEF Accepted
<1>3. /\ size \in [S -> Nat]
      /\ \A s \in S : (\A u \in S : size[u] < size[s] => u \in G) => s \in G
  BY <1>1, <1>2
<1>4. S \subseteq G
  <2> HIDE DEF S, G, size
  <2> QED  BY <1>3, InductionBySize, Zenon
<1> QED  BY <1>4

-----------------------------------------------------------------------------
(* The texts that are read *)

\* A text with a meaning is one of the grammar, with that meaning. Any other is
\* not of the grammar.
TextInv ==
  \/ meant # Err /\ \E r \in Readings : text = r.text /\ meant = r.means
  \/ /\ meant = Err /\ text \in Seq(Tokens) /\ Len(text) <= MaxGrammar
     /\ text \notin {r.text : r \in Readings}

\* The invariant holds of no text.
LEMMA InvAtStart == TextInit => TextInv
<1> SUFFICES ASSUME TextInit  PROVE TextInv
  OBVIOUS
<1>1. text = << >> /\ meant = Err
  BY DEF TextInit
<1>2. text \in Seq(Tokens) /\ Len(text) <= MaxGrammar
  BY <1>1, TextAssumption DEF TextAssumption
<1>3. text \notin {r.text : r \in Readings}
  <2>1. Readings = Exprs
    BY OfLength, Zenon
  <2> QED  BY <1>1, <2>1, ExprsAreReadings DEF ExprTexts
<1> QED  BY <1>1, <1>2, <1>3 DEF TextInv

\* And of every text that is written.
LEMMA WriteKeepsInv == Write => TextInv'
<1> SUFFICES ASSUME Write  PROVE TextInv'
  OBVIOUS
<1> DEFINE Short == {r.text : r \in ReadingsUpTo(MaxAny)}
           Others == BoundedSeq(Tokens, MaxAny) \ Short
<1>1. \/ \E n \in 1..MaxGrammar : \E r \in ByLength[n].expr : text' = r.text /\ meant' = r.means
      \/ \E s \in Others : text' = s /\ meant' = Err
  BY DEF Write
<1>2. Readings = Exprs
  BY OfLength, Zenon
<1>3. ASSUME NEW n \in 1..MaxGrammar, NEW r \in ByLength[n].expr, text' = r.text, meant' = r.means
      PROVE  TextInv'
  <2>1. r \in Readings
    BY <1>2, <1>3, OfLength, Zenon
  <2>2. r.means # Err
    BY <1>2, <2>1, ShapesAre DEF HasShape
  <2> QED  BY <1>2, <1>3, <2>1, <2>2 DEF TextInv
<1>4. ASSUME NEW s \in Others, text' = s, meant' = Err  PROVE TextInv'
  <2>1. s \in Seq(Tokens) /\ Len(s) <= MaxAny /\ s \notin Short
    <3>1. PICK n \in 0..MaxAny : s \in [1..n -> Tokens]
      BY DEF BoundedSeq, SeqOf
    <3>2. s \in Seq(Tokens) /\ Len(s) = n
      BY <3>1
    <3> QED  BY <3>1, <3>2, TextAssumption DEF TextAssumption
  <2>2. ASSUME NEW x \in Readings, x.text = s  PROVE FALSE
    <3>1. PICK n \in 1..MaxGrammar : x \in ByLength[n].expr
      BY Zenon DEF Readings, ReadingsUpTo
    <3>2. Len(s) = n
      BY <2>2, <3>1, LengthsAre, Zenon
    <3>3. n \in 1..MaxAny
      BY <2>1, <3>1, <3>2, TextAssumption DEF TextAssumption
    <3>4. x \in ReadingsUpTo(MaxAny)
      BY <3>1, <3>3, Zenon DEF ReadingsUpTo
    <3> QED  BY <2>1, <2>2, <3>4
  <2>3. Len(s) <= MaxGrammar
    BY <2>1, TextAssumption DEF TextAssumption
  <2> QED  BY <1>4, <2>1, <2>2, <2>3 DEF TextInv
<1> QED  BY <1>1, <1>3, <1>4

\* A text has the meaning that the grammar gives it, or has none and is not in the grammar.
THEOREM TextInvHolds == TextSpec => []TextInv
<1>1. TextInv /\ UNCHANGED textVars => TextInv'
  BY DEF TextInv, textVars
<1> QED  BY InvAtStart, WriteKeepsInv, <1>1, PTL DEF TextSpec

\* What the invariant says of a text in terms of expressions.
LEMMA InvIs ==
  TextInv => /\ text \in Seq(Tokens) /\ Len(text) <= MaxGrammar
             /\ WellFormed => \E x \in Exprs : text = x.text /\ meant = x.means
             /\ WellFormed <=> text \in ExprTexts
<1>1. \A x \in Exprs : x.text \in Seq(Tokens) /\ Len(x.text) <= MaxGrammar
  BY ExprsAreReadings DEF Fits
<1>2. Readings = Exprs
  BY OfLength, Zenon
<1> QED  BY <1>1, <1>2 DEF TextInv, WellFormed, ExprTexts

\* A text is made of tokens.
THEOREM TextTypeCorrect == TextSpec => []TextTypeOK
<1>1. TextInv => TextTypeOK
  BY InvIs DEF TextTypeOK
<1> QED  BY <1>1, TextInvHolds, PTL

\* aspect-core reads by the grammar (parser.rs:23-62), whatever the patterns: only an
\* operand that is negated and has an operator behind it must be bracketed with its
\* !, and no operator may follow a pattern with more bytes than characters, where the
\* text is cut too early (parser.rs:99-109, :42-50).
THEOREM GrammarIsRead == TextSpec => []CoreReadsTheGrammar
<1>1. TextInv => CoreReadsTheGrammar
  <2> SUFFICES ASSUME TextInv, WellFormed, Plain(text), ~NegationBeforeOperator(text)
               PROVE  CoreParse(text) = meant
    BY DEF CoreReadsTheGrammar, Plain
  <2>1. PICK x \in Exprs : text = x.text /\ meant = x.means
    BY InvIs
  <2> QED  BY <2>1, CoreReads DEF CoreReadsIt
<1> QED  BY <1>1, TextInvHolds, PTL

\* The driver's parser and matcher (match.rs:184-224) agree with those of
\* aspect-core on texts that do not mix && and || in one group and have no operator
\* behind a pattern with more bytes than characters; the matchers, if both know what
\* the patterns ask for, a signature other than (..) not being among it.
THEOREM ReadersAgree == TextSpec => []ParsersAgree
<1>1. TextInv => ParsersAgree
  <2> SUFFICES ASSUME TextInv, WellFormed, ~Unspaced(text), ~MixesOperators(text),
                      ~WideBeforeOperator(text)
               PROVE  /\ ForBoth(text) => DriverParse(text) = CoreParse(text)
                      /\ \A f \in Functions :
                           (\A i \in 1..Len(text) : text[i] \in Atoms => Portable(text[i], f)) =>
                             (CoreMatches(text, f) <=> DriverMatches(text, f))
    BY DEF ParsersAgree
  <2>1. text \in ExprTexts
    BY InvIs
  <2>2. ForBoth(text) => DriverParse(text) = CoreParse(text)
    BY <2>1, ParsersAgreeOnTexts DEF AgreesOn, Plain
  <2>3. ASSUME NEW f \in Functions,
               \A i \in 1..Len(text) : text[i] \in Atoms => Portable(text[i], f)
        PROVE  CoreMatches(text, f) <=> DriverMatches(text, f)
    BY <2>1, <2>3, MatchersAgree
  <2> QED  BY <2>2, <2>3
<1> QED  BY <1>1, TextInvHolds, PTL

\* Neither parser accepts a text that the grammar does not have, as long as its
\* brackets match and an operator stands between any two operands. This holds of
\* patterns of any characters: cuts that come out too early only refuse more.
THEOREM NothingElseIsRead == TextSpec => []AcceptedIsWellFormed
<1>1. TextInv => AcceptedIsWellFormed
  <2> SUFFICES ASSUME TextInv, Balanced(text), ~SideBySide(text), Accepted(text)
               PROVE  WellFormed
    BY DEF AcceptedIsWellFormed, Accepted
  <2>1. Tidy(text) /\ text \in Seq(Tokens)
    BY InvIs DEF Tidy
  <2> QED  BY <2>1, InvIs, AcceptedTexts DEF IsText
<1> QED  BY <1>1, TextInvHolds, PTL

\* In the common instance each part goes on as its module says, so all that is
\* proved of texts, of the matcher and of runs holds there.
THEOREM ToolsBehave == Spec => TextSpec /\ MatcherSpec /\ RunSpec
<1>1. Init => TextInit /\ MatcherInit /\ RunInit
  BY DEF Init
<1>2. [Next]_allVars => [Write]_textVars /\ [MatcherNext]_matcherVars /\ [RunNext]_runVars
  BY DEF Next, allVars
<1> QED  BY <1>1, <1>2, PTL DEF Spec, TextSpec, MatcherSpec, RunSpec

\* Every variable of texts, matcher and runs stays in its type.
THEOREM ToolsTyped == Spec => []TypeOK
<1>1. TextTypeOK /\ MatcherTypeOK /\ RunTypeOK => TypeOK
  BY DEF TypeOK
<1> QED  BY <1>1, ToolsBehave, TextTypeCorrect, MatcherTypeCorrect, RunTypeCorrect, PTL
=============================================================================
