-------------------------- MODULE SubsequenceProofs --------------------------
(***************************************************************************)
(* Induction and recursion for the proofs about data. The induction        *)
(* theorems of the library are about an operator; here they are about a    *)
(* set, which a proof can define: they follow from the library's theorem   *)
(* that the natural numbers are well-founded. With them, a recursive       *)
(* function is shown to be what its definition says, and Only to keep the  *)
(* elements that are in the set, in their order.                           *)
(***************************************************************************)
EXTENDS Subsequences, WellFoundedInduction, SequenceTheorems, TLAPS

-----------------------------------------------------------------------------
(* The natural numbers *)

Less == {ss \in Nat \X Nat : ss[1] < ss[2]}

\* There is no endless descent in Nat: the library's theorem, for a set of pairs.
LEMMA LessIsWellFounded == IsWellFoundedOn(Less, Nat)
<1>1. Less = OpToRel(<, Nat)
  BY Zenon DEF OpToRel, Less
<1> QED  BY <1>1, NatLessThanWellFounded, Zenon

\* A non-empty set of natural numbers has a least element.
LEMMA LeastNatural ==
  ASSUME NEW T \in SUBSET Nat, T # {}
  PROVE  \E m \in T : \A n \in T : m <= n
<1>1. PICK m \in T : \A n \in T : ~ (<<n, m>> \in Less)
  BY LessIsWellFounded, WFMin
<1>2. \A n \in T : ~ (n < m)
  BY <1>1 DEF Less
<1> QED  BY <1>2

\* A non-empty set of natural numbers that is bounded has a greatest element.
LEMMA GreatestNatural ==
  ASSUME NEW T \in SUBSET Nat, T # {}, NEW b \in Nat, \A x \in T : x <= b
  PROVE  \E m \in T : \A n \in T : n <= m
<1> DEFINE U == {n \in Nat : \A x \in T : x <= n}
<1>1. PICK u \in U : \A n \in U : u <= n
  <2>1. b \in U /\ U \in SUBSET Nat
    OBVIOUS
  <2> QED  BY <2>1, LeastNatural
<1>2. u \in Nat /\ \A x \in T : x \in Nat /\ x <= u
  OBVIOUS
<1>3. CASE u = 0
  <2>1. PICK x \in T : TRUE
    OBVIOUS
  <2>2. x = 0 /\ \A y \in T : y = 0
    BY <1>2, <1>3
  <2> QED  BY <2>2
<1>4. CASE u # 0
  <2>1. u - 1 \in Nat /\ u - 1 \notin U
    BY <1>1, <1>4, <1>2
  <2>2. PICK x \in T : ~(x <= u - 1)
    BY <2>1
  <2>3. x = u
    BY <1>2, <2>2
  <2> QED  BY <1>2, <2>3
<1> QED  BY <1>3, <1>4

\* A set that has 0, and n + 1 whenever it has n, has all natural numbers.
LEMMA Induction ==
  ASSUME NEW S, 0 \in S, \A n \in Nat : n \in S => n + 1 \in S
  PROVE  Nat \subseteq S
<1> SUFFICES ASSUME Nat \ S # {} PROVE FALSE
  OBVIOUS
<1>1. PICK m \in Nat \ S : \A n \in Nat \ S : m <= n
  BY LeastNatural
<1>2. m # 0 /\ m - 1 \in Nat /\ m - 1 \notin Nat \ S
  BY <1>1
<1> QED  BY <1>1, <1>2

\* The same up to a bound.
LEMMA InductionTo ==
  ASSUME NEW n \in Nat, NEW S, 0 \in S, \A i \in 0..(n - 1) : i \in S => i + 1 \in S
  PROVE  0..n \subseteq S
<1> DEFINE T == {i \in Nat : i <= n => i \in S}
<1>1. 0 \in T /\ \A i \in Nat : i \in T => i + 1 \in T
  OBVIOUS
<1>2. Nat \subseteq T
  <2> HIDE DEF T
  <2> QED  BY <1>1, Induction
<1> QED  BY <1>2

-----------------------------------------------------------------------------
(* Recursive functions on 0..n, whose steps are functions on V. *)

Recurses(g, V, base, n, step) ==
  g \in [0..n -> V] /\ g[0] = base /\ \A i \in 1..n : g[i] = step[i][g[i - 1]]

StepsIn(V, n, step) == step \in [1..n -> [V -> V]]

IsFunctionOn(f, D) == f = [i \in D |-> f[i]]

\* Such a function exists.
LEMMA Recursion ==
  ASSUME NEW V, NEW base \in V, NEW n \in Nat, NEW step, StepsIn(V, n, step)
  PROVE  \E g : Recurses(g, V, base, n, step)
<1> USE DEF StepsIn
<1> DEFINE Upto(m) == \E g \in [0..m -> V] : /\ g[0] = base
                                             /\ \A i \in 1..m : g[i] = step[i][g[i - 1]]
           T == {m \in 0..n : Upto(m)}
<1>1. 0 \in T
  <2> DEFINE g == [i \in 0..0 |-> base]
  <2>1. g \in [0..0 -> V] /\ g[0] = base
    OBVIOUS
  <2>2. \A i \in 1..0 : g[i] = step[i][g[i - 1]]
    OBVIOUS
  <2>3. Upto(0)
    <3> HIDE DEF g
    <3> QED  BY <2>1, <2>2
  <2> QED  BY <2>3
<1>2. ASSUME NEW m \in 0..(n - 1), m \in T  PROVE m + 1 \in T
  <2>1. PICK g \in [0..m -> V] : g[0] = base /\ \A i \in 1..m : g[i] = step[i][g[i - 1]]
    BY <1>2
  <2> DEFINE h == [i \in 0..(m + 1) |-> IF i = m + 1 THEN step[m + 1][g[m]] ELSE g[i]]
  <2>2. step[m + 1][g[m]] \in V
    <3>1. m + 1 \in 1..n /\ g[m] \in V
      OBVIOUS
    <3> QED  BY <3>1
  <2>3. h \in [0..(m + 1) -> V]
    BY <2>2
  <2>4. h[0] = base
    BY <2>1
  <2>5. ASSUME NEW i \in 1..(m + 1)  PROVE h[i] = step[i][h[i - 1]]
    <3>1. CASE i = m + 1
      BY <3>1
    <3>2. CASE i # m + 1
      <4>1. i \in 1..m /\ h[i] = g[i] /\ h[i - 1] = g[i - 1]
        BY <3>2
      <4> QED  BY <4>1, <2>1
    <3> QED  BY <3>1, <3>2
  <2>6. Upto(m + 1)
    <3> HIDE DEF h
    <3> QED  BY <2>3, <2>4, <2>5
  <2> HIDE DEF Upto
  <2> QED  BY <2>6
<1>3. 0..n \subseteq T
  <2> HIDE DEF T
  <2> QED  BY <1>1, <1>2, InductionTo
<1>4. Upto(n)
  BY <1>3
<1> QED  BY <1>4 DEF Recurses

\* A function that makes the same steps as long as it stays in V stays in V.
LEMMA RecursionStays ==
  ASSUME NEW V, NEW base \in V, NEW n \in Nat, NEW step, StepsIn(V, n, step),
         NEW f, IsFunctionOn(f, 0..n), f[0] = base,
         \A i \in 1..n : f[i - 1] \in V => f[i] = step[i][f[i - 1]]
  PROVE  Recurses(f, V, base, n, step)
<1> DEFINE T == {i \in 0..n : f[i] \in V}
<1>1. 0 \in T
  OBVIOUS
<1>2. ASSUME NEW i \in 0..(n - 1), i \in T  PROVE i + 1 \in T
  <2>1. i + 1 \in 1..n /\ f[i] \in V
    BY <1>2
  <2>2. f[i + 1] = step[i + 1][f[i]]
    BY <2>1
  <2> QED  BY <2>1, <2>2 DEF StepsIn
<1>3. 0..n \subseteq T
  <2> HIDE DEF T
  <2> QED  BY <1>1, <1>2, InductionTo
<1>4. f \in [0..n -> V]
  BY <1>3 DEF IsFunctionOn
<1>5. \A i \in 1..n : f[i] = step[i][f[i - 1]]
  BY <1>4
<1> QED  BY <1>4, <1>5 DEF Recurses

-----------------------------------------------------------------------------
(* Only *)

Keep(s, S, X) == [i \in 1..Len(s) |-> [v \in Seq(X) |->
                    IF s[i] \in S THEN Append(v, s[i]) ELSE v]]

\* Only is the last value of the function that its definition recurses with.
LEMMA OnlyIsDefined ==
  ASSUME NEW X, NEW s \in Seq(X), NEW S
  PROVE  \E kept : /\ Recurses(kept, Seq(X), << >>, Len(s), Keep(s, S, X))
                   /\ Only(s, S) = kept[Len(s)]
<1> DEFINE n == Len(s)
           V == Seq(X)
           step == Keep(s, S, X)
           Def(f) == [i \in 0..n |-> IF i = 0 THEN << >>
                        ELSE IF s[i] \in S THEN Append(f[i - 1], s[i]) ELSE f[i - 1]]
           kept == CHOOSE f : f = Def(f)
<1>1. << >> \in V /\ n \in Nat /\ StepsIn(V, n, step)
  BY DEF StepsIn, Keep
<1>2. \A i \in 1..n, v \in V :
        step[i][v] = IF s[i] \in S THEN Append(v, s[i]) ELSE v
  BY DEF Keep
<1>3. PICK g : Recurses(g, V, << >>, n, step)
  <2> DEFINE base == << >>
  <2> HIDE DEF n, V, step, base
  <2>1. \E g : Recurses(g, V, base, n, step)
    BY <1>1, Recursion DEF base
  <2> QED  BY <2>1 DEF base
<1>4. g = Def(g)
  <2> HIDE DEF step, V
  <2>1. \A i \in 1..n : g[i] = IF s[i] \in S THEN Append(g[i - 1], s[i]) ELSE g[i - 1]
    BY <1>2, <1>3 DEF Recurses
  <2>2. ASSUME NEW i \in 0..n  PROVE g[i] = Def(g)[i]
    <3>1. CASE i = 0
      BY <3>1, <1>3 DEF Recurses
    <3>2. CASE i # 0
      <4>1. i \in 1..n
        BY <3>2
      <4>2. Def(g)[i] = IF s[i] \in S THEN Append(g[i - 1], s[i]) ELSE g[i - 1]
        BY <3>2
      <4> QED  BY <4>1, <4>2, <2>1
    <3> QED  BY <3>1, <3>2
  <2>3. g = [i \in 0..n |-> g[i]]
    BY <1>3 DEF Recurses
  <2>4. Def(g) = [i \in 0..n |-> Def(g)[i]]
    OBVIOUS
  <2> QED
    <3> HIDE DEF Def
    <3> QED  BY <2>2, <2>3, <2>4
<1>5. kept = Def(kept)
  <2> HIDE DEF Def
  <2> QED  BY <1>4
<1>6. Recurses(kept, V, << >>, n, step)
  <2> HIDE DEF kept
  <2>1. \A i \in 0..n : kept[i] = Def(kept)[i]
    BY <1>5
  <2>2. kept[0] = << >> /\ IsFunctionOn(kept, 0..n)
    BY <1>5, <2>1 DEF IsFunctionOn
  <2>3. \A i \in 1..n : kept[i - 1] \in V => kept[i] = step[i][kept[i - 1]]
    <3> HIDE DEF V, step
    <3> QED  BY <1>2, <2>1
  <2> DEFINE base == << >>
  <2> HIDE DEF n, V, step, base
  <2>4. Recurses(kept, V, base, n, step)
    BY <1>1, <2>2, <2>3, RecursionStays DEF base
  <2> QED  BY <2>4 DEF base
<1>7. Only(s, S) = kept[n]
  BY DEF Only
<1> HIDE DEF kept
<1> QED  BY <1>6, <1>7

LEMMA KeepRecurses ==
  ASSUME NEW X, NEW s \in Seq(X), NEW S, NEW kept,
         Recurses(kept, Seq(X), << >>, Len(s), Keep(s, S, X))
  PROVE  /\ kept \in [0..Len(s) -> Seq(X)] /\ kept[0] = << >> /\ Len(s) \in Nat
         /\ \A n \in 1..Len(s) : kept[n] = IF s[n] \in S THEN Append(kept[n - 1], s[n])
                                           ELSE kept[n - 1]
<1>1. Len(s) \in Nat /\ kept \in [0..Len(s) -> Seq(X)] /\ kept[0] = << >>
  BY DEF Recurses
<1>2. ASSUME NEW n \in 1..Len(s)
      PROVE  kept[n] = IF s[n] \in S THEN Append(kept[n - 1], s[n]) ELSE kept[n - 1]
  <2>1. kept[n - 1] \in Seq(X)
    BY <1>1
  <2>2. \A v \in Seq(X) : Keep(s, S, X)[n][v] = IF s[n] \in S THEN Append(v, s[n]) ELSE v
    BY DEF Keep
  <2>3. kept[n] = Keep(s, S, X)[n][kept[n - 1]]
    BY DEF Recurses
  <2> QED  BY <2>1, <2>2, <2>3
<1> QED  BY <1>1, <1>2

\* The elements of t are those at e[1], e[2], ... of the first n of s, in this
\* order, and these are all of them that are in S.
Enumerates(e, n, t, s, S) ==
  /\ e \in [1..Len(t) -> 1..n]
  /\ \A j, k \in 1..Len(t) : j < k => e[j] < e[k]
  /\ \A k \in 1..Len(t) : t[k] = s[e[k]] /\ t[k] \in S
  /\ \A j \in 1..n : s[j] \in S => \E k \in 1..Len(t) : e[k] = j

LEMMA EnumerationGrows ==
  ASSUME NEW X, NEW s \in Seq(X), NEW S, NEW n \in 0..(Len(s) - 1), NEW t \in Seq(X),
         NEW e, Enumerates(e, n, t, s, S)
  PROVE  \E f : Enumerates(f, n + 1, IF s[n + 1] \in S THEN Append(t, s[n + 1]) ELSE t, s, S)
<1>1. CASE s[n + 1] \notin S
  <2>1. Enumerates(e, n + 1, t, s, S)
    <3>1. e \in [1..Len(t) -> 1..(n + 1)]
      BY DEF Enumerates
    <3>2. ASSUME NEW j \in 1..(n + 1), s[j] \in S  PROVE \E k \in 1..Len(t) : e[k] = j
      <4>1. j \in 1..n
        BY <3>2, <1>1
      <4> QED  BY <3>2, <4>1 DEF Enumerates
    <3> QED  BY <3>1, <3>2 DEF Enumerates
  <2> QED  BY <1>1, <2>1
<1>2. CASE s[n + 1] \in S
  <2> DEFINE u == Append(t, s[n + 1])
             f == [k \in 1..Len(u) |-> IF k = Len(u) THEN n + 1 ELSE e[k]]
  <2>1. n + 1 \in 1..Len(s) /\ s[n + 1] \in X
    OBVIOUS
  <2>2. /\ u \in Seq(X) /\ Len(u) = Len(t) + 1 /\ Len(t) \in Nat
        /\ \A k \in 1..Len(t) : u[k] = t[k]
        /\ u[Len(u)] = s[n + 1]
    BY <2>1
  <2> HIDE DEF u
  <2>3. \A k \in 1..Len(u) : k = Len(u) \/ k \in 1..Len(t)
    BY <2>2
  <2>4. \A k \in 1..Len(t) : f[k] = e[k] /\ e[k] \in 1..n
    BY <2>2 DEF Enumerates
  <2>5. f[Len(u)] = n + 1 /\ Len(u) \in 1..Len(u)
    BY <2>2
  <2>6. f \in [1..Len(u) -> 1..(n + 1)]
    <3>1. \A k \in 1..Len(u) : f[k] \in 1..(n + 1)
      <4> HIDE DEF f
      <4> QED  BY <2>3, <2>4, <2>5
    <3> QED  BY <3>1
  <2> HIDE DEF f
  <2>7. ASSUME NEW j \in 1..Len(u), NEW k \in 1..Len(u), j < k  PROVE f[j] < f[k]
    <3>1. j \in 1..Len(t)
      BY <2>2, <2>7
    <3>2. CASE k = Len(u)
      BY <2>4, <2>5, <3>1, <3>2
    <3>3. CASE k \in 1..Len(t)
      BY <2>4, <2>7, <3>1, <3>3 DEF Enumerates
    <3> QED  BY <2>3, <3>2, <3>3
  <2>8. ASSUME NEW k \in 1..Len(u)  PROVE u[k] = s[f[k]] /\ u[k] \in S
    BY <1>2, <2>2, <2>3, <2>4, <2>5 DEF Enumerates
  <2>9. ASSUME NEW j \in 1..(n + 1), s[j] \in S  PROVE \E k \in 1..Len(u) : f[k] = j
    <3>1. CASE j = n + 1
      BY <2>5, <3>1
    <3>2. CASE j # n + 1
      <4>1. j \in 1..n
        BY <3>2
      <4>2. PICK k \in 1..Len(t) : e[k] = j
        BY <2>9, <4>1 DEF Enumerates
      <4>3. k \in 1..Len(u) /\ f[k] = j
        BY <2>2, <2>4, <4>2
      <4> QED  BY <4>3
    <3> QED  BY <3>1, <3>2
  <2>10. Enumerates(f, n + 1, u, s, S)
    BY <2>6, <2>7, <2>8, <2>9 DEF Enumerates
  <2> QED  BY <1>2, <2>10 DEF u
<1> QED  BY <1>1, <1>2

\* Only keeps every element that is in the set, and keeps their order.
THEOREM OnlyEnumerates ==
  ASSUME NEW X, NEW s \in Seq(X), NEW S
  PROVE  /\ Only(s, S) \in Seq(X)
         /\ \E e : Enumerates(e, Len(s), Only(s, S), s, S)
<1>1. PICK kept : /\ Recurses(kept, Seq(X), << >>, Len(s), Keep(s, S, X))
                  /\ Only(s, S) = kept[Len(s)]
  BY OnlyIsDefined
<1> DEFINE T == {n \in 0..Len(s) : \E e : Enumerates(e, n, kept[n], s, S)}
<1>2. /\ kept \in [0..Len(s) -> Seq(X)] /\ kept[0] = << >> /\ Len(s) \in Nat
      /\ \A n \in 1..Len(s) : kept[n] = IF s[n] \in S THEN Append(kept[n - 1], s[n])
                                        ELSE kept[n - 1]
  BY <1>1, KeepRecurses
<1>3. 0 \in T
  <2>1. Enumerates(<< >>, 0, << >>, s, S)
    BY DEF Enumerates
  <2> QED  BY <1>2, <2>1
<1>4. ASSUME NEW n \in 0..(Len(s) - 1), n \in T  PROVE n + 1 \in T
  <2>1. n + 1 \in 1..Len(s) /\ n + 1 \in 0..Len(s) /\ (n + 1) - 1 = n
    BY <1>2
  <2>2. PICK e : Enumerates(e, n, kept[n], s, S)
    BY <1>4
  <2>3. kept[n] \in Seq(X)
    BY <1>2
  <2>4. \E f : Enumerates(f, n + 1, IF s[n + 1] \in S THEN Append(kept[n], s[n + 1])
                                     ELSE kept[n], s, S)
    BY <2>2, <2>3, EnumerationGrows
  <2>5. kept[n + 1] = IF s[n + 1] \in S THEN Append(kept[n], s[n + 1]) ELSE kept[n]
    BY <1>2, <2>1
  <2> QED  BY <2>1, <2>4, <2>5
<1>5. 0..Len(s) \subseteq T
  <2> HIDE DEF T
  <2> QED  BY <1>2, <1>3, <1>4, InductionTo
<1> QED  BY <1>1, <1>2, <1>5

\* What is kept for two sets that have nothing in common is not more than there was.
LEMMA OnlyDivides ==
  ASSUME NEW X, NEW s \in Seq(X), NEW S, NEW T, S \cap T = {}
  PROVE  Len(Only(s, S)) + Len(Only(s, T)) <= Len(s)
<1>1. PICK p : /\ Recurses(p, Seq(X), << >>, Len(s), Keep(s, S, X))
               /\ Only(s, S) = p[Len(s)]
  BY OnlyIsDefined
<1>2. PICK q : /\ Recurses(q, Seq(X), << >>, Len(s), Keep(s, T, X))
               /\ Only(s, T) = q[Len(s)]
  BY OnlyIsDefined
<1> DEFINE U == {n \in 0..Len(s) : Len(p[n]) + Len(q[n]) <= n}
<1>3. /\ p \in [0..Len(s) -> Seq(X)] /\ p[0] = << >> /\ Len(s) \in Nat
      /\ \A n \in 1..Len(s) : p[n] = IF s[n] \in S THEN Append(p[n - 1], s[n])
                                     ELSE p[n - 1]
  BY <1>1, KeepRecurses
<1>4. /\ q \in [0..Len(s) -> Seq(X)] /\ q[0] = << >>
      /\ \A n \in 1..Len(s) : q[n] = IF s[n] \in T THEN Append(q[n - 1], s[n])
                                     ELSE q[n - 1]
  BY <1>2, KeepRecurses
<1>5. 0 \in U
  BY <1>3, <1>4
<1>6. ASSUME NEW n \in 0..(Len(s) - 1), n \in U  PROVE n + 1 \in U
  <2>1. n + 1 \in 1..Len(s) /\ n + 1 \in 0..Len(s) /\ (n + 1) - 1 = n /\ s[n + 1] \in X
    BY <1>3
  <2>2. p[n] \in Seq(X) /\ q[n] \in Seq(X) /\ Len(p[n]) + Len(q[n]) <= n
    BY <1>3, <1>4, <1>6
  <2>3. p[n + 1] = IF s[n + 1] \in S THEN Append(p[n], s[n + 1]) ELSE p[n]
    BY <1>3, <2>1
  <2>4. q[n + 1] = IF s[n + 1] \in T THEN Append(q[n], s[n + 1]) ELSE q[n]
    BY <1>4, <2>1
  <2>5. Len(p[n]) \in Nat /\ Len(q[n]) \in Nat
    BY <2>2
  <2>6. Len(p[n + 1]) = IF s[n + 1] \in S THEN Len(p[n]) + 1 ELSE Len(p[n])
    BY <2>1, <2>2, <2>3
  <2>7. Len(q[n + 1]) = IF s[n + 1] \in T THEN Len(q[n]) + 1 ELSE Len(q[n])
    BY <2>1, <2>2, <2>4
  <2>8. ~(s[n + 1] \in S /\ s[n + 1] \in T)
    OBVIOUS
  <2>9. Len(p[n + 1]) + Len(q[n + 1]) <= n + 1
    <3> DEFINE a == Len(p[n])
               b == Len(q[n])
               c == Len(p[n + 1])
               d == Len(q[n + 1])
    <3> HIDE DEF U
    <3>1. n \in Nat
      OBVIOUS
    <3>2. a \in Nat /\ b \in Nat /\ a + b <= n
      BY <2>2, <2>5
    <3>3. \/ c = a /\ d = b
          \/ c = a + 1 /\ d = b
          \/ c = a /\ d = b + 1
      BY <2>6, <2>7, <2>8
    <3> HIDE DEF a, b, c, d
    <3>4. c + d <= n + 1
      BY <3>1, <3>2, <3>3
    <3> QED  BY <3>4 DEF c, d
  <2> QED  BY <2>1, <2>9
<1>7. 0..Len(s) \subseteq U
  <2> HIDE DEF U
  <2> QED  BY <1>3, <1>5, <1>6, InductionTo
<1>8. Len(s) \in U
  <2> HIDE DEF U
  <2> QED  BY <1>3, <1>7
<1> QED  BY <1>1, <1>2, <1>8

-----------------------------------------------------------------------------
(* Sequences in an order, which is a set of pairs *)

Elements(s) == {s[k] : k \in 1..Len(s)}
OrderedBy(R, s) == \A j, k \in 1..Len(s) : j < k => <<s[j], s[k]>> \in R
Asymmetric(R) == \A x, y : <<x, y>> \in R => <<y, x>> \notin R

\* What Only keeps is in order if it was in order before.
LEMMA OrderedPart ==
  ASSUME NEW X, NEW s \in Seq(X), NEW S, NEW R,
         \A j, k \in 1..Len(s) : j < k /\ s[j] \in S /\ s[k] \in S => <<s[j], s[k]>> \in R
  PROVE  /\ Only(s, S) \in Seq(X) /\ OrderedBy(R, Only(s, S))
         /\ Elements(Only(s, S)) = Elements(s) \cap S
<1> DEFINE t == Only(s, S)
<1>1. t \in Seq(X) /\ \E e : Enumerates(e, Len(s), t, s, S)
  BY OnlyEnumerates
<1> HIDE DEF t
<1>2. PICK e : Enumerates(e, Len(s), t, s, S)
  BY <1>1
<1>3. \A k \in 1..Len(t) : e[k] \in 1..Len(s) /\ t[k] = s[e[k]] /\ t[k] \in S
  BY <1>2 DEF Enumerates
<1>4. OrderedBy(R, t)
  BY <1>2, <1>3 DEF Enumerates, OrderedBy
<1>5. ASSUME NEW x \in Elements(s) \cap S  PROVE x \in Elements(t)
  <2>1. PICK j \in 1..Len(s) : x = s[j]
    BY DEF Elements
  <2>2. PICK k \in 1..Len(t) : e[k] = j
    BY <1>2, <2>1 DEF Enumerates
  <2> QED  BY <1>3, <2>1, <2>2 DEF Elements
<1>6. Elements(t) \subseteq Elements(s) \cap S
  BY <1>3 DEF Elements
<1> QED  BY <1>1, <1>4, <1>5, <1>6 DEF t

LEMMA OrderedOnly ==
  ASSUME NEW X, NEW s \in Seq(X), NEW S, NEW R, OrderedBy(R, s)
  PROVE  /\ Only(s, S) \in Seq(X) /\ OrderedBy(R, Only(s, S))
         /\ Elements(Only(s, S)) = Elements(s) \cap S
<1>1. \A j, k \in 1..Len(s) : j < k /\ s[j] \in S /\ s[k] \in S => <<s[j], s[k]>> \in R
  BY DEF OrderedBy
<1> QED  BY <1>1, OrderedPart

\* No element stands in an ordered sequence twice.
LEMMA OrderedOnce ==
  ASSUME NEW X, NEW s \in Seq(X), NEW R, Asymmetric(R), OrderedBy(R, s),
         NEW j \in 1..Len(s), NEW k \in 1..Len(s), s[j] = s[k]
  PROVE  j = k
<1>1. j \in Int /\ k \in Int
  OBVIOUS
<1>2. ASSUME NEW x, <<x, x>> \in R  PROVE FALSE
  BY <1>2 DEF Asymmetric
<1>3. ~(j < k) /\ ~(k < j)
  BY <1>2 DEF OrderedBy
<1> QED  BY <1>1, <1>3

\* Two ordered sequences make one, if all of the first comes before the second.
LEMMA OrderedConcat ==
  ASSUME NEW X, NEW s \in Seq(X), NEW t \in Seq(X), NEW R, OrderedBy(R, s), OrderedBy(R, t),
         \A x \in Elements(s), y \in Elements(t) : <<x, y>> \in R
  PROVE  /\ s \o t \in Seq(X) /\ OrderedBy(R, s \o t)
         /\ Elements(s \o t) = Elements(s) \cup Elements(t)
<1> DEFINE u == s \o t
<1>1. /\ u \in Seq(X) /\ Len(u) = Len(s) + Len(t) /\ Len(s) \in Nat /\ Len(t) \in Nat
      /\ \A i \in 1..(Len(s) + Len(t)) : u[i] = IF i <= Len(s) THEN s[i] ELSE t[i - Len(s)]
  BY ConcatProperties
<1> HIDE DEF u
<1>2. /\ \A k \in 1..Len(s) : k \in 1..Len(u) /\ u[k] = s[k]
      /\ \A k \in (Len(s) + 1)..Len(u) : u[k] = t[k - Len(s)] /\ k - Len(s) \in 1..Len(t)
      /\ \A k \in 1..Len(t) : k + Len(s) \in 1..Len(u) /\ u[k + Len(s)] = t[k]
  <2> DEFINE m == Len(s)
             n == Len(t)
  <2>1. m \in Nat /\ n \in Nat /\ Len(u) = m + n
    BY <1>1
  <2>2. \A i \in 1..(m + n) : u[i] = IF i <= m THEN s[i] ELSE t[i - m]
    BY <1>1
  <2> HIDE DEF m, n
  <2>3. /\ \A k \in 1..m : k \in 1..(m + n) /\ k <= m
        /\ \A k \in (m + 1)..(m + n) : k \in 1..(m + n) /\ ~(k <= m) /\ k - m \in 1..n
        /\ \A k \in 1..n : k + m \in (m + 1)..(m + n) /\ (k + m) - m = k
    BY ONLY <2>1
  <2> QED  BY <2>1, <2>2, <2>3 DEF m, n
<1>3. ASSUME NEW i \in 1..Len(u), NEW j \in 1..Len(u), i < j  PROVE <<u[i], u[j]>> \in R
  <2>1. CASE j <= Len(s)
    <3>1. i \in 1..Len(s) /\ j \in 1..Len(s) /\ u[i] = s[i] /\ u[j] = s[j]
      BY <1>1, <1>2, <1>3, <2>1
    <3> QED  BY <1>3, <3>1 DEF OrderedBy
  <2>2. CASE i <= Len(s) /\ j > Len(s)
    <3>1. i \in 1..Len(s) /\ j - Len(s) \in 1..Len(t) /\ u[i] = s[i] /\ u[j] = t[j - Len(s)]
      BY <1>1, <1>2, <2>2
    <3> QED  BY <3>1 DEF Elements
  <2>3. CASE i > Len(s)
    <3>1. i - Len(s) \in 1..Len(t) /\ j - Len(s) \in 1..Len(t) /\ i - Len(s) < j - Len(s)
      BY <1>1, <1>2, <1>3, <2>3
    <3>2. u[i] = t[i - Len(s)] /\ u[j] = t[j - Len(s)]
      BY <1>1, <1>2, <1>3, <2>3
    <3> QED  BY <3>1, <3>2 DEF OrderedBy
  <2> QED  BY <1>1, <2>1, <2>2, <2>3
<1>4. ASSUME NEW x  PROVE x \in Elements(u) <=> x \in Elements(s) \/ x \in Elements(t)
  <2>1. ASSUME x \in Elements(u)  PROVE x \in Elements(s) \/ x \in Elements(t)
    <3>1. PICK k \in 1..Len(u) : x = u[k]
      BY <2>1 DEF Elements
    <3>2. k \in 1..Len(s) \/ k \in (Len(s) + 1)..Len(u)
      BY <1>1
    <3> QED  BY <1>2, <3>1, <3>2 DEF Elements
  <2>2. ASSUME x \in Elements(s)  PROVE x \in Elements(u)
    BY <1>2, <2>2 DEF Elements
  <2>3. ASSUME x \in Elements(t)  PROVE x \in Elements(u)
    BY <1>2, <2>3 DEF Elements
  <2> QED  BY <2>1, <2>2, <2>3
<1> QED  BY <1>1, <1>3, <1>4 DEF OrderedBy, u

\* There is one way to put elements in order.
LEMMA OrderedUnique ==
  ASSUME NEW X, NEW s \in Seq(X), NEW t \in Seq(X), NEW R, Asymmetric(R),
         OrderedBy(R, s), OrderedBy(R, t), Elements(s) = Elements(t)
  PROVE  s = t
<1>1. Len(s) \in Nat /\ Len(t) \in Nat
  OBVIOUS
<1>2. /\ \A k \in 1..Len(s) : \E m \in 1..Len(t) : t[m] = s[k]
      /\ \A k \in 1..Len(t) : \E m \in 1..Len(s) : s[m] = t[k]
  BY DEF Elements
<1> DEFINE T == {n \in Nat : \A j \in 1..n : /\ j <= Len(s) <=> j <= Len(t)
                                             /\ j <= Len(s) => s[j] = t[j]}
<1>3. 0 \in T
  OBVIOUS
<1>4. ASSUME NEW n \in Nat, n \in T  PROVE n + 1 \in T
  <2> DEFINE N == n + 1
  <2>1. N \in Nat /\ N > n /\ N > 0
    OBVIOUS
  <2>2. ASSUME NEW j \in 1..n  PROVE /\ j <= Len(s) <=> j <= Len(t)
                                     /\ j <= Len(s) => s[j] = t[j]
    BY <1>4
  <2>3. \A m \in Nat : m >= N \/ m <= n
    BY <2>1
  <2> HIDE DEF N, T
  \* An element that the one has at N stands in the other at N or later.
  <2>4. ASSUME N <= Len(s)  PROVE \E m \in 1..Len(t) : m >= N /\ t[m] = s[N]
    <3>1. N \in 1..Len(s)
      BY <1>1, <2>1, <2>4
    <3>2. PICK m \in 1..Len(t) : t[m] = s[N]
      BY <1>2, <3>1
    <3>3. ASSUME m <= n  PROVE FALSE
      <4>1. m \in 1..n /\ m \in 1..Len(s) /\ s[m] = t[m] /\ m < N
        BY <1>1, <2>1, <2>2, <3>3
      <4>2. <<s[m], s[N]>> \in R
        BY <3>1, <4>1 DEF OrderedBy
      <4> QED  BY <3>2, <4>1, <4>2 DEF Asymmetric
    <3> QED  BY <1>1, <2>3, <3>2, <3>3
  <2>5. ASSUME N <= Len(t)  PROVE \E m \in 1..Len(s) : m >= N /\ s[m] = t[N]
    <3>1. N \in 1..Len(t)
      BY <1>1, <2>1, <2>5
    <3>2. PICK m \in 1..Len(s) : s[m] = t[N]
      BY <1>2, <3>1
    <3>3. ASSUME m <= n  PROVE FALSE
      <4>1. m \in 1..n /\ m \in 1..Len(t) /\ s[m] = t[m] /\ m < N
        BY <1>1, <2>1, <2>2, <3>3
      <4>2. <<t[m], t[N]>> \in R
        BY <3>1, <4>1 DEF OrderedBy
      <4> QED  BY <3>2, <4>1, <4>2 DEF Asymmetric
    <3> QED  BY <1>1, <2>3, <3>2, <3>3
  <2>6. N <= Len(s) <=> N <= Len(t)
    BY <1>1, <2>1, <2>4, <2>5
  <2>7. ASSUME N <= Len(s)  PROVE s[N] = t[N]
    <3>1. PICK m \in 1..Len(t) : m >= N /\ t[m] = s[N]
      BY <2>4, <2>7
    <3>2. PICK l \in 1..Len(s) : l >= N /\ s[l] = t[N]
      BY <2>5, <2>6, <2>7
    <3>3. N \in 1..Len(s) /\ N \in 1..Len(t)
      BY <1>1, <2>1, <2>6, <2>7
    <3>4. CASE m = N
      BY <3>1, <3>4
    <3>5. CASE l = N
      BY <3>2, <3>5
    <3>6. CASE m > N /\ l > N
      <4>1. <<t[N], t[m]>> \in R /\ <<s[N], s[l]>> \in R
        BY <3>1, <3>2, <3>3, <3>6 DEF OrderedBy
      <4> QED  BY <3>1, <3>2, <4>1 DEF Asymmetric
    <3> QED  BY <1>1, <2>1, <3>1, <3>2, <3>4, <3>5, <3>6
  <2>8. \A j \in 1..N : j \in 1..n \/ j = N
    BY <2>1 DEF N
  <2>9. \A j \in 1..N : /\ j <= Len(s) <=> j <= Len(t)
                        /\ j <= Len(s) => s[j] = t[j]
    BY <2>2, <2>6, <2>7, <2>8
  <2> QED  BY <2>1, <2>9 DEF T, N
<1>5. Nat \subseteq T
  <2> HIDE DEF T
  <2> QED  BY <1>3, <1>4, Induction
<1>6. \A j \in Nat : j > 0 => /\ j <= Len(s) <=> j <= Len(t)
                              /\ j <= Len(s) => s[j] = t[j]
  BY <1>5
<1>7. Len(s) = Len(t)
  BY <1>1, <1>6
<1> QED  BY <1>1, <1>6, <1>7, SeqEqual

==============================================================================
