---------------------------- MODULE RegistryProofs ----------------------------
(***************************************************************************)
(* Proofs about the registry and the advice functions registered in it.    *)
(*                                                                         *)
(* What is registered is ordered, with no number twice, and so is what a   *)
(* call has copied: the loop of apply_aspects puts the copy back in the    *)
(* order of the vector, and what happens to the registry later does not    *)
(* touch it.                                                               *)
(***************************************************************************)
EXTENDS AdviceRegistration, SubsequenceProofs, FiniteSetTheorems

-----------------------------------------------------------------------------
(* Sequences of aspects *)

AspectSeq == Seq(RegisteredAspect)

\* Ordered, and no number twice.
Nested(s) == \A i, j \in 1..Len(s) :
               i < j => Precedes(s[i], s[j]) /\ s[i].id # s[j].id

LEMMA AspectTyped ==
  ASSUME NEW a \in RegisteredAspect
  PROVE  a.order \in Int /\ a.id \in Int /\ a.id \in 1..MaxRegistrations
         /\ a.order \in Orders /\ a.fns \in SUBSET Targets
<1>1. a.order \in Orders /\ a.fns \in SUBSET Targets /\ a.id \in 1..MaxRegistrations
  BY DEF RegisteredAspect
<1>2. Orders \subseteq Int /\ MaxRegistrations \in Nat
  BY RegistryAssumption DEF RegistryAssumption
<1>3. a.order \in Int
  BY <1>1, <1>2
<1>4. a.id \in Int
  BY <1>1, <1>2
<1> QED  BY <1>1, <1>3, <1>4

\* Leaving elements out disturbs nothing.
LEMMA NestedPart ==
  ASSUME NEW s \in AspectSeq, Nested(s), NEW t \in AspectSeq,
         NEW e \in [1..Len(t) -> 1..Len(s)],
         \A j, k \in 1..Len(t) : j < k => e[j] < e[k],
         \A k \in 1..Len(t) : t[k] = s[e[k]]
  PROVE  Nested(t)
BY DEF Nested

LEMMA NestedOnly ==
  ASSUME NEW s \in AspectSeq, Nested(s), NEW S
  PROVE  Only(s, S) \in AspectSeq /\ Nested(Only(s, S))
<1>1. Only(s, S) \in AspectSeq /\ \E e : Enumerates(e, Len(s), Only(s, S), s, S)
  BY OnlyEnumerates DEF AspectSeq
<1>2. PICK e : Enumerates(e, Len(s), Only(s, S), s, S)
  BY <1>1
<1> QED  BY <1>1, <1>2, NestedPart DEF Enumerates

LEMMA NestedConcat ==
  ASSUME NEW s \in AspectSeq, NEW t \in AspectSeq, Nested(s), Nested(t),
         \A i \in 1..Len(s), j \in 1..Len(t) : Precedes(s[i], t[j]) /\ s[i].id # t[j].id
  PROVE  s \o t \in AspectSeq /\ Nested(s \o t)
<1>1. /\ s \o t \in AspectSeq
      /\ Len(s \o t) = Len(s) + Len(t)
      /\ Len(s) \in Nat /\ Len(t) \in Nat
      /\ \A i \in 1..(Len(s) + Len(t)) :
           (s \o t)[i] = IF i <= Len(s) THEN s[i] ELSE t[i - Len(s)]
  BY ConcatProperties DEF AspectSeq
<1> DEFINE u == s \o t
<1> SUFFICES ASSUME NEW i \in 1..Len(u), NEW j \in 1..Len(u), i < j
             PROVE  Precedes(u[i], u[j]) /\ u[i].id # u[j].id
  BY <1>1 DEF Nested
<1> HIDE DEF u
<1>2. /\ Len(u) = Len(s) + Len(t)
      /\ \A k \in 1..Len(s) : u[k] = s[k]
      /\ \A k \in (Len(s) + 1)..Len(u) : u[k] = t[k - Len(s)] /\ k - Len(s) \in 1..Len(t)
  BY <1>1 DEF u
<1>3. CASE j <= Len(s)
  BY <1>1, <1>2, <1>3 DEF Nested
<1>4. CASE i <= Len(s) /\ j > Len(s)
  BY <1>1, <1>2, <1>4
<1>5. CASE i > Len(s)
  <2>1. i - Len(s) \in 1..Len(t) /\ j - Len(s) \in 1..Len(t) /\ i - Len(s) < j - Len(s)
    BY <1>1, <1>2, <1>5
  <2> QED  BY <1>1, <1>2, <1>5, <2>1 DEF Nested
<1> QED  BY <1>1, <1>3, <1>4, <1>5

\* An aspect with a new number is put where it belongs, and nothing is lost.
LEMMA PushKeepsOrder ==
  ASSUME NEW s \in AspectSeq, Nested(s), NEW a \in RegisteredAspect,
         \A i \in 1..Len(s) : s[i].id < a.id
  PROVE  LET t == PushAndSort(s, a) IN
         /\ t \in AspectSeq /\ Nested(t) /\ Len(t) <= Len(s) + 1
         /\ \A k \in 1..Len(t) : t[k] = a \/ \E i \in 1..Len(s) : t[k] = s[i]
         /\ ToSet(s) \subseteq ToSet(t)
<1> DEFINE Lo == {b \in ToSet(s) : b.order <= a.order}
           Hi == {b \in ToSet(s) : b.order > a.order}
           lo == Only(s, Lo)
           hi == Only(s, Hi)
           t == (lo \o <<a>>) \o hi
<1>1. t = PushAndSort(s, a)
  BY DEF PushAndSort
<1>2. \A i \in 1..Len(s) : s[i] \in RegisteredAspect /\ s[i] \in ToSet(s)
  BY DEF AspectSeq, ToSet
<1>3. lo \in AspectSeq /\ hi \in AspectSeq /\ Nested(lo) /\ Nested(hi)
  <2> HIDE DEF Lo, Hi
  <2> QED  BY NestedOnly
<1>4. PICK el : Enumerates(el, Len(s), lo, s, Lo)
  <2> HIDE DEF Lo
  <2> QED  BY OnlyEnumerates DEF AspectSeq
<1>5. PICK eh : Enumerates(eh, Len(s), hi, s, Hi)
  <2> HIDE DEF Hi
  <2> QED  BY OnlyEnumerates DEF AspectSeq
<1>6. \A k \in 1..Len(lo) : \E i \in 1..Len(s) : lo[k] = s[i] /\ s[i].order <= a.order
  <2> HIDE DEF lo, Lo
  <2>1. \A k \in 1..Len(lo) : el[k] \in 1..Len(s) /\ lo[k] = s[el[k]] /\ lo[k] \in Lo
    BY <1>4 DEF Enumerates
  <2>2. \A b \in Lo : b.order <= a.order
    BY DEF Lo
  <2> QED  BY <2>1, <2>2
<1>7. \A k \in 1..Len(hi) : \E i \in 1..Len(s) : hi[k] = s[i] /\ s[i].order > a.order
  <2> HIDE DEF hi, Hi
  <2>1. \A k \in 1..Len(hi) : eh[k] \in 1..Len(s) /\ hi[k] = s[eh[k]] /\ hi[k] \in Hi
    BY <1>5 DEF Enumerates
  <2>2. \A b \in Hi : b.order > a.order
    BY DEF Hi
  <2> QED  BY <2>1, <2>2
<1>8. Len(lo) + Len(hi) <= Len(s)
  <2>1. Lo \cap Hi = {}
    <3>1. ToSet(s) \subseteq RegisteredAspect
      BY <1>2 DEF AspectSeq, ToSet
    <3>2. \A b \in ToSet(s) : b.order \in Int /\ a.order \in Int
      BY <3>1, AspectTyped
    <3> QED  BY <3>2
  <2> HIDE DEF Lo, Hi
  <2> QED  BY <2>1, OnlyDivides DEF AspectSeq
<1>9. \A i \in 1..Len(s) : \/ \E k \in 1..Len(lo) : lo[k] = s[i]
                           \/ \E k \in 1..Len(hi) : hi[k] = s[i]
  <2> SUFFICES ASSUME NEW i \in 1..Len(s)
               PROVE  \/ \E k \in 1..Len(lo) : lo[k] = s[i]
                      \/ \E k \in 1..Len(hi) : hi[k] = s[i]
    OBVIOUS
  <2>1. s[i].order \in Int /\ a.order \in Int
    BY <1>2, AspectTyped
  <2>2. s[i] \in Lo \/ s[i] \in Hi
    BY <1>2, <2>1
  <2> HIDE DEF lo, hi, Lo, Hi
  <2>3. CASE s[i] \in Lo
    <3>1. PICK k \in 1..Len(lo) : el[k] = i
      BY <1>4, <2>3 DEF Enumerates
    <3>2. lo[k] = s[i]
      BY <1>4, <3>1 DEF Enumerates
    <3> QED  BY <3>2
  <2>4. CASE s[i] \in Hi
    <3>1. PICK k \in 1..Len(hi) : eh[k] = i
      BY <1>5, <2>4 DEF Enumerates
    <3>2. hi[k] = s[i]
      BY <1>5, <3>1 DEF Enumerates
    <3> QED  BY <3>2
  <2> QED  BY <2>2, <2>3, <2>4
<1> HIDE DEF lo, hi, Lo, Hi
<1>10. <<a>> \in AspectSeq /\ Nested(<<a>>)
  BY DEF AspectSeq, Nested
<1>11. lo \o <<a>> \in AspectSeq /\ Nested(lo \o <<a>>)
  <2>1. ASSUME NEW i \in 1..Len(lo), NEW j \in 1..Len(<<a>>)
        PROVE  Precedes(lo[i], <<a>>[j]) /\ lo[i].id # <<a>>[j].id
    <3>1. <<a>>[j] = a
      OBVIOUS
    <3>2. PICK k \in 1..Len(s) : lo[i] = s[k] /\ s[k].order <= a.order
      BY <1>6
    <3>3. s[k].id < a.id /\ s[k].id \in Int /\ a.id \in Int /\ s[k].order \in Int /\ a.order \in Int
      BY <1>2, AspectTyped
    <3> QED  BY <3>1, <3>2, <3>3 DEF Precedes
  <2> QED  BY <1>3, <1>10, <2>1, NestedConcat
<1>12. /\ Len(lo \o <<a>>) = Len(lo) + 1 /\ Len(lo) \in Nat
       /\ \A k \in 1..Len(lo) : (lo \o <<a>>)[k] = lo[k]
       /\ (lo \o <<a>>)[Len(lo) + 1] = a
  BY <1>3, <1>10 DEF AspectSeq
<1>13. t \in AspectSeq /\ Nested(t)
  <2> DEFINE u == lo \o <<a>>
  <2> HIDE DEF u
  <2>1. ASSUME NEW i \in 1..Len(u), NEW j \in 1..Len(hi)
        PROVE  Precedes(u[i], hi[j]) /\ u[i].id # hi[j].id
    <3>1. PICK k \in 1..Len(s) : hi[j] = s[k] /\ s[k].order > a.order
      BY <1>7
    <3>2. s[k].id < a.id /\ s[k].id \in Int /\ a.id \in Int /\ s[k].order \in Int /\ a.order \in Int
      BY <1>2, AspectTyped
    <3>3. CASE i = Len(lo) + 1
      BY <1>12, <3>1, <3>2, <3>3 DEF Precedes, u
    <3>4. CASE i # Len(lo) + 1
      <4>1. i \in 1..Len(lo) /\ u[i] = lo[i]
        BY <1>12, <3>4 DEF u
      <4>2. PICK m \in 1..Len(s) : lo[i] = s[m] /\ s[m].order <= a.order
        BY <1>6, <4>1
      <4>3. s[m].order \in Int /\ s[m].order < s[k].order
        BY <1>2, <3>1, <3>2, <4>2, AspectTyped
      <4>4. s[m].id # s[k].id
        <5>1. m # k
          BY <3>2, <4>3
        <5> QED  BY <5>1 DEF Nested, AspectSeq
      <4> QED  BY <3>1, <4>1, <4>2, <4>3, <4>4 DEF Precedes
    <3> QED  BY <3>3, <3>4
  <2>2. u \o hi \in AspectSeq /\ Nested(u \o hi)
    BY <1>3, <1>11, <2>1, NestedConcat DEF u
  <2> QED  BY <2>2 DEF u
<1>14. /\ Len(t) = Len(lo) + 1 + Len(hi) /\ Len(hi) \in Nat
       /\ \A k \in 1..(Len(lo) + 1) : t[k] = (lo \o <<a>>)[k]
       /\ \A k \in 1..Len(hi) : t[Len(lo) + 1 + k] = hi[k]
       /\ \A k \in 1..Len(t) : k \in 1..Len(lo) \/ k = Len(lo) + 1
                                 \/ k - (Len(lo) + 1) \in 1..Len(hi)
  BY <1>3, <1>11, <1>12 DEF AspectSeq
<1> HIDE DEF t
<1>15. ASSUME NEW k \in 1..Len(t)  PROVE t[k] = a \/ \E i \in 1..Len(s) : t[k] = s[i]
  <2>1. CASE k \in 1..Len(lo)
    <3>1. t[k] = lo[k]
      BY <1>12, <1>14, <2>1
    <3> QED  BY <1>6, <2>1, <3>1
  <2>2. CASE k = Len(lo) + 1
    BY <1>12, <1>14, <2>2
  <2>3. CASE k - (Len(lo) + 1) \in 1..Len(hi)
    <3>1. t[k] = hi[k - (Len(lo) + 1)]
      BY <1>12, <1>14, <2>3
    <3> QED  BY <1>7, <2>3, <3>1
  <2> QED  BY <1>14, <2>1, <2>2, <2>3
<1>16. ASSUME NEW i \in 1..Len(s)  PROVE s[i] \in ToSet(t)
  <2>0. DOMAIN t = 1..Len(t)
    BY <1>13 DEF AspectSeq
  <2>1. CASE \E k \in 1..Len(lo) : lo[k] = s[i]
    <3>1. PICK k \in 1..Len(lo) : lo[k] = s[i]
      BY <2>1
    <3>2. k \in 1..(Len(lo) + 1) /\ k \in 1..Len(t)
      BY <1>12, <1>14
    <3>3. t[k] = s[i]
      BY <1>12, <1>14, <3>1, <3>2
    <3> QED  BY <2>0, <3>2, <3>3 DEF ToSet
  <2>2. CASE \E k \in 1..Len(hi) : hi[k] = s[i]
    <3>1. PICK k \in 1..Len(hi) : hi[k] = s[i]
      BY <2>2
    <3>2. Len(lo) + 1 + k \in 1..Len(t) /\ t[Len(lo) + 1 + k] = s[i]
      BY <1>12, <1>14, <3>1
    <3> QED  BY <2>0, <3>2 DEF ToSet
  <2> QED  BY <1>9, <2>1, <2>2
<1>17. ToSet(s) \subseteq ToSet(t)
  BY <1>16 DEF ToSet, AspectSeq
<1>18. Len(t) <= Len(s) + 1
  BY <1>8, <1>12, <1>14 DEF AspectSeq
<1> QED  BY <1>1, <1>13, <1>15, <1>17, <1>18

-----------------------------------------------------------------------------
(* The loop that chains the join points *)

WrapsIn(m) == [k \in 1..Len(m) |-> [v \in AspectSeq |-> Wrap(v, m[Len(m) + 1 - k])]]

\* After k rounds pjp is what is left of m from the k-th aspect from its end on.
LEMMA ChainRounds ==
  ASSUME NEW m \in AspectSeq, NEW pjp,
         pjp = [k \in 0..Len(m) |->
                  IF k = 0 THEN << >> ELSE Wrap(pjp[k - 1], m[Len(m) + 1 - k])]
  PROVE  pjp[Len(m)] = m
<1> DEFINE n == Len(m)
           IsRest(k) == /\ pjp[k] \in AspectSeq /\ Len(pjp[k]) = k
                        /\ \A i \in 1..k : pjp[k][i] = m[n - k + i]
           T == {k \in 0..n : IsRest(k)}
<1>1. n \in Nat /\ \A i \in 1..n : m[i] \in RegisteredAspect
  BY DEF AspectSeq
<1>2. pjp[0] = << >> /\ \A k \in 1..n : pjp[k] = <<m[n + 1 - k]>> \o pjp[k - 1]
  <2> DEFINE Round(k) == IF k = 0 THEN << >> ELSE Wrap(pjp[k - 1], m[n + 1 - k])
  <2>1. pjp = [k \in 0..n |-> Round(k)]
    OBVIOUS
  <2>2. \A k \in 0..n : pjp[k] = Round(k)
    <3> HIDE DEF Round
    <3> QED  BY <2>1
  <2>3. \A k \in 1..n : Round(k) = <<m[n + 1 - k]>> \o pjp[k - 1]
    BY DEF Wrap
  <2>4. Round(0) = << >>
    OBVIOUS
  <2> HIDE DEF Round, n
  <2>5. 0 \in 0..n /\ \A k \in 1..n : k \in 0..n
    BY <1>1
  <2> QED  BY <2>2, <2>3, <2>4, <2>5
<1> HIDE DEF n
<1>3. 0 \in T
  BY <1>1, <1>2 DEF AspectSeq
<1>4. ASSUME NEW k \in 0..(n - 1), k \in T  PROVE k + 1 \in T
  <2> DEFINE a == m[n - k]
             rest == pjp[k]
  <2>1. /\ k \in Nat /\ k + 1 \in 1..n /\ n - k \in 1..n /\ n + 1 - (k + 1) = n - k
        /\ a \in RegisteredAspect /\ rest \in AspectSeq /\ Len(rest) = k
        /\ \A i \in 1..k : rest[i] = m[n - k + i]
    BY <1>1, <1>4
  <2>2. pjp[k + 1] = <<a>> \o rest
    <3>1. (k + 1) - 1 = k
      BY <2>1
    <3>2. pjp[k + 1] = <<m[n + 1 - (k + 1)]>> \o pjp[(k + 1) - 1]
      BY <1>2, <2>1
    <3> QED  BY <2>1, <3>1, <3>2
  <2> HIDE DEF a, rest, T
  <2>3. <<a>> \in AspectSeq /\ Len(<<a>>) = 1 /\ <<a>>[1] = a
    BY <2>1 DEF AspectSeq
  <2>4. /\ <<a>> \o rest \in AspectSeq /\ Len(<<a>> \o rest) = 1 + k
        /\ \A i \in 1..(1 + k) : (<<a>> \o rest)[i] = IF i <= 1 THEN <<a>>[i] ELSE rest[i - 1]
    BY <2>1, <2>3, ConcatProperties DEF AspectSeq
  <2>5. ASSUME NEW i \in 1..(k + 1)  PROVE (<<a>> \o rest)[i] = m[n - (k + 1) + i]
    <3>1. CASE i = 1
      <4>1. n - (k + 1) + i = n - k
        BY <1>1, <2>1, <3>1
      <4> QED  BY <2>1, <2>3, <2>4, <3>1, <4>1 DEF a
    <3>2. CASE i # 1
      <4>1. i - 1 \in 1..k /\ n - k + (i - 1) = n - (k + 1) + i
        BY <1>1, <2>1, <3>2
      <4>2. (<<a>> \o rest)[i] = rest[i - 1]
        BY <2>1, <2>4, <3>2
      <4> QED  BY <2>1, <4>1, <4>2
    <3> QED  BY <3>1, <3>2
  <2>6. IsRest(k + 1)
    <3>1. 1 + k = k + 1
      BY <2>1
    <3> QED  BY <2>2, <2>4, <2>5, <3>1
  <2> QED  BY <2>1, <2>6 DEF T
<1>5. n \in T
  <2>1. 0..n \subseteq T
    <3> HIDE DEF T
    <3> QED  BY <1>1, <1>3, <1>4, InductionTo
  <2> HIDE DEF T
  <2> QED  BY <1>1, <2>1
<1>6. pjp[n] \in AspectSeq /\ Len(pjp[n]) = n /\ \A i \in 1..n : pjp[n][i] = m[i]
  <2>1. IsRest(n)
    BY <1>5
  <2>2. \A i \in 1..n : n - n + i = i
    BY <1>1
  <2> QED  BY <2>1, <2>2
<1> QED  BY <1>6, SeqEqual DEF AspectSeq, n

\* The loop runs backwards and wraps, so its result is in the order of the copy.
THEOREM ChainKeepsTheOrder ==
  ASSUME NEW m \in AspectSeq
  PROVE  Chain(m) = m
<1> DEFINE n == Len(m)
           Def(g) == [k \in 0..n |-> IF k = 0 THEN << >> ELSE Wrap(g[k - 1], m[n + 1 - k])]
           pjp == CHOOSE g : g = Def(g)
           step == WrapsIn(m)
<1>1. n \in Nat /\ \A i \in 1..n : m[i] \in RegisteredAspect
  BY DEF AspectSeq
<1>2. ASSUME NEW k \in 1..n, NEW v \in AspectSeq
      PROVE  step[k][v] = Wrap(v, m[n + 1 - k]) /\ step[k][v] \in AspectSeq
  <2>1. n + 1 - k \in 1..n
    BY <1>1
  <2>2. step[k][v] = Wrap(v, m[n + 1 - k])
    BY DEF WrapsIn
  <2>3. Wrap(v, m[n + 1 - k]) \in AspectSeq
    BY <1>1, <2>1 DEF AspectSeq, Wrap
  <2> QED  BY <2>2, <2>3
<1>3. StepsIn(AspectSeq, n, step)
  <2>1. ASSUME NEW k \in 1..n  PROVE step[k] \in [AspectSeq -> AspectSeq]
    <3>1. step[k] = [v \in AspectSeq |-> step[k][v]]
      BY DEF WrapsIn
    <3> HIDE DEF step
    <3> QED  BY <1>2, <3>1
  <2>2. step = [k \in 1..n |-> step[k]]
    BY DEF WrapsIn
  <2> HIDE DEF step
  <2> QED  BY <2>1, <2>2 DEF StepsIn
<1>4. PICK g : Recurses(g, AspectSeq, << >>, n, step)
  <2> DEFINE base == << >>
  <2>1. base \in AspectSeq
    BY DEF AspectSeq
  <2> HIDE DEF n, step, base
  <2>2. \E g : Recurses(g, AspectSeq, base, n, step)
    BY <1>1, <1>3, <2>1, Recursion
  <2> QED  BY <2>2 DEF base
<1>5. g = Def(g)
  <2> HIDE DEF step, n
  <2>1. ASSUME NEW k \in 1..n  PROVE g[k] = Wrap(g[k - 1], m[n + 1 - k])
    <3>1. g[k - 1] \in AspectSeq /\ g[k] = step[k][g[k - 1]]
      BY <1>1, <1>4 DEF Recurses
    <3> QED  BY <1>2, <3>1
  <2>2. ASSUME NEW k \in 0..n  PROVE g[k] = Def(g)[k]
    <3>1. CASE k = 0
      BY <3>1, <1>4 DEF Recurses
    <3>2. CASE k # 0
      <4>1. k \in 1..n
        BY <3>2, <1>1
      <4>2. Def(g)[k] = Wrap(g[k - 1], m[n + 1 - k])
        BY <3>2
      <4> QED  BY <4>1, <4>2, <2>1
    <3> QED  BY <3>1, <3>2
  <2>3. g = [k \in 0..n |-> g[k]]
    BY <1>4 DEF Recurses
  <2>4. Def(g) = [k \in 0..n |-> Def(g)[k]]
    OBVIOUS
  <2> HIDE DEF Def
  <2> QED  BY <2>2, <2>3, <2>4
<1>6. pjp = Def(pjp)
  <2> HIDE DEF Def
  <2> QED  BY <1>5
<1>7. Chain(m) = pjp[n]
  BY DEF Chain
<1> HIDE DEF pjp
<1> QED  BY <1>6, <1>7, ChainRounds

-----------------------------------------------------------------------------
(* The arguments of the attribute *)

Pointcuts == [parses : BOOLEAN, fns : SUBSET Targets] \cup {NoPointcut}

\* Any value can stand where a kind is expected.
KindsWritten ==
  UNION {{Written[a][i].value : i \in 1..Len(Written[a])} : a \in AdviceFunctions}

AdviceArgs == [ok : BOOLEAN, pointcut : Pointcuts, kind : Kinds \cup KindsWritten,
               order : Orders]

LEMMA NoArgsTyped == NoArgs \in AdviceArgs /\ NoPointcut.fns = {} /\ NoArgs.order = 0
                     /\ NoArgs.pointcut = NoPointcut
<1>1. 0 \in Orders
  BY AdviceAssumption DEF AdviceAssumption
<1> QED  BY <1>1 DEF NoArgs, AdviceArgs, Pointcuts, NoPointcut, Kinds

LEMMA ParseArgumentTyped ==
  ASSUME NEW a \in AdviceFunctions, NEW i \in 1..Len(Written[a]), NEW v \in AdviceArgs
  PROVE  LET arg == Written[a][i]
             w == ParseArgument(v, arg) IN
         /\ w \in AdviceArgs
         /\ w.pointcut = IF arg.key = "pointcut" THEN arg.value ELSE v.pointcut
         /\ arg.key = "order" => (arg.value >= 0 => w.order = arg.value)
         /\ arg.key # "order" => w.order = v.order
<1> DEFINE arg == Written[a][i]
<1>1. /\ arg.key = "pointcut" => arg.value \in [parses : BOOLEAN, fns : SUBSET Targets]
      /\ arg.value \in KindsWritten
      /\ arg.key = "order" => arg.value \in Int
      /\ arg.key = "order" /\ arg.value >= 0 => arg.value \in Orders
  BY AdviceAssumption DEF AdviceAssumption, KindsWritten
<1> HIDE DEF arg
<1>2. CASE arg.key = "pointcut"
  <2>1. ParseArgument(v, arg) = [v EXCEPT !.pointcut = arg.value]
    BY <1>2 DEF ParseArgument
  <2>2. arg.value \in Pointcuts
    BY <1>1, <1>2 DEF Pointcuts
  <2> QED  BY <1>2, <2>1, <2>2 DEF AdviceArgs, arg
<1>3. CASE arg.key = "advice"
  <2>1. ParseArgument(v, arg) = [v EXCEPT !.kind = arg.value]
    BY <1>3 DEF ParseArgument
  <2> QED  BY <1>1, <1>3, <2>1 DEF AdviceArgs, arg
<1>4. CASE arg.key = "order"
  <2>1. ParseArgument(v, arg) = IF arg.value >= 0 THEN [v EXCEPT !.order = arg.value] ELSE v
    BY <1>4 DEF ParseArgument
  <2> QED  BY <1>1, <1>4, <2>1 DEF AdviceArgs, arg
<1>5. CASE arg.key \notin {"pointcut", "advice", "order"}
  <2>1. ParseArgument(v, arg) = [v EXCEPT !.ok = FALSE]
    BY <1>5 DEF ParseArgument
  <2> QED  BY <1>5, <2>1 DEF AdviceArgs, arg
<1> QED  BY <1>2, <1>3, <1>4, <1>5

ParsesEach(a) ==
  [i \in 1..Len(Written[a]) |-> [v \in AdviceArgs |-> ParseArgument(v, Written[a][i])]]

\* ArgsOf is the last value of the function that its definition recurses with.
LEMMA ArgsOfIsDefined ==
  ASSUME NEW a \in AdviceFunctions
  PROVE  /\ Len(Written[a]) \in Nat
         /\ \E args : /\ args \in [0..Len(Written[a]) -> AdviceArgs] /\ args[0] = NoArgs
                      /\ \A i \in 1..Len(Written[a]) :
                           args[i] = ParseArgument(args[i - 1], Written[a][i])
                      /\ ArgsOf(a) = args[Len(Written[a])]
<1> DEFINE n == Len(Written[a])
           Def(g) == [i \in 0..n |-> IF i = 0 THEN NoArgs
                                     ELSE ParseArgument(g[i - 1], Written[a][i])]
           args == CHOOSE g : g = Def(g)
           step == ParsesEach(a)
<1>1. n \in Nat
  BY AdviceAssumption DEF AdviceAssumption
<1>2. ASSUME NEW i \in 1..n, NEW v \in AdviceArgs
      PROVE  step[i][v] = ParseArgument(v, Written[a][i]) /\ step[i][v] \in AdviceArgs
  <2>1. step[i][v] = ParseArgument(v, Written[a][i])
    BY DEF ParsesEach
  <2> QED  BY <2>1, ParseArgumentTyped
<1>3. StepsIn(AdviceArgs, n, step)
  <2>1. ASSUME NEW i \in 1..n  PROVE step[i] \in [AdviceArgs -> AdviceArgs]
    <3>1. step[i] = [v \in AdviceArgs |-> step[i][v]]
      BY DEF ParsesEach
    <3> HIDE DEF step
    <3> QED  BY <1>2, <3>1
  <2>2. step = [i \in 1..n |-> step[i]]
    BY DEF ParsesEach
  <2> HIDE DEF step
  <2> QED  BY <2>1, <2>2 DEF StepsIn
<1>4. PICK g : Recurses(g, AdviceArgs, NoArgs, n, step)
  <2> HIDE DEF n, step
  <2> QED  BY <1>1, <1>3, NoArgsTyped, Recursion
<1>5. g = Def(g)
  <2> HIDE DEF step, n
  <2>1. ASSUME NEW i \in 1..n  PROVE g[i] = ParseArgument(g[i - 1], Written[a][i])
    <3>1. g[i - 1] \in AdviceArgs /\ g[i] = step[i][g[i - 1]]
      BY <1>1, <1>4 DEF Recurses
    <3> QED  BY <1>2, <3>1
  <2>2. ASSUME NEW i \in 0..n  PROVE g[i] = Def(g)[i]
    <3>1. CASE i = 0
      BY <3>1, <1>4 DEF Recurses
    <3>2. CASE i # 0
      <4>1. i \in 1..n
        BY <3>2, <1>1
      <4>2. Def(g)[i] = ParseArgument(g[i - 1], Written[a][i])
        BY <3>2
      <4> QED  BY <4>1, <4>2, <2>1
    <3> QED  BY <3>1, <3>2
  <2>3. g = [i \in 0..n |-> g[i]]
    BY <1>4 DEF Recurses
  <2>4. Def(g) = [i \in 0..n |-> Def(g)[i]]
    OBVIOUS
  <2> HIDE DEF Def
  <2> QED  BY <2>2, <2>3, <2>4
<1>6. args = Def(args)
  <2> HIDE DEF Def
  <2> QED  BY <1>5
<1>7. Recurses(args, AdviceArgs, NoArgs, n, step)
  <2> HIDE DEF args, n, step
  <2>1. args[0] = NoArgs /\ IsFunctionOn(args, 0..n)
    <3>1. 0 \in 0..n
      BY <1>1
    <3>2. args = [i \in 0..n |-> args[i]] /\ args[0] = Def(args)[0]
      BY <1>6
    <3> QED  BY <3>1, <3>2 DEF IsFunctionOn
  <2>2. ASSUME NEW i \in 1..n, args[i - 1] \in AdviceArgs
        PROVE  args[i] = step[i][args[i - 1]]
    <3>1. i \in 0..n /\ i # 0
      BY <1>1
    <3>2. Def(args)[i] = ParseArgument(args[i - 1], Written[a][i])
      BY <3>1
    <3>3. args[i] = ParseArgument(args[i - 1], Written[a][i])
      <4> HIDE DEF Def
      <4> QED  BY <1>6, <3>2
    <3> QED  BY <1>2, <2>2, <3>3
  <2> HIDE DEF Def
  <2> QED  BY <1>1, <1>3, <2>1, <2>2, NoArgsTyped, RecursionStays
<1>8. ArgsOf(a) = args[n]
  BY DEF ArgsOf
<1> HIDE DEF args
<1>9. \A i \in 1..n : args[i] = ParseArgument(args[i - 1], Written[a][i])
  <2> HIDE DEF n, step
  <2>1. \A i \in 1..n : args[i - 1] \in AdviceArgs /\ args[i] = step[i][args[i - 1]]
    BY <1>1, <1>7 DEF Recurses
  <2> QED  BY <1>2, <2>1
<1> QED  BY <1>1, <1>7, <1>8, <1>9 DEF Recurses

\* The place of the last of the first n arguments that has the key.
IsLast(a, key, n, j) ==
  /\ j \in 1..n /\ Written[a][j].key = key
  /\ \A k \in 1..n : Written[a][k].key = key => k <= j

LEMMA LastWrittenIs ==
  ASSUME NEW a \in AdviceFunctions, NEW key, NEW default, NEW j \in 1..Len(Written[a]),
         IsLast(a, key, Len(Written[a]), j)
  PROVE  LastWritten(a, key, default) = Written[a][j].value
<1> DEFINE at == {i \in 1..Len(Written[a]) : Written[a][i].key = key}
<1>1. at # {} /\ j \in at /\ \A i \in at : i \in Int /\ i <= j
  BY DEF IsLast
<1>2. Max(at) = j
  <2> HIDE DEF at
  <2>1. j \in at /\ \A y \in at : j >= y
    BY <1>1
  <2>2. Max(at) \in at /\ \A y \in at : Max(at) >= y
    BY <2>1, Zenon DEF Max
  <2> DEFINE m == Max(at)
  <2> HIDE DEF m
  <2>3. m \in Int /\ j \in Int /\ m <= j /\ m >= j
    BY <1>1, <2>2 DEF m
  <2>4. m = j
    BY <2>3
  <2> QED  BY <2>4 DEF m
<1> HIDE DEF at
<1>3. LastWritten(a, key, default) = IF at = {} THEN default ELSE Written[a][Max(at)].value
  BY DEF LastWritten, at
<1> QED  BY <1>1, <1>2, <1>3

LEMMA NothingWrittenIs ==
  ASSUME NEW a \in AdviceFunctions, NEW key, NEW default,
         \A i \in 1..Len(Written[a]) : Written[a][i].key # key
  PROVE  LastWritten(a, key, default) = default
BY DEF LastWritten

\* The macro's loop ends with the last pointcut and, if it is not negative, the
\* last order.
THEOREM LastArgumentWins ==
  ASSUME NEW a \in AdviceFunctions
  PROVE  /\ ArgsOf(a) \in AdviceArgs
         /\ ArgsOf(a).pointcut = LastWritten(a, "pointcut", NoPointcut)
         /\ WrittenOrder(a) >= 0 => ArgsOf(a).order = WrittenOrder(a)
<1> DEFINE n == Len(Written[a])
<1>1. PICK args : /\ args \in [0..n -> AdviceArgs] /\ args[0] = NoArgs
                  /\ \A i \in 1..n : args[i] = ParseArgument(args[i - 1], Written[a][i])
                  /\ ArgsOf(a) = args[n]
  BY ArgsOfIsDefined
<1>2. n \in Nat
  BY ArgsOfIsDefined
<1> DEFINE HasPointcut(i) ==
             \/ /\ \A k \in 1..i : Written[a][k].key # "pointcut"
                /\ args[i].pointcut = NoPointcut
             \/ \E j \in 1..i : /\ IsLast(a, "pointcut", i, j)
                                /\ args[i].pointcut = Written[a][j].value
           HasOrder(i) ==
             \/ /\ \A k \in 1..i : Written[a][k].key # "order"
                /\ args[i].order = 0
             \/ \E j \in 1..i : /\ IsLast(a, "order", i, j)
                                /\ Written[a][j].value >= 0 =>
                                     args[i].order = Written[a][j].value
           T == {i \in 0..n : HasPointcut(i) /\ HasOrder(i)}
<1>3. 0 \in T
  BY <1>1, <1>2, NoArgsTyped
<1>4. ASSUME NEW i \in 0..(n - 1), i \in T  PROVE i + 1 \in T
  <2> DEFINE arg == Written[a][i + 1]
  <2>1. i + 1 \in 1..n /\ (i + 1) - 1 = i /\ i \in Nat /\ i \in 0..n /\ i + 1 \in 0..n
    BY <1>2
  <2>2. args[i] \in AdviceArgs /\ args[i + 1] = ParseArgument(args[i], arg)
    BY <1>1, <2>1
  <2>3. /\ args[i + 1].pointcut = IF arg.key = "pointcut" THEN arg.value ELSE args[i].pointcut
        /\ arg.key = "order" => (arg.value >= 0 => args[i + 1].order = arg.value)
        /\ arg.key # "order" => args[i + 1].order = args[i].order
    <3> HIDE DEF n
    <3>1. i + 1 \in 1..Len(Written[a])
      BY <2>1 DEF n
    <3> QED  BY <2>2, <3>1, ParseArgumentTyped
  <2>4. \A k \in 1..(i + 1) : k = i + 1 \/ k \in 1..i
    BY <2>1
  <2>5. \A key : arg.key = key => IsLast(a, key, i + 1, i + 1)
    BY <2>1 DEF IsLast
  <2>6. \A key, j : arg.key # key /\ IsLast(a, key, i, j) =>
                      IsLast(a, key, i + 1, j) /\ j \in 1..(i + 1)
    BY <2>1, <2>4 DEF IsLast
  <2>7. HasPointcut(i + 1)
    <3>1. CASE arg.key = "pointcut"
      BY <2>1, <2>3, <2>5, <3>1
    <3>2. CASE arg.key # "pointcut"
      BY <1>4, <2>3, <2>4, <2>6, <3>2
    <3> QED  BY <3>1, <3>2
  <2>8. HasOrder(i + 1)
    <3>1. CASE arg.key = "order"
      BY <2>1, <2>3, <2>5, <3>1
    <3>2. CASE arg.key # "order"
      BY <1>4, <2>3, <2>4, <2>6, <3>2
    <3> QED  BY <3>1, <3>2
  <2> HIDE DEF HasPointcut, HasOrder
  <2> QED  BY <2>1, <2>7, <2>8
<1>5. HasPointcut(n) /\ HasOrder(n)
  <2>1. 0..n \subseteq T
    <3> HIDE DEF T, n
    <3> QED  BY <1>2, <1>3, <1>4, InductionTo
  <2> HIDE DEF HasPointcut, HasOrder
  <2> QED  BY <1>2, <2>1
<1>6. ArgsOf(a) \in AdviceArgs
  BY <1>1, <1>2
<1>7. ArgsOf(a).pointcut = LastWritten(a, "pointcut", NoPointcut)
  BY <1>1, <1>5, LastWrittenIs, NothingWrittenIs
<1>8. WrittenOrder(a) >= 0 => ArgsOf(a).order = WrittenOrder(a)
  BY <1>1, <1>5, LastWrittenIs, NothingWrittenIs DEF WrittenOrder
<1> QED  BY <1>6, <1>7, <1>8

-----------------------------------------------------------------------------
(* The invariant: n registrations have been made, s is what is registered, *)
(* and o are the numbers of the advice functions' aspects.                 *)

IsOwn(x, o) ==
  \A a \in AdviceFunctions : x.id \in o[a] =>
    x.order = ArgsOf(a).order /\ x.fns = ArgsOf(a).pointcut.fns

Kept(s, n, o) ==
  /\ s \in AspectSeq /\ Nested(s)
  /\ \A i \in 1..Len(s) : s[i].id <= n /\ IsOwn(s[i], o)

Around(call) == call.entered \o call.pjp

FindsDue(call, d, s) ==
  call.stage = "find" => \A x \in d : x \in ToSet(s) /\ call.fn \in x.fns

RunsDue(call, d, n, o) ==
  call.stage = "run" =>
    /\ Kept(Around(call), n, o)
    /\ \A i \in 1..Len(Around(call)) : call.fn \in Around(call)[i].fns
    /\ call.unspent => call.ran = 0 /\ d \subseteq ToSet(Around(call))

OwnedOnce(o, r, n) ==
  \A a \in AdviceFunctions :
    /\ o[a] \subseteq 1..n
    /\ o[a] # {} => r[a] = "forced"
    /\ \A i, j \in o[a] : i = j

RegistryInv ==
  /\ RegistryTypeOK /\ AdviceTypeOK
  /\ Kept(aspects, registered, own)
  /\ OwnedOnce(own, registrar, registered)
  /\ \A c \in Threads : /\ FindsDue(applied[c], due[c], aspects)
                        /\ RunsDue(applied[c], due[c], registered, own)

\* One more registration, whose number at most one advice function gets.
Grows(o, p, n) == \A a \in AdviceFunctions : p[a] \subseteq o[a] \cup {n + 1}

LEMMA KeptGrows ==
  ASSUME NEW s, NEW n \in Nat, NEW o, NEW p, Kept(s, n, o), Grows(o, p, n)
  PROVE  Kept(s, n + 1, p)
<1>1. ASSUME NEW i \in 1..Len(s)  PROVE s[i].id <= n + 1 /\ IsOwn(s[i], p)
  <2>1. s[i] \in RegisteredAspect /\ s[i].id <= n /\ IsOwn(s[i], o)
    BY DEF Kept, AspectSeq
  <2>2. s[i].id \in Int
    BY <2>1, AspectTyped
  <2>3. \A a \in AdviceFunctions : s[i].id \in p[a] => s[i].id \in o[a]
    BY <2>1, <2>2 DEF Grows
  <2>4. IsOwn(s[i], p)
    BY <2>1, <2>3 DEF IsOwn
  <2>5. s[i].id <= n + 1
    BY <2>1, <2>2
  <2> QED  BY <2>4, <2>5
<1> QED  BY <1>1 DEF Kept

LEMMA PushKept ==
  ASSUME NEW s, NEW n \in Nat, NEW o, NEW p, Kept(s, n, o), Grows(o, p, n),
         NEW x \in RegisteredAspect, x.id = n + 1, IsOwn(x, p)
  PROVE  /\ Kept(PushAndSort(s, x), n + 1, p)
         /\ Len(PushAndSort(s, x)) <= Len(s) + 1
         /\ ToSet(s) \subseteq ToSet(PushAndSort(s, x))
<1> DEFINE t == PushAndSort(s, x)
<1>1. \A i \in 1..Len(s) : s[i].id < x.id
  <2> SUFFICES ASSUME NEW i \in 1..Len(s)  PROVE s[i].id < x.id
    OBVIOUS
  <2>1. s[i] \in RegisteredAspect /\ s[i].id <= n
    BY DEF Kept, AspectSeq
  <2>2. s[i].id \in Int
    BY <2>1, AspectTyped
  <2> QED  BY <2>1, <2>2
<1>2. /\ t \in AspectSeq /\ Nested(t) /\ Len(t) <= Len(s) + 1
      /\ \A k \in 1..Len(t) : t[k] = x \/ \E i \in 1..Len(s) : t[k] = s[i]
      /\ ToSet(s) \subseteq ToSet(t)
  BY <1>1, PushKeepsOrder DEF Kept
<1>3. Kept(s, n + 1, p)
  BY KeptGrows
<1> HIDE DEF t
<1>4. \A k \in 1..Len(t) : t[k].id <= n + 1 /\ IsOwn(t[k], p)
  BY <1>2, <1>3 DEF Kept
<1> QED  BY <1>2, <1>4 DEF Kept, t

LEMMA RunsDueGrows ==
  ASSUME NEW call, NEW d, NEW n \in Nat, NEW o, NEW p, RunsDue(call, d, n, o), Grows(o, p, n)
  PROVE  RunsDue(call, d, n + 1, p)
BY KeptGrows DEF RunsDue

\* A call whose aspects are the same, or some of them, is as it was.
LEMMA RunsFewer ==
  ASSUME NEW s, NEW n, NEW o, Kept(s, n, o), NEW f, \A i \in 1..Len(s) : f \in s[i].fns,
         NEW t \in AspectSeq, NEW e \in [1..Len(t) -> 1..Len(s)],
         \A j, k \in 1..Len(t) : j < k => e[j] < e[k],
         \A k \in 1..Len(t) : t[k] = s[e[k]]
  PROVE  Kept(t, n, o) /\ \A i \in 1..Len(t) : f \in t[i].fns
<1>1. Nested(t)
  BY NestedPart DEF Kept
<1>2. \A k \in 1..Len(t) : e[k] \in 1..Len(s)
  OBVIOUS
<1> QED  BY <1>1, <1>2 DEF Kept

-----------------------------------------------------------------------------
(* The actions *)

LEMMA InitEstablishes == RegistryInit /\ AdviceInit => RegistryInv
<1> SUFFICES ASSUME RegistryInit, AdviceInit  PROVE RegistryInv
  OBVIOUS
<1>1. MaxRegistrations \in Nat
  BY RegistryAssumption DEF RegistryAssumption
<1>2. RegistryTypeOK
  BY <1>1 DEF RegistryInit, RegistryTypeOK, Calls, NotCalling
<1>3. AdviceTypeOK
  BY DEF AdviceInit, AdviceTypeOK
<1>4. Kept(aspects, registered, own)
  BY DEF RegistryInit, Kept, AspectSeq, Nested
<1>5. OwnedOnce(own, registrar, registered)
  BY DEF AdviceInit, OwnedOnce
<1>6. \A c \in Threads : applied[c].stage = "idle"
  BY DEF RegistryInit, NotCalling
<1> QED  BY <1>2, <1>3, <1>4, <1>5, <1>6 DEF RegistryInv, FindsDue, RunsDue

\* What RegisterAspect does for the invariant, whoever calls it.
LEMMA RegisterPreserves ==
  ASSUME RegistryInv, NEW order \in Orders, NEW fns \in SUBSET Targets,
         NEW advice \in BOOLEAN, RegisterAspect(order, fns, advice),
         Grows(own, own', registered),
         \A a \in AdviceFunctions : registered + 1 \in own'[a] =>
           order = ArgsOf(a).order /\ fns = ArgsOf(a).pointcut.fns
  PROVE  /\ RegistryTypeOK' /\ Kept(aspects', registered', own')
         /\ \A c \in Threads : /\ FindsDue(applied'[c], due'[c], aspects')
                               /\ RunsDue(applied'[c], due'[c], registered', own')
<1> DEFINE x == [id |-> registered + 1, order |-> order, fns |-> fns, advice |-> advice]
<1>1. /\ registered \in 0..MaxRegistrations /\ registered \in Nat /\ registered < MaxRegistrations
      /\ registered' = registered + 1 /\ MaxRegistrations \in Nat
      /\ aspects' = PushAndSort(aspects, x)
      /\ applied' = applied /\ due' = due
  BY RegistryAssumption DEF RegistryInv, RegistryTypeOK, RegisterAspect, RegistryAssumption
<1>2. x \in RegisteredAspect /\ x.id = registered + 1 /\ IsOwn(x, own')
  BY <1>1 DEF RegisteredAspect, IsOwn
<1> HIDE DEF x
<1>3. /\ Kept(aspects', registered', own')
      /\ Len(aspects') <= Len(aspects) + 1
      /\ ToSet(aspects) \subseteq ToSet(aspects')
  BY <1>1, <1>2, PushKept DEF RegistryInv
<1>4. RegistryTypeOK'
  <2>1. aspects' \in Seq(RegisteredAspect)
    BY <1>3 DEF Kept, AspectSeq
  <2>2. Len(aspects') <= registered'
    <3>1. Len(aspects) <= registered /\ Len(aspects) \in Nat /\ Len(aspects') \in Nat
      BY <2>1 DEF RegistryInv, RegistryTypeOK
    <3> QED  BY <1>1, <1>3, <3>1
  <2> QED  BY <1>1, <2>1, <2>2 DEF RegistryInv, RegistryTypeOK
<1>5. ASSUME NEW c \in Threads
      PROVE  /\ FindsDue(applied'[c], due'[c], aspects')
             /\ RunsDue(applied'[c], due'[c], registered', own')
  <2>1. /\ FindsDue(applied[c], due[c], aspects)
        /\ RunsDue(applied[c], due[c], registered, own)
    BY DEF RegistryInv
  <2>2. FindsDue(applied[c], due[c], aspects')
    BY <1>3, <2>1 DEF FindsDue
  <2>3. RunsDue(applied[c], due[c], registered + 1, own')
    BY <1>1, <2>1, RunsDueGrows
  <2> QED  BY <1>1, <2>2, <2>3
<1> QED  BY <1>3, <1>4, <1>5

\* A step of one call touches nothing else.
LEMMA CallPreserves ==
  ASSUME RegistryInv, NEW c \in Threads, NEW call \in Calls, NEW d \in SUBSET RegisteredAspect,
         applied' = [applied EXCEPT ![c] = call], due' = [due EXCEPT ![c] = d],
         UNCHANGED <<aspects, registered, adviceVars>>,
         FindsDue(call, d, aspects), RunsDue(call, d, registered, own)
  PROVE  RegistryInv'
<1>1. applied \in [Threads -> Calls] /\ due \in [Threads -> SUBSET RegisteredAspect]
  BY DEF RegistryInv, RegistryTypeOK
<1>2. /\ applied' \in [Threads -> Calls] /\ due' \in [Threads -> SUBSET RegisteredAspect]
      /\ applied'[c] = call /\ due'[c] = d
      /\ \A t \in Threads : t # c => applied'[t] = applied[t] /\ due'[t] = due[t]
  BY <1>1
<1>3. RegistryTypeOK' /\ AdviceTypeOK'
  BY <1>2 DEF RegistryInv, RegistryTypeOK, AdviceTypeOK, adviceVars
<1>4. Kept(aspects', registered', own') /\ OwnedOnce(own', registrar', registered')
  BY DEF RegistryInv, adviceVars
<1>5. ASSUME NEW t \in Threads
      PROVE  /\ FindsDue(applied'[t], due'[t], aspects')
             /\ RunsDue(applied'[t], due'[t], registered', own')
  <2>1. CASE t = c
    BY <1>2, <2>1 DEF adviceVars
  <2>2. CASE t # c
    BY <1>2, <2>2 DEF RegistryInv, adviceVars
  <2> QED  BY <2>1, <2>2
<1> QED  BY <1>3, <1>4, <1>5 DEF RegistryInv

\* The actions of a call keep every other call's due, or set it for this one.
LEMMA DueExcept ==
  ASSUME RegistryTypeOK, NEW c \in Threads
  PROVE  /\ due = [due EXCEPT ![c] = due[c]]
         /\ applied[c] \in Calls /\ due[c] \in SUBSET RegisteredAspect
BY DEF RegistryTypeOK

LEMMA ApplyAspectsPreserves ==
  ASSUME RegistryInv, NEW c \in Threads, NEW f \in Targets, ApplyAspects(c, f),
         UNCHANGED adviceVars
  PROVE  RegistryInv'
<1> DEFINE call == FindingAspects(f)
<1>1. call \in Calls /\ call.stage = "find" /\ call.fn = f
  BY DEF FindingAspects, Calls
<1>2. Matches(f) \in SUBSET RegisteredAspect
  <2>1. ToSet(aspects) \subseteq RegisteredAspect
    BY DEF RegistryInv, RegistryTypeOK, ToSet
  <2> QED  BY <2>1 DEF Matches
<1> HIDE DEF call
<1>3. FindsDue(call, Matches(f), aspects) /\ RunsDue(call, Matches(f), registered, own)
  BY <1>1 DEF FindsDue, RunsDue, Matches
<1> QED  BY <1>1, <1>2, <1>3, CallPreserves DEF ApplyAspects, call

LEMMA FindMatchingPreserves ==
  ASSUME RegistryInv, NEW c \in Threads, FindMatching(c), UNCHANGED adviceVars
  PROVE  RegistryInv'
<1> DEFINE f == applied[c].fn
           m == Only(aspects, Matches(f))
           call == RunningAspects(f, << >>, Chain(MatchingAspects(f)), TRUE, 0)
<1>1. f \in Targets /\ applied[c].stage = "find"
  BY DueExcept DEF RegistryInv, Calls, FindMatching, NotCalling
<1>2. aspects \in AspectSeq /\ Kept(aspects, registered, own)
  BY DEF RegistryInv, RegistryTypeOK, AspectSeq
<1>3. m \in AspectSeq /\ \E e : Enumerates(e, Len(aspects), m, aspects, Matches(f))
  <2> HIDE DEF f
  <2> QED  BY <1>2, OnlyEnumerates DEF AspectSeq
<1>4. call = RunningAspects(f, << >>, m, TRUE, 0)
  BY <1>3, ChainKeepsTheOrder DEF MatchingAspects
<1> HIDE DEF m, call, f
<1>5. PICK e : Enumerates(e, Len(aspects), m, aspects, Matches(f))
  BY <1>3
<1>6. /\ call \in Calls /\ call.stage = "run" /\ call.fn = f /\ call.ran = 0
      /\ call.entered = << >> /\ call.pjp = m
  BY <1>1, <1>3, <1>4 DEF RunningAspects, Calls, AspectSeq
<1>7. Around(call) = m
  BY <1>3, <1>6 DEF Around, AspectSeq
<1>8. Kept(m, registered, own)
  <2>1. Nested(m)
    BY <1>2, <1>3, <1>5, NestedPart DEF Kept, Enumerates
  <2>2. \A k \in 1..Len(m) : \E i \in 1..Len(aspects) : m[k] = aspects[i]
    BY <1>5 DEF Enumerates
  <2> QED  BY <1>2, <1>3, <2>1, <2>2 DEF Kept
<1>9. \A k \in 1..Len(m) : f \in m[k].fns
  BY <1>5 DEF Enumerates, Matches
<1>10. due[c] \subseteq ToSet(m)
  <2> SUFFICES ASSUME NEW x \in due[c]  PROVE x \in ToSet(m)
    OBVIOUS
  <2>1. x \in ToSet(aspects) /\ f \in x.fns
    BY <1>1 DEF RegistryInv, FindsDue, f
  <2>2. PICK i \in 1..Len(aspects) : aspects[i] = x
    BY <1>2, <2>1 DEF ToSet, AspectSeq
  <2>3. aspects[i] \in Matches(f)
    BY <2>1, <2>2 DEF Matches
  <2>4. PICK k \in 1..Len(m) : e[k] = i
    BY <1>5, <2>3 DEF Enumerates
  <2>5. m[k] = x
    BY <1>5, <2>2, <2>4 DEF Enumerates
  <2> QED  BY <1>3, <2>5 DEF ToSet, AspectSeq
<1>11. FindsDue(call, due[c], aspects) /\ RunsDue(call, due[c], registered, own)
  BY <1>6, <1>7, <1>8, <1>9, <1>10 DEF FindsDue, RunsDue
<1>12. applied' = [applied EXCEPT ![c] = call] /\ due' = [due EXCEPT ![c] = due[c]]
  BY DueExcept DEF FindMatching, call, f, RegistryInv
<1> QED  BY <1>6, <1>11, <1>12, DueExcept, CallPreserves DEF FindMatching, RegistryInv

\* What the type says of a call that is under way.
LEMMA RunTyped ==
  ASSUME NEW call \in Calls, call.stage = "run"
  PROVE  /\ call \in [stage : {"run"}, fn : Targets, entered : Seq(RegisteredAspect),
                      pjp : Seq(RegisteredAspect), unspent : BOOLEAN, ran : Nat]
         /\ call.entered \in AspectSeq /\ call.pjp \in AspectSeq
BY DEF Calls, NotCalling, AspectSeq

LEMMA ProceedPreserves ==
  ASSUME RegistryInv, NEW c \in Threads, Proceed(c), UNCHANGED adviceVars
  PROVE  RegistryInv'
<1> DEFINE old == applied[c]
           call == ProceedOnce(old)
<1>1. /\ old \in Calls /\ old.stage = "run" /\ old.unspent
      /\ old.entered \in AspectSeq /\ old.pjp \in AspectSeq
      /\ RunsDue(old, due[c], registered, own)
  BY DueExcept, RunTyped DEF RegistryInv, Proceed
<1>2. old \in [stage : {"run"}, fn : Targets, entered : Seq(RegisteredAspect),
               pjp : Seq(RegisteredAspect), unspent : BOOLEAN, ran : Nat]
  BY <1>1, RunTyped
<1> HIDE DEF old
<1>3. call \in Calls /\ FindsDue(call, due[c], aspects) /\ RunsDue(call, due[c], registered, own)
  <2>1. CASE old.pjp = << >>
    <3>1. call = [old EXCEPT !.ran = old.ran + 1, !.unspent = FALSE]
      BY <2>1 DEF ProceedOnce
    <3>2. /\ call \in Calls /\ call.stage = "run" /\ call.fn = old.fn /\ ~call.unspent
          /\ call.entered = old.entered /\ call.pjp = old.pjp
      <4>1. call \in [stage : {"run"}, fn : Targets, entered : Seq(RegisteredAspect),
                      pjp : Seq(RegisteredAspect), unspent : BOOLEAN, ran : Nat]
        <5>1. old.ran \in Nat /\ old.ran + 1 \in Nat
          BY <1>2
        <5> HIDE DEF call
        <5> QED  BY <1>2, <3>1, <5>1
      <4> QED  BY <1>2, <3>1, <4>1 DEF Calls
    <3>3. Around(call) = Around(old)
      BY <3>2 DEF Around
    <3> HIDE DEF call
    <3> QED  BY <1>1, <3>2, <3>3 DEF FindsDue, RunsDue
  <2>2. CASE old.pjp # << >>
    <3>1. call = [old EXCEPT !.entered = Append(@, Head(old.pjp)), !.pjp = Tail(@)]
      BY <2>2 DEF ProceedOnce
    <3>2. /\ Head(old.pjp) \in RegisteredAspect /\ Tail(old.pjp) \in AspectSeq
          /\ Append(old.entered, Head(old.pjp)) \in AspectSeq
      BY <1>1, <2>2 DEF AspectSeq
    <3>3. /\ call \in Calls /\ call.stage = "run" /\ call.fn = old.fn
          /\ call.unspent = old.unspent /\ call.ran = old.ran
          /\ call.entered = Append(old.entered, Head(old.pjp)) /\ call.pjp = Tail(old.pjp)
      BY <1>2, <3>1, <3>2 DEF Calls, AspectSeq
    <3>4. Around(call) = Around(old)
      <4> DEFINE s == Append(old.entered, Head(old.pjp)) \o Tail(old.pjp)
                 t == old.entered \o old.pjp
                 n == Len(old.entered)
                 m == Len(old.pjp)
                 u == Append(old.entered, Head(old.pjp))
                 rest == Tail(old.pjp)
      <4>0. n \in Nat /\ m \in Nat \ {0} /\ Head(old.pjp) = old.pjp[1]
        BY <1>1, <2>2 DEF AspectSeq
      <4>1. /\ Len(u) = n + 1 /\ u[n + 1] = old.pjp[1]
            /\ \A i \in 1..n : u[i] = old.entered[i]
        BY <1>1, <3>2, <4>0, AppendProperties DEF AspectSeq
      <4>2. Len(rest) = m - 1 /\ \A i \in 1..(m - 1) : rest[i] = old.pjp[i + 1]
        BY <1>1, <2>2, <4>0, HeadTailProperties DEF AspectSeq
      <4>3. /\ t \in AspectSeq /\ Len(t) = n + m
            /\ \A i \in 1..(n + m) : t[i] = IF i <= n THEN old.entered[i] ELSE old.pjp[i - n]
        BY <1>1, ConcatProperties DEF AspectSeq
      <4> HIDE DEF u, rest, t, n, m
      <4>4. /\ u \o rest \in AspectSeq /\ Len(u \o rest) = (n + 1) + (m - 1)
            /\ \A i \in 1..((n + 1) + (m - 1)) :
                 (u \o rest)[i] = IF i <= n + 1 THEN u[i] ELSE rest[i - (n + 1)]
        <5>1. u \in AspectSeq /\ rest \in AspectSeq
          BY <3>2 DEF u, rest
        <5>2. /\ u \o rest \in AspectSeq /\ Len(u \o rest) = Len(u) + Len(rest)
              /\ \A i \in 1..(Len(u) + Len(rest)) :
                   (u \o rest)[i] = IF i <= Len(u) THEN u[i] ELSE rest[i - Len(u)]
          BY <5>1, ConcatProperties DEF AspectSeq
        <5> QED  BY <4>1, <4>2, <5>2
      <4>5. s = u \o rest
        BY DEF s, u, rest
      <4> HIDE DEF s
      <4>6. s \in AspectSeq /\ Len(s) = Len(t)
        <5>1. (n + 1) + (m - 1) = n + m
          BY <4>0
        <5> QED  BY <4>3, <4>4, <4>5, <5>1
      <4>7. ASSUME NEW i \in 1..Len(s)  PROVE s[i] = t[i]
        <5>1. i \in Nat /\ i \in 1..(n + m) /\ i \in 1..((n + 1) + (m - 1))
          BY <4>0, <4>3, <4>6
        <5>2. CASE i <= n
          <6>1. s[i] = u[i] /\ u[i] = old.entered[i] /\ t[i] = old.entered[i]
            BY <4>0, <4>1, <4>3, <4>4, <4>5, <5>1, <5>2
          <6> QED  BY <6>1
        <5>3. CASE i = n + 1
          <6>1. s[i] = u[i] /\ t[i] = old.pjp[1]
            BY <4>0, <4>3, <4>4, <4>5, <5>1, <5>3
          <6> QED  BY <4>1, <5>3, <6>1
        <5>4. CASE i > n + 1
          <6>1. /\ i - (n + 1) \in 1..(m - 1) /\ (i - (n + 1)) + 1 = i - n
                /\ ~(i <= n + 1) /\ ~(i <= n)
            BY <4>0, <5>1, <5>4
          <6>2. s[i] = rest[i - (n + 1)] /\ t[i] = old.pjp[i - n]
            BY <4>3, <4>4, <4>5, <5>1, <6>1
          <6> QED  BY <4>2, <6>1, <6>2
        <5> QED  BY <4>0, <5>1, <5>2, <5>3, <5>4
      <4>8. s = t
        BY <4>3, <4>6, <4>7, SeqEqual DEF AspectSeq
      <4> QED  BY <3>3, <4>8 DEF Around, s, t
    <3> HIDE DEF call
    <3> QED  BY <1>1, <3>3, <3>4 DEF FindsDue, RunsDue
  <2> QED  BY <2>1, <2>2
<1>4. applied' = [applied EXCEPT ![c] = call] /\ due' = [due EXCEPT ![c] = due[c]]
  BY DueExcept DEF Proceed, old, RegistryInv
<1> HIDE DEF call
<1> QED  BY <1>3, <1>4, DueExcept, CallPreserves DEF Proceed, RegistryInv

LEMMA AroundReturnsPreserves ==
  ASSUME RegistryInv, NEW c \in Threads, AroundReturns(c), UNCHANGED adviceVars
  PROVE  RegistryInv'
<1> DEFINE old == applied[c]
           call == [old EXCEPT !.entered = Front(@), !.unspent = FALSE]
<1>1. /\ old \in Calls /\ old.stage = "run" /\ old.entered # << >>
      /\ old.entered \in AspectSeq /\ old.pjp \in AspectSeq
      /\ RunsDue(old, due[c], registered, own)
  BY DueExcept, RunTyped DEF RegistryInv, AroundReturns
<1>2. old \in [stage : {"run"}, fn : Targets, entered : Seq(RegisteredAspect),
               pjp : Seq(RegisteredAspect), unspent : BOOLEAN, ran : Nat]
  BY <1>1, RunTyped
<1>3. applied' = [applied EXCEPT ![c] = call] /\ due' = [due EXCEPT ![c] = due[c]]
  BY DueExcept DEF AroundReturns, RegistryInv, RegistryTypeOK
<1> HIDE DEF old
<1> DEFINE n == Len(old.entered)
           k == Len(old.pjp)
           front == Front(old.entered)
<1>4. n \in Nat \ {0} /\ k \in Nat
  BY <1>1 DEF AspectSeq
<1>5. front \in AspectSeq /\ Len(front) = n - 1 /\ \A i \in 1..(n - 1) : front[i] = old.entered[i]
  BY <1>1, <1>4 DEF Front, AspectSeq
<1>6. /\ call \in Calls /\ call.stage = "run" /\ call.fn = old.fn /\ ~call.unspent
      /\ call.entered = front /\ call.pjp = old.pjp
  BY <1>2, <1>5 DEF Calls, AspectSeq
<1> DEFINE s == Around(old)
           t == Around(call)
           e == [i \in 1..Len(t) |-> IF i < n THEN i ELSE i + 1]
<1> HIDE DEF call, front, n, k
<1>7. /\ s \in AspectSeq /\ Len(s) = n + k
      /\ \A i \in 1..(n + k) : s[i] = IF i <= n THEN old.entered[i] ELSE old.pjp[i - n]
  BY <1>1, ConcatProperties DEF Around, AspectSeq, n, k
<1>8. /\ t \in AspectSeq /\ Len(t) = (n - 1) + k
      /\ \A i \in 1..((n - 1) + k) : t[i] = IF i <= n - 1 THEN front[i] ELSE old.pjp[i - (n - 1)]
  <2>1. /\ front \o old.pjp \in AspectSeq /\ Len(front \o old.pjp) = Len(front) + k
        /\ \A i \in 1..(Len(front) + k) :
             (front \o old.pjp)[i] = IF i <= Len(front) THEN front[i]
                                     ELSE old.pjp[i - Len(front)]
    BY <1>1, <1>5, ConcatProperties DEF AspectSeq, k
  <2> QED  BY <1>5, <1>6, <2>1 DEF Around
<1> HIDE DEF s, t
<1>9. e \in [1..Len(t) -> 1..Len(s)] /\ \A i, j \in 1..Len(t) : i < j => e[i] < e[j]
  BY <1>4, <1>7, <1>8
<1>10. ASSUME NEW i \in 1..Len(t)  PROVE t[i] = s[e[i]]
  <2>1. CASE i < n
    <3>1. e[i] = i /\ i \in 1..(n - 1) /\ i \in 1..((n - 1) + k) /\ i \in 1..(n + k)
          /\ i <= n /\ i <= n - 1
      BY <1>4, <1>8, <2>1
    <3> QED  BY <1>5, <1>7, <1>8, <3>1
  <2>2. CASE i >= n
    <3> DEFINE j == i + 1
    <3>1. /\ e[i] = j /\ j \in 1..(n + k) /\ i \in 1..((n - 1) + k)
          /\ ~(i <= n - 1) /\ ~(j <= n) /\ i - (n - 1) = j - n
      BY <1>4, <1>8, <2>2
    <3> HIDE DEF j
    <3>2. t[i] = old.pjp[i - (n - 1)]
      BY <1>8, <3>1
    <3>3. s[j] = old.pjp[j - n]
      BY <1>7, <3>1
    <3> QED  BY <3>1, <3>2, <3>3
  <2> QED  BY <1>4, <1>8, <2>1, <2>2
<1> HIDE DEF e
<1>11. Kept(s, registered, own) /\ \A i \in 1..Len(s) : old.fn \in s[i].fns
  BY <1>1 DEF RunsDue, s
<1>12. Kept(t, registered, own) /\ \A i \in 1..Len(t) : old.fn \in t[i].fns
  BY <1>8, <1>9, <1>10, <1>11, RunsFewer
<1>13. FindsDue(call, due[c], aspects) /\ RunsDue(call, due[c], registered, own)
  BY <1>6, <1>12 DEF FindsDue, RunsDue, t
<1> QED  BY <1>3, <1>6, <1>13, DueExcept, CallPreserves DEF AroundReturns, RegistryInv, call, old

LEMMA CallEndsPreserves ==
  ASSUME RegistryInv, NEW c \in Threads, FinishCall(c) \/ CallUnwinds(c), UNCHANGED adviceVars
  PROVE  RegistryInv'
<1>1. NotCalling \in Calls /\ {} \in SUBSET RegisteredAspect
  BY DEF Calls
<1>2. FindsDue(NotCalling, {}, aspects) /\ RunsDue(NotCalling, {}, registered, own)
  BY DEF FindsDue, RunsDue, NotCalling
<1> QED  BY <1>1, <1>2, CallPreserves DEF FinishCall, CallUnwinds

LEMMA ClearPreserves ==
  ASSUME RegistryInv, ClearRegistry, UNCHANGED adviceVars
  PROVE  RegistryInv'
<1>1. aspects' = << >> /\ registered' = registered /\ applied' = applied
  BY DEF ClearRegistry
<1>2. \A c \in Threads : due'[c] = IF applied[c].stage = "find" THEN {} ELSE due[c]
  BY DEF ClearRegistry
<1>3. RegistryTypeOK' /\ AdviceTypeOK'
  <2>1. due' \in [Threads -> SUBSET RegisteredAspect]
    BY DEF ClearRegistry, RegistryInv, RegistryTypeOK
  <2>2. Len(aspects') <= registered' /\ aspects' \in Seq(RegisteredAspect)
    BY <1>1 DEF RegistryInv, RegistryTypeOK
  <2> QED  BY <1>1, <2>1, <2>2 DEF RegistryInv, RegistryTypeOK, AdviceTypeOK, adviceVars
<1>4. Kept(aspects', registered', own')
  BY <1>1 DEF Kept, AspectSeq, Nested
<1>5. OwnedOnce(own', registrar', registered')
  BY <1>1 DEF RegistryInv, adviceVars
<1>6. ASSUME NEW c \in Threads
      PROVE  /\ FindsDue(applied'[c], due'[c], aspects')
             /\ RunsDue(applied'[c], due'[c], registered', own')
  <2>1. CASE applied[c].stage = "find"
    BY <1>1, <1>2, <2>1 DEF FindsDue, RunsDue
  <2>2. CASE applied[c].stage # "find"
    <3>1. FindsDue(applied[c], due'[c], aspects')
      BY <2>2 DEF FindsDue
    <3> QED  BY <1>1, <1>2, <2>2, <3>1 DEF RegistryInv, adviceVars
  <2> QED  BY <2>1, <2>2
<1> QED  BY <1>3, <1>4, <1>5, <1>6 DEF RegistryInv

LEMMA RegisterOfferedPreserves ==
  ASSUME RegistryInv, Register, UNCHANGED adviceVars
  PROVE  RegistryInv'
<1>1. PICK a \in Offered : RegisterAspect(a.order, a.fns, a.advice)
  BY DEF Register
<1>2. a.order \in Orders /\ a.fns \in SUBSET Targets /\ a.advice \in BOOLEAN
  BY RegistryAssumption DEF RegistryAssumption
<1>3. registered \in Nat /\ registered' = registered + 1
  BY <1>1, RegistryAssumption
     DEF RegisterAspect, RegistryInv, RegistryTypeOK, RegistryAssumption
<1>4. Grows(own, own', registered)
  BY DEF Grows, adviceVars
<1>5. \A b \in AdviceFunctions : registered + 1 \notin own'[b]
  BY <1>3 DEF RegistryInv, OwnedOnce, adviceVars
<1>6. OwnedOnce(own', registrar', registered')
  BY <1>3 DEF RegistryInv, OwnedOnce, adviceVars
<1>7. AdviceTypeOK'
  BY DEF RegistryInv, AdviceTypeOK, adviceVars
<1> QED  BY <1>1, <1>2, <1>4, <1>5, <1>6, <1>7, RegisterPreserves DEF RegistryInv

LEMMA RegistrarRegistersPreserves ==
  ASSUME RegistryInv, NEW a \in AdviceFunctions, RegistrarRegisters(a)
  PROVE  RegistryInv'
<1> DEFINE order == ArgsOf(a).order
           fns == ArgsOf(a).pointcut.fns
           advice == KeepsDefaultAround(a)
<1>1. order \in Orders /\ fns \in SUBSET Targets
  <2>1. ArgsOf(a) \in AdviceArgs
    BY LastArgumentWins
  <2>2. order \in Orders /\ ArgsOf(a).pointcut \in Pointcuts
    BY <2>1 DEF AdviceArgs
  <2> QED  BY <2>2, NoArgsTyped DEF Pointcuts
<1>2. advice \in BOOLEAN
  BY DEF KeepsDefaultAround
<1>3. /\ RegisterAspect(order, fns, advice) /\ registrar[a] = "running"
      /\ registrar' = [registrar EXCEPT ![a] = "forced"]
      /\ own' = [own EXCEPT ![a] = @ \cup {registered + 1}]
  BY DEF RegistrarRegisters
<1>4. /\ registered \in Nat /\ registered' = registered + 1
      /\ registered + 1 \in 1..MaxRegistrations
  BY <1>3, RegistryAssumption
     DEF RegisterAspect, RegistryInv, RegistryTypeOK, RegistryAssumption
<1> HIDE DEF order, fns, advice
<1>5. /\ own \in [AdviceFunctions -> SUBSET (1..MaxRegistrations)]
      /\ registrar \in [AdviceFunctions -> {"unforced", "running", "forced", "poisoned"}]
      /\ own[a] = {} /\ own'[a] = {registered + 1} /\ registrar'[a] = "forced"
      /\ \A b \in AdviceFunctions : b # a => own'[b] = own[b] /\ registrar'[b] = registrar[b]
  BY <1>3 DEF RegistryInv, AdviceTypeOK, OwnedOnce
<1>6. Grows(own, own', registered)
  BY <1>5 DEF Grows
<1>7. \A b \in AdviceFunctions : registered + 1 \in own'[b] => b = a
  BY <1>4, <1>5 DEF RegistryInv, OwnedOnce
<1>8. \A b \in AdviceFunctions : registered + 1 \in own'[b] =>
        order = ArgsOf(b).order /\ fns = ArgsOf(b).pointcut.fns
  BY <1>7 DEF order, fns
<1>9. OwnedOnce(own', registrar', registered')
  <2> SUFFICES ASSUME NEW b \in AdviceFunctions
               PROVE  /\ own'[b] \subseteq 1..registered'
                      /\ own'[b] # {} => registrar'[b] = "forced"
                      /\ \A i, j \in own'[b] : i = j
    BY DEF OwnedOnce
  <2>1. CASE b = a
    BY <1>4, <1>5, <2>1
  <2>2. CASE b # a
    BY <1>4, <1>5, <2>2 DEF RegistryInv, OwnedOnce
  <2> QED  BY <2>1, <2>2
<1>10. AdviceTypeOK'
  BY <1>3, <1>4, <1>5 DEF AdviceTypeOK
<1>11. /\ RegistryTypeOK' /\ Kept(aspects', registered', own')
       /\ \A c \in Threads : /\ FindsDue(applied'[c], due'[c], aspects')
                             /\ RunsDue(applied'[c], due'[c], registered', own')
  <2>1. order \in Orders /\ fns \in SUBSET Targets
    BY <1>1
  <2>2. RegisterAspect(order, fns, advice)
    BY <1>3
  <2> QED  BY <1>2, <1>6, <1>8, <2>1, <2>2, RegisterPreserves, Zenon
<1> QED  BY <1>9, <1>10, <1>11 DEF RegistryInv

LEMMA RegistrarStatePreserves ==
  ASSUME RegistryInv, NEW a \in AdviceFunctions, ForceRegistrar(a) \/ RegistrarPanics(a),
         UNCHANGED registryVars
  PROVE  RegistryInv'
<1>1. /\ registrar' \in [AdviceFunctions -> {"unforced", "running", "forced", "poisoned"}]
      /\ own' = own /\ registrar[a] \in {"unforced", "running"}
      /\ \A b \in AdviceFunctions : b # a => registrar'[b] = registrar[b]
  BY DEF RegistryInv, AdviceTypeOK, ForceRegistrar, RegistrarPanics
<1>2. OwnedOnce(own', registrar', registered')
  BY <1>1 DEF RegistryInv, OwnedOnce, registryVars
<1>3. RegistryTypeOK' /\ AdviceTypeOK'
  BY <1>1 DEF RegistryInv, RegistryTypeOK, AdviceTypeOK, registryVars
<1> QED  BY <1>1, <1>2, <1>3 DEF RegistryInv, registryVars

LEMMA StepPreserves == RegistryInv /\ [AdviceNext]_registryPart => RegistryInv'
<1> SUFFICES ASSUME RegistryInv, [AdviceNext]_registryPart  PROVE RegistryInv'
  OBVIOUS
<1>1. CASE RegistryNext /\ UNCHANGED adviceVars
  <2>1. CASE Register
    BY <1>1, <2>1, RegisterOfferedPreserves
  <2>2. CASE ClearRegistry
    BY <1>1, <2>2, ClearPreserves
  <2>3. ASSUME NEW c \in Threads, CallGoesOn(c) \/ CallUnwinds(c) \/ \E f \in Targets : ApplyAspects(c, f)
        PROVE  RegistryInv'
    BY <1>1, <2>3, FindMatchingPreserves, ProceedPreserves, AroundReturnsPreserves,
       CallEndsPreserves, ApplyAspectsPreserves DEF CallGoesOn
  <2> QED  BY <1>1, <2>1, <2>2, <2>3 DEF RegistryNext
<1>2. ASSUME NEW a \in AdviceFunctions, RegistrarRegisters(a)  PROVE RegistryInv'
  BY <1>2, RegistrarRegistersPreserves
<1>3. ASSUME NEW a \in AdviceFunctions, ForceRegistrar(a) \/ RegistrarPanics(a),
             UNCHANGED registryVars
      PROVE  RegistryInv'
  BY <1>3, RegistrarStatePreserves
<1>4. CASE UNCHANGED registryPart
  BY <1>4 DEF registryPart, registryVars, adviceVars, RegistryInv, RegistryTypeOK, AdviceTypeOK
<1> QED  BY <1>1, <1>2, <1>3, <1>4 DEF AdviceNext

\* What is registered, and what a call has copied of it, is nested, of numbers that
\* were given out, and the aspects of advice functions are what their attributes say.
THEOREM RegistryInvHolds == AdviceSpec => []RegistryInv
BY InitEstablishes, StepPreserves, PTL DEF AdviceSpec

\* Every variable of the registry and of the registrars stays in its type, and no
\* more is registered than was ever put in.
THEOREM RegistryTypeCorrect == AdviceSpec => [](RegistryTypeOK /\ AdviceTypeOK)
<1>1. RegistryInv => RegistryTypeOK /\ AdviceTypeOK
  BY DEF RegistryInv
<1> QED  BY <1>1, RegistryInvHolds, PTL

\* Whatever is registered and cleared meanwhile, a call's aspects are nested by
\* order and by registration.
THEOREM CallsAreNested == AdviceSpec => []LowerOrderWrapsHigher
<1>1. RegistryInv => LowerOrderWrapsHigher
  <2> SUFFICES ASSUME RegistryInv, NEW c \in Threads, applied[c].stage = "run"
               PROVE  Ordered(applied[c].entered \o applied[c].pjp)
    BY DEF LowerOrderWrapsHigher
  <2> DEFINE s == Around(applied[c])
  <2>1. s \in AspectSeq /\ Nested(s)
    BY DEF RegistryInv, RunsDue, Kept
  <2> HIDE DEF s
  <2>2. DOMAIN s = 1..Len(s)
    BY <2>1 DEF AspectSeq
  <2>3. Ordered(s)
    BY <2>1, <2>2 DEF Ordered, Nested
  <2> QED  BY <2>3 DEF s, Around
<1> QED  BY <1>1, RegistryInvHolds, PTL

\* A body runs once in a call, and inside of every aspect that was due.
THEOREM NoneIsMissed == AdviceSpec => NoDueAspectIsMissed
<1>1. RegistryInv /\ [AdviceNext]_registryPart =>
        [\A c \in Threads : BodyRuns(c) =>
           applied[c].ran = 0 /\ due[c] \subseteq ToSet(applied[c].entered)]_registryVars
  <2> SUFFICES ASSUME RegistryInv, [AdviceNext]_registryPart, ~UNCHANGED registryVars,
                      NEW c \in Threads, BodyRuns(c)
               PROVE  applied[c].ran = 0 /\ due[c] \subseteq ToSet(applied[c].entered)
    OBVIOUS
  <2>1. /\ applied \in [Threads -> Calls] /\ applied[c] \in Calls /\ applied[c].stage = "run"
        /\ applied'[c].stage = "run" /\ applied'[c].ran > applied[c].ran
    BY DEF BodyRuns, RegistryInv, RegistryTypeOK
  <2>2. /\ applied[c].ran \in Nat /\ applied[c].entered \in AspectSeq
    BY <2>1, RunTyped
  <2>3. applied'[c].ran # applied[c].ran
    BY <2>1, <2>2
  <2>4. Proceed(c)
    <3>1. \E t \in Threads : CallGoesOn(t) \/ CallUnwinds(t) \/ \E f \in Targets : ApplyAspects(t, f)
      BY <2>3 DEF AdviceNext, RegistryNext, RegistrarRegisters, Register, RegisterAspect,
                  ClearRegistry, registryPart, registryVars
    <3>2. PICK t \in Threads : CallGoesOn(t) \/ CallUnwinds(t) \/ \E f \in Targets : ApplyAspects(t, f)
      BY <3>1
    <3>3. t = c
      BY <2>1, <2>3, <3>2 DEF CallGoesOn, CallUnwinds, ApplyAspects, FindMatching, Proceed,
                              AroundReturns, FinishCall
    <3>4. ~CallUnwinds(c) /\ ~FinishCall(c)
      BY <2>1 DEF CallUnwinds, FinishCall, NotCalling
    <3>5. ~FindMatching(c) /\ \A f \in Targets : ~ApplyAspects(c, f)
      BY <2>1 DEF FindMatching, ApplyAspects, NotCalling
    <3>6. ~AroundReturns(c)
      <4> SUFFICES ASSUME AroundReturns(c)  PROVE FALSE
        OBVIOUS
      <4> DEFINE call == [applied[c] EXCEPT !.entered = Front(@), !.unspent = FALSE]
      <4>1. applied' = [applied EXCEPT ![c] = call]
        BY <2>1 DEF AroundReturns
      <4>2. call.ran = applied[c].ran
        BY <2>1, RunTyped
      <4> HIDE DEF call
      <4>3. applied'[c].ran = applied[c].ran
        BY <2>1, <4>1, <4>2
      <4> QED  BY <2>3, <4>3
    <3> QED  BY <3>2, <3>3, <3>4, <3>5, <3>6 DEF CallGoesOn
  <2>5. applied[c].pjp = << >> /\ applied[c].unspent
    <3>1. applied[c].unspent /\ applied'[c] = ProceedOnce(applied[c])
      BY <2>1, <2>4 DEF Proceed
    <3>2. CASE applied[c].pjp # << >>
      <4>1. ProceedOnce(applied[c]).ran = applied[c].ran
        BY <2>1, <3>2, RunTyped DEF ProceedOnce
      <4> QED  BY <2>3, <3>1, <4>1
    <3> QED  BY <3>1, <3>2
  <2>6. Around(applied[c]) = applied[c].entered
    BY <2>2, <2>5 DEF Around, AspectSeq
  <2> QED  BY <2>1, <2>5, <2>6 DEF RegistryInv, RunsDue
<1> QED  BY <1>1, RegistryInvHolds, PTL DEF AdviceSpec, NoDueAspectIsMissed

\* For any advice functions and attributes, each is around a call at most once, by
\* the last pointcut and the last order that its attribute gives.
THEOREM AdviceOnce == AdviceSpec => []AdviceIsAppliedOnce
<1>1. RegistryInv => AdviceIsAppliedOnce
  <2> SUFFICES ASSUME RegistryInv, NEW c \in Threads, NEW a \in AdviceFunctions,
                      applied[c].stage = "run"
               PROVE  LET around == applied[c].entered \o applied[c].pjp
                          mine == OwnAspects(a, around) IN
                      /\ Cardinality(mine) <= 1
                      /\ mine # {} => /\ registrar[a] = "forced"
                                      /\ applied[c].fn \in LastWritten(a, "pointcut", NoPointcut).fns
                      /\ WrittenOrder(a) >= 0 => \A i \in mine : around[i].order = WrittenOrder(a)
    BY DEF AdviceIsAppliedOnce
  <2> DEFINE s == Around(applied[c])
             mine == OwnAspects(a, s)
  <2>1. /\ s \in AspectSeq /\ Nested(s)
        /\ \A i \in 1..Len(s) : /\ IsOwn(s[i], own) /\ applied[c].fn \in s[i].fns
    BY DEF RegistryInv, RunsDue, Kept
  <2>2. \A i \in mine : i \in 1..Len(s) /\ s[i].id \in own[a]
    BY DEF OwnAspects
  <2>3. /\ own[a] # {} => registrar[a] = "forced"
        /\ \A i, j \in own[a] : i = j
    BY DEF RegistryInv, OwnedOnce
  <2>4. /\ ArgsOf(a).pointcut = LastWritten(a, "pointcut", NoPointcut)
        /\ WrittenOrder(a) >= 0 => ArgsOf(a).order = WrittenOrder(a)
    BY LastArgumentWins
  <2> HIDE DEF s, mine
  <2>5. \A i, j \in mine : i = j
    <3> SUFFICES ASSUME NEW i \in mine, NEW j \in mine, i # j  PROVE FALSE
      OBVIOUS
    <3>1. i \in 1..Len(s) /\ j \in 1..Len(s) /\ s[i].id = s[j].id
      BY <2>2, <2>3
    <3>2. i < j \/ j < i
      BY <3>1
    <3> QED  BY <2>1, <3>1, <3>2 DEF Nested
  <2>6. Cardinality(mine) <= 1
    <3>1. CASE mine = {}
      BY <3>1, FS_EmptySet
    <3>2. CASE mine # {}
      <4>1. PICK i \in mine : mine = {i}
        BY <2>5, <3>2
      <4>2. Cardinality({i}) = 1
        BY FS_Singleton
      <4> QED  BY <4>1, <4>2
    <3> QED  BY <3>1, <3>2
  <2>7. mine # {} => /\ registrar[a] = "forced"
                     /\ applied[c].fn \in LastWritten(a, "pointcut", NoPointcut).fns
    BY <2>1, <2>2, <2>3, <2>4 DEF IsOwn
  <2>8. WrittenOrder(a) >= 0 => \A i \in mine : s[i].order = WrittenOrder(a)
    BY <2>1, <2>2, <2>4 DEF IsOwn
  <2> QED  BY <2>6, <2>7, <2>8 DEF s, mine, Around
<1> QED  BY <1>1, RegistryInvHolds, PTL

===============================================================================
