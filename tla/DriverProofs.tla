----------------------------- MODULE DriverProofs -----------------------------
(***************************************************************************)
(* Proofs about the driver: match_function answers with the aspects that   *)
(* apply, in the order of their priorities, and the code generated from an *)
(* answer calls each of them once, at its place. And about one run of the  *)
(* driver or of cargo-aspect: what it says of itself is true, and it does  *)
(* what its command line says.                                             *)
(***************************************************************************)
EXTENDS DriverWeave, DriverRun, SubsequenceProofs, FiniteSetTheorems

-----------------------------------------------------------------------------
(* The order of the answers *)

Numbers == 1..Len(aspects)
Priorities == [i \in Numbers |-> PriorityAt(i)]

\* The higher priority first, then the earlier registration.
Ahead(n, pr) == {p \in (1..n) \X (1..n) :
                   pr[p[1]] > pr[p[2]] \/ (pr[p[1]] = pr[p[2]] /\ p[1] < p[2])}

LEMMA AheadIs ==
  ASSUME NEW n \in Nat, NEW pr \in [1..n -> Int]
  PROVE  /\ Asymmetric(Ahead(n, pr))
         /\ \A i, j \in 1..n : <<i, j>> \in Ahead(n, pr) <=>
              pr[i] > pr[j] \/ (pr[i] = pr[j] /\ i < j)
<1>1. \A i, j \in 1..n : <<i, j>> \in Ahead(n, pr) <=>
              pr[i] > pr[j] \/ (pr[i] = pr[j] /\ i < j)
  BY DEF Ahead
<1>2. ASSUME NEW x, NEW y, <<x, y>> \in Ahead(n, pr)  PROVE <<y, x>> \notin Ahead(n, pr)
  <2>1. x \in 1..n /\ y \in 1..n
    BY <1>2 DEF Ahead
  <2>2. pr[x] \in Int /\ pr[y] \in Int /\ x \in Int /\ y \in Int
    BY <2>1
  <2> QED  BY <1>1, <1>2, <2>1, <2>2
<1> QED  BY <1>1, <1>2 DEF Asymmetric

\* The step of the sort.
Insert(pr, s, i) ==
  Only(s, {j \in ToSet(s) : pr[j] >= pr[i]}) \o <<i>>
    \o Only(s, {j \in ToSet(s) : pr[j] < pr[i]})

\* One more number is put where it belongs.
LEMMA InsertKeepsOrder ==
  ASSUME NEW n \in Nat, NEW pr \in [1..n -> Int], NEW s \in Seq(1..n),
         OrderedBy(Ahead(n, pr), s), NEW i \in 1..n, \A j \in Elements(s) : j < i
  PROVE  /\ Insert(pr, s, i) \in Seq(1..n) /\ OrderedBy(Ahead(n, pr), Insert(pr, s, i))
         /\ Elements(Insert(pr, s, i)) = Elements(s) \cup {i}
<1> DEFINE R == Ahead(n, pr)
           Hi == {j \in ToSet(s) : pr[j] >= pr[i]}
           Lo == {j \in ToSet(s) : pr[j] < pr[i]}
           hi == Only(s, Hi)
           lo == Only(s, Lo)
           one == <<i>>
<1>1. Elements(s) \subseteq 1..n /\ ToSet(s) = Elements(s)
  BY DEF Elements, ToSet
<1>2. \A j, k \in 1..n : <<j, k>> \in R <=> pr[j] > pr[k] \/ (pr[j] = pr[k] /\ j < k)
  BY AheadIs
<1>3. \A j \in Elements(s) : j \in 1..n /\ pr[j] \in Int /\ pr[i] \in Int /\ j < i
  BY <1>1
<1>4. /\ \A j \in Hi : <<j, i>> \in R
      /\ \A j \in Lo : <<i, j>> \in R
      /\ \A j \in Hi, k \in Lo : <<j, k>> \in R
      /\ Elements(s) \cap Hi = Hi /\ Elements(s) \cap Lo = Lo /\ Hi \cup Lo = Elements(s)
  <2> HIDE DEF R
  <2>1. \A j \in Hi : j \in 1..n /\ pr[j] \in Int /\ pr[j] >= pr[i] /\ j < i
    BY <1>1, <1>3
  <2>2. \A j \in Lo : j \in 1..n /\ pr[j] \in Int /\ pr[j] < pr[i]
    BY <1>1, <1>3
  <2>3. pr[i] \in Int
    OBVIOUS
  <2>4. Hi \cup Lo = Elements(s)
    BY <1>1, <1>3
  <2> HIDE DEF Hi, Lo
  <2>5. \A j \in Hi : <<j, i>> \in R
    BY <1>2, <2>1, <2>3
  <2>6. \A j \in Lo : <<i, j>> \in R
    BY <1>2, <2>2, <2>3
  <2>7. \A j \in Hi, k \in Lo : <<j, k>> \in R
    <3> TAKE j \in Hi, k \in Lo
    <3>1. j \in 1..n /\ k \in 1..n /\ pr[j] > pr[k]
      BY <2>1, <2>2, <2>3
    <3> QED  BY <1>2, <3>1
  <2> QED  BY <2>4, <2>5, <2>6, <2>7
<1> HIDE DEF R, Hi, Lo
<1>5. /\ hi \in Seq(1..n) /\ OrderedBy(R, hi) /\ Elements(hi) = Hi
      /\ lo \in Seq(1..n) /\ OrderedBy(R, lo) /\ Elements(lo) = Lo
  <2>1. OrderedBy(R, s)
    BY DEF R
  <2> QED  BY <1>4, <2>1, OrderedOnly
<1>6. one \in Seq(1..n) /\ OrderedBy(R, one) /\ Elements(one) = {i}
  BY DEF OrderedBy, Elements
<1> HIDE DEF hi, lo, one
<1>7. /\ hi \o one \in Seq(1..n) /\ OrderedBy(R, hi \o one)
      /\ Elements(hi \o one) = Hi \cup {i}
  BY <1>4, <1>5, <1>6, OrderedConcat
<1> DEFINE front == hi \o one
<1>8. /\ front \in Seq(1..n) /\ OrderedBy(R, front) /\ Elements(front) = Hi \cup {i}
      /\ \A x \in Elements(front), y \in Elements(lo) : <<x, y>> \in R
  BY <1>4, <1>5, <1>7
<1> HIDE DEF front
<1>9. /\ front \o lo \in Seq(1..n) /\ OrderedBy(R, front \o lo)
      /\ Elements(front \o lo) = Elements(front) \cup Elements(lo)
  <2>1. lo \in Seq(1..n) /\ OrderedBy(R, lo)
    BY <1>5
  <2> QED  BY <1>8, <2>1, OrderedConcat, Zenon
<1>10. Insert(pr, s, i) = front \o lo
  BY DEF Insert, front, lo, hi, one, Hi, Lo
<1> QED  BY <1>4, <1>5, <1>8, <1>9, <1>10 DEF R

-----------------------------------------------------------------------------
(* The answer of match_function *)

Registered == aspects \in Seq(Offered)

LEMMA PriorityType ==
  ASSUME Registered
  PROVE  /\ Len(aspects) \in Nat /\ Priorities \in [1..Len(aspects) -> Int]
         /\ \A i \in Numbers : /\ aspects[i] \in Offered
                               /\ aspects[i].advice \in AdviceType
                               /\ aspects[i].priority \in Int
         /\ \A i \in Numbers : \E j \in Numbers :
              /\ j <= i /\ aspects[j].name = aspects[i].name
              /\ \A k \in Numbers : aspects[k].name = aspects[i].name => j <= k
              /\ PriorityAt(i) = aspects[j].priority
<1>1. /\ Len(aspects) \in Nat
      /\ \A i \in Numbers : /\ aspects[i] \in Offered
                            /\ aspects[i].advice \in AdviceType
                            /\ aspects[i].priority \in Int
  BY MatcherAssumption DEF MatcherAssumption, Registered, Numbers
<1>2. ASSUME NEW i \in Numbers
      PROVE  \E j \in Numbers :
              /\ j <= i /\ aspects[j].name = aspects[i].name
              /\ \A k \in Numbers : aspects[k].name = aspects[i].name => j <= k
              /\ PriorityAt(i) = aspects[j].priority
  <2> DEFINE S == {k \in 1..Len(aspects) : aspects[k].name = aspects[i].name}
  <2>1. S \in SUBSET Nat /\ i \in S
    BY <1>1 DEF Numbers
  <2>2. \E m \in S : \A k \in S : m <= k
    <3> HIDE DEF S
    <3> QED  BY <2>1, LeastNatural
  <2> DEFINE j == Min(S)
  <2>3. j \in S /\ \A k \in S : j <= k
    BY <2>2 DEF Min
  <2>4. PriorityAt(i) = aspects[j].priority
    BY DEF PriorityAt, GetPriority
  <2> HIDE DEF j
  <2> QED  BY <2>1, <2>3, <2>4 DEF Numbers
<1>3. Priorities \in [1..Len(aspects) -> Int]
  BY <1>1, <1>2 DEF Priorities, Numbers
<1> QED  BY <1>1, <1>2, <1>3

LEMMA InsertIs ==
  ASSUME Registered, NEW s \in Seq(Numbers), NEW i \in Numbers
  PROVE  /\ InsertByPriority(s, i) = Insert(Priorities, s, i)
         /\ InsertByPriority(s, i) \in Seq(Numbers)
<1>1. \A j \in Numbers : Priorities[j] = PriorityAt(j)
  BY DEF Priorities
<1>2. ToSet(s) \subseteq Numbers
  BY DEF ToSet
<1>3. /\ {j \in ToSet(s) : PriorityAt(j) >= PriorityAt(i)}
           = {j \in ToSet(s) : Priorities[j] >= Priorities[i]}
      /\ {j \in ToSet(s) : PriorityAt(j) < PriorityAt(i)}
           = {j \in ToSet(s) : Priorities[j] < Priorities[i]}
  BY <1>1, <1>2
<1>4. InsertByPriority(s, i) = Insert(Priorities, s, i)
  BY <1>3 DEF InsertByPriority, Insert
<1>5. \A S : Only(s, S) \in Seq(Numbers)
  BY OnlyEnumerates
<1>6. InsertByPriority(s, i) \in Seq(Numbers)
  <2> DEFINE a == Only(s, {j \in ToSet(s) : PriorityAt(j) >= PriorityAt(i)})
             b == Only(s, {j \in ToSet(s) : PriorityAt(j) < PriorityAt(i)})
             one == <<i>>
  <2>1. a \in Seq(Numbers) /\ b \in Seq(Numbers) /\ one \in Seq(Numbers)
    BY <1>5
  <2>2. InsertByPriority(s, i) = (a \o one) \o b
    BY DEF InsertByPriority
  <2> HIDE DEF a, b, one
  <2>3. a \o one \in Seq(Numbers)
    BY <2>1, ConcatProperties
  <2> QED  BY <2>1, <2>2, <2>3, ConcatProperties
<1> QED  BY <1>4, <1>6

LEMMA SortStep ==
  ASSUME Registered, NEW s \in Seq(Numbers),
         OrderedBy(Ahead(Len(aspects), Priorities), s),
         NEW i \in Numbers, \A j \in Elements(s) : j < i
  PROVE  /\ OrderedBy(Ahead(Len(aspects), Priorities), InsertByPriority(s, i))
         /\ Elements(InsertByPriority(s, i)) = Elements(s) \cup {i}
<1>1. PICK n, pr : n = Len(aspects) /\ pr = Priorities
  OBVIOUS
<1>2. n \in Nat /\ pr \in [1..n -> Int] /\ s \in Seq(1..n) /\ i \in 1..n
  BY <1>1, PriorityType DEF Numbers
<1>3. OrderedBy(Ahead(n, pr), s)
  BY <1>1
<1>4. /\ OrderedBy(Ahead(n, pr), Insert(pr, s, i))
      /\ Elements(Insert(pr, s, i)) = Elements(s) \cup {i}
  BY <1>2, <1>3, InsertKeepsOrder
<1> QED  BY <1>1, <1>4, InsertIs

Sorts(sorted, found) ==
  /\ sorted \in [0..Len(found) -> Seq(Numbers)] /\ sorted[0] = << >>
  /\ \A k \in 1..Len(found) : sorted[k] = InsertByPriority(sorted[k - 1], found[k])

\* SortByPriority is the last value of the function that its definition recurses with.
LEMMA SortIsDefined ==
  ASSUME Registered, NEW found \in Seq(Numbers)
  PROVE  \E sorted : Sorts(sorted, found) /\ SortByPriority(found) = sorted[Len(found)]
<1> DEFINE n == Len(found)
           V == Seq(Numbers)
           base == << >>
           step == [k \in 1..n |-> [v \in V |-> InsertByPriority(v, found[k])]]
           Def(f) == [k \in 0..n |-> IF k = 0 THEN << >>
                                    ELSE InsertByPriority(f[k - 1], found[k])]
           sorted == CHOOSE f : f = Def(f)
<1>1. n \in Nat /\ base \in V /\ StepsIn(V, n, step)
  <2>1. \A k \in 1..n : found[k] \in Numbers
    OBVIOUS
  <2>2. \A k \in 1..n, v \in V : InsertByPriority(v, found[k]) \in V
    BY <2>1, InsertIs
  <2> QED  BY <2>2 DEF StepsIn
<1>2. \A k \in 1..n, v \in V : step[k][v] = InsertByPriority(v, found[k])
  OBVIOUS
<1>3. SortByPriority(found) = sorted[n]
  BY DEF SortByPriority
<1>4. \A f : Def(f) = [k \in 0..n |-> Def(f)[k]] /\ Def(f)[0] = base
  <2>1. 0 \in 0..n
    BY <1>1
  <2> QED  BY <2>1
<1>5. \A f : \A k \in 1..n : Def(f)[k] = InsertByPriority(f[k - 1], found[k])
  <2>1. \A k \in 1..n : k \in 0..n /\ k # 0
    BY <1>1
  <2> QED  BY <2>1
<1> HIDE DEF n, V, base, step
<1>6. PICK g : Recurses(g, V, base, n, step)
  BY <1>1, Recursion
<1>7. g = Def(g)
  <2>1. ASSUME NEW k \in 1..n  PROVE g[k] = Def(g)[k]
    <3>1. g[k - 1] \in V /\ g[k] = step[k][g[k - 1]]
      BY <1>1, <1>6 DEF Recurses
    <3> QED  BY <1>2, <1>5, <3>1
  <2>2. g = [k \in 0..n |-> g[k]] /\ g[0] = base
    BY <1>6 DEF Recurses
  <2>3. \A k \in 0..n : k = 0 \/ k \in 1..n
    BY <1>1
  <2> HIDE DEF Def
  <2>4. \A k \in 0..n : g[k] = Def(g)[k]
    BY <1>4, <2>1, <2>2, <2>3
  <2>5. [k \in 0..n |-> g[k]] = [k \in 0..n |-> Def(g)[k]]
    BY <2>4
  <2> QED  BY <1>4, <2>2, <2>5
<1>8. sorted = Def(sorted)
  <2> HIDE DEF Def
  <2> QED  BY <1>7
<1> HIDE DEF sorted, Def
<1>9. sorted[0] = base /\ IsFunctionOn(sorted, 0..n)
  BY <1>4, <1>8 DEF IsFunctionOn
<1>10. \A k \in 1..n : sorted[k] = InsertByPriority(sorted[k - 1], found[k])
  BY <1>5, <1>8
<1>11. \A k \in 1..n : sorted[k - 1] \in V => sorted[k] = step[k][sorted[k - 1]]
  BY <1>2, <1>10
<1>12. Recurses(sorted, V, base, n, step)
  BY <1>1, <1>9, <1>11, RecursionStays
<1> QED  BY <1>3, <1>10, <1>12 DEF Recurses, Sorts, n, V, base

\* The sort puts the numbers in the order of their priorities.
LEMMA SortOrders ==
  ASSUME Registered, NEW found \in Seq(Numbers),
         \A j, k \in 1..Len(found) : j < k => found[j] < found[k]
  PROVE  /\ SortByPriority(found) \in Seq(Numbers)
         /\ OrderedBy(Ahead(Len(aspects), Priorities), SortByPriority(found))
         /\ Elements(SortByPriority(found)) = Elements(found)
<1> DEFINE m == Len(found)
           R == Ahead(Len(aspects), Priorities)
<1>1. PICK sorted : Sorts(sorted, found) /\ SortByPriority(found) = sorted[m]
  BY SortIsDefined
<1> DEFINE T == {k \in 0..m : /\ OrderedBy(R, sorted[k])
                             /\ Elements(sorted[k]) = {found[l] : l \in 1..k}}
<1>2. /\ m \in Nat /\ sorted \in [0..m -> Seq(Numbers)] /\ sorted[0] = << >>
      /\ \A k \in 1..m : found[k] \in Numbers
      /\ \A k \in 1..m : sorted[k] = InsertByPriority(sorted[k - 1], found[k])
  BY <1>1 DEF Sorts
<1>3. 0 \in T
  BY <1>2 DEF OrderedBy, Elements
<1>4. ASSUME NEW k \in 0..(m - 1), k \in T  PROVE k + 1 \in T
  <2>1. /\ k + 1 \in 1..m /\ k + 1 \in 0..m /\ (k + 1) - 1 = k /\ k \in 0..m
        /\ found[k + 1] \in Numbers
    BY <1>2
  <2> DEFINE s == sorted[k]
             i == found[k + 1]
  <2>2. /\ s \in Seq(Numbers) /\ OrderedBy(R, s) /\ Elements(s) = {found[l] : l \in 1..k}
        /\ sorted[k + 1] = InsertByPriority(s, i) /\ i \in Numbers
    BY <1>2, <1>4, <2>1
  <2>3. \A j \in Elements(s) : j < i
    <3>1. \A l \in 1..k : l \in 1..m /\ l < k + 1
      BY <1>2, <2>1
    <3> QED  BY <2>1, <2>2, <3>1
  <2> HIDE DEF s, i, R
  <2>5. /\ OrderedBy(R, sorted[k + 1]) /\ Elements(sorted[k + 1]) = Elements(s) \cup {i}
    BY <2>2, <2>3, SortStep DEF R
  <2>6. {found[l] : l \in 1..(k + 1)} = {found[l] : l \in 1..k} \cup {i}
    <3>1. \A l : l \in 1..(k + 1) <=> l \in 1..k \/ l = k + 1
      BY <1>2, <2>1
    <3> QED  BY <3>1 DEF i
  <2> QED  BY <2>1, <2>2, <2>5, <2>6
<1>5. m \in T
  <2>1. 0..m \subseteq T
    <3> HIDE DEF T, m
    <3> QED  BY <1>2, <1>3, <1>4, InductionTo
  <2> QED  BY <1>2, <2>1
<1> QED  BY <1>1, <1>2, <1>5 DEF Elements

Matches(f) == {i \in Numbers : Applies(aspects[i].pointcut, f)}

\* match_function lists those that match, and orders them by priority.
LEMMA AnswerIsOrdered ==
  ASSUME Registered, NEW f
  PROVE  /\ SortByPriority(Matching(f)) \in Seq(Numbers)
         /\ OrderedBy(Ahead(Len(aspects), Priorities), SortByPriority(Matching(f)))
         /\ Elements(SortByPriority(Matching(f))) = Matches(f)
<1> DEFINE n == Len(aspects)
           s == [i \in 1..n |-> i]
           M == Matches(f)
           t == Only(s, M)
<1>1. n \in Nat /\ s \in Seq(Numbers) /\ Len(s) = n /\ \A i \in 1..n : s[i] = i
  BY PriorityType DEF Numbers
<1>2. Matching(f) = t
  BY DEF Matching, Matches, Numbers
<1> HIDE DEF s, M
<1>3. PICK e : t \in Seq(Numbers) /\ Enumerates(e, n, t, s, M)
  BY <1>1, OnlyEnumerates
<1> HIDE DEF t, n
<1>4. \A k \in 1..Len(t) : e[k] \in 1..n /\ t[k] = e[k] /\ t[k] \in M
  BY <1>1, <1>3 DEF Enumerates
<1>5. \A j, k \in 1..Len(t) : j < k => t[j] < t[k]
  BY <1>3, <1>4 DEF Enumerates
<1>6. Elements(t) = M
  <2>1. ASSUME NEW i \in M  PROVE \E k \in 1..Len(t) : t[k] = i
    <3>1. i \in 1..n /\ s[i] = i
      BY <1>1 DEF M, Matches, Numbers, n
    <3>2. PICK k \in 1..Len(t) : e[k] = i
      BY <1>3, <2>1, <3>1 DEF Enumerates
    <3> QED  BY <1>4, <3>2
  <2> QED  BY <1>4, <2>1 DEF Elements
<1> QED  BY <1>2, <1>3, <1>5, <1>6, SortOrders DEF M

-----------------------------------------------------------------------------
(* The answers stay in order while aspects are registered *)

PriorityIn(s, i) == s[Min({k \in 1..Len(s) : s[k].name = s[i].name})].priority

\* The first aspect of a name stays the first of it.
LEMMA LaterKeepsPriority ==
  ASSUME NEW s \in Seq(Offered), NEW a \in Offered
  PROVE  /\ Append(s, a) \in Seq(Offered) /\ Len(Append(s, a)) = Len(s) + 1 /\ Len(s) \in Nat
         /\ \A i \in 1..Len(s) : Append(s, a)[i] = s[i]
         /\ \A i \in 1..Len(s) : PriorityIn(Append(s, a), i) = PriorityIn(s, i)
<1> DEFINE t == Append(s, a)
<1>1. /\ t \in Seq(Offered) /\ Len(t) = Len(s) + 1 /\ Len(s) \in Nat
      /\ \A i \in 1..Len(s) : t[i] = s[i]
  OBVIOUS
<1> HIDE DEF t
<1>2. ASSUME NEW i \in 1..Len(s)  PROVE PriorityIn(t, i) = PriorityIn(s, i)
  <2> DEFINE S == {k \in 1..Len(s) : s[k].name = s[i].name}
             T == {k \in 1..Len(t) : t[k].name = t[i].name}
  <2>1. \A k : k \in T <=> k \in S \/ (k = Len(s) + 1 /\ k \in T)
    <3>1. \A k : k \in 1..Len(t) <=> k \in 1..Len(s) \/ k = Len(s) + 1
      BY <1>1
    <3>2. Len(s) + 1 \notin 1..Len(s)
      BY <1>1
    <3> QED  BY <1>1, <3>1, <3>2
  <2>2. S \in SUBSET Nat /\ i \in S /\ \A k \in S : k <= Len(s)
    BY <1>1
  <2> HIDE DEF S, T
  <2>3. PICK m \in S : \A k \in S : m <= k
    BY <2>2, LeastNatural
  <2>4. m \in Nat /\ m <= Len(s)
    BY <2>2, <2>3
  <2>5. m \in T /\ \A k \in T : m <= k
    <3>1. m <= Len(s) + 1
      BY <1>1, <2>4
    <3> QED  BY <2>1, <2>3, <3>1
  <2>6. \A x \in S : (\A k \in S : x <= k) => x = m
    BY <2>2, <2>3
  <2>7. \A x \in T : (\A k \in T : x <= k) => x = m
    <3>1. \A x \in T : x \in Nat
      BY <1>1 DEF T
    <3> QED  BY <2>4, <2>5, <3>1
  <2>8. Min(S) = m /\ Min(T) = m
    BY <2>3, <2>5, <2>6, <2>7 DEF Min
  <2>9. m \in 1..Len(s)
    BY <2>3 DEF S
  <2> QED  BY <1>1, <2>8, <2>9 DEF PriorityIn, S, T
<1> QED  BY <1>1, <1>2 DEF t

MatcherInv ==
  /\ Registered
  /\ answers \in [CrateFunctions -> Seq(Numbers)]
  /\ \A f \in CrateFunctions :
       /\ OrderedBy(Ahead(Len(aspects), Priorities), answers[f])
       /\ Elements(answers[f]) \subseteq Matches(f)

\* One more registration.
LEMMA RegisterStays ==
  ASSUME Registered, NEW a \in Offered, aspects' = Append(aspects, a)
  PROVE  /\ Registered' /\ Len(aspects) \in Nat /\ Len(aspects)' = Len(aspects) + 1
         /\ \A i \in Numbers : i \in Numbers' /\ aspects'[i] = aspects[i]
                               /\ Priorities'[i] = Priorities[i]
<1>1. PICK s : s = aspects
  OBVIOUS
<1>2. s \in Seq(Offered)
  BY <1>1 DEF Registered
<1>3. aspects' = Append(s, a)
  BY <1>1
<1>4. /\ Append(s, a) \in Seq(Offered) /\ Len(Append(s, a)) = Len(s) + 1 /\ Len(s) \in Nat
      /\ \A i \in 1..Len(s) : Append(s, a)[i] = s[i]
      /\ \A i \in 1..Len(s) : PriorityIn(Append(s, a), i) = PriorityIn(s, i)
  BY <1>2, LaterKeepsPriority
<1>5. Registered'
  BY <1>3, <1>4 DEF Registered
<1>6. Len(aspects)' = Len(s) + 1
  BY <1>3, <1>4
<1>7. \A i \in 1..Len(s) : /\ Priorities[i] = PriorityIn(s, i)
  BY <1>1 DEF Priorities, Numbers, PriorityAt, GetPriority, PriorityIn
<1>8. \A i \in 1..Len(s) : i \in 1..Len(aspects')
  BY <1>4, <1>6
<1>9. \A i \in 1..Len(s) : Priorities'[i] = PriorityIn(aspects', i)
  BY <1>8 DEF Priorities, Numbers, PriorityAt, GetPriority, PriorityIn
<1> QED  BY <1>1, <1>3, <1>4, <1>5, <1>6, <1>7, <1>8, <1>9 DEF Numbers

LEMMA RegisterKeepsOrder ==
  ASSUME NEW n \in Nat, NEW pr, NEW qr, \A i \in 1..n : qr[i] = pr[i],
         NEW s \in Seq(1..n), OrderedBy(Ahead(n, pr), s)
  PROVE  OrderedBy(Ahead(n + 1, qr), s)
<1>1. ASSUME NEW j \in 1..Len(s), NEW k \in 1..Len(s), j < k
      PROVE  <<s[j], s[k]>> \in Ahead(n + 1, qr)
  <2>1. <<s[j], s[k]>> \in Ahead(n, pr)
    BY <1>1 DEF OrderedBy
  <2>2. s[j] \in 1..n /\ s[k] \in 1..n
    OBVIOUS
  <2>3. PICK x, y : x = s[j] /\ y = s[k]
    OBVIOUS
  <2>4. x \in 1..(n + 1) /\ y \in 1..(n + 1) /\ x \in 1..n /\ y \in 1..n
    BY <2>2, <2>3
  <2>5. pr[x] > pr[y] \/ (pr[x] = pr[y] /\ x < y)
    BY <2>1, <2>3 DEF Ahead
  <2>6. <<x, y>> \in Ahead(n + 1, qr)
    BY <2>4, <2>5 DEF Ahead
  <2> QED  BY <2>3, <2>6
<1> QED  BY <1>1 DEF OrderedBy

LEMMA MatcherInvInit == MatcherInit => MatcherInv
<1> SUFFICES ASSUME MatcherInit  PROVE MatcherInv
  OBVIOUS
<1>1. aspects = << >> /\ answers = [f \in CrateFunctions |-> << >>]
  BY DEF MatcherInit
<1>2. Registered
  BY <1>1 DEF Registered
<1>3. answers \in [CrateFunctions -> Seq(Numbers)]
  BY <1>1
<1>4. \A f \in CrateFunctions : answers[f] = << >>
  BY <1>1
<1>5. \A R : OrderedBy(R, << >>) /\ Elements(<< >>) = {}
  BY DEF OrderedBy, Elements
<1> QED  BY <1>2, <1>3, <1>4, <1>5 DEF MatcherInv

LEMMA MatcherInvNext == MatcherInv /\ [MatcherNext]_matcherVars => MatcherInv'
<1> SUFFICES ASSUME MatcherInv, [MatcherNext]_matcherVars  PROVE MatcherInv'
  OBVIOUS
<1>1. /\ Registered /\ answers \in [CrateFunctions -> Seq(Numbers)]
      /\ \A f \in CrateFunctions :
           /\ OrderedBy(Ahead(Len(aspects), Priorities), answers[f])
           /\ Elements(answers[f]) \subseteq Matches(f)
  BY DEF MatcherInv
<1>2. CASE Register
  <2>1. PICK a \in Offered : aspects' = Append(aspects, a)
    BY <1>2 DEF Register
  <2>2. answers' = answers
    BY <1>2 DEF Register
  <2>3. PICK n, pr, qr, s : n = Len(aspects) /\ pr = Priorities /\ qr = Priorities' /\ s = aspects
    OBVIOUS
  <2>4. /\ Registered' /\ n \in Nat /\ Len(aspects)' = n + 1
        /\ \A i \in 1..n : /\ i \in 1..(n + 1) /\ aspects'[i] = s[i] /\ qr[i] = pr[i]
    BY <1>1, <2>1, <2>3, RegisterStays DEF Numbers
  <2>5. answers \in [CrateFunctions -> Seq(1..n)]
    BY <1>1, <2>3 DEF Numbers
  <2>6. ASSUME NEW f \in CrateFunctions
        PROVE  /\ answers[f] \in Seq(1..(n + 1))
               /\ OrderedBy(Ahead(n + 1, qr), answers[f])
               /\ Elements(answers[f]) \subseteq Matches(f)'
    <3>1. PICK t : t = answers[f]
      OBVIOUS
    <3>2. t \in Seq(1..n) /\ OrderedBy(Ahead(n, pr), t)
      BY <1>1, <2>3, <2>5, <3>1
    <3>3. t \in Seq(1..(n + 1))
      BY <2>4, <3>2
    <3>4. OrderedBy(Ahead(n + 1, qr), t)
      BY <2>4, <3>2, RegisterKeepsOrder
    <3>5. Elements(t) \subseteq {i \in 1..n : Applies(s[i].pointcut, f)}
      BY <1>1, <2>3, <3>1 DEF Matches, Numbers
    <3>6. Matches(f)' = {i \in 1..(n + 1) : Applies(aspects'[i].pointcut, f)}
      BY <2>4 DEF Matches, Numbers
    <3>7. Elements(t) \subseteq Matches(f)'
      BY <2>4, <3>5, <3>6
    <3> QED  BY <3>1, <3>3, <3>4, <3>7
  <2>7. answers \in [CrateFunctions -> Seq(1..(n + 1))]
    BY <2>5, <2>6
  <2>8. Numbers' = 1..(n + 1) /\ Ahead(Len(aspects), Priorities)' = Ahead(n + 1, qr)
    BY <2>3, <2>4 DEF Numbers
  <2> QED  BY <2>2, <2>4, <2>6, <2>7, <2>8 DEF MatcherInv
<1>3. CASE \E f \in CrateFunctions : MatchFunction(f)
  <2>1. PICK f \in CrateFunctions : MatchFunction(f)
    BY <1>3
  <2>2. PICK t : t = SortByPriority(Matching(f))
    OBVIOUS
  <2>3. /\ t \in Seq(Numbers) /\ Elements(t) = Matches(f)
        /\ OrderedBy(Ahead(Len(aspects), Priorities), t)
    BY <1>1, <2>2, AnswerIsOrdered
  <2>4. aspects' = aspects /\ answers' = [answers EXCEPT ![f] = t]
    BY <2>1, <2>2 DEF MatchFunction
  <2>5. /\ Registered' = Registered /\ Numbers' = Numbers
        /\ Ahead(Len(aspects), Priorities)' = Ahead(Len(aspects), Priorities)
        /\ \A g : Matches(g)' = Matches(g)
    BY <2>4 DEF Registered, Numbers, Ahead, Priorities, PriorityAt, GetPriority, Matches
  <2>6. \A g \in CrateFunctions : (answers'[g] = t /\ g = f) \/ answers'[g] = answers[g]
    BY <1>1, <2>4
  <2>7. answers' \in [CrateFunctions -> Seq(Numbers)]
    BY <1>1, <2>3, <2>4
  <2> QED  BY <1>1, <2>3, <2>5, <2>6, <2>7 DEF MatcherInv
<1>4. CASE MatchAll
  <2>1. aspects' = aspects /\ answers' = [f \in CrateFunctions |-> SortByPriority(Matching(f))]
    BY <1>4 DEF MatchAll
  <2>2. \A f \in CrateFunctions :
          /\ answers'[f] \in Seq(Numbers) /\ Elements(answers'[f]) = Matches(f)
          /\ OrderedBy(Ahead(Len(aspects), Priorities), answers'[f])
    BY <1>1, <2>1, AnswerIsOrdered
  <2>3. /\ Registered' = Registered /\ Numbers' = Numbers
        /\ Ahead(Len(aspects), Priorities)' = Ahead(Len(aspects), Priorities)
        /\ \A g : Matches(g)' = Matches(g)
    BY <2>1 DEF Registered, Numbers, Ahead, Priorities, PriorityAt, GetPriority, Matches
  <2>4. answers' \in [CrateFunctions -> Seq(Numbers)]
    BY <2>1, <2>2
  <2> QED  BY <1>1, <2>2, <2>3, <2>4 DEF MatcherInv
<1>5. CASE UNCHANGED matcherVars
  <2>1. aspects' = aspects /\ answers' = answers
    BY <1>5 DEF matcherVars
  <2>2. /\ Registered' = Registered /\ Numbers' = Numbers
        /\ Ahead(Len(aspects), Priorities)' = Ahead(Len(aspects), Priorities)
        /\ \A g : Matches(g)' = Matches(g)
    BY <2>1 DEF Registered, Numbers, Ahead, Priorities, PriorityAt, GetPriority, Matches
  <2> QED  BY <1>1, <2>1, <2>2 DEF MatcherInv
<1> QED  BY <1>2, <1>3, <1>4, <1>5 DEF MatcherNext

\* Whatever is registered and matched, every answer holds aspects that apply to the
\* function, in the order of the priorities of their names.
THEOREM MatcherInvHolds == MatcherSpec => []MatcherInv
BY MatcherInvInit, MatcherInvNext, PTL DEF MatcherSpec

\* Registrations are aspects, and answers are numbers of registrations.
THEOREM MatcherTypeCorrect == MatcherSpec => []MatcherTypeOK
<1>1. MatcherInv => MatcherTypeOK
  BY DEF MatcherInv, MatcherTypeOK, Registered, Numbers
<1> QED  BY <1>1, MatcherInvHolds, PTL

-----------------------------------------------------------------------------
(* The order of the statements *)

Statement(n) ==
  [does : {"before", "join point", "around", "original", "proceed", "after"}, aspect : 0..n]

\* Which kind of statement comes first.
Stage(d) ==
  IF d = "before" THEN 1
  ELSE IF d = "join point" THEN 2
  ELSE IF d = "around" THEN 3
  ELSE IF d = "after" THEN 5 ELSE 4

\* Among befores and afters the one ahead is called first; among arounds it is built last.
Follows(n, pr, x, y) ==
  \/ Stage(x.does) < Stage(y.does)
  \/ /\ x.does = y.does /\ x.does \in {"before", "after"}
     /\ <<x.aspect, y.aspect>> \in Ahead(n, pr)
  \/ /\ x.does = y.does /\ x.does = "around"
     /\ <<y.aspect, x.aspect>> \in Ahead(n, pr)

InCode(n, pr) == {p \in Statement(n) \X Statement(n) : Follows(n, pr, p[1], p[2])}

LEMMA InCodeIs ==
  ASSUME NEW n \in Nat, NEW pr \in [1..n -> Int]
  PROVE  /\ Asymmetric(InCode(n, pr))
         /\ \A x, y \in Statement(n) : <<x, y>> \in InCode(n, pr) <=> Follows(n, pr, x, y)
<1>1. \A x, y \in Statement(n) : <<x, y>> \in InCode(n, pr) <=> Follows(n, pr, x, y)
  BY DEF InCode
<1>2. ASSUME NEW x, NEW y, <<x, y>> \in InCode(n, pr), <<y, x>> \in InCode(n, pr)
      PROVE FALSE
  <2>1. x \in Statement(n) /\ y \in Statement(n)
    BY <1>2 DEF InCode
  <2>2. Follows(n, pr, x, y) /\ Follows(n, pr, y, x)
    BY <1>1, <1>2, <2>1
  <2>3. \A d : Stage(d) \in Int
    BY DEF Stage
  <2>4. \A i, j : <<i, j>> \in Ahead(n, pr) => <<j, i>> \notin Ahead(n, pr)
    BY AheadIs DEF Asymmetric
  <2>5. CASE x.does = y.does
    <3>1. ~(Stage(x.does) < Stage(y.does)) /\ ~(Stage(y.does) < Stage(x.does))
      BY <2>3, <2>5
    <3> QED  BY <2>2, <2>4, <2>5, <3>1 DEF Follows
  <2>6. CASE x.does # y.does
    <3>1. Stage(x.does) < Stage(y.does) /\ Stage(y.does) < Stage(x.does)
      BY <2>2, <2>6 DEF Follows
    <3> QED  BY <2>3, <3>1
  <2> QED  BY <2>5, <2>6
<1> QED  BY <1>1, <1>2 DEF Asymmetric

Call(d, i) == [does |-> d, aspect |-> i]
CallsOf(d, s) == [k \in 1..Len(s) |-> Call(d, s[k])]

LEMMA CallIs ==
  ASSUME NEW n \in Nat, NEW i \in 0..n,
         NEW d \in {"before", "join point", "around", "original", "proceed", "after"}
  PROVE  Call(d, i) \in Statement(n) /\ Call(d, i).does = d /\ Call(d, i).aspect = i
BY DEF Call, Statement

\* The order in which the aspects of one kind are called.
InTurn(n, pr, d, s) ==
  \A j, k \in 1..Len(s) : j < k =>
    IF d = "around" THEN <<s[k], s[j]>> \in Ahead(n, pr)
    ELSE <<s[j], s[k]>> \in Ahead(n, pr)

\* A run of calls of one kind.
LEMMA CallsAreOrdered ==
  ASSUME NEW n \in Nat, NEW pr \in [1..n -> Int], NEW s \in Seq(1..n),
         NEW d \in {"before", "after", "around"},
         InTurn(n, pr, d, s)
  PROVE  /\ CallsOf(d, s) \in Seq(Statement(n))
         /\ OrderedBy(InCode(n, pr), CallsOf(d, s))
         /\ Elements(CallsOf(d, s)) = {Call(d, i) : i \in Elements(s)}
<1> DEFINE t == CallsOf(d, s)
<1>1. \A k \in 1..Len(s) : s[k] \in 0..n
  OBVIOUS
<1>2. \A k \in 1..Len(s) : /\ Call(d, s[k]) \in Statement(n) /\ Call(d, s[k]).does = d
                           /\ Call(d, s[k]).aspect = s[k]
  <2>1. d \in {"before", "join point", "around", "original", "proceed", "after"}
    OBVIOUS
  <2>2. \A i \in 0..n : /\ Call(d, i) \in Statement(n) /\ Call(d, i).does = d
                        /\ Call(d, i).aspect = i
    BY <2>1 DEF Call, Statement
  <2> QED  BY <1>1, <2>2
<1>3. t \in Seq(Statement(n)) /\ Len(t) = Len(s) /\ \A k \in 1..Len(s) : t[k] = Call(d, s[k])
  BY <1>2 DEF CallsOf
<1> HIDE DEF t
<1>4. ASSUME NEW j \in 1..Len(t), NEW k \in 1..Len(t), j < k
      PROVE  <<t[j], t[k]>> \in InCode(n, pr)
  <2>1. Follows(n, pr, t[j], t[k])
    BY <1>2, <1>3, <1>4 DEF Follows, InTurn
  <2>2. t[j] \in Statement(n) /\ t[k] \in Statement(n)
    BY <1>3
  <2> QED  BY <2>1, <2>2, InCodeIs
<1>5. Elements(t) = {Call(d, i) : i \in Elements(s)}
  BY <1>3 DEF Elements
<1> QED  BY <1>3, <1>4, <1>5 DEF t, OrderedBy

LEMMA ReverseIs ==
  ASSUME NEW X, NEW s \in Seq(X), NEW R, OrderedBy(R, s)
  PROVE  /\ Reverse(s) \in Seq(X) /\ Elements(Reverse(s)) = Elements(s)
         /\ \A j, k \in 1..Len(Reverse(s)) : j < k => <<Reverse(s)[k], Reverse(s)[j]>> \in R
<1> DEFINE n == Len(s)
           t == Reverse(s)
<1>1. n \in Nat /\ \A k \in 1..n : (n - k) + 1 \in 1..n /\ (n - ((n - k) + 1)) + 1 = k
  OBVIOUS
<1>2. t \in Seq(X) /\ Len(t) = n /\ \A k \in 1..n : t[k] = s[(n - k) + 1]
  BY <1>1 DEF Reverse
<1> HIDE DEF t, n
<1>3. ASSUME NEW j \in 1..n, NEW k \in 1..n, j < k  PROVE <<t[k], t[j]>> \in R
  <2>1. (n - k) + 1 < (n - j) + 1
    BY <1>1, <1>3
  <2> QED  BY <1>1, <1>2, <2>1 DEF OrderedBy, n
<1>4. \A k \in 1..n : \E j \in 1..n : t[j] = s[k]
  <2> TAKE k \in 1..n
  <2>1. t[(n - k) + 1] = s[k] /\ (n - k) + 1 \in 1..n
    BY <1>1, <1>2
  <2> QED  BY <2>1
<1>5. \A k \in 1..n : \E j \in 1..n : s[j] = t[k]
  BY <1>1, <1>2
<1>6. Elements(t) = Elements(s)
  <2>1. Elements(t) = {t[k] : k \in 1..n} /\ Elements(s) = {s[k] : k \in 1..n}
    BY <1>2 DEF Elements, n
  <2>2. \A x \in {t[k] : k \in 1..n} : x \in {s[k] : k \in 1..n}
    BY <1>5
  <2>3. \A x \in {s[k] : k \in 1..n} : x \in {t[k] : k \in 1..n}
    BY <1>4
  <2> QED  BY <2>1, <2>2, <2>3
<1> QED  BY <1>2, <1>3, <1>6 DEF t

\* A piece of the code, of statements of some stages.
Piece(n, pr, s, first, last) ==
  /\ s \in Seq(Statement(n)) /\ OrderedBy(InCode(n, pr), s)
  /\ \A x \in Elements(s) : first <= Stage(x.does) /\ Stage(x.does) <= last

LEMMA PiecesJoin ==
  ASSUME NEW n \in Nat, NEW pr \in [1..n -> Int], NEW a \in Nat, NEW b \in Nat, NEW c \in Nat,
         NEW d \in Nat, a <= b, b < c, c <= d,
         NEW s, Piece(n, pr, s, a, b), NEW t, Piece(n, pr, t, c, d)
  PROVE  /\ Piece(n, pr, s \o t, a, d)
         /\ Elements(s \o t) = Elements(s) \cup Elements(t)
<1>1. /\ s \in Seq(Statement(n)) /\ OrderedBy(InCode(n, pr), s)
      /\ t \in Seq(Statement(n)) /\ OrderedBy(InCode(n, pr), t)
      /\ \A x \in Elements(s) : a <= Stage(x.does) /\ Stage(x.does) <= b
      /\ \A x \in Elements(t) : c <= Stage(x.does) /\ Stage(x.does) <= d
  BY DEF Piece
<1>2. \A e : Stage(e) \in Nat
  BY DEF Stage
<1>3. \A x \in Elements(s), y \in Elements(t) : <<x, y>> \in InCode(n, pr)
  <2> TAKE x \in Elements(s), y \in Elements(t)
  <2>1. x \in Statement(n) /\ y \in Statement(n)
    BY <1>1 DEF Elements
  <2>2. Stage(x.does) < Stage(y.does)
    BY <1>1, <1>2
  <2>3. Follows(n, pr, x, y)
    BY <2>2 DEF Follows
  <2> QED  BY <2>1, <2>3, InCodeIs
<1>4. /\ s \o t \in Seq(Statement(n)) /\ OrderedBy(InCode(n, pr), s \o t)
      /\ Elements(s \o t) = Elements(s) \cup Elements(t)
  BY <1>1, <1>3, OrderedConcat
<1>5. ASSUME NEW x \in Elements(s \o t)
      PROVE  a <= Stage(x.does) /\ Stage(x.does) <= d
  <2>1. PICK e : e = Stage(x.does)
    OBVIOUS
  <2>2. e \in Nat
    BY <1>2, <2>1
  <2>3. (a <= e /\ e <= b) \/ (c <= e /\ e <= d)
    BY <1>1, <1>4, <2>1
  <2>4. a <= e /\ e <= d
    BY <2>2, <2>3
  <2> QED  BY <2>1, <2>4
<1> QED  BY <1>4, <1>5 DEF Piece

LEMMA SinglePiece ==
  ASSUME NEW n \in Nat, NEW pr, NEW x \in Statement(n)
  PROVE  /\ Piece(n, pr, <<x>>, Stage(x.does), Stage(x.does))
         /\ Elements(<<x>>) = {x}
<1>1. \A e : Stage(e) \in Nat
  BY DEF Stage
<1>2. <<x>> \in Seq(Statement(n)) /\ Elements(<<x>>) = {x}
  BY DEF Elements
<1>3. OrderedBy(InCode(n, pr), <<x>>)
  BY DEF OrderedBy
<1> QED  BY <1>1, <1>2, <1>3 DEF Piece

LEMMA CallsPiece ==
  ASSUME NEW n \in Nat, NEW pr \in [1..n -> Int], NEW s \in Seq(1..n),
         NEW d \in {"before", "after", "around"},
         InTurn(n, pr, d, s)
  PROVE  /\ Piece(n, pr, CallsOf(d, s), Stage(d), Stage(d))
         /\ Elements(CallsOf(d, s)) = {Call(d, i) : i \in Elements(s)}
<1>1. /\ CallsOf(d, s) \in Seq(Statement(n)) /\ OrderedBy(InCode(n, pr), CallsOf(d, s))
      /\ Elements(CallsOf(d, s)) = {Call(d, i) : i \in Elements(s)}
  BY CallsAreOrdered
<1>2. \A i : Call(d, i).does = d
  BY DEF Call
<1>3. Stage(d) \in Nat
  BY DEF Stage
<1>4. \A x \in Elements(CallsOf(d, s)) : x.does = d
  BY <1>1, <1>2
<1> QED  BY <1>1, <1>3, <1>4 DEF Piece

-----------------------------------------------------------------------------
(* The statements of the generated code *)

Listed(found) ==
  found \in Seq(Numbers) /\ OrderedBy(Ahead(Len(aspects), Priorities), found)

LEMMA OfTypeIs ==
  ASSUME NEW found, Listed(found), NEW type
  PROVE  /\ Listed(OfType(found, type))
         /\ Elements(OfType(found, type)) = {i \in Elements(found) : aspects[i].advice = type}
<1> DEFINE S == {i \in ToSet(found) : aspects[i].advice = type}
<1>1. ToSet(found) = Elements(found)
  BY DEF ToSet, Elements
<1>2. Elements(found) \cap S = {i \in Elements(found) : aspects[i].advice = type}
  BY <1>1
<1>3. OfType(found, type) = Only(found, S)
  BY DEF OfType
<1> HIDE DEF S
<1>4. /\ found \in Seq(Numbers) /\ OrderedBy(Ahead(Len(aspects), Priorities), found)
  BY DEF Listed
<1>5. /\ Only(found, S) \in Seq(Numbers)
      /\ OrderedBy(Ahead(Len(aspects), Priorities), Only(found, S))
      /\ Elements(Only(found, S)) = Elements(found) \cap S
  BY <1>4, OrderedOnly
<1> QED  BY <1>2, <1>3, <1>5 DEF Listed

CallFor(i) ==
  Call(IF aspects[i].advice = "Before" THEN "before"
       ELSE IF aspects[i].advice = "After" THEN "after" ELSE "around", i)

InCodeNow == InCode(Len(aspects), Priorities)

\* The statements that run the function.
Cores == {{OriginalCall}, {NewJoinPoint, Proceed}}

\* A body calls what it was made from, and the function, in the order InCode.
WellMade(s, found) ==
  /\ s \in Seq(Statement(Len(aspects))) /\ OrderedBy(InCodeNow, s)
  /\ \E core \in Cores : Elements(s) = {CallFor(i) : i \in Elements(found)} \cup core

LEMMA BodyIs ==
  ASSUME Registered, NEW found, Listed(found)
  PROVE  WellMade(Body(found), found)
<1>1. PICK n, pr : n = Len(aspects) /\ pr = Priorities
  OBVIOUS
<1>2. n \in Nat /\ pr \in [1..n -> Int] /\ \A i \in 1..n : aspects[i].advice \in AdviceType
  BY <1>1, PriorityType DEF Numbers
<1> DEFINE b == OfType(found, "Before")
           a == OfType(found, "After")
           r == OfType(found, "Around")
           Of(t) == {i \in Elements(found) : aspects[i].advice = t}
<1>3. /\ b \in Seq(1..n) /\ OrderedBy(Ahead(n, pr), b) /\ Elements(b) = Of("Before")
      /\ a \in Seq(1..n) /\ OrderedBy(Ahead(n, pr), a) /\ Elements(a) = Of("After")
      /\ r \in Seq(1..n) /\ OrderedBy(Ahead(n, pr), r) /\ Elements(r) = Of("Around")
  <2>1. Numbers = 1..n
    BY <1>1 DEF Numbers
  <2> QED  BY <1>1, <2>1, OfTypeIs DEF Listed
<1>4. Elements(found) \subseteq 1..n
  BY <1>1 DEF Listed, Numbers, Elements
<1> DEFINE B == CallsOf("before", b)
           A == CallsOf("after", a)
           R == CallsOf("around", Reverse(r))
           O == <<OriginalCall>>
           J == <<NewJoinPoint>>
           P == <<Proceed>>
<1>5. /\ Each(BeforeCall, b) = B /\ Each(AfterCall, a) = A
      /\ Each(AroundCall, Reverse(r)) = R
  BY DEF Each, CallsOf, Call, BeforeCall, AfterCall, AroundCall
<1>6. Body(found) = IF r # << >> THEN B \o J \o R \o P \o A ELSE B \o O \o A
  BY <1>5 DEF Body, BodyWithAround, BodyWithBeforeAfter
<1> HIDE DEF b, a, r
<1>7. /\ Piece(n, pr, B, 1, 1) /\ Elements(B) = {Call("before", i) : i \in Of("Before")}
      /\ Piece(n, pr, A, 5, 5) /\ Elements(A) = {Call("after", i) : i \in Of("After")}
  <2>1. Stage("before") = 1 /\ Stage("after") = 5
    BY DEF Stage
  <2>2. Piece(n, pr, B, Stage("before"), Stage("before"))
        /\ Elements(B) = {Call("before", i) : i \in Elements(b)}
    <3>1. InTurn(n, pr, "before", b)
      BY <1>3 DEF OrderedBy, InTurn
    <3> QED  BY <1>2, <1>3, <3>1, CallsPiece
  <2>3. Piece(n, pr, A, Stage("after"), Stage("after"))
        /\ Elements(A) = {Call("after", i) : i \in Elements(a)}
    <3>1. InTurn(n, pr, "after", a)
      BY <1>3 DEF OrderedBy, InTurn
    <3> QED  BY <1>2, <1>3, <3>1, CallsPiece
  <2> QED  BY <1>3, <2>1, <2>2, <2>3
<1>8. Piece(n, pr, R, 3, 3) /\ Elements(R) = {Call("around", i) : i \in Of("Around")}
  <2> DEFINE q == Reverse(r)
  <2>1. /\ q \in Seq(1..n) /\ Elements(q) = Elements(r)
        /\ \A j, k \in 1..Len(q) : j < k => <<q[k], q[j]>> \in Ahead(n, pr)
    BY <1>3, ReverseIs
  <2>4. InTurn(n, pr, "around", q)
    BY <2>1 DEF InTurn
  <2> HIDE DEF q
  <2>2. Stage("around") = 3
    BY DEF Stage
  <2>3. Piece(n, pr, CallsOf("around", q), Stage("around"), Stage("around"))
        /\ Elements(CallsOf("around", q)) = {Call("around", i) : i \in Elements(q)}
    BY <1>2, <2>1, <2>4, CallsPiece
  <2> QED  BY <1>3, <2>1, <2>2, <2>3 DEF q
<1>9. /\ Piece(n, pr, O, 4, 4) /\ Elements(O) = {OriginalCall}
      /\ Piece(n, pr, J, 2, 2) /\ Elements(J) = {NewJoinPoint}
      /\ Piece(n, pr, P, 4, 4) /\ Elements(P) = {Proceed}
  <2>1. /\ OriginalCall \in Statement(n) /\ Stage(OriginalCall.does) = 4
        /\ NewJoinPoint \in Statement(n) /\ Stage(NewJoinPoint.does) = 2
        /\ Proceed \in Statement(n) /\ Stage(Proceed.does) = 4
    BY <1>2 DEF OriginalCall, NewJoinPoint, Proceed, Statement, Stage
  <2>2. \A x \in Statement(n) : /\ Piece(n, pr, <<x>>, Stage(x.does), Stage(x.does))
                                /\ Elements(<<x>>) = {x}
    BY <1>2, SinglePiece
  <2>3. Piece(n, pr, O, 4, 4) /\ Elements(O) = {OriginalCall}
    BY <2>1, <2>2
  <2>4. Piece(n, pr, J, 2, 2) /\ Elements(J) = {NewJoinPoint}
    BY <2>1, <2>2
  <2>5. Piece(n, pr, P, 4, 4) /\ Elements(P) = {Proceed}
    BY <2>1, <2>2
  <2> QED  BY <2>3, <2>4, <2>5
<1> HIDE DEF B, A, R, O, J, P
<1>10. {CallFor(i) : i \in Elements(found)} = Elements(B) \cup Elements(A) \cup Elements(R)
  <2>1. \A i \in Elements(found) : \/ i \in Of("Before") /\ CallFor(i) = Call("before", i)
                                   \/ i \in Of("After") /\ CallFor(i) = Call("after", i)
                                   \/ i \in Of("Around") /\ CallFor(i) = Call("around", i)
    BY <1>2, <1>4 DEF AdviceType, CallFor
  <2>2. /\ \A i \in Of("Before") : CallFor(i) = Call("before", i)
        /\ \A i \in Of("After") : CallFor(i) = Call("after", i)
        /\ \A i \in Of("Around") : CallFor(i) = Call("around", i)
    BY DEF CallFor
  <2> QED  BY <1>7, <1>8, <2>1, <2>2
<1>11. CASE r = << >>
  <2>1. Piece(n, pr, B \o O, 1, 4) /\ Elements(B \o O) = Elements(B) \cup Elements(O)
    BY <1>2, <1>7, <1>9, PiecesJoin
  <2>2. /\ Piece(n, pr, (B \o O) \o A, 1, 5)
        /\ Elements((B \o O) \o A) = Elements(B \o O) \cup Elements(A)
    BY <1>2, <1>7, <2>1, PiecesJoin
  <2>3. Elements(R) = {}
    <3>1. Elements(r) = {}
      BY <1>11 DEF Elements
    <3> QED  BY <1>3, <1>8, <3>1
  <2>4. Body(found) = (B \o O) \o A
    BY <1>6, <1>11
  <2>5. Elements(Body(found)) = {CallFor(i) : i \in Elements(found)} \cup {OriginalCall}
    BY <1>9, <1>10, <2>1, <2>2, <2>3, <2>4
  <2> QED  BY <1>1, <2>2, <2>4, <2>5 DEF WellMade, Piece, Cores, InCodeNow
<1>12. CASE r # << >>
  <2>1. Piece(n, pr, B \o J, 1, 2) /\ Elements(B \o J) = Elements(B) \cup Elements(J)
    BY <1>2, <1>7, <1>9, PiecesJoin
  <2>2. /\ Piece(n, pr, (B \o J) \o R, 1, 3)
        /\ Elements((B \o J) \o R) = Elements(B \o J) \cup Elements(R)
    <3>1. Piece(n, pr, R, 3, 3)
      BY <1>8
    <3> DEFINE f == B \o J
    <3>2. Piece(n, pr, f, 1, 2)
      BY <2>1
    <3> HIDE DEF f
    <3>3. /\ Piece(n, pr, f \o R, 1, 3)
          /\ Elements(f \o R) = Elements(f) \cup Elements(R)
      BY <1>2, <3>1, <3>2, PiecesJoin
    <3> QED  BY <3>3 DEF f
  <2>3. /\ Piece(n, pr, ((B \o J) \o R) \o P, 1, 4)
        /\ Elements(((B \o J) \o R) \o P) = Elements((B \o J) \o R) \cup Elements(P)
    BY <1>2, <1>9, <2>2, PiecesJoin
  <2>4. /\ Piece(n, pr, (((B \o J) \o R) \o P) \o A, 1, 5)
        /\ Elements((((B \o J) \o R) \o P) \o A)
             = Elements(((B \o J) \o R) \o P) \cup Elements(A)
    BY <1>2, <1>7, <2>3, PiecesJoin
  <2>5. Body(found) = (((B \o J) \o R) \o P) \o A
    BY <1>6, <1>12
  <2>6. Elements(Body(found))
          = {CallFor(i) : i \in Elements(found)} \cup {NewJoinPoint, Proceed}
    BY <1>9, <1>10, <2>1, <2>2, <2>3, <2>4, <2>5
  <2> QED  BY <1>1, <2>4, <2>5, <2>6 DEF WellMade, Piece, Cores, InCodeNow
<1> QED  BY <1>11, <1>12

\* What the statements of a body are.
LEMMA StatementsAre ==
  ASSUME Registered, NEW found, Listed(found), NEW s, WellMade(s, found),
         NEW k \in 1..Len(s)
  PROVE  \/ /\ s[k].aspect \in Elements(found) /\ s[k] = CallFor(s[k].aspect)
            /\ s[k].aspect \in Numbers /\ s[k].aspect # 0
            /\ s[k].does \in {"before", "after", "around"}
         \/ s[k] \in {OriginalCall, NewJoinPoint, Proceed} /\ s[k].aspect = 0
<1>1. s[k] \in Elements(s)
  BY DEF Elements
<1>2. PICK core \in Cores : Elements(s) = {CallFor(i) : i \in Elements(found)} \cup core
  BY DEF WellMade
<1>3. CASE s[k] \in core
  <2>1. core \subseteq {OriginalCall, NewJoinPoint, Proceed}
    BY DEF Cores
  <2>2. OriginalCall.aspect = 0 /\ NewJoinPoint.aspect = 0 /\ Proceed.aspect = 0
    BY DEF OriginalCall, NewJoinPoint, Proceed
  <2> QED  BY <1>3, <2>1, <2>2
<1>4. CASE s[k] \notin core
  <2>1. PICK i \in Elements(found) : s[k] = CallFor(i)
    BY <1>1, <1>2, <1>4
  <2>2. i \in Numbers
    BY DEF Listed, Elements
  <2>3. i # 0
    BY <2>2, PriorityType DEF Numbers
  <2>4. s[k].aspect = i /\ s[k].does \in {"before", "after", "around"}
    BY <2>1 DEF CallFor, Call
  <2> QED  BY <2>1, <2>2, <2>3, <2>4
<1> QED  BY <1>3, <1>4

LEMMA StandsOnce ==
  ASSUME Registered, NEW s, s \in Seq(Statement(Len(aspects))), OrderedBy(InCodeNow, s),
         NEW j \in 1..Len(s), NEW k \in 1..Len(s)
  PROVE  /\ s[j] = s[k] => j = k
         /\ Stage(s[j].does) < Stage(s[k].does) => j < k
         /\ j < k => Follows(Len(aspects), Priorities, s[j], s[k])
<1>1. PICK n, pr : n = Len(aspects) /\ pr = Priorities
  OBVIOUS
<1>2. n \in Nat /\ pr \in [1..n -> Int]
  BY <1>1, PriorityType
<1>3. s \in Seq(Statement(n)) /\ OrderedBy(InCode(n, pr), s) /\ Asymmetric(InCode(n, pr))
  BY <1>1, <1>2, InCodeIs DEF InCodeNow
<1>4. s[j] = s[k] => j = k
  BY <1>3, OrderedOnce
<1>5. \A a, b \in 1..Len(s) : a < b => Follows(n, pr, s[a], s[b])
  <2> TAKE a, b \in 1..Len(s)
  <2> HAVE a < b
  <2>1. <<s[a], s[b]>> \in InCode(n, pr) /\ s[a] \in Statement(n) /\ s[b] \in Statement(n)
    BY <1>3 DEF OrderedBy
  <2> QED  BY <1>2, <2>1, InCodeIs
<1>6. ASSUME Stage(s[j].does) < Stage(s[k].does)  PROVE j < k
  <2>1. \A d : Stage(d) \in Nat
    BY DEF Stage
  <2>2. j # k
    BY <1>6, <2>1
  <2>3. ASSUME k < j  PROVE FALSE
    <3>1. Follows(n, pr, s[k], s[j])
      BY <1>5, <2>3
    <3>2. s[k].does # s[j].does
      BY <1>6, <2>1
    <3>3. Stage(s[k].does) < Stage(s[j].does)
      BY <3>1, <3>2 DEF Follows
    <3> QED  BY <1>6, <2>1, <3>3
  <2> QED  BY <2>2, <2>3
<1> QED  BY <1>1, <1>4, <1>5, <1>6

\* Where the names agree, an aspect's own priority is that of its name.
LEMMA AgreeingNames ==
  ASSUME Registered, NamesAgree, NEW i \in Numbers, NEW j \in Numbers
  PROVE  <<i, j>> \in Ahead(Len(aspects), Priorities) <=> DueBefore(i, j)
<1>1. ASSUME NEW k \in Numbers  PROVE Priorities[k] = aspects[k].priority
  <2>1. PICK m \in Numbers : /\ aspects[m].name = aspects[k].name
                             /\ PriorityAt(k) = aspects[m].priority
    BY PriorityType
  <2> QED  BY <2>1 DEF NamesAgree, Numbers, Priorities
<1>2. Len(aspects) \in Nat /\ Priorities \in [1..Len(aspects) -> Int]
  BY PriorityType
<1>3. <<i, j>> \in Ahead(Len(aspects), Priorities)
        <=> Priorities[i] > Priorities[j] \/ (Priorities[i] = Priorities[j] /\ i < j)
  BY DEF Ahead, Numbers
<1> QED  BY <1>1, <1>3 DEF DueBefore

\* What EveryMatchIsWovenOnce says of the statements of one function.
Woven(s, all) ==
  LET core == CorePlace(s)
      PlaceOf(i) == {k \in 1..Len(s) : s[k].aspect = i}
  IN  /\ Cardinality(Places(s, "original") \cup Places(s, "proceed")) = 1
      /\ all = {s[k].aspect : k \in 1..Len(s)} \ {0}
      /\ \A i \in all : Cardinality(PlaceOf(i)) = 1
      /\ \A k \in 1..Len(s) :
           /\ s[k].does \in {"before", "around"} => k < core
           /\ s[k].does = "after" => k > core
           /\ s[k].aspect # 0 =>
                [Before |-> "before", After |-> "after", Around |-> "around"]
                  [aspects[s[k].aspect].advice] = s[k].does
      /\ NamesAgree => \A k, l \in 1..Len(s) :
           /\ k < l /\ 0 \notin {s[k].aspect, s[l].aspect}
           /\ s[k].does = s[l].does
           => IF s[k].does = "around" THEN ~DueBefore(s[k].aspect, s[l].aspect)
              ELSE ~DueBefore(s[l].aspect, s[k].aspect)

LEMMA WovenOnce ==
  ASSUME Registered, NEW found, Listed(found), NEW s, WellMade(s, found)
  PROVE  Woven(s, Elements(found))
<1> DEFINE C == Places(s, "original") \cup Places(s, "proceed")
           PlaceOf(i) == {k \in 1..Len(s) : s[k].aspect = i}
<1>1. s \in Seq(Statement(Len(aspects))) /\ OrderedBy(InCodeNow, s)
  BY DEF WellMade
<1>2. PICK cores \in Cores : Elements(s) = {CallFor(i) : i \in Elements(found)} \cup cores
  BY DEF WellMade
<1>3. \A k \in 1..Len(s) :
        \/ /\ s[k].aspect \in Elements(found) /\ s[k] = CallFor(s[k].aspect)
           /\ s[k].aspect \in Numbers /\ s[k].aspect # 0
           /\ s[k].does \in {"before", "after", "around"}
        \/ s[k] \in {OriginalCall, NewJoinPoint, Proceed} /\ s[k].aspect = 0
  BY StatementsAre
<1>4. \A j, k \in 1..Len(s) :
        /\ s[j] = s[k] => j = k
        /\ Stage(s[j].does) < Stage(s[k].does) => j < k
        /\ j < k => Follows(Len(aspects), Priorities, s[j], s[k])
  BY <1>1, StandsOnce
<1>5. PICK c \in 1..Len(s) : C = {c} /\ s[c].does \in {"original", "proceed"}
  <2>1. PICK x \in cores : x \in {OriginalCall, Proceed}
    BY DEF Cores
  <2>2. PICK c \in 1..Len(s) : s[c] = x
    BY <1>2, <2>1 DEF Elements
  <2>3. s[c].does \in {"original", "proceed"}
    BY <2>1, <2>2 DEF OriginalCall, Proceed
  <2>4. c \in C
    BY <2>3 DEF Places
  <2>5. ASSUME NEW k \in C  PROVE k = c
    <3>1. k \in 1..Len(s) /\ s[k].does \in {"original", "proceed"}
      BY DEF Places
    <3>2. s[k] \notin {CallFor(i) : i \in Elements(found)}
      BY <3>1 DEF CallFor, Call
    <3>3. s[k] \in cores
      BY <1>2, <3>1, <3>2 DEF Elements
    <3>4. s[k] # NewJoinPoint /\ x # NewJoinPoint
      <4>1. NewJoinPoint.does = "join point"
        BY DEF NewJoinPoint
      <4> QED  BY <2>2, <2>3, <3>1, <4>1
    <3>5. s[k] = x
      BY <2>1, <3>3, <3>4 DEF Cores
    <3> QED  BY <1>4, <2>2, <3>1, <3>5
  <2> QED  BY <2>3, <2>4, <2>5
<1>6. CorePlace(s) = c
  <2>1. CorePlace(s) = Min({c})
    BY <1>5 DEF CorePlace
  <2> QED  BY <2>1 DEF Min
<1>7. Cardinality(C) = 1
  BY <1>5, FS_Singleton
<1>8. ASSUME NEW i \in Elements(found)
      PROVE  \E k \in 1..Len(s) : PlaceOf(i) = {k} /\ s[k].aspect = i
  <2>1. i \in Numbers /\ i # 0
    BY PriorityType DEF Listed, Elements, Numbers
  <2>2. PICK k \in 1..Len(s) : s[k] = CallFor(i)
    BY <1>2 DEF Elements
  <2>3. s[k].aspect = i
    BY <2>2 DEF CallFor, Call
  <2>4. ASSUME NEW j \in 1..Len(s), s[j].aspect = i  PROVE j = k
    <3>1. s[j] = CallFor(i)
      BY <1>3, <2>1, <2>4
    <3> QED  BY <1>4, <2>2, <3>1
  <2>5. PlaceOf(i) = {k}
    BY <2>3, <2>4
  <2> QED  BY <2>3, <2>5
<1>9. \A i \in Elements(found) : Cardinality(PlaceOf(i)) = 1
  <2> HIDE DEF PlaceOf
  <2> QED  BY <1>8, FS_Singleton
<1>10. Elements(found) = {s[k].aspect : k \in 1..Len(s)} \ {0}
  <2>1. \A i \in Elements(found) : i # 0
    BY PriorityType DEF Listed, Elements, Numbers
  <2>2. \A i \in Elements(found) : \E k \in 1..Len(s) : s[k].aspect = i
    BY <1>8
  <2>3. \A k \in 1..Len(s) : s[k].aspect # 0 => s[k].aspect \in Elements(found)
    BY <1>3
  <2> QED  BY <2>1, <2>2, <2>3
<1>11. ASSUME NEW k \in 1..Len(s)
       PROVE  /\ s[k].does \in {"before", "around"} => k < c
              /\ s[k].does = "after" => k > c
  <2>1. Stage(s[c].does) = 4
    BY <1>5 DEF Stage
  <2>2. /\ s[k].does \in {"before", "around"} => Stage(s[k].does) < 4
        /\ s[k].does = "after" => 4 < Stage(s[k].does)
    <3>1. Stage("before") = 1 /\ Stage("around") = 3 /\ Stage("after") = 5
      BY DEF Stage
    <3>2. s[k].does \in {"before", "around"} => s[k].does = "before" \/ s[k].does = "around"
      OBVIOUS
    <3> QED  BY <3>1, <3>2
  <2> QED  BY <1>4, <1>5, <2>1, <2>2
<1>12. ASSUME NEW k \in 1..Len(s), s[k].aspect # 0
       PROVE  [Before |-> "before", After |-> "after", Around |-> "around"]
                 [aspects[s[k].aspect].advice] = s[k].does
  <2>1. PICK i : i = s[k].aspect
    OBVIOUS
  <2>2. i \in Numbers /\ s[k] = CallFor(i)
    BY <1>3, <1>12, <2>1
  <2>3. aspects[i].advice \in {"Before", "After", "Around"}
    BY <2>2, PriorityType DEF AdviceType
  <2>4. s[k].does = IF aspects[i].advice = "Before" THEN "before"
                    ELSE IF aspects[i].advice = "After" THEN "after" ELSE "around"
    BY <2>2 DEF CallFor, Call
  <2> QED  BY <2>1, <2>3, <2>4
<1>13. ASSUME NamesAgree, NEW k \in 1..Len(s), NEW l \in 1..Len(s),
              k < l, s[k].aspect # 0, s[l].aspect # 0, s[k].does = s[l].does
       PROVE  IF s[k].does = "around" THEN ~DueBefore(s[k].aspect, s[l].aspect)
              ELSE ~DueBefore(s[l].aspect, s[k].aspect)
  <2>1. PICK i, j : i = s[k].aspect /\ j = s[l].aspect
    OBVIOUS
  <2>2. i \in Numbers /\ j \in Numbers /\ s[k].does \in {"before", "after", "around"}
    BY <1>3, <1>13, <2>1
  <2>3. Follows(Len(aspects), Priorities, s[k], s[l])
    BY <1>4, <1>13
  <2>4. ~(Stage(s[k].does) < Stage(s[l].does))
    <3>1. Stage(s[k].does) \in Nat
      BY DEF Stage
    <3> QED  BY <1>13, <3>1
  <2>5. IF s[k].does = "around" THEN <<j, i>> \in Ahead(Len(aspects), Priorities)
        ELSE <<i, j>> \in Ahead(Len(aspects), Priorities)
    BY <2>1, <2>2, <2>3, <2>4 DEF Follows
  <2>6. Asymmetric(Ahead(Len(aspects), Priorities))
    <3>1. PICK n, pr : n = Len(aspects) /\ pr = Priorities
      OBVIOUS
    <3>2. n \in Nat /\ pr \in [1..n -> Int]
      BY <3>1, PriorityType
    <3> QED  BY <3>1, <3>2, AheadIs
  <2>7. IF s[k].does = "around" THEN <<i, j>> \notin Ahead(Len(aspects), Priorities)
        ELSE <<j, i>> \notin Ahead(Len(aspects), Priorities)
    BY <2>5, <2>6 DEF Asymmetric
  <2>8. /\ <<i, j>> \in Ahead(Len(aspects), Priorities) <=> DueBefore(i, j)
        /\ <<j, i>> \in Ahead(Len(aspects), Priorities) <=> DueBefore(j, i)
    BY <1>13, <2>2, AgreeingNames
  <2> QED  BY <2>1, <2>7, <2>8
<1> QED
  <2> HIDE DEF PlaceOf, C
  <2>1. NamesAgree => \A k, l \in 1..Len(s) :
                  /\ k < l /\ 0 \notin {s[k].aspect, s[l].aspect}
                  /\ s[k].does = s[l].does
                  => IF s[k].does = "around" THEN ~DueBefore(s[k].aspect, s[l].aspect)
                     ELSE ~DueBefore(s[l].aspect, s[k].aspect)
    BY <1>13
  <2>2. \A i : PlaceOf(i) = {k \in 1..Len(s) : s[k].aspect = i}
    BY DEF PlaceOf
  <2> QED  BY <1>6, <1>7, <1>9, <1>10, <1>11, <1>12, <2>1, <2>2 DEF C, Woven

LEMMA InvMakesCode ==
  ASSUME MatcherInv, NEW f \in CrateFunctions, answers[f] # << >>
  PROVE  /\ Registered /\ Listed(answers[f]) /\ WellMade(Statements(f), answers[f])
         /\ Statements(f) = Body(answers[f])
<1>1. Registered /\ Listed(answers[f])
  BY DEF MatcherInv, Listed
<1>2. Statements(f) = Body(answers[f])
  BY DEF Statements, CodeOf, Generate
<1> QED  BY <1>1, <1>2, BodyIs

\* Whatever the aspects, the code of a function calls every aspect found for it once,
\* at its place, and runs the function once (AspectCodeGenerator, generate.rs).
THEOREM EveryMatchWoven == MatcherSpec => []EveryMatchIsWovenOnce
<1>1. MatcherInv => EveryMatchIsWovenOnce
  <2> SUFFICES ASSUME MatcherInv  PROVE EveryMatchIsWovenOnce
    OBVIOUS
  <2>1. ASSUME NEW f \in CrateFunctions, answers[f] # << >>
        PROVE  Woven(Statements(f), ToSet(answers[f]))
    <3>1. Woven(Statements(f), Elements(answers[f]))
      BY <2>1, InvMakesCode, WovenOnce
    <3>2. ToSet(answers[f]) = Elements(answers[f])
      BY DEF ToSet, Elements
    <3> QED  BY <3>1, <3>2
  <2> QED  BY <2>1, Zenon DEF EveryMatchIsWovenOnce, Woven
<1> QED  BY <1>1, MatcherInvHolds, PTL

-----------------------------------------------------------------------------
(* The code after more registrations *)

\* A step adds to what is registered and, for a function, to what is found.
LEMMA MatcherStep ==
  ASSUME MatcherInv, [MatcherNext]_matcherVars, NEW f \in CrateFunctions
  PROVE  /\ Len(aspects) \in Nat /\ Len(aspects)' \in Nat /\ Len(aspects) <= Len(aspects)'
         /\ \A i \in Numbers : /\ i \in Numbers' /\ aspects'[i] = aspects[i]
                               /\ Priorities'[i] = Priorities[i]
         /\ Elements(answers[f]) \subseteq Elements(answers'[f])
<1>1. /\ Registered /\ answers \in [CrateFunctions -> Seq(Numbers)]
      /\ \A g \in CrateFunctions : Elements(answers[g]) \subseteq Matches(g)
  BY DEF MatcherInv
<1>2. Len(aspects) \in Nat
  BY <1>1, PriorityType
<1>3. CASE Register
  <2>1. PICK a \in Offered : aspects' = Append(aspects, a)
    BY <1>3 DEF Register
  <2>2. answers' = answers
    BY <1>3 DEF Register
  <2>3. PICK n : n = Len(aspects)
    OBVIOUS
  <2>4. /\ n \in Nat /\ Len(aspects)' = n + 1
        /\ \A i \in Numbers : i \in Numbers' /\ aspects'[i] = aspects[i]
                              /\ Priorities'[i] = Priorities[i]
    BY <1>1, <2>1, <2>3, RegisterStays
  <2>5. n <= n + 1 /\ n + 1 \in Nat
    BY <2>4
  <2> QED  BY <2>2, <2>3, <2>4, <2>5
<1>4. ASSUME aspects' = aspects,
             \/ answers' = answers
             \/ \E g \in CrateFunctions :
                  answers' = [answers EXCEPT ![g] = SortByPriority(Matching(g))]
             \/ answers' = [g \in CrateFunctions |-> SortByPriority(Matching(g))]
      PROVE  /\ Len(aspects) \in Nat /\ Len(aspects)' \in Nat /\ Len(aspects) <= Len(aspects)'
             /\ \A i \in Numbers : /\ i \in Numbers' /\ aspects'[i] = aspects[i]
                                   /\ Priorities'[i] = Priorities[i]
             /\ Elements(answers[f]) \subseteq Elements(answers'[f])
  <2>1. Numbers' = Numbers /\ Priorities' = Priorities
    BY <1>4 DEF Numbers, Priorities, PriorityAt, GetPriority
  <2>2. answers'[f] = answers[f] \/ answers'[f] = SortByPriority(Matching(f))
    BY <1>1, <1>4
  <2>3. Elements(SortByPriority(Matching(f))) = Matches(f)
    BY <1>1, AnswerIsOrdered
  <2>4. Elements(answers[f]) \subseteq Elements(answers'[f])
    BY <1>1, <2>2, <2>3
  <2> QED  BY <1>2, <1>4, <2>1, <2>4
<1>5. CASE UNCHANGED matcherVars
  BY <1>4, <1>5 DEF matcherVars
<1>6. CASE \E g \in CrateFunctions : MatchFunction(g)
  BY <1>4, <1>6 DEF MatchFunction
<1>7. CASE MatchAll
  BY <1>4, <1>7 DEF MatchAll
<1> QED  BY <1>3, <1>5, <1>6, <1>7 DEF MatcherNext

\* The calls of aspects in a body.
LEMMA CallsOfBody ==
  ASSUME Registered, NEW found, Listed(found), NEW s, WellMade(s, found)
  PROVE  /\ Only(s, AspectCalls) \in Seq(Statement(Len(aspects)))
         /\ OrderedBy(InCodeNow, Only(s, AspectCalls))
         /\ Elements(Only(s, AspectCalls)) = {CallFor(i) : i \in Elements(found)}
<1>1. PICK cores \in Cores : Elements(s) = {CallFor(i) : i \in Elements(found)} \cup cores
  BY DEF WellMade
<1>2. s \in Seq(Statement(Len(aspects))) /\ OrderedBy(InCodeNow, s)
  BY DEF WellMade
<1>3. \A i \in Elements(found) : CallFor(i) \in AspectCalls
  <2> TAKE i \in Elements(found)
  <2>1. i \in 1..Len(aspects)
    BY DEF Listed, Elements, Numbers
  <2> QED  BY <2>1 DEF CallFor, Call, AspectCalls
<1>4. \A x \in cores : x \notin AspectCalls
  <2>1. \A x \in cores : x \in {OriginalCall, NewJoinPoint, Proceed}
    BY DEF Cores
  <2>2. \A x \in AspectCalls : x.does \in {"before", "after", "around"}
    BY DEF AspectCalls
  <2>3. /\ OriginalCall.does = "original" /\ NewJoinPoint.does = "join point"
        /\ Proceed.does = "proceed"
    BY DEF OriginalCall, NewJoinPoint, Proceed
  <2> QED  BY <2>1, <2>2, <2>3
<1>5. Elements(s) \cap AspectCalls = {CallFor(i) : i \in Elements(found)}
  BY <1>1, <1>3, <1>4
<1> QED  BY <1>2, <1>5, OrderedOnly

\* Pure: what is in order among fewer is in order among more.
LEMMA CodeKeepsOrder ==
  ASSUME NEW n \in Nat, NEW m \in Nat, n <= m, NEW pr, NEW qr, \A i \in 1..n : qr[i] = pr[i],
         NEW s \in Seq(Statement(n)), OrderedBy(InCode(n, pr), s)
  PROVE  s \in Seq(Statement(m)) /\ OrderedBy(InCode(m, qr), s)
<1>1. Statement(n) \subseteq Statement(m)
  <2>1. 0..n \subseteq 0..m
    OBVIOUS
  <2> QED  BY <2>1 DEF Statement
<1>2. ASSUME NEW x, NEW y, <<x, y>> \in Ahead(n, pr)  PROVE <<x, y>> \in Ahead(m, qr)
  <2>1. x \in 1..n /\ y \in 1..n /\ x \in 1..m /\ y \in 1..m
    BY <1>2 DEF Ahead
  <2>2. pr[x] > pr[y] \/ (pr[x] = pr[y] /\ x < y)
    BY <1>2 DEF Ahead
  <2> QED  BY <2>1, <2>2 DEF Ahead
<1>3. ASSUME NEW x, NEW y, <<x, y>> \in InCode(n, pr)  PROVE <<x, y>> \in InCode(m, qr)
  <2>1. x \in Statement(n) /\ y \in Statement(n) /\ Follows(n, pr, x, y)
    BY <1>3 DEF InCode
  <2>2. Follows(m, qr, x, y)
    BY <1>2, <2>1 DEF Follows
  <2> QED  BY <1>1, <2>1, <2>2 DEF InCode
<1>4. s \in Seq(Statement(m))
  <2>1. \A k \in 1..Len(s) : s[k] \in Statement(m)
    BY <1>1
  <2> QED  BY <2>1
<1> QED  BY <1>3, <1>4 DEF OrderedBy

\* What a state says of the code of f.
CodeFacts(f) ==
  /\ Len(aspects) \in Nat /\ Priorities \in [1..Len(aspects) -> Int]
  /\ Elements(answers[f]) \subseteq Numbers
  /\ Statements(f) \in Seq(Statement(Len(aspects))) /\ OrderedBy(InCodeNow, Statements(f))
  /\ \A i \in Elements(answers[f]) : CallFor(i) \in Elements(Statements(f))
  /\ Only(Statements(f), AspectCalls) \in Seq(Statement(Len(aspects)))
  /\ OrderedBy(InCodeNow, Only(Statements(f), AspectCalls))
  /\ Elements(Only(Statements(f), AspectCalls)) = {CallFor(i) : i \in Elements(answers[f])}
  /\ CodeOf(f).wrapper = SimpleFunctionName(f) /\ CodeOf(f).vis = VisibilityStr(f)
  /\ CodeOf(f).fallible = (\E i \in Elements(answers[f]) : aspects[i].advice = "Around")

AllFacts == \A f \in CrateFunctions : answers[f] # << >> => CodeFacts(f)

LEMMA InvGivesFacts == MatcherInv => AllFacts
<1> SUFFICES ASSUME MatcherInv, NEW f \in CrateFunctions, answers[f] # << >>
    PROVE  CodeFacts(f)
  BY DEF AllFacts
<1> DEFINE s == Statements(f)
           found == answers[f]
<1>1. Registered /\ Listed(found) /\ WellMade(s, found)
  BY InvMakesCode
<1>2. /\ CodeOf(f).wrapper = SimpleFunctionName(f) /\ CodeOf(f).vis = VisibilityStr(f)
      /\ CodeOf(f).fallible = (OfType(found, "Around") # << >>)
  BY DEF CodeOf, Generate
<1> HIDE DEF s, found
<1>3. Len(aspects) \in Nat /\ Priorities \in [1..Len(aspects) -> Int]
  BY <1>1, PriorityType
<1>4. Elements(found) \subseteq Numbers
  BY <1>1 DEF Listed, Elements
<1>5. /\ s \in Seq(Statement(Len(aspects))) /\ OrderedBy(InCodeNow, s)
      /\ \A i \in Elements(found) : CallFor(i) \in Elements(s)
  BY <1>1 DEF WellMade
<1>6. /\ Only(s, AspectCalls) \in Seq(Statement(Len(aspects)))
      /\ OrderedBy(InCodeNow, Only(s, AspectCalls))
      /\ Elements(Only(s, AspectCalls)) = {CallFor(i) : i \in Elements(found)}
  BY <1>1, CallsOfBody
<1>7. (OfType(found, "Around") # << >>)
        = (\E i \in Elements(found) : aspects[i].advice = "Around")
  <2> DEFINE r == OfType(found, "Around")
  <2>1. /\ r \in Seq(Numbers)
        /\ Elements(r) = {i \in Elements(found) : aspects[i].advice = "Around"}
    BY <1>1, OfTypeIs DEF Listed
  <2> HIDE DEF r
  <2>2. r # << >> <=> Elements(r) # {}
    <3>1. r # << >> <=> Len(r) # 0
      BY <2>1
    <3>2. Len(r) \in Nat
      BY <2>1
    <3>3. Len(r) # 0 => 1 \in 1..Len(r)
      BY <3>2
    <3> QED  BY <3>1, <3>2, <3>3 DEF Elements
  <2> QED  BY <2>1, <2>2 DEF r
<1> QED  BY <1>2, <1>3, <1>4, <1>5, <1>6, <1>7 DEF CodeFacts, s, found

\* Generating again after more registrations keeps every call, in its order, and the
\* wrapper's name, visibility and kind of return (match.rs:58-79, generate.rs:46-88).
THEOREM LaterExtends == MatcherSpec => LaterCodeExtends
<1> DEFINE Extends ==
      \A f \in CrateFunctions : answers[f] # << >> =>
       LET calls == Only(Statements(f), AspectCalls)
       IN  /\ calls = Only(Statements(f)', ToSet(calls))
           /\ CodeOf(f)'.wrapper = CodeOf(f).wrapper
           /\ CodeOf(f)'.vis = CodeOf(f).vis
           /\ CodeOf(f).fallible => CodeOf(f)'.fallible
<1>1. MatcherInv' => AllFacts'
  BY InvGivesFacts, PTL
<1>2. MatcherInv /\ MatcherInv' /\ [MatcherNext]_matcherVars => Extends
  <2> SUFFICES ASSUME MatcherInv, MatcherInv', [MatcherNext]_matcherVars,
                      NEW f \in CrateFunctions, answers[f] # << >>
      PROVE  /\ Only(Statements(f), AspectCalls)
                  = Only(Statements(f)', ToSet(Only(Statements(f), AspectCalls)))
             /\ CodeOf(f)'.wrapper = CodeOf(f).wrapper
             /\ CodeOf(f)'.vis = CodeOf(f).vis
             /\ CodeOf(f).fallible => CodeOf(f)'.fallible
    OBVIOUS
  <2>1. /\ Len(aspects) \in Nat /\ Len(aspects)' \in Nat /\ Len(aspects) <= Len(aspects)'
        /\ \A i \in Numbers : /\ i \in Numbers' /\ aspects'[i] = aspects[i]
                              /\ Priorities'[i] = Priorities[i]
        /\ Elements(answers[f]) \subseteq Elements(answers'[f])
    BY MatcherStep
  <2>2. answers[f] \in Seq(Numbers) /\ answers'[f] \in Seq(Numbers')
    BY DEF MatcherInv
  <2>3. answers'[f] # << >>
    <3>1. Len(answers[f]) # 0 /\ Len(answers[f]) \in Nat
      BY <2>2
    <3>2. 1 \in 1..Len(answers[f])
      BY <3>1
    <3>3. answers[f][1] \in Elements(answers[f])
      BY <3>2 DEF Elements
    <3>4. Elements(<< >>) = {}
      BY DEF Elements
    <3> QED  BY <2>1, <3>3, <3>4
  <2>4. CodeFacts(f)
    BY InvGivesFacts DEF AllFacts
  <2>5. AllFacts'
    BY <1>1
  <2>6. CodeFacts(f)'
    BY <2>3, <2>5 DEF AllFacts
  <2>7. PICK n, m, pr, qr, s, t, c :
          /\ n = Len(aspects) /\ m = Len(aspects)' /\ pr = Priorities /\ qr = Priorities'
          /\ s = Statements(f) /\ t = Statements(f)' /\ c = Only(Statements(f), AspectCalls)
    OBVIOUS
  <2>8. /\ n \in Nat /\ m \in Nat /\ n <= m /\ qr \in [1..m -> Int]
        /\ \A i \in 1..n : qr[i] = pr[i] /\ aspects'[i] = aspects[i]
    BY <2>1, <2>6, <2>7 DEF CodeFacts, Numbers
  <2>9. /\ c \in Seq(Statement(n)) /\ OrderedBy(InCode(n, pr), c)
        /\ Elements(c) = {CallFor(i) : i \in Elements(answers[f])}
    BY <2>4, <2>7 DEF CodeFacts, InCodeNow
  <2>10. /\ t \in Seq(Statement(m)) /\ OrderedBy(InCode(m, qr), t)
         /\ \A i \in Elements(answers'[f]) : CallFor(i)' \in Elements(t)
    BY <2>6, <2>7 DEF CodeFacts, InCodeNow
  <2>11. c \in Seq(Statement(m)) /\ OrderedBy(InCode(m, qr), c)
    BY <2>8, <2>9, CodeKeepsOrder
  <2>12. Elements(c) \subseteq Elements(t)
    <3>1. \A i \in Elements(answers[f]) : aspects'[i] = aspects[i]
      BY <2>2, <2>7, <2>8 DEF Elements, Numbers
    <3>2. \A i \in Elements(answers[f]) : CallFor(i)' = CallFor(i)
      BY <3>1 DEF CallFor
    <3> QED  BY <2>1, <2>9, <2>10, <3>2
  <2>13. ToSet(c) = Elements(c)
    BY DEF ToSet, Elements
  <2> DEFINE d == Only(t, ToSet(c))
  <2>14. d \in Seq(Statement(m)) /\ OrderedBy(InCode(m, qr), d) /\ Elements(d) = Elements(c)
    <3>1. /\ d \in Seq(Statement(m)) /\ OrderedBy(InCode(m, qr), d)
          /\ Elements(d) = Elements(t) \cap ToSet(c)
      BY <2>10, OrderedOnly
    <3> QED  BY <2>12, <2>13, <3>1
  <2> HIDE DEF d
  <2>15. c = d
    BY <2>8, <2>11, <2>14, InCodeIs, OrderedUnique
  <2>16. /\ CodeOf(f)'.wrapper = CodeOf(f).wrapper /\ CodeOf(f)'.vis = CodeOf(f).vis
    BY <2>4, <2>6 DEF CodeFacts, SimpleFunctionName, VisibilityStr
  <2>17. CodeOf(f).fallible => CodeOf(f)'.fallible
    <3>1. CodeOf(f).fallible = (\E i \in Elements(answers[f]) : aspects[i].advice = "Around")
      BY <2>4 DEF CodeFacts
    <3>2. CodeOf(f)'.fallible
            = (\E i \in Elements(answers'[f]) : aspects'[i].advice = "Around")
      BY <2>6 DEF CodeFacts
    <3>3. \A i \in Elements(answers[f]) : aspects'[i] = aspects[i]
      BY <2>2, <2>7, <2>8 DEF Elements, Numbers
    <3> QED  BY <2>1, <3>1, <3>2, <3>3
  <2> QED  BY <2>7, <2>15, <2>16, <2>17 DEF d
<1> QED  BY <1>2, MatcherInvHolds, PTL DEF MatcherSpec, LaterCodeExtends

-----------------------------------------------------------------------------
(* One run of a tool *)

IsRun(d) ==
  d = [tool |-> d.tool, argv |-> d.argv, stage |-> d.stage, at |-> d.at,
       config |-> d.config, rustc_args |-> d.rustc_args, results |-> d.results,
       analysed |-> d.analysed, cargo |-> d.cargo, written |-> d.written,
       said |-> d.said, exit |-> d.exit]

\* The report in its four parts.
ReportOf(d) ==
  <<[total |-> Len(d.results.functions)], d.results.functions,
    [total |-> Len(d.results.matched)], d.results.matched>>

\* A run that comes to its end has a file to write.
Asked(d) == d.exit = "ok" /\ d.analysed /\ d.config.output_file # << >>

\* What a run has said and written, given what the file holds.
RunOK(d, out) ==
  /\ IsRun(d)
  /\ d.stage \in {"idle", "reading", "compiling", "reporting", "writing", "cargo", "exited"}
  /\ d.stage \in {"idle", "reading", "compiling", "reporting", "cargo"} => Len(out) = 1
  /\ d.stage \in {"idle", "reading", "compiling", "cargo"} => d.said = {}
  /\ d.stage \in {"idle", "reading", "compiling", "reporting"} => d.written = 0
  /\ d.stage = "cargo" => d.tool \in CargoCommands /\ ~d.analysed
  /\ d.stage \in {"reading", "compiling", "reporting", "writing"} => d.tool \notin CargoCommands
  /\ d.stage \in {"reporting", "writing"} => d.said = {"complete"} /\ d.analysed
  /\ d.stage = "writing" =>
       /\ d.written \in 0..4 /\ Len(out) = d.written /\ d.config.output_file # << >>
       /\ \E P : out \in Seq(P)
       /\ \A k \in 1..d.written : out[k] = ReportOf(d)[k]
  /\ d.stage = "exited" =>
       /\ "written" \in d.said <=> Asked(d) /\ out = ReportOf(d)
       /\ "error writing" \in d.said <=> Asked(d) /\ out # ReportOf(d)
       /\ "success" \in d.said => d.exit = "ok" /\ d.analysed
       /\ d.tool \in CargoCommands => (d.exit = "ok" <=> d.cargo = "success")

RunInv == RunOK(driver, output)

LEMMA StartedIs ==
  ASSUME NEW tool, NEW argv, NEW stage
  PROVE  LET d == Started(tool, argv, stage) IN
         /\ IsRun(d) /\ d.tool = tool /\ d.stage = stage /\ d.said = {} /\ d.written = 0
         /\ ~d.analysed /\ d.exit = "none" /\ d.cargo = "none"
BY DEF Started, IsRun

\* A step that is not about the report.
LEMMA QuietStep ==
  ASSUME NEW d, NEW e, NEW out, RunOK(d, out), d.stage \in {"reading", "compiling"},
         IsRun(e), e.stage \in {"reading", "compiling"},
         e.tool = d.tool, e.said = d.said, e.written = d.written
  PROVE  RunOK(e, out)
BY DEF RunOK

LEMMA RunInitInv == RunInit => RunInv
<1> SUFFICES ASSUME RunInit PROVE RunInv
  OBVIOUS
<1>1. driver = Started("none", << >>, "idle") /\ Len(output) = 1
  BY DEF RunInit
<1>2. /\ IsRun(driver) /\ driver.stage = "idle" /\ driver.said = {}
      /\ driver.written = 0
  BY <1>1, StartedIs
<1> QED  BY <1>1, <1>2 DEF RunInv, RunOK

LEMMA ReadingKeeps ==
  ASSUME RunInv, TakeVerbose \/ TakeValue \/ PassOn \/ RunCompiler \/ AnalyzeCrate
  PROVE  RunInv'
<1> DEFINE d == driver
<1>1. RunOK(d, output) /\ IsRun(d) /\ output' = output
  BY DEF RunInv, RunOK, TakeVerbose, TakeValue, PassOn, RunCompiler, AnalyzeCrate
<1> HIDE DEF d
<1>2. /\ d.stage \in {"reading", "compiling"}
      /\ IsRun(driver') /\ driver'.stage \in {"reading", "compiling"}
      /\ driver'.tool = d.tool /\ driver'.said = d.said /\ driver'.written = d.written
  <2>1. CASE TakeVerbose
    BY <1>1, <2>1 DEF TakeVerbose, ReadsWords, IsRun, d
  <2>2. CASE TakeValue
    BY <1>1, <2>2 DEF TakeValue, ReadsWords, IsRun, d
  <2>3. CASE PassOn
    BY <1>1, <2>3 DEF PassOn, ReadsWords, IsRun, d
  <2>4. CASE RunCompiler
    BY <1>1, <2>4 DEF RunCompiler, IsRun, d
  <2>5. CASE AnalyzeCrate
    BY <1>1, <2>5 DEF AnalyzeCrate, IsRun, d
  <2> QED  BY <2>1, <2>2, <2>3, <2>4, <2>5
<1> QED  BY <1>1, <1>2, QuietStep DEF RunInv, d

\* A run that ends before it has anything to report.
LEMMA EarlyExitKeeps ==
  ASSUME RunInv, MissingValue \/ CompilerFails
  PROVE  RunInv'
<1>1. /\ RunOK(driver, output) /\ IsRun(driver) /\ output' = output
      /\ driver.stage \in {"reading", "compiling"} /\ driver.said = {}
      /\ driver.tool \notin CargoCommands
  BY DEF RunInv, RunOK, MissingValue, CompilerFails, ReadsWords
<1>2. \E code \in {"usage", "failed"} : driver' = [driver EXCEPT !.stage = "exited", !.exit = code]
  BY DEF MissingValue, CompilerFails, Exit
<1>3. /\ IsRun(driver') /\ driver'.stage = "exited" /\ driver'.exit # "ok"
      /\ driver'.said = {} /\ driver'.tool = driver.tool
  BY <1>1, <1>2 DEF IsRun
<1> QED  BY <1>1, <1>3 DEF RunInv, RunOK, Asked

LEMMA CompilerReturnsKeeps ==
  ASSUME RunInv, CompilerReturns
  PROVE  RunInv'
<1>1. /\ RunOK(driver, output) /\ IsRun(driver) /\ output' = output
      /\ driver.stage = "compiling" /\ driver.said = {} /\ driver.written = 0
      /\ driver.tool \notin CargoCommands /\ Len(output) = 1
  BY DEF RunInv, RunOK, CompilerReturns
<1>2. CASE ~driver.analysed
  <2>1. driver' = [driver EXCEPT !.stage = "exited", !.exit = "ok"]
    BY <1>2 DEF CompilerReturns, Exit
  <2>2. /\ IsRun(driver') /\ driver'.stage = "exited" /\ ~driver'.analysed
        /\ driver'.said = {} /\ driver'.tool = driver.tool
    BY <1>1, <1>2, <2>1 DEF IsRun
  <2> QED  BY <1>1, <2>2 DEF RunInv, RunOK, Asked
<1>3. CASE driver.analysed
  <2>1. driver' = [driver EXCEPT !.stage = "reporting", !.said = {"complete"}]
    BY <1>3 DEF CompilerReturns
  <2>2. /\ IsRun(driver') /\ driver'.stage = "reporting" /\ driver'.analysed
        /\ driver'.said = {"complete"} /\ driver'.tool = driver.tool /\ driver'.written = 0
    BY <1>1, <1>3, <2>1 DEF IsRun
  <2> QED  BY <1>1, <2>2 DEF RunInv, RunOK
<1> QED  BY <1>2, <1>3

LEMMA ReportHasFourParts ==
  ASSUME NEW d
  PROVE  Len(ReportOf(d)) = 4 /\ \E P : ReportOf(d) \in Seq(P)
<1> DEFINE P == {[total |-> Len(d.results.functions)], d.results.functions,
                 [total |-> Len(d.results.matched)], d.results.matched}
<1>1. ReportOf(d) \in Seq(P) /\ Len(ReportOf(d)) = 4
  BY DEF ReportOf
<1> QED  BY <1>1

LEMMA CreateOutputKeeps ==
  ASSUME RunInv, CreateOutput
  PROVE  RunInv'
<1>1. /\ RunOK(driver, output) /\ IsRun(driver) /\ output' = << >>
      /\ driver.stage = "reporting" /\ driver.said = {"complete"} /\ driver.written = 0
      /\ driver.analysed /\ driver.tool \notin CargoCommands
      /\ driver.config.output_file # << >> /\ driver' = [driver EXCEPT !.stage = "writing"]
  BY DEF RunInv, RunOK, CreateOutput
<1>2. /\ IsRun(driver') /\ driver'.stage = "writing" /\ driver'.analysed
      /\ driver'.config = driver.config
      /\ driver'.said = {"complete"} /\ driver'.tool = driver.tool /\ driver'.written = 0
  BY <1>1 DEF IsRun
<1>3. Len(output') = 0 /\ output' \in Seq({})
  BY <1>1
<1> QED  BY <1>1, <1>2, <1>3 DEF RunInv, RunOK

LEMMA WritePartKeeps ==
  ASSUME RunInv, WritePart
  PROVE  RunInv'
<1> DEFINE n == driver.written
           part == Report[n + 1]
<1>1. /\ RunOK(driver, output) /\ IsRun(driver) /\ output' = Append(output, part)
      /\ driver.stage = "writing" /\ driver.said = {"complete"}
      /\ driver.analysed /\ driver.tool \notin CargoCommands
      /\ driver' = [driver EXCEPT !.written = n + 1]
      /\ n \in 0..4 /\ n < 4 /\ Len(output) = n /\ driver.config.output_file # << >>
      /\ \A k \in 1..n : output[k] = ReportOf(driver)[k]
  BY ReportHasFourParts DEF RunInv, RunOK, WritePart, Report, ReportOf
<1>2. /\ IsRun(driver') /\ driver'.stage = "writing" /\ driver'.analysed
      /\ driver'.said = {"complete"} /\ driver'.tool = driver.tool /\ driver'.written = n + 1
      /\ driver'.results = driver.results /\ driver'.config = driver.config
  BY <1>1 DEF IsRun
<1>3. part = ReportOf(driver)[n + 1] /\ ReportOf(driver') = ReportOf(driver)
  BY <1>2 DEF Report, ReportOf
<1>4. PICK P : output \in Seq(P)
  BY <1>1 DEF RunOK
<1> HIDE DEF part, n
<1>5. /\ output' \in Seq(P \cup {part}) /\ Len(output') = n + 1
      /\ output'[n + 1] = part /\ \A k \in 1..n : output'[k] = output[k]
  BY <1>1, <1>4
<1>6. \A k \in 1..(n + 1) : output'[k] = ReportOf(driver')[k]
  BY <1>1, <1>3, <1>5
<1>7. n + 1 \in 0..4 /\ \E Q : output' \in Seq(Q)
  BY <1>1, <1>5
<1> DEFINE m == n + 1
<1>8. /\ driver'.written = m /\ m \in 0..4 /\ Len(output') = m
      /\ \A k \in 1..m : output'[k] = ReportOf(driver')[k]
  BY <1>2, <1>5, <1>6, <1>7
<1> HIDE DEF m
<1> QED  BY <1>2, <1>1, <1>7, <1>8 DEF RunInv, RunOK

\* A report of which something is missing is not the report.
LEMMA OutputFailsKeeps ==
  ASSUME RunInv, OutputFails
  PROVE  RunInv'
<1>1. /\ RunOK(driver, output) /\ IsRun(driver) /\ output' = output
      /\ driver.stage \in {"reporting", "writing"} /\ driver.said = {"complete"}
      /\ driver.tool \notin CargoCommands /\ driver.analysed
      /\ driver.config.output_file # << >>
      /\ driver' = [[driver EXCEPT !.stage = "exited", !.exit = "ok"]
                      EXCEPT !.said = driver.said \cup {"error writing", "success"}]
  BY DEF RunInv, RunOK, OutputFails, Exit, IsRun
<1>2. /\ IsRun(driver') /\ driver'.stage = "exited" /\ driver'.tool = driver.tool
      /\ driver'.said = {"complete", "error writing", "success"}
      /\ driver'.results = driver.results /\ driver'.config = driver.config
      /\ driver'.exit = "ok" /\ driver'.analysed
  BY <1>1 DEF IsRun
<1>3. Len(output) # 4
  <2>1. CASE driver.stage = "reporting"
    BY <1>1, <2>1 DEF RunOK
  <2>2. CASE driver.stage = "writing"
    <3>1. driver.written < Len(Report) /\ Report = ReportOf(driver)
      BY <2>2 DEF OutputFails, Report, ReportOf
    <3>2. Len(output) = driver.written /\ driver.written \in 0..4
      BY <1>1, <2>2 DEF RunOK
    <3>3. driver.written < 4
      BY <3>1, ReportHasFourParts
    <3> QED  BY <3>2, <3>3
  <2> QED  BY <1>1, <2>1, <2>2
<1>4. output' # ReportOf(driver')
  BY <1>1, <1>3, ReportHasFourParts
<1> QED  BY <1>1, <1>2, <1>4 DEF RunInv, RunOK, Asked

LEMMA FinishKeeps ==
  ASSUME RunInv, Finish
  PROVE  RunInv'
<1>1. /\ RunOK(driver, output) /\ IsRun(driver) /\ output' = output
      /\ driver.stage \in {"reporting", "writing"} /\ driver.said = {"complete"}
      /\ driver.tool \notin CargoCommands /\ driver.analysed
      /\ driver.stage = "writing" => driver.config.output_file # << >>
  BY DEF RunInv, RunOK, Finish
<1>2. CASE driver.stage = "reporting" /\ driver.config.output_file = << >>
  <2>1. driver' = [[driver EXCEPT !.stage = "exited", !.exit = "ok"]
                     EXCEPT !.said = driver.said \cup {"success"}]
    BY <1>1, <1>2 DEF Finish, Exit, IsRun
  <2>2. /\ IsRun(driver') /\ driver'.stage = "exited" /\ driver'.tool = driver.tool
        /\ driver'.said = {"complete", "success"} /\ driver'.config = driver.config
        /\ driver'.exit = "ok" /\ driver'.analysed
    BY <1>1, <2>1 DEF IsRun
  <2> QED  BY <1>1, <1>2, <2>2 DEF RunInv, RunOK, Asked
<1>3. CASE driver.stage = "writing" /\ driver.written = Len(Report)
  <2>1. driver' = [[driver EXCEPT !.stage = "exited", !.exit = "ok"]
                     EXCEPT !.said = driver.said \cup {"written", "success"}]
    BY <1>1, <1>3 DEF Finish, Exit, IsRun
  <2>2. /\ IsRun(driver') /\ driver'.stage = "exited" /\ driver'.tool = driver.tool
        /\ driver'.said = {"complete", "written", "success"}
        /\ driver'.results = driver.results /\ driver'.config = driver.config
        /\ driver'.exit = "ok" /\ driver'.analysed
    BY <1>1, <2>1 DEF IsRun
  <2>3. PICK P : output \in Seq(P)
    BY <1>1, <1>3 DEF RunOK
  <2>4. PICK Q : ReportOf(driver) \in Seq(Q)
    BY ReportHasFourParts
  <2>5. Len(Report) = 4 /\ Report = ReportOf(driver)
    BY ReportHasFourParts DEF Report, ReportOf
  <2>6. /\ Len(output) = 4 /\ Len(ReportOf(driver)) = 4
        /\ \A k \in 1..4 : output[k] = ReportOf(driver)[k]
    BY <1>1, <1>3, <2>5 DEF RunOK
  <2>7. output = ReportOf(driver)
    <3>1. output \in Seq(P \cup Q) /\ ReportOf(driver) \in Seq(P \cup Q)
      BY <2>3, <2>4, SeqMonotonic
    <3> QED  BY <2>6, <3>1, SeqEqual
  <2>8. ReportOf(driver') = ReportOf(driver)
    BY <2>2 DEF ReportOf
  <2> QED  BY <1>1, <1>3, <2>2, <2>7, <2>8 DEF RunInv, RunOK, Asked
<1> QED  BY <1>2, <1>3 DEF Finish

LEMMA StartKeeps ==
  ASSUME RunInv, StartDriver \/ RunAspectCommand
  PROVE  RunInv'
<1>1. RunOK(driver, output) /\ output' = output /\ driver.stage = "idle" /\ Len(output) = 1
  BY DEF RunInv, RunOK, StartDriver, RunAspectCommand
<1>2. CASE StartDriver
  <2>1. PICK tool \in {"main_working", "main"}, argv \in BoundedSeq(Words, MaxWords) :
          driver' = Started(tool, argv, "reading")
    BY <1>2 DEF StartDriver
  <2>2. tool \notin CargoCommands
    BY DEF CargoCommands
  <2>3. /\ IsRun(driver') /\ driver'.stage = "reading" /\ driver'.said = {}
        /\ driver'.written = 0 /\ driver'.tool \notin CargoCommands
    BY <2>1, <2>2, StartedIs
  <2> QED  BY <1>1, <2>3 DEF RunInv, RunOK
<1>3. CASE RunAspectCommand
  <2>1. PICK command \in CargoCommands \cup {"info", "list", "none"} :
          LET started == Started(command, << >>, "cargo")
          IN  driver' = IF command \in CargoCommands THEN started
                        ELSE [started EXCEPT !.stage = "exited", !.exit = "ok"]
    BY <1>3 DEF RunAspectCommand
  <2> DEFINE started == Started(command, << >>, "cargo")
  <2>2. /\ IsRun(started) /\ started.tool = command /\ started.stage = "cargo"
        /\ started.said = {} /\ started.written = 0 /\ ~started.analysed
    BY StartedIs
  <2> HIDE DEF started
  <2>3. CASE command \in CargoCommands
    <3>1. driver' = started
      BY <2>1, <2>3 DEF started
    <3> QED  BY <1>1, <2>2, <2>3, <3>1 DEF RunInv, RunOK
  <2>4. CASE command \notin CargoCommands
    <3>1. driver' = [started EXCEPT !.stage = "exited", !.exit = "ok"]
      BY <2>1, <2>4 DEF started
    <3>2. /\ IsRun(driver') /\ driver'.tool = command /\ driver'.stage = "exited"
          /\ driver'.said = {} /\ ~driver'.analysed
      BY <2>2, <3>1 DEF IsRun
    <3> QED  BY <1>1, <2>4, <3>2 DEF RunInv, RunOK, Asked
  <2> QED  BY <2>3, <2>4
<1> QED  BY <1>2, <1>3

LEMMA CargoKeeps ==
  ASSUME RunInv, RunCargoCommand
  PROVE  RunInv'
<1>1. /\ RunOK(driver, output) /\ IsRun(driver) /\ output' = output
      /\ driver.stage = "cargo" /\ driver.said = {} /\ ~driver.analysed
  BY DEF RunInv, RunOK, RunCargoCommand
<1>2. PICK status \in {"not started", "success", "failure"} :
        driver' = [Exit(IF status = "success" THEN "ok" ELSE "failed") EXCEPT !.cargo = status]
  BY DEF RunCargoCommand
<1> DEFINE code == IF status = "success" THEN "ok" ELSE "failed"
<1>3. code = "ok" <=> status = "success"
  OBVIOUS
<1>4. driver' = [[driver EXCEPT !.stage = "exited", !.exit = code] EXCEPT !.cargo = status]
  BY <1>2 DEF Exit
<1> HIDE DEF code
<1>5. /\ IsRun(driver') /\ driver'.stage = "exited" /\ driver'.said = {}
      /\ ~driver'.analysed /\ driver'.exit = code /\ driver'.cargo = status
  BY <1>1, <1>4 DEF IsRun
<1> QED  BY <1>1, <1>3, <1>5 DEF RunInv, RunOK, Asked

LEMMA RunNextInv == RunInv /\ [RunNext]_runVars => RunInv'
<1> SUFFICES ASSUME RunInv, [RunNext]_runVars  PROVE RunInv'
  OBVIOUS
<1>1. CASE UNCHANGED runVars
  BY <1>1 DEF RunInv, runVars
<1> QED  BY <1>1, ReadingKeeps, EarlyExitKeeps, CompilerReturnsKeeps, CreateOutputKeeps,
            WritePartKeeps, OutputFailsKeeps, FinishKeeps, StartKeeps, CargoKeeps
         DEF RunNext

\* What a run has said agrees with what it has done and with what the file holds.
THEOREM RunInvHolds == RunSpec => []RunInv
BY RunInitInv, RunNextInv, PTL DEF RunSpec

\* For any crate, pointcuts and command line: that the report is written is said
\* exactly if the file holds all of it, an error exactly if it does not, and success
\* only after an analysis that the compiler did not fail.
THEOREM OutcomeIsTrue == RunSpec => []OutcomeIsTold
<1>1. RunInv => OutcomeIsTold
  <2> SUFFICES ASSUME RunInv PROVE OutcomeIsTold
    OBVIOUS
  <2>1. Report = ReportOf(driver)
    BY DEF Report, ReportOf
  <2>2. RunOK(driver, output)
    BY DEF RunInv
  <2>3. ASSUME driver.stage # "exited"
        PROVE  driver.said \cap {"written", "error writing", "success"} = {}
    <3>1. driver.said = {} \/ driver.said = {"complete"}
      BY <2>2, <2>3 DEF RunOK
    <3> QED  BY <3>1
  <2> QED  BY <2>1, <2>2, <2>3 DEF RunOK, Asked, OutcomeIsTold
<1> QED  BY <1>1, RunInvHolds, PTL

-----------------------------------------------------------------------------
(* The words of the command line *)

\* The flags that take a value and stand side by side just before `i` are `run`.
FlagsBefore(argv, i, run) ==
  /\ run \in 0..(i - 1)
  /\ \A k \in (i - run)..(i - 1) : argv[k] \in ValueFlags
  /\ i - run = 1 \/ argv[i - run - 1] \notin ValueFlags

LEMMA FlagsAreCounted ==
  ASSUME NEW argv, NEW i \in Nat \ {0}
  PROVE  \E run : FlagsBefore(argv, i, run)
<1> DEFINE T == {r \in 0..(i - 1) : i - r = 1 \/ argv[i - r - 1] \notin ValueFlags}
<1>1. i - 1 \in T /\ T \in SUBSET Nat
  OBVIOUS
<1>2. PICK run \in T : \A r \in T : run <= r
  <2> HIDE DEF T
  <2> QED  BY <1>1, LeastNatural
<1>3. run \in 0..(i - 1) /\ (i - run = 1 \/ argv[i - run - 1] \notin ValueFlags)
  OBVIOUS
<1>4. ASSUME NEW k \in (i - run)..(i - 1)  PROVE argv[k] \in ValueFlags
  <2> DEFINE r == i - 1 - k
  <2>1. r \in 0..(i - 1) /\ r < run /\ i - r - 1 = k
    BY <1>3
  <2>2. r \notin T
    <3> HIDE DEF T, r
    <3> QED  BY <1>2, <1>3, <2>1
  <2> QED  BY <2>1, <2>2
<1> QED  BY <1>3, <1>4 DEF FlagsBefore

LEMMA FlagsAreCountedOnce ==
  ASSUME NEW argv, NEW i \in Nat \ {0}, NEW q, NEW r,
         FlagsBefore(argv, i, q), FlagsBefore(argv, i, r)
  PROVE  q = r
<1>1. ASSUME NEW a, NEW b, FlagsBefore(argv, i, a), FlagsBefore(argv, i, b), a < b
      PROVE  FALSE
  <2>1. /\ a \in 0..(i - 1) /\ b \in 0..(i - 1)
        /\ i - a = 1 \/ argv[i - a - 1] \notin ValueFlags
        /\ \A k \in (i - b)..(i - 1) : argv[k] \in ValueFlags
    BY <1>1 DEF FlagsBefore
  <2>2. i - a # 1 /\ i - a - 1 \in (i - b)..(i - 1)
    BY <1>1, <2>1
  <2> QED  BY <2>1, <2>2
<1>2. q \in Int /\ r \in Int
  BY DEF FlagsBefore
<1> QED  BY <1>1, <1>2

LEMMA ValueIs ==
  ASSUME NEW argv, NEW i \in Nat \ {0}, NEW run, FlagsBefore(argv, i, run)
  PROVE  IsValue(argv, i) <=> run % 2 = 1
<1>1. run \in 0..(i - 1)
  BY DEF FlagsBefore
<1>2. ASSUME IsValue(argv, i)  PROVE run % 2 = 1
  <2>1. PICK r \in 1..(i - 1) :
          /\ r % 2 = 1
          /\ \A k \in (i - r)..(i - 1) : argv[k] \in ValueFlags
          /\ i - r = 1 \/ argv[i - r - 1] \notin ValueFlags
    BY <1>2 DEF IsValue
  <2>2. FlagsBefore(argv, i, r)
    BY <2>1 DEF FlagsBefore
  <2> QED  BY <2>1, <2>2, FlagsAreCountedOnce
<1>3. ASSUME run % 2 = 1  PROVE IsValue(argv, i)
  <2>1. run \in 1..(i - 1)
    BY <1>1, <1>3
  <2> QED  BY <1>3, <2>1 DEF IsValue, FlagsBefore
<1> QED  BY <1>2, <1>3

\* The word after a flag that takes a value is its value, if the flag is not one itself.
LEMMA ValueAfter ==
  ASSUME NEW argv, NEW i \in Nat \ {0}
  PROVE  IsValue(argv, i + 1) <=> argv[i] \in ValueFlags /\ ~IsValue(argv, i)
<1>1. PICK run : FlagsBefore(argv, i, run)
  BY FlagsAreCounted
<1>2. run \in 0..(i - 1) /\ run \in Nat
  BY <1>1 DEF FlagsBefore
<1>3. IsValue(argv, i) <=> run % 2 = 1
  BY <1>1, ValueIs
<1>4. CASE argv[i] \in ValueFlags
  <2>1. run + 1 \in 0..((i + 1) - 1)
    BY <1>2
  <2>2. \A k \in ((i + 1) - (run + 1))..((i + 1) - 1) : k \in (i - run)..(i - 1) \/ k = i
    BY <1>2
  <2>3. (i + 1) - (run + 1) = i - run
    BY <1>2
  <2>4. FlagsBefore(argv, i + 1, run + 1)
    BY <1>1, <1>4, <2>1, <2>2, <2>3 DEF FlagsBefore
  <2>5. IsValue(argv, i + 1) <=> (run + 1) % 2 = 1
    BY <2>4, ValueIs
  <2>6. (run + 1) % 2 = 1 <=> run % 2 # 1
    BY <1>2
  <2> QED  BY <1>3, <1>4, <2>5, <2>6
<1>5. CASE argv[i] \notin ValueFlags
  <2>1. FlagsBefore(argv, i + 1, 0)
    BY <1>5 DEF FlagsBefore
  <2>2. IsValue(argv, i + 1) <=> 0 % 2 = 1
    BY <2>1, ValueIs
  <2> QED  BY <1>5, <2>2
<1> QED  BY <1>4, <1>5

LEMMA FirstIsNoValue ==
  ASSUME NEW argv
  PROVE  ~IsValue(argv, 1)
BY DEF IsValue

-----------------------------------------------------------------------------
(* Places in a sequence *)

\* The places that Only keeps are those of the set, in order, and as many.
LEMMA PlacesKept ==
  ASSUME NEW s, Len(s) \in Nat, NEW S \in SUBSET (1..Len(s))
  PROVE  LET t == Only(Numbering(s), S)
         IN  /\ t \in Seq(1..Len(s)) /\ OrderedBy(Less, t) /\ Elements(t) = S
<1> DEFINE n == Len(s)
           u == Numbering(s)
           t == Only(u, S)
<1>1. /\ u \in Seq(1..n) /\ Len(u) = n /\ \A k \in 1..n : u[k] = k
  BY DEF Numbering
<1>2. n \in Nat
  OBVIOUS
<1> HIDE DEF u, n
<1>4. OrderedBy(Less, u)
  BY <1>1, <1>2 DEF OrderedBy, Less
<1>5. Elements(u) = 1..n
  BY <1>1, <1>2 DEF Elements
<1>3. t \in Seq(1..n) /\ OrderedBy(Less, t) /\ Elements(t) = Elements(u) \cap S
  BY <1>1, <1>4, OrderedOnly
<1> QED  BY <1>3, <1>5 DEF u, n

LEMMA LessIs == Asymmetric(Less)
BY DEF Asymmetric, Less

LEMMA PlacesAre ==
  ASSUME NEW s, Len(s) \in Nat, NEW S \in SUBSET (1..Len(s)),
         NEW t \in Seq(1..Len(s)), OrderedBy(Less, t), Elements(t) = S
  PROVE  Only(Numbering(s), S) = t
<1> DEFINE u == Only(Numbering(s), S)
<1>1. u \in Seq(1..Len(s)) /\ OrderedBy(Less, u) /\ Elements(u) = S
  BY PlacesKept
<1> HIDE DEF u
<1>2. u = t
  BY <1>1, LessIs, OrderedUnique
<1> QED  BY <1>2 DEF u

LEMMA InOrderOfNone ==
  ASSUME NEW s, Len(s) \in Nat
  PROVE  InOrder(s, {}) = << >>
<1>1. /\ << >> \in Seq(1..Len(s)) /\ OrderedBy(Less, << >>) /\ Elements(<< >>) = {}
  BY DEF OrderedBy, Elements
<1>2. Only(Numbering(s), {}) = << >>
  BY <1>1, PlacesAre
<1> QED  BY <1>2 DEF InOrder

\* One place more, behind the others, is one word more at the end.
LEMMA InOrderGrows ==
  ASSUME NEW s, Len(s) \in Nat, NEW i \in 1..Len(s), NEW S \in SUBSET (1..(i - 1))
  PROVE  InOrder(s, S \cup {i}) = Append(InOrder(s, S), s[i])
<1> DEFINE n == Len(s)
           t == Only(Numbering(s), S)
           u == Append(t, i)
           m == Len(t)
<1>1. S \in SUBSET (1..n) /\ S \cup {i} \in SUBSET (1..n)
  OBVIOUS
<1>2. t \in Seq(1..n) /\ OrderedBy(Less, t) /\ Elements(t) = S
  BY <1>1, PlacesKept
<1> HIDE DEF n, t
<1>3. /\ u \in Seq(1..n) /\ m \in Nat /\ Len(u) = m + 1 /\ u[m + 1] = i
      /\ \A k \in 1..m : u[k] = t[k]
  BY <1>2 DEF n
<1>4. \A k \in 1..m : t[k] \in Nat /\ t[k] < i /\ t[k] \in S
  <2>1. \A k \in 1..m : t[k] \in S
    BY <1>2 DEF Elements
  <2>2. \A x \in S : x \in Nat /\ x < i
    OBVIOUS
  <2> QED  BY <2>1, <2>2
<1> HIDE DEF u, m
<1>5. OrderedBy(Less, u)
  <2> SUFFICES ASSUME NEW j \in 1..(m + 1), NEW k \in 1..(m + 1), j < k
               PROVE  <<u[j], u[k]>> \in Less
    BY <1>3 DEF OrderedBy
  <2>1. j \in 1..m
    BY <1>3
  <2>2. CASE k \in 1..m
    BY <1>2, <1>3, <2>1, <2>2 DEF OrderedBy, m
  <2>3. CASE k = m + 1
    BY <1>3, <1>4, <2>1, <2>3 DEF Less
  <2> QED  BY <1>3, <2>2, <2>3
<1>6. Elements(u) = S \cup {i}
  <2>1. \A k \in 1..(m + 1) : k \in 1..m \/ k = m + 1
    BY <1>3
  <2>2. Elements(u) \subseteq S \cup {i}
    BY <1>3, <1>4, <2>1 DEF Elements
  <2>3. \A x \in S : \E k \in 1..m : x = t[k]
    BY <1>2 DEF Elements, m
  <2>4. S \cup {i} \subseteq Elements(u)
    <3>1. m + 1 \in 1..(m + 1) /\ \A k \in 1..m : k \in 1..(m + 1)
      BY <1>3
    <3> QED  BY <1>3, <2>3, <3>1 DEF Elements
  <2> QED  BY <2>2, <2>4
<1>7. Only(Numbering(s), S \cup {i}) = u
  BY <1>1, <1>3, <1>5, <1>6, PlacesAre DEF n
<1> DEFINE w == InOrder(s, S)
           v == InOrder(s, S \cup {i})
<1>8. w = [k \in 1..m |-> s[t[k]]] /\ v = [k \in 1..(m + 1) |-> s[u[k]]]
  BY <1>3, <1>7 DEF InOrder, t, m
<1> HIDE DEF w, v
<1>9. w \in Seq({s[k] : k \in 1..n}) /\ Len(w) = m
  <2> DEFINE X == {s[k] : k \in 1..n}
  <2>1. \A k \in 1..m : t[k] \in 1..n
    BY <1>1, <1>4 DEF n
  <2>2. \A k \in 1..m : s[t[k]] \in X
    BY <2>1
  <2> HIDE DEF X
  <2>3. w \in [1..m -> X]
    BY <1>8, <2>2
  <2> QED  BY <1>3, <2>3 DEF X
<1>10. Append(w, s[i]) = [k \in 1..(m + 1) |-> IF k = m + 1 THEN s[i] ELSE w[k]]
  BY <1>3, <1>9
<1>11. \A k \in 1..(m + 1) : s[u[k]] = IF k = m + 1 THEN s[i] ELSE w[k]
  BY <1>3, <1>8
<1>12. v = Append(w, s[i])
  BY <1>8, <1>10, <1>11
<1> QED  BY <1>12 DEF v, w

-----------------------------------------------------------------------------
(* Reading them *)

Before(S, at) == {i \in S : i < at}

\* The places of the compiler's arguments.
RestOf(argv) == {i \in 1..Len(argv) : i \notin Given(argv) /\ argv[i] \notin OwnFlags}

\* The last of the words at these places.
LastOf(argv, S) == IF S = {} THEN << >> ELSE <<argv[Max(S)]>>

\* A flag that takes no value, or a word that is not a flag.
LEMMA SingleWord ==
  ASSUME NEW argv \in Seq(Words), NEW at \in 1..Len(argv), ~IsValue(argv, at),
         argv[at] \notin ValueFlags
  PROVE  /\ ~IsValue(argv, at + 1)
         /\ \A flag : Before(ValuesOf(argv, flag), at + 1) = Before(ValuesOf(argv, flag), at)
         /\ Before(RestOf(argv), at + 1) =
              Before(RestOf(argv), at) \cup (IF argv[at] \in OwnFlags THEN {} ELSE {at})
<1>1. Len(argv) \in Nat /\ at \in Nat \ {0}
  OBVIOUS
<1>2. ~IsValue(argv, at + 1)
  BY <1>1, ValueAfter
<1>3. \A i \in Nat : i < at + 1 <=> i < at \/ i = at
  BY <1>1
<1>4. \A flag : ValuesOf(argv, flag) \in SUBSET Nat /\ at \notin ValuesOf(argv, flag)
  BY <1>1 DEF ValuesOf
<1>5. /\ RestOf(argv) \in SUBSET Nat
      /\ at \in RestOf(argv) <=> argv[at] \notin OwnFlags
  BY <1>1 DEF RestOf, Given
<1>6. ASSUME NEW flag
      PROVE  Before(ValuesOf(argv, flag), at + 1) = Before(ValuesOf(argv, flag), at)
  BY <1>3, <1>4 DEF Before
<1>7. Before(RestOf(argv), at + 1) =
        Before(RestOf(argv), at) \cup (IF argv[at] \in OwnFlags THEN {} ELSE {at})
  BY <1>3, <1>5 DEF Before
<1> QED  BY <1>2, <1>6, <1>7

\* A flag with its value.
LEMMA FlagWithValue ==
  ASSUME NEW argv \in Seq(Words), NEW at \in 1..Len(argv), ~IsValue(argv, at),
         argv[at] \in ValueFlags, at < Len(argv)
  PROVE  /\ ~IsValue(argv, at + 2)
         /\ \A flag : Before(ValuesOf(argv, flag), at + 2) =
              Before(ValuesOf(argv, flag), at) \cup (IF argv[at] = flag THEN {at + 1} ELSE {})
         /\ Before(RestOf(argv), at + 2) = Before(RestOf(argv), at)
<1>1. Len(argv) \in Nat /\ at \in Nat \ {0} /\ at + 1 \in Nat \ {0} /\ (at + 1) + 1 = at + 2
  OBVIOUS
<1>2. IsValue(argv, at + 1)
  BY <1>1, ValueAfter
<1>3. ~IsValue(argv, at + 2)
  <2>1. IsValue(argv, (at + 1) + 1) <=> argv[at + 1] \in ValueFlags /\ ~IsValue(argv, at + 1)
    BY <1>1, ValueAfter
  <2> QED  BY <1>1, <1>2, <2>1
<1>4. \A i \in Nat : i < at + 2 <=> i < at \/ i = at \/ i = at + 1
  BY <1>1
<1>5. at + 1 \in 2..Len(argv) /\ (at + 1) - 1 = at /\ ~(at + 1 < at)
  BY <1>1
<1>6. ASSUME NEW flag
      PROVE  /\ ValuesOf(argv, flag) \in SUBSET Nat /\ at \notin ValuesOf(argv, flag)
             /\ at + 1 \in ValuesOf(argv, flag) <=> argv[at] = flag
  <2>1. ValuesOf(argv, flag) \in SUBSET Nat /\ at \notin ValuesOf(argv, flag)
    BY <1>1 DEF ValuesOf
  <2> QED  BY <1>2, <1>5, <2>1 DEF ValuesOf
<1>7. RestOf(argv) \in SUBSET Nat /\ at \notin RestOf(argv) /\ at + 1 \notin RestOf(argv)
  BY <1>1, <1>2, <1>5 DEF RestOf, Given, OwnFlags
<1>8. ASSUME NEW flag
      PROVE  Before(ValuesOf(argv, flag), at + 2) =
               Before(ValuesOf(argv, flag), at) \cup (IF argv[at] = flag THEN {at + 1} ELSE {})
  BY <1>4, <1>6 DEF Before
<1>9. Before(RestOf(argv), at + 2) = Before(RestOf(argv), at)
  BY <1>4, <1>7 DEF Before
<1> QED  BY <1>3, <1>8, <1>9

LEMMA LastGrows ==
  ASSUME NEW argv, NEW i \in Nat, NEW S \in SUBSET (1..(i - 1))
  PROVE  LastOf(argv, S \cup {i}) = <<argv[i]>>
<1>1. \A y \in S \cup {i} : y \in Int /\ i >= y
  OBVIOUS
<1>2. Max(S \cup {i}) = i
  <2>1. \A x \in S \cup {i} : (\A y \in S \cup {i} : x >= y) => x = i
    BY <1>1
  <2> QED  BY <1>1, <2>1 DEF Max
<1> QED  BY <1>2 DEF LastOf

\* What has been made of the words before `at`.
WordsOK(d) ==
  /\ d.argv \in Seq(Words) /\ d.at \in 1..(Len(d.argv) + 1) /\ ~IsValue(d.argv, d.at)
  /\ d.rustc_args = InOrder(d.argv, Before(RestOf(d.argv), d.at))
  /\ d.config =
       [pointcuts |->
          InOrder(d.argv, Before(ValuesOf(d.argv, "--aspect-pointcut"), d.at)),
        output_file |->
          LastOf(d.argv, Before(ValuesOf(d.argv, "--aspect-output"), d.at)),
        verbose |-> d.config.verbose]

LEMMA WordsOKStart ==
  ASSUME NEW d, d.argv \in Seq(Words), d.at = 1, d.config = NoConfig, d.rustc_args = << >>
  PROVE  WordsOK(d)
<1>1. Len(d.argv) \in Nat
  OBVIOUS
<1>2. ASSUME NEW flag  PROVE Before(ValuesOf(d.argv, flag), 1) = {}
  BY <1>1 DEF Before, ValuesOf
<1>3. Before(RestOf(d.argv), 1) = {}
  BY <1>1 DEF Before, RestOf
<1>4. InOrder(d.argv, {}) = << >> /\ LastOf(d.argv, {}) = << >>
  BY <1>1, InOrderOfNone DEF LastOf
<1>5. 1 \in 1..(Len(d.argv) + 1) /\ ~IsValue(d.argv, 1)
  BY <1>1, FirstIsNoValue
<1>6. d.config = [pointcuts |-> << >>, output_file |-> << >>, verbose |-> d.config.verbose]
  BY DEF NoConfig
<1> QED  BY <1>2, <1>3, <1>4, <1>5, <1>6 DEF WordsOK

LEMMA WordsOKPass ==
  ASSUME NEW d, NEW e, WordsOK(d), d.at <= Len(d.argv), d.argv[d.at] \notin ValueFlags,
         e.argv = d.argv, e.at = d.at + 1,
         IF d.argv[d.at] \in OwnFlags
         THEN /\ e.rustc_args = d.rustc_args
              /\ e.config = [pointcuts |-> d.config.pointcuts,
                             output_file |-> d.config.output_file, verbose |-> TRUE]
         ELSE /\ e.rustc_args = Append(d.rustc_args, d.argv[d.at])
              /\ e.config = d.config
  PROVE  WordsOK(e)
<1> DEFINE argv == d.argv
           at == d.at
           R == Before(RestOf(argv), at)
<1>1. argv \in Seq(Words) /\ at \in 1..Len(argv) /\ ~IsValue(argv, at) /\ Len(argv) \in Nat
  BY DEF WordsOK
<1>2. /\ ~IsValue(argv, at + 1)
      /\ \A flag : Before(ValuesOf(argv, flag), at + 1) = Before(ValuesOf(argv, flag), at)
      /\ Before(RestOf(argv), at + 1) = R \cup (IF argv[at] \in OwnFlags THEN {} ELSE {at})
  <2> HIDE DEF argv, at
  <2> QED  BY <1>1, SingleWord DEF argv, at
<1>3. R \in SUBSET (1..(at - 1))
  BY <1>1 DEF Before, RestOf
<1>4. InOrder(argv, R \cup {at}) = Append(InOrder(argv, R), argv[at])
  <2> HIDE DEF argv, at, R
  <2> QED  BY <1>1, <1>3, InOrderGrows
<1>5. at + 1 \in 1..(Len(argv) + 1)
  BY <1>1
<1>6. e.rustc_args = InOrder(argv, Before(RestOf(argv), at + 1))
  BY <1>2, <1>4 DEF WordsOK
<1>7. e.config = [pointcuts |->
                    InOrder(argv, Before(ValuesOf(argv, "--aspect-pointcut"), at + 1)),
                  output_file |->
                    LastOf(argv, Before(ValuesOf(argv, "--aspect-output"), at + 1)),
                  verbose |-> e.config.verbose]
  BY <1>2 DEF WordsOK
<1> QED  BY <1>1, <1>2, <1>5, <1>6, <1>7 DEF WordsOK

LEMMA WordsOKValue ==
  ASSUME NEW d, NEW e, WordsOK(d), d.at < Len(d.argv), d.argv[d.at] \in ValueFlags,
         e.argv = d.argv, e.at = d.at + 2, e.rustc_args = d.rustc_args,
         e.config = WithValue(d.config, d.argv[d.at], d.argv[d.at + 1])
  PROVE  WordsOK(e)
<1> DEFINE argv == d.argv
           at == d.at
           P == Before(ValuesOf(argv, "--aspect-pointcut"), at)
           O == Before(ValuesOf(argv, "--aspect-output"), at)
<1>1. /\ argv \in Seq(Words) /\ at \in 1..Len(argv) /\ ~IsValue(argv, at) /\ Len(argv) \in Nat
      /\ at + 1 \in 1..Len(argv) /\ (at + 1) - 1 = at /\ at + 1 \in Nat
      /\ at + 2 \in 1..(Len(argv) + 1)
  BY DEF WordsOK
<1>2. /\ ~IsValue(argv, at + 2)
      /\ \A flag : Before(ValuesOf(argv, flag), at + 2) =
              Before(ValuesOf(argv, flag), at) \cup (IF argv[at] = flag THEN {at + 1} ELSE {})
      /\ Before(RestOf(argv), at + 2) = Before(RestOf(argv), at)
  <2> HIDE DEF argv, at
  <2> QED  BY <1>1, FlagWithValue DEF argv, at
<1>3. P \in SUBSET (1..at) /\ O \in SUBSET (1..at)
  BY <1>1 DEF Before, ValuesOf
<1>4. InOrder(argv, P \cup {at + 1}) = Append(InOrder(argv, P), argv[at + 1])
  <2> HIDE DEF argv, at, P, O
  <2> QED  BY <1>1, <1>3, InOrderGrows
<1>5. LastOf(argv, O \cup {at + 1}) = <<argv[at + 1]>>
  <2> HIDE DEF argv, at, P, O
  <2> QED  BY <1>1, <1>3, LastGrows
<1>6. d.config = [pointcuts |-> InOrder(argv, P), output_file |-> LastOf(argv, O),
                  verbose |-> d.config.verbose]
  BY DEF WordsOK
<1>7. argv[at] = "--aspect-pointcut" \/ argv[at] = "--aspect-output"
  BY DEF ValueFlags
<1>8. e.config = [pointcuts |->
                    InOrder(argv, Before(ValuesOf(argv, "--aspect-pointcut"), at + 2)),
                  output_file |->
                    LastOf(argv, Before(ValuesOf(argv, "--aspect-output"), at + 2)),
                  verbose |-> e.config.verbose]
  <2>1. CASE argv[at] = "--aspect-pointcut"
    <3>1. e.config = [d.config EXCEPT !.pointcuts = Append(d.config.pointcuts, argv[at + 1])]
      BY <2>1 DEF WithValue
    <3>2. e.config = [pointcuts |-> Append(InOrder(argv, P), argv[at + 1]),
                      output_file |-> LastOf(argv, O), verbose |-> e.config.verbose]
      <4> DEFINE longer == Append(InOrder(argv, P), argv[at + 1])
      <4>1. d.config.pointcuts = InOrder(argv, P)
        BY <1>6
      <4>2. e.config = [d.config EXCEPT !.pointcuts = longer]
        BY <3>1, <4>1
      <4> HIDE DEF argv, at, P, O, longer
      <4>3. e.config = [pointcuts |-> longer, output_file |-> LastOf(argv, O),
                        verbose |-> e.config.verbose]
        BY <1>6, <4>2
      <4> QED  BY <4>3 DEF longer
    <3>3. /\ Before(ValuesOf(argv, "--aspect-pointcut"), at + 2) = P \cup {at + 1}
          /\ Before(ValuesOf(argv, "--aspect-output"), at + 2) = O
      BY <1>2, <2>1
    <3> QED  BY <1>4, <3>2, <3>3
  <2>2. CASE argv[at] = "--aspect-output"
    <3>1. e.config = [d.config EXCEPT !.output_file = <<argv[at + 1]>>]
      BY <2>2 DEF WithValue
    <3>2. e.config = [pointcuts |-> InOrder(argv, P),
                      output_file |-> <<argv[at + 1]>>, verbose |-> e.config.verbose]
      <4> HIDE DEF argv, at, P, O
      <4> QED  BY <1>6, <3>1
    <3>3. /\ Before(ValuesOf(argv, "--aspect-pointcut"), at + 2) = P
          /\ Before(ValuesOf(argv, "--aspect-output"), at + 2) = O \cup {at + 1}
      BY <1>2, <2>2
    <3> QED  BY <1>5, <3>2, <3>3
  <2> QED  BY <1>7, <2>1, <2>2
<1>9. e.rustc_args = InOrder(argv, Before(RestOf(argv), at + 2))
  BY <1>2 DEF WordsOK
<1> QED  BY <1>1, <1>2, <1>8, <1>9 DEF WordsOK

-----------------------------------------------------------------------------
(* A run and its command line *)

\* What the analysis finds for these pointcuts.
ResultsFor(pointcuts) ==
  [functions |-> ExtractAllFunctions, stats |-> FromFunctions(ExtractAllFunctions),
   matched |-> MatchedFunctions(ExtractAllFunctions, pointcuts)]

\* All words have been read when the compiler runs; a run ends before that only
\* at a last word that waits for its value.
LineOK(d) ==
  /\ IsRun(d) /\ WordsOK(d)
  /\ d.stage \in {"idle", "reading", "compiling", "reporting", "writing", "cargo", "exited"}
  /\ d.exit \in {"none", "ok", "failed", "usage"} /\ d.written \in 0..4
  /\ d.stage # "exited" => d.exit = "none"
  /\ d.exit = "usage" => d.at = Len(d.argv) /\ d.argv[d.at] \in ValueFlags /\ ~d.analysed
  /\ d.stage # "reading" /\ d.exit # "usage" => d.at = Len(d.argv) + 1
  /\ d.stage \in {"idle", "reading", "cargo"} => ~d.analysed
  /\ d.analysed => d.results = ResultsFor(d.config.pointcuts)

LineInv == LineOK(driver)

\* A step that reads no word and finds nothing.
LEMMA LineStep ==
  ASSUME NEW d, NEW e, LineOK(d), IsRun(e), d.stage # "exited",
         e.argv = d.argv, e.at = d.at, e.config = d.config, e.rustc_args = d.rustc_args,
         e.results = d.results, e.analysed = d.analysed, e.written \in 0..4,
         \/ /\ d.stage # "reading" \/ d.at = Len(d.argv) + 1
            /\ e.stage \in {"compiling", "reporting", "writing"} /\ e.exit = "none"
         \/ /\ d.stage # "reading" /\ e.stage = "exited" /\ e.exit \in {"ok", "failed"}
         \/ /\ d.stage = "reading" /\ e.stage = "exited" /\ e.exit = "usage"
            /\ d.at = Len(d.argv) /\ d.argv[d.at] \in ValueFlags
  PROVE  LineOK(e)
<1>1. WordsOK(e)
  BY DEF LineOK, WordsOK
<1> QED  BY <1>1 DEF LineOK

LEMMA LineStart ==
  ASSUME NEW d, NEW tool, NEW argv \in Seq(Words), NEW stage, d = Started(tool, argv, stage),
         stage \in {"idle", "reading", "cargo", "exited"},
         stage = "reading" \/ argv = << >>
  PROVE  LineOK(d)
<1>1. /\ IsRun(d) /\ d.argv = argv /\ d.at = 1 /\ d.config = NoConfig
      /\ d.rustc_args = << >> /\ d.stage = stage /\ d.exit = "none" /\ d.written = 0
      /\ d.analysed = FALSE
  BY DEF Started, IsRun
<1>2. WordsOK(d)
  BY <1>1, WordsOKStart
<1>3. stage # "reading" => d.at = Len(d.argv) + 1
  BY <1>1
<1> QED  BY <1>1, <1>2, <1>3 DEF LineOK

LEMMA LineInit == RunInit => LineInv
<1>1. << >> \in Seq(Words)
  OBVIOUS
<1> QED  BY <1>1, LineStart DEF RunInit, LineInv

LEMMA LineBegins ==
  ASSUME LineInv, StartDriver \/ RunAspectCommand
  PROVE  LineInv'
<1>1. CASE StartDriver
  <2>1. PICK tool \in {"main_working", "main"}, argv \in BoundedSeq(Words, MaxWords) :
          driver' = Started(tool, argv, "reading")
    BY <1>1 DEF StartDriver
  <2>2. argv \in Seq(Words)
    BY DriverRunAssumption DEF BoundedSeq, SeqOf
  <2> QED  BY <2>1, <2>2, LineStart DEF LineInv
<1>2. CASE RunAspectCommand
  <2>1. PICK command \in CargoCommands \cup {"info", "list", "none"} :
          driver' = IF command \in CargoCommands THEN Started(command, << >>, "cargo")
                    ELSE [Started(command, << >>, "cargo")
                            EXCEPT !.stage = "exited", !.exit = "ok"]
    BY <1>2 DEF RunAspectCommand
  <2>2. << >> \in Seq(Words)
    OBVIOUS
  <2> DEFINE started == Started(command, << >>, "cargo")
  <2>3. LineOK(started)
    BY <2>2, LineStart
  <2>4. IsRun(started) /\ started.stage = "cargo" /\ started.written = 0
    BY DEF Started, IsRun
  <2> HIDE DEF started
  <2>5. CASE command \in CargoCommands
    BY <2>1, <2>3, <2>5 DEF started, LineInv
  <2>6. CASE command \notin CargoCommands
    <3>1. driver' = [started EXCEPT !.stage = "exited", !.exit = "ok"]
      BY <2>1, <2>6 DEF started
    <3>2. /\ IsRun(driver') /\ driver'.argv = started.argv /\ driver'.at = started.at
          /\ driver'.config = started.config /\ driver'.rustc_args = started.rustc_args
          /\ driver'.results = started.results /\ driver'.analysed = started.analysed
          /\ driver'.written = 0 /\ driver'.stage = "exited" /\ driver'.exit = "ok"
      BY <2>4, <3>1 DEF IsRun
    <3> QED  BY <2>3, <2>4, <3>2, LineStep DEF LineInv
  <2> QED  BY <2>5, <2>6
<1> QED  BY <1>1, <1>2

LEMMA LineReads ==
  ASSUME LineInv, TakeVerbose \/ TakeValue \/ PassOn
  PROVE  LineInv'
<1> DEFINE d == driver
           w == driver.argv[driver.at]
<1>1. /\ LineOK(d) /\ IsRun(d) /\ WordsOK(d) /\ d.stage = "reading" /\ d.at <= Len(d.argv)
      /\ ~d.analysed /\ d.exit = "none" /\ d.written \in 0..4
  BY DEF LineInv, LineOK, TakeVerbose, TakeValue, PassOn, ReadsWords
<1>2. /\ IsRun(d') /\ d'.argv = d.argv /\ d'.stage = "reading" /\ d'.written = d.written
      /\ ~d'.analysed /\ d'.exit = "none" /\ WordsOK(d')
  <2>1. CASE TakeVerbose
    <3>1. w = "--aspect-verbose" /\ d' = [d EXCEPT !.config.verbose = TRUE, !.at = d.at + 1]
      BY <2>1 DEF TakeVerbose, Word
    <3>2. d.config = [pointcuts |-> d.config.pointcuts,
                      output_file |-> d.config.output_file, verbose |-> d.config.verbose]
      BY <1>1 DEF WordsOK
    <3> DEFINE c == [pointcuts |-> d.config.pointcuts,
                     output_file |-> d.config.output_file, verbose |-> TRUE]
    <3>3. [d.config EXCEPT !.verbose = TRUE] = c
      <4>1. PICK p, o, v : p = d.config.pointcuts /\ o = d.config.output_file
                            /\ v = d.config.verbose
        OBVIOUS
      <4>2. d.config = [pointcuts |-> p, output_file |-> o, verbose |-> v]
        BY <3>2, <4>1
      <4> DEFINE yes == TRUE
      <4> HIDE DEF yes
      <4>3. [d.config EXCEPT !.verbose = yes]
              = [pointcuts |-> p, output_file |-> o, verbose |-> yes]
        BY <4>2
      <4> QED  BY <4>1, <4>3 DEF yes
    <3>4. d' = [d EXCEPT !.config = c, !.at = d.at + 1]
      BY <3>1, <3>3
    <3> HIDE DEF c
    <3>5. /\ IsRun(d') /\ d'.argv = d.argv /\ d'.stage = "reading" /\ d'.at = d.at + 1
          /\ d'.config = c /\ d'.rustc_args = d.rustc_args /\ d'.written = d.written
          /\ ~d'.analysed /\ d'.exit = "none"
      BY <1>1, <3>4 DEF IsRun
    <3>6. w \notin ValueFlags /\ w \in OwnFlags
      BY <3>1 DEF ValueFlags, OwnFlags
    <3>7. WordsOK(d')
      <4> HIDE DEF d
      <4> QED  BY <1>1, <3>5, <3>6, WordsOKPass DEF c, d
    <3> QED  BY <3>5, <3>7
  <2>2. CASE TakeValue
    <3>1. /\ w \in ValueFlags /\ d.at < Len(d.argv)
          /\ d' = [d EXCEPT !.config = WithValue(d.config, w, d.argv[d.at + 1]),
                            !.at = d.at + 2]
      BY <2>2 DEF TakeValue, Word, NextWord
    <3> DEFINE c == WithValue(d.config, w, d.argv[d.at + 1])
    <3>2. d' = [d EXCEPT !.config = c, !.at = d.at + 2]
      BY <3>1
    <3> HIDE DEF c
    <3>3. /\ IsRun(d') /\ d'.argv = d.argv /\ d'.stage = "reading" /\ d'.at = d.at + 2
          /\ d'.config = c /\ d'.rustc_args = d.rustc_args /\ d'.written = d.written
          /\ ~d'.analysed /\ d'.exit = "none"
      BY <1>1, <3>2 DEF IsRun
    <3>4. WordsOK(d')
      <4> HIDE DEF d
      <4> QED  BY <1>1, <3>1, <3>3, WordsOKValue DEF c, d
    <3> QED  BY <3>3, <3>4
  <2>3. CASE PassOn
    <3>1. /\ w \notin OwnFlags
          /\ d' = [d EXCEPT !.rustc_args = Append(d.rustc_args, w), !.at = d.at + 1]
      BY <2>3 DEF PassOn, Word
    <3> DEFINE c == Append(d.rustc_args, w)
    <3>2. d' = [d EXCEPT !.rustc_args = c, !.at = d.at + 1]
      BY <3>1
    <3> HIDE DEF c
    <3>3. /\ IsRun(d') /\ d'.argv = d.argv /\ d'.stage = "reading" /\ d'.at = d.at + 1
          /\ d'.config = d.config /\ d'.rustc_args = c /\ d'.written = d.written
          /\ ~d'.analysed /\ d'.exit = "none"
      BY <1>1, <3>2 DEF IsRun
    <3>4. w \notin ValueFlags
      BY <3>1 DEF OwnFlags
    <3>5. WordsOK(d')
      <4> HIDE DEF d
      <4> QED  BY <1>1, <3>1, <3>3, <3>4, WordsOKPass DEF c, d
    <3> QED  BY <3>3, <3>5
  <2> QED  BY <2>1, <2>2, <2>3
<1> QED  BY <1>1, <1>2 DEF LineOK, LineInv

LEMMA LineAnalyses ==
  ASSUME LineInv, AnalyzeCrate
  PROVE  LineInv'
<1> DEFINE d == driver
           found == ResultsFor(d.config.pointcuts)
<1>1. /\ LineOK(d) /\ IsRun(d) /\ WordsOK(d) /\ d.stage = "compiling" /\ d.exit = "none"
      /\ d.written \in 0..4 /\ d.at = Len(d.argv) + 1
  BY DEF LineInv, LineOK, AnalyzeCrate
<1>2. d' = [d EXCEPT !.analysed = TRUE, !.results = found]
  BY DEF AnalyzeCrate, ResultsFor
<1> HIDE DEF found
<1>3. /\ IsRun(d') /\ d'.argv = d.argv /\ d'.stage = "compiling" /\ d'.at = d.at
      /\ d'.config = d.config /\ d'.rustc_args = d.rustc_args /\ d'.written = d.written
      /\ d'.analysed /\ d'.exit = "none" /\ d'.results = found
  BY <1>1, <1>2 DEF IsRun
<1>4. WordsOK(d')
  BY <1>1, <1>3 DEF WordsOK
<1> QED  BY <1>1, <1>3, <1>4 DEF LineOK, LineInv, found

LEMMA LineGoesOn ==
  ASSUME LineInv,
         \/ MissingValue \/ RunCompiler \/ CompilerFails \/ CompilerReturns
         \/ CreateOutput \/ WritePart \/ OutputFails \/ Finish \/ RunCargoCommand
  PROVE  LineInv'
<1> DEFINE d == driver
<1>1. /\ LineOK(d) /\ IsRun(d) /\ WordsOK(d) /\ d.written \in 0..4
      /\ d.at \in 1..(Len(d.argv) + 1)
  BY DEF LineInv, LineOK, WordsOK
<1>2. /\ IsRun(d') /\ d'.argv = d.argv /\ d'.at = d.at /\ d'.config = d.config
      /\ d'.rustc_args = d.rustc_args /\ d'.results = d.results /\ d'.analysed = d.analysed
      /\ d'.written \in 0..4 /\ d.stage # "exited"
      /\ \/ /\ d.stage # "reading" \/ d.at = Len(d.argv) + 1
            /\ d'.stage \in {"compiling", "reporting", "writing"} /\ d'.exit = "none"
         \/ /\ d.stage # "reading" /\ d'.stage = "exited" /\ d'.exit \in {"ok", "failed"}
         \/ /\ d.stage = "reading" /\ d'.stage = "exited" /\ d'.exit = "usage"
            /\ d.at = Len(d.argv) /\ d.argv[d.at] \in ValueFlags
  <2>1. CASE MissingValue
    BY <1>1, <2>1 DEF MissingValue, ReadsWords, Word, Exit, IsRun
  <2>2. CASE RunCompiler
    <3>1. d.at = Len(d.argv) + 1 /\ d.exit = "none"
      BY <1>1, <2>2 DEF RunCompiler, LineOK, WordsOK
    <3> QED  BY <1>1, <2>2, <3>1 DEF RunCompiler, IsRun
  <2>3. CASE CompilerFails
    BY <1>1, <2>3 DEF CompilerFails, Exit, IsRun
  <2>4. CASE CompilerReturns
    <3>1. d.exit = "none"
      BY <1>1, <2>4 DEF CompilerReturns, LineOK
    <3>2. CASE d.analysed
      BY <1>1, <2>4, <3>1, <3>2 DEF CompilerReturns, IsRun
    <3>3. CASE ~d.analysed
      BY <1>1, <2>4, <3>3 DEF CompilerReturns, Exit, IsRun
    <3> QED  BY <3>2, <3>3
  <2>5. CASE CreateOutput
    <3>1. d.exit = "none"
      BY <1>1, <2>5 DEF CreateOutput, LineOK
    <3> QED  BY <1>1, <2>5, <3>1 DEF CreateOutput, IsRun
  <2>6. CASE WritePart
    <3>1. d.exit = "none" /\ d.written < 4
      BY <1>1, <2>6 DEF WritePart, LineOK, Report
    <3>2. d.written + 1 \in 0..4
      BY <1>1, <3>1
    <3>3. d.stage = "writing" /\ d' = [d EXCEPT !.written = d.written + 1]
      BY <2>6 DEF WritePart
    <3> DEFINE n == d.written + 1
    <3>4. n \in 0..4 /\ d' = [d EXCEPT !.written = n]
      BY <3>2, <3>3
    <3> HIDE DEF n
    <3> QED  BY <1>1, <3>1, <3>3, <3>4 DEF IsRun
  <2>7. CASE OutputFails
    <3>1. /\ d.stage \in {"reporting", "writing"}
          /\ d' = [[d EXCEPT !.stage = "exited", !.exit = "ok"]
                     EXCEPT !.said = d.said \cup {"error writing", "success"}]
      BY <1>1, <2>7 DEF OutputFails, Exit, IsRun
    <3> QED  BY <1>1, <3>1 DEF IsRun
  <2>8. CASE Finish
    <3>1. /\ d.stage \in {"reporting", "writing"}
          /\ \E says : d' = [[d EXCEPT !.stage = "exited", !.exit = "ok"] EXCEPT !.said = says]
      BY <1>1, <2>8 DEF Finish, Exit, IsRun
    <3> QED  BY <1>1, <3>1 DEF IsRun
  <2>9. CASE RunCargoCommand
    <3>1. /\ d.stage = "cargo"
          /\ \E code \in {"ok", "failed"} : \E status :
               d' = [[d EXCEPT !.stage = "exited", !.exit = code] EXCEPT !.cargo = status]
      BY <2>9 DEF RunCargoCommand, Exit
    <3> QED  BY <1>1, <3>1 DEF IsRun
  <2> QED  BY <2>1, <2>2, <2>3, <2>4, <2>5, <2>6, <2>7, <2>8, <2>9
<1> HIDE DEF d
<1>3. LineOK(d')
  BY <1>1, <1>2, LineStep
<1> QED  BY <1>3 DEF LineInv, d

LEMMA LineNext == LineInv /\ [RunNext]_runVars => LineInv'
<1> SUFFICES ASSUME LineInv, [RunNext]_runVars  PROVE LineInv'
  OBVIOUS
<1>1. CASE UNCHANGED runVars
  BY <1>1 DEF LineInv, runVars
<1> QED  BY <1>1, LineBegins, LineReads, LineAnalyses, LineGoesOn DEF RunNext

\* Where a run is on its command line, and what it has made of it.
THEOREM LineInvHolds == RunSpec => []LineInv
BY LineInit, LineNext, PTL DEF RunSpec

\* For every crate, every meaning of the words and any number of them.
THEOREM RunTypeCorrect == RunSpec => []RunTypeOK
<1>1. LineInv => RunTypeOK
  <2> SUFFICES ASSUME LineInv  PROVE RunTypeOK
    OBVIOUS
  <2>1. Len(Report) = 4
    BY DEF Report
  <2> QED  BY <2>1 DEF LineInv, LineOK, WordsOK, RunTypeOK
<1> QED  BY <1>1, LineInvHolds, PTL

\* At the end of the line there is nothing before which the words would not be.
LEMMA AllAreBefore ==
  ASSUME NEW n \in Nat, NEW S \in SUBSET (1..n)
  PROVE  Before(S, n + 1) = S
<1>1. \A i \in S : i < n + 1
  OBVIOUS
<1> QED  BY <1>1 DEF Before

LEMMA LineUsesWords == LineInv => WordsAreUsed
<1> SUFFICES ASSUME LineInv  PROVE WordsAreUsed
  OBVIOUS
<1> DEFINE d == driver
           argv == driver.argv
           n == Len(driver.argv)
           waits == argv # << >> /\ Last(argv) \in ValueFlags /\ n \notin Given(argv)
<1>1. /\ LineOK(d) /\ argv \in Seq(Words) /\ n \in Nat /\ d.at \in 1..(n + 1)
      /\ ~IsValue(argv, d.at)
  BY DEF LineInv, LineOK, WordsOK
<1>2. argv # << >> => n \in 1..n
  BY <1>1
<1>3. ASSUME d.exit = "usage"  PROVE waits /\ d.stage = "exited"
  <2>1. d.stage = "exited" /\ d.at = n /\ argv[n] \in ValueFlags
    BY <1>1, <1>3 DEF LineOK
  <2>2. n \in 1..(n + 1) /\ ~IsValue(argv, n)
    BY <1>1, <2>1
  <2>3. argv # << >>
    BY <1>1, <2>2
  <2> QED  BY <2>1, <2>2, <2>3 DEF Given, Last
<1>4. ASSUME d.stage # "reading", d.exit # "usage"  PROVE ~waits /\ d.at = n + 1
  <2>1. d.at = n + 1
    BY <1>1, <1>4 DEF LineOK
  <2>2. ASSUME waits  PROVE FALSE
    <3>1. n \in 1..n /\ argv[n] \in ValueFlags
      BY <1>2, <2>2 DEF Last
    <3>2. ~IsValue(argv, n)
      <4>1. CASE n = 1
        BY <4>1, FirstIsNoValue
      <4>2. CASE n # 1
        <5>1. n \in 2..n
          <6> HIDE DEF n
          <6> QED  BY <1>1, <3>1, <4>2
        <5> QED  BY <2>2, <5>1 DEF Given
      <4> QED  BY <4>1, <4>2
    <3>3. IsValue(argv, n + 1)
      <4> HIDE DEF n, argv
      <4> QED  BY <3>1, <3>2, ValueAfter
    <3> QED  BY <1>1, <2>1, <3>3
  <2> QED  BY <2>1, <2>2
<1>5. d.exit = "usage" <=> waits /\ d.stage = "exited"
  BY <1>3, <1>4
<1>6. ASSUME d.stage = "compiling" \/ d.analysed
      PROVE  /\ d.rustc_args = InOrder(argv, RestOf(argv))
             /\ d.config.output_file = LastOf(argv, ValuesOf(argv, "--aspect-output"))
  <2>1. d.at = n + 1
    BY <1>1, <1>4, <1>6 DEF LineOK
  <2>2. /\ RestOf(argv) \in SUBSET (1..n)
        /\ ValuesOf(argv, "--aspect-output") \in SUBSET (1..n)
    BY DEF RestOf, ValuesOf
  <2>3. /\ Before(RestOf(argv), n + 1) = RestOf(argv)
        /\ Before(ValuesOf(argv, "--aspect-output"), n + 1)
             = ValuesOf(argv, "--aspect-output")
    <3> HIDE DEF n, argv
    <3> QED  BY <1>1, <2>2, AllAreBefore
  <2> QED  BY <1>1, <2>1, <2>3 DEF LineOK, WordsOK
<1> QED  BY <1>5, <1>6 DEF WordsAreUsed, RestOf, LastOf

-----------------------------------------------------------------------------
(* Names *)

\* The provers do not know of a literal that it is in STRING.
Parts == STRING \cup {"::", "crate"}
TextOf == Seq(Parts)

LEMMA ColonsAreText == <<"::">> \in TextOf
BY DEF TextOf, Parts

Joining(names) == [i \in 1..Len(names) |-> [v \in TextOf |->
                  IF v = << >> THEN names[i] ELSE v \o <<"::">> \o names[i]]]

\* JoinNames is the last value of the function that its definition recurses with.
LEMMA JoinIsDefined ==
  ASSUME NEW names \in Seq(TextOf)
  PROVE  \E joined : /\ Recurses(joined, TextOf, << >>, Len(names), Joining(names))
                     /\ JoinNames(names) = joined[Len(names)]
<1> DEFINE n == Len(names)
           V == TextOf
           step == Joining(names)
           base == << >>
           Def(f) == [i \in 0..n |-> IF i = 0 THEN << >>
                        ELSE IF f[i - 1] = << >> THEN names[i]
                        ELSE f[i - 1] \o <<"::">> \o names[i]]
           joined == CHOOSE f : f = Def(f)
<1>1. base \in V /\ n \in Nat
  BY DEF TextOf
<1>2. ASSUME NEW i \in 1..n, NEW v \in V
      PROVE  /\ step[i][v] = IF v = << >> THEN names[i] ELSE v \o <<"::">> \o names[i]
             /\ step[i][v] \in V
  <2>1. step[i][v] = IF v = << >> THEN names[i] ELSE v \o <<"::">> \o names[i]
    BY DEF Joining
  <2>2. names[i] \in Seq(Parts) /\ v \in Seq(Parts) /\ <<"::">> \in Seq(Parts)
    <3>1. <<"::">> \in Seq(Parts)
      BY ColonsAreText DEF TextOf
    <3>2. names[i] \in TextOf
      <4> HIDE DEF V
      <4> QED  OBVIOUS
    <3> QED  BY <3>1, <3>2 DEF TextOf
  <2>3. v \o <<"::">> \o names[i] \in Seq(Parts)
    BY <2>2, ConcatProperties
  <2> QED  BY <2>1, <2>2, <2>3 DEF TextOf
<1>3. StepsIn(V, n, step)
  <2>1. \A i \in 1..n : step[i] = [v \in V |-> step[i][v]]
    BY DEF Joining
  <2>2. step = [i \in 1..n |-> step[i]]
    BY DEF Joining
  <2> HIDE DEF step, V, n
  <2>3. \A i \in 1..n : step[i] \in [V -> V]
    BY <1>2, <2>1
  <2> QED  BY <2>2, <2>3 DEF StepsIn
<1>4. PICK g : Recurses(g, V, base, n, step)
  <2> HIDE DEF n, V, step, base
  <2> QED  BY <1>1, <1>3, Recursion
<1>5. g = Def(g)
  <2> HIDE DEF step, V
  <2>1. \A i \in 1..n : g[i - 1] \in V
    BY <1>4 DEF Recurses
  <2>2. \A i \in 1..n : g[i] = IF g[i - 1] = << >> THEN names[i]
                               ELSE g[i - 1] \o <<"::">> \o names[i]
    BY <1>2, <1>4, <2>1 DEF Recurses
  <2>3. ASSUME NEW i \in 0..n  PROVE g[i] = Def(g)[i]
    <3>1. CASE i = 0
      BY <3>1, <1>4 DEF Recurses
    <3>2. CASE i # 0
      <4>1. i \in 1..n
        BY <3>2
      <4>2. Def(g)[i] = IF g[i - 1] = << >> THEN names[i]
                        ELSE g[i - 1] \o <<"::">> \o names[i]
        BY <3>2
      <4> QED  BY <4>1, <4>2, <2>2
    <3> QED  BY <3>1, <3>2
  <2>4. g = [i \in 0..n |-> g[i]]
    BY <1>4 DEF Recurses
  <2>5. Def(g) = [i \in 0..n |-> Def(g)[i]]
    OBVIOUS
  <2> QED
    <3> HIDE DEF Def
    <3> QED  BY <2>3, <2>4, <2>5
<1>6. joined = Def(joined)
  <2> HIDE DEF Def
  <2> QED  BY <1>5
<1>7. Recurses(joined, V, base, n, step)
  <2> HIDE DEF joined
  <2>1. \A i \in 0..n : joined[i] = Def(joined)[i]
    BY <1>6
  <2>2. joined[0] = base /\ IsFunctionOn(joined, 0..n)
    BY <1>1, <1>6, <2>1 DEF IsFunctionOn
  <2>3. \A i \in 1..n : joined[i] = IF joined[i - 1] = << >> THEN names[i]
                                    ELSE joined[i - 1] \o <<"::">> \o names[i]
    BY <2>1
  <2>4. \A i \in 1..n : joined[i - 1] \in V => joined[i] = step[i][joined[i - 1]]
    <3> HIDE DEF V, step
    <3> QED  BY <1>2, <2>3
  <2> HIDE DEF n, V, step, base
  <2> QED  BY <1>1, <1>3, <2>2, <2>4, RecursionStays
<1>8. JoinNames(names) = joined[n]
  BY DEF JoinNames
<1> HIDE DEF joined
<1> QED  BY <1>7, <1>8

LEMMA JoinRecurses ==
  ASSUME NEW names \in Seq(TextOf), NEW joined,
         Recurses(joined, TextOf, << >>, Len(names), Joining(names))
  PROVE  /\ joined \in [0..Len(names) -> TextOf] /\ joined[0] = << >>
         /\ \A i \in 1..Len(names) :
              joined[i] = IF joined[i - 1] = << >> THEN names[i]
                          ELSE joined[i - 1] \o <<"::">> \o names[i]
<1>1. Len(names) \in Nat /\ joined \in [0..Len(names) -> TextOf] /\ joined[0] = << >>
  BY DEF Recurses
<1>2. ASSUME NEW i \in 1..Len(names)
      PROVE  joined[i] = IF joined[i - 1] = << >> THEN names[i]
                         ELSE joined[i - 1] \o <<"::">> \o names[i]
  <2>1. joined[i - 1] \in TextOf
    BY <1>1
  <2>2. \A v \in TextOf : Joining(names)[i][v] = IF v = << >> THEN names[i]
                                              ELSE v \o <<"::">> \o names[i]
    BY DEF Joining
  <2>3. joined[i] = Joining(names)[i][joined[i - 1]]
    BY DEF Recurses
  <2> QED  BY <2>1, <2>2, <2>3
<1> QED  BY <1>1, <1>2

Begins(s, t) == Len(s) <= Len(t) /\ \A k \in 1..Len(s) : t[k] = s[k]

LEMMA ConcatBegins ==
  ASSUME NEW s \in TextOf, NEW t \in TextOf
  PROVE  s \o t \in TextOf /\ Begins(s, s \o t)
<1>1. /\ s \o t \in Seq(Parts) /\ Len(s \o t) = Len(s) + Len(t)
      /\ \A i \in 1..(Len(s) + Len(t)) :
           (s \o t)[i] = IF i <= Len(s) THEN s[i] ELSE t[i - Len(s)]
  BY ConcatProperties DEF TextOf
<1>2. Len(s) \in Nat /\ Len(t) \in Nat
  BY DEF TextOf
<1>3. \A k \in 1..Len(s) : k \in 1..(Len(s) + Len(t)) /\ k <= Len(s)
  BY <1>2
<1> QED  BY <1>1, <1>2, <1>3 DEF Begins, TextOf

LEMMA BeginsOfBegins ==
  ASSUME NEW s \in TextOf, NEW t \in TextOf, NEW u \in TextOf, Begins(s, t), Begins(t, u)
  PROVE  Begins(s, u)
<1>1. Len(s) \in Nat /\ Len(t) \in Nat /\ Len(u) \in Nat
  BY DEF TextOf
<1>2. \A k \in 1..Len(s) : k \in 1..Len(t)
  BY <1>1 DEF Begins
<1> QED  BY <1>1, <1>2 DEF Begins

\* What a text begins with stands in it.
LEMMA BeginningIsContained ==
  ASSUME NEW s \in TextOf, NEW t \in TextOf, Begins(s, t)
  PROVE  ContainsText(t, s)
<1>1. Len(s) \in Nat /\ Len(t) \in Nat /\ Len(s) \in 0..Len(t) /\ 0 \in 0..Len(t)
  BY DEF TextOf, Begins
<1>2. s = [k \in 1..Len(s) |-> s[k]]
  BY DEF TextOf
<1>3. SubSeq(t, 0 + 1, Len(s)) = [k \in 1..Len(s) |-> t[k]]
  BY <1>1 DEF TextOf
<1>4. [k \in 1..Len(s) |-> t[k]] = [k \in 1..Len(s) |-> s[k]]
  BY DEF Begins
<1>5. SubSeq(t, 0 + 1, Len(s)) = s
  BY <1>2, <1>3, <1>4
<1> QED  BY <1>1, <1>5 DEF ContainsText, SubSeqs

\* The first names, joined, are what all of them begin with when they are joined.
LEMMA FirstNamesBegin ==
  ASSUME NEW names \in Seq(TextOf), NEW m \in 0..Len(names)
  PROVE  /\ JoinNames(names) \in TextOf /\ JoinNames(SubSeq(names, 1, m)) \in TextOf
         /\ Begins(JoinNames(SubSeq(names, 1, m)), JoinNames(names))
<1> DEFINE n == Len(names)
           first == SubSeq(names, 1, m)
<1>1. n \in Nat /\ m \in Nat /\ m <= n
  OBVIOUS
<1>2. first \in Seq(TextOf) /\ Len(first) = m /\ \A k \in 1..m : first[k] = names[k]
  BY <1>1
<1> HIDE DEF first
<1>3. PICK all : /\ Recurses(all, TextOf, << >>, n, Joining(names))
                 /\ JoinNames(names) = all[n]
  BY JoinIsDefined
<1>4. PICK some : /\ Recurses(some, TextOf, << >>, m, Joining(first))
                  /\ JoinNames(first) = some[m]
  BY <1>2, JoinIsDefined
<1>5. /\ all \in [0..n -> TextOf] /\ all[0] = << >>
      /\ \A i \in 1..n : all[i] = IF all[i - 1] = << >> THEN names[i]
                                  ELSE all[i - 1] \o <<"::">> \o names[i]
  BY <1>3, JoinRecurses
<1>6. /\ some \in [0..m -> TextOf] /\ some[0] = << >>
      /\ \A i \in 1..m : some[i] = IF some[i - 1] = << >> THEN first[i]
                                   ELSE some[i - 1] \o <<"::">> \o first[i]
  <2>1. Recurses(some, TextOf, << >>, Len(first), Joining(first))
    BY <1>2, <1>4
  <2>2. /\ some \in [0..Len(first) -> TextOf] /\ some[0] = << >>
        /\ \A i \in 1..Len(first) :
             some[i] = IF some[i - 1] = << >> THEN first[i]
                       ELSE some[i - 1] \o <<"::">> \o first[i]
    BY <1>2, <2>1, JoinRecurses
  <2> QED  BY <1>2, <2>2
<1> HIDE DEF n
<1>7. \A i \in 0..m : some[i] = all[i]
  <2> DEFINE T == {i \in 0..m : some[i] = all[i]}
  <2>1. 0 \in T
    BY <1>1, <1>5, <1>6
  <2>2. \A i \in 0..(m - 1) : i \in T => i + 1 \in T
    <3> SUFFICES ASSUME NEW i \in 0..(m - 1), i \in T  PROVE i + 1 \in T
      OBVIOUS
    <3>1. i + 1 \in 1..m /\ i + 1 \in 1..n /\ (i + 1) - 1 = i /\ i + 1 \in 0..m
      BY <1>1
    <3>2. first[i + 1] = names[i + 1] /\ some[i] = all[i]
      BY <1>2, <3>1
    <3>3. /\ all[i + 1] = IF all[i] = << >> THEN names[i + 1]
                          ELSE all[i] \o <<"::">> \o names[i + 1]
          /\ some[i + 1] = IF some[i] = << >> THEN first[i + 1]
                           ELSE some[i] \o <<"::">> \o first[i + 1]
      BY <1>5, <1>6, <3>1
    <3> QED  BY <3>1, <3>2, <3>3
  <2>3. 0..m \subseteq T
    <3> HIDE DEF T
    <3> QED  BY <1>1, <2>1, <2>2, InductionTo
  <2> QED  BY <2>3
<1>8. \A i \in 0..n : m + i <= n => Begins(all[m], all[m + i])
  <2> DEFINE T == {i \in 0..n : m + i <= n => Begins(all[m], all[m + i])}
  <2>1. 0 \in T
    <3>1. m + 0 = m /\ 0 \in 0..n /\ all[m] \in TextOf
      BY <1>1, <1>5
    <3>2. Begins(all[m], all[m])
      BY <3>1 DEF Begins, TextOf
    <3> QED  BY <3>1, <3>2
  <2>2. \A i \in 0..(n - 1) : i \in T => i + 1 \in T
    <3> SUFFICES ASSUME NEW i \in 0..(n - 1), i \in T, m + (i + 1) <= n
                 PROVE  Begins(all[m], all[m + (i + 1)])
      BY <1>1
    <3> DEFINE j == m + (i + 1)
    <3>1. j \in 1..n /\ j - 1 = m + i /\ j - 1 \in 0..n /\ j - 1 <= n /\ m \in 0..n
      BY <1>1
    <3>2. Begins(all[m], all[j - 1])
      BY <3>1
    <3> HIDE DEF j
    <3>3. /\ all[m] \in TextOf /\ all[j - 1] \in TextOf /\ all[j] \in TextOf
          /\ names[j] \in TextOf /\ <<"::">> \in TextOf
      <4>1. names[j] \in TextOf
        BY <3>1 DEF n
      <4> QED  BY <1>5, <3>1, <4>1, ColonsAreText
    <3>4. all[j] = IF all[j - 1] = << >> THEN names[j] ELSE all[j - 1] \o <<"::">> \o names[j]
      BY <1>5, <3>1
    <3>5. CASE all[j - 1] = << >>
      <4>1. Len(all[m]) = 0
        BY <3>2, <3>3, <3>5 DEF Begins, TextOf
      <4> QED  BY <3>3, <4>1 DEF Begins, TextOf, j
    <3>6. CASE all[j - 1] # << >>
      <4>1. all[j - 1] \o <<"::">> \in TextOf /\ Begins(all[j - 1], all[j - 1] \o <<"::">>)
        BY <3>3, ConcatBegins
      <4>2. Begins(all[j - 1] \o <<"::">>, (all[j - 1] \o <<"::">>) \o names[j])
        BY <3>3, <4>1, ConcatBegins
      <4>3. all[j] = (all[j - 1] \o <<"::">>) \o names[j]
        BY <3>4, <3>6
      <4>4. Begins(all[j - 1], all[j])
        BY <3>3, <4>1, <4>2, <4>3, BeginsOfBegins
      <4>5. Begins(all[m], all[j])
        BY <3>2, <3>3, <4>4, BeginsOfBegins
      <4> QED  BY <4>5 DEF j
    <3> QED  BY <3>5, <3>6
  <2>3. 0..n \subseteq T
    <3> HIDE DEF T
    <3> QED  BY <1>1, <2>1, <2>2, InductionTo
  <2> QED  BY <2>3
<1>9. n - m \in 0..n /\ m + (n - m) = n /\ m \in 0..m /\ n \in 0..n
  BY <1>1
<1>10. some[m] = all[m] /\ Begins(all[m], all[n]) /\ all[n] \in TextOf /\ some[m] \in TextOf
  BY <1>5, <1>6, <1>7, <1>8, <1>9
<1> QED  BY <1>3, <1>4, <1>10 DEF first

-----------------------------------------------------------------------------
(* Counting *)

\* Of places that stand in order, as many are in a part as the part has.
LEMMA CountedByPlace ==
  ASSUME NEW n \in Nat, NEW t \in Seq(1..n), OrderedBy(Less, t), NEW Q \in SUBSET Elements(t)
  PROVE  /\ IsFiniteSet(Q) /\ IsFiniteSet({k \in 1..Len(t) : t[k] \in Q})
         /\ Cardinality({k \in 1..Len(t) : t[k] \in Q}) = Cardinality(Q)
<1> DEFINE K == {k \in 1..Len(t) : t[k] \in Q}
           f == [k \in K |-> t[k]]
<1>1. Len(t) \in Nat /\ K \in SUBSET (1..Len(t))
  OBVIOUS
<1>2. IsFiniteSet(K)
  <2>1. IsFiniteSet(1..Len(t))
    BY <1>1, FS_Interval
  <2> HIDE DEF K
  <2> QED  BY <1>1, <2>1, FS_Subset
<1>3. \A k \in K : k \in 1..Len(t) /\ f[k] = t[k] /\ t[k] \in Q
  OBVIOUS
<1>4. \A x \in Q : \E k \in K : t[k] = x
  BY DEF Elements
<1>5. f \in [K -> Q]
  OBVIOUS
<1> HIDE DEF K, f
<1>6. \A a, b \in K : f[a] = f[b] => a = b
  BY <1>3, OrderedOnce, LessIs
<1>7. f \in Bijection(K, Q)
  BY <1>3, <1>4, <1>5, <1>6 DEF Bijection, Injection, Surjection, IsInjective
<1>8. ExistsBijection(K, Q)
  BY <1>7 DEF ExistsBijection
<1>9. IsFiniteSet(Q) /\ Cardinality(Q) = Cardinality(K)
  BY <1>2, <1>8, FS_Bijection
<1> QED  BY <1>2, <1>9 DEF K

Free == {n \in 1..Len(Crate) : Crate[n].kind = "fn"}
Found == Only(Numbering(Crate), Free)

LEMMA CrateType ==
  /\ Crate \in Seq(CrateItems) /\ Len(Crate) \in Nat
  /\ \A n \in 1..Len(Crate) : Crate[n] \in CrateItems
<1>1. Crate \in Seq(CrateItems)
  BY DriverRunAssumption DEF DriverRunAssumption
<1> HIDE DEF CrateItems
<1> QED  BY <1>1

LEMMA FoundIs ==
  /\ Found \in Seq(1..Len(Crate)) /\ OrderedBy(Less, Found) /\ Elements(Found) = Free
  /\ Len(Found) \in Nat
<1>1. Free \in SUBSET (1..Len(Crate))
  BY DEF Free
<1>2. Found \in Seq(1..Len(Crate)) /\ OrderedBy(Less, Found) /\ Elements(Found) = Free
  BY <1>1, CrateType, PlacesKept DEF Found
<1> QED  BY <1>2

MetadataOf == {ExtractFunctionMetadata(n) : n \in Free}

LEMMA FunctionsAre ==
  /\ ExtractAllFunctions \in Seq(MetadataOf) /\ Len(ExtractAllFunctions) = Len(Found)
  /\ \A k \in 1..Len(Found) : /\ Found[k] \in Free
                              /\ ExtractAllFunctions[k] = ExtractFunctionMetadata(Found[k])
<1> DEFINE F == ExtractAllFunctions
<1>1. F = [i \in 1..Len(Found) |-> ExtractFunctionMetadata(Found[i])]
  BY DEF ExtractAllFunctions, Found, Free
<1>2. \A k \in 1..Len(Found) : Found[k] \in Free
  BY FoundIs DEF Elements
<1>3. \A k \in 1..Len(Found) : ExtractFunctionMetadata(Found[k]) \in MetadataOf
  BY <1>2 DEF MetadataOf
<1> HIDE DEF F
<1>4. F \in [1..Len(Found) -> MetadataOf]
  BY <1>1, <1>3
<1>5. F \in Seq(MetadataOf) /\ Len(F) = Len(Found)
  BY <1>4, FoundIs
<1> QED  BY <1>1, <1>2, <1>5 DEF F

LEMMA MetadataIs ==
  ASSUME NEW n
  PROVE  /\ ExtractFunctionMetadata(n).location = n
         /\ ExtractFunctionMetadata(n).name = DefPathStr(Crate[n])
         /\ ExtractFunctionMetadata(n).module_path = ExtractModulePath(Crate[n])
         /\ ExtractFunctionMetadata(n).visibility = ExtractVisibility(Crate[n])
BY DEF ExtractFunctionMetadata

\* The statistics count all free functions and the public ones among them.
LEMMA StatsAre ==
  LET stats == FromFunctions(ExtractAllFunctions)
  IN  /\ stats.total = Cardinality(Free)
      /\ stats.public = Cardinality({n \in Free : Crate[n].vis = "pub"})
<1> DEFINE F == ExtractAllFunctions
           Pub == {n \in Free : Crate[n].vis = "pub"}
           N == 1..Len(Found)
<1>1. /\ F \in Seq(MetadataOf) /\ Len(F) = Len(Found)
      /\ \A k \in N : Found[k] \in Free /\ F[k] = ExtractFunctionMetadata(Found[k])
  BY FunctionsAre
<1>2. /\ FromFunctions(F).total = Len(F)
      /\ FromFunctions(F).public
           = Cardinality({k \in 1..Len(F) : F[k].visibility = "Public"})
  BY DEF FromFunctions
<1> HIDE DEF F
<1>3. Len(Found) = Cardinality(Free)
  <2>1. Cardinality({k \in N : Found[k] \in Free}) = Cardinality(Free)
    <3>1. Free \in SUBSET Elements(Found)
      BY FoundIs
    <3> QED  BY <3>1, CrateType, FoundIs, CountedByPlace
  <2>2. {k \in N : Found[k] \in Free} = N
    BY <1>1
  <2>3. Cardinality(N) = Len(Found)
    <3>1. 1 \in Int /\ Len(Found) \in Int /\ Len(Found) \in Nat
      BY FoundIs
    <3>2. Cardinality(1..Len(Found)) = IF 1 > Len(Found) THEN 0 ELSE Len(Found) - 1 + 1
      BY <3>1, FS_Interval, Zenon
    <3> QED  BY <3>1, <3>2
  <2> QED  BY <2>1, <2>2, <2>3
<1>4. \A k \in N : F[k].visibility = "Public" <=> Found[k] \in Pub
  BY <1>1, MetadataIs DEF ExtractVisibility
<1>5. Cardinality({k \in N : Found[k] \in Pub}) = Cardinality(Pub)
  <2>1. Pub \in SUBSET Elements(Found)
    BY FoundIs
  <2> HIDE DEF Pub
  <2> QED  BY <2>1, CrateType, FoundIs, CountedByPlace
<1>6. {k \in 1..Len(F) : F[k].visibility = "Public"} = {k \in N : Found[k] \in Pub}
  BY <1>1, <1>4
<1> QED  BY <1>1, <1>2, <1>3, <1>5, <1>6 DEF F

\* The places in `s` at which function `n` is paired with `w`.
PairedAt(s, n, w) == {k \in 1..Len(s) : s[k].function.location = n /\ s[k].pointcut = w}

PairsSet == [function : MetadataOf, pointcut : Words]

\* One pointcut is paired once with a function that it selects.
LEMMA PairsOfOne ==
  ASSUME NEW v \in Words
  PROVE  /\ Pairs(ExtractAllFunctions, v) \in Seq(PairsSet)
         /\ \A n, w :
              \/ /\ v = w /\ n \in Free /\ Selects(w, ExtractFunctionMetadata(n))
                 /\ \E k \in 1..Len(Pairs(ExtractAllFunctions, v)) :
                      PairedAt(Pairs(ExtractAllFunctions, v), n, w) = {k}
              \/ /\ ~(v = w /\ n \in Free /\ Selects(w, ExtractFunctionMetadata(n)))
                 /\ PairedAt(Pairs(ExtractAllFunctions, v), n, w) = {}
<1> DEFINE F == ExtractAllFunctions
           S == {f \in ToSet(F) : Selects(v, f)}
           t == Only(F, S)
           P == Pairs(F, v)
<1>1. /\ F \in Seq(MetadataOf) /\ Len(F) = Len(Found) /\ Len(F) \in Nat
      /\ \A k \in 1..Len(F) : Found[k] \in Free /\ F[k] = ExtractFunctionMetadata(Found[k])
      /\ \A k \in 1..Len(F) : F[k].location = Found[k]
  <2>1. /\ F \in Seq(MetadataOf) /\ Len(F) = Len(Found) /\ Len(F) \in Nat
        /\ \A k \in 1..Len(F) : Found[k] \in Free /\ F[k] = ExtractFunctionMetadata(Found[k])
    BY FunctionsAre, FoundIs
  <2> QED  BY <2>1, MetadataIs
<1>2. \A f : f \in S <=> (\E k \in 1..Len(F) : F[k] = f) /\ Selects(v, f)
  <2>1. DOMAIN F = 1..Len(F)
    BY <1>1
  <2> QED  BY <2>1 DEF ToSet
<1>3. P = [i \in 1..Len(t) |-> [function |-> t[i], pointcut |-> v]]
  BY DEF Pairs
<1> HIDE DEF F, S, t, P
<1>4. t \in Seq(MetadataOf) /\ \E e : Enumerates(e, Len(F), t, F, S)
  BY <1>1, OnlyEnumerates DEF t
<1>5. PICK e : Enumerates(e, Len(F), t, F, S)
  BY <1>4
<1>6. /\ e \in [1..Len(t) -> 1..Len(F)]
      /\ \A j, k \in 1..Len(t) : j < k => e[j] < e[k]
      /\ \A k \in 1..Len(t) : t[k] = F[e[k]] /\ t[k] \in S
      /\ \A j \in 1..Len(F) : F[j] \in S => \E k \in 1..Len(t) : e[k] = j
  BY <1>5 DEF Enumerates
<1>7. P \in Seq(PairsSet) /\ Len(P) = Len(t)
  <2>1. \A k \in 1..Len(t) : [function |-> t[k], pointcut |-> v] \in PairsSet
    BY <1>4 DEF PairsSet
  <2>2. P \in [1..Len(t) -> PairsSet]
    BY <1>3, <2>1
  <2>3. Len(t) \in Nat
    BY <1>4
  <2> QED  BY <2>2, <2>3
<1>8. \A k \in 1..Len(P) : P[k].function = t[k] /\ P[k].pointcut = v
  BY <1>3, <1>7
<1>9. \A k \in 1..Len(P) : P[k].function.location = Found[e[k]] /\ e[k] \in 1..Len(F)
  BY <1>1, <1>6, <1>7, <1>8
<1>10. ASSUME NEW j \in 1..Len(P), NEW k \in 1..Len(P),
              P[j].function.location = P[k].function.location
       PROVE  j = k
  <2>1. e[j] \in 1..Len(Found) /\ e[k] \in 1..Len(Found) /\ Found[e[j]] = Found[e[k]]
    BY <1>1, <1>9, <1>10
  <2>2. e[j] = e[k]
    BY <2>1, FoundIs, LessIs, OrderedOnce
  <2>3. j \in Int /\ k \in Int /\ ~(e[j] < e[k]) /\ ~(e[k] < e[j])
    BY <1>1, <1>9, <2>2
  <2> QED  BY <1>6, <1>7, <2>3
<1>11. ASSUME NEW n, NEW w
       PROVE  \/ /\ v = w /\ n \in Free /\ Selects(w, ExtractFunctionMetadata(n))
                 /\ \E k \in 1..Len(P) : PairedAt(P, n, w) = {k}
              \/ /\ ~(v = w /\ n \in Free /\ Selects(w, ExtractFunctionMetadata(n)))
                 /\ PairedAt(P, n, w) = {}
  <2>1. CASE v = w /\ n \in Free /\ Selects(w, ExtractFunctionMetadata(n))
    <3>1. PICK j \in 1..Len(F) : Found[j] = n
      BY <1>1, <2>1, FoundIs DEF Elements
    <3>2. F[j] \in S
      BY <1>1, <1>2, <2>1, <3>1
    <3>3. PICK k \in 1..Len(t) : e[k] = j
      BY <1>6, <3>2
    <3>4. k \in 1..Len(P) /\ P[k].function.location = n /\ P[k].pointcut = w
      BY <1>7, <1>8, <1>9, <2>1, <3>1, <3>3
    <3>5. PairedAt(P, n, w) = {k}
      BY <1>10, <3>4 DEF PairedAt
    <3> QED  BY <2>1, <3>4, <3>5
  <2>2. CASE ~(v = w /\ n \in Free /\ Selects(w, ExtractFunctionMetadata(n)))
    <3>1. ASSUME NEW k \in PairedAt(P, n, w)  PROVE FALSE
      <4>1. k \in 1..Len(P) /\ P[k].function.location = n /\ v = w
        BY <1>8, <3>1 DEF PairedAt
      <4>2. /\ Found[e[k]] = n /\ e[k] \in 1..Len(F) /\ t[k] = F[e[k]] /\ t[k] \in S
        BY <1>6, <1>7, <1>9, <4>1
      <4>3. n \in Free /\ t[k] = ExtractFunctionMetadata(n) /\ Selects(v, t[k])
        BY <1>1, <1>2, <4>2
      <4> QED  BY <2>2, <4>1, <4>3
    <3> QED  BY <2>2, <3>1
  <2> QED  BY <2>1, <2>2
<1> QED  BY <1>7, <1>11 DEF P, F

-----------------------------------------------------------------------------
(* The pairs of all pointcuts *)

MatchSteps(pointcuts) ==
  [i \in 1..Len(pointcuts) |-> [v \in Seq(PairsSet) |->
     v \o Pairs(ExtractAllFunctions, pointcuts[i])]]

\* MatchedFunctions is the last value of the function that its definition recurses with.
LEMMA MatchedIsDefined ==
  ASSUME NEW pointcuts \in Seq(Words)
  PROVE  \E matched :
           /\ Recurses(matched, Seq(PairsSet), << >>, Len(pointcuts), MatchSteps(pointcuts))
           /\ MatchedFunctions(ExtractAllFunctions, pointcuts) = matched[Len(pointcuts)]
<1> DEFINE n == Len(pointcuts)
           V == Seq(PairsSet)
           F == ExtractAllFunctions
           step == MatchSteps(pointcuts)
           base == << >>
           Def(f) == [i \in 0..n |-> IF i = 0 THEN << >>
                        ELSE f[i - 1] \o Pairs(F, pointcuts[i])]
           matched == CHOOSE f : f = Def(f)
<1>1. base \in V /\ n \in Nat
  OBVIOUS
<1>2. ASSUME NEW i \in 1..n, NEW v \in V
      PROVE  step[i][v] = v \o Pairs(F, pointcuts[i]) /\ step[i][v] \in V
  <2>1. step[i][v] = v \o Pairs(F, pointcuts[i])
    BY DEF MatchSteps
  <2>2. Pairs(F, pointcuts[i]) \in Seq(PairsSet)
    <3>1. pointcuts[i] \in Words
      BY ElementOfSeq
    <3> QED  BY <3>1, PairsOfOne
  <2> HIDE DEF F
  <2>3. v \o Pairs(F, pointcuts[i]) \in Seq(PairsSet)
    BY <2>2, ConcatProperties
  <2> QED  BY <2>1, <2>3
<1> HIDE DEF F
<1>3. StepsIn(V, n, step)
  <2>1. \A i \in 1..n : step[i] = [v \in V |-> step[i][v]]
    BY DEF MatchSteps
  <2>2. step = [i \in 1..n |-> step[i]]
    BY DEF MatchSteps
  <2> HIDE DEF step, V, n
  <2>3. \A i \in 1..n : step[i] \in [V -> V]
    BY <1>2, <2>1
  <2> QED  BY <2>2, <2>3 DEF StepsIn
<1>4. PICK g : Recurses(g, V, base, n, step)
  <2> HIDE DEF n, V, step, base
  <2> QED  BY <1>1, <1>3, Recursion
<1>5. g = Def(g)
  <2> HIDE DEF step, V
  <2>1. \A i \in 1..n : g[i - 1] \in V
    BY <1>4 DEF Recurses
  <2>2. \A i \in 1..n : g[i] = g[i - 1] \o Pairs(F, pointcuts[i])
    BY <1>2, <1>4, <2>1 DEF Recurses
  <2>3. ASSUME NEW i \in 0..n  PROVE g[i] = Def(g)[i]
    <3>1. CASE i = 0
      BY <3>1, <1>4 DEF Recurses
    <3>2. CASE i # 0
      <4>1. i \in 1..n
        BY <3>2
      <4>2. Def(g)[i] = g[i - 1] \o Pairs(F, pointcuts[i])
        BY <3>2
      <4> QED  BY <4>1, <4>2, <2>2
    <3> QED  BY <3>1, <3>2
  <2>4. g = [i \in 0..n |-> g[i]]
    BY <1>4 DEF Recurses
  <2>5. Def(g) = [i \in 0..n |-> Def(g)[i]]
    OBVIOUS
  <2> QED
    <3> HIDE DEF Def
    <3> QED  BY <2>3, <2>4, <2>5
<1>6. matched = Def(matched)
  <2> HIDE DEF Def
  <2> QED  BY <1>5
<1>7. Recurses(matched, V, base, n, step)
  <2> HIDE DEF matched
  <2>1. \A i \in 0..n : matched[i] = Def(matched)[i]
    BY <1>6
  <2>2. matched[0] = base /\ IsFunctionOn(matched, 0..n)
    BY <1>1, <1>6, <2>1 DEF IsFunctionOn
  <2>3. \A i \in 1..n : matched[i] = matched[i - 1] \o Pairs(F, pointcuts[i])
    <3> SUFFICES ASSUME NEW i \in 1..n
                 PROVE  matched[i] = matched[i - 1] \o Pairs(F, pointcuts[i])
      OBVIOUS
    <3>1. i \in 0..n /\ i # 0
      BY <1>1
    <3>2. Def(matched)[i] = matched[i - 1] \o Pairs(F, pointcuts[i])
      BY <3>1
    <3> QED  BY <2>1, <3>1, <3>2
  <2>4. \A i \in 1..n : matched[i - 1] \in V => matched[i] = step[i][matched[i - 1]]
    <3> HIDE DEF V, step
    <3> QED  BY <1>2, <2>3
  <2> HIDE DEF n, V, step, base
  <2> QED  BY <1>1, <1>3, <2>2, <2>4, RecursionStays
<1>8. MatchedFunctions(F, pointcuts) = matched[n]
  BY DEF MatchedFunctions
<1> HIDE DEF matched
<1> QED  BY <1>7, <1>8 DEF F

LEMMA MatchedRecurses ==
  ASSUME NEW pointcuts \in Seq(Words), NEW matched,
         Recurses(matched, Seq(PairsSet), << >>, Len(pointcuts), MatchSteps(pointcuts))
  PROVE  /\ matched \in [0..Len(pointcuts) -> Seq(PairsSet)] /\ matched[0] = << >>
         /\ \A i \in 1..Len(pointcuts) :
              matched[i] = matched[i - 1] \o Pairs(ExtractAllFunctions, pointcuts[i])
<1>1. /\ Len(pointcuts) \in Nat /\ matched \in [0..Len(pointcuts) -> Seq(PairsSet)]
      /\ matched[0] = << >>
  BY DEF Recurses
<1>2. ASSUME NEW i \in 1..Len(pointcuts)
      PROVE  matched[i] = matched[i - 1] \o Pairs(ExtractAllFunctions, pointcuts[i])
  <2>1. matched[i - 1] \in Seq(PairsSet)
    BY <1>1
  <2>2. \A v \in Seq(PairsSet) :
          MatchSteps(pointcuts)[i][v] = v \o Pairs(ExtractAllFunctions, pointcuts[i])
    BY DEF MatchSteps
  <2>3. matched[i] = MatchSteps(pointcuts)[i][matched[i - 1]]
    BY DEF Recurses
  <2> QED  BY <2>1, <2>2, <2>3
<1> QED  BY <1>1, <1>2

\* In two sequences behind each other a pair stands where it stood in either.
LEMMA PairedInBoth ==
  ASSUME NEW s \in Seq(PairsSet), NEW t \in Seq(PairsSet), NEW n, NEW w
  PROVE  PairedAt(s \o t, n, w)
           = PairedAt(s, n, w) \cup {Len(s) + k : k \in PairedAt(t, n, w)}
<1> DEFINE u == s \o t
           a == Len(s)
           b == Len(t)
           Has(p) == p.function.location = n /\ p.pointcut = w
<1>1. /\ Len(u) = a + b /\ a \in Nat /\ b \in Nat
      /\ \A i \in 1..(a + b) : u[i] = IF i <= a THEN s[i] ELSE t[i - a]
  BY ConcatProperties
<1> HIDE DEF u
<1>2. /\ PairedAt(s, n, w) = {k \in 1..a : Has(s[k])}
      /\ PairedAt(t, n, w) = {k \in 1..b : Has(t[k])}
      /\ PairedAt(u, n, w) = {k \in 1..(a + b) : Has(u[k])}
  BY <1>1 DEF PairedAt
<1> HIDE DEF a, b, Has
<1>3. ASSUME NEW k \in PairedAt(u, n, w)
      PROVE  k \in PairedAt(s, n, w) \cup {a + j : j \in PairedAt(t, n, w)}
  <2>1. k \in 1..(a + b) /\ Has(u[k])
    BY <1>2
  <2>2. CASE k <= a
    BY <1>1, <1>2, <2>1, <2>2
  <2>3. CASE ~(k <= a)
    <3>1. k - a \in 1..b /\ a + (k - a) = k /\ u[k] = t[k - a]
      BY <1>1, <2>1, <2>3
    <3>2. k - a \in PairedAt(t, n, w)
      BY <1>2, <2>1, <3>1
    <3> QED  BY <3>1, <3>2
  <2> QED  BY <2>2, <2>3
<1>4. ASSUME NEW k \in PairedAt(s, n, w)  PROVE k \in PairedAt(u, n, w)
  <2>1. k \in 1..a /\ Has(s[k])
    BY <1>2
  <2>2. k \in 1..(a + b) /\ u[k] = s[k]
    BY <1>1, <2>1
  <2> QED  BY <1>2, <2>1, <2>2
<1>5. ASSUME NEW j \in PairedAt(t, n, w)  PROVE a + j \in PairedAt(u, n, w)
  <2>1. j \in 1..b /\ Has(t[j])
    BY <1>2
  <2>2. a + j \in 1..(a + b) /\ ~(a + j <= a) /\ (a + j) - a = j
    BY <1>1, <2>1
  <2>3. u[a + j] = t[j]
    BY <1>1, <2>2
  <2> QED  BY <1>2, <2>1, <2>2, <2>3
<1> QED  BY <1>3, <1>4, <1>5 DEF u, a

\* A free function is paired with a pointcut that selects it as often as that is given.
LEMMA MatchedAsOften ==
  ASSUME NEW pointcuts \in Seq(Words), NEW n, NEW w
  PROVE  Cardinality(PairedAt(MatchedFunctions(ExtractAllFunctions, pointcuts), n, w))
           = IF n \in Free /\ Selects(w, ExtractFunctionMetadata(n))
             THEN Cardinality({k \in 1..Len(pointcuts) : pointcuts[k] = w}) ELSE 0
<1> DEFINE len == Len(pointcuts)
           F == ExtractAllFunctions
           Chosen == n \in Free /\ Selects(w, ExtractFunctionMetadata(n))
           At(i) == {k \in 1..i : pointcuts[k] = w}
<1>1. len \in Nat
  OBVIOUS
<1>2. PICK matched :
        /\ Recurses(matched, Seq(PairsSet), << >>, Len(pointcuts), MatchSteps(pointcuts))
        /\ MatchedFunctions(F, pointcuts) = matched[len]
  BY MatchedIsDefined
<1>3. /\ matched \in [0..len -> Seq(PairsSet)] /\ matched[0] = << >>
      /\ \A i \in 1..len : matched[i] = matched[i - 1] \o Pairs(F, pointcuts[i])
  BY <1>2, MatchedRecurses
<1>4. \A i \in 1..len : pointcuts[i] \in Words
  OBVIOUS
<1> DEFINE T == {i \in 0..len :
                   /\ IsFiniteSet(PairedAt(matched[i], n, w)) /\ IsFiniteSet(At(i))
                   /\ Cardinality(PairedAt(matched[i], n, w))
                        = IF Chosen THEN Cardinality(At(i)) ELSE 0}
<1>5. 0 \in T
  <2>1. PairedAt(matched[0], n, w) = {} /\ At(0) = {} /\ 0 \in 0..len
    BY <1>1, <1>3 DEF PairedAt
  <2>2. IsFiniteSet({}) /\ Cardinality({}) = 0
    BY FS_EmptySet
  <2> QED  BY <2>1, <2>2
<1>6. ASSUME NEW i \in 0..(len - 1), i \in T  PROVE i + 1 \in T
  <2> DEFINE j == i + 1
             s == matched[i]
             t == Pairs(F, pointcuts[j])
             A == PairedAt(s, n, w)
             B == PairedAt(t, n, w)
  <2>1. j \in 1..len /\ j \in 0..len /\ j - 1 = i /\ i \in 0..len /\ i \in Nat
    BY <1>1
  <2>2. /\ IsFiniteSet(A) /\ IsFiniteSet(At(i))
        /\ Cardinality(A) = IF Chosen THEN Cardinality(At(i)) ELSE 0
    BY <1>6
  <2>3. At(j) = At(i) \cup (IF pointcuts[j] = w THEN {j} ELSE {}) /\ j \notin At(i)
    BY <2>1
  <2> HIDE DEF j, At, T, len
  <2>4. /\ s \in Seq(PairsSet) /\ t \in Seq(PairsSet) /\ pointcuts[j] \in Words
        /\ matched[j] = s \o t
    <3>1. pointcuts[j] \in Words
      BY <1>4, <2>1
    <3>2. t \in Seq(PairsSet)
      BY <3>1, PairsOfOne DEF F
    <3> QED  BY <1>3, <2>1, <3>1, <3>2
  <2>5. PairedAt(matched[j], n, w) = A \cup {Len(s) + k : k \in B}
    BY <2>4, PairedInBoth
  <2>6. \/ pointcuts[j] = w /\ Chosen /\ \E k \in 1..Len(t) : B = {k}
        \/ ~(pointcuts[j] = w /\ Chosen) /\ B = {}
    BY <2>4, PairsOfOne DEF F
  <2> HIDE DEF Chosen, F
  <2>7. CASE pointcuts[j] = w /\ Chosen
    <3>1. PICK k \in 1..Len(t) : B = {k}
      BY <2>6, <2>7
    <3>2. Len(s) \in Nat /\ Len(t) \in Nat
      BY <2>4
    <3>3. Len(s) + k \notin A
      BY <3>1, <3>2 DEF PairedAt
    <3>4. PairedAt(matched[j], n, w) = A \cup {Len(s) + k}
      BY <2>5, <3>1
    <3> HIDE DEF A, B, s, t
    <3>5. /\ IsFiniteSet(A \cup {Len(s) + k})
          /\ Cardinality(A \cup {Len(s) + k}) = Cardinality(A) + 1
      BY <2>2, <3>3, FS_AddElement
    <3>6. /\ IsFiniteSet(At(i) \cup {j})
          /\ Cardinality(At(i) \cup {j}) = Cardinality(At(i)) + 1
      BY <2>2, <2>3, FS_AddElement
    <3>7. At(j) = At(i) \cup {j}
      BY <2>3, <2>7
    <3>8. IsFiniteSet(At(j)) /\ IsFiniteSet(PairedAt(matched[j], n, w))
      BY <3>4, <3>5, <3>6, <3>7
    <3>9. Cardinality(PairedAt(matched[j], n, w)) = IF Chosen THEN Cardinality(At(j)) ELSE 0
      BY <2>2, <2>7, <3>4, <3>5, <3>6, <3>7
    <3>10. j \in T
      BY <2>1, <3>8, <3>9 DEF T
    <3> QED  BY <3>10 DEF j
  <2>8. CASE ~(pointcuts[j] = w /\ Chosen)
    <3>1. PairedAt(matched[j], n, w) = A
      BY <2>5, <2>6, <2>8
    <3>2. IsFiniteSet(At(j))
      <4>1. IsFiniteSet(At(i) \cup {j})
        BY <2>2, FS_AddElement
      <4> QED  BY <2>2, <2>3, <4>1
    <3>3. Chosen => At(j) = At(i)
      BY <2>3, <2>8
    <3> HIDE DEF A
    <3>4. j \in T
      BY <2>1, <2>2, <3>1, <3>2, <3>3 DEF T
    <3> QED  BY <3>4 DEF j
  <2> QED  BY <2>7, <2>8
<1>7. 0..len \subseteq T
  <2> HIDE DEF T, len
  <2> QED  BY <1>1, <1>5, <1>6, InductionTo
<1>8. len \in T
  <2> HIDE DEF T, len
  <2>1. len \in 0..len
    BY <1>1
  <2> QED  BY <1>7, <2>1
<1> QED  BY <1>2, <1>8

-----------------------------------------------------------------------------
(* What the pointcuts are meant for *)

LEMMA NamesAreTexts ==
  ASSUME NEW n \in 1..Len(Crate)
  PROVE  Names(Crate[n]) \in Seq(TextOf) /\ Len(Names(Crate[n])) = Len(Crate[n].path) + 1
         /\ Len(Crate[n].path) \in Nat
<1> DEFINE item == Crate[n]
           a == [i \in 1..Len(item.path) |-> item.path[i].name]
<1>1. item \in CrateItems
  BY CrateType
<1> HIDE DEF item
<1>2. item.path \in Seq([ns : STRING, name : Seq(STRING)]) /\ item.name \in Seq(STRING)
  BY <1>1 DEF CrateItems
<1>3. \A s \in Seq(STRING) : s \in TextOf
  <2>1. STRING \subseteq Parts
    BY DEF Parts
  <2> QED  BY <2>1, SeqMonotonic DEF TextOf
<1>4. a \in Seq(TextOf) /\ Len(a) = Len(item.path) /\ Len(item.path) \in Nat
  <2>1. Len(item.path) \in Nat
    BY <1>2
  <2>2. \A i \in 1..Len(item.path) : item.path[i].name \in TextOf
    <3>1. \A i \in 1..Len(item.path) :
            item.path[i] \in [ns : STRING, name : Seq(STRING)]
      BY <1>2, ElementOfSeq
    <3> QED  BY <1>3, <3>1
  <2>3. a \in [1..Len(item.path) -> TextOf]
    BY <2>2
  <2> QED  BY <2>1, <2>3
<1>5. <<item.name>> \in Seq(TextOf) /\ Len(<<item.name>>) = 1
  BY <1>2, <1>3
<1>6. Names(item) = a \o <<item.name>>
  BY DEF Names
<1> HIDE DEF a
<1>7. a \o <<item.name>> \in Seq(TextOf) /\ Len(a \o <<item.name>>) = Len(item.path) + 1
  BY <1>4, <1>5, ConcatProperties
<1> QED  BY <1>4, <1>6, <1>7 DEF item

LEMMA MeaningKind ==
  ASSUME NEW w \in Words
  PROVE  MeaningOf(w).kind \in {"public", "within", "name"}
<1>1. ASSUME w \notin OwnFlags  PROVE Meaning[w] \in Meanings
  BY <1>1, DriverRunAssumption DEF DriverRunAssumption, Words
<1> QED  BY <1>1 DEF MeaningOf, Meanings

LEMMA SelectedAsMeant ==
  ASSUME NEW n \in 1..Len(Crate), NEW w \in Words
  PROVE  ChosenAsMeant(Crate[n], MeaningOf(w), Selects(w, ExtractFunctionMetadata(n)))
<1> DEFINE item == Crate[n]
           f == ExtractFunctionMetadata(n)
           path == JoinNames(Names(item))
<1>1. PICK p : p = MeaningOf(w)
  OBVIOUS
<1>2. p.kind \in {"public", "within", "name"}
  BY <1>1, MeaningKind
<1>3. f.name = path /\ f.module_path = ExtractModulePath(item)
      /\ f.visibility = ExtractVisibility(item)
  BY MetadataIs DEF DefPathStr
<1> HIDE DEF f
<1>4. Selects(w, f) = CASE p.kind = "public" -> f.visibility = "Public"
                        [] p.kind = "within" -> \/ ContainsText(f.module_path, p.parts)
                                                \/ ContainsText(f.name, p.parts)
                        [] p.kind = "name" -> ContainsText(f.name, p.parts)
  BY <1>1 DEF Selects
<1>5. CASE p.kind = "public"
  <2>1. Selects(w, f) = (f.visibility = "Public")
    BY <1>4, <1>5
  <2>2. f.visibility = "Public" <=> item.vis = "pub"
    BY <1>3 DEF ExtractVisibility
  <2> QED  BY <1>1, <1>5, <2>1, <2>2 DEF ChosenAsMeant, f
<1>6. CASE p.kind = "name"
  <2>1. Selects(w, f) = ContainsText(path, p.parts)
    BY <1>3, <1>4, <1>6
  <2> QED  BY <1>1, <1>6, <2>1 DEF ChosenAsMeant, f
<1>7. CASE p.kind = "within"
  <2>1. Selects(w, f) = (\/ ContainsText(ExtractModulePath(item), p.parts)
                         \/ ContainsText(path, p.parts))
    BY <1>3, <1>4, <1>7
  <2>2. Names(item) \in Seq(TextOf) /\ Len(Names(item)) = Len(item.path) + 1
        /\ Len(item.path) \in Nat
    BY NamesAreTexts
  <2> HIDE DEF item
  <2>3. path \in TextOf /\ \A i \in 1..Len(item.path) :
          ContainsText(path, JoinNames(SubSeq(Names(item), 1, i)))
    <3>1. \A i \in 1..Len(item.path) : i \in 0..Len(Names(item))
      BY <2>2
    <3>2. 0 \in 0..Len(Names(item))
      BY <2>2
    <3>3. path \in TextOf
      BY <2>2, <3>2, FirstNamesBegin
    <3>4. ASSUME NEW i \in 1..Len(item.path)
          PROVE  ContainsText(path, JoinNames(SubSeq(Names(item), 1, i)))
      BY <2>2, <3>1, FirstNamesBegin, BeginningIsContained
    <3> QED  BY <3>3, <3>4
  <2>4. IsUnder(item, p.parts) => ContainsText(path, p.parts)
    BY <2>3 DEF IsUnder
  <2>5. OnlyInNames(p.parts) => ~ContainsText(ExtractModulePath(item), p.parts)
    BY DEF OnlyInNames, item
  <2>6. p.kind # "public" /\ p.kind # "name"
    BY <1>7
  <2>7. /\ IsUnder(item, p.parts) => Selects(w, f)
        /\ OnlyInNames(p.parts) /\ Selects(w, f) => ContainsText(path, p.parts)
    BY <2>1, <2>4, <2>5
  <2>8. ChosenAsMeant(item, p, Selects(w, f))
    BY <1>7, <2>6, <2>7 DEF ChosenAsMeant
  <2> QED  BY <1>1, <2>8 DEF item, f
<1> QED  BY <1>2, <1>5, <1>6, <1>7

PlacesOf(s, S, w) == {j \in S : s[j] = w}

\* As often as a word is among the values of a flag, it is among the words read for it.
LEMMA GivenAsOften ==
  ASSUME NEW argv \in Seq(Words), NEW S \in SUBSET (1..Len(argv)), NEW w
  PROVE  /\ InOrder(argv, S) \in Seq(Words)
         /\ IsFiniteSet(PlacesOf(argv, S, w))
         /\ Cardinality(PlacesOf(InOrder(argv, S), 1..Len(InOrder(argv, S)), w))
              = Cardinality(PlacesOf(argv, S, w))
<1> DEFINE t == Only(Numbering(argv), S)
           s == InOrder(argv, S)
           Q == {j \in S : argv[j] = w}
           n == Len(argv)
<1>1. n \in Nat
  OBVIOUS
<1>2. t \in Seq(1..n) /\ OrderedBy(Less, t) /\ Elements(t) = S
  BY <1>1, PlacesKept
<1>3. s = [k \in 1..Len(t) |-> argv[t[k]]]
  BY DEF InOrder
<1>4. Q \in SUBSET Elements(t)
  BY <1>2
<1> HIDE DEF t, s, n
<1>5. Len(t) \in Nat /\ \A k \in 1..Len(t) : t[k] \in Elements(t) /\ t[k] \in 1..n
  <2>1. Len(t) \in Nat /\ \A k \in 1..Len(t) : t[k] \in Elements(t)
    BY <1>2 DEF Elements
  <2> QED  BY <1>2, <2>1 DEF n
<1>6. s \in [1..Len(t) -> Words]
  <2>1. \A k \in 1..Len(t) : argv[t[k]] \in Words
    BY <1>5, ElementOfSeq DEF n
  <2> QED  BY <1>3, <2>1
<1>7. s \in Seq(Words) /\ Len(s) = Len(t)
  BY <1>5, <1>6
<1>8. {k \in 1..Len(s) : s[k] = w} = {k \in 1..Len(t) : t[k] \in Q}
  BY <1>2, <1>3, <1>5, <1>7
<1> HIDE DEF Q
<1>9. /\ IsFiniteSet(Q)
      /\ Cardinality({k \in 1..Len(t) : t[k] \in Q}) = Cardinality(Q)
  BY <1>1, <1>2, <1>4, CountedByPlace
<1> QED  BY <1>7, <1>8, <1>9 DEF s, Q, PlacesOf

\* What was meant does not depend on how it is said that a function was chosen.
LEMMA MeantAsWell ==
  ASSUME NEW item, NEW p, p.kind \in {"public", "within", "name"},
         NEW a, NEW b, a <=> b, ChosenAsMeant(item, p, a)
  PROVE  ChosenAsMeant(item, p, b)
BY DEF ChosenAsMeant

LEMMA LinePairsAsMeant == LineInv => PairsAreMeant
<1> SUFFICES ASSUME LineInv, driver.analysed  PROVE PairsAreMeant
  BY DEF PairsAreMeant
<1> DEFINE argv == driver.argv
           V == ValuesOf(argv, "--aspect-pointcut")
           pcs == InOrder(argv, V)
           len == Len(argv)
<1>1. /\ argv \in Seq(Words) /\ len \in Nat /\ driver.at = len + 1
      /\ driver.results = ResultsFor(driver.config.pointcuts)
      /\ driver.config.pointcuts = InOrder(argv, Before(V, driver.at))
  BY DEF LineInv, LineOK, WordsOK
<1>2. V \in SUBSET (1..len)
  BY DEF ValuesOf
<1>3. Before(V, len + 1) = V
  <2> HIDE DEF V, len
  <2> QED  BY <1>1, <1>2, AllAreBefore
<1>4. driver.config.pointcuts = pcs
  BY <1>1, <1>3
<1> HIDE DEF pcs, V, len
<1>5. pcs \in Seq(Words)
  BY <1>1, <1>2, GivenAsOften DEF pcs, len
<1>6. /\ driver.results.matched = MatchedFunctions(ExtractAllFunctions, pcs)
      /\ driver.results.stats = FromFunctions(ExtractAllFunctions)
  BY <1>1, <1>4 DEF ResultsFor
<1>7. /\ driver.results.stats.total = Cardinality(Free)
      /\ driver.results.stats.public = Cardinality({n \in Free : Crate[n].vis = "pub"})
  BY <1>6, StatsAre
<1>8. ASSUME NEW n \in 1..Len(Crate), NEW i \in V
      PROVE  LET times == Cardinality({j \in V : argv[j] = argv[i]})
                 paired == TimesPaired(n, argv[i])
             IN  /\ paired \in {0, times}
                 /\ n \notin Free => paired = 0
                 /\ n \in Free =>
                      ChosenAsMeant(Crate[n], MeaningOf(argv[i]), paired = times)
  <2> DEFINE w == argv[i]
             times == Cardinality({j \in V : argv[j] = w})
             paired == TimesPaired(n, w)
             selected == Selects(w, ExtractFunctionMetadata(n))
  <2>1. w \in Words
    BY <1>1, <1>2, <1>8, ElementOfSeq DEF len
  <2>2. /\ IsFiniteSet({j \in V : argv[j] = w})
        /\ Cardinality({k \in 1..Len(pcs) : pcs[k] = w}) = times
    <3>1. V \in SUBSET (1..Len(argv))
      BY <1>2 DEF len
    <3>2. argv \in Seq(Words)
      BY <1>1
    <3> HIDE DEF w, argv
    <3>3. /\ IsFiniteSet(PlacesOf(argv, V, w))
          /\ Cardinality(PlacesOf(InOrder(argv, V), 1..Len(InOrder(argv, V)), w))
               = Cardinality(PlacesOf(argv, V, w))
      BY <3>1, <3>2, GivenAsOften, Zenon
    <3> QED  BY <3>3 DEF pcs, PlacesOf
  <2>3. paired = IF n \in Free /\ selected THEN times ELSE 0
    <3>1. paired = Cardinality(PairedAt(MatchedFunctions(ExtractAllFunctions, pcs), n, w))
      BY <1>6 DEF TimesPaired, PairedAt
    <3> HIDE DEF w, paired
    <3>2. Cardinality(PairedAt(MatchedFunctions(ExtractAllFunctions, pcs), n, w))
            = IF n \in Free /\ selected
              THEN Cardinality({k \in 1..Len(pcs) : pcs[k] = w}) ELSE 0
      BY <1>5, MatchedAsOften
    <3> QED  BY <2>2, <3>1, <3>2
  <2>4. times # 0
    <3>1. {j \in V : argv[j] = w} # {}
      BY <1>8
    <3> QED  BY <2>2, <3>1, FS_EmptySet
  <2>5. ChosenAsMeant(Crate[n], MeaningOf(w), selected)
    <3> HIDE DEF w
    <3> QED  BY <2>1, SelectedAsMeant
  <2>6. MeaningOf(w).kind \in {"public", "within", "name"}
    BY <2>1, MeaningKind
  <2> HIDE DEF w, times, paired, selected
  <2>7. ASSUME n \in Free  PROVE ChosenAsMeant(Crate[n], MeaningOf(w), paired = times)
    <3>1. selected <=> paired = times
      BY <2>3, <2>4, <2>7
    <3> QED  BY <2>5, <2>6, <3>1, MeantAsWell
  <2> QED  BY <2>3, <2>7 DEF w, times, paired
<1> QED  BY <1>7, <1>8 DEF PairsAreMeant, Free, V

\* For every crate, every meaning of the words and any number of them: each word is
\* used once; a pointcut for public functions is paired with just those, one for a
\* text with just the functions that have it in their path, and `within` with all
\* functions of the module it names and, unless its text is one of those put down as
\* modules, only with functions that have the text in their path.
THEOREM CommandLineObeyed == RunSpec => []CommandLineIsObeyed
<1>1. LineInv => CommandLineIsObeyed
  BY LineUsesWords, LinePairsAsMeant DEF CommandLineIsObeyed
<1> QED  BY <1>1, LineInvHolds, PTL

===============================================================================
