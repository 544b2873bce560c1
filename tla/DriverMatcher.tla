---------------------------- MODULE DriverMatcher ----------------------------
(***************************************************************************)
(* PointcutMatcher of the compiler driver (aspect-driver/src/match.rs):    *)
(* aspects are registered under a name with a pointcut and a priority, and *)
(* match_function lists those that apply to a function, in the order in    *)
(* which they are to run.                                                  *)
(***************************************************************************)
EXTENDS Integers, Sequences, SequencesExt, FiniteSetsExt, Subsequences

CONSTANTS
  Applies(_, _),    \* matches_pointcut: a pointcut matches a function (Pointcut)
  CrateFunctions,   \* functions that are matched: [path, name, vis]
  Offered,          \* aspects that are registered: [name, pointcut, priority, advice]
  MaxRegistrations  \* bound on the number of registrations

AdviceType == {"Before", "After", "Around"}

ASSUME MatcherAssumption ==
  /\ \A a \in Offered : a.priority \in Int /\ a.advice \in AdviceType
  /\ MaxRegistrations \in Nat

VARIABLES
  aspects,  \* the registered aspects, in the order of the vector
  answers   \* for each function the latest answer of match_function: the
            \* positions in `aspects` of those that match

matcherVars == <<aspects, answers>>

MatcherInit ==
  /\ aspects = << >>
  /\ answers = [f \in CrateFunctions |-> << >>]

Register ==
  /\ Len(aspects) < MaxRegistrations
  /\ \E a \in Offered : aspects' = Append(aspects, a)
  /\ UNCHANGED answers

\* Mutant: the latest registration of the name is asked.
GetLatestPriority(name) ==
  aspects[Max({i \in 1..Len(aspects) : aspects[i].name = name})].priority

\* get_priority looks an aspect up by its name: it finds the first of them.
GetPriority(name) ==
  aspects[Min({i \in 1..Len(aspects) : aspects[i].name = name})].priority

PriorityAt(i) == GetPriority(aspects[i].name)

\* sort_by with the higher priority first; it is stable.
InsertByPriority(sorted, i) ==
  Only(sorted, {j \in ToSet(sorted) : PriorityAt(j) >= PriorityAt(i)}) \o <<i>>
    \o Only(sorted, {j \in ToSet(sorted) : PriorityAt(j) < PriorityAt(i)})

SortByPriority(found) ==
  LET sorted[n \in 0..Len(found)] ==
        IF n = 0 THEN << >> ELSE InsertByPriority(sorted[n - 1], found[n])
  IN  sorted[Len(found)]

Matching(f) ==
  Only([i \in 1..Len(aspects) |-> i],
       {i \in 1..Len(aspects) : Applies(aspects[i].pointcut, f)})

\* Mutant: as match_all does, only answers that hold something are kept.
MatchFunctionIfAny(f) ==
  /\ answers' = [g \in {h \in CrateFunctions : h # f \/ Matching(h) # << >>} |->
                   IF g = f THEN SortByPriority(Matching(f)) ELSE answers[g]]
  /\ UNCHANGED aspects

MatchFunction(f) ==
  /\ answers' = [answers EXCEPT ![f] = SortByPriority(Matching(f))]
  /\ UNCHANGED aspects

\* match_all: a new matcher with the same aspects is asked for each function; one
\* that nothing matches is left out of its answer.
MatchAll ==
  /\ answers' = [f \in CrateFunctions |-> SortByPriority(Matching(f))]
  /\ UNCHANGED aspects

MatcherNext == Register \/ (\E f \in CrateFunctions : MatchFunction(f)) \/ MatchAll

MatcherSpec == MatcherInit /\ [][MatcherNext]_matcherVars

-----------------------------------------------------------------------------

MatcherTypeOK ==
  /\ aspects \in Seq(Offered)
  /\ answers \in [CrateFunctions -> Seq(1..Len(aspects))]

\* Place of the aspect registered i-th in the answer for f.
PlaceIn(f, i) == CHOOSE k \in 1..Len(answers[f]) : answers[f][k] = i

\* Aspect i comes before j wherever both apply: for its own priority, or being
\* registered earlier with the same.
DueBefore(i, j) ==
  \/ aspects[i].priority > aspects[j].priority
  \/ aspects[i].priority = aspects[j].priority /\ i < j

\* In the order of their own priorities, at every function.
Sorted(f) ==
  \A i, j \in ToSet(answers[f]) : DueBefore(i, j) => PlaceIn(f, i) < PlaceIn(f, j)

\* Registrations of one name may have been given different priorities.
NamesAgree ==
  \A i, j \in 1..Len(aspects) :
    aspects[i].name = aspects[j].name => aspects[i].priority = aspects[j].priority

\* "Returns all aspects that match the function, sorted by priority."
\* (match.rs:57)
SortedByPriority == \A f \in CrateFunctions : Sorted(f)
=============================================================================
