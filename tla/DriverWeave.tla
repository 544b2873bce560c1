------------------------------ MODULE DriverWeave ------------------------------
(***************************************************************************)
(* AspectCodeGenerator (aspect-driver/src/generate.rs): the code for each  *)
(* function from the aspects that the matcher has found for it, in the     *)
(* matcher's order. The code is the sequence of the statements that the    *)
(* wrapper executes; an aspect is named by its place in the registrations. *)
(***************************************************************************)
EXTENDS DriverMatcher

-----------------------------------------------------------------------------
(* Statements *)

BeforeCall(i) == [does |-> "before", aspect |-> i]
AfterCall(i) == [does |-> "after", aspect |-> i]

\* let pjp = A::new().around(pjp)?: what has been built so far goes inside of A.
AroundCall(i) == [does |-> "around", aspect |-> i]

\* The renamed original is called; or it is put into a join point, and the last
\* join point proceeds.
OriginalCall == [does |-> "original", aspect |-> 0]
NewJoinPoint == [does |-> "join point", aspect |-> 0]
Proceed == [does |-> "proceed", aspect |-> 0]

OfType(found, type) == Only(found, {i \in ToSet(found) : aspects[i].advice = type})
Each(Call(_), found) == [k \in 1..Len(found) |-> Call(found[k])]

-----------------------------------------------------------------------------

BodyWithBeforeAfter(before, after) ==
  Each(BeforeCall, before) \o <<OriginalCall>> \o Each(AfterCall, after)

\* Mutant: the first around is the innermost.
BodyWithAroundForwards(before, after, around) ==
  Each(BeforeCall, before) \o <<NewJoinPoint>> \o Each(AroundCall, around)
    \o <<Proceed>> \o Each(AfterCall, after)

\* The loop over around.iter().rev().
BodyWithAround(before, after, around) ==
  Each(BeforeCall, before) \o <<NewJoinPoint>> \o Each(AroundCall, Reverse(around))
    \o <<Proceed>> \o Each(AfterCall, after)

Body(found) ==
  LET before == OfType(found, "Before")
      after == OfType(found, "After")
      around == OfType(found, "Around")
  IN  IF around # << >> THEN BodyWithAround(before, after, around)
      ELSE BodyWithBeforeAfter(before, after)

\* simple_function_name is the last part of the full name.
SimpleFunctionName(f) == f.name
OriginalFunctionName(f) == <<"__aspect_original_">> \o SimpleFunctionName(f)

\* visibility_str
VisibilityStr(f) == f.vis

\* The code: the name the original is given, and the wrapper. With an around
\* the wrapper returns a Result of what the function returns.
Generate(f, found) ==
  IF found = << >>
  THEN [original |-> SimpleFunctionName(f), wrapped |-> FALSE]
  ELSE [original |-> OriginalFunctionName(f), wrapped |-> TRUE,
        wrapper |-> SimpleFunctionName(f), vis |-> VisibilityStr(f),
        fallible |-> OfType(found, "Around") # << >>, body |-> Body(found)]

CodeOf(f) == Generate(f, answers[f])

-----------------------------------------------------------------------------
(* What the code does *)

Statements(f) == IF answers[f] = << >> THEN << >> ELSE CodeOf(f).body

Places(s, does) == {k \in 1..Len(s) : s[k].does = does}

\* Where the function runs.
CorePlace(s) == Min(Places(s, "original") \cup Places(s, "proceed"))

\* Every aspect that the matcher lists is called by the generated code exactly
\* once, at its place: before the function, after it, or around it. The function
\* runs once. Among befores and among afters the one of higher priority comes
\* first, and among arounds it is the outer one, built later (generate.rs:46-241);
\* where no name has two priorities.
EveryMatchIsWovenOnce ==
  \A f \in CrateFunctions : answers[f] # << >> =>
    LET s == Statements(f)
        core == CorePlace(s)
        PlaceOf(i) == {k \in 1..Len(s) : s[k].aspect = i}
    IN  /\ Cardinality(Places(s, "original") \cup Places(s, "proceed")) = 1
        /\ ToSet(answers[f]) = {s[k].aspect : k \in 1..Len(s)} \ {0}
        /\ \A i \in ToSet(answers[f]) : Cardinality(PlaceOf(i)) = 1
        /\ \A k \in 1..Len(s) :
             /\ s[k].does \in {"before", "around"} => k < core
             /\ s[k].does = "after" => k > core
             /\ s[k].aspect # 0 =>
                  [Before |-> "before", After |-> "after", Around |-> "around"]
                    [aspects[s[k].aspect].advice] = s[k].does
        /\ NamesAgree => \A k, l \in 1..Len(s) :
             /\ k < l /\ 0 \notin {s[k].aspect, s[l].aspect}
             /\ s[k].does = s[l].does
             => IF s[k].does = "around" THEN ~DueBefore(s[k].aspect, s[l].aspect)
                ELSE ~DueBefore(s[l].aspect, s[k].aspect)

\* The statements that call an aspect.
AspectCalls == [does : {"before", "after", "around"}, aspect : 1..Len(aspects)]

\* Code that is generated again after more registrations (match.rs:58-79,
\* :143-149, generate.rs:46-88) keeps every call of an aspect it had, in the
\* same order, the name and the visibility of the wrapper, and once it returns
\* a Result it always does.
LaterCodeExtends ==
  [][\A f \in CrateFunctions : answers[f] # << >> =>
       LET calls == Only(Statements(f), AspectCalls)
       IN  /\ calls = Only(Statements(f)', ToSet(calls))
           /\ CodeOf(f)'.wrapper = CodeOf(f).wrapper
           /\ CodeOf(f)'.vis = CodeOf(f).vis
           /\ CodeOf(f).fallible => CodeOf(f)'.fallible]_matcherVars
===============================================================================
