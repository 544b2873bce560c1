------------------------------- MODULE Registry -------------------------------
(***************************************************************************)
(* AspectRegistry (aspect-runtime/src/registry.rs): aspects are registered *)
(* and cleared by some threads while others call functions through         *)
(* apply_aspects. Each use of the RwLock is one action. apply_aspects      *)
(* copies the matching aspects under the read lock and runs them with the  *)
(* lock free: every step of a running call interleaves with registrations, *)
(* those made by the aspects it is running included.                       *)
(*                                                                         *)
(* The nested ProceedingJoinPoints of a call are the sequence of aspects   *)
(* that proceeding would run, outermost first: the empty one is the body.  *)
(***************************************************************************)
EXTENDS Integers, Sequences, FiniteSets, SequencesExt, Subsequences

CONSTANTS
  Threads,          \* threads that call functions through apply_aspects
  Targets,          \* functions that are called
  Orders,           \* values of `order`
  Offered,          \* aspects that are registered: [order, fns, advice]
  MaxRegistrations  \* bound on the number of registrations

ASSUME RegistryAssumption ==
  /\ Orders \subseteq Int /\ MaxRegistrations \in Nat
  /\ Offered \subseteq [order : Orders, fns : SUBSET Targets, advice : BOOLEAN]

VARIABLES
  aspects,     \* the registered aspects, in the order of the vector
  registered,  \* registrations made so far; numbers the aspects
  applied,     \* what each thread's call is doing
  due          \* audit: the aspects that were registered when a call began and
               \* have not been cleared before it looked for its aspects

registryVars == <<aspects, registered, applied, due>>

\* An aspect with the functions its pointcut matches. `advice` means it keeps
\* the default Aspect::around, which always proceeds; the others may not.
RegisteredAspect == [id : 1..MaxRegistrations, order : Orders,
                     fns : SUBSET Targets, advice : BOOLEAN]

NotCalling == [stage |-> "idle"]
FindingAspects(f) == [stage |-> "find", fn |-> f]

\* A call under way: the aspects whose `around` is running, outermost first;
\* the join point the innermost of them holds (or apply_aspects itself, when
\* none is); whether it is still to be consumed; and how often the body ran.
RunningAspects(f, entered, pjp, unspent, ran) ==
  [stage |-> "run", fn |-> f, entered |-> entered, pjp |-> pjp,
   unspent |-> unspent, ran |-> ran]

RegistryInit ==
  /\ aspects = << >>
  /\ registered = 0
  /\ applied = [c \in Threads |-> NotCalling]
  /\ due = [c \in Threads |-> {}]

-----------------------------------------------------------------------------
(* register, clear *)

Precedes(a, b) == a.order < b.order \/ (a.order = b.order /\ a.id < b.id)

\* Mutant: aspects of the same order are copied to both sides of the new one.
PushAndCopy(s, a) ==
  Only(s, {b \in ToSet(s) : b.order <= a.order}) \o <<a>>
    \o Only(s, {b \in ToSet(s) : b.order >= a.order})

\* push, then sort_by_key: the sort is stable and the vector was sorted, so
\* the new aspect ends up behind those with the same order or a lower one.
PushAndSort(s, a) ==
  Only(s, {b \in ToSet(s) : b.order <= a.order}) \o <<a>>
    \o Only(s, {b \in ToSet(s) : b.order > a.order})

RegisterAspect(order, fns, advice) ==
  /\ registered < MaxRegistrations
  /\ registered' = registered + 1
  /\ aspects' = PushAndSort(aspects,
       [id |-> registered + 1, order |-> order, fns |-> fns, advice |-> advice])
  /\ UNCHANGED <<applied, due>>

Register == \E a \in Offered : RegisterAspect(a.order, a.fns, a.advice)

ClearRegistry ==
  /\ aspects' = << >>
  /\ due' = [c \in Threads |-> IF applied[c].stage = "find" THEN {} ELSE due[c]]
  /\ UNCHANGED <<registered, applied>>

-----------------------------------------------------------------------------
(* apply_aspects *)

Matches(f) == {a \in ToSet(aspects) : f \in a.fns}

\* Mutant: the search stops at the first match.
FirstMatch(f) ==
  LET found == Only(aspects, Matches(f))
  IN  SubSeq(found, 1, IF found = << >> THEN 0 ELSE 1)

MatchingAspects(f) == Only(aspects, Matches(f))

Wrap(inner, a) == <<a>> \o inner

\* Mutant: the loop does not run backwards.
ChainForwards(matching) ==
  LET pjp[k \in 0..Len(matching)] ==
        IF k = 0 THEN << >> ELSE Wrap(pjp[k - 1], matching[k])
  IN  pjp[Len(matching)]

\* The loop over matching.iter().rev(): pjp after k rounds, each of which wraps
\* an aspect around the join point so far.
Chain(matching) ==
  LET pjp[k \in 0..Len(matching)] ==
        IF k = 0 THEN << >> ELSE Wrap(pjp[k - 1], matching[Len(matching) + 1 - k])
  IN  pjp[Len(matching)]

ApplyAspects(c, f) ==
  /\ applied[c] = NotCalling
  /\ applied' = [applied EXCEPT ![c] = FindingAspects(f)]
  /\ due' = [due EXCEPT ![c] = Matches(f)]
  /\ UNCHANGED <<aspects, registered>>

FindMatching(c) ==
  /\ applied[c].stage = "find"
  /\ applied' = [applied EXCEPT ![c] =
                   RunningAspects(@.fn, << >>, Chain(MatchingAspects(@.fn)), TRUE, 0)]
  /\ UNCHANGED <<aspects, registered, due>>

\* proceed consumes the join point: it runs the body, or enters the next
\* aspect, which is handed the rest.
ProceedOnce(call) ==
  IF call.pjp = << >> THEN [call EXCEPT !.ran = @ + 1, !.unspent = FALSE]
  ELSE [call EXCEPT !.entered = Append(@, Head(call.pjp)), !.pjp = Tail(@)]

Proceed(c) ==
  /\ applied[c].stage = "run"
  /\ applied[c].unspent
  /\ applied' = [applied EXCEPT ![c] = ProceedOnce(@)]
  /\ UNCHANGED <<aspects, registered, due>>

\* The innermost aspect's `around` returns. The join point of the aspect
\* around it is spent, for it was used to enter this one.
AroundReturns(c) ==
  /\ applied[c].stage = "run"
  /\ applied[c].entered # << >>
  /\ applied[c].unspent => ~Last(applied[c].entered).advice
  /\ applied' = [applied EXCEPT ![c].entered = Front(@), ![c].unspent = FALSE]
  /\ UNCHANGED <<aspects, registered, due>>

FinishCall(c) ==
  /\ applied[c].stage = "run"
  /\ applied[c].entered = << >>
  /\ ~applied[c].unspent
  /\ applied' = [applied EXCEPT ![c] = NotCalling]
  /\ due' = [due EXCEPT ![c] = {}]
  /\ UNCHANGED <<aspects, registered>>

\* A panic in the body or in an aspect unwinds the whole call.
CallUnwinds(c) ==
  /\ applied[c].stage = "run"
  /\ applied' = [applied EXCEPT ![c] = NotCalling]
  /\ due' = [due EXCEPT ![c] = {}]
  /\ UNCHANGED <<aspects, registered>>

CallGoesOn(c) == FindMatching(c) \/ Proceed(c) \/ AroundReturns(c) \/ FinishCall(c)

RegistryNext ==
  \/ Register
  \/ ClearRegistry
  \/ \E c \in Threads : CallGoesOn(c) \/ CallUnwinds(c) \/ \E f \in Targets : ApplyAspects(c, f)

-----------------------------------------------------------------------------
(* Safety *)

Calls ==
  {NotCalling} \cup [stage : {"find"}, fn : Targets]
    \cup [stage : {"run"}, fn : Targets, entered : Seq(RegisteredAspect),
          pjp : Seq(RegisteredAspect), unspent : BOOLEAN, ran : Nat]

\* Every variable stays in its type, and no aspect is registered twice.
RegistryTypeOK ==
  /\ aspects \in Seq(RegisteredAspect)
  /\ Len(aspects) <= registered
  /\ registered \in 0..MaxRegistrations
  /\ applied \in [Threads -> Calls]
  /\ due \in [Threads -> SUBSET RegisteredAspect]

Ordered(s) == \A i, j \in DOMAIN s : i < j => Precedes(s[i], s[j])

\* A call's aspects are nested by order, and aspects of the same order by
\* registration, whatever was registered or cleared since the call looked for
\* them: "lower values run first/outermost" (registry.rs:20, :89).
LowerOrderWrapsHigher ==
  \A c \in Threads :
    applied[c].stage = "run" => Ordered(applied[c].entered \o applied[c].pjp)

BodyRuns(c) ==
  /\ applied[c].stage = "run"
  /\ applied'[c].stage = "run"
  /\ applied'[c].ran > applied[c].ran

\* When a function's body runs, it is for the first time in the call, and every
\* matching aspect that was registered when the call began, and not cleared
\* before the call took its copy, is around it: a registration or a clear that
\* races with the call removes none of them (find_matching :78-85,
\* apply_aspects :95-115).
NoDueAspectIsMissed ==
  [][\A c \in Threads : BodyRuns(c) =>
       applied[c].ran = 0 /\ due[c] \subseteq ToSet(applied[c].entered)]_registryVars

===============================================================================
