-------------------------------- MODULE Weave --------------------------------
(***************************************************************************)
(* #[aspect(..)] (aspect-macros/src/aspect_attr.rs, codegen.rs): a         *)
(* function with a stack of attributes, the wrapper the macro generates    *)
(* for each, and the calls that go through them.                           *)
(*                                                                         *)
(* The attributes expand from the outside in: the outermost renames the    *)
(* function, the others stay on the renamed one. `at` is where a call is:  *)
(* in the wrapper of layer at (1 is the outermost), or in the body, one    *)
(* past the last layer. It goes down while `result` is "none" and comes    *)
(* back with the result that is handed out.                                *)
(***************************************************************************)
EXTENDS Integers, Sequences

CONSTANTS
  Functions,   \* signatures of the woven function
  Attributes,  \* what an attribute may name
  MaxLayers,   \* bound on the attributes of one function
  Limit        \* calls that a limiting aspect lets through (in its window)

Returns == {"value", "Result", "alias", "impl"}  \* alias: of a Result type
Wordings == {"local type", "foreign type", "constructor", "value"}

ASSUME WeaveAssumption ==
  /\ Functions \subseteq [async : BOOLEAN, returns : Returns]
  /\ Attributes \subseteq [trait : {"Aspect", "AsyncAspect"},
                           around : {"default", "custom", "limit"},
                           expr : Wordings]
  /\ MaxLayers \in Nat \ {0}
  /\ Limit \in Nat \ {0}

\* "default" keeps the trait's around, "limit" is an around that proceeds until
\* its limit is reached, "custom" any other: it may proceed or not, and answer
\* what it likes.

VARIABLES
  fn, layers,  \* the function and its attributes, fixed when it is compiled
  at, result,  \* the call under way, or the one that has ended
  admitted,    \* what the limiting aspect of a layer has let through
  log,         \* audit: the advice that each layer ran in this call
  given,       \* audit: what the body returned in this call
  bodies       \* audit: times the body ran in all calls, up to Limit + 1

vars == <<fn, layers, at, result, admitted, log, given, bodies>>

-----------------------------------------------------------------------------
(* transform: which wrapper is generated *)

\* The name taken from the expression is the aspect's type, and the scan of
\* this crate's files finds its impl at the top level of one. `T::new(..)`
\* yields "new", a static its own name, and a type of another crate (or one
\* that is implemented inside a module block) has no impl there.
Known(a) == a.expr = "local type"

Custom(a) == a.around # "default"
IsAsyncAspect(a) == Known(a) /\ a.trait = "AsyncAspect"
HasCustomSyncAround(a) == Known(a) /\ a.trait = "Aspect" /\ Custom(a)
HasCustomAsyncAround(a) == IsAsyncAspect(a) /\ Custom(a)

\* Mutant: the second rule is missing.
AcceptsSyncAround(f, a) ==
  /\ IsAsyncAspect(a) => f.async
  /\ f.async /\ HasCustomAsyncAround(a) => f.returns # "impl"

\* validate_aspect_usage
Valid(f, a) ==
  /\ IsAsyncAspect(a) => f.async
  /\ f.async => ~HasCustomSyncAround(a)
  /\ f.async /\ HasCustomAsyncAround(a) => f.returns # "impl"

\* "around" hands the call to the aspect as a join point; "advice" calls
\* before, after and after_error from the wrapper itself.
Wrapper(f, a) ==
  IF ~f.async \/ HasCustomAsyncAround(a) THEN "around" ELSE "advice"

\* The compiler: the wrapper names the join points of one of the two traits,
\* and the result of a sync wrapper is downcast to a type it must infer.
Compiles(f, a) ==
  /\ a.trait = "AsyncAspect" <=> f.async /\ IsAsyncAspect(a)
  /\ f.async \/ f.returns # "impl"

IsResult == fn.returns = "Result"   \* is_result_type, by the type's name
Values == IF fn.returns \in {"Result", "alias"} THEN {"ok", "err"} ELSE {"ok"}

Depth == Len(layers)
Layer == layers[at]
AroundRuns(i) == Custom(layers[i]) /\ Wrapper(fn, layers[i]) = "around"

Advice(before, around, after, after_error) ==
  [before |-> before, around |-> around, after |-> after, after_error |-> after_error]
NoAdvice == Advice(0, 0, 0, 0)

Init ==
  /\ fn \in Functions
  /\ layers \in UNION {[1..n -> Attributes] : n \in 1..MaxLayers}
  /\ \A i \in 1..Depth : Valid(fn, layers[i]) /\ Compiles(fn, layers[i])
  /\ at = 0
  /\ result = "ok"
  /\ admitted = [i \in 1..Depth |-> 0]
  /\ log = [i \in 1..Depth |-> NoAdvice]
  /\ given = "ok"
  /\ bodies = 0

-----------------------------------------------------------------------------
(* A call on its way in *)

RanBefore == log' = [log EXCEPT ![at].before = @ + 1]
RanAround == log' = [log EXCEPT ![at].around = @ + 1]
RanAfter == log' = [log EXCEPT ![at].after = @ + 1]
RanAfterError == log' = [log EXCEPT ![at].after_error = @ + 1]

\* Panics unwind through all wrappers, and a future is dropped where it
\* awaits: in either case nothing of the wrappers outside runs any more.
Interrupted(outcomes) == at' = 0 /\ result' \in outcomes
AdviceEnds == {"panic"} \cup (IF Layer.trait = "AsyncAspect" THEN {"dropped"} ELSE {})
BodyEnds == {"panic"} \cup (IF fn.async THEN {"dropped"} ELSE {})

GoIn == at' = at + 1 /\ UNCHANGED result

Call ==
  /\ at = 0
  /\ at' = 1
  /\ result' = "none"
  /\ log' = [i \in 1..Depth |-> NoAdvice]
  /\ given' = "none"
  /\ UNCHANGED <<fn, layers, admitted, bodies>>

Entering == at \in 1..Depth /\ result = "none"
Leaving == at \in 1..Depth /\ result \in {"ok", "err"}

\* Mutant: the aspect of a static is built anew as well.
AllAnew == 0

\* let __aspect = #aspect_expr: a constructor in the attribute is called on
\* every call, a static or a unit struct is the same every time.
Instance == IF Layer.expr = "constructor" THEN 0 ELSE admitted[at]

\* before, then the rest of the stack: from the wrapper, or from the default
\* Aspect::around.
EnterAdvice ==
  /\ Entering
  /\ ~AroundRuns(at)
  /\ RanBefore
  /\ GoIn \/ Interrupted(AdviceEnds)
  /\ UNCHANGED <<fn, layers, admitted, given, bodies>>

\* Mutant: the limit is not looked at.
EnterUnchecked ==
  /\ Entering
  /\ AroundRuns(at)
  /\ RanAround
  /\ GoIn \/ Interrupted(AdviceEnds)
  /\ admitted' = [admitted EXCEPT ![at] =
                    IF Layer.around = "limit" THEN Instance + 1 ELSE @]
  /\ UNCHANGED <<fn, layers, given, bodies>>

\* A custom around proceeds. A limiting one only if it is below its limit.
EnterAround ==
  /\ Entering
  /\ AroundRuns(at)
  /\ Layer.around = "limit" => Instance < Limit
  /\ RanAround
  /\ GoIn \/ Interrupted(AdviceEnds)
  /\ admitted' = [admitted EXCEPT ![at] =
                    IF Layer.around = "limit" THEN Instance + 1 ELSE @]
  /\ UNCHANGED <<fn, layers, given, bodies>>

-----------------------------------------------------------------------------
(* The results on their way out *)

\* Mutant: an Err of around that cannot be returned is made a value.
HandOutValue(answers) ==
  /\ at' = at - 1
  /\ result' \in IF IsResult THEN answers ELSE Values

\* What around answered becomes the function's result. Its Err can be returned
\* only if the wrapper knows that the function returns a Result; its Ok holds
\* the value of a Result, or the whole of what the function returns.
HandOut(answers) ==
  \/ /\ IsResult
     /\ at' = at - 1
     /\ result' \in answers
  \/ /\ ~IsResult
     /\ \/ "ok" \in answers /\ at' = at - 1 /\ result' \in Values
        \/ "err" \in answers /\ Interrupted({"panic"})

\* around returns without proceeding: a limiter an error, another anything.
ShortCircuit ==
  /\ Entering
  /\ AroundRuns(at)
  /\ Layer.around = "limit" => Instance >= Limit
  /\ RanAround
  /\ HandOut(IF Layer.around = "limit" THEN {"err"} ELSE {"ok", "err"})
  /\ UNCHANGED <<fn, layers, admitted, given, bodies>>

Body ==
  /\ at = Depth + 1
  /\ \/ \E r \in Values : at' = Depth /\ result' = r /\ given' = r
     \/ Interrupted(BodyEnds) /\ UNCHANGED given
  /\ bodies' = IF bodies <= Limit THEN bodies + 1 ELSE bodies
  /\ UNCHANGED <<fn, layers, admitted, log>>

\* Mutant: an error is reported like a value.
NeverAnError == FALSE

\* A value that is not known to be a Result is boxed as it is, and is an Ok.
IsAnError == result = "err" /\ IsResult

RanAdviceDue == IF IsAnError THEN RanAfterError ELSE RanAfter

\* Mutant: an error is returned with `?`, before its advice.
LeaveEarly ==
  /\ Leaving
  /\ ~AroundRuns(at)
  /\ IF result = "ok" THEN RanAdviceDue ELSE UNCHANGED log
  /\ at' = at - 1
  /\ UNCHANGED <<fn, layers, result, admitted, given, bodies>>

LeaveAdvice ==
  /\ Leaving
  /\ ~AroundRuns(at)
  /\ RanAdviceDue
  /\ \/ at' = at - 1 /\ UNCHANGED result
     \/ Interrupted(AdviceEnds)
  /\ UNCHANGED <<fn, layers, admitted, given, bodies>>

\* proceed has returned: a limiter passes the result on, another may replace it.
LeaveAround ==
  /\ Leaving
  /\ AroundRuns(at)
  /\ \/ Layer.around = "limit" /\ at' = at - 1 /\ UNCHANGED result
     \/ Layer.around = "custom" /\ HandOut({"ok", "err"})
     \/ Interrupted(AdviceEnds)
  /\ UNCHANGED <<fn, layers, admitted, log, given, bodies>>

Next ==
  \/ Call
  \/ EnterAdvice \/ EnterAround
  \/ ShortCircuit \/ Body
  \/ LeaveAdvice \/ LeaveAround

Spec == Init /\ [][Next]_vars

-----------------------------------------------------------------------------
(* Safety *)

\* Every variable stays in its type, and a call that has ended has a result.
TypeOK ==
  /\ fn \in Functions
  /\ Depth \in 1..MaxLayers
  /\ layers \in [1..Depth -> Attributes]
  /\ at \in 0..(Depth + 1)
  /\ result \in {"none", "ok", "err", "panic", "dropped"}
  /\ at = 0 => result # "none"
  /\ result \in {"panic", "dropped"} => at = 0
  /\ admitted \in [1..Depth -> 0..Limit]
  /\ log \in [1..Depth -> [before : 0..1, around : 0..1, after : 0..1, after_error : 0..1]]
  /\ given \in {"none", "ok", "err"}
  /\ bodies \in 0..(Limit + 1)

Returned == at = 0 /\ result \in {"ok", "err"}

Unpaired(i) == log[i].before > log[i].after + log[i].after_error

\* Of every before that ran, exactly one of after and after_error runs if the
\* call returns. If it panics or its future is dropped, those that are missing
\* are those of the outermost advice: no wrapper runs advice around one that
\* was cut short (aspect.rs:23-36, codegen.rs:227-296).
AdviceIsPaired ==
  /\ Returned => \A i \in 1..Depth :
       log[i].after + log[i].after_error = log[i].before
  /\ at = 0 => \A i, j \in 1..Depth :
       i < j /\ Unpaired(j) /\ ~AroundRuns(i) => Unpaired(i)

\* The advice outside all custom arounds hears of an error exactly when the
\* caller is handed one, whatever the arounds inside made of the call; for
\* functions that return a type called Result, or no Result at all.
AdviceMatchesResult ==
  Returned /\ fn.returns # "alias" => \A i \in 1..Depth :
    (\A j \in 1..i : log[j].before = 1) =>
      (log[i].after_error = 1 <=> result = "err")

\* Limiters and advice leave the result alone: without other arounds the
\* caller gets what the body returned, or else the error of a limiter, which
\* is a panic in a function that cannot return it, and never a value.
ResultIsTheBodys ==
  Returned /\ (\A i \in 1..Depth : layers[i].around # "custom") =>
    \/ result = given
    \/ given = "none" /\ result = "err" /\ IsResult

\* No custom around of an aspect that the macro can find is skipped: when the
\* body starts, each has been asked (validate_aspect_usage, aspect_attr.rs:34-64).
\* Of other aspects aspect_attr.rs:52 says the same, and on async functions it does
\* not hold: see Valid and Wrapper.
KnownAroundIsCalled ==
  at = Depth + 1 => \A i \in 1..Depth :
    Known(layers[i]) /\ Custom(layers[i]) => log[i].around = 1

\* A limiter that outlives the call keeps its limit, wherever it is stacked
\* and however its calls end.
LimitIsKept ==
  \A i \in 1..Depth :
    layers[i].around = "limit" /\ layers[i].expr # "constructor" /\ AroundRuns(i)
      => bodies <= Limit

-----------------------------------------------------------------------------
(* The inductive invariant *)

\* A layer that the call is inside of, and one that it has left or not reached.
Opened(i) ==
  log[i] = IF AroundRuns(i) THEN Advice(0, 1, 0, 0) ELSE Advice(1, 0, 0, 0)

Closed(i) ==
  \/ log[i] = NoAdvice
  \/ AroundRuns(i) /\ log[i] = Advice(0, 1, 0, 0)
  \/ ~AroundRuns(i) /\ log[i] \in {Advice(1, 0, 1, 0), Advice(1, 0, 0, 1)}

\* The layers a call is inside of are the outermost ones: those outside `at` on
\* its way in, those up to `at` on its way out; and if it was cut short, those
\* it was inside of then.
CallIsNested ==
  /\ result = "none" => \A i \in 1..Depth :
       /\ i < at => Opened(i)
       /\ i >= at => log[i] = NoAdvice
  /\ result \in {"ok", "err"} => \A i \in 1..Depth :
       /\ i <= at => Opened(i)
       /\ i > at => Closed(i)
  /\ result \in {"panic", "dropped"} => \E k \in 0..Depth : \A i \in 1..Depth :
       /\ i <= k => Opened(i)
       /\ i > k => Closed(i)

\* The layers that a result has passed since the last around have heard of it.
ResultIsHeard ==
  result \in {"ok", "err"} /\ fn.returns # "alias" =>
    \A i \in (at + 1)..Depth :
      (\A j \in (at + 1)..i : log[j].before = 1) =>
        (log[i].after_error = 1 <=> result = "err")

\* Without custom arounds, the result on its way out is the body's or a refusal.
ResultIsCarried ==
  /\ result = "none" => given = "none"
  /\ result \in {"ok", "err"} /\ (\A i \in 1..Depth : layers[i].around # "custom") =>
       \/ result = given
       \/ given = "none" /\ result = "err" /\ IsResult

\* Every time the body ran, and for the call that is on its way to it, a kept
\* limiter has counted one.
BodiesAreAdmitted ==
  \A i \in 1..Depth :
    layers[i].around = "limit" /\ layers[i].expr # "constructor" /\ AroundRuns(i) =>
      bodies + (IF result = "none" /\ i < at THEN 1 ELSE 0) <= admitted[i]

Inv ==
  /\ TypeOK
  /\ \A i \in 1..Depth : Valid(fn, layers[i])
  /\ at = Depth + 1 => result = "none"
  /\ result = "err" => fn.returns \in {"Result", "alias"}
  /\ CallIsNested
  /\ ResultIsHeard
  /\ ResultIsCarried
  /\ BodiesAreAdmitted

-----------------------------------------------------------------------------
(* What the documentation says and the code does not do *)

\* README.md:63 "Rate limiting (100 calls per minute)": a limiter built in the
\* attribute lets no more than its limit through.
InlineLimitIsKept ==
  \A i \in 1..Depth :
    layers[i].around = "limit" /\ AroundRuns(i) => bodies <= Limit
==============================================================================
