----------------------------- MODULE WeaveProofs -----------------------------
(***************************************************************************)
(* Proofs about Weave, for every set of functions and attributes, stacks   *)
(* of every depth and every limit: the inductive invariant Inv and the     *)
(* safety properties that follow from it.                                  *)
(***************************************************************************)
EXTENDS Weave, TLAPS

Entries == [before : 0..1, around : 0..1, after : 0..1, after_error : 0..1]

-----------------------------------------------------------------------------
(* What every step leaves alone, and what a step does to the log *)

\* What is woven when the function is compiled does not change.
LEMMA StackIsFixed == [Next]_vars => fn' = fn /\ layers' = layers
  BY DEF Next, vars, Call, EnterAdvice, EnterAround, ShortCircuit, Body,
         LeaveAdvice, LeaveAround

\* An entry that is opened or closed is an entry.
LEMMA EntryType ==
  ASSUME NEW i, Opened(i) \/ Closed(i)
  PROVE  log[i] \in Entries
  BY DEF Opened, Closed, Entries, Advice, NoAdvice

LEMMA FreshIsClosed ==
  ASSUME NEW i, log[i] = NoAdvice
  PROVE  Closed(i)
  BY DEF Closed

-----------------------------------------------------------------------------
(* The invariant *)

\* No call has been made: every entry is fresh and no limiter has counted.
LEMMA InitInv == Init => Inv
<1> SUFFICES ASSUME Init PROVE Inv
  OBVIOUS
<1>1. Depth \in 1..MaxLayers /\ layers \in [1..Depth -> Attributes]
  <2>1. PICK n \in 1..MaxLayers : layers \in [1..n -> Attributes]
    BY DEF Init
  <2>2. n \in Nat
    BY <2>1, WeaveAssumption DEF WeaveAssumption
  <2>3. layers \in Seq(Attributes) /\ Len(layers) = n
    BY <2>1, <2>2
  <2> QED
    BY <2>1, <2>3 DEF Depth
<1>2. Depth \in Nat \ {0}
  BY <1>1, WeaveAssumption DEF WeaveAssumption
<1>3. TypeOK
  BY <1>1, <1>2, WeaveAssumption DEF TypeOK, Init, NoAdvice, Advice, WeaveAssumption
<1>4. CallIsNested
  BY <1>2 DEF Init, CallIsNested, Closed
<1>5. ResultIsHeard
  BY <1>2 DEF Init, ResultIsHeard, NoAdvice, Advice
<1>6. ResultIsCarried /\ BodiesAreAdmitted
  BY DEF Init, ResultIsCarried, BodiesAreAdmitted
<1>7. (\A i \in 1..Depth : Valid(fn, layers[i])) /\ at = 0 /\ result = "ok"
  BY DEF Init
<1> QED
  BY <1>2, <1>3, <1>4, <1>5, <1>6, <1>7 DEF Inv

-----------------------------------------------------------------------------
(* What the steps do to the log and to the result *)

\* Each advice runs once in an entry that has the form it needs.
LEMMA LogUpdate ==
  ASSUME log \in [1..Depth -> Entries], at \in 1..Depth
  PROVE  /\ RanBefore /\ log[at] = NoAdvice
              => log' = [log EXCEPT ![at] = Advice(1, 0, 0, 0)]
         /\ RanAround /\ log[at] = NoAdvice
              => log' = [log EXCEPT ![at] = Advice(0, 1, 0, 0)]
         /\ RanAfter /\ log[at] = Advice(1, 0, 0, 0)
              => log' = [log EXCEPT ![at] = Advice(1, 0, 1, 0)]
         /\ RanAfterError /\ log[at] = Advice(1, 0, 0, 0)
              => log' = [log EXCEPT ![at] = Advice(1, 0, 0, 1)]
  BY DEF RanBefore, RanAround, RanAfter, RanAfterError, NoAdvice, Advice

\* An entry that a step does not touch stays opened or closed.
LEMMA EntryKept ==
  ASSUME fn' = fn, layers' = layers, NEW i, log'[i] = log[i]
  PROVE  /\ Opened(i)' <=> Opened(i)
         /\ Closed(i)' <=> Closed(i)
         /\ AroundRuns(i)' <=> AroundRuns(i)
  BY DEF Opened, Closed, AroundRuns, Wrapper

\* Advice ends in a panic or with its future dropped.
LEMMA AdviceEndsType == AdviceEnds \subseteq {"panic", "dropped"}
  BY DEF AdviceEnds

\* So does a body that does not return.
LEMMA BodyEndsType == BodyEnds \subseteq {"panic", "dropped"}
  BY DEF BodyEnds

\* A body returns a value or an error.
LEMMA ValuesType == Values \subseteq {"ok", "err"}
  BY DEF Values

\* What around answers is handed out one layer up, or is a panic.
LEMMA HandOutType ==
  ASSUME NEW answers \in SUBSET {"ok", "err"}, HandOut(answers)
  PROVE  \/ at' = at - 1 /\ result' \in {"ok", "err"} /\ (IsResult \/ result' \in Values)
         \/ at' = 0 /\ result' = "panic"
  BY ValuesType DEF HandOut, Interrupted

\* Going in, the entries of the layer at `at` and of those below are fresh;
\* going out, those of the layer at `at` and of those above are opened.
LEMMA EntriesAt ==
  ASSUME Inv, at \in 1..Depth
  PROVE  /\ Depth \in Nat /\ Depth >= 1
         /\ log \in [1..Depth -> Entries]
         /\ result = "none" => log[at] = NoAdvice
         /\ result \in {"ok", "err"} =>
              log[at] = IF AroundRuns(at) THEN Advice(0, 1, 0, 0) ELSE Advice(1, 0, 0, 0)
<1>1. Depth \in Nat /\ Depth >= 1 /\ log \in [1..Depth -> Entries]
  BY WeaveAssumption DEF Inv, TypeOK, Entries, WeaveAssumption
<1> QED
  BY <1>1 DEF Inv, CallIsNested, Opened

-----------------------------------------------------------------------------
(* CallIsNested is preserved *)

\* A layer that is entered is opened; what is above it stays so.
LEMMA EnterNested ==
  ASSUME Inv, Entering, fn' = fn, layers' = layers,
         log' = [log EXCEPT ![at] =
                   IF AroundRuns(at) THEN Advice(0, 1, 0, 0) ELSE Advice(1, 0, 0, 0)]
  PROVE  /\ at' = at + 1 /\ result' = "none" => CallIsNested'
         /\ result' \in {"panic", "dropped"} => CallIsNested'
         /\ at' = at - 1 /\ result' \in {"ok", "err"} /\ AroundRuns(at) => CallIsNested'
<1> USE DEF Entering
<1>1. Depth \in Nat /\ Depth' = Depth /\ at \in 1..Depth /\ log \in [1..Depth -> Entries]
  BY EntriesAt DEF Depth
<1>2. \A i \in 1..Depth : i = at => Opened(i)' /\ (AroundRuns(at) => Closed(i)')
  BY <1>1 DEF Opened, Closed, AroundRuns, Wrapper
<1>3. \A i \in 1..Depth : i < at => Opened(i)'
  BY <1>1, EntryKept DEF Inv, CallIsNested
<1>4. \A i \in 1..Depth : i > at => log'[i] = NoAdvice /\ Closed(i)'
  <2> TAKE i \in 1..Depth
  <2> HAVE i > at
  <2>1. log'[i] = log[i] /\ log[i] = NoAdvice
    BY <1>1 DEF Inv, CallIsNested
  <2> QED
    BY <2>1 DEF Closed
<1>5. ASSUME at' = at + 1, result' = "none" PROVE CallIsNested'
  BY <1>1, <1>2, <1>3, <1>4, <1>5 DEF CallIsNested
<1>6. ASSUME result' \in {"panic", "dropped"} PROVE CallIsNested'
  <2>1. \A i \in 1..Depth : (i <= at => Opened(i)') /\ (i > at => Closed(i)')
    BY <1>1, <1>2, <1>3, <1>4
  <2>2. at \in 0..Depth' /\ ~(result' = "none") /\ ~(result' \in {"ok", "err"})
    BY <1>1, <1>6
  <2> QED
    BY <1>1, <2>1, <2>2 DEF CallIsNested
<1>7. ASSUME at' = at - 1, result' \in {"ok", "err"}, AroundRuns(at) PROVE CallIsNested'
  <2>1. \A i \in 1..Depth : (i <= at' => Opened(i)') /\ (i > at' => Closed(i)')
    BY <1>1, <1>2, <1>3, <1>4, <1>7
  <2> QED
    BY <1>1, <1>7, <2>1 DEF CallIsNested
<1> QED
  BY <1>5, <1>6, <1>7

\* A layer that is left is closed; what is above it stays opened.
LEMMA LeaveNested ==
  ASSUME Inv, Leaving, fn' = fn, layers' = layers,
         \A i \in 1..Depth : i # at => log'[i] = log[i],
         \A i \in 1..Depth : i = at => Closed(i)'
  PROVE  /\ at' = at - 1 /\ result' \in {"ok", "err"} => CallIsNested'
         /\ result' \in {"panic", "dropped"} => CallIsNested'
<1> USE DEF Leaving
<1>1. Depth \in Nat /\ Depth' = Depth /\ at \in 1..Depth
  BY EntriesAt DEF Depth
<1>2. \A i \in 1..Depth : (i <= at - 1 => Opened(i)') /\ (i > at - 1 => Closed(i)')
  <2> TAKE i \in 1..Depth
  <2>1. CASE i < at
    BY <1>1, <2>1, EntryKept DEF Inv, CallIsNested
  <2>2. CASE i > at
    BY <1>1, <2>2, EntryKept DEF Inv, CallIsNested
  <2> QED
    BY <1>1, <2>1, <2>2
<1>3. ASSUME at' = at - 1, result' \in {"ok", "err"} PROVE CallIsNested'
  BY <1>1, <1>2, <1>3 DEF CallIsNested
<1>4. ASSUME result' \in {"panic", "dropped"} PROVE CallIsNested'
  <2>1. at - 1 \in 0..Depth' /\ ~(result' = "none") /\ ~(result' \in {"ok", "err"})
    BY <1>1, <1>4
  <2> QED
    BY <1>1, <1>2, <2>1 DEF CallIsNested
<1> QED
  BY <1>3, <1>4

LEMMA NextNested ==
  ASSUME Inv, [Next]_vars
  PROVE  CallIsNested'
<1>0. fn' = fn /\ layers' = layers /\ Depth' = Depth
  BY StackIsFixed DEF Depth
<1>1. CASE Call
  BY <1>0, <1>1 DEF Call, CallIsNested
<1>2. CASE EnterAdvice
  <2>1. Entering /\ ~AroundRuns(at) /\ RanBefore
    BY <1>2 DEF EnterAdvice
  <2>2. log' = [log EXCEPT ![at] = Advice(1, 0, 0, 0)]
    BY <2>1, EntriesAt, LogUpdate DEF Entering
  <2>3. \/ at' = at + 1 /\ result' = "none"
        \/ result' \in {"panic", "dropped"}
    BY <1>2, <2>1, AdviceEndsType DEF EnterAdvice, Entering, GoIn, Interrupted
  <2> QED
    BY <1>0, <2>1, <2>2, <2>3, EnterNested
<1>3. CASE EnterAround
  <2>1. Entering /\ AroundRuns(at) /\ RanAround
    BY <1>3 DEF EnterAround
  <2>2. log' = [log EXCEPT ![at] = Advice(0, 1, 0, 0)]
    BY <2>1, EntriesAt, LogUpdate DEF Entering
  <2>3. \/ at' = at + 1 /\ result' = "none"
        \/ result' \in {"panic", "dropped"}
    BY <1>3, <2>1, AdviceEndsType DEF EnterAround, Entering, GoIn, Interrupted
  <2> QED
    BY <1>0, <2>1, <2>2, <2>3, EnterNested
<1>4. CASE ShortCircuit
  <2>1. Entering /\ AroundRuns(at) /\ RanAround
    BY <1>4 DEF ShortCircuit
  <2>2. log' = [log EXCEPT ![at] = Advice(0, 1, 0, 0)]
    BY <2>1, EntriesAt, LogUpdate DEF Entering
  <2>3. \/ at' = at - 1 /\ result' \in {"ok", "err"}
        \/ result' \in {"panic", "dropped"}
    BY <1>4, HandOutType DEF ShortCircuit
  <2> QED
    BY <1>0, <2>1, <2>2, <2>3, EnterNested
<1>5. CASE Body
  <2>1. /\ Depth \in Nat
        /\ \A i \in 1..Depth : Opened(i)
        /\ at = Depth + 1
    BY <1>5, WeaveAssumption DEF Body, Inv, TypeOK, CallIsNested, WeaveAssumption
  <2>2. \A i \in 1..Depth : Opened(i)'
    BY <1>0, <1>5, <2>1, EntryKept DEF Body
  <2>3. \/ at' = Depth /\ result' \in {"ok", "err"}
        \/ result' \in {"panic", "dropped"}
    BY <1>5, ValuesType, BodyEndsType DEF Body, Interrupted
  <2>4. \A i \in 1..Depth : i <= Depth /\ ~(i > Depth)
    BY <2>1
  <2>5. Depth \in 0..Depth'
    BY <1>0, <2>1
  <2> QED
    BY <1>0, <2>2, <2>3, <2>4, <2>5 DEF CallIsNested
<1>6. CASE LeaveAdvice
  <2>1. Leaving /\ ~AroundRuns(at) /\ RanAdviceDue
    BY <1>6 DEF LeaveAdvice
  <2>2. \/ log' = [log EXCEPT ![at] = Advice(1, 0, 1, 0)]
        \/ log' = [log EXCEPT ![at] = Advice(1, 0, 0, 1)]
    BY <2>1, EntriesAt, LogUpdate DEF Leaving, RanAdviceDue
  <2>3. /\ \A i \in 1..Depth : i # at => log'[i] = log[i]
        /\ log'[at] \in {Advice(1, 0, 1, 0), Advice(1, 0, 0, 1)}
    BY <2>1, <2>2, EntriesAt DEF Leaving
  <2>4. \A i \in 1..Depth : i = at => Closed(i)'
    BY <1>0, <2>1, <2>3 DEF Closed, AroundRuns, Wrapper
  <2>5. \/ at' = at - 1 /\ result' \in {"ok", "err"}
        \/ result' \in {"panic", "dropped"}
    BY <1>6, <2>1, AdviceEndsType DEF LeaveAdvice, Leaving, Interrupted
  <2> QED
    BY <1>0, <2>1, <2>3, <2>4, <2>5, LeaveNested
<1>7. CASE LeaveAround
  <2>1. Leaving /\ AroundRuns(at) /\ log' = log
    BY <1>7 DEF LeaveAround
  <2>2. \A i \in 1..Depth : i = at => Closed(i)'
    BY <1>0, <2>1, EntriesAt DEF Closed, AroundRuns, Wrapper, Leaving
  <2>3. \/ at' = at - 1 /\ result' \in {"ok", "err"}
        \/ result' \in {"panic", "dropped"}
    BY <1>7, <2>1, AdviceEndsType, HandOutType DEF LeaveAround, Leaving, Interrupted
  <2> QED
    BY <1>0, <2>1, <2>2, <2>3, LeaveNested
<1>8. CASE UNCHANGED vars
  <2>1. CallIsNested
    BY DEF Inv
  <2>2. at' = at /\ result' = result /\ log' = log
    BY <1>8 DEF vars
  <2>3. \A i \in 1..Depth : (Opened(i)' <=> Opened(i)) /\ (Closed(i)' <=> Closed(i))
    BY <1>0, <2>2, EntryKept
  <2> QED
    BY <1>0, <2>1, <2>2, <2>3 DEF CallIsNested
<1> QED
  BY <1>1, <1>2, <1>3, <1>4, <1>5, <1>6, <1>7, <1>8 DEF Next

-----------------------------------------------------------------------------
(* Types *)

\* The invariant on the variables that are no functions.
LEMMA Scalars ==
  ASSUME Inv
  PROVE  /\ Depth \in Nat /\ Depth >= 1 /\ Limit \in Nat /\ Limit >= 1
         /\ at \in 0..(Depth + 1)
         /\ result \in {"none", "ok", "err", "panic", "dropped"}
         /\ at = 0 => result # "none"
         /\ result \in {"panic", "dropped"} => at = 0
         /\ at = Depth + 1 => result = "none"
         /\ given \in {"none", "ok", "err"}
         /\ bodies \in 0..(Limit + 1)
<1>1. Depth \in Nat /\ Depth >= 1 /\ Limit \in Nat /\ Limit >= 1
  BY WeaveAssumption DEF Inv, TypeOK, WeaveAssumption
<1> QED
  BY <1>1 DEF Inv, TypeOK

\* What a step of a layer does to `at` and `result`.
LEMMA Moves ==
  ASSUME Inv
  PROVE  /\ EnterAdvice \/ EnterAround => at \in 1..Depth /\ result = "none" /\
              ((at' = at + 1 /\ result' = "none") \/ (at' = 0 /\ result' \in {"panic", "dropped"}))
         /\ ShortCircuit => at \in 1..Depth /\ result = "none" /\
              ((at' = at - 1 /\ result' \in {"ok", "err"}) \/ (at' = 0 /\ result' = "panic"))
         /\ LeaveAdvice \/ LeaveAround => at \in 1..Depth /\ result \in {"ok", "err"} /\
              ((at' = at - 1 /\ result' \in {"ok", "err"})
                 \/ (at' = 0 /\ result' \in {"panic", "dropped"}))
<1>1. ASSUME EnterAdvice \/ EnterAround
      PROVE  at \in 1..Depth /\ result = "none" /\
               ((at' = at + 1 /\ result' = "none") \/ (at' = 0 /\ result' \in {"panic", "dropped"}))
  <2>1. Entering /\ (GoIn \/ Interrupted(AdviceEnds))
    BY <1>1 DEF EnterAdvice, EnterAround
  <2> QED
    BY <2>1, AdviceEndsType DEF Entering, GoIn, Interrupted
<1>2. ASSUME ShortCircuit
      PROVE  at \in 1..Depth /\ result = "none" /\
               ((at' = at - 1 /\ result' \in {"ok", "err"}) \/ (at' = 0 /\ result' = "panic"))
  <2>1. Entering /\ (HandOut({"err"}) \/ HandOut({"ok", "err"}))
    BY <1>2 DEF ShortCircuit
  <2>2. (at' = at - 1 /\ result' \in {"ok", "err"}) \/ (at' = 0 /\ result' = "panic")
    BY <2>1, HandOutType
  <2> QED
    BY <2>1, <2>2 DEF Entering
<1>3. ASSUME LeaveAdvice \/ LeaveAround
      PROVE  at \in 1..Depth /\ result \in {"ok", "err"} /\
               ((at' = at - 1 /\ result' \in {"ok", "err"})
                  \/ (at' = 0 /\ result' \in {"panic", "dropped"}))
  <2>1. /\ Leaving
        /\ \/ at' = at - 1 /\ result' = result
           \/ HandOut({"ok", "err"})
           \/ Interrupted(AdviceEnds)
    BY <1>3 DEF LeaveAdvice, LeaveAround
  <2>2. \/ at' = at - 1 /\ (result' = result \/ result' \in {"ok", "err"})
        \/ at' = 0 /\ result' \in {"panic", "dropped"}
    BY <2>1, AdviceEndsType, HandOutType DEF Interrupted
  <2> QED
    BY <2>1, <2>2 DEF Leaving
<1> QED
  BY <1>1, <1>2, <1>3

\* What steps do to the scalar variables.
LEMMA NextScalars ==
  ASSUME Inv, [Next]_vars
  PROVE  /\ at' \in 0..(Depth + 1)
         /\ result' \in {"none", "ok", "err", "panic", "dropped"}
         /\ at' = 0 => result' # "none"
         /\ result' \in {"panic", "dropped"} => at' = 0
         /\ at' = Depth + 1 => result' = "none"
         /\ given' \in {"none", "ok", "err"}
         /\ bodies' \in 0..(Limit + 1)
<1>1. CASE Call
  BY <1>1, Scalars DEF Call
<1>2. CASE EnterAdvice \/ EnterAround
  <2>1. given' = given /\ bodies' = bodies
    BY <1>2 DEF EnterAdvice, EnterAround
  <2> QED
    BY <1>2, <2>1, Scalars, Moves
<1>3. CASE ShortCircuit
  <2>1. given' = given /\ bodies' = bodies
    BY <1>3 DEF ShortCircuit
  <2> QED
    BY <1>3, <2>1, Scalars, Moves
<1>4. CASE Body
  <2>1. bodies' \in 0..(Limit + 1)
    BY <1>4, Scalars DEF Body
  <2>2. \/ at' = Depth /\ result' \in {"ok", "err"} /\ given' \in {"ok", "err"}
        \/ at' = 0 /\ result' \in {"panic", "dropped"} /\ given' = given
    BY <1>4, ValuesType, BodyEndsType DEF Body, Interrupted
  <2> QED
    BY <2>1, <2>2, Scalars
<1>5. CASE LeaveAdvice \/ LeaveAround
  <2>1. given' = given /\ bodies' = bodies
    BY <1>5 DEF LeaveAdvice, LeaveAround
  <2> QED
    BY <1>5, <2>1, Scalars, Moves
<1>6. CASE UNCHANGED vars
  BY <1>6, Scalars DEF vars
<1> QED
  BY <1>1, <1>2, <1>3, <1>4, <1>5, <1>6 DEF Next

\* An entry of the next state that is opened or closed is an entry.
LEMMA EntryTypePrime ==
  ASSUME NEW i, Opened(i)' \/ Closed(i)'
  PROVE  log'[i] \in Entries
  BY DEF Opened, Closed, Entries, Advice, NoAdvice

\* The entries of the log stay entries because the call stays nested.
LEMMA NextTypeOK ==
  ASSUME Inv, [Next]_vars
  PROVE  TypeOK'
<1>0. /\ fn' = fn /\ layers' = layers /\ Depth' = Depth
      /\ Depth \in Nat
      /\ result' \in {"none", "ok", "err", "panic", "dropped"}
  BY StackIsFixed, NextScalars, WeaveAssumption DEF Depth, Inv, TypeOK, WeaveAssumption
<1>1. \A i \in 1..Depth : log'[i] \in Entries
  <2>1. \A i \in 1..Depth : Opened(i)' \/ Closed(i)' \/ log'[i] = NoAdvice
    <3>1. CASE result' = "none"
      BY <1>0, <3>1, NextNested, NextScalars DEF CallIsNested
    <3>2. CASE result' \in {"ok", "err"}
      BY <1>0, <3>2, NextNested, NextScalars DEF CallIsNested
    <3>3. CASE result' \in {"panic", "dropped"}
      BY <1>0, <3>3, NextNested, NextScalars DEF CallIsNested
    <3> QED
      BY <1>0, <3>1, <3>2, <3>3
  <2>2. NoAdvice \in Entries
    BY DEF NoAdvice, Advice, Entries
  <2> QED
    BY <2>1, <2>2, EntryTypePrime
<1>2. log' = [i \in 1..Depth |-> log'[i]]
  BY <1>0 DEF Inv, TypeOK, Next, vars, Call, EnterAdvice, EnterAround, ShortCircuit, Body,
     LeaveAdvice, LeaveAround, RanBefore, RanAround, RanAdviceDue, RanAfter, RanAfterError
<1>3. admitted' \in [1..Depth -> 0..Limit]
  <2>1. CASE EnterAround
    <3>1. Limit \in Nat /\ at \in 1..Depth /\ admitted \in [1..Depth -> 0..Limit]
      BY <2>1, WeaveAssumption DEF Inv, TypeOK, EnterAround, Entering, WeaveAssumption
    <3>2. Instance \in 0..Limit
      BY <3>1 DEF Instance
    <3>3. Layer.around = "limit" => Instance + 1 \in 0..Limit
      BY <2>1, <3>1, <3>2 DEF EnterAround
    <3> QED
      BY <2>1, <3>1, <3>2, <3>3 DEF EnterAround
  <2>2. CASE ~EnterAround
    BY <2>2 DEF Inv, TypeOK, Next, vars, Call, EnterAdvice, ShortCircuit, Body,
       LeaveAdvice, LeaveAround
  <2> QED
    BY <2>1, <2>2
<1> QED
  BY <1>0, <1>1, <1>2, <1>3, NextScalars DEF Inv, TypeOK, Entries

-----------------------------------------------------------------------------
(* Results *)

\* A body or an around that is handed out fails only where there is an error.
LEMMA NextFallible ==
  ASSUME Inv, [Next]_vars, result' = "err"
  PROVE  fn.returns \in {"Result", "alias"}
<1>1. "err" \in Values \/ IsResult => fn.returns \in {"Result", "alias"}
  BY DEF Values, IsResult
<1>2. result = "err" => fn.returns \in {"Result", "alias"}
  BY DEF Inv
<1>3. CASE Body
  <2>1. result' \in Values \/ result' \in BodyEnds
    BY <1>3 DEF Body, Interrupted
  <2> QED
    BY <1>1, <2>1, BodyEndsType
<1>4. CASE ShortCircuit
  <2>1. HandOut({"err"}) \/ HandOut({"ok", "err"})
    BY <1>4 DEF ShortCircuit
  <2> QED
    BY <1>1, <2>1, HandOutType
<1>5. CASE LeaveAround
  <2>1. result' = result \/ HandOut({"ok", "err"}) \/ result' \in AdviceEnds
    BY <1>5 DEF LeaveAround, Interrupted
  <2> QED
    BY <1>1, <1>2, <2>1, HandOutType, AdviceEndsType
<1>6. CASE LeaveAdvice
  <2>1. result' = result \/ result' \in AdviceEnds
    BY <1>6 DEF LeaveAdvice, Interrupted
  <2> QED
    BY <1>2, <2>1, AdviceEndsType
<1>7. CASE Call \/ EnterAdvice \/ EnterAround
  BY <1>7, Moves DEF Call
<1>8. CASE UNCHANGED vars
  BY <1>2, <1>8 DEF vars
<1> QED
  BY <1>3, <1>4, <1>5, <1>6, <1>7, <1>8 DEF Next

\* The layer that a result leaves hears of it, if it is advice; if it is an
\* around, the advice inside it no longer counts.
LEMMA NextHeard ==
  ASSUME Inv, [Next]_vars
  PROVE  ResultIsHeard'
<1> SUFFICES ASSUME result' \in {"ok", "err"}, fn.returns # "alias",
                    NEW i \in 1..Depth, i > at',
                    \A j \in 1..Depth : at' < j /\ j <= i => log'[j].before = 1
             PROVE  log'[i].after_error = 1 <=> result' = "err"
  BY StackIsFixed, NextScalars, Scalars DEF ResultIsHeard, Depth
<1>1. \A k \in 1..Depth :
        /\ result \in {"ok", "err"} /\ k > at
        /\ \A j \in 1..Depth : at < j /\ j <= k => log[j].before = 1
        => (log[k].after_error = 1 <=> result = "err")
  BY Scalars DEF Inv, ResultIsHeard
<1>2. log \in [1..Depth -> Entries]
  BY DEF Inv, TypeOK, Entries
<1>3. ~Call /\ ~EnterAdvice /\ ~EnterAround
  BY Moves DEF Call
<1>4. ASSUME at \in 1..Depth, at' = at - 1 PROVE log'[at].before = 1
  BY <1>4, Scalars
<1>5. ~ShortCircuit
  <2> SUFFICES ASSUME ShortCircuit PROVE FALSE
    OBVIOUS
  <2>1. at \in 1..Depth /\ at' = at - 1
    BY Moves, Scalars
  <2>2. log' = [log EXCEPT ![at] = Advice(0, 1, 0, 0)]
    BY EntriesAt, LogUpdate DEF ShortCircuit, Entering
  <2>3. log'[at].before = 0
    BY <1>2, <2>1, <2>2 DEF Advice
  <2> QED
    BY <1>4, <2>1, <2>3
<1>6. ~LeaveAround
  <2> SUFFICES ASSUME LeaveAround PROVE FALSE
    OBVIOUS
  <2>1. at \in 1..Depth /\ at' = at - 1 /\ log' = log
    BY Moves, Scalars DEF LeaveAround
  <2>2. log[at] = Advice(0, 1, 0, 0)
    BY EntriesAt DEF LeaveAround, Leaving
  <2> QED
    BY <1>4, <2>1, <2>2 DEF Advice
<1>7. ~Body
  BY Scalars, BodyEndsType DEF Body, Interrupted
<1>8. CASE LeaveAdvice
  <2>1. /\ Leaving /\ ~AroundRuns(at) /\ RanAdviceDue
        /\ at \in 1..Depth /\ at' = at - 1 /\ result' = result
    BY <1>8, Moves, Scalars, AdviceEndsType DEF LeaveAdvice, Interrupted
  <2>2. IsAnError <=> result = "err"
    BY <2>1, NextFallible, StackIsFixed DEF IsAnError, IsResult
  <2>3. \/ result # "err" /\ log' = [log EXCEPT ![at] = Advice(1, 0, 1, 0)]
        \/ result = "err" /\ log' = [log EXCEPT ![at] = Advice(1, 0, 0, 1)]
    BY <2>1, <2>2, EntriesAt, LogUpdate DEF Leaving, RanAdviceDue
  <2>4. CASE i = at
    <3>1. \/ result # "err" /\ log'[i] = Advice(1, 0, 1, 0)
          \/ result = "err" /\ log'[i] = Advice(1, 0, 0, 1)
      BY <1>2, <2>1, <2>3, <2>4
    <3> QED
      BY <2>1, <3>1 DEF Advice
  <2>5. CASE i # at
    <3>1. i > at /\ log'[i] = log[i]
      BY <1>2, <2>1, <2>3, <2>5, Scalars
    <3>2. \A j \in 1..Depth : j # at => log'[j] = log[j]
      BY <1>2, <2>3
    <3>3. \A j \in 1..Depth : at < j /\ j <= i => at' < j /\ j # at
      BY <2>1, Scalars
    <3>4. \A j \in 1..Depth : at < j /\ j <= i => log[j].before = 1
      BY <3>2, <3>3
    <3> QED
      BY <1>1, <2>1, <3>1, <3>4 DEF Leaving
  <2> QED
    BY <2>4, <2>5
<1>9. CASE UNCHANGED vars
  BY <1>1, <1>9 DEF vars
<1> QED
  BY <1>3, <1>5, <1>6, <1>7, <1>8, <1>9 DEF Next

\* Without custom arounds the layers hand on what they are handed, and only a
\* limiter puts its error in the place of a call that never reached the body.
LEMMA NextCarried ==
  ASSUME Inv, [Next]_vars
  PROVE  ResultIsCarried'
<1>1. result = "none" => given = "none"
  BY DEF Inv, ResultIsCarried
<1>2. fn' = fn /\ layers' = layers /\ Depth' = Depth /\ (IsResult' <=> IsResult)
  BY StackIsFixed DEF Depth, IsResult
<1>3. ASSUME result' = "none" PROVE given' = "none"
  <2>1. ~ShortCircuit /\ ~LeaveAdvice /\ ~LeaveAround
    BY <1>3, Moves
  <2>2. ~Body
    BY <1>3, ValuesType, BodyEndsType DEF Body, Interrupted
  <2>3. CASE Call
    BY <2>3 DEF Call
  <2>4. CASE EnterAdvice \/ EnterAround
    BY <1>1, <2>4, Moves DEF EnterAdvice, EnterAround
  <2>5. CASE UNCHANGED vars
    BY <1>1, <1>3, <2>5 DEF vars
  <2> QED
    BY <2>1, <2>2, <2>3, <2>4, <2>5 DEF Next
<1>4. ASSUME result' \in {"ok", "err"}, \A i \in 1..Depth : layers[i].around # "custom"
      PROVE  result' = given' \/ (given' = "none" /\ result' = "err" /\ IsResult)
  <2>1. result \in {"ok", "err"} =>
          result = given \/ (given = "none" /\ result = "err" /\ IsResult)
    BY <1>4 DEF Inv, ResultIsCarried
  <2>2. ~Call /\ ~EnterAdvice /\ ~EnterAround
    BY <1>4, Moves DEF Call
  <2>3. CASE ShortCircuit
    <3>1. at \in 1..Depth /\ result = "none" /\ given' = given
      BY <2>3, Moves DEF ShortCircuit
    <3>2. layers[at].around = "limit"
      BY <1>4, <2>3, <3>1, WeaveAssumption
         DEF Inv, TypeOK, WeaveAssumption, ShortCircuit, AroundRuns, Custom
    <3>3. HandOut({"err"})
      BY <2>3, <3>2 DEF ShortCircuit, Layer
    <3> QED
      BY <1>1, <1>4, <3>1, <3>3 DEF HandOut, Interrupted
  <2>4. CASE Body
    BY <1>4, <2>4, BodyEndsType DEF Body, Interrupted
  <2>5. CASE LeaveAdvice
    <3>1. result \in {"ok", "err"} /\ result' = result /\ given' = given
      BY <1>4, <2>5, Moves, AdviceEndsType DEF LeaveAdvice, Interrupted
    <3> QED
      BY <2>1, <3>1
  <2>6. CASE LeaveAround
    <3>1. at \in 1..Depth /\ result \in {"ok", "err"} /\ given' = given
      BY <2>6, Moves DEF LeaveAround
    <3>2. result' = result
      BY <1>4, <2>6, <3>1, AdviceEndsType DEF LeaveAround, Interrupted, Layer
    <3> QED
      BY <2>1, <3>1, <3>2
  <2>7. CASE UNCHANGED vars
    BY <1>4, <2>1, <2>7 DEF vars
  <2> QED
    BY <2>2, <2>3, <2>4, <2>5, <2>6, <2>7 DEF Next
<1> QED
  BY <1>2, <1>3, <1>4 DEF ResultIsCarried

\* A kept limiter counts a call when it lets it in, before the body can run.
LEMMA NextAdmitted ==
  ASSUME Inv, [Next]_vars
  PROVE  BodiesAreAdmitted'
<1> DEFINE Kept(i) == layers[i].around = "limit" /\ layers[i].expr # "constructor" /\ AroundRuns(i)
<1>1. /\ layers' = layers /\ Depth' = Depth
      /\ \A i \in 1..Depth : AroundRuns(i)' <=> AroundRuns(i)
  BY StackIsFixed DEF Depth, AroundRuns, Wrapper
<1> SUFFICES ASSUME NEW i \in 1..Depth, Kept(i)
             PROVE  bodies' + (IF result' = "none" /\ i < at' THEN 1 ELSE 0) <= admitted'[i]
  BY <1>1 DEF BodiesAreAdmitted
<1>2. bodies + (IF result = "none" /\ i < at THEN 1 ELSE 0) <= admitted[i]
  BY DEF Inv, BodiesAreAdmitted
<1>3. bodies \in Nat /\ admitted[i] \in Nat /\ at \in Nat /\ i \in Nat
  BY Scalars DEF Inv, TypeOK
<1>4. bodies <= admitted[i]
  BY <1>2, <1>3
<1>5. CASE Call
  BY <1>3, <1>4, <1>5 DEF Call
<1>6. CASE EnterAdvice
  <2>1. i # at /\ bodies' = bodies /\ admitted' = admitted
    BY <1>6 DEF EnterAdvice
  <2>2. result' = "none" /\ i < at' => result = "none" /\ i < at
    BY <1>3, <1>6, <2>1, Moves
  <2> QED
    BY <1>2, <1>3, <1>4, <2>1, <2>2
<1>7. CASE EnterAround
  <2>1. bodies' = bodies
    BY <1>7 DEF EnterAround
  <2>2. CASE i = at
    <3>1. admitted'[i] = admitted[i] + 1
      BY <1>7, <2>2 DEF EnterAround, Layer, Instance, Inv, TypeOK
    <3> QED
      BY <1>3, <1>4, <2>1, <3>1
  <2>3. CASE i # at
    <3>1. admitted'[i] = admitted[i]
      BY <1>7, <2>3 DEF EnterAround, Inv, TypeOK
    <3>2. result' = "none" /\ i < at' => result = "none" /\ i < at
      BY <1>3, <1>7, <2>3, Moves
    <3> QED
      BY <1>2, <1>3, <1>4, <2>1, <3>1, <3>2
  <2> QED
    BY <2>2, <2>3
<1>8. CASE ShortCircuit \/ LeaveAdvice \/ LeaveAround
  <2>1. bodies' = bodies /\ admitted' = admitted
    BY <1>8 DEF ShortCircuit, LeaveAdvice, LeaveAround
  <2>2. result' # "none"
    BY <1>8, Moves
  <2> QED
    BY <1>3, <1>4, <2>1, <2>2
<1>9. CASE Body
  <2>1. admitted' = admitted /\ bodies' <= bodies + 1 /\ bodies' \in Nat
    BY <1>3, <1>9 DEF Body
  <2>2. result = "none" /\ i < at
    BY <1>9, Scalars DEF Body
  <2>3. result' # "none"
    BY <1>9, ValuesType, BodyEndsType DEF Body, Interrupted
  <2> QED
    BY <1>2, <1>3, <2>1, <2>2, <2>3
<1>10. CASE UNCHANGED vars
  BY <1>2, <1>10 DEF vars
<1> QED
  BY <1>5, <1>6, <1>7, <1>8, <1>9, <1>10 DEF Next

-----------------------------------------------------------------------------
(* The theorems *)

\* Every step preserves the invariant.
LEMMA NextInv ==
  ASSUME Inv, [Next]_vars
  PROVE  Inv'
<1>1. fn' = fn /\ layers' = layers /\ Depth' = Depth
  BY StackIsFixed DEF Depth
<1>2. (\A i \in 1..Depth : Valid(fn, layers[i]))'
  BY <1>1 DEF Inv, Valid
<1>3. (at = Depth + 1 => result = "none")'
  BY <1>1, NextScalars
<1>4. (result = "err" => fn.returns \in {"Result", "alias"})'
  BY <1>1, NextFallible
<1> QED
  BY <1>2, <1>3, <1>4, NextTypeOK, NextNested, NextHeard, NextCarried, NextAdmitted DEF Inv

\* What a call in flight owes to the layers around it holds in every state.
THEOREM InvHolds == Spec => []Inv
  BY InitInv, NextInv, PTL DEF Spec

\* Every variable stays in its type.
THEOREM TypeCorrect == Spec => []TypeOK
<1>1. Inv => TypeOK
  BY DEF Inv
<1> QED
  BY <1>1, InvHolds, PTL

\* Closed entries are paired; the opened ones are the outermost.
LEMMA InvPairs == Inv => AdviceIsPaired
<1> SUFFICES ASSUME Inv PROVE AdviceIsPaired
  OBVIOUS
<1>1. \A i \in 1..Depth : Closed(i) => log[i].after + log[i].after_error = log[i].before
  BY DEF Closed, NoAdvice, Advice
<1>2. \A i \in 1..Depth : Closed(i) => ~Unpaired(i)
  BY DEF Closed, NoAdvice, Advice, Unpaired
<1>3. \A i \in 1..Depth : Opened(i) /\ ~AroundRuns(i) => Unpaired(i)
  BY DEF Opened, Advice, Unpaired
<1>4. Depth \in Nat /\ result \in {"none", "ok", "err", "panic", "dropped"}
  BY Scalars
<1>5. ASSUME Returned PROVE \A i \in 1..Depth : Closed(i)
  BY <1>4, <1>5 DEF Returned, Inv, CallIsNested
<1>6. ASSUME at = 0, ~Returned, NEW i \in 1..Depth, NEW j \in 1..Depth,
             i < j, Unpaired(j), ~AroundRuns(i)
      PROVE  Unpaired(i)
  <2>1. result \in {"panic", "dropped"}
    BY <1>4, <1>6, Scalars DEF Returned
  <2>2. PICK k \in 0..Depth : \A m \in 1..Depth :
          (m <= k => Opened(m)) /\ (m > k => Closed(m))
    BY <2>1 DEF Inv, CallIsNested
  <2>3. j <= k
    BY <1>2, <1>4, <1>6, <2>2
  <2> QED
    BY <1>3, <1>4, <1>6, <2>2, <2>3
<1> QED
  BY <1>1, <1>2, <1>5, <1>6 DEF AdviceIsPaired

\* In a stack of any depth, of every before that ran exactly one of after and
\* after_error runs if the call returns, and none is skipped but by a call that
\* was cut short, and then the outermost.
THEOREM AdvicePaired == Spec => []AdviceIsPaired
  BY InvPairs, InvHolds, PTL

\* The advice outside all custom arounds hears of an error exactly when the
\* caller is handed one, in a stack of any depth.
THEOREM AdviceMatches == Spec => []AdviceMatchesResult
<1>1. Inv => AdviceMatchesResult
  BY Scalars DEF Inv, ResultIsHeard, AdviceMatchesResult, Returned
<1> QED
  BY <1>1, InvHolds, PTL

\* Through any number of limiters and advice the caller gets the body's
\* result or a refusal that it can tell from a value.
THEOREM ResultHandedOn == Spec => []ResultIsTheBodys
<1>1. Inv => ResultIsTheBodys
  BY DEF Inv, ResultIsCarried, ResultIsTheBodys, Returned
<1> QED
  BY <1>1, InvHolds, PTL

\* No custom around of an aspect that the macro can find is skipped.
THEOREM AroundCalled == Spec => []KnownAroundIsCalled
<1>1. ASSUME Inv, at = Depth + 1, NEW i \in 1..Depth, Known(layers[i]), Custom(layers[i])
      PROVE  log[i].around = 1
  <2>1. AroundRuns(i)
    <3>1. Valid(fn, layers[i])
      BY <1>1 DEF Inv
    <3>2. layers[i].trait \in {"Aspect", "AsyncAspect"}
      BY WeaveAssumption, <1>1 DEF Inv, TypeOK, WeaveAssumption
    <3> QED
      BY <1>1, <3>1, <3>2 DEF AroundRuns, Wrapper, Valid, IsAsyncAspect,
         HasCustomSyncAround, HasCustomAsyncAround
  <2>2. Opened(i)
    BY <1>1, Scalars DEF Inv, CallIsNested
  <2> QED
    BY <2>1, <2>2 DEF Opened, Advice
<1>2. Inv => KnownAroundIsCalled
  BY <1>1 DEF KnownAroundIsCalled
<1> QED
  BY <1>2, InvHolds, PTL

\* A limiter that outlives the call keeps its limit, wherever it is stacked.
THEOREM LimitKept == Spec => []LimitIsKept
<1>1. ASSUME Inv, NEW i \in 1..Depth, layers[i].around = "limit",
             layers[i].expr # "constructor", AroundRuns(i)
      PROVE  bodies <= Limit
  <2>1. bodies + (IF result = "none" /\ i < at THEN 1 ELSE 0) <= admitted[i]
    BY <1>1 DEF Inv, BodiesAreAdmitted
  <2>2. admitted[i] \in 0..Limit
    BY <1>1 DEF Inv, TypeOK
  <2> QED
    BY <1>1, <2>1, <2>2, Scalars
<1>2. Inv => LimitIsKept
  BY <1>1 DEF LimitIsKept
<1> QED
  BY <1>2, InvHolds, PTL
==============================================================================
