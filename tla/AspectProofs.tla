------------------------------ MODULE AspectProofs ------------------------------
(***************************************************************************)
(* Proofs about the aspects that measure calls, decide over them or change *)
(* what is shared. The measurements, for every set of functions, every     *)
(* finite set of callers, any number of threads that clear, and every      *)
(* bound: counts and histograms agree up to the calls that explain the     *)
(* difference, and so do histograms and timings. The security example's    *)
(* authorization (for all users, visitors and stacks of requirements), the *)
(* transactional functions (any number of clients and calls), the user API *)
(* (handlers and requests) and validation (inputs and lists of rules).     *)
(* Last, what is proved of these modules and of the registry holds in      *)
(* their common instance.                                                  *)
(***************************************************************************)
EXTENDS MCAspects, RegistryProofs

-----------------------------------------------------------------------------
(* Measurement: every call counted is measured, or the difference explained. *)

CallRecord == [pc : Stages, fn : Functions, outer : Nat, inner : Nat]

-----------------------------------------------------------------------------
(* The calls in flight *)

\* There are finitely many of them, and a caller is among them if its call is
\* past the counter.
LEMMA InFlightType ==
  ASSUME NEW f
  PROVE  /\ InFlight(f) = {c \in Callers : /\ calls[c] # Idle
                                           /\ calls[c].fn = f
                                           /\ calls[c].pc \in Stages \ {"entered"}}
         /\ IsFiniteSet(InFlight(f))
         /\ Cardinality(InFlight(f)) \in Nat
<1>1. InFlight(f) = {c \in Callers : /\ calls[c] # Idle
                                     /\ calls[c].fn = f
                                     /\ calls[c].pc \in Stages \ {"entered"}}
  BY DEF InFlight, At, InCall
<1>2. IsFiniteSet(Callers) /\ InFlight(f) \subseteq Callers
  BY <1>1, MeasurementAssumption DEF MeasurementAssumption
<1>3. IsFiniteSet(InFlight(f))
  BY <1>2, FS_Subset
<1> QED
  BY <1>1, <1>3, FS_CardinalityType

\* A stage of a call that is under way is followed by another.
LEMMA GoesOn ==
  ASSUME Shape, NEW c \in Callers, NEW from \in Stages, NEW to \in Stages, Goes(c, from, to)
  PROVE  /\ calls[c] \in CallRecord /\ calls[c].pc = from
         /\ calls' = [calls EXCEPT ![c] = [calls[c] EXCEPT !.pc = to]]
         /\ calls'[c] \in CallRecord /\ calls'[c].pc = to /\ calls'[c].fn = calls[c].fn
         /\ calls' \in [Callers -> {Idle} \cup CallRecord]
<1>1. calls[c] \in CallRecord /\ calls[c].pc = from
  BY DEF Shape, CallRecord, Goes, Idle, Stages
<1>2. calls' = [calls EXCEPT ![c] = [calls[c] EXCEPT !.pc = to]]
  BY DEF Goes, Shape
<1>3. [calls[c] EXCEPT !.pc = to] \in CallRecord
  BY <1>1 DEF CallRecord
<1> QED
  BY <1>1, <1>2, <1>3 DEF Shape, CallRecord

\* A record of a call is not that of an idle caller.
LEMMA StageIsNotIdle == \A r \in CallRecord : r # Idle /\ r.pc # "idle"
  BY DEF CallRecord, Idle, Stages

\* The calls in flight stay the same while a call goes on behind the counter,
LEMMA GoesOnInFlight ==
  ASSUME Shape, NEW c \in Callers, NEW from \in Stages \ {"entered"},
         NEW to \in Stages \ {"entered"}, Goes(c, from, to), NEW f
  PROVE  InFlight(f)' = InFlight(f)
<1>1. /\ calls[c] \in CallRecord /\ calls[c].pc = from /\ calls'[c] \in CallRecord
      /\ calls'[c].pc = to /\ calls'[c].fn = calls[c].fn
      /\ \A d \in Callers : d # c => calls'[d] = calls[d]
  BY GoesOn DEF Shape
<1>2. \A d \in Callers : d \in InFlight(f)' <=> d \in InFlight(f)
  BY <1>1, StageIsNotIdle DEF InFlight, At, InCall
<1> QED
  BY <1>2 DEF InFlight, At, InCall

\* grow when it is counted,
LEMMA CountedInFlight ==
  ASSUME Shape, NEW c \in Callers, Goes(c, "entered", "counted"), NEW f
  PROVE  Cardinality(InFlight(f)') =
           Cardinality(InFlight(f)) + (IF f = calls[c].fn THEN 1 ELSE 0)
<1>1. /\ calls[c] \in CallRecord /\ calls[c].pc = "entered" /\ calls'[c] \in CallRecord
      /\ calls'[c].pc = "counted" /\ calls'[c].fn = calls[c].fn
      /\ \A d \in Callers : d # c => calls'[d] = calls[d]
  BY GoesOn DEF Shape, Stages
<1>2. c \notin InFlight(f)
  BY <1>1 DEF InFlight, At
<1>3. CASE f = calls[c].fn
  <2>1. InFlight(f)' = InFlight(f) \cup {c}
    BY <1>1, <1>3, StageIsNotIdle DEF InFlight, At, InCall, Stages
  <2> QED
    BY <1>2, <1>3, <2>1, InFlightType, FS_AddElement
<1>4. CASE f # calls[c].fn
  <2>1. InFlight(f)' = InFlight(f)
    BY <1>1, <1>4, StageIsNotIdle DEF InFlight, At, InCall, Stages
  <2> QED
    BY <1>4, <2>1, InFlightType
<1> QED
  BY <1>3, <1>4

\* and shrink when it ends.
LEMMA EndedInFlight ==
  ASSUME Shape, NEW c \in Callers, calls[c].pc \in Stages \ {"entered"},
         calls' = [calls EXCEPT ![c] = Idle], NEW f
  PROVE  /\ calls[c] \in CallRecord
         /\ Cardinality(InFlight(f)) =
              Cardinality(InFlight(f)') + (IF f = calls[c].fn THEN 1 ELSE 0)
         /\ Cardinality(InFlight(f)') \in Nat
<1>1. /\ calls[c] \in CallRecord /\ calls'[c] = Idle
      /\ \A d \in Callers : d # c => calls'[d] = calls[d]
  BY DEF Shape, CallRecord, Idle, Stages
<1>2. CASE f = calls[c].fn
  <2>1. InFlight(f)' = InFlight(f) \ {c} /\ c \in InFlight(f)
    BY <1>1, <1>2, StageIsNotIdle DEF InFlight, At, InCall
  <2>2. Cardinality(InFlight(f)') = Cardinality(InFlight(f)) - 1
    BY <2>1, InFlightType, FS_RemoveElement
  <2>3. Cardinality(InFlight(f)') \in Nat
    BY <2>1, InFlightType, FS_RemoveElement, FS_CardinalityType
  <2> QED
    BY <1>1, <1>2, <2>2, <2>3, InFlightType
<1>3. CASE f # calls[c].fn
  <2>1. InFlight(f)' = InFlight(f)
    BY <1>1, <1>3, StageIsNotIdle DEF InFlight, At, InCall
  <2> QED
    BY <1>1, <1>3, <2>1, InFlightType
<1> QED
  BY <1>2, <1>3

-----------------------------------------------------------------------------
(* The invariant *)

\* Nothing has been called.
LEMMA InitInv == Init => Inv
<1> SUFFICES ASSUME Init PROVE Inv
  OBVIOUS
<1>1. Shape
  BY DEF Init, Shape
<1>2. \A f \in Functions : InFlight(f) = {}
  BY DEF Init, InFlight, At, InCall
<1>3. \A f \in Functions : Cardinality(InFlight(f)) = 0 /\ Len(histograms[f]) = 0
  BY <1>2, FS_EmptySet DEF Init
<1> QED
  BY <1>1, <1>3 DEF Init, Inv, CountsAddUp, CallsAreAccounted

\* A step that moves no call into or out of flight, and leaves counters and
\* histograms alone, preserves the invariant.
LEMMA QuietInv ==
  ASSUME Inv, Shape', UNCHANGED <<counters, histograms, clearing, panicked, straddling>>,
         pristine' => pristine, \A f \in Functions : InFlight(f)' = InFlight(f)
  PROVE  Inv'
<1>1. CountsAddUp'
  BY DEF Inv, CountsAddUp
<1>2. CallsAreAccounted'
  BY DEF Inv, CallsAreAccounted
<1> QED
  BY <1>1, <1>2 DEF Inv

\* Numbers of the invariant.
LEMMA Numbers ==
  ASSUME Shape, NEW f \in Functions
  PROVE  /\ counters[f] \in Nat /\ straddling[f] \in Nat /\ panicked[f] \in Nat
         /\ histograms[f] \in Seq(Nat) /\ Len(histograms[f]) \in Nat
         /\ Cardinality(InFlight(f)) \in Nat
  BY InFlightType DEF Shape

\* A call that is counted is in flight from then on.
LEMMA IncrementInv ==
  ASSUME Inv, NEW c \in Callers, IncrementCounter(c)
  PROVE  Inv'
<1>1. Shape /\ Goes(c, "entered", "counted")
  BY DEF Inv, IncrementCounter
<1>2. calls[c] \in CallRecord /\ calls' \in [Callers -> {Idle} \cup CallRecord]
  BY <1>1, GoesOn DEF Stages
<1>3. /\ counters' = [counters EXCEPT ![calls[c].fn] = @ + 1]
      /\ UNCHANGED <<histograms, clearing, pristine, panicked, straddling>>
  BY DEF IncrementCounter, audit
<1>4. \A f \in Functions :
        /\ counters'[f] = counters[f] + (IF f = calls[c].fn THEN 1 ELSE 0)
        /\ Cardinality(InFlight(f)') =
             Cardinality(InFlight(f)) + (IF f = calls[c].fn THEN 1 ELSE 0)
  BY <1>1, <1>3, CountedInFlight DEF Shape
<1>5. Shape'
  BY <1>1, <1>2, <1>3 DEF Shape, CallRecord
<1>6. CountsAddUp'
  <2> SUFFICES ASSUME pristine, NEW f \in Functions
               PROVE  counters'[f] = Len(histograms[f]) + Cardinality(InFlight(f)') + panicked[f]
    BY <1>3 DEF CountsAddUp
  <2>1. counters[f] = Len(histograms[f]) + Cardinality(InFlight(f)) + panicked[f]
    BY DEF Inv, CountsAddUp
  <2> QED
    BY <1>1, <1>4, <2>1, Numbers
<1>7. CallsAreAccounted'
  <2> SUFFICES ASSUME NEW f \in Functions
               PROVE  /\ Cardinality(InFlight(f)') <= counters'[f] + straddling[f]
                      /\ clearing = {} =>
                           Len(histograms[f]) + Cardinality(InFlight(f)')
                             <= counters'[f] + straddling[f]
    BY <1>3 DEF CallsAreAccounted
  <2>1. /\ Cardinality(InFlight(f)) <= counters[f] + straddling[f]
        /\ clearing = {} =>
             Len(histograms[f]) + Cardinality(InFlight(f)) <= counters[f] + straddling[f]
    BY DEF Inv, CallsAreAccounted
  <2> QED
    BY <1>1, <1>4, <2>1, Numbers
<1> QED
  BY <1>3, <1>5, <1>6, <1>7 DEF Inv

\* A call that is pushed is in the histogram instead of in flight.
LEMMA PushInv ==
  ASSUME Inv, NEW c \in Callers, PushDuration(c)
  PROVE  Inv'
<1>1. /\ Shape /\ calls[c].pc = "elapsed" /\ calls' = [calls EXCEPT ![c] = Idle]
      /\ histograms' = [histograms EXCEPT ![calls[c].fn] = Append(@, calls[c].outer)]
      /\ UNCHANGED <<counters, clearing, pristine, panicked, straddling>>
  BY DEF Inv, PushDuration, audit
<1>2. /\ calls[c] \in CallRecord
      /\ \A f \in Functions :
           /\ Cardinality(InFlight(f)) =
                Cardinality(InFlight(f)') + (IF f = calls[c].fn THEN 1 ELSE 0)
           /\ Cardinality(InFlight(f)') \in Nat
  BY <1>1, EndedInFlight DEF Stages
<1>3. /\ DOMAIN histograms' = Functions
      /\ \A f \in Functions : /\ histograms'[f] \in Seq(Nat)
                              /\ Len(histograms'[f]) =
                                   Len(histograms[f]) + (IF f = calls[c].fn THEN 1 ELSE 0)
  <2>1. calls[c].outer \in Nat
    BY <1>2 DEF CallRecord
  <2>2. DOMAIN histograms = Functions
    BY <1>1 DEF Shape
  <2>3. DOMAIN histograms' = Functions
    BY <1>1, <2>2
  <2> SUFFICES ASSUME NEW f \in Functions
               PROVE  /\ histograms'[f] \in Seq(Nat)
                      /\ Len(histograms'[f]) =
                           Len(histograms[f]) + (IF f = calls[c].fn THEN 1 ELSE 0)
    BY <2>3
  <2>4. CASE f = calls[c].fn
    BY <1>1, <2>1, <2>2, <2>4, Numbers
  <2>5. CASE f # calls[c].fn
    BY <1>1, <2>2, <2>5, Numbers
  <2> QED
    BY <2>4, <2>5
<1>4. Shape'
  BY <1>1, <1>3 DEF Shape
<1>5. \A f \in Functions :
        /\ Len(histograms'[f]) + Cardinality(InFlight(f)')
             = Len(histograms[f]) + Cardinality(InFlight(f))
        /\ Cardinality(InFlight(f)') <= Cardinality(InFlight(f))
  <2> TAKE f \in Functions
  <2>1. Len(histograms[f]) \in Nat /\ Cardinality(InFlight(f)) \in Nat
    BY <1>1, Numbers
  <2>2. /\ Len(histograms'[f]) = Len(histograms[f]) + (IF f = calls[c].fn THEN 1 ELSE 0)
        /\ Cardinality(InFlight(f)) =
             Cardinality(InFlight(f)') + (IF f = calls[c].fn THEN 1 ELSE 0)
        /\ Cardinality(InFlight(f)') \in Nat
    BY <1>2, <1>3
  <2>3. \A m, n, k, l \in Nat, d \in {0, 1} :
          m = n + d /\ k = l + d => m + l = n + k /\ l <= k
    OBVIOUS
  <2>4. Len(histograms'[f]) \in Nat
    BY <1>3
  <2>5. (IF f = calls[c].fn THEN 1 ELSE 0) \in {0, 1}
    OBVIOUS
  <2> QED
    BY <2>1, <2>2, <2>3, <2>4, <2>5
<1>6. CountsAddUp'
  <2> SUFFICES ASSUME pristine, NEW f \in Functions
               PROVE  counters[f] = Len(histograms'[f]) + Cardinality(InFlight(f)') + panicked[f]
    BY <1>1 DEF CountsAddUp
  <2>1. counters[f] = Len(histograms[f]) + Cardinality(InFlight(f)) + panicked[f]
    BY DEF Inv, CountsAddUp
  <2>2. /\ counters[f] \in Nat /\ straddling[f] \in Nat /\ panicked[f] \in Nat
        /\ Len(histograms'[f]) \in Nat /\ Len(histograms[f]) \in Nat
        /\ Cardinality(InFlight(f)) \in Nat /\ Cardinality(InFlight(f)') \in Nat
    BY <1>1, <1>2, <1>3, Numbers
  <2> QED
    BY <1>5, <2>1, <2>2
<1>7. CallsAreAccounted'
  <2> SUFFICES ASSUME NEW f \in Functions
               PROVE  /\ Cardinality(InFlight(f)') <= counters[f] + straddling[f]
                      /\ clearing = {} =>
                           Len(histograms'[f]) + Cardinality(InFlight(f)')
                             <= counters[f] + straddling[f]
    BY <1>1 DEF CallsAreAccounted
  <2>1. /\ Cardinality(InFlight(f)) <= counters[f] + straddling[f]
        /\ clearing = {} =>
             Len(histograms[f]) + Cardinality(InFlight(f)) <= counters[f] + straddling[f]
    BY DEF Inv, CallsAreAccounted
  <2>2. /\ counters[f] \in Nat /\ straddling[f] \in Nat /\ panicked[f] \in Nat
        /\ Len(histograms'[f]) \in Nat /\ Len(histograms[f]) \in Nat
        /\ Cardinality(InFlight(f)) \in Nat /\ Cardinality(InFlight(f)') \in Nat
    BY <1>1, <1>2, <1>3, Numbers
  <2> QED
    BY <1>5, <2>1, <2>2
<1> QED
  BY <1>1, <1>4, <1>6, <1>7 DEF Inv

\* A call that panics is in flight no more, and never measured.
LEMMA PanicInv ==
  ASSUME Inv, NEW c \in Callers, Panic(c)
  PROVE  Inv'
<1>1. /\ Shape /\ calls[c].pc = "running" /\ calls' = [calls EXCEPT ![c] = Idle]
      /\ panicked' = [panicked EXCEPT ![calls[c].fn] = @ + 1]
      /\ UNCHANGED <<counters, histograms, clearing, pristine, straddling>>
  BY DEF Inv, Panic, measured
<1>2. /\ calls[c] \in CallRecord
      /\ \A f \in Functions :
           /\ Cardinality(InFlight(f)) =
                Cardinality(InFlight(f)') + (IF f = calls[c].fn THEN 1 ELSE 0)
           /\ Cardinality(InFlight(f)') \in Nat
  BY <1>1, EndedInFlight DEF Stages
<1>3. \A f \in Functions : panicked'[f] = panicked[f] + (IF f = calls[c].fn THEN 1 ELSE 0)
  BY <1>1 DEF Shape
<1>4. Shape'
  BY <1>1, <1>2, SMTT(20) DEF Shape, CallRecord
<1>5. CountsAddUp'
  <2> SUFFICES ASSUME pristine, NEW f \in Functions
               PROVE  counters[f] = Len(histograms[f]) + Cardinality(InFlight(f)') + panicked'[f]
    BY <1>1 DEF CountsAddUp
  <2>1. counters[f] = Len(histograms[f]) + Cardinality(InFlight(f)) + panicked[f]
    BY DEF Inv, CountsAddUp
  <2> QED
    BY <1>1, <1>2, <1>3, <2>1, Numbers
<1>6. CallsAreAccounted'
  <2> SUFFICES ASSUME NEW f \in Functions
               PROVE  /\ Cardinality(InFlight(f)') <= counters[f] + straddling[f]
                      /\ clearing = {} =>
                           Len(histograms[f]) + Cardinality(InFlight(f)')
                             <= counters[f] + straddling[f]
    BY <1>1 DEF CallsAreAccounted
  <2>1. /\ Cardinality(InFlight(f)) <= counters[f] + straddling[f]
        /\ clearing = {} =>
             Len(histograms[f]) + Cardinality(InFlight(f)) <= counters[f] + straddling[f]
    BY DEF Inv, CallsAreAccounted
  <2> QED
    BY <1>1, <1>2, <2>1, Numbers, SMTT(20)
<1> QED
  BY <1>1, <1>4, <1>5, <1>6 DEF Inv

\* All other steps of a call only move it on.
LEMMA MovesInv ==
  ASSUME Inv, NEW c \in Callers,
         ProceedToTiming(c) \/ Return(c) \/ RecordTiming(c) \/ TakeElapsed(c)
  PROVE  Inv'
<1>1. PICK from \in Stages \ {"entered"}, to \in Stages \ {"entered"} : Goes(c, from, to)
  BY DEF ProceedToTiming, Return, RecordTiming, TakeElapsed, Stages
<1>2. UNCHANGED <<counters, histograms, clearing, pristine, panicked, straddling>>
  BY DEF ProceedToTiming, Return, RecordTiming, TakeElapsed, measured, audit
<1>3. calls' \in [Callers -> {Idle} \cup CallRecord]
  BY <1>1, GoesOn DEF Inv
<1>4. Shape'
  BY <1>2, <1>3 DEF Inv, Shape, CallRecord
<1>5. \A f \in Functions : InFlight(f)' = InFlight(f)
  BY <1>1, GoesOnInFlight DEF Inv
<1> QED
  BY <1>2, <1>4, <1>5, QuietInv

\* A call that starts is not counted yet.
LEMMA CallInv ==
  ASSUME Inv, NEW c \in Callers, NEW g \in Functions, Call(c, g)
  PROVE  Inv'
<1> DEFINE r == [pc |-> "entered", fn |-> g, outer |-> 0, inner |-> 0]
<1>1. /\ Shape /\ calls[c] = Idle /\ calls' = [calls EXCEPT ![c] = r]
      /\ UNCHANGED <<counters, histograms, clearing, pristine, panicked, straddling>>
  BY DEF Inv, Call, measured, audit
<1>2. /\ calls'[c] = r /\ r \in CallRecord
      /\ \A d \in Callers : d # c => calls'[d] = calls[d]
  BY <1>1 DEF Shape, CallRecord, Stages
<1>3. Shape'
  BY <1>1, <1>2 DEF Shape, CallRecord
<1>4. \A f \in Functions : InFlight(f)' = InFlight(f)
  <2> TAKE f \in Functions
  <2>1. \A d \in Callers : d \in InFlight(f)' <=> d \in InFlight(f)
    BY <1>1, <1>2 DEF InFlight, At, InCall
  <2> QED
    BY <2>1 DEF InFlight, At, InCall
<1> QED
  BY <1>1, <1>3, <1>4, QuietInv

\* Clocks run on in the calls under way, which stay where they are.
LEMMA TickInv ==
  ASSUME Inv, Tick
  PROVE  Inv'
<1>1. /\ Shape
      /\ UNCHANGED <<counters, histograms, clearing, pristine, panicked, straddling>>
  BY DEF Inv, Tick, measured, audit
<1>2. /\ calls' \in [Callers -> {Idle} \cup CallRecord]
      /\ \A c \in Callers :
           /\ calls'[c] = Idle <=> calls[c] = Idle
           /\ calls[c] # Idle => calls'[c].pc = calls[c].pc /\ calls'[c].fn = calls[c].fn
  <2> DEFINE next(k) == IF ~OuterRuns(k) THEN k
           ELSE [k EXCEPT !.outer = @ + 1, !.inner = IF InnerRuns(k) THEN @ + 1 ELSE @]
  <2>1. calls' = [c \in Callers |-> next(calls[c])]
    BY DEF Tick
  <2>2. \A k \in CallRecord :
          next(k) \in CallRecord /\ next(k).pc = k.pc /\ next(k).fn = k.fn
    <3> TAKE k \in CallRecord
    <3>1. k = [pc |-> k.pc, fn |-> k.fn, outer |-> k.outer, inner |-> k.inner]
          /\ k.outer + 1 \in Nat /\ k.inner + 1 \in Nat
      BY DEF CallRecord
    <3>2. next(k) \in {k,
             [pc |-> k.pc, fn |-> k.fn, outer |-> k.outer + 1, inner |-> k.inner],
             [pc |-> k.pc, fn |-> k.fn, outer |-> k.outer + 1, inner |-> k.inner + 1]}
      BY <3>1
    <3> QED
      BY <3>1, <3>2 DEF CallRecord
  <2>3. next(Idle) = Idle
    BY DEF OuterRuns
  <2>4. calls \in [Callers -> {Idle} \cup CallRecord]
    BY <1>1 DEF Shape, CallRecord
  <2> HIDE DEF next
  <2> QED
    BY <2>1, <2>2, <2>3, <2>4, StageIsNotIdle
<1>3. Shape'
  BY <1>1, <1>2 DEF Shape, CallRecord
<1>4. \A f \in Functions : InFlight(f)' = InFlight(f)
  <2> TAKE f \in Functions
  <2>1. \A c \in Callers : c \in InFlight(f)' <=> c \in InFlight(f)
    BY <1>2 DEF InFlight, At, InCall
  <2> QED
    BY <2>1 DEF InFlight, At, InCall
<1> QED
  BY <1>1, <1>3, <1>4, QuietInv

\* Clearing the counters leaves the calls in flight straddling; clearing the
\* histograms leaves no call accounted but those.
LEMMA ClearInv ==
  ASSUME Inv, NEW t \in Clearers, Clear(t)
  PROVE  Inv'
<1>0. Shape
  BY DEF Inv
<1>1. CASE ClearCounters(t)
  <2>1. /\ counters' = [f \in Functions |-> 0]
        /\ straddling' = [f \in Functions |-> Cardinality(InFlight(f))]
        /\ panicked' = [f \in Functions |-> 0]
        /\ clearing' = clearing \cup {t}
        /\ ~pristine'
        /\ UNCHANGED <<histograms, calls>>
    BY <1>1 DEF ClearCounters
  <2>2. Shape'
    BY <1>0, <2>1, Numbers DEF Shape
  <2>3. \A f \in Functions : InFlight(f)' = InFlight(f)
    BY <2>1 DEF InFlight, At, InCall
  <2>4. clearing' # {}
    BY <2>1
  <2>5. CallsAreAccounted'
    BY <1>0, <2>1, <2>3, <2>4, Numbers DEF CallsAreAccounted
  <2>6. CountsAddUp'
    BY <2>1 DEF CountsAddUp
  <2> QED
    BY <2>1, <2>2, <2>5, <2>6 DEF Inv
<1>2. CASE ClearHistograms(t)
  <2>1. /\ t \in clearing
        /\ histograms' = [f \in Functions |-> << >>]
        /\ UNCHANGED <<counters, calls, pristine, panicked, straddling>>
    BY <1>2 DEF ClearHistograms, audit
  <2>2. ~pristine'
    BY <2>1 DEF Inv
  <2>3. Shape'
    BY <1>0, <2>1 DEF Shape
  <2>4. \A f \in Functions : InFlight(f)' = InFlight(f) /\ Len(histograms'[f]) = 0
    BY <2>1 DEF InFlight, At, InCall
  <2>5. CallsAreAccounted'
    <3> SUFFICES ASSUME NEW f \in Functions
                 PROVE  /\ Cardinality(InFlight(f)') <= counters[f] + straddling[f]
                        /\ Len(histograms'[f]) + Cardinality(InFlight(f)')
                             <= counters[f] + straddling[f]
      BY <2>1 DEF CallsAreAccounted
    <3>1. Cardinality(InFlight(f)) <= counters[f] + straddling[f]
      BY DEF Inv, CallsAreAccounted
    <3> QED
      BY <1>0, <2>4, <3>1, Numbers
  <2>6. CountsAddUp'
    BY <2>2 DEF CountsAddUp
  <2> QED
    BY <2>2, <2>3, <2>5, <2>6 DEF Inv
<1> QED
  BY <1>1, <1>2 DEF Clear

\* Every step preserves the invariant.
LEMMA NextInv ==
  ASSUME Inv, [Next]_vars
  PROVE  Inv'
<1>1. ASSUME NEW c \in InCall, Step(c) PROVE Inv'
  <2>1. c \in Callers
    BY DEF InCall
  <2> QED
    BY <1>1, <2>1, IncrementInv, PushInv, PanicInv, MovesInv DEF Step
<1>2. CASE ClearStats \/ UNCHANGED vars
  <2>1. /\ UNCHANGED <<counters, histograms, calls, clearing, panicked, straddling>>
        /\ pristine' => pristine
    BY <1>2 DEF ClearStats, vars, measured, audit
  <2>2. Shape'
    BY <2>1 DEF Inv, Shape
  <2>3. \A f \in Functions : InFlight(f)' = InFlight(f)
    BY <2>1 DEF InFlight, At, InCall
  <2> QED
    BY <2>1, <2>2, <2>3, QuietInv
<1> QED
  BY <1>1, <1>2, CallInv, ClearInv, TickInv DEF Next

\* What is counted and what is measured differ by calls that are in flight or
\* straddle a clear, in every state.
THEOREM InvHolds == Spec => []Inv
  BY InitInv, NextInv, PTL DEF Spec

\* Until something is cleared, every call that is counted is in the histogram,
\* in flight, or has panicked.
THEOREM CountsAgree == Spec => []CountsAddUp
<1>1. Inv => CountsAddUp
  BY DEF Inv
<1> QED
  BY <1>1, InvHolds, PTL

\* Once the metrics are cleared, only calls that were in flight then can be in
\* the histogram without being counted, however many threads clear at once.
THEOREM ExcessStraddles == Spec => []ExcessIsStale
<1>1. ASSUME Inv, clearing = {}, NEW f \in Functions
      PROVE  Len(histograms[f]) <= counters[f] + straddling[f]
  <2>1. Len(histograms[f]) + Cardinality(InFlight(f)) <= counters[f] + straddling[f]
    BY <1>1 DEF Inv, CallsAreAccounted
  <2> QED
    BY <1>1, <2>1, Numbers DEF Inv
<1>2. Inv => ExcessIsStale
  BY <1>1 DEF ExcessIsStale
<1> QED
  BY <1>2, InvHolds, PTL

-----------------------------------------------------------------------------
(* Sums *)

Sums(sum, s) ==
  /\ sum \in [0..Len(s) -> Nat] /\ sum[0] = 0
  /\ \A i \in 1..Len(s) : sum[i] = sum[i - 1] + s[i]

\* SumOf is the last value of the function that its definition recurses with.
LEMMA SumIsDefined ==
  ASSUME NEW s \in Seq(Nat)
  PROVE  \E sum : Sums(sum, s) /\ SumOf(s) = sum[Len(s)]
<1> DEFINE n == Len(s)
           step == [i \in 1..n |-> [v \in Nat |-> v + s[i]]]
           Def(f) == [i \in 0..n |-> IF i = 0 THEN 0 ELSE f[i - 1] + s[i]]
           sum == CHOOSE f : f = Def(f)
<1>1. n \in Nat /\ StepsIn(Nat, n, step) /\ \A i \in 1..n : s[i] \in Nat
  BY DEF StepsIn
<1>2. \A i \in 1..n, v \in Nat : step[i][v] = v + s[i]
  OBVIOUS
<1> HIDE DEF n, step
<1>3. PICK g : Recurses(g, Nat, 0, n, step)
  BY <1>1, Recursion
<1>4. g = Def(g)
  <2>1. ASSUME NEW i \in 1..n  PROVE g[i] = g[i - 1] + s[i]
    <3>1. g[i - 1] \in Nat /\ g[i] = step[i][g[i - 1]]
      BY <1>1, <1>3 DEF Recurses
    <3> QED  BY <1>2, <3>1
  <2>2. g = [i \in 0..n |-> g[i]] /\ g[0] = 0
    BY <1>3 DEF Recurses
  <2>3. \A i \in 0..n : i = 0 \/ i \in 1..n
    BY <1>1
  <2> QED  BY <2>1, <2>2, <2>3
<1>5. sum = Def(sum)
  <2> HIDE DEF Def
  <2> QED  BY <1>4
<1> HIDE DEF sum
<1>6. sum[0] = 0 /\ IsFunctionOn(sum, 0..n) /\ \A i \in 1..n : sum[i] = sum[i - 1] + s[i]
  <2>1. \A i \in 0..n : sum[i] = Def(sum)[i]
    BY <1>5
  <2>2. 0 \in 0..n /\ \A i \in 1..n : i # 0 /\ i \in 0..n
    BY <1>1
  <2>3. sum[0] = 0 /\ \A i \in 1..n : sum[i] = sum[i - 1] + s[i]
    BY <2>1, <2>2
  <2> QED  BY <1>5, <2>3 DEF IsFunctionOn
<1>7. \A i \in 1..n : sum[i - 1] \in Nat => sum[i] = step[i][sum[i - 1]]
  BY <1>2, <1>6
<1>8. Recurses(sum, Nat, 0, n, step)
  BY <1>1, <1>6, <1>7, RecursionStays
<1>9. SumOf(s) = sum[n]
  BY DEF SumOf, sum, n
<1> QED  BY <1>6, <1>8, <1>9 DEF Recurses, Sums, n

\* What is appended is added.
LEMMA SumOfAppend ==
  ASSUME NEW s \in Seq(Nat), NEW d \in Nat
  PROVE  SumOf(Append(s, d)) = SumOf(s) + d /\ SumOf(s) \in Nat
<1> DEFINE t == Append(s, d)
           n == Len(s)
<1>1. PICK g : Sums(g, s) /\ SumOf(s) = g[n]
  BY SumIsDefined
<1>2. t \in Seq(Nat) /\ Len(t) = n + 1 /\ n \in Nat /\ t[n + 1] = d
      /\ \A i \in 1..n : t[i] = s[i]
  OBVIOUS
<1> HIDE DEF t, n
<1>3. PICK h : Sums(h, t) /\ SumOf(t) = h[n + 1]
  BY <1>2, SumIsDefined
<1> DEFINE T == {i \in 0..n : h[i] = g[i]}
<1>4. 0 \in T
  BY <1>1, <1>2, <1>3 DEF Sums
<1>5. ASSUME NEW i \in 0..(n - 1), i \in T  PROVE i + 1 \in T
  <2>1. i + 1 \in 1..n /\ i + 1 \in 1..(n + 1) /\ (i + 1) - 1 = i
    BY <1>2
  <2>2. g[i + 1] = g[i] + s[i + 1] /\ h[i + 1] = h[i] + t[i + 1]
    BY <1>1, <1>2, <1>3, <2>1 DEF Sums, n
  <2> QED  BY <1>2, <1>5, <2>1, <2>2
<1>6. h[n] = g[n]
  <2>1. 0..n \subseteq T
    <3> HIDE DEF T
    <3> QED  BY <1>2, <1>4, <1>5, InductionTo
  <2> QED  BY <1>2, <2>1
<1>7. h[n + 1] = h[n] + t[n + 1] /\ g[n] \in Nat
  <2>1. n + 1 \in 1..(n + 1) /\ (n + 1) - 1 = n /\ n \in 0..n
    BY <1>2
  <2> QED  BY <1>1, <1>2, <1>3, <2>1 DEF Sums, n
<1> QED  BY <1>1, <1>2, <1>3, <1>6, <1>7 DEF t

\* A sum changes by as much as one of its summands.
LEMMA SumOfChanged ==
  ASSUME NEW s \in Seq(Nat), NEW t \in Seq(Nat), Len(t) = Len(s), NEW j \in 1..Len(s),
         \A i \in 1..Len(s) : i # j => t[i] = s[i]
  PROVE  SumOf(t) + s[j] = SumOf(s) + t[j] /\ SumOf(s) \in Nat /\ SumOf(t) \in Nat
<1> DEFINE n == Len(s)
<1>1. n \in Nat /\ j \in 1..n /\ s[j] \in Nat /\ t[j] \in Nat
  OBVIOUS
<1>2. PICK g : Sums(g, s) /\ SumOf(s) = g[n]
  BY SumIsDefined
<1>3. PICK h : Sums(h, t) /\ SumOf(t) = h[n]
  BY SumIsDefined
<1>4. /\ g \in [0..n -> Nat] /\ g[0] = 0 /\ \A i \in 1..n : g[i] = g[i - 1] + s[i]
      /\ h \in [0..n -> Nat] /\ h[0] = 0 /\ \A i \in 1..n : h[i] = h[i - 1] + t[i]
  BY <1>2, <1>3 DEF Sums
<1>5. \A i \in 1..n : s[i] \in Nat /\ t[i] \in Nat /\ (i # j => t[i] = s[i])
  OBVIOUS
<1> HIDE DEF n
<1> DEFINE T == {i \in 0..n : IF i < j THEN h[i] = g[i] ELSE h[i] + s[j] = g[i] + t[j]}
<1>6. 0 \in T
  BY <1>1, <1>4
<1>7. ASSUME NEW i \in 0..(n - 1), i \in T  PROVE i + 1 \in T
  <2>1. i + 1 \in 1..n /\ i + 1 \in 0..n /\ (i + 1) - 1 = i /\ i \in 0..n
    BY <1>1
  <2>2. /\ g[i + 1] = g[i] + s[i + 1] /\ h[i + 1] = h[i] + t[i + 1]
        /\ g[i] \in Nat /\ h[i] \in Nat
    BY <1>4, <2>1
  <2>3. CASE i + 1 < j
    BY <1>1, <1>5, <1>7, <2>1, <2>2, <2>3
  <2>4. CASE i + 1 = j
    BY <1>1, <1>7, <2>1, <2>2, <2>4
  <2>5. CASE i + 1 > j
    <3>1. t[i + 1] = s[i + 1] /\ s[i + 1] \in Nat
      BY <1>5, <2>1, <2>5
    <3>2. h[i] + s[j] = g[i] + t[j]
      BY <1>1, <1>7, <2>1, <2>5
    <3>3. h[i + 1] + s[j] = g[i + 1] + t[j]
      <4> DEFINE k == s[i + 1]
                 a == h[i]
                 b == g[i]
                 c == s[j]
                 e == t[j]
      <4>1. /\ a \in Nat /\ b \in Nat /\ c \in Nat /\ e \in Nat /\ k \in Nat
            /\ a + c = b + e
        BY <1>1, <2>2, <3>1, <3>2
      <4>2. h[i + 1] = a + k /\ g[i + 1] = b + k
        BY <2>2, <3>1
      <4> HIDE DEF a, b, c, e, k
      <4>3. (a + k) + c = (b + k) + e
        BY ONLY <4>1
      <4> QED  BY <4>2, <4>3 DEF c, e
    <3> QED  BY <1>1, <2>1, <2>5, <3>3
  <2> QED  BY <1>1, <2>1, <2>3, <2>4, <2>5
<1>8. n \in T
  <2>1. 0..n \subseteq T
    <3> HIDE DEF T
    <3> QED  BY <1>1, <1>6, <1>7, InductionTo
  <2> QED  BY <1>1, <2>1
<1> QED  BY <1>1, <1>2, <1>3, <1>4, <1>8

LEMMA SumOfZeros ==
  ASSUME NEW s \in Seq(Nat), \A i \in 1..Len(s) : s[i] = 0
  PROVE  SumOf(s) = 0
<1> DEFINE n == Len(s)
<1>1. PICK g : Sums(g, s) /\ SumOf(s) = g[n]
  BY SumIsDefined
<1> DEFINE T == {i \in 0..n : g[i] = 0}
<1>2. n \in Nat /\ 0 \in T
  BY <1>1 DEF Sums
<1>3. ASSUME NEW i \in 0..(n - 1), i \in T  PROVE i + 1 \in T
  <2>1. i + 1 \in 1..n /\ i + 1 \in 0..n /\ (i + 1) - 1 = i
    BY <1>2
  <2>2. g[i + 1] = g[i] + s[i + 1] /\ s[i + 1] = 0 /\ g[i] = 0
    BY <1>1, <1>3, <2>1 DEF Sums
  <2> QED  BY <2>1, <2>2
<1>4. n \in T
  <2>1. 0..n \subseteq T
    <3> HIDE DEF T, n
    <3> QED  BY <1>2, <1>3, InductionTo
  <2> QED  BY <1>2, <2>1
<1> QED  BY <1>1, <1>4

-----------------------------------------------------------------------------
(* The durations that TimingAspect has recorded and MetricsAspect has not   *)
(* yet pushed                                                              *)

\* The callers, numbered.
NumberOfCallers == Cardinality(Callers)
CallerAt == CHOOSE e : e \in Bijection(1..NumberOfCallers, Callers)

LEMMA CallersAreNumbered ==
  /\ NumberOfCallers \in Nat
  /\ CallerAt \in [1..NumberOfCallers -> Callers]
  /\ \A c \in Callers : \E j \in 1..NumberOfCallers :
       CallerAt[j] = c /\ \A i \in 1..NumberOfCallers : CallerAt[i] = c => i = j
<1>1. NumberOfCallers \in Nat /\ ExistsBijection(1..NumberOfCallers, Callers)
  BY FS_CardinalityType, MeasurementAssumption DEF MeasurementAssumption, NumberOfCallers
<1>2. CallerAt \in Bijection(1..NumberOfCallers, Callers)
  BY <1>1 DEF CallerAt, ExistsBijection
<1> QED
  BY <1>1, <1>2 DEF Bijection, Injection, Surjection, IsInjective

\* Their durations, one by one; `inner` has those of all callers.
Pending(left, inner) ==
  [i \in 1..NumberOfCallers |-> IF CallerAt[i] \in left THEN inner[CallerAt[i]] ELSE 0]

LEMMA PendingType ==
  ASSUME NEW left, NEW inner \in [Callers -> Nat]
  PROVE  /\ Pending(left, inner) \in Seq(Nat)
         /\ Len(Pending(left, inner)) = NumberOfCallers
         /\ \A i \in 1..NumberOfCallers : Pending(left, inner)[i] =
              IF CallerAt[i] \in left THEN inner[CallerAt[i]] ELSE 0
BY CallersAreNumbered DEF Pending

\* Nothing is pending when no call is left.
LEMMA NonePending ==
  ASSUME NEW inner \in [Callers -> Nat]
  PROVE  SumOf(Pending({}, inner)) = 0
<1>1. /\ Pending({}, inner) \in Seq(Nat)
      /\ \A i \in 1..Len(Pending({}, inner)) : Pending({}, inner)[i] = 0
  BY PendingType
<1> HIDE DEF Pending
<1> QED  BY <1>1, SumOfZeros

\* A call that is left adds its duration.
LEMMA MorePending ==
  ASSUME NEW left \in SUBSET Callers, NEW inner \in [Callers -> Nat], NEW c \in Callers \ left
  PROVE  /\ SumOf(Pending(left \cup {c}, inner)) = SumOf(Pending(left, inner)) + inner[c]
         /\ SumOf(Pending(left, inner)) \in Nat
<1> DEFINE s == Pending(left, inner)
           t == Pending(left \cup {c}, inner)
<1>1. PICK j \in 1..NumberOfCallers :
        CallerAt[j] = c /\ \A i \in 1..NumberOfCallers : CallerAt[i] = c => i = j
  BY CallersAreNumbered
<1>2. s \in Seq(Nat) /\ t \in Seq(Nat) /\ Len(s) = NumberOfCallers /\ Len(t) = Len(s)
  BY PendingType
<1>3. s[j] = 0 /\ t[j] = inner[c] /\ inner[c] \in Nat
  BY <1>1, PendingType
<1>4. \A i \in 1..Len(s) : i # j => t[i] = s[i]
  <2> TAKE i \in 1..Len(s)
  <2>1. i \in 1..NumberOfCallers
    BY <1>2
  <2>2. /\ s[i] = IF CallerAt[i] \in left THEN inner[CallerAt[i]] ELSE 0
        /\ t[i] = IF CallerAt[i] \in left \cup {c} THEN inner[CallerAt[i]] ELSE 0
    BY <2>1, PendingType
  <2> QED  BY <1>1, <2>1, <2>2
<1> HIDE DEF s, t
<1>5. SumOf(t) + s[j] = SumOf(s) + t[j] /\ SumOf(s) \in Nat /\ SumOf(t) \in Nat
  <2>1. j \in 1..Len(s)
    BY <1>1, <1>2
  <2> QED  BY <1>2, <1>4, <2>1, SumOfChanged
<1> QED  BY <1>3, <1>5 DEF s, t

-----------------------------------------------------------------------------
(* What the timing knows of the calls *)

Stats == [count : Nat, total : Nat, min : Nat, max : Nat]

\* The total lies between count times minimum and count times maximum.
Averages(s) == s \in Stats /\ s.count * s.min <= s.total /\ s.total <= s.count * s.max

LEMMA Products ==
  ASSUME NEW n \in Nat, NEW a \in Nat, NEW b \in Nat, a <= b
  PROVE  n * a <= n * b /\ n * a \in Nat /\ n * b \in Nat
OBVIOUS

LEMMA RecordAverages ==
  ASSUME NEW s, Averages(s), NEW d \in Nat
  PROVE  Averages(RecordIn(s, d))
<1> DEFINE n == s.count
           lo == Smaller(s.min, d)
           hi == Larger(s.max, d)
<1>1. /\ n \in Nat /\ s.total \in Nat /\ s.min \in Nat /\ s.max \in Nat
      /\ n * s.min <= s.total /\ s.total <= n * s.max
  BY DEF Averages, Stats
<1>2. /\ lo \in Nat /\ lo <= s.min /\ lo <= d
      /\ hi \in Nat /\ s.max <= hi /\ d <= hi
  BY <1>1 DEF Smaller, Larger
<1>3. RecordIn(s, d) = [count |-> n + 1, total |-> s.total + d, min |-> lo, max |-> hi]
  BY DEF RecordIn
<1> HIDE DEF n, lo, hi
<1>4. /\ n * lo <= n * s.min /\ n * s.max <= n * hi
      /\ n * lo \in Nat /\ n * hi \in Nat /\ n * s.min \in Nat /\ n * s.max \in Nat
  BY <1>1, <1>2, Products
<1>5. (n + 1) * lo = n * lo + lo /\ (n + 1) * hi = n * hi + hi
  BY <1>1, <1>2
<1>6. (n + 1) * lo <= s.total + d /\ s.total + d <= (n + 1) * hi
  BY <1>1, <1>2, <1>4, <1>5
<1>7. RecordIn(s, d) \in Stats
  BY <1>1, <1>2, <1>3 DEF Stats
<1> QED  BY <1>3, <1>6, <1>7 DEF Averages

\* Statistics s, a histogram, and the calls recorded in the one and not yet in
\* the other: the same calls, none longer than in the histogram.
Timed(s, durations, left, inner) ==
  /\ s.count = Len(durations) + Cardinality(left)
  /\ s.total <= SumOf(durations) + SumOf(Pending(left, inner))
  /\ \A k \in 1..Len(durations) : s.min <= durations[k]
  /\ \A c \in left : s.min <= inner[c]
  /\ \/ s.max = 0
     \/ \E k \in 1..Len(durations) : s.max <= durations[k]
     \/ \E c \in left : s.max <= inner[c]

\* A duration is recorded,
LEMMA RecordTimed ==
  ASSUME NEW s \in Stats, NEW durations \in Seq(Nat), NEW left \in SUBSET Callers,
         NEW inner \in [Callers -> Nat], NEW c \in Callers \ left,
         Timed(s, durations, left, inner)
  PROVE  Timed(RecordIn(s, inner[c]), durations, left \cup {c}, inner)
<1> DEFINE d == inner[c]
           lo == Smaller(s.min, d)
           hi == Larger(s.max, d)
<1>1. /\ s.count \in Nat /\ s.total \in Nat /\ s.min \in Nat /\ s.max \in Nat /\ d \in Nat
  BY DEF Stats
<1>2. /\ lo <= s.min /\ lo <= d /\ lo \in Nat
      /\ hi = s.max \/ hi = d
  BY <1>1 DEF Smaller, Larger
<1>3. RecordIn(s, d) = [count |-> s.count + 1, total |-> s.total + d, min |-> lo, max |-> hi]
  BY DEF RecordIn
<1>4. /\ Cardinality(left \cup {c}) = Cardinality(left) + 1 /\ Cardinality(left) \in Nat
      /\ Len(durations) \in Nat
  BY FS_Subset, FS_AddElement, FS_CardinalityType, MeasurementAssumption
     DEF MeasurementAssumption
<1>5. /\ SumOf(Pending(left \cup {c}, inner)) = SumOf(Pending(left, inner)) + d
      /\ SumOf(Pending(left, inner)) \in Nat /\ SumOf(durations) \in Nat
  BY MorePending, SumOfAppend
<1>6. s.count + 1 = Len(durations) + Cardinality(left \cup {c})
  BY <1>1, <1>4 DEF Timed
<1>7. s.total + d <= SumOf(durations) + SumOf(Pending(left \cup {c}, inner))
  <2>1. s.total <= SumOf(durations) + SumOf(Pending(left, inner))
    BY DEF Timed
  <2> HIDE DEF d
  <2> QED  BY ONLY <1>1, <1>5, <2>1
<1> HIDE DEF lo, hi
<1>8. \A k \in 1..Len(durations) : lo <= durations[k]
  <2> TAKE k \in 1..Len(durations)
  <2>1. s.min <= durations[k] /\ durations[k] \in Nat
    BY DEF Timed
  <2> QED  BY <1>1, <1>2, <2>1
<1>9. \A b \in left \cup {c} : lo <= inner[b]
  <2> TAKE b \in left \cup {c}
  <2>1. b \in left => s.min <= inner[b] /\ inner[b] \in Nat
    BY DEF Timed
  <2> QED  BY <1>1, <1>2, <2>1
<1>10. \/ hi = 0
       \/ \E k \in 1..Len(durations) : hi <= durations[k]
       \/ \E b \in left \cup {c} : hi <= inner[b]
  <2>1. CASE hi = d
    BY <1>1, <2>1
  <2>2. CASE hi = s.max
    BY <2>2 DEF Timed
  <2> QED  BY <1>2, <2>1, <2>2
<1> QED  BY <1>3, <1>6, <1>7, <1>8, <1>9, <1>10 DEF Timed

\* a longer one is pushed,
LEMMA PushTimed ==
  ASSUME NEW s \in Stats, NEW durations \in Seq(Nat), NEW left \in SUBSET Callers,
         NEW inner \in [Callers -> Nat], NEW c \in left, NEW outer \in Nat, inner[c] <= outer,
         Timed(s, durations, left, inner)
  PROVE  Timed(s, Append(durations, outer), left \ {c}, inner)
<1> DEFINE rest == left \ {c}
           more == Append(durations, outer)
           d == inner[c]
<1>1. s.count \in Nat /\ s.total \in Nat /\ s.min \in Nat /\ s.max \in Nat /\ d \in Nat
  BY DEF Stats
<1>2. left = rest \cup {c} /\ c \in Callers \ rest /\ rest \in SUBSET Callers
  OBVIOUS
<1>3. /\ more \in Seq(Nat) /\ Len(more) = Len(durations) + 1 /\ Len(durations) \in Nat
      /\ \A k \in 1..Len(durations) : more[k] = durations[k]
      /\ more[Len(durations) + 1] = outer
  OBVIOUS
<1> HIDE DEF more
<1>4. /\ SumOf(more) = SumOf(durations) + outer /\ SumOf(durations) \in Nat
  BY SumOfAppend DEF more
<1>5. /\ Cardinality(left) = Cardinality(rest) + 1 /\ Cardinality(rest) \in Nat
  <2>1. IsFiniteSet(rest)
    BY FS_Subset, MeasurementAssumption DEF MeasurementAssumption
  <2> HIDE DEF rest
  <2> QED  BY <1>2, <2>1, FS_AddElement, FS_CardinalityType
<1>6. /\ SumOf(Pending(left, inner)) = SumOf(Pending(rest, inner)) + d
      /\ SumOf(Pending(rest, inner)) \in Nat
  <2> HIDE DEF rest
  <2> QED  BY <1>2, MorePending
<1>7. s.count = Len(more) + Cardinality(rest)
  <2>1. s.count = Len(durations) + Cardinality(left)
    BY DEF Timed
  <2> HIDE DEF rest
  <2> QED  BY <1>3, <1>5, <2>1
<1>8. s.total <= SumOf(more) + SumOf(Pending(rest, inner))
  <2>1. s.total <= SumOf(durations) + SumOf(Pending(left, inner)) /\ d <= outer
    BY DEF Timed
  <2>2. outer \in Nat
    OBVIOUS
  <2> HIDE DEF d, rest
  <2> QED  BY ONLY <1>1, <1>4, <1>6, <2>1, <2>2
<1>9. \A k \in 1..Len(more) : k \in 1..Len(durations) \/ k = Len(durations) + 1
  BY <1>3
<1>10. \A k \in 1..Len(more) : s.min <= more[k]
  <2>1. s.min <= outer
    BY <1>1 DEF Timed
  <2> QED  BY <1>3, <1>9, <2>1 DEF Timed
<1>11. \A b \in rest : s.min <= inner[b]
  BY DEF Timed
<1>12. \/ s.max = 0
       \/ \E k \in 1..Len(more) : s.max <= more[k]
       \/ \E b \in rest : s.max <= inner[b]
  <2>1. CASE \E k \in 1..Len(durations) : s.max <= durations[k]
    <3>1. PICK k \in 1..Len(durations) : s.max <= durations[k]
      BY <2>1
    <3>2. k \in 1..Len(more) /\ more[k] = durations[k]
      BY <1>3
    <3> QED  BY <3>1, <3>2
  <2>2. CASE \E b \in left : s.max <= inner[b]
    <3>1. PICK b \in left : s.max <= inner[b]
      BY <2>2
    <3>2. CASE b = c
      <4>1. Len(durations) + 1 \in 1..Len(more) /\ s.max <= outer
        BY <1>1, <1>3, <3>1, <3>2
      <4> QED  BY <1>3, <4>1
    <3> QED  BY <3>1, <3>2
  <2> QED  BY <2>1, <2>2 DEF Timed
<1> HIDE DEF rest
<1> QED  BY <1>7, <1>8, <1>10, <1>11, <1>12 DEF Timed, more, rest

\* and other calls run on.
LEMMA OthersTimed ==
  ASSUME NEW s, NEW durations, NEW left, NEW inner, NEW next,
         \A c \in left : next[c] = inner[c], Timed(s, durations, left, inner)
  PROVE  Timed(s, durations, left, next)
<1>1. Pending(left, next) = Pending(left, inner)
  BY DEF Pending
<1> QED  BY <1>1 DEF Timed

-----------------------------------------------------------------------------
(* The invariant of the timing *)

Left(f) == At(f, {"leaving", "elapsed"})
Inner == [c \in Callers |-> IF calls[c] = Idle THEN 0 ELSE calls[c].inner]

\* The inner clock of a call is not ahead of its outer one.
ClocksAgree == \A c \in Callers : calls[c] # Idle => calls[c].inner <= calls[c].outer

TimingInv ==
  /\ stats \in [Functions -> Stats]
  /\ \A f \in Functions : Averages(stats[f])
  /\ ClocksAgree
  /\ pristine => \A f \in Functions : Timed(stats[f], histograms[f], Left(f), Inner)

LEMMA LeftType ==
  ASSUME Shape, NEW f
  PROVE  /\ Left(f) = {c \in Callers : /\ calls[c] # Idle /\ calls[c].fn = f
                                       /\ calls[c].pc \in {"leaving", "elapsed"}}
         /\ Inner \in [Callers -> Nat]
         /\ \A c \in Callers : calls[c] # Idle => /\ calls[c] \in CallRecord
                                                  /\ Inner[c] = calls[c].inner
BY DEF Left, At, InCall, Inner, Shape, CallRecord

LEMMA TimingInitInv == Init => TimingInv
<1> SUFFICES ASSUME Init PROVE TimingInv
  OBVIOUS
<1>1. Shape
  BY InitInv DEF Inv
<1>2. NoStats \in Stats /\ Averages(NoStats)
  BY MeasurementAssumption DEF MeasurementAssumption, NoStats, Averages, Stats
<1>3. /\ NoStats.count = 0 /\ NoStats.total = 0 /\ NoStats.max = 0
  BY DEF NoStats
<1>4. ASSUME NEW f \in Functions
      PROVE  Timed(stats[f], histograms[f], Left(f), Inner)
  <2>1. /\ Left(f) = {} /\ stats[f] = NoStats /\ histograms[f] = << >>
    BY DEF Init, Left, At, InCall
  <2>2. /\ Cardinality({}) = 0 /\ Len(<< >>) = 0 /\ SumOf(<< >>) = 0
        /\ SumOf(Pending({}, Inner)) = 0
    <3>1. << >> \in Seq(Nat) /\ Len(<< >>) = 0
      OBVIOUS
    <3>2. SumOf(<< >>) = 0
      <4> DEFINE none == << >>
      <4>1. none \in Seq(Nat) /\ \A i \in 1..Len(none) : none[i] = 0
        OBVIOUS
      <4> HIDE DEF none
      <4>2. SumOf(none) = 0
        BY <4>1, SumOfZeros
      <4> QED  BY <4>2 DEF none
    <3> QED  BY <1>1, <3>1, <3>2, FS_EmptySet, LeftType, NonePending
  <2> QED  BY <1>3, <2>1, <2>2 DEF Timed
<1>5. ClocksAgree
  BY DEF Init, ClocksAgree
<1> QED  BY <1>2, <1>4, <1>5 DEF Init, TimingInv

\* A step that records and pushes nothing.
LEMMA QuietTimingInv ==
  ASSUME TimingInv, UNCHANGED stats, pristine' => pristine /\ UNCHANGED histograms,
         \A f \in Functions : Left(f)' = Left(f),
         \A f \in Functions : \A c \in Left(f) : Inner'[c] = Inner[c],
         ClocksAgree'
  PROVE  TimingInv'
<1>1. ASSUME pristine', NEW f \in Functions
      PROVE  Timed(stats'[f], histograms'[f], Left(f)', Inner')
  <2>1. Timed(stats[f], histograms[f], Left(f), Inner) /\ histograms' = histograms
    BY <1>1 DEF TimingInv
  <2>2. Timed(stats[f], histograms[f], Left(f), Inner')
    <3> DEFINE next == Inner'
               left == Left(f)
               now == Inner
    <3>1. \A c \in left : next[c] = now[c]
      OBVIOUS
    <3>2. Timed(stats[f], histograms[f], left, now)
      BY <2>1
    <3> HIDE DEF next, left, now
    <3>3. Timed(stats[f], histograms[f], left, next)
      BY <3>1, <3>2, OthersTimed
    <3> QED  BY <3>3 DEF next, left
  <2> QED  BY <2>1, <2>2
<1> QED  BY <1>1 DEF TimingInv

LEMMA GoesTo ==
  ASSUME Shape, NEW c \in Callers, NEW from \in Stages, NEW to \in Stages, Goes(c, from, to)
  PROVE  /\ calls[c] \in CallRecord /\ calls[c].pc = from
         /\ calls'[c] = [calls[c] EXCEPT !.pc = to]
         /\ calls'[c] \in CallRecord /\ calls'[c].pc = to /\ calls'[c].fn = calls[c].fn
         /\ \A d \in Callers : d # c => calls'[d] = calls[d]
<1> DEFINE k == [calls[c] EXCEPT !.pc = to]
<1>1. calls' = [calls EXCEPT ![c] = k]
  BY GoesOn
<1> HIDE DEF k
<1>2. calls'[c] = k /\ \A d \in Callers : d # c => calls'[d] = calls[d]
  BY <1>1 DEF Shape
<1> QED  BY <1>2, GoesOn DEF k

\* A stage is followed by another one, and nothing is recorded or pushed.
LEMMA GoesOnTimingInv ==
  ASSUME Shape, TimingInv, UNCHANGED <<stats, histograms, pristine>>,
         NEW c \in Callers, NEW from \in Stages, NEW to \in Stages, Goes(c, from, to),
         from \in {"leaving", "elapsed"} <=> to \in {"leaving", "elapsed"}
  PROVE  TimingInv'
<1>1. /\ calls[c] \in CallRecord /\ calls[c].pc = from
      /\ calls'[c] = [calls[c] EXCEPT !.pc = to]
      /\ calls'[c] \in CallRecord /\ calls'[c].pc = to /\ calls'[c].fn = calls[c].fn
      /\ \A d \in Callers : d # c => calls'[d] = calls[d]
  BY GoesTo
<1>2. calls[c] # Idle /\ calls'[c] # Idle
  BY <1>1, StageIsNotIdle
<1>3. calls'[c].inner = calls[c].inner /\ calls'[c].outer = calls[c].outer
  BY <1>1 DEF CallRecord
<1>4. ASSUME NEW f \in Functions  PROVE Left(f)' = Left(f)
  <2>1. \A d \in Callers : d \in Left(f)' <=> d \in Left(f)
    BY <1>1, <1>2 DEF Left, At, InCall
  <2> QED  BY <2>1 DEF Left, At, InCall
<1>5. \A d \in Callers : Inner'[d] = Inner[d]
  BY <1>1, <1>2, <1>3 DEF Inner
<1>6. ClocksAgree'
  BY <1>1, <1>2, <1>3 DEF ClocksAgree, TimingInv
<1> QED
  <2>1. \A f \in Functions : Left(f) \subseteq Callers
    BY DEF Left, At, InCall
  <2> QED  BY <1>4, <1>5, <1>6, <2>1, QuietTimingInv

\* A call ends, or one begins, that is not left.
LEMMA OtherCallTimingInv ==
  ASSUME Shape, TimingInv, UNCHANGED <<stats, histograms, pristine>>,
         NEW c \in Callers, NEW k, calls' = [calls EXCEPT ![c] = k],
         calls[c].pc \notin {"leaving", "elapsed"}, k.pc \notin {"leaving", "elapsed"},
         k # Idle => k.inner <= k.outer
  PROVE  TimingInv'
<1>1. calls'[c] = k /\ \A d \in Callers : d # c => calls'[d] = calls[d]
  BY DEF Shape
<1>2. ASSUME NEW f \in Functions  PROVE Left(f)' = Left(f)
  <2>1. \A d \in Callers : d \in Left(f)' <=> d \in Left(f)
    BY <1>1 DEF Left, At, InCall
  <2> QED  BY <2>1 DEF Left, At, InCall
<1>3. ASSUME NEW f \in Functions, NEW d \in Left(f)  PROVE Inner'[d] = Inner[d]
  BY <1>1 DEF Inner, Left, At, InCall
<1>4. ClocksAgree'
  BY <1>1 DEF ClocksAgree, TimingInv
<1> QED  BY <1>2, <1>3, <1>4, QuietTimingInv

\* The inner duration is recorded, and the call is left.
LEMMA RecordTimingInv ==
  ASSUME Shape, TimingInv, NEW c \in Callers, RecordTiming(c)
  PROVE  TimingInv'
<1>0. PICK g : g = calls[c].fn
  OBVIOUS
<1>1. /\ Goes(c, "timed", "leaving")
      /\ stats' = [stats EXCEPT ![g] = RecordIn(@, calls[c].inner)]
      /\ UNCHANGED <<histograms, pristine>>
  BY <1>0 DEF RecordTiming, audit
<1>2. /\ calls[c] \in CallRecord /\ calls[c].pc = "timed"
      /\ calls'[c] = [calls[c] EXCEPT !.pc = "leaving"]
      /\ calls'[c] \in CallRecord /\ calls'[c].pc = "leaving" /\ calls'[c].fn = g
      /\ \A d \in Callers : d # c => calls'[d] = calls[d]
  BY <1>0, <1>1, GoesTo DEF Stages
<1>3. calls[c] # Idle /\ calls'[c] # Idle
  BY <1>2, StageIsNotIdle
<1>4. /\ calls'[c].inner = calls[c].inner /\ calls'[c].outer = calls[c].outer
      /\ calls[c].inner \in Nat /\ g \in Functions
  BY <1>0, <1>2 DEF CallRecord
<1>5. Inner' = Inner /\ Inner \in [Callers -> Nat] /\ Inner[c] = calls[c].inner
  <2>1. \A d \in Callers : calls'[d] = Idle <=> calls[d] = Idle
    BY <1>2, <1>3
  <2>2. \A d \in Callers : calls[d] # Idle => calls'[d].inner = calls[d].inner
    BY <1>2, <1>4
  <2>3. Inner' = Inner
    BY <2>1, <2>2 DEF Inner
  <2> QED  BY <1>3, <2>3, LeftType
<1>6. /\ Left(g)' = Left(g) \cup {c} /\ c \in Callers \ Left(g)
      /\ Left(g) \in SUBSET Callers
  <2>1. \A d \in Callers : d \in Left(g)' <=> d \in Left(g) \cup {c}
    BY <1>0, <1>2, <1>3 DEF Left, At, InCall
  <2> QED  BY <1>2, <2>1 DEF Left, At, InCall
<1>7. ASSUME NEW f \in Functions, f # g  PROVE Left(f)' = Left(f)
  <2>1. \A d \in Callers : d \in Left(f)' <=> d \in Left(f)
    BY <1>0, <1>2, <1>3, <1>7 DEF Left, At, InCall
  <2> QED  BY <2>1 DEF Left, At, InCall
<1>8. /\ stats'[g] = RecordIn(stats[g], Inner[c])
      /\ stats \in [Functions -> Stats] /\ DOMAIN stats' = Functions
      /\ \A f \in Functions : f # g => stats'[f] = stats[f]
  BY <1>1, <1>4, <1>5 DEF TimingInv
<1>9. ClocksAgree'
  BY <1>2, <1>3, <1>4 DEF ClocksAgree, TimingInv
<1>10. \A f \in Functions : Averages(stats'[f])
  BY <1>4, <1>5, <1>8, RecordAverages DEF TimingInv
<1>11. stats' \in [Functions -> Stats]
  <2>1. stats' = [f \in Functions |-> stats'[f]]
    BY <1>1, <1>8
  <2> QED  BY <1>10, <2>1 DEF Averages
<1>12. ASSUME pristine', NEW f \in Functions
       PROVE  Timed(stats'[f], histograms'[f], Left(f)', Inner')
  <2>1. Timed(stats[f], histograms[f], Left(f), Inner) /\ histograms' = histograms
    BY <1>1, <1>12 DEF TimingInv
  <2>2. CASE f # g
    BY <1>5, <1>7, <1>8, <2>1, <2>2
  <2>3. CASE f = g
    <3> DEFINE inner == Inner
               left == Left(g)
    <3>1. /\ stats[g] \in Stats /\ histograms[g] \in Seq(Nat) /\ left \in SUBSET Callers
          /\ inner \in [Callers -> Nat] /\ c \in Callers \ left
          /\ Timed(stats[g], histograms[g], left, inner)
      BY <1>4, <1>5, <1>6, <1>8, <2>1, <2>3 DEF Shape
    <3> HIDE DEF inner, left
    <3>2. Timed(RecordIn(stats[g], inner[c]), histograms[g], left \cup {c}, inner)
      BY <3>1, RecordTimed
    <3>3. /\ stats'[f] = RecordIn(stats[g], inner[c]) /\ histograms'[f] = histograms[g]
          /\ Left(f)' = left \cup {c} /\ Inner' = inner
      BY <1>5, <1>6, <1>8, <2>1, <2>3 DEF inner, left
    <3> QED  BY <3>2, <3>3
  <2> QED  BY <2>2, <2>3
<1> QED  BY <1>9, <1>10, <1>11, <1>12 DEF TimingInv

\* The outer duration is pushed, and the call ends.
LEMMA PushTimingInv ==
  ASSUME Shape, TimingInv, NEW c \in Callers, PushDuration(c)
  PROVE  TimingInv'
<1>0. PICK g, outer : g = calls[c].fn /\ outer = calls[c].outer
  OBVIOUS
<1>1. /\ calls[c].pc = "elapsed" /\ calls' = [calls EXCEPT ![c] = Idle]
      /\ histograms' = [histograms EXCEPT ![g] = Append(@, outer)]
      /\ UNCHANGED <<stats, pristine>>
  BY <1>0 DEF PushDuration, audit
<1>2. calls[c] # Idle /\ calls[c] \in CallRecord
  BY <1>1 DEF Shape, CallRecord, Idle
<1>3. outer \in Nat /\ g \in Functions /\ calls[c].inner <= outer
  BY <1>0, <1>2 DEF CallRecord, TimingInv, ClocksAgree
<1>4. /\ calls'[c] = Idle /\ \A d \in Callers : d # c => calls'[d] = calls[d]
  BY <1>1 DEF Shape
<1>5. /\ Inner \in [Callers -> Nat] /\ Inner[c] = calls[c].inner
      /\ \A d \in Callers : d # c => Inner'[d] = Inner[d]
  <2>1. \A d \in Callers : d # c => Inner'[d] = Inner[d]
    BY <1>4 DEF Inner
  <2> QED  BY <1>2, <2>1, LeftType
<1>6. /\ Left(g)' = Left(g) \ {c} /\ c \in Left(g) /\ Left(g) \in SUBSET Callers
  <2>1. \A d \in Callers : d \in Left(g)' <=> d \in Left(g) \ {c}
    BY <1>4 DEF Left, At, InCall
  <2> QED  BY <1>0, <1>1, <1>2, <2>1 DEF Left, At, InCall
<1>7. ASSUME NEW f \in Functions, f # g  PROVE Left(f)' = Left(f) /\ c \notin Left(f)
  <2>1. c \notin Left(f)
    BY <1>0, <1>7 DEF Left, At
  <2>2. \A d \in Callers : d \in Left(f)' <=> d \in Left(f)
    BY <1>4, <2>1 DEF Left, At, InCall
  <2> QED  BY <2>1, <2>2 DEF Left, At, InCall
<1>8. /\ histograms'[g] = Append(histograms[g], outer)
      /\ \A f \in Functions : f # g => histograms'[f] = histograms[f]
  BY <1>1, <1>3 DEF Shape
<1>9. ClocksAgree'
  BY <1>4 DEF ClocksAgree, TimingInv
<1>10. ASSUME pristine', NEW f \in Functions
       PROVE  Timed(stats'[f], histograms'[f], Left(f)', Inner')
  <2> DEFINE inner == Inner
             next == Inner'
             left == Left(f)
             after == Left(f)'
  <2>1. Timed(stats[f], histograms[f], left, inner) /\ stats' = stats
    BY <1>1, <1>10 DEF TimingInv
  <2>2. left \subseteq Callers
    BY DEF Left, At, InCall
  <2>3. CASE f # g
    <3>1. \A d \in left : next[d] = inner[d]
      BY <1>5, <1>7, <2>2, <2>3
    <3>2. after = left /\ histograms'[f] = histograms[f]
      BY <1>7, <1>8, <2>3
    <3> HIDE DEF inner, next, left, after
    <3>3. Timed(stats[f], histograms[f], left, next)
      BY <2>1, <3>1, OthersTimed
    <3>4. Timed(stats'[f], histograms'[f], after, next)
      BY <2>1, <3>2, <3>3
    <3> QED  BY <3>4 DEF after, next
  <2>4. CASE f = g
    <3>1. /\ stats[f] \in Stats /\ histograms[f] \in Seq(Nat) /\ left \in SUBSET Callers
          /\ inner \in [Callers -> Nat] /\ c \in left /\ inner[c] <= outer
      BY <1>0, <1>3, <1>5, <1>6, <2>2, <2>4 DEF Shape, TimingInv
    <3>2. \A d \in left \ {c} : next[d] = inner[d]
      BY <1>5, <2>2
    <3>3. after = left \ {c} /\ histograms'[f] = Append(histograms[f], outer)
      BY <1>6, <1>8, <2>4
    <3>4. outer \in Nat
      BY <1>3
    <3> HIDE DEF inner, next, left, after
    <3>5. Timed(stats[f], Append(histograms[f], outer), left \ {c}, inner)
      BY <2>1, <3>1, <3>4, PushTimed
    <3>6. Timed(stats[f], Append(histograms[f], outer), left \ {c}, next)
      BY <3>2, <3>5, OthersTimed
    <3>7. Timed(stats'[f], histograms'[f], after, next)
      BY <2>1, <3>3, <3>6
    <3> QED  BY <3>7 DEF after, next
  <2> QED  BY <2>3, <2>4
<1> QED  BY <1>1, <1>9, <1>10 DEF TimingInv

\* Clocks run on; the inner one only where the outer one does.
LEMMA TickTimingInv ==
  ASSUME Shape, TimingInv, Tick
  PROVE  TimingInv'
<1>1. UNCHANGED <<stats, histograms, pristine>>
  BY DEF Tick, measured, audit
<1> DEFINE next(k) == IF ~OuterRuns(k) THEN k
           ELSE [k EXCEPT !.outer = @ + 1, !.inner = IF InnerRuns(k) THEN @ + 1 ELSE @]
<1>2. calls' = [c \in Callers |-> next(calls[c])]
  BY DEF Tick
<1>3. next(Idle) = Idle
  BY DEF OuterRuns
<1>4. ASSUME NEW k \in CallRecord
      PROVE  /\ next(k) # Idle /\ next(k).pc = k.pc /\ next(k).fn = k.fn
             /\ k.inner <= k.outer => next(k).inner <= next(k).outer
             /\ k.pc # "running" => next(k).inner = k.inner
  <2>1. /\ k = [pc |-> k.pc, fn |-> k.fn, outer |-> k.outer, inner |-> k.inner]
        /\ k.outer \in Nat /\ k.inner \in Nat
    BY DEF CallRecord
  <2>2. CASE ~OuterRuns(k)
    BY <2>2, StageIsNotIdle
  <2>3. CASE OuterRuns(k) /\ InnerRuns(k)
    <3>1. next(k) = [pc |-> k.pc, fn |-> k.fn, outer |-> k.outer + 1, inner |-> k.inner + 1]
      BY <2>1, <2>3
    <3>2. k.pc = "running" /\ next(k) \in CallRecord
      BY <2>1, <2>3, <3>1 DEF InnerRuns, CallRecord
    <3> HIDE DEF next
    <3> QED  BY <2>1, <3>1, <3>2, StageIsNotIdle
  <2>4. CASE OuterRuns(k) /\ ~InnerRuns(k)
    <3>1. next(k) = [pc |-> k.pc, fn |-> k.fn, outer |-> k.outer + 1, inner |-> k.inner]
      BY <2>1, <2>4
    <3>2. next(k) \in CallRecord
      BY <2>1, <3>1 DEF CallRecord
    <3> HIDE DEF next
    <3> QED  BY <2>1, <3>1, <3>2, StageIsNotIdle
  <2> QED  BY <2>2, <2>3, <2>4
<1> HIDE DEF next
<1>5. \A c \in Callers : calls[c] = Idle \/ calls[c] \in CallRecord
  BY DEF Shape, CallRecord
<1>6. \A c \in Callers : calls'[c] = next(calls[c])
  BY <1>2
<1>7. ASSUME NEW f \in Functions  PROVE Left(f)' = Left(f)
  <2>1. \A c \in Callers : c \in Left(f)' <=> c \in Left(f)
    BY <1>3, <1>4, <1>5, <1>6 DEF Left, At, InCall
  <2> QED  BY <2>1 DEF Left, At, InCall
<1>8. ASSUME NEW f \in Functions, NEW c \in Left(f)  PROVE Inner'[c] = Inner[c]
  <2>1. /\ c \in Callers /\ calls[c] # Idle /\ calls[c].pc # "running"
        /\ calls[c] \in CallRecord
    BY <1>5 DEF Left, At, InCall
  <2>2. calls'[c] # Idle /\ calls'[c].inner = calls[c].inner
    BY <1>4, <1>6, <2>1
  <2> QED  BY <2>1, <2>2 DEF Inner
<1>9. ClocksAgree'
  BY <1>3, <1>4, <1>5, <1>6 DEF ClocksAgree, TimingInv
<1> QED  BY <1>1, <1>7, <1>8, <1>9, QuietTimingInv

\* What is cleared is no longer the same calls; averages are right all the same.
LEMMA ClearTimingInv ==
  ASSUME Inv, TimingInv, ClearStats \/ \E t \in Clearers : Clear(t)
  PROVE  TimingInv'
<1>1. calls' = calls /\ ~pristine'
  BY DEF ClearStats, Clear, ClearCounters, ClearHistograms, Inv, audit
<1>2. ClocksAgree'
  BY <1>1 DEF TimingInv, ClocksAgree
<1>3. NoStats \in Stats /\ Averages(NoStats)
  BY MeasurementAssumption DEF MeasurementAssumption, NoStats, Averages, Stats
<1>4. stats' = stats \/ stats' = [f \in Functions |-> NoStats]
  BY DEF ClearStats, Clear, ClearCounters, ClearHistograms
<1> QED  BY <1>1, <1>2, <1>3, <1>4 DEF TimingInv

LEMMA TimingNextInv ==
  ASSUME Inv, TimingInv, [Next]_vars
  PROVE  TimingInv'
<1>0. Shape
  BY DEF Inv
<1>1. ASSUME NEW c \in Callers, Step(c)  PROVE TimingInv'
  <2>1. CASE IncrementCounter(c) \/ ProceedToTiming(c) \/ Return(c) \/ TakeElapsed(c)
    <3>1. PICK from \in Stages, to \in Stages :
            /\ Goes(c, from, to)
            /\ from \in {"leaving", "elapsed"} <=> to \in {"leaving", "elapsed"}
      BY <2>1 DEF IncrementCounter, ProceedToTiming, Return, TakeElapsed, Stages
    <3>2. UNCHANGED <<stats, histograms, pristine>>
      BY <2>1 DEF IncrementCounter, ProceedToTiming, Return, TakeElapsed, measured, audit
    <3> QED  BY <1>0, <3>1, <3>2, GoesOnTimingInv
  <2>2. CASE Panic(c)
    <3>1. /\ calls[c].pc = "running" /\ calls' = [calls EXCEPT ![c] = Idle]
          /\ UNCHANGED <<stats, histograms, pristine>>
      BY <2>2 DEF Panic, measured
    <3>2. Idle.pc \notin {"leaving", "elapsed"}
      BY DEF Idle
    <3> QED  BY <1>0, <3>1, <3>2, OtherCallTimingInv
  <2> QED  BY <1>0, <1>1, <2>1, <2>2, RecordTimingInv, PushTimingInv DEF Step
<1>2. ASSUME NEW c \in Callers, NEW f \in Functions, Call(c, f)  PROVE TimingInv'
  <2> DEFINE k == [pc |-> "entered", fn |-> f, outer |-> 0, inner |-> 0]
  <2>1. /\ calls[c] = Idle /\ calls' = [calls EXCEPT ![c] = k]
        /\ UNCHANGED <<stats, histograms, pristine>>
    BY <1>2 DEF Call, measured, audit
  <2>2. Idle.pc \notin {"leaving", "elapsed"}
    BY DEF Idle
  <2>3. k.pc \notin {"leaving", "elapsed"} /\ k.inner <= k.outer
    OBVIOUS
  <2> HIDE DEF k
  <2> QED  BY <1>0, <2>1, <2>2, <2>3, OtherCallTimingInv
<1>3. CASE UNCHANGED vars
  <2>1. UNCHANGED <<stats, histograms, calls, pristine>>
    BY <1>3 DEF vars, measured, audit
  <2> QED  BY <2>1 DEF TimingInv, ClocksAgree, Left, At, InCall, Inner
<1> QED
  <2>1. InCall \subseteq Callers
    BY DEF InCall
  <2> QED  BY <1>0, <1>1, <1>2, <1>3, <2>1, TickTimingInv, ClearTimingInv DEF Next

\* The calls that are timed and the calls that are measured differ by those on
\* their way from the one to the other.
THEOREM TimingInvHolds == Spec => []TimingInv
BY InvHolds, TimingInitInv, TimingNextInv, PTL DEF Spec

\* The average lies between the bounds of the total.
LEMMA AverageIsBetween ==
  ASSUME NEW s, Averages(s), s.count \in 1..(U32 - 1)
  PROVE  s.min <= AverageDuration(s) /\ AverageDuration(s) <= s.max
<1> DEFINE n == s.count
           total == s.total
           q == total \div n
<1>1. /\ n \in Nat /\ n > 0 /\ total \in Nat /\ s.min \in Nat /\ s.max \in Nat
      /\ n * s.min <= total /\ total <= n * s.max
  BY DEF Averages, Stats
<1>2. n % U32 = n
  BY MeasurementAssumption DEF MeasurementAssumption
<1>3. AverageDuration(s) = q
  BY <1>1, <1>2 DEF AverageDuration
<1> HIDE DEF n, total
<1>4. q \in Nat /\ n * q <= total /\ total < n * (q + 1)
  BY ONLY <1>1
<1> HIDE DEF q
<1>5. s.min <= q
  <2> DEFINE m == s.min
  <2>1. m \in Nat /\ n * m <= total
    BY <1>1
  <2> HIDE DEF m
  <2>2. ASSUME q + 1 <= m  PROVE FALSE
    <3>1. q + 1 \in Nat /\ n * (q + 1) <= n * m /\ n * (q + 1) \in Nat /\ n * m \in Nat
      BY <1>1, <1>4, <2>1, <2>2, Products
    <3> QED  BY ONLY <1>1, <1>4, <2>1, <3>1
  <2>3. m <= q
    BY ONLY <1>4, <2>1, <2>2
  <2> QED  BY <2>3 DEF m
<1>6. q <= s.max
  <2> DEFINE m == s.max
  <2>1. m \in Nat /\ total <= n * m
    BY <1>1
  <2> HIDE DEF m
  <2>2. ASSUME m + 1 <= q  PROVE FALSE
    <3>1. n * (m + 1) <= n * q /\ n * (m + 1) = n * m + n
      BY <1>1, <1>4, <2>1, <2>2, Products
    <3> QED  BY ONLY <1>1, <1>4, <2>1, <3>1
  <2>3. q <= m
    BY ONLY <1>4, <2>1, <2>2
  <2> QED  BY <2>3 DEF m
<1> QED  BY <1>3, <1>5, <1>6

\* Timings and measurements of the same calls agree, and averages are averages,
\* for every number of callers and every duration.
THEOREM TimingsAgree == Spec => []TimingAgreesWithMetrics
<1>1. ASSUME Inv, TimingInv  PROVE TimingAgreesWithMetrics
  <2> SUFFICES ASSUME NEW f \in Functions
      PROVE  LET left == At(f, {"leaving", "elapsed"})
                 durations == histograms[f]
                 s == stats[f]
             IN  /\ pristine => s.count = Len(durations) + Cardinality(left)
                 /\ pristine /\ left = {} =>
                      /\ s.total <= SumOf(durations)
                      /\ \A k \in DOMAIN durations : s.min <= durations[k]
                      /\ s.max = 0 \/ \E k \in DOMAIN durations : s.max <= durations[k]
                 /\ s.count \in 1..(U32 - 1) =>
                      s.min <= AverageDuration(s) /\ AverageDuration(s) <= s.max
    BY Zenon DEF TimingAgreesWithMetrics
  <2>1. Averages(stats[f])
    BY <1>1 DEF TimingInv
  <2>2. stats[f].count \in 1..(U32 - 1) =>
          stats[f].min <= AverageDuration(stats[f]) /\ AverageDuration(stats[f]) <= stats[f].max
    BY <2>1, AverageIsBetween
  <2>3. pristine => Timed(stats[f], histograms[f], At(f, {"leaving", "elapsed"}), Inner)
    BY <1>1 DEF TimingInv, Left
  <2>4. /\ Inner \in [Callers -> Nat] /\ histograms[f] \in Seq(Nat)
        /\ stats[f].total \in Nat
    BY <1>1, <2>1, LeftType DEF Inv, Shape, Averages, Stats
  <2>5. DOMAIN histograms[f] = 1..Len(histograms[f]) /\ SumOf(histograms[f]) \in Nat
    BY <2>4, SumOfAppend
  <2>6. ASSUME pristine, At(f, {"leaving", "elapsed"}) = {}
        PROVE  stats[f].total <= SumOf(histograms[f])
    <3>1. Timed(stats[f], histograms[f], {}, Inner)
      BY <2>3, <2>6
    <3>2. SumOf(Pending({}, Inner)) = 0
      BY <2>4, NonePending
    <3>3. stats[f].total <= SumOf(histograms[f]) + SumOf(Pending({}, Inner))
      BY <3>1 DEF Timed
    <3> QED  BY <2>4, <2>5, <3>2, <3>3
  <2> QED  BY <2>2, <2>3, <2>5, <2>6 DEF Timed
<1> QED  BY <1>1, InvHolds, TimingInvHolds, PTL

-----------------------------------------------------------------------------
(* The bounds of the type invariant *)

\* Where a call is that has not been counted, cannot have panicked, has not been
\* timed, or has not been pushed.
Uncounted == {"entered"}
Unreturned == {"entered", "counted", "running"}
Untimed == {"entered", "counted", "running", "timed"}

\* There is room for the calls of f at these stages, one each.
Room(n, f, stages) == n + Cardinality(At(f, stages)) <= MaxCalls

InNumber ==
  \A f \in Functions :
    /\ Room(counters[f], f, Uncounted)
    /\ Room(panicked[f], f, Unreturned)
    /\ Room(stats[f].count, f, Untimed)
    /\ Room(Len(histograms[f]), f, Stages)

InTime ==
  /\ \A c \in Callers : calls[c] # Idle => calls[c].outer <= MaxDuration
  /\ \A f \in Functions :
       /\ stats[f].min <= MaxDuration + 1 /\ stats[f].max <= MaxDuration
       /\ \A k \in 1..Len(histograms[f]) : histograms[f][k] <= MaxDuration

OfClears ==
  /\ clearing \subseteq Clearers /\ pristine \in BOOLEAN
  /\ \A f \in Functions : straddling[f] <= Cardinality(Callers)

TypeInv == Inv /\ TimingInv /\ InNumber /\ InTime /\ OfClears

LEMMA AtType ==
  ASSUME NEW f, NEW S
  PROVE  /\ At(f, S) = {c \in Callers : calls[c] # Idle /\ calls[c].fn = f /\ calls[c].pc \in S}
         /\ IsFiniteSet(At(f, S)) /\ Cardinality(At(f, S)) \in Nat
<1>1. At(f, S) = {c \in Callers : calls[c] # Idle /\ calls[c].fn = f /\ calls[c].pc \in S}
  BY DEF At, InCall
<1>2. IsFiniteSet(Callers) /\ At(f, S) \subseteq Callers
  BY <1>1, MeasurementAssumption DEF MeasurementAssumption
<1>3. IsFiniteSet(At(f, S))
  BY <1>2, FS_Subset
<1> QED  BY <1>1, <1>3, FS_CardinalityType

\* A caller that leaves the stages makes room for one.
LEMMA RoomIsKept ==
  ASSUME NEW c \in Callers, \A d \in Callers : d # c => calls'[d] = calls[d],
         NEW f, NEW S, NEW n \in Nat, NEW m \in Nat, Room(n, f, S),
         c \in At(f, S)' => c \in At(f, S) /\ m <= n,
         m <= n + 1, m > n => c \in At(f, S)
  PROVE  m + Cardinality(At(f, S)') <= MaxCalls
<1>1. /\ IsFiniteSet(At(f, S)) /\ Cardinality(At(f, S)) \in Nat
      /\ MaxCalls \in Nat
  BY AtType, MeasurementAssumption DEF MeasurementAssumption
<1>2. \A d \in Callers : d # c => (d \in At(f, S)' <=> d \in At(f, S))
  BY DEF At, InCall
<1>3. At(f, S) \subseteq Callers /\ At(f, S)' \subseteq Callers
  BY DEF At, InCall
<1>4. CASE c \in At(f, S)' \/ c \notin At(f, S)
  <2>1. At(f, S)' = At(f, S) /\ m <= n
    BY <1>2, <1>3, <1>4
  <2> QED  BY <1>1, <2>1 DEF Room
<1>5. CASE c \notin At(f, S)' /\ c \in At(f, S)
  <2>1. At(f, S)' = At(f, S) \ {c}
    BY <1>2, <1>3, <1>5
  <2>2. Cardinality(At(f, S)') = Cardinality(At(f, S)) - 1
    BY <1>1, <1>5, <2>1, FS_RemoveElement
  <2> QED  BY <1>1, <2>2 DEF Room
<1> QED  BY <1>4, <1>5

\* Where nobody moves, what is kept may only shrink.
LEMMA RoomStays ==
  ASSUME NEW f, NEW S, At(f, S)' = At(f, S), NEW n \in Nat, NEW m \in Nat, m <= n,
         Room(n, f, S)
  PROVE  m + Cardinality(At(f, S)') <= MaxCalls
BY AtType, MeasurementAssumption DEF Room, MeasurementAssumption

\* A new call is one of those that have been given room.
LEMMA RoomIsGiven ==
  ASSUME NEW c \in Callers, \A d \in Callers : d # c => calls'[d] = calls[d],
         NEW f, c \notin At(f, Stages), NEW S \in SUBSET Stages, NEW n \in Nat,
         n + Cardinality(At(f, Stages)) < MaxCalls
  PROVE  n + Cardinality(At(f, S)') <= MaxCalls
<1>1. At(f, S)' \subseteq At(f, Stages) \cup {c}
  BY DEF At, InCall
<1>2. /\ IsFiniteSet(At(f, Stages)) /\ Cardinality(At(f, Stages)) \in Nat
      /\ MaxCalls \in Nat
  BY AtType, MeasurementAssumption DEF MeasurementAssumption
<1>3. /\ Cardinality(At(f, Stages) \cup {c}) = Cardinality(At(f, Stages)) + 1
      /\ IsFiniteSet(At(f, Stages) \cup {c})
  BY <1>2, FS_AddElement
<1>4. /\ Cardinality(At(f, S)') <= Cardinality(At(f, Stages)) + 1
      /\ Cardinality(At(f, S)') \in Nat
  BY <1>1, <1>3, FS_Subset, FS_CardinalityType
<1> QED  BY <1>2, <1>4 DEF Room

\* The numbers of the invariants.
LEMMA KeptIsTyped ==
  ASSUME Inv, TimingInv, NEW f \in Functions
  PROVE  /\ counters[f] \in Nat /\ panicked[f] \in Nat
         /\ stats[f] \in Stats /\ stats[f].count \in Nat
         /\ histograms[f] \in Seq(Nat) /\ Len(histograms[f]) \in Nat
BY DEF Inv, Shape, TimingInv, Stats

\* Caller c leaves these stages, and may be counted for it.
Leaves(c, f, S, n, m) ==
  \/ m = n
  \/ m = n + 1 /\ c \in At(f, S) /\ c \notin At(f, S)'

\* What the step of one caller must be for the numbers to stay within the bound.
LEMMA InNumberStep ==
  ASSUME Inv, TimingInv, InNumber, NEW c \in Callers,
         \A d \in Callers : d # c => calls'[d] = calls[d],
         \A f \in Functions :
           /\ \A S \in {Uncounted, Unreturned, Untimed, Stages} :
                c \in At(f, S)' => c \in At(f, S)
           /\ Leaves(c, f, Uncounted, counters[f], counters'[f])
           /\ Leaves(c, f, Unreturned, panicked[f], panicked'[f])
           /\ Leaves(c, f, Untimed, stats[f].count, stats'[f].count)
           /\ Leaves(c, f, Stages, Len(histograms[f]), Len(histograms'[f]))
  PROVE  InNumber'
<1>1. ASSUME NEW f \in Functions, NEW S \in {Uncounted, Unreturned, Untimed, Stages},
             NEW n \in Nat, NEW m, Leaves(c, f, S, n, m), Room(n, f, S)
      PROVE  m + Cardinality(At(f, S)') <= MaxCalls
  <2>0. \/ m = n
        \/ m = n + 1 /\ c \in At(f, S) /\ c \notin At(f, S)'
    BY <1>1, Zenon DEF Leaves
  <2>1. /\ m \in Nat
        /\ \/ m = n
           \/ m = n + 1 /\ c \in At(f, S) /\ c \notin At(f, S)'
    BY <2>0
  <2>2. c \in At(f, S)' => c \in At(f, S) /\ m <= n
    BY <2>1
  <2>3. m <= n + 1 /\ (m > n => c \in At(f, S))
    BY <2>1
  <2> QED  BY <1>1, <2>1, <2>2, <2>3, RoomIsKept
<1>2. ASSUME NEW f \in Functions
      PROVE  /\ counters'[f] + Cardinality(At(f, Uncounted)') <= MaxCalls
             /\ panicked'[f] + Cardinality(At(f, Unreturned)') <= MaxCalls
             /\ stats'[f].count + Cardinality(At(f, Untimed)') <= MaxCalls
             /\ Len(histograms'[f]) + Cardinality(At(f, Stages)') <= MaxCalls
  <2>1. /\ Room(counters[f], f, Uncounted) /\ Room(panicked[f], f, Unreturned)
        /\ Room(stats[f].count, f, Untimed) /\ Room(Len(histograms[f]), f, Stages)
    BY DEF InNumber
  <2>2. counters'[f] + Cardinality(At(f, Uncounted)') <= MaxCalls
    BY <1>1, <2>1, KeptIsTyped
  <2>3. panicked'[f] + Cardinality(At(f, Unreturned)') <= MaxCalls
    BY <1>1, <2>1, KeptIsTyped
  <2>4. stats'[f].count + Cardinality(At(f, Untimed)') <= MaxCalls
    BY <1>1, <2>1, KeptIsTyped
  <2>5. Len(histograms'[f]) + Cardinality(At(f, Stages)') <= MaxCalls
    BY <1>1, <2>1, KeptIsTyped
  <2> QED  BY <2>2, <2>3, <2>4, <2>5
<1> QED  BY <1>2 DEF InNumber, Room, Uncounted, Unreturned, Untimed, Stages

\* Where the calls stay where they are.
LEMMA InNumberStays ==
  ASSUME Inv, TimingInv, InNumber, \A f, S : At(f, S)' = At(f, S),
         \A f \in Functions :
           /\ counters'[f] \in Nat /\ counters'[f] <= counters[f]
           /\ panicked'[f] \in Nat /\ panicked'[f] <= panicked[f]
           /\ stats'[f].count \in Nat /\ stats'[f].count <= stats[f].count
           /\ Len(histograms'[f]) \in Nat /\ Len(histograms'[f]) <= Len(histograms[f])
  PROVE  InNumber'
<1>1. ASSUME NEW f \in Functions
      PROVE  /\ counters'[f] + Cardinality(At(f, Uncounted)') <= MaxCalls
             /\ panicked'[f] + Cardinality(At(f, Unreturned)') <= MaxCalls
             /\ stats'[f].count + Cardinality(At(f, Untimed)') <= MaxCalls
             /\ Len(histograms'[f]) + Cardinality(At(f, Stages)') <= MaxCalls
  <2>1. /\ Room(counters[f], f, Uncounted) /\ Room(panicked[f], f, Unreturned)
        /\ Room(stats[f].count, f, Untimed) /\ Room(Len(histograms[f]), f, Stages)
    BY DEF InNumber
  <2>2. counters'[f] + Cardinality(At(f, Uncounted)') <= MaxCalls
    BY <2>1, KeptIsTyped, RoomStays
  <2>3. panicked'[f] + Cardinality(At(f, Unreturned)') <= MaxCalls
    BY <2>1, KeptIsTyped, RoomStays
  <2>4. stats'[f].count + Cardinality(At(f, Untimed)') <= MaxCalls
    BY <2>1, KeptIsTyped, RoomStays
  <2>5. Len(histograms'[f]) + Cardinality(At(f, Stages)') <= MaxCalls
    BY <2>1, KeptIsTyped, RoomStays
  <2> QED  BY <2>2, <2>3, <2>4, <2>5
<1> QED  BY <1>1 DEF InNumber, Room, Uncounted, Unreturned, Untimed, Stages

\* Where a caller is, before and after.
LEMMA Stands ==
  ASSUME Shape, NEW c \in Callers, NEW f, NEW S
  PROVE  /\ c \in At(f, S) <=> calls[c] # Idle /\ calls[c].fn = f /\ calls[c].pc \in S
         /\ c \in At(f, S)' <=> calls'[c] # Idle /\ calls'[c].fn = f /\ calls'[c].pc \in S
BY DEF At, InCall

\* A caller goes on.
LEMMA GoesStands ==
  ASSUME Shape, NEW c \in Callers, NEW from \in Stages, NEW to \in Stages, Goes(c, from, to)
  PROVE  /\ \A f, S : c \in At(f, S) <=> calls[c].fn = f /\ from \in S
         /\ \A f, S : c \in At(f, S)' <=> calls[c].fn = f /\ to \in S
         /\ \A d \in Callers : d # c => calls'[d] = calls[d]
         /\ calls[c].fn \in Functions
         /\ calls'[c].outer = calls[c].outer /\ calls'[c].inner = calls[c].inner
<1>1. /\ calls[c] \in CallRecord /\ calls[c].pc = from
      /\ calls'[c] = [calls[c] EXCEPT !.pc = to]
      /\ calls'[c] \in CallRecord /\ calls'[c].pc = to /\ calls'[c].fn = calls[c].fn
      /\ \A d \in Callers : d # c => calls'[d] = calls[d]
  BY GoesTo
<1>2. calls[c] # Idle /\ calls'[c] # Idle
  BY <1>1, StageIsNotIdle
<1>3. ASSUME NEW f, NEW S
      PROVE  /\ c \in At(f, S) <=> calls[c].fn = f /\ from \in S
             /\ c \in At(f, S)' <=> calls[c].fn = f /\ to \in S
  BY <1>1, <1>2 DEF At, InCall
<1>4. /\ calls[c].fn \in Functions
      /\ calls'[c].outer = calls[c].outer /\ calls'[c].inner = calls[c].inner
  BY <1>1 DEF CallRecord
<1> QED  BY <1>1, <1>3, <1>4

\* A step that records nothing.
LEMMA MovesInNumber ==
  ASSUME Inv, TimingInv, InNumber, NEW c \in Callers,
         ProceedToTiming(c) \/ Return(c) \/ TakeElapsed(c)
  PROVE  InNumber'
<1>1. PICK from \in Stages, to \in Stages :
        /\ Goes(c, from, to)
        /\ \A S \in {Uncounted, Unreturned, Untimed, Stages} : to \in S => from \in S
  BY DEF ProceedToTiming, Return, TakeElapsed, Stages, Uncounted, Unreturned, Untimed
<1>2. UNCHANGED <<counters, histograms, stats, panicked>>
  BY DEF ProceedToTiming, Return, TakeElapsed, measured, audit
<1>3. Shape
  BY DEF Inv
<1>4. \A f, S : /\ c \in At(f, S) <=> calls[c].fn = f /\ from \in S
                /\ c \in At(f, S)' <=> calls[c].fn = f /\ to \in S
  BY <1>1, <1>3, GoesStands
<1> QED  BY <1>1, <1>2, <1>3, <1>4, GoesStands, InNumberStep DEF Leaves

\* A call is counted, timed, pushed, or it panics.
LEMMA IncrementInNumber ==
  ASSUME Inv, TimingInv, InNumber, NEW c \in Callers, IncrementCounter(c)
  PROVE  InNumber'
<1>1. /\ Goes(c, "entered", "counted") /\ Shape
      /\ counters' = [counters EXCEPT ![calls[c].fn] = @ + 1]
      /\ UNCHANGED <<histograms, stats, panicked>>
  BY DEF Inv, IncrementCounter, audit
<1>2. /\ \A f, S : c \in At(f, S) <=> calls[c].fn = f /\ "entered" \in S
      /\ \A f, S : c \in At(f, S)' <=> calls[c].fn = f /\ "counted" \in S
      /\ \A d \in Callers : d # c => calls'[d] = calls[d]
      /\ calls[c].fn \in Functions
  BY <1>1, GoesStands DEF Stages
<1>3. \A f \in Functions : counters'[f] = IF f = calls[c].fn THEN counters[f] + 1 ELSE counters[f]
  BY <1>1 DEF Shape
<1>4. \A f \in Functions : Leaves(c, f, Uncounted, counters[f], counters'[f])
  BY <1>2, <1>3 DEF Leaves, Uncounted
<1>5. \A S \in {Uncounted, Unreturned, Untimed, Stages} : "entered" \in S
  BY DEF Stages, Uncounted, Unreturned, Untimed
<1> QED  BY <1>1, <1>2, <1>4, <1>5, InNumberStep DEF Leaves

LEMMA RecordInNumber ==
  ASSUME Inv, TimingInv, InNumber, NEW c \in Callers, RecordTiming(c)
  PROVE  InNumber'
<1>1. /\ Goes(c, "timed", "leaving") /\ Shape
      /\ stats' = [stats EXCEPT ![calls[c].fn] = RecordIn(@, calls[c].inner)]
      /\ UNCHANGED <<histograms, counters, panicked>>
  BY DEF Inv, RecordTiming, audit
<1>2. /\ \A f, S : c \in At(f, S) <=> calls[c].fn = f /\ "timed" \in S
      /\ \A f, S : c \in At(f, S)' <=> calls[c].fn = f /\ "leaving" \in S
      /\ \A d \in Callers : d # c => calls'[d] = calls[d]
      /\ calls[c].fn \in Functions
  BY <1>1, GoesStands DEF Stages
<1>3. \A f \in Functions :
        stats'[f].count = IF f = calls[c].fn THEN stats[f].count + 1 ELSE stats[f].count
  <2>1. \A s, d : RecordIn(s, d).count = s.count + 1
    BY DEF RecordIn
  <2> QED  BY <1>1, <2>1 DEF TimingInv
<1>4. \A f \in Functions : Leaves(c, f, Untimed, stats[f].count, stats'[f].count)
  BY <1>2, <1>3 DEF Leaves, Untimed
<1>5. \A S \in {Uncounted, Unreturned, Untimed, Stages} : "leaving" \in S => "timed" \in S
  BY DEF Stages, Uncounted, Unreturned, Untimed
<1> QED  BY <1>1, <1>2, <1>4, <1>5, InNumberStep DEF Leaves

\* A call that ends is nowhere.
LEMMA EndsStands ==
  ASSUME Shape, NEW c \in Callers, NEW from \in Stages, calls[c].pc = from,
         calls' = [calls EXCEPT ![c] = Idle]
  PROVE  /\ \A f, S : c \in At(f, S) <=> calls[c].fn = f /\ from \in S
         /\ \A f, S : c \notin At(f, S)'
         /\ \A d \in Callers : d # c => calls'[d] = calls[d]
         /\ calls[c] \in CallRecord /\ calls[c] # Idle
<1>1. calls[c] \in CallRecord /\ calls[c] # Idle
  BY StageIsNotIdle DEF Shape, CallRecord, Idle, Stages
<1>2. calls'[c] = Idle /\ \A d \in Callers : d # c => calls'[d] = calls[d]
  BY DEF Shape
<1> QED  BY <1>1, <1>2, Stands

LEMMA PushInNumber ==
  ASSUME Inv, TimingInv, InNumber, NEW c \in Callers, PushDuration(c)
  PROVE  InNumber'
<1>1. /\ Shape /\ calls[c].pc = "elapsed" /\ calls' = [calls EXCEPT ![c] = Idle]
      /\ histograms' = [histograms EXCEPT ![calls[c].fn] = Append(@, calls[c].outer)]
      /\ UNCHANGED <<counters, stats, panicked>>
  BY DEF Inv, PushDuration, audit
<1>2. /\ \A f, S : c \in At(f, S) <=> calls[c].fn = f /\ "elapsed" \in S
      /\ \A f, S : c \notin At(f, S)'
      /\ \A d \in Callers : d # c => calls'[d] = calls[d]
      /\ calls[c] \in CallRecord
  BY <1>1, EndsStands DEF Stages
<1>3. calls[c].fn \in Functions /\ calls[c].outer \in Nat
  BY <1>2 DEF CallRecord
<1>4. \A f \in Functions : Len(histograms'[f]) =
        IF f = calls[c].fn THEN Len(histograms[f]) + 1 ELSE Len(histograms[f])
  BY <1>1, <1>3, Numbers DEF Shape
<1>5. \A f \in Functions : Leaves(c, f, Stages, Len(histograms[f]), Len(histograms'[f]))
  BY <1>2, <1>4 DEF Leaves, Stages
<1> QED  BY <1>1, <1>2, <1>5, InNumberStep DEF Leaves

LEMMA PanicInNumber ==
  ASSUME Inv, TimingInv, InNumber, NEW c \in Callers, Panic(c)
  PROVE  InNumber'
<1>1. /\ Shape /\ calls[c].pc = "running" /\ calls' = [calls EXCEPT ![c] = Idle]
      /\ panicked' = [panicked EXCEPT ![calls[c].fn] = @ + 1]
      /\ UNCHANGED <<counters, stats, histograms>>
  BY DEF Inv, Panic, measured
<1>2. /\ \A f, S : c \in At(f, S) <=> calls[c].fn = f /\ "running" \in S
      /\ \A f, S : c \notin At(f, S)'
      /\ \A d \in Callers : d # c => calls'[d] = calls[d]
      /\ calls[c] \in CallRecord
  BY <1>1, EndsStands DEF Stages
<1>3. calls[c].fn \in Functions
  BY <1>2 DEF CallRecord
<1>4. \A f \in Functions :
        panicked'[f] = IF f = calls[c].fn THEN panicked[f] + 1 ELSE panicked[f]
  BY <1>1, <1>3 DEF Shape
<1>5. \A f \in Functions : Leaves(c, f, Unreturned, panicked[f], panicked'[f])
  BY <1>2, <1>4 DEF Leaves, Unreturned
<1> QED  BY <1>1, <1>2, <1>5, InNumberStep DEF Leaves

\* A new call is given room.
LEMMA CallInNumber ==
  ASSUME Inv, TimingInv, InNumber, NEW c \in Callers, NEW g \in Functions, Call(c, g)
  PROVE  InNumber'
<1>1. /\ calls[c] = Idle /\ Shape
      /\ calls' = [calls EXCEPT ![c] = [pc |-> "entered", fn |-> g, outer |-> 0, inner |-> 0]]
      /\ UNCHANGED <<counters, stats, histograms, panicked>>
      /\ Cardinality(At(g, Stages)) + Larger(panicked[g] + counters[g],
           Larger(stats[g].count, Len(histograms[g]))) < MaxCalls
  BY DEF Call, Inv, measured, audit
<1>2. /\ calls'[c].fn = g
      /\ \A d \in Callers : d # c => calls'[d] = calls[d]
  BY <1>1 DEF Shape
<1>3. \A f, S : c \notin At(f, S)
  BY <1>1 DEF At, InCall
<1>4. \A f, S : c \in At(f, S)' => f = g
  BY <1>2 DEF At, InCall
<1>5. \A S \in {Uncounted, Unreturned, Untimed, Stages} : S \in SUBSET Stages
  BY DEF Uncounted, Unreturned, Untimed, Stages
<1>6. ASSUME NEW f \in Functions, f # g
      PROVE  /\ counters'[f] + Cardinality(At(f, Uncounted)') <= MaxCalls
             /\ panicked'[f] + Cardinality(At(f, Unreturned)') <= MaxCalls
             /\ stats'[f].count + Cardinality(At(f, Untimed)') <= MaxCalls
             /\ Len(histograms'[f]) + Cardinality(At(f, Stages)') <= MaxCalls
  <2>1. ASSUME NEW S PROVE At(f, S)' = At(f, S)
    <3>1. \A d \in Callers : d \in At(f, S)' <=> d \in At(f, S)
      BY <1>2, <1>3, <1>4, <1>6 DEF At, InCall
    <3> QED  BY <3>1 DEF At, InCall
  <2> QED  BY <1>1, <2>1 DEF InNumber, Room
<1>7. /\ counters'[g] + Cardinality(At(g, Uncounted)') <= MaxCalls
      /\ panicked'[g] + Cardinality(At(g, Unreturned)') <= MaxCalls
      /\ stats'[g].count + Cardinality(At(g, Untimed)') <= MaxCalls
      /\ Len(histograms'[g]) + Cardinality(At(g, Stages)') <= MaxCalls
  <2>1. ASSUME NEW n \in Nat, n + Cardinality(At(g, Stages)) < MaxCalls,
               NEW S \in {Uncounted, Unreturned, Untimed, Stages}
        PROVE  n + Cardinality(At(g, S)') <= MaxCalls
    BY <1>2, <1>3, <1>5, <2>1, RoomIsGiven
  <2>2. /\ counters[g] \in Nat /\ panicked[g] \in Nat /\ stats[g].count \in Nat
        /\ Len(histograms[g]) \in Nat /\ Cardinality(At(g, Stages)) \in Nat
        /\ MaxCalls \in Nat
    BY KeptIsTyped, AtType, MeasurementAssumption DEF MeasurementAssumption
  <2>3. \A n \in {counters[g], panicked[g], stats[g].count, Len(histograms[g])} :
          n + Cardinality(At(g, Stages)) < MaxCalls
    <3> DEFINE all == Cardinality(At(g, Stages))
               len == Len(histograms[g])
    <3>1. all + Larger(panicked[g] + counters[g], Larger(stats[g].count, len)) < MaxCalls
      BY <1>1
    <3>2. all \in Nat /\ len \in Nat
      BY <2>2
    <3> HIDE DEF all, len
    <3>3. \A a, b \in Nat : /\ Larger(a, b) \in Nat
                            /\ a <= Larger(a, b) /\ b <= Larger(a, b)
      BY DEF Larger
    <3>4. panicked[g] + counters[g] \in Nat
      BY <2>2
    <3>5. \A n \in {counters[g], panicked[g], stats[g].count, len} :
            n <= Larger(panicked[g] + counters[g], Larger(stats[g].count, len))
      <4>1. Larger(stats[g].count, len) \in Nat
        BY <2>2, <3>2, <3>3
      <4>2. /\ Larger(stats[g].count, len)
                 <= Larger(panicked[g] + counters[g], Larger(stats[g].count, len))
            /\ panicked[g] + counters[g]
                 <= Larger(panicked[g] + counters[g], Larger(stats[g].count, len))
            /\ Larger(panicked[g] + counters[g], Larger(stats[g].count, len)) \in Nat
        BY <3>3, <3>4, <4>1
      <4>3. stats[g].count <= Larger(stats[g].count, len) /\ len <= Larger(stats[g].count, len)
        BY <2>2, <3>2, <3>3
      <4> QED  BY <2>2, <3>2, <4>1, <4>2, <4>3
    <3>6. Larger(panicked[g] + counters[g], Larger(stats[g].count, len)) \in Nat
      BY <2>2, <3>2, <3>3, <3>4
    <3> QED  BY <2>2, <3>1, <3>2, <3>5, <3>6, SMTT(20) DEF all, len
  <2> QED  BY <1>1, <2>1, <2>2, <2>3
<1> QED  BY <1>6, <1>7 DEF InNumber, Room, Uncounted, Unreturned, Untimed, Stages

\* The clock runs in calls that stay where they are, up to the bound.
LEMMA TickKeeps ==
  ASSUME Shape, Tick
  PROVE  \A c \in Callers :
           /\ calls'[c] = Idle <=> calls[c] = Idle
           /\ calls[c] # Idle => /\ calls'[c].pc = calls[c].pc
                                 /\ calls'[c].fn = calls[c].fn
                                 /\ calls[c].outer <= MaxDuration =>
                                      calls'[c].outer <= MaxDuration
<1> DEFINE next(k) == IF ~OuterRuns(k) THEN k
           ELSE [k EXCEPT !.outer = @ + 1, !.inner = IF InnerRuns(k) THEN @ + 1 ELSE @]
<1>1. calls' = [c \in Callers |-> next(calls[c])]
  BY DEF Tick
<1>2. next(Idle) = Idle
  BY DEF OuterRuns
<1>3. ASSUME NEW k \in CallRecord, OuterRuns(k) => k.outer < MaxDuration
      PROVE  /\ next(k) # Idle /\ next(k).pc = k.pc /\ next(k).fn = k.fn
             /\ k.outer <= MaxDuration => next(k).outer <= MaxDuration
  <2>1. CASE ~OuterRuns(k)
    BY <2>1, StageIsNotIdle
  <2>2. CASE OuterRuns(k)
    <3>1. PICK i \in Nat : next(k) =
            [pc |-> k.pc, fn |-> k.fn, outer |-> k.outer + 1, inner |-> i]
      <4>1. /\ k = [pc |-> k.pc, fn |-> k.fn, outer |-> k.outer, inner |-> k.inner]
            /\ k.outer \in Nat /\ k.inner \in Nat
        BY DEF CallRecord
      <4>2. CASE InnerRuns(k)
        <5>1. next(k) = [pc |-> k.pc, fn |-> k.fn, outer |-> k.outer + 1,
                         inner |-> k.inner + 1]
          BY <2>2, <4>1, <4>2
        <5>2. k.inner + 1 \in Nat
          BY <4>1
        <5> HIDE DEF next
        <5> QED  BY <5>1, <5>2
      <4>3. CASE ~InnerRuns(k)
        <5>1. next(k) = [pc |-> k.pc, fn |-> k.fn, outer |-> k.outer + 1,
                         inner |-> k.inner]
          BY <2>2, <4>1, <4>3
        <5> HIDE DEF next
        <5> QED  BY <4>1, <5>1
      <4> QED  BY <4>2, <4>3
    <3>2. next(k) \in CallRecord
      BY <3>1 DEF CallRecord
    <3> HIDE DEF next
    <3>3. k.outer \in Nat /\ MaxDuration \in Nat /\ next(k).outer = k.outer + 1
      BY <3>1, MeasurementAssumption DEF CallRecord, MeasurementAssumption
    <3> QED  BY <1>3, <2>2, <3>1, <3>2, <3>3, StageIsNotIdle
  <2> QED  BY <2>1, <2>2
<1>4. \A c \in Callers : calls[c] = Idle \/ calls[c] \in CallRecord
  BY DEF Shape, CallRecord
<1>5. \A c \in Callers : OuterRuns(calls[c]) => calls[c].outer < MaxDuration
  BY DEF Tick
<1> HIDE DEF next
<1>6. \A c \in Callers : calls'[c] = next(calls[c])
  BY <1>1
<1> QED  BY <1>2, <1>3, <1>4, <1>5, <1>6

\* Clearing, and the clock, move nobody.
LEMMA OthersInNumber ==
  ASSUME Inv, TimingInv, InNumber,
         \/ \E t \in Clearers : Clear(t)
         \/ ClearStats \/ Tick \/ UNCHANGED vars
  PROVE  InNumber'
<1>1. ASSUME UNCHANGED calls, NEW f, NEW S PROVE At(f, S)' = At(f, S)
  BY <1>1 DEF At, InCall
<1>2. \A f \in Functions :
        /\ counters[f] \in Nat /\ panicked[f] \in Nat /\ stats[f].count \in Nat
        /\ Len(histograms[f]) \in Nat
  BY KeptIsTyped
<1>3. ASSUME NEW t \in Clearers, Clear(t) PROVE InNumber'
  <2>1. /\ UNCHANGED <<stats, calls>>
        /\ \/ counters' = [f \in Functions |-> 0] /\ panicked' = [f \in Functions |-> 0]
           \/ UNCHANGED <<counters, panicked>>
        /\ histograms' = [f \in Functions |-> << >>] \/ UNCHANGED histograms
    BY <1>3 DEF Clear, ClearCounters, ClearHistograms, audit
  <2>2. \A f \in Functions :
           /\ counters'[f] \in Nat /\ counters'[f] <= counters[f]
           /\ panicked'[f] \in Nat /\ panicked'[f] <= panicked[f]
           /\ Len(histograms'[f]) \in Nat /\ Len(histograms'[f]) <= Len(histograms[f])
    <3>1. \A f \in Functions : counters'[f] \in {0, counters[f]} /\ panicked'[f] \in {0, panicked[f]}
      BY <2>1
    <3>2. \A f \in Functions : histograms'[f] = << >> \/ histograms'[f] = histograms[f]
      BY <2>1
    <3> QED  BY <1>2, <3>1, <3>2
  <2> QED  BY <1>1, <1>2, <2>1, <2>2, InNumberStays
<1>4. CASE ClearStats
  <2>1. /\ UNCHANGED <<counters, histograms, calls, panicked>>
        /\ \A f \in Functions : stats'[f].count = 0
    BY <1>4 DEF ClearStats, NoStats
  <2> QED  BY <1>1, <1>2, <2>1, InNumberStays
<1>5. CASE Tick \/ UNCHANGED vars
  <2>1. UNCHANGED <<counters, histograms, stats, panicked>>
    BY <1>5 DEF Tick, vars, measured, audit
  <2>2. \A d \in Callers : /\ calls'[d] = Idle <=> calls[d] = Idle
                           /\ calls[d] # Idle => /\ calls'[d].pc = calls[d].pc
                                                 /\ calls'[d].fn = calls[d].fn
    BY <1>5, TickKeeps DEF Inv, vars
  <2>3. ASSUME NEW f, NEW S PROVE At(f, S)' = At(f, S)
    <3>1. \A d \in Callers : d \in At(f, S)' <=> d \in At(f, S)
      BY <2>2 DEF At, InCall
    <3> QED  BY <3>1 DEF At, InCall
  <2> QED  BY <1>2, <2>1, <2>3, InNumberStays
<1> QED  BY <1>3, <1>4, <1>5

LEMMA InNumberNext ==
  ASSUME Inv, TimingInv, InNumber, [Next]_vars
  PROVE  InNumber'
<1>1. ASSUME NEW c \in InCall, Step(c) PROVE InNumber'
  <2>1. c \in Callers
    BY DEF InCall
  <2> QED  BY <1>1, <2>1, MovesInNumber, IncrementInNumber, RecordInNumber, PushInNumber,
              PanicInNumber DEF Step
<1> QED  BY <1>1, CallInNumber, OthersInNumber DEF Next

\* Whatever is recorded and pushed has been taken from a clock.
LEMMA InTimeNext ==
  ASSUME Inv, TimingInv, InTime, [Next]_vars
  PROVE  InTime'
<1>1. Shape /\ MaxDuration \in Nat
  BY MeasurementAssumption DEF Inv, MeasurementAssumption
<1>2. ASSUME UNCHANGED <<stats, histograms>>,
             \A c \in Callers : calls'[c] # Idle =>
               \/ calls'[c].outer <= MaxDuration
               \/ calls[c] # Idle /\ calls'[c].outer = calls[c].outer
      PROVE  InTime'
  BY <1>2 DEF InTime
<1>3. ASSUME NEW c \in Callers, NEW g \in Functions, Call(c, g) PROVE InTime'
  <2>1. /\ calls' = [calls EXCEPT ![c] = [pc |-> "entered", fn |-> g, outer |-> 0, inner |-> 0]]
        /\ UNCHANGED <<stats, histograms>>
    BY <1>3 DEF Call, measured
  <2> QED  BY <1>1, <1>2, <2>1 DEF Shape
<1>4. ASSUME NEW c \in Callers, NEW from \in Stages, NEW to \in Stages, Goes(c, from, to),
             UNCHANGED <<stats, histograms>>
      PROVE  InTime'
  <2>1. /\ calls'[c].outer = calls[c].outer /\ calls[c] # Idle
        /\ \A d \in Callers : d # c => calls'[d] = calls[d]
    BY <1>1, <1>4, GoesStands, GoesTo, StageIsNotIdle
  <2> QED  BY <1>2, <1>4, <2>1
<1>5. ASSUME NEW c \in Callers, Panic(c) PROVE InTime'
  <2>1. calls' = [calls EXCEPT ![c] = Idle] /\ UNCHANGED <<stats, histograms>>
    BY <1>5 DEF Panic, measured
  <2> QED  BY <1>1, <1>2, <2>1 DEF Shape
<1>6. ASSUME NEW c \in Callers, RecordTiming(c) PROVE InTime'
  <2>1. /\ Goes(c, "timed", "leaving") /\ UNCHANGED histograms
        /\ stats' = [stats EXCEPT ![calls[c].fn] = RecordIn(@, calls[c].inner)]
    BY <1>6 DEF RecordTiming
  <2>2. /\ calls[c] \in CallRecord /\ calls[c] # Idle /\ calls[c].fn \in Functions
        /\ calls'[c].outer = calls[c].outer
        /\ \A d \in Callers : d # c => calls'[d] = calls[d]
    BY <1>1, <2>1, GoesStands, GoesTo, StageIsNotIdle DEF Stages
  <2>3. calls[c].inner \in Nat /\ calls[c].inner <= MaxDuration
    BY <1>1, <2>2 DEF TimingInv, ClocksAgree, InTime, CallRecord
  <2>4. \A s \in Stats, d \in Nat :
          s.min <= MaxDuration + 1 /\ s.max <= MaxDuration /\ d <= MaxDuration =>
            RecordIn(s, d).min <= MaxDuration + 1 /\ RecordIn(s, d).max <= MaxDuration
    BY <1>1 DEF RecordIn, Smaller, Larger, Stats
  <2>5. ASSUME NEW f \in Functions
        PROVE  stats'[f].min <= MaxDuration + 1 /\ stats'[f].max <= MaxDuration
    <3>1. stats'[f] = IF f = calls[c].fn THEN RecordIn(stats[f], calls[c].inner) ELSE stats[f]
      BY <2>1, <2>2 DEF TimingInv
    <3>2. stats[f].min <= MaxDuration + 1 /\ stats[f].max <= MaxDuration /\ stats[f] \in Stats
      BY KeptIsTyped DEF InTime
    <3> QED  BY <2>3, <2>4, <3>1, <3>2
  <2> QED  BY <2>1, <2>2, <2>5 DEF InTime
<1>7. ASSUME NEW c \in Callers, PushDuration(c) PROVE InTime'
  <2>1. /\ Shape /\ calls[c].pc = "elapsed" /\ calls' = [calls EXCEPT ![c] = Idle]
        /\ histograms' = [histograms EXCEPT ![calls[c].fn] = Append(@, calls[c].outer)]
        /\ UNCHANGED stats
    BY <1>1, <1>7 DEF PushDuration
  <2>2. calls[c] \in CallRecord /\ calls[c] # Idle
    BY <2>1, EndsStands DEF Stages
  <2>3. calls[c].fn \in Functions /\ calls[c].outer \in Nat /\ calls[c].outer <= MaxDuration
    BY <2>2 DEF CallRecord, InTime
  <2>4. ASSUME NEW f \in Functions, NEW k \in 1..Len(histograms'[f])
        PROVE  histograms'[f][k] <= MaxDuration
    <3>1. /\ \A j \in 1..Len(histograms[f]) : histograms[f][j] <= MaxDuration
          /\ histograms[f] \in Seq(Nat)
      BY KeptIsTyped DEF InTime
    <3>2. CASE f # calls[c].fn
      BY <2>1, <2>4, <3>1, <3>2 DEF Shape
    <3>3. CASE f = calls[c].fn
      <4>1. histograms'[f] = Append(histograms[f], calls[c].outer)
        BY <2>1, <2>3, <3>3 DEF Shape
      <4> QED  BY <2>3, <2>4, <3>1, <4>1
    <3> QED  BY <3>2, <3>3
  <2> QED  BY <2>1, <2>4 DEF InTime, Shape
<1>8. ASSUME NEW t \in Clearers, Clear(t) PROVE InTime'
  <2>1. /\ UNCHANGED <<stats, calls>>
        /\ histograms' = [f \in Functions |-> << >>] \/ UNCHANGED histograms
    BY <1>8 DEF Clear, ClearCounters, ClearHistograms
  <2> QED  BY <2>1 DEF InTime
<1>9. CASE ClearStats
  BY <1>1, <1>9 DEF ClearStats, NoStats, InTime
<1>10. CASE Tick
  BY <1>1, <1>10, TickKeeps DEF Tick, measured, InTime
<1>11. CASE UNCHANGED vars
  BY <1>2, <1>11 DEF vars, measured
<1>12. ASSUME NEW c \in InCall, Step(c) PROVE InTime'
  <2>1. c \in Callers
    BY DEF InCall
  <2>2. CASE IncrementCounter(c)
    BY <1>4, <2>1, <2>2 DEF IncrementCounter, Stages
  <2>3. CASE ProceedToTiming(c) \/ Return(c) \/ TakeElapsed(c)
    BY <1>4, <2>1, <2>3 DEF ProceedToTiming, Return, TakeElapsed, Stages, measured
  <2> QED  BY <1>5, <1>6, <1>7, <1>12, <2>1, <2>2, <2>3 DEF Step
<1> QED  BY <1>3, <1>8, <1>9, <1>10, <1>11, <1>12 DEF Next

LEMMA OfClearsNext ==
  ASSUME Inv, OfClears, [Next]_vars
  PROVE  OfClears'
<1>1. CASE UNCHANGED <<clearing, straddling>> /\ pristine' \in {FALSE, pristine}
  BY <1>1 DEF OfClears
<1>2. ASSUME NEW t \in Clearers, Clear(t) PROVE OfClears'
  <2>1. CASE ClearHistograms(t)
    BY <2>1 DEF ClearHistograms, audit, OfClears
  <2>2. CASE ClearCounters(t)
    <3>1. \A f \in Functions : Cardinality(InFlight(f)) <= Cardinality(Callers)
      BY InFlightType, FS_Subset, MeasurementAssumption DEF MeasurementAssumption
    <3> QED  BY <2>2, <3>1 DEF ClearCounters, OfClears
  <2> QED  BY <1>2, <2>1, <2>2 DEF Clear
<1>3. ASSUME NEW c \in InCall, Step(c) PROVE UNCHANGED <<clearing, straddling, pristine>>
  BY <1>3 DEF Step, IncrementCounter, ProceedToTiming, Return, Panic, RecordTiming,
              TakeElapsed, PushDuration, audit
<1>4. CASE \/ \E c \in Callers, f \in Functions : Call(c, f)
           \/ ClearStats \/ Tick \/ UNCHANGED vars
  BY <1>1, <1>4 DEF Call, ClearStats, Tick, vars, audit
<1> QED  BY <1>1, <1>2, <1>3, <1>4 DEF Next

LEMMA TypeInvInit == Init => InNumber /\ InTime /\ OfClears
<1> SUFFICES ASSUME Init PROVE InNumber /\ InTime /\ OfClears
  OBVIOUS
<1>1. \A f, S : Cardinality(At(f, S)) = 0
  BY FS_EmptySet DEF Init, At, InCall
<1>2. MaxCalls \in Nat /\ MaxDuration \in Nat /\ Cardinality(Callers) \in Nat
  BY FS_CardinalityType, MeasurementAssumption DEF MeasurementAssumption
<1>3. InNumber
  BY <1>1, <1>2 DEF Init, InNumber, Room, NoStats
<1>4. InTime /\ OfClears
  BY <1>2 DEF Init, InTime, OfClears, NoStats
<1> QED  BY <1>3, <1>4

LEMMA InvGivesType ==
  ASSUME Inv, TimingInv, InNumber, InTime, OfClears
  PROVE  TypeOK
<1>1. /\ Shape /\ MaxCalls \in Nat /\ MaxDuration \in Nat /\ Cardinality(Callers) \in Nat
  BY FS_CardinalityType, MeasurementAssumption DEF Inv, MeasurementAssumption
<1>2. ASSUME NEW f \in Functions, NEW S PROVE Cardinality(At(f, S)) \in Nat
  BY AtType
<1>3. ASSUME NEW f \in Functions
      PROVE  /\ counters[f] \in 0..MaxCalls /\ panicked[f] \in 0..MaxCalls
             /\ stats[f].count \in 0..MaxCalls /\ Len(histograms[f]) <= MaxCalls
  <2>1. /\ counters[f] \in Nat /\ panicked[f] \in Nat /\ stats[f].count \in Nat
        /\ Len(histograms[f]) \in Nat
    BY KeptIsTyped
  <2>2. /\ counters[f] + Cardinality(At(f, Uncounted)) <= MaxCalls
        /\ panicked[f] + Cardinality(At(f, Unreturned)) <= MaxCalls
        /\ stats[f].count + Cardinality(At(f, Untimed)) <= MaxCalls
        /\ Len(histograms[f]) + Cardinality(At(f, Stages)) <= MaxCalls
    BY DEF InNumber, Room
  <2>3. \A n, a \in Nat : n + a <= MaxCalls => n \in 0..MaxCalls /\ n <= MaxCalls
    BY <1>1
  <2> QED  BY <1>2, <2>1, <2>2, <2>3
<1>4. ASSUME NEW f \in Functions PROVE histograms[f] \in Seq(Durations)
  <2>1. histograms[f] \in Seq(Nat) /\ \A k \in 1..Len(histograms[f]) : histograms[f][k] <= MaxDuration
    BY <1>1, Numbers DEF InTime
  <2>2. \A k \in 1..Len(histograms[f]) : histograms[f][k] \in Durations
    BY <1>1, <2>1, ElementOfSeq DEF Durations
  <2> QED  BY <2>1, <2>2
<1>5. ASSUME NEW f \in Functions
      PROVE  stats[f] \in [count : 0..MaxCalls, total : 0..(MaxCalls * MaxDuration),
                           min : 0..(MaxDuration + 1), max : Durations]
  <2> DEFINE s == stats[f]
  <2>1. /\ s \in Stats /\ s.total <= s.count * s.max /\ s.min <= MaxDuration + 1
        /\ s.max <= MaxDuration
    BY DEF TimingInv, Averages, InTime
  <2>2. s.count \in 0..MaxCalls
    BY <1>3
  <2> HIDE DEF s
  <2>3. s.count \in Nat /\ s.total \in Nat /\ s.min \in Nat /\ s.max \in Nat
    BY <2>1 DEF Stats
  <2>4. /\ s.count * s.max <= s.count * MaxDuration /\ s.count * s.max \in Nat
        /\ s.count * MaxDuration \in Nat
    BY <1>1, <2>1, <2>3, Products
  <2>5. MaxDuration * s.count <= MaxDuration * MaxCalls /\ MaxDuration * MaxCalls \in Nat
    BY <1>1, <2>2, <2>3, Products
  <2>6. /\ MaxDuration * s.count = s.count * MaxDuration
        /\ MaxDuration * MaxCalls = MaxCalls * MaxDuration
    BY <1>1, <2>3
  <2>7. s.total <= MaxCalls * MaxDuration /\ MaxCalls * MaxDuration \in Nat
    BY <2>1, <2>3, <2>4, <2>5, <2>6
  <2>8. /\ s.total \in 0..(MaxCalls * MaxDuration) /\ s.min \in 0..(MaxDuration + 1)
        /\ s.max \in Durations
    BY <1>1, <2>1, <2>3, <2>7 DEF Durations
  <2> QED  BY <2>1, <2>2, <2>8 DEF s, Stats
<1>6. ASSUME NEW c \in Callers
      PROVE  calls[c] \in {Idle} \cup
               [pc : Stages, fn : Functions, outer : Durations, inner : Durations]
  <2>1. CASE calls[c] \in CallRecord
    <3>1. calls[c] # Idle
      BY <2>1, StageIsNotIdle
    <3>2. calls[c].outer \in Durations /\ calls[c].inner \in Durations
      BY <1>1, <2>1, <3>1 DEF CallRecord, InTime, TimingInv, ClocksAgree, Durations
    <3> QED  BY <2>1, <3>2 DEF CallRecord
  <2>2. calls[c] = Idle \/ calls[c] \in CallRecord
    BY <1>1 DEF Shape, CallRecord
  <2> QED  BY <2>1, <2>2
<1>7. \A f \in Functions : straddling[f] \in 0..Cardinality(Callers)
  BY <1>1 DEF OfClears, Shape
<1>8. /\ counters \in [Functions -> 0..MaxCalls] /\ panicked \in [Functions -> 0..MaxCalls]
      /\ straddling \in [Functions -> 0..Cardinality(Callers)]
      /\ DOMAIN histograms = Functions
      /\ calls \in [Callers -> {Idle} \cup
           [pc : Stages, fn : Functions, outer : Durations, inner : Durations]]
  BY <1>1, <1>3, <1>6, <1>7 DEF Shape
<1>9. stats \in [Functions -> [count : 0..MaxCalls, total : 0..(MaxCalls * MaxDuration),
                               min : 0..(MaxDuration + 1), max : Durations]]
  BY <1>5 DEF TimingInv
<1> QED  BY <1>3, <1>4, <1>8, <1>9 DEF TypeOK, OfClears

\* What is kept stays within the bounds of calls and durations: no call is counted,
\* timed or measured twice, and no duration is longer than its call.
THEOREM TypeCorrect == Spec => []TypeOK
<1>1. TypeInv /\ [Next]_vars => TypeInv'
  BY NextInv, TimingNextInv, InNumberNext, InTimeNext, OfClearsNext DEF TypeInv
<1>2. Init => TypeInv
  BY InitInv, TimingInitInv, TypeInvInit DEF TypeInv
<1>3. TypeInv => TypeOK
  BY InvGivesType DEF TypeInv
<1> QED  BY <1>1, <1>2, <1>3, PTL DEF Spec

-----------------------------------------------------------------------------
(* Security: a function runs only after each of its requirements was met, and a
   user who stays decides alone. *)

Results == {"none", "ok", "err", "denied", "panic"}
VisitStages == {"idle", "entered", "running", "ran", "over"}

VisitType ==
  [fn : ProtectedFunctions, stage : VisitStages, passed : Nat,
   heard : Seq(Anybody), result : Results]

\* The types that the proofs need.
VisitTypes ==
  /\ visits \in [Visitors -> VisitType]
  /\ \A c \in Visitors : visits[c].passed <= Len(visits[c].fn)
  /\ current_user \in Anybody
  /\ present \in [Visitors -> SUBSET Anybody]

\* Some user of the set meets the requirement.
SomebodyMeets(users, r) == \E user \in users : Meets(user, r)

\* A check that has passed was met by somebody present; all have passed when the
\* function runs, and whoever is logged in is present.
ChecksHold(c) ==
  /\ visits[c].stage # "idle" => current_user \in present[c]
  /\ visits[c].stage \in {"entered", "running", "ran"} =>
       \A i \in 1..visits[c].passed : SomebodyMeets(present[c], visits[c].fn[i])
  /\ visits[c].stage \in {"running", "ran"} => visits[c].passed = Len(visits[c].fn)

AllMet(user, fn) == \A i \in 1..Len(fn) : Meets(user, fn[i])

\* What the audit has heard, and what the result means, where one user stays.
SteadySoFar(c) ==
  \A user \in Anybody : present[c] = {user} =>
    /\ visits[c].stage = "entered" => visits[c].heard = << >>
    /\ visits[c].stage \in {"running", "ran"} => visits[c].heard = <<user>>
    /\ visits[c].stage = "ran" => visits[c].result \in {"ok", "err"}
    /\ visits[c].stage = "over" =>
         /\ visits[c].result = "denied" =>
              ~AllMet(user, visits[c].fn) /\ visits[c].heard = << >>
         /\ visits[c].result \in {"ok", "err"} =>
              AllMet(user, visits[c].fn) /\ visits[c].heard = <<user, user>>

SecInv ==
  /\ VisitTypes
  /\ \A c \in Visitors : ChecksHold(c) /\ SteadySoFar(c)

-----------------------------------------------------------------------------

\* Both aspects decide as the sets of roles say (security.rs:74-96,
\* authorization.rs:101-132).
LEMMA AuthorizedMeets ==
  ASSUME NEW user, NEW r
  PROVE  Authorized(user, r) <=> Meets(user, r)
BY DEF Authorized, Meets, ExampleAllows, StdAllows, HasRole, HasAnyRole

\* A function is protected by a sequence of requirements.
LEMMA FunctionsAreSequences ==
  ASSUME NEW fn \in ProtectedFunctions
  PROVE  fn \in Seq(Requirements)
<1>1. ASSUME NEW roles \in SUBSET Roles
      PROVE  <<Requirement(roles, FALSE, TRUE)>> \in Seq(Requirements)
  BY DEF Requirement, Requirements
<1>2. {"admin"} \in SUBSET Roles /\ {"user"} \in SUBSET Roles
      /\ {"admin", "moderator"} \in SUBSET Roles
  BY SecurityAssumption
<1>3. DeleteUser \in Seq(Requirements) /\ ViewProfile \in Seq(Requirements)
  BY ONLY <1>1, <1>2, Zenon DEF DeleteUser, ViewProfile, RequireRole
<1>4. BanUser \in Seq(Requirements)
  BY ONLY <1>1, <1>2, Zenon DEF BanUser, RequireAnyRole
<1>5. PublicEndpoint \in Seq(Requirements)
  BY DEF PublicEndpoint
<1> QED BY <1>3, <1>4, <1>5, SecurityAssumption DEF ProtectedFunctions

LEMMA SecInitInv == SecInit => SecInv
<1> SUFFICES ASSUME SecInit PROVE SecInv
  OBVIOUS
<1>1. PublicEndpoint \in ProtectedFunctions /\ Len(PublicEndpoint) = 0
  BY DEF ProtectedFunctions, PublicEndpoint
<1>2. VisitTypes
  BY <1>1 DEF SecInit, VisitTypes, VisitType, Visit, VisitStages, Results, Anybody
<1>3. ASSUME NEW c \in Visitors PROVE ChecksHold(c) /\ SteadySoFar(c)
  BY DEF SecInit, Visit, ChecksHold, SteadySoFar
<1> QED BY <1>2, <1>3 DEF SecInv

\* Somebody logs in or out: the calls under way see more users.
LEMMA SetUserKeeps ==
  ASSUME SecInv, NEW user \in Anybody, SetCurrentUser(user)
  PROVE  SecInv'
<1> USE DEF SecInv
<1>1. VisitTypes'
  BY DEF SetCurrentUser, VisitTypes, VisitType
<1>2. ASSUME NEW c \in Visitors PROVE ChecksHold(c)'
  <2>1. present'[c] = present[c] \cup {user} /\ current_user' = user /\ visits' = visits
    BY DEF SetCurrentUser
  <2>2. ASSUME NEW r, SomebodyMeets(present[c], r) PROVE SomebodyMeets(present'[c], r)
    BY <2>1, <2>2 DEF SomebodyMeets
  <2> QED BY <2>1, <2>2 DEF ChecksHold
<1>3. ASSUME NEW c \in Visitors PROVE SteadySoFar(c)'
  <2> SUFFICES ASSUME NEW u \in Anybody, present'[c] = {u}, visits[c].stage # "idle"
               PROVE  present[c] = {u} /\ visits' = visits
    BY DEF SteadySoFar, SetCurrentUser
  <2>1. present'[c] = present[c] \cup {user} /\ visits' = visits
    BY DEF SetCurrentUser
  <2>2. current_user \in present[c]
    BY DEF ChecksHold
  <2> QED BY <2>1, <2>2
<1> QED BY <1>1, <1>2, <1>3

\* A step of one visitor leaves the others and the user as they are.
LEMMA OneVisitorMoves ==
  ASSUME SecInv, NEW c \in Visitors, NEW v,
         visits' = [visits EXCEPT ![c] = v], UNCHANGED current_user,
         \A d \in Visitors \ {c} : present'[d] = present[d],
         VisitTypes', ChecksHold(c)', SteadySoFar(c)'
  PROVE  SecInv'
<1>1. ASSUME NEW d \in Visitors, d # c PROVE (ChecksHold(d) /\ SteadySoFar(d))'
  <2>1. visits'[d] = visits[d] /\ present'[d] = present[d]
    BY <1>1 DEF SecInv, VisitTypes, VisitType
  <2> QED BY <1>1, <2>1 DEF SecInv, ChecksHold, SteadySoFar
<1> QED BY <1>1 DEF SecInv

-----------------------------------------------------------------------------
(* The steps of a call *)

LEMMA CallKeeps ==
  ASSUME SecInv, NEW c \in Visitors, NEW fn \in ProtectedFunctions, CallProtected(c, fn)
  PROVE  SecInv'
<1>1. fn \in Seq(Requirements) /\ Len(fn) \in Nat
  BY FunctionsAreSequences
<1>2. visits'[c] = Visit(fn, "entered") /\ present'[c] = {current_user}
  BY DEF CallProtected, SecInv, VisitTypes, VisitType
<1>3. Visit(fn, "entered") \in VisitType
  BY DEF Visit, VisitType, VisitStages, Results
<1>4. VisitTypes'
  <2>1. ASSUME NEW d \in Visitors PROVE visits'[d].passed <= Len(visits'[d].fn)
    BY <1>1, <1>2 DEF CallProtected, SecInv, VisitTypes, VisitType, Visit
  <2> QED BY <1>3, <2>1 DEF CallProtected, SecInv, VisitTypes, VisitType
<1>5. ChecksHold(c)'
  BY <1>2 DEF CallProtected, ChecksHold, Visit
<1>6. SteadySoFar(c)'
  BY <1>2 DEF SteadySoFar, Visit
<1>7. /\ visits' = [visits EXCEPT ![c] = Visit(fn, "entered")]
      /\ current_user' = current_user
      /\ \A d \in Visitors \ {c} : present'[d] = present[d]
  BY DEF CallProtected, SecInv, VisitTypes, VisitType
<1> QED BY <1>4, <1>5, <1>6, <1>7, OneVisitorMoves

\* A step within a call: what remains to show of the visitor it belongs to.
LEMMA StepKeeps ==
  ASSUME SecInv, NEW c \in Visitors, NEW v,
         v \in VisitType,
         v.passed <= Len(v.fn),
         visits' = [visits EXCEPT ![c] = v], UNCHANGED <<current_user, present>>,
         ChecksHold(c)', SteadySoFar(c)'
  PROVE  SecInv'
<1>1. VisitTypes'
  BY DEF SecInv, VisitTypes, VisitType
<1> QED BY <1>1, OneVisitorMoves

LEMMA PassesKeeps ==
  ASSUME SecInv, NEW c \in Visitors, Passes(c)
  PROVE  SecInv'
<1> DEFINE v == [visits[c] EXCEPT !.passed = @ + 1]
           n == visits[c].passed + 1
<1>1. visits' = [visits EXCEPT ![c] = v] /\ visits'[c] = v
  BY DEF Passes, SecInv, VisitTypes, VisitType
<1>2. /\ visits[c].stage = "entered" /\ v.stage = "entered" /\ v.passed = n
      /\ v.fn = visits[c].fn /\ v.heard = visits[c].heard /\ n \in Nat
      /\ n <= Len(visits[c].fn)
  <2>1. Len(visits[c].fn) \in Nat
    BY FunctionsAreSequences DEF SecInv, VisitTypes, VisitType
  <2> QED BY <2>1 DEF Passes, Checking, SecInv, VisitTypes, VisitType
<1>3. v \in VisitType
  BY <1>2 DEF SecInv, VisitTypes, VisitType
<1>4. SomebodyMeets(present[c], visits[c].fn[n])
  <2>1. Meets(current_user, visits[c].fn[n])
    BY AuthorizedMeets DEF Passes, NextCheck
  <2> QED BY <2>1, <1>2 DEF SecInv, ChecksHold, SomebodyMeets
<1>5. ChecksHold(c)'
  <2>1. \A i \in 1..n : i = n \/ i \in 1..visits[c].passed
    BY <1>2 DEF SecInv, VisitTypes, VisitType
  <2> QED BY <1>1, <1>2, <1>4, <2>1 DEF SecInv, ChecksHold, Passes
<1>6. SteadySoFar(c)'
  BY <1>1, <1>2 DEF SecInv, SteadySoFar, Passes
<1> QED BY <1>1, <1>2, <1>3, <1>5, <1>6, StepKeeps DEF Passes

LEMMA IsDeniedKeeps ==
  ASSUME SecInv, NEW c \in Visitors, IsDenied(c)
  PROVE  SecInv'
<1> DEFINE v == [visits[c] EXCEPT !.stage = "over", !.result = "denied"]
           n == visits[c].passed + 1
<1>1. visits' = [visits EXCEPT ![c] = v] /\ visits'[c] = v
  BY DEF IsDenied, SecInv, VisitTypes, VisitType
<1>2. /\ v.stage = "over" /\ v.result = "denied" /\ v.fn = visits[c].fn
      /\ v.heard = visits[c].heard /\ visits[c].stage = "entered"
      /\ v.passed = visits[c].passed
  BY DEF SecInv, VisitTypes, VisitType, IsDenied, Checking
<1>3. v \in VisitType
  BY DEF SecInv, VisitTypes, VisitType, VisitStages, Results
<1>4. n \in 1..Len(visits[c].fn) /\ ~Meets(current_user, visits[c].fn[n])
  <2>1. Len(visits[c].fn) \in Nat /\ visits[c].passed \in Nat
    BY FunctionsAreSequences DEF SecInv, VisitTypes, VisitType
  <2>2. ~Meets(current_user, visits[c].fn[n])
    BY AuthorizedMeets DEF IsDenied, NextCheck
  <2> QED BY <2>1, <2>2 DEF IsDenied, Checking
<1>5. ChecksHold(c)'
  BY <1>1, <1>2 DEF SecInv, ChecksHold, IsDenied
<1>6. SteadySoFar(c)'
  <2> SUFFICES ASSUME NEW user \in Anybody, present[c] = {user}
               PROVE  ~AllMet(user, visits[c].fn) /\ visits[c].heard = << >>
    BY <1>1, <1>2 DEF SteadySoFar, IsDenied
  <2>1. user = current_user
    BY <1>2 DEF SecInv, ChecksHold
  <2> QED BY <1>2, <1>4, <2>1 DEF SecInv, SteadySoFar, AllMet
<1> QED BY <1>1, <1>2, <1>3, <1>5, <1>6, StepKeeps DEF IsDenied, SecInv, VisitTypes, VisitType

LEMMA AuditBeforeKeeps ==
  ASSUME SecInv, NEW c \in Visitors, AuditBefore(c)
  PROVE  SecInv'
<1> DEFINE v == [visits[c] EXCEPT !.stage = "running", !.heard = <<current_user>>]
<1>1. visits' = [visits EXCEPT ![c] = v] /\ visits'[c] = v
  BY DEF AuditBefore, SecInv, VisitTypes, VisitType
<1>2. /\ v.stage = "running" /\ v.heard = <<current_user>> /\ v.fn = visits[c].fn
      /\ v.passed = visits[c].passed /\ visits[c].stage = "entered"
  BY DEF SecInv, VisitTypes, VisitType, AuditBefore
<1>3. v \in VisitType
  <2>1. <<current_user>> \in Seq(Anybody) /\ "running" \in VisitStages
    BY DEF SecInv, VisitTypes, VisitType, VisitStages
  <2> QED BY <2>1 DEF SecInv, VisitTypes, VisitType
<1>4. visits[c].passed = Len(visits[c].fn)
  <2>1. Len(visits[c].fn) \in Nat /\ visits[c].passed \in Nat
    BY FunctionsAreSequences DEF SecInv, VisitTypes, VisitType
  <2> QED BY <2>1 DEF AuditBefore, Checking, SecInv, VisitTypes, VisitType
<1>5. ChecksHold(c)'
  BY <1>1, <1>2, <1>4 DEF SecInv, ChecksHold, AuditBefore
<1>6. SteadySoFar(c)'
  <2> SUFFICES ASSUME NEW user \in Anybody, present[c] = {user}
               PROVE  user = current_user
    BY <1>1, <1>2 DEF SteadySoFar, AuditBefore
  <2> QED BY <1>2 DEF SecInv, ChecksHold
<1> QED BY <1>1, <1>2, <1>3, <1>5, <1>6, StepKeeps DEF AuditBefore, SecInv, VisitTypes, VisitType

LEMMA BodyKeeps ==
  ASSUME SecInv, NEW c \in Visitors, ProtectedBody(c)
  PROVE  SecInv'
<1>1. PICK r \in {"ok", "err"} :
        visits' = [visits EXCEPT ![c].stage = "ran", ![c].result = r]
  BY DEF ProtectedBody
<1> DEFINE v == [visits[c] EXCEPT !.stage = "ran", !.result = r]
<1>2. visits' = [visits EXCEPT ![c] = v] /\ visits'[c] = v
  BY <1>1 DEF SecInv, VisitTypes, VisitType
<1>3. /\ v.stage = "ran" /\ v.heard = visits[c].heard /\ v.fn = visits[c].fn
      /\ v.passed = visits[c].passed /\ v.result = r /\ visits[c].stage = "running"
  BY DEF SecInv, VisitTypes, VisitType, ProtectedBody
<1>4. v \in VisitType
  BY DEF SecInv, VisitTypes, VisitType, VisitStages, Results
<1>5. ChecksHold(c)'
  BY <1>2, <1>3, ZenonT(30) DEF SecInv, ChecksHold, ProtectedBody
<1>6. SteadySoFar(c)'
  BY <1>2, <1>3 DEF SecInv, SteadySoFar, ProtectedBody
<1> QED BY <1>2, <1>3, <1>4, <1>5, <1>6, StepKeeps DEF ProtectedBody, SecInv, VisitTypes, VisitType

LEMMA AuditAfterKeeps ==
  ASSUME SecInv, NEW c \in Visitors, AuditAfter(c)
  PROVE  SecInv'
<1> DEFINE heard == Append(visits[c].heard, current_user)
           v == [visits[c] EXCEPT !.stage = "over", !.heard = heard]
<1>1. visits' = [visits EXCEPT ![c] = v] /\ visits'[c] = v
  BY DEF AuditAfter, SecInv, VisitTypes, VisitType
<1>2. /\ v.stage = "over" /\ v.heard = heard /\ v.fn = visits[c].fn
      /\ v.passed = visits[c].passed /\ v.result = visits[c].result
      /\ visits[c].stage = "ran"
  BY DEF SecInv, VisitTypes, VisitType, AuditAfter
<1>3. v \in VisitType
  <2>1. heard \in Seq(Anybody) /\ "over" \in VisitStages
    BY DEF SecInv, VisitTypes, VisitType, VisitStages
  <2> HIDE DEF heard
  <2> QED BY <2>1 DEF SecInv, VisitTypes, VisitType
<1>4. ChecksHold(c)'
  BY <1>1, <1>2 DEF SecInv, ChecksHold, AuditAfter
<1>5. SteadySoFar(c)'
  <2> SUFFICES ASSUME NEW user \in Anybody, present[c] = {user}
               PROVE  /\ visits[c].result # "denied"
                      /\ AllMet(user, visits[c].fn) /\ heard = <<user, user>>
    BY <1>1, <1>2 DEF SteadySoFar, AuditAfter
  <2>1. user = current_user /\ visits[c].heard = <<user>> /\ visits[c].result # "denied"
    BY <1>2 DEF SecInv, ChecksHold, SteadySoFar
  <2>2. heard = <<user, user>>
    <3> DEFINE s == Append(<<user>>, user)
               t == <<user, user>>
    <3>1. /\ s \in Seq(Anybody) /\ t \in Seq(Anybody) /\ Len(s) = 2 /\ Len(t) = 2
          /\ \A i \in 1..2 : s[i] = t[i]
      OBVIOUS
    <3> HIDE DEF s, t
    <3>2. s = t
      BY <3>1, SeqEqual
    <3> QED BY <2>1, <3>2 DEF s, t
  <2>3. \A i \in 1..Len(visits[c].fn) : Meets(user, visits[c].fn[i])
    BY <1>2, <2>1 DEF SecInv, ChecksHold, SomebodyMeets
  <2> QED BY <2>1, <2>2, <2>3 DEF AllMet
<1> QED BY <1>1, <1>2, <1>3, <1>4, <1>5, StepKeeps DEF AuditAfter, SecInv, VisitTypes, VisitType

LEMMA PanicKeeps ==
  ASSUME SecInv, NEW c \in Visitors, PanicProtected(c)
  PROVE  SecInv'
<1> DEFINE v == [visits[c] EXCEPT !.stage = "over", !.result = "panic"]
<1>1. visits' = [visits EXCEPT ![c] = v] /\ visits'[c] = v
  BY DEF PanicProtected, SecInv, VisitTypes, VisitType
<1>2. /\ v.stage = "over" /\ v.result = "panic" /\ v.fn = visits[c].fn
      /\ v.passed = visits[c].passed /\ visits[c].stage # "idle"
  BY DEF SecInv, VisitTypes, VisitType, PanicProtected
<1>3. v \in VisitType
  BY DEF SecInv, VisitTypes, VisitType, VisitStages, Results
<1>4. ChecksHold(c)'
  BY <1>1, <1>2 DEF SecInv, ChecksHold, PanicProtected
<1>5. SteadySoFar(c)'
  BY <1>1, <1>2 DEF SteadySoFar
<1> QED BY <1>1, <1>2, <1>3, <1>4, <1>5, StepKeeps DEF PanicProtected, SecInv, VisitTypes, VisitType

-----------------------------------------------------------------------------
(* The results *)

LEMMA SecNextInv == SecInv /\ [SecNext]_secVars => SecInv'
<1> SUFFICES ASSUME SecInv, [SecNext]_secVars PROVE SecInv'
  OBVIOUS
<1>1. CASE \E user \in Users : SetCurrentUser(user)
  BY <1>1, SetUserKeeps DEF Anybody
<1>2. CASE ClearCurrentUser
  BY <1>2, SetUserKeeps DEF ClearCurrentUser, Anybody
<1>3. ASSUME NEW c \in Visitors, NEW fn \in ProtectedFunctions, CallProtected(c, fn)
      PROVE  SecInv'
  BY <1>3, CallKeeps
<1>4. ASSUME NEW c \in Visitors,
             \/ Passes(c) \/ IsDenied(c) \/ AuditBefore(c) \/ ProtectedBody(c)
             \/ AuditAfter(c) \/ PanicProtected(c)
      PROVE  SecInv'
  BY <1>4, PassesKeeps, IsDeniedKeeps, AuditBeforeKeeps, BodyKeeps, AuditAfterKeeps,
     PanicKeeps
<1>5. CASE UNCHANGED secVars
  BY <1>5 DEF secVars, SecInv, VisitTypes, VisitType, ChecksHold, SteadySoFar
<1> QED BY <1>1, <1>2, <1>3, <1>4, <1>5 DEF SecNext

\* The inductive invariant: checks that have passed were met, whoever is logged
\* in is among those present, and where one user stays the audit has heard of
\* that user only (security.rs:71-154, authorization.rs:101-140).
THEOREM SecInvHolds == SecSpec => []SecInv
BY SecInitInv, SecNextInv, PTL DEF SecSpec

\* Every variable of a protected call stays in its type (security.rs:12-47).
THEOREM SecTypeCorrect == SecSpec => []SecTypeOK
<1>1. SecInv => SecTypeOK
  BY DEF SecInv, VisitTypes, VisitType, SecTypeOK, VisitStages, Results
<1> QED BY <1>1, SecInvHolds, PTL

\* When a protected function runs, each of its requirements was met by somebody
\* who was the current user during the call (security.rs:100-118).
THEOREM RequirementsWereMet == SecSpec => []EveryRequirementWasMet
<1>1. SecInv => EveryRequirementWasMet
  BY DEF SecInv, ChecksHold, SomebodyMeets, EveryRequirementWasMet
<1> QED BY <1>1, SecInvHolds, PTL

\* A user who stays logged in all through a call decides it, and the audit names
\* nobody else (security.rs:100-154).
THEOREM OneUserDecides == SecSpec => []SteadyUserDecides
<1>1. SecInv => SteadyUserDecides
  BY DEF SecInv, SteadySoFar, SteadyUserDecides, AllMet
<1> QED BY <1>1, SecInvHolds, PTL

-----------------------------------------------------------------------------
(* Transactions: each is settled as its function ended, and the statements of
   a function stand together. *)

Connection == [holder : Clients \cup {Nobody}, poisoned : BOOLEAN,
               in_transaction : BOOLEAN]

SessionType ==
  [stage : TxStages \cup {"idle", "over"}, op : Operations, id : Nat,
   conn : {0, 1}, on : {0, 1},
   tx : {"none", "open", "committed", "rolled back", "dropped"},
   done : 0..2, body : {"none", "ok", "err"},
   result : {"none", "ok", "err", "panic"}]

\* Stages in which the connection is in hand, and with it in the pool.
InUse == {"begin", "begun", "lock", "body", "proceeded", "settled"}

\* What a session has come to.
SessionHolds(s) ==
  /\ s.stage \in {"called", "begin"} => s.tx = "none" /\ s.done = 0
  /\ s.stage \in {"begun", "lock"} => s.tx = "open" /\ s.on = 1 /\ s.done = 0
  /\ s.stage \in {"body", "proceeded"} => s.tx = "open" /\ s.on = 1
  /\ s.stage \in InUse => s.conn = 1
  /\ s.stage = "proceeded" => s.body \in {"ok", "err"}
  /\ s.stage = "proceeded" /\ s.body = "ok" =>
       s.op.ends = "ok" /\ s.done = s.op.statements
  /\ s.stage = "settled" =>
       \/ s.tx = "committed" /\ s.result = "ok"
       \/ s.tx = "rolled back" /\ s.result = "err"
  /\ s.stage = "over" =>
       /\ s.result = "ok" => s.tx = "committed"
       /\ s.result = "err" => s.tx = "rolled back"
       /\ s.tx # "open"
  /\ s.tx = "committed" => /\ s.on = 1 /\ s.op.ends = "ok" /\ s.done = s.op.statements
                           /\ s.stage \in {"settled", "over"}

Types ==
  /\ connections = << >> \/ (\E conn \in Connection : connections = <<conn>>)
  /\ sessions \in [Clients -> SessionType]
  /\ begun \in Nat
  /\ journal \in Seq([call : Nat, on : {1}])
  /\ cut \subseteq Nat

SessionInv ==
  \A c \in Clients :
    /\ SessionHolds(sessions[c])
    /\ sessions[c].stage \in InUse => connections # << >>

\* Calls have numbers of their own.
NumbersDiffer ==
  /\ \A c \in Clients : sessions[c].id <= begun
  /\ \A c \in Clients : sessions[c].stage # "idle" => sessions[c].id # 0
  /\ \A c, d \in Clients : c # d /\ sessions[c].id = sessions[d].id => sessions[c].id = 0
  /\ \A i \in 1..Len(journal) : journal[i].call <= begun

\* The function that has the lock, its statements at the end of the journal.
LockHolds ==
  /\ \A c \in Clients : sessions[c].stage = "body" =>
       connections[1].holder = c /\ ~connections[1].poisoned
  /\ \A c \in Clients : sessions[c].stage = "body" /\ sessions[c].done > 0 =>
       journal # << >> /\ journal[Len(journal)].call = sessions[c].id
  /\ \A c \in Clients :
       sessions[c].stage \in {"called", "begin", "begun", "lock", "body"}
         /\ sessions[c].done = 0 =>
       \A i \in 1..Len(journal) : journal[i].call # sessions[c].id
  /\ cut # {} => connections # << >> /\ connections[1].poisoned

TxInv == Types /\ SessionInv /\ NumbersDiffer /\ LockHolds /\ BodiesAreUndivided

\* Stages of a call that may still execute.
Early == {"called", "begin", "begun", "lock", "body"}

-----------------------------------------------------------------------------

LEMMA TxInitInv == TxInit => TxInv
<1> SUFFICES ASSUME TxInit PROVE TxInv
  OBVIOUS
<1>1. Session(TransferMoney, 0, "idle") \in SessionType
  BY DEF Session, SessionType, TxStages, Operations, TransferMoney
<1>2. Types
  BY <1>1 DEF TxInit, Types
<1>3. SessionInv /\ NumbersDiffer
  <2>1. \A c \in Clients : /\ sessions[c].stage = "idle" /\ sessions[c].tx = "none"
                           /\ sessions[c].id = 0
    BY DEF TxInit, Session
  <2>2. SessionInv
    BY <2>1 DEF SessionInv, SessionHolds, InUse
  <2>3. NumbersDiffer
    BY <2>1 DEF TxInit, NumbersDiffer
  <2> QED BY <2>2, <2>3
<1>4. LockHolds /\ BodiesAreUndivided
  BY DEF TxInit, LockHolds, BodiesAreUndivided, Session
<1> QED BY <1>2, <1>3, <1>4 DEF TxInv

\* What there is in a pool with a connection.
LEMMA ThePool ==
  ASSUME Types, connections # << >>
  PROVE  connections[1] \in Connection /\ connections = <<connections[1]>>
BY DEF Types

\* A step of one client that executes nothing: its session becomes s.
LEMMA SessionMoves ==
  ASSUME TxInv, NEW c \in Clients, NEW s \in SessionType,
         sessions' = [sessions EXCEPT ![c] = s],
         s.id = sessions[c].id, sessions[c].stage # "idle", s.stage # "idle",
         s.done = sessions[c].done, SessionHolds(s),
         s.stage \in Early => sessions[c].stage \in Early,
         s.stage \in InUse => connections' # << >>,
         connections # << >> => connections' # << >>,
         connections' = << >> \/ (\E conn \in Connection : connections' = <<conn>>),
         s.stage = "body" => /\ connections'[1].holder = c /\ ~connections'[1].poisoned
                             /\ s.done = 0,
         \A d \in Clients \ {c} : sessions[d].stage = "body" =>
           connections'[1].holder = d /\ ~connections'[1].poisoned,
         cut' \subseteq Nat,
         cut' # {} => connections' # << >> /\ connections'[1].poisoned,
         BodiesAreUndivided', UNCHANGED <<begun, journal>>
  PROVE  TxInv'
<1>1. /\ sessions'[c] = s
      /\ \A d \in Clients : d # c => sessions'[d] = sessions[d]
  BY DEF TxInv, Types
<1>2. Types'
  BY DEF TxInv, Types
<1>3. SessionInv'
  BY <1>1 DEF TxInv, SessionInv
<1>4. NumbersDiffer'
  <2>1. \A d \in Clients : sessions'[d].id = sessions[d].id
    BY <1>1
  <2>2. \A d \in Clients : sessions'[d].stage # "idle" => sessions[d].stage # "idle"
    BY <1>1
  <2> QED BY <2>1, <2>2 DEF TxInv, NumbersDiffer
<1>5. LockHolds'
  <2>1. \A d \in Clients : sessions'[d].stage = "body" =>
          connections'[1].holder = d /\ ~connections'[1].poisoned
    BY <1>1
  <2>2. \A d \in Clients : sessions'[d].stage = "body" /\ sessions'[d].done > 0 =>
          journal' # << >> /\ journal'[Len(journal')].call = sessions'[d].id
    BY <1>1 DEF TxInv, LockHolds
  <2>3. \A d \in Clients :
          sessions'[d].stage \in {"called", "begin", "begun", "lock", "body"}
            /\ sessions'[d].done = 0 =>
          \A i \in 1..Len(journal') : journal'[i].call # sessions'[d].id
    BY <1>1 DEF TxInv, LockHolds, Early
  <2> QED BY <2>1, <2>2, <2>3 DEF LockHolds
<1> QED BY <1>2, <1>3, <1>4, <1>5 DEF TxInv

\* The same where the connections and what the audit has cut stay as they are.
LEMMA SessionMovesAlone ==
  ASSUME TxInv, NEW c \in Clients, NEW s \in SessionType,
         sessions' = [sessions EXCEPT ![c] = s],
         s.id = sessions[c].id, sessions[c].stage # "idle", s.stage \notin {"idle", "body"},
         s.done = sessions[c].done, SessionHolds(s),
         s.stage \in Early => sessions[c].stage \in Early,
         s.stage \in InUse => connections # << >>,
         UNCHANGED <<connections, begun, journal, cut>>
  PROVE  TxInv'
<1>1. BodiesAreUndivided'
  BY DEF TxInv, BodiesAreUndivided
<1>2. connections' = << >> \/ (\E conn \in Connection : connections' = <<conn>>)
  BY DEF TxInv, Types
<1>3. \A d \in Clients \ {c} : sessions[d].stage = "body" =>
        connections'[1].holder = d /\ ~connections'[1].poisoned
  BY DEF TxInv, LockHolds
<1>4. cut' \subseteq Nat /\ (cut' # {} => connections' # << >> /\ connections'[1].poisoned)
  BY DEF TxInv, Types, LockHolds
<1> QED BY <1>1, <1>2, <1>3, <1>4, SessionMoves

-----------------------------------------------------------------------------
(* The steps of a call *)

LEMMA GetConnectionKeeps ==
  ASSUME TxInv, NEW c \in Clients,
         GetConnection(c, "called", "begin") \/ GetConnection(c, "begun", "lock")
  PROVE  TxInv'
<1>1. PICK to \in {"begin", "lock"} :
        /\ sessions' = [sessions EXCEPT ![c].stage = to, ![c].conn = 1]
        /\ to = "begin" => sessions[c].stage = "called"
        /\ to = "lock" => sessions[c].stage = "begun"
  BY DEF GetConnection, SessionAt
<1> DEFINE s == [sessions[c] EXCEPT !.stage = to, !.conn = 1]
<1>2. sessions' = [sessions EXCEPT ![c] = s] /\ sessions[c] \in SessionType
  BY <1>1 DEF TxInv, Types
<1>3. /\ s \in SessionType /\ s.stage = to /\ s.conn = 1 /\ s.id = sessions[c].id
      /\ s.done = sessions[c].done /\ s.tx = sessions[c].tx /\ s.on = sessions[c].on
      /\ s.op = sessions[c].op
  BY <1>2 DEF SessionType, TxStages
<1>4. SessionHolds(s)
  <2>1. SessionHolds(sessions[c])
    BY DEF TxInv, SessionInv
  <2> HIDE DEF s
  <2> QED BY <1>1, <1>3, <2>1 DEF SessionHolds, InUse
<1>5. /\ connections' # << >>
      /\ connections' = << >> \/ (\E conn \in Connection : connections' = <<conn>>)
      /\ connections # << >> => connections' = connections
  <2>1. NewConnection \in Connection
    BY DEF NewConnection, Connection
  <2>2. CASE connections = << >>
    BY <2>1, <2>2 DEF GetConnection
  <2>3. CASE connections # << >>
    BY <2>3 DEF GetConnection, TxInv, Types
  <2> QED BY <2>2, <2>3
<1>6. \A d \in Clients \ {c} : sessions[d].stage = "body" =>
        connections'[1].holder = d /\ ~connections'[1].poisoned
  BY <1>5 DEF TxInv, LockHolds, SessionInv, InUse
<1>7. cut' \subseteq Nat /\ (cut' # {} => connections' # << >> /\ connections'[1].poisoned)
  BY <1>5 DEF TxInv, Types, LockHolds, GetConnection
<1>8. BodiesAreUndivided' /\ UNCHANGED <<begun, journal>>
  BY DEF TxInv, BodiesAreUndivided, GetConnection
<1> HIDE DEF s
<1> QED BY <1>1, <1>2, <1>3, <1>4, <1>5, <1>6, <1>7, <1>8, SessionMoves DEF Early

\* A connection in hand is the one of the pool.
LEMMA InHandIsThePool ==
  ASSUME TxInv, NEW c \in Clients, sessions[c].stage \in InUse
  PROVE  /\ sessions[c].conn = 1 /\ InHand(c) = connections[1]
         /\ connections[1] \in Connection /\ connections = <<connections[1]>>
         /\ SessionHolds(sessions[c]) /\ sessions[c] \in SessionType
<1>1. connections # << >> /\ SessionHolds(sessions[c])
  BY DEF TxInv, SessionInv
<1>2. sessions[c].conn = 1
  BY <1>1 DEF SessionHolds
<1>3. connections[1] \in Connection /\ connections = <<connections[1]>>
  BY <1>1, ThePool DEF TxInv
<1> QED BY <1>1, <1>2, <1>3 DEF InHand, TxInv, Types

LEMMA BeginKeeps ==
  ASSUME TxInv, NEW c \in Clients, BeginTransaction(c)
  PROVE  TxInv'
<1> DEFINE s == [sessions[c] EXCEPT !.stage = "begun", !.tx = "open", !.on = 1]
           conn == [connections[1] EXCEPT !.in_transaction = TRUE]
<1>1. sessions[c].stage = "begin"
  BY DEF BeginTransaction, SessionAt
<1>2. /\ sessions[c].conn = 1 /\ connections[1] \in Connection
      /\ connections = <<connections[1]>>
      /\ SessionHolds(sessions[c]) /\ sessions[c] \in SessionType
  BY <1>1, InHandIsThePool DEF InUse
<1>3. sessions' = [sessions EXCEPT ![c] = s]
  BY <1>2 DEF BeginTransaction, TxInv, Types
<1>4. /\ s \in SessionType /\ s.stage = "begun" /\ s.conn = 1 /\ s.id = sessions[c].id
      /\ s.done = sessions[c].done /\ s.tx = "open" /\ s.on = 1
  BY <1>2 DEF SessionType, TxStages
<1>5. SessionHolds(s)
  <2> HIDE DEF s
  <2> QED BY <1>1, <1>2, <1>4 DEF SessionHolds, InUse
<1>6. connections' = <<conn>> /\ conn \in Connection
      /\ conn.holder = connections[1].holder /\ conn.poisoned = connections[1].poisoned
  <2>1. connections' = [connections EXCEPT ![1] = conn]
    BY <1>2 DEF BeginTransaction
  <2>2. conn \in Connection /\ conn.holder = connections[1].holder
        /\ conn.poisoned = connections[1].poisoned
    BY <1>2 DEF Connection
  <2> HIDE DEF conn
  <2> QED BY <1>2, <2>1, <2>2
<1> HIDE DEF s, conn
<1>7. connections' # << >> /\ connections'[1] = conn
  BY <1>6
<1>8. \A d \in Clients \ {c} : sessions[d].stage = "body" =>
        connections'[1].holder = d /\ ~connections'[1].poisoned
  BY <1>6, <1>7 DEF TxInv, LockHolds
<1>9. cut' \subseteq Nat /\ (cut' # {} => connections' # << >> /\ connections'[1].poisoned)
  BY <1>6, <1>7 DEF TxInv, Types, LockHolds, BeginTransaction
<1>10. BodiesAreUndivided' /\ UNCHANGED <<begun, journal>>
  BY DEF TxInv, BodiesAreUndivided, BeginTransaction
<1> QED BY <1>1, <1>3, <1>4, <1>5, <1>6, <1>7, <1>8, <1>9, <1>10, SessionMoves DEF Early

LEMMA LockKeeps ==
  ASSUME TxInv, NEW c \in Clients, LockConnection(c)
  PROVE  TxInv'
<1> DEFINE s == [sessions[c] EXCEPT !.stage = "body"]
           conn == [connections[1] EXCEPT !.holder = c]
<1>1. sessions[c].stage = "lock"
  BY DEF LockConnection, SessionAt
<1>2. /\ sessions[c].conn = 1 /\ InHand(c) = connections[1]
      /\ connections[1] \in Connection /\ connections = <<connections[1]>>
      /\ SessionHolds(sessions[c]) /\ sessions[c] \in SessionType
  BY <1>1, InHandIsThePool DEF InUse
<1>3. sessions' = [sessions EXCEPT ![c] = s]
  BY <1>2 DEF LockConnection, TxInv, Types
<1>4. /\ s \in SessionType /\ s.stage = "body" /\ s.conn = 1 /\ s.id = sessions[c].id
      /\ s.done = sessions[c].done /\ s.tx = sessions[c].tx /\ s.on = sessions[c].on
  BY <1>2 DEF SessionType, TxStages
<1>5. SessionHolds(s) /\ s.done = 0
  <2> HIDE DEF s
  <2> QED BY <1>1, <1>2, <1>4 DEF SessionHolds, InUse
<1>6. connections' = <<conn>> /\ conn \in Connection
      /\ conn.holder = c /\ conn.poisoned = connections[1].poisoned
  <2>1. connections' = [connections EXCEPT ![1] = conn]
    BY <1>2 DEF LockConnection
  <2>2. conn \in Connection /\ conn.holder = c /\ conn.poisoned = connections[1].poisoned
    BY <1>2 DEF Connection
  <2> HIDE DEF conn
  <2> QED BY <1>2, <2>1, <2>2
<1> HIDE DEF s, conn
<1>7. connections' # << >> /\ connections'[1] = conn
  BY <1>6
<1>8. connections[1].holder = Nobody /\ ~connections[1].poisoned
  BY <1>2 DEF LockConnection, CanLock
<1>9. \A d \in Clients \ {c} : sessions[d].stage # "body"
  BY <1>8, TransactionsAssumption DEF TxInv, LockHolds
<1>10. cut' = {}
  BY <1>8 DEF TxInv, LockHolds, LockConnection
<1>11. BodiesAreUndivided' /\ UNCHANGED <<begun, journal>>
  BY DEF TxInv, BodiesAreUndivided, LockConnection
<1> QED BY <1>1, <1>3, <1>4, <1>5, <1>6, <1>7, <1>8, <1>9, <1>10, <1>11, SessionMoves
        DEF Early

LEMMA ReturnFromBodyKeeps ==
  ASSUME TxInv, NEW c \in Clients, ReturnFromBody(c)
  PROVE  TxInv'
<1>1. sessions[c].stage = "body"
  BY DEF ReturnFromBody, SessionAt
<1>2. PICK r \in {"ok", "err"} :
        /\ r = "ok" => /\ sessions[c].done = sessions[c].op.statements
                       /\ sessions[c].op.ends = "ok"
        /\ sessions' = [sessions EXCEPT ![c].stage = "proceeded", ![c].body = r]
  BY DEF ReturnFromBody
<1> DEFINE s == [sessions[c] EXCEPT !.stage = "proceeded", !.body = r]
           conn == [connections[1] EXCEPT !.holder = Nobody]
<1>3. /\ sessions[c].conn = 1 /\ connections[1] \in Connection
      /\ connections = <<connections[1]>>
      /\ SessionHolds(sessions[c]) /\ sessions[c] \in SessionType
  BY <1>1, InHandIsThePool DEF InUse
<1>4. sessions' = [sessions EXCEPT ![c] = s]
  BY <1>2 DEF TxInv, Types
<1>5. /\ s \in SessionType /\ s.stage = "proceeded" /\ s.conn = 1 /\ s.id = sessions[c].id
      /\ s.done = sessions[c].done /\ s.tx = sessions[c].tx /\ s.on = sessions[c].on
      /\ s.op = sessions[c].op /\ s.body = r
  BY <1>3 DEF SessionType, TxStages
<1>6. SessionHolds(s)
  <2> HIDE DEF s
  <2> QED BY <1>1, <1>2, <1>3, <1>5 DEF SessionHolds, InUse
<1>7. connections' = <<conn>> /\ conn \in Connection
      /\ conn.poisoned = connections[1].poisoned
  <2>1. connections' = [connections EXCEPT ![1] = conn]
    BY <1>3 DEF ReturnFromBody
  <2>2. conn \in Connection /\ conn.poisoned = connections[1].poisoned
    BY <1>3 DEF Connection
  <2> HIDE DEF conn
  <2> QED BY <1>3, <2>1, <2>2
<1> HIDE DEF s, conn
<1>8. connections' # << >> /\ connections'[1] = conn
  BY <1>7
<1>9. \A d \in Clients \ {c} : sessions[d].stage # "body"
  BY <1>1 DEF TxInv, LockHolds
<1>10. cut' \subseteq Nat /\ (cut' # {} => connections' # << >> /\ connections'[1].poisoned)
  BY <1>7, <1>8 DEF TxInv, Types, LockHolds, ReturnFromBody
<1>11. BodiesAreUndivided' /\ UNCHANGED <<begun, journal>>
  BY DEF TxInv, BodiesAreUndivided, ReturnFromBody
<1> QED BY <1>1, <1>4, <1>5, <1>6, <1>7, <1>8, <1>9, <1>10, <1>11, SessionMoves DEF Early

\* The aspect settles the transaction, or a settled call returns, or a call
\* panics without the lock.
LEMMA SettleKeeps ==
  ASSUME TxInv, NEW c \in Clients,
         Commit(c) \/ Rollback(c) \/ ReturnToCaller(c) \/ TxPanic(c)
  PROVE  TxInv'
<1>1. PICK stage \in {"settled", "over"},
           tx \in {"none", "open", "committed", "rolled back", "dropped"},
           result \in {"none", "ok", "err", "panic"} :
        /\ sessions' = [sessions EXCEPT ![c] =
             [sessions[c] EXCEPT !.stage = stage, !.tx = tx, !.result = result]]
        /\ sessions[c].stage \in Early \cup InUse
        /\ \/ /\ stage = "settled" /\ tx = "committed" /\ result = "ok"
              /\ sessions[c].on = 1 /\ sessions[c].op.ends = "ok"
              /\ sessions[c].done = sessions[c].op.statements
           \/ stage = "settled" /\ tx = "rolled back" /\ result = "err"
           \/ /\ stage = "over" /\ sessions[c].stage = "settled"
              /\ tx = sessions[c].tx /\ result = sessions[c].result
           \/ stage = "over" /\ tx = Dropped(sessions[c].tx) /\ result = "panic"
        /\ stage = "settled" => sessions[c].stage = "proceeded"
  <2>1. sessions[c] \in SessionType /\ SessionHolds(sessions[c])
    BY DEF TxInv, Types, SessionInv
  <2>2. CASE Commit(c)
    <3>1. /\ sessions[c].stage = "proceeded" /\ sessions[c].tx = "open"
          /\ sessions[c].on = 1 /\ sessions[c].op.ends = "ok"
          /\ sessions[c].done = sessions[c].op.statements
      BY <2>1, <2>2 DEF Commit, SessionAt, SessionHolds
    <3>2. sessions' = [sessions EXCEPT ![c] =
            [sessions[c] EXCEPT !.stage = "settled", !.tx = "committed", !.result = "ok"]]
      BY <2>2, <3>1 DEF Commit, TxInv, Types
    <3> QED BY <3>1, <3>2 DEF InUse
  <2>3. CASE Rollback(c)
    <3>1. sessions[c].stage = "proceeded" /\ sessions[c].tx = "open"
      BY <2>1, <2>3 DEF Rollback, SessionAt, SessionHolds
    <3>2. sessions' = [sessions EXCEPT ![c] =
            [sessions[c] EXCEPT !.stage = "settled", !.tx = "rolled back", !.result = "err"]]
      BY <2>3, <3>1 DEF Rollback, TxInv, Types
    <3> QED BY <3>1, <3>2 DEF InUse
  <2>4. CASE ReturnToCaller(c)
    <3>1. /\ sessions[c].stage = "settled" /\ Dropped(sessions[c].tx) = sessions[c].tx
          /\ sessions[c].result \in {"ok", "err"}
          /\ sessions[c].tx \in {"committed", "rolled back"}
      BY <2>1, <2>4 DEF ReturnToCaller, SessionAt, SessionHolds, Dropped
    <3>2. sessions' = [sessions EXCEPT ![c] =
            [sessions[c] EXCEPT !.stage = "over", !.tx = sessions[c].tx,
                                !.result = sessions[c].result]]
      BY <2>1, <2>4, <3>1 DEF ReturnToCaller, TxInv, Types, SessionType
    <3> QED BY <3>1, <3>2 DEF InUse
  <2>5. CASE TxPanic(c)
    <3>1. sessions[c].stage \in Early \cup InUse
      BY <2>5 DEF TxPanic, SessionAt, Early, InUse
    <3>2. Dropped(sessions[c].tx) \in
            {"none", "open", "committed", "rolled back", "dropped"}
      BY <2>1 DEF Dropped, SessionType
    <3>3. sessions' = [sessions EXCEPT ![c] =
            [sessions[c] EXCEPT !.stage = "over", !.tx = Dropped(sessions[c].tx),
                                !.result = "panic"]]
      BY <2>5 DEF TxPanic, CallPanics, TxInv, Types
    <3> QED BY <3>1, <3>2, <3>3
  <2> QED BY <2>2, <2>3, <2>4, <2>5
<1> DEFINE s == [sessions[c] EXCEPT !.stage = stage, !.tx = tx, !.result = result]
<1>2. sessions[c] \in SessionType /\ SessionHolds(sessions[c])
      /\ (sessions[c].stage \in InUse => connections # << >>)
  BY DEF TxInv, Types, SessionInv
<1>3. /\ s \in SessionType /\ s.stage = stage /\ s.conn = sessions[c].conn
      /\ s.id = sessions[c].id /\ s.done = sessions[c].done /\ s.tx = tx
      /\ s.on = sessions[c].on /\ s.op = sessions[c].op /\ s.result = result
  BY <1>2, ZenonT(30) DEF SessionType, TxStages
<1>4. SessionHolds(s)
  <2> HIDE DEF s
  <2>1. CASE stage = "settled"
    BY <1>1, <1>2, <1>3, <2>1 DEF SessionHolds, InUse
  <2>2. CASE stage = "over" /\ tx = Dropped(sessions[c].tx) /\ result = "panic"
    BY <1>2, <1>3, <2>2 DEF SessionHolds, InUse, Dropped
  <2>3. CASE stage = "over" /\ sessions[c].stage = "settled"
             /\ tx = sessions[c].tx /\ result = sessions[c].result
    BY <1>2, <1>3, <2>3 DEF SessionHolds, InUse
  <2> QED BY <1>1, <2>1, <2>2, <2>3
<1>5. s.stage \in InUse => connections # << >>
  BY <1>1, <1>2, <1>3 DEF InUse
<1>6. s.stage \in Early => sessions[c].stage \in Early
  BY <1>3 DEF Early
<1>7. sessions[c].stage # "idle" /\ s.stage \notin {"idle", "body"}
  BY <1>1, <1>3 DEF Early, InUse
<1>8. UNCHANGED <<connections, begun, journal, cut>>
  BY DEF Commit, Rollback, ReturnToCaller, TxPanic
<1>9. sessions' = [sessions EXCEPT ![c] = s]
  BY <1>1
<1> HIDE DEF s
<1> QED BY <1>3, <1>4, <1>5, <1>6, <1>7, <1>8, <1>9, SessionMovesAlone

-----------------------------------------------------------------------------
(* A call, its statements, a panic under the lock *)

LEMMA CallTransactionalKeeps ==
  ASSUME TxInv, NEW c \in Clients, NEW op \in Operations, CallTransactional(c, op)
  PROVE  TxInv'
<1> DEFINE s == Session(op, begun + 1, "called")
<1>1. /\ sessions'[c] = s
      /\ \A d \in Clients : d # c => sessions'[d] = sessions[d]
      /\ begun' = begun + 1 /\ begun \in Nat
  BY DEF CallTransactional, TxInv, Types
<1>2. /\ s \in SessionType /\ s.stage = "called" /\ s.id = begun + 1 /\ s.tx = "none"
      /\ s.done = 0
  BY <1>1 DEF Session, SessionType, TxStages
<1>3. Types'
  BY <1>1, <1>2 DEF TxInv, Types, CallTransactional
<1>4. SessionHolds(s)
  <2> HIDE DEF s
  <2> QED BY <1>2 DEF SessionHolds, InUse
<1> HIDE DEF s
<1>5. SessionInv'
  BY <1>1, <1>2, <1>4 DEF TxInv, SessionInv, CallTransactional, InUse
<1>6. \A d \in Clients : sessions[d].id \in Nat /\ sessions[d].id <= begun
  BY DEF TxInv, Types, SessionType, NumbersDiffer
<1>7. \A i \in 1..Len(journal) : journal[i].call \in Nat /\ journal[i].call <= begun
  <2>1. journal \in Seq([call : Nat, on : {1}])
    BY DEF TxInv, Types
  <2>2. \A i \in 1..Len(journal) : journal[i] \in [call : Nat, on : {1}]
    BY <2>1, ElementOfSeq
  <2> QED BY <2>2 DEF TxInv, NumbersDiffer
<1>8. NumbersDiffer'
  BY <1>1, <1>2, <1>6, <1>7 DEF TxInv, NumbersDiffer, CallTransactional
<1>9. LockHolds'
  BY <1>1, <1>2, <1>7 DEF TxInv, LockHolds, CallTransactional
<1>10. BodiesAreUndivided'
  BY DEF TxInv, BodiesAreUndivided, CallTransactional
<1> QED BY <1>3, <1>5, <1>8, <1>9, <1>10 DEF TxInv

\* The statement goes behind those of the same call, if there are any.
LEMMA ExecuteKeeps ==
  ASSUME TxInv, NEW c \in Clients, Execute(c)
  PROVE  TxInv'
<1> DEFINE s == [sessions[c] EXCEPT !.done = @ + 1]
           id == sessions[c].id
           e == [call |-> id, on |-> 1]
           n == Len(journal)
<1>1. sessions[c].stage = "body" /\ sessions[c].done < sessions[c].op.statements
  BY DEF Execute, SessionAt
<1>2. /\ sessions[c].conn = 1 /\ connections # << >>
      /\ SessionHolds(sessions[c]) /\ sessions[c] \in SessionType
  BY <1>1, InHandIsThePool DEF InUse
<1>3. /\ sessions'[c] = s /\ sessions' = [sessions EXCEPT ![c] = s]
      /\ \A d \in Clients : d # c => sessions'[d] = sessions[d]
      /\ UNCHANGED <<connections, begun, cut>>
  BY DEF Execute, TxInv, Types
<1>4. /\ s.stage = "body" /\ s.conn = 1 /\ s.id = id /\ s.done = sessions[c].done + 1
      /\ s.tx = sessions[c].tx /\ s.on = sessions[c].on /\ s.op = sessions[c].op
      /\ s \in SessionType
  <2>1. sessions[c].op \in Operations /\ sessions[c].done \in 0..2
    BY <1>2 DEF SessionType
  <2>2. sessions[c].op.statements \in {1, 2}
    BY <2>1 DEF Operations, TransferMoney, CreateUserWithAccount, FailingOperation
  <2>3. sessions[c].done + 1 \in 0..2
    BY <1>1, <2>1, <2>2
  <2> QED BY <1>1, <1>2, <2>3 DEF SessionType
<1>5. SessionHolds(s)
  <2> HIDE DEF s
  <2> QED BY <1>1, <1>2, <1>4 DEF SessionHolds, InUse
<1>6. /\ journal \in Seq([call : Nat, on : {1}]) /\ journal' = Append(journal, e)
      /\ e \in [call : Nat, on : {1}] /\ id \in Nat /\ n \in Nat
  <2>1. id \in Nat
    BY <1>2 DEF SessionType
  <2> QED BY <1>2, <2>1 DEF Execute, TxInv, Types
<1>7. /\ journal' \in Seq([call : Nat, on : {1}]) /\ Len(journal') = n + 1
      /\ journal'[n + 1].call = id
      /\ \A i \in 1..n : journal'[i] = journal[i]
  <2> HIDE DEF e
  <2>1. /\ journal' \in Seq([call : Nat, on : {1}]) /\ Len(journal') = n + 1
        /\ journal'[n + 1] = e /\ \A i \in 1..n : journal'[i] = journal[i]
    BY <1>6
  <2> QED BY <2>1 DEF e
<1>8. \A d \in Clients \ {c} : sessions[d].stage # "body"
  BY <1>1 DEF TxInv, LockHolds
<1>9. cut = {}
  BY <1>1 DEF TxInv, LockHolds
<1> HIDE DEF s, e
<1>10. Types'
  BY <1>3, <1>4, <1>7 DEF TxInv, Types
<1>11. SessionInv'
  BY <1>2, <1>3, <1>5 DEF TxInv, SessionInv
<1>12. NumbersDiffer'
  <2>1. \A d \in Clients : sessions'[d].id = sessions[d].id
                            /\ sessions'[d].stage = sessions[d].stage
    BY <1>1, <1>3, <1>4
  <2>2. \A i \in 1..(n + 1) : journal'[i].call <= begun
    BY <1>6, <1>7 DEF TxInv, NumbersDiffer
  <2> QED BY <1>3, <1>7, <2>1, <2>2 DEF TxInv, NumbersDiffer
<1>13. LockHolds'
  <2>1. \A d \in Clients : sessions'[d].stage = "body" => d = c
    BY <1>3, <1>8
  <2>2. connections'[1].holder = c /\ ~connections'[1].poisoned
    BY <1>1, <1>3 DEF TxInv, LockHolds
  <2>3. journal' # << >> /\ journal'[Len(journal')].call = sessions'[c].id
    BY <1>3, <1>4, <1>6, <1>7, SMTT(20)
  <2>4. sessions[c].done + 1 # 0
    <3>1. sessions[c].done \in 0..2
      BY <1>2 DEF SessionType
    <3> QED BY <3>1
  <2>5. ASSUME NEW d \in Clients, sessions'[d].stage \in Early, sessions'[d].done = 0
        PROVE  \A i \in 1..Len(journal') : journal'[i].call # sessions'[d].id
    <3>1. d # c
      BY <1>3, <1>4, <2>4, <2>5
    <3>2. sessions[d].stage \in Early /\ sessions[d].done = 0
          /\ sessions'[d].id = sessions[d].id
      BY <1>3, <2>5, <3>1
    <3>3. sessions[d].id # id
      BY <1>1, <3>1, <3>2 DEF TxInv, NumbersDiffer, Early
    <3>4. \A i \in 1..n : journal[i].call # sessions[d].id
      BY <3>2 DEF TxInv, LockHolds, Early
    <3> QED BY <1>6, <1>7, <3>2, <3>3, <3>4
  <2> QED BY <1>3, <1>9, <2>1, <2>2, <2>3, <2>5 DEF LockHolds, Early
<1>14. BodiesAreUndivided'
  <2> SUFFICES ASSUME NEW i \in 1..(n + 1), NEW j \in 1..(n + 1), i < j,
                      journal'[i].call # journal'[j].call, NEW k \in j..(n + 1)
               PROVE  journal'[k].call # journal'[i].call
    BY <1>3, <1>7, <1>9 DEF BodiesAreUndivided
  <2>1. i \in 1..n /\ journal'[i] = journal[i]
    BY <1>6, <1>7
  <2>2. CASE k \in 1..n
    <3>1. j \in 1..n /\ k \in j..n
      BY <1>6, <2>2
    <3>2. /\ journal'[j] = journal[j] /\ journal'[k] = journal[k]
          /\ journal[i].call # journal[j].call
      BY <1>7, <2>1, <2>2, <3>1
    <3>3. \A l \in j..n : journal[l].call # journal[i].call
      BY <2>1, <3>1, <3>2 DEF TxInv, BodiesAreUndivided
    <3> QED BY <2>1, <3>1, <3>2, <3>3
  <2>3. CASE k = n + 1 /\ j = n + 1
    BY <2>3
  <2>4. CASE k = n + 1 /\ j \in 1..n
    <3>1. journal[i].call # journal[j].call
      BY <1>7, <2>1, <2>4
    <3>2. journal[n].call # journal[i].call
      BY <1>6, <2>1, <2>4, <3>1 DEF TxInv, BodiesAreUndivided
    <3>3. CASE sessions[c].done > 0
      BY <1>1, <1>7, <2>4, <3>2, <3>3 DEF TxInv, LockHolds
    <3>4. CASE sessions[c].done = 0
      <4>1. journal[i].call # id
        BY <1>1, <2>1, <3>4 DEF TxInv, LockHolds
      <4> QED BY <1>7, <2>1, <2>4, <4>1
    <3>5. sessions[c].done \in 0..2
      BY <1>2 DEF SessionType
    <3> QED BY <3>3, <3>4, <3>5
  <2>5. k \in 1..n \/ (k = n + 1 /\ (j = n + 1 \/ j \in 1..n))
    <3>1. n \in Nat
      BY <1>6
    <3> HIDE DEF n
    <3> QED BY <3>1
  <2> QED BY <2>2, <2>3, <2>4, <2>5
<1> QED BY <1>10, <1>11, <1>12, <1>13, <1>14 DEF TxInv

\* The lock is poisoned while nobody else is in the function, and a call that is
\* cut short has the end of the journal.
LEMMA PanicWithLockKeeps ==
  ASSUME TxInv, NEW c \in Clients, PanicWithLock(c)
  PROVE  TxInv'
<1> DEFINE s == [sessions[c] EXCEPT !.stage = "over", !.tx = Dropped(sessions[c].tx),
                                    !.result = "panic"]
           conn == [connections[1] EXCEPT !.poisoned = TRUE, !.holder = Nobody]
<1>1. sessions[c].stage \in {"begin", "body"}
  BY DEF PanicWithLock, SessionAt
<1>2. /\ sessions[c].conn = 1 /\ InHand(c) = connections[1]
      /\ connections[1] \in Connection /\ connections = <<connections[1]>>
      /\ SessionHolds(sessions[c]) /\ sessions[c] \in SessionType
  BY <1>1, InHandIsThePool DEF InUse
<1>3. sessions' = [sessions EXCEPT ![c] = s]
  BY DEF PanicWithLock, CallPanics, TxInv, Types
<1>4. /\ s \in SessionType /\ s.stage = "over" /\ s.tx = Dropped(sessions[c].tx)
      /\ s.id = sessions[c].id /\ s.done = sessions[c].done /\ s.result = "panic"
  <2>1. Dropped(sessions[c].tx) \in {"none", "open", "committed", "rolled back", "dropped"}
    BY <1>2 DEF Dropped, SessionType
  <2> QED BY <1>2, <2>1 DEF SessionType, TxStages
<1>5. SessionHolds(s)
  <2>1. s.tx \notin {"open", "committed"}
    <3>1. sessions[c].tx \in {"none", "open"}
      BY <1>1, <1>2 DEF SessionHolds
    <3> QED BY <1>4, <3>1 DEF Dropped
  <2> HIDE DEF s
  <2> QED BY <1>4, <2>1 DEF SessionHolds, InUse
<1>6. connections' = <<conn>> /\ conn \in Connection /\ conn.poisoned
  <2>1. connections' = [connections EXCEPT ![1] = conn]
    BY <1>2 DEF PanicWithLock
  <2>2. conn \in Connection /\ conn.poisoned
    BY <1>2 DEF Connection
  <2> HIDE DEF conn
  <2> QED BY <1>2, <2>1, <2>2
<1> HIDE DEF s, conn
<1>7. connections' # << >> /\ connections'[1] = conn
  BY <1>6
<1>8. \A d \in Clients \ {c} : sessions[d].stage # "body"
  <2>1. CASE sessions[c].stage = "body"
    BY <2>1 DEF TxInv, LockHolds
  <2>2. CASE sessions[c].stage = "begin"
    <3>1. connections[1].holder = Nobody
      BY <1>2, <2>2 DEF PanicWithLock, SessionAt, CanLock
    <3> QED BY <3>1, TransactionsAssumption DEF TxInv, LockHolds
  <2> QED BY <1>1, <2>1, <2>2
<1>9. cut' \subseteq Nat
  <2>1. sessions[c].id \in Nat
    BY <1>2 DEF SessionType
  <2> QED BY <2>1 DEF PanicWithLock, TxInv, Types
<1>10. BodiesAreUndivided'
  <2> SUFFICES ASSUME NEW i \in 1..Len(journal), NEW j \in 1..Len(journal), i < j,
                      journal[i].call # journal[j].call
               PROVE  journal[i].call \notin cut'
    BY DEF PanicWithLock, TxInv, BodiesAreUndivided
  <2>1. journal[i].call \notin cut /\ journal[Len(journal)].call # journal[i].call
    BY DEF TxInv, BodiesAreUndivided
  <2>2. CASE sessions[c].done > 0
    <3>1. sessions[c].stage = "body"
      <4>1. sessions[c].stage = "begin" => sessions[c].done = 0
        BY <1>2 DEF SessionHolds
      <4> QED BY <1>1, <2>2, <4>1
    <3>2. journal[Len(journal)].call = sessions[c].id
      BY <2>2, <3>1 DEF TxInv, LockHolds
    <3> QED BY <2>1, <3>2 DEF PanicWithLock
  <2>3. CASE ~(sessions[c].done > 0)
    BY <2>1, <2>3 DEF PanicWithLock
  <2> QED BY <2>2, <2>3
<1>11. UNCHANGED <<begun, journal>>
  BY DEF PanicWithLock
<1> QED BY <1>1, <1>3, <1>4, <1>5, <1>6, <1>7, <1>8, <1>9, <1>10, <1>11, SessionMoves
        DEF Early, InUse

-----------------------------------------------------------------------------
(* The results *)

LEMMA TxNextInv == TxInv /\ [TxNext]_txVars => TxInv'
<1> SUFFICES ASSUME TxInv, [TxNext]_txVars PROVE TxInv'
  OBVIOUS
<1>1. ASSUME NEW c \in Clients, NEW op \in Operations, CallTransactional(c, op)
      PROVE  TxInv'
  BY <1>1, CallTransactionalKeeps
<1>2. ASSUME NEW c \in Clients, TxStep(c) \/ TxPanic(c) \/ PanicWithLock(c)
      PROVE  TxInv'
  BY <1>2, GetConnectionKeeps, BeginKeeps, LockKeeps, ExecuteKeeps, ReturnFromBodyKeeps,
     SettleKeeps, PanicWithLockKeeps DEF TxStep
<1>3. CASE UNCHANGED txVars
  BY <1>3 DEF txVars, TxInv, Types, SessionInv, NumbersDiffer, LockHolds,
              BodiesAreUndivided
<1> QED BY <1>1, <1>2, <1>3 DEF TxNext

\* The inductive invariant: a session is as its stage says, calls have numbers of
\* their own, and the one in the function holds the lock of a connection that is
\* not poisoned, with its statements at the end (transaction.rs:74-170).
THEOREM TxInvHolds == TxSpec => []TxInv
BY TxInitInv, TxNextInv, PTL DEF TxSpec

\* A transaction is committed or rolled back as the function ended, and what is
\* committed is whole (transaction.rs:124-170).
THEOREM OutcomesAreTheBodys == TxSpec => []OutcomeIsTheBodys
<1>1. ASSUME TxInv PROVE OutcomeIsTheBodys
  <2> SUFFICES ASSUME NEW c \in Clients, sessions[c].stage = "over"
               PROVE  LET s == sessions[c] IN
                      /\ s.result = "ok" => s.tx = "committed"
                      /\ s.result = "err" => s.tx = "rolled back"
                      /\ s.tx # "open"
                      /\ s.tx = "committed" =>
                           /\ s.op.ends = "ok" /\ s.done = s.op.statements
                           /\ \A i \in 1..Len(journal) :
                                journal[i].call = s.id => journal[i].on = s.on
    BY DEF OutcomeIsTheBodys, SessionAt
  <2>1. SessionHolds(sessions[c])
    BY <1>1 DEF TxInv, SessionInv
  <2>2. journal \in Seq([call : Nat, on : {1}])
    BY <1>1 DEF TxInv, Types
  <2>3. \A i \in 1..Len(journal) : journal[i].on = 1
    <3>1. \A i \in 1..Len(journal) : journal[i] \in [call : Nat, on : {1}]
      BY <2>2, ElementOfSeq
    <3> QED BY <3>1
  <2> QED BY <2>1, <2>3 DEF SessionHolds
<1> QED BY <1>1, TxInvHolds, PTL

\* The statements of a call stand together, and nothing follows those of a call
\* that was cut short (transaction.rs:175-242).
THEOREM StatementsStandTogether == TxSpec => []BodiesAreUndivided
<1>1. TxInv => BodiesAreUndivided
  BY DEF TxInv
<1> QED BY <1>1, TxInvHolds, PTL

\* Whatever panics and whoever waits, there is at most one connection, and every
\* session is at one of its stages (transaction.rs:75-170).
THEOREM TxTypeCorrect == TxSpec => []TxTypeOK
<1>1. TxInv => TxTypeOK
  <2> SUFFICES ASSUME TxInv PROVE TxTypeOK
    OBVIOUS
  <2>1. Types
    BY DEF TxInv
  <2>2. connections \in Seq(Connection) /\ Len(connections) <= 1
    <3>1. CASE connections = << >>
      BY <3>1
    <3>2. ASSUME NEW conn \in Connection, connections = <<conn>>
          PROVE  connections \in Seq(Connection) /\ Len(connections) <= 1
      BY <3>2
    <3> QED BY <2>1, <3>1, <3>2 DEF Types
  <2> QED BY <2>1, <2>2 DEF Types, TxTypeOK, Connection, SessionType
<1> QED BY <1>1, TxInvHolds, PTL

-----------------------------------------------------------------------------
(* The user API: posts and deletes that race lose no user and count none twice. *)

AllUsers == {Initially(id) : id \in InitialIds} \cup Posted

Valid(u) == u.username # "" /\ u.email # "no at sign"

RequestType ==
  [kind : {"get", "list", "delete", "post"}, id : Ids, body : SUBSET Posted,
   stage : {"sleeping", "answered"}, result : {"none", "ok", "err"},
   users : SUBSET AllUsers]

ApiTypes ==
  /\ database \in [Ids -> SUBSET AllUsers]
  /\ requests \in [Handlers -> RequestType]
  /\ accepted \in [Ids -> Nat] /\ removed \in [Ids -> Nat]

\* There is at most one user of an id. What is kept, shown or on its way into the
\* database has been checked.
OneOrNone(users) == users = {} \/ \E u \in AllUsers : users = {u} /\ Valid(u)

UsersAreValid ==
  /\ \A id \in Ids : OneOrNone(database[id])
  /\ \A h \in Handlers : \A u \in requests[h].users : Valid(u)
  /\ \A h \in Handlers : requests[h].kind = "post" /\ requests[h].stage = "sleeping" =>
       \E p \in Posted : requests[h].body = {p} /\ Valid(p)

There(id) == IF database[id] = {} THEN 0 ELSE 1
Initial(id) == IF id \in InitialIds THEN 1 ELSE 0

Balance(id) ==
  /\ removed[id] + There(id) <= accepted[id] + Initial(id)
  /\ removed[id] = 0 => (There(id) = 1 <=> accepted[id] + Initial(id) > 0)

ApiInv == ApiTypes /\ UsersAreValid /\ \A id \in Ids : Balance(id)

-----------------------------------------------------------------------------

LEMMA ApiInitInv == ApiInit => ApiInv
<1> SUFFICES ASSUME ApiInit PROVE ApiInv
  OBVIOUS
<1>1. (CHOOSE id \in Ids : TRUE) \in Ids
  BY UserApiAssumption
<1>2. ApiTypes
  BY <1>1, UserApiAssumption DEF ApiInit, ApiTypes, AllUsers, Request, RequestType
<1>3. \A id \in Ids : Valid(Initially(id))
  BY DEF Valid, Initially
<1>4. UsersAreValid
  BY <1>3 DEF ApiInit, UsersAreValid, OneOrNone, AllUsers, Request
<1>5. \A id \in Ids : Balance(id)
  BY DEF ApiInit, Balance, There, Initial
<1> QED BY <1>2, <1>4, <1>5 DEF ApiInv

\* A step that leaves the users as they are.
LEMMA OnlyOneRequest ==
  ASSUME ApiInv, NEW h \in Handlers, NEW r,
         r \in RequestType,
         requests' = [requests EXCEPT ![h] = r],
         \A u \in r.users : Valid(u),
         r.kind = "post" /\ r.stage = "sleeping" => \E p \in Posted : r.body = {p} /\ Valid(p)
  PROVE  /\ requests' \in [Handlers -> RequestType]
         /\ \A g \in Handlers : \A u \in requests'[g].users : Valid(u)
         /\ \A g \in Handlers : requests'[g].kind = "post" /\ requests'[g].stage = "sleeping" =>
              \E p \in Posted : requests'[g].body = {p} /\ Valid(p)
BY DEF ApiInv, ApiTypes, UsersAreValid

LEMMA ReceiveKeeps ==
  ASSUME ApiInv, NEW h \in Handlers,
         \/ \E id \in Ids : GetUser(h, id) \/ DeleteById(h, id)
         \/ ListUsers(h)
         \/ \E p \in Posted : PostUser(h, p)
  PROVE  ApiInv'
<1>1. PICK r : /\ Receive(h, r)
               /\ r \in RequestType
               /\ r.users = {}
               /\ r.kind = "post" /\ r.stage = "sleeping" =>
                    \E p \in Posted : r.body = {p} /\ Valid(p)
  <2>1. CASE \E id \in Ids : GetUser(h, id) \/ DeleteById(h, id)
    BY <2>1 DEF GetUser, DeleteById, Request, RequestType
  <2>2. CASE ListUsers(h)
    BY <2>2, UserApiAssumption DEF ListUsers, Request, RequestType
  <2>3. ASSUME NEW p \in Posted, PostUser(h, p)
        PROVE  \E r : /\ Receive(h, r)
                      /\ r \in RequestType
                      /\ r.users = {}
                      /\ r.kind = "post" /\ r.stage = "sleeping" =>
                           \E q \in Posted : r.body = {q} /\ Valid(q)
    <3> DEFINE request == Request("post", p.id, {p}, "sleeping")
               refused == [request EXCEPT !.stage = "answered", !.result = "err"]
    <3>1. p.id \in Ids
      BY UserApiAssumption
    <3>2. CASE Refuse(p)
      <4>1. Receive(h, refused)
        BY <2>3, <3>2 DEF PostUser
      <4>2. /\ refused \in RequestType
            /\ refused.users = {} /\ refused.stage = "answered"
        BY <3>1 DEF Request, RequestType
      <4> HIDE DEF refused
      <4> QED BY <4>1, <4>2
    <3>3. CASE ~Refuse(p)
      <4>1. Receive(h, request) /\ Valid(p)
        BY <2>3, <3>3 DEF PostUser, Refuse, Valid
      <4>2. /\ request \in RequestType
            /\ request.users = {} /\ request.body = {p}
        BY <3>1 DEF Request, RequestType
      <4> HIDE DEF request
      <4> QED BY <4>1, <4>2
    <3> QED BY <3>2, <3>3
  <2> QED BY <2>1, <2>2, <2>3
<1>2. UNCHANGED <<database, accepted, removed>> /\ requests' = [requests EXCEPT ![h] = r]
  BY <1>1 DEF Receive
<1>3. ApiTypes' /\ UsersAreValid'
  BY <1>1, <1>2, OnlyOneRequest DEF ApiInv, ApiTypes, UsersAreValid
<1>4. \A id \in Ids : Balance(id)'
  BY <1>2 DEF ApiInv, Balance, There
<1> QED BY <1>3, <1>4 DEF ApiInv

\* What an answer must be for the requests to stay as they are described.
LEMMA AnswerKeeps ==
  ASSUME ApiInv, NEW h \in Handlers, NEW result \in {"none", "ok", "err"},
         NEW users \in SUBSET AllUsers, Answer(h, result, users),
         \A u \in users : Valid(u),
         database' \in [Ids -> SUBSET AllUsers], \A id \in Ids : OneOrNone(database'[id]),
         accepted' \in [Ids -> Nat], removed' \in [Ids -> Nat]
  PROVE  ApiTypes' /\ UsersAreValid'
<1> DEFINE r == [requests[h] EXCEPT !.stage = "answered", !.result = result,
                                    !.users = users]
<1>1. requests' = [requests EXCEPT ![h] = r] /\ r.users = users /\ r.stage = "answered"
  BY DEF Answer, ApiInv, ApiTypes, RequestType
<1>2. r \in RequestType
  BY DEF ApiInv, ApiTypes, RequestType
<1> HIDE DEF r
<1> QED BY <1>1, <1>2, OnlyOneRequest DEF ApiTypes, UsersAreValid

LEMMA InsertKeeps ==
  ASSUME ApiInv, NEW h \in Handlers, InsertUser(h)
  PROVE  ApiInv'
<1> DEFINE id == requests[h].id
<1>1. PICK p \in Posted : requests[h].body = {p} /\ Valid(p)
  BY DEF ApiInv, UsersAreValid, InsertUser, Awake
<1>2. id \in Ids /\ {p} \in SUBSET AllUsers
  BY DEF ApiInv, ApiTypes, AllUsers, RequestType
<1>3. /\ database' = [database EXCEPT ![id] = {p}] /\ removed' = removed
      /\ accepted' = [accepted EXCEPT ![id] = @ + 1] /\ Answer(h, "ok", {p})
  BY <1>1 DEF InsertUser
<1>4. ApiTypes' /\ UsersAreValid'
  <2>1. database' \in [Ids -> SUBSET AllUsers] /\ accepted' \in [Ids -> Nat]
        /\ removed' \in [Ids -> Nat]
    BY <1>2, <1>3 DEF ApiInv, ApiTypes
  <2>2. \A i \in Ids : OneOrNone(database'[i])
    BY <1>1, <1>2, <1>3 DEF ApiInv, ApiTypes, UsersAreValid, OneOrNone
  <2> QED BY <1>1, <1>2, <1>3, <2>1, <2>2, AnswerKeeps
<1>5. ASSUME NEW i \in Ids PROVE Balance(i)'
  <2>1. /\ removed'[i] = removed[i] /\ removed[i] \in Nat /\ accepted[i] \in Nat
        /\ Initial(i) \in {0, 1}
    BY <1>3 DEF ApiInv, ApiTypes, Initial
  <2>2. CASE i = id
    <3>1. accepted'[i] = accepted[i] + 1 /\ There(i)' = 1
      BY <1>2, <1>3, <2>2 DEF ApiInv, ApiTypes, There
    <3>2. There(i) \in {0, 1} /\ Balance(i)
      BY DEF ApiInv, There
    <3> QED BY <2>1, <3>1, <3>2 DEF Balance, Initial
  <2>3. CASE i # id
    <3>1. accepted'[i] = accepted[i] /\ There(i)' = There(i)
      BY <1>2, <1>3, <2>3 DEF ApiInv, ApiTypes, There
    <3> QED BY <2>1, <3>1 DEF ApiInv, Balance, Initial
  <2> QED BY <2>2, <2>3
<1> QED BY <1>4, <1>5 DEF ApiInv

LEMMA RemoveKeeps ==
  ASSUME ApiInv, NEW h \in Handlers, RemoveUser(h)
  PROVE  ApiInv'
<1> DEFINE id == requests[h].id
           found == database[id] # {}
<1>1. id \in Ids
  BY DEF ApiInv, ApiTypes, RequestType
<1>2. /\ database' = [database EXCEPT ![id] = {}] /\ accepted' = accepted
      /\ removed' = [removed EXCEPT ![id] = IF found THEN @ + 1 ELSE @]
      /\ Answer(h, IF found THEN "ok" ELSE "none", {})
  BY DEF RemoveUser
<1>3. ApiTypes' /\ UsersAreValid'
  <2>1. database' \in [Ids -> SUBSET AllUsers] /\ accepted' \in [Ids -> Nat]
        /\ removed' \in [Ids -> Nat]
    BY <1>1, <1>2 DEF ApiInv, ApiTypes
  <2>2. \A i \in Ids : OneOrNone(database'[i])
    BY <1>1, <1>2 DEF ApiInv, ApiTypes, UsersAreValid, OneOrNone
  <2> QED BY <1>2, <2>1, <2>2, AnswerKeeps
<1>4. ASSUME NEW i \in Ids PROVE Balance(i)'
  <2>1. /\ accepted'[i] = accepted[i] /\ removed[i] \in Nat /\ accepted[i] \in Nat
        /\ Initial(i) \in {0, 1} /\ Balance(i)
    BY <1>2 DEF ApiInv, ApiTypes, Initial
  <2>2. CASE i = id /\ found
    <3>1. removed'[i] = removed[i] + 1 /\ There(i)' = 0 /\ There(i) = 1
      BY <1>1, <1>2, <2>2 DEF ApiInv, ApiTypes, There
    <3> QED BY <2>1, <3>1 DEF Balance, Initial
  <2>3. CASE i # id \/ ~found
    <3>1. removed'[i] = removed[i] /\ There(i)' = There(i)
      BY <1>1, <1>2, <2>3 DEF ApiInv, ApiTypes, There
    <3> QED BY <2>1, <3>1 DEF Balance, Initial
  <2> QED BY <2>2, <2>3
<1> QED BY <1>3, <1>4 DEF ApiInv

LEMMA ReadKeeps ==
  ASSUME ApiInv, NEW h \in Handlers, ReadUsers(h)
  PROVE  ApiInv'
<1>1. PICK users \in SUBSET AllUsers : Answer(h, "ok", users) /\ \A u \in users : Valid(u)
  <2>1. requests[h].id \in Ids /\ \A id \in Ids : database[id] \in SUBSET AllUsers
    BY DEF ApiInv, ApiTypes, RequestType
  <2>2. \A id \in Ids : \A u \in database[id] : Valid(u)
    BY DEF ApiInv, UsersAreValid, OneOrNone
  <2>3. UNION {database[id] : id \in Ids} \in SUBSET AllUsers
    BY <2>1
  <2> QED BY <2>1, <2>2, <2>3 DEF ReadUsers
<1>2. UNCHANGED <<database, accepted, removed>>
  BY DEF ReadUsers
<1>3. ApiTypes' /\ UsersAreValid'
  BY <1>1, <1>2, AnswerKeeps DEF ApiInv, ApiTypes, UsersAreValid
<1>4. \A id \in Ids : Balance(id)'
  BY <1>2 DEF ApiInv, Balance, There
<1> QED BY <1>3, <1>4 DEF ApiInv

LEMMA ApiNextInv == ApiInv /\ [ApiNext]_apiVars => ApiInv'
<1> SUFFICES ASSUME ApiInv, [ApiNext]_apiVars PROVE ApiInv'
  OBVIOUS
<1>1. ASSUME ApiNext PROVE ApiInv'
  BY <1>1, ReceiveKeeps, InsertKeeps, RemoveKeeps, ReadKeeps DEF ApiNext
<1>2. CASE UNCHANGED apiVars
  BY <1>2 DEF apiVars, ApiInv, ApiTypes, UsersAreValid, OneOrNone, Balance, There
<1> QED BY <1>1, <1>2

-----------------------------------------------------------------------------

\* The inductive invariant: what is kept, shown or about to be kept was checked,
\* and each id balances (api_server.rs:53-107).
THEOREM ApiInvHolds == ApiSpec => []ApiInv
BY ApiInitInv, ApiNextInv, PTL DEF ApiSpec

\* No delete is told that it removed what another has removed, no post is lost,
\* and nobody is shown a user without a name or an email (api_server.rs:53-107).
THEOREM UsersAccounted == ApiSpec => []UsersAreAccounted
<1>1. ASSUME ApiInv PROVE UsersAreAccounted
  <2>1. ASSUME NEW id \in Ids PROVE Cardinality(database[id]) = There(id)
    BY <1>1, FS_EmptySet, FS_Singleton DEF ApiInv, UsersAreValid, OneOrNone, There
  <2> QED BY <1>1, <2>1
          DEF ApiInv, Balance, Initial, UsersAreValid, Valid, UsersAreAccounted
<1> QED BY <1>1, ApiInvHolds, PTL

\* Users are kept, and about to be kept, under their own ids.
IdsAgree ==
  /\ served \in 0..MaxRequests
  /\ \A id \in Ids : \A u \in database[id] : u.id = id
  /\ \A h \in Handlers : \A p \in requests[h].body : p.id = requests[h].id

LEMMA IdsAgreeInit == ApiInit => IdsAgree
BY UserApiAssumption DEF ApiInit, IdsAgree, Initially, Request

LEMMA IdsAgreeNext ==
  ASSUME ApiInv, IdsAgree, [ApiNext]_apiVars
  PROVE  IdsAgree'
<1>1. ASSUME NEW h \in Handlers, NEW r, Receive(h, r), \A p \in r.body : p.id = r.id
      PROVE  IdsAgree'
  <2>1. /\ served < MaxRequests /\ served' = served + 1 /\ UNCHANGED database
        /\ requests' = [requests EXCEPT ![h] = r]
    BY <1>1 DEF Receive
  <2>2. served' \in 0..MaxRequests
    BY <2>1, UserApiAssumption DEF IdsAgree
  <2> QED BY <1>1, <2>1, <2>2 DEF IdsAgree, ApiInv, ApiTypes
<1>2. ASSUME NEW h \in Handlers, NEW p \in Posted, PostUser(h, p)
      PROVE  IdsAgree'
  <2>1. PICK r : Receive(h, r) /\ \A q \in r.body : q.id = r.id
    <3> DEFINE request == Request("post", p.id, {p}, "sleeping")
               refused == [request EXCEPT !.stage = "answered", !.result = "err"]
    <3>1. /\ request.body = {p} /\ request.id = p.id
          /\ refused.body = {p} /\ refused.id = p.id
      BY DEF Request
    <3>2. Receive(h, request) \/ Receive(h, refused)
      BY <1>2 DEF PostUser
    <3> HIDE DEF request, refused
    <3> QED BY <3>1, <3>2
  <2> QED BY <1>1, <2>1
<1>3. ASSUME NEW h \in Handlers, NEW id \in Ids, GetUser(h, id) \/ DeleteById(h, id)
      PROVE  IdsAgree'
  <2>1. \A kind : \A p \in Request(kind, id, {}, "sleeping").body :
          p.id = Request(kind, id, {}, "sleeping").id
    BY DEF Request
  <2> QED BY <1>1, <1>3, <2>1 DEF GetUser, DeleteById
<1>4. ASSUME NEW h \in Handlers, ListUsers(h)
      PROVE  IdsAgree'
  <2> DEFINE r == Request("list", CHOOSE id \in Ids : TRUE, {}, "sleeping")
  <2>1. r.body = {} /\ Receive(h, r)
    BY <1>4 DEF Request, ListUsers
  <2> HIDE DEF r
  <2> QED BY <1>1, <2>1
<1>5. ASSUME NEW h \in Handlers, NEW result, NEW users, Answer(h, result, users),
             UNCHANGED served, \A id \in Ids : \A u \in database'[id] : u.id = id
      PROVE  IdsAgree'
  <2>1. \A g \in Handlers : requests'[g].body = requests[g].body
                             /\ requests'[g].id = requests[g].id
    BY <1>5 DEF Answer, ApiInv, ApiTypes, RequestType
  <2> QED BY <1>5, <2>1 DEF IdsAgree
<1>6. ASSUME NEW h \in Handlers, InsertUser(h)
      PROVE  IdsAgree'
  <2>1. /\ database' = [database EXCEPT ![requests[h].id] = requests[h].body]
        /\ Answer(h, "ok", requests[h].body) /\ UNCHANGED served
    BY <1>6 DEF InsertUser
  <2>2. \A id \in Ids : \A u \in database'[id] : u.id = id
    BY <2>1 DEF IdsAgree, ApiInv, ApiTypes
  <2> QED BY <1>5, <2>1, <2>2
<1>7. ASSUME NEW h \in Handlers, RemoveUser(h)
      PROVE  IdsAgree'
  <2>1. /\ database' = [database EXCEPT ![requests[h].id] = {}] /\ UNCHANGED served
        /\ \E result : Answer(h, result, {})
    BY <1>7 DEF RemoveUser
  <2>2. \A id \in Ids : \A u \in database'[id] : u.id = id
    BY <2>1 DEF IdsAgree, ApiInv, ApiTypes
  <2> QED BY <1>5, <2>1, <2>2
<1>8. ASSUME NEW h \in Handlers, ReadUsers(h)
      PROVE  IdsAgree'
  <2>1. UNCHANGED <<database, served>> /\ \E users : Answer(h, "ok", users)
    BY <1>8 DEF ReadUsers
  <2> QED BY <1>5, <2>1 DEF IdsAgree
<1>9. CASE UNCHANGED apiVars
  BY <1>9 DEF apiVars, IdsAgree
<1> QED BY <1>2, <1>3, <1>4, <1>6, <1>7, <1>8, <1>9 DEF ApiNext

\* However requests race, each id has at most one user, which has that id
\* (api_server.rs:17-107).
THEOREM ApiTypeCorrect == ApiSpec => []ApiTypeOK
<1>1. ApiInv /\ IdsAgree => ApiTypeOK
  <2> SUFFICES ASSUME ApiInv, IdsAgree PROVE ApiTypeOK
    OBVIOUS
  <2>1. ASSUME NEW id \in Ids PROVE Cardinality(database[id]) <= 1
    <3>1. database[id] = {} \/ \E u \in AllUsers : database[id] = {u}
      BY DEF ApiInv, UsersAreValid, OneOrNone
    <3>2. Cardinality(database[id]) \in {0, 1}
      BY <3>1, FS_EmptySet, FS_Singleton
    <3> QED BY <3>2
  <2>2. \A h \in Handlers : requests[h].stage \in {"sleeping", "answered"}
    BY DEF ApiInv, ApiTypes, RequestType
  <2> QED BY <2>1, <2>2 DEF IdsAgree, ApiTypeOK
<1> QED BY <1>1, IdsAgreeInit, IdsAgreeNext, ApiInvHolds, PTL DEF ApiSpec

-----------------------------------------------------------------------------
(* Validation: a call that was told it satisfies the rules does. *)

Validated ==
  [stage : {"checking", "leaving", "over"}, input : Inputs, aspect : DOMAIN RuleLists,
   fn : DOMAIN OwnChecks, passed : Nat, entered : BOOLEAN,
   result : {"none", "ok", "err"}, told : {"none", "satisfied", "failed"}]

\* All checks of a list, or its first n, accept the input.
Accept(checks, n, input) == \A i \in 1..n : input \in checks[i]

AllRules(v) == Accept(RuleLists[v.aspect], Len(RuleLists[v.aspect]), v.input)
AllOwn(v) == Accept(OwnChecks[v.fn], Len(OwnChecks[v.fn]), v.input)

\* What a call has been through.
ValidatedOK(v) ==
  /\ v.passed <= IF v.entered THEN Len(OwnChecks[v.fn]) ELSE Len(RuleLists[v.aspect])
  /\ v.entered => AllRules(v)
  /\ v.stage = "checking" =>
       /\ v.told = "none" /\ v.result = "none"
       /\ Accept(IF v.entered THEN OwnChecks[v.fn] ELSE RuleLists[v.aspect], v.passed, v.input)
  /\ v.stage = "leaving" =>
       /\ v.told = "none" /\ v.result \in {"ok", "err"}
       /\ v.result = "ok" <=> v.entered /\ AllOwn(v)
       /\ ~v.entered => ~AllRules(v)
  /\ v.stage = "over" /\ v.told # "none" =>
       /\ v.told = "satisfied" <=> v.entered /\ AllOwn(v)
       /\ ~v.entered => ~AllRules(v)

ValInv == validated \in Validated /\ ValidatedOK(validated)

LEMMA ListsAreFinite ==
  /\ \A a \in DOMAIN RuleLists : Len(RuleLists[a]) \in Nat
  /\ \A f \in DOMAIN OwnChecks : Len(OwnChecks[f]) \in Nat
<1>1. \A a \in DOMAIN RuleLists : Len(RuleLists[a]) \in Nat
  BY ValidationAssumption DEF ValidationAssumption
<1>2. \A f \in DOMAIN OwnChecks : Len(OwnChecks[f]) \in Nat
  BY DEF OwnChecks, CreateUser, UpdateProfile, SetAge
<1> QED  BY <1>1, <1>2

LEMMA FreshCall ==
  ASSUME NEW input \in Inputs, NEW aspect \in DOMAIN RuleLists, NEW fn \in DOMAIN OwnChecks,
         NEW stage \in {"checking", "over"}
  PROVE  LET v == Validating(input, aspect, fn, stage)
         IN  v \in Validated /\ ValidatedOK(v)
<1> DEFINE v == Validating(input, aspect, fn, stage)
<1>1. /\ v \in Validated /\ v.stage = stage /\ v.passed = 0 /\ ~v.entered
      /\ v.result = "none" /\ v.told = "none" /\ v.aspect = aspect
  BY DEF Validating, Validated
<1>2. Len(RuleLists[aspect]) \in Nat
  BY ListsAreFinite
<1> HIDE DEF v
<1>3. ValidatedOK(v)
  BY <1>1, <1>2 DEF ValidatedOK, Accept
<1> QED  BY <1>1, <1>3 DEF v

LEMMA ValInitInv == ValInit => ValInv
<1> SUFFICES ASSUME ValInit PROVE ValInv
  OBVIOUS
<1>1. /\ (CHOOSE in \in Inputs : TRUE) \in Inputs
      /\ (CHOOSE a \in DOMAIN RuleLists : TRUE) \in DOMAIN RuleLists
  BY ValidationAssumption, Zenon DEF ValidationAssumption
<1>2. "set_age" \in DOMAIN OwnChecks
  BY DEF OwnChecks
<1> QED  BY <1>1, <1>2, FreshCall DEF ValInit, ValInv

\* What a step finds: the list that is being gone through.
LEMMA TheChecks ==
  ASSUME ValInv
  PROVE  /\ validated \in Validated /\ ValidatedOK(validated)
         /\ validated.passed \in Nat /\ Len(Checks) \in Nat /\ validated.passed <= Len(Checks)
         /\ Checks = IF validated.entered THEN OwnChecks[validated.fn]
                     ELSE RuleLists[validated.aspect]
BY ListsAreFinite DEF ValInv, ValidatedOK, Validated, Checks

LEMMA RulePassesKeeps ==
  ASSUME ValInv, RulePasses
  PROVE  ValInv'
<1> DEFINE v == validated
           w == [v EXCEPT !.passed = v.passed + 1]
<1>1. /\ v \in Validated /\ ValidatedOK(v) /\ v.passed \in Nat /\ Len(Checks) \in Nat
      /\ Checks = IF v.entered THEN OwnChecks[v.fn] ELSE RuleLists[v.aspect]
  BY TheChecks
<1>2. /\ v.stage = "checking" /\ v.passed < Len(Checks)
      /\ v.input \in Checks[v.passed + 1] /\ validated' = w
  BY DEF RulePasses, MoreChecks, NextAccepts
<1> HIDE DEF v
<1>3. /\ w \in Validated /\ w.passed = v.passed + 1 /\ w.stage = v.stage
      /\ w.input = v.input /\ w.aspect = v.aspect /\ w.fn = v.fn /\ w.entered = v.entered
      /\ w.told = v.told /\ w.result = v.result
  BY <1>1 DEF Validated
<1> HIDE DEF w
<1>4. Accept(Checks, v.passed + 1, v.input)
  <2>1. Accept(Checks, v.passed, v.input)
    BY <1>1, <1>2 DEF ValidatedOK
  <2> QED  BY <1>1, <1>2, <2>1 DEF Accept
<1>5. v.passed + 1 <= Len(Checks)
  BY <1>1, <1>2
<1>6. ValidatedOK(w)
  BY <1>1, <1>2, <1>3, <1>4, <1>5 DEF ValidatedOK, AllRules
<1> QED  BY <1>2, <1>3, <1>6 DEF ValInv

LEMMA RuleFailsKeeps ==
  ASSUME ValInv, RuleFails
  PROVE  ValInv'
<1> DEFINE v == validated
           w == [v EXCEPT !.stage = "leaving", !.result = "err"]
<1>1. /\ v \in Validated /\ ValidatedOK(v) /\ v.passed \in Nat /\ Len(Checks) \in Nat
      /\ Checks = IF v.entered THEN OwnChecks[v.fn] ELSE RuleLists[v.aspect]
  BY TheChecks
<1>2. /\ v.stage = "checking" /\ v.passed < Len(Checks)
      /\ v.input \notin Checks[v.passed + 1] /\ validated' = w
  BY DEF RuleFails, MoreChecks, NextAccepts
<1> HIDE DEF v
<1>3. /\ w \in Validated /\ w.passed = v.passed /\ w.stage = "leaving"
      /\ w.input = v.input /\ w.aspect = v.aspect /\ w.fn = v.fn /\ w.entered = v.entered
      /\ w.told = v.told /\ w.result = "err"
  BY <1>1 DEF Validated
<1> HIDE DEF w
<1>4. ~Accept(Checks, Len(Checks), v.input)
  BY <1>1, <1>2 DEF Accept
<1>5. v.told = "none"
  BY <1>1, <1>2 DEF ValidatedOK
<1>6. CASE v.entered
  <2>1. ~AllOwn(w) /\ AllRules(w) /\ w.passed <= Len(OwnChecks[w.fn])
    BY <1>1, <1>2, <1>3, <1>4, <1>6 DEF ValidatedOK, AllOwn, AllRules
  <2> QED  BY <1>2, <1>3, <1>5, <1>6, <2>1 DEF ValInv, ValidatedOK
<1>7. CASE ~v.entered
  <2>1. ~AllRules(w) /\ w.passed <= Len(RuleLists[w.aspect])
    BY <1>1, <1>2, <1>3, <1>4, <1>7 DEF ValidatedOK, AllRules
  <2> QED  BY <1>2, <1>3, <1>5, <1>7, <2>1 DEF ValInv, ValidatedOK
<1> QED  BY <1>6, <1>7

LEMMA ProceedsKeeps ==
  ASSUME ValInv, Proceeds
  PROVE  ValInv'
<1> DEFINE v == validated
           leaving == [v EXCEPT !.stage = "leaving", !.result = "ok"]
           entering == [v EXCEPT !.entered = TRUE, !.passed = 0]
<1>1. /\ v \in Validated /\ ValidatedOK(v) /\ v.passed \in Nat /\ Len(Checks) \in Nat
      /\ v.passed <= Len(Checks)
      /\ Checks = IF v.entered THEN OwnChecks[v.fn] ELSE RuleLists[v.aspect]
  BY TheChecks
<1>2. /\ v.stage = "checking" /\ ~(v.passed < Len(Checks))
      /\ validated' = IF v.entered THEN leaving ELSE entering
  BY DEF Proceeds, MoreChecks
<1> HIDE DEF v
<1>3. v.passed = Len(Checks)
  BY <1>1, <1>2
<1>4. Accept(Checks, Len(Checks), v.input) /\ v.told = "none" /\ v.result = "none"
  BY <1>1, <1>2, <1>3 DEF ValidatedOK
<1>5. CASE v.entered
  <2>1. /\ leaving \in Validated /\ leaving.passed = v.passed /\ leaving.stage = "leaving"
        /\ leaving.input = v.input /\ leaving.aspect = v.aspect /\ leaving.fn = v.fn
        /\ leaving.entered /\ leaving.told = v.told /\ leaving.result = "ok"
    BY <1>1, <1>5 DEF Validated
  <2>2. validated' = leaving
    BY <1>2, <1>5
  <2> HIDE DEF leaving
  <2>3. AllOwn(leaving) /\ AllRules(leaving) /\ leaving.passed <= Len(OwnChecks[leaving.fn])
    BY <1>1, <1>4, <1>5, <2>1 DEF ValidatedOK, AllOwn, AllRules
  <2> QED  BY <1>4, <2>1, <2>2, <2>3 DEF ValInv, ValidatedOK
<1>6. CASE ~v.entered
  <2>1. /\ entering \in Validated /\ entering.passed = 0 /\ entering.stage = "checking"
        /\ entering.input = v.input /\ entering.aspect = v.aspect /\ entering.fn = v.fn
        /\ entering.entered /\ entering.told = v.told /\ entering.result = v.result
    BY <1>1, <1>2 DEF Validated
  <2>2. validated' = entering
    BY <1>2, <1>6
  <2> HIDE DEF entering
  <2>3. AllRules(entering)
    BY <1>1, <1>4, <1>6, <2>1 DEF AllRules
  <2>4. entering.passed <= Len(OwnChecks[entering.fn])
    BY <2>1, ListsAreFinite DEF Validated
  <2> QED  BY <1>4, <2>1, <2>2, <2>3, <2>4 DEF ValInv, ValidatedOK, Accept
<1> QED  BY <1>5, <1>6

LEMMA TellValidatorKeeps ==
  ASSUME ValInv, TellValidator
  PROVE  ValInv'
<1> DEFINE v == validated
           told == IF v.result = "ok" THEN "satisfied" ELSE "failed"
           w == [v EXCEPT !.stage = "over", !.told = told]
<1>1. v \in Validated /\ ValidatedOK(v) /\ v.stage = "leaving" /\ validated' = w
  BY DEF ValInv, TellValidator
<1> HIDE DEF v
<1>2. told \in {"satisfied", "failed"} /\ (told = "satisfied" <=> v.result = "ok")
  OBVIOUS
<1> HIDE DEF told
<1>3. /\ w \in Validated /\ w.passed = v.passed /\ w.stage = "over"
      /\ w.input = v.input /\ w.aspect = v.aspect /\ w.fn = v.fn /\ w.entered = v.entered
      /\ w.told = told
  BY <1>1, <1>2 DEF Validated
<1> HIDE DEF w
<1> QED  BY <1>1, <1>2, <1>3 DEF ValInv, ValidatedOK, AllOwn, AllRules

LEMMA ValNextInv == ValInv /\ [ValNext]_validated => ValInv'
<1> SUFFICES ASSUME ValInv, [ValNext]_validated  PROVE ValInv'
  OBVIOUS
<1>1. CASE CallValidated
  BY <1>1, FreshCall DEF CallValidated, ValInv
<1>2. CASE UNCHANGED validated
  BY <1>2 DEF ValInv
<1> QED  BY <1>1, <1>2, RulePassesKeeps, RuleFailsKeeps, ProceedsKeeps, TellValidatorKeeps
         DEF ValNext

\* A call has passed the checks it has been through, has been entered only past every
\* rule, and is told of accordingly.
THEOREM ValInvHolds == ValSpec => []ValInv
BY ValInitInv, ValNextInv, PTL DEF ValSpec

\* The call in hand stays in its type.
THEOREM ValTypeCorrect == ValSpec => []ValTypeOK
<1>1. ValInv => ValTypeOK
  <2> SUFFICES ASSUME ValInv PROVE ValTypeOK
    OBVIOUS
  <2>1. validated.passed \in Nat /\ Len(Checks) \in Nat /\ validated.passed <= Len(Checks)
    BY TheChecks
  <2> QED  BY <2>1 DEF ValInv, Validated, ValTypeOK
<1> QED  BY <1>1, ValInvHolds, PTL

\* What the checks of a function accept are the limits that its messages state.
LEMMA OwnChecksAreTheLimits ==
  ASSUME NEW in \in Inputs, in.username.chars = in.username.bytes, in.username.wordlike,
         NEW fn \in DOMAIN OwnChecks
  PROVE  Accept(OwnChecks[fn], Len(OwnChecks[fn]), in) <=>
           /\ fn = "create_user" => /\ in.username.chars >= 3 /\ in.username.chars <= 20
                                    /\ in.email.at /\ in.email.dot
           /\ fn \in {"create_user", "set_age"} => in.age >= 0 /\ in.age <= 150
           /\ fn = "update_profile" => in.bio <= 500
<1>1. in.username.bytes \in Nat /\ in.age \in Int /\ in.bio \in Nat
  BY ValidationAssumption DEF ValidationAssumption
<1>0. /\ in \in ValidateUsername <=> in.username.chars >= 3 /\ in.username.chars <= 20
      /\ in \in ValidateEmail <=> in.email.at /\ in.email.dot
      /\ in \in ValidateAge <=> in.age >= 0 /\ in.age <= 150
      /\ in \in ValidateBio <=> in.bio <= 500
  <2>1. in \in ValidateUsername <=> in.username.chars >= 3 /\ in.username.chars <= 20
    BY <1>1 DEF ValidateUsername
  <2>2. in \in ValidateEmail <=> in.email.at /\ in.email.dot
    BY DEF ValidateEmail
  <2>3. in \in ValidateAge <=> in.age >= 0 /\ in.age <= 150
    BY <1>1 DEF ValidateAge
  <2>4. in \in ValidateBio <=> in.bio <= 500
    BY DEF ValidateBio
  <2> QED  BY <2>1, <2>2, <2>3, <2>4
<1>2. fn \in {"create_user", "update_profile", "set_age"}
  BY DEF OwnChecks
<1>3. CASE fn = "create_user"
  <2>1. OwnChecks[fn] = <<ValidateUsername, ValidateEmail, ValidateAge>>
    BY <1>3 DEF OwnChecks, CreateUser
  <2>2. Accept(OwnChecks[fn], Len(OwnChecks[fn]), in) <=>
          in \in ValidateUsername /\ in \in ValidateEmail /\ in \in ValidateAge
    BY <2>1 DEF Accept
  <2> QED  BY <1>0, <1>3, <2>2
<1>4. CASE fn = "update_profile"
  <2>1. OwnChecks[fn] = <<ValidateBio>>
    BY <1>4 DEF OwnChecks, UpdateProfile
  <2>2. Accept(OwnChecks[fn], Len(OwnChecks[fn]), in) <=> in \in ValidateBio
    BY <2>1 DEF Accept
  <2> QED  BY <1>0, <1>4, <2>2
<1>5. CASE fn = "set_age"
  <2>1. OwnChecks[fn] = <<ValidateAge>>
    BY <1>5 DEF OwnChecks, SetAge
  <2>2. Accept(OwnChecks[fn], Len(OwnChecks[fn]), in) <=> in \in ValidateAge
    BY <2>1 DEF Accept
  <2> QED  BY <1>0, <1>5, <2>2
<1> QED  BY <1>2, <1>3, <1>4, <1>5

\* For any rules, a call is told to be satisfied exactly if all of them accept its
\* input and it is within the limits of the function's messages.
THEOREM SatisfiedIsTrue == ValSpec => []SatisfiedIsTold
<1>1. ValInv => SatisfiedIsTold
  <2> SUFFICES ASSUME ValInv PROVE SatisfiedIsTold
    OBVIOUS
  <2> DEFINE v == validated
             All == \A i \in 1..Len(RuleLists[v.aspect]) : v.input \in RuleLists[v.aspect][i]
  <2>1. v \in Validated /\ ValidatedOK(v) /\ v.input \in Inputs /\ v.fn \in DOMAIN OwnChecks
    BY DEF ValInv, Validated
  <2>2. All <=> AllRules(v)
    BY DEF AllRules, Accept
  <2>3. v.stage = "over" /\ v.told # "none" =>
          /\ v.entered <=> AllRules(v)
          /\ v.told = "satisfied" <=> AllRules(v) /\ AllOwn(v)
    BY <2>1 DEF ValidatedOK
  <2>4. v.input.username.chars = v.input.username.bytes /\ v.input.username.wordlike =>
          (AllOwn(v) <=>
             /\ v.fn = "create_user" => /\ v.input.username.chars >= 3
                                        /\ v.input.username.chars <= 20
                                        /\ v.input.email.at /\ v.input.email.dot
             /\ v.fn \in {"create_user", "set_age"} => v.input.age >= 0 /\ v.input.age <= 150
             /\ v.fn = "update_profile" => v.input.bio <= 500)
    BY <2>1, OwnChecksAreTheLimits DEF AllOwn
  <2> QED  BY <2>2, <2>3, <2>4 DEF SatisfiedIsTold
<1> QED  BY <1>1, ValInvHolds, PTL

-----------------------------------------------------------------------------
(* The instance that composes them *)

\* In the common instance each part goes on as its module says, so all that is
\* proved of the modules holds there.
THEOREM PartsBehave ==
  AspectsSpec => AdviceSpec /\ Spec /\ TxSpec /\ SecSpec /\ ValSpec /\ ApiSpec
<1>1. AspectsInit => /\ RegistryInit /\ AdviceInit
                     /\ Init /\ TxInit /\ SecInit /\ ValInit /\ ApiInit
  BY DEF AspectsInit
<1>2. [AspectsNext]_allVars => /\ [AdviceNext]_registryPart /\ [Next]_vars /\ [TxNext]_txVars
                               /\ [SecNext]_secVars /\ [ValNext]_validated /\ [ApiNext]_apiVars
  BY DEF AspectsNext, allVars
<1> QED BY <1>1, <1>2, PTL
        DEF AspectsSpec, AdviceSpec, Spec, TxSpec, SecSpec, ValSpec, ApiSpec

\* Every variable of every part stays in its type.
THEOREM AspectsTyped == AspectsSpec => []AspectsTypeOK
<1> DEFINE Parts == {"registry", "measurement", "transactions", "security", "validation", "api"}
<1>1. AspectsInit => part \in Parts
  BY DEF AspectsInit
<1>2. part \in Parts /\ [AspectsNext]_allVars => (part \in Parts)'
  BY DEF AspectsNext, allVars
<1>3. /\ RegistryTypeOK /\ AdviceTypeOK
      /\ TypeOK /\ TxTypeOK /\ SecTypeOK /\ ValTypeOK /\ ApiTypeOK
      /\ part \in Parts
      => AspectsTypeOK
  BY DEF AspectsTypeOK
<1> QED BY <1>1, <1>2, <1>3, PartsBehave, RegistryTypeCorrect, TypeCorrect, TxTypeCorrect,
           SecTypeCorrect, ValTypeCorrect, ApiTypeCorrect, PTL DEF AspectsSpec

================================================================================
