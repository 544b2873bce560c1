---------------------------- MODULE Measurement ----------------------------
(***************************************************************************)
(* aspect-std/src/metrics.rs and timing.rs: a MetricsAspect around a       *)
(* TimingAspect around functions that several threads call, while others   *)
(* clear what has been measured.                                           *)
(*                                                                         *)
(* MetricsAspect keeps its counters and its histograms under two locks and *)
(* counts a call before it runs and measures it afterwards; TimingAspect   *)
(* does all it does afterwards, under one lock. None is held while the     *)
(* function runs.                                                          *)
(***************************************************************************)
EXTENDS Integers, Sequences, FiniteSets

CONSTANTS
  Functions,    \* names of the functions that are measured
  Callers,      \* threads that call them
  Clearers,     \* threads that clear the metrics
  U32,          \* 2^32: what `count as u32` is taken modulo
  MaxCalls,     \* bound: calls that are counted, timed or measured at a time
  MaxDuration   \* bound: ticks that a call may take

ASSUME MeasurementAssumption ==
  /\ IsFiniteSet(Callers)
  /\ U32 \in Nat \ {0, 1}
  /\ MaxCalls \in Nat
  /\ MaxDuration \in Nat

VARIABLES
  counters,    \* MetricsAspect: calls of each function, 0 if there is no entry
  histograms,  \* MetricsAspect: their durations, in the order they were pushed
  stats,       \* TimingAspect: FunctionStats of each function
  calls,       \* where each caller is, and the time since its two starts
  clearing,    \* threads that have cleared the counters only
  pristine,    \* audit: nothing has been cleared
  panicked,    \* audit: calls of each function that have panicked
  straddling   \* audit: calls that were counted and in flight when the
               \* counters were last cleared

measured == <<counters, histograms, stats>>
audit == <<pristine, panicked, straddling>>
vars == <<measured, calls, clearing, audit>>

-----------------------------------------------------------------------------
(* FunctionStats *)

\* No entry; or one that FunctionStats::new has made and nothing was recorded
\* in. Duration::MAX is one more than any duration.
\* Mutant: minimum and maximum start the wrong way round.
NoStatsSwapped == [count |-> 0, total |-> 0, min |-> 0, max |-> MaxDuration + 1]

NoStats == [count |-> 0, total |-> 0, min |-> MaxDuration + 1, max |-> 0]

Smaller(a, b) == IF b < a THEN b ELSE a
Larger(a, b) == IF b > a THEN b ELSE a

RecordIn(s, d) ==
  [count |-> s.count + 1, total |-> s.total + d,
   min |-> Smaller(s.min, d), max |-> Larger(s.max, d)]

\* average_duration; where the count is a multiple of 2^32 the division panics.
AverageDuration(s) ==
  IF s.count = 0 THEN 0 ELSE s.total \div (s.count % U32)

-----------------------------------------------------------------------------
(* Calls *)

Idle == [pc |-> "idle"]

\* In MetricsAspect::around: "entered" before the call is counted, "counted"
\* after, "leaving" when proceed has returned, "elapsed" when the duration has
\* been taken. In between, in TimingAspect::around: "running" the function,
\* "timed" when its duration has been taken.
Stages == {"entered", "counted", "running", "timed", "leaving", "elapsed"}
InCall == {c \in Callers : calls[c] # Idle}
At(f, stages) == {c \in InCall : calls[c].fn = f /\ calls[c].pc \in stages}

\* Counted and not yet in the histogram.
InFlight(f) == At(f, Stages \ {"entered"})

Init ==
  /\ counters = [f \in Functions |-> 0]
  /\ histograms = [f \in Functions |-> << >>]
  /\ stats = [f \in Functions |-> NoStats]
  /\ calls = [c \in Callers |-> Idle]
  /\ clearing = {}
  /\ pristine = TRUE
  /\ panicked = [f \in Functions |-> 0]
  /\ straddling = [f \in Functions |-> 0]

\* outer and inner are the times since the two Instant::now.
Goes(c, from, to) ==
  /\ calls[c].pc = from
  /\ calls' = [calls EXCEPT ![c].pc = to]

\* The bounds: the calls that have a part in what is kept are at most MaxCalls.
Call(c, f) ==
  /\ calls[c] = Idle
  /\ Cardinality(At(f, Stages)) + Larger(panicked[f] + counters[f],
       Larger(stats[f].count, Len(histograms[f]))) < MaxCalls
  /\ calls' = [calls EXCEPT ![c] = [pc |-> "entered", fn |-> f, outer |-> 0, inner |-> 0]]
  /\ UNCHANGED <<measured, clearing, audit>>

IncrementCounter(c) ==
  /\ Goes(c, "entered", "counted")
  /\ counters' = [counters EXCEPT ![calls[c].fn] = @ + 1]
  /\ UNCHANGED <<histograms, stats, clearing, audit>>

\* proceed, into TimingAspect::around, which starts its own clock.
ProceedToTiming(c) ==
  /\ Goes(c, "counted", "running")
  /\ UNCHANGED <<measured, clearing, audit>>

\* The function has returned, with a value or an error.
Return(c) ==
  /\ Goes(c, "running", "timed")
  /\ UNCHANGED <<measured, clearing, audit>>

\* Mutant: the duration is recorded though the function has panicked.
RecordPanic(c) ==
  /\ calls[c].pc = "running"
  /\ stats' = [stats EXCEPT ![calls[c].fn] = RecordIn(@, calls[c].inner)]
  /\ panicked' = [panicked EXCEPT ![calls[c].fn] = @ + 1]
  /\ calls' = [calls EXCEPT ![c] = Idle]
  /\ UNCHANGED <<counters, histograms, clearing, pristine, straddling>>

\* A panic unwinds through both arounds: nothing is recorded.
Panic(c) ==
  /\ calls[c].pc = "running"
  /\ panicked' = [panicked EXCEPT ![calls[c].fn] = @ + 1]
  /\ calls' = [calls EXCEPT ![c] = Idle]
  /\ UNCHANGED <<measured, clearing, pristine, straddling>>

RecordTiming(c) ==
  /\ Goes(c, "timed", "leaving")
  /\ stats' = [stats EXCEPT ![calls[c].fn] = RecordIn(@, calls[c].inner)]
  /\ UNCHANGED <<counters, histograms, clearing, audit>>

TakeElapsed(c) ==
  /\ Goes(c, "leaving", "elapsed")
  /\ UNCHANGED <<measured, clearing, audit>>

\* Mutant: the durations are inserted anew instead of pushed.
InsertDuration(c) ==
  /\ calls[c].pc = "elapsed"
  /\ histograms' = [histograms EXCEPT ![calls[c].fn] = <<calls[c].outer>>]
  /\ calls' = [calls EXCEPT ![c] = Idle]
  /\ UNCHANGED <<counters, stats, clearing, audit>>

PushDuration(c) ==
  /\ calls[c].pc = "elapsed"
  /\ histograms' = [histograms EXCEPT ![calls[c].fn] = Append(@, calls[c].outer)]
  /\ calls' = [calls EXCEPT ![c] = Idle]
  /\ UNCHANGED <<counters, stats, clearing, audit>>

\* A clock runs from its start until its duration is taken. The bound: no call
\* takes longer than MaxDuration.
OuterRuns(k) == k # Idle /\ k.pc # "elapsed"
InnerRuns(k) == k # Idle /\ k.pc = "running"

Tick ==
  /\ \E c \in Callers : OuterRuns(calls[c])
  /\ \A c \in Callers : OuterRuns(calls[c]) => calls[c].outer < MaxDuration
  /\ calls' = [c \in Callers |->
       LET k == calls[c] IN
       IF ~OuterRuns(k) THEN k
       ELSE [k EXCEPT !.outer = @ + 1, !.inner = IF InnerRuns(k) THEN @ + 1 ELSE @]]
  /\ UNCHANGED <<measured, clearing, audit>>

-----------------------------------------------------------------------------
(* Clearing *)

\* MetricsAspect::clear takes its two locks one after the other.
ClearCounters(t) ==
  /\ t \notin clearing
  /\ counters' = [f \in Functions |-> 0]
  /\ straddling' = [f \in Functions |-> Cardinality(InFlight(f))]
  /\ panicked' = [f \in Functions |-> 0]
  /\ clearing' = clearing \cup {t}
  /\ pristine' = FALSE
  /\ UNCHANGED <<histograms, stats, calls>>

ClearHistograms(t) ==
  /\ t \in clearing
  /\ histograms' = [f \in Functions |-> << >>]
  /\ clearing' = clearing \ {t}
  /\ UNCHANGED <<counters, stats, calls, audit>>

\* TimingAspect::clear
ClearStats ==
  /\ stats' = [f \in Functions |-> NoStats]
  /\ pristine' = FALSE
  /\ UNCHANGED <<counters, histograms, calls, clearing, panicked, straddling>>

Step(c) ==
  \/ IncrementCounter(c) \/ ProceedToTiming(c)
  \/ Return(c) \/ Panic(c)
  \/ RecordTiming(c) \/ TakeElapsed(c) \/ PushDuration(c)

\* Mutant: the other order, counters after histograms.
ClearHistogramsFirst(t) ==
  \/ /\ t \notin clearing
     /\ histograms' = [f \in Functions |-> << >>]
     /\ clearing' = clearing \cup {t}
     /\ pristine' = FALSE
     /\ UNCHANGED <<counters, stats, calls, panicked, straddling>>
  \/ /\ t \in clearing
     /\ counters' = [f \in Functions |-> 0]
     /\ straddling' = [f \in Functions |-> Cardinality(InFlight(f))]
     /\ panicked' = [f \in Functions |-> 0]
     /\ clearing' = clearing \ {t}
     /\ UNCHANGED <<histograms, stats, calls, pristine>>

Clear(t) == ClearCounters(t) \/ ClearHistograms(t)

Next ==
  \/ \E c \in Callers, f \in Functions : Call(c, f)
  \/ \E c \in InCall : Step(c)
  \/ \E t \in Clearers : Clear(t)
  \/ ClearStats
  \/ Tick

Spec == Init /\ [][Next]_vars

-----------------------------------------------------------------------------
(* Safety *)

Durations == 0..MaxDuration

\* Every variable stays in its type.
TypeOK ==
  /\ counters \in [Functions -> 0..MaxCalls]
  /\ DOMAIN histograms = Functions
  /\ \A f \in Functions : Len(histograms[f]) <= MaxCalls
                          /\ histograms[f] \in Seq(Durations)
  /\ stats \in [Functions -> [count : 0..MaxCalls, total : 0..(MaxCalls * MaxDuration),
                             min : 0..(MaxDuration + 1), max : Durations]]
  /\ calls \in [Callers -> {Idle} \cup
       [pc : Stages, fn : Functions, outer : Durations, inner : Durations]]
  /\ clearing \subseteq Clearers
  /\ pristine \in BOOLEAN
  /\ panicked \in [Functions -> 0..MaxCalls]
  /\ straddling \in [Functions -> 0..Cardinality(Callers)]

\* Until something is cleared, a call that is counted is in the histogram, in
\* flight, or has panicked: the counter is taken before the call and the
\* duration after it, under different locks (metrics.rs:102-121).
CountsAddUp ==
  pristine => \A f \in Functions :
    counters[f] = Len(histograms[f]) + Cardinality(InFlight(f)) + panicked[f]

\* The histogram holds durations of more calls than are counted only for calls
\* that were in flight when the metrics were cleared, whatever was counted and
\* pushed between the two locks of clear (metrics.rs:86-89).
ExcessIsStale ==
  clearing = {} => \A f \in Functions :
    Len(histograms[f]) <= counters[f] + straddling[f]

SumOf(s) ==
  LET sum[i \in 0..Len(s)] == IF i = 0 THEN 0 ELSE sum[i - 1] + s[i]
  IN  sum[Len(s)]

\* A TimingAspect inside of a MetricsAspect records the same calls, each with a
\* duration that is no longer, in whatever order the two locks are taken; also
\* when calls panic. Its average lies between minimum and maximum as long as the
\* count fits the u32 that it is narrowed to (metrics.rs:102-121, timing.rs:62-76,
\* :160-187).
TimingAgreesWithMetrics ==
  \A f \in Functions :
    LET left == At(f, {"leaving", "elapsed"})
        durations == histograms[f]
        s == stats[f]
    IN  /\ pristine => s.count = Len(durations) + Cardinality(left)
        /\ pristine /\ left = {} =>
             /\ s.total <= SumOf(durations)
             /\ \A k \in DOMAIN durations : s.min <= durations[k]
             /\ s.max = 0 \/ \E k \in DOMAIN durations : s.max <= durations[k]
        /\ s.count \in 1..(U32 - 1) =>
             s.min <= AverageDuration(s) /\ AverageDuration(s) <= s.max

-----------------------------------------------------------------------------
(* The inductive invariant *)

\* The types that do not depend on the bounds.
Shape ==
  /\ counters \in [Functions -> Nat]
  /\ DOMAIN histograms = Functions
  /\ \A f \in Functions : histograms[f] \in Seq(Nat)
  /\ calls \in [Callers -> {Idle} \cup
       [pc : Stages, fn : Functions, outer : Nat, inner : Nat]]
  /\ panicked \in [Functions -> Nat]
  /\ straddling \in [Functions -> Nat]

\* Every call in flight has been counted or was in flight when the counters were
\* cleared; so has every call in the histogram, but for a clear in progress.
CallsAreAccounted ==
  \A f \in Functions :
    /\ Cardinality(InFlight(f)) <= counters[f] + straddling[f]
    /\ clearing = {} =>
         Len(histograms[f]) + Cardinality(InFlight(f)) <= counters[f] + straddling[f]

Inv ==
  /\ Shape
  /\ pristine => clearing = {}
  /\ CountsAddUp
  /\ CallsAreAccounted

=============================================================================
