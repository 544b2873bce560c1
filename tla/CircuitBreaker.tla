--------------------------- MODULE CircuitBreaker ---------------------------
(***************************************************************************)
(* CircuitBreakerAspect (aspect-std/src/circuitbreaker.rs), one instance   *)
(* shared by the threads that call the functions it wraps.                 *)
(*                                                                         *)
(* `around` takes the mutex twice: once to decide whether the call may go  *)
(* ahead and once to record its result. The call itself runs between the   *)
(* two, with the mutex free, so the circuit a result is recorded in need   *)
(* not be the circuit that admitted the call. Each critical section is one *)
(* action; the call returns in an action of its own.                       *)
(***************************************************************************)
EXTENDS Naturals, FiniteSets

CONSTANTS
  Callers,          \* threads sharing the breaker (the Arc in every clone)
  Threshold,        \* failure_threshold
  Timeout,          \* timeout, in clock ticks
  HalfOpenChoices,  \* arguments with_half_open_requests may be called with
  AuditCap          \* bound on the two audit counters failRun and okRun

\* failure_threshold is a usize and 0 is accepted: it then acts as 1, because
\* the count is compared after it has been incremented.
FailLimit == IF Threshold = 0 THEN 1 ELSE Threshold

ASSUME ConfigAssumption ==
  /\ Threshold \in Nat
  /\ Timeout \in Nat
  /\ HalfOpenChoices \subseteq Nat
  /\ AuditCap \in Nat
  /\ AuditCap >= FailLimit
  /\ \A n \in HalfOpenChoices : AuditCap >= n

VARIABLES
  phase,         \* circuit_state without its payload
  remaining,     \* CircuitState::Open { until } as the ticks left until `until`
  failureCount,  \* failure_count
  successCount,  \* success_count
  halfOpenMax,   \* half_open_max_requests
  pc,            \* where each caller is in `around`
  (* The rest is audit: it is written by the actions and read only by the   *)
  (* properties.                                                            *)
  stale,         \* callers admitted before the circuit's latest phase change
  failRun,       \* failures recorded since the last success or reset
  okRun          \* successes recorded since the last failure

circuit == <<phase, remaining, failureCount, successCount, halfOpenMax>>
audit == <<stale, failRun, okRun>>
vars == <<circuit, pc, audit>>

Phases == {"Closed", "Open", "HalfOpen"}

\* Callers between the check and the recording of their result.
InFlight == {t \in Callers : pc[t] # "idle"}

Init ==
  /\ phase = "Closed"
  /\ remaining = 0
  /\ failureCount = 0
  /\ successCount = 0
  /\ halfOpenMax = 1
  /\ pc = [t \in Callers |-> "idle"]
  /\ stale = {}
  /\ failRun = 0
  /\ okRun = 0

Saturating(n) == IF n < AuditCap THEN n + 1 ELSE AuditCap

-----------------------------------------------------------------------------
(* should_allow_request *)

\* Instant::now() >= until
Expired == remaining = 0

\* Mutant: the probe is let through but the circuit is left open.
HalfOpenForgotten ==
  /\ successCount' = 0
  /\ UNCHANGED <<phase, remaining, failureCount, halfOpenMax>>

HalfOpenTheCircuit ==
  /\ phase' = "HalfOpen"
  /\ successCount' = 0
  /\ UNCHANGED <<remaining, failureCount, halfOpenMax>>

Admit(t) ==
  /\ pc[t] = "idle"
  /\ phase \in {"Closed", "HalfOpen"}
  /\ pc' = [pc EXCEPT ![t] = "calling"]
  /\ UNCHANGED <<circuit, audit>>

AdmitProbe(t) ==
  /\ pc[t] = "idle"
  /\ phase = "Open"
  /\ Expired
  /\ HalfOpenTheCircuit
  /\ pc' = [pc EXCEPT ![t] = "calling"]
  /\ stale' = InFlight
  /\ UNCHANGED <<failRun, okRun>>

\* The caller gets an error and the function is not called; nothing changes.
Reject(t) ==
  /\ pc[t] = "idle"
  /\ phase = "Open"
  /\ ~Expired
  /\ UNCHANGED vars

-----------------------------------------------------------------------------
(* pjp.proceed() *)

Return(t) ==
  /\ pc[t] = "calling"
  /\ \E result \in {"ok", "err"} : pc' = [pc EXCEPT ![t] = result]
  /\ UNCHANGED <<circuit, audit>>

\* A panic unwinds through `around`: no result is ever recorded for this call.
Panic(t) ==
  /\ pc[t] = "calling"
  /\ pc' = [pc EXCEPT ![t] = "idle"]
  /\ stale' = stale \ {t}
  /\ UNCHANGED <<circuit, failRun, okRun>>

-----------------------------------------------------------------------------
(* record_success *)

\* Mutant: the limit is not looked at, the first success closes the circuit.
AnySuccess == TRUE

EnoughSuccesses == successCount + 1 >= halfOpenMax

\* Mutant: closing forgets the failures counted before the circuit opened.
CloseKeepsFailures ==
  /\ phase' = "Closed"
  /\ remaining' = 0
  /\ successCount' = 0
  /\ UNCHANGED <<failureCount, halfOpenMax>>

CloseTheCircuit ==
  /\ phase' = "Closed"
  /\ remaining' = 0
  /\ failureCount' = 0
  /\ successCount' = 0
  /\ UNCHANGED halfOpenMax

\* Mutant: a success that is not enough is not counted either.
SuccessUncounted ==
  /\ phase = "HalfOpen"
  /\ \/ EnoughSuccesses /\ CloseTheCircuit
     \/ ~EnoughSuccesses /\ UNCHANGED circuit

SuccessInHalfOpen ==
  /\ phase = "HalfOpen"
  /\ \/ EnoughSuccesses /\ CloseTheCircuit
     \/ /\ ~EnoughSuccesses
        /\ successCount' = successCount + 1
        /\ UNCHANGED <<phase, remaining, failureCount, halfOpenMax>>

SuccessInClosed ==
  /\ phase = "Closed"
  /\ failureCount' = 0
  /\ UNCHANGED <<phase, remaining, successCount, halfOpenMax>>

SuccessInOpen ==
  /\ phase = "Open"
  /\ failureCount' = 0
  /\ successCount' = 0
  /\ UNCHANGED <<phase, remaining, halfOpenMax>>

\* The caller leaves `around`; if the circuit changed, every other caller in
\* flight belongs to a phase that is over.
Finish(t) ==
  /\ pc' = [pc EXCEPT ![t] = "idle"]
  /\ stale' = (IF phase' = phase THEN stale ELSE InFlight) \ {t}

RecordSuccess(t) ==
  /\ pc[t] = "ok"
  /\ SuccessInHalfOpen \/ SuccessInClosed \/ SuccessInOpen
  /\ Finish(t)
  /\ failRun' = 0
  /\ okRun' = Saturating(okRun)

-----------------------------------------------------------------------------
(* record_failure *)

\* Mutant: the deadline is a tick too late.
OpensTooLong ==
  /\ phase' = "Open"
  /\ remaining' = Timeout + 1

OpenTheCircuit ==
  /\ phase' = "Open"
  /\ remaining' = Timeout

\* Mutant: off by one, the circuit opens a failure too early.
AlmostEnoughFailures == failureCount + 2 >= Threshold

EnoughFailures == failureCount + 1 >= Threshold

\* Mutant: a failed trial reopens the circuit but its successes stay counted.
FailureKeepsSuccesses ==
  /\ phase = "HalfOpen"
  /\ OpenTheCircuit
  /\ UNCHANGED <<failureCount, successCount, halfOpenMax>>

FailureInHalfOpen ==
  /\ phase = "HalfOpen"
  /\ OpenTheCircuit
  /\ successCount' = 0
  /\ UNCHANGED <<failureCount, halfOpenMax>>

FailureInClosed ==
  /\ phase = "Closed"
  /\ failureCount' = failureCount + 1
  /\ \/ EnoughFailures /\ OpenTheCircuit
     \/ ~EnoughFailures /\ UNCHANGED <<phase, remaining>>
  /\ UNCHANGED <<successCount, halfOpenMax>>

\* Mutant: a late failure starts the timeout afresh.
FailureRearmsOpen ==
  /\ phase = "Open"
  /\ OpenTheCircuit
  /\ UNCHANGED <<failureCount, successCount, halfOpenMax>>

FailureInOpen ==
  /\ phase = "Open"
  /\ UNCHANGED circuit

RecordFailure(t) ==
  /\ pc[t] = "err"
  /\ FailureInHalfOpen \/ FailureInClosed \/ FailureInOpen
  /\ Finish(t)
  /\ failRun' = Saturating(failRun)
  /\ okRun' = 0

-----------------------------------------------------------------------------
(* The operations of the breaker's owner, and the clock *)

Reset ==
  /\ CloseTheCircuit
  /\ stale' = InFlight
  /\ failRun' = 0
  /\ UNCHANGED <<pc, okRun>>

\* Every clone shares the state, so the limit can change while calls run.
WithHalfOpenRequests ==
  /\ \E n \in HalfOpenChoices : halfOpenMax' = n
  /\ UNCHANGED <<phase, remaining, failureCount, successCount, pc, audit>>

Tick ==
  /\ remaining > 0
  /\ remaining' = remaining - 1
  /\ UNCHANGED <<phase, failureCount, successCount, halfOpenMax, pc, audit>>

ShouldAllowRequest(t) == Admit(t) \/ AdmitProbe(t) \/ Reject(t)
Proceed(t) == Return(t) \/ Panic(t)
Record(t) == RecordSuccess(t) \/ RecordFailure(t)

Next ==
  \/ \E t \in Callers : ShouldAllowRequest(t) \/ Proceed(t) \/ Record(t)
  \/ Reset
  \/ WithHalfOpenRequests
  \/ Tick

Spec == Init /\ [][Next]_vars

-----------------------------------------------------------------------------
(* Safety *)

\* Every variable stays in its type.
TypeOK ==
  /\ phase \in Phases
  /\ remaining \in 0..Timeout
  /\ failureCount \in Nat
  /\ successCount \in Nat
  /\ halfOpenMax \in HalfOpenChoices \cup {1}
  /\ pc \in [Callers -> {"idle", "calling", "ok", "err"}]
  /\ stale \subseteq Callers
  /\ failRun \in 0..AuditCap
  /\ okRun \in 0..AuditCap

\* While the circuit is closed, failure_count is the number of failures
\* recorded since the last success or reset, whatever happened while the
\* circuit was open or half-open, and is below the threshold: no failure of
\* an earlier outage is counted again (record_success :113-118, :120-123).
CountIsFailureRun ==
  phase = "Closed" => failureCount = failRun /\ failureCount < FailLimit

\* success_count counts trials of the current half-open period: it is 0 in
\* every other phase, no failure was recorded since the first of them, and it
\* is below some limit that was configured (:111-119, :137-143, :167-171).
TrialsAreCounted ==
  successCount > 0 =>
    /\ phase = "HalfOpen"
    /\ successCount <= okRun
    /\ \E n \in HalfOpenChoices \cup {1} : successCount < n

\* Nobody is let in while the circuit is open: the only callers in flight then
\* were admitted before it opened (CircuitState::Open, :14-15).
OpenAdmitsNobody == phase = "Open" => InFlight = stale

\* The deadline only exists while the circuit is open.
TimerOnlyWhenOpen == remaining > 0 => phase = "Open"

\* The inductive invariant: with TypeOK, what the safety properties rest on.
Inv ==
  /\ CountIsFailureRun
  /\ TrialsAreCounted
  /\ OpenAdmitsNobody
  /\ TimerOnlyWhenOpen
  /\ stale \subseteq InFlight

\* A closed circuit opens only on FailLimit failures recorded in a row, in
\* whatever order the calls that failed were started (:144-152).
TripIsEarned ==
  [][phase = "Closed" /\ phase' = "Open" => failRun' >= FailLimit]_vars

\* Unless it is reset by hand, a half-open circuit closes only on as many
\* successes in a row as half_open_max_requests asks for at that moment, even
\* when the limit changed in between (:111-118).
RecoveryIsEarned ==
  [][phase = "HalfOpen" /\ phase' = "Closed" /\ pc' # pc
       => okRun' >= halfOpenMax]_vars

\* The breaker keeps the promise of BreakerContract: an open circuit lets
\* nobody in and stays open for its whole timeout, and late results of calls
\* admitted earlier neither extend nor shorten it.
Contract == INSTANCE BreakerContract WITH busy <- InFlight
ImplementsContract == Contract!ContractSpec

-----------------------------------------------------------------------------
(* Liveness *)

\* Time passes, and a thread that holds a result goes on to record it.
Fairness == WF_vars(Tick) /\ \A t \in Callers : WF_vars(Record(t))

FairSpec == Spec /\ Fairness

\* What liveness needs of the environment, and the code does not give.
CallersKeepCalling == WF_vars(\E t \in Callers : ShouldAllowRequest(t))
CallsReturn == \A t \in Callers : WF_vars(Proceed(t))

CallFails == \E t \in Callers : pc[t] = "calling" /\ pc'[t] \in {"err", "idle"}

\* If the callers keep calling and calls return, every open period ends: no
\* stream of late results keeps the circuit open for ever.
OpenEnds ==
  CallersKeepCalling /\ CallsReturn => (phase = "Open" ~> phase # "Open")

\* If moreover calls stop failing, the circuit ends up closed for good, even
\* if the half-open limit is lowered, to 0 included, while trials are counted.
HealedServiceCloses ==
  CallersKeepCalling /\ CallsReturn /\ <>[][~CallFails]_vars
    => <>[](phase = "Closed")

-----------------------------------------------------------------------------
(* What the comments of circuitbreaker.rs say and the code does not do *)

\* ":87 the maximum number of requests to allow in half-open state": no more
\* calls of a half-open period are in flight at once than the limit allows.
TrialsAreLimited ==
  phase = "HalfOpen" => Cardinality(InFlight \ stale) <= halfOpenMax

\* ":113 Transition back to closed after successful test": the success that
\* closes the circuit is that of a call admitted in the half-open period.
RecoveryIsTested ==
  [][phase = "HalfOpen" /\ phase' = "Closed"
       => \A t \in stale : pc[t] = "ok" => pc'[t] = "ok"]_vars
=============================================================================
