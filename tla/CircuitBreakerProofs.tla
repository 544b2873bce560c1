------------------------ MODULE CircuitBreakerProofs ------------------------
(***************************************************************************)
(* Proofs about CircuitBreaker, for every set of callers, every threshold, *)
(* every timeout and every set of half-open limits.                        *)
(***************************************************************************)
EXTENDS CircuitBreaker, TLAPS

-----------------------------------------------------------------------------
(* Arithmetic of the audit counters *)

\* A saturating counter stays in range, never falls, and reaches n + 1 unless
\* n is already the cap.
LEMMA SaturatingBounds ==
  ASSUME NEW n \in 0..AuditCap
  PROVE  /\ Saturating(n) \in 0..AuditCap
         /\ n < AuditCap => Saturating(n) = n + 1
         /\ Saturating(n) >= n
  BY ConfigAssumption DEF Saturating, ConfigAssumption

\* The threshold a count is compared with is positive and below the cap.
LEMMA FailLimitBounds ==
  /\ FailLimit \in 1..AuditCap
  /\ \A n \in Nat : n + 1 >= Threshold <=> n + 1 >= FailLimit
  BY ConfigAssumption DEF FailLimit, ConfigAssumption

\* A half-open limit, the default included, is below the cap.
LEMMA LimitBounds ==
  \A n \in HalfOpenChoices \cup {1} : n \in Nat /\ n <= AuditCap
  BY FailLimitBounds, ConfigAssumption DEF ConfigAssumption

-----------------------------------------------------------------------------
(* Type correctness *)

LEMMA InitTypeOK == Init => TypeOK
  BY ConfigAssumption DEF Init, TypeOK, Phases, ConfigAssumption

LEMMA NextTypeOK == TypeOK /\ [Next]_vars => TypeOK'
<1> SUFFICES ASSUME TypeOK, [Next]_vars PROVE TypeOK'
  OBVIOUS
<1> USE DEF TypeOK, Phases
<1>1. ASSUME NEW t \in Callers, Admit(t) PROVE TypeOK'
  BY <1>1 DEF Admit, circuit, audit
<1>2. ASSUME NEW t \in Callers, AdmitProbe(t) PROVE TypeOK'
  BY <1>2 DEF AdmitProbe, HalfOpenTheCircuit, InFlight
<1>3. ASSUME NEW t \in Callers, Reject(t) PROVE TypeOK'
  BY <1>3 DEF Reject, vars, circuit, audit
<1>4. ASSUME NEW t \in Callers, Return(t) PROVE TypeOK'
  BY <1>4 DEF Return, circuit, audit
<1>5. ASSUME NEW t \in Callers, Panic(t) PROVE TypeOK'
  BY <1>5 DEF Panic, circuit
<1>6. ASSUME NEW t \in Callers, RecordSuccess(t) PROVE TypeOK'
  <2>1. pc' \in [Callers -> {"idle", "calling", "ok", "err"}] /\ stale' \subseteq Callers
    BY <1>6 DEF RecordSuccess, Finish, InFlight
  <2>2. failRun' \in 0..AuditCap /\ okRun' \in 0..AuditCap
    BY <1>6, SaturatingBounds, ConfigAssumption DEF RecordSuccess, ConfigAssumption
  <2>3. /\ phase' \in Phases
        /\ remaining' \in 0..Timeout
        /\ failureCount' \in Nat
        /\ successCount' \in Nat
        /\ halfOpenMax' \in HalfOpenChoices \cup {1}
    BY <1>6, ConfigAssumption
    DEF RecordSuccess, SuccessInHalfOpen, SuccessInClosed, SuccessInOpen,
        CloseTheCircuit, ConfigAssumption
  <2> QED BY <2>1, <2>2, <2>3
<1>7. ASSUME NEW t \in Callers, RecordFailure(t) PROVE TypeOK'
  <2>1. pc' \in [Callers -> {"idle", "calling", "ok", "err"}] /\ stale' \subseteq Callers
    BY <1>7 DEF RecordFailure, Finish, InFlight
  <2>2. failRun' \in 0..AuditCap /\ okRun' \in 0..AuditCap
    BY <1>7, SaturatingBounds, ConfigAssumption DEF RecordFailure, ConfigAssumption
  <2>3. /\ phase' \in Phases
        /\ remaining' \in 0..Timeout
        /\ failureCount' \in Nat
        /\ successCount' \in Nat
        /\ halfOpenMax' \in HalfOpenChoices \cup {1}
    BY <1>7, ConfigAssumption
    DEF RecordFailure, FailureInHalfOpen, FailureInClosed, FailureInOpen,
        OpenTheCircuit, circuit, ConfigAssumption
  <2> QED BY <2>1, <2>2, <2>3
<1>8. ASSUME Reset PROVE TypeOK'
  BY <1>8, ConfigAssumption DEF Reset, CloseTheCircuit, InFlight, ConfigAssumption
<1>9. ASSUME WithHalfOpenRequests PROVE TypeOK'
  BY <1>9 DEF WithHalfOpenRequests, audit
<1>10. ASSUME Tick PROVE TypeOK'
  BY <1>10, ConfigAssumption DEF Tick, audit, ConfigAssumption
<1>11. ASSUME UNCHANGED vars PROVE TypeOK'
  BY <1>11 DEF vars, circuit, audit
<1> QED
  BY <1>1, <1>2, <1>3, <1>4, <1>5, <1>6, <1>7, <1>8, <1>9, <1>10, <1>11
  DEF Next, ShouldAllowRequest, Proceed, Record

\* Type correctness of the breaker.
THEOREM TypeCorrect == Spec => []TypeOK
  BY InitTypeOK, NextTypeOK, PTL DEF Spec

-----------------------------------------------------------------------------
(* The inductive invariant. CountIsFailureRun alone is not inductive: a      *)
(* half-open circuit closes with successCount and failureCount reset, and a  *)
(* closed circuit opens with successCount 0 only because TrialsAreCounted    *)
(* holds; RecoveryIsEarned needs successCount <= okRun across a failure; and *)
(* OpenAdmitsNobody needs stale \subseteq InFlight when a caller leaves.     *)

LEMMA InitInv == Init => Inv
  BY FailLimitBounds
  DEF Init, Inv, CountIsFailureRun, TrialsAreCounted, OpenAdmitsNobody,
      TimerOnlyWhenOpen, InFlight

\* What an action does to the callers in flight and to the stale ones.
LEMMA AdmissionSets ==
  ASSUME TypeOK, NEW t \in Callers, pc[t] = "idle",
         pc' = [pc EXCEPT ![t] = "calling"]
  PROVE  t \notin InFlight /\ InFlight' = InFlight \cup {t}
  BY DEF TypeOK, InFlight

LEMMA FinishSets ==
  ASSUME TypeOK, NEW t \in Callers, pc[t] # "idle", Finish(t)
  PROVE  t \in InFlight /\ InFlight' = InFlight \ {t}
  BY DEF TypeOK, InFlight, Finish

LEMMA ReturnSets ==
  ASSUME TypeOK, NEW t \in Callers, Return(t)
  PROVE  InFlight' = InFlight
  BY DEF TypeOK, InFlight, Return

\* Leaving keeps the two claims about the callers in flight.
LEMMA FinishInv ==
  ASSUME TypeOK, Inv, NEW t \in Callers, pc[t] # "idle", Finish(t)
  PROVE  OpenAdmitsNobody' /\ (stale \subseteq InFlight)'
  BY FinishSets DEF Inv, OpenAdmitsNobody, Finish, InFlight

LEMMA SuccessInv ==
  ASSUME TypeOK, Inv, NEW t \in Callers, RecordSuccess(t)
  PROVE  Inv'
<1>1. OpenAdmitsNobody' /\ (stale \subseteq InFlight)'
  BY FinishInv DEF RecordSuccess
<1>2. okRun \in 0..AuditCap /\ failRun' = 0 /\ okRun' = Saturating(okRun)
  BY DEF RecordSuccess, TypeOK
<1>3. ASSUME SuccessInHalfOpen PROVE CountIsFailureRun' /\ TimerOnlyWhenOpen'
  BY <1>2, <1>3, FailLimitBounds
  DEF SuccessInHalfOpen, CloseTheCircuit, CountIsFailureRun, TimerOnlyWhenOpen, Inv
<1>4. ASSUME SuccessInHalfOpen PROVE TrialsAreCounted'
  <2>1. CASE EnoughSuccesses
    BY <2>1, <1>4 DEF SuccessInHalfOpen, CloseTheCircuit, TrialsAreCounted
  <2>2. CASE ~EnoughSuccesses
    <3>1. successCount' = successCount + 1 /\ phase' = "HalfOpen"
          /\ successCount + 1 < halfOpenMax
      BY <2>2, <1>4, LimitBounds DEF SuccessInHalfOpen, EnoughSuccesses, TypeOK
    <3>2. successCount <= okRun
      BY <1>2 DEF Inv, TrialsAreCounted, TypeOK
    <3>3. halfOpenMax \in HalfOpenChoices \cup {1} /\ halfOpenMax <= AuditCap
      BY LimitBounds DEF TypeOK
    <3>4. successCount + 1 <= okRun'
      BY <3>1, <3>2, <3>3, <1>2, SaturatingBounds, LimitBounds, ConfigAssumption
      DEF TypeOK, ConfigAssumption
    <3> QED BY <3>1, <3>3, <3>4 DEF TrialsAreCounted
  <2> QED BY <2>1, <2>2
<1>5. ASSUME SuccessInClosed PROVE CountIsFailureRun' /\ TimerOnlyWhenOpen' /\ TrialsAreCounted'
  BY <1>2, <1>5, FailLimitBounds
  DEF SuccessInClosed, CountIsFailureRun, TimerOnlyWhenOpen, TrialsAreCounted, Inv, TypeOK
<1>6. ASSUME SuccessInOpen PROVE CountIsFailureRun' /\ TimerOnlyWhenOpen' /\ TrialsAreCounted'
  BY <1>6 DEF SuccessInOpen, CountIsFailureRun, TimerOnlyWhenOpen, TrialsAreCounted
<1> QED BY <1>1, <1>3, <1>4, <1>5, <1>6 DEF Inv, RecordSuccess

LEMMA FailureInv ==
  ASSUME TypeOK, Inv, NEW t \in Callers, RecordFailure(t)
  PROVE  Inv'
<1>1. OpenAdmitsNobody' /\ (stale \subseteq InFlight)'
  BY FinishInv DEF RecordFailure
<1>2. failRun \in 0..AuditCap /\ failRun' = Saturating(failRun)
  BY DEF RecordFailure, TypeOK
<1>3. ASSUME FailureInHalfOpen
      PROVE CountIsFailureRun' /\ TimerOnlyWhenOpen' /\ TrialsAreCounted'
  BY <1>3
  DEF FailureInHalfOpen, OpenTheCircuit, CountIsFailureRun, TimerOnlyWhenOpen,
      TrialsAreCounted
<1>4. ASSUME FailureInClosed
      PROVE CountIsFailureRun' /\ TimerOnlyWhenOpen' /\ TrialsAreCounted'
  <2>1. successCount = 0 /\ successCount' = 0 /\ failureCount' = failureCount + 1
    BY <1>4 DEF FailureInClosed, Inv, TrialsAreCounted, TypeOK
  <2>2. failureCount = failRun /\ failureCount < FailLimit
    BY <1>4 DEF FailureInClosed, Inv, CountIsFailureRun
  <2>3. CASE EnoughFailures /\ OpenTheCircuit
    BY <2>1, <2>3 DEF OpenTheCircuit, CountIsFailureRun, TimerOnlyWhenOpen, TrialsAreCounted
  <2>4. CASE ~EnoughFailures /\ UNCHANGED <<phase, remaining>>
    <3>1. failureCount + 1 < FailLimit
      BY <2>4, FailLimitBounds DEF EnoughFailures, TypeOK
    <3>2. failRun' = failRun + 1
      BY <3>1, <2>2, <1>2, SaturatingBounds, FailLimitBounds, ConfigAssumption
      DEF ConfigAssumption
    <3> QED
      BY <2>1, <2>2, <2>4, <3>1, <3>2
      DEF CountIsFailureRun, TimerOnlyWhenOpen, TrialsAreCounted, Inv
  <2> QED BY <1>4, <2>3, <2>4 DEF FailureInClosed
<1>5. ASSUME FailureInOpen
      PROVE CountIsFailureRun' /\ TimerOnlyWhenOpen' /\ TrialsAreCounted'
  BY <1>5
  DEF FailureInOpen, circuit, CountIsFailureRun, TimerOnlyWhenOpen, TrialsAreCounted, Inv
<1> QED BY <1>1, <1>3, <1>4, <1>5 DEF Inv, RecordFailure

LEMMA NextInv == TypeOK /\ Inv /\ [Next]_vars => Inv'
<1> SUFFICES ASSUME TypeOK, Inv, [Next]_vars PROVE Inv'
  OBVIOUS
<1> USE DEF CountIsFailureRun, TrialsAreCounted, OpenAdmitsNobody, TimerOnlyWhenOpen
<1>1. ASSUME NEW t \in Callers, Admit(t) PROVE Inv'
  <2>1. InFlight' = InFlight \cup {t}
    BY <1>1, AdmissionSets DEF Admit
  <2> QED BY <1>1, <2>1 DEF Inv, Admit, circuit, audit
<1>2. ASSUME NEW t \in Callers, AdmitProbe(t) PROVE Inv'
  <2>1. InFlight' = InFlight \cup {t}
    BY <1>2, AdmissionSets DEF AdmitProbe
  <2> QED BY <1>2, <2>1 DEF Inv, AdmitProbe, HalfOpenTheCircuit, Expired
<1>3. ASSUME NEW t \in Callers, Reject(t) PROVE Inv'
  BY <1>3 DEF Reject, vars, circuit, audit, Inv, InFlight
<1>4. ASSUME NEW t \in Callers, Return(t) PROVE Inv'
  BY <1>4, ReturnSets DEF Return, circuit, audit, Inv
<1>5. ASSUME NEW t \in Callers, Panic(t) PROVE Inv'
  <2>1. InFlight' = InFlight \ {t}
    BY <1>5 DEF Panic, InFlight, TypeOK
  <2> QED BY <1>5, <2>1 DEF Panic, Inv, circuit
<1>6. ASSUME NEW t \in Callers, RecordSuccess(t) PROVE Inv'
  BY <1>6, SuccessInv
<1>7. ASSUME NEW t \in Callers, RecordFailure(t) PROVE Inv'
  BY <1>7, FailureInv
<1>8. ASSUME Reset PROVE Inv'
  BY <1>8, FailLimitBounds DEF Reset, CloseTheCircuit, Inv, InFlight
<1>9. ASSUME WithHalfOpenRequests PROVE Inv'
  BY <1>9 DEF WithHalfOpenRequests, audit, Inv, InFlight
<1>10. ASSUME Tick PROVE Inv'
  BY <1>10 DEF Tick, audit, Inv, InFlight, TypeOK
<1>11. ASSUME UNCHANGED vars PROVE Inv'
  BY <1>11 DEF vars, circuit, audit, Inv, InFlight
<1> QED
  BY <1>1, <1>2, <1>3, <1>4, <1>5, <1>6, <1>7, <1>8, <1>9, <1>10, <1>11
  DEF Next, ShouldAllowRequest, Proceed, Record

\* The inductive invariant holds: the counters never mix two periods of the
\* circuit, and an open circuit has nobody in flight it admitted itself.
THEOREM InvHolds == Spec => []Inv
  BY InitInv, NextInv, TypeCorrect, PTL DEF Spec

\* failure_count of a closed circuit is the current run of failures.
THEOREM CountIsExact == Spec => []CountIsFailureRun
<1>1. Inv => CountIsFailureRun
  BY DEF Inv
<1> QED BY <1>1, InvHolds, PTL

\* success_count only counts trials of the current half-open period.
THEOREM TrialsAreExact == Spec => []TrialsAreCounted
<1>1. Inv => TrialsAreCounted
  BY DEF Inv
<1> QED BY <1>1, InvHolds, PTL

\* An open circuit lets nobody in.
THEOREM OpenFailsFast == Spec => []OpenAdmitsNobody
<1>1. Inv => OpenAdmitsNobody
  BY DEF Inv
<1> QED BY <1>1, InvHolds, PTL

-----------------------------------------------------------------------------
(* Phase changes *)

\* The actions that can change the phase, and how.
LEMMA PhaseChange ==
  ASSUME TypeOK, [Next]_vars, phase' # phase
  PROVE  \/ \E t \in Callers : AdmitProbe(t) \/ RecordSuccess(t) \/ RecordFailure(t)
         \/ Reset
  BY DEF Next, vars, circuit, audit, ShouldAllowRequest, Proceed, Record, Admit,
         Reject, Return, Panic, WithHalfOpenRequests, Tick

\* A closed circuit opens only on FailLimit failures in a row.
THEOREM TripsAreEarned == Spec => TripIsEarned
<1>1. ASSUME TypeOK, Inv, [Next]_vars, phase = "Closed", phase' = "Open"
      PROVE  failRun' >= FailLimit
  <2>1. PICK t \in Callers : RecordFailure(t)
    BY <1>1, PhaseChange
    DEF AdmitProbe, RecordSuccess, SuccessInHalfOpen, SuccessInClosed, SuccessInOpen,
        Reset, CloseTheCircuit
  <2>2. EnoughFailures
    BY <1>1, <2>1 DEF RecordFailure, FailureInHalfOpen, FailureInClosed, FailureInOpen
  <2>3. failureCount = failRun /\ failureCount < FailLimit
    BY <1>1 DEF Inv, CountIsFailureRun
  <2>4. failRun + 1 >= FailLimit
    BY <1>1, <2>2, <2>3, FailLimitBounds DEF EnoughFailures, TypeOK
  <2>5. failRun' = failRun + 1
    BY <1>1, <2>1, <2>3, SaturatingBounds, FailLimitBounds, ConfigAssumption
    DEF RecordFailure, ConfigAssumption, TypeOK
  <2> QED BY <2>4, <2>5
<1> QED BY <1>1, TypeCorrect, InvHolds, PTL DEF Spec, TripIsEarned

\* A half-open circuit closes only on enough successes in a row, or by reset.
THEOREM RecoveriesAreEarned == Spec => RecoveryIsEarned
<1>1. ASSUME TypeOK, Inv, [Next]_vars,
             phase = "HalfOpen", phase' = "Closed", pc' # pc
      PROVE  okRun' >= halfOpenMax
  <2>1. PICK t \in Callers : RecordSuccess(t)
    BY <1>1, PhaseChange
    DEF AdmitProbe, RecordFailure, FailureInHalfOpen, FailureInClosed, FailureInOpen,
        OpenTheCircuit, Reset
  <2>2. EnoughSuccesses
    BY <1>1, <2>1 DEF RecordSuccess, SuccessInHalfOpen, SuccessInClosed, SuccessInOpen
  <2>3. successCount <= okRun
    BY <1>1 DEF Inv, TrialsAreCounted, TypeOK
  <2>4. okRun' = Saturating(okRun) /\ okRun \in 0..AuditCap
    BY <1>1, <2>1 DEF RecordSuccess, TypeOK
  <2>5. halfOpenMax \in Nat /\ halfOpenMax <= AuditCap
    BY <1>1, LimitBounds DEF TypeOK
  <2>6. /\ okRun' \in 0..AuditCap
        /\ okRun' >= okRun
        /\ okRun < AuditCap => okRun' = okRun + 1
    BY <2>4, SaturatingBounds
  <2>7. successCount \in Nat /\ AuditCap \in Nat /\ successCount + 1 >= halfOpenMax
    BY <1>1, <2>2, ConfigAssumption DEF EnoughSuccesses, TypeOK, ConfigAssumption
  <2> HIDE DEF TypeOK, EnoughSuccesses
  <2>8. CASE okRun < AuditCap
    BY <2>3, <2>4, <2>5, <2>6, <2>7, <2>8
  <2>9. CASE okRun = AuditCap
    BY <2>5, <2>6, <2>7, <2>9
  <2> QED BY <2>4, <2>7, <2>8, <2>9
<1> QED BY <1>1, TypeCorrect, InvHolds, PTL DEF Spec, RecoveryIsEarned

-----------------------------------------------------------------------------
(* Refinement: every step of the breaker is a step of BreakerContract on     *)
(* phase, remaining and the callers in flight, or leaves the three alone.    *)

LEMMA InitRefines == Init => Contract!ContractInit
  BY DEF Init, Contract!ContractInit, InFlight

\* Recording a result is one caller leaving.
LEMMA RecordRefines ==
  ASSUME TypeOK, Inv, NEW t \in Callers, Record(t)
  PROVE  Contract!Leave(t)
<1>1. t \in InFlight /\ InFlight' = InFlight \ {t}
  BY FinishSets DEF Record, RecordSuccess, RecordFailure
<1>2. CASE RecordSuccess(t)
  <2>1. \/ UNCHANGED <<phase, remaining>>
        \/ phase = "HalfOpen" /\ phase' = "Closed" /\ UNCHANGED remaining
    BY <1>2
    DEF RecordSuccess, SuccessInHalfOpen, SuccessInClosed, SuccessInOpen,
        CloseTheCircuit, Inv, TimerOnlyWhenOpen, TypeOK
  <2> QED BY <1>1, <2>1 DEF Contract!Leave
<1>3. CASE RecordFailure(t)
  <2>1. \/ UNCHANGED <<phase, remaining>>
        \/ phase # "Open" /\ phase' = "Open" /\ remaining' = Timeout
    BY <1>3
    DEF RecordFailure, FailureInHalfOpen, FailureInClosed, FailureInOpen,
        OpenTheCircuit, circuit
  <2> QED BY <1>1, <2>1 DEF Contract!Leave
<1> QED BY <1>2, <1>3 DEF Record

LEMMA NextRefines ==
  TypeOK /\ Inv /\ [Next]_vars => [Contract!ContractNext]_(Contract!contractVars)
<1> SUFFICES ASSUME TypeOK, Inv, [Next]_vars
             PROVE  [Contract!ContractNext]_(Contract!contractVars)
  OBVIOUS
<1> USE DEF Contract!ContractNext, Contract!contractVars
<1>1. ASSUME NEW t \in Callers, Admit(t) PROVE Contract!Enter(t)
  BY <1>1, AdmissionSets DEF Admit, Contract!Enter, circuit
<1>2. ASSUME NEW t \in Callers, AdmitProbe(t) PROVE Contract!Probe(t)
  BY <1>2, AdmissionSets DEF AdmitProbe, HalfOpenTheCircuit, Expired, Contract!Probe
<1>3. ASSUME NEW t \in Callers, Reject(t) PROVE UNCHANGED Contract!contractVars
  BY <1>3 DEF Reject, vars, circuit, InFlight
<1>4. ASSUME NEW t \in Callers, Return(t) PROVE UNCHANGED Contract!contractVars
  BY <1>4, ReturnSets DEF Return, circuit
<1>5. ASSUME NEW t \in Callers, Panic(t) PROVE Contract!Leave(t)
  <2>1. t \in InFlight /\ InFlight' = InFlight \ {t}
    BY <1>5 DEF Panic, InFlight, TypeOK
  <2> QED BY <1>5, <2>1 DEF Panic, circuit, Contract!Leave
<1>6. ASSUME NEW t \in Callers, Record(t) PROVE Contract!Leave(t)
  BY <1>6, RecordRefines
<1>7. ASSUME Reset PROVE Contract!ManualReset
  BY <1>7 DEF Reset, CloseTheCircuit, Contract!ManualReset, InFlight
<1>8. ASSUME WithHalfOpenRequests PROVE UNCHANGED Contract!contractVars
  BY <1>8 DEF WithHalfOpenRequests, InFlight
<1>9. ASSUME Tick PROVE Contract!TimePasses
  BY <1>9 DEF Tick, Inv, TimerOnlyWhenOpen, Contract!TimePasses, InFlight
<1>10. ASSUME UNCHANGED vars PROVE UNCHANGED Contract!contractVars
  BY <1>10 DEF vars, circuit, InFlight
<1> QED
  BY <1>1, <1>2, <1>3, <1>4, <1>5, <1>6, <1>7, <1>8, <1>9, <1>10
  DEF Next, ShouldAllowRequest, Proceed

\* The breaker implements its contract: an open circuit lets nobody in, stays
\* open for its whole timeout, and is not disturbed by late results.
THEOREM BreakerRefinesContract == Spec => ImplementsContract
  BY InitRefines, NextRefines, TypeCorrect, InvHolds, PTL
  DEF Spec, ImplementsContract, Contract!ContractSpec
=============================================================================
