--------------------------- MODULE BreakerContract ---------------------------
(***************************************************************************)
(* What a circuit breaker promises to the callers of the function it       *)
(* wraps, without saying how it counts: the circuit is closed, open or     *)
(* half-open; nobody enters the function while it is open; an open circuit *)
(* stays open for Timeout units of time unless it is reset by hand; and    *)
(* the circuit changes only when a caller leaves, when the first caller    *)
(* after the timeout enters, or on a manual reset.                         *)
(***************************************************************************)
EXTENDS Naturals

CONSTANTS
  Callers,    \* the threads that call the wrapped function
  Timeout     \* how long an open circuit stays open, in ticks

VARIABLES
  phase,      \* "Closed", "Open" or "HalfOpen"
  remaining,  \* ticks until an open circuit may be probed; 0 in other phases
  busy        \* the callers that have been let in and have not left yet

contractVars == <<phase, remaining, busy>>

ContractInit ==
  /\ phase = "Closed"
  /\ remaining = 0
  /\ busy = {}

\* A caller is let in by a circuit that is not open.
Enter(t) ==
  /\ t \notin busy
  /\ phase # "Open"
  /\ busy' = busy \cup {t}
  /\ UNCHANGED <<phase, remaining>>

\* The first caller after the timeout is let in, and makes the circuit half-open.
Probe(t) ==
  /\ t \notin busy
  /\ phase = "Open"
  /\ remaining = 0
  /\ phase' = "HalfOpen"
  /\ busy' = busy \cup {t}
  /\ UNCHANGED remaining

\* A caller leaves. Its result may trip a closed circuit, and may trip or close
\* a half-open one; a caller that leaves an open circuit changes nothing.
Leave(t) ==
  /\ t \in busy
  /\ busy' = busy \ {t}
  /\ \/ UNCHANGED <<phase, remaining>>
     \/ phase # "Open" /\ phase' = "Open" /\ remaining' = Timeout
     \/ phase = "HalfOpen" /\ phase' = "Closed" /\ UNCHANGED remaining

ManualReset ==
  /\ phase' = "Closed"
  /\ remaining' = 0
  /\ UNCHANGED busy

TimePasses ==
  /\ phase = "Open"
  /\ remaining > 0
  /\ remaining' = remaining - 1
  /\ UNCHANGED <<phase, busy>>

ContractNext ==
  \/ \E t \in Callers : Enter(t) \/ Probe(t) \/ Leave(t)
  \/ ManualReset
  \/ TimePasses

ContractSpec == ContractInit /\ [][ContractNext]_contractVars
==============================================================================
