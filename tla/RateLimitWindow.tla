--------------------------- MODULE RateLimitWindow ---------------------------
(***************************************************************************)
(* RateLimit with an observer that starts watching some bucket at any      *)
(* moment, counts the calls it grants and the ticks that pass, and stops   *)
(* at Horizon ticks. It shows what the limiter guarantees about every      *)
(* interval of time, not just about those that start with a full bucket.   *)
(***************************************************************************)
EXTENDS RateLimit

CONSTANTS
  Nothing,   \* what the observer watches when it is not watching
  Horizon    \* bound: the ticks after which the observer stops

ASSUME ObserverAssumption ==
  /\ Nothing \notin Functions \cup {Global}
  /\ Horizon \in Nat

VARIABLES
  watched,   \* the bucket being watched: a function, Global, or Nothing
  seen,      \* calls granted by the watched bucket since it started
  elapsed    \* ticks since it started

observer == <<watched, seen, elapsed>>
windowVars == <<vars, observer>>

WindowInit == Init /\ watched = Nothing /\ seen = 0 /\ elapsed = 0

StartWatching ==
  /\ watched = Nothing
  /\ watched' \in Functions \cup {Global}
  /\ seen' = 0
  /\ elapsed' = 0
  /\ UNCHANGED vars

WatchCall(f) ==
  /\ TryAcquire(f)
  /\ seen' = IF answer'.granted /\ watched = (IF perFunction THEN f ELSE Global)
             THEN seen + 1 ELSE seen
  /\ UNCHANGED <<watched, elapsed>>

\* The observer stops, and forgets, when its horizon is reached.
WatchTick ==
  /\ Tick
  /\ \/ /\ watched # Nothing
        /\ elapsed < Horizon
        /\ elapsed' = elapsed + 1
        /\ UNCHANGED <<watched, seen>>
     \/ /\ watched = Nothing \/ elapsed = Horizon
        /\ watched' = Nothing
        /\ elapsed' = 0
        /\ seen' = 0

WindowNext ==
  \/ StartWatching
  \/ \E f \in Functions : WatchCall(f)
  \/ WatchTick
  \/ (AvailableTokens \/ PerFunction) /\ UNCHANGED observer

WindowSpec == WindowInit /\ [][WindowNext]_windowVars

\* Time passes.
FairSpec == WindowSpec /\ WF_windowVars(WatchTick)

\* In any interval of elapsed ticks a bucket grants at most max_requests calls
\* plus what elapsed ticks refill, whenever the interval starts, however calls
\* and reads of the count are interleaved and whenever per_function is set.
BurstBounded == seen * Window <= (Window + elapsed) * MaxRequests

\* Inductive: what the watched bucket has granted and what it would hold now
\* come out of one full bucket and the refill of the time watched.
WindowInv ==
  /\ TypeOK
  /\ watched \in Functions \cup {Global, Nothing}
  /\ seen \in Nat /\ elapsed \in Nat
  /\ watched = Nothing => seen = 0 /\ elapsed = 0
  /\ watched # Nothing =>
       seen * Window + Levels[watched] <= (Window + elapsed) * MaxRequests
==============================================================================
