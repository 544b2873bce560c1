------------------------------ MODULE RateLimit ------------------------------
(***************************************************************************)
(* RateLimitAspect (aspect-std/src/ratelimit.rs): token buckets that are   *)
(* refilled lazily, when somebody looks at them, from the time elapsed     *)
(* since they were last looked at. try_acquire, available_tokens and       *)
(* per_function each hold the one mutex from start to end, so each is one  *)
(* action, whichever of the clones it is called on.                        *)
(*                                                                         *)
(* A bucket holds a real number of tokens in the code. Here it is counted  *)
(* in units of 1/Window token, so that a tick of the clock adds exactly    *)
(* MaxRequests units and no rounding is needed.                            *)
(***************************************************************************)
EXTENDS Integers

CONSTANTS
  Functions,    \* function names the limiter is woven into
  Global,       \* stands for the bucket of RateLimitState itself
  MaxRequests,  \* max_requests
  Window        \* window, in clock ticks

ASSUME LimitAssumption ==
  /\ MaxRequests \in Nat
  /\ Window \in Nat \ {0}
  /\ Global \notin Functions

VARIABLES
  perFunction,     \* per_function
  global,          \* tokens and last_refill of RateLimitState
  functionStates,  \* function_states: a bucket for each function seen so far
  answer           \* what try_acquire returned last, until time passes

vars == <<perFunction, global, functionStates, answer>>

Token == Window              \* 1.0 tokens
MaxTokens == MaxRequests * Window

NoAnswer == [fn |-> Global, granted |-> FALSE]

\* age is the time since last_refill; beyond Window more time adds nothing.
Bucket == [tokens : 0..MaxTokens, age : 0..Window]
FullBucket == [tokens |-> MaxTokens, age |-> 0]

Init ==
  /\ perFunction = FALSE
  /\ global = FullBucket
  /\ functionStates = [f \in {} |-> FullBucket]
  /\ answer = NoAnswer

-----------------------------------------------------------------------------

\* What a bucket would hold if it were refilled now. Mutant: no maximum.
UncappedTokens(b) == b.tokens + b.age * MaxRequests

TokensNow(b) ==
  IF b.tokens + b.age * MaxRequests < MaxTokens
  THEN b.tokens + b.age * MaxRequests
  ELSE MaxTokens

\* Mutant: last_refill is not moved to now.
RefillWithoutClock(b) == [b EXCEPT !.tokens = TokensNow(b)]

Refill(b) == [tokens |-> TokensNow(b), age |-> 0]

\* Mutant: a call is let through on the last fraction of a token.
HasAnyToken(b) == b.tokens > 0

HasToken(b) == b.tokens >= Token

Take(b) ==
  IF HasToken(b) THEN [b EXCEPT !.tokens = @ - Token] ELSE b

\* Mutant: per-function calls all drain the entry created first.
SharedEntry(f) ==
  IF DOMAIN functionStates = {} THEN FullBucket
  ELSE functionStates[CHOOSE g \in DOMAIN functionStates : TRUE]

\* entry(name).or_insert_with(..)
Entry(f) ==
  IF f \in DOMAIN functionStates THEN functionStates[f] ELSE FullBucket

TryAcquirePerFunction(f) ==
  /\ perFunction
  /\ LET refilled == Refill(Entry(f))
     IN  /\ functionStates' =
              [g \in DOMAIN functionStates \cup {f} |->
                 IF g = f THEN Take(refilled) ELSE functionStates[g]]
         /\ answer' = [fn |-> f, granted |-> HasToken(refilled)]
  /\ UNCHANGED <<perFunction, global>>

TryAcquireGlobal(f) ==
  /\ ~perFunction
  /\ LET refilled == Refill(global)
     IN  /\ global' = Take(refilled)
         /\ answer' = [fn |-> f, granted |-> HasToken(refilled)]
  /\ UNCHANGED <<perFunction, functionStates>>

TryAcquire(f) == TryAcquirePerFunction(f) \/ TryAcquireGlobal(f)

\* Refills and reports the shared bucket, in either mode.
AvailableTokens ==
  /\ global' = Refill(global)
  /\ UNCHANGED <<perFunction, functionStates, answer>>

\* Every clone shares the flag, so it can be set while calls are being made.
PerFunction ==
  /\ perFunction' = TRUE
  /\ UNCHANGED <<global, functionStates, answer>>

Older(b) == [b EXCEPT !.age = IF @ < Window THEN @ + 1 ELSE Window]

Tick ==
  /\ global' = Older(global)
  /\ functionStates' = [f \in DOMAIN functionStates |-> Older(functionStates[f])]
  /\ answer' = NoAnswer
  /\ UNCHANGED perFunction

Next ==
  \/ \E f \in Functions : TryAcquire(f)
  \/ AvailableTokens
  \/ PerFunction
  \/ Tick

Spec == Init /\ [][Next]_vars

-----------------------------------------------------------------------------
(* Safety *)

\* Every variable stays in its type.
TypeOK ==
  /\ perFunction \in BOOLEAN
  /\ global \in Bucket
  /\ DOMAIN functionStates \subseteq Functions
  /\ \A f \in DOMAIN functionStates : functionStates[f] \in Bucket
  /\ answer \in [fn : Functions \cup {Global}, granted : BOOLEAN]

\* What each key's bucket would hold if it were refilled now.
Levels ==
  [k \in Functions \cup {Global} |->
     TokensNow(IF k = Global THEN global ELSE Entry(k))]

\* Lazy refilling cannot be told from buckets that fill as time passes: a call
\* is granted exactly when an always-filling bucket would hold a token, the
\* first call of a function finds a full bucket however late it comes, and
\* available_tokens changes nothing a caller can see (:86-132, :135-142).
Contract == INSTANCE RateContract WITH
  RefillRate <- MaxRequests, Cap <- MaxTokens, levels <- Levels
ImplementsContract == Contract!ContractSpec

-----------------------------------------------------------------------------
(* Liveness *)

Granted(f) == TryAcquire(f) /\ answer' = [fn |-> f, granted |-> TRUE]

\* With per-function buckets a function that keeps calling keeps being served,
\* however often the other functions call (:79 "its own token bucket"). The
\* environment's part is that it keeps calling.
EveryFunctionServed ==
  \A f \in Functions :
    <>perFunction /\ WF_vars(Granted(f)) => []<><<Granted(f)>>_vars

==============================================================================
