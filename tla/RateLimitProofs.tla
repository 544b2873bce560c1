--------------------------- MODULE RateLimitProofs ---------------------------
(***************************************************************************)
(* Proofs about the rate limiter, for every set of functions, every        *)
(* max_requests and every positive window: type correctness, that lazily   *)
(* refilled buckets implement RateContract, and that a bucket grants at    *)
(* most max_requests calls and what it regains in every interval of time,  *)
(* for observers of every horizon.                                         *)
(***************************************************************************)
EXTENDS RateLimitWindow, TLAPS

-----------------------------------------------------------------------------
(* Arithmetic of one bucket *)

\* What a bucket gains in `age` ticks is a number of units, one more tick adds
\* MaxRequests, and a whole window fills an empty bucket.
LEMMA Gain ==
  ASSUME NEW age \in 0..Window
  PROVE  /\ age * MaxRequests \in Nat
         /\ (age + 1) * MaxRequests = age * MaxRequests + MaxRequests
         /\ 0 * MaxRequests = 0
         /\ age = Window => age * MaxRequests = MaxTokens
         /\ MaxTokens \in Nat
         /\ Token \in Nat \ {0}
         /\ Window \in Nat \ {0}
         /\ MaxRequests \in Nat
<1> USE LimitAssumption DEF LimitAssumption
<1>1. age \in Nat /\ MaxRequests \in Nat /\ Window \in Nat
  OBVIOUS
<1>2. MaxTokens \in Nat /\ Window * MaxRequests = MaxTokens
  BY <1>1 DEF MaxTokens
<1>3. age * MaxRequests \in Nat
  BY <1>1
<1>4. (age + 1) * MaxRequests = age * MaxRequests + MaxRequests
  BY <1>1
<1> QED
  BY <1>1, <1>2, <1>3, <1>4 DEF Token

\* A bucket never holds more than MaxTokens, however long it was not looked at.
LEMMA TokensNowType ==
  ASSUME NEW b \in Bucket
  PROVE  TokensNow(b) \in 0..MaxTokens
<1>1. b.tokens \in 0..MaxTokens /\ b.age \in 0..Window
  BY DEF Bucket
<1>2. b.age * MaxRequests \in Nat /\ MaxTokens \in Nat
  BY <1>1, Gain
<1>3. \A t, g, max \in Nat : (IF t + g < max THEN t + g ELSE max) \in 0..max
  OBVIOUS
<1>4. b.tokens \in Nat
  BY <1>1, <1>2
<1> QED
  BY <1>2, <1>3, <1>4 DEF TokensNow

\* Refilling a bucket does not change what it would hold if it were refilled.
LEMMA RefillKeepsLevel ==
  ASSUME NEW b \in Bucket
  PROVE  /\ Refill(b) \in Bucket
         /\ Refill(b).tokens = TokensNow(b)
         /\ TokensNow(Refill(b)) = TokensNow(b)
<1> DEFINE n == TokensNow(b)
<1>1. n \in 0..MaxTokens
  BY TokensNowType
<1>2. 0 \in 0..Window /\ 0 * MaxRequests = 0 /\ MaxTokens \in Nat
  BY LimitAssumption, Gain DEF LimitAssumption
<1>3. Refill(b) = [tokens |-> n, age |-> 0]
  BY DEF Refill
<1>4. TokensNow([tokens |-> n, age |-> 0]) = n
  BY <1>1, <1>2 DEF TokensNow
<1> QED
  BY <1>1, <1>2, <1>3, <1>4 DEF Bucket

\* A refilled bucket gives out a token exactly when it holds one, and one only.
LEMMA TakeFromRefilled ==
  ASSUME NEW b \in Bucket
  PROVE  /\ Take(Refill(b)) \in Bucket
         /\ HasToken(Refill(b)) <=> TokensNow(b) >= Token
         /\ TokensNow(b) >= Token => TokensNow(Take(Refill(b))) = TokensNow(b) - Token
         /\ TokensNow(b) < Token => TokensNow(Take(Refill(b))) = TokensNow(b)
<1> DEFINE n == TokensNow(b)
           r == Refill(b)
<1>1. n \in 0..MaxTokens
  BY TokensNowType
<1>2. /\ 0 \in 0..Window
      /\ 0 * MaxRequests = 0
      /\ MaxTokens \in Nat
      /\ Token \in Nat \ {0}
  BY LimitAssumption, Gain DEF LimitAssumption
<1>3. r = [tokens |-> n, age |-> 0]
  BY DEF Refill
<1>4. HasToken(r) <=> n >= Token
  BY <1>3 DEF HasToken
<1>5. CASE n >= Token
  <2>1. Take(r) = [tokens |-> n - Token, age |-> 0]
    BY <1>3, <1>4, <1>5 DEF Take
  <2>2. n - Token \in 0..MaxTokens
    BY <1>1, <1>2, <1>5
  <2>3. TokensNow([tokens |-> n - Token, age |-> 0]) = n - Token
    BY <1>1, <1>2, <2>2 DEF TokensNow
  <2> QED
    BY <1>1, <1>2, <1>4, <1>5, <2>1, <2>2, <2>3 DEF Bucket
<1>6. CASE n < Token
  <2>1. Take(r) = r /\ ~(n >= Token)
    BY <1>1, <1>2, <1>4, <1>6 DEF Take
  <2> QED
    BY <1>4, <1>6, <2>1, RefillKeepsLevel
<1> QED
  BY <1>1, <1>2, <1>5, <1>6

\* A tick adds MaxRequests units to what a bucket would hold, up to MaxTokens.
LEMMA OlderLevel ==
  ASSUME NEW b \in Bucket
  PROVE  /\ Older(b) \in Bucket
         /\ TokensNow(Older(b)) = IF TokensNow(b) + MaxRequests < MaxTokens
                                 THEN TokensNow(b) + MaxRequests ELSE MaxTokens
<1>1. b.tokens \in 0..MaxTokens /\ b.age \in 0..Window
  BY DEF Bucket
<1>2. b = [tokens |-> b.tokens, age |-> b.age]
  BY DEF Bucket
<1>3. /\ b.tokens \in Nat
      /\ b.age * MaxRequests \in Nat
      /\ MaxTokens \in Nat
      /\ MaxRequests \in Nat
      /\ Window \in Nat
  <2>1. /\ b.age * MaxRequests \in Nat
        /\ MaxTokens \in Nat
        /\ MaxRequests \in Nat
        /\ Window \in Nat
    BY <1>1, Gain
  <2> QED
    BY <1>1, <2>1
<1>4. CASE b.age < Window
  <2>1. Older(b) = [tokens |-> b.tokens, age |-> b.age + 1]
    BY <1>2, <1>4 DEF Older
  <2>2. b.age + 1 \in 0..Window
    BY <1>1, <1>3, <1>4
  <2>3. (b.age + 1) * MaxRequests = b.age * MaxRequests + MaxRequests
    BY <1>1, Gain
  <2>4. \A t, g, r, max \in Nat :
          (IF t + (g + r) < max THEN t + (g + r) ELSE max)
            = LET n == IF t + g < max THEN t + g ELSE max
              IN  IF n + r < max THEN n + r ELSE max
    OBVIOUS
  <2>5. TokensNow(Older(b)) = IF TokensNow(b) + MaxRequests < MaxTokens
                              THEN TokensNow(b) + MaxRequests ELSE MaxTokens
    BY <1>3, <2>1, <2>3, <2>4 DEF TokensNow
  <2> QED
    BY <1>1, <2>1, <2>2, <2>5 DEF Bucket
<1>5. CASE ~(b.age < Window)
  <2>1. b.age = Window /\ b.age * MaxRequests = MaxTokens
    BY <1>1, <1>3, <1>5, Gain
  <2>2. Older(b) = b
    BY <1>2, <1>5, <2>1 DEF Older
  <2>3. TokensNow(b) = MaxTokens
    BY <1>3, <2>1 DEF TokensNow
  <2> QED
    BY <1>3, <2>2, <2>3
<1> QED
  BY <1>4, <1>5

-----------------------------------------------------------------------------
(* Type correctness *)

\* A new bucket is a bucket, and so is the entry of every function.
LEMMA EntryType ==
  ASSUME TypeOK, NEW f \in Functions
  PROVE  Entry(f) \in Bucket
<1>1. FullBucket \in Bucket
  BY Gain, LimitAssumption DEF FullBucket, Bucket, LimitAssumption
<1> QED
  BY <1>1 DEF TypeOK, Entry

\* A new limiter has one full bucket.
LEMMA InitTypeOK == Init => TypeOK
<1>1. FullBucket \in Bucket
  BY Gain, LimitAssumption DEF FullBucket, Bucket, LimitAssumption
<1> SUFFICES ASSUME Init PROVE TypeOK
  OBVIOUS
<1>2. DOMAIN functionStates = {}
  BY DEF Init
<1>3. answer \in [fn : Functions \cup {Global}, granted : BOOLEAN]
  BY DEF Init, NoAnswer
<1> QED
  BY <1>1, <1>2, <1>3 DEF Init, TypeOK

\* Whatever is refilled, taken from or left alone stays a bucket.
LEMMA NextTypeOK == TypeOK /\ [Next]_vars => TypeOK'
<1> SUFFICES ASSUME TypeOK, [Next]_vars PROVE TypeOK'
  OBVIOUS
<1>1. ASSUME NEW f \in Functions, TryAcquirePerFunction(f) PROVE TypeOK'
  <2>1. Take(Refill(Entry(f))) \in Bucket
    BY EntryType, TakeFromRefilled
  <2>2. /\ functionStates' = [g \in DOMAIN functionStates \cup {f} |->
               IF g = f THEN Take(Refill(Entry(f))) ELSE functionStates[g]]
        /\ answer' = [fn |-> f, granted |-> HasToken(Refill(Entry(f)))]
        /\ UNCHANGED <<perFunction, global>>
    BY <1>1 DEF TryAcquirePerFunction
  <2>3. HasToken(Refill(Entry(f))) \in BOOLEAN
    BY DEF HasToken
  <2> QED
    BY <2>1, <2>2, <2>3 DEF TypeOK
<1>2. ASSUME NEW f \in Functions, TryAcquireGlobal(f) PROVE TypeOK'
  <2>1. Take(Refill(global)) \in Bucket
    BY TakeFromRefilled DEF TypeOK
  <2>2. HasToken(Refill(global)) \in BOOLEAN
    BY DEF HasToken
  <2> QED
    BY <1>2, <2>1, <2>2 DEF TryAcquireGlobal, TypeOK
<1>3. ASSUME AvailableTokens PROVE TypeOK'
  BY <1>3, RefillKeepsLevel DEF AvailableTokens, TypeOK
<1>4. ASSUME PerFunction PROVE TypeOK'
  BY <1>4 DEF PerFunction, TypeOK
<1>5. ASSUME Tick PROVE TypeOK'
  BY <1>5, OlderLevel DEF Tick, TypeOK, NoAnswer
<1>6. CASE UNCHANGED vars
  BY <1>6 DEF vars, TypeOK
<1> QED
  BY <1>1, <1>2, <1>3, <1>4, <1>5, <1>6 DEF Next, TryAcquire

\* Every variable stays in its type, the buckets in particular between empty
\* and full.
THEOREM TypeCorrect == Spec => []TypeOK
<1>1. Init => TypeOK
  BY InitTypeOK
<1>2. TypeOK /\ [Next]_vars => TypeOK'
  BY NextTypeOK
<1> QED
  BY <1>1, <1>2, PTL DEF Spec

-----------------------------------------------------------------------------
(* The limiter implements its contract *)

\* A function that has not called yet has a full bucket, which stays full.
LEMMA FullLevel == TokensNow(FullBucket) = MaxTokens /\ FullBucket \in Bucket
<1>1. 0 \in 0..Window /\ 0 * MaxRequests = 0 /\ MaxTokens \in Nat
  BY Gain, LimitAssumption DEF LimitAssumption
<1> QED
  BY <1>1 DEF TokensNow, FullBucket, Bucket

\* Full buckets, those that are not there yet included.
LEMMA InitRefines == Init => Contract!ContractInit
<1> SUFFICES ASSUME Init PROVE Contract!ContractInit
  OBVIOUS
<1>1. \A f \in Functions : Entry(f) = FullBucket
  BY DEF Init, Entry
<1>2. Levels = [k \in Functions \cup {Global} |-> MaxTokens]
  BY <1>1, FullLevel DEF Levels, Init
<1> QED
  BY <1>2 DEF Init, Contract!ContractInit, Contract!Keys, Contract!NoAnswer, NoAnswer

\* A call of f is the contract's grant or refusal.
LEMMA TryAcquireRefines ==
  ASSUME TypeOK, NEW f \in Functions, TryAcquire(f)
  PROVE  Contract!GrantCall(f) \/ Contract!RefuseCall(f)
<1> DEFINE key == IF perFunction THEN f ELSE Global
           b == IF perFunction THEN Entry(f) ELSE global
<1>1. b \in Bucket /\ key \in Functions \cup {Global}
  BY EntryType DEF TypeOK
<1>2. Levels[key] = TokensNow(b)
  BY LimitAssumption DEF Levels, LimitAssumption
<1>3. Levels' = [Levels EXCEPT ![key] = TokensNow(Take(Refill(b)))]
  <2>1. CASE perFunction
    <3>1. functionStates' = [g \in DOMAIN functionStates \cup {f} |->
              IF g = f THEN Take(Refill(Entry(f))) ELSE functionStates[g]]
          /\ global' = global
      BY <2>1 DEF TryAcquire, TryAcquirePerFunction, TryAcquireGlobal
    <3>2. \A g \in Functions :
            Entry(g)' = IF g = f THEN Take(Refill(Entry(f))) ELSE Entry(g)
      BY <3>1 DEF Entry
    <3> QED
      BY <2>1, <3>1, <3>2, LimitAssumption DEF Levels, LimitAssumption
  <2>2. CASE ~perFunction
    <3>1. global' = Take(Refill(global)) /\ functionStates' = functionStates
      BY <2>2 DEF TryAcquire, TryAcquirePerFunction, TryAcquireGlobal
    <3>2. \A g \in Functions : Entry(g)' = Entry(g)
      BY <3>1 DEF Entry
    <3> QED
      BY <2>2, <3>1, <3>2, LimitAssumption DEF Levels, LimitAssumption
  <2> QED
    BY <2>1, <2>2
<1>4. answer' = [fn |-> f, granted |-> HasToken(Refill(b))] /\ perFunction' = perFunction
  BY DEF TryAcquire, TryAcquirePerFunction, TryAcquireGlobal
<1>5. /\ HasToken(Refill(b)) <=> TokensNow(b) >= Token
      /\ HasToken(Refill(b)) \in BOOLEAN
  BY <1>1, TakeFromRefilled DEF HasToken
<1>6. Contract!KeyOf(f) = key
  BY DEF Contract!KeyOf
<1>7. TokensNow(b) \in Nat /\ Token \in Nat
  BY <1>1, TokensNowType, Gain, LimitAssumption DEF Token, LimitAssumption
<1>8. CASE TokensNow(b) >= Token
  <2>1. Levels' = [Levels EXCEPT ![key] = TokensNow(b) - Token]
    BY <1>1, <1>3, <1>8, TakeFromRefilled
  <2>2. HasToken(Refill(b)) = TRUE
    BY <1>5, <1>8
  <2> QED
    BY <1>2, <1>4, <1>6, <1>8, <2>1, <2>2 DEF Contract!GrantCall
<1>9. CASE TokensNow(b) < Token
  <2>1. Levels' = [Levels EXCEPT ![key] = TokensNow(b)]
    BY <1>1, <1>3, <1>9, TakeFromRefilled
  <2>2. Levels' = Levels
    BY <1>1, <1>2, <2>1 DEF Levels
  <2>3. HasToken(Refill(b)) = FALSE
    BY <1>5, <1>7, <1>9
  <2> QED
    BY <1>2, <1>4, <1>6, <1>9, <2>2, <2>3 DEF Contract!RefuseCall
<1> QED
  BY <1>7, <1>8, <1>9

\* A tick of the clock is a tick of the contract: buckets that nobody looks at
\* gain what an always-filling bucket gains.
LEMMA TickRefines ==
  ASSUME TypeOK, Tick
  PROVE  Contract!TimePasses
<1> DEFINE B(k) == IF k = Global THEN global ELSE Entry(k)
           More(n) == IF n + MaxRequests < MaxTokens THEN n + MaxRequests ELSE MaxTokens
<1>1. \A k \in Functions \cup {Global} : B(k) \in Bucket
  BY EntryType DEF TypeOK
<1>2. \A k \in Functions \cup {Global} : TokensNow(B(k)') = More(TokensNow(B(k)))
  <2>1. global' = Older(global)
        /\ functionStates' = [g \in DOMAIN functionStates |-> Older(functionStates[g])]
    BY DEF Tick
  <2>2. More(MaxTokens) = MaxTokens
    BY Gain, LimitAssumption DEF LimitAssumption
  <2>3. TAKE k \in Functions \cup {Global}
  <2>4. CASE k = Global
    BY <1>1, <2>1, <2>4, OlderLevel
  <2>5. CASE k # Global /\ k \in DOMAIN functionStates
    BY <1>1, <2>1, <2>5, OlderLevel DEF Entry
  <2>6. CASE k # Global /\ k \notin DOMAIN functionStates
    BY <2>1, <2>2, <2>6, FullLevel DEF Entry
  <2> QED
    BY <2>4, <2>5, <2>6
<1>3. Levels' = [k \in Functions \cup {Global} |-> More(Levels[k])]
  BY <1>2 DEF Levels
<1>4. answer' = Contract!NoAnswer /\ perFunction' = perFunction
  BY DEF Tick, NoAnswer, Contract!NoAnswer
<1> QED
  BY <1>3, <1>4 DEF Contract!TimePasses, Contract!Keys

\* Each action is a step of the contract, or invisible to it.
LEMMA NextRefines ==
  ASSUME TypeOK, [Next]_vars
  PROVE  [Contract!ContractNext]_Contract!contractVars
<1>1. ASSUME NEW f \in Functions, TryAcquire(f) PROVE Contract!ContractNext
  BY <1>1, TryAcquireRefines DEF Contract!ContractNext
<1>2. ASSUME AvailableTokens PROVE UNCHANGED Contract!contractVars
  <2>1. TokensNow(global') = TokensNow(global)
    BY <1>2, RefillKeepsLevel DEF AvailableTokens, TypeOK
  <2>2. \A f \in Functions : Entry(f)' = Entry(f)
    BY <1>2 DEF AvailableTokens, Entry
  <2>3. Levels' = Levels
    BY <2>1, <2>2 DEF Levels
  <2> QED
    BY <1>2, <2>3 DEF AvailableTokens, Contract!contractVars
<1>3. ASSUME PerFunction PROVE Contract!ContractNext
  <2>1. Levels' = Levels
    BY <1>3 DEF PerFunction, Levels, Entry
  <2> QED
    BY <1>3, <2>1 DEF PerFunction, Contract!ContractNext, Contract!SeparateBuckets
<1>4. ASSUME Tick PROVE Contract!ContractNext
  BY <1>4, TickRefines DEF Contract!ContractNext
<1>5. CASE UNCHANGED vars
  BY <1>5 DEF vars, Contract!contractVars, Levels, Entry
<1> QED
  BY <1>1, <1>2, <1>3, <1>4, <1>5 DEF Next

\* Lazily refilled buckets, created on first use, cannot be told from buckets
\* that are there from the start and fill as time passes (ratelimit.rs:86-142).
THEOREM LimiterRefinesContract == Spec => ImplementsContract
<1>1. Init => Contract!ContractInit
  BY InitRefines
<1>2. TypeOK /\ [Next]_vars => [Contract!ContractNext]_Contract!contractVars
  BY NextRefines
<1> QED
  BY <1>1, <1>2, TypeCorrect, PTL DEF Spec, ImplementsContract, Contract!ContractSpec

-----------------------------------------------------------------------------
(* The calls granted in an interval *)

\* What one more grant and one more tick add to the two sides of the bound.
LEMMA Products ==
  ASSUME NEW n \in Nat, NEW t \in Nat
  PROVE  /\ n * Window \in Nat
         /\ (n + 1) * Window = n * Window + Window
         /\ (Window + t) * MaxRequests \in Nat
         /\ (Window + (t + 1)) * MaxRequests = (Window + t) * MaxRequests + MaxRequests
         /\ 0 * Window = 0
         /\ (Window + 0) * MaxRequests = MaxTokens
<1>1. Window \in Nat /\ MaxRequests \in Nat
  BY LimitAssumption DEF LimitAssumption
<1>2. /\ n * Window \in Nat
      /\ (n + 1) * Window = n * Window + Window
      /\ 0 * Window = 0
  BY <1>1
<1>3. Window + t \in Nat /\ Window + (t + 1) = (Window + t) + 1 /\ Window + 0 = Window
  BY <1>1
<1>4. \A w, m \in Nat : w * m \in Nat /\ (w + 1) * m = w * m + m /\ w * m = m * w
  OBVIOUS
<1> QED
  BY <1>1, <1>2, <1>3, <1>4 DEF MaxTokens

\* Levels are amounts of units.
LEMMA LevelsType ==
  ASSUME TypeOK, NEW k \in Functions \cup {Global}
  PROVE  Levels[k] \in 0..MaxTokens
  BY EntryType, TokensNowType DEF TypeOK, Levels

\* A call of f lowers the level of its own key by one token if it is granted,
\* and no level otherwise.
LEMMA CallLevels ==
  ASSUME TypeOK, NEW f \in Functions, TryAcquire(f), NEW k \in Functions \cup {Global}
  PROVE  /\ Levels'[k] \in 0..MaxTokens
         /\ answer'.granted /\ k = (IF perFunction THEN f ELSE Global)
              => Levels'[k] = Levels[k] - Window
         /\ Levels'[k] <= Levels[k]
<1>1. Levels \in [Functions \cup {Global} -> 0..MaxTokens]
  BY LevelsType DEF Levels
<1>2. MaxTokens \in Nat /\ Window \in Nat
  BY Gain, LimitAssumption DEF LimitAssumption
<1>3. CASE Contract!GrantCall(f)
  <2>1. /\ Levels' = [Levels EXCEPT ![IF perFunction THEN f ELSE Global] = @ - Window]
        /\ Levels[IF perFunction THEN f ELSE Global] >= Window
    BY <1>3 DEF Contract!GrantCall, Contract!KeyOf, Token
  <2> QED
    BY <1>1, <1>2, <2>1
<1>4. CASE Contract!RefuseCall(f)
  <2>1. Levels' = Levels /\ ~answer'.granted
    BY <1>4 DEF Contract!RefuseCall
  <2> QED
    BY <1>1, <1>2, <2>1
<1> QED
  BY <1>3, <1>4, TryAcquireRefines

\* A tick raises no level by more than MaxRequests.
LEMMA TickLevels ==
  ASSUME TypeOK, Tick, NEW k \in Functions \cup {Global}
  PROVE  Levels'[k] \in 0..MaxTokens /\ Levels'[k] <= Levels[k] + MaxRequests
<1>1. Levels' = [j \in Functions \cup {Global} |->
        IF Levels[j] + MaxRequests < MaxTokens THEN Levels[j] + MaxRequests ELSE MaxTokens]
  BY TickRefines DEF Contract!TimePasses, Contract!Keys
<1>2. MaxTokens \in Nat /\ MaxRequests \in Nat /\ Levels[k] \in 0..MaxTokens
  BY Gain, LimitAssumption, LevelsType DEF LimitAssumption
<1> QED
  BY <1>1, <1>2

\* Reading the count and setting the flag change no level.
LEMMA OtherLevels ==
  ASSUME TypeOK, AvailableTokens \/ PerFunction \/ UNCHANGED vars
  PROVE  Levels' = Levels
<1>1. CASE AvailableTokens
  <2>1. TokensNow(global') = TokensNow(global) /\ functionStates' = functionStates
    BY <1>1, RefillKeepsLevel DEF AvailableTokens, TypeOK
  <2> QED
    BY <2>1 DEF Levels, Entry
<1>2. CASE PerFunction
  BY <1>2 DEF PerFunction, Levels, Entry
<1>3. CASE UNCHANGED vars
  BY <1>3 DEF vars, Levels, Entry
<1> QED
  BY <1>1, <1>2, <1>3

-----------------------------------------------------------------------------
(* The invariant *)

\* The observer only watches.
LEMMA WindowStepIsStep == [WindowNext]_windowVars => [Next]_vars
  BY DEF WindowNext, windowVars, StartWatching, WatchCall, WatchTick, Next, vars

\* Nobody watches at first.
LEMMA InitWindowInv == WindowInit => WindowInv
  BY InitTypeOK DEF WindowInit, WindowInv

\* Every step keeps grants and level within what the interval allows.
LEMMA NextWindowInv ==
  ASSUME WindowInv, [WindowNext]_windowVars
  PROVE  WindowInv'
<1>1. TypeOK /\ TypeOK'
  BY WindowStepIsStep, NextTypeOK DEF WindowInv
<1>2. /\ watched \in Functions \cup {Global, Nothing} /\ seen \in Nat /\ elapsed \in Nat
      /\ watched = Nothing => seen = 0 /\ elapsed = 0
      /\ watched # Nothing =>
           /\ watched \in Functions \cup {Global}
           /\ seen * Window + Levels[watched] <= (Window + elapsed) * MaxRequests
           /\ Levels[watched] \in 0..MaxTokens
  BY LevelsType DEF WindowInv
<1>3. /\ Nothing \notin Functions \cup {Global}
      /\ MaxTokens \in Nat /\ MaxRequests \in Nat /\ Window \in Nat
      /\ seen * Window \in Nat /\ (Window + elapsed) * MaxRequests \in Nat
  BY <1>2, ObserverAssumption, LimitAssumption, Gain, Products
     DEF ObserverAssumption, LimitAssumption
<1>4. CASE StartWatching
  <2>1. watched' \in Functions \cup {Global} /\ seen' = 0 /\ elapsed' = 0 /\ Levels' = Levels
    BY <1>1, <1>4, OtherLevels DEF StartWatching
  <2>2. Levels[watched'] \in 0..MaxTokens
    BY <1>1, <2>1, LevelsType
  <2>3. seen' * Window + Levels'[watched'] <= (Window + elapsed') * MaxRequests
    BY <1>3, <2>1, <2>2, Products
  <2> QED
    BY <1>1, <1>3, <2>1, <2>3 DEF WindowInv
<1>5. ASSUME NEW f \in Functions, WatchCall(f) PROVE WindowInv'
  <2>1. /\ TryAcquire(f) /\ watched' = watched /\ elapsed' = elapsed
        /\ seen' = IF answer'.granted /\ watched = (IF perFunction THEN f ELSE Global)
                   THEN seen + 1 ELSE seen
    BY <1>5 DEF WatchCall
  <2>2. CASE watched = Nothing
    <3>1. seen' = seen
      BY <1>3, <2>1, <2>2
    <3> QED
      BY <1>1, <1>2, <2>1, <2>2, <3>1 DEF WindowInv
  <2>3. CASE watched # Nothing
    <3>1. Levels'[watched] \in 0..MaxTokens /\ Levels'[watched] <= Levels[watched]
      BY <1>1, <1>2, <2>1, <2>3, CallLevels
    <3>2. CASE answer'.granted /\ watched = (IF perFunction THEN f ELSE Global)
      <4>1. Levels'[watched] = Levels[watched] - Window
        BY <1>1, <1>2, <2>1, <2>3, <3>2, CallLevels
      <4>2. seen' = seen + 1 /\ (seen + 1) * Window = seen * Window + Window
        BY <1>2, <2>1, <3>2, Products
      <4>3. seen' * Window + Levels'[watched] <= (Window + elapsed) * MaxRequests
        BY <1>2, <1>3, <2>3, <4>1, <4>2
      <4> QED
        BY <1>1, <1>2, <2>1, <2>3, <4>2, <4>3 DEF WindowInv
    <3>3. CASE ~(answer'.granted /\ watched = (IF perFunction THEN f ELSE Global))
      <4>1. seen' = seen
        BY <2>1, <3>3
      <4>2. seen * Window + Levels'[watched] <= (Window + elapsed) * MaxRequests
        BY <1>2, <1>3, <2>3, <3>1
      <4> QED
        BY <1>1, <1>2, <2>1, <2>3, <4>1, <4>2 DEF WindowInv
    <3> QED
      BY <3>2, <3>3
  <2> QED
    BY <2>2, <2>3
<1>6. CASE WatchTick
  <2>1. CASE watched' = Nothing /\ elapsed' = 0 /\ seen' = 0
    BY <1>1, <2>1 DEF WindowInv
  <2>2. CASE /\ watched # Nothing /\ elapsed' = elapsed + 1
             /\ watched' = watched /\ seen' = seen
    <3>1. /\ Levels'[watched] \in 0..MaxTokens
          /\ Levels'[watched] <= Levels[watched] + MaxRequests
      BY <1>1, <1>2, <1>6, <2>2, TickLevels DEF WatchTick
    <3>2. (Window + (elapsed + 1)) * MaxRequests
            = (Window + elapsed) * MaxRequests + MaxRequests
      BY <1>2, Products
    <3>3. seen * Window + Levels'[watched] <= (Window + (elapsed + 1)) * MaxRequests
      BY <1>2, <1>3, <2>2, <3>1, <3>2
    <3> QED
      BY <1>1, <1>2, <2>2, <3>3 DEF WindowInv
  <2> QED
    BY <1>6, <2>1, <2>2 DEF WatchTick
<1>7. CASE (AvailableTokens \/ PerFunction) /\ UNCHANGED observer
  <2>1. Levels' = Levels
    BY <1>1, <1>7, OtherLevels
  <2> QED
    BY <1>1, <1>2, <1>7, <2>1 DEF WindowInv, observer
<1>8. CASE UNCHANGED windowVars
  <2>1. Levels' = Levels
    BY <1>1, <1>8, OtherLevels DEF windowVars
  <2> QED
    BY <1>1, <1>2, <1>8, <2>1 DEF WindowInv, windowVars, observer
<1> QED
  BY <1>4, <1>5, <1>6, <1>7, <1>8 DEF WindowNext

\* The levels, which are not negative, are dropped from the bound.
LEMMA InvBounds == WindowInv => BurstBounded
<1> SUFFICES ASSUME WindowInv PROVE BurstBounded
  OBVIOUS
<1>1. /\ seen * Window \in Nat /\ (Window + elapsed) * MaxRequests \in Nat
      /\ (Window + 0) * MaxRequests = MaxTokens /\ 0 * Window = 0 /\ MaxTokens \in Nat
  BY Products, Gain, LimitAssumption DEF WindowInv, LimitAssumption
<1>2. CASE watched = Nothing
  BY <1>1, <1>2 DEF WindowInv, BurstBounded
<1>3. CASE watched # Nothing
  <2>1. Levels[watched] \in 0..MaxTokens
    BY <1>3, LevelsType DEF WindowInv
  <2> QED
    BY <1>1, <1>3, <2>1 DEF WindowInv, BurstBounded
<1> QED
  BY <1>2, <1>3

\* Every interval of time is bounded, whenever it starts: a bucket grants at
\* most max_requests calls and what it regains meanwhile (ratelimit.rs:86-132).
THEOREM BurstsAreBounded == WindowSpec => []BurstBounded
<1>1. WindowSpec => []WindowInv
  BY InitWindowInv, NextWindowInv, PTL DEF WindowSpec
<1> QED
  BY <1>1, InvBounds, PTL
==============================================================================
