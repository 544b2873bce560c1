# A TLA+ verification project for aspect-rs

aspect-rs (the workspace under `src/`) brings aspect-oriented programming to
Rust: an *aspect* wraps the call of a function, and the wrapper decides whether
the function runs, and sees its result. Aspects are attached by an attribute
macro, by a registry at run time, or by a compiler driver. The aspects of
`aspect-std` that keep state (circuit breaker, rate limiter, metrics, timing)
are shared by all threads that call the functions they wrap.

This directory holds TLA+ models of that code, the TLC configurations that
check them, and proofs checked by TLAPS.

## 1. The system

| Component | State | Operations | Talks to |
|---|---|---|---|
| circuit breaker (`aspect-std/src/circuitbreaker.rs`) | phase of the circuit, deadline, two counters, half-open limit; one mutex, shared by clones | `around` (= `should_allow_request`, the call, `record_success` or `record_failure`), `reset`, `with_half_open_requests`, `state` | the wrapped function; other aspects stacked inside or outside |
| rate limiter (`aspect-std/src/ratelimit.rs`) | a token bucket, and one per function name; one mutex, shared by clones | `around` (= `try_acquire`, the call), `available_tokens`, `per_function` | same |
| registry (`aspect-runtime/src/registry.rs`) | a sorted vector of aspects under an RwLock | `register`, `find_matching`, `apply_aspects`, `count`, `clear` | pointcut matching; the aspects it runs |
| aspect and join point core (`aspect-core/src/{aspect,joinpoint,error}.rs`) | a join point: the rest of a call as a one-shot closure | `proceed`, default `around` (before, proceed, after or after_error), async variants | every aspect |
| `#[aspect]` weaving (`aspect-macros/src/{codegen,aspect_attr}.rs`) | none at run time; the wrapper's locals during a call | sync wrapper, two kinds of async wrapper, the decision between them | aspects, the renamed original function |
| `#[advice]` (`aspect-macros/src/advice_macro.rs`) | a Lazy registrar per advice function | registration when forced | the registry |
| metrics, timing (`aspect-std/src/{metrics,timing}.rs`) | counters and histograms under two mutexes; statistics under one | `around`, `clear`, readers | the wrapped function |
| authorization, audit (`aspect-std/src/authorization.rs`, `aspect-examples/src/security.rs`) | the roles required; the current user, one static for all threads | a check in `before` that panics; an audit before and after | whoever logs in and out |
| validation (`aspect-std/src/validation.rs`, `aspect-examples/src/validation.rs`) | a list of rules | rules before the call, checks in the function, a validator that hears of the result | the wrapped function |
| caching, logging (`aspect-std/src`) | configuration only | caching always proceeds, logging formats | the wrapped function |
| pointcut language (`aspect-core/src/pointcut`) | none | parse, match | registry |
| driver matching (`aspect-driver/src/{match,types}.rs`) | vector of registered aspects | register, match and sort by priority, a second pointcut parser | code generation |
| driver generation (`aspect-driver/src/generate.rs`) | none | a wrapper's text from the aspects that match | driver matching |
| driver extraction (`aspect-driver/src/{mir_analyzer,lib,extract,compiler}.rs`) | none | the functions of a crate, from the compiler's data; placeholders | rustc driver |
| rustc driver (`aspect-rustc-driver/src/{main,main_working}.rs`) | the configuration and the results of one run | command line, compiler run with or without the analysis, report | rustc |
| cargo-aspect (`cargo-aspect/src/main.rs`) | none | one command of cargo | cargo |
| transaction example (`aspect-examples/src/transaction.rs`) | a pool with one connection under a mutex, a transaction per call | begin, execute, commit, rollback, drop | its functions |
| user API example (`aspect-examples/src/api_server.rs`) | users by id under one mutex | get, list, post, delete | logging and timing aspects |
| other examples | counters in aspects built anew for each call | demonstration aspects | the macros |

### What is hard about each, and what makes it correct

* **Circuit breaker.** The mutex is free while the call runs, so a result is
  recorded in a circuit other than the one that admitted the call. Correct
  means: the counters count what they say whatever results arrive late; the
  circuit opens and closes only on results that earn it; while it is open
  nobody gets in and late results neither extend nor shorten the timeout; a
  healed service ends up behind a closed circuit.
* **Rate limiter.** Refilling is lazy, buckets appear on first use, the mode can
  be switched while calls run. Correct means: none of this can be told from
  buckets that are always there and fill as time passes; every interval of time
  is bounded, not only those that start with a full bucket; functions do not
  starve each other in per-function mode.
* **Registry.** Calls run a copy of the matching aspects while registrations and
  clears go on, also from inside the aspects. Correct means: nesting follows the
  order field, equal orders the registration; the function runs at most once; no
  aspect that was due is missed.
* **Weaving.** What is evaluated once and what on every call; which advice runs
  on which path (Ok, Err, panic, a dropped future); what the outer aspects of a
  stack see of the inner ones; which wrapper is generated for which way of
  naming an aspect. Correct means: advice is paired and agrees with what the
  caller gets; an aspect's `around` is called or the use is rejected.
* **Metrics, timing.** Counters are raised before the call and histograms after
  it, under two locks that clear takes one after the other; a panic skips what
  comes after. Correct means: what is kept agrees up to the calls in flight.
* **Pointcuts, driver.** Two parsers and two matchers for one language. Correct
  means: a text is read by the grammar, both read it alike, and a broken one is
  refused, also where the parsers take an index into characters for one into
  bytes; every aspect that the driver matches is called once in the code it
  generates, at its place, and later registrations only add to that code.
* **Advice registration.** The macro only takes a reference to a Lazy; whoever
  dereferences it runs the registration, threads wait for each other, a panic
  leaves it poisoned. Correct means: the aspect is around a call at most once,
  for the functions and in the order that the attribute gives.
* **Authorization, audit.** Each aspect of a stack reads the current user for
  itself. Correct means: no function runs unless each of its requirements was
  met during the call, and a user who stays decides alone.
* **Transactions.** The connection is locked to begin, free, locked by the
  function, free, and the transaction is settled after that; a panic poisons
  the lock. Correct means: the outcome is the function's, its statements stand
  together, and nothing is executed after those of a call that was cut short.
* **User API.** Arguments are checked long before the database is locked.
  Correct means: every successful delete removed a user that was there.
* **Validation.** Rules of the aspect and checks of the function decide one
  after the other. Correct means: the validator hears of success exactly when
  all of them accept.
* **Rustc driver, cargo-aspect.** Flags take the next word whatever it is;
  output may fail half way. Correct means: each word is used once, the report
  pairs pointcuts with the functions they are meant for, and the outcome is told
  as it is: written or not, analysed or not, failed or not.

The hazards in `PROJECT.json` list, line by line, what is hard to test and the
properties that cover it, or why none does yet.

## 2. The plan

Done, in the order in which it was built: `CircuitBreaker` with
`BreakerContract`; `RateLimit` with `RateContract` and `RateLimitWindow`; `Weave`;
`Registry`; `Measurement`; `Pointcut`, `PointcutText` and `DriverMatcher`;
`AdviceRegistration`, composed with `Registry`; `Transactions`, `Security` and
`UserApi`; `Validation`; `DriverWeave`, composed with `DriverMatcher`; `DriverRun`.
Each has its proofs (section 5). The last to be proved were those over sequences
of any length (registry, driver, timing), which rest on `SubsequenceProofs`, and
those over texts of any length (`PointcutText`).

Left, in this order:

1. `WovenStack`: breaker and limiter in one stack, in both orders: rejections of
   an inner limiter are failures for an outer breaker; in functions that do not
   return Result they are panics and nothing is recorded; the names under which
   per-function state is kept in a stack.
2. Two transactions of the example as one: what an abstract, isolated database
   promises and where the example, which settles outside of the lock, departs
   from it.
Runs use two or three threads, thresholds and limits of two or three, and two
or three ticks of time: the argument for each bound is in section 4.

## 3. The modules

### CircuitBreaker

One breaker, shared by the threads `Callers`. The variables are the fields of
`CircuitBreakerState`; `CircuitState::Open { until }` is `phase = "Open"` with
`remaining`, the ticks left until `until`. `pc` says where each caller is in
`around`: `idle`, `calling` (in `proceed`), or holding a result (`ok`, `err`)
that it has not recorded yet.

| Code | Action |
|---|---|
| `should_allow_request` (:160-180) | `Admit` (closed, half-open), `AdmitProbe` (open, deadline passed), `Reject` |
| `pjp.proceed()` (:188) | `Return` with either result, `Panic` |
| `record_success` (:107-130) | `RecordSuccess`: `SuccessInHalfOpen`, `SuccessInClosed`, `SuccessInOpen` |
| `record_failure` (:133-157) | `RecordFailure`: `FailureInHalfOpen`, `FailureInClosed`, `FailureInOpen` |
| `reset` (:99-104) | `Reset` |
| `with_half_open_requests` (:88-91) | `WithHalfOpenRequests`, at any time, since clones share the state |
| the clock | `Tick` |

Three variables are audit: `stale` (callers admitted before the latest phase
change), `failRun` and `okRun` (results recorded in a row). They follow the
results as an observer would see them and never look at the counters of the
code; properties compare the two. They saturate at `AuditCap`, which the
assumption puts above every threshold and limit.

`BreakerContract` is the abstract specification: phase, timer and the set of
callers inside, no counters. Under the mapping `busy <- InFlight` every step of
the breaker is a step of the contract or a stutter.

### RateLimit, RateContract, RateLimitWindow

A bucket is `[tokens, age]`: tokens in units of 1/Window token, and the time
since `last_refill`, which stops mattering at `Window`. A tick is worth
`MaxRequests` units, so the arithmetic is exact. `TryAcquire(f)` is `around` up
to the decision; the wrapped function runs after it and is not the limiter's
concern. The branch of `try_acquire` for a missing name is left out: `around`
always passes one, and nothing else in the crate passes `None`.

`RateContract` has one full bucket per key from the start, filled at every
tick. The refinement mapping gives a bucket the level it would have if refilled
now, and a function that has none yet a full one. The answer to the last call
is part of the state and forgotten at a tick, so that a wrong refusal would be
seen.

`RateLimitWindow` adds an observer that picks a bucket at any moment and counts
grants and ticks up to `Horizon`.

### Registry

`aspects` is the vector. A call is `find` (it has been made, `find_matching` has
not run yet), then `run`: `entered` is the stack of aspects whose `around` is
active, `pjp` the join point the innermost holds (the sequence of aspects still
to run; the empty sequence is the body), `unspent` whether it can still be
consumed. `Chain` is the loop of `apply_aspects` that wraps backwards, a recursive
function of the index, and `Matches` is the filter of `find_matching`.
An aspect with `advice` keeps the default `around` and always proceeds; any
other may return without proceeding. Since no lock is held while aspects run,
an aspect that registers or clears is the same as another thread doing so.

### AdviceRegistration

Extends `Registry`. `Written` are the arguments of each attribute, in order;
`ArgsOf` applies `ParseArgument` to them in turn, as the loop of `AdviceArgs::parse` does,
and `Accepted` says whether the macro expands at all. `registrar` is the state of
each Lazy:

| Code | Action |
|---|---|
| a first dereference of the static | `ForceRegistrar` |
| the pointcut is parsed and the aspect registered | `RegistrarRegisters` (a `RegisterAspect` of the registry) |
| `expect` on a pointcut that cannot be parsed | `RegistrarPanics`: poisoned for good |

Nothing in the repository dereferences the static, so `ForceRegistrar` may happen at any
time or never. `own` is audit: the numbers of the registrations made.

### Weave

The initial states are the functions and stacks that the macro accepts and the
compiler compiles; a function and its attributes then stay as they are. An
attribute is the trait its aspect implements, its `around` and the way it is
written; `Known` says what the macro can learn from that. `at` walks in through
the layers and back out, `result` is what the layer in between hands out:

| Code | Action |
|---|---|
| the wrapper is called | `Call` |
| `before`, from the wrapper or from the default `around` | `EnterAdvice` |
| a custom `around` up to `proceed` | `EnterAround` |
| a custom `around` that does not proceed | `ShortCircuit` |
| the renamed original | `Body` |
| `after`, `after_error` | `LeaveAdvice` |
| a custom `around` after `proceed`, and the conversion of its answer | `LeaveAround` |

Every step into user code may end the call: in a panic, or, at an await of an
async function, because the future is dropped. `given` and `bodies` are audit
variables. Join points carry no names and arguments, errors no text. Calls are
made one after the other: the wrapper's locals are not shared, and the aspects'
shared state is that of the other modules.

### Measurement

A `MetricsAspect` around a `TimingAspect`, as two attributes on a function make
it. A call goes through `entered` (clock started), `counted`, `running` (the
inner clock started), `timed` (the inner duration taken), `leaving` (recorded),
`elapsed` (the outer duration taken), and is pushed; each of the three mutexes is
taken in a step of its own, and so is each half of `MetricsAspect::clear`
(`ClearCounters`, `ClearHistograms`). `outer` and `inner` are the times since the
two starts. An absent map entry is one with nothing in it: the readers do not
tell them apart. In a stack the inner aspect is keyed by the renamed function;
the model calls both keys by one name. `pristine`, `panicked` and `straddling`
are audit.

### Transactions

A session is one call of a function under `TransactionalAspect`, by its stage:

| Code | Stage and action |
|---|---|
| `around` is entered and prints (:124-126) | `CallTransactional` |
| `POOL.lock()..get_connection()`, by aspect and function | `GetConnection`, twice |
| `conn.lock()..begin_transaction()` (:130) | `BeginTransaction`; the guard is gone at once |
| `conn.lock().unwrap()` in the function (:184) | `LockConnection` |
| `conn.execute(..)?` | `Execute`; the error is part of `ReturnFromBody` |
| `tx.commit()`, `tx.rollback()` | `Commit`, `Rollback` |
| the end of `around`, `Drop for Transaction` | `ReturnToCaller`, `Dropped` |
| a panic of `println!` or of `unwrap` | `TxPanic`; under the lock, which it poisons, `PanicWithLock` |

`journal` and `cut` are audit: the statements executed, and the calls cut short
among theirs. The commit of a transaction that was rolled back, which the code
refuses, is in `Commit` although no call gets there.

### Security

A function is the sequence of its requirements, outermost first, each with the
roles, whether all of them are needed, and whether somebody must be logged in
(the aspect of the example asks for that, the one of `aspect-std` sees the roles
that a provider returns, taken here to be those of the current user). `Passes`
and `IsDenied` are one `before` each, `AuditBefore`, `ProtectedBody` and
`AuditAfter` the rest of the call; `SetCurrentUser` and `ClearCurrentUser` happen
at any time. `present` is audit: everybody who was the current user in the call.

### Validation

A rule is the set of inputs it accepts (`NotEmptyValidator`, `RangeValidator`,
`CustomValidator`), and so is each check of the example's functions. A call goes
through the rules of the aspect, then, `entered`, through the function's checks,
and ends with what `ConstraintValidator` is told. The example puts only the
validator on its functions; the model adds the aspect of `aspect-std` between
the two, and its list of rules may be empty.

### UserApi

Each handler is split where it sleeps: before that it has checked its arguments
(`PostUser`, `GetUser`, ...), after it there is one operation under the mutex
(`InsertUser`, `RemoveUser`, `ReadUsers`). `accepted` and `removed` are audit.

### DriverWeave

Extends `DriverMatcher`. Code is the sequence of the statements of a wrapper:
`before` and `after` calls, the call of the renamed original, or, with an around,
the join point, what each around makes of it, and `proceed`. `CodeOf(f)` is what
`generate` makes of the latest answer of `match_function`. The text itself is not
meant to compile yet (`let pjp = A::new().around(pjp)?` rebinds a join point to a
result); the model has the calls in the order in which they are written.

### DriverRun

One run of a tool. The stages are those of `main`: `reading` the command line,
one word or flag after the other (`TakeVerbose`, `TakeValue`, `MissingValue`,
`PassOn`), `compiling`, `reporting`, `writing` the output file, `exited`. In
`main_working.rs` the compiler calls `AnalyzeCrate`; in `main.rs` it does not,
and there is no report. `Crate` are the items that rustc would list; where an
item stands in it is its source location, which tells it from all others.
`Meaning` is what the words of the command line are as pointcuts. The loops over
words, functions and names are recursive functions or `Only`, for the proofs.
The parts of a module path are namespaces, as `{:?}` prints them (`TypeNs`, see
`aspect-rustc-driver/analysis.txt`). `output` may hold the report of an earlier
run; each `writeln!` group of `write_output_file` is one `WritePart`, and
`OutputFails` may come before any of them. For cargo-aspect there is a command,
and the status that cargo returns.

Since the modules of a path are lost, a `within` pointcut works by the text of the
full name, which has no `crate` in front. `ChosenAsMeant` states what that gives:
`within(api)` is paired with every function of module `api`, and with no function
that lacks the text in its path. The second half needs `OnlyInNames`: a text that
is contained in what is put down for modules (`crate`, `TypeNs`, `::`) selects by
that. For the path written in full, `within(crate::api)`, the code does not do what
the book says (`WithinFindsTheModule`, run `driver_within`).

### Pointcut, PointcutText, DriverMatcher

`Pointcut` holds both parsers and both matchers, as operators. A text is a
sequence of tokens; `execution(..)`, `within(..)` and `name(..)` are one token
each, and an operator is another token with spaces around it than without,
since aspect-core knows only the former.

| Code | Operator |
|---|---|
| core `parse_pointcut` (`parser.rs:23-62`) | `CoreStep`: `StripOuterParens`, then !, `CoreSplit` at the first \|\|, at the first &&, `CoreLeaf` |
| core `parse_execution`, `parse_within` | `CoreLeaf`: what follows a name is not looked at, a path reaches to the last bracket |
| driver `parse_pointcut` (`match.rs:184-224`) | `DriverStep`: !, `DriverSplit` at &&, at \|\|, then brackets; `cut` is set when the closing bracket it removed was a pattern's own |
| driver `extract_pattern` | `DriverLeaf` |
| `Matcher for Pointcut`, `evaluate_pointcut` | `CoreMatches`, `DriverMatches` |

`CoreParse` and `DriverParse` are the recursive functions over texts whose values
these steps give: a step is one call, and takes what the calls it makes return as a
function. A tree (`Pointcut`, `PointcutExpr`) is the sequence of its nodes, an
operator before what it takes, and `Evaluate` reads it from its end; a parser that
fails gives no tree. Neither parsers nor trees need a RECURSIVE operator that way,
and the proofs can be about them.

Both `find_operator`s return an index into the characters of a text, and both
parsers cut its bytes there. `wide` is how many bytes a pattern has more than
characters, and each of them moves a cut behind it one byte to the front. By one
byte (`OneByteEarly`): the right side begins with the space of the operator or, in
the driver, with a part of it, and the left side lacks its last byte; aspect-core
then refuses it, unless that byte was the bracket of a signature, which it does not
look at, or a token of its own (`CoreLeft`). By more: the right side begins with a
part of the operator, and neither parser makes a tree of that (`CoreLeft`,
`DriverSplit`). A cut between the bytes of a character panics, and counts as a
refusal. All this is exact as long as a cut does not come out before the pattern
that it is behind, which takes more than ten bytes: hence `MaxWide` and
`MaxWideTokens`, at most eight bytes in a text.

An execution pattern ends with a signature, of which `anyArgs` says whether it is
`(..)`: the driver takes any other for a part of the name.

A pattern cut out askew (`Garbage`) contains a bracket, which no name or path
does, and matches nothing. Names and module paths are sequences of parts, so
that prefix and suffix are those of sequences.

`Subsequences` has `Only`, what a filter keeps of a sequence. Like the sort of the
driver and the loops of the registry it is a recursive function over the length,
which TLC evaluates and the proofs can be about.

`PointcutText` defines the grammar bottom-up, as the set of all well-formed texts
of each length with their meaning, and one action, `Write`, that puts a text
before the parsers. `DriverMatcher` has the vector `aspects`, and for each
function the latest answer of `match_function`, as positions in that vector. It does
not depend on how a pointcut is matched: that is its constant `Applies`, which the
configurations set to `DriverMatches`; `CrateFunctions` are the functions that are
matched.

### The instances

`MCCircuitBreaker` and `MCWeave` give constants their values. `MCPointcut` puts
`PointcutText`, `DriverWeave` and `DriverRun` side by side, and `MCAspects` the
registry with its advice functions, `Measurement`, `Transactions`, `Security`,
`Validation` and `UserApi`: a behaviour exercises one part, the others stay in
their initial states. Nothing connects the parts but that one run checks them.

## 4. The runs

| Run | Question | Bounds, and why they are enough |
|---|---|---|
| `breaker` | do the counters, the phase changes and the contract hold under all interleavings; do open periods end, does a healed service get a closed circuit? | three callers: one to hold a late success, one a late failure, one to probe; threshold 2, so that a run of failures can be interrupted; limits 0 to 3. Threshold 0 and timeout 0 are covered by the proofs, for the safety properties |
| `breaker_trial_limit`, `breaker_stale_recovery` | two comments of the source, refuted | the default limit 1 |
| `rate_contract` | can lazy refill, late buckets and the mode switch be observed; can one function starve another in per-function mode; is every interval bounded? | two functions, two tokens, a window of three ticks: fractions of a token occur; an observer over up to four ticks |
| `weave_safety` | is advice paired, does it agree with the caller's result, are limits kept, is an around the macro knows of ever skipped? | all kinds of function and attribute, stacks of up to three: an around between two pieces of advice; a limit of one call |
| `aspects_safety` | registry and advice: nesting, nothing due missed, each advice once; measurement: do counts, histograms and timing statistics agree; transactions, authorization, validation, users: section 1 | two callers, three registrations of two orders, so that orders are equal and an insertion is in the middle, by advice functions whose attributes are sound, unparsable and refused; two callers and two threads that clear, three calls of up to two ticks, 2^32 is 3 so that counts reach it; two clients and three transactions: two overlap and one comes after; one visitor (visitors only meet in the current user, which changes at will), three users, functions with up to two requirements in every mode; inputs on both sides of every limit; two handlers, two ids, four requests: a post and a delete race, and both come again |
| `advice_order` | a comment of the source, refuted | the same instance with an advice of order -1 |
| `pointcut_safety` | do the parsers follow the grammar, agree with each other, refuse broken texts; is every match woven once, and does later code extend it; does a tool do what its command line says, and say so? | every text of up to four tokens of four patterns and all other tokens, and every well-formed one of up to seven: `a \|\| b && c`, `(a) && (b)`, `(!a && b)`; one of the patterns is an `execution` with one byte more than characters and a signature of its own, so that texts with two of them and an operator behind either are among them (more bytes are refused like two, and covered by the proofs); three registrations of three names, two priorities and all types of advice; every command line of up to four words: two flags with values, or one as the value of another; a crate with modules, a nested function, a method |
| `pointcut_not`, `driver_sort` | two comments of the source, refuted | texts of up to four tokens; two registrations |
| `driver_within` | an example of the book, refuted | one flag and its value |
| `weave_inline` | the README, refuted | sync functions only |

### What each run checks

Besides the type invariant of its parts, each run checks the properties below;
its module states each in full, with the lines it is about.

| Run | Property | What it shows |
|---|---|---|
| `breaker` | `CountIsFailureRun`, `TrialsAreCounted` | the counters are those of the current phase: no failure of an earlier outage, no success of an earlier half-open period is counted |
| | `OpenAdmitsNobody` | whoever is in flight while the circuit is open came in before |
| | `TripIsEarned`, `RecoveryIsEarned` | the circuit opens on enough failures in a row, and closes on enough successes, or by hand |
| | `ImplementsContract` | it implements `BreakerContract`: late results do not move the end of an open period |
| | `OpenEnds`, `HealedServiceCloses` | open periods end; a service that is healed gets a closed circuit for good |
| `rate_contract` | `ImplementsContract` | it implements `RateContract`: refilling lazily cannot be told from refilling all the time |
| | `BurstBounded` | no interval grants more than a full bucket and what the interval refills |
| | `EveryFunctionServed` | a function with a bucket of its own is not starved by the others |
| `weave_safety` | `AdviceIsPaired`, `AdviceMatchesResult` | every before has one after or after_error, which agrees with what the caller gets; what cuts a call short cuts off the outer layers only |
| | `ResultIsTheBodys` | without other arounds, the caller gets the body's result or a limiter's error |
| | `KnownAroundIsCalled` | no around that the macro can find is skipped |
| | `LimitIsKept` | a limiter that outlives the call keeps its limit, wherever it is in the stack |
| `aspects_safety` | `LowerOrderWrapsHigher`, `NoDueAspectIsMissed` | calls are nested by order and registration, and registering or clearing meanwhile takes nothing from them |
| | `AdviceIsAppliedOnce` | an advice function is around a call at most once, however often it is forced |
| | `CountsAddUp`, `ExcessIsStale`, `TimingAgreesWithMetrics` | counters, histogram and timings agree up to the calls in flight and those that a clear met |
| | `OutcomeIsTheBodys`, `BodiesAreUndivided` | a transaction is settled as the function ended, whole, and not mixed with another |
| | `EveryRequirementWasMet`, `SteadyUserDecides` | nobody unauthorized runs a function, whoever logs in meanwhile; a user who stays decides, and is audited |
| | `SatisfiedIsTold` | an input is accepted exactly within the limits that the messages state |
| | `UsersAreAccounted` | posts and deletes that overlap are answered as what they did |
| `pointcut_safety` | `CoreReadsTheGrammar`, `ParsersAgree`, `AcceptedIsWellFormed` | aspect-core follows the grammar, and the driver does what aspect-core does, if operators have their spaces, none stands behind a ! or a pattern that is wider than its characters and, for the driver, && and \|\| are not in one group; whatever the text, neither accepts a broken one whose brackets match and whose operands are joined |
| | `EveryMatchIsWovenOnce`, `LaterCodeExtends` | the generated code calls each matched aspect once, in its place, and later registrations only add to it |
| | `CommandLineIsObeyed` | every word of a command line is used once; the report pairs the pointcuts, each as often as it was given, with the functions they are meant for |
| | `OutcomeIsTold` | "written" is said exactly if the file was asked for and holds the whole report, an error exactly if it does not; "SUCCESS" only of an analysis that was made in a run that did not fail; cargo-aspect succeeds exactly if cargo did |

The other runs each check one property, that of the divergence listed below.

The `MCPointcut` and `MCAspects` runs turn deadlock checking off: a text has been
read, a tool has exited, or all the requests that the bound allows have been made,
and nothing is left to do. No other run does. The breaker and limiter are bounded
by their own code; `AuditCap`, `Horizon`, `MaxRegistrations`, `MaxAny`,
`MaxGrammar`, `MaxWide`, `MaxWideTokens`, `MaxWords`, `MaxLayers`, `MaxCalls`,
`MaxDuration`, `MaxTransactions` and `MaxRequests` are the only artificial bounds.
`MCCircuitBreaker` and `MCAspects` define symmetry sets, used in runs without
liveness properties.

### Fairness

* `CircuitBreaker!Fairness`: time passes, and a thread that holds a result takes
  the mutex and records it (the mutex is held for a few assignments only).
  That callers keep calling and calls return is no promise of this code, so it
  is an antecedent of the two liveness properties, not part of `FairSpec`.
* `RateLimitWindow!FairSpec`: time passes. That the function in question keeps calling
  is an antecedent.
* The other modules are checked for safety only: what they start ends when user
  code, the compiler or another thread lets it, and none of them promises more.

### What the code does otherwise than its comments say

| Run | Source | Comment |
|---|---|---|
| `breaker_trial_limit` | `circuitbreaker.rs:165` admits every request in the half-open state | :28, :87 limit the number of requests |
| `breaker_stale_recovery` | `circuitbreaker.rs:112` counts any success, also of a call admitted before the circuit opened, and closes the circuit while the probe is running | :113 "after successful test" |
| `weave_inline` | `codegen.rs:127`, :170 build the aspect anew for each call | `README.md:63-64` |
| `pointcut_not` | `parser.rs:35-38` negates the whole rest of the text | :34 "highest precedence" |
| `advice_order` | `advice_macro.rs:45` takes `order = -1` for 0, a negative number being no literal | :18 "lower runs first", of an i32 |
| `driver_sort` | `match.rs:143-149` sorts by the first priority registered under the name | :57 "sorted by priority" |
| `driver_within` | `mir_analyzer.rs:113` puts down namespaces for modules, and the full name has no `crate::`: `within(crate::api)` selects nothing | `docs/book/src/ch10-phase3/pointcuts.md:68-69` gives it as the full path of a module whose functions are matched |

Without a run of its own: an aspect with an `around` on an async function is woven
as advice only, when the macro cannot find its type (`aspect_attr.rs:49`), and the
`around` is never called, while the error message for the types it finds says that
such a use is rejected (:52). `KnownAroundIsCalled` is about the types it finds.

## 5. The proofs

`CircuitBreakerProofs` proves, for every set of callers, every threshold,
timeout and set of half-open limits, from `ConfigAssumption` alone:

* `TypeCorrect`, `InvHolds`: the type invariant and the inductive invariant
  `Inv`;
* `CountIsExact`, `TrialsAreExact`, `OpenFailsFast`: its conjuncts, each a
  property the run `breaker` checks;
* `TripsAreEarned`, `RecoveriesAreEarned`: the action properties;
* `BreakerRefinesContract`: the breaker implements `BreakerContract`.

The argument: no conjunct of `Inv` is inductive alone. A failure that trips a
closed circuit leaves `success_count` untouched, and the next half-open period
would inherit it if `TrialsAreCounted` did not make it 0 there. The circuit
closes on a count of successes that is compared with `okRun`, which needs the
bound of the limits to exclude saturation. `OpenAdmitsNobody` needs
`stale \subseteq InFlight` when a caller leaves. The refinement needs
`TimerOnlyWhenOpen` for the clock. Each action has one step, each record of a
result a lemma of its own (`SuccessInv`, `FailureInv`).

`RateLimitProofs` proves, for every set of functions, every `max_requests` and
every positive window, from `LimitAssumption`:

* `TypeCorrect`: the type invariant;
* `LimiterRefinesContract`: the limiter implements `RateContract`.

The argument: the contract sees a bucket only through the level it would have
if it were refilled now (`TokensNow`). `RefillKeepsLevel` says that refilling
does not change that level, so it does not matter when the code refills;
`TakeFromRefilled` that a token is given exactly when the level allows one and
lowers it by one; `OlderLevel` that a tick adds one tick's worth to it, also
when a bucket has not been looked at for a whole window. The one nonlinear
term, `age * MaxRequests`, is confined to `Gain`. With these three lemmas every
action is a step of the contract.

It also proves, of `RateLimitWindow`, `BurstsAreBounded`, for observers of every
horizon. The bound itself is not inductive: `WindowInv` adds to the calls
granted what the watched bucket would hold now. A grant moves one token from the
second to the first, a tick adds at most `MaxRequests` to both sides, and at the
start the bucket is at most full.

`WeaveProofs` proves, for every set of functions and attributes, stacks of every
depth and every limit, from `WeaveAssumption`:

* `TypeCorrect`, `InvHolds`: the type invariant and the inductive invariant
  `Inv`;
* `AdvicePaired`, `AdviceMatches`, `ResultHandedOn`, `AroundCalled`,
  `LimitKept`: the safety properties that `weave_safety` checks on stacks of up
  to three.

The argument: the properties speak of calls that have ended, so `Inv` says what
a call in flight owes. `CallIsNested` is the shape of the log: the layers the
call is inside of are opened, the others closed or fresh, and a call that was
cut short leaves a prefix of opened layers behind. `ResultIsHeard` follows a
result on its way out past the advice since the last around, and needs that an
error occurs only where the function can return one. `ResultIsCarried` needs
that the body has not run while a call is on its way in. `BodiesAreAdmitted`
counts the call that is past a limiter and has not reached the body.

`SubsequenceProofs` is what the next proofs rest on: induction and recursion over
the natural numbers, and sequences in an order. The library's induction theorems
are about an operator, which no prover here can be given; but its theorem that
`<` is well-founded on `Nat` is not, and with the minimum of a non-empty set it
makes an induction about sets (`Induction`, `InductionTo`), and from that one
about recursive functions (`Recursion`). With them

* `OnlyEnumerates`: a filtered sequence is an enumeration of the places that are
  kept, in their order;
* `OrderedOnly`, `OrderedConcat`, `OrderedOnce`, `OrderedUnique`: order is kept by
  filters and by concatenation, an ordered sequence has no element twice, and
  there is one way to order a set. The order is a set of pairs, so that each
  component can have its own.

`RegistryProofs` proves, for every set of threads, aspects, functions and advice
attributes, from `RegistryAssumption` and `AdviceAssumption`:

* `ChainKeepsTheOrder` and `LastArgumentWins`: what the loops of `apply_aspects`
  and of `AdviceArgs::parse` compute, by induction over their rounds;
* `RegistryInvHolds`, `RegistryTypeCorrect`, `CallsAreNested`, `NoneIsMissed`,
  `AdviceOnce`.

The argument: `push` and the stable sort keep the vector in the order of `order`
and registration number (`PushKeepsOrder`), whatever was in it; a call copies the
part that matches, wraps it backwards and so nests it in the same order, and each
`proceed` takes the first of the rest. Both orders are one relation, under which
what is entered and what is still to come are one ordered sequence (`RegistryInv`).
An advice function is around a call once since a number is given to one
registration and a Lazy runs one.

`DriverProofs` proves, for every set of functions, offered aspects and pointcuts,
every `Applies`, and for every crate, pointcuts and command line, from
`MatcherAssumption` and `DriverRunAssumption`:

* `MatcherInvHolds`, `MatcherTypeCorrect`: an answer of the matcher holds aspects
  that apply, in the order of the priorities of their names;
* `EveryMatchWoven`: of the code generated from it, what `EveryMatchIsWovenOnce` says;
* `LaterExtends`: of any two answers to the same question, the action property
  `LaterCodeExtends`;
* `RunInvHolds`, `OutcomeIsTrue`: what a tool says of its outcome is what has come
  out (`OutcomeIsTold`);
* `LineInvHolds`, `RunTypeCorrect`, `CommandLineObeyed`: of a command line and a
  crate of any length, what `CommandLineIsObeyed` says.

The argument: the sort is an insertion sort over an order of priority, then
registration (`Ahead`), and puts it in this order by induction. The statements of a
body are ordered too, befores first, each kind by `Ahead` or, for arounds, against
it (`InCode`): an ordered sequence has no element twice, so each aspect is called
once; its place can be read from the order; and since there is one way to order
the statements that two versions of the code share, the later code keeps the
earlier calls in their order (`OrderedUnique`). The order may not change between
the two versions: the first aspect of a name stays the first (`LaterKeepsPriority`).
A run's `RunInv` follows the parts of the report into the file, and says what has
been said at each stage: a run that has an output file to write and has exited well
has said one thing or the other of it, and a part that is missing makes the file
differ from the report.

For the command line, `LineInv` says that the word that is read next is not the
value of a flag, and that the words before it are where they belong. That the run
and the property agree on what a value is rests on counting the flags before a word
(`FlagsAreCounted`): the word after a flag is a value just if the flag is not one
itself (`ValueAfter`). The list of pairs is followed pointcut by pointcut
(`MatchedAsOften`), and a module's name is what the names in it begin with
(`FirstNamesBegin`), so that `within` finds what is in the module. What else it
selects has the text in its path, since in the namespaces it is not (`OnlyInNames`).

`PointcutProofs` proves, for every set of patterns and functions and for texts up to
every bound on their length, from `PatternAssumption` and `TextAssumption`:

* `GrammarIsRead`, `ReadersAgree`, `NothingElseIsRead`: what `CoreReadsTheGrammar`,
  `ParsersAgree` and `AcceptedIsWellFormed` say, from `TextInv`; the first two with
  the provisos of these properties, so of patterns of any characters as long as no
  operator follows one that has more bytes than characters, the third of all texts;
* `TextTypeCorrect`, and of the common instance `MCPointcut` `ToolsBehave`: each part
  behaves as its module says, and so `ToolsTyped`: `TypeOK`.

The argument: `TextInv` says that what was written is a reading of the grammar, or
has no meaning and is no text of the grammar. `RecursionBySize` and `InductionBySize`
carry recursion and induction from numbers to whatever has a size; texts have their
lengths, so the parsers compute what their steps say (`CoreRules`, `DriverRules`).
The grammar, defined bottom-up by length, is shown to be what its rules say
(`RulesAre`), with induction on them (`ReadingsInduction`).

What a parser does to a text depends on where its operators are outside of brackets,
and that on the depths of its parts (`DepthJoined`, `DepthFollowed`): texts of the
grammar are balanced (`ShapesAre`), so their outer operators are those that the rules
put there, and the brackets that `StripOuterParens` removes belong together
(`JoinIsNotStripped`). The parsers cut at the first operator, where the grammar takes
the left operand to be as short as possible, so both cut at one place (`JoinsAre`,
`CoreReadsJoin`). So `CoreReads` is by induction on the rules.

Behind a ! both parsers read all that follows, the grammar only the next operand, so
`ParsersAgreeOnTexts` cannot go by the rules. It is by length, and needs that what
follows a ! in a text of the grammar is one too (`Negated`), and that any other has
an operator where both cut it, or none (`FormOfText`). In the other direction,
`AcceptedTexts` puts what a parser accepts together from accepted parts, at whatever
operator it has cut and behind any !: `OrJoins`, `AndJoins` and `Negatable` say that
this gives texts of the grammar, since operators can be grouped to the right or to the
left (`JoinsRight`, `JoinsLeft`). That no operands stand side by side is needed where
a text without outer operators begins with a bracket: that one is then closed by
the last (`OuterBrackets`). A cut of aspect-core that comes out one byte early may
have taken a bracket from the left side. That what is left is then refused follows
from what it accepts: a text that ends with a closing bracket, its own or a
pattern's, and leaves none open (`CoreCloses`), so the left side is accepted only
if nothing but the bracket of a signature is missing, and then as it would have
been whole (`LeftIsAccepted`).

`AspectProofs` proves, of `Measurement`, for every set of functions, every finite
set of callers, any number of clearing threads and every bound:

* `InvHolds`, `CountsAgree` and `ExcessStraddles`, from the inductive invariant
  `Inv`;
* `TimingInvHolds` and `TimingsAgree`, from `TimingInv`;
* `TypeCorrect`.

The argument: `CallsAreAccounted` says of the calls in flight alone what
`ExcessIsStale` says of the histogram, since between the two locks of a clear the
histogram may hold anything; when the second half empties it, the first half of
the conjunct becomes the second. The calls in flight are a set of callers, whose
size changes by one where a call is counted and where it ends
(`CountedInFlight`, `EndedInFlight`). `TimingInv` compares the statistics with the
histogram and with the calls that are in the one and not yet in the other
(`Timed`); their durations are summed along a numbering of the callers
(`CallerAt`), and a sum changes with its summand (`SumOfChanged`, by induction).
The average needs that the total lies between count times minimum and count times
maximum (`Averages`). For the types, `InNumber` keeps room, at each stage of a
call, for what the call may still add to the counters.

Of `Security`, for every set of visitors, users, roles and protected functions, from
`SecurityAssumption`:

* `SecTypeCorrect`, `RequirementsWereMet` and `OneUserDecides`, from `SecInv`.

The argument: `AuthorizedMeets` says once that both `check_authorization`s decide
as the sets of roles do. `ChecksHold` keeps, for a call on its way in, that each
check it has passed was met by somebody present, which only grows; a call runs
when it has passed all. `SteadySoFar` is `SteadyUserDecides` with what a call in
flight owes: what its audit has heard at each stage.

Of `Transactions`, for any number of clients and calls, from
`TransactionsAssumption`:

* `TxTypeCorrect`, `OutcomesAreTheBodys` and `StatementsStandTogether`, from `TxInv`.

The argument: the pool never has more than one connection (`Types`), so the lock
of a function is the lock of everybody. `BodiesAreUndivided` speaks of the
journal only; to append to it, `LockHolds` says that whoever is in its body holds
the lock, that its statements are the last ones of the journal, and that a call
which was cut short has left the lock poisoned. `NumbersDiffer` tells the calls
apart. `SessionHolds` follows the transaction through the stages.

Of `UserApi`, `UsersAccounted` and `ApiTypeCorrect`, for any number of handlers,
ids and requests, from `UserApiAssumption`. `ApiInv` adds that each id has at most
one user and that what is about to be inserted has been checked, `IdsAgree` that it
has the id it is inserted under.

Of `Validation`, `ValTypeCorrect` and `SatisfiedIsTrue`, for every set of inputs and
every lists of rules, from `ValidationAssumption`. `ValInv` says how far a call has
come in the two lists that it walks one after the other; `OwnChecksAreTheLimits`
that the checks the functions are written with are the limits their messages state.

Of the common instance `MCAspects`, `PartsBehave`: each part behaves as its module
says, so that the theorems above hold there, and `AspectsTyped`: `AspectsTypeOK`.

Only model-checked:

* liveness (`OpenEnds`, `HealedServiceCloses`, `EveryFunctionServed`): it depends on
  fairness and ENABLED, which the provers do not reason about.

Every other property of a passing run, invariant or action property, is a theorem.

## 6. What is not modelled

The composition of breaker and limiter in one stack is planned (section 2). Left
out for good:

* `aspect-driver/src/{lib,extract,compiler}.rs` beyond what `mir_analyzer.rs` has
  taken over: their functions return fixed or empty answers until they are
  integrated with rustc; `transform_mir` is a placeholder too.
* rustc itself, clap and cargo: what they do to the state of the modules here is
  an action with every outcome.
* The caching and logging aspects and the remaining examples: nothing they keep
  outlives a call or reaches a decision.
* Formatting and printing, except that printing may panic in `Transactions` and
  `Security`; f64 rounding; the overflow of `Instant + timeout`; source locations,
  return types and `async` in the driver, which reach no decision.
* The line that `TimingAspect` prints after it has recorded a call: a panic in that
  print would leave a call in the statistics that the metrics never measure, and
  `TimingAgreesWithMetrics` is about calls that do not end that way.
* The order in which the repository's README lists stacked aspects (:220), which is
  not the one in which they run: `Weave` nests as `codegen.rs` does, and no
  property speaks of that text.
* A second panic while the first unwinds (`Drop for Transaction` prints), which
  aborts the process.

Operators marked "Mutant" in the modules are variants of the definition that
follows them, each a plausible slip in that code; `PROJECT.json` pairs them
with the properties they break.
