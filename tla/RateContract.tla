----------------------------- MODULE RateContract ----------------------------
(***************************************************************************)
(* What a token-bucket rate limiter promises: every key has a bucket that  *)
(* starts full and gains RefillRate units at every tick, up to Cap; a call is  *)
(* granted exactly when the bucket of its key holds a whole token, and     *)
(* takes it. Buckets are filled as time passes, there is no last_refill,   *)
(* and nothing else, a look at the count included, touches them.           *)
(***************************************************************************)
EXTENDS Integers

CONSTANTS
  Functions,   \* names of the functions the limiter is woven into
  Global,      \* the key of the bucket all functions share
  Token,       \* units in one token
  RefillRate,  \* units a bucket gains at each tick
  Cap          \* units in a full bucket

VARIABLES
  perFunction, \* whether each function has a bucket of its own
  levels,      \* the units in each bucket
  answer       \* the limiter's answer to the last call since the last tick

contractVars == <<perFunction, levels, answer>>

Keys == Functions \cup {Global}

NoAnswer == [fn |-> Global, granted |-> FALSE]

KeyOf(f) == IF perFunction THEN f ELSE Global

ContractInit ==
  /\ perFunction = FALSE
  /\ levels = [k \in Keys |-> Cap]
  /\ answer = NoAnswer

GrantCall(f) ==
  /\ levels[KeyOf(f)] >= Token
  /\ levels' = [levels EXCEPT ![KeyOf(f)] = @ - Token]
  /\ answer' = [fn |-> f, granted |-> TRUE]
  /\ UNCHANGED perFunction

RefuseCall(f) ==
  /\ levels[KeyOf(f)] < Token
  /\ answer' = [fn |-> f, granted |-> FALSE]
  /\ UNCHANGED <<perFunction, levels>>

SeparateBuckets ==
  /\ perFunction' = TRUE
  /\ UNCHANGED <<levels, answer>>

TimePasses ==
  /\ levels' = [k \in Keys |->
                  IF levels[k] + RefillRate < Cap THEN levels[k] + RefillRate ELSE Cap]
  /\ answer' = NoAnswer
  /\ UNCHANGED perFunction

ContractNext ==
  \/ \E f \in Functions : GrantCall(f) \/ RefuseCall(f)
  \/ SeparateBuckets
  \/ TimePasses

ContractSpec == ContractInit /\ [][ContractNext]_contractVars
==============================================================================
