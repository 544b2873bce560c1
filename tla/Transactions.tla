----------------------------- MODULE Transactions -----------------------------
(***************************************************************************)
(* aspect-examples/src/transaction.rs: TransactionalAspect begins a        *)
(* transaction on a connection of the pool, lets the function run, and     *)
(* commits or rolls back. The pool has one connection for everybody. The   *)
(* aspect locks it to begin and lets go; the function takes it from the    *)
(* pool once more and keeps it locked for all of its statements.           *)
(*                                                                         *)
(* Whoever prints may panic: println! does when it cannot write. A panic   *)
(* under the connection's lock poisons it, and each lock().unwrap() after  *)
(* that panics as well.                                                    *)
(***************************************************************************)
EXTENDS Integers, Sequences

CONSTANTS
  Clients,         \* threads that call the transactional functions
  Nobody,          \* the holder of a lock that is free
  MaxTransactions  \* bound on the calls

ASSUME TransactionsAssumption == Nobody \notin Clients /\ MaxTransactions \in Nat

VARIABLES
  connections,  \* the connections of the pool
  sessions,     \* what each client's latest call is doing, or what came of it
  begun,        \* calls so far; numbers them
  journal,      \* audit: the statements executed, each with its call and connection
  cut           \* audit: calls cut short by a panic after some of their statements

txVars == <<connections, sessions, begun, journal, cut>>

-----------------------------------------------------------------------------
(* The functions: so many statements, then their result. *)

TransferMoney == [statements |-> 2, ends |-> "ok"]
CreateUserWithAccount == [statements |-> 2, ends |-> "ok"]
FailingOperation == [statements |-> 1, ends |-> "err"]

Operations == {TransferMoney, CreateUserWithAccount, FailingOperation}

NewConnection == [holder |-> Nobody, poisoned |-> FALSE, in_transaction |-> FALSE]

\* "begin" and "lock": the aspect and the function have taken the connection
\* from the pool and are to lock it; "begun": the aspect proceeds; "body": the
\* function has the lock; "proceeded": it has returned; "settled": the aspect
\* has committed or rolled back.
TxStages == {"called", "begin", "begun", "lock", "body", "proceeded", "settled"}

\* conn is the connection in hand, `on` the one the transaction was begun on.
Session(op, id, stage) ==
  [stage |-> stage, op |-> op, id |-> id, conn |-> 0, on |-> 0,
   tx |-> "none", done |-> 0, body |-> "none", result |-> "none"]

TxInit ==
  /\ connections = << >>
  /\ sessions = [c \in Clients |-> Session(TransferMoney, 0, "idle")]
  /\ begun = 0
  /\ journal = << >>
  /\ cut = {}

SessionAt(c, stage) == sessions[c].stage = stage
InHand(c) == connections[sessions[c].conn]
CanLock(c) == InHand(c).holder = Nobody

-----------------------------------------------------------------------------
(* A call *)

CallTransactional(c, op) ==
  /\ sessions[c].stage \in {"idle", "over"}
  /\ begun < MaxTransactions
  /\ begun' = begun + 1
  /\ sessions' = [sessions EXCEPT ![c] = Session(op, begun + 1, "called")]
  /\ UNCHANGED <<connections, journal, cut>>

\* Mutant: the pool makes a new connection every time.
GetNewConnection(c, from, to) ==
  /\ SessionAt(c, from)
  /\ connections' = Append(connections, NewConnection)
  /\ sessions' = [sessions EXCEPT ![c].stage = to, ![c].conn = Len(connections) + 1]
  /\ UNCHANGED <<begun, journal, cut>>

\* POOL.lock().unwrap().get_connection(): nothing panics under this lock.
GetConnection(c, from, to) ==
  /\ SessionAt(c, from)
  /\ connections' = IF connections = << >> THEN <<NewConnection>> ELSE connections
  /\ sessions' = [sessions EXCEPT ![c].stage = to, ![c].conn = 1]
  /\ UNCHANGED <<begun, journal, cut>>

\* conn.lock().unwrap().begin_transaction(): the guard is a temporary.
BeginTransaction(c) ==
  /\ SessionAt(c, "begin")
  /\ CanLock(c) /\ ~InHand(c).poisoned
  /\ connections' = [connections EXCEPT ![sessions[c].conn].in_transaction = TRUE]
  /\ sessions' = [sessions EXCEPT ![c].stage = "begun", ![c].tx = "open",
                                  ![c].on = sessions[c].conn]
  /\ UNCHANGED <<begun, journal, cut>>

\* Mutant: the function does not mind a poisoned lock.
LockPoisoned(c) ==
  /\ SessionAt(c, "lock")
  /\ CanLock(c)
  /\ connections' = [connections EXCEPT ![sessions[c].conn].holder = c]
  /\ sessions' = [sessions EXCEPT ![c].stage = "body"]
  /\ UNCHANGED <<begun, journal, cut>>

LockConnection(c) ==
  /\ SessionAt(c, "lock")
  /\ CanLock(c) /\ ~InHand(c).poisoned
  /\ connections' = [connections EXCEPT ![sessions[c].conn].holder = c]
  /\ sessions' = [sessions EXCEPT ![c].stage = "body"]
  /\ UNCHANGED <<begun, journal, cut>>

Execute(c) ==
  /\ SessionAt(c, "body")
  /\ sessions[c].done < sessions[c].op.statements
  /\ InHand(c).in_transaction
  /\ journal' = Append(journal, [call |-> sessions[c].id, on |-> sessions[c].conn])
  /\ sessions' = [sessions EXCEPT ![c].done = @ + 1]
  /\ UNCHANGED <<connections, begun, cut>>

\* After its statements; or before, if execute finds no transaction.
ReturnFromBody(c) ==
  /\ SessionAt(c, "body")
  /\ \E r \in {"ok", "err"} :
       /\ IF sessions[c].done = sessions[c].op.statements
          THEN r = sessions[c].op.ends
          ELSE ~InHand(c).in_transaction /\ r = "err"
       /\ sessions' = [sessions EXCEPT ![c].stage = "proceeded", ![c].body = r]
  /\ connections' = [connections EXCEPT ![sessions[c].conn].holder = Nobody]
  /\ UNCHANGED <<begun, journal, cut>>

\* Transaction::commit refuses one that was rolled back, and the reverse.
Commit(c) ==
  /\ SessionAt(c, "proceeded")
  /\ sessions[c].body = "ok"
  /\ LET refused == sessions[c].tx = "rolled back"
     IN  sessions' = [sessions EXCEPT ![c].stage = "settled",
                        ![c].tx = IF refused THEN @ ELSE "committed",
                        ![c].result = IF refused THEN "err" ELSE "ok"]
  /\ UNCHANGED <<connections, begun, journal, cut>>

\* Mutant: an error is settled like a success.
CommitAnError(c) ==
  /\ SessionAt(c, "proceeded")
  /\ sessions[c].body = "err"
  /\ sessions' = [sessions EXCEPT ![c].stage = "settled",
                    ![c].tx = "committed", ![c].result = "err"]
  /\ UNCHANGED <<connections, begun, journal, cut>>

Rollback(c) ==
  /\ SessionAt(c, "proceeded")
  /\ sessions[c].body = "err"
  /\ sessions' = [sessions EXCEPT ![c].stage = "settled",
                    ![c].tx = IF @ = "committed" THEN @ ELSE "rolled back",
                    ![c].result = "err"]
  /\ UNCHANGED <<connections, begun, journal, cut>>

\* A Transaction that is dropped open rolls back.
Dropped(tx) == IF tx = "open" THEN "dropped" ELSE tx

ReturnToCaller(c) ==
  /\ SessionAt(c, "settled")
  /\ sessions' = [sessions EXCEPT ![c].stage = "over", ![c].tx = Dropped(@)]
  /\ UNCHANGED <<connections, begun, journal, cut>>

-----------------------------------------------------------------------------
(* Panics: the call is over, its transaction is dropped. A second panic, of *)
(* the drop that prints, would abort the program and is left out.           *)

CallPanics(c) ==
  sessions' = [sessions EXCEPT ![c].stage = "over", ![c].tx = Dropped(@),
                               ![c].result = "panic"]

\* While printing; or of unwrap, on a lock that is poisoned.
TxPanic(c) ==
  /\ \/ sessions[c].stage \in {"called", "begun", "proceeded"}
     \/ SessionAt(c, "settled") /\ sessions[c].tx = "committed"
     \/ sessions[c].stage \in {"begin", "lock"} /\ CanLock(c) /\ InHand(c).poisoned
  /\ CallPanics(c)
  /\ UNCHANGED <<connections, begun, journal, cut>>

\* While printing in begin_transaction or in the function.
PanicWithLock(c) ==
  /\ \/ SessionAt(c, "begin") /\ CanLock(c) /\ ~InHand(c).poisoned
     \/ SessionAt(c, "body")
  /\ connections' = [connections EXCEPT ![sessions[c].conn].poisoned = TRUE,
                                        ![sessions[c].conn].holder = Nobody]
  /\ cut' = IF sessions[c].done > 0 THEN cut \cup {sessions[c].id} ELSE cut
  /\ CallPanics(c)
  /\ UNCHANGED <<begun, journal>>

TxStep(c) ==
  \/ GetConnection(c, "called", "begin") \/ BeginTransaction(c)
  \/ GetConnection(c, "begun", "lock") \/ LockConnection(c)
  \/ Execute(c) \/ ReturnFromBody(c)
  \/ Commit(c) \/ Rollback(c) \/ ReturnToCaller(c)

TxNext ==
  \E c \in Clients :
    \/ \E op \in Operations : CallTransactional(c, op)
    \/ TxStep(c) \/ TxPanic(c) \/ PanicWithLock(c)

TxSpec == TxInit /\ [][TxNext]_txVars

-----------------------------------------------------------------------------
(* Safety *)

TxTypeOK ==
  /\ connections \in Seq([holder : Clients \cup {Nobody}, poisoned : BOOLEAN,
                          in_transaction : BOOLEAN])
  /\ Len(connections) <= 1
  /\ sessions \in [Clients ->
       [stage : TxStages \cup {"idle", "over"}, op : Operations, id : Nat,
        conn : {0, 1}, on : {0, 1},
        tx : {"none", "open", "committed", "rolled back", "dropped"},
        done : 0..2, body : {"none", "ok", "err"},
        result : {"none", "ok", "err", "panic"}]]
  /\ begun \in Nat
  /\ journal \in Seq([call : Nat, on : {1}])
  /\ cut \subseteq Nat

\* A call that has ended has left no transaction open: it is committed if the
\* function returned Ok and rolled back if it returned an error, and the caller
\* is told so, unless the call panicked. What is committed is whole: all the
\* statements, on the connection on which the transaction was begun
\* (transaction.rs:124-170, :66-72).
OutcomeIsTheBodys ==
  \A c \in Clients : SessionAt(c, "over") =>
    LET s == sessions[c] IN
    /\ s.result = "ok" => s.tx = "committed"
    /\ s.result = "err" => s.tx = "rolled back"
    /\ s.tx # "open"
    /\ s.tx = "committed" =>
         /\ s.op.ends = "ok" /\ s.done = s.op.statements
         /\ \A i \in 1..Len(journal) : journal[i].call = s.id => journal[i].on = s.on

\* The statements of a call are not mixed with those of another, though the
\* transactions overlap; and after a call that a panic cut short between its
\* statements nothing more is executed (transaction.rs:182-183, :209-210).
BodiesAreUndivided ==
  \A i, j \in 1..Len(journal) : i < j /\ journal[i].call # journal[j].call =>
    /\ journal[i].call \notin cut
    /\ \A k \in j..Len(journal) : journal[k].call # journal[i].call
===============================================================================
