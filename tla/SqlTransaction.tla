--------------------------- MODULE SqlTransaction ---------------------------
(***************************************************************************)
(* One transaction at a time on each MySQL connection:                     *)
(*   database/Database/MySQLConnection.cpp  ExecuteTransaction, Execute,   *)
(*                                          _HandleMySQLErrno              *)
(*   database/Database/Transaction.cpp      TransactionTask::Execute       *)
(*   database/Database/DatabaseWorkerPool.cpp DirectCommitTransaction      *)
(*                                                                         *)
(* ExecuteTransaction sends START TRANSACTION, the statements and COMMIT,  *)
(* or ROLLBACK after a statement that fails.  A deadlock is retried: by an *)
(* asynchronous worker under _deadlockLock until a minute has passed, by   *)
(* DirectCommitTransaction up to five times.  A lost connection is         *)
(* reopened below all of this, inside Execute, which then sends the same   *)
(* SQL again.  Of the results only those of the statements are looked at:  *)
(* START TRANSACTION, COMMIT and ROLLBACK may fail without anybody's       *)
(* noticing.                                                               *)
(*                                                                         *)
(* The MySQL server is external: per session whether a transaction is open *)
(* and the statements in it, and one log of the statements that are        *)
(* durable.  A session that is lost is rolled back, and what it was about  *)
(* to execute may or may not have been executed.  A statement is the pair  *)
(* of its transaction and its position.                                    *)
(***************************************************************************)
EXTENDS Naturals, Sequences, FiniteSets

CONSTANTS AsyncConns,     \* connections of the worker threads
          SynchConns,     \* connections of DirectCommitTransaction
          Txs,            \* the transactions to be executed
          Size,           \* the number of statements of each
          Null,
          LoopBreaker,    \* DirectCommitTransaction: 5
          Attempts,       \* _HandleMySQLErrno: 5
          MaxDeadlocks,   \* bounds: deadlocks, statements the server refuses
          MaxRefusals,    \* connections lost, and transactions whose START
          MaxLosses,      \* TRANSACTION or COMMIT the server refuses
          MaxIgnored

Conns == AsyncConns \cup SynchConns

ASSUME ConnsAssumption ==
    /\ AsyncConns \cap SynchConns = {}
    /\ Null \notin Conns \cup Txs
ASSUME SizesAssumption ==
    /\ Size \in [Txs -> Nat]
    /\ LoopBreaker \in Nat \ {0} /\ Attempts \in Nat \ {0}
    /\ MaxDeadlocks \in Nat /\ MaxRefusals \in Nat /\ MaxLosses \in Nat
    /\ MaxIgnored \in Nat

VARIABLES open,       \* server: the session is inside a transaction
          work,       \* server: the statements of that transaction
          durable,    \* server: the statements committed, in commit order
          faults,     \* deadlocks, refusals and losses so far, and for which
                      \* transactions an error of "begin" or "commit" was ignored
          pc, tx, at, \* what a connection does, for which transaction, and
                      \* which statement is next
          err,        \* the error code of this attempt
          retries,    \* attempts after the first one
          lock,       \* the holder of _deadlockLock
          handle,     \* m_Mysql is not null
          recon,      \* attempts left in _HandleMySQLErrno, 0 outside it
          outcome,    \* per transaction: "none", "ok" or "failed"
          aborted     \* the process has called ABORT

serverVars == <<open, work, durable>>
vars == <<serverVars, faults, pc, tx, at, err, retries, lock, handle, recon,
          outcome, aborted>>

Init ==
    /\ open = [c \in Conns |-> FALSE]
    /\ work = [c \in Conns |-> <<>>]
    /\ durable = <<>>
    /\ faults = [deadlock |-> 0, refusal |-> 0, loss |-> 0, ignored |-> {}]
    /\ pc = [c \in Conns |-> "idle"]
    /\ tx = [c \in Conns |-> Null]
    /\ at = [c \in Conns |-> 1]
    /\ err = [c \in Conns |-> "none"]
    /\ retries = [c \in Conns |-> 0]
    /\ lock = Null
    /\ handle = [c \in Conns |-> TRUE]
    /\ recon = [c \in Conns |-> 0]
    /\ outcome = [t \in Txs |-> "none"]
    /\ aborted = FALSE

Goto(c, label) == pc' = [pc EXCEPT ![c] = label]
Sql == {"begin", "stmt", "commit", "rollback"}
\* The connection sends its next piece of SQL.
Sends(c, label) == ~aborted /\ pc[c] = label /\ recon[c] = 0 /\ handle[c]
Count(f) == faults' = [faults EXCEPT ![f] = @ + 1]

\* Execute returns false to a caller that does not look.
Ignore(c, sql) ==
    /\ Cardinality(faults.ignored) < MaxIgnored
    /\ faults' = [faults EXCEPT !.ignored = @ \cup {<<tx[c], sql>>}]

-----------------------------------------------------------------------------
(* The server. *)

\* START TRANSACTION; what is still open is committed first.
ServerBegin(c) ==
    /\ open' = [open EXCEPT ![c] = TRUE]
    /\ work' = [work EXCEPT ![c] = <<>>]
    /\ durable' = durable \o work[c]

\* A statement joins the open transaction, or commits by itself (autocommit).
ServerExecute(c, s) ==
    /\ work' = IF open[c] THEN [work EXCEPT ![c] = Append(@, s)] ELSE work
    /\ durable' = IF open[c] THEN durable ELSE Append(durable, s)
    /\ UNCHANGED open

ServerCommit(c) ==
    /\ durable' = durable \o work[c]
    /\ open' = [open EXCEPT ![c] = FALSE]
    /\ work' = [work EXCEPT ![c] = <<>>]

ServerRollback(c) ==
    /\ open' = [open EXCEPT ![c] = FALSE]
    /\ work' = [work EXCEPT ![c] = <<>>]
    /\ UNCHANGED durable

-----------------------------------------------------------------------------
(* MySQLConnection::ExecuteTransaction. *)

\* A worker takes the task, or DirectCommitTransaction gets a free connection.
\* An empty transaction returns -1 before anything is sent.
Start(c, t) ==
    /\ ~aborted
    /\ pc[c] = "idle" /\ outcome[t] = "none"
    /\ \A d \in Conns : tx[d] # t
    /\ tx' = [tx EXCEPT ![c] = t]
    /\ retries' = [retries EXCEPT ![c] = 0]
    /\ err' = [err EXCEPT ![c] = IF Size[t] = 0 THEN "other" ELSE "none"]
    /\ Goto(c, IF Size[t] = 0 THEN "return" ELSE "begin")
    /\ UNCHANGED <<serverVars, faults, at, lock, handle, recon, outcome, aborted>>

Begin(c) ==
    /\ Sends(c, "begin")
    /\ ServerBegin(c)
    /\ at' = [at EXCEPT ![c] = 1]
    /\ Goto(c, "stmt")
    /\ UNCHANGED <<faults, tx, err, retries, lock, handle, recon, outcome, aborted>>

\* START TRANSACTION is refused: the statements that follow commit one by one.
BeginRefused(c) ==
    /\ Sends(c, "begin")
    /\ Ignore(c, "begin")
    /\ at' = [at EXCEPT ![c] = 1]
    /\ Goto(c, "stmt")
    /\ UNCHANGED <<serverVars, tx, err, retries, lock, handle, recon, outcome, aborted>>

AfterStatement(c) == IF at[c] = Size[tx[c]] THEN "commit" ELSE "stmt"

Statement(c) ==
    /\ Sends(c, "stmt")
    /\ ServerExecute(c, <<tx[c], at[c]>>)
    /\ at' = [at EXCEPT ![c] = @ + 1]
    /\ Goto(c, AfterStatement(c))
    /\ UNCHANGED <<faults, tx, err, retries, lock, handle, recon, outcome, aborted>>

\* ER_LOCK_DEADLOCK: the server has rolled the whole transaction back.
Deadlock(c) ==
    /\ Sends(c, "stmt")
    /\ faults.deadlock < MaxDeadlocks
    /\ \E d \in Conns \ {c} : work[d] # <<>>
    /\ Count("deadlock")
    /\ ServerRollback(c)
    /\ err' = [err EXCEPT ![c] = "deadlock"]
    /\ Goto(c, "rollback")
    /\ UNCHANGED <<tx, at, retries, lock, handle, recon, outcome, aborted>>

\* Mutant of Refusal: the failed statement is skipped and the loop goes on.
SkipRefused(c) ==
    /\ Sends(c, "stmt")
    /\ faults.refusal < MaxRefusals
    /\ Count("refusal")
    /\ at' = [at EXCEPT ![c] = @ + 1]
    /\ Goto(c, AfterStatement(c))
    /\ UNCHANGED <<serverVars, tx, err, retries, lock, handle, recon, outcome, aborted>>

\* Mutant of Refusal: the transaction is left open.
LeaveOpen(c) ==
    /\ Sends(c, "stmt")
    /\ faults.refusal < MaxRefusals
    /\ Count("refusal")
    /\ err' = [err EXCEPT ![c] = "other"]
    /\ Goto(c, "return")
    /\ UNCHANGED <<serverVars, tx, at, retries, lock, handle, recon, outcome, aborted>>

\* Any other error of a statement (ER_DUP_ENTRY, ...): the transaction stays
\* open on the server until ROLLBACK.
Refusal(c) ==
    /\ Sends(c, "stmt")
    /\ faults.refusal < MaxRefusals
    /\ Count("refusal")
    /\ err' = [err EXCEPT ![c] = "other"]
    /\ Goto(c, "rollback")
    /\ UNCHANGED <<serverVars, tx, at, retries, lock, handle, recon, outcome, aborted>>

\* ER_BAD_FIELD_ERROR, ER_NO_SUCH_TABLE, ER_PARSE_ERROR: ABORT.
FatalError(c) ==
    /\ Sends(c, "stmt")
    /\ faults.refusal < MaxRefusals
    /\ Count("refusal")
    /\ aborted' = TRUE
    /\ UNCHANGED <<serverVars, pc, tx, at, err, retries, lock, handle, recon, outcome>>

\* Mutant of Rollback: the error code is read after ROLLBACK has succeeded.
CodeAfterRollback(c) ==
    /\ Sends(c, "rollback")
    /\ ServerRollback(c)
    /\ err' = [err EXCEPT ![c] = "none"]
    /\ Goto(c, "return")
    /\ UNCHANGED <<faults, tx, at, retries, lock, handle, recon, outcome, aborted>>

\* RollbackTransaction, then the error code is returned.  A ROLLBACK that reports
\* an error has left the transaction all the same.
Rollback(c) ==
    /\ Sends(c, "rollback")
    /\ ServerRollback(c)
    /\ Goto(c, "return")
    /\ UNCHANGED <<faults, tx, at, err, retries, lock, handle, recon, outcome, aborted>>

\* CommitTransaction, then 0 is returned.
Commit(c) ==
    /\ Sends(c, "commit")
    /\ ServerCommit(c)
    /\ err' = [err EXCEPT ![c] = "none"]
    /\ Goto(c, "return")
    /\ UNCHANGED <<faults, tx, at, retries, lock, handle, recon, outcome, aborted>>

\* COMMIT fails and the server rolls back (ER_ERROR_DURING_COMMIT, a deadlock
\* found at commit, ...): 0 is returned as after a success.
CommitRefused(c) ==
    /\ Sends(c, "commit")
    /\ Ignore(c, "commit")
    /\ ServerRollback(c)
    /\ err' = [err EXCEPT ![c] = "none"]
    /\ Goto(c, "return")
    /\ UNCHANGED <<tx, at, retries, lock, handle, recon, outcome, aborted>>

-----------------------------------------------------------------------------
(* MySQLConnection::_HandleMySQLErrno for a connection that is gone. *)

\* The server drops the session; a statement in flight may have been executed.
LoseConnection(c) ==
    /\ pc[c] \in Sql /\ Sends(c, pc[c])
    /\ faults.loss < MaxLosses
    /\ Count("loss")
    /\ handle' = [handle EXCEPT ![c] = FALSE]
    /\ recon' = [recon EXCEPT ![c] = Attempts]
    /\ \/ ServerRollback(c)
       \/ pc[c] = "commit" /\ ServerCommit(c)
       \/ pc[c] = "stmt" /\ ~open[c] /\ ServerExecute(c, <<tx[c], at[c]>>)
    /\ UNCHANGED <<pc, tx, at, err, retries, lock, outcome, aborted>>

\* Open() and PrepareStatements() succeed: Execute sends the same SQL again, in
\* a new session with autocommit on.
Reconnect(c) ==
    /\ ~aborted /\ recon[c] > 0
    /\ handle' = [handle EXCEPT ![c] = TRUE]
    /\ recon' = [recon EXCEPT ![c] = 0]
    /\ UNCHANGED <<serverVars, faults, pc, tx, at, err, retries, lock, outcome, aborted>>

\* The statements cannot be prepared on the new connection: ABORT.
CannotPrepare(c) ==
    /\ ~aborted /\ recon[c] > 0
    /\ aborted' = TRUE
    /\ UNCHANGED <<serverVars, faults, pc, tx, at, err, retries, lock, handle, recon, outcome>>

\* Open() fails with CR_CONN_HOST_ERROR, CR_SERVER_GONE_ERROR or one of the
\* others that are handled: the last attempt ends the process.
Unreachable(c) ==
    /\ ~aborted /\ recon[c] > 0
    /\ IF recon[c] = 1
       THEN aborted' = TRUE /\ UNCHANGED recon
       ELSE recon' = [recon EXCEPT ![c] = @ - 1] /\ UNCHANGED aborted
    /\ UNCHANGED <<serverVars, faults, pc, tx, at, err, retries, lock, handle, outcome>>

\* Open() fails with an error the recursive call does not know (2002
\* CR_CONNECTION_ERROR, 1040 ER_CON_COUNT_ERROR, ...): unless this was the last
\* attempt, false is returned and m_Mysql stays null.
UnhandledError(c) ==
    /\ ~aborted /\ recon[c] > 1
    /\ recon' = [recon EXCEPT ![c] = 0]
    /\ UNCHANGED <<serverVars, faults, pc, tx, at, err, retries, lock, handle, outcome, aborted>>

\* Execute returns false at once without a handle.  Only a statement's result
\* is looked at, and mysql_errno(nullptr) need not be an error.
NoHandle(c) ==
    /\ ~aborted /\ pc[c] \in Sql /\ recon[c] = 0 /\ ~handle[c]
    /\ \/ pc[c] = "begin" /\ Goto(c, "stmt") /\ at' = [at EXCEPT ![c] = 1] /\ UNCHANGED err
       \/ /\ pc[c] = "stmt" /\ Goto(c, "rollback") /\ UNCHANGED at
          /\ \E e \in {"none", "other"} : err' = [err EXCEPT ![c] = e]
       \/ pc[c] = "rollback" /\ Goto(c, "return") /\ UNCHANGED <<at, err>>
       \/ /\ pc[c] = "commit" /\ Goto(c, "return") /\ UNCHANGED at
          /\ err' = [err EXCEPT ![c] = "none"]
    /\ UNCHANGED <<serverVars, faults, tx, retries, lock, handle, recon, outcome, aborted>>

-----------------------------------------------------------------------------
(* TransactionTask::Execute, TransactionWithResultTask::Execute and          *)
(* DirectCommitTransaction: what is done with the returned code.             *)

\* The task is over: the lock_guard is left, the promise set, and after a
\* failure the statements are cleaned up.
Finish(c, result) ==
    /\ outcome' = [outcome EXCEPT ![tx[c]] = result]
    /\ tx' = [tx EXCEPT ![c] = Null]
    /\ lock' = IF lock = c THEN Null ELSE lock
    /\ Goto(c, "idle")
    /\ UNCHANGED <<serverVars, faults, at, err, retries, handle, recon, aborted>>

Succeed(c) ==
    /\ ~aborted /\ pc[c] = "return" /\ err[c] = "none"
    /\ Finish(c, "ok")

\* The first attempt of a worker was a deadlock: wait for _deadlockLock.
WantLock(c) ==
    /\ ~aborted /\ pc[c] = "return" /\ c \in AsyncConns
    /\ retries[c] = 0 /\ err[c] = "deadlock"
    /\ Goto(c, "lock")
    /\ UNCHANGED <<serverVars, faults, tx, at, err, retries, lock, handle, recon, outcome, aborted>>

TakeLock(c) ==
    /\ ~aborted /\ pc[c] = "lock" /\ lock = Null
    /\ lock' = c
    /\ retries' = [retries EXCEPT ![c] = 1]
    /\ Goto(c, "begin")
    /\ UNCHANGED <<serverVars, faults, tx, at, err, handle, recon, outcome, aborted>>

\* Another round of the retry loop.  Inside the loop every error is retried, a
\* deadlock or not; how many rounds fit into a minute is left open.
CanRetry(c) ==
    \/ c \in AsyncConns /\ lock = c
    \/ /\ c \in SynchConns /\ retries[c] < LoopBreaker
       /\ retries[c] > 0 \/ err[c] = "deadlock"

Retry(c) ==
    /\ ~aborted /\ pc[c] = "return" /\ err[c] # "none"
    /\ CanRetry(c)
    /\ retries' = [retries EXCEPT ![c] = IF c \in SynchConns THEN @ + 1 ELSE @]
    /\ Goto(c, "begin")
    /\ UNCHANGED <<serverVars, faults, tx, at, err, lock, handle, recon, outcome, aborted>>

\* Mutant of GiveUp: an error that is not retried is not handled either.
GiveUpAfterRetries(c) ==
    /\ ~aborted /\ pc[c] = "return" /\ err[c] # "none"
    /\ \/ c \in AsyncConns /\ lock = c
       \/ c \in SynchConns /\ retries[c] = LoopBreaker
    /\ Finish(c, "failed")

\* The loop is over, or there was none: CleanupOnFailure.
GiveUp(c) ==
    /\ ~aborted /\ pc[c] = "return" /\ err[c] # "none"
    /\ \/ retries[c] = 0 /\ err[c] # "deadlock"
       \/ c \in AsyncConns /\ lock = c
       \/ c \in SynchConns /\ retries[c] = LoopBreaker
    /\ Finish(c, "failed")

-----------------------------------------------------------------------------
Runs(c) ==
    \/ Begin(c) \/ Statement(c) \/ Rollback(c) \/ Commit(c)
    \/ BeginRefused(c) \/ CommitRefused(c)
    \/ Deadlock(c) \/ Refusal(c) \/ FatalError(c) \/ LoseConnection(c)
    \/ Reconnect(c) \/ CannotPrepare(c) \/ Unreachable(c) \/ UnhandledError(c)
    \/ NoHandle(c)
    \/ Succeed(c) \/ WantLock(c) \/ TakeLock(c) \/ Retry(c) \/ GiveUp(c)

Ended ==
    /\ aborted \/ \A c \in Conns : pc[c] = "idle"
    /\ aborted \/ \A t \in Txs : outcome[t] # "none"
    /\ UNCHANGED vars

Next ==
    \/ \E c \in Conns : Runs(c) \/ \E t \in Txs : Start(c, t)
    \/ Ended

\* Every connection has a thread of its own that keeps running, and a minute
\* passes at last: a worker does not retry for ever.
Fairness ==
    /\ \A c \in Conns : WF_vars(Runs(c))
    /\ \A c \in AsyncConns : SF_vars(GiveUp(c))

Spec == Init /\ [][Next]_vars /\ Fairness

-----------------------------------------------------------------------------
(* Properties. *)

\* The types; a transaction is retried within its bounds and only a worker holds
\* _deadlockLock.
TypeOK ==
    /\ open \in [Conns -> BOOLEAN]
    /\ work \in [Conns -> Seq(Txs \X Nat)]
    /\ durable \in Seq(Txs \X Nat)
    /\ faults \in [deadlock : 0..MaxDeadlocks, refusal : 0..MaxRefusals, loss : 0..MaxLosses,
                   ignored : SUBSET (Txs \X {"begin", "commit"})]
    /\ pc \in [Conns -> Sql \cup {"idle", "return", "lock"}]
    /\ tx \in [Conns -> Txs \cup {Null}]
    /\ at \in [Conns -> Nat \ {0}]
    /\ err \in [Conns -> {"none", "deadlock", "other"}]
    /\ retries \in [Conns -> 0..LoopBreaker]
    /\ lock \in AsyncConns \cup {Null}
    /\ handle \in [Conns -> BOOLEAN]
    /\ recon \in [Conns -> 0..Attempts]
    /\ outcome \in [Txs -> {"none", "ok", "failed"}]
    /\ aborted \in BOOLEAN

\* No statement of a transaction is durable.
NoTrace(t) == \A i \in DOMAIN durable : durable[i][1] # t

\* All its statements are durable, once each, in the order they were appended and
\* with no other statement among them.
Whole(t) ==
    \E k \in 0..Len(durable) :
        /\ k + Size[t] <= Len(durable)
        /\ \A i \in DOMAIN durable :
               IF i \in (k + 1)..(k + Size[t]) THEN durable[i] = <<t, i - k>>
                                               ELSE durable[i][1] # t

\* A transaction is durable as a whole or not at all: it "will automatically
\* rollback if not commited" (DatabaseWorkerPool.h).
AllOrNothing == \A t \in Txs : NoTrace(t) \/ Whole(t)

\* START TRANSACTION has not been refused for t.
Begun(t) == <<t, "begin">> \notin faults.ignored

\* The same as long as no connection is lost and no START TRANSACTION refused,
\* whatever else fails and is retried: a refused COMMIT leaves no trace.
AtomicWhileConnected ==
    faults.loss = 0 => \A t \in Txs : Begun(t) => NoTrace(t) \/ Whole(t)

\* What Execute returns and the promise tells is what happened, as long as no
\* connection is lost: failure only for a transaction that left no trace, success
\* only for one that is durable, unless it was its COMMIT whose error was ignored:
\* "to prevent data loss, we only clean up when it's all done" is not true of it.
HonestOutcome ==
    faults.loss = 0 =>
        \A t \in Txs : Begun(t) =>
            /\ outcome[t] = "failed" => NoTrace(t)
            /\ outcome[t] = "ok" => \/ Whole(t)
                                    \/ <<t, "commit">> \in faults.ignored /\ NoTrace(t)

\* Between two tasks a session is not inside a transaction, in which the next
\* plain statement would be caught.
SessionClean == \A c \in Conns : pc[c] \in {"idle", "lock"} => ~open[c] /\ work[c] = <<>>

\* "Make sure only 1 async thread retries a transaction": of two workers that
\* have met a deadlock one waits, and the one that retries holds the lock.
OneRetrier ==
    \A c, d \in AsyncConns :
        retries[c] > 0 /\ retries[d] > 0 /\ pc[c] # "idle" /\ pc[d] # "idle" => c = d

\* Every transaction that was started comes to an end, unless the process does.
TaskEnds == \A c \in Conns : pc[c] # "idle" ~> pc[c] = "idle" \/ aborted

=============================================================================
