------------------------ MODULE SqlTransactionProofs ------------------------
(***************************************************************************)
(* Safety of SqlTransaction for any number of connections, transactions,   *)
(* statements, retries and faults: the state keeps its types, no session   *)
(* is left inside a transaction between two tasks, whatever fails in       *)
(* between, and at most one worker retries.  As long as no connection is   *)
(* lost, a transaction that has been begun is durable as a whole and once, *)
(* or not at all, and its outcome says which, unless its COMMIT failed.    *)
(*                                                                         *)
(* The last two need to know what a session holds at each point of         *)
(* ExecuteTransaction: a prefix of the transaction that it executes        *)
(* (WorkIsPrefix), which the rollback empties before a retry begins        *)
(* (AttemptBegins); and that a transaction is in the log exactly from its  *)
(* COMMIT on (Committed), executed by one connection (TxOfOne).  One whose *)
(* START TRANSACTION was refused is committed statement by statement,      *)
(* which must not disturb what the log holds of the others (OthersKept).   *)
(***************************************************************************)
EXTENDS SqlTransaction, SequenceTheorems, TLAPS

\* A connection that is busy is busy with a transaction.
HasTask == \A c \in Conns : pc[c] # "idle" => tx[c] \in Txs

\* Outside a transaction a session holds no work.
NothingOutside == \A c \in Conns : ~open[c] => work[c] = <<>>

\* A session is outside a transaction once ExecuteTransaction has returned, and
\* also when the connection is gone, for then the server has rolled it back.
OutsideAtReturn ==
    \A c \in Conns : pc[c] \in {"idle", "lock", "return"} \/ ~handle[c] => ~open[c]

\* _HandleMySQLErrno reconnects only what it has closed.
ReconnectsClosed == \A c \in Conns : recon[c] > 0 => ~handle[c]

\* Only workers wait for _deadlockLock, before their first retry.
WaitersAreWorkers == \A c \in Conns : pc[c] = "lock" => c \in AsyncConns /\ retries[c] = 0

\* A worker that retries holds _deadlockLock.
RetrierHolds == \A c \in AsyncConns : retries[c] > 0 /\ pc[c] # "idle" => lock = c

\* The inductive invariant.
IInv ==
    /\ TypeOK /\ HasTask /\ NothingOutside /\ OutsideAtReturn /\ ReconnectsClosed
    /\ WaitersAreWorkers /\ RetrierHolds

-----------------------------------------------------------------------------
(* The type invariant, in parts that fit the provers: the flags, what the    *)
(* server keeps, and the rest.                                               *)

Flags ==
    /\ open \in [Conns -> BOOLEAN] /\ handle \in [Conns -> BOOLEAN]
    /\ aborted \in BOOLEAN

Server == work \in [Conns -> Seq(Txs \X Nat)] /\ durable \in Seq(Txs \X Nat)

Counters ==
    /\ faults \in [deadlock : 0..MaxDeadlocks, refusal : 0..MaxRefusals, loss : 0..MaxLosses,
                   ignored : SUBSET (Txs \X {"begin", "commit"})]
    /\ at \in [Conns -> Nat \ {0}]
    /\ retries \in [Conns -> 0..LoopBreaker]
    /\ recon \in [Conns -> 0..Attempts]

Control ==
    /\ pc \in [Conns -> Sql \cup {"idle", "return", "lock"}]
    /\ tx \in [Conns -> Txs \cup {Null}]
    /\ err \in [Conns -> {"none", "deadlock", "other"}]
    /\ lock \in AsyncConns \cup {Null}
    /\ outcome \in [Txs -> {"none", "ok", "failed"}]

\* The parts make up the type invariant.
LEMMA TypeParts == TypeOK <=> Flags /\ Server /\ Counters /\ Control
BY DEF TypeOK, Flags, Server, Counters, Control

\* Initially no connection has sent anything and nobody holds the lock.
LEMMA InitIInv == Init => IInv
<1> SUFFICES ASSUME Init PROVE IInv
  OBVIOUS
<1>1. Flags
  BY Zenon DEF Init, Flags
<1>2. Server
  BY DEF Init, Server
<1>3. Counters
  BY SizesAssumption DEF Init, Counters
<1>4. Control
  BY DEF Init, Control
<1>5. HasTask /\ NothingOutside /\ OutsideAtReturn /\ ReconnectsClosed
  BY DEF Init, HasTask, NothingOutside, OutsideAtReturn, ReconnectsClosed
<1>6. WaitersAreWorkers /\ RetrierHolds
  BY DEF Init, WaitersAreWorkers, RetrierHolds, Conns
<1> QED
  BY <1>1, <1>2, <1>3, <1>4, <1>5, <1>6, TypeParts DEF IInv

-----------------------------------------------------------------------------
(* What the server does to its state. *)

\* The steps of the server that a step of the program makes it take.
ServerStep(c) ==
    \/ ServerBegin(c) \/ ServerCommit(c) \/ ServerRollback(c)
    \/ \E s \in Txs \X Nat : ServerExecute(c, s)
    \/ UNCHANGED serverVars

\* Every step of the server keeps the types of its sessions and its log.
LEMMA ServerStepType ==
    ASSUME Flags, Server, NEW c \in Conns, ServerStep(c)
    PROVE  Server' /\ open' \in [Conns -> BOOLEAN]
<1>1. CASE ServerBegin(c)
  BY <1>1 DEF ServerBegin, Server, Flags
<1>2. CASE ServerCommit(c)
  BY <1>2 DEF ServerCommit, Server, Flags
<1>3. CASE ServerRollback(c)
  BY <1>3 DEF ServerRollback, Server, Flags
<1>4. ASSUME NEW s \in Txs \X Nat, ServerExecute(c, s)
      PROVE  Server' /\ open' \in [Conns -> BOOLEAN]
  BY <1>4 DEF ServerExecute, Server, Flags
<1>5. CASE UNCHANGED serverVars
  BY <1>5 DEF serverVars, Server, Flags
<1> QED
  BY <1>1, <1>2, <1>3, <1>4, <1>5 DEF ServerStep

\* No step of the server leaves work outside a transaction, and only START
\* TRANSACTION takes a session into one.
LEMMA ServerStepClean ==
    ASSUME Flags, Server, NothingOutside, NEW c \in Conns, ServerStep(c)
    PROVE  /\ NothingOutside'
           /\ \A d \in Conns \ {c} : open'[d] = open[d]
           /\ ServerBegin(c) \/ (~open[c] => ~open'[c])
<1>1. CASE ServerBegin(c)
  BY <1>1 DEF ServerBegin, Server, Flags, NothingOutside
<1>2. CASE ServerCommit(c)
  BY <1>2 DEF ServerCommit, Server, Flags, NothingOutside
<1>3. CASE ServerRollback(c)
  BY <1>3 DEF ServerRollback, Server, Flags, NothingOutside
<1>4. ASSUME NEW s \in Txs \X Nat, ServerExecute(c, s)
      PROVE  NothingOutside' /\ open' = open
  BY <1>4 DEF ServerExecute, Server, Flags, NothingOutside
<1>5. CASE UNCHANGED serverVars
  BY <1>5 DEF serverVars, NothingOutside
<1> QED
  BY <1>1, <1>2, <1>3, <1>4, <1>5 DEF ServerStep

-----------------------------------------------------------------------------
(* The steps of the program.                                                 *)

Step(c) == Runs(c) \/ \E t \in Txs : Start(c, t)

\* Every step of the program makes the server take one of its steps.
LEMMA StepIsServerStep ==
    ASSUME TypeOK, HasTask, NEW c \in Conns, Step(c)
    PROVE  ServerStep(c)
<1> USE DEF ServerStep, Sends, Finish
<1>1. tx[c] \in Txs /\ at[c] \in Nat => <<tx[c], at[c]>> \in Txs \X Nat
  OBVIOUS
<1>2. CASE Statement(c) \/ LoseConnection(c)
  BY <1>1, <1>2 DEF Statement, LoseConnection, TypeOK, HasTask, Sql
<1>3. CASE \/ Begin(c) \/ Rollback(c) \/ Commit(c) \/ Deadlock(c) \/ Refusal(c) \/ FatalError(c)
           \/ BeginRefused(c) \/ CommitRefused(c)
  BY <1>3 DEF Begin, Rollback, Commit, Deadlock, Refusal, FatalError, BeginRefused, CommitRefused
<1>4. CASE Reconnect(c) \/ CannotPrepare(c) \/ Unreachable(c) \/ UnhandledError(c) \/ NoHandle(c)
  BY <1>4 DEF Reconnect, CannotPrepare, Unreachable, UnhandledError, NoHandle
<1>5. CASE Succeed(c) \/ WantLock(c) \/ TakeLock(c) \/ Retry(c) \/ GiveUp(c) \/ \E t \in Txs : Start(c, t)
  BY <1>5 DEF Succeed, WantLock, TakeLock, Retry, GiveUp, Start
<1> QED
  BY <1>2, <1>3, <1>4, <1>5 DEF Step, Runs

\* Handles and the abort flag stay Boolean.
LEMMA FlagsStep ==
    ASSUME Flags, Server, NEW c \in Conns, Step(c), ServerStep(c)
    PROVE  Flags'
<1>1. open' \in [Conns -> BOOLEAN]
  BY ServerStepType
<1>2. handle' \in [Conns -> BOOLEAN] /\ aborted' \in BOOLEAN
  BY Zenon DEF Flags, Step, Runs, Finish, Begin, Statement, Rollback, Commit, Deadlock,
     Refusal, FatalError, LoseConnection, Reconnect, CannotPrepare, Unreachable,
     UnhandledError, NoHandle, Succeed, WantLock, TakeLock, Retry, GiveUp, Start, BeginRefused,
     CommitRefused
<1> QED
  BY <1>1, <1>2 DEF Flags

\* The counters stay within their bounds: LoopBreaker is not exceeded because a
\* synchronous retry is taken only below it.
LEMMA CountersStep ==
    ASSUME Counters, HasTask, NEW c \in Conns, Step(c)
    PROVE  Counters'
<1> USE SizesAssumption DEF Counters, Sends
<1>1. CASE Begin(c) \/ Statement(c) \/ Rollback(c) \/ Commit(c)
  BY <1>1 DEF Begin, Statement, Rollback, Commit
<1>2. CASE Deadlock(c)
  <2>1. /\ faults.deadlock < MaxDeadlocks
        /\ faults' = [faults EXCEPT !["deadlock"] = @ + 1]
        /\ UNCHANGED <<at, retries, recon>>
    BY <1>2 DEF Deadlock, Count
  <2> QED
    BY <2>1
<1>3. CASE Refusal(c) \/ FatalError(c)
  BY <1>3 DEF Refusal, FatalError, Count
<1>4. CASE LoseConnection(c)
  BY <1>4 DEF LoseConnection, Count
<1>5. CASE Reconnect(c) \/ CannotPrepare(c) \/ UnhandledError(c)
  BY <1>5 DEF Reconnect, CannotPrepare, UnhandledError
<1>6. CASE Unreachable(c)
  BY <1>6 DEF Unreachable
<1>7. CASE NoHandle(c)
  BY <1>7 DEF NoHandle
<1>8. CASE Succeed(c) \/ GiveUp(c) \/ WantLock(c)
  BY <1>8 DEF Succeed, GiveUp, Finish, WantLock
<1>9. CASE TakeLock(c)
  BY <1>9 DEF TakeLock
<1>10. CASE Retry(c)
  BY <1>10, ConnsAssumption DEF Retry, CanRetry
<1>11. CASE \E t \in Txs : Start(c, t)
  BY <1>11 DEF Start
<1>12. CASE BeginRefused(c) \/ CommitRefused(c)
  <2>1. PICK sql \in {"begin", "commit"} : Ignore(c, sql)
    BY <1>12 DEF BeginRefused, CommitRefused
  <2>2. <<tx[c], sql>> \in Txs \X {"begin", "commit"}
    BY <1>12 DEF BeginRefused, CommitRefused, HasTask
  <2>3. faults' \in [deadlock : 0..MaxDeadlocks, refusal : 0..MaxRefusals, loss : 0..MaxLosses,
                    ignored : SUBSET (Txs \X {"begin", "commit"})]
    BY <2>1, <2>2 DEF Ignore
  <2> QED
    BY <1>12, <2>3 DEF BeginRefused, CommitRefused
<1> QED
  BY <1>1, <1>2, <1>3, <1>4, <1>5, <1>6, <1>7, <1>8, <1>9, <1>10, <1>11, <1>12 DEF Step, Runs

\* A busy connection keeps its transaction, and only workers take the lock.
LEMMA ControlStep ==
    ASSUME Control, HasTask, WaitersAreWorkers, NEW c \in Conns, Step(c)
    PROVE  Control' /\ HasTask'
<1> USE DEF Control, HasTask, Goto, Sql
<1>1. CASE Begin(c) \/ Statement(c) \/ Rollback(c) \/ Commit(c) \/ Deadlock(c) \/ Refusal(c) \/ FatalError(c)
  BY <1>1 DEF Begin, Statement, AfterStatement, Rollback, Commit, Deadlock, Refusal, FatalError, Sends
<1>2. CASE LoseConnection(c) \/ Reconnect(c) \/ CannotPrepare(c) \/ Unreachable(c) \/ UnhandledError(c)
  BY <1>2 DEF LoseConnection, Reconnect, CannotPrepare, Unreachable, UnhandledError
<1>3. CASE NoHandle(c)
  BY <1>3 DEF NoHandle
<1>4. CASE Succeed(c) \/ GiveUp(c)
  BY <1>4 DEF Succeed, GiveUp, Finish
<1>5. CASE WantLock(c) \/ TakeLock(c) \/ Retry(c)
  BY <1>5 DEF WantLock, TakeLock, WaitersAreWorkers, Retry
<1>6. CASE \E t \in Txs : Start(c, t)
  BY <1>6 DEF Start
<1>7. CASE BeginRefused(c) \/ CommitRefused(c)
  BY <1>7 DEF BeginRefused, CommitRefused, Sends
<1> QED
  BY <1>1, <1>2, <1>3, <1>4, <1>5, <1>6, <1>7 DEF Step, Runs

\* The lock changes hands only at TakeLock, from nobody, and at the end of a
\* task; a worker's retries begin with it.
LEMMA LockStep ==
    ASSUME Counters, Control, WaitersAreWorkers, RetrierHolds, NEW c \in Conns, Step(c)
    PROVE  WaitersAreWorkers' /\ RetrierHolds'
<1> USE ConnsAssumption, SizesAssumption
    DEF Counters, Control, WaitersAreWorkers, RetrierHolds, Goto, Sends, Sql, Conns
<1>1. CASE Begin(c) \/ Statement(c) \/ Rollback(c) \/ Commit(c) \/ Deadlock(c) \/ Refusal(c) \/ FatalError(c)
  <2>1. CASE Begin(c) \/ Statement(c)
    BY <2>1 DEF Begin, Statement, AfterStatement
  <2>2. CASE Rollback(c) \/ Commit(c)
    BY <2>2 DEF Rollback, Commit
  <2>3. CASE Deadlock(c) \/ Refusal(c)
    BY <2>3 DEF Deadlock, Refusal
  <2>4. CASE FatalError(c)
    BY <2>4 DEF FatalError
  <2> QED
    BY <1>1, <2>1, <2>2, <2>3, <2>4
<1>2. CASE LoseConnection(c) \/ Reconnect(c) \/ CannotPrepare(c) \/ Unreachable(c) \/ UnhandledError(c)
  <2>1. CASE LoseConnection(c)
    BY <2>1 DEF LoseConnection
  <2>2. CASE Reconnect(c) \/ CannotPrepare(c)
    BY <2>2 DEF Reconnect, CannotPrepare
  <2>3. CASE Unreachable(c) \/ UnhandledError(c)
    BY <2>3 DEF Unreachable, UnhandledError
  <2> QED
    BY <1>2, <2>1, <2>2, <2>3
<1>3. CASE NoHandle(c)
  BY <1>3 DEF NoHandle
<1>4. CASE Succeed(c) \/ GiveUp(c)
  BY <1>4 DEF Succeed, GiveUp, Finish
<1>5. CASE WantLock(c)
  BY <1>5 DEF WantLock
<1>6. CASE TakeLock(c)
  BY <1>6 DEF TakeLock
<1>7. CASE Retry(c)
  BY <1>7 DEF Retry, CanRetry
<1>8. CASE \E t \in Txs : Start(c, t)
  BY <1>8 DEF Start
<1>9. CASE BeginRefused(c) \/ CommitRefused(c)
  BY <1>9 DEF BeginRefused, CommitRefused
<1> QED
  BY <1>1, <1>2, <1>3, <1>4, <1>5, <1>6, <1>7, <1>8, <1>9 DEF Step, Runs

\* ExecuteTransaction returns only after COMMIT or ROLLBACK, or without a handle,
\* when the server has rolled back already.
LEMMA CleanStep ==
    ASSUME Flags, Server, Counters, Control,
           NothingOutside, OutsideAtReturn, ReconnectsClosed,
           NEW c \in Conns, Step(c), ServerStep(c)
    PROVE  NothingOutside' /\ OutsideAtReturn' /\ ReconnectsClosed'
<1>1. NothingOutside'
  BY ServerStepClean
<1> USE SizesAssumption DEF Flags, Counters, Control, OutsideAtReturn, ReconnectsClosed, Goto, Sends, Sql
<1>2. CASE Begin(c)
  BY <1>1, <1>2 DEF Begin, ServerBegin
<1>3. CASE Statement(c)
  BY <1>1, <1>3 DEF Statement, AfterStatement, ServerExecute
<1>4. CASE Rollback(c) \/ Deadlock(c)
  <2>1. CASE Rollback(c)
    BY <1>1, <2>1 DEF Rollback, ServerRollback
  <2>2. CASE Deadlock(c)
    BY <1>1, <2>2 DEF Deadlock, ServerRollback
  <2> QED
    BY <1>4, <2>1, <2>2
<1>5. CASE Commit(c)
  BY <1>1, <1>5 DEF Commit, ServerCommit
<1>6. CASE Refusal(c) \/ FatalError(c)
  BY <1>1, <1>6 DEF Refusal, FatalError, serverVars
<1>7. CASE LoseConnection(c)
  BY <1>1, <1>7 DEF LoseConnection, ServerRollback, ServerCommit, ServerExecute
<1>8. CASE Reconnect(c) \/ CannotPrepare(c) \/ Unreachable(c) \/ UnhandledError(c)
  BY <1>1, <1>8 DEF Reconnect, CannotPrepare, Unreachable, UnhandledError, serverVars
<1>9. CASE NoHandle(c)
  BY <1>1, <1>9 DEF NoHandle, serverVars
<1>10. CASE Succeed(c) \/ GiveUp(c) \/ WantLock(c) \/ TakeLock(c) \/ Retry(c)
  BY <1>1, <1>10 DEF Succeed, GiveUp, Finish, WantLock, TakeLock, Retry, serverVars
<1>11. CASE \E t \in Txs : Start(c, t)
  BY <1>1, <1>11 DEF Start, serverVars
<1>12. CASE BeginRefused(c)
  BY <1>1, <1>12 DEF BeginRefused, serverVars
<1>13. CASE CommitRefused(c)
  BY <1>1, <1>13 DEF CommitRefused, ServerRollback
<1> QED
  BY <1>2, <1>3, <1>4, <1>5, <1>6, <1>7, <1>8, <1>9, <1>10, <1>11, <1>12, <1>13 DEF Step, Runs

\* Every step preserves the inductive invariant.
LEMMA NextIInv == IInv /\ [Next]_vars => IInv'
<1>1. ASSUME IInv, NEW c \in Conns, Step(c) PROVE IInv'
  <2>1. Flags /\ Server /\ Counters /\ Control
    BY <1>1, TypeParts DEF IInv
  <2>2. ServerStep(c)
    BY <1>1, StepIsServerStep DEF IInv
  <2>3. Flags' /\ Server'
    BY <1>1, <2>1, <2>2, FlagsStep, ServerStepType
  <2>4. Counters' /\ Control' /\ HasTask'
    BY <1>1, <2>1, CountersStep, ControlStep DEF IInv
  <2>5. NothingOutside' /\ OutsideAtReturn' /\ ReconnectsClosed'
    BY <1>1, <2>1, <2>2, CleanStep DEF IInv
  <2>6. WaitersAreWorkers' /\ RetrierHolds'
    BY <1>1, <2>1, LockStep DEF IInv
  <2>7. TypeOK'
    BY <2>3, <2>4 DEF TypeOK, Flags, Server, Counters, Control
  <2> QED
    BY <2>4, <2>5, <2>6, <2>7 DEF IInv
<1>2. ASSUME IInv, UNCHANGED vars PROVE IInv'
  <2>1. TypeOK' /\ HasTask'
    BY <1>2 DEF IInv, TypeOK, HasTask, vars, serverVars
  <2>2. NothingOutside' /\ OutsideAtReturn' /\ ReconnectsClosed'
    BY <1>2 DEF IInv, NothingOutside, OutsideAtReturn, ReconnectsClosed, vars, serverVars
  <2>3. WaitersAreWorkers' /\ RetrierHolds'
    BY <1>2 DEF IInv, WaitersAreWorkers, RetrierHolds, vars
  <2> QED
    BY <2>1, <2>2, <2>3 DEF IInv
<1> QED
  BY <1>1, <1>2 DEF Next, Step, Ended

-----------------------------------------------------------------------------
\* The inductive invariant holds in every reachable state.
THEOREM Invariance == Spec => []IInv
BY InitIInv, NextIInv, PTL DEF Spec

\* ExecuteTransaction and its callers keep the types of their state: faults and
\* retries stay within their bounds, and only a worker holds _deadlockLock.
THEOREM TypeCorrect == Spec => []TypeOK
<1>1. IInv => TypeOK
  BY DEF IInv
<1> QED
  BY <1>1, Invariance, PTL

\* Between two tasks no session is inside a transaction, however the statements,
\* the connection and the retries of the tasks before have failed.
THEOREM LeavesSessionsClean == Spec => []SessionClean
<1>1. IInv => SessionClean
  BY DEF IInv, SessionClean, NothingOutside, OutsideAtReturn
<1> QED
  BY <1>1, Invariance, PTL

\* Of any number of workers that have met a deadlock at most one retries.
THEOREM RetriesAreSerial == Spec => []OneRetrier
<1>1. IInv => OneRetrier
  BY DEF IInv, OneRetrier, RetrierHolds
<1> QED
  BY <1>1, Invariance, PTL

-----------------------------------------------------------------------------
(* What becomes durable while no connection is lost.                         *)

\* A transaction is executed by one connection, which has none while it is idle,
\* and its outcome is set when it leaves it.
TxOfOne ==
    /\ \A c, d \in Conns : tx[c] = tx[d] /\ tx[c] # Null => c = d
    /\ \A c \in Conns : pc[c] = "idle" => tx[c] = Null
    /\ \A c \in Conns : tx[c] # Null => outcome[tx[c]] = "none"

\* An attempt begins outside a transaction, and one without statements returns an
\* error at once that is not retried.
AttemptBegins ==
    /\ \A c \in Conns : pc[c] = "begin" => ~open[c]
    /\ \A c \in Conns : lock = c => pc[c] # "idle" /\ retries[c] > 0
    /\ \A c \in Conns : pc[c] # "idle" /\ Size[tx[c]] = 0 =>
                            pc[c] = "return" /\ err[c] = "other" /\ retries[c] = 0

\* No connection is waited for.
Connected == \A c \in Conns : handle[c] /\ recon[c] = 0

\* The work of a session is of the transaction that it executes and, if START
\* TRANSACTION was never refused, what ExecuteTransaction has sent of it so far.
Prefix(c) ==
    /\ \A n \in DOMAIN work[c] : work[c][n][1] = tx[c]
    /\ pc[c] = "rollback" => err[c] # "none"
    /\ Begun(tx[c]) =>
          /\ pc[c] \in {"stmt", "commit"} =>
                open[c] /\ \A n \in DOMAIN work[c] : work[c][n] = <<tx[c], n>>
          /\ pc[c] = "stmt" => Len(work[c]) = at[c] - 1 /\ at[c] <= Size[tx[c]]
          /\ pc[c] = "commit" => Len(work[c]) = Size[tx[c]]

WorkIsPrefix == \A c \in Conns : Prefix(c)

\* A transaction is durable from its COMMIT on, unless the COMMIT failed.
Committed(c) == pc[c] = "return" /\ err[c] = "none"

Reported(t) == Whole(t) \/ (<<t, "commit">> \in faults.ignored /\ NoTrace(t))

DurableFromCommit ==
    /\ \A c \in Conns : tx[c] # Null /\ Begun(tx[c]) =>
                           IF Committed(c) THEN Reported(tx[c]) ELSE NoTrace(tx[c])
    /\ \A t \in Txs : Begun(t) =>
                          /\ outcome[t] = "ok" => Reported(t)
                          /\ outcome[t] = "failed" => NoTrace(t)
                          /\ outcome[t] = "none" /\ (\A c \in Conns : tx[c] # t) => NoTrace(t)

WhileConnected == faults.loss = 0 => Connected /\ WorkIsPrefix /\ DurableFromCommit

AtomicInv == IInv /\ TxOfOne /\ AttemptBegins /\ WhileConnected

\* Initially no transaction has been started and nothing is durable.
LEMMA InitAtomicInv == Init => AtomicInv
<1> SUFFICES ASSUME Init PROVE AtomicInv
  OBVIOUS
<1>1. IInv
  BY InitIInv
<1>2. TxOfOne
  BY DEF Init, TxOfOne
<1>3. AttemptBegins
  BY ConnsAssumption DEF Init, AttemptBegins
<1>4. Connected /\ WorkIsPrefix
  BY DEF Init, Connected, WorkIsPrefix, Prefix
<1>5. \A t : NoTrace(t)
  BY DEF Init, NoTrace
<1>6. DurableFromCommit
  BY <1>5 DEF Init, DurableFromCommit
<1> QED
  BY <1>1, <1>2, <1>3, <1>4, <1>6 DEF AtomicInv, WhileConnected

\* A transaction changes hands only at Start, from nobody, and at the end of a
\* task, when its outcome is set.
LEMMA TxStep ==
    ASSUME Control, HasTask, TxOfOne, NEW c \in Conns, Step(c)
    PROVE  TxOfOne'
<1> USE ConnsAssumption DEF Control, HasTask, TxOfOne, Goto, Sql
<1>1. CASE Begin(c) \/ Statement(c) \/ Rollback(c) \/ Commit(c) \/ Deadlock(c) \/ Refusal(c) \/ FatalError(c)
  BY <1>1 DEF Begin, Statement, AfterStatement, Rollback, Commit, Deadlock, Refusal, FatalError, Sends
<1>2. CASE LoseConnection(c) \/ Reconnect(c) \/ CannotPrepare(c) \/ Unreachable(c) \/ UnhandledError(c)
  BY <1>2 DEF LoseConnection, Reconnect, CannotPrepare, Unreachable, UnhandledError
<1>3. CASE NoHandle(c)
  BY <1>3 DEF NoHandle
<1>4. CASE Succeed(c) \/ GiveUp(c)
  BY <1>4 DEF Succeed, GiveUp, Finish
<1>5. CASE WantLock(c) \/ TakeLock(c) \/ Retry(c)
  BY <1>5 DEF WantLock, TakeLock, Retry
<1>6. CASE \E t \in Txs : Start(c, t)
  BY <1>6 DEF Start
<1>7. CASE BeginRefused(c) \/ CommitRefused(c)
  BY <1>7 DEF BeginRefused, CommitRefused, Sends
<1> QED
  BY <1>1, <1>2, <1>3, <1>4, <1>5, <1>6, <1>7 DEF Step, Runs

\* A retry begins after ROLLBACK, and an empty transaction is not retried.
LEMMA AttemptStep ==
    ASSUME Flags, Server, Counters, Control, HasTask, NothingOutside, OutsideAtReturn,
           WaitersAreWorkers, AttemptBegins, NEW c \in Conns, Step(c), ServerStep(c)
    PROVE  AttemptBegins'
<1>0. \A d \in Conns \ {c} : open'[d] = open[d]
  BY ServerStepClean
<1> USE ConnsAssumption, SizesAssumption
    DEF Flags, Counters, Control, HasTask, AttemptBegins, Goto, Sends, Sql
<1>1. CASE \/ Begin(c) \/ Statement(c) \/ Rollback(c) \/ Commit(c) \/ Deadlock(c) \/ Refusal(c)
           \/ BeginRefused(c) \/ CommitRefused(c)
  <2>1. /\ pc[c] \in Sql /\ UNCHANGED <<tx, lock, retries>>
        /\ \E label \in {"stmt", "commit", "rollback", "return"} : pc' = [pc EXCEPT ![c] = label]
    BY <1>1 DEF Begin, Statement, AfterStatement, Rollback, Commit, Deadlock, Refusal,
       BeginRefused, CommitRefused
  <2>2. \A d \in Conns \ {c} : err'[d] = err[d]
    BY <1>1 DEF Begin, Statement, Rollback, Commit, Deadlock, Refusal, BeginRefused, CommitRefused
  <2>3. Size[tx[c]] # 0
    BY <2>1
  <2> QED
    BY <1>0, <2>1, <2>2, <2>3
<1>2. CASE FatalError(c)
  BY <1>2 DEF FatalError, serverVars
<1>3. CASE LoseConnection(c)
  <2>1. pc[c] \in Sql /\ UNCHANGED <<pc, tx, err, lock, retries>>
    BY <1>3 DEF LoseConnection
  <2>2. CASE ServerRollback(c) \/ ServerCommit(c)
    BY <1>0, <2>1, <2>2 DEF ServerRollback, ServerCommit
  <2>3. CASE pc[c] = "stmt" /\ ~open[c] /\ ServerExecute(c, <<tx[c], at[c]>>)
    BY <1>0, <2>1, <2>3 DEF ServerExecute
  <2> QED
    BY <1>3, <2>2, <2>3 DEF LoseConnection
<1>4. CASE Reconnect(c) \/ CannotPrepare(c) \/ Unreachable(c) \/ UnhandledError(c)
  BY <1>4 DEF Reconnect, CannotPrepare, Unreachable, UnhandledError, serverVars
<1>5. CASE NoHandle(c)
  BY <1>5 DEF NoHandle, serverVars
<1>6. CASE Succeed(c) \/ GiveUp(c)
  BY <1>6 DEF Succeed, GiveUp, Finish, serverVars
<1>7. CASE WantLock(c) \/ TakeLock(c)
  BY <1>7 DEF WantLock, TakeLock, OutsideAtReturn, WaitersAreWorkers, serverVars
<1>8. CASE Retry(c)
  BY <1>8 DEF Retry, CanRetry, OutsideAtReturn, serverVars
<1>9. CASE \E t \in Txs : Start(c, t)
  BY <1>9 DEF Start, OutsideAtReturn, serverVars
<1> QED
  BY <1>1, <1>2, <1>3, <1>4, <1>5, <1>6, <1>7, <1>8, <1>9 DEF Step, Runs

\* Only LoseConnection closes a handle, and it counts.
LEMMA ConnectedStep ==
    ASSUME Counters, WhileConnected, NEW c \in Conns, Step(c), faults'.loss = 0
    PROVE  /\ faults.loss = 0 /\ Connected /\ Connected'
           /\ faults.ignored \subseteq faults'.ignored
           /\ \/ Begin(c) \/ Statement(c) \/ Rollback(c) \/ Commit(c)
              \/ BeginRefused(c) \/ CommitRefused(c)
              \/ Deadlock(c) \/ Refusal(c) \/ FatalError(c)
              \/ Succeed(c) \/ WantLock(c) \/ TakeLock(c) \/ Retry(c) \/ GiveUp(c)
              \/ \E t \in Txs : Start(c, t)
<1>1. faults.loss = 0 /\ ~LoseConnection(c) /\ faults.ignored \subseteq faults'.ignored
  <2>1. CASE Deadlock(c) \/ Refusal(c) \/ FatalError(c) \/ LoseConnection(c)
    <3>1. CASE Deadlock(c) \/ Refusal(c) \/ FatalError(c)
      <4>1. PICK f \in {"deadlock", "refusal"} : Count(f)
        BY <3>1 DEF Deadlock, Refusal, FatalError
      <4> QED
        BY <4>1 DEF Counters, LoseConnection, Count
    <3>2. CASE LoseConnection(c)
      BY <3>2 DEF Counters, LoseConnection, Count
    <3> QED
      BY <2>1, <3>1, <3>2
  <2>2. CASE UNCHANGED faults
    BY <2>2 DEF Counters, LoseConnection, Count
  <2>3. \/ UNCHANGED faults \/ BeginRefused(c) \/ CommitRefused(c)
        \/ Deadlock(c) \/ Refusal(c) \/ FatalError(c) \/ LoseConnection(c)
    BY Zenon DEF Step, Runs, Finish, Begin, Statement, Rollback, Commit, Reconnect,
       CannotPrepare, Unreachable, UnhandledError, NoHandle, Succeed, WantLock, TakeLock,
       Retry, GiveUp, Start
  <2>4. CASE BeginRefused(c) \/ CommitRefused(c)
    <3>1. /\ faults' = [faults EXCEPT !.ignored = faults'.ignored] /\ UNCHANGED handle /\ handle[c]
          /\ faults.ignored \subseteq faults'.ignored
      BY <2>4 DEF Counters, BeginRefused, CommitRefused, Ignore, Sends
    <3>2. ~LoseConnection(c)
      BY <3>1 DEF LoseConnection, Count, Counters
    <3> QED
      BY <3>1, <3>2 DEF Counters
  <2> QED
    BY <2>1, <2>2, <2>3, <2>4
<1>2. Connected
  BY <1>1 DEF WhileConnected
<1>3. ~(recon[c] > 0) /\ ~(recon[c] > 1) /\ handle[c]
  BY <1>2 DEF Connected
<1>4. ~Reconnect(c) /\ ~CannotPrepare(c) /\ ~Unreachable(c) /\ ~UnhandledError(c) /\ ~NoHandle(c)
  BY <1>3 DEF Reconnect, CannotPrepare, Unreachable, UnhandledError, NoHandle
<1>5. \/ Begin(c) \/ Statement(c) \/ Rollback(c) \/ Commit(c)
      \/ BeginRefused(c) \/ CommitRefused(c)
      \/ Deadlock(c) \/ Refusal(c) \/ FatalError(c)
      \/ Succeed(c) \/ WantLock(c) \/ TakeLock(c) \/ Retry(c) \/ GiveUp(c)
      \/ \E t \in Txs : Start(c, t)
  BY <1>1, <1>4 DEF Step, Runs
<1>6. UNCHANGED <<handle, recon>>
  BY <1>5 DEF Finish, Begin, Statement, Rollback, Commit, Deadlock, Refusal, FatalError,
     Succeed, WantLock, TakeLock, Retry, GiveUp, Start, BeginRefused, CommitRefused
<1> QED
  BY <1>1, <1>2, <1>5, <1>6 DEF Connected

\* The log grows at its end.
LEMMA LogGrows ==
    ASSUME Server, NEW w \in Seq(Txs \X Nat), durable' = durable \o w
    PROVE  /\ Len(durable) \in Nat /\ Len(w) \in Nat /\ Len(durable') = Len(durable) + Len(w)
           /\ DOMAIN durable = 1..Len(durable) /\ DOMAIN w = 1..Len(w)
           /\ DOMAIN durable' = 1..(Len(durable) + Len(w))
           /\ \A i \in 1..Len(durable) : durable'[i] = durable[i]
           /\ \A i \in 1..(Len(durable) + Len(w)) :
                  i > Len(durable) => durable'[i] = w[i - Len(durable)] /\ i - Len(durable) \in 1..Len(w)
<1> DEFINE L == Len(durable)
<1>1. durable \in Seq(Txs \X Nat)
  BY DEF Server
<1>2. /\ durable \o w \in Seq(Txs \X Nat) /\ Len(durable \o w) = L + Len(w)
      /\ \A i \in 1..(L + Len(w)) : (durable \o w)[i] = IF i <= L THEN durable[i] ELSE w[i - L]
  BY <1>1, ConcatProperties
<1>3. /\ L \in Nat /\ DOMAIN durable = 1..L /\ Len(w) \in Nat /\ DOMAIN w = 1..Len(w)
  BY <1>1, LenProperties
<1>4. DOMAIN (durable \o w) = 1..(L + Len(w))
  BY <1>2, LenProperties
<1> HIDE DEF L
<1>5. /\ L \in Nat /\ Len(w) \in Nat /\ Len(durable') = L + Len(w)
      /\ DOMAIN durable = 1..L /\ DOMAIN w = 1..Len(w) /\ DOMAIN durable' = 1..(L + Len(w))
      /\ \A i \in 1..L : durable'[i] = durable[i]
      /\ \A i \in 1..(L + Len(w)) : i > L => durable'[i] = w[i - L] /\ i - L \in 1..Len(w)
  BY <1>2, <1>3, <1>4
<1> QED
  BY <1>5 DEF L

\* What becomes durable of one transaction changes nothing for any other one.
LEMMA OthersKept ==
    ASSUME Server, NEW t \in Txs, NEW w \in Seq(Txs \X Nat),
           \A n \in DOMAIN w : w[n][1] = t, durable' = durable \o w
    PROVE  \A u \in Txs \ {t} : (NoTrace(u) => NoTrace(u)') /\ (Whole(u) => Whole(u)')
<1> DEFINE L == Len(durable)
<1>1. /\ L \in Nat /\ Len(w) \in Nat /\ Len(durable') = L + Len(w)
      /\ DOMAIN durable = 1..L /\ DOMAIN durable' = 1..(L + Len(w))
      /\ \A i \in 1..L : durable'[i] = durable[i]
      /\ \A i \in 1..(L + Len(w)) : i > L => durable'[i][1] = t
  BY LogGrows
<1> HIDE DEF L
<1>2. ASSUME NEW u \in Txs \ {t}, NoTrace(u) PROVE NoTrace(u)'
  BY <1>1, <1>2 DEF NoTrace
<1>3. ASSUME NEW u \in Txs \ {t}, Whole(u) PROVE Whole(u)'
  <2>1. PICK k \in 0..L :
           /\ k + Size[u] <= L
           /\ \A i \in 1..L : IF i \in (k + 1)..(k + Size[u]) THEN durable[i] = <<u, i - k>>
                                                              ELSE durable[i][1] # u
    BY <1>1, <1>3 DEF Whole, L
  <2>2. Size[u] \in Nat
    BY SizesAssumption
  <2>3. \A i \in 1..(L + Len(w)) :
           IF i \in (k + 1)..(k + Size[u]) THEN durable'[i] = <<u, i - k>> ELSE durable'[i][1] # u
    <3> SUFFICES ASSUME NEW i \in 1..(L + Len(w))
                 PROVE  IF i \in (k + 1)..(k + Size[u]) THEN durable'[i] = <<u, i - k>>
                                                        ELSE durable'[i][1] # u
      OBVIOUS
    <3>1. CASE i \in 1..L
      BY <1>1, <2>1, <3>1
    <3>2. CASE i > L
      <4>1. i \notin (k + 1)..(k + Size[u])
        BY <1>1, <2>1, <2>2, <3>2
      <4>2. durable'[i][1] = t
        BY <1>1, <3>2
      <4> QED
        BY <4>1, <4>2
    <3> QED
      BY <1>1, <3>1, <3>2
  <2>4. k \in 0..(L + Len(w)) /\ k + Size[u] <= L + Len(w)
    BY <1>1, <2>1, <2>2
  <2> QED
    BY <1>1, <2>3, <2>4 DEF Whole
<1> QED
  BY <1>2, <1>3

\* COMMIT of all statements of a transaction makes it durable as a whole.
LEMMA CommitWhole ==
    ASSUME Server, NEW t \in Txs, NEW w \in Seq(Txs \X Nat),
           \A n \in DOMAIN w : w[n] = <<t, n>>, Len(w) = Size[t],
           durable' = durable \o w, NoTrace(t)
    PROVE  Whole(t)'
<1> DEFINE L == Len(durable)
<1>1. /\ L \in Nat /\ Len(w) \in Nat /\ Len(durable') = L + Len(w)
      /\ DOMAIN durable = 1..L /\ DOMAIN w = 1..Len(w) /\ DOMAIN durable' = 1..(L + Len(w))
      /\ \A i \in 1..L : durable'[i] = durable[i]
      /\ \A i \in 1..(L + Len(w)) : i > L => durable'[i] = w[i - L] /\ i - L \in 1..Len(w)
  BY LogGrows
<1> HIDE DEF L
<1>2. \A i \in 1..(L + Len(w)) : i > L => durable'[i] = <<t, i - L>>
  <2> SUFFICES ASSUME NEW i \in 1..(L + Len(w)), i > L PROVE durable'[i] = <<t, i - L>>
    OBVIOUS
  <2>1. durable'[i] = w[i - L] /\ i - L \in DOMAIN w
    BY <1>1
  <2> QED
    BY <2>1
<1>3. \A i \in 1..(L + Len(w)) : IF i \in (L + 1)..(L + Size[t]) THEN durable'[i] = <<t, i - L>>
                                                               ELSE durable'[i][1] # t
  <2> SUFFICES ASSUME NEW i \in 1..(L + Len(w))
               PROVE  IF i \in (L + 1)..(L + Size[t]) THEN durable'[i] = <<t, i - L>>
                                                      ELSE durable'[i][1] # t
    OBVIOUS
  <2>1. CASE i > L
    <3>1. i \in (L + 1)..(L + Size[t])
      BY <1>1, <2>1
    <3> QED
      BY <1>2, <2>1, <3>1
  <2>2. CASE ~(i > L)
    <3>1. i \in 1..L /\ i \notin (L + 1)..(L + Size[t])
      BY <1>1, <2>2
    <3>2. durable'[i][1] # t
      BY <1>1, <3>1 DEF NoTrace
    <3> QED
      BY <3>1, <3>2
  <2> QED
    BY <2>1, <2>2
<1>4. L \in 0..Len(durable') /\ L + Size[t] <= Len(durable')
  BY <1>1
<1> QED
  BY <1>1, <1>3, <1>4 DEF Whole

\* Without a change of the log every transaction stays as durable as it is.
LEMMA SameLog ==
    ASSUME UNCHANGED durable
    PROVE  \A t \in Txs : (NoTrace(t)' <=> NoTrace(t)) /\ (Whole(t)' <=> Whole(t))
BY DEF NoTrace, Whole

\* While it is connected, a session gathers the statements one by one.
LEMMA WorkStep ==
    ASSUME IInv, AttemptBegins, WhileConnected, NEW c \in Conns, Step(c), ServerStep(c),
           faults'.loss = 0
    PROVE  WorkIsPrefix'
<1>1. Flags /\ Server /\ Counters /\ Control /\ HasTask /\ NothingOutside /\ OutsideAtReturn
  BY TypeParts DEF IInv
<1>2. WorkIsPrefix /\ faults.ignored \subseteq faults'.ignored
  BY <1>1, ConnectedStep DEF WhileConnected
<1>3. ASSUME \A d \in Conns \ {c} : open'[d] = open[d] /\ work'[d] = work[d] /\ at'[d] = at[d],
             \A d \in Conns \ {c} : pc'[d] = pc[d] /\ tx'[d] = tx[d] /\ err'[d] = err[d],
             Prefix(c)'
      PROVE  WorkIsPrefix'
  <2> SUFFICES ASSUME NEW d \in Conns \ {c} PROVE Prefix(d)'
    BY <1>3 DEF WorkIsPrefix
  <2>1. Prefix(d) /\ (Begun(tx[d])' => Begun(tx[d]))
    BY <1>2, <1>3 DEF WorkIsPrefix, Begun
  <2> QED
    BY <1>3, <2>1 DEF Prefix
<1>4. Prefix(c)
  BY <1>2 DEF WorkIsPrefix
<1> USE <1>1, <1>4 DEF Control, Goto, Sends, Sql
<1>5. CASE Begin(c)
  <2>1. pc[c] # "idle" /\ Size[tx[c]] # 0
    BY <1>5 DEF Begin, AttemptBegins
  <2>2. tx[c] \in Txs /\ Size[tx[c]] \in Nat
    BY <2>1, SizesAssumption DEF HasTask
  <2>3. work'[c] = <<>> /\ open'[c] /\ at'[c] = 1 /\ pc'[c] = "stmt" /\ tx'[c] = tx[c]
    BY <1>5 DEF Begin, ServerBegin, Flags, Server, Counters
  <2>4. Prefix(c)'
    BY <2>1, <2>2, <2>3 DEF Prefix
  <2> QED
    BY <1>3, <1>5, <2>4 DEF Begin, ServerBegin, Flags, Server, Counters
<1>6. CASE BeginRefused(c)
  <2>1. work[c] = <<>>
    BY <1>6 DEF BeginRefused, AttemptBegins, NothingOutside
  <2>2. ~Begun(tx[c])' /\ work'[c] = <<>> /\ pc'[c] = "stmt"
    BY <1>6, <2>1 DEF BeginRefused, Ignore, Begun, Counters, serverVars
  <2>3. Prefix(c)'
    BY <2>2 DEF Prefix
  <2> QED
    BY <1>3, <1>6, <2>3 DEF BeginRefused, Counters, serverVars
<1>7. CASE Statement(c)
  <2>1. /\ pc[c] = "stmt" /\ tx[c] \in Txs /\ at[c] \in Nat /\ work[c] \in Seq(Txs \X Nat)
        /\ UNCHANGED <<open, tx, err, faults>>
        /\ \A d \in Conns \ {c} : work'[d] = work[d] /\ pc'[d] = pc[d] /\ at'[d] = at[d]
        /\ at'[c] = at[c] + 1 /\ pc'[c] = IF at[c] = Size[tx[c]] THEN "commit" ELSE "stmt"
    BY <1>7 DEF Statement, ServerExecute, AfterStatement, HasTask, Counters, Server
  <2>2. CASE ~open[c]
    <3>1. ~Begun(tx[c]) /\ work' = work
      BY <1>7, <2>1, <2>2 DEF Prefix, Statement, ServerExecute
    <3>2. Prefix(c)'
      BY <2>1, <3>1 DEF Prefix, Begun
    <3> QED
      BY <1>3, <2>1, <3>2
  <2>3. CASE open[c]
    <3> DEFINE s == <<tx[c], at[c]>>
    <3>1. s \in Txs \X Nat /\ work'[c] = Append(work[c], s)
      BY <1>7, <2>1, <2>3 DEF Statement, ServerExecute, Server
    <3>2. s[1] = tx[c]
      OBVIOUS
    <3>3. Size[tx[c]] \in Nat
      BY <2>1, SizesAssumption
    <3> HIDE DEF s
    <3>4. /\ Len(work[c]) \in Nat /\ Len(work'[c]) = Len(work[c]) + 1
          /\ DOMAIN work[c] = 1..Len(work[c]) /\ DOMAIN work'[c] = 1..(Len(work[c]) + 1)
          /\ work'[c][Len(work[c]) + 1] = s
          /\ \A n \in 1..Len(work[c]) : work'[c][n] = work[c][n]
      BY <2>1, <3>1, AppendProperties, LenProperties
    <3>5. \A n \in DOMAIN work'[c] : n \in DOMAIN work[c] \/ n = Len(work[c]) + 1
      BY <3>4
    <3>6. \A n \in DOMAIN work'[c] : work'[c][n][1] = tx'[c]
      <4>1. \A n \in DOMAIN work[c] : work[c][n][1] = tx[c] /\ work'[c][n] = work[c][n]
        BY <3>4 DEF Prefix
      <4>2. work'[c][Len(work[c]) + 1][1] = tx[c]
        BY <3>2, <3>4
      <4> QED
        BY <2>1, <3>5, <4>1, <4>2
    <3>7. ASSUME Begun(tx[c])'
          PROVE  /\ \A n \in DOMAIN work'[c] : work'[c][n] = <<tx'[c], n>>
                 /\ pc'[c] = "stmt" => Len(work'[c]) = at'[c] - 1 /\ at'[c] <= Size[tx'[c]]
                 /\ pc'[c] = "commit" => Len(work'[c]) = Size[tx'[c]]
      <4>1. /\ Len(work[c]) = at[c] - 1 /\ at[c] <= Size[tx[c]]
            /\ \A n \in DOMAIN work[c] : work[c][n] = <<tx[c], n>>
        BY <2>1, <3>7 DEF Prefix, Begun
      <4>2. work'[c][at[c]] = <<tx[c], at[c]>>
        BY <2>1, <3>4, <4>1 DEF s
      <4>3. \A n \in DOMAIN work'[c] : work'[c][n] = <<tx'[c], n>>
        <5>1. \A n \in DOMAIN work[c] : work'[c][n] = <<tx[c], n>>
          BY <3>4, <4>1
        <5>2. Len(work[c]) + 1 = at[c] /\ tx'[c] = tx[c]
          BY <2>1, <4>1
        <5> QED
          BY <3>5, <4>2, <5>1, <5>2
      <4> QED
        BY <2>1, <3>3, <3>4, <4>1, <4>3
    <3>8. Prefix(c)'
      BY <2>1, <2>3, <3>6, <3>7 DEF Prefix
    <3> QED
      BY <1>3, <2>1, <3>8
  <2> QED
    BY <2>2, <2>3
<1>8. CASE Rollback(c) \/ Commit(c) \/ CommitRefused(c)
  <2>1. work'[c] = <<>> /\ pc'[c] = "return"
    BY <1>8 DEF Rollback, Commit, CommitRefused, ServerRollback, ServerCommit, Server
  <2>2. Prefix(c)'
    BY <2>1 DEF Prefix
  <2>3. \A d \in Conns \ {c} : open'[d] = open[d] /\ work'[d] = work[d] /\ at'[d] = at[d]
    BY <1>8 DEF Rollback, Commit, CommitRefused, ServerRollback, ServerCommit, Server, Flags
  <2>4. \A d \in Conns \ {c} : pc'[d] = pc[d] /\ tx'[d] = tx[d] /\ err'[d] = err[d]
    BY <1>8 DEF Rollback, Commit, CommitRefused
  <2> QED
    BY <1>3, <2>2, <2>3, <2>4
<1>9. CASE Deadlock(c)
  <2>1. work'[c] = <<>> /\ pc'[c] = "rollback" /\ err'[c] = "deadlock"
    BY <1>9 DEF Deadlock, ServerRollback, Server
  <2>2. Prefix(c)'
    BY <2>1 DEF Prefix
  <2> QED
    BY <1>3, <1>9, <2>2 DEF Deadlock, ServerRollback, Server
<1>10. CASE Refusal(c)
  <2>1. UNCHANGED <<open, work, tx, at>> /\ pc'[c] = "rollback" /\ err'[c] = "other"
    BY <1>10 DEF Refusal, serverVars
  <2>2. Prefix(c)'
    BY <2>1 DEF Prefix
  <2> QED
    BY <1>3, <1>10, <2>2 DEF Refusal, serverVars
<1>11. CASE FatalError(c)
  <2>1. UNCHANGED <<open, work, tx, at, pc, err>>
    BY <1>11 DEF FatalError, serverVars
  <2>2. Begun(tx[c])' => Begun(tx[c])
    BY <1>2, <2>1 DEF Begun
  <2>3. Prefix(c)'
    BY <2>1, <2>2 DEF Prefix
  <2> QED
    BY <1>3, <2>1, <2>3
<1>12. CASE \/ Succeed(c) \/ GiveUp(c) \/ WantLock(c) \/ TakeLock(c) \/ Retry(c)
            \/ \E t \in Txs : Start(c, t)
  <2>1. /\ pc[c] \in {"idle", "lock", "return"} /\ UNCHANGED <<open, work, at>>
        /\ pc'[c] \in {"idle", "lock", "return", "begin"}
        /\ \A d \in Conns \ {c} : pc'[d] = pc[d] /\ tx'[d] = tx[d] /\ err'[d] = err[d]
    BY <1>12 DEF Succeed, GiveUp, Finish, WantLock, TakeLock, Retry, Start, serverVars
  <2>2. work'[c] = <<>>
    BY <2>1 DEF OutsideAtReturn, NothingOutside
  <2>3. Prefix(c)'
    BY <2>1, <2>2 DEF Prefix
  <2> QED
    BY <1>3, <2>1, <2>3
<1> QED
  BY <1>5, <1>6, <1>7, <1>8, <1>9, <1>10, <1>11, <1>12, ConnectedStep

\* While it is connected, COMMIT is the step that makes a transaction durable.
LEMMA DurableStep ==
    ASSUME IInv, TxOfOne, AttemptBegins, WhileConnected, NEW c \in Conns, Step(c), ServerStep(c),
           faults'.loss = 0
    PROVE  DurableFromCommit'
<1>1. Flags /\ Server /\ Counters /\ Control /\ HasTask /\ NothingOutside
  BY TypeParts DEF IInv
<1>2. DurableFromCommit /\ WorkIsPrefix /\ faults.ignored \subseteq faults'.ignored
  BY <1>1, ConnectedStep DEF WhileConnected
<1>3. \A t \in Txs : /\ Begun(t)' => Begun(t)
                     /\ (NoTrace(t) => NoTrace(t)') /\ (Whole(t) => Whole(t)')
                            => (Reported(t) => Reported(t)')
  BY <1>2 DEF Begun, Reported
<1>4. Prefix(c)
  BY <1>2 DEF WorkIsPrefix
<1> USE <1>1, <1>2, ConnsAssumption DEF Control, Goto, Sends, Sql
<1>5. ASSUME UNCHANGED <<tx, outcome>>,
             \A d \in Conns \ {c} : pc'[d] = pc[d] /\ err'[d] = err[d],
             \A u \in Txs : u = tx[c] \/ ((NoTrace(u) => NoTrace(u)') /\ (Whole(u) => Whole(u)')),
             tx[c] \in Txs,
             Begun(tx[c])' => IF Committed(c)' THEN Reported(tx[c])' ELSE NoTrace(tx[c])'
      PROVE  DurableFromCommit'
  <2>1. \A d \in Conns \ {c} : (Committed(d)' <=> Committed(d)) /\ (tx[d] # Null => tx[d] # tx[c])
    BY <1>5 DEF Committed, TxOfOne
  <2>2. outcome[tx[c]] = "none"
    BY <1>5 DEF TxOfOne
  <2> HIDE DEF Committed, NoTrace, Whole, Begun, Reported
  <2>3. ASSUME NEW d \in Conns, tx'[d] # Null, Begun(tx[d])'
        PROVE  IF Committed(d)' THEN Reported(tx[d])' ELSE NoTrace(tx[d])'
    <3>1. CASE d = c
      BY <1>5, <2>3, <3>1
    <3>2. CASE d # c
      <4>1. PICK t \in Txs : t = tx[d] /\ t = tx'[d]
        BY <1>5, <2>3
      <4>2. /\ t # tx[c] /\ Begun(t)' /\ Begun(t)
            /\ IF Committed(d) THEN Reported(t) ELSE NoTrace(t)
        BY <1>3, <2>1, <2>3, <3>2, <4>1 DEF DurableFromCommit
      <4>3. IF Committed(d)' THEN Reported(t)' ELSE NoTrace(t)'
        BY <1>3, <1>5, <2>1, <3>2, <4>2
      <4> QED
        BY <4>1, <4>3
    <3> QED
      BY <3>1, <3>2
  <2>4. ASSUME NEW t \in Txs, Begun(t)'
        PROVE  /\ outcome'[t] = "ok" => Reported(t)'
               /\ outcome'[t] = "failed" => NoTrace(t)'
               /\ outcome'[t] = "none" /\ (\A d \in Conns : tx'[d] # t) => NoTrace(t)'
    BY <1>3, <1>5, <2>2, <2>4 DEF DurableFromCommit
  <2> QED
    BY <2>3, <2>4 DEF DurableFromCommit
<1>6. ASSUME UNCHANGED <<durable, tx, outcome>>, tx[c] \in Txs,
             \A d \in Conns \ {c} : pc'[d] = pc[d] /\ err'[d] = err[d],
             Committed(c)' <=> Committed(c)
      PROVE  DurableFromCommit'
  <2>1. \A u \in Txs : (NoTrace(u) => NoTrace(u)') /\ (Whole(u) => Whole(u)')
    BY <1>6, SameLog
  <2>2. Begun(tx[c])' => IF Committed(c)' THEN Reported(tx[c])' ELSE NoTrace(tx[c])'
    <3> HIDE DEF Committed, NoTrace, Whole, Begun, Reported
    <3> QED
      BY <1>3, <1>6, <2>1 DEF DurableFromCommit
  <2> QED
    BY <1>5, <1>6, <2>1, <2>2
<1>7. CASE Begin(c)
  <2>1. work[c] = <<>> /\ durable \in Seq(Txs \X Nat) /\ tx[c] \in Txs
    BY <1>7 DEF Begin, AttemptBegins, NothingOutside, Server, HasTask
  <2>2. durable' = durable
    BY <1>7, <2>1 DEF Begin, ServerBegin
  <2> QED
    BY <1>6, <1>7, <2>1, <2>2 DEF Begin, Committed
<1>8. CASE BeginRefused(c)
  BY <1>6, <1>8 DEF BeginRefused, serverVars, Committed, HasTask
<1>9. CASE Statement(c)
  <2>1. /\ tx[c] \in Txs /\ at[c] \in Nat /\ ~Committed(c) /\ ~Committed(c)'
        /\ UNCHANGED <<tx, outcome, faults>>
        /\ \A d \in Conns \ {c} : pc'[d] = pc[d] /\ err'[d] = err[d]
    BY <1>9 DEF Statement, AfterStatement, Committed, HasTask, Counters
  <2>2. CASE open[c]
    BY <1>6, <1>9, <2>1, <2>2 DEF Statement, ServerExecute
  <2>3. CASE ~open[c]
    <3>1. ~Begun(tx[c]) /\ durable' = Append(durable, <<tx[c], at[c]>>)
      BY <1>4, <1>9, <2>3 DEF Prefix, Statement, ServerExecute
    <3>2. ~Begun(tx[c])'
      BY <2>1, <3>1 DEF Begun
    <3> DEFINE w == << <<tx[c], at[c]>> >>
    <3>3. /\ w \in Seq(Txs \X Nat) /\ durable' = durable \o w
          /\ \A n \in DOMAIN w : w[n][1] = tx[c]
      <4> DEFINE s == <<tx[c], at[c]>>
      <4>1. durable \in Seq(Txs \X Nat) /\ s \in Txs \X Nat /\ s[1] = tx[c]
        BY <2>1 DEF Server
      <4>2. w = <<s>> /\ durable' = Append(durable, s)
        BY <3>1
      <4> HIDE DEF s, w
      <4>3. durable' = durable \o w
        BY <4>1, <4>2, AppendIsConcat
      <4>4. w \in Seq(Txs \X Nat) /\ \A n \in DOMAIN w : w[n] = s
        BY <4>1, <4>2
      <4> QED
        BY <4>1, <4>3, <4>4
    <3>4. \A u \in Txs \ {tx[c]} : (NoTrace(u) => NoTrace(u)') /\ (Whole(u) => Whole(u)')
      <4> HIDE DEF w
      <4> QED
        BY <2>1, <3>3, OthersKept
    <3> QED
      BY <1>5, <2>1, <3>2, <3>4
  <2> QED
    BY <2>2, <2>3
<1>10. CASE Rollback(c)
  BY <1>4, <1>6, <1>10 DEF Rollback, ServerRollback, Prefix, Committed, HasTask
<1>11. CASE Commit(c)
  <2>1. PICK t \in Txs : t = tx[c]
    BY <1>11 DEF Commit, HasTask
  <2>2. PICK w \in Seq(Txs \X Nat) : w = work[c]
    BY DEF Server
  <2>3. /\ ~Committed(c) /\ Committed(c)' /\ durable' = durable \o w
        /\ UNCHANGED <<tx, outcome, faults>>
        /\ \A d \in Conns \ {c} : pc'[d] = pc[d] /\ err'[d] = err[d]
    BY <1>11, <2>2 DEF Commit, ServerCommit, Committed
  <2>4. \A n \in DOMAIN w : w[n][1] = t
    BY <1>4, <2>1, <2>2 DEF Prefix
  <2>5. \A u \in Txs \ {t} : (NoTrace(u) => NoTrace(u)') /\ (Whole(u) => Whole(u)')
    BY <2>3, <2>4, OthersKept
  <2>6. ASSUME Begun(t)' PROVE Reported(t)'
    <3>1. Begun(t)
      BY <1>3, <2>6
    <3>2. (\A n \in DOMAIN w : w[n] = <<t, n>>) /\ Len(w) = Size[t]
      BY <1>4, <1>11, <2>1, <2>2, <3>1 DEF Commit, Prefix
    <3>3. NoTrace(t)
      BY <2>1, <2>3, <3>1 DEF DurableFromCommit
    <3>4. Whole(t)'
      BY <2>3, <3>2, <3>3, CommitWhole
    <3> QED
      BY <3>4 DEF Reported
  <2> HIDE DEF Committed, NoTrace, Whole, Begun, Reported
  <2> QED
    BY <1>5, <2>1, <2>3, <2>5, <2>6
<1>12. CASE CommitRefused(c)
  <2>1. PICK t \in Txs : t = tx[c]
    BY <1>12 DEF CommitRefused, HasTask
  <2>2. /\ ~Committed(c) /\ UNCHANGED <<durable, tx, outcome>> /\ <<t, "commit">> \in faults'.ignored
        /\ \A d \in Conns \ {c} : pc'[d] = pc[d] /\ err'[d] = err[d]
    BY <1>12, <2>1 DEF CommitRefused, Ignore, ServerRollback, Committed, Counters
  <2>3. \A u \in Txs : (NoTrace(u) => NoTrace(u)') /\ (Whole(u) => Whole(u)')
    BY <2>2, SameLog
  <2>4. ASSUME Begun(t)' PROVE NoTrace(t)'
    BY <1>3, <2>1, <2>2, <2>3, <2>4 DEF DurableFromCommit
  <2>5. Begun(t)' => Reported(t)' /\ NoTrace(t)'
    BY <2>2, <2>4 DEF Reported
  <2> HIDE DEF Committed, NoTrace, Whole, Begun, Reported
  <2> QED
    BY <1>5, <2>1, <2>2, <2>3, <2>5
<1>13. CASE Deadlock(c)
  BY <1>6, <1>13 DEF Deadlock, ServerRollback, Committed, HasTask
<1>14. CASE Refusal(c) \/ FatalError(c)
  BY <1>6, <1>14 DEF Refusal, FatalError, serverVars, Committed, HasTask
<1>15. CASE Succeed(c) \/ GiveUp(c)
  <2>1. PICK t \in Txs : t = tx[c]
    BY <1>15 DEF Succeed, GiveUp, HasTask
  <2>2. /\ UNCHANGED durable /\ tx' = [tx EXCEPT ![c] = Null]
        /\ \/ Committed(c) /\ outcome' = [outcome EXCEPT ![t] = "ok"]
           \/ ~Committed(c) /\ outcome' = [outcome EXCEPT ![t] = "failed"]
        /\ \A d \in Conns \ {c} : Committed(d)' <=> Committed(d)
    BY <1>15, <2>1 DEF Succeed, GiveUp, Finish, serverVars, Committed
  <2>3. \A u \in Txs : (NoTrace(u) => NoTrace(u)') /\ (Reported(u) => Reported(u)')
    BY <1>3, <2>2, SameLog
  <2> HIDE DEF Committed, NoTrace, Whole, Begun, Reported
  <2> QED
    BY <1>3, <2>1, <2>2, <2>3 DEF DurableFromCommit, TxOfOne
<1>16. CASE WantLock(c) \/ TakeLock(c) \/ Retry(c)
  BY <1>6, <1>16 DEF WantLock, TakeLock, Retry, serverVars, Committed, HasTask
<1>17. CASE \E t \in Txs : Start(c, t)
  <2>1. PICK t \in Txs : Start(c, t)
    BY <1>17
  <2>2. /\ ~Committed(c)' /\ tx' = [tx EXCEPT ![c] = t] /\ UNCHANGED <<durable, outcome>>
        /\ outcome[t] = "none" /\ (\A d \in Conns : tx[d] # t) /\ tx[c] = Null
        /\ \A d \in Conns \ {c} : Committed(d)' <=> Committed(d)
    BY <2>1 DEF Start, serverVars, Committed, TxOfOne
  <2>3. \A u \in Txs : (NoTrace(u) => NoTrace(u)') /\ (Reported(u) => Reported(u)')
    BY <1>3, <2>2, SameLog
  <2> HIDE DEF Committed, NoTrace, Whole, Begun, Reported
  <2>4. Begun(t) => NoTrace(t)
    BY <2>2 DEF DurableFromCommit
  <2> QED
    BY <1>3, <2>2, <2>3, <2>4 DEF DurableFromCommit, TxOfOne
<1> QED
  BY <1>7, <1>8, <1>9, <1>10, <1>11, <1>12, <1>13, <1>14, <1>15, <1>16, <1>17, ConnectedStep

\* Every step preserves the invariant.
LEMMA NextAtomicInv == AtomicInv /\ [Next]_vars => AtomicInv'
<1>1. ASSUME AtomicInv, NEW c \in Conns, Step(c), IInv' PROVE AtomicInv'
  <2>1. /\ IInv /\ TxOfOne /\ AttemptBegins /\ WhileConnected
        /\ Flags /\ Server /\ Counters /\ Control /\ HasTask
        /\ NothingOutside /\ OutsideAtReturn /\ WaitersAreWorkers
    BY <1>1, TypeParts DEF AtomicInv, IInv
  <2>2. ServerStep(c)
    BY <1>1, <2>1, StepIsServerStep DEF IInv
  <2>3. TxOfOne' /\ AttemptBegins'
    BY <1>1, <2>1, <2>2, TxStep, AttemptStep
  <2>4. ASSUME faults'.loss = 0 PROVE Connected' /\ WorkIsPrefix' /\ DurableFromCommit'
    BY <1>1, <2>1, <2>2, <2>4, ConnectedStep, WorkStep, DurableStep
  <2> QED
    BY <1>1, <2>3, <2>4 DEF AtomicInv, WhileConnected
<1>2. ASSUME AtomicInv, UNCHANGED vars, IInv' PROVE AtomicInv'
  <2>1. TxOfOne' /\ AttemptBegins'
    BY <1>2 DEF AtomicInv, TxOfOne, AttemptBegins, vars, serverVars
  <2>2. UNCHANGED <<durable, tx, outcome, faults, pc, err, handle, recon, open, work, at>>
    BY <1>2 DEF vars, serverVars
  <2>3. WhileConnected'
    BY <1>2, <2>2 DEF AtomicInv, WhileConnected, Connected, WorkIsPrefix, Prefix,
       DurableFromCommit, Committed, Reported, Begun, NoTrace, Whole
  <2> QED
    BY <1>2, <2>1, <2>3 DEF AtomicInv
<1>3. AtomicInv /\ [Next]_vars => IInv'
  BY NextIInv DEF AtomicInv
<1> QED
  BY <1>1, <1>2, <1>3 DEF Next, Step, Ended

-----------------------------------------------------------------------------
\* As long as no connection is lost, the sessions hold a prefix of what they
\* execute and the log the transactions that have been committed.
THEOREM AtomicInvariance == Spec => []AtomicInv
BY InitAtomicInv, NextAtomicInv, PTL DEF Spec

\* Deadlocks, refused statements, refused COMMITs and retries never leave a part of
\* a transaction durable, nor make one durable twice, as long as no connection is
\* lost and its START TRANSACTION was not refused.
THEOREM RetriesAreAtomic == Spec => []AtomicWhileConnected
<1>1. AtomicInv => AtomicWhileConnected
  <2> SUFFICES ASSUME AtomicInv, faults.loss = 0, NEW t \in Txs, Begun(t)
               PROVE  NoTrace(t) \/ Whole(t)
    BY DEF AtomicWhileConnected
  <2>1. DurableFromCommit /\ Control
    BY TypeParts DEF AtomicInv, WhileConnected, IInv
  <2>2. CASE \E c \in Conns : tx[c] = t
    BY <2>1, <2>2, ConnsAssumption DEF DurableFromCommit, Reported
  <2>3. CASE \A c \in Conns : tx[c] # t
    BY <2>1, <2>3 DEF DurableFromCommit, Control, Reported
  <2> QED
    BY <2>2, <2>3
<1> QED
  BY <1>1, AtomicInvariance, PTL

\* The result of a transaction tells what became of it, as long as no connection
\* is lost and its START TRANSACTION was not refused, with one exception: success
\* is also reported for one that left no trace because its COMMIT failed.
THEOREM OutcomesAreHonest == Spec => []HonestOutcome
<1>1. AtomicInv => HonestOutcome
  BY DEF AtomicInv, WhileConnected, DurableFromCommit, Reported, HonestOutcome
<1> QED
  BY <1>1, AtomicInvariance, PTL
=============================================================================
