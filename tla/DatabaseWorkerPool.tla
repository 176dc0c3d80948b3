------------------------- MODULE DatabaseWorkerPool -------------------------
(***************************************************************************)
(* The asynchronous half of a database pool:                               *)
(*   database/Database/DatabaseWorkerPool.cpp  open, close, enqueue        *)
(*   database/Database/DatabaseWorker.cpp      one thread per connection   *)
(*   database/Database/DatabaseLoader.cpp      retrying a failed Open      *)
(*   common/Utilities/AsyncCallbackProcessor.h polling of the futures      *)
(*                                                                         *)
(* All asynchronous connections of a pool share one PCQueue, which the     *)
(* pool creates once.  A connection starts its worker when constructed and *)
(* stops it in its destructor: set the worker's token, Cancel the shared   *)
(* queue, join.  The operations (statements, holders, transactions) are    *)
(* model values; what matters of one is whether it carries a promise.  The *)
(* client is the thread that owns the callback processor (the world        *)
(* thread); a callback it invokes may chain one more query to the same     *)
(* QueryCallback, or add a callback of its own to the processor.           *)
(***************************************************************************)
EXTENDS PCQueue, SequencesExt

CONSTANTS Workers,          \* the asynchronous connections, one worker each
          Ops,              \* the operations the client may enqueue
          MaxOpenFailures   \* bound: how often opening a connection fails

ASSUME PoolAssumption ==
    /\ IsFiniteSet(Workers) /\ Workers # {}
    /\ Null \notin Ops \cup Workers
    /\ MaxOpenFailures \in Nat

VARIABLES pool,        \* "new", "opening", "failing", "failed", "open",
                       \* "closing" or "closed"
          failures,    \* connections that could not be opened so far
          conns,       \* _connections[IDX_ASYNC], and the one being opened
          connecting,  \* the connection inside MySQLConnection::Open, or Null
          dying,       \* the connections still to be destroyed
          dtor,        \* <<connection, step>> of the running ~DatabaseWorker
          token,       \* _cancelationToken of each worker
          wk,          \* where each worker is
          op,          \* the operation each worker holds
          promise,     \* per operation: "none", "unset", "set" or "broken"
          callbacks,   \* AsyncCallbackProcessor::_callbacks
          pass,        \* ProcessReadyCallbacks: what is left of updateCallbacks
          kept,        \* ProcessReadyCallbacks: the ones not ready
          inPass,      \* the client is inside ProcessReadyCallbacks
          enqueued,    \* history: the operations in the order of Enqueue
          executed,    \* history: the operations in the order they completed
          invoked      \* history: the callbacks in the order of invocation

lifeVars   == <<pool, failures, conns, connecting, dying, dtor>>
workerVars == <<token, wk, op>>
clientVars == <<callbacks, pass, kept, inPass>>
history    == <<enqueued, executed, invoked>>
vars == <<queueVars, lifeVars, workerVars, promise, clientVars, history>>

Init ==
    /\ QueueInit
    /\ pool = "new" /\ failures = 0 /\ conns = {} /\ connecting = Null
    /\ dying = {} /\ dtor = <<Null, "none">>
    /\ token = [w \in Workers |-> FALSE]
    /\ wk = [w \in Workers |-> "none"]
    /\ op = [w \in Workers |-> Null]
    /\ promise = [o \in Ops |-> "none"]
    /\ callbacks = <<>> /\ pass = <<>> /\ kept = <<>> /\ inPass = FALSE
    /\ enqueued = <<>> /\ executed = <<>> /\ invoked = <<>>

Queued == ToSet(queue)
Fresh == Ops \ ToSet(enqueued)

-----------------------------------------------------------------------------
(* Open, as DatabaseLoader::AddDatabase calls it: again after a failure. *)

OpenPool ==
    /\ pool \in {"new", "failed"}
    /\ pool' = "opening"
    /\ UNCHANGED <<queueVars, failures, conns, connecting, dying, dtor,
                   workerVars, promise, clientVars, history>>

\* MySQLConnection(queue, info): the worker thread runs from here on.
ConstructConnection(w) ==
    /\ pool = "opening" /\ connecting = Null /\ w \notin conns
    /\ connecting' = w
    /\ conns' = conns \cup {w}
    /\ token' = [token EXCEPT ![w] = FALSE]
    /\ wk' = [wk EXCEPT ![w] = "pop"]
    /\ UNCHANGED <<queueVars, pool, failures, dying, dtor, op, promise,
                   clientVars, history>>

\* Open() succeeds and the version is accepted.
ConnectionOpens ==
    /\ connecting # Null
    /\ connecting' = Null
    /\ pool' = IF conns = Workers THEN "open" ELSE pool
    /\ UNCHANGED <<queueVars, failures, conns, dying, dtor, workerVars,
                   promise, clientVars, history>>

\* Open() fails: every connection opened so far and this one are destroyed.
ConnectionFails ==
    /\ connecting # Null
    /\ failures < MaxOpenFailures
    /\ failures' = failures + 1
    /\ connecting' = Null
    /\ pool' = "failing"
    /\ dying' = conns
    /\ UNCHANGED <<queueVars, conns, dtor, workerVars, promise, clientVars,
                   history>>

\* No attempt is left: the process exits without a usable pool.
GiveUp ==
    /\ pool = "failed"
    /\ pool' = "closed"
    /\ UNCHANGED <<queueVars, failures, conns, connecting, dying, dtor,
                   workerVars, promise, clientVars, history>>

-----------------------------------------------------------------------------
(* Close, and ~DatabaseWorker of one connection after the other. *)

\* Called when no other thread uses the pool any more.
Close ==
    /\ pool = "open" /\ ~inPass
    /\ pool' = "closing"
    /\ dying' = conns
    /\ UNCHANGED <<queueVars, failures, conns, connecting, dtor, workerVars,
                   promise, clientVars, history>>

StopWorker(w) ==
    /\ w \in dying /\ dtor[2] = "none"
    /\ token' = [token EXCEPT ![w] = TRUE]
    /\ dtor' = <<w, "cancel">>
    /\ UNCHANGED <<queueVars, pool, failures, conns, connecting, dying, wk, op,
                   promise, clientVars, history>>

\* Cancel deletes the queued operations, and a promise with its operation.
CancelQueue ==
    /\ dtor[2] = "cancel"
    /\ Cancel
    /\ promise' = [o \in Ops |-> IF o \in Queued /\ promise[o] = "unset"
                                 THEN "broken" ELSE promise[o]]
    /\ dtor' = <<dtor[1], "join">>
    /\ UNCHANGED <<pool, failures, conns, connecting, dying, workerVars,
                   clientVars, history>>

\* Mutant of JoinWorker: the thread is detached instead of joined.
DetachWorker ==
    /\ dtor[2] = "join"
    /\ dying' = dying \ {dtor[1]}
    /\ conns' = conns \ {dtor[1]}
    /\ dtor' = <<Null, "none">>
    /\ UNCHANGED <<queueVars, pool, failures, connecting, workerVars, promise,
                   clientVars, history>>

\* join() returns; then the MySQL handle of the connection is closed.
JoinWorker ==
    /\ dtor[2] = "join"
    /\ wk[dtor[1]] = "exited"
    /\ dying' = dying \ {dtor[1]}
    /\ conns' = conns \ {dtor[1]}
    /\ dtor' = <<Null, "none">>
    /\ UNCHANGED <<queueVars, pool, failures, connecting, workerVars, promise,
                   clientVars, history>>

AllDestroyed ==
    /\ pool \in {"failing", "closing"}
    /\ dying = {}
    /\ pool' = IF pool = "failing" THEN "failed" ELSE "closed"
    /\ UNCHANGED <<queueVars, failures, conns, connecting, dying, dtor,
                   workerVars, promise, clientVars, history>>

-----------------------------------------------------------------------------
(* The client: Execute, AsyncQuery and the callback processor. *)

\* Enqueue: one Push of a new operation, with or without a promise.
Enqueue(o, p) ==
    /\ pool = "open"
    /\ o \in Fresh
    /\ Push(o)
    /\ promise' = [promise EXCEPT ![o] = p]
    /\ enqueued' = Append(enqueued, o)

\* Execute and CommitTransaction: nobody waits for the outcome.
Execute(o) ==
    /\ ~inPass
    /\ Enqueue(o, "none")
    /\ UNCHANGED <<lifeVars, workerVars, clientVars, executed, invoked>>

\* AsyncQuery, DelayQueryHolder and AsyncCommitTransaction with AddCallback.
AsyncQuery(o) ==
    /\ ~inPass
    /\ Enqueue(o, "unset")
    /\ callbacks' = Append(callbacks, o)
    /\ UNCHANGED <<lifeVars, workerVars, pass, kept, inPass, executed, invoked>>

\* ProcessReadyCallbacks moves the vector away before it walks through it.
BeginPass ==
    /\ pool = "open" /\ ~inPass /\ callbacks # <<>>
    /\ inPass' = TRUE
    /\ pass' = callbacks /\ callbacks' = <<>> /\ kept' = <<>>
    /\ UNCHANGED <<queueVars, lifeVars, workerVars, promise, history>>

\* Mutant of Ready: the state of the future is not polled.
AlwaysReady(o) == o \in Ops

\* wait_for(0s) == ready: a broken promise counts as ready too.
Ready(o) == promise[o] \in {"set", "broken"}

InvokeReady ==
    /\ inPass /\ pass # <<>>
    /\ Ready(Head(pass))
    /\ invoked' = Append(invoked, Head(pass))
    /\ pass' = Tail(pass)
    /\ UNCHANGED <<queueVars, lifeVars, workerVars, promise, callbacks, kept,
                   inPass, enqueued, executed>>

\* InvokeIfReady with SetNextQuery: the QueryCallback stays, with a new future.
InvokeAndChain(o) ==
    /\ inPass /\ pass # <<>>
    /\ Ready(Head(pass))
    /\ Enqueue(o, "unset")
    /\ kept' = Append(kept, o)
    /\ invoked' = Append(invoked, Head(pass))
    /\ pass' = Tail(pass)
    /\ UNCHANGED <<lifeVars, workerVars, callbacks, inPass, executed>>

\* The callback itself starts a query and adds it to the processor.
InvokeAndAdd(o) ==
    /\ inPass /\ pass # <<>>
    /\ Ready(Head(pass))
    /\ Enqueue(o, "unset")
    /\ callbacks' = Append(callbacks, o)
    /\ invoked' = Append(invoked, Head(pass))
    /\ pass' = Tail(pass)
    /\ UNCHANGED <<lifeVars, workerVars, kept, inPass, executed>>

KeepUnready ==
    /\ inPass /\ pass # <<>>
    /\ ~Ready(Head(pass))
    /\ kept' = Append(kept, Head(pass))
    /\ pass' = Tail(pass)
    /\ UNCHANGED <<queueVars, lifeVars, workerVars, promise, callbacks, inPass,
                   history>>

\* Mutant of EndPass: the vector is assigned, not appended to.
EndPassOverwrites ==
    /\ inPass /\ pass = <<>>
    /\ inPass' = FALSE
    /\ callbacks' = kept /\ kept' = <<>>
    /\ UNCHANGED <<queueVars, lifeVars, workerVars, promise, pass, history>>

\* The unready ones go behind those that callbacks have added meanwhile.
EndPass ==
    /\ inPass /\ pass = <<>>
    /\ inPass' = FALSE
    /\ callbacks' = callbacks \o kept /\ kept' = <<>>
    /\ UNCHANGED <<queueVars, lifeVars, workerVars, promise, pass, history>>

-----------------------------------------------------------------------------
(* DatabaseWorker::WorkerThread. *)

WorkerSleeps(w) ==
    /\ wk[w] = "pop"
    /\ WaitOnCondition(w)
    /\ UNCHANGED <<lifeVars, workerVars, promise, clientVars, history>>

WorkerWakes(w) ==
    /\ SpuriousWakeup(w)
    /\ UNCHANGED <<lifeVars, workerVars, promise, clientVars, history>>

WorkerPops(w) ==
    /\ wk[w] = "pop"
    /\ \E o \in Ops \cup {Null} :
          /\ WaitAndPop(w, o)
          /\ op' = [op EXCEPT ![w] = o]
    /\ wk' = [wk EXCEPT ![w] = "popped"]
    /\ UNCHANGED <<lifeVars, token, promise, clientVars, history>>

\* A worker whose token is set leaves even with an operation in its hands.
WorkerChecks(w) ==
    /\ wk[w] = "popped"
    /\ wk' = [wk EXCEPT ![w] = IF token[w] \/ op[w] = Null THEN "exited" ELSE "run"]
    /\ UNCHANGED <<queueVars, lifeVars, token, op, promise, clientVars, history>>

\* operation->call() sets the promise, whatever the outcome of the query.
WorkerExecutes(w) ==
    /\ wk[w] = "run"
    /\ promise' = [promise EXCEPT ![op[w]] = IF @ = "unset" THEN "set" ELSE @]
    /\ executed' = Append(executed, op[w])
    /\ op' = [op EXCEPT ![w] = Null]
    /\ wk' = [wk EXCEPT ![w] = "pop"]
    /\ UNCHANGED <<queueVars, lifeVars, token, clientVars, enqueued, invoked>>

-----------------------------------------------------------------------------
Lifecycle ==
    \/ OpenPool \/ ConnectionOpens \/ ConnectionFails \/ GiveUp
    \/ CancelQueue \/ JoinWorker \/ AllDestroyed
    \/ \E w \in Workers : ConstructConnection(w) \/ StopWorker(w)

Processor ==
    \/ BeginPass \/ InvokeReady \/ KeepUnready \/ EndPass
    \/ \E o \in Ops : InvokeAndChain(o) \/ InvokeAndAdd(o)

WorkerRuns(w) ==
    \/ WorkerSleeps(w) \/ WorkerPops(w) \/ WorkerChecks(w) \/ WorkerExecutes(w)

Terminated == pool = "closed" /\ UNCHANGED vars

Next ==
    \/ Lifecycle \/ Close \/ Processor
    \/ \E o \in Ops : Execute(o) \/ AsyncQuery(o)
    \/ \E w \in Workers : WorkerRuns(w) \/ WorkerWakes(w)
    \/ Terminated

\* The loader and the destructors run on, the world thread polls in every
\* update, and workers that can run do.  Nothing forces an enqueue or a Close.
Fairness ==
    /\ WF_vars(Lifecycle)
    /\ WF_vars(Processor)
    /\ \A w \in Workers : WF_vars(WorkerRuns(w))

Spec == Init /\ [][Next]_vars /\ Fairness

-----------------------------------------------------------------------------
(* Properties. *)

\* The types of the pool: what is being opened or destroyed is a connection of
\* the pool (_connections), and what is queued was enqueued.
TypeOK ==
    /\ queue \in Seq(Ops) /\ shutdown \in BOOLEAN /\ sleeping \subseteq Workers
    /\ pool \in {"new", "opening", "failing", "failed", "open", "closing",
                 "closed"}
    /\ failures \in 0..MaxOpenFailures
    /\ conns \subseteq Workers /\ dying \subseteq conns
    /\ connecting \in conns \cup {Null}
    /\ dtor \in (Workers \X {"cancel", "join"}) \cup {<<Null, "none">>}
    /\ token \in [Workers -> BOOLEAN]
    /\ wk \in [Workers -> {"none", "pop", "popped", "run", "exited"}]
    /\ op \in [Workers -> Ops \cup {Null}]
    /\ promise \in [Ops -> {"none", "unset", "set", "broken"}]
    /\ inPass \in BOOLEAN
    /\ \A s \in {callbacks, pass, kept, enqueued, executed, invoked} :
          s \in Seq(Ops)

\* No operation is run by two workers, or twice, or without being enqueued:
\* while it is queued or held by a worker it has not been executed.
ExecutedOnce ==
    /\ IsInjective(executed)
    /\ ToSet(executed) \subseteq ToSet(enqueued)
    /\ ToSet(executed) \cap (Queued \cup {op[w] : w \in Workers}) = {}
    /\ \A v, w \in Workers : op[v] = op[w] /\ op[v] # Null => v = w

\* A callback runs at most once and only on a result its worker has set, never
\* on the broken promise of a deleted operation, where future::get throws.
CallbackOnResult ==
    /\ IsInjective(invoked)
    /\ \A o \in ToSet(invoked) : promise[o] = "set"

\* The processor loses no callback and keeps none twice, although callbacks add
\* to the vector that ProcessReadyCallbacks is about to put back together.
NoLostCallback ==
    /\ IsInjective(callbacks \o pass \o kept \o invoked)
    /\ ToSet(callbacks \o pass \o kept \o invoked)
          = {o \in Ops : promise[o] # "none"}

\* A worker that runs an operation has a connection which is completely opened
\* and which no destructor has torn down: ~MySQLConnection joins first.
RunsOnOpenConnection ==
    \A w \in Workers : wk[w] = "run" => w \in conns \ {connecting}

\* No worker calls the null operation that a Cancel issued on behalf of another
\* connection leaves it with.
NoNullOperation == \A w \in Workers : wk[w] = "run" => op[w] # Null

\* What a worker runs is an operation on an open connection, whatever happens to
\* the other connections of the pool: Open that fails half-way, Cancel, Close.
RunsSafely == RunsOnOpenConnection /\ NoNullOperation

\* Close and the clean-up of a failed Open return: no join hangs on a worker
\* that nobody woke.
DestructionEnds == pool \in {"failing", "closing"} ~> dying = {}

\* Asynchronous queries are answered while the pool is open: "will set the
\* value of the QueryResultFuture return object as soon as the query is
\* executed" (DatabaseWorkerPool.h), and the callback is invoked; if the first
\* Open has succeeded.  After a failed one the queue stays cancelled, and no
\* query is answered.
AnsweredAtFirstOpen ==
    \A o \in Ops : failures = 0 /\ o \in ToSet(enqueued) /\ promise[o] # "none"
                      ~> o \in ToSet(invoked) \/ pool # "open"

\* When an operation has completed, every operation enqueued before it has
\* completed or is in the hands of a worker.  With one worker (the default) a
\* query therefore sees every write enqueued before it.
CompletesInOrder ==
    \A m, n \in DOMAIN enqueued :
        m < n /\ enqueued[n] \in ToSet(executed)
            => enqueued[m] \in ToSet(executed) \cup {op[w] : w \in Workers}

\* What KickAll promises with "Kick (and save) all players": the writes that
\* were enqueued are executed by the time the pool is closed.
SavedBeforeClose == pool = "closed" => ToSet(enqueued) \subseteq ToSet(executed)
=============================================================================
