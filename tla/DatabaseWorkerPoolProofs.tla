---------------------- MODULE DatabaseWorkerPoolProofs ----------------------
(***************************************************************************)
(* DatabaseWorkerPool for any number of connections, operations and        *)
(* failed attempts to open: no worker runs an operation on a connection    *)
(* that is not open yet or not any more, and none calls a null operation;  *)
(* no operation is executed twice or overtakes another one; no callback    *)
(* is lost, called twice or called without a result.                       *)
(*                                                                         *)
(* A worker starts inside the constructor of its connection, before Open,  *)
(* and the code has nothing that holds it back.  What does is that nobody  *)
(* enqueues before the pool is open (QuietUntilOpen), which also has to    *)
(* survive failed attempts; and that a connection leaves the pool only     *)
(* when its worker has been joined (OwnConnection, Phases).                *)
(*                                                                         *)
(* The operations: each is in one place at a time, and the queue is the    *)
(* end of what was enqueued, so that operations leave it in that order     *)
(* (PathInv).  The callbacks: a promise is broken only once the pool is    *)
(* being closed, and no callback is looked at from then on (CallbackInv).  *)
(***************************************************************************)
EXTENDS DatabaseWorkerPool, SequenceLemmas, TLAPS

\* A worker that has not exited belongs to a connection, and runs only what it
\* has popped.
OwnConnection ==
    \A w \in Workers :
        /\ wk[w] \in {"pop", "popped", "run"} => w \in conns
        /\ wk[w] = "run" => op[w] # Null

\* There is nothing to execute before the first successful Open.
QuietUntilOpen ==
    pool \in {"new", "opening", "failing", "failed"} =>
        queue = <<>> /\ \A w \in Workers : op[w] = Null

\* Connections are opened in one phase of the pool's life and destroyed in others,
\* and a destructor that has begun is that of a connection still in the pool.
Phases ==
    /\ connecting # Null => pool = "opening"
    /\ dying # {} => pool \in {"failing", "closing"}
    /\ dtor[2] # "none" => dtor[1] \in dying

IInv == TypeOK /\ OwnConnection /\ QuietUntilOpen /\ Phases

-----------------------------------------------------------------------------
(* The type invariant, in parts that fit the provers. *)

Flags == shutdown \in BOOLEAN /\ inPass \in BOOLEAN /\ token \in [Workers -> BOOLEAN]

Queues ==
    /\ queue \in Seq(Ops)
    /\ callbacks \in Seq(Ops) /\ pass \in Seq(Ops) /\ kept \in Seq(Ops)
    /\ enqueued \in Seq(Ops) /\ executed \in Seq(Ops) /\ invoked \in Seq(Ops)

Life ==
    /\ pool \in {"new", "opening", "failing", "failed", "open", "closing", "closed"}
    /\ failures \in 0..MaxOpenFailures
    /\ conns \subseteq Workers /\ dying \subseteq conns
    /\ connecting \in conns \cup {Null}
    /\ dtor \in (Workers \X {"cancel", "join"}) \cup {<<Null, "none">>}

Threads ==
    /\ sleeping \subseteq Workers
    /\ wk \in [Workers -> {"none", "pop", "popped", "run", "exited"}]
    /\ op \in [Workers -> Ops \cup {Null}]
    /\ promise \in [Ops -> {"none", "unset", "set", "broken"}]

\* The parts make up the type invariant.
LEMMA TypeParts == TypeOK <=> Flags /\ Queues /\ Life /\ Threads
BY DEF TypeOK, Flags, Queues, Life, Threads

\* Initially there is no connection and nothing is queued.
LEMMA InitIInv == Init => IInv
<1> SUFFICES ASSUME Init PROVE IInv
  OBVIOUS
<1> USE DEF Init, QueueInit
<1>1. Flags
  BY Zenon DEF Flags
<1>2. Queues
  BY DEF Queues
<1>3. Life
  BY PoolAssumption DEF Life
<1>4. Threads
  BY DEF Threads
<1>5. OwnConnection /\ QuietUntilOpen /\ Phases
  BY DEF OwnConnection, QuietUntilOpen, Phases
<1> QED
  BY <1>1, <1>2, <1>3, <1>4, <1>5, TypeParts DEF IInv
-----------------------------------------------------------------------------
(* The queue and the client. *)

\* notify_one takes a thread out of the sleepers and adds none.
LEMMA NotifyType == ASSUME sleeping \subseteq Workers, NotifyOne
                    PROVE  sleeping' \subseteq Workers
BY DEF NotifyOne

\* Enqueue keeps the types, and happens only while the pool is open.
LEMMA EnqueueType ==
    ASSUME Queues, Threads, NEW o \in Ops, NEW p \in {"none", "unset"}, Enqueue(o, p)
    PROVE  /\ queue' \in Seq(Ops) /\ enqueued' \in Seq(Ops)
           /\ sleeping' \subseteq Workers /\ shutdown' = shutdown
           /\ promise' \in [Ops -> {"none", "unset", "set", "broken"}]
           /\ pool = "open"
<1>1. sleeping' \subseteq Workers
  BY NotifyType DEF Enqueue, Push, Threads
<1> QED
  BY <1>1 DEF Enqueue, Push, Queues, Threads

\* Every step keeps the Boolean variables Boolean.
LEMMA FlagsStep == ASSUME Flags, Next PROVE Flags'
<1> USE DEF Flags, queueVars, lifeVars, workerVars, clientVars, history
<1>1. CASE Lifecycle \/ Close
  BY <1>1, Zenon DEF Lifecycle, OpenPool, ConnectionOpens, ConnectionFails, GiveUp, CancelQueue,
     Cancel, JoinWorker, AllDestroyed, ConstructConnection, StopWorker, Close
<1>2. CASE Processor
  BY <1>2, Zenon DEF Processor, BeginPass, InvokeReady, KeepUnready, EndPass, InvokeAndChain,
     InvokeAndAdd, Enqueue, Push
<1>3. CASE \E o \in Ops : Execute(o) \/ AsyncQuery(o)
  BY <1>3, Zenon DEF Execute, AsyncQuery, Enqueue, Push
<1>4. CASE \E w \in Workers : WorkerRuns(w) \/ WorkerWakes(w)
  BY <1>4, Zenon DEF WorkerRuns, WorkerWakes, WorkerSleeps, WorkerPops, WorkerChecks,
     WorkerExecutes, WaitOnCondition, WaitAndPop, SpuriousWakeup
<1>5. CASE Terminated
  BY <1>5, Zenon DEF Terminated, vars
<1> QED
  BY <1>1, <1>2, <1>3, <1>4, <1>5 DEF Next

-----------------------------------------------------------------------------
(* Opening and destroying connections. *)

\* What the steps of this part leave alone or simplify.
LEMMA LifecycleQueues ==
    ASSUME Queues, Threads, Lifecycle \/ Close
    PROVE  /\ Queues' /\ (queue' = queue \/ queue' = <<>>)
           /\ Threads' /\ op' = op
<1> USE DEF queueVars, lifeVars, workerVars, clientVars, history
<1>1. CASE CancelQueue
  BY <1>1 DEF CancelQueue, Cancel, Queues, Threads
<1>2. ASSUME NEW w \in Workers, ConstructConnection(w) PROVE Queues' /\ queue' = queue /\ Threads' /\ op' = op
  BY <1>2 DEF ConstructConnection, Queues, Threads
<1>3. ASSUME NEW w \in Workers, StopWorker(w) PROVE Queues' /\ queue' = queue /\ Threads' /\ op' = op
  BY <1>3 DEF StopWorker, Queues, Threads
<1>4. CASE OpenPool \/ ConnectionOpens \/ ConnectionFails \/ GiveUp \/ JoinWorker \/ AllDestroyed \/ Close
  BY <1>4 DEF OpenPool, ConnectionOpens, ConnectionFails, GiveUp, JoinWorker, AllDestroyed, Close,
     Queues, Threads
<1> QED
  BY <1>1, <1>2, <1>3, <1>4 DEF Lifecycle

\* The phases of the pool follow one another: nothing is being opened while
\* connections are destroyed.
LEMMA LifecyclePhases ==
    ASSUME Life, Phases, Lifecycle \/ Close
    PROVE  Life' /\ Phases'
<1> USE PoolAssumption DEF Life, Phases
<1>1. CASE OpenPool \/ GiveUp
  BY <1>1 DEF OpenPool, GiveUp
<1>2. ASSUME NEW w \in Workers, ConstructConnection(w) PROVE Life' /\ Phases'
  BY <1>2 DEF ConstructConnection
<1>3. CASE ConnectionOpens
  BY <1>3 DEF ConnectionOpens
<1>4. CASE ConnectionFails
  BY <1>4 DEF ConnectionFails
<1>5. CASE Close
  BY <1>5 DEF Close
<1>6. ASSUME NEW w \in Workers, StopWorker(w) PROVE Life' /\ Phases'
  BY <1>6 DEF StopWorker
<1>7. CASE CancelQueue
  BY <1>7 DEF CancelQueue
<1>8. CASE JoinWorker
  BY <1>8 DEF JoinWorker
<1>9. CASE AllDestroyed
  BY <1>9 DEF AllDestroyed
<1> QED
  BY <1>1, <1>2, <1>3, <1>4, <1>5, <1>6, <1>7, <1>8, <1>9 DEF Lifecycle

\* A connection leaves the pool when its worker has exited.
LEMMA LifecycleOwn ==
    ASSUME Life, Threads, OwnConnection, Lifecycle \/ Close
    PROVE  OwnConnection'
<1> USE DEF OwnConnection, Threads, workerVars
<1>1. ASSUME NEW w \in Workers, ConstructConnection(w) PROVE OwnConnection'
  BY <1>1 DEF ConstructConnection
<1>2. CASE JoinWorker
  BY <1>2 DEF JoinWorker
<1>3. ASSUME NEW w \in Workers, StopWorker(w) PROVE OwnConnection'
  BY <1>3 DEF StopWorker
<1>4. CASE OpenPool \/ ConnectionOpens \/ ConnectionFails \/ GiveUp \/ CancelQueue \/ AllDestroyed \/ Close
  BY <1>4 DEF OpenPool, ConnectionOpens, ConnectionFails, GiveUp, CancelQueue, AllDestroyed, Close
<1> QED
  BY <1>1, <1>2, <1>3, <1>4 DEF Lifecycle

\* No step of the pool's life leads back to a time before the first successful Open.
LEMMA LifecycleQuiet ==
    ASSUME Life, QuietUntilOpen, Phases, Lifecycle \/ Close,
           queue' = queue \/ queue' = <<>>, op' = op
    PROVE  QuietUntilOpen'
BY DEF QuietUntilOpen, Life, Phases, Lifecycle, OpenPool, ConnectionOpens, ConnectionFails, GiveUp,
   CancelQueue, JoinWorker, AllDestroyed, ConstructConnection, StopWorker, Close

-----------------------------------------------------------------------------
(* The client and the workers leave the life of the pool alone. *)

\* Execute, AsyncQuery and the callback processor enqueue only while the pool is
\* open, and leave connections and workers alone.
LEMMA ClientStep ==
    ASSUME Queues, Life, Threads, OwnConnection, QuietUntilOpen, Phases,
           Processor \/ \E o \in Ops : Execute(o) \/ AsyncQuery(o)
    PROVE  Queues' /\ Life' /\ Threads' /\ OwnConnection' /\ QuietUntilOpen' /\ Phases'
<1> USE DEF lifeVars, workerVars, clientVars, history, queueVars
<1>1. UNCHANGED <<lifeVars, workerVars>> /\ (pool = "open" \/ UNCHANGED queue)
  BY DEF Processor, BeginPass, InvokeReady, KeepUnready, EndPass, InvokeAndChain, InvokeAndAdd,
     Execute, AsyncQuery, Enqueue
<1>2. Life' /\ OwnConnection' /\ QuietUntilOpen' /\ Phases'
  BY <1>1 DEF Life, OwnConnection, QuietUntilOpen, Phases
<1>3. ASSUME NEW o \in Ops, NEW p \in {"none", "unset"}, Enqueue(o, p), UNCHANGED wk, UNCHANGED op
      PROVE  Threads' /\ queue' \in Seq(Ops) /\ enqueued' \in Seq(Ops)
  BY <1>3, EnqueueType DEF Threads
<1>4. ASSUME NEW o \in Ops, Execute(o) PROVE Queues' /\ Threads'
  <2>1. Enqueue(o, "none")
    BY <1>4 DEF Execute
  <2> QED
    BY <1>1, <1>3, <1>4, <2>1 DEF Execute, Queues
<1>5. ASSUME NEW o \in Ops, AsyncQuery(o) PROVE Queues' /\ Threads'
  <2>1. Enqueue(o, "unset")
    BY <1>5 DEF AsyncQuery
  <2> QED
    BY <1>1, <1>3, <1>5, <2>1 DEF AsyncQuery, Queues
<1>6. ASSUME NEW o \in Ops, InvokeAndChain(o) \/ InvokeAndAdd(o) PROVE Queues' /\ Threads'
  <2>1. Enqueue(o, "unset")
    BY <1>6 DEF InvokeAndChain, InvokeAndAdd
  <2>2. Head(pass) \in Ops /\ Tail(pass) \in Seq(Ops)
    BY <1>6 DEF InvokeAndChain, InvokeAndAdd, Queues
  <2>3. /\ Append(invoked, Head(pass)) \in Seq(Ops)
        /\ Append(kept, o) \in Seq(Ops) /\ Append(callbacks, o) \in Seq(Ops)
    BY <2>2 DEF Queues
  <2>4. Threads' /\ queue' \in Seq(Ops) /\ enqueued' \in Seq(Ops)
    BY <1>1, <1>3, <2>1
  <2> QED
    BY <1>6, <2>2, <2>3, <2>4 DEF InvokeAndChain, InvokeAndAdd, Queues
<1>7. ASSUME BeginPass \/ InvokeReady \/ KeepUnready \/ EndPass PROVE Queues' /\ Threads'
  <2>1. pass # <<>> => Head(pass) \in Ops /\ Tail(pass) \in Seq(Ops)
    BY DEF Queues
  <2>2. /\ pass # <<>> => /\ Append(invoked, Head(pass)) \in Seq(Ops)
                          /\ Append(kept, Head(pass)) \in Seq(Ops)
        /\ callbacks \o kept \in Seq(Ops) /\ <<>> \in Seq(Ops)
    BY <2>1 DEF Queues
  <2>4. Queues'
    BY <1>7, <2>1, <2>2 DEF BeginPass, InvokeReady, KeepUnready, EndPass, Queues
  <2>3. Threads'
    BY <1>7 DEF BeginPass, InvokeReady, KeepUnready, EndPass, Threads
  <2> QED
    BY <2>3, <2>4
<1> QED
  BY <1>2, <1>4, <1>5, <1>6, <1>7 DEF Processor

\* A worker runs only what it has popped, and before the pool is open it can pop
\* nothing but the null of a cancelled queue.
LEMMA WorkerStep ==
    ASSUME Queues, Life, Threads, OwnConnection, QuietUntilOpen, Phases,
           NEW w \in Workers, WorkerRuns(w) \/ WorkerWakes(w)
    PROVE  Queues' /\ Life' /\ Threads' /\ OwnConnection' /\ QuietUntilOpen' /\ Phases'
<1> USE DEF lifeVars, workerVars, clientVars, history, queueVars
<1>1. UNCHANGED lifeVars
  BY DEF WorkerRuns, WorkerSleeps, WorkerPops, WorkerChecks, WorkerExecutes, WorkerWakes
<1>2. Life' /\ Phases'
  BY <1>1 DEF Life, Phases
<1>3. CASE WorkerSleeps(w) \/ WorkerWakes(w)
  BY <1>1, <1>2, <1>3 DEF WorkerSleeps, WorkerWakes, WaitOnCondition, SpuriousWakeup,
     Queues, Threads, OwnConnection, QuietUntilOpen
<1>4. CASE WorkerPops(w)
  <2>1. PICK o \in Ops \cup {Null} : WaitAndPop(w, o) /\ op' = [op EXCEPT ![w] = o]
    BY <1>4 DEF WorkerPops
  <2>2. /\ queue' \in Seq(Ops) /\ sleeping' = sleeping
        /\ queue = <<>> => o = Null /\ queue' = <<>>
    <3>1. queue # <<>> => Tail(queue) \in Seq(Ops)
      BY DEF Queues
    <3> QED
      BY <2>1, <3>1 DEF WaitAndPop, Queues
  <2>3. Queues' /\ Threads'
    BY <1>4, <2>1, <2>2 DEF WorkerPops, Queues, Threads
  <2>4. OwnConnection'
    BY <1>1, <1>4, <2>1 DEF WorkerPops, OwnConnection, Threads
  <2>5. QuietUntilOpen'
    BY <1>1, <2>1, <2>2 DEF QuietUntilOpen, Threads
  <2> QED
    BY <1>2, <2>3, <2>4, <2>5
<1>5. CASE WorkerChecks(w)
  BY <1>1, <1>2, <1>5 DEF WorkerChecks, Queues, Threads, OwnConnection, QuietUntilOpen
<1>6. CASE WorkerExecutes(w)
  <2>1. op[w] \in Ops
    BY <1>6 DEF WorkerExecutes, OwnConnection, Threads
  <2>2. Queues' /\ Threads'
    BY <1>6, <2>1 DEF WorkerExecutes, Queues, Threads
  <2>3. OwnConnection' /\ QuietUntilOpen'
    BY <1>1, <1>6 DEF WorkerExecutes, Threads, OwnConnection, QuietUntilOpen
  <2> QED
    BY <1>2, <2>2, <2>3
<1> QED
  BY <1>3, <1>4, <1>5, <1>6 DEF WorkerRuns

-----------------------------------------------------------------------------
\* Every step preserves the inductive invariant.
LEMMA NextIInv == IInv /\ [Next]_vars => IInv'
<1>1. ASSUME IInv, Next PROVE IInv'
  <2>1. Flags /\ Queues /\ Life /\ Threads /\ OwnConnection /\ QuietUntilOpen /\ Phases
    BY <1>1, TypeParts DEF IInv
  <2>2. Flags'
    BY <1>1, <2>1, FlagsStep
  <2>3. Queues' /\ Life' /\ Threads' /\ OwnConnection' /\ QuietUntilOpen' /\ Phases'
    <3>1. CASE Lifecycle \/ Close
      <4>1. Queues' /\ Threads' /\ (queue' = queue \/ queue' = <<>>) /\ op' = op
        BY <2>1, <3>1, LifecycleQueues
      <4>2. Life' /\ Phases'
        BY <2>1, <3>1, LifecyclePhases
      <4>3. OwnConnection'
        BY <2>1, <3>1, LifecycleOwn
      <4>4. QuietUntilOpen'
        BY <2>1, <3>1, <4>1, LifecycleQuiet
      <4> QED
        BY <4>1, <4>2, <4>3, <4>4
    <3>2. CASE Processor \/ \E o \in Ops : Execute(o) \/ AsyncQuery(o)
      BY <2>1, <3>2, ClientStep
    <3>3. CASE \E w \in Workers : WorkerRuns(w) \/ WorkerWakes(w)
      BY <2>1, <3>3, WorkerStep
    <3>4. CASE Terminated
      BY <2>1, <3>4 DEF Terminated, vars, queueVars, lifeVars, workerVars, clientVars, history,
         Queues, Life, Threads, OwnConnection, QuietUntilOpen, Phases
    <3> QED
      BY <1>1, <3>1, <3>2, <3>3, <3>4 DEF Next
  <2>4. TypeOK'
    BY <2>2, <2>3 DEF TypeOK, Flags, Queues, Life, Threads
  <2> QED
    BY <2>3, <2>4 DEF IInv
<1>2. ASSUME IInv, UNCHANGED vars PROVE IInv'
  BY <1>2 DEF IInv, TypeOK, OwnConnection, QuietUntilOpen, Phases, vars, queueVars, lifeVars,
     workerVars, clientVars, history
<1> QED
  BY <1>1, <1>2

\* The inductive invariant holds in every reachable state.
THEOREM Invariance == Spec => []IInv
BY InitIInv, NextIInv, PTL DEF Spec

\* The pool, its workers and its callback processor keep the types of their
\* state; a connection being opened or destroyed is always one of the pool's.
THEOREM TypeCorrect == Spec => []TypeOK
<1>1. IInv => TypeOK
  BY DEF IInv
<1> QED
  BY <1>1, Invariance, PTL

\* No worker executes an operation before Open of its connection has returned
\* or after the connection was destroyed.
THEOREM NeverRunsUnopened == Spec => []RunsOnOpenConnection
<1>1. IInv => RunsOnOpenConnection
  BY PoolAssumption DEF IInv, RunsOnOpenConnection, OwnConnection, QuietUntilOpen, Phases, TypeOK
<1> QED
  BY <1>1, Invariance, PTL

\* No worker calls through the null pointer that Cancel leaves it with.
THEOREM NeverRunsNull == Spec => []NoNullOperation
<1>1. IInv => NoNullOperation
  BY DEF IInv, NoNullOperation, OwnConnection
<1> QED
  BY <1>1, Invariance, PTL

\* What a worker runs is an operation on an open connection.
THEOREM AlwaysRunsSafely == Spec => []RunsSafely
  BY NeverRunsUnopened, NeverRunsNull, PTL DEF RunsSafely

-----------------------------------------------------------------------------
(* The way of an operation: enqueued, queued, in the hands of a worker,      *)
(* executed.                                                                 *)

Hands == {op[w] : w \in Workers}

\* What has left the queue other than by Cancel.
Left == ToSet(executed) \cup Hands

\* An operation is in one place at a time, and came there from Enqueue.
OnePlace ==
    /\ IsInjective(queue) /\ IsInjective(enqueued)
    /\ Queued \subseteq ToSet(enqueued) /\ Queued \cap Hands = {}
    /\ Hands \ {Null} \subseteq ToSet(enqueued)
    /\ \A w \in Workers : wk[w] = "pop" => op[w] = Null

NoneBeforeOpen == pool \in {"new", "opening", "failing", "failed"} => enqueued = <<>>

Offset == Len(enqueued) - Len(queue)

\* The queue is the end of what was enqueued, and, unless a Cancel has emptied it,
\* all that came before has left it.
QueueIsEnd ==
    /\ Offset \in Nat
    /\ \A n \in 1..Len(queue) : queue[n] = enqueued[Offset + n]
    /\ queue # <<>> \/ pool = "open" => \A n \in 1..Offset : enqueued[n] \in Left

\* Operations leave the queue in the order of Enqueue.
LeaveInOrder ==
    \A m, n \in DOMAIN enqueued : m < n /\ enqueued[n] \in Left => enqueued[m] \in Left

PathInv == OnePlace /\ ExecutedOnce /\ NoneBeforeOpen /\ QueueIsEnd /\ LeaveInOrder

\* Steps that leave queue, hands and history alone, start no worker that holds
\* something, and do not move the pool back.
Resting ==
    /\ UNCHANGED <<queue, op, enqueued, executed>>
    /\ \A w \in Workers : wk'[w] = "pop" => op[w] = Null
    /\ pool' \in {"new", "opening", "failing", "failed"} =>
          pool \in {"new", "opening", "failing", "failed"}
    /\ pool' = "open" => pool = "open" \/ enqueued = <<>>

\* Such steps keep the invariant.
LEMMA RestingStep ==
    ASSUME TypeOK, PathInv, Resting PROVE PathInv'
<1>1. Queued' = Queued /\ Hands' = Hands /\ Left' = Left /\ Offset' = Offset
  BY DEF Resting, Queued, Hands, Left, Offset
<1>2. OnePlace'
  BY <1>1 DEF Resting, PathInv, OnePlace
<1>3. ExecutedOnce'
  BY <1>1 DEF Resting, PathInv, ExecutedOnce, Hands
<1>4. NoneBeforeOpen'
  BY DEF Resting, PathInv, NoneBeforeOpen
<1>5. QueueIsEnd'
  <2>1. enqueued = <<>> => 1..Offset = {}
    BY DEF TypeOK, Offset
  <2>2. queue' # <<>> \/ pool' = "open" => \A n \in 1..Offset : enqueued[n] \in Left
    BY <2>1 DEF Resting, PathInv, QueueIsEnd
  <2> QED
    BY <1>1, <2>2 DEF Resting, PathInv, QueueIsEnd
<1>6. LeaveInOrder'
  BY <1>1 DEF Resting, PathInv, LeaveInOrder
<1> QED
  BY <1>2, <1>3, <1>4, <1>5, <1>6 DEF PathInv

\* Which steps these are.
LEMMA RestingSteps ==
    ASSUME IInv, PathInv,
           \/ OpenPool \/ ConnectionOpens \/ ConnectionFails \/ GiveUp \/ JoinWorker
           \/ AllDestroyed \/ Close \/ BeginPass \/ InvokeReady \/ KeepUnready \/ EndPass
           \/ Terminated \/ UNCHANGED vars
           \/ \E w \in Workers : \/ ConstructConnection(w) \/ StopWorker(w)
                                 \/ WorkerSleeps(w) \/ WorkerWakes(w) \/ WorkerChecks(w)
    PROVE  Resting
<1> USE DEF Resting, queueVars, lifeVars, workerVars, clientVars, history
<1>pop. \A w \in Workers : wk[w] = "pop" => op[w] = Null
  BY DEF PathInv, OnePlace
<1>1. CASE OpenPool \/ GiveUp \/ JoinWorker \/ AllDestroyed \/ Close
  BY <1>1, <1>pop DEF OpenPool, GiveUp, JoinWorker, AllDestroyed, Close
<1>2. CASE ConnectionOpens \/ ConnectionFails
  BY <1>2, <1>pop DEF ConnectionOpens, ConnectionFails, IInv, Phases, PathInv, NoneBeforeOpen
<1>3. CASE BeginPass \/ InvokeReady \/ KeepUnready \/ EndPass \/ Terminated \/ UNCHANGED vars
  BY <1>3, <1>pop DEF BeginPass, InvokeReady, KeepUnready, EndPass, Terminated, vars
<1>4. ASSUME NEW w \in Workers, ConstructConnection(w) PROVE Resting
  <2>1. op[w] = Null
    BY <1>4 DEF ConstructConnection, IInv, QuietUntilOpen
  <2> QED
    BY <1>4, <1>pop, <2>1 DEF ConstructConnection, IInv, TypeOK
<1>5. ASSUME NEW w \in Workers, StopWorker(w) \/ WorkerSleeps(w) \/ WorkerWakes(w)
      PROVE  Resting
  BY <1>5, <1>pop DEF StopWorker, WorkerSleeps, WorkerWakes, WaitOnCondition, SpuriousWakeup
<1>6. ASSUME NEW w \in Workers, WorkerChecks(w) PROVE Resting
  BY <1>6, <1>pop DEF WorkerChecks, IInv, TypeOK
<1> QED
  BY <1>1, <1>2, <1>3, <1>4, <1>5, <1>6

\* Enqueue puts a new operation at the end of the queue and of the history.
LEMMA EnqueuePath ==
    ASSUME TypeOK, PathInv, NEW o \in Ops, NEW p, Enqueue(o, p),
           UNCHANGED <<op, wk, pool, executed>>
    PROVE  PathInv'
<1>1. /\ pool = "open" /\ queue' = Append(queue, o) /\ enqueued' = Append(enqueued, o)
      /\ o \notin ToSet(enqueued)
  BY DEF Enqueue, Fresh, Push
<1>2. queue \in Seq(Ops) /\ enqueued \in Seq(Ops) /\ executed \in Seq(Ops) /\ o # Null
  BY PoolAssumption DEF TypeOK
<1>3. /\ Queued' = Queued \cup {o} /\ ToSet(enqueued') = ToSet(enqueued) \cup {o}
      /\ queue' \in Seq(Ops) /\ enqueued' \in Seq(Ops)
  BY <1>1, <1>2, AppendElements DEF Queued
<1>4. Hands' = Hands /\ ToSet(executed') = ToSet(executed) /\ Left' = Left
  BY DEF Hands, Left
<1>5. o \notin Queued /\ o \notin Hands /\ o \notin ToSet(executed)
  BY <1>1, <1>2 DEF PathInv, OnePlace, ExecutedOnce
<1>6. OnePlace'
  <2>1. IsInjective(queue') /\ IsInjective(enqueued')
    BY <1>1, <1>2, <1>5, AppendElements DEF PathInv, OnePlace, Queued
  <2> QED
    BY <1>3, <1>4, <1>5, <2>1 DEF PathInv, OnePlace
<1>7. ExecutedOnce'
  BY <1>3, <1>4, <1>5 DEF PathInv, ExecutedOnce, Hands
<1>8. NoneBeforeOpen'
  BY <1>1 DEF NoneBeforeOpen
<1>9. /\ Len(queue') = Len(queue) + 1 /\ Len(enqueued') = Len(enqueued) + 1
      /\ Len(queue) \in Nat /\ Len(enqueued) \in Nat
      /\ \A n \in 1..Len(queue) : queue'[n] = queue[n]
      /\ \A n \in 1..Len(enqueued) : enqueued'[n] = enqueued[n]
      /\ queue'[Len(queue) + 1] = o /\ enqueued'[Len(enqueued) + 1] = o
  BY <1>1, <1>2, AppendProperties, LenProperties
<1>10. QueueIsEnd'
  <2>1. Offset' = Offset /\ Offset \in Nat /\ Offset = Len(enqueued) - Len(queue)
    BY <1>9 DEF Offset, PathInv, QueueIsEnd
  <2>2. ASSUME NEW n \in 1..(Len(queue) + 1) PROVE queue'[n] = enqueued'[Offset + n]
    <3>1. CASE n = Len(queue) + 1
      BY <1>9, <2>1, <3>1
    <3>2. CASE n \in 1..Len(queue)
      <4>1. Offset + n \in 1..Len(enqueued)
        BY <1>9, <2>1, <3>2
      <4> QED
        BY <1>9, <3>2, <4>1 DEF PathInv, QueueIsEnd
    <3> QED
      BY <1>9, <3>1, <3>2
  <2>3. \A n \in 1..Offset : enqueued[n] \in Left
    BY <1>1 DEF PathInv, QueueIsEnd
  <2>4. \A n \in 1..Offset : enqueued'[n] \in Left
    BY <1>9, <2>1, <2>3
  <2> QED
    BY <1>4, <1>9, <2>1, <2>2, <2>4 DEF QueueIsEnd
<1>11. LeaveInOrder'
  <2> SUFFICES ASSUME NEW m \in 1..(Len(enqueued) + 1), NEW n \in 1..(Len(enqueued) + 1),
                      m < n, enqueued'[n] \in Left
               PROVE  enqueued'[m] \in Left
    BY <1>3, <1>4, <1>9, SeqElements DEF LeaveInOrder
  <2>1. n # Len(enqueued) + 1
    BY <1>5, <1>9 DEF Left
  <2>2. m \in 1..Len(enqueued) /\ n \in 1..Len(enqueued)
    BY <1>9, <2>1
  <2>3. DOMAIN enqueued = 1..Len(enqueued)
    BY <1>2, SeqElements
  <2> QED
    BY <1>9, <2>2, <2>3 DEF PathInv, LeaveInOrder
<1> QED
  BY <1>6, <1>7, <1>8, <1>10, <1>11 DEF PathInv

\* A worker takes the oldest operation, or nothing after a Cancel.
LEMMA PopElements ==
    ASSUME TypeOK, PathInv, NEW w \in Workers, WorkerPops(w)
    PROVE  /\ op[w] = Null /\ wk'[w] # "pop"
           /\ \A v \in Workers : v # w => op'[v] = op[v] /\ wk'[v] = wk[v]
           /\ UNCHANGED <<enqueued, executed, pool>>
           /\ \/ queue' = queue /\ op' = op
              \/ /\ queue # <<>> /\ queue' = Tail(queue)
                 /\ op'[w] = Head(queue) /\ Head(queue) \in Ops
<1> USE DEF queueVars, lifeVars, workerVars, clientVars, history
<1>1. op[w] = Null
  BY DEF WorkerPops, PathInv, OnePlace
<1>2. PICK o \in Ops \cup {Null} : WaitAndPop(w, o) /\ op' = [op EXCEPT ![w] = o]
  BY DEF WorkerPops
<1>3. /\ wk'[w] # "pop" /\ \A v \in Workers : v # w => op'[v] = op[v] /\ wk'[v] = wk[v]
      /\ UNCHANGED <<enqueued, executed, pool>>
  BY <1>2 DEF WorkerPops, TypeOK
<1>4. CASE queue # <<>> /\ queue' = Tail(queue) /\ o = Head(queue)
  <2>1. queue \in Seq(Ops)
    BY DEF TypeOK
  <2>2. Head(queue) \in Ops
    BY <1>4, <2>1
  <2>3. op'[w] = o
    BY <1>2 DEF TypeOK
  <2> QED
    BY <1>1, <1>3, <1>4, <2>2, <2>3
<1>5. CASE queue' = queue /\ o = Null
  BY <1>1, <1>2, <1>3, <1>5 DEF TypeOK
<1> QED
  BY <1>2, <1>4, <1>5 DEF WaitAndPop

\* A pop keeps the invariant: what it takes is the first that has not left.
LEMMA PopPath ==
    ASSUME IInv, PathInv, NEW w \in Workers, WorkerPops(w) PROVE PathInv'
<1>1. /\ op[w] = Null /\ wk'[w] # "pop"
      /\ \A v \in Workers : v # w => op'[v] = op[v] /\ wk'[v] = wk[v]
      /\ UNCHANGED <<enqueued, executed, pool>>
  BY PopElements DEF IInv
<1>2. CASE queue' = queue /\ op' = op
  <2>1. Resting
    BY <1>1, <1>2 DEF Resting, PathInv, OnePlace
  <2> QED
    BY <2>1, RestingStep DEF IInv
<1>3. CASE queue # <<>> /\ queue' = Tail(queue) /\ op'[w] = Head(queue) /\ Head(queue) \in Ops
  <2> DEFINE h == Head(queue)
  <2>1. queue \in Seq(Ops) /\ enqueued \in Seq(Ops) /\ h \in Ops /\ h # Null
    BY <1>3, PoolAssumption DEF IInv, TypeOK
  <2>2. /\ Queued = Queued' \cup {h} /\ h \notin Queued'
        /\ queue' \in Seq(Ops) /\ IsInjective(queue')
    BY <1>3, <2>1, TailElements DEF PathInv, OnePlace, Queued
  <2>3. Hands \subseteq Hands' \cup {Null} /\ Hands' \subseteq Hands \cup {h} /\ h \in Hands'
    BY <1>1, <1>3 DEF Hands
  <2>4. h \notin Hands /\ h \in ToSet(enqueued) /\ h \notin ToSet(executed)
    BY <2>2 DEF PathInv, OnePlace, ExecutedOnce, Hands
  <2>5. OnePlace'
    BY <1>1, <2>2, <2>3, <2>4 DEF PathInv, OnePlace
  <2>6. ExecutedOnce'
    <3>1. ToSet(executed') \cap (Queued' \cup Hands') = {}
      BY <1>1, <2>2, <2>3, <2>4 DEF PathInv, ExecutedOnce, Hands
    <3>2. ASSUME NEW u \in Workers, NEW v \in Workers, op'[u] = op'[v], op'[u] # Null
          PROVE  u = v
      <4>1. \A x \in Workers : op[x] # h
        BY <2>4 DEF Hands
      <4> QED
        BY <1>1, <1>3, <3>2, <4>1 DEF PathInv, ExecutedOnce
    <3> QED
      BY <1>1, <3>1, <3>2 DEF PathInv, ExecutedOnce, Hands
  <2>7. NoneBeforeOpen'
    BY <1>1 DEF PathInv, NoneBeforeOpen
  <2>8. /\ Len(queue') = Len(queue) - 1 /\ Len(queue) \in Nat /\ Len(queue) >= 1
        /\ Len(enqueued) \in Nat /\ h = queue[1]
        /\ \A n \in 1..(Len(queue) - 1) : queue'[n] = queue[n + 1]
        /\ DOMAIN enqueued = 1..Len(enqueued)
    BY <1>3, <2>1, HeadTailProperties, LenProperties, EmptySeq
  <2>9. /\ Offset' = Offset + 1 /\ Offset \in Nat /\ Offset = Len(enqueued) - Len(queue)
        /\ enqueued[Offset + 1] = h
    BY <1>1, <2>8 DEF Offset, PathInv, QueueIsEnd
  <2>10. \A n \in 1..Len(enqueued) : enqueued[n] \in Left => enqueued[n] \in Left'
    <3>1. \A n \in 1..Len(enqueued) : enqueued[n] # Null
      BY <2>1, <2>8, SeqElements, PoolAssumption
    <3> QED
      BY <1>1, <2>3, <3>1 DEF Left
  <2>11. \A n \in 1..Offset : enqueued[n] \in Left
    BY <1>3 DEF PathInv, QueueIsEnd
  <2>12. QueueIsEnd'
    <3>1. \A n \in 1..Len(queue') : queue'[n] = enqueued'[Offset' + n]
      <4> SUFFICES ASSUME NEW n \in 1..(Len(queue) - 1)
                   PROVE  queue'[n] = enqueued[(Offset + 1) + n]
        BY <1>1, <2>8, <2>9
      <4>1. n + 1 \in 1..Len(queue) /\ Offset + (n + 1) = (Offset + 1) + n
        BY <2>8, <2>9
      <4>2. queue[n + 1] = enqueued[Offset + (n + 1)]
        BY <4>1 DEF PathInv, QueueIsEnd
      <4> QED
        BY <2>8, <4>1, <4>2
    <3>2. \A n \in 1..Offset' : enqueued'[n] \in Left'
      <4> SUFFICES ASSUME NEW n \in 1..(Offset + 1) PROVE enqueued[n] \in Left'
        BY <1>1, <2>9
      <4>1. CASE n = Offset + 1
        BY <2>3, <2>9, <4>1 DEF Left
      <4>2. CASE n \in 1..Offset
        BY <2>8, <2>9, <2>10, <2>11, <4>2
      <4> QED
        BY <2>9, <4>1, <4>2
    <3> QED
      BY <2>9, <3>1, <3>2 DEF QueueIsEnd
  <2>13. LeaveInOrder'
    <3> SUFFICES ASSUME NEW m \in 1..Len(enqueued), NEW n \in 1..Len(enqueued),
                        m < n, enqueued[n] \in Left'
                 PROVE  enqueued[m] \in Left'
      BY <1>1, <2>8 DEF LeaveInOrder
    <3>1. CASE enqueued[n] = h
      <4>1. n = Offset + 1
        <5>1. Offset + 1 \in DOMAIN enqueued /\ n \in DOMAIN enqueued
          BY <2>8, <2>9
        <5> QED
          BY <2>9, <3>1, <5>1 DEF PathInv, OnePlace, IsInjective
      <4>2. m \in 1..Offset
        BY <2>9, <4>1
      <4> QED
        BY <2>10, <2>11, <4>2
    <3>2. CASE enqueued[n] # h
      <4>1. enqueued[n] \in Left
        BY <1>1, <2>3, <3>2 DEF Left
      <4> QED
        BY <2>8, <2>10, <4>1 DEF PathInv, LeaveInOrder
    <3> QED
      BY <3>1, <3>2
  <2> QED
    BY <2>5, <2>6, <2>7, <2>12, <2>13 DEF PathInv
<1> QED
  BY <1>2, <1>3, PopElements DEF IInv

\* call() moves an operation from the worker's hands into the history.
LEMMA ExecutePath ==
    ASSUME IInv, PathInv, NEW w \in Workers, WorkerExecutes(w) PROVE PathInv'
<1> USE DEF queueVars, lifeVars, workerVars, clientVars, history
<1> DEFINE o == op[w]
<1>1. /\ wk[w] = "run" /\ executed' = Append(executed, o) /\ op' = [op EXCEPT ![w] = Null]
      /\ UNCHANGED <<queue, shutdown, sleeping, pool, enqueued>>
  BY DEF WorkerExecutes
<1>2. o # Null /\ o \in Ops
  BY <1>1 DEF IInv, OwnConnection, TypeOK
<1>3. executed \in Seq(Ops) /\ enqueued \in Seq(Ops)
  BY DEF IInv, TypeOK
<1>4. /\ op'[w] = Null /\ \A v \in Workers : v # w => op'[v] = op[v]
  BY <1>1 DEF IInv, TypeOK
<1>5. o \in Hands /\ Hands' \subseteq (Hands \ {o}) \cup {Null} /\ Hands \subseteq Hands' \cup {o}
  <2>1. \A v \in Workers : op[v] = o => v = w
    BY <1>2 DEF PathInv, ExecutedOnce
  <2> QED
    BY <1>2, <1>4, <2>1 DEF Hands
<1>6. o \notin ToSet(executed) /\ o \in ToSet(enqueued) /\ o \notin Queued
  BY <1>2, <1>5 DEF PathInv, OnePlace, ExecutedOnce, Hands
<1>7. ToSet(executed') = ToSet(executed) \cup {o} /\ IsInjective(executed')
  BY <1>1, <1>2, <1>3, <1>6, AppendElements DEF PathInv, ExecutedOnce
<1>8. Queued' = Queued /\ Null \notin ToSet(executed) /\ Null \notin Queued /\ Null \notin ToSet(enqueued)
  <2>1. queue \in Seq(Ops)
    BY DEF IInv, TypeOK
  <2> QED
    BY <1>1, <1>3, <2>1, SeqElements, PoolAssumption DEF Queued
<1>9. OnePlace'
  <2>1. \A v \in Workers : wk'[v] = "pop" => op'[v] = Null
    <3>1. \A v \in Workers : v # w => wk'[v] = wk[v]
      BY DEF WorkerExecutes, IInv, TypeOK
    <3> QED
      BY <1>4, <3>1 DEF PathInv, OnePlace
  <2> QED
    BY <1>1, <1>5, <1>8, <2>1 DEF PathInv, OnePlace
<1>10. ExecutedOnce'
  <2>1. ToSet(executed') \cap (Queued' \cup Hands') = {}
    BY <1>2, <1>5, <1>6, <1>7, <1>8 DEF PathInv, ExecutedOnce, Hands
  <2>2. \A u, v \in Workers : op'[u] = op'[v] /\ op'[u] # Null => u = v
    BY <1>4 DEF PathInv, ExecutedOnce
  <2> QED
    BY <1>1, <1>6, <1>7, <2>1, <2>2 DEF PathInv, ExecutedOnce, Hands
<1>11. NoneBeforeOpen'
  BY <1>1 DEF PathInv, NoneBeforeOpen
<1>12. \A n \in 1..Len(enqueued) : enqueued'[n] \in Left' <=> enqueued[n] \in Left
  <2>1. \A n \in 1..Len(enqueued) : enqueued[n] # Null
    BY <1>3, <1>8, SeqElements
  <2> QED
    BY <1>1, <1>5, <1>7, <2>1 DEF Left
<1>13. DOMAIN enqueued = 1..Len(enqueued) /\ Len(enqueued) \in Nat /\ Len(queue) \in Nat
  BY <1>3, SeqElements, LenProperties DEF IInv, TypeOK
<1>14. QueueIsEnd'
  <2>1. Offset' = Offset /\ Offset \in Nat /\ Offset <= Len(enqueued)
    BY <1>1, <1>13 DEF Offset, PathInv, QueueIsEnd
  <2>2. queue # <<>> \/ pool = "open" => \A n \in 1..Offset : enqueued[n] \in Left'
    <3>1. \A n \in 1..Offset : n \in 1..Len(enqueued)
      BY <1>13, <2>1
    <3> QED
      BY <1>1, <1>12, <3>1 DEF PathInv, QueueIsEnd
  <2> QED
    BY <1>1, <2>1, <2>2 DEF PathInv, QueueIsEnd
<1>15. LeaveInOrder'
  BY <1>1, <1>12, <1>13 DEF PathInv, LeaveInOrder
<1> QED
  BY <1>9, <1>10, <1>11, <1>14, <1>15 DEF PathInv

\* Cancel empties the queue; it comes only when nobody enqueues any more.
LEMMA CancelPath ==
    ASSUME IInv, PathInv, CancelQueue PROVE PathInv'
<1> USE DEF queueVars, lifeVars, workerVars, clientVars, history
<1>1. queue' = <<>> /\ UNCHANGED <<op, wk, enqueued, executed, pool>>
  BY DEF CancelQueue, Cancel
<1>2. pool # "open"
  BY DEF CancelQueue, IInv, Phases
<1>3. Hands' = Hands /\ Left' = Left /\ Queued' = {} /\ IsInjective(queue')
  BY <1>1, EmptyElements DEF Hands, Left, Queued
<1>4. OnePlace'
  BY <1>1, <1>3 DEF PathInv, OnePlace
<1>5. ExecutedOnce'
  BY <1>1, <1>3 DEF PathInv, ExecutedOnce, Hands
<1>6. NoneBeforeOpen'
  BY <1>1 DEF PathInv, NoneBeforeOpen
<1>7. QueueIsEnd'
  <2>1. Len(queue') = 0 /\ Len(enqueued) \in Nat
    BY <1>1 DEF IInv, TypeOK
  <2> QED
    BY <1>1, <1>2, <2>1 DEF QueueIsEnd, Offset
<1>8. LeaveInOrder'
  BY <1>1, <1>3 DEF PathInv, LeaveInOrder
<1> QED
  BY <1>4, <1>5, <1>6, <1>7, <1>8 DEF PathInv

\* Every step preserves the invariant.
LEMMA PathStep ==
    ASSUME IInv, PathInv, [Next]_vars PROVE PathInv'
<1> USE DEF queueVars, lifeVars, workerVars, clientVars, history
<1>1. CASE \/ OpenPool \/ ConnectionOpens \/ ConnectionFails \/ GiveUp \/ JoinWorker
           \/ AllDestroyed \/ Close \/ BeginPass \/ InvokeReady \/ KeepUnready \/ EndPass
           \/ Terminated \/ UNCHANGED vars
           \/ \E w \in Workers : \/ ConstructConnection(w) \/ StopWorker(w)
                                 \/ WorkerSleeps(w) \/ WorkerWakes(w) \/ WorkerChecks(w)
  BY <1>1, RestingSteps, RestingStep DEF IInv
<1>2. ASSUME NEW o \in Ops, Execute(o) PROVE PathInv'
  BY <1>2, EnqueuePath DEF Execute, IInv
<1>3. ASSUME NEW o \in Ops, AsyncQuery(o) PROVE PathInv'
  BY <1>3, EnqueuePath DEF AsyncQuery, IInv
<1>4. ASSUME NEW o \in Ops, InvokeAndChain(o) PROVE PathInv'
  BY <1>4, EnqueuePath DEF InvokeAndChain, IInv
<1>5. ASSUME NEW o \in Ops, InvokeAndAdd(o) PROVE PathInv'
  BY <1>5, EnqueuePath DEF InvokeAndAdd, IInv
<1>6. CASE CancelQueue
  BY <1>6, CancelPath
<1>7. ASSUME NEW w \in Workers, WorkerPops(w) \/ WorkerExecutes(w) PROVE PathInv'
  BY <1>7, PopPath, ExecutePath
<1> QED
  BY <1>1, <1>2, <1>3, <1>4, <1>5, <1>6, <1>7 DEF Next, Lifecycle, Processor, WorkerRuns

\* Nothing is enqueued at first.
LEMMA InitPath == Init => PathInv
<1> SUFFICES ASSUME Init PROVE PathInv
  OBVIOUS
<1>1. /\ Queued = {} /\ ToSet(enqueued) = {} /\ ToSet(executed) = {}
      /\ IsInjective(queue) /\ IsInjective(enqueued) /\ IsInjective(executed)
      /\ Hands \subseteq {Null} /\ Len(queue) = 0 /\ Len(enqueued) = 0
  BY EmptyElements DEF Init, QueueInit, Queued, Hands
<1>2. OnePlace /\ NoneBeforeOpen
  BY <1>1 DEF Init, OnePlace, NoneBeforeOpen
<1>3. ExecutedOnce
  BY <1>1 DEF Init, ExecutedOnce
<1>4. QueueIsEnd
  BY <1>1 DEF Init, QueueInit, QueueIsEnd, Offset
<1>5. LeaveInOrder
  BY DEF Init, LeaveInOrder
<1> QED
  BY <1>2, <1>3, <1>4, <1>5 DEF PathInv

\* The way of the operations holds in every reachable state.
THEOREM PathInvariance == Spec => [](IInv /\ PathInv)
<1>1. IInv /\ PathInv /\ [Next]_vars => PathInv'
  BY PathStep
<1> QED
  BY <1>1, InitPath, Invariance, PTL DEF Spec

\* For any number of connections no operation is executed twice, by two workers,
\* or without having been enqueued.
THEOREM NeverExecutedTwice == Spec => []ExecutedOnce
<1>1. PathInv => ExecutedOnce
  BY DEF PathInv
<1> QED
  BY <1>1, PathInvariance, PTL

\* For any number of connections what was enqueued earlier has completed, or is in
\* the hands of a worker, when something enqueued later has completed.
THEOREM OrderKept == Spec => []CompletesInOrder
<1>1. PathInv => CompletesInOrder
  BY DEF PathInv, LeaveInOrder, CompletesInOrder, Left, Hands
<1> QED
  BY <1>1, PathInvariance, PTL

-----------------------------------------------------------------------------
(* The way of a callback. *)

\* A promise is fulfilled by the worker that executes its operation, and broken
\* only when the pool is being closed.
Promises ==
    \A o \in Ops :
        /\ promise[o] # "none" => o \in ToSet(enqueued)
        /\ o \in Queued \cup Hands => promise[o] \in {"none", "unset"}
        /\ promise[o] = "broken" => pool \in {"closing", "closed"}

\* A pass of ProcessReadyCallbacks happens while the pool is open, and leaves
\* nothing in its local vectors.
Passes ==
    /\ inPass => pool = "open"
    /\ ~inPass => pass = <<>> /\ kept = <<>>

CallbackInv == Promises /\ Passes /\ NoLostCallback /\ CallbackOnResult

WithPromise == {o \in Ops : promise[o] # "none"}

\* NoLostCallback, one vector at a time.
Apart ==
    /\ IsInjective(callbacks) /\ IsInjective(pass) /\ IsInjective(kept) /\ IsInjective(invoked)
    /\ ToSet(callbacks) \cap ToSet(pass) = {} /\ ToSet(callbacks) \cap ToSet(kept) = {}
    /\ ToSet(callbacks) \cap ToSet(invoked) = {} /\ ToSet(pass) \cap ToSet(kept) = {}
    /\ ToSet(pass) \cap ToSet(invoked) = {} /\ ToSet(kept) \cap ToSet(invoked) = {}
    /\ ToSet(callbacks) \cup ToSet(pass) \cup ToSet(kept) \cup ToSet(invoked) = WithPromise

\* Four sequences without repetition, no two of them with a common element.
NothingShared(a, b, c, d) ==
    /\ IsInjective(a) /\ IsInjective(b) /\ IsInjective(c) /\ IsInjective(d)
    /\ ToSet(a) \cap ToSet(b) = {} /\ ToSet(a) \cap ToSet(c) = {}
    /\ ToSet(a) \cap ToSet(d) = {} /\ ToSet(b) \cap ToSet(c) = {}
    /\ ToSet(b) \cap ToSet(d) = {} /\ ToSet(c) \cap ToSet(d) = {}

\* Four sequences, one behind the other.
LEMMA FourElements ==
    ASSUME NEW S, NEW a \in Seq(S), NEW b \in Seq(S), NEW c \in Seq(S), NEW d \in Seq(S)
    PROVE  /\ ToSet(a \o b \o c \o d) = ToSet(a) \cup ToSet(b) \cup ToSet(c) \cup ToSet(d)
           /\ IsInjective(a \o b \o c \o d) <=> NothingShared(a, b, c, d)
<1>1. /\ a \o b \in Seq(S) /\ ToSet(a \o b) = ToSet(a) \cup ToSet(b)
      /\ IsInjective(a \o b) <=> IsInjective(a) /\ IsInjective(b) /\ ToSet(a) \cap ToSet(b) = {}
  BY ConcatElements
<1> DEFINE ab == a \o b
<1> HIDE DEF ab
<1>ab. ab \in Seq(S)
  BY <1>1 DEF ab
<1>2. /\ ab \o c \in Seq(S) /\ ToSet(ab \o c) = ToSet(ab) \cup ToSet(c)
      /\ IsInjective(ab \o c) <=> IsInjective(ab) /\ IsInjective(c) /\ ToSet(ab) \cap ToSet(c) = {}
  BY <1>ab, ConcatElements
<1> DEFINE abc == ab \o c
<1> HIDE DEF abc
<1>abc. abc \in Seq(S)
  BY <1>2 DEF abc
<1>3. /\ ToSet(abc \o d) = ToSet(abc) \cup ToSet(d)
      /\ IsInjective(abc \o d) <=> IsInjective(abc) /\ IsInjective(d) /\ ToSet(abc) \cap ToSet(d) = {}
  BY <1>abc, ConcatElements
<1>4. ToSet(abc \o d) = ToSet(a) \cup ToSet(b) \cup ToSet(c) \cup ToSet(d)
  BY <1>1, <1>2, <1>3 DEF ab, abc
<1>5. IsInjective(abc \o d) <=>
         /\ IsInjective(a) /\ IsInjective(b) /\ IsInjective(c) /\ IsInjective(d)
         /\ ToSet(a) \cap ToSet(b) = {}
         /\ (ToSet(a) \cup ToSet(b)) \cap ToSet(c) = {}
         /\ (ToSet(a) \cup ToSet(b) \cup ToSet(c)) \cap ToSet(d) = {}
  BY <1>1, <1>2, <1>3 DEF ab, abc
<1> QED
  BY <1>4, <1>5 DEF ab, abc, NothingShared

\* The two forms agree.
LEMMA ApartForm ==
    ASSUME callbacks \in Seq(Ops), pass \in Seq(Ops), kept \in Seq(Ops), invoked \in Seq(Ops)
    PROVE  NoLostCallback <=> Apart
<1> DEFINE all == callbacks \o pass \o kept \o invoked
<1>1. ToSet(all) = ToSet(callbacks) \cup ToSet(pass) \cup ToSet(kept) \cup ToSet(invoked)
  BY FourElements
<1>2. IsInjective(all) <=> NothingShared(callbacks, pass, kept, invoked)
  BY FourElements
<1>3. NoLostCallback <=> IsInjective(all) /\ ToSet(all) = WithPromise
  BY DEF NoLostCallback, WithPromise
<1> QED
  BY <1>1, <1>2, <1>3 DEF Apart, NothingShared

\* They agree after a step too.
LEMMA ApartFormNext ==
    ASSUME callbacks' \in Seq(Ops), pass' \in Seq(Ops), kept' \in Seq(Ops), invoked' \in Seq(Ops)
    PROVE  NoLostCallback' <=> Apart'
<1> DEFINE all == callbacks' \o pass' \o kept' \o invoked'
<1>1. ToSet(all) = ToSet(callbacks') \cup ToSet(pass') \cup ToSet(kept') \cup ToSet(invoked')
  BY FourElements
<1>2. IsInjective(all) <=> NothingShared(callbacks', pass', kept', invoked')
  BY FourElements
<1>3. NoLostCallback' <=> IsInjective(all) /\ ToSet(all) = WithPromise'
  BY DEF NoLostCallback, WithPromise
<1> QED
  BY <1>1, <1>2, <1>3 DEF Apart, NothingShared

\* The callback invariant with the vectors taken apart.
CallbackParts == Promises /\ Passes /\ Apart /\ CallbackOnResult

\* Enqueue with a promise, or without.
LEMMA EnqueuePromise ==
    ASSUME IInv, PathInv, CallbackParts, NEW o \in Ops, NEW p \in {"none", "unset"},
           Enqueue(o, p), UNCHANGED <<op, pool>>
    PROVE  /\ Promises' /\ pool = "open"
           /\ o \notin WithPromise
           /\ WithPromise' = IF p = "none" THEN WithPromise ELSE WithPromise \cup {o}
           /\ \A q \in Ops : q # o => promise'[q] = promise[q]
<1>1. /\ pool = "open" /\ queue' = Append(queue, o) /\ enqueued' = Append(enqueued, o)
      /\ o \notin ToSet(enqueued) /\ promise' = [promise EXCEPT ![o] = p]
  BY DEF Enqueue, Fresh, Push
<1>2. queue \in Seq(Ops) /\ enqueued \in Seq(Ops) /\ promise \in [Ops -> {"none", "unset", "set", "broken"}]
  BY DEF IInv, TypeOK
<1>3. Queued' = Queued \cup {o} /\ ToSet(enqueued') = ToSet(enqueued) \cup {o} /\ Hands' = Hands
  BY <1>1, <1>2, AppendElements DEF Queued, Hands
<1>4. promise[o] = "none"
  BY <1>1 DEF CallbackParts, Promises
<1>5. promise'[o] = p /\ \A q \in Ops : q # o => promise'[q] = promise[q]
  BY <1>1, <1>2
<1>6. Promises'
  BY <1>3, <1>5 DEF CallbackParts, Promises
<1>7. WithPromise' = IF p = "none" THEN WithPromise ELSE WithPromise \cup {o}
  BY <1>4, <1>5 DEF WithPromise
<1> QED
  BY <1>1, <1>4, <1>5, <1>6, <1>7 DEF WithPromise

\* The callback at the front of a pass that is ready has a result.
LEMMA FrontOfPass ==
    ASSUME IInv, CallbackParts, inPass, pass # <<>>
    PROVE  /\ pool = "open"
           /\ Head(pass) \in Ops /\ Tail(pass) \in Seq(Ops)
           /\ ToSet(pass) = ToSet(Tail(pass)) \cup {Head(pass)}
           /\ IsInjective(Tail(pass)) /\ Head(pass) \notin ToSet(Tail(pass))
           /\ Ready(Head(pass)) => promise[Head(pass)] = "set"
<1>1. pass \in Seq(Ops) /\ IsInjective(pass) /\ pool = "open"
  BY DEF IInv, TypeOK, CallbackParts, Apart, Passes
<1>2. /\ Head(pass) \in Ops /\ Tail(pass) \in Seq(Ops)
      /\ ToSet(pass) = ToSet(Tail(pass)) \cup {Head(pass)}
      /\ IsInjective(Tail(pass)) /\ Head(pass) \notin ToSet(Tail(pass))
  BY <1>1, TailElements
<1>3. promise[Head(pass)] # "broken"
  BY <1>1, <1>2 DEF CallbackParts, Promises
<1> QED
  BY <1>1, <1>2, <1>3 DEF Ready

\* Execute and AsyncQuery.
LEMMA ClientCallbacks ==
    ASSUME IInv, PathInv, CallbackParts, NEW o \in Ops, Execute(o) \/ AsyncQuery(o)
    PROVE  CallbackParts'
<1> USE DEF queueVars, lifeVars, workerVars, clientVars, history
<1>1. CASE Execute(o)
  <2>1. Enqueue(o, "none") /\ UNCHANGED <<op, pool, callbacks, pass, kept, inPass, invoked>>
    BY <1>1 DEF Execute
  <2>2. /\ Promises' /\ o \notin WithPromise /\ WithPromise' = WithPromise
        /\ \A q \in Ops : q # o => promise'[q] = promise[q]
    BY <2>1, EnqueuePromise
  <2>3. Passes' /\ Apart'
    BY <2>1, <2>2 DEF CallbackParts, Passes, Apart
  <2>4. CallbackOnResult'
    BY <2>1, <2>2 DEF CallbackParts, CallbackOnResult, Apart, WithPromise
  <2> QED
    BY <2>2, <2>3, <2>4 DEF CallbackParts
<1>2. CASE AsyncQuery(o)
  <2>1. /\ Enqueue(o, "unset") /\ callbacks' = Append(callbacks, o)
        /\ UNCHANGED <<op, pool, pass, kept, inPass, invoked>>
    BY <1>2 DEF AsyncQuery
  <2>2. /\ Promises' /\ o \notin WithPromise /\ WithPromise' = WithPromise \cup {o}
        /\ \A q \in Ops : q # o => promise'[q] = promise[q]
    BY <2>1, EnqueuePromise
  <2>3. o \notin ToSet(callbacks) \cup ToSet(pass) \cup ToSet(kept) \cup ToSet(invoked)
    BY <2>2 DEF CallbackParts, Apart
  <2>4. callbacks \in Seq(Ops) /\ IsInjective(callbacks)
    BY DEF IInv, TypeOK, CallbackParts, Apart
  <2>5. ToSet(callbacks') = ToSet(callbacks) \cup {o} /\ IsInjective(callbacks')
    BY <2>1, <2>3, <2>4, AppendElements
  <2>6. Apart'
    BY <2>1, <2>2, <2>3, <2>5 DEF CallbackParts, Apart
  <2>7. Passes'
    BY <2>1 DEF CallbackParts, Passes
  <2>8. CallbackOnResult'
    BY <2>1, <2>2, <2>3 DEF CallbackParts, CallbackOnResult, Apart, WithPromise
  <2> QED
    BY <2>2, <2>6, <2>7, <2>8 DEF CallbackParts
<1> QED
  BY <1>1, <1>2

\* ProcessReadyCallbacks, without new queries.
LEMMA PassCallbacks ==
    ASSUME IInv, PathInv, CallbackParts, BeginPass \/ InvokeReady \/ KeepUnready \/ EndPass
    PROVE  CallbackParts'
<1> USE DEF queueVars, lifeVars, workerVars, clientVars, history
<1>1. UNCHANGED <<queue, op, pool, promise, enqueued>>
  BY DEF BeginPass, InvokeReady, KeepUnready, EndPass
<1>2. Promises' /\ WithPromise' = WithPromise
  BY <1>1 DEF CallbackParts, Promises, WithPromise, Queued, Hands
<1>3. /\ callbacks \in Seq(Ops) /\ kept \in Seq(Ops) /\ invoked \in Seq(Ops) /\ pass \in Seq(Ops)
  BY DEF IInv, TypeOK
<1>4. CASE BeginPass
  <2>1. pass = <<>> /\ kept = <<>> /\ pool = "open"
    BY <1>4 DEF BeginPass, CallbackParts, Passes
  <2>2. /\ pass' = callbacks /\ callbacks' = <<>> /\ kept' = <<>> /\ invoked' = invoked
        /\ inPass' = TRUE
    BY <1>4 DEF BeginPass
  <2>3. Apart'
    BY <1>2, <2>1, <2>2, EmptyElements DEF CallbackParts, Apart
  <2>4. Passes' /\ CallbackOnResult'
    BY <1>1, <2>1, <2>2 DEF CallbackParts, Passes, CallbackOnResult
  <2> QED
    BY <1>2, <2>3, <2>4 DEF CallbackParts
<1>5. CASE InvokeReady
  <2>1. /\ inPass /\ pass # <<>> /\ Ready(Head(pass)) /\ pass' = Tail(pass)
        /\ invoked' = Append(invoked, Head(pass)) /\ UNCHANGED <<callbacks, kept, inPass>>
    BY <1>5 DEF InvokeReady
  <2>2. /\ pool = "open" /\ Head(pass) \in Ops /\ promise[Head(pass)] = "set"
        /\ ToSet(pass) = ToSet(pass') \cup {Head(pass)}
        /\ IsInjective(pass') /\ Head(pass) \notin ToSet(pass')
    BY <2>1, FrontOfPass
  <2>3. ToSet(invoked') = ToSet(invoked) \cup {Head(pass)} /\ IsInjective(invoked')
    BY <1>3, <2>1, <2>2, AppendElements DEF CallbackParts, Apart
  <2>4. Apart'
    BY <1>2, <2>1, <2>2, <2>3 DEF CallbackParts, Apart
  <2>5. Passes' /\ CallbackOnResult'
    BY <1>1, <2>1, <2>2, <2>3 DEF CallbackParts, Passes, CallbackOnResult
  <2> QED
    BY <1>2, <2>4, <2>5 DEF CallbackParts
<1>6. CASE KeepUnready
  <2>1. /\ inPass /\ pass # <<>> /\ pass' = Tail(pass)
        /\ kept' = Append(kept, Head(pass)) /\ UNCHANGED <<callbacks, invoked, inPass>>
    BY <1>6 DEF KeepUnready
  <2>2. /\ pool = "open" /\ Head(pass) \in Ops
        /\ ToSet(pass) = ToSet(pass') \cup {Head(pass)}
        /\ IsInjective(pass') /\ Head(pass) \notin ToSet(pass')
    BY <2>1, FrontOfPass
  <2>3. ToSet(kept') = ToSet(kept) \cup {Head(pass)} /\ IsInjective(kept')
    BY <1>3, <2>1, <2>2, AppendElements DEF CallbackParts, Apart
  <2>4. Apart'
    BY <1>2, <2>1, <2>2, <2>3 DEF CallbackParts, Apart
  <2>5. Passes' /\ CallbackOnResult'
    BY <1>1, <2>1, <2>2, <2>3 DEF CallbackParts, Passes, CallbackOnResult
  <2> QED
    BY <1>2, <2>4, <2>5 DEF CallbackParts
<1>7. CASE EndPass
  <2>1. /\ inPass /\ pass = <<>> /\ inPass' = FALSE /\ callbacks' = callbacks \o kept
        /\ kept' = <<>> /\ UNCHANGED <<pass, invoked>>
    BY <1>7 DEF EndPass
  <2>2. ToSet(callbacks') = ToSet(callbacks) \cup ToSet(kept) /\ IsInjective(callbacks')
    BY <1>3, <2>1, ConcatElements DEF CallbackParts, Apart
  <2>3. Apart'
    BY <1>2, <2>1, <2>2, EmptyElements DEF CallbackParts, Apart
  <2>4. Passes' /\ CallbackOnResult'
    BY <1>1, <2>1 DEF CallbackParts, Passes, CallbackOnResult
  <2> QED
    BY <1>2, <2>3, <2>4 DEF CallbackParts
<1> QED
  BY <1>4, <1>5, <1>6, <1>7

\* ProcessReadyCallbacks, with a query that the callback chains or adds.
LEMMA ChainCallbacks ==
    ASSUME IInv, PathInv, CallbackParts, NEW o \in Ops, InvokeAndChain(o) \/ InvokeAndAdd(o)
    PROVE  CallbackParts'
<1> USE DEF queueVars, lifeVars, workerVars, clientVars, history
<1>1. /\ inPass /\ pass # <<>> /\ Ready(Head(pass)) /\ pass' = Tail(pass)
      /\ invoked' = Append(invoked, Head(pass)) /\ UNCHANGED <<inPass, op, pool>>
      /\ Enqueue(o, "unset")
      /\ \/ kept' = Append(kept, o) /\ callbacks' = callbacks
         \/ callbacks' = Append(callbacks, o) /\ kept' = kept
  BY DEF InvokeAndChain, InvokeAndAdd
<1>2. /\ pool = "open" /\ Head(pass) \in Ops /\ promise[Head(pass)] = "set"
      /\ ToSet(pass) = ToSet(pass') \cup {Head(pass)}
      /\ IsInjective(pass') /\ Head(pass) \notin ToSet(pass')
  BY <1>1, FrontOfPass
<1>3. /\ callbacks \in Seq(Ops) /\ kept \in Seq(Ops) /\ invoked \in Seq(Ops) /\ pass \in Seq(Ops)
  BY DEF IInv, TypeOK
<1>4. ToSet(invoked') = ToSet(invoked) \cup {Head(pass)} /\ IsInjective(invoked')
  BY <1>1, <1>2, <1>3, AppendElements DEF CallbackParts, Apart
<1>5. /\ Promises' /\ o \notin WithPromise /\ WithPromise' = WithPromise \cup {o}
      /\ \A q \in Ops : q # o => promise'[q] = promise[q]
  BY <1>1, EnqueuePromise
<1>6. o \notin ToSet(callbacks) \cup ToSet(pass) \cup ToSet(kept) \cup ToSet(invoked)
  BY <1>5 DEF CallbackParts, Apart
<1>7. Passes'
  BY <1>1, <1>2 DEF Passes
<1>8. CallbackOnResult'
  BY <1>2, <1>4, <1>5, <1>6 DEF CallbackParts, CallbackOnResult, Apart, WithPromise
<1>9. CASE kept' = Append(kept, o) /\ callbacks' = callbacks
  <2>1. ToSet(kept') = ToSet(kept) \cup {o} /\ IsInjective(kept')
    BY <1>3, <1>6, <1>9, AppendElements DEF CallbackParts, Apart
  <2>2. Apart'
    BY <1>2, <1>4, <1>5, <1>6, <1>9, <2>1 DEF CallbackParts, Apart
  <2> QED
    BY <1>5, <1>7, <1>8, <2>2 DEF CallbackParts
<1>10. CASE callbacks' = Append(callbacks, o) /\ kept' = kept
  <2>1. ToSet(callbacks') = ToSet(callbacks) \cup {o} /\ IsInjective(callbacks')
    BY <1>3, <1>6, <1>10, AppendElements DEF CallbackParts, Apart
  <2>2. Apart'
    BY <1>2, <1>4, <1>5, <1>6, <1>10, <2>1 DEF CallbackParts, Apart
  <2> QED
    BY <1>5, <1>7, <1>8, <2>2 DEF CallbackParts
<1> QED
  BY <1>1, <1>9, <1>10

\* Executing an operation sets its promise.
LEMMA ExecuteCallbacks ==
    ASSUME IInv, PathInv, CallbackParts, NEW w \in Workers, WorkerExecutes(w)
    PROVE  CallbackParts'
<1> USE DEF queueVars, lifeVars, workerVars, clientVars, history
<1> DEFINE o == op[w]
<1>1. /\ promise' = [promise EXCEPT ![o] = IF @ = "unset" THEN "set" ELSE @]
      /\ UNCHANGED <<queue, pool, enqueued, callbacks, pass, kept, inPass, invoked>>
      /\ op' = [op EXCEPT ![w] = Null]
  BY DEF WorkerExecutes
<1>2. o \in Ops /\ o # Null
  BY DEF WorkerExecutes, IInv, OwnConnection, TypeOK
<1>3. \A v \in Workers : v # w => op'[v] = op[v] /\ op[v] # o
  BY <1>1, <1>2 DEF IInv, TypeOK, PathInv, ExecutedOnce
<1>4. op'[w] = Null
  BY <1>1 DEF IInv, TypeOK
<1>5. o \in Hands /\ Hands' \subseteq (Hands \ {o}) \cup {Null} /\ Queued' = Queued
  BY <1>1, <1>2, <1>3, <1>4 DEF Hands, Queued
<1>6. o \notin Queued /\ promise[o] \in {"none", "unset"} /\ Null \notin Ops
  BY <1>2, <1>5, PoolAssumption DEF PathInv, OnePlace, CallbackParts, Promises
<1>7. /\ \A q \in Ops : q # o => promise'[q] = promise[q]
      /\ promise'[o] = IF promise[o] = "unset" THEN "set" ELSE "none"
  BY <1>1, <1>2, <1>6 DEF IInv, TypeOK
<1>8. Promises'
  BY <1>1, <1>5, <1>6, <1>7 DEF CallbackParts, Promises
<1>9. WithPromise' = WithPromise
  BY <1>6, <1>7 DEF WithPromise
<1>10. Passes' /\ Apart'
  BY <1>1, <1>9 DEF CallbackParts, Passes, Apart
<1>11. CallbackOnResult'
  BY <1>1, <1>6, <1>7 DEF CallbackParts, CallbackOnResult, Apart, WithPromise
<1> QED
  BY <1>8, <1>10, <1>11 DEF CallbackParts

\* Cancel breaks the promises of what is still queued; by then nobody calls back.
LEMMA CancelCallbacks ==
    ASSUME IInv, PathInv, CallbackParts, CancelQueue PROVE CallbackParts'
<1> USE DEF queueVars, lifeVars, workerVars, clientVars, history
<1>1. /\ queue' = <<>> /\ UNCHANGED <<op, pool, enqueued, callbacks, pass, kept, inPass, invoked>>
      /\ \A o \in Ops : promise'[o] = IF o \in Queued /\ promise[o] = "unset"
                                      THEN "broken" ELSE promise[o]
  BY DEF CancelQueue, Cancel
<1>2. pool = "failing" \/ pool = "closing"
  BY DEF CancelQueue, IInv, Phases
<1>3. pool = "failing" => Queued = {}
  BY EmptyElements DEF IInv, QuietUntilOpen, Queued
<1>4. Queued' = {} /\ Hands' = Hands /\ Queued \cap Hands = {}
  BY <1>1, EmptyElements DEF Queued, Hands, PathInv, OnePlace
<1>5. Promises'
  BY <1>1, <1>2, <1>3, <1>4 DEF CallbackParts, Promises
<1>6. WithPromise' = WithPromise
  BY <1>1 DEF WithPromise
<1>7. Passes' /\ Apart'
  BY <1>1, <1>6 DEF CallbackParts, Passes, Apart
<1>8. CallbackOnResult'
  BY <1>1 DEF CallbackParts, CallbackOnResult, Apart, WithPromise
<1> QED
  BY <1>5, <1>7, <1>8 DEF CallbackParts

\* The rest of the pool's life and the other steps of the workers.
LEMMA OtherCallbacks ==
    ASSUME IInv, PathInv, CallbackParts,
           \/ OpenPool \/ ConnectionOpens \/ ConnectionFails \/ GiveUp \/ JoinWorker
           \/ AllDestroyed \/ Close \/ Terminated \/ UNCHANGED vars
           \/ \E w \in Workers : \/ ConstructConnection(w) \/ StopWorker(w)
                                 \/ WorkerSleeps(w) \/ WorkerWakes(w) \/ WorkerChecks(w)
                                 \/ WorkerPops(w)
    PROVE  CallbackParts'
<1> USE DEF queueVars, lifeVars, workerVars, clientVars, history
<1>1. UNCHANGED <<promise, enqueued, callbacks, pass, kept, inPass, invoked>>
  BY DEF OpenPool, ConnectionOpens, ConnectionFails, GiveUp, JoinWorker, AllDestroyed, Close,
     Terminated, vars, ConstructConnection, StopWorker, WorkerSleeps, WorkerWakes, WorkerChecks,
     WorkerPops
<1>2. /\ pool \in {"closing", "closed"} => pool' \in {"closing", "closed"}
      /\ pool = "open" /\ inPass => pool' = "open"
  BY DEF OpenPool, ConnectionOpens, ConnectionFails, GiveUp, JoinWorker, AllDestroyed, Close,
     Terminated, vars, ConstructConnection, StopWorker, WorkerSleeps, WorkerWakes, WorkerChecks,
     WorkerPops, IInv, Phases
<1>3. \A o \in Ops : o \in Queued' \cup Hands' => o \in Queued \cup Hands
  <2>1. ASSUME NEW w \in Workers, WorkerPops(w)
        PROVE  Queued' \cup Hands' \subseteq Queued \cup Hands
    <3>1. CASE queue' = queue /\ op' = op
      BY <3>1 DEF Queued, Hands
    <3>2. CASE /\ queue # <<>> /\ queue' = Tail(queue) /\ op'[w] = Head(queue)
               /\ \A v \in Workers : v # w => op'[v] = op[v]
      <4>1. queue \in Seq(Ops)
        BY DEF IInv, TypeOK
      <4>2. Queued = Queued' \cup {Head(queue)}
        BY <3>2, <4>1, TailElements DEF Queued
      <4> QED
        BY <3>2, <4>2 DEF Hands
    <3> QED
      BY <2>1, <3>1, <3>2, PopElements DEF IInv
  <2>2. CASE ~\E w \in Workers : WorkerPops(w)
    <3>1. queue' = queue /\ op' = op
      BY <2>2 DEF OpenPool, ConnectionOpens, ConnectionFails, GiveUp, JoinWorker, AllDestroyed,
         Close, Terminated, vars, ConstructConnection, StopWorker, WorkerSleeps, WorkerWakes,
         WorkerChecks, WaitOnCondition, SpuriousWakeup
    <3> QED
      BY <3>1 DEF Queued, Hands
  <2> QED
    BY <2>1, <2>2
<1>4. Promises'
  BY <1>1, <1>2, <1>3 DEF CallbackParts, Promises
<1>5. Passes'
  BY <1>1, <1>2 DEF CallbackParts, Passes
<1>6. Apart' /\ CallbackOnResult'
  BY <1>1 DEF CallbackParts, Apart, CallbackOnResult, WithPromise
<1> QED
  BY <1>4, <1>5, <1>6 DEF CallbackParts

\* Every step preserves the callback invariant.
LEMMA CallbackStep ==
    ASSUME IInv, IInv', PathInv, CallbackInv, [Next]_vars PROVE CallbackInv'
<1>1. CallbackParts
  BY ApartForm DEF IInv, TypeOK, CallbackInv, CallbackParts
<1>2. CallbackParts'
  <2>1. CASE \/ OpenPool \/ ConnectionOpens \/ ConnectionFails \/ GiveUp \/ JoinWorker
             \/ AllDestroyed \/ Close \/ Terminated \/ UNCHANGED vars
             \/ \E w \in Workers : \/ ConstructConnection(w) \/ StopWorker(w)
                                   \/ WorkerSleeps(w) \/ WorkerWakes(w) \/ WorkerChecks(w)
                                   \/ WorkerPops(w)
    BY <1>1, <2>1, OtherCallbacks
  <2>2. CASE CancelQueue
    BY <1>1, <2>2, CancelCallbacks
  <2>3. CASE \E w \in Workers : WorkerExecutes(w)
    BY <1>1, <2>3, ExecuteCallbacks
  <2>4. CASE BeginPass \/ InvokeReady \/ KeepUnready \/ EndPass
    BY <1>1, <2>4, PassCallbacks
  <2>5. CASE \E o \in Ops : InvokeAndChain(o) \/ InvokeAndAdd(o)
    BY <1>1, <2>5, ChainCallbacks
  <2>6. CASE \E o \in Ops : Execute(o) \/ AsyncQuery(o)
    BY <1>1, <2>6, ClientCallbacks
  <2> QED
    BY <2>1, <2>2, <2>3, <2>4, <2>5, <2>6 DEF Next, Lifecycle, Processor, WorkerRuns
<1> QED
  BY <1>2, ApartFormNext DEF IInv, TypeOK, CallbackInv, CallbackParts

\* There is no callback at first.
LEMMA InitCallback == Init => CallbackInv
<1> SUFFICES ASSUME Init PROVE CallbackInv
  OBVIOUS
<1>1. /\ callbacks = <<>> /\ pass = <<>> /\ kept = <<>> /\ invoked = <<>> /\ inPass = FALSE
      /\ \A o \in Ops : promise[o] = "none"
  BY DEF Init
<1>2. Apart
  BY <1>1, EmptyElements DEF Apart, WithPromise
<1>3. Promises /\ Passes
  BY <1>1 DEF Promises, Passes
<1>4. CallbackOnResult
  BY <1>1, EmptyElements DEF CallbackOnResult
<1>5. callbacks \in Seq(Ops) /\ pass \in Seq(Ops) /\ kept \in Seq(Ops) /\ invoked \in Seq(Ops)
  BY <1>1
<1> QED
  BY <1>2, <1>3, <1>4, <1>5, ApartForm DEF CallbackInv

\* The way of the callbacks holds in every reachable state.
THEOREM CallbackInvariance == Spec => []CallbackInv
<1>1. IInv /\ IInv' /\ PathInv /\ CallbackInv /\ [Next]_vars => CallbackInv'
  BY CallbackStep
<1> QED
  BY <1>1, InitCallback, PathInvariance, PTL DEF Spec

\* The processor never loses a callback and never keeps one twice, however many
\* queries the callbacks it invokes chain or add while it is walking its vector.
THEOREM NeverLosesCallback == Spec => []NoLostCallback
<1>1. CallbackInv => NoLostCallback
  BY DEF CallbackInv
<1> QED
  BY <1>1, CallbackInvariance, PTL

\* A callback runs at most once and only on a result that a worker has set; the
\* promises that Cancel breaks are never looked at.
THEOREM NeverCalledOnBroken == Spec => []CallbackOnResult
<1>1. CallbackInv => CallbackOnResult
  BY DEF CallbackInv
<1> QED
  BY <1>1, CallbackInvariance, PTL
=============================================================================
