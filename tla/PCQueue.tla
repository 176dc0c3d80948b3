------------------------------ MODULE PCQueue ------------------------------
(***************************************************************************)
(* common/Threading/PCQueue.h: ProducerConsumerQueue<T>, the blocking      *)
(* queue of raw pointers between the threads that produce work and a pool  *)
(* of worker threads.  Every method body runs under _queueLock, so each is *)
(* one step here; the only place where a thread gives the lock up is       *)
(* _condition.wait inside WaitAndPop, which is why falling asleep          *)
(* (WaitOnCondition) and returning (WaitAndPop) are two operators.         *)
(*                                                                         *)
(* The operators constrain only the three variables of the queue.  The     *)
(* modules that EXTEND this one (MapUpdater, DatabaseWorkerPool) conjoin   *)
(* them with what the calling thread does.                                 *)
(***************************************************************************)
EXTENDS Naturals, Sequences, FiniteSets

CONSTANT Null   \* the value a consumer's pointer keeps when nothing is popped

VARIABLES queue,      \* _queue, front first
          shutdown,   \* _shutdown
          sleeping    \* the threads blocked in _condition.wait

queueVars == <<queue, shutdown, sleeping>>

QueueInit ==
    /\ queue = <<>>
    /\ shutdown = FALSE
    /\ sleeping = {}

\* Mutant of NotifyOne: nobody is notified.
NotifyNobody == UNCHANGED sleeping

\* _condition.notify_one(): releases one of the sleeping threads, if any.
NotifyOne ==
    \/ sleeping = {} /\ UNCHANGED sleeping
    \/ \E t \in sleeping : sleeping' = sleeping \ {t}

\* Push does not look at _shutdown: after Cancel it still enqueues.
Push(value) ==
    /\ queue' = Append(queue, value)
    /\ NotifyOne
    /\ UNCHANGED shutdown

\* The loop of WaitAndPop: the predicate is tested and the wait entered under
\* the same lock.
WaitOnCondition(t) ==
    /\ queue = <<>> /\ ~shutdown
    /\ t \notin sleeping
    /\ sleeping' = sleeping \cup {t}
    /\ UNCHANGED <<queue, shutdown>>

\* A condition variable may wake a thread that nobody notified.
SpuriousWakeup(t) ==
    /\ t \in sleeping
    /\ sleeping' = sleeping \ {t}
    /\ UNCHANGED <<queue, shutdown>>

\* Mutant of WaitAndPop: the newest element is taken instead of the oldest.
PopNewest(t, value) ==
    /\ t \notin sleeping
    /\ \/ /\ queue # <<>> /\ ~shutdown
          /\ value = queue[Len(queue)]
          /\ queue' = SubSeq(queue, 1, Len(queue) - 1)
       \/ /\ shutdown
          /\ value = Null
          /\ UNCHANGED queue
    /\ UNCHANGED <<shutdown, sleeping>>

\* The rest of WaitAndPop: with work and no shutdown the front is popped, after
\* a shutdown the caller's pointer stays Null and the queue is left alone.
WaitAndPop(t, value) ==
    /\ t \notin sleeping
    /\ \/ /\ queue # <<>> /\ ~shutdown
          /\ value = Head(queue)
          /\ queue' = Tail(queue)
       \/ /\ shutdown
          /\ value = Null
          /\ UNCHANGED queue
    /\ UNCHANGED <<shutdown, sleeping>>

\* Mutant of Cancel: the sleeping consumers are not woken.
CancelWithoutNotify ==
    /\ queue' = <<>>
    /\ shutdown' = TRUE
    /\ UNCHANGED sleeping

\* Cancel deletes everything that is queued and wakes every consumer.
Cancel ==
    /\ queue' = <<>>
    /\ shutdown' = TRUE
    /\ sleeping' = {}
=============================================================================
