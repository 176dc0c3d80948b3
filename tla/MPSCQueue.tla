----------------------------- MODULE MPSCQueue -----------------------------
(***************************************************************************)
(* common/Threading/MPSCQueue.h: MPSCQueueIntrusive<T>, the lock-free      *)
(* queue of many producers and one consumer.  The elements are linked      *)
(* through a member of their own, from the tail, where the consumer takes, *)
(* to the head, where the producers add; a dummy element keeps the list    *)
(* from becoming empty.  Every load, store and exchange is a step of its   *)
(* own: between the exchange of _head and the store of the link the list   *)
(* is cut in two, and the consumer may look at it right then.              *)
(*                                                                         *)
(* The consumer deletes what it takes, so `freed' holds the elements whose *)
(* memory is gone.  `order' and `got' are histories: the elements in the   *)
(* order of the exchanges, and in the order they were taken.               *)
(*                                                                         *)
(* The operators constrain only the variables of the queue; WorldSocket,   *)
(* which EXTENDs this module, conjoins them with what the threads do.      *)
(***************************************************************************)
EXTENDS Naturals, SequencesExt

CONSTANTS Producers,  \* the threads that call Enqueue, the consumer included
          Consumer,   \* the thread that calls Dequeue
          Elements,   \* what can be enqueued
          Dummy,      \* _dummyPtr
          None        \* nullptr

ASSUME QueueAssumption ==
    /\ Consumer \in Producers
    /\ Dummy \notin Elements /\ None \notin Elements \cup {Dummy}

Nodes == Elements \cup {Dummy}

VARIABLES link,      \* IntrusiveLink of each element
          head, tail,
          input,     \* per thread the argument of its call of Enqueue, or None
          prevHead,  \* per thread the result of its exchange, None before it
          deq,       \* where the consumer is in Dequeue
          freed, order, got

mpscVars == <<link, head, tail, input, prevHead, deq, freed, order, got>>
producerVars == <<link, head, input, prevHead, order>>
consumerVars == <<tail, deq, freed, got>>

MPSCInit ==
    /\ link = [n \in Nodes |-> None]
    /\ head = Dummy /\ tail = Dummy
    /\ input = [t \in Producers |-> None] /\ prevHead = [t \in Producers |-> None]
    /\ deq = "idle"
    /\ freed = {} /\ order = <<>> /\ got = <<>>

\* Enqueue is called.
CallEnqueue(t, n) ==
    /\ input[t] = None
    /\ input' = [input EXCEPT ![t] = n]
    /\ UNCHANGED <<link, head, prevHead, order>>

\* The link of the new element, which is still private, is reset, and _head
\* exchanged.
Exchange(t) ==
    /\ input[t] # None /\ prevHead[t] = None
    /\ link' = [link EXCEPT ![input[t]] = None]
    /\ head' = input[t]
    /\ prevHead' = [prevHead EXCEPT ![t] = head]
    /\ order' = IF input[t] = Dummy THEN order ELSE Append(order, input[t])
    /\ UNCHANGED input

\* The element that was the head is linked to the new one: Enqueue returns.
StoreLink(t) ==
    /\ prevHead[t] # None
    /\ link' = [link EXCEPT ![prevHead[t]] = input[t]]
    /\ input' = [input EXCEPT ![t] = None]
    /\ prevHead' = [prevHead EXCEPT ![t] = None]
    /\ UNCHANGED <<head, order>>

CallDequeue ==
    /\ deq = "idle"
    /\ deq' = "load"
    /\ UNCHANGED <<producerVars, tail, freed, got>>

\* The dummy is at the tail and something is linked behind it.
SkipDummy ==
    /\ deq = "load" /\ tail = Dummy /\ link[tail] # None
    /\ tail' = link[tail]
    /\ UNCHANGED <<producerVars, deq, freed, got>>

\* Mutant of TakeTail: an element without a successor is taken as well.
TakeLast ==
    /\ \/ deq = "load" /\ tail # Dummy
       \/ deq = "reload" /\ link[tail] # None
    /\ tail' = IF link[tail] = None THEN Dummy ELSE link[tail]
    /\ got' = Append(got, tail) /\ freed' = freed \cup {tail}
    /\ deq' = "idle"
    /\ UNCHANGED producerVars

\* An element with a successor is taken: Dequeue returns true, and the caller
\* deletes the element before it calls again.
TakeTail ==
    /\ deq \in {"load", "reload"} /\ tail # Dummy /\ link[tail] # None
    /\ tail' = link[tail]
    /\ got' = Append(got, tail) /\ freed' = freed \cup {tail}
    /\ deq' = "idle"
    /\ UNCHANGED producerVars

\* The last element has no successor, which the dummy is to become.
NoSuccessor ==
    /\ deq = "load" /\ tail # Dummy /\ link[tail] = None
    /\ deq' = "head"
    /\ UNCHANGED <<producerVars, tail, freed, got>>

\* It is the head indeed: Enqueue(_dummyPtr).
TailIsHead ==
    /\ deq = "head" /\ tail = head
    /\ deq' = "dummy"
    /\ CallEnqueue(Consumer, Dummy)
    /\ UNCHANGED <<tail, freed, got>>

EnqueueDummy ==
    /\ deq = "dummy"
    /\ \/ Exchange(Consumer) /\ UNCHANGED deq
       \/ StoreLink(Consumer) /\ deq' = "reload"
    /\ UNCHANGED <<tail, freed, got>>

\* Dequeue returns false: there is nothing, or a producer has not stored its
\* link yet.
FindsNothing ==
    /\ \/ deq = "load" /\ tail = Dummy /\ link[tail] = None
       \/ deq = "head" /\ tail # head
       \/ deq = "reload" /\ link[tail] = None
    /\ deq' = "idle"
    /\ UNCHANGED <<producerVars, tail, freed, got>>

\* The steps of Dequeue that do not return.
DequeueStep == SkipDummy \/ NoSuccessor \/ TailIsHead \/ EnqueueDummy

-----------------------------------------------------------------------------
(* Properties. *)

\* Elements are taken in the order in which their producers exchanged the
\* head, none is skipped and none taken twice.
TakenInOrder == IsPrefix(got, order)

\* No thread is about to write the link of a deleted element, and the consumer
\* does not look at one.
NoUseAfterFree ==
    /\ tail \notin freed
    /\ \A t \in Producers : prevHead[t] \notin freed
=============================================================================
