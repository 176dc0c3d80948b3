------------------------- MODULE WorldSocketProofs -------------------------
(***************************************************************************)
(* Safety of WorldSocket, with its queue MPSCQueue, for any number of      *)
(* sending threads and packets.                                            *)
(*                                                                         *)
(* The queue: there is a list of elements from the tail to the head,       *)
(* whose links are stored or owed by a producer that has exchanged the     *)
(* head (IsList).  No step of the code sees this list as a whole; that it  *)
(* exists at every moment is what makes the consumer's steps safe.         *)
(*                                                                         *)
(* The wire: what was taken from the queue is cut into the buffers on the  *)
(* wire, in the write queue and in the one being filled (SentInv), and     *)
(* the list says that it was taken in the order of the exchanges.          *)
(*                                                                         *)
(* The connection: whoever closes a socket is about to take its session    *)
(* away (ClosedSoon), and an open connection is watched at every point of  *)
(* the network thread where it is not just about to be (Watched).          *)
(***************************************************************************)
EXTENDS WorldSocket, SequenceLemmas, TLAPS

\* The types of the queue.
QueueType ==
    /\ link \in [Nodes -> Nodes \cup {None}]
    /\ head \in Nodes /\ tail \in Nodes
    /\ input \in [Producers -> Nodes \cup {None}]
    /\ prevHead \in [Producers -> Nodes \cup {None}]
    /\ deq \in {"idle", "load", "reload", "head", "dummy"}
    /\ freed \in SUBSET Elements
    /\ order \in Seq(Elements) /\ got \in Seq(Elements)
    /\ used \in 0..MaxPackets

\* L is the list, from the tail to the head.  A link that is missing is owed by
\* the producer that has exchanged the head at that place.
IsList(L) ==
    /\ L # <<>> /\ tail = L[1] /\ head = L[Len(L)]
    /\ IsInjective(L) /\ ToSet(L) \cap freed = {}
    /\ link[head] = None
    /\ \A i \in 1..(Len(L) - 1) :
           \/ link[L[i]] = L[i + 1]
           \/ \E t \in Producers : prevHead[t] = L[i]
    /\ \A t \in Producers : prevHead[t] # None =>
           \E i \in 1..(Len(L) - 1) : /\ prevHead[t] = L[i] /\ input[t] = L[i + 1]
                                      /\ link[L[i]] = None

\* The dummy is at place d of L, or nowhere if that is behind the head; the other
\* elements are those exchanged and not taken, in order.
HoldsRest(L, d) ==
    /\ d \in 1..(Len(L) + 1)
    /\ \A i \in 1..Len(L) : L[i] = Dummy <=> i = d
    /\ \A i \in 1..Len(L) : i # d =>
           L[i] = order[Len(got) + IF i < d THEN i ELSE i - 1]
    /\ Len(order) = Len(got) + IF d <= Len(L) THEN Len(L) - 1 ELSE Len(L)

\* What a thread is about to enqueue is nowhere else.
InputsPrivate(L) ==
    /\ \A t, u \in Producers : input[t] = input[u] /\ input[t] # None => t = u
    /\ \A t \in Producers : input[t] # None /\ prevHead[t] = None =>
           input[t] \notin ToSet(L) \cup freed
    /\ \A t \in Producers : input[t] = Dummy <=> t = Consumer /\ deq = "dummy"

\* Packets are numbered as they are sent.
Numbered(L) ==
    /\ \A n \in ToSet(L) \cup freed : n # Dummy => n <= used
    /\ \A t \in Producers : input[t] \notin {None, Dummy} => input[t] <= used

\* L and d are the list and the place of the dummy.
ListAt(L, d) ==
    /\ L \in Seq(Nodes) /\ d \in Nat
    /\ IsList(L) /\ HoldsRest(L, d) /\ InputsPrivate(L) /\ Numbered(L)

ListInv == \E L, d : ListAt(L, d)

\* The network thread drains the queue while it is in Dequeue, and looks behind
\* the dummy only after it has found another element at the tail.
Draining ==
    /\ net = "drain" <=> deq # "idle"
    /\ deq \in {"head", "dummy", "reload"} => tail # Dummy

\* Enqueued packets reach the consumer in order, and no memory is used after it
\* was freed.
QueueInv == QueueType /\ ListInv /\ Draining /\ TakenInOrder

\* What the proofs use of a list, by its places.
LEMMA ListFacts ==
    ASSUME NEW L, NEW d, ListAt(L, d), QueueType
    PROVE  /\ Len(L) \in Nat /\ Len(L) >= 1
           /\ \A i \in 1..Len(L) : L[i] \in Nodes /\ L[i] \in ToSet(L)
           /\ \A e \in ToSet(L) : \E i \in 1..Len(L) : e = L[i]
           /\ \A i, j \in 1..Len(L) : L[i] = L[j] => i = j
           /\ None \notin Nodes /\ Dummy \notin freed /\ Dummy # None
           /\ \A t \in Producers : prevHead[t] # None => input[t] # None
<1>1. L \in Seq(Nodes) /\ L # <<>> /\ IsInjective(L)
  BY DEF ListAt, IsList
<1>2. /\ Len(L) \in Nat /\ Len(L) >= 1 /\ DOMAIN L = 1..Len(L)
      /\ \A i \in 1..Len(L) : L[i] \in Nodes /\ L[i] \in ToSet(L)
      /\ \A e \in ToSet(L) : \E i \in 1..Len(L) : e = L[i]
  BY <1>1, SeqElements, LenProperties, EmptySeq, ElementOfSeq
<1>3. \A i, j \in 1..Len(L) : L[i] = L[j] => i = j
  BY <1>1, <1>2 DEF IsInjective
<1>4. None \notin Nodes /\ Dummy \notin freed /\ Dummy # None
  BY QueueAssumption DEF QueueType, Nodes
<1>5. ASSUME NEW t \in Producers, prevHead[t] # None PROVE input[t] # None
  <2>1. PICK i \in 1..(Len(L) - 1) : input[t] = L[i + 1]
    BY <1>5 DEF ListAt, IsList
  <2>2. i + 1 \in 1..Len(L)
    BY <1>2
  <2> QED
    BY <1>2, <1>4, <2>1, <2>2
<1> QED
  BY <1>2, <1>3, <1>4, <1>5

\* Steps of Dequeue that only look.
LEMMA LookKeepsList ==
    ASSUME NEW L, NEW d, ListAt(L, d), UNCHANGED <<producerVars, tail, freed, got, used>>,
           deq # "dummy", deq' # "dummy"
    PROVE  ListAt(L, d)'
BY DEF ListAt, IsList, HoldsRest, InputsPrivate, Numbered, producerVars

\* A thread calls Enqueue with an element that is nowhere yet.
LEMMA CallKeepsList ==
    ASSUME NEW L, NEW d, ListAt(L, d), QueueType, NEW t \in Producers, NEW n \in Nodes,
           CallEnqueue(t, n), UNCHANGED <<tail, freed, got>>,
           n \notin ToSet(L) \cup freed, \A u \in Producers : input[u] # n,
           used \in Nat, used' \in Nat, used <= used',
           n # Dummy => n <= used' /\ UNCHANGED deq,
           n = Dummy => t = Consumer /\ deq' = "dummy",
           \A m \in Elements : m \in Nat
    PROVE  ListAt(L, d)'
<1> USE DEF ListAt
<1>0. /\ input[t] = None /\ prevHead[t] = None /\ n # None /\ Dummy # None
      /\ \A u \in Producers : input'[u] = IF u = t THEN n ELSE input[u]
      /\ UNCHANGED <<link, head, prevHead, order, tail, freed, got>>
      /\ input \in [Producers -> Nodes \cup {None}]
  BY ListFacts DEF CallEnqueue, QueueType
<1>1. IsList(L)'
  BY <1>0 DEF IsList
<1>2. HoldsRest(L, d)'
  BY <1>0 DEF HoldsRest
<1>3. InputsPrivate(L)'
  <2>1. \A u \in Producers : input'[u] = Dummy <=> u = Consumer /\ deq' = "dummy"
    BY <1>0, QueueAssumption DEF InputsPrivate
  <2> QED
    BY <1>0, <2>1 DEF InputsPrivate
<1>4. Numbered(L)'
  <2>1. \A m \in ToSet(L) \cup freed : m # Dummy => m <= used'
    BY SeqElements DEF Numbered, QueueType, Nodes
  <2>2. \A u \in Producers : input'[u] \notin {None, Dummy} => input'[u] <= used'
    BY <1>0 DEF Numbered, Nodes
  <2> QED
    BY <1>0, <2>1, <2>2 DEF Numbered
<1> QED
  BY <1>1, <1>2, <1>3, <1>4

\* The exchange puts the element behind the head; its link is owed.
LEMMA ExchangeKeepsList ==
    ASSUME NEW L, NEW d, ListAt(L, d), QueueType, NEW t \in Producers,
           Exchange(t), UNCHANGED <<tail, freed, got, used, deq>>
    PROVE  \E M, e : ListAt(M, e)'
<1>n. PICK n : n = input[t]
  OBVIOUS
<1>m. PICK M : M = Append(L, n)
  OBVIOUS
<1>e. PICK e : e = IF n # Dummy /\ d = Len(L) + 1 THEN d + 1 ELSE d
  OBVIOUS
<1>0. /\ IsList(L) /\ HoldsRest(L, d) /\ InputsPrivate(L) /\ Numbered(L)
      /\ L \in Seq(Nodes) /\ d \in Nat
      /\ n \in Nodes /\ n # None /\ n \notin ToSet(L) /\ n \notin freed
      /\ n # Dummy => n \in Elements
  BY <1>n DEF ListAt, InputsPrivate, Exchange, QueueType, Nodes
<1>1. /\ Len(L) \in Nat /\ Len(L) >= 1
      /\ \A i \in 1..Len(L) : L[i] \in Nodes /\ L[i] \in ToSet(L)
      /\ \A i, j \in 1..Len(L) : L[i] = L[j] => i = j
      /\ None \notin Nodes /\ Dummy # None
  BY ListFacts
<1>2. /\ M \in Seq(Nodes) /\ Len(M) = Len(L) + 1 /\ M[Len(L) + 1] = n
      /\ \A i \in 1..Len(L) : M[i] = L[i]
      /\ ToSet(M) = ToSet(L) \cup {n}
      /\ IsInjective(M)
  <2>1. IsInjective(L)
    BY <1>0 DEF IsList
  <2> QED
    BY <1>0, <1>m, <2>1, AppendElements, AppendProperties
<1>3. /\ prevHead[t] = None /\ head' = n /\ UNCHANGED <<input, tail, freed, got, used, deq>>
      /\ link'[n] = None /\ \A m \in Nodes : m # n => link'[m] = link[m]
      /\ prevHead'[t] = head
      /\ \A u \in Producers : u # t => prevHead'[u] = prevHead[u]
      /\ order' = IF n = Dummy THEN order ELSE Append(order, n)
      /\ head \in Nodes /\ head = L[Len(L)] /\ link[head] = None /\ tail = L[1]
  BY <1>0, <1>n DEF Exchange, QueueType, IsList
<1>4. IsList(M)'
  <2>1. M # <<>> /\ tail = M[1] /\ n = M[Len(M)] /\ ToSet(M) \cap freed = {}
    BY <1>0, <1>1, <1>2, <1>3, EmptySeq DEF IsList
  <2>2. ASSUME NEW i \in 1..(Len(M) - 1)
        PROVE  link'[M[i]] = M[i + 1] \/ \E u \in Producers : prevHead'[u] = M[i]
    <3>1. CASE i = Len(L)
      BY <1>1, <1>2, <1>3, <3>1
    <3>2. CASE i # Len(L)
      <4>1. i \in 1..(Len(L) - 1) /\ i \in 1..Len(L) /\ i + 1 \in 1..Len(L)
        BY <1>1, <1>2, <3>2
      <4>2. M[i] = L[i] /\ M[i + 1] = L[i + 1] /\ L[i] \in Nodes /\ L[i] # n
        BY <1>0, <1>1, <1>2, <4>1
      <4>3. link[L[i]] = L[i + 1] \/ \E u \in Producers : prevHead[u] = L[i]
        BY <1>0, <4>1 DEF IsList
      <4> QED
        BY <1>1, <1>3, <4>2, <4>3
    <3> QED
      BY <3>1, <3>2
  <2>3. ASSUME NEW u \in Producers, prevHead'[u] # None
        PROVE  \E i \in 1..(Len(M) - 1) : /\ prevHead'[u] = M[i] /\ input[u] = M[i + 1]
                                          /\ link'[M[i]] = None
    <3>1. CASE u = t
      <4>1. Len(L) \in 1..(Len(M) - 1) /\ M[Len(L)] = head /\ M[Len(L)] # n
        BY <1>0, <1>1, <1>2, <1>3
      <4> QED
        BY <1>n, <1>2, <1>3, <3>1, <4>1
    <3>2. CASE u # t
      <4>1. PICK i \in 1..(Len(L) - 1) : /\ prevHead[u] = L[i] /\ input[u] = L[i + 1]
                                         /\ link[L[i]] = None
        BY <1>0, <1>3, <2>3, <3>2 DEF IsList
      <4>2. i \in 1..(Len(M) - 1) /\ i \in 1..Len(L) /\ i + 1 \in 1..Len(L)
        BY <1>1, <1>2
      <4>3. M[i] = L[i] /\ M[i + 1] = L[i + 1] /\ L[i] \in Nodes /\ L[i] # n
        BY <1>0, <1>1, <1>2, <4>2
      <4> QED
        BY <1>3, <3>2, <4>1, <4>2, <4>3
    <3> QED
      BY <3>1, <3>2
  <2> QED
    BY <1>2, <1>3, <2>1, <2>2, <2>3 DEF IsList
<1>5. HoldsRest(M, e)'
  <2>0. /\ d \in 1..(Len(L) + 1)
        /\ \A i \in 1..Len(L) : L[i] = Dummy <=> i = d
        /\ \A i \in 1..Len(L) : i # d => L[i] = order[Len(got) + IF i < d THEN i ELSE i - 1]
        /\ Len(order) = Len(got) + IF d <= Len(L) THEN Len(L) - 1 ELSE Len(L)
        /\ Len(got) \in Nat /\ Len(order) \in Nat
    BY <1>0, LenProperties DEF HoldsRest, QueueType
  <2>1. CASE n = Dummy
    <3>1. d = Len(L) + 1 /\ e = d
      BY <1>0, <1>1, <1>e, <2>0, <2>1
    <3>2. order' = order
      BY <1>3, <2>1
    <3>3. \A i \in 1..Len(M) : M[i] = Dummy <=> i = e
      BY <1>1, <1>2, <2>0, <2>1, <3>1
    <3>4. ASSUME NEW i \in 1..Len(M), i # e
          PROVE  M[i] = order[Len(got) + IF i < e THEN i ELSE i - 1]
      BY <1>1, <1>2, <2>0, <3>1, <3>4
    <3>5. /\ e \in 1..(Len(M) + 1)
          /\ Len(order) = Len(got) + IF e <= Len(M) THEN Len(M) - 1 ELSE Len(M)
      BY <1>1, <1>2, <2>0, <3>1
    <3> QED
      BY <1>3, <3>2, <3>3, <3>4, <3>5 DEF HoldsRest
  <2>2. CASE n # Dummy
    <3>1. /\ Len(order') = Len(order) + 1 /\ order'[Len(order) + 1] = n
          /\ \A i \in 1..Len(order) : order'[i] = order[i]
      BY <1>0, <1>3, <2>2, AppendProperties DEF QueueType
    <3>2. ASSUME NEW i \in 1..Len(L), i # d
          PROVE  M[i] = order'[Len(got) + IF i < d THEN i ELSE i - 1]
      <4>1. (Len(got) + IF i < d THEN i ELSE i - 1) \in 1..Len(order)
        BY <1>1, <2>0, <3>2
      <4> QED
        BY <1>2, <2>0, <3>1, <3>2, <4>1
    <3>3. CASE d = Len(L) + 1
      <4>1. e = d + 1 /\ Len(order) + 1 = Len(got) + (Len(L) + 1)
        BY <1>1, <1>e, <2>0, <2>2, <3>3
      <4>2. \A i \in 1..Len(M) : M[i] # Dummy /\ i < e
        BY <1>1, <1>2, <2>0, <2>2, <3>3, <4>1
      <4>3. ASSUME NEW i \in 1..Len(M) PROVE M[i] = order'[Len(got) + i]
        <5>1. CASE i = Len(L) + 1
          BY <1>1, <1>2, <2>0, <3>1, <4>1, <5>1
        <5>2. CASE i # Len(L) + 1
          <6>1. i \in 1..Len(L) /\ i # d /\ i < d
            BY <1>1, <1>2, <2>0, <3>3, <5>2
          <6> QED
            BY <3>2, <6>1
        <5> QED
          BY <5>1, <5>2
      <4>4. \A i \in 1..Len(M) : i # e => M[i] = order'[Len(got) + IF i < e THEN i ELSE i - 1]
        BY <4>2, <4>3
      <4>5. /\ e \in 1..(Len(M) + 1)
            /\ Len(order') = Len(got) + IF e <= Len(M) THEN Len(M) - 1 ELSE Len(M)
            /\ \A i \in 1..Len(M) : i # e
        BY <1>1, <1>2, <2>0, <3>1, <3>3, <4>1
      <4> QED
        BY <1>3, <4>2, <4>4, <4>5 DEF HoldsRest
    <3>4. CASE d # Len(L) + 1
      <4>1. e = d /\ d <= Len(L) /\ Len(order) + 1 = Len(got) + Len(L)
        BY <1>1, <1>e, <2>0, <3>4
      <4>2. \A i \in 1..Len(M) : M[i] = Dummy <=> i = e
        BY <1>1, <1>2, <2>0, <2>2, <4>1
      <4>3. ASSUME NEW i \in 1..Len(M), i # d
            PROVE  M[i] = order'[Len(got) + IF i < d THEN i ELSE i - 1]
        <5>1. CASE i = Len(L) + 1
          BY <1>1, <1>2, <2>0, <3>1, <4>1, <5>1
        <5> QED
          BY <1>1, <1>2, <3>2, <4>3, <5>1
      <4>4. /\ e \in 1..(Len(M) + 1)
            /\ Len(order') = Len(got) + IF e <= Len(M) THEN Len(M) - 1 ELSE Len(M)
        BY <1>1, <1>2, <2>0, <3>1, <4>1
      <4> QED
        BY <1>3, <4>1, <4>2, <4>3, <4>4 DEF HoldsRest
    <3> QED
      BY <3>3, <3>4
  <2> QED
    BY <2>1, <2>2
<1>6. InputsPrivate(M)'
  <2>1. ASSUME NEW u \in Producers, input[u] # None, prevHead'[u] = None
        PROVE  input[u] \notin ToSet(M) \cup freed
    <3>1. u # t
      BY <1>1, <1>3, <2>1
    <3>2. input[u] # n
      BY <1>n, <2>1, <3>1, <1>0 DEF InputsPrivate
    <3> QED
      BY <1>0, <1>2, <1>3, <2>1, <3>1, <3>2 DEF InputsPrivate
  <2> QED
    BY <1>0, <1>3, <2>1 DEF InputsPrivate
<1>7. Numbered(M)'
  BY <1>n, <1>0, <1>2, <1>3 DEF Numbered
<1>8. e \in Nat
  BY <1>0, <1>e
<1>9. ListAt(M, e)'
  BY <1>2, <1>4, <1>5, <1>6, <1>7, <1>8 DEF ListAt
<1> QED
  BY <1>9

\* The link that was owed is stored: the list is the same.
LEMMA StoreKeepsList ==
    ASSUME NEW L, NEW d, ListAt(L, d), QueueType, NEW t \in Producers,
           StoreLink(t), UNCHANGED <<tail, freed, got, used>>,
           deq' = "dummy" <=> deq = "dummy" /\ t # Consumer
    PROVE  ListAt(L, d)'
<1>0. IsList(L) /\ HoldsRest(L, d) /\ InputsPrivate(L) /\ Numbered(L)
  BY DEF ListAt
<1>1. /\ Len(L) \in Nat /\ Len(L) >= 1
      /\ \A i \in 1..Len(L) : L[i] \in Nodes
      /\ \A i, j \in 1..Len(L) : L[i] = L[j] => i = j
      /\ None \notin Nodes /\ Dummy # None
  BY ListFacts
<1>2. PICK k \in 1..(Len(L) - 1) :
          prevHead[t] = L[k] /\ input[t] = L[k + 1] /\ link[L[k]] = None
  BY <1>0 DEF StoreLink, IsList
<1>3. k \in 1..Len(L) /\ k + 1 \in 1..Len(L) /\ input[t] # None
  BY <1>1, <1>2
<1>4. /\ UNCHANGED <<head, order, tail, freed, got, used>>
      /\ link'[L[k]] = L[k + 1] /\ \A m \in Nodes : m # L[k] => link'[m] = link[m]
      /\ input'[t] = None /\ \A u \in Producers : u # t => input'[u] = input[u]
      /\ prevHead'[t] = None /\ \A u \in Producers : u # t => prevHead'[u] = prevHead[u]
  BY <1>1, <1>2, <1>3 DEF StoreLink, QueueType
<1>5. IsList(L)'
  <2>1. link'[head] = None
    <3>1. head = L[Len(L)] /\ L[Len(L)] # L[k] /\ L[Len(L)] \in Nodes
      BY <1>0, <1>1, <1>2, <1>3 DEF IsList
    <3> QED
      BY <1>0, <1>4, <3>1 DEF IsList
  <2>2. ASSUME NEW i \in 1..(Len(L) - 1)
        PROVE  link'[L[i]] = L[i + 1] \/ \E u \in Producers : prevHead'[u] = L[i]
    <3>1. CASE i # k
      <4>1. i \in 1..Len(L) /\ L[i] # L[k]
        BY <1>1, <1>3, <3>1
      <4>2. link[L[i]] = L[i + 1] \/ \E u \in Producers : prevHead[u] = L[i]
        BY <1>0 DEF IsList
      <4> QED
        BY <1>1, <1>2, <1>4, <4>1, <4>2
    <3> QED
      BY <1>4, <3>1
  <2>3. ASSUME NEW u \in Producers, prevHead'[u] # None
        PROVE  \E i \in 1..(Len(L) - 1) : /\ prevHead'[u] = L[i] /\ input'[u] = L[i + 1]
                                          /\ link'[L[i]] = None
    <3>1. u # t
      BY <1>4, <2>3
    <3>2. PICK i \in 1..(Len(L) - 1) : /\ prevHead[u] = L[i] /\ input[u] = L[i + 1]
                                       /\ link[L[i]] = None
      BY <1>0, <1>4, <2>3, <3>1 DEF IsList
    <3>3. i # k
      BY <1>0, <1>2, <1>3, <3>1, <3>2 DEF InputsPrivate
    <3>4. i \in 1..Len(L) /\ L[i] # L[k]
      BY <1>1, <1>3, <3>3
    <3> QED
      BY <1>1, <1>4, <3>1, <3>2, <3>4
  <2> QED
    BY <1>0, <1>4, <2>1, <2>2, <2>3 DEF IsList
<1>6. HoldsRest(L, d)'
  BY <1>0, <1>4 DEF HoldsRest
<1>7. InputsPrivate(L)'
  <2>1. ASSUME NEW u \in Producers PROVE input'[u] = Dummy <=> u = Consumer /\ deq' = "dummy"
    BY <1>0, <1>1, <1>4 DEF InputsPrivate
  <2> QED
    BY <1>0, <1>4, <2>1 DEF InputsPrivate
<1>8. Numbered(L)'
  BY <1>0, <1>4 DEF Numbered
<1> QED
  BY <1>5, <1>6, <1>7, <1>8 DEF ListAt

\* A link that the consumer sees leads to the next element.
LEMMA LinkLeadsOn ==
    ASSUME NEW L, NEW d, ListAt(L, d), QueueType, link[tail] # None
    PROVE  /\ Len(L) >= 2 /\ link[tail] = L[2]
           /\ \A t \in Producers : prevHead[t] # L[1]
<1>0. IsList(L)
  BY DEF ListAt
<1>1. /\ Len(L) \in Nat /\ Len(L) >= 1 /\ \A i \in 1..Len(L) : L[i] \in Nodes
      /\ None \notin Nodes
  BY ListFacts
<1>2. tail = L[1] /\ head = L[Len(L)] /\ link[head] = None
  BY <1>0 DEF IsList
<1>3. Len(L) >= 2
  BY <1>1, <1>2
<1>4. \A t \in Producers : prevHead[t] # L[1]
  <2> SUFFICES ASSUME NEW t \in Producers, prevHead[t] = L[1] PROVE FALSE
    OBVIOUS
  <2>1. prevHead[t] # None
    BY <1>1, <1>3
  <2>2. PICK i \in 1..(Len(L) - 1) : prevHead[t] = L[i] /\ link[L[i]] = None
    BY <1>0, <2>1 DEF IsList
  <2> QED
    BY <1>2, <2>2
<1>5. 1 \in 1..(Len(L) - 1)
  BY <1>1, <1>3
<1>6. link[L[1]] = L[2]
  <2>1. \/ link[L[1]] = L[1 + 1]
        \/ \E t \in Producers : prevHead[t] = L[1]
    BY <1>0, <1>5 DEF IsList
  <2> QED
    BY <1>4, <2>1
<1> QED
  BY <1>2, <1>3, <1>4, <1>6

\* The tail moves on: the list loses its first element, which may be freed.
LEMMA MoveKeepsList ==
    ASSUME NEW L, NEW d, ListAt(L, d), QueueType, link[tail] # None, tail' = link[tail],
           UNCHANGED <<producerVars, used>>, deq # "dummy", deq' # "dummy",
           freed' \in {freed, freed \cup {L[1]}}
    PROVE  /\ Tail(L) \in Seq(Nodes) /\ Len(Tail(L)) = Len(L) - 1
           /\ \A i \in 1..(Len(L) - 1) : Tail(L)[i] = L[i + 1]
           /\ IsList(Tail(L))' /\ InputsPrivate(Tail(L))' /\ Numbered(Tail(L))'
<1> DEFINE M == Tail(L)
<1>0. /\ IsList(L) /\ InputsPrivate(L) /\ Numbered(L) /\ L \in Seq(Nodes)
      /\ L # <<>> /\ IsInjective(L)
  BY DEF ListAt, IsList
<1>1. /\ Len(L) \in Nat /\ Len(L) >= 2 /\ link[tail] = L[2]
      /\ \A t \in Producers : prevHead[t] # L[1]
  BY ListFacts, LinkLeadsOn
<1>2. /\ M \in Seq(Nodes) /\ Len(M) = Len(L) - 1
      /\ \A i \in 1..(Len(L) - 1) : M[i] = L[i + 1]
      /\ Head(L) = L[1]
  BY <1>0, HeadTailProperties
<1>3. ToSet(L) = ToSet(M) \cup {L[1]} /\ L[1] \notin ToSet(M) /\ IsInjective(M)
  BY <1>0, <1>2, TailElements
<1>4. UNCHANGED <<link, head, input, prevHead, order, used>>
  BY DEF producerVars
<1> HIDE DEF M
<1>5. IsList(M)'
  <2>1. M # <<>> /\ tail' = M[1] /\ head = M[Len(M)] /\ link[head] = None
    BY <1>0, <1>1, <1>2, EmptySeq DEF IsList
  <2>2. ToSet(M) \cap freed' = {}
    BY <1>0, <1>3 DEF IsList
  <2>3. ASSUME NEW i \in 1..(Len(M) - 1)
        PROVE  link[M[i]] = M[i + 1] \/ \E t \in Producers : prevHead[t] = M[i]
    <3>1. i + 1 \in 1..(Len(L) - 1) /\ M[i] = L[i + 1] /\ M[i + 1] = L[(i + 1) + 1]
      BY <1>1, <1>2
    <3> QED
      BY <1>0, <3>1 DEF IsList
  <2>4. ASSUME NEW t \in Producers, prevHead[t] # None
        PROVE  \E i \in 1..(Len(M) - 1) : /\ prevHead[t] = M[i] /\ input[t] = M[i + 1]
                                          /\ link[M[i]] = None
    <3>1. PICK i \in 1..(Len(L) - 1) : /\ prevHead[t] = L[i] /\ input[t] = L[i + 1]
                                       /\ link[L[i]] = None
      BY <1>0, <2>4 DEF IsList
    <3>2. i # 1
      BY <1>1, <3>1
    <3>3. i - 1 \in 1..(Len(M) - 1) /\ M[i - 1] = L[i] /\ M[(i - 1) + 1] = L[i + 1]
      <4>1. i - 1 \in 1..(Len(M) - 1) /\ (i - 1) + 1 = i /\ i \in 1..(Len(L) - 1)
        BY <1>1, <1>2, <3>2
      <4>2. i - 1 \in 1..(Len(L) - 1)
        BY <1>2, <4>1
      <4> QED
        BY <1>2, <4>1, <4>2
    <3> QED
      BY <3>1, <3>3
  <2> QED
    BY <1>3, <1>4, <2>1, <2>2, <2>3, <2>4 DEF IsList
<1>6. InputsPrivate(M)'
  <2>1. ASSUME NEW t \in Producers, input[t] # None, prevHead[t] = None
        PROVE  input[t] \notin ToSet(M) \cup freed'
    BY <1>0, <1>3, <2>1 DEF InputsPrivate
  <2> QED
    BY <1>0, <1>4, <2>1 DEF InputsPrivate
<1>7. Numbered(M)'
  BY <1>0, <1>3, <1>4 DEF Numbered
<1> QED
  BY <1>2, <1>5, <1>6, <1>7 DEF M

\* The consumer leaves the dummy behind.
LEMMA SkipKeepsList ==
    ASSUME NEW L, NEW d, ListAt(L, d), QueueType, SkipDummy, UNCHANGED used
    PROVE  ListAt(Tail(L), Len(L))'
<1>0. HoldsRest(L, d) /\ IsList(L)
  BY DEF ListAt
<1>1. /\ link[tail] # None /\ tail' = link[tail] /\ UNCHANGED <<producerVars, used, freed, got>>
      /\ deq # "dummy" /\ deq' # "dummy" /\ UNCHANGED order
  BY DEF SkipDummy, producerVars
<1>2. Len(L) \in Nat /\ Len(L) >= 2
  BY <1>1, ListFacts, LinkLeadsOn
<1>3. PICK M : M = Tail(L)
  OBVIOUS
<1>4. /\ M \in Seq(Nodes) /\ Len(M) = Len(L) - 1
      /\ \A i \in 1..(Len(L) - 1) : M[i] = L[i + 1]
      /\ IsList(M)' /\ InputsPrivate(M)' /\ Numbered(M)'
  BY <1>1, <1>3, MoveKeepsList
<1>5. d = 1
  BY <1>0, <1>2 DEF HoldsRest, IsList, SkipDummy
<1>6. HoldsRest(M, Len(L))'
  <2>1. ASSUME NEW i \in 1..Len(M)
        PROVE  M[i] # Dummy /\ i < Len(L) /\ M[i] = order[Len(got) + i]
    <3>1. i + 1 \in 1..Len(L) /\ i + 1 # d /\ ~(i + 1 < d) /\ M[i] = L[i + 1] /\ i < Len(L)
      BY <1>2, <1>4, <1>5
    <3>2. L[i + 1] # Dummy /\ L[i + 1] = order[Len(got) + ((i + 1) - 1)]
      BY <1>0, <3>1 DEF HoldsRest
    <3> QED
      BY <1>4, <3>1, <3>2
  <2>2. /\ Len(L) \in 1..(Len(M) + 1) /\ ~(Len(L) <= Len(M))
        /\ Len(order) = Len(got) + Len(M)
    BY <1>0, <1>2, <1>4, <1>5 DEF HoldsRest
  <2>3. \A i \in 1..Len(M) : i # Len(L)
    BY <1>2, <1>4
  <2> QED
    BY <1>1, <2>1, <2>2, <2>3 DEF HoldsRest
<1>7. ListAt(M, Len(L))'
  BY <1>2, <1>4, <1>6 DEF ListAt
<1> QED
  BY <1>3, <1>7

\* The consumer takes the element at the tail, the next one in the order of the
\* exchanges, and frees it.
LEMMA TakeKeepsList ==
    ASSUME NEW L, NEW d, ListAt(L, d), QueueType, TakeTail, UNCHANGED used
    PROVE  /\ ListAt(Tail(L), d - 1)'
           /\ tail \in Elements /\ Len(got) < Len(order) /\ tail = order[Len(got) + 1]
<1>0. HoldsRest(L, d) /\ IsList(L) /\ d \in Nat
  BY DEF ListAt
<1>1. /\ link[tail] # None /\ tail' = link[tail] /\ UNCHANGED <<producerVars, used>>
      /\ deq # "dummy" /\ deq' # "dummy" /\ UNCHANGED order
      /\ tail # Dummy /\ tail = L[1] /\ freed' = freed \cup {L[1]}
      /\ tail \in Elements /\ got' = Append(got, tail)
  BY <1>0 DEF TakeTail, producerVars, IsList, QueueType, Nodes
<1>2. Len(L) \in Nat /\ Len(L) >= 2
  BY <1>1, ListFacts, LinkLeadsOn
<1>3. PICK M : M = Tail(L)
  OBVIOUS
<1>4. /\ M \in Seq(Nodes) /\ Len(M) = Len(L) - 1
      /\ \A i \in 1..(Len(L) - 1) : M[i] = L[i + 1]
      /\ IsList(M)' /\ InputsPrivate(M)' /\ Numbered(M)'
  BY <1>1, <1>3, MoveKeepsList
<1>5. /\ d \in 2..(Len(L) + 1) /\ Len(got) \in Nat
      /\ Len(got') = Len(got) + 1 /\ Len(order) \in Nat
      /\ tail = order[Len(got) + 1] /\ Len(got) < Len(order)
  <2>1. 1 \in 1..Len(L) /\ d \in 1..(Len(L) + 1) /\ d # 1
    BY <1>0, <1>1, <1>2 DEF HoldsRest
  <2>2. Len(got) \in Nat /\ Len(got') = Len(got) + 1 /\ Len(order) \in Nat
    BY <1>1, LenProperties, AppendProperties DEF QueueType
  <2>3. L[1] = order[Len(got) + 1]
    <3>1. 1 # d => L[1] = order[Len(got) + IF 1 < d THEN 1 ELSE 1 - 1]
      BY <1>0, <2>1 DEF HoldsRest
    <3>2. 1 < d
      BY <1>2, <2>1
    <3> QED
      BY <2>1, <3>1, <3>2
  <2> QED
    BY <1>0, <1>1, <1>2, <2>1, <2>2, <2>3 DEF HoldsRest
<1>6. HoldsRest(M, d - 1)'
  <2>1. ASSUME NEW i \in 1..Len(M) PROVE M[i] = Dummy <=> i = d - 1
    <3>1. i + 1 \in 1..Len(L) /\ M[i] = L[i + 1] /\ (i + 1 = d <=> i = d - 1)
      BY <1>2, <1>4, <1>5
    <3> QED
      BY <1>0, <3>1 DEF HoldsRest
  <2>2. ASSUME NEW i \in 1..Len(M), i # d - 1
        PROVE  M[i] = order[Len(got') + IF i < d - 1 THEN i ELSE i - 1]
    <3>1. i + 1 \in 1..Len(L) /\ M[i] = L[i + 1] /\ i + 1 # d
      BY <1>2, <1>4, <1>5, <2>2
    <3>2. L[i + 1] = order[Len(got) + IF i + 1 < d THEN i + 1 ELSE (i + 1) - 1]
      BY <1>0, <3>1 DEF HoldsRest
    <3>3. CASE i + 1 < d
      <4>1. i < d - 1 /\ Len(got) + (i + 1) = Len(got') + i
        BY <1>2, <1>4, <1>5, <3>3
      <4> QED
        BY <3>1, <3>2, <3>3, <4>1
    <3>4. CASE ~(i + 1 < d)
      <4>1. ~(i < d - 1) /\ Len(got) + ((i + 1) - 1) = Len(got') + (i - 1)
        BY <1>2, <1>4, <1>5, <3>4
      <4> QED
        BY <3>1, <3>2, <3>4, <4>1
    <3> QED
      BY <3>3, <3>4
  <2>3. /\ d - 1 \in 1..(Len(M) + 1)
        /\ Len(order) = Len(got') + IF d - 1 <= Len(M) THEN Len(M) - 1 ELSE Len(M)
    <3>1. Len(order) = Len(got) + IF d <= Len(L) THEN Len(L) - 1 ELSE Len(L)
      BY <1>0 DEF HoldsRest
    <3>2. d - 1 \in 1..(Len(M) + 1) /\ (d <= Len(L) <=> d - 1 <= Len(M))
      BY <1>2, <1>4, <1>5
    <3>3. CASE d <= Len(L)
      BY <1>2, <1>4, <1>5, <3>1, <3>2, <3>3
    <3>4. CASE ~(d <= Len(L))
      BY <1>2, <1>4, <1>5, <3>1, <3>2, <3>4
    <3> QED
      BY <3>2, <3>3, <3>4
  <2> QED
    BY <1>1, <2>1, <2>2, <2>3 DEF HoldsRest
<1>7. ListAt(M, d - 1)'
  BY <1>4, <1>5, <1>6 DEF ListAt
<1> QED
  BY <1>1, <1>3, <1>5, <1>7

\* At first the list is the dummy.
LEMMA InitQueueInv == Init => QueueInv
<1> SUFFICES ASSUME Init PROVE QueueInv
  OBVIOUS
<1> USE QueueAssumption DEF Init, MPSCInit, Nodes
<1>1. QueueType
  BY BoundsAssumption DEF QueueType
<1>2. Draining
  BY DEF Draining
<1>3. TakenInOrder
  <2>1. got \in Seq(Elements) /\ order \in Seq(Elements) /\ Len(got) = 0 /\ Len(order) = 0
    OBVIOUS
  <2>2. Len(got) <= Len(order) /\ \A i \in 1..Len(got) : got[i] = order[i]
    BY <2>1
  <2> QED
    BY <2>1, <2>2, PrefixElements DEF TakenInOrder
<1>4. ListAt(<<Dummy>>, 1)
  <2> DEFINE L == <<Dummy>>
  <2>1. L \in Seq(Nodes) /\ Len(L) = 1 /\ L[1] = Dummy /\ L # <<>> /\ DOMAIN L = {1}
        /\ ToSet(L) = {Dummy}
    BY DEF ToSet
  <2> HIDE DEF L
  <2>2. IsList(L)
    BY <2>1 DEF IsList, IsInjective
  <2>3. HoldsRest(L, 1)
    BY <2>1 DEF HoldsRest
  <2>4. InputsPrivate(L) /\ Numbered(L)
    BY <2>1 DEF InputsPrivate, Numbered
  <2> QED
    BY <2>1, <2>2, <2>3, <2>4 DEF ListAt, L
<1> QED
  BY <1>1, <1>2, <1>3, <1>4 DEF QueueInv, ListInv

\* A thread sends a packet.
LEMMA SendKeepsQueue ==
    ASSUME QueueInv, NEW t \in Producers, SendPacket(t), net' = "drain" <=> net = "drain"
    PROVE  QueueInv'
<1>1. PICK L, d : ListAt(L, d)
  BY DEF QueueInv, ListInv
<1>2. /\ used \in Nat /\ used' = used + 1 /\ used + 1 \in Elements /\ used' \in 0..MaxPackets
      /\ UNCHANGED <<tail, freed, got, deq, link, head, prevHead, order>>
      /\ CallEnqueue(t, used + 1) /\ QueueType /\ used + 1 # Dummy
      /\ \A m \in Elements : m \in Nat
  BY BoundsAssumption, QueueAssumption
     DEF QueueInv, QueueType, SendPacket, CallEnqueue, consumerVars
<1>3. used + 1 \notin ToSet(L) \cup freed /\ \A u \in Producers : input[u] # used + 1
  <2>1. Numbered(L)
    BY <1>1 DEF ListAt
  <2> QED
    BY <1>2, <2>1, QueueAssumption DEF Numbered, Nodes
<1>4. ListAt(L, d)'
  BY <1>1, <1>2, <1>3, CallKeepsList DEF Nodes
<1>5. QueueType'
  BY <1>2 DEF QueueType, CallEnqueue, Nodes
<1>6. Draining' /\ TakenInOrder'
  BY <1>2 DEF QueueInv, Draining, TakenInOrder
<1> QED
  BY <1>4, <1>5, <1>6 DEF QueueInv, ListInv

\* A thread goes on in Enqueue.
LEMMA EnqueueKeepsQueue ==
    ASSUME QueueInv, NEW t \in Producers, UNCHANGED <<tail, freed, got, used>>,
           \/ Exchange(t) /\ UNCHANGED deq
           \/ StoreLink(t) /\ (deq' = "dummy" <=> deq = "dummy" /\ t # Consumer),
           Draining', deq' \in {"idle", "load", "reload", "head", "dummy"}
    PROVE  QueueInv'
<1>1. PICK L, d : ListAt(L, d)
  BY DEF QueueInv, ListInv
<1>2. QueueType /\ TakenInOrder
  BY DEF QueueInv
<1>3. ListInv'
  <2>1. CASE Exchange(t) /\ UNCHANGED deq
    BY <1>1, <1>2, <2>1, ExchangeKeepsList DEF ListInv
  <2>2. CASE StoreLink(t) /\ (deq' = "dummy" <=> deq = "dummy" /\ t # Consumer)
    BY <1>1, <1>2, <2>2, StoreKeepsList DEF ListInv
  <2> QED
    BY <2>1, <2>2
<1>4. /\ input[t] # None /\ input[t] \in Nodes
      /\ prevHead[t] \in Nodes \cup {None} /\ None \notin Nodes
  <2>1. input[t] # None
    BY <1>1, <1>2, ListFacts DEF Exchange, StoreLink
  <2> QED
    BY <1>1, <1>2, <2>1, ListFacts DEF QueueType
<1>5. QueueType'
  <2>1. order' \in Seq(Elements)
    <3>1. \/ order' = order
          \/ input[t] \in Elements /\ order' = Append(order, input[t])
      BY <1>4 DEF Exchange, StoreLink, Nodes
    <3>2. order \in Seq(Elements)
      BY <1>2 DEF QueueType
    <3> QED
      BY <3>1, <3>2, AppendElements
  <2>2. link' \in [Nodes -> Nodes \cup {None}]
    BY <1>2, <1>4 DEF QueueType, Exchange, StoreLink
  <2>3. /\ input' \in [Producers -> Nodes \cup {None}]
        /\ prevHead' \in [Producers -> Nodes \cup {None}] /\ head' \in Nodes
    BY <1>2, <1>4 DEF QueueType, Exchange, StoreLink
  <2> QED
    BY <1>2, <2>1, <2>2, <2>3 DEF QueueType
<1>6. TakenInOrder'
  <2>1. CASE order' = order
    BY <1>2, <2>1 DEF TakenInOrder
  <2>2. CASE order' # order
    <3>1. order' = Append(order, input[t]) /\ input[t] \in Elements
      BY <1>4, <2>2 DEF Exchange, StoreLink, Nodes
    <3>2. /\ order' \in Seq(Elements) /\ Len(order') = Len(order) + 1
          /\ \A i \in 1..Len(order) : order'[i] = order[i]
          /\ Len(order) \in Nat /\ Len(got) \in Nat
      BY <1>2, <3>1, AppendProperties, LenProperties DEF QueueType
    <3>3. Len(got) <= Len(order) /\ \A i \in 1..Len(got) : got[i] = order[i]
      BY <1>2, PrefixElements DEF QueueType, TakenInOrder
    <3>4. Len(got) <= Len(order') /\ \A i \in 1..Len(got) : got[i] = order'[i]
      BY <3>2, <3>3
    <3> QED
      BY <1>2, <3>2, <3>4, PrefixElements DEF QueueType, TakenInOrder
  <2> QED
    BY <2>1, <2>2
<1> QED
  BY <1>3, <1>5, <1>6 DEF QueueInv

\* The consumer looks, but for the call of Enqueue, and changes nothing.
LEMMA LookKeepsQueue ==
    ASSUME QueueInv, UNCHANGED <<producerVars, tail, freed, got, used>>, Draining',
           deq # "dummy", deq' \in {"idle", "load", "head"}
    PROVE  QueueInv'
<1>1. PICK L, d : ListAt(L, d)
  BY DEF QueueInv, ListInv
<1>2. ListAt(L, d)'
  BY <1>1, LookKeepsList
<1>3. QueueType' /\ TakenInOrder'
  BY DEF QueueInv, QueueType, TakenInOrder, producerVars
<1> QED
  BY <1>2, <1>3 DEF QueueInv, ListInv

\* The consumer is in Dequeue.
LEMMA DequeueKeepsQueue == QueueInv /\ Dequeue => QueueInv'
<1> SUFFICES ASSUME QueueInv, Dequeue PROVE QueueInv'
  OBVIOUS
<1>1. PICK L, d : ListAt(L, d)
  BY DEF QueueInv, ListInv
<1>2. /\ QueueType /\ Draining /\ TakenInOrder /\ UNCHANGED <<used, net>> /\ DequeueStep
      /\ net = "drain" /\ Consumer \in Producers
  BY QueueAssumption DEF QueueInv, Dequeue, boundVars, netVars
<1>3. CASE SkipDummy
  <2>1. ListInv'
    BY <1>1, <1>2, <1>3, SkipKeepsList DEF ListInv
  <2>2. /\ tail' = link[tail] /\ link[tail] \in Nodes
        /\ UNCHANGED <<link, head, input, prevHead, order, deq, freed, got>> /\ deq = "load"
    BY <1>2, <1>3 DEF SkipDummy, QueueType, producerVars
  <2> QED
    BY <1>2, <2>1, <2>2 DEF QueueInv, QueueType, Draining, TakenInOrder
<1>4. CASE NoSuccessor
  <2>1. Draining' /\ deq # "dummy" /\ deq' = "head"
    BY <1>2, <1>4 DEF NoSuccessor, Draining
  <2> QED
    BY <1>2, <1>4, <2>1, LookKeepsQueue DEF NoSuccessor
<1>5. CASE TailIsHead
  <2>1. /\ UNCHANGED <<link, head, prevHead, order, tail, freed, got>>
        /\ deq = "head" /\ deq' = "dummy" /\ CallEnqueue(Consumer, Dummy) /\ tail # Dummy
        /\ tail = head
    BY <1>2, <1>5 DEF TailIsHead, Draining, CallEnqueue
  <2>2. /\ Len(L) \in Nat /\ Len(L) >= 1 /\ \A i, j \in 1..Len(L) : L[i] = L[j] => i = j
        /\ \A e \in ToSet(L) : \E i \in 1..Len(L) : e = L[i]
        /\ L[1] = tail /\ L[Len(L)] = head /\ Dummy \notin freed /\ InputsPrivate(L)
    BY <1>1, <1>2, ListFacts DEF ListAt, IsList
  <2>3. Len(L) = 1
    BY <2>1, <2>2
  <2>4. Dummy \notin ToSet(L) \cup freed
    BY <2>1, <2>2, <2>3
  <2>5. \A u \in Producers : input[u] # Dummy
    BY <2>1, <2>2 DEF InputsPrivate
  <2>6. used \in Nat /\ \A m \in Elements : m \in Nat
    BY <1>2, BoundsAssumption DEF QueueType
  <2>7. ListAt(L, d)'
    BY <1>1, <1>2, <2>1, <2>4, <2>5, <2>6, CallKeepsList DEF Nodes
  <2> QED
    BY <1>2, <2>1, <2>7 DEF QueueInv, ListInv, QueueType, Draining, TakenInOrder, CallEnqueue, Nodes
<1>6. CASE EnqueueDummy
  <2>1. /\ UNCHANGED <<tail, freed, got, used>> /\ deq = "dummy"
        /\ \/ Exchange(Consumer) /\ UNCHANGED deq
           \/ StoreLink(Consumer) /\ deq' = "reload"
    BY <1>2, <1>6 DEF EnqueueDummy
  <2>2. Draining' /\ deq' \in {"dummy", "reload"}
    BY <1>2, <2>1 DEF Draining
  <2> QED
    BY <1>2, <2>1, <2>2, EnqueueKeepsQueue
<1> QED
  BY <1>2, <1>3, <1>4, <1>5, <1>6 DEF DequeueStep

\* The consumer takes an element.
LEMMA TakeKeepsQueue ==
    ASSUME QueueInv, TakeTail, UNCHANGED used, net' # "drain"
    PROVE  /\ QueueInv' /\ tail \in Elements /\ got' = Append(got, tail)
<1>1. PICK L, d : ListAt(L, d)
  BY DEF QueueInv, ListInv
<1>2. QueueType /\ TakenInOrder
  BY DEF QueueInv
<1>3. /\ ListInv' /\ tail \in Elements /\ Len(got) < Len(order) /\ tail = order[Len(got) + 1]
  BY <1>1, <1>2, TakeKeepsList DEF ListInv
<1>4. /\ tail' \in Nodes /\ got' = Append(got, tail) /\ freed' = freed \cup {tail}
      /\ deq' = "idle" /\ UNCHANGED <<link, head, input, prevHead, order>>
  BY <1>2 DEF TakeTail, producerVars, QueueType
<1>5. /\ got' \in Seq(Elements) /\ Len(got') = Len(got) + 1 /\ got'[Len(got) + 1] = tail
      /\ \A i \in 1..Len(got) : got'[i] = got[i]
      /\ Len(got) \in Nat /\ Len(order) \in Nat
  BY <1>2, <1>3, <1>4, AppendProperties, LenProperties DEF QueueType
<1>6. QueueType'
  BY <1>2, <1>3, <1>4, <1>5 DEF QueueType
<1>7. TakenInOrder'
  <2>1. \A i \in 1..Len(got) : got[i] = order[i]
    BY <1>2, PrefixElements DEF QueueType, TakenInOrder
  <2>2. Len(got') <= Len(order) /\ \A i \in 1..Len(got') : got'[i] = order[i]
    BY <1>3, <1>5, <2>1
  <2> QED
    BY <1>2, <1>4, <1>5, <2>2, PrefixElements DEF QueueType, TakenInOrder
<1>8. Draining'
  BY <1>4 DEF Draining
<1> QED
  BY <1>3, <1>4, <1>6, <1>7, <1>8 DEF QueueInv

queueFrame == <<mpscVars, used>>

\* Whatever the threads do, there is a list from the tail to the head.
LEMMA NextQueueInv == QueueInv /\ [Next]_vars => QueueInv'
<1> SUFFICES ASSUME QueueInv, [Next]_vars PROVE QueueInv'
  OBVIOUS
<1>0. ASSUME UNCHANGED queueFrame, net' = "drain" <=> net = "drain" PROVE QueueInv'
  <2>1. PICK L, d : ListAt(L, d)
    BY DEF QueueInv, ListInv
  <2>2. ListAt(L, d)'
    BY <1>0, <2>1 DEF queueFrame, mpscVars, ListAt, IsList, HoldsRest, InputsPrivate, Numbered
  <2>3. QueueType' /\ Draining' /\ TakenInOrder'
    BY <1>0 DEF queueFrame, mpscVars, QueueInv, QueueType, Draining, TakenInOrder
  <2> QED
    BY <2>2, <2>3 DEF QueueInv, ListInv
<1>1. CASE UNCHANGED vars
  BY <1>0, <1>1 DEF vars, queueFrame, boundVars, netVars
<1>c. Consumer \in Producers /\ Draining
  BY QueueAssumption DEF QueueInv
<1>2. ASSUME NEW t \in Senders, SessionSends(t) PROVE QueueInv'
  BY <1>2, SendKeepsQueue DEF SessionSends, netVars, Senders
<1>3. ASSUME NEW t \in Senders, SenderEnqueues(t) PROVE QueueInv'
  <2>1. /\ t \in Producers /\ t # Consumer /\ (Exchange(t) \/ StoreLink(t))
        /\ UNCHANGED <<tail, deq, freed, got, used, net>>
    BY <1>3 DEF SenderEnqueues, Senders, consumerVars, netVars, boundVars
  <2>2. Draining' /\ deq' \in {"idle", "load", "reload", "head", "dummy"}
    BY <2>1 DEF QueueInv, QueueType, Draining
  <2> QED
    BY <2>1, <2>2, EnqueueKeepsQueue
<1>4. CASE NetEnqueues
  <2>1. /\ Exchange(Consumer) \/ StoreLink(Consumer)
        /\ UNCHANGED <<tail, deq, freed, got, used>>
        /\ net = "sending" /\ net' \in {"sending", "read", "idle"}
    BY <1>4 DEF NetEnqueues, consumerVars, boundVars
  <2>2. deq = "idle" /\ Draining'
    BY <1>c, <2>1 DEF Draining
  <2> QED
    BY <1>c, <2>1, <2>2, EnqueueKeepsQueue
<1>5. CASE IpAccepted \/ Rejected
  <2>1. SendPacket(Consumer) /\ net = "callbacks" /\ net' = "sending"
    BY <1>5 DEF IpAccepted, Rejected, NetSends
  <2> QED
    BY <1>c, <2>1, SendKeepsQueue
<1>6. CASE HandlePing
  <2>1. \/ SendPacket(Consumer) /\ net = "read" /\ net' = "sending"
        \/ UNCHANGED <<mpscVars, used, net>>
    BY <1>6 DEF HandlePing, NetSends
  <2> QED
    BY <1>0, <1>c, <2>1, SendKeepsQueue DEF queueFrame
<1>7. CASE Dequeue
  BY <1>7, DequeueKeepsQueue
<1>8. CASE Drain
  BY <1>8, TakeKeepsQueue DEF Drain, boundVars
<1>9. CASE Update \/ DrainAgain
  <2>1. /\ CallDequeue /\ UNCHANGED used /\ net' = "drain"
    BY <1>9 DEF Update, DrainAgain, boundVars
  <2>2. /\ UNCHANGED <<producerVars, tail, freed, got, used>> /\ deq # "dummy" /\ deq' = "load"
        /\ Draining'
    BY <2>1 DEF CallDequeue, Draining
  <2> QED
    BY <2>2, LookKeepsQueue
<1>10. CASE Drained
  <2>1. /\ UNCHANGED <<producerVars, tail, freed, got, used>> /\ deq # "dummy" /\ deq' = "idle"
        /\ net' = "base"
    BY <1>10 DEF Drained, FindsNothing, boundVars
  <2>2. Draining'
    BY <2>1 DEF Draining
  <2> QED
    BY <2>1, <2>2, LookKeepsQueue
<1>11. CASE KickPlayer \/ KickOnClose \/ DeleteSession
  BY <1>0, <1>11 DEF KickPlayer, KickOnClose, DeleteSession, netVars, boundVars, queueFrame
<1>12. CASE BaseUpdate \/ WriteHandlerWrapper \/ NoResult \/ Admitted \/ NetOnClose
  BY <1>0, <1>12 DEF BaseUpdate, WriteHandlerWrapper, NoResult, Admitted, NetOnClose, boundVars,
     queueFrame
<1>13. CASE HandleQueue
  <2>1. UNCHANGED queueFrame /\ net # "drain"
    BY <1>13 DEF HandleQueue, boundVars, queueFrame
  <2>2. net' # "drain"
    BY <1>13 DEF HandleQueue
  <2> QED
    BY <1>0, <2>1, <2>2
<1>14. CASE ReadFails \/ AsyncRead \/ HandleAuthSession \/ QueueOnSession \/ ReadDataError
  BY <1>0, <1>14 DEF ReadFails, AsyncRead, HandleAuthSession, QueueOnSession, ReadDataError,
     NetCloses, boundVars, queueFrame
<1>15. ASSUME NEW packets, ReadCompletes(packets) PROVE QueueInv'
  BY <1>0, <1>15 DEF ReadCompletes, queueFrame
<1> QED
  BY <1>1, <1>2, <1>3, <1>4, <1>5, <1>6, <1>7, <1>8, <1>9, <1>10, <1>11, <1>12, <1>13, <1>14,
     <1>15 DEF Next, NetworkThread, Callbacks, Client, World, Gone

\* What is said of the queue holds in every reachable state.
THEOREM QueueInvariance == Spec => []QueueInv
BY InitQueueInv, NextQueueInv, PTL DEF Spec

\* No thread writes the link of a deleted element or looks at one: a link is owed
\* only to an element of the list, and none of these is freed.
THEOREM NeverUsedAfterFree == Spec => []NoUseAfterFree
<1>1. QueueInv => NoUseAfterFree
  <2> SUFFICES ASSUME QueueInv PROVE NoUseAfterFree
    OBVIOUS
  <2>1. PICK L, d : ListAt(L, d)
    BY DEF QueueInv, ListInv
  <2>2. /\ IsList(L) /\ Len(L) \in Nat /\ Len(L) >= 1 /\ None \notin freed
        /\ \A i \in 1..Len(L) : L[i] \in ToSet(L)
    BY <2>1, ListFacts DEF QueueInv, QueueType, ListAt, Nodes
  <2>3. tail \notin freed
    BY <2>2 DEF IsList
  <2>4. ASSUME NEW t \in Producers PROVE prevHead[t] \notin freed
    BY <2>2 DEF IsList
  <2> QED
    BY <2>3, <2>4 DEF NoUseAfterFree
<1> QED
  BY <1>1, QueueInvariance, PTL

-----------------------------------------------------------------------------
\* cut tells where the wire W, the buffers Q and the last buffer B end in what
\* was taken, G.
CutAt(W, Q, B, G, cut) ==
    /\ cut \in [0..Len(Q) -> 0..Len(G)]
    /\ W = SubSeq(G, 1, cut[0])
    /\ \A n \in 1..Len(Q) : cut[n - 1] <= cut[n] /\ Q[n] = SubSeq(G, cut[n - 1] + 1, cut[n])
    /\ B = SubSeq(G, cut[Len(Q)] + 1, Len(G))

\* The pieces make up G.
Whole(W, Q, B, G) == \E cut : CutAt(W, Q, B, G, cut)

BufferType ==
    /\ wire \in Seq(Elements) /\ buffer \in Seq(Elements)
    /\ writeQueue \in Seq(Seq(Elements))

\* Between the queue and the wire nothing is lost unless a write fails.
SentInv == QueueInv /\ BufferType /\ (~failed => Whole(wire, writeQueue, buffer, got))

\* The front buffer is written.
LEMMA WriteKeepsWhole ==
    ASSUME NEW S, NEW W, NEW Q \in Seq(Seq(S)), NEW B, NEW G \in Seq(S),
           Whole(W, Q, B, G), Q # <<>>
    PROVE  Whole(W \o Head(Q), Tail(Q), B, G)
<1> DEFINE k == Len(Q)
           g == Len(G)
           T == Tail(Q)
<1>1. PICK cut : CutAt(W, Q, B, G, cut)
  BY DEF Whole
<1>2. /\ k \in Nat /\ k >= 1 /\ g \in Nat
      /\ Head(Q) = Q[1] /\ Len(T) = k - 1
      /\ \A n \in 1..(k - 1) : T[n] = Q[n + 1]
  BY LenProperties, HeadTailProperties, EmptySeq
<1>3. /\ cut \in [0..k -> 0..g] /\ W = SubSeq(G, 1, cut[0])
      /\ \A n \in 1..k : cut[n - 1] <= cut[n] /\ Q[n] = SubSeq(G, cut[n - 1] + 1, cut[n])
      /\ B = SubSeq(G, cut[k] + 1, g)
  BY <1>1 DEF CutAt
<1>4. PICK c : c = [n \in 0..(k - 1) |-> cut[n + 1]]
  OBVIOUS
<1> HIDE DEF k, T
<1>5. \A n \in 0..(k - 1) : n + 1 \in 0..k /\ c[n] = cut[n + 1]
  BY <1>2, <1>4
<1>6. c \in [0..(k - 1) -> 0..g] /\ c[0] = cut[1] /\ c[k - 1] = cut[k]
  <2>1. 0 \in 0..(k - 1) /\ k - 1 \in 0..(k - 1) /\ (k - 1) + 1 = k
    BY <1>2
  <2>2. c[k - 1] = cut[k] /\ c[0] = cut[0 + 1]
    BY <1>5, <2>1
  <2> QED
    BY <1>3, <1>4, <1>5, <2>2
<1>7. W \o Head(Q) = SubSeq(G, 1, c[0])
  <2>1. 0 \in 0..k /\ 1 \in 0..k /\ 1 \in 1..k /\ 1 - 1 = 0
    BY <1>2
  <2>2. /\ cut[0] \in 0..g /\ cut[1] \in 0..g /\ cut[0] <= cut[1]
        /\ Q[1] = SubSeq(G, cut[0] + 1, cut[1])
    BY <1>3, <2>1
  <2>3. 1 \in 1..(Len(G) + 1) /\ cut[0] \in (1 - 1)..Len(G) /\ cut[1] \in cut[0]..Len(G)
    BY <1>2, <2>2
  <2>4. SubSeq(G, 1, cut[0]) \o SubSeq(G, cut[0] + 1, cut[1]) = SubSeq(G, 1, cut[1])
    BY <2>3, ConcatAdjacentSubSeq
  <2> QED
    BY <1>2, <1>3, <1>6, <2>2, <2>4
<1>8. ASSUME NEW n \in 1..(k - 1)
      PROVE  c[n - 1] <= c[n] /\ T[n] = SubSeq(G, c[n - 1] + 1, c[n])
  <2>1. n + 1 \in 1..k /\ n - 1 \in 0..(k - 1) /\ n \in 0..(k - 1) /\ (n + 1) - 1 = n
        /\ (n - 1) + 1 = n
    BY <1>2
  <2>2. c[n - 1] = cut[n] /\ c[n] = cut[n + 1]
    BY <1>5, <2>1
  <2>3. cut[n] <= cut[n + 1] /\ Q[n + 1] = SubSeq(G, cut[n] + 1, cut[n + 1])
    BY <1>3, <2>1
  <2> QED
    BY <1>2, <2>2, <2>3
<1>9. CutAt(W \o Head(Q), T, B, G, c)
  BY <1>2, <1>3, <1>6, <1>7, <1>8 DEF CutAt
<1> QED
  BY <1>9 DEF Whole, T

\* The buffer goes behind the others and an empty one takes its place.
LEMMA FlushKeepsWhole ==
    ASSUME NEW S, NEW W, NEW Q \in Seq(Seq(S)), NEW B \in Seq(S), NEW G \in Seq(S),
           Whole(W, Q, B, G)
    PROVE  Whole(W, Append(Q, B), <<>>, G)
<1> DEFINE k == Len(Q)
           g == Len(G)
           A == Append(Q, B)
<1>1. PICK cut : CutAt(W, Q, B, G, cut)
  BY DEF Whole
<1>2. /\ k \in Nat /\ g \in Nat /\ Len(A) = k + 1 /\ A[k + 1] = B
      /\ \A n \in 1..k : A[n] = Q[n]
  BY LenProperties, AppendProperties
<1>3. /\ cut \in [0..k -> 0..g] /\ W = SubSeq(G, 1, cut[0])
      /\ \A n \in 1..k : cut[n - 1] <= cut[n] /\ Q[n] = SubSeq(G, cut[n - 1] + 1, cut[n])
      /\ B = SubSeq(G, cut[k] + 1, g)
  BY <1>1 DEF CutAt
<1>4. PICK c : c = [n \in 0..(k + 1) |-> IF n = k + 1 THEN g ELSE cut[n]]
  OBVIOUS
<1> HIDE DEF k, A
<1>5. /\ c \in [0..(k + 1) -> 0..g] /\ c[k + 1] = g
      /\ \A n \in 0..k : c[n] = cut[n]
  BY <1>2, <1>3, <1>4
<1>6. W = SubSeq(G, 1, c[0])
  BY <1>2, <1>3, <1>5
<1>7. ASSUME NEW n \in 1..(k + 1)
      PROVE  c[n - 1] <= c[n] /\ A[n] = SubSeq(G, c[n - 1] + 1, c[n])
  <2>1. CASE n = k + 1
    <3>1. n - 1 = k /\ k \in 0..k /\ cut[k] \in 0..g
      BY <1>2, <1>3, <2>1
    <3>2. c[n - 1] = cut[k] /\ c[n] = g /\ cut[k] <= g
      BY <1>2, <1>5, <2>1, <3>1
    <3> QED
      BY <1>2, <1>3, <2>1, <3>2
  <2>2. CASE n \in 1..k
    <3>1. n - 1 \in 0..k /\ n \in 0..k
      BY <1>2, <2>2
    <3> QED
      BY <1>2, <1>3, <1>5, <2>2, <3>1
  <2> QED
    BY <1>2, <2>1, <2>2
<1>8. SubSeq(G, c[k + 1] + 1, g) = <<>>
  BY <1>2, <1>5, SubSeqEmpty
<1>9. CutAt(W, A, <<>>, G, c)
  BY <1>2, <1>5, <1>6, <1>7, <1>8 DEF CutAt
<1> QED
  BY <1>9 DEF Whole, A

\* A packet is taken and goes into the buffer.
LEMMA TakeKeepsWhole ==
    ASSUME NEW S, NEW W, NEW Q \in Seq(Seq(S)), NEW B \in Seq(S), NEW G \in Seq(S), NEW p \in S,
           Whole(W, Q, B, G)
    PROVE  Whole(W, Q, Append(B, p), Append(G, p))
<1> DEFINE k == Len(Q)
           g == Len(G)
           A == Append(G, p)
<1>1. PICK cut : CutAt(W, Q, B, G, cut)
  BY DEF Whole
<1>2. k \in Nat /\ g \in Nat /\ Len(A) = g + 1
  BY LenProperties, AppendProperties
<1>3. /\ cut \in [0..k -> 0..g] /\ W = SubSeq(G, 1, cut[0])
      /\ \A n \in 1..k : cut[n - 1] <= cut[n] /\ Q[n] = SubSeq(G, cut[n - 1] + 1, cut[n])
      /\ B = SubSeq(G, cut[k] + 1, g)
  BY <1>1 DEF CutAt
<1>4. ASSUME NEW m \in 1..(g + 1)
      PROVE  /\ \A n \in 0..g : SubSeq(A, m, n) = SubSeq(G, m, n)
             /\ SubSeq(A, m, g + 1) = Append(SubSeq(G, m, g), p)
  BY AppendSubSeq
<1> HIDE DEF k, g, A
<1>5. cut \in [0..k -> 0..(g + 1)]
  BY <1>2, <1>3
<1>6. W = SubSeq(A, 1, cut[0])
  <2>1. cut[0] \in 0..g /\ 1 \in 1..(g + 1)
    BY <1>2, <1>3
  <2> QED
    BY <1>3, <1>4, <2>1
<1>7. ASSUME NEW n \in 1..k PROVE Q[n] = SubSeq(A, cut[n - 1] + 1, cut[n])
  <2>1. n - 1 \in 0..k /\ n \in 0..k
    BY <1>2
  <2>2. cut[n - 1] + 1 \in 1..(g + 1) /\ cut[n] \in 0..g
    <3>1. cut \in [0..k -> 0..g]
      BY <1>3
    <3>2. cut[n - 1] \in 0..g /\ cut[n] \in 0..g
      BY ONLY <2>1, <3>1
    <3> QED
      BY ONLY <1>2, <3>2
  <2>3. Q[n] = SubSeq(G, cut[n - 1] + 1, cut[n])
    BY <1>3
  <2>4. SubSeq(A, cut[n - 1] + 1, cut[n]) = SubSeq(G, cut[n - 1] + 1, cut[n])
    BY ONLY <1>4, <2>2
  <2> QED
    BY ONLY <2>3, <2>4
<1>8. Append(B, p) = SubSeq(A, cut[k] + 1, g + 1)
  <2>1. cut[k] + 1 \in 1..(g + 1)
    BY <1>2, <1>3
  <2> QED
    BY <1>3, <1>4, <2>1
<1>9. CutAt(W, Q, Append(B, p), A, cut)
  BY <1>2, <1>3, <1>5, <1>6, <1>7, <1>8 DEF CutAt, k
<1> QED
  BY <1>9 DEF Whole, A

bufferVars == <<wire, writeQueue, buffer, failed>>

\* Nothing has been sent yet.
LEMMA InitSentInv == Init => SentInv
<1> SUFFICES ASSUME Init PROVE SentInv
  OBVIOUS
<1>1. wire = <<>> /\ writeQueue = <<>> /\ buffer = <<>> /\ got = <<>>
  BY DEF Init, SocketInit, MPSCInit
<1>2. CutAt(<<>>, <<>>, <<>>, <<>>, [n \in 0..0 |-> 0])
  <2> DEFINE z == [n \in 0..0 |-> 0]
  <2>1. z \in [0..0 -> 0..0] /\ z[0] = 0
    OBVIOUS
  <2>2. SubSeq(<<>>, 1, 0) = <<>>
    BY SubSeqEmpty
  <2>3. Len(<<>>) = 0
    OBVIOUS
  <2> HIDE DEF z
  <2>4. CutAt(<<>>, <<>>, <<>>, <<>>, z)
    BY <2>1, <2>2, <2>3 DEF CutAt
  <2> QED
    BY <2>4 DEF z
<1> QED
  BY <1>1, <1>2, InitQueueInv DEF SentInv, BufferType, Whole

\* Whatever the threads do, what was taken is on the wire or in a buffer.
LEMMA NextSentInv == SentInv /\ [Next]_vars => SentInv'
<1> SUFFICES ASSUME SentInv, [Next]_vars PROVE SentInv'
  OBVIOUS
<1>q. QueueInv /\ QueueInv' /\ got \in Seq(Elements)
  BY NextQueueInv DEF SentInv, QueueInv, QueueType
<1>b. BufferType
  BY DEF SentInv
<1>0. ASSUME UNCHANGED <<bufferVars, got>> PROVE SentInv'
  BY <1>q, <1>0 DEF SentInv, BufferType, bufferVars
<1>1. CASE UNCHANGED vars
  BY <1>0, <1>1 DEF vars, bufferVars, socketVars, netVars, mpscVars
<1>2. ASSUME NEW t \in Senders, SessionSends(t) \/ SenderEnqueues(t) PROVE SentInv'
  BY <1>0, <1>2 DEF SessionSends, SenderEnqueues, SendPacket, bufferVars, socketVars, netVars,
     consumerVars
<1>3. CASE KickPlayer \/ KickOnClose \/ DeleteSession
  BY <1>0, <1>3 DEF KickPlayer, KickOnClose, DeleteSession, bufferVars, socketVars, netVars, mpscVars
<1>4. CASE Update \/ DrainAgain
  BY <1>0, <1>4 DEF Update, DrainAgain, CallDequeue, bufferVars, socketVars
<1>5. CASE Dequeue
  BY <1>0, <1>5 DEF Dequeue, DequeueStep, SkipDummy, NoSuccessor, TailIsHead, EnqueueDummy,
     bufferVars, socketVars, netVars
<1>6. CASE Drain
  <2>1. UNCHANGED <<used, wire, failed>> /\ TakeTail /\ Fill(tail) /\ net' # "drain"
    BY <1>6 DEF Drain, boundVars
  <2>2. tail \in Elements /\ got' = Append(got, tail)
    BY <1>q, <2>1, TakeKeepsQueue
  <2>3. CASE buffer' = Append(buffer, tail) /\ UNCHANGED writeQueue
    <3>1. buffer' \in Seq(Elements)
      BY <1>b, <2>2, <2>3, AppendElements DEF BufferType
    <3>2. ~failed => Whole(wire, writeQueue, Append(buffer, tail), Append(got, tail))
      BY <1>q, <1>b, <2>2, TakeKeepsWhole DEF SentInv, BufferType
    <3> QED
      BY <1>q, <1>b, <2>1, <2>2, <2>3, <3>1, <3>2 DEF SentInv, BufferType
  <2>4. CASE buffer' = <<tail>> /\ writeQueue' = Append(writeQueue, buffer)
    <3>1. /\ buffer' = Append(<<>>, tail) /\ buffer' \in Seq(Elements)
          /\ writeQueue' \in Seq(Seq(Elements)) /\ <<>> \in Seq(Elements)
      BY <1>b, <2>2, <2>4, AppendElements DEF BufferType
    <3>2. ~failed => Whole(wire, Append(writeQueue, buffer), <<>>, got)
      BY <1>q, <1>b, FlushKeepsWhole DEF SentInv, BufferType
    <3>3. ~failed => Whole(wire, Append(writeQueue, buffer), Append(<<>>, tail), Append(got, tail))
      BY <1>q, <2>2, <2>4, <3>1, <3>2, TakeKeepsWhole
    <3> QED
      BY <1>q, <1>b, <2>1, <2>2, <2>4, <3>1, <3>3 DEF SentInv, BufferType
  <2> QED
    BY <2>1, <2>3, <2>4 DEF Fill
<1>7. CASE Drained
  <2>1. /\ UNCHANGED <<wire, failed, got>> /\ buffer' = <<>>
        /\ writeQueue' = IF buffer = <<>> THEN writeQueue ELSE Append(writeQueue, buffer)
    BY <1>7 DEF Drained, FindsNothing
  <2>2. CASE buffer = <<>>
    BY <1>0, <2>1, <2>2 DEF bufferVars
  <2>3. CASE buffer # <<>>
    <3>1. writeQueue' = Append(writeQueue, buffer)
      BY <2>1, <2>3
    <3>2. writeQueue' \in Seq(Seq(Elements)) /\ <<>> \in Seq(Elements)
      BY <1>b, <3>1, AppendElements DEF BufferType
    <3>3. ~failed => Whole(wire, Append(writeQueue, buffer), <<>>, got)
      BY <1>q, <1>b, FlushKeepsWhole DEF SentInv, BufferType
    <3> QED
      BY <1>q, <1>b, <2>1, <3>1, <3>2, <3>3 DEF SentInv, BufferType
  <2> QED
    BY <2>2, <2>3
<1>8. CASE HandleQueue
  <2>1. UNCHANGED <<buffer, got>>
    BY <1>8 DEF HandleQueue, mpscVars
  <2>2. \/ UNCHANGED <<writeQueue, wire, failed>>
        \/ /\ writeQueue # <<>> /\ writeQueue' = Tail(writeQueue)
           /\ \/ wire' = wire \o Head(writeQueue) /\ UNCHANGED failed
              \/ UNCHANGED wire /\ failed' = TRUE
              \/ Head(writeQueue) = <<>> /\ UNCHANGED <<wire, failed>>
    BY <1>8 DEF HandleQueue, WriteAll, WriteNothing, WriteFails, WouldBlock, PopFront, socketVars
  <2>3. CASE UNCHANGED <<writeQueue, wire, failed>>
    BY <1>0, <2>1, <2>3 DEF bufferVars
  <2>4. CASE writeQueue # <<>> /\ writeQueue' = Tail(writeQueue)
    <3>1. /\ Head(writeQueue) \in Seq(Elements) /\ Tail(writeQueue) \in Seq(Seq(Elements))
          /\ wire \o Head(writeQueue) \in Seq(Elements)
          /\ wire \o <<>> = wire
      BY <1>b, <2>4, HeadTailProperties, ConcatElements, ConcatEmptySeq DEF BufferType
    <3>2. BufferType'
      BY <1>b, <2>1, <2>2, <2>4, <3>1 DEF BufferType
    <3>3. ~failed => Whole(wire \o Head(writeQueue), Tail(writeQueue), buffer, got)
      BY <1>q, <1>b, <2>4, WriteKeepsWhole DEF SentInv, BufferType
    <3>4. ~failed' => ~failed /\ wire' = wire \o Head(writeQueue)
      BY <2>2, <2>4, <3>1
    <3> QED
      BY <1>q, <2>1, <2>4, <3>2, <3>3, <3>4 DEF SentInv
  <2> QED
    BY <2>2, <2>3, <2>4
<1>9. CASE BaseUpdate \/ WriteHandlerWrapper \/ NoResult \/ Admitted \/ NetOnClose
  BY <1>0, <1>9 DEF BaseUpdate, WriteHandlerWrapper, NoResult, Admitted, NetOnClose, bufferVars,
     socketVars, mpscVars
<1>10. CASE IpAccepted \/ Rejected \/ HandlePing \/ NetEnqueues
  BY <1>0, <1>10 DEF IpAccepted, Rejected, HandlePing, NetEnqueues, NetSends, SendPacket,
     consumerVars, bufferVars, socketVars, mpscVars
<1>11. CASE ReadFails \/ AsyncRead \/ HandleAuthSession \/ QueueOnSession \/ ReadDataError
  BY <1>0, <1>11 DEF ReadFails, AsyncRead, HandleAuthSession, QueueOnSession, ReadDataError,
     NetCloses, bufferVars, socketVars, mpscVars
<1>12. ASSUME NEW packets, ReadCompletes(packets) PROVE SentInv'
  BY <1>0, <1>12 DEF ReadCompletes, bufferVars, socketVars, mpscVars
<1> QED
  BY <1>1, <1>2, <1>3, <1>4, <1>5, <1>6, <1>7, <1>8, <1>9, <1>10, <1>11, <1>12
     DEF Next, NetworkThread, Callbacks, Client, World, Gone

\* What the client receives is what was sent, in the order of the exchanges, as
\* long as no write fails: whatever the threads interleave, and for any number of
\* packets and buffers.
THEOREM AlwaysSentInOrder == Spec => []SentInOrder
<1>1. Spec => []SentInv
  BY InitSentInv, NextSentInv, PTL DEF Spec
<1>2. SentInv => SentInOrder
  <2> SUFFICES ASSUME SentInv PROVE SentInOrder
    OBVIOUS
  <2>1. TakenInOrder
    BY DEF SentInv, QueueInv
  <2>2. ASSUME ~failed PROVE \E cut \in [0..Len(writeQueue) -> 0..Len(got)] : Cuts(cut)
    BY <2>2 DEF SentInv, Whole, CutAt, Cuts
  <2> QED
    BY <2>1, <2>2 DEF SentInOrder
<1> QED
  BY <1>1, <1>2, PTL

-----------------------------------------------------------------------------
\* A session is created once, at the end of the handshake.
Handshake ==
    /\ ~authed => session = "none" /\ ~worldSession /\ closer = "idle"
    /\ authed => session # "none" /\ query = "none"
    /\ net \in {"write", "callbacks"} /\ ~authed => ~closed

\* Whoever closes the socket is about to call OnClose, and nobody else is.
ClosedSoon ==
    /\ worldSession /\ closed => closer = "onclose" \/ net = "onclose"
    /\ closer = "onclose" \/ net = "onclose" => closed

\* The connection is watched, but for the time in which a packet is handled or
\* the client rejected.
Watched ==
    IsOpen => \/ reading \/ query # "none" \/ net = "read"
              \/ net = "sending" /\ after \in {"read", "close"}

\* The invariant about the connection.
ConnectionInv == Handshake /\ ClosedSoon /\ SessionNotDangling /\ Watched

\* A new connection is being looked up, and has no session.
LEMMA InitConnectionInv == Init => ConnectionInv
BY DEF Init, SocketInit, ConnectionInv, Handshake, ClosedSoon, SessionNotDangling, Watched

connectionVars == <<socketVars, netVars, sessionVars>>

\* Whatever the threads do, the connection stays watched and its session is taken
\* from it before it is deleted.
LEMMA NextConnectionInv == ConnectionInv /\ [Next]_vars => ConnectionInv'
<1> SUFFICES ASSUME ConnectionInv, [Next]_vars PROVE ConnectionInv'
  OBVIOUS
<1> USE DEF ConnectionInv, Handshake, ClosedSoon, SessionNotDangling, Watched, IsOpen
<1>0. ASSUME UNCHANGED connectionVars PROVE ConnectionInv'
  BY <1>0 DEF connectionVars, socketVars, netVars, sessionVars
<1>1. CASE UNCHANGED vars
  BY <1>0, <1>1 DEF vars, connectionVars
<1>2. ASSUME NEW t \in Senders, SessionSends(t) \/ SenderEnqueues(t) PROVE ConnectionInv'
  BY <1>0, <1>2 DEF SessionSends, SenderEnqueues, connectionVars
<1>3. CASE KickPlayer
  BY <1>3 DEF KickPlayer, netVars
<1>4. CASE KickOnClose
  BY <1>4 DEF KickOnClose, OnClose, socketVars, netVars
<1>5. CASE DeleteSession
  BY <1>5 DEF DeleteSession, socketVars, netVars
<1>6. CASE Dequeue
  BY <1>0, <1>6 DEF Dequeue, connectionVars
<1>7. CASE Update \/ Drain \/ DrainAgain \/ Drained
  BY <1>7 DEF Update, Drain, DrainAgain, Drained, socketVars, sessionVars
<1>8. CASE BaseUpdate
  BY <1>8 DEF BaseUpdate, socketVars, sessionVars
<1>9. CASE HandleQueue
  <2>1. UNCHANGED <<closing, query, reading, authed, worldSession, session, closer, after>>
    BY <1>9 DEF HandleQueue, WriteAll, WriteNothing, WriteFails, WouldBlock, PopFront,
       socketVars, sessionVars
  <2>2. CASE ~closed /\ closed'
    <3>1. net' = "onclose"
      BY <1>9, <2>2 DEF HandleQueue, WouldBlock, socketVars
    <3> QED
      BY <2>1, <2>2, <3>1
  <2>3. CASE ~(~closed /\ closed')
    <3>1. /\ net \in {"write", "written"} /\ net' \in {"write", "callbacks", "idle"}
          /\ net' \in {"write", "callbacks"} => net = "write"
      BY <1>9, <2>3 DEF HandleQueue
    <3>2. closed => closed'
      BY <1>9 DEF HandleQueue, WriteAll, WriteNothing, WriteFails, WouldBlock, PopFront, socketVars
    <3> QED
      BY <2>1, <2>3, <3>1, <3>2
  <2> QED
    BY <2>2, <2>3
<1>10. CASE WriteHandlerWrapper \/ NoResult
  BY <1>10 DEF WriteHandlerWrapper, NoResult, socketVars, sessionVars
<1>11. CASE IpAccepted
  BY <1>11 DEF IpAccepted, NetSends, SendPacket, socketVars, sessionVars
<1>12. CASE Rejected
  BY <1>12 DEF Rejected, NetSends, socketVars, sessionVars
<1>13. CASE Admitted
  BY <1>13 DEF Admitted, socketVars
<1>14. CASE NetEnqueues
  BY <1>14 DEF NetEnqueues, sessionVars
<1>15. CASE NetOnClose
  BY <1>15 DEF NetOnClose, OnClose, socketVars
<1>16. CASE ReadFails
  BY <1>16 DEF ReadFails, NetCloses, sessionVars
<1>17. ASSUME NEW packets, ReadCompletes(packets) PROVE ConnectionInv'
  BY <1>17 DEF ReadCompletes, socketVars, sessionVars
<1>18. CASE AsyncRead
  BY <1>18 DEF AsyncRead, socketVars, sessionVars
<1>19. CASE HandlePing
  BY <1>19 DEF HandlePing, NetSends, socketVars, sessionVars
<1>20. CASE HandleAuthSession
  BY <1>20 DEF HandleAuthSession, socketVars, sessionVars
<1>21. CASE QueueOnSession
  BY <1>21 DEF QueueOnSession, socketVars, sessionVars
<1>22. CASE ReadDataError
  BY <1>22 DEF ReadDataError, NetCloses, sessionVars
<1> QED
  BY <1>1, <1>2, <1>3, <1>4, <1>5, <1>6, <1>7, <1>8, <1>9, <1>10, <1>11, <1>12, <1>13, <1>14,
     <1>15, <1>16, <1>17, <1>18, <1>19, <1>20, <1>21, <1>22
     DEF Next, NetworkThread, Callbacks, Client, World, Gone

\* What is said of the connection holds in every reachable state.
THEOREM ConnectionInvariance == Spec => []ConnectionInv
BY InitConnectionInv, NextConnectionInv, PTL DEF Spec

\* The network thread never holds the pointer to a session that the world thread
\* has deleted, but on its way to reset it, and has it as long as the socket is open.
THEOREM NeverDangles == Spec => []SessionNotDangling
<1>1. ConnectionInv => SessionNotDangling
  BY DEF ConnectionInv
<1> QED
  BY <1>1, ConnectionInvariance, PTL

\* No open connection is left without a read or a query under way.
THEOREM AlwaysWatched == Spec => []ConnectionWatched
<1>1. ConnectionInv => ConnectionWatched
  BY DEF ConnectionInv, Watched, ConnectionWatched
<1> QED
  BY <1>1, ConnectionInvariance, PTL
=============================================================================
