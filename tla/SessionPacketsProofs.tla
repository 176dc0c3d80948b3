------------------------ MODULE SessionPacketsProofs ------------------------
(***************************************************************************)
(* Safety of SessionPackets for any number of packets and any limit of an  *)
(* update: no packet is lost, deleted twice or handled twice, and those of *)
(* a player are handled in the order they were sent.                       *)
(*                                                                         *)
(* Neither is inductive.  That the packets come in the order they were     *)
(* sent holds because the packets set aside are older than the queue       *)
(* (Ascending), so that readd at the front restores the order, and because *)
(* a player never appears while packets are set aside (NoPlayerYet): the   *)
(* packets of a player are handled only when there is nothing older.       *)
(***************************************************************************)
EXTENDS SessionPackets, SequenceLemmas, FiniteSetTheorems, TLAPS

Packets == [id : Nat, kind : Kinds]

\* The types of the state.
TypeOK ==
    /\ recvQueue \in Seq(Packets) /\ requeue \in Seq(Packets)
    /\ kindOf \in Seq(Kinds)
    /\ processed \in Nat /\ filter \in {"world", "map"}
    /\ player \in {"none", "inworld", "transfer"} /\ loading \in BOOLEAN /\ pending \in Nat
    /\ recentLogout \in BOOLEAN /\ logoutAsked \in BOOLEAN /\ tookOver \in BOOLEAN
    /\ sock \in {"open", "closed", "null"}
    /\ handled \in Seq(Nat) /\ done \in SUBSET Nat

\* The packets are those the network thread has received.
Genuine(s) == \A i \in DOMAIN s : s[i].id \in DOMAIN kindOf /\ s[i].kind = kindOf[s[i].id]

Ascending(s) == \A i, j \in DOMAIN s : i < j => s[i].id < s[j].id

\* What is set aside is older than what is queued, and both are in order.
OldestFirst ==
    /\ Genuine(recvQueue) /\ Genuine(requeue)
    /\ Ascending(recvQueue) /\ Ascending(requeue)
    /\ \A a \in Ids(requeue), b \in Ids(recvQueue) : a < b

\* A packet is deleted after it has left the queue.
DeletedOnce ==
    /\ Ids(recvQueue) \cap done = {} /\ Ids(requeue) \cap done = {}
    /\ IsFiniteSet(done)

\* While packets are set aside there is no player and none has just left, unless
\* one was taken over.
NoPlayerYet == requeue # <<>> => tookOver \/ (~HasPlayer /\ ~recentLogout)

\* The packets of a player that were handled are older than all that wait.
HandledOldest ==
    \/ tookOver
    \/ \A i \in DOMAIN handled : OfPlayer(handled[i]) =>
           \A b \in Ids(requeue) \cup Ids(recvQueue) : handled[i] < b

\* The inductive invariant.
PacketInv ==
    /\ TypeOK /\ OldestFirst /\ DeletedOnce /\ NothingLost
    /\ NoPlayerYet /\ HandledOldest /\ HandledInOrder

-----------------------------------------------------------------------------
(* What the operations of the queue do to the numbers in it. *)

\* The numbers are those at the positions of the sequence.
LEMMA IdsOf ==
    ASSUME NEW s \in Seq(Packets)
    PROVE  /\ DOMAIN s = 1..Len(s) /\ Len(s) \in Nat
           /\ \A i \in 1..Len(s) : s[i] \in Packets /\ s[i].id \in Nat /\ s[i].id \in Ids(s)
           /\ \A a \in Ids(s) : \E i \in 1..Len(s) : a = s[i].id
<1>1. DOMAIN s = 1..Len(s) /\ Len(s) \in Nat /\ \A i \in 1..Len(s) : s[i] \in Packets
  BY LenProperties, ElementOfSeq
<1> QED
  BY <1>1 DEF Ids, Packets

\* An empty queue is in order.
LEMMA IdsEmpty == Ids(<<>>) = {} /\ Ascending(<<>>) /\ Genuine(<<>>)
BY DEF Ids, Ascending, Genuine

\* QueuePacket, and a packet that is set aside: a newer one goes to the back.
LEMMA IdsAppend ==
    ASSUME NEW s \in Seq(Packets), NEW p \in Packets
    PROVE  /\ Append(s, p) \in Seq(Packets) /\ Len(Append(s, p)) = Len(s) + 1
           /\ Ids(Append(s, p)) = Ids(s) \cup {p.id}
           /\ Ascending(s) /\ (\A a \in Ids(s) : a < p.id) => Ascending(Append(s, p))
           /\ Genuine(s) /\ p.id \in DOMAIN kindOf /\ p.kind = kindOf[p.id]
                 => Genuine(Append(s, p))
<1> DEFINE t == Append(s, p)
<1>1. /\ t \in Seq(Packets) /\ Len(t) = Len(s) + 1 /\ t[Len(s) + 1] = p
      /\ \A i \in 1..Len(s) : t[i] = s[i]
  BY AppendProperties
<1> HIDE DEF t
<1>2. /\ DOMAIN t = 1..(Len(s) + 1) /\ DOMAIN s = 1..Len(s) /\ Len(s) \in Nat
      /\ \A i \in 1..Len(s) : s[i].id \in Ids(s)
      /\ \A i \in 1..(Len(s) + 1) : i \in 1..Len(s) \/ i = Len(s) + 1
  BY <1>1, IdsOf
<1>3. Ids(t) = Ids(s) \cup {p.id}
  <2>1. ASSUME NEW a \in Ids(t) PROVE a \in Ids(s) \cup {p.id}
    BY <1>1, <1>2 DEF Ids
  <2>2. ASSUME NEW a \in Ids(s) PROVE a \in Ids(t)
    <3>1. PICK i \in 1..Len(s) : a = s[i].id
      BY IdsOf
    <3>2. i \in DOMAIN t /\ a = t[i].id
      BY <1>1, <1>2, <3>1
    <3> QED
      BY <3>2 DEF Ids
  <2>3. p.id \in Ids(t)
    <3>1. Len(s) + 1 \in DOMAIN t
      BY <1>2
    <3> QED
      BY <1>1, <3>1 DEF Ids
  <2> QED
    BY <2>1, <2>2, <2>3
<1>4. ASSUME Ascending(s), \A a \in Ids(s) : a < p.id PROVE Ascending(t)
  BY <1>1, <1>2, <1>4 DEF Ascending
<1>5. ASSUME Genuine(s), p.id \in DOMAIN kindOf, p.kind = kindOf[p.id] PROVE Genuine(t)
  BY <1>1, <1>2, <1>5 DEF Genuine
<1> QED
  BY <1>1, <1>3, <1>4, <1>5 DEF t

\* next: the front is the oldest, and leaves.
LEMMA IdsTail ==
    ASSUME NEW s \in Seq(Packets), s # <<>>, Ascending(s), Genuine(s)
    PROVE  /\ Tail(s) \in Seq(Packets) /\ Len(Tail(s)) = Len(s) - 1
           /\ Head(s) \in Packets /\ Head(s).id \in Ids(s)
           /\ Head(s).id \in DOMAIN kindOf /\ Head(s).kind = kindOf[Head(s).id]
           /\ Ids(Tail(s)) = Ids(s) \ {Head(s).id}
           /\ \A a \in Ids(Tail(s)) : Head(s).id < a
           /\ Ascending(Tail(s)) /\ Genuine(Tail(s))
<1> DEFINE t == Tail(s)
<1>1. /\ t \in Seq(Packets) /\ Len(t) = Len(s) - 1 /\ Head(s) = s[1]
      /\ \A i \in 1..(Len(s) - 1) : t[i] = s[i + 1]
  BY HeadTailProperties
<1> HIDE DEF t
<1>2. /\ DOMAIN t = 1..(Len(s) - 1) /\ DOMAIN s = 1..Len(s) /\ Len(s) \in Nat /\ 1 \in 1..Len(s)
      /\ \A i \in 1..Len(s) : s[i] \in Packets /\ s[i].id \in Nat /\ s[i].id \in Ids(s)
      /\ \A i \in 1..(Len(s) - 1) : i + 1 \in 1..Len(s)
      /\ \A i \in 1..Len(s) : i = 1 \/ i - 1 \in 1..(Len(s) - 1)
  <2>1. Len(s) # 0
    BY EmptySeq
  <2> QED
    BY <1>1, <2>1, IdsOf
<1>3. ASSUME NEW a \in Ids(t) PROVE a \in Ids(s) /\ Head(s).id < a
  <2>1. PICK i \in 1..(Len(s) - 1) : a = t[i].id
    BY <1>1, <1>2, <1>3 DEF Ids
  <2>2. a = s[i + 1].id /\ i + 1 \in 1..Len(s) /\ 1 < i + 1
    BY <1>1, <1>2, <2>1
  <2> QED
    BY <1>1, <1>2, <2>2 DEF Ascending
<1>4. ASSUME NEW a \in Ids(s), a # Head(s).id PROVE a \in Ids(t)
  <2>1. PICK i \in 1..Len(s) : a = s[i].id
    BY IdsOf
  <2>2. i - 1 \in DOMAIN t /\ t[i - 1] = s[i]
    BY <1>1, <1>2, <1>4, <2>1
  <2> QED
    BY <2>1, <2>2 DEF Ids
<1>5. Head(s).id \notin Ids(t)
  <2>1. Head(s).id \in Nat
    BY <1>1, <1>2
  <2> QED
    BY <1>3, <2>1
<1>6. Ids(t) = Ids(s) \ {Head(s).id}
  BY <1>3, <1>4, <1>5
<1>7. Ascending(t)
  <2> SUFFICES ASSUME NEW i \in 1..(Len(s) - 1), NEW j \in 1..(Len(s) - 1), i < j
               PROVE  t[i].id < t[j].id
    BY <1>2 DEF Ascending
  <2>1. i + 1 \in 1..Len(s) /\ j + 1 \in 1..Len(s) /\ i + 1 < j + 1
    BY <1>2
  <2>2. t[i] = s[i + 1] /\ t[j] = s[j + 1]
    BY <1>1
  <2>3. s[i + 1].id < s[j + 1].id
    BY <1>2, <2>1 DEF Ascending
  <2> QED
    BY <2>2, <2>3
<1>8. Genuine(t)
  <2> SUFFICES ASSUME NEW i \in 1..(Len(s) - 1)
               PROVE  t[i].id \in DOMAIN kindOf /\ t[i].kind = kindOf[t[i].id]
    BY <1>2 DEF Genuine
  <2>1. i + 1 \in 1..Len(s) /\ t[i] = s[i + 1]
    BY <1>1, <1>2
  <2> QED
    BY <1>2, <2>1 DEF Genuine
<1>9. Head(s).id \in DOMAIN kindOf /\ Head(s).kind = kindOf[Head(s).id]
  BY <1>1, <1>2 DEF Genuine
<1> QED
  BY <1>1, <1>2, <1>3, <1>6, <1>7, <1>8, <1>9 DEF t

\* readd: older packets go in front.
LEMMA IdsConcat ==
    ASSUME NEW s \in Seq(Packets), NEW t \in Seq(Packets),
           Ascending(s), Ascending(t), Genuine(s), Genuine(t),
           \A a \in Ids(s), b \in Ids(t) : a < b
    PROVE  /\ s \o t \in Seq(Packets) /\ Len(s \o t) = Len(s) + Len(t)
           /\ Ids(s \o t) = Ids(s) \cup Ids(t)
           /\ Ascending(s \o t) /\ Genuine(s \o t)
<1> DEFINE u == s \o t
<1>1. /\ u \in Seq(Packets) /\ Len(u) = Len(s) + Len(t) /\ Len(s) \in Nat /\ Len(t) \in Nat
      /\ \A i \in 1..(Len(s) + Len(t)) : u[i] = IF i <= Len(s) THEN s[i] ELSE t[i - Len(s)]
  BY ConcatProperties, LenProperties
<1> HIDE DEF u
<1>2. /\ DOMAIN u = 1..(Len(s) + Len(t)) /\ DOMAIN s = 1..Len(s) /\ DOMAIN t = 1..Len(t)
      /\ \A i \in 1..Len(s) : s[i].id \in Nat /\ s[i].id \in Ids(s)
      /\ \A i \in 1..Len(t) : t[i].id \in Nat /\ t[i].id \in Ids(t)
  BY <1>1, IdsOf
<1>3. ASSUME NEW i \in 1..(Len(s) + Len(t))
      PROVE  \/ i \in 1..Len(s) /\ u[i] = s[i]
             \/ i > Len(s) /\ i - Len(s) \in 1..Len(t) /\ u[i] = t[i - Len(s)]
  BY <1>1
<1>4. Ids(u) = Ids(s) \cup Ids(t)
  <2>1. ASSUME NEW a \in Ids(u) PROVE a \in Ids(s) \cup Ids(t)
    <3>1. PICK i \in 1..(Len(s) + Len(t)) : a = u[i].id
      BY <1>1, IdsOf
    <3> QED
      BY <1>2, <1>3, <3>1
  <2>2. ASSUME NEW a \in Ids(s) PROVE a \in Ids(u)
    <3>1. PICK i \in 1..Len(s) : a = s[i].id
      BY IdsOf
    <3>2. i \in DOMAIN u /\ u[i] = s[i]
      BY <1>1, <1>2
    <3> QED
      BY <3>1, <3>2 DEF Ids
  <2>3. ASSUME NEW a \in Ids(t) PROVE a \in Ids(u)
    <3>1. PICK i \in 1..Len(t) : a = t[i].id
      BY IdsOf
    <3> DEFINE j == i + Len(s)
    <3>2. j \in DOMAIN u /\ ~(j <= Len(s)) /\ j - Len(s) = i
      BY <1>1, <1>2
    <3> HIDE DEF j
    <3>3. j \in DOMAIN u /\ u[j] = t[i]
      BY <1>1, <1>2, <3>2
    <3> QED
      BY <3>1, <3>3 DEF Ids
  <2> QED
    BY <2>1, <2>2, <2>3
<1>5. Ascending(u)
  <2> SUFFICES ASSUME NEW i \in 1..(Len(s) + Len(t)), NEW j \in 1..(Len(s) + Len(t)), i < j
               PROVE  u[i].id < u[j].id
    BY <1>2 DEF Ascending
  <2>1. CASE j <= Len(s)
    <3>1. i \in 1..Len(s) /\ j \in 1..Len(s) /\ u[i] = s[i] /\ u[j] = s[j]
      BY <1>1, <2>1
    <3> QED
      BY <1>2, <3>1 DEF Ascending
  <2>2. CASE i <= Len(s) /\ j > Len(s)
    <3>1. i \in 1..Len(s) /\ u[i] = s[i] /\ j - Len(s) \in 1..Len(t) /\ u[j] = t[j - Len(s)]
      BY <1>1, <2>2
    <3>2. s[i].id \in Ids(s) /\ t[j - Len(s)].id \in Ids(t)
      BY <1>2, <3>1
    <3> QED
      BY <3>1, <3>2
  <2>3. CASE i > Len(s)
    <3>1. /\ i - Len(s) \in 1..Len(t) /\ j - Len(s) \in 1..Len(t) /\ i - Len(s) < j - Len(s)
          /\ u[i] = t[i - Len(s)] /\ u[j] = t[j - Len(s)]
      BY <1>1, <2>3
    <3> QED
      BY <1>2, <3>1 DEF Ascending
  <2> QED
    BY <1>1, <2>1, <2>2, <2>3
<1>6. Genuine(u)
  <2> SUFFICES ASSUME NEW i \in 1..(Len(s) + Len(t))
               PROVE  u[i].id \in DOMAIN kindOf /\ u[i].kind = kindOf[u[i].id]
    BY <1>2 DEF Genuine
  <2>1. CASE i \in 1..Len(s) /\ u[i] = s[i]
    BY <1>2, <2>1 DEF Genuine
  <2>2. CASE i - Len(s) \in 1..Len(t) /\ u[i] = t[i - Len(s)]
    BY <1>2, <2>2 DEF Genuine
  <2> QED
    BY <1>3, <2>1, <2>2
<1> QED
  BY <1>1, <1>4, <1>5, <1>6 DEF u

-----------------------------------------------------------------------------
(* The steps, by what they do to the queue. *)

QueueInv == OldestFirst /\ DeletedOnce /\ NothingLost
OrderInv == HandledOldest /\ HandledInOrder
QueueTypes ==
    /\ recvQueue \in Seq(Packets) /\ requeue \in Seq(Packets) /\ kindOf \in Seq(Kinds)
    /\ handled \in Seq(Nat) /\ done \in SUBSET Nat

\* The numbers in use are those of the packets received.
LEMMA Numbers ==
    ASSUME QueueTypes, NothingLost
    PROVE  /\ Len(kindOf) \in Nat /\ DOMAIN kindOf = 1..Len(kindOf)
           /\ \A a \in Ids(requeue) \cup Ids(recvQueue) \cup done : a \in 1..Len(kindOf)
           /\ DOMAIN handled = 1..Len(handled) /\ Len(handled) \in Nat
           /\ \A i \in DOMAIN handled : handled[i] \in done
<1>1. /\ DOMAIN kindOf = 1..Len(kindOf) /\ Len(kindOf) \in Nat
      /\ DOMAIN handled = 1..Len(handled) /\ Len(handled) \in Nat
  BY LenProperties DEF QueueTypes
<1>2. \A i \in DOMAIN handled : handled[i] \in ToSet(handled)
  BY <1>1, SeqElements DEF QueueTypes
<1> QED
  BY <1>1, <1>2 DEF NothingLost

\* A packet that arrives is the newest.
LEMMA QueuePacketStep ==
    ASSUME QueueTypes, QueueInv, OrderInv, NEW k \in Kinds, QueuePacket(k)
    PROVE  QueueTypes' /\ QueueInv' /\ OrderInv'
<1> DEFINE n == Len(kindOf) + 1
           p == [id |-> n, kind |-> k]
<1>1. /\ recvQueue' = Append(recvQueue, p) /\ kindOf' = Append(kindOf, k)
      /\ UNCHANGED <<requeue, handled, done, tookOver>>
  BY DEF QueuePacket, loopVars, playerVars
<1>2. /\ Len(kindOf) \in Nat /\ DOMAIN kindOf = 1..Len(kindOf)
      /\ \A a \in Ids(requeue) \cup Ids(recvQueue) \cup done : a \in 1..Len(kindOf)
      /\ \A i \in DOMAIN handled : handled[i] \in done
  BY Numbers DEF QueueInv
<1>3. /\ kindOf' \in Seq(Kinds) /\ Len(kindOf') = n /\ kindOf'[n] = k
      /\ \A i \in 1..Len(kindOf) : kindOf'[i] = kindOf[i]
  BY <1>1, AppendProperties DEF QueueTypes
<1>4. DOMAIN kindOf' = 1..n
  BY <1>3, LenProperties
<1>5. p \in Packets /\ p.id = n /\ p.kind = k /\ n \in Nat
  BY <1>2 DEF Packets
<1>6. \A a \in Ids(requeue) \cup Ids(recvQueue) \cup done : a < n /\ a # n
  BY <1>2
<1> HIDE DEF n, p
<1>7. ASSUME NEW s \in Seq(Packets), Genuine(s) PROVE Genuine(s)'
  <2>1. \A i \in DOMAIN s : s[i].id \in 1..Len(kindOf) /\ s[i].kind = kindOf[s[i].id]
    BY <1>2, <1>7 DEF Genuine
  <2>2. \A i \in 1..Len(kindOf) : i \in 1..n /\ kindOf'[i] = kindOf[i]
    BY <1>2, <1>3 DEF n
  <2> QED
    BY <1>4, <2>1, <2>2 DEF Genuine
<1>8. /\ recvQueue' \in Seq(Packets) /\ Len(recvQueue') = Len(recvQueue) + 1
      /\ Ids(recvQueue') = Ids(recvQueue) \cup {n} /\ Ascending(recvQueue')
  BY <1>1, <1>5, <1>6, IdsAppend DEF QueueTypes, QueueInv, OldestFirst
<1>9. Genuine(recvQueue)'
  <2>1. /\ DOMAIN recvQueue' = 1..(Len(recvQueue) + 1) /\ recvQueue'[Len(recvQueue) + 1] = p
        /\ DOMAIN recvQueue = 1..Len(recvQueue) /\ Len(recvQueue) \in Nat
        /\ \A i \in 1..Len(recvQueue) : recvQueue'[i] = recvQueue[i]
    BY <1>1, <1>5, AppendProperties, LenProperties DEF QueueTypes
  <2>2. \A i \in 1..Len(recvQueue) : /\ recvQueue[i].id \in 1..n
                                     /\ recvQueue[i].kind = kindOf'[recvQueue[i].id]
    <3>1. \A i \in 1..Len(recvQueue) : /\ recvQueue[i].id \in 1..Len(kindOf)
                                       /\ recvQueue[i].kind = kindOf[recvQueue[i].id]
      BY <1>2, <2>1 DEF QueueInv, OldestFirst, Genuine
    <3> QED
      BY <1>2, <1>3, <3>1 DEF n
  <2>3. n \in 1..n
    BY <1>2 DEF n
  <2>4. ASSUME NEW i \in DOMAIN recvQueue'
        PROVE  recvQueue'[i].id \in DOMAIN kindOf' /\ recvQueue'[i].kind = kindOf'[recvQueue'[i].id]
    <3>1. CASE i \in 1..Len(recvQueue)
      BY <1>4, <2>1, <2>2, <3>1
    <3>2. CASE i = Len(recvQueue) + 1
      BY <1>3, <1>4, <1>5, <2>1, <2>3, <3>2
    <3> QED
      BY <2>1, <3>1, <3>2
  <2> QED
    BY <2>4 DEF Genuine
<1>10. OldestFirst'
  <2>1. Genuine(requeue)'
    BY <1>1, <1>7 DEF QueueTypes, QueueInv, OldestFirst, Genuine
  <2>2. \A a \in Ids(requeue), b \in Ids(recvQueue') : a < b
    BY <1>6, <1>8 DEF QueueInv, OldestFirst
  <2> QED
    BY <1>1, <1>8, <1>9, <2>1, <2>2 DEF OldestFirst, QueueInv, Ids, Ascending
<1>11. DeletedOnce'
  <2>1. Ids(recvQueue') \cap done = {} /\ Ids(requeue) \cap done = {}
    BY <1>6, <1>8 DEF QueueInv, DeletedOnce
  <2> QED
    BY <1>1, <2>1 DEF QueueInv, DeletedOnce, Ids
<1>12. NothingLost'
  <2>1. Ids(recvQueue') \cup Ids(requeue) \cup done = 1..n
    <3>1. Ids(recvQueue) \cup Ids(requeue) \cup done = 1..Len(kindOf)
      BY DEF QueueInv, NothingLost
    <3>2. 1..n = 1..Len(kindOf) \cup {n}
      BY <1>2 DEF n
    <3> QED
      BY <1>8, <3>1, <3>2
  <2>2. Len(recvQueue') + Len(requeue) + Cardinality(done) = n
    <3>1. Len(recvQueue) + Len(requeue) + Cardinality(done) = Len(kindOf)
      BY DEF QueueInv, NothingLost
    <3>2. Len(recvQueue) \in Nat /\ Len(requeue) \in Nat /\ Cardinality(done) \in Nat
      BY FS_CardinalityType, LenProperties DEF QueueInv, DeletedOnce, QueueTypes
    <3> QED
      BY <1>8, <3>1, <3>2 DEF n
  <2> QED
    BY <1>1, <1>3, <2>1, <2>2 DEF NothingLost, QueueInv, Ids
<1>13. \A i \in DOMAIN handled : OfPlayer(handled[i])' <=> OfPlayer(handled[i])
  BY <1>1, <1>2, <1>3 DEF OfPlayer
<1>14. HandledOldest'
  <2>1. \A i \in DOMAIN handled : handled[i] < n
    BY <1>2, <1>6
  <2>2. Ids(requeue)' = Ids(requeue) /\ Ids(recvQueue)' = Ids(recvQueue) \cup {n}
    BY <1>1, <1>8 DEF Ids
  <2> QED
    BY <1>1, <1>13, <2>1, <2>2 DEF HandledOldest, OrderInv
<1>15. HandledInOrder'
  BY <1>1, <1>13 DEF HandledInOrder, OrderInv
<1>16. QueueTypes'
  BY <1>1, <1>3, <1>8 DEF QueueTypes
<1> QED
  BY <1>10, <1>11, <1>12, <1>14, <1>15, <1>16 DEF QueueInv, OrderInv

\* The packet that the loop takes is the oldest of the queue.
LEMMA TakesOldest ==
    ASSUME QueueTypes, QueueInv, NEW p, Takes(p)
    PROVE  /\ p \in Packets /\ p.id \in Ids(recvQueue) /\ p.id \in DOMAIN kindOf
           /\ p.id \in Nat /\ p.kind = kindOf[p.id]
           /\ recvQueue' \in Seq(Packets) /\ Len(recvQueue') = Len(recvQueue) - 1
           /\ Ids(recvQueue') = Ids(recvQueue) \ {p.id}
           /\ \A a \in Ids(recvQueue') : p.id < a
           /\ Ascending(recvQueue') /\ Genuine(recvQueue')
           /\ kindOf' = kindOf
<1>1. /\ recvQueue # <<>> /\ p = Head(recvQueue) /\ recvQueue' = Tail(recvQueue)
      /\ kindOf' = kindOf
  BY DEF Takes, LoopGoesOn
<1>2. recvQueue \in Seq(Packets) /\ Ascending(recvQueue) /\ Genuine(recvQueue)
  BY DEF QueueTypes, QueueInv, OldestFirst
<1>3. p.id \in Nat
  BY <1>1, <1>2, IdsTail DEF Packets
<1> QED
  BY <1>1, <1>2, <1>3, IdsTail

\* A packet that is set aside is newer than those set aside before.
LEMMA RequeueStep ==
    ASSUME QueueTypes, QueueInv, OrderInv, NEW p, Requeue(p)
    PROVE  QueueTypes' /\ QueueInv' /\ OrderInv'
<1>1. /\ Takes(p) /\ requeue' = Append(requeue, p)
      /\ UNCHANGED <<handled, done, tookOver>>
  BY DEF Requeue, playerVars
<1>2. /\ p \in Packets /\ p.id \in Ids(recvQueue) /\ p.id \in DOMAIN kindOf
      /\ p.id \in Nat /\ p.kind = kindOf[p.id]
      /\ recvQueue' \in Seq(Packets) /\ Len(recvQueue') = Len(recvQueue) - 1
      /\ Ids(recvQueue') = Ids(recvQueue) \ {p.id}
      /\ \A a \in Ids(recvQueue') : p.id < a
      /\ Ascending(recvQueue') /\ Genuine(recvQueue')
      /\ kindOf' = kindOf
  BY <1>1, TakesOldest
<1>3. /\ requeue' \in Seq(Packets) /\ Len(requeue') = Len(requeue) + 1
      /\ Ids(requeue') = Ids(requeue) \cup {p.id}
      /\ Ascending(requeue') /\ Genuine(requeue')
  BY <1>1, <1>2, IdsAppend DEF QueueTypes, QueueInv, OldestFirst
<1>4. \A a \in Ids(requeue'), b \in Ids(recvQueue') : a < b
  BY <1>2, <1>3 DEF QueueInv, OldestFirst
<1>5. Ids(requeue') \cup Ids(recvQueue') = Ids(requeue) \cup Ids(recvQueue)
  BY <1>2, <1>3
<1>6. OldestFirst'
  BY <1>2, <1>3, <1>4 DEF OldestFirst, Genuine, Ascending, Ids
<1>7. DeletedOnce'
  <2>1. Ids(recvQueue') \cap done = {} /\ Ids(requeue') \cap done = {}
    BY <1>2, <1>3 DEF QueueInv, DeletedOnce
  <2> QED
    BY <1>1, <2>1 DEF QueueInv, DeletedOnce, Ids
<1>8. NothingLost'
  <2>1. Ids(recvQueue') \cup Ids(requeue') \cup done = 1..Len(kindOf)
    BY <1>5 DEF QueueInv, NothingLost
  <2>2. Len(recvQueue') + Len(requeue') + Cardinality(done) = Len(kindOf)
    <3>1. Len(recvQueue) + Len(requeue) + Cardinality(done) = Len(kindOf)
      BY DEF QueueInv, NothingLost
    <3>2. Len(recvQueue) \in Nat /\ Len(requeue) \in Nat /\ Cardinality(done) \in Nat
      BY FS_CardinalityType, LenProperties DEF QueueInv, DeletedOnce, QueueTypes
    <3> QED
      BY <1>2, <1>3, <3>1, <3>2
  <2> QED
    BY <1>1, <1>2, <2>1, <2>2 DEF NothingLost, QueueInv, Ids
<1>9. HandledOldest'
  <2>1. Ids(requeue)' \cup Ids(recvQueue)' = Ids(requeue) \cup Ids(recvQueue)
    BY <1>5 DEF Ids
  <2> QED
    BY <1>1, <1>2, <2>1 DEF HandledOldest, OrderInv, OfPlayer
<1>10. HandledInOrder'
  BY <1>1, <1>2 DEF HandledInOrder, OrderInv, OfPlayer
<1>11. QueueTypes'
  BY <1>1, <1>2, <1>3 DEF QueueTypes
<1> QED
  BY <1>6, <1>7, <1>8, <1>9, <1>10, <1>11 DEF QueueInv, OrderInv

\* A packet is deleted, after its handler was called or without it.  The packets
\* of a player are handled only when there is one.
Deletes(p) ==
    /\ Takes(p)
    /\ done' = done \cup {p.id}
    /\ UNCHANGED requeue
    /\ tookOver => tookOver'
    /\ \/ UNCHANGED handled
       \/ /\ handled' = Append(handled, p.id)
          /\ OfPlayer(p.id) => HasPlayer

\* It leaves the queue and is deleted once; if it is a player's, it is the oldest
\* there is.
LEMMA DeleteStep ==
    ASSUME QueueTypes, QueueInv, OrderInv, NoPlayerYet, NEW p, Deletes(p)
    PROVE  QueueTypes' /\ QueueInv' /\ OrderInv'
<1>1. /\ Takes(p) /\ done' = done \cup {p.id} /\ UNCHANGED requeue /\ (tookOver => tookOver')
      /\ (handled' = handled \/ handled' = Append(handled, p.id))
  BY DEF Deletes
<1>2. /\ p.id \in Ids(recvQueue) /\ p.id \in DOMAIN kindOf /\ p.id \in Nat
      /\ recvQueue' \in Seq(Packets) /\ Len(recvQueue') = Len(recvQueue) - 1
      /\ Ids(recvQueue') = Ids(recvQueue) \ {p.id}
      /\ \A a \in Ids(recvQueue') : p.id < a
      /\ Ascending(recvQueue') /\ Genuine(recvQueue')
      /\ kindOf' = kindOf
  BY <1>1, TakesOldest
<1>3. OldestFirst'
  <2>1. Genuine(recvQueue)' /\ Ascending(recvQueue)'
    BY <1>2 DEF Genuine, Ascending
  <2>2. Genuine(requeue)' /\ Ascending(requeue)'
    BY <1>1, <1>2 DEF QueueInv, OldestFirst, Genuine, Ascending
  <2>3. Ids(requeue)' = Ids(requeue) /\ Ids(recvQueue)' = Ids(recvQueue) \ {p.id}
    BY <1>1, <1>2 DEF Ids
  <2> QED
    BY <2>1, <2>2, <2>3 DEF QueueInv, OldestFirst
<1>4. p.id \notin done /\ p.id \notin Ids(requeue) /\ p.id \notin ToSet(handled)
  <2>1. p.id \notin done /\ p.id \notin Ids(requeue)
    BY <1>2 DEF QueueInv, DeletedOnce, OldestFirst
  <2> QED
    BY <2>1 DEF QueueInv, NothingLost
<1>5. DeletedOnce'
  <2>1. IsFiniteSet(done')
    BY <1>1, FS_AddElement DEF QueueInv, DeletedOnce
  <2>2. Ids(recvQueue') \cap done' = {} /\ Ids(requeue) \cap done' = {}
    BY <1>1, <1>2, <1>4 DEF QueueInv, DeletedOnce
  <2> QED
    BY <1>1, <2>1, <2>2 DEF DeletedOnce, Ids
<1>6. handled' \in Seq(Nat) /\ IsInjective(handled') /\ ToSet(handled') \subseteq done'
  <2>1. handled \in Seq(Nat) /\ IsInjective(handled) /\ ToSet(handled) \subseteq done
    BY DEF QueueTypes, QueueInv, NothingLost
  <2>2. CASE handled' = handled
    BY <1>1, <2>1, <2>2
  <2>3. CASE handled' = Append(handled, p.id)
    BY <1>1, <1>2, <1>4, <2>1, <2>3, AppendElements
  <2> QED
    BY <1>1, <2>2, <2>3
<1>7. NothingLost'
  <2>1. Ids(recvQueue') \cup Ids(requeue) \cup done' = 1..Len(kindOf)
    BY <1>1, <1>2 DEF QueueInv, NothingLost
  <2>2. Len(recvQueue') + Len(requeue) + Cardinality(done') = Len(kindOf)
    <3>1. Len(recvQueue) + Len(requeue) + Cardinality(done) = Len(kindOf)
      BY DEF QueueInv, NothingLost
    <3>2. Len(recvQueue) \in Nat /\ Len(requeue) \in Nat /\ Cardinality(done) \in Nat
      BY FS_CardinalityType, LenProperties DEF QueueInv, DeletedOnce, QueueTypes
    <3>3. Cardinality(done') = Cardinality(done) + 1
      BY <1>1, <1>4, FS_AddElement DEF QueueInv, DeletedOnce
    <3> QED
      BY <1>2, <3>1, <3>2, <3>3
  <2> QED
    BY <1>1, <1>2, <1>6, <2>1, <2>2 DEF NothingLost, Ids
<1>8. QueueTypes'
  BY <1>1, <1>2, <1>6 DEF QueueTypes
<1>9. Ids(requeue)' = Ids(requeue) /\ Ids(recvQueue)' = Ids(recvQueue) \ {p.id}
  BY <1>1, <1>2 DEF Ids
<1>10. ASSUME ~tookOver', handled' = handled PROVE OrderInv'
  BY <1>1, <1>2, <1>9, <1>10 DEF OrderInv, HandledOldest, HandledInOrder, OfPlayer
<1>11. ASSUME ~tookOver', handled' = Append(handled, p.id), ~OfPlayer(p.id) PROVE OrderInv'
  <2>1. /\ DOMAIN handled' = 1..(Len(handled) + 1) /\ handled'[Len(handled) + 1] = p.id
        /\ DOMAIN handled = 1..Len(handled) /\ Len(handled) \in Nat
        /\ \A i \in 1..Len(handled) : handled'[i] = handled[i]
    BY <1>2, <1>11, AppendProperties, LenProperties DEF QueueTypes
  <2>2. \A i \in DOMAIN handled' : OfPlayer(handled[i])' =>
            i \in DOMAIN handled /\ handled'[i] = handled[i] /\ OfPlayer(handled[i])
    BY <1>2, <1>11, <2>1 DEF OfPlayer
  <2> QED
    BY <1>1, <1>9, <1>11, <2>2 DEF OrderInv, HandledOldest, HandledInOrder
<1>12. ASSUME ~tookOver', handled' = Append(handled, p.id), OfPlayer(p.id) PROVE OrderInv'
  <2>1. /\ DOMAIN handled' = 1..(Len(handled) + 1) /\ handled'[Len(handled) + 1] = p.id
        /\ DOMAIN handled = 1..Len(handled) /\ Len(handled) \in Nat
        /\ \A i \in 1..Len(handled) : handled'[i] = handled[i]
    BY <1>2, <1>12, AppendProperties, LenProperties DEF QueueTypes
  <2>2. HasPlayer
    <3>1. handled' # handled
      BY <2>1
    <3> QED
      BY <1>12, <3>1 DEF Deletes
  <2>3. requeue = <<>> /\ Ids(requeue) = {}
    BY <1>1, <1>12, <2>2, IdsEmpty DEF NoPlayerYet
  <2>4. \A i \in DOMAIN handled : OfPlayer(handled[i]) =>
            \A b \in Ids(recvQueue) : handled[i] < b
    BY <1>1, <1>12 DEF OrderInv, HandledOldest
  <2>5. \A i \in DOMAIN handled' : i \in DOMAIN handled \/ (i = Len(handled) + 1 /\ handled'[i] = p.id)
    BY <2>1
  <2>6. HandledOldest'
    <3> SUFFICES ASSUME NEW i \in DOMAIN handled', OfPlayer(handled[i])', NEW b \in Ids(recvQueue')
                 PROVE  handled'[i] < b
      BY <1>2, <1>9, <2>3 DEF HandledOldest
    <3>1. CASE i \in DOMAIN handled
      BY <1>2, <2>1, <2>4, <3>1 DEF OfPlayer
    <3>2. CASE handled'[i] = p.id
      BY <1>2, <3>2
    <3> QED
      BY <2>5, <3>1, <3>2
  <2>7. HandledInOrder'
    <3> SUFFICES ASSUME NEW i \in DOMAIN handled', NEW j \in DOMAIN handled', i < j,
                        OfPlayer(handled[i])', OfPlayer(handled[j])'
                 PROVE  handled'[i] < handled'[j]
      BY DEF HandledInOrder
    <3>1. i \in DOMAIN handled /\ handled'[i] = handled[i] /\ OfPlayer(handled[i])
      BY <1>2, <2>1 DEF OfPlayer
    <3>2. CASE j \in DOMAIN handled
      BY <1>1, <1>2, <1>12, <2>1, <3>1, <3>2 DEF OrderInv, HandledInOrder, OfPlayer
    <3>3. CASE handled'[j] = p.id
      BY <1>2, <2>4, <3>1, <3>3
    <3> QED
      BY <2>5, <3>2, <3>3
  <2> QED
    BY <2>6, <2>7 DEF OrderInv
<1>13. ASSUME tookOver' PROVE OrderInv'
  BY <1>13 DEF OrderInv, HandledOldest, HandledInOrder
<1> QED
  BY <1>1, <1>3, <1>5, <1>7, <1>8, <1>10, <1>11, <1>12, <1>13 DEF QueueInv

\* The end of an update puts the older packets back in front.
LEMMA LoopEndsStep ==
    ASSUME QueueTypes, QueueInv, OrderInv, LoopEnds
    PROVE  QueueTypes' /\ QueueInv' /\ OrderInv'
<1>1. /\ recvQueue' = requeue \o recvQueue /\ requeue' = <<>>
      /\ UNCHANGED <<kindOf, handled, done, tookOver>>
  BY DEF LoopEnds, Readd
<1>2. /\ recvQueue' \in Seq(Packets) /\ Len(recvQueue') = Len(requeue) + Len(recvQueue)
      /\ Ids(recvQueue') = Ids(requeue) \cup Ids(recvQueue)
      /\ Ascending(recvQueue') /\ Genuine(recvQueue')
  BY <1>1, IdsConcat DEF QueueTypes, QueueInv, OldestFirst
<1>3. Ids(requeue') = {} /\ Ascending(requeue') /\ Genuine(requeue') /\ Len(requeue') = 0
  BY <1>1, IdsEmpty
<1>4. Ids(requeue)' = {} /\ Ids(recvQueue)' = Ids(requeue) \cup Ids(recvQueue)
  BY <1>2, <1>3 DEF Ids
<1>5. OldestFirst'
  BY <1>1, <1>2, <1>3, <1>4 DEF OldestFirst, Genuine, Ascending
<1>6. DeletedOnce'
  BY <1>1, <1>4 DEF QueueInv, DeletedOnce
<1>7. NothingLost'
  <2>1. Len(recvQueue') + Len(requeue') + Cardinality(done) = Len(kindOf)
    <3>1. Len(recvQueue) + Len(requeue) + Cardinality(done) = Len(kindOf)
      BY DEF QueueInv, NothingLost
    <3>2. Len(recvQueue) \in Nat /\ Len(requeue) \in Nat /\ Cardinality(done) \in Nat
      BY FS_CardinalityType, LenProperties DEF QueueInv, DeletedOnce, QueueTypes
    <3> QED
      BY <1>2, <1>3, <3>1, <3>2
  <2>2. Ids(recvQueue)' \cup Ids(requeue)' \cup done = 1..Len(kindOf)
    BY <1>4 DEF QueueInv, NothingLost
  <2> QED
    BY <1>1, <2>1, <2>2 DEF QueueInv, NothingLost
<1>8. OrderInv'
  BY <1>1, <1>4 DEF OrderInv, HandledOldest, HandledInOrder, OfPlayer
<1>9. QueueTypes'
  BY <1>1, <1>2 DEF QueueTypes
<1> QED
  BY <1>5, <1>6, <1>7, <1>8, <1>9 DEF QueueInv

\* A player appears while packets are set aside only by a takeover, and nobody has
\* just logged out.
LEMMA HandlerStep ==
    ASSUME TypeOK, QueueInv, NoPlayerYet, NEW p,
           Drop(p) \/ DropAndBreak(p) \/ Handler(p)
    PROVE  Deletes(p) /\ NoPlayerYet'
<1>0. QueueTypes
  BY DEF TypeOK, QueueTypes
<1>1. Takes(p) /\ done' = done \cup {p.id} /\ UNCHANGED requeue
  BY DEF Drop, DropAndBreak, Handler, HandlePlayerLogin, HandleCharEnum, HandleLogoutRequest,
     HandleLogoutCancel, HandleMoveWorldportAck, HandleInWorld, Calls
<1>2. p.kind = kindOf[p.id]
  BY <1>0, <1>1, TakesOldest
<1> USE DEF NoPlayerYet, HasPlayer
<1>3. CASE Drop(p)
  <2>1. UNCHANGED <<handled, player, tookOver>> /\ (recentLogout' => recentLogout)
    BY <1>3, Zenon DEF Drop
  <2> QED
    BY <1>1, <2>1 DEF Deletes
<1>4. CASE DropAndBreak(p)
  <2>1. UNCHANGED <<handled, player, tookOver>> /\ (recentLogout' => recentLogout)
    BY <1>4, Zenon DEF DropAndBreak
  <2> QED
    BY <1>1, <2>1 DEF Deletes
<1>5. ASSUME Calls(p), OfPlayer(p.id) => HasPlayer, tookOver => tookOver' PROVE Deletes(p)
  BY <1>1, <1>5 DEF Deletes, Calls
<1>6. CASE HandlePlayerLogin(p)
  <2>1. ~OfPlayer(p.id)
    BY <1>2, <1>6 DEF OfPlayer, Status, HandlePlayerLogin
  <2>2. Calls(p) /\ (tookOver => tookOver')
    BY <1>6 DEF HandlePlayerLogin
  <2>3. NoPlayerYet'
    BY <1>1, <1>6 DEF HandlePlayerLogin
  <2> QED
    BY <1>5, <2>1, <2>2, <2>3
<1>7. CASE HandleCharEnum(p)
  <2>1. ~OfPlayer(p.id)
    BY <1>2, <1>7 DEF OfPlayer, Status, HandleCharEnum
  <2> QED
    BY <1>1, <1>5, <1>7, <2>1 DEF HandleCharEnum
<1>8. CASE HandleLogoutRequest(p)
  BY <1>1, <1>5, <1>8 DEF HandleLogoutRequest
<1>9. CASE HandleLogoutCancel(p)
  <2>1. ~OfPlayer(p.id)
    BY <1>2, <1>9 DEF OfPlayer, Status, HandleLogoutCancel
  <2> QED
    BY <1>1, <1>5, <1>9, <2>1 DEF HandleLogoutCancel
<1>10. CASE HandleMoveWorldportAck(p)
  BY <1>1, <1>5, <1>10 DEF HandleMoveWorldportAck
<1>11. CASE HandleInWorld(p)
  BY <1>1, <1>5, <1>11 DEF HandleInWorld
<1> QED
  BY <1>3, <1>4, <1>6, <1>7, <1>8, <1>9, <1>10, <1>11 DEF Handler

RestTypes ==
    /\ processed \in Nat /\ filter \in {"world", "map"}
    /\ player \in {"none", "inworld", "transfer"} /\ loading \in BOOLEAN /\ pending \in Nat
    /\ recentLogout \in BOOLEAN /\ logoutAsked \in BOOLEAN /\ tookOver \in BOOLEAN
    /\ sock \in {"open", "closed", "null"}

\* The state of the loop, of the player and of the socket keeps its types.
LEMMA RestStep ==
    ASSUME RestTypes, Next
    PROVE  RestTypes'
<1>1. CASE Disconnect
  BY <1>1 DEF Disconnect, RestTypes, loopVars, playerVars
<1>2. CASE Over
  BY <1>2 DEF Over, RestTypes, vars, loopVars, playerVars
<1>3. ASSUME NEW k \in Kinds, QueuePacket(k) PROVE RestTypes'
  BY <1>3 DEF QueuePacket, RestTypes, loopVars, playerVars
<1>4. ASSUME NEW p, Requeue(p) PROVE RestTypes'
  BY <1>4 DEF Requeue, Takes, RestTypes, playerVars
<1>5. ASSUME NEW p, Drop(p) \/ DropAndBreak(p) PROVE RestTypes'
  <2>1. recentLogout' \in BOOLEAN
    BY <1>5, Zenon DEF Drop, DropAndBreak, RestTypes
  <2>2. UNCHANGED <<player, loading, pending, logoutAsked, tookOver, filter, sock>>
    BY <1>5 DEF Drop, DropAndBreak, Takes
  <2>3. processed' \in Nat
    BY <1>5, PacketsAssumption DEF Drop, DropAndBreak, RestTypes
  <2> QED
    BY <2>1, <2>2, <2>3 DEF RestTypes
<1>6. ASSUME NEW p, Handler(p) PROVE RestTypes'
  <2>1. processed' \in Nat /\ UNCHANGED <<filter, sock>>
    BY <1>6 DEF Handler, HandlePlayerLogin, HandleCharEnum, HandleLogoutRequest,
       HandleLogoutCancel, HandleMoveWorldportAck, HandleInWorld, Calls, Takes, RestTypes
  <2>2. player' \in {"none", "inworld", "transfer"} /\ pending' \in Nat
    BY <1>6 DEF Handler, HandlePlayerLogin, HandleCharEnum, HandleLogoutRequest,
       HandleLogoutCancel, HandleMoveWorldportAck, HandleInWorld, RestTypes
  <2>3. /\ recentLogout' \in BOOLEAN /\ logoutAsked' \in BOOLEAN /\ tookOver' \in BOOLEAN
        /\ loading' \in BOOLEAN
    BY <1>6, Zenon DEF Handler, HandlePlayerLogin, HandleCharEnum, HandleLogoutRequest,
       HandleLogoutCancel, HandleMoveWorldportAck, HandleInWorld, RestTypes
  <2> QED
    BY <2>1, <2>2, <2>3 DEF RestTypes
<1>7. CASE EndUpdate
  BY <1>7 DEF EndUpdate, LogsOut, LoopEnds, NextFilter, RestTypes
<1>8. CASE PlayerLoaded \/ LoadFails
  <2>1. /\ recentLogout' \in BOOLEAN /\ logoutAsked' \in BOOLEAN /\ tookOver' \in BOOLEAN
        /\ loading' \in BOOLEAN
    BY <1>8, Zenon DEF PlayerLoaded, LoadFails, LogsOut, LoopEnds, RestTypes
  <2>2. /\ processed' \in Nat /\ filter' \in {"world", "map"} /\ pending' \in Nat
        /\ player' \in {"none", "inworld", "transfer"} /\ sock' \in {"open", "closed", "null"}
    BY <1>8 DEF PlayerLoaded, LoadFails, LogsOut, LoopEnds, NextFilter, RestTypes
  <2> QED
    BY <2>1, <2>2 DEF RestTypes
<1>9. CASE GiveUpSocket
  BY <1>9 DEF GiveUpSocket, LoopEnds, RestTypes
<1> QED
  BY <1>1, <1>2, <1>3, <1>4, <1>5, <1>6, <1>7, <1>8, <1>9 DEF Next, Update

\* The session starts with no packets and no player.
LEMMA InitPacketInv == Init => PacketInv
<1> SUFFICES ASSUME Init PROVE PacketInv
  OBVIOUS
<1>1. TypeOK
  <2>1. /\ recentLogout \in BOOLEAN /\ logoutAsked \in BOOLEAN /\ tookOver \in BOOLEAN
        /\ loading \in BOOLEAN
    BY Zenon DEF Init
  <2>2. RestTypes
    BY <2>1 DEF Init, RestTypes
  <2>3. QueueTypes
    BY DEF Init, QueueTypes
  <2> QED
    BY <2>2, <2>3 DEF TypeOK, RestTypes, QueueTypes
<1>2. OldestFirst
  BY IdsEmpty DEF Init, OldestFirst
<1>3. DeletedOnce
  BY IdsEmpty, FS_EmptySet DEF Init, DeletedOnce
<1>4. NothingLost
  BY IdsEmpty, FS_EmptySet, EmptyElements DEF Init, NothingLost
<1>5. NoPlayerYet /\ HandledOldest /\ HandledInOrder
  BY DEF Init, NoPlayerYet, HandledOldest, HandledInOrder
<1> QED
  BY <1>1, <1>2, <1>3, <1>4, <1>5 DEF PacketInv

\* Every step preserves the inductive invariant.
LEMMA NextPacketInv == PacketInv /\ [Next]_vars => PacketInv'
<1> SUFFICES ASSUME PacketInv, [Next]_vars PROVE PacketInv'
  OBVIOUS
<1>1. TypeOK /\ QueueTypes /\ RestTypes /\ QueueInv /\ OrderInv /\ NoPlayerYet
  BY DEF PacketInv, TypeOK, QueueTypes, RestTypes, QueueInv, OrderInv
<1>2. ASSUME QueueTypes', RestTypes', QueueInv', OrderInv', NoPlayerYet' PROVE PacketInv'
  BY <1>2 DEF PacketInv, TypeOK, QueueTypes, RestTypes, QueueInv, OrderInv
<1>3. ASSUME UNCHANGED <<recvQueue, requeue, kindOf, handled, done, tookOver, player, recentLogout>>
      PROVE  QueueTypes' /\ QueueInv' /\ OrderInv' /\ NoPlayerYet'
  <2>1. QueueTypes' /\ NoPlayerYet'
    BY <1>1, <1>3 DEF QueueTypes, NoPlayerYet, HasPlayer
  <2>2. QueueInv'
    BY <1>1, <1>3 DEF QueueInv, OldestFirst, DeletedOnce, NothingLost, Genuine, Ascending, Ids
  <2>3. OrderInv'
    BY <1>1, <1>3 DEF OrderInv, HandledOldest, HandledInOrder, OfPlayer, Ids
  <2> QED
    BY <2>1, <2>2, <2>3
<1>4. CASE UNCHANGED vars
  <2>1. RestTypes'
    BY <1>1, <1>4 DEF RestTypes, vars, loopVars, playerVars
  <2> QED
    BY <1>2, <1>3, <1>4, <2>1 DEF vars, queueVars, loopVars, playerVars
<1>5. CASE Next
  <2>0. RestTypes'
    BY <1>1, <1>5, RestStep
  <2>1. CASE Disconnect \/ Over
    BY <1>2, <1>3, <2>0, <2>1 DEF Disconnect, Over, vars, queueVars, loopVars, playerVars
  <2>2. ASSUME NEW k \in Kinds, QueuePacket(k) PROVE PacketInv'
    <3>1. NoPlayerYet'
      BY <1>1, <2>2 DEF QueuePacket, loopVars, playerVars, NoPlayerYet, HasPlayer
    <3> QED
      BY <1>1, <1>2, <2>0, <2>2, <3>1, QueuePacketStep
  <2>3. ASSUME NEW p, Requeue(p) PROVE PacketInv'
    <3>1. NoPlayerYet'
      BY <2>3 DEF Requeue, Premature, playerVars, NoPlayerYet, HasPlayer
    <3> QED
      BY <1>1, <1>2, <2>0, <2>3, <3>1, RequeueStep
  <2>4. ASSUME NEW p, Drop(p) \/ DropAndBreak(p) \/ Handler(p) PROVE PacketInv'
    BY <1>1, <1>2, <2>0, <2>4, HandlerStep, DeleteStep
  <2>5. CASE LoopEnds
    <3>1. NoPlayerYet'
      BY <2>5 DEF LoopEnds, NoPlayerYet
    <3> QED
      BY <1>1, <1>2, <2>0, <2>5, <3>1, LoopEndsStep
  <2> QED
    BY <1>5, <2>1, <2>2, <2>3, <2>4, <2>5 DEF Next, Update, EndUpdate, PlayerLoaded, LoadFails, GiveUpSocket
<1> QED
  BY <1>4, <1>5

-----------------------------------------------------------------------------
\* The inductive invariant holds in every reachable state.
THEOREM PacketInvariance == Spec => []PacketInv
BY InitPacketInv, NextPacketInv, PTL DEF Spec

\* Whatever the two threads, the network and the handlers do, every packet is in
\* one place until it is deleted, and none is handled twice.
THEOREM NeverLosesPacket == Spec => []NothingLost
<1>1. PacketInv => NothingLost
  BY DEF PacketInv
<1> QED
  BY <1>1, PacketInvariance, PTL

\* The packets of a player are handled in the order they were sent, as long as no
\* login takes a character over that is in the world.
THEOREM HandlesInOrder == Spec => []HandledInOrder
<1>1. PacketInv => HandledInOrder
  BY DEF PacketInv
<1> QED
  BY <1>1, PacketInvariance, PTL
=============================================================================
