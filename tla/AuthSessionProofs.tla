-------------------------- MODULE AuthSessionProofs --------------------------
(***************************************************************************)
(* Safety of AuthSession for any number of machines, connections and       *)
(* commands: a client is answered command by command, and an old key opens *)
(* neither server for long.                                                *)
(*                                                                         *)
(* The order of the answers rests on the status: from a command that asks  *)
(* the database to the callback that answers it the status lets no other   *)
(* command in, so that there is one query at a time and nothing to         *)
(* overtake.  This is what OneQuery adds to the property.                  *)
(*                                                                         *)
(* The keys rest on the row of the database only ever getting newer ones,  *)
(* although a store may fail: what a reconnect has loaded, and what        *)
(* worldserver has accepted, was in the row and is not newer than it.      *)
(***************************************************************************)
EXTENDS AuthSession, SequenceTheorems, TLAPS

Statuses == {"CHALLENGE", "LOGON_PROOF", "RECONNECT_PROOF", "AUTHED",
             "WAITING_FOR_REALM_LIST", "CLOSED"}
Queries == [what : {"ip", "logon", "reconnect", "realms"}, nr : Nat,
            result : {"pending", "ready"}]
Sessions == [status : Statuses, reading : BOOLEAN, closed : BOOLEAN, sessionKey : Nat,
             callbacks : SUBSET Queries]

\* The types of the state.
TypeOK ==
    /\ con \in [Conns -> Sessions]
    /\ asked \in [Conns -> Nat]
    /\ sent \in [Conns -> Seq(Nat)]
    /\ dbKey \in Nat /\ proofs \in Nat
    /\ key \in [Machines -> Nat] /\ began \in [Conns -> Nat]
    /\ world \in [Machines -> [st : {"none", "asked", "accepted", "refused"}, key : Nat]]

\* The queries a client waits for: all but the one about its address.
Queried(c) == {cb \in con[c].callbacks : cb.what # "ip"}

\* A query belongs to the last command, which has not been answered; while it is
\* under way the status allows no command.
OneQuery(c) ==
    /\ \A cb \in Queried(c) : /\ cb.nr = asked[c] /\ asked[c] = Len(sent[c]) + 1
                              /\ con[c].status \in {"CLOSED", "WAITING_FOR_REALM_LIST"}
    /\ \A cb, cc \in Queried(c) : cb = cc

\* Every command is answered before the next, unless the connection is closed.
AnsweredSoFar(c) ==
    /\ Len(sent[c]) <= asked[c]
    /\ Queried(c) = {} /\ ~con[c].closed => asked[c] = Len(sent[c])

\* The answers are numbered from one.
InOrder(c) == \A i \in 1..Len(sent[c]) : sent[c][i] = i

Dialogue(c) == OneQuery(c) /\ AnsweredSoFar(c) /\ InOrder(c)

\* A reconnect has the key to compare with.
Loaded(c) ==
    \/ con[c].status = "RECONNECT_PROOF"
    \/ \E cb \in Queried(c) : cb.what = "reconnect" /\ cb.result = "ready"

\* That key was in the database since the challenge came.
LoadedSince(c) == Loaded(c) => began[c] <= con[c].sessionKey /\ con[c].sessionKey <= dbKey

\* The row holds a key that was made, not older than any that was seen there.
RowIsNewest ==
    /\ dbKey <= proofs
    /\ \A c \in Conns : began[c] <= dbKey
    /\ \A m \in Machines : world[m].st = "accepted" => world[m].key <= dbKey

\* The inductive invariant.
AuthInv == TypeOK /\ (\A c \in Conns : Dialogue(c) /\ LoadedSince(c)) /\ RowIsNewest

-----------------------------------------------------------------------------
\* Initially nothing has been asked but the address, and there is no key.
LEMMA InitAuthInv == Init => AuthInv
<1> SUFFICES ASSUME Init PROVE AuthInv
  OBVIOUS
<1>1. \A c \in Conns : con[c] = Start(c) /\ Start(c) \in Sessions
  BY DEF Init, Start, Sessions, Queries, Statuses
<1>2. TypeOK
  <2>1. con \in [Conns -> Sessions]
    BY <1>1 DEF Init
  <2> QED
    BY <2>1 DEF Init, TypeOK
<1>3. ASSUME NEW c \in Conns PROVE Dialogue(c) /\ LoadedSince(c)
  <2>1. Queried(c) = {} /\ con[c].status # "RECONNECT_PROOF"
    BY <1>1 DEF Queried, Start
  <2> QED
    BY <2>1 DEF Init, Dialogue, OneQuery, AnsweredSoFar, InOrder, LoadedSince, Loaded
<1>4. RowIsNewest
  BY DEF Init, RowIsNewest
<1> QED
  BY <1>2, <1>3, <1>4 DEF AuthInv

\* A session stays one when its status and its callbacks change.
LEMMA SessionType ==
    ASSUME NEW r \in Sessions, NEW s \in Statuses, NEW C \in SUBSET Queries
    PROVE  [r EXCEPT !.status = s, !.callbacks = C] \in Sessions
BY Zenon DEF Sessions

\* What a step leaves alone of the other connections.
Elsewhere(c) ==
    \A d \in Conns \ {c} : con'[d] = con[d] /\ asked'[d] = asked[d] /\ sent'[d] = sent[d]

\* Their dialogue goes on as before.
LEMMA ElsewhereSame ==
    ASSUME NEW c \in Conns, Elsewhere(c), NEW d \in Conns \ {c}, Dialogue(d)
    PROVE  Dialogue(d)'
BY DEF Elsewhere, Dialogue, OneQuery, AnsweredSoFar, InOrder, Queried

\* One more answer.
LEMMA Answered ==
    ASSUME TypeOK, NEW c \in Conns, InOrder(c), sent'[c] = Append(sent[c], Len(sent[c]) + 1)
    PROVE  InOrder(c)' /\ Len(sent'[c]) = Len(sent[c]) + 1
<1>1. sent[c] \in Seq(Nat) /\ Len(sent[c]) \in Nat
  BY DEF TypeOK
<1>2. /\ Len(sent'[c]) = Len(sent[c]) + 1 /\ sent'[c][Len(sent[c]) + 1] = Len(sent[c]) + 1
      /\ \A i \in 1..Len(sent[c]) : sent'[c][i] = sent[c][i]
  BY <1>1, AppendProperties
<1> QED
  BY <1>1, <1>2 DEF InOrder

\* A command that the status allows finds no query under way and every earlier
\* command answered.
LEMMA TakesIdle ==
    ASSUME TypeOK, NEW c \in Conns, Dialogue(c),
           NEW s \in {"CHALLENGE", "LOGON_PROOF", "RECONNECT_PROOF", "AUTHED"}, Takes(c, s)
    PROVE  /\ Queried(c) = {} /\ asked[c] = Len(sent[c]) /\ asked[c] \in Nat
           /\ asked'[c] = asked[c] + 1
           /\ \A d \in Conns \ {c} : asked'[d] = asked[d]
           /\ asked' \in [Conns -> Nat]
BY DEF TypeOK, Takes, Dialogue, OneQuery, AnsweredSoFar

\* A command that asks the database.
LEMMA AskStep ==
    ASSUME TypeOK, NEW c \in Conns, Dialogue(c),
           NEW what \in {"logon", "reconnect", "realms"},
           NEW s \in {"CHALLENGE", "AUTHED"}, Takes(c, s),
           NEW t \in {"CLOSED", "WAITING_FOR_REALM_LIST"}, Ask(c, what, t), UNCHANGED sent
    PROVE  Dialogue(c)' /\ Elsewhere(c) /\ con' \in [Conns -> Sessions] /\ asked' \in [Conns -> Nat]
<1> DEFINE new == [what |-> what, nr |-> asked[c] + 1, result |-> "pending"]
<1>1. /\ Queried(c) = {} /\ asked[c] = Len(sent[c]) /\ asked'[c] = asked[c] + 1
      /\ asked' \in [Conns -> Nat] /\ asked[c] \in Nat
      /\ \A d \in Conns \ {c} : asked'[d] = asked[d]
  BY TakesIdle
<1>2. new \in Queries /\ new.what # "ip" /\ new.nr = asked[c] + 1
  BY <1>1 DEF Queries
<1>3. con' = [con EXCEPT ![c].status = t, ![c].callbacks = @ \cup {new}]
  BY DEF Ask
<1> HIDE DEF new
<1>4. con' \in [Conns -> Sessions]
  <2>1. con[c] \in Sessions /\ t \in Statuses
    BY DEF TypeOK, Statuses
  <2>2. con[c].callbacks \cup {new} \in SUBSET Queries
    BY <1>2, <2>1 DEF Sessions
  <2>3. con' = [con EXCEPT ![c] = [con[c] EXCEPT !.status = t, !.callbacks = con[c].callbacks \cup {new}]]
    BY <1>3, <2>1 DEF TypeOK, Sessions
  <2> QED
    BY <2>1, <2>2, <2>3, SessionType DEF TypeOK
<1>5. /\ con'[c].callbacks = con[c].callbacks \cup {new} /\ con'[c].status = t
      /\ \A d \in Conns \ {c} : con'[d] = con[d]
  BY <1>3 DEF TypeOK, Sessions
<1>6. Queried(c)' = {new}
  BY <1>1, <1>2, <1>5 DEF Queried
<1>7. OneQuery(c)'
  BY <1>1, <1>2, <1>5, <1>6 DEF OneQuery
<1>8. AnsweredSoFar(c)' /\ InOrder(c)'
  BY <1>1, <1>6 DEF AnsweredSoFar, InOrder, Dialogue, TypeOK
<1> QED
  BY <1>1, <1>4, <1>5, <1>7, <1>8 DEF Elsewhere, Dialogue

\* A command that is answered at once.
LEMMA AnswerStep ==
    ASSUME TypeOK, NEW c \in Conns, Dialogue(c),
           NEW s \in {"LOGON_PROOF", "RECONNECT_PROOF"}, Takes(c, s),
           Send(c, asked[c] + 1), con'[c].callbacks = con[c].callbacks,
           \A d \in Conns \ {c} : con'[d] = con[d]
    PROVE  Dialogue(c)' /\ Elsewhere(c) /\ asked' \in [Conns -> Nat] /\ sent' \in [Conns -> Seq(Nat)]
<1>1. /\ Queried(c) = {} /\ asked[c] = Len(sent[c]) /\ asked'[c] = asked[c] + 1
      /\ asked' \in [Conns -> Nat] /\ asked[c] \in Nat
      /\ \A d \in Conns \ {c} : asked'[d] = asked[d]
  BY TakesIdle
<1>2. /\ sent'[c] = Append(sent[c], Len(sent[c]) + 1) /\ sent' \in [Conns -> Seq(Nat)]
      /\ \A d \in Conns \ {c} : sent'[d] = sent[d]
  BY <1>1 DEF Send, TypeOK
<1>3. InOrder(c)' /\ Len(sent'[c]) = Len(sent[c]) + 1
  BY <1>2, Answered DEF Dialogue
<1>4. Queried(c)' = {}
  BY <1>1 DEF Queried
<1>5. OneQuery(c)' /\ AnsweredSoFar(c)'
  BY <1>1, <1>3, <1>4 DEF OneQuery, AnsweredSoFar
<1> QED
  BY <1>1, <1>2, <1>3, <1>5 DEF Elsewhere, Dialogue

\* A callback that answers.
LEMMA CallbackStep ==
    ASSUME TypeOK, NEW c \in Conns, Dialogue(c), NEW cb \in Queried(c),
           NEW t \in Statuses, ~con[c].closed,
           con' = [con EXCEPT ![c].callbacks = @ \ {cb}, ![c].status = t],
           Send(c, cb.nr), UNCHANGED asked
    PROVE  Dialogue(c)' /\ Elsewhere(c) /\ con' \in [Conns -> Sessions] /\ sent' \in [Conns -> Seq(Nat)]
<1>1. /\ cb.nr = asked[c] /\ asked[c] = Len(sent[c]) + 1 /\ asked[c] \in Nat /\ cb.nr \in Nat
      /\ \A cc \in Queried(c) : cc = cb
  BY DEF Dialogue, OneQuery, TypeOK
<1>2. con' \in [Conns -> Sessions]
  <2>1. con[c] \in Sessions
    BY DEF TypeOK
  <2>2. con[c].callbacks \ {cb} \in SUBSET Queries
    BY <2>1 DEF Sessions
  <2>3. con' = [con EXCEPT ![c] = [con[c] EXCEPT !.status = t, !.callbacks = con[c].callbacks \ {cb}]]
    BY <2>1 DEF TypeOK, Sessions
  <2>4. [con[c] EXCEPT !.status = t, !.callbacks = con[c].callbacks \ {cb}] \in Sessions
    BY <2>1, <2>2, SessionType
  <2> QED
    BY <2>3, <2>4, Zenon DEF TypeOK
<1>3. /\ con'[c].callbacks = con[c].callbacks \ {cb}
      /\ \A d \in Conns \ {c} : con'[d] = con[d]
  BY DEF TypeOK, Sessions
<1>4. /\ sent'[c] = Append(sent[c], Len(sent[c]) + 1) /\ sent' \in [Conns -> Seq(Nat)]
      /\ \A d \in Conns \ {c} : sent'[d] = sent[d]
  BY <1>1 DEF Send, TypeOK
<1>5. InOrder(c)' /\ Len(sent'[c]) = Len(sent[c]) + 1
  BY <1>4, Answered DEF Dialogue
<1>6. Queried(c)' = {}
  BY <1>1, <1>3 DEF Queried
<1>7. OneQuery(c)' /\ AnsweredSoFar(c)'
  BY <1>1, <1>5, <1>6 DEF OneQuery, AnsweredSoFar
<1> QED
  BY <1>2, <1>3, <1>4, <1>5, <1>7 DEF Elsewhere, Dialogue

\* Another session in the place of one.
LEMMA ConType ==
    ASSUME TypeOK, NEW c \in Conns, NEW r \in Sessions, con' = [con EXCEPT ![c] = r]
    PROVE  con' \in [Conns -> Sessions] /\ con'[c] = r /\ \A d \in Conns \ {c} : con'[d] = con[d]
<1>1. con \in [Conns -> Sessions]
  BY DEF TypeOK
<1> QED
  BY <1>1, Zenon

\* What becomes of a connection at a command.
LEMMA CommandStep ==
    ASSUME TypeOK, NEW c \in Conns, Dialogue(c), Command(c)
    PROVE  /\ Dialogue(c)' /\ Elsewhere(c) /\ con' \in [Conns -> Sessions]
           /\ asked' \in [Conns -> Nat] /\ sent' \in [Conns -> Seq(Nat)]
<1>0. con[c] \in Sessions /\ sent \in [Conns -> Seq(Nat)] /\ asked \in [Conns -> Nat] /\ proofs \in Nat
  BY DEF TypeOK
<1>1. CASE HandleLogonChallenge(c)
  BY <1>0, <1>1, AskStep DEF HandleLogonChallenge
<1>2. CASE HandleReconnectChallenge(c)
  BY <1>0, <1>2, AskStep DEF HandleReconnectChallenge
<1>3. CASE HandleRealmList(c)
  BY <1>0, <1>3, AskStep DEF HandleRealmList
<1>4. CASE ProofAccepted(c)
  <2> DEFINE r == [con[c] EXCEPT !.status = "AUTHED", !.sessionKey = proofs + 1]
  <2>1. r \in Sessions /\ r.callbacks = con[c].callbacks
    <3>1. proofs + 1 \in Nat /\ "AUTHED" \in Statuses
      BY <1>0 DEF Statuses
    <3> QED
      BY <1>0, <3>1, Zenon DEF Sessions
  <2>2. con' = [con EXCEPT ![c] = r]
    BY <1>0, <1>4 DEF ProofAccepted, TypeOK, Sessions
  <2> HIDE DEF r
  <2>3. con' \in [Conns -> Sessions] /\ con'[c] = r /\ \A d \in Conns \ {c} : con'[d] = con[d]
    BY <2>1, <2>2, ConType
  <2> QED
    BY <1>4, <2>1, <2>3, AnswerStep DEF ProofAccepted
<1>5. ASSUME NEW s \in {"LOGON_PROOF", "RECONNECT_PROOF"}, NEW t \in {"CLOSED", "AUTHED"},
             Takes(c, s), con' = [con EXCEPT ![c].status = t], Send(c, asked[c] + 1)
      PROVE  /\ Dialogue(c)' /\ Elsewhere(c) /\ con' \in [Conns -> Sessions]
             /\ asked' \in [Conns -> Nat] /\ sent' \in [Conns -> Seq(Nat)]
  <2> DEFINE r == [con[c] EXCEPT !.status = t]
  <2>1. r \in Sessions /\ r.callbacks = con[c].callbacks
    <3>1. t \in Statuses
      BY DEF Statuses
    <3> QED
      BY <1>0, <3>1, Zenon DEF Sessions
  <2>2. con' = [con EXCEPT ![c] = r]
    BY <1>5
  <2> HIDE DEF r
  <2>3. con' \in [Conns -> Sessions] /\ con'[c] = r /\ \A d \in Conns \ {c} : con'[d] = con[d]
    BY <2>1, <2>2, ConType
  <2> QED
    BY <1>5, <2>1, <2>3, AnswerStep
<1>6. CASE ProofRefused(c) \/ ReconnectAccepted(c)
  BY <1>5, <1>6 DEF ProofRefused, ReconnectAccepted
<1>7. ASSUME NEW r \in Sessions, r.callbacks = con[c].callbacks, r.closed,
             con' = [con EXCEPT ![c] = r], UNCHANGED sent, asked' \in [Conns -> Nat],
             asked'[c] >= asked[c], Queried(c) # {} => UNCHANGED asked /\ r.status = con[c].status,
             \A d \in Conns \ {c} : asked'[d] = asked[d]
      PROVE  Dialogue(c)' /\ Elsewhere(c) /\ con' \in [Conns -> Sessions]
  <2>1. con' \in [Conns -> Sessions] /\ con'[c] = r /\ \A d \in Conns \ {c} : con'[d] = con[d]
    BY <1>7, ConType
  <2>2. Queried(c)' = Queried(c)
    BY <1>7, <2>1 DEF Queried
  <2>3. OneQuery(c)' /\ InOrder(c)'
    BY <1>7, <2>1, <2>2 DEF Dialogue, OneQuery, InOrder
  <2>4. AnsweredSoFar(c)'
    <3>1. asked[c] \in Nat /\ asked'[c] \in Nat /\ Len(sent[c]) \in Nat
      BY <1>0, <1>7
    <3> QED
      BY <1>7, <2>1, <3>1 DEF Dialogue, AnsweredSoFar
  <2> QED
    BY <1>7, <2>1, <2>3, <2>4 DEF Dialogue, Elsewhere
<1>8. CASE ReconnectRefused(c)
  <2>1. Takes(c, "RECONNECT_PROOF")
    BY <1>8 DEF ReconnectRefused
  <2>2. CASE con' = [con EXCEPT ![c].status = "CLOSED"] /\ Send(c, asked[c] + 1)
    BY <1>5, <2>1, <2>2
  <2>3. CASE con' = [con EXCEPT ![c].status = "CLOSED", ![c].closed = TRUE] /\ UNCHANGED sent
    <3> DEFINE r == [con[c] EXCEPT !.status = "CLOSED", !.closed = TRUE]
    <3>1. r \in Sessions /\ r.callbacks = con[c].callbacks /\ r.closed
      <4>1. "CLOSED" \in Statuses /\ TRUE \in BOOLEAN
        BY DEF Statuses
      <4> QED
        BY <1>0, <4>1, Zenon DEF Sessions
    <3>2. con' = [con EXCEPT ![c] = r]
      BY <1>0, <2>3 DEF TypeOK, Sessions
    <3> HIDE DEF r
    <3>3. /\ Queried(c) = {} /\ asked' \in [Conns -> Nat] /\ asked'[c] >= asked[c]
          /\ \A d \in Conns \ {c} : asked'[d] = asked[d]
      BY <2>1, TakesIdle
    <3> QED
      BY <1>0, <1>7, <2>3, <3>1, <3>2, <3>3
  <2> QED
    BY <1>8, <2>2, <2>3 DEF ReconnectRefused
<1>9. CASE ReadCloses(c)
  <2> DEFINE r == [con[c] EXCEPT !.closed = TRUE]
  <2>1. r \in Sessions /\ r.callbacks = con[c].callbacks /\ r.closed /\ r.status = con[c].status
    <3>1. TRUE \in BOOLEAN
      OBVIOUS
    <3> QED
      BY <1>0, <3>1, Zenon DEF Sessions
  <2>2. con' = [con EXCEPT ![c] = r] /\ UNCHANGED <<asked, sent>>
    BY <1>9 DEF ReadCloses, CloseSocket
  <2> HIDE DEF r
  <2>3. /\ asked' \in [Conns -> Nat] /\ asked'[c] >= asked[c] /\ UNCHANGED <<asked, sent>>
        /\ \A d \in Conns \ {c} : asked'[d] = asked[d]
    BY <1>0, <2>2
  <2> QED
    BY <1>0, <1>7, <2>1, <2>2, <2>3
<1> QED
  BY <1>1, <1>2, <1>3, <1>4, <1>6, <1>8, <1>9 DEF Command

\* What becomes of a connection when the database or a callback has its turn.
LEMMA QueryStep ==
    ASSUME TypeOK, NEW c \in Conns, Dialogue(c), Callback(c)
    PROVE  /\ Dialogue(c)' /\ Elsewhere(c) /\ con' \in [Conns -> Sessions]
           /\ UNCHANGED <<asked, Others>> /\ sent' \in [Conns -> Seq(Nat)]
<1>0. con[c] \in Sessions /\ sent \in [Conns -> Seq(Nat)] /\ dbKey \in Nat
  BY DEF TypeOK
<1>1. PICK cb \in con[c].callbacks :
         \/ Executes(c, cb) \/ CheckIpCallback(c, cb) \/ LogonChallengeCallback(c, cb)
         \/ ReconnectChallengeCallback(c, cb) \/ RealmListCallback(c, cb)
  BY DEF Callback
<1>2. UNCHANGED <<asked, Others>>
  BY <1>1 DEF Executes, CheckIpCallback, LogonChallengeCallback, ReconnectChallengeCallback,
     RealmListCallback
<1>3. ASSUME NEW t \in Statuses, ~con[c].closed, cb.what # "ip", Send(c, cb.nr),
             con' = [con EXCEPT ![c].callbacks = @ \ {cb}, ![c].status = t]
      PROVE  /\ Dialogue(c)' /\ Elsewhere(c) /\ con' \in [Conns -> Sessions]
             /\ sent' \in [Conns -> Seq(Nat)]
  <2>1. cb \in Queried(c)
    BY <1>3 DEF Queried
  <2> QED
    BY <1>2, <1>3, <2>1, CallbackStep
<1>4. con[c].status \in Statuses /\ {"LOGON_PROOF", "RECONNECT_PROOF", "AUTHED"} \subseteq Statuses
  BY <1>0 DEF Sessions, Statuses
<1>5. CASE LogonChallengeCallback(c, cb)
  <2>1. PICK t \in {"LOGON_PROOF", con[c].status} :
            con' = [con EXCEPT ![c].callbacks = @ \ {cb}, ![c].status = t]
    BY <1>5 DEF LogonChallengeCallback
  <2> QED
    BY <1>3, <1>4, <1>5, <2>1 DEF LogonChallengeCallback, Ready
<1>6. CASE ReconnectChallengeCallback(c, cb)
  <2>1. PICK t \in {"RECONNECT_PROOF", con[c].status} :
            con' = [con EXCEPT ![c].callbacks = @ \ {cb}, ![c].status = t]
    BY <1>6 DEF ReconnectChallengeCallback
  <2> QED
    BY <1>3, <1>4, <1>6, <2>1 DEF ReconnectChallengeCallback, Ready
<1>7. CASE RealmListCallback(c, cb)
  BY <1>3, <1>4, <1>7 DEF RealmListCallback, Ready
<1>8. CASE CheckIpCallback(c, cb)
  <2>1. PICK r \in BOOLEAN : con' = [con EXCEPT ![c].callbacks = @ \ {cb}, ![c].reading = r]
    BY <1>8 DEF CheckIpCallback
  <2> DEFINE s == [con[c] EXCEPT !.callbacks = con[c].callbacks \ {cb}, !.reading = r]
  <2>2. /\ s \in Sessions /\ s.callbacks = con[c].callbacks \ {cb}
        /\ s.status = con[c].status /\ s.closed = con[c].closed
    <3>1. con[c].callbacks \ {cb} \in SUBSET Queries
      BY <1>0 DEF Sessions
    <3> QED
      BY <1>0, <3>1, Zenon DEF Sessions
  <2>3. con' = [con EXCEPT ![c] = s]
    BY <1>0, <2>1 DEF TypeOK, Sessions
  <2> HIDE DEF s
  <2>4. con' \in [Conns -> Sessions] /\ con'[c] = s /\ \A d \in Conns \ {c} : con'[d] = con[d]
    BY <2>2, <2>3, ConType
  <2>5. Queried(c)' = Queried(c) /\ UNCHANGED sent
    BY <1>8, <2>2, <2>4 DEF Queried, CheckIpCallback, Ready
  <2>6. Dialogue(c)'
    BY <1>2, <2>2, <2>4, <2>5 DEF Dialogue, OneQuery, AnsweredSoFar, InOrder
  <2> QED
    BY <1>0, <1>2, <2>4, <2>5, <2>6 DEF Elsewhere
<1>9. CASE Executes(c, cb)
  <2> DEFINE done == [cb EXCEPT !.result = "ready"]
             s == [con[c] EXCEPT !.callbacks = (con[c].callbacks \ {cb}) \cup {done},
                                 !.sessionKey = IF cb.what = "reconnect" THEN dbKey ELSE con[c].sessionKey]
  <2>1. cb \in Queries /\ done \in Queries /\ done.what = cb.what /\ done.nr = cb.nr
    BY <1>0 DEF Sessions, Queries
  <2>2. con' = [con EXCEPT ![c] = s]
    BY <1>0, <1>9 DEF TypeOK, Sessions, Executes
  <2> HIDE DEF done
  <2>3. /\ s \in Sessions /\ s.callbacks = (con[c].callbacks \ {cb}) \cup {done}
        /\ s.status = con[c].status /\ s.closed = con[c].closed
    <3>1. /\ (con[c].callbacks \ {cb}) \cup {done} \in SUBSET Queries
          /\ (IF cb.what = "reconnect" THEN dbKey ELSE con[c].sessionKey) \in Nat
      BY <1>0, <2>1 DEF Sessions
    <3> QED
      BY <1>0, <3>1, Zenon DEF Sessions
  <2> HIDE DEF s
  <2>4. con' \in [Conns -> Sessions] /\ con'[c] = s /\ \A d \in Conns \ {c} : con'[d] = con[d]
    BY <2>2, <2>3, ConType
  <2>5. UNCHANGED sent
    BY <1>9 DEF Executes
  <2>6. /\ cb.what = "ip" => Queried(c)' = Queried(c)
        /\ cb.what # "ip" => cb \in Queried(c) /\ Queried(c)' = (Queried(c) \ {cb}) \cup {done}
    BY <2>1, <2>3, <2>4 DEF Queried
  <2>7. Queried(c) = {} <=> Queried(c)' = {}
    BY <2>6
  <2>8. OneQuery(c)'
    BY <1>2, <2>1, <2>3, <2>4, <2>5, <2>6 DEF Dialogue, OneQuery
  <2>9. AnsweredSoFar(c)' /\ InOrder(c)'
    BY <1>2, <2>3, <2>4, <2>5, <2>7 DEF Dialogue, AnsweredSoFar, InOrder
  <2> QED
    BY <1>0, <1>2, <2>4, <2>5, <2>8, <2>9 DEF Elsewhere, Dialogue
<1> QED
  BY <1>1, <1>2, <1>5, <1>6, <1>7, <1>8, <1>9

\* The answers of worldserver.
Checks == [st : {"none", "asked", "accepted", "refused"}, key : Nat]

\* The row never goes back to an older key.
LEMMA KeyStep ==
    ASSUME TypeOK, RowIsNewest, Next
    PROVE  /\ RowIsNewest' /\ dbKey' \in Nat /\ proofs' \in Nat /\ key' \in [Machines -> Nat]
           /\ world' \in [Machines -> Checks] /\ began' \in [Conns -> Nat] /\ dbKey' >= dbKey
<1>0. /\ dbKey \in Nat /\ proofs \in Nat /\ key \in [Machines -> Nat]
      /\ world \in [Machines -> Checks] /\ began \in [Conns -> Nat]
  BY DEF TypeOK, Checks
<1>1. CASE UNCHANGED Others
  BY <1>0, <1>1 DEF RowIsNewest, Others
<1>2. ASSUME NEW c \in Conns, ProofAccepted(c)
      PROVE  /\ RowIsNewest' /\ dbKey' \in Nat /\ proofs' \in Nat /\ key' \in [Machines -> Nat]
             /\ UNCHANGED <<world, began>> /\ dbKey' >= dbKey
  <2>1. /\ proofs' = proofs + 1 /\ dbKey' \in {proofs + 1, dbKey} /\ UNCHANGED <<world, began>>
        /\ key' = [key EXCEPT ![Owner[c]] = proofs + 1]
    BY <1>2 DEF ProofAccepted
  <2>2. dbKey' \in Nat /\ proofs' \in Nat /\ key' \in [Machines -> Nat]
    <3>1. proofs + 1 \in Nat
      BY <1>0
    <3> QED
      BY <1>0, <2>1, <3>1, Zenon
  <2>3. dbKey' >= dbKey /\ dbKey' <= proofs'
    BY <1>0, <2>1 DEF RowIsNewest
  <2>4. ASSUME NEW m \in Machines, world[m].st = "accepted" PROVE world[m].key <= dbKey'
    <3>1. world[m].key \in Nat /\ world[m].key <= dbKey
      BY <1>0, <2>4 DEF RowIsNewest, Checks
    <3> QED
      BY <1>0, <2>2, <2>3, <3>1
  <2>5. ASSUME NEW d \in Conns PROVE began[d] <= dbKey'
    BY <1>0, <2>2, <2>3 DEF RowIsNewest
  <2> QED
    BY <2>1, <2>2, <2>3, <2>4, <2>5 DEF RowIsNewest
<1>3. ASSUME NEW m \in Machines, HandleAuthSession(m) \/ KeyChecked(m)
      PROVE  /\ RowIsNewest' /\ UNCHANGED <<dbKey, proofs, key, began>>
             /\ world' \in [Machines -> Checks]
  <2>1. UNCHANGED <<dbKey, proofs, key, began>>
    BY <1>3 DEF HandleAuthSession, KeyChecked
  <2>2. /\ world' \in [Machines -> Checks]
        /\ \A n \in Machines : world'[n].st = "accepted" => world'[n].key <= dbKey
    BY <1>0, <1>3 DEF HandleAuthSession, KeyChecked, RowIsNewest, Checks
  <2> QED
    BY <2>1, <2>2 DEF RowIsNewest
<1>4. ASSUME NEW c \in Conns, HandleReconnectChallenge(c)
      PROVE  RowIsNewest' /\ UNCHANGED <<dbKey, proofs, key, world>> /\ began' \in [Conns -> Nat]
  BY <1>0, <1>4 DEF RowIsNewest, HandleReconnectChallenge
<1>5. \/ UNCHANGED Others
      \/ \E c \in Conns : ProofAccepted(c) \/ HandleReconnectChallenge(c)
      \/ \E m \in Machines : HandleAuthSession(m) \/ KeyChecked(m)
  <2>1. CASE Idle
    BY <2>1 DEF Idle, vars, Others
  <2>2. ASSUME NEW c \in Conns, Command(c)
        PROVE  UNCHANGED Others \/ ProofAccepted(c) \/ HandleReconnectChallenge(c)
    BY <2>2 DEF Command, HandleLogonChallenge, ProofRefused, ReconnectAccepted,
       ReconnectRefused, HandleRealmList, ReadCloses
  <2>3. ASSUME NEW c \in Conns, Callback(c) PROVE UNCHANGED Others
    BY <2>3 DEF Callback, Executes, CheckIpCallback, LogonChallengeCallback,
       ReconnectChallengeCallback, RealmListCallback
  <2> QED
    BY <2>1, <2>2, <2>3 DEF Next, Server
<1> QED
  BY <1>0, <1>1, <1>2, <1>3, <1>4, <1>5

\* A command leaves a connection with nothing loaded, or with what it had.
LEMMA CommandLoaded ==
    ASSUME TypeOK, NEW c \in Conns, Dialogue(c), Command(c)
    PROVE  \/ ~Loaded(c)'
           \/ (Loaded(c)' => Loaded(c)) /\ con'[c].sessionKey = con[c].sessionKey /\ UNCHANGED began
<1>0. con \in [Conns -> Sessions] /\ con[c] \in Sessions
  BY DEF TypeOK
<1>1. ASSUME NEW s \in {"CHALLENGE", "LOGON_PROOF", "RECONNECT_PROOF", "AUTHED"}, Takes(c, s)
      PROVE  Queried(c) = {}
  BY <1>1, TakesIdle
<1>2. ASSUME NEW what \in {"logon", "reconnect", "realms"}, NEW t \in {"CLOSED", "WAITING_FOR_REALM_LIST"},
             Ask(c, what, t), Queried(c) = {}
      PROVE  ~Loaded(c)'
  <2> DEFINE new == [what |-> what, nr |-> asked[c] + 1, result |-> "pending"]
  <2>1. con'[c].status = t /\ con'[c].callbacks = con[c].callbacks \cup {new}
    BY <1>0, <1>2 DEF Ask, Sessions
  <2>2. Queried(c)' \subseteq {new} /\ new.result # "ready"
    BY <1>2, <2>1 DEF Queried
  <2> QED
    BY <2>1, <2>2 DEF Loaded
<1>3. CASE HandleLogonChallenge(c) \/ HandleReconnectChallenge(c) \/ HandleRealmList(c)
  BY <1>1, <1>2, <1>3 DEF HandleLogonChallenge, HandleReconnectChallenge, HandleRealmList
<1>4. ASSUME con'[c].callbacks = con[c].callbacks, con'[c].status # "RECONNECT_PROOF", Queried(c) = {}
      PROVE  ~Loaded(c)'
  BY <1>4 DEF Loaded, Queried
<1>5. CASE ProofAccepted(c) \/ ProofRefused(c) \/ ReconnectAccepted(c) \/ ReconnectRefused(c)
  <2>1. Queried(c) = {}
    BY <1>1, <1>5 DEF ProofAccepted, ProofRefused, ReconnectAccepted, ReconnectRefused
  <2>2. con'[c].callbacks = con[c].callbacks /\ con'[c].status \in {"AUTHED", "CLOSED"}
    BY <1>0, <1>5 DEF Sessions, ProofAccepted, ProofRefused, ReconnectAccepted, ReconnectRefused
  <2> QED
    BY <1>4, <2>1, <2>2
<1>6. CASE ReadCloses(c)
  <2>1. /\ con'[c].callbacks = con[c].callbacks /\ con'[c].status = con[c].status
        /\ con'[c].sessionKey = con[c].sessionKey /\ UNCHANGED began
    BY <1>0, <1>6 DEF Sessions, ReadCloses, CloseSocket, Others
  <2> QED
    BY <2>1 DEF Loaded, Queried
<1> QED
  BY <1>3, <1>5, <1>6 DEF Command

\* A query that reads the key reads the one that is there.
LEMMA QueryLoaded ==
    ASSUME TypeOK, NEW c \in Conns, Dialogue(c), Callback(c)
    PROVE  \/ con'[c].sessionKey = dbKey
           \/ (Loaded(c)' => Loaded(c)) /\ con'[c].sessionKey = con[c].sessionKey
<1>0. con \in [Conns -> Sessions] /\ con[c] \in Sessions
  BY DEF TypeOK
<1>1. PICK cb \in con[c].callbacks :
         \/ Executes(c, cb) \/ CheckIpCallback(c, cb) \/ LogonChallengeCallback(c, cb)
         \/ ReconnectChallengeCallback(c, cb) \/ RealmListCallback(c, cb)
  BY DEF Callback
<1>2. CASE Executes(c, cb)
  <2> DEFINE done == [cb EXCEPT !.result = "ready"]
  <2>1. cb \in Queries /\ done \in Queries /\ done.what = cb.what
    BY <1>0 DEF Sessions, Queries
  <2>2. /\ con'[c].callbacks = (con[c].callbacks \ {cb}) \cup {done}
        /\ con'[c].status = con[c].status
        /\ con'[c].sessionKey = IF cb.what = "reconnect" THEN dbKey ELSE con[c].sessionKey
    BY <1>0, <1>2 DEF Sessions, Executes
  <2> HIDE DEF done
  <2>3. CASE cb.what = "reconnect"
    BY <2>2, <2>3
  <2>4. CASE cb.what # "reconnect"
    <3>1. \A cc \in Queried(c)' : cc \in Queried(c) \/ cc.what # "reconnect"
      BY <2>1, <2>2, <2>4 DEF Queried
    <3> QED
      BY <2>2, <2>4, <3>1 DEF Loaded
  <2> QED
    BY <2>3, <2>4
<1>3. ASSUME con'[c].callbacks = con[c].callbacks \ {cb}, con'[c].sessionKey = con[c].sessionKey,
             con'[c].status \in {con[c].status, "LOGON_PROOF", "AUTHED"} \/ Loaded(c)
      PROVE  (Loaded(c)' => Loaded(c)) /\ con'[c].sessionKey = con[c].sessionKey
  BY <1>3 DEF Loaded, Queried
<1>4. CASE CheckIpCallback(c, cb) \/ LogonChallengeCallback(c, cb) \/ RealmListCallback(c, cb)
  <2>1. /\ con'[c].callbacks = con[c].callbacks \ {cb} /\ con'[c].sessionKey = con[c].sessionKey
        /\ con'[c].status \in {con[c].status, "LOGON_PROOF", "AUTHED"}
    BY <1>0, <1>4 DEF Sessions, CheckIpCallback, LogonChallengeCallback, RealmListCallback
  <2> QED
    BY <1>3, <2>1
<1>5. CASE ReconnectChallengeCallback(c, cb)
  <2>1. con'[c].callbacks = con[c].callbacks \ {cb} /\ con'[c].sessionKey = con[c].sessionKey
    BY <1>0, <1>5 DEF Sessions, ReconnectChallengeCallback
  <2>2. Loaded(c)
    BY <1>5 DEF ReconnectChallengeCallback, Ready, Loaded, Queried
  <2> QED
    BY <1>3, <2>1, <2>2
<1> QED
  BY <1>1, <1>2, <1>4, <1>5

\* What a reconnect has loaded was in the row since its challenge came.
LEMMA LoadedStep ==
    ASSUME TypeOK, RowIsNewest, \A c \in Conns : Dialogue(c) /\ LoadedSince(c), Next
    PROVE  \A c \in Conns : LoadedSince(c)'
<1> SUFFICES ASSUME NEW c \in Conns, Loaded(c)'
             PROVE  began'[c] <= con'[c].sessionKey /\ con'[c].sessionKey <= dbKey'
  BY DEF LoadedSince
<1>1. dbKey \in Nat /\ dbKey' \in Nat /\ dbKey' >= dbKey
  BY KeyStep DEF TypeOK
<1>2. con[c].sessionKey \in Nat /\ began[c] \in Nat /\ began[c] <= dbKey
  BY DEF TypeOK, Sessions, RowIsNewest
<1>3. ASSUME Loaded(c), con'[c].sessionKey = con[c].sessionKey, began'[c] = began[c]
      PROVE  began'[c] <= con'[c].sessionKey /\ con'[c].sessionKey <= dbKey'
  <2>1. began[c] <= con[c].sessionKey /\ con[c].sessionKey <= dbKey
    BY <1>3 DEF LoadedSince
  <2> QED
    BY <1>1, <1>2, <1>3, <2>1
<1>4. CASE Command(c)
  BY <1>3, <1>4, CommandLoaded
<1>5. CASE Callback(c)
  <2>1. UNCHANGED began
    BY <1>5, QueryStep DEF Others
  <2>2. CASE con'[c].sessionKey = dbKey
    BY <1>1, <1>2, <2>1, <2>2
  <2> QED
    BY <1>3, <1>5, <2>1, <2>2, QueryLoaded
<1>6. ASSUME NEW d \in Conns \ {c}, Command(d) \/ Callback(d)
      PROVE  con'[c] = con[c] /\ began'[c] = began[c]
  <2>1. con'[c] = con[c]
    BY <1>6, CommandStep, QueryStep DEF Elsewhere
  <2>2. CASE Callback(d)
    BY <2>1, <2>2, QueryStep DEF Others
  <2>3. CASE Command(d)
    <3>1. began' = began \/ began' = [began EXCEPT ![d] = dbKey]
      BY <2>3 DEF Command, HandleLogonChallenge, ProofAccepted, ProofRefused, HandleReconnectChallenge,
         ReconnectAccepted, ReconnectRefused, HandleRealmList, ReadCloses, Others
    <3> QED
      BY <2>1, <3>1 DEF TypeOK
  <2> QED
    BY <1>6, <2>2, <2>3
<1>7. CASE con'[c] = con[c] /\ began'[c] = began[c]
  <2>1. Loaded(c)
    BY <1>7 DEF Loaded, Queried
  <2> QED
    BY <1>3, <1>7, <2>1
<1>8. CASE Idle \/ \E m \in Machines : Server(m)
  BY <1>7, <1>8 DEF Idle, vars, Server, HandleAuthSession, KeyChecked
<1> QED
  BY <1>4, <1>5, <1>6, <1>7, <1>8 DEF Next

\* Every step preserves the inductive invariant.
LEMMA NextAuthInv == AuthInv /\ [Next]_vars => AuthInv'
<1> SUFFICES ASSUME AuthInv, [Next]_vars PROVE AuthInv'
  OBVIOUS
<1>0. TypeOK /\ RowIsNewest /\ \A c \in Conns : Dialogue(c) /\ LoadedSince(c)
  BY DEF AuthInv
<1>1. ASSUME UNCHANGED <<con, asked, sent>>
      PROVE  /\ \A c \in Conns : Dialogue(c)'
             /\ con' \in [Conns -> Sessions] /\ asked' \in [Conns -> Nat] /\ sent' \in [Conns -> Seq(Nat)]
  BY <1>0, <1>1 DEF TypeOK, Dialogue, OneQuery, AnsweredSoFar, InOrder, Queried
<1>2. ASSUME NEW c \in Conns, Command(c) \/ Callback(c)
      PROVE  /\ \A d \in Conns : Dialogue(d)'
             /\ con' \in [Conns -> Sessions] /\ asked' \in [Conns -> Nat] /\ sent' \in [Conns -> Seq(Nat)]
  <2>1. /\ Dialogue(c)' /\ Elsewhere(c)
        /\ con' \in [Conns -> Sessions] /\ asked' \in [Conns -> Nat] /\ sent' \in [Conns -> Seq(Nat)]
    <3>1. CASE Command(c)
      BY <1>0, <3>1, CommandStep
    <3>2. CASE Callback(c)
      <4>1. UNCHANGED asked /\ asked \in [Conns -> Nat]
        BY <1>0, <3>2, QueryStep DEF TypeOK
      <4> QED
        BY <1>0, <3>2, <4>1, QueryStep
    <3> QED
      BY <1>2, <3>1, <3>2
  <2> QED
    BY <1>0, <2>1, ElsewhereSame
<1>3. CASE UNCHANGED vars
  <2>1. UNCHANGED <<con, asked, sent>> /\ UNCHANGED Others
    BY <1>3 DEF vars, Others
  <2>2. RowIsNewest'
    BY <1>0, <2>1 DEF RowIsNewest, Others
  <2>3. \A c \in Conns : LoadedSince(c)'
    BY <1>0, <2>1 DEF LoadedSince, Loaded, Queried, Others
  <2> QED
    BY <1>0, <1>1, <2>1, <2>2, <2>3 DEF AuthInv, TypeOK, Others
<1>4. CASE Next
  <2>1. \/ UNCHANGED <<con, asked, sent>>
        \/ \E c \in Conns : Command(c) \/ Callback(c)
    BY <1>4 DEF Next, Idle, vars, Server, HandleAuthSession, KeyChecked
  <2>2. /\ \A c \in Conns : Dialogue(c)'
        /\ con' \in [Conns -> Sessions] /\ asked' \in [Conns -> Nat] /\ sent' \in [Conns -> Seq(Nat)]
    BY <1>1, <1>2, <2>1
  <2>3. /\ RowIsNewest' /\ dbKey' \in Nat /\ proofs' \in Nat /\ key' \in [Machines -> Nat]
        /\ world' \in [Machines -> Checks] /\ began' \in [Conns -> Nat]
    BY <1>0, <1>4, KeyStep
  <2>4. \A c \in Conns : LoadedSince(c)'
    BY <1>0, <1>4, LoadedStep
  <2> QED
    BY <2>2, <2>3, <2>4 DEF AuthInv, TypeOK, Checks
<1> QED
  BY <1>3, <1>4

-----------------------------------------------------------------------------
\* The inductive invariant holds in every reachable state.
THEOREM AuthInvariance == Spec => []AuthInv
BY InitAuthInv, NextAuthInv, PTL DEF Spec

\* However the results of queries are delayed, a client is answered command by
\* command.
THEOREM AnsweredInOrder == Spec => []AnswersInOrder
<1>1. AuthInv => AnswersInOrder
  <2> SUFFICES ASSUME AuthInv, NEW c \in Conns
               PROVE  sent[c] = [i \in 1..Len(sent[c]) |-> i] /\ Len(sent[c]) <= asked[c]
    BY DEF AnswersInOrder
  <2>1. /\ sent[c] \in Seq(Nat) /\ Len(sent[c]) <= asked[c]
        /\ \A i \in 1..Len(sent[c]) : sent[c][i] = i
    BY DEF AuthInv, TypeOK, Dialogue, AnsweredSoFar, InOrder
  <2>2. sent[c] \in [1..Len(sent[c]) -> Nat]
    BY <2>1, LenProperties
  <2> QED
    BY <2>1, <2>2
<1> QED
  BY <1>1, AuthInvariance, PTL

\* A reconnect is accepted only with a key that was the account's at some time
\* since its challenge came, although stores of new keys may fail.
THEOREM ReconnectIsCurrent == Spec => NoStaleReconnect
<1>1. AuthInv /\ [Next]_vars =>
        [\A c \in Conns : con[c].status = "RECONNECT_PROOF" /\ con'[c].status = "AUTHED"
                             => key[Owner[c]] \in began[c]..dbKey]_vars
  <2> SUFFICES ASSUME AuthInv, Next, NEW c \in Conns,
                      con[c].status = "RECONNECT_PROOF", con'[c].status = "AUTHED"
               PROVE  key[Owner[c]] \in began[c]..dbKey
    OBVIOUS
  <2>0. TypeOK /\ \A d \in Conns : Dialogue(d)
    BY DEF AuthInv
  <2>1. con[c].sessionKey \in began[c]..dbKey
    BY DEF AuthInv, LoadedSince, Loaded, TypeOK, Sessions
  <2>2. CASE ReconnectAccepted(c)
    BY <2>1, <2>2 DEF ReconnectAccepted
  <2>3. CASE Command(c) /\ ~ReconnectAccepted(c)
    <3>1. con[c] \in Sessions /\ con \in [Conns -> Sessions]
      BY <2>0 DEF TypeOK
    <3>2. ReconnectRefused(c) \/ ReadCloses(c)
      BY <2>3 DEF Command, HandleLogonChallenge, ProofAccepted, ProofRefused,
         HandleReconnectChallenge, HandleRealmList, Takes
    <3> QED
      BY <3>1, <3>2 DEF Sessions, ReconnectRefused, ReadCloses, CloseSocket
  <2>4. CASE Callback(c)
    <3>1. PICK cb \in con[c].callbacks :
             \/ Executes(c, cb) \/ CheckIpCallback(c, cb) \/ LogonChallengeCallback(c, cb)
             \/ ReconnectChallengeCallback(c, cb) \/ RealmListCallback(c, cb)
      BY <2>4 DEF Callback
    <3>2. con[c] \in Sessions /\ con \in [Conns -> Sessions]
      BY <2>0 DEF TypeOK
    <3>3. RealmListCallback(c, cb)
      BY <3>1, <3>2 DEF Sessions, Executes, CheckIpCallback, LogonChallengeCallback,
         ReconnectChallengeCallback
    <3>4. cb \in Queried(c)
      BY <3>3 DEF RealmListCallback, Ready, Queried
    <3> QED
      BY <2>0, <3>4 DEF Dialogue, OneQuery
  <2>5. ASSUME NEW d \in Conns \ {c}, Command(d) \/ Callback(d) PROVE con'[c] = con[c]
    BY <2>0, <2>5, CommandStep, QueryStep DEF Elsewhere
  <2>6. CASE Idle \/ \E m \in Machines : Server(m)
    BY <2>6 DEF Idle, vars, Server, HandleAuthSession, KeyChecked
  <2> QED
    BY <2>2, <2>3, <2>4, <2>5, <2>6 DEF Next
<1> QED
  BY <1>1, AuthInvariance, PTL DEF Spec, NoStaleReconnect

\* A key older than one that worldserver has accepted is refused.
THEOREM NewerKeyWins == Spec => OldKeyStaysOut
<1>1. AuthInv /\ [Next]_vars =>
        [\A m, n \in Machines :
            world[m].st = "asked" /\ world'[m].st = "accepted" /\ world[n].st = "accepted"
              => world[m].key >= world[n].key]_vars
  <2> SUFFICES ASSUME AuthInv, Next, NEW m \in Machines, NEW n \in Machines,
                      world[m].st = "asked", world'[m].st = "accepted", world[n].st = "accepted"
               PROVE  world[m].key >= world[n].key
    OBVIOUS
  <2>1. /\ world \in [Machines -> Checks] /\ dbKey \in Nat /\ world[m].key \in Nat
        /\ world[n].key \in Nat /\ world[n].key <= dbKey
    BY DEF AuthInv, TypeOK, RowIsNewest, Checks
  <2>2. KeyChecked(m)
    <3>1. world' # world
      OBVIOUS
    <3>2. \E l \in Machines : HandleAuthSession(l) \/ KeyChecked(l)
      <4>1. ASSUME NEW c \in Conns, Command(c) PROVE FALSE
        BY <3>1, <4>1 DEF Command, HandleLogonChallenge, ProofAccepted, ProofRefused,
           HandleReconnectChallenge, ReconnectAccepted, ReconnectRefused, HandleRealmList,
           ReadCloses, Others
      <4>2. ASSUME NEW c \in Conns, Callback(c) PROVE FALSE
        BY <3>1, <4>2 DEF Callback, Executes, CheckIpCallback, LogonChallengeCallback,
           ReconnectChallengeCallback, RealmListCallback, Others
      <4> QED
        BY <3>1, <4>1, <4>2 DEF Next, Server, Idle, vars
    <3> QED
      BY <2>1, <3>2 DEF HandleAuthSession, KeyChecked, Checks
  <2>3. world[m].key = dbKey
    BY <2>1, <2>2 DEF KeyChecked, Checks
  <2> QED
    BY <2>1, <2>3
<1> QED
  BY <1>1, AuthInvariance, PTL DEF Spec, OldKeyStaysOut
=============================================================================
