---------------------------- MODULE AuthSession ----------------------------
(***************************************************************************)
(* Logging on: the connections of authserver and the check of worldserver. *)
(*   server/apps/authserver/Server/AuthSession.cpp   challenge, proof,     *)
(*                                    reconnect and realm list             *)
(*   server/game/Server/WorldSocket.cpp   the check of the session key     *)
(*                                                                         *)
(* All connections are of one account, made from several machines.  What   *)
(* couples them is the session key: a logon proof stores a new one in the  *)
(* database, a reconnect is checked against the one that was there when    *)
(* its challenge came, and worldserver lets a client in whose key is the   *)
(* one it finds there.  Queries are asynchronous: the database executes    *)
(* them at any time, on any of its workers, and Update runs the callbacks. *)
(*                                                                         *)
(* A key is the number of the proof that made it; the arithmetic of SRP6   *)
(* and the digests are taken to work, so a client proves what it knows.    *)
(* What makes the server refuse (bans, locks, versions, tokens, wrong      *)
(* passwords) is left open, and packets are written as Socket shows.       *)
(***************************************************************************)
EXTENDS Naturals, SequencesExt

CONSTANTS Machines,
          Conns,         \* the connections to authserver
          Owner,         \* the machine of each connection
          MaxCommands    \* bound on the commands of each connection

ASSUME ConnsAssumption == Owner \in [Conns -> Machines] /\ MaxCommands \in [Conns -> Nat]

VARIABLES con,     \* the fields of each AuthSession
          asked,   \* per connection the number of commands its handlers took
          sent,    \* per connection the commands answered, in order
          dbKey,   \* account.session_key in the login database, 0: none
          key,     \* the key of each machine's last logon, 0: none
          world,   \* the last check of worldserver for each machine
          proofs,  \* the number of logon proofs accepted: each makes a new key
          began    \* history: the key in the database when the last reconnect
                   \* challenge of each connection came

vars == <<con, asked, sent, dbKey, key, world, proofs, began>>
Others == <<dbKey, key, world, proofs, began>>

Start(c) ==
    [status |-> "CHALLENGE", reading |-> FALSE, closed |-> FALSE, sessionKey |-> 0,
     callbacks |-> {[what |-> "ip", nr |-> 0, result |-> "pending"]}]

Init ==
    /\ con = [c \in Conns |-> Start(c)]
    /\ asked = [c \in Conns |-> 0] /\ sent = [c \in Conns |-> <<>>]
    /\ dbKey = 0 /\ key = [m \in Machines |-> 0]
    /\ world = [m \in Machines |-> [st |-> "none", key |-> 0]]
    /\ proofs = 0 /\ began = [c \in Conns |-> 0]

CloseSocket(c) == con' = [con EXCEPT ![c].closed = TRUE]

\* SendPacket with the answer to command nr.
Send(c, nr) == sent' = [sent EXCEPT ![c] = Append(@, nr)]

\* AsyncQuery and AddCallback, the status set by the handler.
Ask(c, what, status) ==
    con' = [con EXCEPT ![c].status = status,
                       ![c].callbacks = @ \cup {[what |-> what, nr |-> asked[c] + 1,
                                                 result |-> "pending"]}]

-----------------------------------------------------------------------------
(* Commands of the client: ReadHandler. *)

\* ReadHandler has a command in its buffer that the status allows.
Takes(c, status) ==
    /\ con[c].reading /\ ~con[c].closed
    /\ con[c].status = status
    /\ asked[c] < MaxCommands[c]
    /\ asked' = [asked EXCEPT ![c] = @ + 1]

HandleLogonChallenge(c) ==
    /\ Takes(c, "CHALLENGE")
    /\ Ask(c, "logon", "CLOSED")
    /\ UNCHANGED <<sent, Others>>

\* HandleLogonProof: the key is stored with DirectExecute, whose result nobody
\* looks at, and the client is told whether or not the row has changed.
ProofAccepted(c) ==
    /\ Takes(c, "LOGON_PROOF")
    /\ proofs' = proofs + 1 /\ dbKey' \in {proofs + 1, dbKey}
    /\ con' = [con EXCEPT ![c].status = "AUTHED", ![c].sessionKey = proofs + 1]
    /\ key' = [key EXCEPT ![Owner[c]] = proofs + 1]
    /\ Send(c, asked[c] + 1)
    /\ UNCHANGED <<world, began>>

\* HandleLogonProof: the password, the token or the version is wrong.
ProofRefused(c) ==
    /\ Takes(c, "LOGON_PROOF")
    /\ con' = [con EXCEPT ![c].status = "CLOSED"]
    /\ Send(c, asked[c] + 1)
    /\ UNCHANGED Others

\* Only a client with a key tries to reconnect.
HandleReconnectChallenge(c) ==
    /\ key[Owner[c]] # 0
    /\ Takes(c, "CHALLENGE")
    /\ Ask(c, "reconnect", "CLOSED")
    /\ began' = [began EXCEPT ![c] = dbKey]
    /\ UNCHANGED <<sent, dbKey, key, world, proofs>>

\* Mutant of ReconnectAccepted: whatever key the client has.
ReconnectAnyKey(c) ==
    /\ Takes(c, "RECONNECT_PROOF")
    /\ con' = [con EXCEPT ![c].status = "AUTHED"]
    /\ Send(c, asked[c] + 1)
    /\ UNCHANGED Others

\* HandleReconnectProof: the client's key against the one loaded earlier.
ReconnectAccepted(c) ==
    /\ Takes(c, "RECONNECT_PROOF")
    /\ con[c].sessionKey = key[Owner[c]]
    /\ con' = [con EXCEPT ![c].status = "AUTHED"]
    /\ Send(c, asked[c] + 1)
    /\ UNCHANGED Others

\* The version is refused with an answer, a wrong key by closing.
ReconnectRefused(c) ==
    /\ Takes(c, "RECONNECT_PROOF")
    /\ \/ /\ con[c].sessionKey = key[Owner[c]]
          /\ con' = [con EXCEPT ![c].status = "CLOSED"]
          /\ Send(c, asked[c] + 1)
       \/ /\ con[c].sessionKey # key[Owner[c]]
          /\ con' = [con EXCEPT ![c].status = "CLOSED", ![c].closed = TRUE]
          /\ UNCHANGED sent
    /\ UNCHANGED Others

\* Mutant of HandleRealmList: the status stays AUTHED.
RealmListInAuthed(c) ==
    /\ Takes(c, "AUTHED")
    /\ Ask(c, "realms", "AUTHED")
    /\ UNCHANGED <<sent, Others>>

HandleRealmList(c) ==
    /\ Takes(c, "AUTHED")
    /\ Ask(c, "realms", "WAITING_FOR_REALM_LIST")
    /\ UNCHANGED <<sent, Others>>

\* A command that the status does not allow, a malformed one, an invalid version
\* in a proof, or a read that fails: the socket is closed.  Unknown commands are
\* skipped.
ReadCloses(c) ==
    /\ con[c].reading /\ ~con[c].closed
    /\ CloseSocket(c)
    /\ UNCHANGED <<asked, sent, Others>>

-----------------------------------------------------------------------------
(* The database and the callbacks. *)

\* A worker executes the query: a reconnect reads the key that is there now.
Executes(c, cb) ==
    /\ cb \in con[c].callbacks /\ cb.result = "pending"
    /\ con' = [con EXCEPT
                 ![c].callbacks = (@ \ {cb}) \cup {[cb EXCEPT !.result = "ready"]},
                 ![c].sessionKey = IF cb.what = "reconnect" THEN dbKey ELSE @]
    /\ UNCHANGED <<asked, sent, Others>>

\* Update of an open socket finds the result ready.
Ready(c, cb, what) ==
    /\ ~con[c].closed
    /\ cb \in con[c].callbacks /\ cb.what = what /\ cb.result = "ready"

\* CheckIpCallback: an address that is not banned is read from; a banned one is
\* told, and its connection neither read from nor closed.
CheckIpCallback(c, cb) ==
    /\ Ready(c, cb, "ip")
    /\ con' \in {[con EXCEPT ![c].callbacks = @ \ {cb}, ![c].reading = r] : r \in BOOLEAN}
    /\ UNCHANGED <<asked, sent, Others>>

\* Mutant of LogonChallengeCallback: an early return without an answer.
ChallengeUnanswered(c, cb) ==
    /\ Ready(c, cb, "logon")
    /\ \/ /\ con' = [con EXCEPT ![c].callbacks = @ \ {cb}, ![c].status = "LOGON_PROOF"]
          /\ Send(c, cb.nr)
       \/ con' = [con EXCEPT ![c].callbacks = @ \ {cb}] /\ UNCHANGED sent
    /\ UNCHANGED <<asked, Others>>

\* LogonChallengeCallback: the client may go on, or the account is unknown,
\* locked, banned or of a wrong version.  Both are answered.
LogonChallengeCallback(c, cb) ==
    /\ Ready(c, cb, "logon")
    /\ con' \in {[con EXCEPT ![c].callbacks = @ \ {cb}, ![c].status = s] :
                    s \in {"LOGON_PROOF", con[c].status}}
    /\ Send(c, cb.nr)
    /\ UNCHANGED <<asked, Others>>

ReconnectChallengeCallback(c, cb) ==
    /\ Ready(c, cb, "reconnect")
    /\ con' \in {[con EXCEPT ![c].callbacks = @ \ {cb}, ![c].status = s] :
                    s \in {"RECONNECT_PROOF", con[c].status}}
    /\ Send(c, cb.nr)
    /\ UNCHANGED <<asked, Others>>

RealmListCallback(c, cb) ==
    /\ Ready(c, cb, "realms")
    /\ con' = [con EXCEPT ![c].callbacks = @ \ {cb}, ![c].status = "AUTHED"]
    /\ Send(c, cb.nr)
    /\ UNCHANGED <<asked, Others>>

-----------------------------------------------------------------------------
(* worldserver: WorldSocket::HandleAuthSession and its callback. *)

\* A client that authserver has let in moves on, with the key it has now; one
\* that was refused may try again.
HandleAuthSession(m) ==
    /\ world[m].st \in {"none", "refused"}
    /\ \E c \in Conns : Owner[c] = m /\ con[c].status = "AUTHED"
    /\ world' = [world EXCEPT ![m] = [st |-> "asked", key |-> key[m]]]
    /\ UNCHANGED <<con, asked, sent, dbKey, key, proofs, began>>

\* Mutant of KeyChecked: the digest is not compared.
KeyNotChecked(m) ==
    /\ world[m].st = "asked"
    /\ world' = [world EXCEPT ![m].st = "accepted"]
    /\ UNCHANGED <<con, asked, sent, dbKey, key, proofs, began>>

\* HandleAuthSessionCallback: the digest that came with the request was made
\* with the key that the query finds, or was not.  Its other checks are in
\* WorldSocket.
KeyChecked(m) ==
    /\ world[m].st = "asked"
    /\ world' = [world EXCEPT ![m].st = IF dbKey = world[m].key THEN "accepted" ELSE "refused"]
    /\ UNCHANGED <<con, asked, sent, dbKey, key, proofs, began>>

-----------------------------------------------------------------------------
Command(c) ==
    \/ HandleLogonChallenge(c) \/ ProofAccepted(c) \/ ProofRefused(c)
    \/ HandleReconnectChallenge(c) \/ ReconnectAccepted(c) \/ ReconnectRefused(c)
    \/ HandleRealmList(c) \/ ReadCloses(c)

Callback(c) ==
    \E cb \in con[c].callbacks :
        \/ Executes(c, cb) \/ CheckIpCallback(c, cb) \/ LogonChallengeCallback(c, cb)
        \/ ReconnectChallengeCallback(c, cb) \/ RealmListCallback(c, cb)

Server(m) == HandleAuthSession(m) \/ KeyChecked(m)

Idle == UNCHANGED vars

Next == Idle \/ (\E c \in Conns : Command(c) \/ Callback(c)) \/ (\E m \in Machines : Server(m))

\* The database answers, and Update runs what is ready.
Fairness == \A c \in Conns : WF_vars(Callback(c))

Spec == Init /\ [][Next]_vars /\ Fairness

-----------------------------------------------------------------------------
(* Properties. *)

\* The answers a client receives are to its commands one after the other: none
\* is answered twice and no answer overtakes another, although results come in
\* any order.
AnswersInOrder ==
    \A c \in Conns : /\ sent[c] = [i \in 1..Len(sent[c]) |-> i]
                     /\ Len(sent[c]) <= asked[c]

\* Every command that a handler took is answered, or the connection closed.
AnsweredOrClosed ==
    \A c \in Conns : \A n \in 1..MaxCommands[c] :
        asked[c] >= n ~> Contains(sent[c], n) \/ con[c].closed

\* A reconnect lets a client in only with a key that has been the account's at
\* some time since its challenge came: the key is read by a query at any time in
\* between and compared with the client's later, while other machines log on.
NoStaleReconnect ==
    [][\A c \in Conns : con[c].status = "RECONNECT_PROOF" /\ con'[c].status = "AUTHED"
                           => key[Owner[c]] \in began[c]..dbKey]_vars

\* When worldserver has let a machine in with a key, no older key of the account
\* is good enough for another, although clients keep their keys and authserver
\* lets them in with a key it has read earlier.
OldKeyStaysOut ==
    [][\A m, n \in Machines :
          world[m].st = "asked" /\ world'[m].st = "accepted" /\ world[n].st = "accepted"
            => world[m].key >= world[n].key]_vars
=============================================================================
