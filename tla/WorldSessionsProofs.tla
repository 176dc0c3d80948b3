------------------------ MODULE WorldSessionsProofs ------------------------
(***************************************************************************)
(* Safety of WorldSessions for any number of accounts, sessions,           *)
(* characters and delays, and for any limit.                               *)
(*                                                                         *)
(* The two maps, the queue of new sessions and the states of the session   *)
(* objects change at different lines; that they agree (Places) is what     *)
(* the rest is built on.  Characters: a session may wait for any number of *)
(* them, but once the online session of an account waits for one or has    *)
(* one, the account's offline session is bound to end with this update,    *)
(* and plays another one (Apart).  The last update: whoever was there when *)
(* KickAll ran has lost the socket, and whoever comes later does not learn *)
(* its characters in time to log in (LastUpdate).  The login queue: it is  *)
(* empty on a realm without limit, and its clients know their places       *)
(* (Waiting); who is muted waits in it or for the account data             *)
(* (MutedWaits).                                                           *)
(*                                                                         *)
(* A session leaves or enters _sessions in two halves.  Ready says what    *)
(* RemoveQueuedPlayer leaves of the login queue, without the account;      *)
(* Left says it of the sessions.  AddSession_ goes on from there, and so   *)
(* do the removals of UpdateSessions (Moves).                              *)
(***************************************************************************)
EXTENDS WorldSessions, SequenceLemmas, FiniteSetTheorems, TLAPS

\* The fields of a session.
Fields ==
    [st : {"none", "live", "deleted"}, sock : {"null", "open", "closed"}, inQueue : BOOLEAN,
     told : Nat, init : {"none", "pending", "done"}, list : {"none", "asked", "known"},
     player : AllCharacters \cup {Null}, loading : BOOLEAN, login : [AllCharacters -> Nat],
     kicked : BOOLEAN]

\* The types of the session objects, the maps and the world thread.
TypeOK ==
    /\ ses \in [Sessions -> Fields] /\ stray \in SUBSET (Sessions \X AllCharacters)
    /\ addQueue \in Seq(Sessions) /\ queue \in Seq(Sessions)
    /\ sessions \in [Accounts -> Sessions \cup {Null}]
    /\ offline \in [Accounts -> Sessions \cup {Null}]
    /\ disconnects \in SUBSET Accounts /\ aged \in SUBSET Sessions
    /\ stage \in {"idle", "add", "sweep", "packets", "callbacks", "offline", "stopped"}
    /\ cur \in Accounts \cup {Null} /\ todo \in SUBSET Accounts
    /\ stopping \in BOOLEAN /\ final \in BOOLEAN /\ idle \in BOOLEAN /\ wanted \in BOOLEAN
    /\ timer \in Nat

\* Where a session is: in _sessions, in _offlineSessions, in _addSessQueue.
IsOnline(s) == sessions[Account[s]] = s
IsOffline(s) == offline[Account[s]] = s
IsNew(s) == \E i \in 1..Len(addQueue) : addQueue[i] = s

\* A session is in one of the three places while it exists, and under its account.
Places ==
    /\ \A s \in Sessions : /\ ses[s].st = "live" <=> IsOnline(s) \/ IsOffline(s) \/ IsNew(s)
                           /\ ~(IsOnline(s) /\ IsOffline(s))
                           /\ IsNew(s) => ~IsOnline(s) /\ ~IsOffline(s)
    /\ \A a \in Accounts : /\ sessions[a] # Null => Account[sessions[a]] = a
                           /\ offline[a] # Null => Account[offline[a]] = a
    /\ \A i, j \in 1..Len(addQueue) : addQueue[i] = addQueue[j] => i = j

\* The accounts that the world thread goes through are those of _sessions.
Sweeping ==
    /\ stage \in {"sweep", "packets", "callbacks"} => todo \subseteq Online
    /\ stage \in {"packets", "callbacks"} => cur \in todo

PlaceInv == TypeOK /\ Places /\ Sweeping

\* The characters that a session with these fields plays or waits for.
Claims(r) == {c \in AllCharacters : r.player = c \/ r.login[c] > 0}

\* They are characters of its account, and it has some only when it is online or
\* was; so it is with the list of them.
Playing ==
    \A s \in Sessions :
        /\ Claims(ses[s]) \subseteq Characters[Account[s]]
        /\ ~IsOnline(s) /\ ~IsOffline(s) => Claims(ses[s]) = {} /\ ses[s].list = "none"

\* The online session of an account claims no character that the offline one
\* plays, and while it claims any the offline one is to end with this update.
Apart ==
    \A s, t \in Sessions :
        IsOnline(s) /\ IsOffline(t) /\ Account[s] = Account[t] /\ Claims(ses[s]) # {} =>
            /\ stage \in {"packets", "callbacks", "sweep", "offline"}
            /\ ses[t].kicked \/ ses[t].player = Null
            /\ ses[t].player \notin Claims(ses[s])

CharacterInv == PlaceInv /\ Playing /\ Apart

\* After KickAll: offline sessions are kicked; an online one that is still to be
\* updated has lost its socket or is too new to know its characters; one that was
\* updated has no player any more.
LastUpdate ==
    final =>
    /\ stopping /\ stage # "idle"
    /\ stage # "stopped" => \A s \in Sessions : IsOffline(s) => ses[s].kicked
    /\ \A s \in Sessions : IsOnline(s) =>
           IF stage = "add" \/ (stage \in {"sweep", "packets", "callbacks"} /\ Account[s] \in todo)
           THEN \/ ses[s].sock # "open"
                \/ /\ Claims(ses[s]) = {}
                   /\ ses[s].list # "known" \/ (stage = "callbacks" /\ Account[s] = cur)
           ELSE ses[s].player = Null
    /\ stage = "stopped" => \A a \in Accounts : offline[a] = Null
StoppedIsFinal == stage = "stopped" => final

LogoutInv == CharacterInv /\ LastUpdate /\ StoppedIsFinal

\* The login queue.
Waiting ==
    /\ \A i \in 1..Len(queue) : IsOnline(queue[i]) /\ ses[queue[i]].told = i
    /\ \A i, j \in 1..Len(queue) : queue[i] = queue[j] => i = j
    /\ queue # <<>> => Limit > 0
    /\ ~Tolerance => disconnects = {}

\* A session that is muted, and will not be unmuted by its callback.
Muted(r) == r.inQueue /\ r.init # "pending"

\* Such a session waits in the login queue.
Waits(Q, t) == \E i \in 1..Len(Q) : Q[i] = t
MutedWaits == ~final => \A t \in Sessions : IsOnline(t) /\ Muted(ses[t]) => Waits(queue, t)

\* The whole invariant.
SessionInv == LogoutInv /\ Waiting /\ NoVainWait /\ WithinLimit

-----------------------------------------------------------------------------
(* The fields of sessions. *)

\* What the operations on a session's fields do to them.
LEMMA FieldFacts ==
    ASSUME NEW r \in Fields
    PROVE  /\ CloseSocket(r) \in Fields /\ KickPlayer(r) \in Fields
           /\ CloseSocket(r).sock # "open" /\ KickPlayer(r).sock # "open" /\ KickPlayer(r).kicked
           /\ \A x \in {CloseSocket(r), KickPlayer(r)} :
                  /\ x.st = r.st /\ x.told = r.told /\ x.list = r.list /\ x.player = r.player
                  /\ x.login = r.login
           /\ CloseSocket(r).kicked = r.kicked
<1>1. CloseSocket(r) \in Fields
  BY DEF Fields, CloseSocket
<1>2. KickPlayer(r) \in Fields
  BY <1>1 DEF Fields, KickPlayer
<1>3. /\ CloseSocket(r).sock # "open" /\ CloseSocket(r).kicked = r.kicked
      /\ CloseSocket(r).st = r.st /\ CloseSocket(r).told = r.told /\ CloseSocket(r).list = r.list
      /\ CloseSocket(r).player = r.player /\ CloseSocket(r).login = r.login
  BY DEF Fields, CloseSocket
<1>4. \A f \in {"st", "told", "list", "player", "login", "sock"} :
          KickPlayer(r)[f] = CloseSocket(r)[f]
  BY <1>1 DEF Fields, KickPlayer
<1>5. KickPlayer(r).kicked
  BY <1>1 DEF Fields, KickPlayer
<1> QED
  BY <1>1, <1>2, <1>3, <1>4, <1>5

\* A session that does not exist.
LEMMA NoSessionFacts ==
    ASSUME NEW st \in {"none", "deleted"}
    PROVE  /\ NoSession(st) \in Fields
           /\ NoSession(st).st = st /\ NoSession(st).list = "none" /\ Claims(NoSession(st)) = {}
<1>1. NoLogins \in [AllCharacters -> Nat] /\ \A c \in AllCharacters : ~(NoLogins[c] > 0) /\ c # Null
  BY SessionsAssumption DEF NoLogins
<1>2. /\ NoSession(st) \in Fields /\ NoSession(st).st = st /\ NoSession(st).list = "none"
      /\ NoSession(st).player = Null /\ NoSession(st).login = NoLogins
  BY <1>1 DEF NoSession, Fields
<1> QED
  BY <1>1, <1>2 DEF Claims

\* The claims of a session depend on its player and on what it waits for.
LEMMA SameClaims ==
    ASSUME NEW x, NEW y, y.player = x.player, y.login = x.login
    PROVE  Claims(y) = Claims(x)
BY DEF Claims

\* No player, no claim to it.
LEMMA ClaimFacts ==
    ASSUME NEW r \in Fields
    PROVE  /\ Claims(r) \subseteq AllCharacters /\ Null \notin Claims(r)
           /\ r.player # Null => r.player \in Claims(r)
           /\ \A c \in AllCharacters : r.login[c] > 0 => c \in Claims(r)
BY SessionsAssumption DEF Claims, Fields

\* Assignments to the fields keep their types.
LEMMA FieldTypes ==
    ASSUME NEW r \in Fields
    PROVE  /\ \A v \in {"none", "live", "deleted"} : [r EXCEPT !.st = v] \in Fields
           /\ \A v \in {"null", "open", "closed"} : [r EXCEPT !.sock = v] \in Fields
           /\ \A v \in {"none", "pending", "done"} : [r EXCEPT !.init = v] \in Fields
           /\ \A v \in Nat : [r EXCEPT !.told = v] \in Fields
           /\ \A v \in {"none", "asked", "known"} : [r EXCEPT !.list = v] \in Fields
           /\ \A v \in AllCharacters \cup {Null} : [r EXCEPT !.player = v] \in Fields
           /\ \A v \in [AllCharacters -> Nat] : [r EXCEPT !.login = v] \in Fields
           /\ [r EXCEPT !.inQueue = FALSE] \in Fields /\ [r EXCEPT !.inQueue = TRUE] \in Fields
           /\ [r EXCEPT !.loading = FALSE] \in Fields /\ [r EXCEPT !.loading = TRUE] \in Fields
<1>1. /\ \A v \in {"none", "live", "deleted"} : [r EXCEPT !.st = v] \in Fields
      /\ \A v \in {"null", "open", "closed"} : [r EXCEPT !.sock = v] \in Fields
  BY DEF Fields
<1>2. /\ \A v \in {"none", "pending", "done"} : [r EXCEPT !.init = v] \in Fields
      /\ \A v \in Nat : [r EXCEPT !.told = v] \in Fields
  BY DEF Fields
<1>3. /\ \A v \in {"none", "asked", "known"} : [r EXCEPT !.list = v] \in Fields
      /\ \A v \in AllCharacters \cup {Null} : [r EXCEPT !.player = v] \in Fields
      /\ \A v \in [AllCharacters -> Nat] : [r EXCEPT !.login = v] \in Fields
  BY DEF Fields
<1>4. [r EXCEPT !.inQueue = FALSE] \in Fields /\ [r EXCEPT !.inQueue = TRUE] \in Fields
  BY DEF Fields
<1>5. [r EXCEPT !.loading = FALSE] \in Fields /\ [r EXCEPT !.loading = TRUE] \in Fields
  BY DEF Fields
<1> QED
  BY <1>1, <1>2, <1>3, <1>4, <1>5

\* One session gets new fields.
LEMMA OneChanges ==
    ASSUME NEW f \in [Sessions -> Fields], NEW s \in Sessions, NEW r \in Fields
    PROVE  /\ [f EXCEPT ![s] = r] \in [Sessions -> Fields]
           /\ \A t \in Sessions : [f EXCEPT ![s] = r][t] = IF t = s THEN r ELSE f[t]
OBVIOUS

-----------------------------------------------------------------------------
(* Steps that leave every session where it is. *)

\* The parts of the invariant that fields other than st and told do not matter to.
LEMMA StillPlaced ==
    ASSUME SessionInv, UNCHANGED <<addQueue, sessions, offline, queue, disconnects, final>>,
           \A t \in Sessions : ses'[t].st = ses[t].st /\ ses'[t].told = ses[t].told
    PROVE  Places' /\ Waiting' /\ NoVainWait' /\ WithinLimit'
<1>1. Places'
  BY DEF SessionInv, LogoutInv, CharacterInv, PlaceInv, Places, IsOnline, IsOffline, IsNew
<1>2. \A i \in 1..Len(queue) : queue[i] \in Sessions
  BY ElementOfSeq DEF SessionInv, LogoutInv, CharacterInv, PlaceInv, TypeOK
<1>3. Waiting'
  BY <1>2 DEF SessionInv, Waiting, IsOnline
<1>4. NoVainWait' /\ WithinLimit'
  BY DEF SessionInv, NoVainWait, WithinLimit, ActiveSessionCount, Online
<1> QED
  BY <1>1, <1>3, <1>4

\* Steps that do not touch the sessions.
LEMMA OtherSteps ==
    ASSUME SessionInv,
           \/ BeginUpdate \/ AllAdded \/ OtherPackets \/ AllUpdated
           \/ MinutePasses \/ ShutdownCancel \/ StopNow
           \/ \E a \in Accounts : BeginSessionUpdate(a)
           \/ \E t \in Times, i \in BOOLEAN : ShutdownServ(t, i)
    PROVE  SessionInv'
<1>0. /\ TypeOK /\ Places /\ Sweeping /\ Playing /\ Apart /\ LastUpdate /\ StoppedIsFinal
  BY DEF SessionInv, LogoutInv, CharacterInv, PlaceInv
<1>1. UNCHANGED <<ses, stray, addQueue, sessions, offline, queue, disconnects, final>>
  BY DEF BeginUpdate, AllAdded, OtherPackets, AllUpdated, MinutePasses, ShutdownCancel, StopNow,
     BeginSessionUpdate, ShutdownServ, netVars, mapVars, threadVars, stopVars
<1>2. Places' /\ Waiting' /\ NoVainWait' /\ WithinLimit'
  BY <1>1, StillPlaced
<1>3. Playing' /\ Apart'
  <2>1. Playing'
    BY <1>0, <1>1 DEF Playing, IsOnline, IsOffline
  <2>2. stage \in {"packets", "callbacks", "sweep", "offline"} =>
            stage' \in {"packets", "callbacks", "sweep", "offline"}
    BY DEF BeginUpdate, AllAdded, OtherPackets, AllUpdated, MinutePasses, ShutdownCancel, StopNow,
       BeginSessionUpdate, ShutdownServ, threadVars
  <2> QED
    BY <1>0, <1>1, <2>1, <2>2 DEF Apart, IsOnline, IsOffline
<1>4. ASSUME BeginUpdate PROVE TypeOK' /\ Sweeping' /\ LastUpdate' /\ StoppedIsFinal'
  <2>1. /\ stage = "idle" /\ stage' = "add" /\ UNCHANGED <<aged, cur, todo, idle, wanted>>
        /\ ~stopping
    BY <1>4 DEF BeginUpdate, mapVars
  <2>2. PICK e \in Elapsed : UpdateGameTime(e)
    BY <1>4 DEF BeginUpdate
  <2>3. stopping' \in BOOLEAN
    BY <1>0, <2>2 DEF UpdateGameTime
  <2>4. timer' \in Nat
    <3>1. e \in Nat /\ timer \in Nat
      BY <1>0, LimitAssumption DEF TypeOK
    <3> QED
      BY <2>2, <3>1 DEF UpdateGameTime, Overdue
  <2>5. TypeOK'
    BY <1>0, <1>1, <2>1, <2>3, <2>4 DEF TypeOK
  <2> QED
    BY <1>0, <1>1, <2>1, <2>5 DEF Sweeping, LastUpdate, StoppedIsFinal
<1>5. ASSUME AllAdded PROVE TypeOK' /\ Sweeping' /\ LastUpdate' /\ StoppedIsFinal'
  <2>1. /\ stage = "add" /\ stage' = "sweep" /\ todo' = Online
        /\ UNCHANGED <<aged, cur, stopping, timer, idle, wanted>>
    BY <1>5 DEF AllAdded, mapVars, stopVars
  <2>2. \A s \in Sessions : IsOnline(s) => Account[s] \in Online
    BY SessionsAssumption DEF IsOnline, Online
  <2>3. TypeOK' /\ Sweeping' /\ StoppedIsFinal'
    BY <1>0, <1>1, <2>1 DEF TypeOK, Sweeping, StoppedIsFinal, Online
  <2> QED
    BY <1>0, <1>1, <2>1, <2>2, <2>3 DEF LastUpdate, IsOnline, IsOffline
<1>6. ASSUME OtherPackets PROVE TypeOK' /\ Sweeping' /\ LastUpdate' /\ StoppedIsFinal'
  <2>1. /\ stage = "packets" /\ stage' = "callbacks"
        /\ UNCHANGED <<aged, cur, todo, stopping, timer, idle, wanted>>
    BY <1>6 DEF OtherPackets, mapVars, stopVars
  <2>2. TypeOK' /\ Sweeping' /\ StoppedIsFinal'
    BY <1>0, <1>1, <2>1 DEF TypeOK, Sweeping, StoppedIsFinal, Online
  <2> QED
    BY <1>0, <1>1, <2>1, <2>2 DEF LastUpdate, IsOnline, IsOffline
<1>7. ASSUME AllUpdated PROVE TypeOK' /\ Sweeping' /\ LastUpdate' /\ StoppedIsFinal'
  <2>1. /\ stage = "sweep" /\ stage' = "offline" /\ todo = {}
        /\ UNCHANGED <<aged, cur, todo, stopping, timer, idle, wanted>>
    BY <1>7 DEF AllUpdated, mapVars, stopVars
  <2>2. TypeOK' /\ Sweeping' /\ StoppedIsFinal'
    BY <1>0, <1>1, <2>1 DEF TypeOK, Sweeping, StoppedIsFinal, Online
  <2> QED
    BY <1>0, <1>1, <2>1, <2>2 DEF LastUpdate, IsOnline, IsOffline
<1>8. ASSUME NEW a \in Accounts, BeginSessionUpdate(a)
      PROVE  TypeOK' /\ Sweeping' /\ LastUpdate' /\ StoppedIsFinal'
  <2>1. /\ stage = "sweep" /\ stage' = "packets" /\ a \in todo /\ cur' = a
        /\ UNCHANGED <<aged, todo, stopping, timer, idle, wanted>>
    BY <1>8 DEF BeginSessionUpdate, mapVars, stopVars
  <2>2. TypeOK' /\ Sweeping' /\ StoppedIsFinal'
    BY <1>0, <1>1, <2>1 DEF TypeOK, Sweeping, StoppedIsFinal, Online
  <2> QED
    BY <1>0, <1>1, <2>1, <2>2 DEF LastUpdate, IsOnline, IsOffline
<1>9. ASSUME MinutePasses PROVE TypeOK' /\ Sweeping' /\ LastUpdate' /\ StoppedIsFinal'
  <2>1. /\ stage = "idle" /\ aged' = {offline[a] : a \in Offline}
        /\ UNCHANGED <<stage, cur, todo, stopping, timer, idle, wanted>>
    BY <1>9 DEF MinutePasses, threadVars, stopVars
  <2>2. aged' \in SUBSET Sessions
    BY <1>0, <2>1 DEF TypeOK, Offline
  <2>3. TypeOK' /\ Sweeping' /\ StoppedIsFinal'
    BY <1>0, <1>1, <2>1, <2>2 DEF TypeOK, Sweeping, StoppedIsFinal, Online
  <2> QED
    BY <1>0, <1>1, <2>1, <2>3 DEF LastUpdate, IsOnline, IsOffline
<1>10. ASSUME ~stopping, stopping' \in BOOLEAN, timer' \in Nat, wanted' \in BOOLEAN,
              idle' \in BOOLEAN, UNCHANGED <<aged, stage, cur, todo>>
       PROVE  TypeOK' /\ Sweeping' /\ LastUpdate' /\ StoppedIsFinal'
  <2>1. TypeOK' /\ Sweeping' /\ StoppedIsFinal'
    BY <1>0, <1>1, <1>10 DEF TypeOK, Sweeping, StoppedIsFinal, Online
  <2> QED
    BY <1>0, <1>1, <1>10, <2>1 DEF LastUpdate
<1>11. ASSUME ShutdownCancel \/ StopNow
       PROVE  TypeOK' /\ Sweeping' /\ LastUpdate' /\ StoppedIsFinal'
  <2>1. /\ ~stopping /\ UNCHANGED <<aged, stage, cur, todo>>
        /\ stopping' \in BOOLEAN /\ timer' \in Nat
        /\ wanted' \in BOOLEAN /\ idle' \in BOOLEAN
    <3>1. CASE ShutdownCancel
      BY <1>0, <3>1 DEF ShutdownCancel, mapVars, TypeOK
    <3>2. CASE StopNow
      BY <1>0, <3>2 DEF StopNow, mapVars, TypeOK
    <3> QED
      BY <1>11, <3>1, <3>2
  <2> QED
    BY <1>10, <2>1
<1>12. ASSUME NEW t \in Times, NEW i \in BOOLEAN, ShutdownServ(t, i)
       PROVE  TypeOK' /\ Sweeping' /\ LastUpdate' /\ StoppedIsFinal'
  <2>1. /\ ~stopping /\ UNCHANGED <<aged, stage, cur, todo>>
        /\ wanted' \in BOOLEAN /\ idle' \in BOOLEAN
    BY <1>12 DEF ShutdownServ, mapVars
  <2>2. stopping' \in BOOLEAN
    BY <1>12 DEF ShutdownServ
  <2>3. timer' \in Nat
    <3>1. t \in Nat /\ SaveTime \in Nat /\ timer \in Nat
      BY <1>0, LimitAssumption DEF TypeOK
    <3> QED
      BY <1>12, <3>1 DEF ShutdownServ
  <2> QED
    BY <1>10, <2>1, <2>2, <2>3
<1> QED
  BY <1>2, <1>3, <1>4, <1>5, <1>6, <1>7, <1>8, <1>9, <1>11, <1>12
     DEF SessionInv, LogoutInv, CharacterInv, PlaceInv

\* One session gets new fields, stays where it is and claims nothing it did not.
LEMMA StaysStep ==
    ASSUME SessionInv, NEW s \in Sessions, NEW q \in Fields, ses' = [ses EXCEPT ![s] = q],
           UNCHANGED <<addQueue, sessions, offline, queue, disconnects, aged, stage, cur, todo,
                       stopping, final, timer, idle, wanted>>,
           stray' \in SUBSET (Sessions \X AllCharacters),
           q.st = ses[s].st, q.told = ses[s].told, ses[s].kicked => q.kicked,
           ses[s].sock # "open" => q.sock # "open", Claims(q) \subseteq Claims(ses[s]),
           q.list = ses[s].list \/ IsOnline(s) \/ IsOffline(s),
           \/ q.player = ses[s].player /\ (q.list = ses[s].list \/ q.list # "known")
           \/ stage = "idle"
           \/ stage = "callbacks" /\ s = sessions[cur] /\ IsOnline(s) /\ Account[s] = cur /\ cur \in todo
    PROVE  SessionInv'
<1>0. /\ TypeOK /\ Places /\ Sweeping /\ Playing /\ Apart /\ LastUpdate /\ StoppedIsFinal
  BY DEF SessionInv, LogoutInv, CharacterInv, PlaceInv
<1>1. /\ ses' \in [Sessions -> Fields] /\ \A t \in Sessions : t # s => ses'[t] = ses[t]
      /\ ses'[s] = q
  BY <1>0, OneChanges DEF TypeOK
<1>2. Places' /\ Waiting' /\ NoVainWait' /\ WithinLimit'
  BY <1>1, StillPlaced
<1>3. TypeOK' /\ Sweeping' /\ StoppedIsFinal'
  BY <1>0, <1>1 DEF TypeOK, Sweeping, StoppedIsFinal, Online
<1>4. \A t \in Sessions : /\ Claims(ses'[t]) \subseteq Claims(ses[t])
                          /\ ses[t].kicked => ses'[t].kicked
                          /\ IsOnline(t)' <=> IsOnline(t)
                          /\ IsOffline(t)' <=> IsOffline(t)
  BY <1>1 DEF IsOnline, IsOffline
<1>5. Playing'
  <2> SUFFICES ASSUME NEW t \in Sessions
               PROVE  /\ Claims(ses'[t]) \subseteq Characters[Account[t]]
                      /\ ~IsOnline(t) /\ ~IsOffline(t) => Claims(ses'[t]) = {} /\ ses'[t].list = "none"
    BY <1>4 DEF Playing
  <2>1. /\ Claims(ses[t]) \subseteq Characters[Account[t]]
        /\ ~IsOnline(t) /\ ~IsOffline(t) => Claims(ses[t]) = {} /\ ses[t].list = "none"
    BY <1>0 DEF Playing
  <2>2. ~IsOnline(t) /\ ~IsOffline(t) => ses'[t].list = ses[t].list
    BY <1>1
  <2> QED
    BY <1>4, <2>1, <2>2
<1>6. Apart'
  <2> SUFFICES ASSUME NEW u \in Sessions, NEW t \in Sessions, IsOnline(u), IsOffline(t),
                      Account[u] = Account[t], Claims(ses'[u]) # {}
               PROVE  /\ stage \in {"packets", "callbacks", "sweep", "offline"}
                      /\ ses'[t].kicked \/ ses'[t].player = Null
                      /\ ses'[t].player \notin Claims(ses'[u])
    BY <1>4 DEF Apart
  <2>1. Claims(ses'[u]) \subseteq Claims(ses[u]) /\ Claims(ses[u]) # {}
    BY <1>4
  <2>2. /\ stage \in {"packets", "callbacks", "sweep", "offline"}
        /\ ses[t].kicked \/ ses[t].player = Null
        /\ ses[t].player \notin Claims(ses[u])
    BY <1>0, <2>1 DEF Apart
  <2>3. ~IsOnline(t)
    BY <1>0 DEF Places
  <2>4. ses'[t].player = ses[t].player
    BY <1>1, <2>2, <2>3
  <2> QED
    BY <1>4, <2>1, <2>2, <2>4
<1>7. LastUpdate'
  <2> SUFFICES ASSUME final PROVE LastUpdate'
    BY DEF LastUpdate
  <2>1. /\ stopping /\ stage # "idle"
        /\ stage # "stopped" => \A t \in Sessions : IsOffline(t) => ses[t].kicked
        /\ stage = "stopped" => \A a \in Accounts : offline[a] = Null
    BY <1>0 DEF LastUpdate
  <2>2. ASSUME NEW t \in Sessions, IsOnline(t)
        PROVE  IF stage = "add" \/ (stage \in {"sweep", "packets", "callbacks"} /\ Account[t] \in todo)
               THEN \/ ses'[t].sock # "open"
                    \/ /\ Claims(ses'[t]) = {}
                       /\ ses'[t].list # "known" \/ (stage = "callbacks" /\ Account[t] = cur)
               ELSE ses'[t].player = Null
    <3>1. IF stage = "add" \/ (stage \in {"sweep", "packets", "callbacks"} /\ Account[t] \in todo)
          THEN \/ ses[t].sock # "open"
               \/ /\ Claims(ses[t]) = {}
                  /\ ses[t].list # "known" \/ (stage = "callbacks" /\ Account[t] = cur)
          ELSE ses[t].player = Null
      BY <1>0, <2>2 DEF LastUpdate
    <3>2. CASE t # s
      BY <1>1, <3>1, <3>2
    <3>3. CASE t = s
      <4>1. /\ ses[t].sock # "open" => ses'[t].sock # "open"
            /\ Claims(ses[t]) = {} => Claims(ses'[t]) = {}
        BY <1>1, <3>3
      <4>2. \/ ses'[t].player = ses[t].player /\ (ses'[t].list = ses[t].list \/ ses'[t].list # "known")
            \/ stage = "callbacks" /\ Account[t] = cur /\ cur \in todo
        BY <1>1, <2>1, <3>3
      <4> QED
        BY <3>1, <4>1, <4>2
    <3> QED
      BY <3>2, <3>3
  <2> QED
    BY <1>4, <2>1, <2>2 DEF LastUpdate
<1> QED
  BY <1>2, <1>3, <1>5, <1>6, <1>7 DEF SessionInv, LogoutInv, CharacterInv, PlaceInv

\* A network thread closes a socket, or a command kicks a player.
LEMMA CloseSteps ==
    ASSUME SessionInv, NEW s \in Sessions, Disconnect(s) \/ Kick(s)
    PROVE  SessionInv'
<1>0. TypeOK
  BY DEF SessionInv, LogoutInv, CharacterInv, PlaceInv
<1>1. UNCHANGED <<stray, addQueue, sessions, offline, queue, disconnects, aged, stage, cur, todo,
                  stopping, final, timer, idle, wanted>>
  BY DEF Disconnect, Kick, netVars, mapVars, threadVars, stopVars
<1>2. PICK r : r = ses[s]
  OBVIOUS
<1>3. r \in Fields
  BY <1>0, <1>2 DEF TypeOK
<1>4. PICK q \in Fields :
          /\ ses' = [ses EXCEPT ![s] = q]
          /\ q.st = r.st /\ q.told = r.told /\ q.list = r.list /\ q.player = r.player
          /\ q.login = r.login /\ q.sock # "open"
          /\ r.kicked => q.kicked
  <2>1. CASE Disconnect(s)
    <3> DEFINE q == [r EXCEPT !.sock = "closed"]
    <3>1. ses' = [ses EXCEPT ![s] = q]
      BY <1>2, <2>1 DEF Disconnect
    <3>2. q \in Fields
      BY <1>3, FieldTypes
    <3>3. /\ q.st = r.st /\ q.told = r.told /\ q.list = r.list /\ q.player = r.player
          /\ q.login = r.login /\ q.sock = "closed"
          /\ r.kicked = q.kicked
      BY <1>3 DEF Fields
    <3> QED
      BY <3>1, <3>2, <3>3
  <2>2. CASE Kick(s)
    <3>1. ses' = [ses EXCEPT ![s] = KickPlayer(r)]
      BY <1>2, <2>2 DEF Kick
    <3> QED
      BY <1>3, <3>1, FieldFacts
  <2> QED
    BY <2>1, <2>2
<1>5. Claims(q) = Claims(r)
  BY <1>4, SameClaims
<1>6. stray' \in SUBSET (Sessions \X AllCharacters)
  BY <1>0, <1>1 DEF TypeOK
<1> QED
  BY <1>1, <1>2, <1>4, <1>5, <1>6, StaysStep

\* The session that is being updated, and the offline session of its account.
LEMMA CurrentFacts ==
    ASSUME TypeOK, Places, Sweeping, stage \in {"packets", "callbacks"}
    PROVE  /\ cur \in Accounts /\ cur \in todo /\ sessions[cur] \in Sessions
           /\ Account[sessions[cur]] = cur /\ IsOnline(sessions[cur])
           /\ \A t \in Sessions : IsOffline(t) /\ Account[t] = cur => t = offline[cur]
           /\ offline[cur] # Null => /\ offline[cur] \in Sessions /\ Account[offline[cur]] = cur
                                     /\ IsOffline(offline[cur]) /\ offline[cur] # sessions[cur]
<1>1. cur \in todo /\ todo \subseteq Online /\ cur \in Accounts
  BY DEF Sweeping, Online
<1>2. sessions[cur] # Null /\ sessions[cur] \in Sessions \cup {Null}
  BY <1>1 DEF Online, TypeOK
<1>3. Account[sessions[cur]] = cur /\ (offline[cur] # Null => Account[offline[cur]] = cur)
  BY <1>1, <1>2 DEF Places
<1>4. offline[cur] \in Sessions \cup {Null}
  BY <1>1 DEF TypeOK
<1>5. IsOnline(sessions[cur]) /\ (offline[cur] # Null => IsOffline(offline[cur]))
  BY <1>3 DEF IsOnline, IsOffline
<1>6. offline[cur] # Null => offline[cur] # sessions[cur]
  BY <1>2, <1>5 DEF Places
<1>7. \A t \in Sessions : IsOffline(t) /\ Account[t] = cur => t = offline[cur]
  BY DEF IsOffline
<1> QED
  BY <1>1, <1>2, <1>3, <1>4, <1>5, <1>6, <1>7

\* The player that a session had may stay in the world.
LEMMA StrayType ==
    ASSUME TypeOK, NEW s \in Sessions
    PROVE  LeftBehind(s) \in SUBSET (Sessions \X AllCharacters)
<1>1. PICK c : c = ses[s].player
  OBVIOUS
<1>2. c \in AllCharacters \cup {Null}
  BY <1>1 DEF TypeOK, Fields
<1> QED
  BY <1>1, <1>2 DEF TypeOK, LeftBehind

\* A client asks for its characters, or for one that it does not get.
LEMMA VainSteps ==
    ASSUME SessionInv, NEW s \in Sessions, NEW c,
           HandleCharEnumOpcode(s) \/ LoginDisabled(s) \/ LoginForeign(s) \/ LoginRefused(s, c)
    PROVE  SessionInv'
<1>0. TypeOK /\ Places /\ Sweeping
  BY DEF SessionInv, LogoutInv, CharacterInv, PlaceInv
<1>1. /\ UNCHANGED <<stray, addQueue, sessions, offline, queue, disconnects, aged, stage, cur, todo,
                     stopping, final, timer, idle, wanted>>
      /\ Receives(s)
  BY DEF HandleCharEnumOpcode, LoginDisabled, LoginForeign, LoginRefused, Asks, netVars, mapVars,
     threadVars, stopVars
<1>2. IsOnline(s)
  BY <1>0, <1>1, CurrentFacts DEF Receives
<1>3. PICK r : r = ses[s]
  OBVIOUS
<1>4. r \in Fields
  BY <1>0, <1>3 DEF TypeOK
<1>5. PICK q \in Fields :
          /\ ses' = [ses EXCEPT ![s] = q]
          /\ q.st = r.st /\ q.told = r.told /\ q.player = r.player /\ q.login = r.login
          /\ q.list = r.list \/ q.list # "known"
          /\ r.sock # "open" => q.sock # "open"
          /\ r.kicked => q.kicked
  <2>1. CASE HandleCharEnumOpcode(s)
    <3> DEFINE q == [r EXCEPT !.list = "asked"]
    <3>1. ses' = [ses EXCEPT ![s] = q] /\ q \in Fields
      BY <1>3, <1>4, <2>1, FieldTypes DEF HandleCharEnumOpcode
    <3>2. /\ q.st = r.st /\ q.told = r.told /\ q.player = r.player /\ q.login = r.login
          /\ q.list = "asked" /\ q.sock = r.sock /\ q.kicked = r.kicked
      BY <1>4 DEF Fields
    <3> QED
      BY <3>1, <3>2
  <2>2. CASE LoginDisabled(s) \/ LoginRefused(s, c)
    <3> DEFINE q == [r EXCEPT !.loading = TRUE]
    <3>1. ses' = [ses EXCEPT ![s] = q] /\ q \in Fields
      BY <1>3, <1>4, <2>2, FieldTypes DEF LoginDisabled, LoginRefused
    <3>2. /\ q.st = r.st /\ q.told = r.told /\ q.player = r.player /\ q.login = r.login
          /\ q.list = r.list /\ q.sock = r.sock /\ q.kicked = r.kicked
      BY <1>4 DEF Fields
    <3> QED
      BY <3>1, <3>2
  <2>3. CASE LoginForeign(s)
    <3>1. PICK k : k = KickPlayer(r)
      OBVIOUS
    <3>2. /\ k \in Fields /\ k.st = r.st /\ k.told = r.told /\ k.list = r.list
          /\ k.player = r.player /\ k.login = r.login /\ k.sock # "open" /\ k.kicked
      BY <1>4, <3>1, FieldFacts
    <3> DEFINE q == [k EXCEPT !.loading = TRUE]
    <3>3. ses' = [ses EXCEPT ![s] = q] /\ q \in Fields
      BY <1>3, <2>3, <3>1, <3>2, FieldTypes DEF LoginForeign
    <3>4. /\ q.st = k.st /\ q.told = k.told /\ q.player = k.player /\ q.login = k.login
          /\ q.list = k.list /\ q.sock = k.sock /\ q.kicked = k.kicked
      BY <3>2 DEF Fields
    <3> QED
      BY <3>2, <3>3, <3>4
  <2> QED
    BY <2>1, <2>2, <2>3
<1>6. Claims(q) = Claims(r)
  BY <1>5, SameClaims
<1>7. stray' \in SUBSET (Sessions \X AllCharacters)
  BY <1>0, <1>1 DEF TypeOK
<1> QED
  BY <1>1, <1>2, <1>3, <1>5, <1>6, <1>7, StaysStep

\* A client asks for a character and is to get it.
LEMMA LoginSteps ==
    ASSUME SessionInv, NEW s \in Sessions, NEW c, LoginFromDatabase(s, c) \/ TakeOver(s, c)
    PROVE  SessionInv'
<1>0. /\ TypeOK /\ Places /\ Sweeping /\ Playing /\ Apart /\ LastUpdate /\ StoppedIsFinal
  BY DEF SessionInv, LogoutInv, CharacterInv, PlaceInv
<1>1. /\ UNCHANGED <<addQueue, sessions, offline, queue, disconnects, aged, stage, cur, todo, stopping,
                     final, timer, idle, wanted>>
      /\ stage = "packets" /\ s = sessions[cur] /\ Asks(s, c)
  BY DEF LoginFromDatabase, TakeOver, Asks, Receives, netVars, mapVars, threadVars, stopVars
<1>2. /\ cur \in Accounts /\ cur \in todo /\ Account[s] = cur /\ IsOnline(s)
      /\ \A t \in Sessions : IsOffline(t) /\ Account[t] = cur => t = offline[cur]
      /\ offline[cur] # Null => /\ offline[cur] \in Sessions /\ Account[offline[cur]] = cur
                                /\ IsOffline(offline[cur]) /\ offline[cur] # s
  BY <1>0, <1>1, CurrentFacts
<1>3. PICK r, o : r = ses[s] /\ o = offline[cur]
  OBVIOUS
<1>4. /\ r \in Fields /\ r.list = "known"
      /\ c \in Characters[Account[s]] /\ c \in AllCharacters /\ c # Null
  BY <1>0, <1>1, <1>2, <1>3, SessionsAssumption DEF TypeOK, Asks, AllCharacters
<1>5. final => r.sock # "open"
  BY <1>0, <1>1, <1>2, <1>3, <1>4 DEF LastUpdate
<1>6. ASSUME NEW q \in Fields, ses' \in [Sessions -> Fields], ses'[s] = q,
             stray' \in SUBSET (Sessions \X AllCharacters),
             \A t \in Sessions : t # s /\ t # o => ses'[t] = ses[t],
             q.st = r.st, q.told = r.told, q.sock = r.sock, Claims(q) \subseteq Claims(r) \cup {c},
             o # Null => /\ ses'[o].st = ses[o].st /\ ses'[o].told = ses[o].told
                         /\ Claims(ses'[o]) \subseteq Claims(ses[o])
                         /\ ses[o].kicked => ses'[o].kicked
                         /\ ses'[o].kicked \/ ses'[o].player = Null
                         /\ ses'[o].player \notin Claims(q)
      PROVE  SessionInv'
  <2>1. /\ o # Null => o \in Sessions /\ Account[o] = cur /\ IsOffline(o) /\ o # s
        /\ \A t \in Sessions : t # Null
    BY <1>2, <1>3, SessionsAssumption
  <2>2. \A t \in Sessions : /\ ses'[t].st = ses[t].st /\ ses'[t].told = ses[t].told
                            /\ IsOnline(t)' <=> IsOnline(t)
                            /\ IsOffline(t)' <=> IsOffline(t)
    BY <1>1, <1>3, <1>6, <2>1 DEF IsOnline, IsOffline
  <2>3. Places' /\ Waiting' /\ NoVainWait' /\ WithinLimit'
    BY <1>1, <2>2, StillPlaced
  <2>4. TypeOK' /\ Sweeping' /\ StoppedIsFinal'
    BY <1>0, <1>1, <1>6 DEF TypeOK, Sweeping, StoppedIsFinal, Online
  <2>5. ~IsOffline(s) /\ (o # Null => ~IsOnline(o))
    BY <1>0, <1>2, <2>1 DEF Places
  <2>6. Playing'
    <3> SUFFICES ASSUME NEW t \in Sessions
                 PROVE  /\ Claims(ses'[t]) \subseteq Characters[Account[t]]
                        /\ ~IsOnline(t) /\ ~IsOffline(t) =>
                               Claims(ses'[t]) = {} /\ ses'[t].list = "none"
      BY <2>2 DEF Playing
    <3>1. /\ Claims(ses[t]) \subseteq Characters[Account[t]]
          /\ ~IsOnline(t) /\ ~IsOffline(t) => Claims(ses[t]) = {} /\ ses[t].list = "none"
      BY <1>0 DEF Playing
    <3>2. CASE t = s
      BY <1>2, <1>3, <1>4, <1>6, <3>1, <3>2
    <3>3. CASE t = o
      BY <1>6, <2>1, <3>1, <3>3
    <3>4. CASE t # s /\ t # o
      BY <1>6, <3>1, <3>4
    <3> QED
      BY <3>2, <3>3, <3>4
  <2>7. Apart'
    <3> SUFFICES ASSUME NEW u \in Sessions, NEW t \in Sessions, IsOnline(u), IsOffline(t),
                        Account[u] = Account[t], Claims(ses'[u]) # {}
                 PROVE  /\ ses'[t].kicked \/ ses'[t].player = Null
                        /\ ses'[t].player \notin Claims(ses'[u])
      BY <1>1, <2>2 DEF Apart
    <3>1. CASE Account[u] = cur
      <4>1. u = s /\ t = o /\ o # Null
        BY <1>1, <1>2, <1>3, <2>1, <3>1 DEF IsOnline
      <4> QED
        BY <1>6, <4>1
    <3>2. CASE Account[u] # cur
      <4>1. u # s /\ t # s /\ u # o /\ t # o
        BY <1>2, <2>1, <3>2
      <4>2. ses'[u] = ses[u] /\ ses'[t] = ses[t]
        BY <1>6, <4>1
      <4> QED
        BY <1>0, <4>2 DEF Apart
    <3> QED
      BY <3>1, <3>2
  <2>8. LastUpdate'
    <3> SUFFICES ASSUME final PROVE LastUpdate'
      BY <1>1 DEF LastUpdate
    <3>1. \A t \in Sessions : IsOffline(t) => ses'[t].kicked
      <4>1. \A t \in Sessions : IsOffline(t) => ses[t].kicked
        BY <1>0, <1>1 DEF LastUpdate
      <4> QED
        BY <1>6, <2>1, <2>5, <4>1
    <3>2. ASSUME NEW t \in Sessions, IsOnline(t)
          PROVE  IF Account[t] \in todo
                 THEN ses'[t].sock # "open" \/ (Claims(ses'[t]) = {} /\ ses'[t].list # "known")
                 ELSE ses'[t].player = Null
      <4>1. CASE t = s
        BY <1>2, <1>5, <1>6, <4>1
      <4>2. CASE t # s
        <5>1. ses'[t] = ses[t]
          BY <1>6, <2>1, <2>5, <3>2, <4>2
        <5> QED
          BY <1>0, <1>1, <3>2, <5>1 DEF LastUpdate
      <4> QED
        BY <4>1, <4>2
    <3>3. stopping
      BY <1>0 DEF LastUpdate
    <3> QED
      BY <1>1, <2>2, <3>1, <3>2, <3>3 DEF LastUpdate
  <2> QED
    BY <2>3, <2>4, <2>6, <2>7, <2>8 DEF SessionInv, LogoutInv, CharacterInv, PlaceInv
<1>7. /\ o # Null => o \in Sessions /\ o # s /\ ses[o] \in Fields
      /\ ses \in [Sessions -> Fields] /\ stray \in SUBSET (Sessions \X AllCharacters)
  BY <1>0, <1>2, <1>3 DEF TypeOK
<1>8. CASE LoginFromDatabase(s, c)
  <2>1. PICK w : w = [r.login EXCEPT ![c] = @ + 1]
    OBVIOUS
  <2>2. /\ w \in [AllCharacters -> Nat] /\ w[c] > 0
        /\ \A d \in AllCharacters : d # c => w[d] = r.login[d]
    BY <1>4, <2>1 DEF Fields
  <2> DEFINE q == [[r EXCEPT !.loading = TRUE] EXCEPT !.login = w]
  <2>3. q \in Fields
    BY <1>4, <2>2, FieldTypes
  <2>4. q.st = r.st /\ q.told = r.told /\ q.sock = r.sock /\ q.player = r.player /\ q.login = w
    BY <1>4 DEF Fields
  <2>5. Claims(q) \subseteq Claims(r) \cup {c}
    BY <2>2, <2>4 DEF Claims
  <2>6. [ses EXCEPT ![s].loading = TRUE, ![s].login[c] = @ + 1] = [ses EXCEPT ![s] = q]
    BY <1>3, <1>4, <1>7, <2>1 DEF Fields
  <2>7. UNCHANGED stray
    BY <1>8 DEF LoginFromDatabase, netVars
  <2>8. CASE o = Null
    <3>1. ses' = [ses EXCEPT ![s] = q]
      BY <1>3, <1>8, <2>6, <2>8 DEF LoginFromDatabase
    <3>2. ses' \in [Sessions -> Fields] /\ ses'[s] = q /\ \A t \in Sessions : t # s => ses'[t] = ses[t]
      BY <1>7, <2>3, <3>1
    <3> HIDE DEF q
    <3> QED
      BY <1>6, <1>7, <2>3, <2>4, <2>5, <2>7, <2>8, <3>2
  <2>9. CASE o # Null
    <3>1. PICK p : p = KickPlayer(ses[o])
      OBVIOUS
    <3>2. /\ ses' = [[ses EXCEPT ![s] = q] EXCEPT ![o] = p]
          /\ ses[o].player # Null /\ ses[o].player # c
      <4>1. PICK S : S = [ses EXCEPT ![s] = q]
        OBVIOUS
      <4>2. S[o] = ses[o]
        BY <1>7, <2>9, <4>1
      <4>3. /\ ses' = [S EXCEPT ![o] = KickPlayer(@)]
            /\ ses[o].player \notin {Null, c}
        BY <1>3, <1>8, <2>6, <2>9, <4>1 DEF LoginFromDatabase
      <4> QED
        BY <3>1, <4>1, <4>2, <4>3
    <3>3. /\ p \in Fields /\ p.st = ses[o].st /\ p.told = ses[o].told /\ p.login = ses[o].login
          /\ p.player = ses[o].player /\ p.kicked
      BY <1>7, <2>9, <3>1, FieldFacts
    <3>4. /\ ses' \in [Sessions -> Fields] /\ ses'[s] = q /\ ses'[o] = p
          /\ \A t \in Sessions : t # s /\ t # o => ses'[t] = ses[t]
      <4> HIDE DEF q
      <4> QED
        BY <1>7, <2>3, <2>9, <3>2, <3>3
    <3>5. Claims(p) = Claims(ses[o])
      BY <3>3, SameClaims
    <3>6. p.player \notin Claims(q)
      <4>1. ses[o].player \notin Claims(r)
        BY <1>0, <1>2, <1>3, <2>9 DEF Apart
      <4> HIDE DEF q
      <4> QED
        BY <2>5, <3>2, <3>3, <4>1
    <3> HIDE DEF q
    <3> QED
      BY <1>6, <1>7, <2>3, <2>4, <2>5, <2>7, <2>9, <3>3, <3>4, <3>5, <3>6
  <2> QED
    BY <2>8, <2>9
<1>9. CASE TakeOver(s, c)
  <2> DEFINE q == [[r EXCEPT !.player = c] EXCEPT !.loading = FALSE]
  <2>1. q \in Fields
    BY <1>4, FieldTypes
  <2>2. q.st = r.st /\ q.told = r.told /\ q.sock = r.sock /\ q.player = c /\ q.login = r.login
    BY <1>4 DEF Fields
  <2>3. o # Null /\ stray' = LeftBehind(s)
    BY <1>3, <1>9 DEF TakeOver
  <2>4. PICK p : p = [ses[o] EXCEPT !.player = Null]
    OBVIOUS
  <2>5. ses' = [[ses EXCEPT ![s] = q] EXCEPT ![o] = p]
    BY <1>3, <1>7, <1>9, <2>3, <2>4 DEF TakeOver
  <2>6. p \in Fields
    BY <1>7, <2>3, <2>4, FieldTypes
  <2>7. /\ p.st = ses[o].st /\ p.told = ses[o].told /\ p.login = ses[o].login
        /\ p.player = Null /\ p.kicked = ses[o].kicked
    BY <1>7, <2>3, <2>4 DEF Fields
  <2>8. Claims(q) \subseteq Claims(r) \cup {c} /\ Claims(p) \subseteq Claims(ses[o])
    <3>1. \A d \in AllCharacters : d # Null
      BY SessionsAssumption
    <3> QED
      BY <2>2, <2>7, <3>1 DEF Claims
  <2>9. /\ ses' \in [Sessions -> Fields] /\ ses'[s] = q /\ ses'[o] = p
        /\ \A t \in Sessions : t # s /\ t # o => ses'[t] = ses[t]
    <3> HIDE DEF q
    <3> QED
      BY <1>7, <2>1, <2>3, <2>5, <2>6
  <2>10. p.player \notin Claims(q)
    BY <2>1, <2>7, ClaimFacts
  <2>11. stray' \in SUBSET (Sessions \X AllCharacters)
    BY <1>0, <2>3, StrayType
  <2> HIDE DEF q
  <2> QED
    BY <1>6, <2>1, <2>2, <2>7, <2>8, <2>9, <2>10, <2>11
<1> QED
  BY <1>8, <1>9

\* An answer of the database arrives.
LEMMA CallbackSteps ==
    ASSUME SessionInv, NEW s \in Sessions, Callback(s)
    PROVE  SessionInv'
<1>0. TypeOK /\ Places /\ Sweeping /\ Playing
  BY DEF SessionInv, LogoutInv, CharacterInv, PlaceInv
<1>1. /\ UNCHANGED <<addQueue, sessions, offline, queue, disconnects, aged, stage, cur, todo,
                     stopping, final, timer, idle, wanted>>
      /\ Processes(s) /\ stray' \in {stray, LeftBehind(s)}
  BY DEF Callback, InitializeSessionCallback, HandleCharEnum, PlayerLoaded, LoadFails, netVars, mapVars,
     stopVars, threadVars
<1>2. stray' \in SUBSET (Sessions \X AllCharacters)
  BY <1>0, <1>1, StrayType DEF TypeOK
<1>3. \/ stage = "idle"
      \/ stage = "callbacks" /\ s = sessions[cur] /\ IsOnline(s) /\ Account[s] = cur /\ cur \in todo
  BY <1>0, <1>1, CurrentFacts DEF Processes
<1>4. PICK r : r = ses[s]
  OBVIOUS
<1>5. r \in Fields
  BY <1>0, <1>4 DEF TypeOK
<1>6. PICK q \in Fields :
          /\ ses' = [ses EXCEPT ![s] = q] /\ q.st = r.st /\ q.told = r.told
          /\ Claims(q) \subseteq Claims(r)
          /\ q.list = r.list \/ r.list = "asked"
          /\ r.sock # "open" => q.sock # "open"
          /\ r.kicked => q.kicked
  <2>1. CASE InitializeSessionCallback(s)
    <3> DEFINE q == [[r EXCEPT !.init = "done"] EXCEPT !.inQueue = FALSE]
    <3>1. q \in Fields
      BY <1>5, FieldTypes
    <3>2. /\ q.st = r.st /\ q.told = r.told /\ q.list = r.list /\ q.player = r.player
          /\ q.login = r.login /\ q.sock = r.sock /\ q.kicked = r.kicked
      BY <1>5 DEF Fields
    <3>3. ses' = [ses EXCEPT ![s] = q]
      BY <1>0, <1>4, <2>1 DEF InitializeSessionCallback, TypeOK
    <3>4. Claims(q) = Claims(r)
      BY <3>2, SameClaims
    <3> HIDE DEF q
    <3> QED
      BY <3>1, <3>2, <3>3, <3>4
  <2>2. CASE HandleCharEnum(s)
    <3> DEFINE q == [r EXCEPT !.list = "known"]
    <3>1. q \in Fields
      BY <1>5, FieldTypes
    <3>2. /\ q.st = r.st /\ q.told = r.told /\ q.player = r.player
          /\ q.login = r.login /\ q.sock = r.sock /\ q.kicked = r.kicked
      BY <1>5 DEF Fields
    <3>3. ses' = [ses EXCEPT ![s] = q] /\ r.list = "asked"
      BY <1>0, <1>4, <2>2 DEF HandleCharEnum, TypeOK
    <3>4. Claims(q) = Claims(r)
      BY <3>2, SameClaims
    <3> HIDE DEF q
    <3> QED
      BY <3>1, <3>2, <3>3, <3>4
  <2>3. ASSUME NEW c \in AllCharacters, PlayerLoaded(s, c) \/ LoadFails(s, c)
        PROVE  \E q \in Fields :
                   /\ ses' = [ses EXCEPT ![s] = q] /\ q.st = r.st /\ q.told = r.told
                   /\ Claims(q) \subseteq Claims(r) /\ q.list = r.list
                   /\ r.sock # "open" => q.sock # "open"
                   /\ r.kicked => q.kicked
    <3>1. PICK w : w = [r.login EXCEPT ![c] = @ - 1]
      OBVIOUS
    <3>2. r.login \in [AllCharacters -> Nat] /\ r.login[c] > 0
      BY <1>4, <1>5, <2>3 DEF PlayerLoaded, LoadFails, Fields
    <3>3. /\ w \in [AllCharacters -> Nat]
          /\ \A d \in AllCharacters : w[d] > 0 => r.login[d] > 0
      BY <3>1, <3>2
    <3>4. CASE PlayerLoaded(s, c)
      <4> DEFINE q == [[[r EXCEPT !.player = c] EXCEPT !.login = w] EXCEPT !.loading = FALSE]
      <4>1. q \in Fields
        BY <1>5, <3>3, FieldTypes
      <4>2. /\ q.st = r.st /\ q.told = r.told /\ q.list = r.list /\ q.player = c
            /\ q.login = w /\ q.sock = r.sock /\ q.kicked = r.kicked
        BY <1>5 DEF Fields
      <4>3. ses' = [ses EXCEPT ![s] = q]
        BY <1>0, <1>4, <1>5, <3>1, <3>4 DEF PlayerLoaded, TypeOK, Fields
      <4>4. Claims(q) \subseteq Claims(r)
        BY <3>2, <3>3, <4>2 DEF Claims
      <4> HIDE DEF q
      <4> QED
        BY <4>1, <4>2, <4>3, <4>4
    <3>5. CASE LoadFails(s, c)
      <4>1. PICK k : k = KickPlayer(r)
        OBVIOUS
      <4>2. /\ k \in Fields /\ k.st = r.st /\ k.told = r.told /\ k.list = r.list
            /\ k.login = r.login /\ k.sock # "open" /\ k.kicked
        BY <1>5, <4>1, FieldFacts
      <4> DEFINE q == [[[k EXCEPT !.player = Null] EXCEPT !.login = w] EXCEPT !.loading = FALSE]
      <4>3. q \in Fields
        BY <3>3, <4>2, FieldTypes
      <4>4. /\ q.st = r.st /\ q.told = r.told /\ q.list = r.list /\ q.player = Null
            /\ q.login = w /\ q.sock # "open" /\ q.kicked
        BY <4>2 DEF Fields
      <4>5. ses' = [ses EXCEPT ![s] = q]
        <5>1. ses' = [ses EXCEPT ![s] = [k EXCEPT !.player = Null, !.login[c] = k.login[c] - 1,
                                                  !.loading = FALSE]]
          BY <1>4, <3>5, <4>1 DEF LoadFails
        <5>2. [k EXCEPT !.player = Null, !.login[c] = k.login[c] - 1, !.loading = FALSE] = q
          BY <3>1, <4>2 DEF Fields
        <5> QED
          BY <5>1, <5>2
      <4>6. Claims(q) \subseteq Claims(r)
        <5>1. \A d \in AllCharacters : d # Null
          BY SessionsAssumption
        <5> QED
          BY <3>3, <4>4, <5>1 DEF Claims
      <4> HIDE DEF q
      <4> QED
        BY <4>2, <4>3, <4>4, <4>5, <4>6
    <3> QED
      BY <2>3, <3>4, <3>5
  <2> QED
    BY <2>1, <2>2, <2>3 DEF Callback
<1>7. q.list = r.list \/ IsOnline(s) \/ IsOffline(s)
  BY <1>0, <1>4, <1>6 DEF Playing
<1> QED
  BY <1>1, <1>2, <1>3, <1>4, <1>6, <1>7, StaysStep

\* The session's update ends and it stays.
LEMMA KeepStep ==
    ASSUME SessionInv, KeepSession
    PROVE  SessionInv'
<1>0. /\ TypeOK /\ Places /\ Sweeping /\ Playing /\ Apart /\ LastUpdate /\ StoppedIsFinal
  BY DEF SessionInv, LogoutInv, CharacterInv, PlaceInv
<1>1. /\ UNCHANGED <<stray, addQueue, sessions, offline, queue, disconnects, aged, stopping,
                     final, timer, idle, wanted>>
      /\ stage = "callbacks" /\ stage' = "sweep" /\ cur' = Null /\ todo' = todo \ {cur}
  BY DEF KeepSession, netVars, mapVars, stopVars
<1>2. PICK s : s = sessions[cur]
  OBVIOUS
<1>3. /\ cur \in Accounts /\ cur \in todo /\ s \in Sessions /\ Account[s] = cur /\ IsOnline(s)
      /\ ~IsOffline(s)
  BY <1>0, <1>1, <1>2, CurrentFacts DEF Places
<1>4. PICK r : r = ses[s]
  OBVIOUS
<1>5. r \in Fields
  BY <1>0, <1>3, <1>4 DEF TypeOK
<1>6. PICK q \in Fields :
          /\ ses' = [ses EXCEPT ![s] = q] /\ q.st = r.st /\ q.told = r.told /\ r.sock = "open"
          /\ q.player \in {Null, r.player} /\ q.login = r.login
  <2>1. /\ r.sock = "open"
        /\ UNCHANGED ses \/ ses' = [ses EXCEPT ![s].player = Null]
    BY <1>2, <1>4 DEF KeepSession
  <2>2. CASE UNCHANGED ses
    <3>1. ses' = [ses EXCEPT ![s] = r]
      BY <1>0, <1>3, <1>4, <2>2 DEF TypeOK
    <3> QED
      BY <1>5, <2>1, <3>1
  <2>3. CASE ses' = [ses EXCEPT ![s].player = Null]
    <3> DEFINE q == [r EXCEPT !.player = Null]
    <3>1. q \in Fields
      BY <1>5, FieldTypes
    <3>2. q.st = r.st /\ q.told = r.told /\ q.player = Null /\ q.login = r.login
      BY <1>5 DEF Fields
    <3>3. ses' = [ses EXCEPT ![s] = q]
      BY <1>4, <2>3
    <3> QED
      BY <2>1, <3>1, <3>2, <3>3
  <2> QED
    BY <2>1, <2>2, <2>3
<1>7. /\ ses' \in [Sessions -> Fields] /\ ses'[s] = q
      /\ \A t \in Sessions : t # s => ses'[t] = ses[t]
  BY <1>0, <1>3, <1>6 DEF TypeOK
<1>8. Places' /\ Waiting' /\ NoVainWait' /\ WithinLimit'
  BY <1>1, <1>4, <1>6, <1>7, StillPlaced
<1>9. TypeOK' /\ Sweeping' /\ StoppedIsFinal'
  BY <1>0, <1>1, <1>7 DEF TypeOK, Sweeping, StoppedIsFinal, Online
<1>10. Claims(q) \subseteq Claims(r)
  <2>1. \A d \in AllCharacters : d # Null
    BY SessionsAssumption
  <2> QED
    BY <1>6, <2>1 DEF Claims
<1>11. \A t \in Sessions : /\ IsOnline(t)' <=> IsOnline(t)
                           /\ IsOffline(t)' <=> IsOffline(t)
                           /\ Claims(ses'[t]) \subseteq Claims(ses[t])
                           /\ t # s => ses'[t] = ses[t]
  BY <1>1, <1>4, <1>7, <1>10 DEF IsOnline, IsOffline
<1>12. Playing'
  <2> SUFFICES ASSUME NEW t \in Sessions
               PROVE  /\ Claims(ses'[t]) \subseteq Characters[Account[t]]
                      /\ ~IsOnline(t) /\ ~IsOffline(t) => Claims(ses'[t]) = {} /\ ses'[t].list = "none"
    BY <1>11 DEF Playing
  <2>1. /\ Claims(ses[t]) \subseteq Characters[Account[t]]
        /\ ~IsOnline(t) /\ ~IsOffline(t) => Claims(ses[t]) = {} /\ ses[t].list = "none"
    BY <1>0 DEF Playing
  <2> QED
    BY <1>3, <1>11, <2>1
<1>13. Apart'
  <2> SUFFICES ASSUME NEW u \in Sessions, NEW t \in Sessions, IsOnline(u), IsOffline(t),
                      Account[u] = Account[t], Claims(ses'[u]) # {}
               PROVE  /\ ses'[t].kicked \/ ses'[t].player = Null
                      /\ ses'[t].player \notin Claims(ses'[u])
    BY <1>1, <1>11 DEF Apart
  <2>1. t # s /\ ses'[t] = ses[t] /\ Claims(ses'[u]) \subseteq Claims(ses[u])
    BY <1>3, <1>11
  <2>2. /\ ses[t].kicked \/ ses[t].player = Null
        /\ ses[t].player \notin Claims(ses[u])
    BY <1>0, <2>1 DEF Apart
  <2> QED
    BY <2>1, <2>2
<1>14. LastUpdate'
  <2> SUFFICES ASSUME final PROVE LastUpdate'
    BY <1>1 DEF LastUpdate
  <2>1. stopping' /\ stage' # "idle" /\ stage' # "stopped"
    BY <1>0, <1>1 DEF LastUpdate
  <2>2. \A t \in Sessions : IsOffline(t)' => ses'[t].kicked
    BY <1>0, <1>1, <1>3, <1>11 DEF LastUpdate
  <2>3. r.player = Null
    <3>1. Claims(r) = {}
      BY <1>0, <1>1, <1>3, <1>4, <1>6 DEF LastUpdate
    <3> QED
      BY <1>5, <3>1, ClaimFacts
  <2>4. ASSUME NEW t \in Sessions, IsOnline(t)
        PROVE  IF Account[t] \in todo'
               THEN ses'[t].sock # "open" \/ (Claims(ses'[t]) = {} /\ ses'[t].list # "known")
               ELSE ses'[t].player = Null
    <3>1. CASE t = s
      BY <1>1, <1>3, <1>6, <1>7, <2>3, <3>1
    <3>2. CASE t # s
      <4>1. Account[t] # cur /\ ses'[t] = ses[t]
        BY <1>2, <1>7, <2>4, <3>2 DEF IsOnline
      <4>2. IF Account[t] \in todo
            THEN ses[t].sock # "open" \/ (Claims(ses[t]) = {} /\ ses[t].list # "known")
            ELSE ses[t].player = Null
        BY <1>0, <1>1, <2>4, <4>1 DEF LastUpdate
      <4> QED
        BY <1>1, <4>1, <4>2
    <3> QED
      BY <3>1, <3>2
  <2> QED
    BY <1>1, <1>11, <2>1, <2>2, <2>4 DEF LastUpdate
<1> QED
  BY <1>8, <1>9, <1>12, <1>13, <1>14 DEF SessionInv, LogoutInv, CharacterInv, PlaceInv

-----------------------------------------------------------------------------
(* Steps in which sessions come and go, but for the login queue. *)

\* The login queue does not mind what happens to sessions that are not online.
LEMMA StillWaiting ==
    ASSUME SessionInv, UNCHANGED <<sessions, queue, final>>, disconnects' \subseteq disconnects,
           \A t \in Sessions : IsOnline(t) => ses'[t].told = ses[t].told
    PROVE  Waiting' /\ NoVainWait' /\ WithinLimit'
<1>1. \A i \in 1..Len(queue) : queue[i] \in Sessions
  BY ElementOfSeq DEF SessionInv, LogoutInv, CharacterInv, PlaceInv, TypeOK
<1>2. Waiting'
  BY <1>1 DEF SessionInv, Waiting, IsOnline
<1>3. NoVainWait' /\ WithinLimit'
  BY DEF SessionInv, NoVainWait, WithinLimit, ActiveSessionCount, Online
<1> QED
  BY <1>2, <1>3

\* The first of the new sessions is taken.
LEMMA TakesNew ==
    ASSUME TypeOK, Places, addQueue # <<>>, addQueue' = Tail(addQueue)
    PROVE  /\ Head(addQueue) \in Sessions /\ IsNew(Head(addQueue)) /\ addQueue' \in Seq(Sessions)
           /\ \A t \in Sessions : IsNew(t)' <=> IsNew(t) /\ t # Head(addQueue)
           /\ \A i, j \in 1..Len(addQueue') : addQueue'[i] = addQueue'[j] => i = j
<1>1. PICK n : n = Len(addQueue)
  OBVIOUS
<1>2. /\ n \in Nat /\ n >= 1 /\ Len(addQueue') = n - 1 /\ addQueue' \in Seq(Sessions)
      /\ Head(addQueue) = addQueue[1] /\ Head(addQueue) \in Sessions
      /\ \A i \in 1..(n - 1) : addQueue'[i] = addQueue[i + 1]
  BY <1>1, HeadTailProperties, LenProperties, EmptySeq DEF TypeOK
<1>3. \A i, j \in 1..n : addQueue[i] = addQueue[j] => i = j
  BY <1>1 DEF Places
<1>4. IsNew(Head(addQueue))
  BY <1>1, <1>2 DEF IsNew
<1>5. ASSUME NEW i \in 1..(n - 1), NEW j \in 1..(n - 1), addQueue'[i] = addQueue'[j] PROVE i = j
  <2>1. i + 1 \in 1..n /\ j + 1 \in 1..n
    BY <1>2
  <2>2. i + 1 = j + 1
    BY <1>2, <1>3, <1>5, <2>1
  <2> QED
    BY <1>2, <2>2
<1>6. ASSUME NEW t \in Sessions PROVE IsNew(t)' <=> IsNew(t) /\ t # addQueue[1]
  <2>1. ASSUME NEW i \in 1..(n - 1), addQueue'[i] = t PROVE IsNew(t) /\ t # addQueue[1]
    <3>1. i + 1 \in 1..n /\ 1 \in 1..n /\ i + 1 # 1
      BY <1>2
    <3> QED
      BY <1>1, <1>2, <1>3, <2>1, <3>1 DEF IsNew
  <2>2. ASSUME NEW i \in 1..n, addQueue[i] = t, t # addQueue[1] PROVE IsNew(t)'
    <3>1. i - 1 \in 1..(n - 1) /\ (i - 1) + 1 = i
      BY <1>2, <2>2
    <3> QED
      BY <1>2, <2>2, <3>1 DEF IsNew
  <2> QED
    BY <1>1, <1>2, <2>1, <2>2 DEF IsNew
<1> QED
  BY <1>2, <1>4, <1>5, <1>6

\* A network thread hands a new session over.
LEMMA AddStep ==
    ASSUME SessionInv, NEW s \in Sessions, AddSession(s)
    PROVE  SessionInv'
<1>0. /\ TypeOK /\ Places /\ Sweeping /\ Playing /\ Apart /\ LastUpdate /\ StoppedIsFinal
  BY DEF SessionInv, LogoutInv, CharacterInv, PlaceInv
<1>1. /\ UNCHANGED <<stray, sessions, offline, queue, disconnects, aged, stage, cur, todo, stopping,
                     final, timer, idle, wanted>>
      /\ ses[s].st = "none" /\ addQueue' = Append(addQueue, s)
  BY DEF AddSession, mapVars, threadVars, stopVars
<1>2. PICK r, q : r = ses[s] /\ q = [[r EXCEPT !.st = "live"] EXCEPT !.sock = "open"]
  OBVIOUS
<1>3. r \in Fields
  BY <1>0, <1>2 DEF TypeOK
<1>4. q \in Fields
  BY <1>2, <1>3, FieldTypes
<1>5. /\ q.st = "live" /\ q.told = r.told /\ q.list = r.list /\ q.player = r.player
      /\ q.login = r.login /\ q.kicked = r.kicked
  BY <1>2, <1>3 DEF Fields
<1>6. ses' = [ses EXCEPT ![s] = q]
  BY <1>0, <1>2 DEF AddSession, TypeOK
<1>7. /\ ses' \in [Sessions -> Fields] /\ ses'[s] = q
      /\ \A t \in Sessions : t # s => ses'[t] = ses[t]
  BY <1>0, <1>4, <1>6 DEF TypeOK
<1>8. ~IsOnline(s) /\ ~IsOffline(s) /\ ~IsNew(s)
  BY <1>0, <1>1 DEF Places
<1>9. /\ addQueue' \in Seq(Sessions) /\ Len(addQueue') = Len(addQueue) + 1 /\ Len(addQueue) \in Nat
      /\ addQueue'[Len(addQueue) + 1] = s
      /\ \A i \in 1..Len(addQueue) : addQueue'[i] = addQueue[i]
  BY <1>0, <1>1, AppendProperties, LenProperties DEF TypeOK
<1>10. /\ \A t \in Sessions : IsNew(t)' <=> IsNew(t) \/ t = s
       /\ \A i, j \in 1..Len(addQueue') : addQueue'[i] = addQueue'[j] => i = j
  <2>1. \A t \in Sessions : IsNew(t)' <=> IsNew(t) \/ t = s
    BY <1>9 DEF IsNew
  <2>2. ASSUME NEW i \in 1..Len(addQueue'), NEW j \in 1..Len(addQueue'), addQueue'[i] = addQueue'[j]
        PROVE  i = j
    BY <1>0, <1>8, <1>9, <2>2 DEF Places, IsNew
  <2> QED
    BY <2>1, <2>2
<1>11. Places'
  BY <1>0, <1>1, <1>5, <1>7, <1>8, <1>10 DEF Places, IsOnline, IsOffline
<1>12. TypeOK' /\ Sweeping' /\ StoppedIsFinal'
  BY <1>0, <1>1, <1>7, <1>9 DEF TypeOK, Sweeping, StoppedIsFinal, Online
<1>13. Waiting' /\ NoVainWait' /\ WithinLimit'
  BY <1>1, <1>7, <1>8, StillWaiting
<1>a. \A t \in Sessions :
          /\ ses'[t].player = ses[t].player /\ ses'[t].list = ses[t].list
          /\ ses'[t].kicked = ses[t].kicked /\ Claims(ses'[t]) = Claims(ses[t])
  <2>1. Claims(q) = Claims(r)
    BY <1>5, SameClaims
  <2> QED
    BY <1>2, <1>5, <1>7, <2>1
<1>14. Playing'
  BY <1>0, <1>1, <1>a DEF Playing, IsOnline, IsOffline
<1>15. Apart'
  BY <1>0, <1>1, <1>a DEF Apart, IsOnline, IsOffline
<1>16. LastUpdate'
  BY <1>0, <1>1, <1>7, <1>8 DEF LastUpdate, IsOnline, IsOffline
<1> QED
  BY <1>11, <1>12, <1>13, <1>14, <1>15, <1>16 DEF SessionInv, LogoutInv, CharacterInv, PlaceInv

\* The new session is refused and deleted.
LEMMA RefuseStep ==
    ASSUME SessionInv, RefuseSession
    PROVE  SessionInv'
<1>0. /\ TypeOK /\ Places /\ Sweeping /\ Playing /\ Apart /\ LastUpdate /\ StoppedIsFinal
  BY DEF SessionInv, LogoutInv, CharacterInv, PlaceInv
<1>1. /\ UNCHANGED <<stray, sessions, offline, queue, disconnects, aged, stage, cur, todo, stopping,
                     final, timer, idle, wanted>>
      /\ addQueue # <<>> /\ addQueue' = Tail(addQueue)
  BY DEF RefuseSession, mapVars, threadVars, stopVars
<1>2. PICK s : s = Head(addQueue)
  OBVIOUS
<1>3. /\ s \in Sessions /\ IsNew(s) /\ addQueue' \in Seq(Sessions)
      /\ \A t \in Sessions : IsNew(t)' <=> IsNew(t) /\ t # s
      /\ \A i, j \in 1..Len(addQueue') : addQueue'[i] = addQueue'[j] => i = j
  BY <1>0, <1>1, <1>2, TakesNew
<1>4. ~IsOnline(s) /\ ~IsOffline(s)
  BY <1>0, <1>3 DEF Places
<1>5. PICK q : q = Deleted
  OBVIOUS
<1>6. /\ q \in Fields /\ q.st = "deleted" /\ q.list = "none" /\ Claims(q) = {}
  BY <1>5, NoSessionFacts DEF Deleted
<1>7. ses' = [ses EXCEPT ![s] = q]
  BY <1>2, <1>5 DEF RefuseSession
<1>8. /\ ses' \in [Sessions -> Fields] /\ ses'[s] = q
      /\ \A t \in Sessions : t # s => ses'[t] = ses[t]
  BY <1>0, <1>3, <1>6, <1>7 DEF TypeOK
<1>9. Places'
  BY <1>0, <1>1, <1>3, <1>4, <1>6, <1>8 DEF Places, IsOnline, IsOffline
<1>10. TypeOK' /\ Sweeping' /\ StoppedIsFinal'
  BY <1>0, <1>1, <1>3, <1>8 DEF TypeOK, Sweeping, StoppedIsFinal, Online
<1>11. Waiting' /\ NoVainWait' /\ WithinLimit'
  BY <1>1, <1>4, <1>8, StillWaiting
<1>12. Playing'
  BY <1>0, <1>1, <1>6, <1>8 DEF Playing, IsOnline, IsOffline
<1>13. Apart'
  <2>1. \A t \in Sessions : IsOnline(t)' \/ IsOffline(t)' => t # s /\ ses'[t] = ses[t]
    BY <1>1, <1>4, <1>8 DEF IsOnline, IsOffline
  <2> QED
    BY <1>0, <1>1, <2>1 DEF Apart, IsOnline, IsOffline
<1>14. LastUpdate'
  BY <1>0, <1>1, <1>4, <1>8 DEF LastUpdate, IsOnline, IsOffline
<1> QED
  BY <1>9, <1>10, <1>11, <1>12, <1>13, <1>14 DEF SessionInv, LogoutInv, CharacterInv, PlaceInv

\* Offline sessions end.
LEMMA EndStep ==
    ASSUME SessionInv, EndOffline
    PROVE  SessionInv'
<1>0. /\ TypeOK /\ Places /\ Sweeping /\ Playing /\ Apart /\ LastUpdate /\ StoppedIsFinal
  BY DEF SessionInv, LogoutInv, CharacterInv, PlaceInv
<1>1. /\ UNCHANGED <<stray, addQueue, sessions, queue, disconnects, cur, todo, stopping,
                     final, timer, idle, wanted>>
      /\ stage = "offline" /\ stage' = IF final THEN "stopped" ELSE "idle"
  BY DEF EndOffline, netVars, stopVars
<1>2. PICK gone : gone = {offline[a] : a \in {b \in Offline : Ends(ses[offline[b]], offline[b])}}
  OBVIOUS
<1>3. /\ ses' = [s \in Sessions |-> IF s \in gone THEN Deleted ELSE ses[s]]
      /\ offline' = [a \in Accounts |-> IF offline[a] \in gone THEN Null ELSE offline[a]]
      /\ aged' = aged \ gone
  BY <1>2 DEF EndOffline
<1>4. /\ Deleted \in Fields /\ Deleted.st = "deleted" /\ Deleted.list = "none"
      /\ Claims(Deleted) = {}
  BY NoSessionFacts DEF Deleted
<1>5. \A s \in gone : s \in Sessions /\ IsOffline(s) /\ ~IsOnline(s) /\ ~IsNew(s)
  <2> SUFFICES ASSUME NEW a \in Accounts, offline[a] # Null
               PROVE  /\ offline[a] \in Sessions /\ IsOffline(offline[a])
                      /\ ~IsOnline(offline[a]) /\ ~IsNew(offline[a])
    BY <1>2 DEF Offline
  <2>1. offline[a] \in Sessions
    BY <1>0 DEF TypeOK
  <2>2. IsOffline(offline[a])
    BY <1>0 DEF Places, IsOffline
  <2> QED
    BY <1>0, <2>1, <2>2 DEF Places
<1>6. /\ ses' \in [Sessions -> Fields]
      /\ \A t \in Sessions : ses'[t] = IF t \in gone THEN Deleted ELSE ses[t]
      /\ offline' \in [Accounts -> Sessions \cup {Null}]
      /\ \A a \in Accounts : offline'[a] = IF offline[a] \in gone THEN Null ELSE offline[a]
      /\ aged' \in SUBSET Sessions
  BY <1>0, <1>3, <1>4 DEF TypeOK
<1>7. \A t \in Sessions : IsOffline(t)' <=> IsOffline(t) /\ t \notin gone
  BY <1>6, SessionsAssumption DEF IsOffline
<1>8. Places'
  BY <1>0, <1>1, <1>4, <1>5, <1>6, <1>7 DEF Places, IsOnline, IsNew
<1>9. TypeOK' /\ Sweeping' /\ StoppedIsFinal'
  BY <1>0, <1>1, <1>6 DEF TypeOK, Sweeping, StoppedIsFinal, Online
<1>10. Waiting' /\ NoVainWait' /\ WithinLimit'
  BY <1>1, <1>5, <1>6, StillWaiting
<1>11. Playing'
  BY <1>0, <1>1, <1>4, <1>6, <1>7 DEF Playing, IsOnline
<1>12. Apart'
  <2> SUFFICES ASSUME NEW s \in Sessions, NEW t \in Sessions, IsOnline(s), IsOffline(t), t \notin gone,
                      Account[s] = Account[t], Claims(ses'[s]) # {}
               PROVE  FALSE
    BY <1>1, <1>7 DEF Apart, IsOnline
  <2>1. ses'[s] = ses[s]
    BY <1>4, <1>6
  <2>2. ses[t].kicked \/ ses[t].player = Null
    BY <1>0, <2>1 DEF Apart
  <2>3. t = offline[Account[t]] /\ Account[t] \in Accounts /\ t # Null
    BY SessionsAssumption DEF IsOffline
  <2> QED
    BY <1>2, <2>2, <2>3 DEF Ends, Offline
<1>13. LastUpdate'
  <2> SUFFICES ASSUME final PROVE LastUpdate'
    BY <1>1 DEF LastUpdate
  <2>1. stopping /\ \A s \in Sessions : /\ IsOffline(s) => ses[s].kicked
                                        /\ IsOnline(s) => ses[s].player = Null
    BY <1>0, <1>1 DEF LastUpdate
  <2>2. ASSUME NEW a \in Accounts PROVE offline'[a] = Null
    <3>1. CASE offline[a] # Null
      <4>1. offline[a] \in Sessions /\ IsOffline(offline[a])
        BY <1>0, <3>1 DEF TypeOK, Places, IsOffline
      <4>2. Ends(ses[offline[a]], offline[a])
        BY <2>1, <4>1 DEF Ends
      <4>3. offline[a] \in gone
        BY <1>2, <3>1, <4>2 DEF Offline
      <4> QED
        BY <1>6, <4>3
    <3> QED
      BY <1>6, <3>1
  <2>3. \A s \in Sessions : IsOnline(s)' => ses'[s].player = Null
    BY <1>1, <1>5, <1>6, <2>1 DEF IsOnline
  <2> QED
    BY <1>1, <2>1, <2>2, <2>3 DEF LastUpdate
<1> QED
  BY <1>8, <1>9, <1>10, <1>11, <1>12, <1>13 DEF SessionInv, LogoutInv, CharacterInv, PlaceInv

\* A disconnected account is forgotten.
LEMMA ToleranceStep ==
    ASSUME SessionInv, NEW a \in Accounts, ToleranceExpires(a)
    PROVE  SessionInv'
<1>0. /\ TypeOK /\ Places /\ Sweeping /\ Playing /\ Apart /\ LastUpdate /\ StoppedIsFinal
  BY DEF SessionInv, LogoutInv, CharacterInv, PlaceInv
<1>1. /\ UNCHANGED <<ses, stray, addQueue, sessions, offline, queue, aged, stage, cur, todo, stopping,
                     final, timer, idle, wanted>>
      /\ disconnects' \subseteq disconnects
  BY DEF ToleranceExpires, netVars, threadVars, stopVars
<1>2. Waiting' /\ NoVainWait' /\ WithinLimit'
  BY <1>1, StillWaiting
<1>3. TypeOK' /\ Sweeping' /\ StoppedIsFinal'
  BY <1>0, <1>1 DEF TypeOK, Sweeping, StoppedIsFinal, Online
<1>4. Places' /\ Playing' /\ Apart' /\ LastUpdate'
  <2>1. Places'
    BY <1>0, <1>1 DEF Places, IsOnline, IsOffline, IsNew
  <2>2. Playing' /\ Apart'
    BY <1>0, <1>1 DEF Playing, Apart, IsOnline, IsOffline
  <2>3. LastUpdate'
    BY <1>0, <1>1 DEF LastUpdate, IsOnline, IsOffline
  <2> QED
    BY <2>1, <2>2, <2>3
<1> QED
  BY <1>2, <1>3, <1>4 DEF SessionInv, LogoutInv, CharacterInv, PlaceInv

\* The world has stopped: everybody is kicked.
LEMMA KickAllStep ==
    ASSUME SessionInv, KickAll
    PROVE  SessionInv'
<1>0. /\ TypeOK /\ Places /\ Sweeping /\ Playing /\ Apart /\ LastUpdate /\ StoppedIsFinal
  BY DEF SessionInv, LogoutInv, CharacterInv, PlaceInv
<1>1. /\ UNCHANGED <<stray, addQueue, sessions, offline, disconnects, aged, cur, todo, stopping, timer,
                     idle, wanted>>
      /\ stage = "idle" /\ stopping /\ final' = TRUE /\ queue' = <<>> /\ stage' = "add"
  BY DEF KickAll, netVars
<1>2. PICK all : all = {sessions[a] : a \in Online} \cup {offline[a] : a \in Offline}
  OBVIOUS
<1>3. ses' = [s \in Sessions |-> IF s \in all THEN KickPlayer(ses[s]) ELSE ses[s]]
  BY <1>2 DEF KickAll
<1>4. \A s \in Sessions : IsOnline(s) \/ IsOffline(s) => s \in all
  BY <1>2, SessionsAssumption DEF IsOnline, IsOffline, Online, Offline
<1>5. ASSUME NEW s \in Sessions
      PROVE  /\ ses'[s] \in Fields
             /\ ses'[s].st = ses[s].st /\ ses'[s].list = ses[s].list
             /\ Claims(ses'[s]) = Claims(ses[s])
             /\ IsOnline(s) \/ IsOffline(s) => ses'[s].kicked /\ ses'[s].sock # "open"
  <2>1. PICK r : r = ses[s]
    OBVIOUS
  <2>2. r \in Fields
    BY <1>0, <2>1 DEF TypeOK
  <2>3. ses'[s] = IF s \in all THEN KickPlayer(r) ELSE r
    BY <1>3, <2>1
  <2>4. /\ KickPlayer(r) \in Fields /\ KickPlayer(r).st = r.st /\ KickPlayer(r).player = r.player
        /\ KickPlayer(r).login = r.login /\ KickPlayer(r).list = r.list
        /\ KickPlayer(r).kicked /\ KickPlayer(r).sock # "open"
    BY <2>2, FieldFacts
  <2>5. Claims(KickPlayer(r)) = Claims(r)
    BY <2>4, SameClaims
  <2> QED
    BY <1>4, <2>1, <2>2, <2>3, <2>4, <2>5
<1>6. ses' \in [Sessions -> Fields]
  BY <1>3, <1>5
<1>7. Places'
  BY <1>0, <1>1, <1>5 DEF Places, IsOnline, IsOffline, IsNew
<1>8. TypeOK' /\ Sweeping' /\ StoppedIsFinal'
  BY <1>0, <1>1, <1>6 DEF TypeOK, Sweeping, StoppedIsFinal
<1>9. Waiting'
  BY <1>1 DEF SessionInv, Waiting
<1>10. NoVainWait' /\ WithinLimit'
  BY <1>1 DEF NoVainWait, WithinLimit
<1>11. Playing'
  BY <1>0, <1>1, <1>5 DEF Playing, IsOnline, IsOffline
<1>12. Apart'
  BY <1>0, <1>1, <1>5 DEF Apart, IsOnline, IsOffline
<1>13. LastUpdate'
  BY <1>1, <1>5 DEF LastUpdate, IsOnline, IsOffline
<1> QED
  BY <1>7, <1>8, <1>9, <1>10, <1>11, <1>12, <1>13 DEF SessionInv, LogoutInv, CharacterInv, PlaceInv

-----------------------------------------------------------------------------
(* The login queue when a session leaves or enters _sessions. *)

\* y is x but for the login queue: m_inQueue, the position told, and the
\* initialisation that may have been started.
Same(y, x) ==
    /\ y.st = x.st /\ y.sock = x.sock /\ y.list = x.list /\ y.player = x.player
    /\ y.login = x.login /\ y.kicked = x.kicked

\* The queue Q, for the fields S, when the session of account a is not counted.
Ready(S, Q, a) ==
    /\ S \in [Sessions -> Fields] /\ Q \in Seq(Sessions)
    /\ \A i \in 1..Len(Q) : IsOnline(Q[i]) /\ Account[Q[i]] # a /\ S[Q[i]].told = i
    /\ \A i, j \in 1..Len(Q) : Q[i] = Q[j] => i = j
    /\ Q # <<>> => Limit > 0 /\ Cardinality(Online \ {a}) - Len(Q) >= Limit
    /\ Limit > 0 /\ ~Tolerance /\ Skippers = {} /\ ~final =>
           Cardinality(Online \ {a}) - Len(Q) <= Limit

\* The accounts online can be counted.
LEMMA OnlineCount ==
    ASSUME TypeOK, NEW a \in Accounts
    PROVE  /\ IsFiniteSet(Online) /\ Cardinality(Online) \in Nat
           /\ Cardinality(Online \ {a}) \in Nat
           /\ Cardinality(Online \ {a}) =
                  IF sessions[a] # Null THEN Cardinality(Online) - 1 ELSE Cardinality(Online)
<1>1. IsFiniteSet(Online)
  BY SessionsAssumption, FS_Subset DEF Online
<1>2. IsFiniteSet(Online \ {a})
  BY <1>1, FS_RemoveElement
<1>3. Cardinality(Online) \in Nat /\ Cardinality(Online \ {a}) \in Nat
  BY <1>1, <1>2, FS_CardinalityType
<1>4. a \in Online <=> sessions[a] # Null
  BY DEF Online
<1> QED
  BY <1>1, <1>3, <1>4, FS_RemoveElement

\* RemoveQueuedPlayer: who is left in the queue, and that they know their place.
LEMMA RemoveFacts ==
    ASSUME TypeOK, Waiting, NEW S \in [Sessions -> Fields], NEW s \in Sessions,
           \A t \in Sessions : S[t].told = ses[t].told
    PROVE  LET Q == RemoveQueuedPlayer(S, s).queue
               T == RemoveQueuedPlayer(S, s).ses
               m == CountWithout(s)
               l == Len(queue) - (IF s \in ToSet(queue) THEN 1 ELSE 0)
           IN  /\ T \in [Sessions -> Fields] /\ Q \in Seq(Sessions)
               /\ \A i \in 1..Len(Q) : /\ IsOnline(Q[i]) /\ Q[i] # s /\ T[Q[i]].told = i
               /\ \A i, j \in 1..Len(Q) : Q[i] = Q[j] => i = j
               /\ l \in Nat /\ Len(Q) = IF l # 0 /\ HasFreeSlot(m) THEN l - 1 ELSE l
               /\ \A t \in Sessions : Same(T[t], S[t])
               /\ \A t \in Sessions : Muted(T[t]) => /\ Muted(S[t])
                                                     /\ t # s /\ Waits(queue, t) => Waits(Q, t)
<1> DEFINE found == s \in ToSet(queue)
           pos   == IF found THEN CHOOSE n \in DOMAIN queue : queue[n] = s ELSE Len(queue) + 1
           rest  == IF found THEN RemoveAt(queue, pos) ELSE queue
           admit == rest # <<>> /\ HasFreeSlot(CountWithout(s))
           left  == IF admit THEN Tail(rest) ELSE rest
           Moved(t) == {n \in FirstMoved(admit, pos)..Len(left) : left[n] = t}
           T == [t \in Sessions |->
                    CASE found /\ t = s          -> [S[t] EXCEPT !.inQueue = FALSE]
                      [] admit /\ t = Head(rest) -> [S[t] EXCEPT !.init = "pending"]
                      [] Moved(t) # {}           -> [S[t] EXCEPT !.told = CHOOSE n \in Moved(t) : TRUE]
                      [] OTHER                   -> S[t]]
<1>5. RemoveQueuedPlayer(S, s).queue = left /\ RemoveQueuedPlayer(S, s).ses = T
  BY DEF RemoveQueuedPlayer
<1>1. PICK L : L = Len(queue)
  OBVIOUS
<1>a. /\ found <=> s \in ToSet(queue)
      /\ found => pos = CHOOSE n \in DOMAIN queue : queue[n] = s
      /\ ~found => pos = L + 1
  BY <1>1
<1>2. (found => rest = RemoveAt(queue, pos)) /\ (~found => rest = queue)
  OBVIOUS
<1>3. /\ admit <=> rest # <<>> /\ HasFreeSlot(CountWithout(s))
      /\ (admit => left = Tail(rest)) /\ (~admit => left = rest)
  OBVIOUS
<1>7. found \in BOOLEAN /\ admit \in BOOLEAN
  OBVIOUS
<1>4. T = [t \in Sessions |->
                    CASE found /\ t = s          -> [S[t] EXCEPT !.inQueue = FALSE]
                      [] admit /\ t = Head(rest) -> [S[t] EXCEPT !.init = "pending"]
                      [] Moved(t) # {}           -> [S[t] EXCEPT !.told = CHOOSE n \in Moved(t) : TRUE]
                      [] OTHER                   -> S[t]]
  OBVIOUS
<1> HIDE DEF T
<1> HIDE DEF left
<1> HIDE DEF admit
<1> HIDE DEF rest
<1> HIDE DEF pos
<1> HIDE DEF found
<1>6. /\ L \in Nat /\ \A i \in 1..L : queue[i] \in Sessions /\ IsOnline(queue[i]) /\ ses[queue[i]].told = i
      /\ \A i, j \in 1..L : queue[i] = queue[j] => i = j
      /\ queue \in Seq(Sessions) /\ DOMAIN queue = 1..L
  BY <1>1, SeqElements, LenProperties, ElementOfSeq DEF TypeOK, Waiting
<1>8. pos \in Nat /\ (found => pos \in 1..L /\ queue[pos] = s) /\ (~found => pos = L + 1)
  <2>1. CASE found
    <3>1. \E n \in 1..L : queue[n] = s
      <4>1. \A e \in ToSet(queue) : \E n \in 1..Len(queue) : e = queue[n]
        BY <1>6, SeqElements
      <4> QED
        BY <1>1, <1>a, <2>1, <4>1
    <3> QED
      BY <1>6, <1>a, <2>1, <3>1
  <2> QED
    BY <1>6, <1>7, <1>a, <2>1
<1>9. \A i \in 1..L : ~found => queue[i] # s
  <2>1. \A i \in 1..Len(queue) : queue[i] \in ToSet(queue)
    BY <1>6, SeqElements
  <2> QED
    BY <1>1, <1>a, <2>1
<1>10. PICK l : l = L - (IF found THEN 1 ELSE 0)
  OBVIOUS
<1>11. /\ l \in Nat /\ rest \in Seq(Sessions) /\ Len(rest) = l
       /\ \A i \in 1..l : rest[i] = IF i < pos THEN queue[i] ELSE queue[i + 1]
  <2>1. CASE found
    <3>1. rest = RemoveAt(queue, pos) /\ pos \in 1..Len(queue)
      BY <1>1, <1>2, <1>8, <2>1
    <3>2. /\ rest \in Seq(Sessions) /\ Len(rest) = Len(queue) - 1
          /\ \A i \in 1..(Len(queue) - 1) : rest[i] = IF i < pos THEN queue[i] ELSE queue[i + 1]
      <4>1. queue \in Seq(Sessions) /\ pos \in 1..Len(queue)
        BY <1>6, <3>1
      <4>2. /\ RemoveAt(queue, pos) \in Seq(Sessions) /\ Len(RemoveAt(queue, pos)) = Len(queue) - 1
            /\ \A i \in 1..(Len(queue) - 1) :
                   RemoveAt(queue, pos)[i] = IF i < pos THEN queue[i] ELSE queue[i + 1]
        BY ONLY <4>1, RemoveAtElements
      <4> QED
        BY ONLY <3>1, <4>2
    <3>3. l = L - 1 /\ L \in Nat /\ L >= 1
      BY <1>1, <1>6, <1>10, <2>1, <3>1
    <3> QED
      BY <1>1, <3>2, <3>3
  <2>2. CASE ~found
    BY <1>1, <1>2, <1>6, <1>8, <1>10, <2>2
  <2> QED
    BY <1>7, <2>1, <2>2
<1>12. /\ \A i \in 1..l : rest[i] \in Sessions /\ IsOnline(rest[i]) /\ rest[i] # s
       /\ \A i \in 1..l : i < pos => ses[rest[i]].told = i
       /\ \A i, j \in 1..l : rest[i] = rest[j] => i = j
  <2> DEFINE g(i) == IF i < pos THEN i ELSE i + 1
  <2>1. ASSUME NEW i \in 1..l PROVE g(i) \in 1..L /\ rest[i] = queue[g(i)] /\ (found => g(i) # pos)
    BY <1>6, <1>7, <1>8, <1>10, <1>11
  <2>2. ASSUME NEW i \in 1..l PROVE rest[i] \in Sessions /\ IsOnline(rest[i]) /\ rest[i] # s
    BY <1>6, <1>7, <1>8, <1>9, <2>1
  <2>3. ASSUME NEW i \in 1..l, i < pos PROVE ses[rest[i]].told = i
    BY <1>6, <2>1, <2>3
  <2>4. ASSUME NEW i \in 1..l, NEW j \in 1..l, rest[i] = rest[j] PROVE i = j
    <3>1. g(i) = g(j)
      BY <1>6, <2>1, <2>4
    <3> QED
      BY <1>8, <1>11, <3>1
  <2> QED
    BY <2>2, <2>3, <2>4
<1>13. admit => l >= 1 /\ Head(rest) = rest[1]
  <2>1. rest # <<>> => Len(rest) # 0
    BY <1>11, EmptySeq
  <2>2. rest # <<>> => Head(rest) = rest[1]
    BY <1>11, HeadTailProperties
  <2> QED
    BY <1>3, <1>11, <2>1, <2>2
<1>14. PICK k : k = IF admit THEN l - 1 ELSE l
  OBVIOUS
<1>15. /\ k \in Nat /\ left \in Seq(Sessions) /\ Len(left) = k
       /\ \A i \in 1..k : left[i] = IF admit THEN rest[i + 1] ELSE rest[i]
  <2>1. CASE admit
    <3>1. rest # <<>> /\ left = Tail(rest)
      BY <1>3, <2>1
    <3>2. /\ left \in Seq(Sessions) /\ Len(left) = Len(rest) - 1
          /\ \A i \in 1..(Len(rest) - 1) : left[i] = rest[i + 1]
      BY <1>11, <3>1, HeadTailProperties
    <3> QED
      BY <1>11, <1>13, <1>14, <2>1, <3>2
  <2>2. CASE ~admit
    BY <1>3, <1>11, <1>14, <2>2
  <2> QED
    BY <1>7, <2>1, <2>2
<1>16. /\ \A i \in 1..k : left[i] \in Sessions /\ IsOnline(left[i]) /\ left[i] # s
       /\ \A i \in 1..k : admit => left[i] # Head(rest)
       /\ \A i \in 1..k : ~admit /\ i < pos => ses[left[i]].told = i
       /\ \A i, j \in 1..k : left[i] = left[j] => i = j
  <2> DEFINE h(i) == IF admit THEN i + 1 ELSE i
  <2>1. ASSUME NEW i \in 1..k PROVE h(i) \in 1..l /\ left[i] = rest[h(i)] /\ (admit => h(i) # 1)
    BY <1>7, <1>11, <1>13, <1>14, <1>15
  <2>2. ASSUME NEW i \in 1..k
        PROVE  /\ left[i] \in Sessions /\ IsOnline(left[i]) /\ left[i] # s
               /\ ~admit /\ i < pos => ses[left[i]].told = i
    BY <1>12, <2>1
  <2>3. ASSUME NEW i \in 1..k, admit PROVE left[i] # Head(rest)
    <3>1. 1 \in 1..l
      BY <1>11, <1>13, <2>3
    <3> QED
      BY <1>12, <1>13, <2>1, <2>3, <3>1
  <2>4. ASSUME NEW i \in 1..k, NEW j \in 1..k, left[i] = left[j] PROVE i = j
    <3>1. h(i) = h(j)
      BY <1>12, <2>1, <2>4
    <3> QED
      BY <1>7, <1>15, <3>1
  <2> QED
    BY <2>2, <2>3, <2>4
<1>17. PICK fm : fm = FirstMoved(admit, pos)
  OBVIOUS
<1>18. fm \in Nat /\ (admit => fm = 1) /\ (~admit => fm = pos)
  BY <1>7, <1>8, <1>17 DEF FirstMoved
<1>19. \A t \in Sessions :
           T[t] = CASE found /\ t = s          -> [S[t] EXCEPT !.inQueue = FALSE]
                    [] admit /\ t = Head(rest) -> [S[t] EXCEPT !.init = "pending"]
                    [] Moved(t) # {}           -> [S[t] EXCEPT !.told = CHOOSE n \in Moved(t) : TRUE]
                    [] OTHER                   -> S[t]
  BY <1>4
<1>20. ASSUME NEW t \in Sessions
       PROVE  /\ T[t] \in Fields /\ Same(T[t], S[t]) /\ (Muted(T[t]) => Muted(S[t]))
              /\ t # s /\ admit /\ t = Head(rest) => ~Muted(T[t])
  <2>1. PICK x : x = S[t]
    OBVIOUS
  <2>2. x \in Fields
    BY <2>1
  <2>3. \A v \in BOOLEAN : Same([x EXCEPT !.inQueue = v], x)
    BY <2>2 DEF Fields, Same
  <2>4. Same([x EXCEPT !.init = "pending"], x)
    BY <2>2 DEF Fields, Same
  <2>5. \A v \in Nat : Same([x EXCEPT !.told = v], x)
    BY <2>2 DEF Fields, Same
  <2>6. Moved(t) # {} => (CHOOSE n \in Moved(t) : TRUE) \in Nat
    <3>1. Moved(t) \subseteq Nat
      BY <1>15, <1>17, <1>18
    <3> HIDE DEF Moved
    <3> QED
      BY <3>1
  <2>8. \/ found /\ t = s /\ T[t] = [x EXCEPT !.inQueue = FALSE]
        \/ admit /\ t = Head(rest) /\ T[t] = [x EXCEPT !.init = "pending"]
        \/ Moved(t) # {} /\ T[t] = [x EXCEPT !.told = CHOOSE n \in Moved(t) : TRUE]
        \/ T[t] = x
    <3> HIDE DEF Moved
    <3> QED
      BY <1>19, <2>1
  <2>9. Same(x, x)
    BY DEF Same
  <2> HIDE DEF Moved
  <2>10. T[t] \in Fields
    <3>1. x \in Fields => [x EXCEPT !.inQueue = FALSE] \in Fields
      BY FieldTypes
    <3>2. x \in Fields => [x EXCEPT !.init = "pending"] \in Fields
      BY FieldTypes
    <3>3. ASSUME NEW n \in Nat PROVE x \in Fields => [x EXCEPT !.told = n] \in Fields
      BY FieldTypes
    <3> QED
      BY <2>2, <2>6, <2>8, <3>1, <3>2, <3>3
  <2>11. Muted(T[t]) => Muted(x)
    <3>1. ~Muted([x EXCEPT !.inQueue = FALSE]) /\ ~Muted([x EXCEPT !.init = "pending"])
      BY <2>2 DEF Fields, Muted
    <3>2. \A v : Muted([x EXCEPT !.told = v]) => Muted(x)
      BY <2>2 DEF Fields, Muted
    <3> QED
      BY <2>8, <3>1, <3>2
  <2>12. t # s /\ admit /\ t = Head(rest) => ~Muted(T[t])
    <3>1. ~Muted([x EXCEPT !.init = "pending"])
      BY <2>2 DEF Fields, Muted
    <3>2. ASSUME t # s, admit, t = Head(rest) PROVE Moved(t) = {}
      <4> SUFFICES ASSUME NEW n \in Moved(t) PROVE FALSE
        OBVIOUS
      <4>1. n \in 1..k /\ left[n] = t
        BY <1>15, <1>17, <1>18, <3>2 DEF Moved
      <4> QED
        BY <1>16, <3>2, <4>1
    <3>3. ASSUME t # s, admit, t = Head(rest) PROVE T[t] = [x EXCEPT !.init = "pending"]
      <4> HIDE DEF Moved
      <4> QED
        BY <1>19, <2>1, <3>2, <3>3
    <3> QED
      BY <3>1, <3>3
  <2> QED
    BY <2>1, <2>3, <2>4, <2>5, <2>6, <2>8, <2>9, <2>10, <2>11, <2>12
<1>21. ASSUME NEW i \in 1..k PROVE T[left[i]].told = i
  <2>1. PICK t, x : t = left[i] /\ x = S[t]
    OBVIOUS
  <2>2. t \in Sessions /\ t # s /\ (admit => t # Head(rest)) /\ x \in Fields /\ x.told = ses[t].told
    BY <1>16, <2>1
  <2>3. T[t] = IF Moved(t) # {} THEN [x EXCEPT !.told = CHOOSE n \in Moved(t) : TRUE] ELSE x
    <3> HIDE DEF Moved
    <3> QED
      BY <1>19, <2>1, <2>2
  <2>4. CASE i >= fm
    <3>1. Moved(t) = {i}
      <4>1. i \in Moved(t)
        BY <1>15, <1>17, <1>18, <2>1, <2>4
      <4>2. ASSUME NEW n \in Moved(t) PROVE n = i
        <5>1. n \in fm..k /\ left[n] = t
          BY <1>15, <1>17
        <5>2. n >= 1
          BY <1>6, <1>7, <1>8, <1>15, <1>18, <5>1
        <5>3. n \in 1..k
          BY <1>15, <1>18, <5>1, <5>2
        <5> QED
          BY <1>16, <2>1, <5>1, <5>3
      <4> HIDE DEF Moved
      <4> QED
        BY <4>1, <4>2
    <3> HIDE DEF Moved
    <3>2. T[t] = [x EXCEPT !.told = i]
      BY <2>3, <3>1
    <3> QED
      BY <2>1, <2>2, <3>2 DEF Fields
  <2>5. CASE i < fm
    <3>1. ~admit /\ i < pos
      BY <1>7, <1>15, <1>18, <2>5
    <3>2. x.told = i
      BY <1>16, <2>1, <2>2, <3>1
    <3>3. Moved(t) = {}
      <4> SUFFICES ASSUME NEW n \in Moved(t) PROVE FALSE
        OBVIOUS
      <4>1. n \in fm..k /\ left[n] = t
        BY <1>15, <1>17
      <4>2. n \in 1..k /\ n > i
        BY <1>15, <1>18, <2>5, <4>1
      <4>3. n = i
        BY <1>16, <2>1, <4>1, <4>2
      <4> QED
        BY <1>15, <4>2, <4>3
    <3> HIDE DEF Moved
    <3> QED
      BY <2>1, <2>3, <3>2, <3>3
  <2> QED
    BY <1>15, <1>18, <2>4, <2>5
<1>22. T \in [Sessions -> Fields]
  <2> HIDE DEF Moved
  <2> QED
    BY <1>4, <1>20
<1>23. admit <=> l # 0 /\ HasFreeSlot(CountWithout(s))
  BY <1>3, <1>11, EmptySeq, LenProperties
<1> HIDE DEF Moved
<1>24. /\ \A i \in 1..Len(left) : /\ IsOnline(left[i]) /\ left[i] # s /\ T[left[i]].told = i
       /\ \A i, j \in 1..Len(left) : left[i] = left[j] => i = j
  BY <1>15, <1>16, <1>21
<1>25. Len(left) = IF l # 0 /\ HasFreeSlot(CountWithout(s)) THEN l - 1 ELSE l
  BY <1>7, <1>14, <1>15, <1>23
<1>26. l = Len(queue) - (IF s \in ToSet(queue) THEN 1 ELSE 0) /\ l \in Nat /\ left \in Seq(Sessions)
  BY <1>1, <1>10, <1>11, <1>15, <1>a
<1>27. \A t \in Sessions : Same(T[t], S[t])
  BY <1>20
<1>28. ASSUME NEW t \in Sessions, Muted(T[t]), t # s, Waits(queue, t) PROVE Waits(left, t)
  <2>1. PICK i \in 1..L : queue[i] = t
    BY <1>1, <1>28 DEF Waits
  <2>2. PICK j \in 1..l : rest[j] = t
    <3>1. CASE i < pos
      <4>1. i \in 1..l
        BY <1>6, <1>7, <1>8, <1>10, <1>11, <2>1, <3>1
      <4> QED
        BY <1>11, <2>1, <3>1, <4>1
    <3>2. CASE i >= pos
      <4>1. found /\ i # pos
        BY <1>6, <1>7, <1>8, <1>28, <2>1, <3>2
      <4>2. i - 1 \in 1..l /\ ~(i - 1 < pos) /\ (i - 1) + 1 = i
        BY <1>6, <1>8, <1>10, <1>11, <3>2, <4>1
      <4> QED
        BY <1>11, <2>1, <4>2
    <3> QED
      BY <1>6, <1>8, <3>1, <3>2
  <2>3. CASE ~admit
    BY <1>14, <1>15, <2>2, <2>3 DEF Waits
  <2>4. CASE admit
    <3>1. j # 1
      BY <1>13, <1>20, <1>28, <2>2, <2>4
    <3>2. j - 1 \in 1..k /\ (j - 1) + 1 = j
      BY <1>11, <1>14, <2>4, <3>1
    <3> QED
      BY <1>15, <2>2, <2>4, <3>2 DEF Waits
  <2> QED
    BY <1>7, <2>3, <2>4
<1>29. \A t \in Sessions : Muted(T[t]) => Muted(S[t]) /\ (t # s /\ Waits(queue, t) => Waits(left, t))
  BY <1>20, <1>28
<1> QED
  BY ONLY <1>5, <1>22, <1>24, <1>25, <1>26, <1>27, <1>29

\* A session has left the queue, or admitted another one, before it leaves _sessions.
LEMMA RemoveReady ==
    ASSUME SessionInv, NEW S \in [Sessions -> Fields], NEW s \in Sessions, IsOnline(s),
           \A t \in Sessions : S[t].told = ses[t].told
    PROVE  Ready(RemoveQueuedPlayer(S, s).ses, RemoveQueuedPlayer(S, s).queue, Account[s])
<1>0. TypeOK /\ Waiting /\ NoVainWait /\ WithinLimit
  BY DEF SessionInv, LogoutInv, CharacterInv, PlaceInv
<1>1. PICK Q, T, m, l : /\ Q = RemoveQueuedPlayer(S, s).queue /\ T = RemoveQueuedPlayer(S, s).ses
                        /\ m = CountWithout(s)
                        /\ l = Len(queue) - (IF s \in ToSet(queue) THEN 1 ELSE 0)
  OBVIOUS
<1>2. /\ T \in [Sessions -> Fields] /\ Q \in Seq(Sessions)
      /\ \A i \in 1..Len(Q) : IsOnline(Q[i]) /\ Q[i] # s /\ T[Q[i]].told = i
      /\ \A i, j \in 1..Len(Q) : Q[i] = Q[j] => i = j
      /\ l \in Nat /\ Len(Q) = IF l # 0 /\ HasFreeSlot(m) THEN l - 1 ELSE l
  BY <1>0, <1>1, RemoveFacts
<1>3. \A i \in 1..Len(Q) : Account[Q[i]] # Account[s]
  BY <1>2 DEF IsOnline
<1>4. PICK n, q, k : n = Cardinality(Online) /\ q = Len(queue) /\ k = Len(Q)
  OBVIOUS
<1>5. /\ n \in Nat /\ q \in Nat /\ k \in Nat /\ Limit \in Nat
      /\ Cardinality(Online \ {Account[s]}) = n - 1
  <2>1. Account[s] \in Accounts /\ sessions[Account[s]] # Null
    BY SessionsAssumption DEF IsOnline
  <2> QED
    BY <1>0, <1>2, <1>4, <2>1, OnlineCount, LimitAssumption, LenProperties DEF TypeOK
<1>6. CASE s \in ToSet(queue)
  <2>1. m = n - q /\ l = q - 1
    BY <1>1, <1>4, <1>6 DEF CountWithout, ActiveSessionCount
  <2>2. Limit > 0 /\ n - q >= Limit
    <3>1. queue # <<>>
      BY <1>0, <1>2, <1>4, <1>5, <2>1, EmptySeq DEF TypeOK
    <3> QED
      BY <1>0, <1>4, <3>1 DEF Waiting, NoVainWait, ActiveSessionCount
  <2>3. ~HasFreeSlot(m)
    BY <1>5, <2>1, <2>2 DEF HasFreeSlot
  <2>4. k = q - 1
    BY <1>2, <1>4, <2>1, <2>3
  <2>5. Limit > 0 /\ ~Tolerance /\ Skippers = {} /\ ~final => n - q <= Limit
    BY <1>0, <1>4 DEF WithinLimit, ActiveSessionCount
  <2> QED
    <3>1. (n - 1) - k = n - q
      BY <1>5, <2>4
    <3>2. Cardinality(Online \ {Account[s]}) - Len(Q) = n - q
      BY <1>4, <1>5, <3>1
    <3> QED
      BY <1>1, <1>2, <1>3, <2>2, <2>5, <3>2 DEF Ready
<1>7. CASE s \notin ToSet(queue)
  <2>1. m = n - q - 1 /\ l = q
    BY <1>1, <1>4, <1>5, <1>7 DEF CountWithout, ActiveSessionCount
  <2>2. Limit > 0 /\ ~Tolerance /\ Skippers = {} /\ ~final => n - q <= Limit
    BY <1>0, <1>4 DEF WithinLimit, ActiveSessionCount
  <2>3. ASSUME Q # <<>> PROVE Limit > 0 /\ n - 1 - k >= Limit
    <3>1. k > 0
      BY <1>2, <1>4, <1>5, <2>3, EmptySeq
    <3>2. q > 0
      BY <1>2, <1>4, <1>5, <2>1, <3>1
    <3>3. queue # <<>>
      BY <1>4, <3>2
    <3>4. Limit > 0 /\ n - q >= Limit
      BY <1>0, <1>4, <3>3 DEF Waiting, NoVainWait, ActiveSessionCount
    <3>5. CASE HasFreeSlot(m)
      BY <1>2, <1>4, <1>5, <2>1, <3>2, <3>4, <3>5
    <3>6. CASE ~HasFreeSlot(m)
      <4>1. m >= Limit /\ k = q
        BY <1>2, <1>4, <1>5, <2>1, <3>6 DEF HasFreeSlot
      <4> QED
        BY <1>5, <2>1, <3>4, <4>1
    <3> QED
      BY <3>5, <3>6
  <2>4. ASSUME Limit > 0, ~Tolerance, Skippers = {}, ~final PROVE n - 1 - k <= Limit
    BY <1>2, <1>4, <1>5, <2>1, <2>2, <2>4
  <2> QED
    BY <1>1, <1>2, <1>3, <1>4, <1>5, <2>3, <2>4 DEF Ready
<1> QED
  BY <1>6, <1>7

\* What happens to the sessions of account a does not matter to the rest of the queue.
LEMMA StillReady ==
    ASSUME NEW a \in Accounts, NEW S, NEW T, NEW Q, Ready(S, Q, a), T \in [Sessions -> Fields],
           \A t \in Sessions : Account[t] # a => T[t].told = S[t].told
    PROVE  Ready(T, Q, a)
<1>1. \A i \in 1..Len(Q) : Q[i] \in Sessions
  BY ElementOfSeq DEF Ready
<1> QED
  BY <1>1 DEF Ready

\* The session of account a has left _sessions.
LEMMA LeaveQueue ==
    ASSUME TypeOK, NEW a \in Accounts, Ready(ses', queue', a), UNCHANGED final,
           sessions' = [sessions EXCEPT ![a] = Null], ~Tolerance => disconnects' = {}
    PROVE  Waiting' /\ NoVainWait' /\ WithinLimit'
<1>1. Online' = Online \ {a}
  BY DEF TypeOK, Online
<1>2. PICK n, k : n = Cardinality(Online \ {a}) /\ k = Len(queue')
  OBVIOUS
<1>3. n = Cardinality(Online') /\ ActiveSessionCount' = n - k
  BY <1>1, <1>2 DEF ActiveSessionCount
<1>4. /\ queue' # <<>> => Limit > 0 /\ n - k >= Limit
      /\ Limit > 0 /\ ~Tolerance /\ Skippers = {} /\ ~final' => n - k <= Limit
  BY <1>2 DEF Ready
<1>5. \A i \in 1..Len(queue') : queue'[i] \in Sessions
  BY ElementOfSeq DEF Ready
<1>6. \A t \in Sessions : Account[t] # a /\ IsOnline(t) => sessions'[Account[t]] = t
  BY SessionsAssumption DEF TypeOK, IsOnline
<1>7. Waiting'
  BY <1>4, <1>5, <1>6 DEF Ready, Waiting, IsOnline
<1> QED
  BY <1>3, <1>4, <1>7 DEF NoVainWait, WithinLimit

\* A session of account a enters _sessions, and waits or is initialised.
LEMMA EnterQueue ==
    ASSUME TypeOK, NEW s \in Sessions, NEW S, NEW Q, NEW recent, Ready(S, Q, Account[s]),
           Enter(s, S, Q, recent), UNCHANGED final, ~Tolerance => recent = {}
    PROVE  /\ Waiting' /\ NoVainWait' /\ WithinLimit'
           /\ ses' \in [Sessions -> Fields] /\ queue' \in Seq(Sessions)
           /\ Same(ses'[s], S[s])
           /\ \A t \in Sessions : t # s => ses'[t] = S[t]
<1>1. PICK a, wait : /\ a = Account[s]
                     /\ wait <=> /\ ~HasFreeSlot(Cardinality(Online \ {a}))
                                 /\ a \notin Skippers \cup recent
  OBVIOUS
<1>2. /\ sessions' = [sessions EXCEPT ![a] = s] /\ disconnects' = recent
      /\ wait => /\ queue' = Append(Q, s)
                 /\ ses' = [S EXCEPT ![s].inQueue = TRUE, ![s].told = Len(Q) + 1]
      /\ ~wait => queue' = Q /\ ses' = [S EXCEPT ![s].init = "pending"]
  BY <1>1 DEF Enter
<1>3. /\ a \in Accounts /\ Ready(S, Q, a) /\ s # Null
  BY <1>1, SessionsAssumption
<1>4. Online' = (Online \ {a}) \cup {a}
  BY <1>2, <1>3 DEF TypeOK, Online
<1>5. PICK n, k : n = Cardinality(Online \ {a}) /\ k = Len(Q)
  OBVIOUS
<1>6. n \in Nat /\ k \in Nat /\ Limit \in Nat /\ Cardinality(Online') = n + 1
  <2>1. IsFiniteSet(Online \ {a})
    BY <1>3, OnlineCount, FS_RemoveElement
  <2>2. Cardinality((Online \ {a}) \cup {a}) = n + 1
    BY <1>5, <2>1, FS_AddElement
  <2> QED
    BY <1>3, <1>4, <1>5, <2>2, OnlineCount, LimitAssumption, LenProperties DEF Ready
<1>7. /\ S \in [Sessions -> Fields] /\ Q \in Seq(Sessions)
      /\ \A i \in 1..k : Q[i] \in Sessions /\ IsOnline(Q[i]) /\ Account[Q[i]] # a /\ S[Q[i]].told = i
      /\ \A i, j \in 1..k : Q[i] = Q[j] => i = j
      /\ Q # <<>> => Limit > 0 /\ n - k >= Limit
      /\ Limit > 0 /\ ~Tolerance /\ Skippers = {} /\ ~final => n - k <= Limit
  BY <1>3, <1>5, ElementOfSeq DEF Ready
<1>8. \A i \in 1..k : sessions'[Account[Q[i]]] = Q[i] /\ Q[i] # s
  BY <1>1, <1>2, <1>7, SessionsAssumption DEF TypeOK, IsOnline
<1>9. sessions'[Account[s]] = s
  BY <1>1, <1>2, <1>3 DEF TypeOK
<1>10. PICK x : x = S[s]
  OBVIOUS
<1>11. x \in Fields
  BY <1>7, <1>10
<1>12. CASE wait
  <2>1. PICK q : q = [[x EXCEPT !.inQueue = TRUE] EXCEPT !.told = k + 1]
    OBVIOUS
  <2>2. q \in Fields
    <3>1. [x EXCEPT !.inQueue = TRUE] \in Fields
      BY <1>11, FieldTypes
    <3>2. ASSUME NEW y \in Fields PROVE [y EXCEPT !.told = k + 1] \in Fields
      <4>1. k + 1 \in Nat
        BY <1>6
      <4> QED
        BY <4>1, FieldTypes
    <3> QED
      BY <2>1, <3>1, <3>2
  <2>3. Same(q, x) /\ q.told = k + 1
    BY <1>11, <2>1 DEF Fields, Same
  <2>4. ses' = [S EXCEPT ![s] = q]
    BY <1>2, <1>5, <1>7, <1>10, <1>12, <2>1
  <2>5. /\ ses' \in [Sessions -> Fields] /\ ses'[s] = q
        /\ \A t \in Sessions : t # s => ses'[t] = S[t]
    BY <1>7, <2>2, <2>4
  <2>6. /\ queue' \in Seq(Sessions) /\ Len(queue') = k + 1 /\ queue'[k + 1] = s
        /\ \A i \in 1..k : queue'[i] = Q[i]
    BY <1>2, <1>5, <1>7, <1>12, AppendProperties
  <2>7. Limit > 0 /\ n >= Limit /\ ActiveSessionCount' = n - k
    <3>1. ~HasFreeSlot(n)
      BY <1>1, <1>5, <1>12
    <3>2. Limit > 0 /\ n >= Limit
      BY <1>6, <3>1 DEF HasFreeSlot
    <3>3. ActiveSessionCount' = (n + 1) - (k + 1)
      BY <1>6, <2>6 DEF ActiveSessionCount
    <3> QED
      BY <1>6, <3>2, <3>3
  <2>8. n - k >= Limit
    <3>1. CASE Q = <<>>
      BY <1>5, <1>6, <2>7, <3>1
    <3> QED
      BY <1>7, <3>1
  <2>9. Waiting'
    <3>1. ASSUME NEW i \in 1..(k + 1) PROVE sessions'[Account[queue'[i]]] = queue'[i] /\ ses'[queue'[i]].told = i
      <4>1. CASE i \in 1..k
        BY <1>7, <1>8, <2>5, <2>6, <4>1
      <4>2. CASE i = k + 1
        BY <1>9, <2>3, <2>5, <2>6, <4>2
      <4> QED
        BY <1>6, <4>1, <4>2
    <3>2. ASSUME NEW i \in 1..(k + 1), NEW j \in 1..(k + 1), queue'[i] = queue'[j] PROVE i = j
      <4>1. CASE i \in 1..k /\ j \in 1..k
        BY <1>7, <2>6, <3>2, <4>1
      <4>2. CASE i = k + 1 \/ j = k + 1
        BY <1>6, <1>8, <2>6, <3>2, <4>2
      <4> QED
        BY <1>6, <4>1, <4>2
    <3> QED
      BY <1>2, <2>6, <2>7, <3>1, <3>2 DEF Waiting, IsOnline
  <2> QED
    BY <1>7, <1>10, <2>3, <2>5, <2>6, <2>7, <2>8, <2>9 DEF NoVainWait, WithinLimit
<1>13. CASE ~wait
  <2>1. PICK q : q = [x EXCEPT !.init = "pending"]
    OBVIOUS
  <2>2. q \in Fields
    BY <1>11, <2>1, FieldTypes
  <2>3. Same(q, x)
    BY <1>11, <2>1 DEF Fields, Same
  <2>4. ses' = [S EXCEPT ![s] = q]
    BY <1>2, <1>7, <1>10, <1>13, <2>1
  <2>5. /\ ses' \in [Sessions -> Fields] /\ ses'[s] = q
        /\ \A t \in Sessions : t # s => ses'[t] = S[t]
    BY <1>7, <2>2, <2>4
  <2>6. queue' = Q /\ ActiveSessionCount' = (n + 1) - k
    BY <1>2, <1>5, <1>6, <1>13 DEF ActiveSessionCount
  <2>7. NoVainWait'
    BY <1>6, <1>7, <2>6 DEF NoVainWait
  <2>8. WithinLimit'
    <3> SUFFICES ASSUME Limit > 0, ~Tolerance, Skippers = {}, ~final PROVE (n + 1) - k <= Limit
      BY <2>6 DEF WithinLimit
    <3>1. n < Limit
      BY <1>1, <1>5, <1>13 DEF HasFreeSlot
    <3> QED
      BY <1>6, <3>1
  <2>9. Waiting'
    BY <1>2, <1>5, <1>7, <1>8, <2>5, <2>6 DEF Waiting, IsOnline
  <2> QED
    BY <1>7, <1>10, <2>3, <2>5, <2>6, <2>7, <2>8, <2>9
<1> QED
  BY <1>12, <1>13

-----------------------------------------------------------------------------
(* Sessions that move between the maps. *)

\* A session that does not exist, in its fields.
Gone(r) == r.st # "live" /\ r.list = "none" /\ Claims(r) = {}

\* The fields S when the online session of account a has gone, off is its offline
\* session or Null, and every other session of it that was in a map is deleted.
Left(S, a, off) ==
    /\ S \in [Sessions -> Fields]
    /\ \A t \in Sessions : Account[t] # a => Same(S[t], ses[t])
    /\ \A t \in Sessions : Account[t] = a /\ t # off =>
           IF IsNew(t) THEN Same(S[t], ses[t]) ELSE Gone(S[t])
    /\ off # Null => /\ off \in Sessions /\ Account[off] = a /\ ~IsNew(off) /\ S[off].st = "live"
                     /\ Claims(S[off]) \subseteq Characters[a]
                     /\ off = offline[a] => Same(S[off], ses[off])

\* Account a gets a session on in _sessions, which was new, and off in
\* _offlineSessions, or none.
Moves(a, on, off) ==
    /\ ses' \in [Sessions -> Fields]
    /\ sessions' = [sessions EXCEPT ![a] = on] /\ offline' = [offline EXCEPT ![a] = off]
    /\ \A t \in Sessions : Account[t] # a => Same(ses'[t], ses[t])
    /\ \A t \in Sessions : Account[t] = a /\ t \notin {on, off} =>
           IF IsNew(t) THEN Same(ses'[t], ses[t]) ELSE Gone(ses'[t])
    /\ \A t \in Sessions : IsNew(t)' <=> IsNew(t) /\ t # on
    /\ \A i, j \in 1..Len(addQueue') : addQueue'[i] = addQueue'[j] => i = j
    /\ on # Null => /\ on \in Sessions /\ Account[on] = a /\ on # off /\ ses'[on].st = "live"
                    /\ Claims(ses'[on]) = {} /\ ses'[on].list = "none"
    /\ off # Null => /\ off \in Sessions /\ Account[off] = a /\ ~IsNew(off) /\ ses'[off].st = "live"
                     /\ Claims(ses'[off]) \subseteq Characters[a]
                     /\ off = offline[a] => Same(ses'[off], ses[off])

\* The same fields, but for the login queue, make the same claims.
LEMMA SameFacts ==
    ASSUME NEW x, NEW y, Same(y, x)
    PROVE  /\ y.st = x.st /\ y.sock = x.sock /\ y.list = x.list /\ y.player = x.player
           /\ y.kicked = x.kicked /\ Claims(y) = Claims(x)
BY SameClaims DEF Same

\* Such a move keeps sessions in their places and characters apart.
LEMMA MoveInv ==
    ASSUME SessionInv, NEW a \in Accounts, NEW on \in Sessions \cup {Null},
           NEW off \in Sessions \cup {Null}, Moves(a, on, off), stage' \in {stage, "sweep"}
    PROVE  /\ Places' /\ Playing' /\ Apart'
           /\ \A t \in Sessions :
                  /\ Account[t] # a => (IsOnline(t)' <=> IsOnline(t)) /\ (IsOffline(t)' <=> IsOffline(t))
                  /\ Account[t] = a => (IsOnline(t)' <=> t = on) /\ (IsOffline(t)' <=> t = off)
<1>0. TypeOK /\ Places /\ Playing /\ Apart
  BY DEF SessionInv, LogoutInv, CharacterInv, PlaceInv
<1>1. \A b \in Accounts : /\ sessions'[b] = IF b = a THEN on ELSE sessions[b]
                          /\ offline'[b] = IF b = a THEN off ELSE offline[b]
  BY <1>0 DEF Moves, TypeOK
<1>2. \A t \in Sessions : Account[t] \in Accounts /\ t # Null
  BY SessionsAssumption
<1>3. \A t \in Sessions :
          /\ Account[t] # a => (IsOnline(t)' <=> IsOnline(t)) /\ (IsOffline(t)' <=> IsOffline(t))
          /\ Account[t] = a => (IsOnline(t)' <=> t = on) /\ (IsOffline(t)' <=> t = off)
  BY <1>1, <1>2 DEF IsOnline, IsOffline
<1>4. \A t \in Sessions : /\ IsNew(t)' <=> IsNew(t) /\ t # on
                          /\ IsNew(t) => ses[t].st = "live" /\ ~IsOnline(t) /\ ~IsOffline(t)
  BY <1>0 DEF Moves, Places
<1>5. Places'
  <2>1. ASSUME NEW t \in Sessions
        PROVE  /\ ses'[t].st = "live" <=> IsOnline(t)' \/ IsOffline(t)' \/ IsNew(t)'
               /\ ~(IsOnline(t)' /\ IsOffline(t)')
               /\ IsNew(t)' => ~IsOnline(t)' /\ ~IsOffline(t)'
    <3>1. CASE Account[t] # a
      <4>1. ses'[t].st = ses[t].st /\ t # on
        BY <1>2, <3>1 DEF Moves, Same
      <4> QED
        BY <1>0, <1>3, <1>4, <3>1, <4>1 DEF Places
    <3>2. CASE Account[t] = a
      <4>1. CASE t = on
        BY <1>2, <1>3, <1>4, <3>2, <4>1 DEF Moves
      <4>2. CASE t = off /\ t # on
        BY <1>2, <1>3, <1>4, <3>2, <4>2 DEF Moves
      <4>3. CASE t \notin {on, off}
        <5>1. IF IsNew(t) THEN ses'[t].st = ses[t].st ELSE ses'[t].st # "live"
          BY <3>2, <4>3 DEF Moves, Same, Gone
        <5> QED
          BY <1>3, <1>4, <3>2, <4>3, <5>1
      <4> QED
        BY <4>1, <4>2, <4>3
    <3> QED
      BY <3>1, <3>2
  <2>2. \A b \in Accounts : /\ sessions'[b] # Null => Account[sessions'[b]] = b
                            /\ offline'[b] # Null => Account[offline'[b]] = b
    BY <1>0, <1>1 DEF Places, Moves
  <2> QED
    BY <2>1, <2>2 DEF Places, Moves
<1>6. Playing'
  <2> SUFFICES ASSUME NEW t \in Sessions
               PROVE  /\ Claims(ses'[t]) \subseteq Characters[Account[t]]
                      /\ ~IsOnline(t)' /\ ~IsOffline(t)' =>
                             Claims(ses'[t]) = {} /\ ses'[t].list = "none"
    BY DEF Playing
  <2>1. CASE Account[t] # a
    <3>1. Same(ses'[t], ses[t])
      BY <2>1 DEF Moves
    <3>2. Claims(ses'[t]) = Claims(ses[t]) /\ ses'[t].list = ses[t].list
      BY <3>1, SameFacts
    <3> QED
      BY <1>0, <1>3, <2>1, <3>2 DEF Playing
  <2>2. CASE Account[t] = a
    <3>1. CASE t = on
      BY <1>2, <1>3, <2>2, <3>1 DEF Moves
    <3>2. CASE t = off /\ t # on
      BY <1>2, <1>3, <2>2, <3>2 DEF Moves
    <3>3. CASE t \notin {on, off}
      <4>1. IsNew(t) => Claims(ses[t]) = {} /\ ses[t].list = "none"
        BY <1>0, <1>4 DEF Playing
      <4>2. IF IsNew(t) THEN Same(ses'[t], ses[t]) ELSE Gone(ses'[t])
        BY <2>2, <3>3 DEF Moves
      <4>3. Claims(ses'[t]) = {} /\ ses'[t].list = "none"
        BY <4>1, <4>2, SameFacts DEF Gone
      <4> QED
        BY <4>3
    <3> QED
      BY <3>1, <3>2, <3>3
  <2> QED
    BY <2>1, <2>2
<1>7. Apart'
  <2> SUFFICES ASSUME NEW u \in Sessions, NEW t \in Sessions, IsOnline(u)', IsOffline(t)',
                      Account[u] = Account[t], Claims(ses'[u]) # {}
               PROVE  /\ stage' \in {"packets", "callbacks", "sweep", "offline"}
                      /\ ses'[t].kicked \/ ses'[t].player = Null
                      /\ ses'[t].player \notin Claims(ses'[u])
    BY DEF Apart
  <2>1. CASE Account[t] # a
    <3>1. Same(ses'[t], ses[t]) /\ Same(ses'[u], ses[u])
      BY <2>1 DEF Moves
    <3>2. /\ ses'[t].player = ses[t].player /\ ses'[t].kicked = ses[t].kicked
          /\ Claims(ses'[u]) = Claims(ses[u])
      BY <3>1, SameFacts
    <3> QED
      BY <1>0, <1>3, <2>1, <3>2 DEF Apart
  <2>2. CASE Account[t] = a
    BY <1>2, <1>3, <2>2 DEF Moves
  <2> QED
    BY <2>1, <2>2
<1> QED
  BY <1>3, <1>5, <1>6, <1>7

\* ... and the last update on its way.
LEMMA LastMove ==
    ASSUME SessionInv, NEW a \in Accounts, NEW on \in Sessions \cup {Null},
           NEW off \in Sessions \cup {Null}, Moves(a, on, off),
           UNCHANGED <<stopping, final>>, final => off = offline[a],
           \/ ~final
           \/ stage = "add" /\ UNCHANGED <<stage, cur, todo>>
           \/ stage = "callbacks" /\ stage' = "sweep" /\ a = cur /\ todo' = todo \ {a} /\ on = Null
    PROVE  LastUpdate'
<1> SUFFICES ASSUME final PROVE LastUpdate'
  BY DEF LastUpdate
<1>0. LastUpdate /\ final /\ off = offline[a]
  BY DEF SessionInv, LogoutInv
<1>1. stopping' /\ stage' # "idle" /\ stage' # "stopped" /\ stage # "stopped"
  BY <1>0 DEF LastUpdate
<1>2. \A t \in Sessions :
          /\ Account[t] # a => (IsOnline(t)' <=> IsOnline(t)) /\ (IsOffline(t)' <=> IsOffline(t))
          /\ Account[t] = a => (IsOnline(t)' <=> t = on) /\ (IsOffline(t)' <=> t = off)
  BY <1>0, MoveInv
<1>3. \A t \in Sessions : t # Null
  BY SessionsAssumption
<1>4. ASSUME NEW t \in Sessions, IsOffline(t)' PROVE ses'[t].kicked
  <2>1. Same(ses'[t], ses[t]) /\ IsOffline(t)
    <3>1. CASE Account[t] # a
      BY <1>2, <1>4, <3>1 DEF Moves
    <3>2. CASE Account[t] = a
      BY <1>0, <1>2, <1>3, <1>4, <3>2 DEF Moves, IsOffline
    <3> QED
      BY <3>1, <3>2
  <2> QED
    BY <1>0, <1>1, <2>1 DEF LastUpdate, Same
<1>5. ASSUME NEW t \in Sessions, IsOnline(t)'
      PROVE  IF stage' = "add" \/ (stage' \in {"sweep", "packets", "callbacks"} /\ Account[t] \in todo')
             THEN \/ ses'[t].sock # "open"
                  \/ /\ Claims(ses'[t]) = {}
                     /\ ses'[t].list # "known" \/ (stage' = "callbacks" /\ Account[t] = cur')
             ELSE ses'[t].player = Null
  <2>1. CASE Account[t] = a
    <3>1. on = t /\ on # Null /\ stage' = "add"
      BY <1>0, <1>2, <1>3, <1>5, <2>1
    <3> QED
      BY <3>1 DEF Moves
  <2>2. CASE Account[t] # a
    <3>1. IsOnline(t) /\ Same(ses'[t], ses[t])
      BY <1>2, <1>5, <2>2 DEF Moves
    <3>2. /\ ses'[t].player = ses[t].player /\ ses'[t].sock = ses[t].sock
          /\ ses'[t].list = ses[t].list /\ Claims(ses'[t]) = Claims(ses[t])
      BY <3>1, SameFacts
    <3>3. CASE stage = "add" /\ UNCHANGED <<stage, cur, todo>>
      BY <1>0, <3>1, <3>2, <3>3 DEF LastUpdate
    <3>4. CASE stage = "callbacks" /\ stage' = "sweep" /\ a = cur /\ todo' = todo \ {a} /\ on = Null
      <4>1. IF Account[t] \in todo
            THEN \/ ses[t].sock # "open"
                 \/ Claims(ses[t]) = {} /\ ses[t].list # "known"
            ELSE ses[t].player = Null
        BY <1>0, <2>2, <3>1, <3>4 DEF LastUpdate
      <4> QED
        BY <2>2, <3>1, <3>2, <3>4, <4>1
    <3> QED
      BY <1>0, <3>3, <3>4
  <2> QED
    BY <2>1, <2>2
<1> QED
  BY <1>1, <1>4, <1>5 DEF LastUpdate

\* The fields of the other sessions, and of s, when s has left the login queue.
LEMMA LeaveFields ==
    ASSUME SessionInv, NEW S \in [Sessions -> Fields], NEW s \in Sessions, IsOnline(s),
           NEW T, T = RemoveQueuedPlayer(S, s).ses,
           \A t \in Sessions : S[t].told = ses[t].told /\ (t # s => S[t] = ses[t]),
           S[s].st = ses[s].st, S[s].player = ses[s].player, S[s].login = ses[s].login
    PROVE  /\ T \in [Sessions -> Fields]
           /\ \A t \in Sessions : t # s =>
                  /\ Same(T[t], ses[t])
                  /\ Account[t] = Account[s] =>
                         /\ ~IsOnline(t)
                         /\ IsNew(t) => ~IsOffline(t)
                         /\ ~IsNew(t) /\ ~IsOffline(t) => Gone(T[t])
           /\ T[s].st = "live" /\ Claims(T[s]) = Claims(ses[s])
           /\ ~IsNew(s) /\ ~IsOffline(s)
<1>0. TypeOK /\ Waiting /\ Places /\ Playing
  BY DEF SessionInv, LogoutInv, CharacterInv, PlaceInv
<1>1. T \in [Sessions -> Fields] /\ \A t \in Sessions : Same(T[t], S[t])
  BY <1>0, RemoveFacts
<1>2. ses[s].st = "live" /\ ~IsNew(s) /\ ~IsOffline(s)
  BY <1>0 DEF Places
<1>3. T[s].st = "live" /\ Claims(T[s]) = Claims(ses[s])
  BY <1>1, <1>2, SameClaims DEF Same
<1>4. ASSUME NEW t \in Sessions, t # s PROVE Same(T[t], ses[t])
  BY <1>1, <1>4
<1>5. ASSUME NEW t \in Sessions, t # s, Account[t] = Account[s]
      PROVE  /\ ~IsOnline(t)
             /\ IsNew(t) => ~IsOffline(t)
             /\ ~IsNew(t) /\ ~IsOffline(t) => Gone(T[t])
  <2>1. ~IsOnline(t)
    BY <1>5 DEF IsOnline
  <2>2. ~IsNew(t) /\ ~IsOffline(t) => Gone(ses[t])
    BY <1>0, <2>1 DEF Places, Playing, Gone
  <2>3. IsNew(t) => ~IsOffline(t)
    BY <1>0 DEF Places
  <2>4. Gone(ses[t]) => Gone(T[t])
    BY <1>4, <1>5, SameFacts DEF Gone
  <2> QED
    BY <2>1, <2>2, <2>3, <2>4
<1> QED
  BY <1>1, <1>2, <1>3, <1>4, <1>5

\* The offline session of an account, if there is one.
LEMMA OfflineFacts ==
    ASSUME SessionInv, NEW a \in Accounts, offline[a] # Null
    PROVE  /\ offline[a] \in Sessions /\ Account[offline[a]] = a /\ ~IsNew(offline[a])
           /\ IsOffline(offline[a]) /\ ~IsOnline(offline[a])
           /\ ses[offline[a]].st = "live" /\ Claims(ses[offline[a]]) \subseteq Characters[a]
<1>0. TypeOK /\ Places /\ Playing
  BY DEF SessionInv, LogoutInv, CharacterInv, PlaceInv
<1>1. PICK o : o = offline[a]
  OBVIOUS
<1>2. o \in Sessions /\ Account[o] = a /\ IsOffline(o)
  BY <1>0, <1>1 DEF TypeOK, Places, IsOffline
<1>3. ~IsNew(o) /\ ~IsOnline(o) /\ ses[o].st = "live"
  BY <1>0, <1>2 DEF Places
<1>4. Claims(ses[o]) \subseteq Characters[a]
  BY <1>0, <1>2 DEF Playing
<1> QED
  BY <1>1, <1>2, <1>3, <1>4

\* The session that leaves is deleted.
LEMMA DeletedLeft ==
    ASSUME SessionInv, NEW a \in Accounts, NEW S \in [Sessions -> Fields], NEW s \in Sessions,
           IsOnline(s), Account[s] = a, NEW T, T = RemoveQueuedPlayer(S, s).ses,
           \A t \in Sessions : S[t].told = ses[t].told /\ (t # s => S[t] = ses[t]),
           S[s].st = ses[s].st, S[s].player = ses[s].player, S[s].login = ses[s].login
    PROVE  Left([T EXCEPT ![s] = Deleted], a, offline[a])
<1>1. PICK Z : Z = [T EXCEPT ![s] = Deleted]
  OBVIOUS
<1>2. /\ Deleted \in Fields /\ Deleted.st = "deleted" /\ Deleted.list = "none"
      /\ Claims(Deleted) = {}
  BY NoSessionFacts DEF Deleted
<1>3. T \in [Sessions -> Fields]
  BY LeaveFields
<1>4. /\ Z \in [Sessions -> Fields] /\ Z[s] = Deleted /\ \A t \in Sessions : t # s => Z[t] = T[t]
  BY <1>1, <1>2, <1>3
<1>5. ASSUME NEW t \in Sessions, t # s
      PROVE  /\ Same(Z[t], ses[t])
             /\ Account[t] = a => ~IsOnline(t) /\ (~IsNew(t) /\ ~IsOffline(t) => Gone(Z[t]))
  <2>1. Z[t] = T[t]
    BY <1>4, <1>5
  <2>2. /\ Same(T[t], ses[t])
        /\ Account[t] = a => ~IsOnline(t) /\ (~IsNew(t) /\ ~IsOffline(t) => Gone(T[t]))
    BY <1>5, LeaveFields
  <2> QED
    BY <2>1, <2>2
<1>6. ~IsNew(s) /\ ~IsOffline(s)
  BY LeaveFields
<1>7. ASSUME NEW t \in Sessions, Account[t] = a, t # offline[a]
      PROVE  IF IsNew(t) THEN Same(Z[t], ses[t]) ELSE Gone(Z[t])
  <2>1. CASE t = s
    BY <1>2, <1>4, <1>6, <2>1 DEF Gone
  <2>2. CASE t # s
    BY <1>5, <1>7, <2>2 DEF IsOffline
  <2> QED
    BY <2>1, <2>2
<1>8. ASSUME offline[a] # Null
      PROVE  /\ offline[a] \in Sessions /\ Account[offline[a]] = a /\ ~IsNew(offline[a])
             /\ Z[offline[a]].st = "live" /\ Claims(Z[offline[a]]) \subseteq Characters[a]
             /\ Same(Z[offline[a]], ses[offline[a]])
  <2>1. PICK o : o = offline[a]
    OBVIOUS
  <2>2. /\ o \in Sessions /\ Account[o] = a /\ ~IsNew(o) /\ ~IsOnline(o)
        /\ ses[o].st = "live" /\ Claims(ses[o]) \subseteq Characters[a]
    BY <1>8, <2>1, OfflineFacts
  <2>3. Same(Z[o], ses[o])
    BY <1>5, <2>2
  <2>4. Z[o].st = ses[o].st /\ Claims(Z[o]) = Claims(ses[o])
    BY <2>3, SameFacts
  <2> QED
    BY <2>1, <2>2, <2>3, <2>4
<1>9. \A t \in Sessions : Account[t] # a => Same(Z[t], ses[t])
  BY <1>5
<1> QED
  BY <1>1, <1>4, <1>7, <1>8, <1>9 DEF Left

\* The session that leaves goes offline with its player, and an older one is deleted.
LEMMA OfflineLeft ==
    ASSUME SessionInv, NEW a \in Accounts, NEW S \in [Sessions -> Fields], NEW s \in Sessions,
           IsOnline(s), Account[s] = a, NEW T, T = RemoveQueuedPlayer(S, s).ses,
           \A t \in Sessions : S[t].told = ses[t].told /\ (t # s => S[t] = ses[t]),
           S[s].st = ses[s].st, S[s].player = ses[s].player, S[s].login = ses[s].login,
           ses[s].player # Null
    PROVE  Left(PutOffline(T, s), a, s)
<1>0. TypeOK /\ Places /\ Playing
  BY DEF SessionInv, LogoutInv, CharacterInv, PlaceInv
<1>1. PICK Z, r, o : Z = PutOffline(T, s) /\ r = T[s] /\ o = offline[a]
  OBVIOUS
<1>2. /\ Deleted \in Fields /\ Deleted.st = "deleted" /\ Deleted.list = "none"
      /\ Claims(Deleted) = {}
  BY NoSessionFacts DEF Deleted
<1>3. T \in [Sessions -> Fields]
  BY LeaveFields
<1>4. r \in Fields /\ [r EXCEPT !.sock = "null"] \in Fields
  BY <1>1, <1>3, FieldTypes
<1>5. PICK q : q = [r EXCEPT !.sock = "null"]
  OBVIOUS
<1>6. q.st = r.st /\ Claims(q) = Claims(r)
  <2>1. q.st = r.st /\ q.player = r.player /\ q.login = r.login
    BY <1>4, <1>5 DEF Fields
  <2> QED
    BY <2>1, SameClaims
<1>7. r.st = "live" /\ Claims(r) = Claims(ses[s]) /\ ~IsNew(s) /\ ~IsOffline(s)
  BY <1>1, LeaveFields
<1>8. Z = [t \in Sessions |-> CASE t = s -> [T[t] EXCEPT !.sock = "null"]
                                [] t = o -> Deleted
                                [] OTHER -> T[t]]
  BY <1>1 DEF PutOffline
<1>9. /\ Z[s] = q
      /\ \A t \in Sessions : t # s => Z[t] = IF t = o THEN Deleted ELSE T[t]
  <2>1. \A t \in Sessions : Z[t] = CASE t = s -> [T[t] EXCEPT !.sock = "null"]
                                     [] t = o -> Deleted
                                     [] OTHER -> T[t]
    BY <1>8
  <2>2. Z[s] = [T[s] EXCEPT !.sock = "null"]
    <3>1. s # o
      BY <1>1, <1>7 DEF IsOffline
    <3> QED
      BY <2>1, <3>1
  <2>3. ASSUME NEW t \in Sessions, t # s PROVE Z[t] = IF t = o THEN Deleted ELSE T[t]
    BY <2>1, <2>3
  <2> QED
    BY <1>1, <1>5, <2>2, <2>3
<1>10. Z \in [Sessions -> Fields]
  <2>1. \A t \in Sessions : Z[t] \in Fields
    BY <1>2, <1>3, <1>4, <1>5, <1>9
  <2> QED
    BY <1>8, <2>1
<1>11. o # Null => /\ o \in Sessions /\ Account[o] = a /\ ~IsNew(o)
  BY <1>1, OfflineFacts
<1>12. \A t \in Sessions : t # Null
  BY SessionsAssumption
<1>13. \A t \in Sessions : t # s =>
          /\ Same(T[t], ses[t])
          /\ Account[t] = a => ~IsOnline(t) /\ (~IsNew(t) /\ ~IsOffline(t) => Gone(T[t]))
  BY LeaveFields
<1>14. ASSUME NEW t \in Sessions, Account[t] # a PROVE Same(Z[t], ses[t])
  <2>1. t # s /\ t # o
    BY <1>11, <1>12, <1>14
  <2> QED
    BY <1>9, <1>13, <2>1
<1>15. ASSUME NEW t \in Sessions, Account[t] = a, t # s
       PROVE  IF IsNew(t) THEN Same(Z[t], ses[t]) ELSE Gone(Z[t])
  <2>1. CASE t = o
    BY <1>2, <1>9, <1>11, <1>12, <1>15, <2>1 DEF Gone
  <2>2. CASE t # o
    <3>1. Z[t] = T[t] /\ ~IsOffline(t)
      BY <1>1, <1>9, <1>15, <2>2 DEF IsOffline
    <3> QED
      BY <1>13, <1>15, <3>1
  <2> QED
    BY <2>1, <2>2
<1>16. q.st = "live" /\ Claims(q) \subseteq Characters[a] /\ s # offline[a]
  BY <1>0, <1>6, <1>7 DEF Playing, IsOffline
<1> QED
  BY <1>1, <1>7, <1>9, <1>10, <1>14, <1>15, <1>16 DEF Left

\* The account has no online session.
LEMMA NoneLeft ==
    ASSUME SessionInv, NEW a \in Accounts, sessions[a] = Null
    PROVE  Left(ses, a, offline[a]) /\ Ready(ses, queue, a)
<1>0. TypeOK /\ Places /\ Playing /\ Waiting /\ NoVainWait /\ WithinLimit
  BY DEF SessionInv, LogoutInv, CharacterInv, PlaceInv
<1>1. \A t \in Sessions : t # Null /\ Same(ses[t], ses[t])
  BY SessionsAssumption DEF Same
<1>2. ASSUME NEW t \in Sessions, Account[t] = a, t # offline[a], ~IsNew(t)
      PROVE  Gone(ses[t])
  <2>1. ~IsOnline(t) /\ ~IsOffline(t)
    BY <1>1, <1>2 DEF IsOnline, IsOffline
  <2> QED
    BY <1>0, <1>2, <2>1 DEF Places, Playing, Gone
<1>3. Left(ses, a, offline[a])
  <2>1. offline[a] # Null =>
           /\ offline[a] \in Sessions /\ Account[offline[a]] = a /\ ~IsNew(offline[a])
           /\ ses[offline[a]].st = "live" /\ Claims(ses[offline[a]]) \subseteq Characters[a]
    BY OfflineFacts
  <2> QED
    BY <1>0, <1>1, <1>2, <2>1 DEF Left, TypeOK
<1>4. \A i \in 1..Len(queue) : queue[i] \in Sessions /\ Account[queue[i]] # a
  BY <1>0, <1>1, ElementOfSeq DEF TypeOK, Waiting, IsOnline
<1>5. Cardinality(Online \ {a}) = Cardinality(Online)
  BY <1>0, OnlineCount
<1>6. Ready(ses, queue, a)
  BY <1>0, <1>4, <1>5 DEF Ready, TypeOK, Waiting, NoVainWait, WithinLimit, ActiveSessionCount
<1> QED
  BY <1>3, <1>6

\* The session has left.
LEMMA LeftMoves ==
    ASSUME SessionInv, NEW a \in Accounts, NEW off, Left(ses', a, off), UNCHANGED addQueue,
           sessions' = [sessions EXCEPT ![a] = Null], offline' = [offline EXCEPT ![a] = off]
    PROVE  Moves(a, Null, off)
<1>1. \A t \in Sessions : (IsNew(t)' <=> IsNew(t)) /\ t # Null
  BY SessionsAssumption DEF IsNew
<1>2. \A i, j \in 1..Len(addQueue') : addQueue'[i] = addQueue'[j] => i = j
  BY DEF SessionInv, LogoutInv, CharacterInv, PlaceInv, Places
<1> QED
  BY <1>1, <1>2 DEF Left, Moves

\* A new session takes the place.
LEMMA EnterMoves ==
    ASSUME SessionInv, NEW a \in Accounts, NEW off, NEW Z, Left(Z, a, off), NEW s \in Sessions,
           Account[s] = a, IsNew(s),
           \A t \in Sessions : IsNew(t)' <=> IsNew(t) /\ t # s,
           \A i, j \in 1..Len(addQueue') : addQueue'[i] = addQueue'[j] => i = j,
           sessions' = [sessions EXCEPT ![a] = s], offline' = [offline EXCEPT ![a] = off],
           ses' \in [Sessions -> Fields], Same(ses'[s], Z[s]),
           \A t \in Sessions : t # s => ses'[t] = Z[t]
    PROVE  Moves(a, s, off)
<1>0. Places /\ Playing
  BY DEF SessionInv, LogoutInv, CharacterInv, PlaceInv
<1>1. ses[s].st = "live" /\ Claims(ses[s]) = {} /\ ses[s].list = "none"
  BY <1>0 DEF Places, Playing
<1>2. s # off /\ s # Null
  BY SessionsAssumption DEF Left
<1>3. Same(Z[s], ses[s])
  BY <1>2 DEF Left
<1>4. ses'[s].st = "live" /\ Claims(ses'[s]) = {} /\ ses'[s].list = "none"
  <2>1. Z[s].st = "live" /\ Claims(Z[s]) = {} /\ Z[s].list = "none"
    BY <1>1, <1>3, SameFacts
  <2> QED
    BY <2>1, SameFacts
<1>5. off # Null => off \in Sessions /\ ses'[off] = Z[off]
  BY <1>2 DEF Left
<1>6. \A t \in Sessions : Account[t] # a => ses'[t] = Z[t]
  OBVIOUS
<1>7. \A t \in Sessions : Account[t] # a => Same(ses'[t], ses[t])
  BY <1>6 DEF Left
<1>8. \A t \in Sessions : Account[t] = a /\ t \notin {s, off} =>
           IF IsNew(t) THEN Same(ses'[t], ses[t]) ELSE Gone(ses'[t])
  BY DEF Left
<1>9. off # Null =>
          /\ off \in Sessions /\ Account[off] = a /\ ~IsNew(off) /\ ses'[off].st = "live"
          /\ Claims(ses'[off]) \subseteq Characters[a]
          /\ off = offline[a] => Same(ses'[off], ses[off])
  BY <1>5 DEF Left
<1> QED
  BY <1>2, <1>4, <1>7, <1>8, <1>9 DEF Moves

\* The world thread takes a session out of the map, in the sweep.
LEMMA LeaveSteps ==
    ASSUME SessionInv, RemoveSession \/ \E a \in Accounts : GoOffline(a)
    PROVE  SessionInv'
<1>0. /\ TypeOK /\ Places /\ Sweeping /\ Playing /\ Waiting /\ StoppedIsFinal /\ LastUpdate
  BY DEF SessionInv, LogoutInv, CharacterInv, PlaceInv
<1>1. PICK a \in Accounts :
          \/ RemoveSession /\ a = cur
          \/ GoOffline(a)
  <2>1. RemoveSession => cur \in Accounts
    BY <1>0 DEF RemoveSession, Sweeping, TypeOK
  <2> QED
    BY <2>1
<1>2. /\ UNCHANGED <<stray, addQueue, stopping, final, timer, idle, wanted>>
      /\ stage \in {"sweep", "callbacks"} /\ stage' = "sweep"
      /\ a \in todo /\ todo' = todo \ {a} /\ cur' \in {cur, Null}
  <2>1. CASE RemoveSession /\ a = cur
    BY <1>0, <2>1 DEF RemoveSession, netVars, stopVars, Sweeping
  <2>2. CASE GoOffline(a)
    BY <2>2 DEF GoOffline, netVars, stopVars
  <2> QED
    BY <1>1, <2>1, <2>2
<1>3. PICK s, T, Q : /\ s = sessions[a] /\ T = RemoveQueuedPlayer(ses, s).ses
                     /\ Q = RemoveQueuedPlayer(ses, s).queue
  OBVIOUS
<1>4. sessions[a] # Null /\ todo \subseteq Online
  BY <1>0, <1>2 DEF Sweeping, Online
<1>5. s \in Sessions /\ Account[s] = a /\ IsOnline(s)
  BY <1>0, <1>3, <1>4 DEF TypeOK, Places, IsOnline
<1>6. ses \in [Sessions -> Fields]
  BY <1>0 DEF TypeOK
<1>7. Ready(T, Q, a)
  BY <1>3, <1>5, <1>6, RemoveReady
<1>8. /\ queue' = Q /\ disconnects' = NoteDisconnect(s) /\ sessions' = [sessions EXCEPT ![a] = Null]
      /\ aged' \subseteq aged
  <2>1. CASE RemoveSession /\ a = cur
    BY <1>3, <2>1 DEF RemoveSession
  <2>2. CASE GoOffline(a)
    BY <1>3, <2>2 DEF GoOffline
  <2> QED
    BY <1>1, <2>1, <2>2
<1>9. disconnects' \subseteq Accounts /\ (~Tolerance => disconnects' = {})
  BY <1>0, <1>5, <1>8, SessionsAssumption DEF NoteDisconnect, TypeOK, Waiting
<1>10. PICK off \in Sessions \cup {Null} :
           /\ Left(ses', a, off) /\ offline' = [offline EXCEPT ![a] = off]
           /\ \/ ~final
              \/ stage = "callbacks" /\ a = cur /\ off = offline[a]
  <2>1. CASE RemoveSession /\ a = cur
    <3>1. ses' = [T EXCEPT ![s] = Deleted] /\ UNCHANGED offline /\ stage = "callbacks"
      BY <1>3, <2>1 DEF RemoveSession
    <3>2. Left(ses', a, offline[a])
      BY <1>3, <1>5, <1>6, <3>1, DeletedLeft
    <3>3. offline[a] \in Sessions \cup {Null} /\ offline = [offline EXCEPT ![a] = offline[a]]
      BY <1>0 DEF TypeOK
    <3> QED
      BY <2>1, <3>1, <3>2, <3>3
  <2>2. CASE GoOffline(a)
    <3>1. /\ ses' = PutOffline(T, s) /\ offline' = [offline EXCEPT ![a] = s]
          /\ ses[s].player # Null /\ ~stopping
      BY <1>3, <2>2 DEF GoOffline, HandleSocketClosed
    <3>2. Left(ses', a, s)
      BY <1>3, <1>5, <1>6, <3>1, OfflineLeft
    <3>3. ~final
      BY <1>0, <3>1 DEF LastUpdate
    <3> QED
      BY <1>5, <3>1, <3>2, <3>3
  <2> QED
    BY <1>1, <2>1, <2>2
<1>11. Moves(a, Null, off)
  BY <1>2, <1>8, <1>10, LeftMoves
<1>12. Places' /\ Playing' /\ Apart'
  BY <1>2, <1>11, MoveInv
<1>13. LastUpdate'
  BY <1>2, <1>10, <1>11, LastMove
<1>14. Waiting' /\ NoVainWait' /\ WithinLimit'
  <2>1. \A t \in Sessions : Account[t] # a => ses'[t].told = T[t].told
    <3>1. CASE RemoveSession /\ a = cur
      <4>1. ses' = [T EXCEPT ![s] = Deleted]
        BY <1>3, <3>1 DEF RemoveSession
      <4> QED
        BY <1>5, <1>7, <4>1 DEF Ready
    <3>2. CASE GoOffline(a)
      <4>1. ses' = PutOffline(T, s)
        BY <1>3, <3>2 DEF GoOffline
      <4>2. \A t \in Sessions : t # Null
        BY SessionsAssumption
      <4>3. \A t \in Sessions : Account[t] # a => t # s /\ t # offline[a]
        BY <1>0, <1>5, <4>2 DEF Places
      <4> QED
        BY <1>5, <4>1, <4>3 DEF PutOffline
    <3> QED
      BY <1>1, <3>1, <3>2
  <2>2. Ready(ses', Q, a)
    BY <1>7, <1>11, <2>1, StillReady DEF Moves
  <2>3. Ready(ses', queue', a)
    BY <1>8, <2>2
  <2> QED
    BY <1>0, <1>2, <1>8, <1>9, <2>3, LeaveQueue
<1>15. TypeOK'
  <2>1. ses' \in [Sessions -> Fields] /\ queue' \in Seq(Sessions)
    BY <1>7, <1>8, <1>11 DEF Moves, Ready
  <2>2. /\ sessions' \in [Accounts -> Sessions \cup {Null}]
        /\ offline' \in [Accounts -> Sessions \cup {Null}]
    BY <1>0, <1>8, <1>10 DEF TypeOK
  <2> QED
    BY <1>0, <1>2, <1>8, <1>9, <2>1, <2>2 DEF TypeOK
<1>16. Sweeping' /\ StoppedIsFinal'
  BY <1>0, <1>2, <1>4, <1>8 DEF Sweeping, StoppedIsFinal, Online, TypeOK
<1> QED
  BY <1>12, <1>13, <1>14, <1>15, <1>16 DEF SessionInv, LogoutInv, CharacterInv, PlaceInv

\* The world thread takes a new session into the map, for an older one or not.
LEMMA EnterSteps ==
    ASSUME SessionInv, AddNewSession \/ ReplaceSession
    PROVE  SessionInv'
<1>0. /\ TypeOK /\ Places /\ Playing /\ Waiting /\ StoppedIsFinal /\ LastUpdate
  BY DEF SessionInv, LogoutInv, CharacterInv, PlaceInv
<1>1. /\ UNCHANGED <<stray, stage, cur, todo, stopping, final, timer, idle, wanted>>
      /\ stage = "add" /\ addQueue # <<>> /\ addQueue' = Tail(addQueue)
  BY DEF AddNewSession, ReplaceSession, threadVars, stopVars
<1>2. PICK s, a : s = Head(addQueue) /\ a = Account[s]
  OBVIOUS
<1>3. /\ s \in Sessions /\ IsNew(s) /\ addQueue' \in Seq(Sessions)
      /\ \A t \in Sessions : IsNew(t)' <=> IsNew(t) /\ t # s
      /\ \A i, j \in 1..Len(addQueue') : addQueue'[i] = addQueue'[j] => i = j
  BY <1>0, <1>1, <1>2, TakesNew
<1>4. a \in Accounts /\ \A t \in Sessions : t # Null
  BY <1>2, <1>3, SessionsAssumption
<1>5. ses \in [Sessions -> Fields]
  BY <1>0 DEF TypeOK
<1>6. PICK Z, Q, recent, off :
          /\ Enter(s, Z, Q, recent) /\ Left(Z, a, off) /\ Ready(Z, Q, a)
          /\ off \in Sessions \cup {Null} /\ offline' = [offline EXCEPT ![a] = off]
          /\ final => off = offline[a]
          /\ aged' \subseteq aged /\ recent \subseteq Accounts /\ (~Tolerance => recent = {})
  <2>1. offline[a] \in Sessions \cup {Null} /\ offline = [offline EXCEPT ![a] = offline[a]]
    BY <1>0, <1>4 DEF TypeOK
  <2>2. CASE AddNewSession
    <3>1. sessions[a] = Null /\ Enter(s, ses, queue, disconnects) /\ UNCHANGED <<offline, aged>>
      BY <1>2, <2>2 DEF AddNewSession
    <3>2. Left(ses, a, offline[a]) /\ Ready(ses, queue, a)
      BY <1>4, <3>1, NoneLeft
    <3>3. disconnects \subseteq Accounts /\ (~Tolerance => disconnects = {})
      BY <1>0 DEF TypeOK, Waiting
    <3> QED
      BY <2>1, <3>1, <3>2, <3>3
  <2>3. CASE ReplaceSession
    <3>1. PICK old, S : old = sessions[a] /\ S = [ses EXCEPT ![old] = CloseSocket(@)]
      OBVIOUS
    <3>2. PICK T, R : /\ T = RemoveQueuedPlayer(S, old).ses
                      /\ R = RemoveQueuedPlayer(S, old).queue
      OBVIOUS
    <3>3. /\ old # Null
          /\ \/ /\ HandleSocketClosed(S[old])
                /\ offline' = [offline EXCEPT ![a] = old] /\ aged' = aged \ {offline[a]}
                /\ Enter(s, PutOffline(T, old), R, NoteDisconnect(old))
             \/ /\ UNCHANGED <<offline, aged>>
                /\ Enter(s, [T EXCEPT ![old] = Deleted], R, NoteDisconnect(old))
      BY <1>2, <2>3, <3>1, <3>2 DEF ReplaceSession
    <3>4. old \in Sessions /\ Account[old] = a /\ IsOnline(old)
      BY <1>0, <1>4, <3>1, <3>3 DEF TypeOK, Places, IsOnline
    <3>5. PICK r : r = ses[old]
      OBVIOUS
    <3>6. r \in Fields
      BY <1>5, <3>4, <3>5
    <3>7. /\ CloseSocket(r) \in Fields /\ CloseSocket(r).st = r.st /\ CloseSocket(r).told = r.told
          /\ CloseSocket(r).player = r.player /\ CloseSocket(r).login = r.login
      BY <3>6, FieldFacts
    <3>8. /\ S \in [Sessions -> Fields] /\ S[old] = CloseSocket(r)
          /\ \A t \in Sessions : t # old => S[t] = ses[t]
      BY <1>5, <3>1, <3>4, <3>5, <3>7
    <3>9. /\ \A t \in Sessions : S[t].told = ses[t].told /\ (t # old => S[t] = ses[t])
          /\ S[old].st = ses[old].st /\ S[old].player = ses[old].player
          /\ S[old].login = ses[old].login
      BY <3>5, <3>7, <3>8
    <3>10. Ready(T, R, a)
      BY <3>2, <3>4, <3>8, <3>9, RemoveReady
    <3>11. NoteDisconnect(old) \subseteq Accounts /\ (~Tolerance => NoteDisconnect(old) = {})
      BY <1>0, <3>4, SessionsAssumption DEF NoteDisconnect, TypeOK, Waiting
    <3>12. CASE /\ HandleSocketClosed(S[old])
                /\ offline' = [offline EXCEPT ![a] = old] /\ aged' = aged \ {offline[a]}
                /\ Enter(s, PutOffline(T, old), R, NoteDisconnect(old))
      <4>1. ses[old].player # Null /\ ~final
        BY <1>0, <3>9, <3>12 DEF HandleSocketClosed, LastUpdate
      <4>2. Left(PutOffline(T, old), a, old)
        BY <1>4, <3>2, <3>4, <3>8, <3>9, <4>1, OfflineLeft
      <4>3. \A t \in Sessions : Account[t] # a => t # old /\ t # offline[a]
        BY <1>0, <1>4, <3>4 DEF Places
      <4>4. \A t \in Sessions : Account[t] # a => PutOffline(T, old)[t].told = T[t].told
        BY <3>4, <4>3 DEF PutOffline
      <4>5. Ready(PutOffline(T, old), R, a)
        BY <1>4, <3>10, <4>2, <4>4, StillReady DEF Left
      <4> QED
        BY <3>4, <3>11, <3>12, <4>1, <4>2, <4>5
    <3>13. CASE /\ UNCHANGED <<offline, aged>>
                /\ Enter(s, [T EXCEPT ![old] = Deleted], R, NoteDisconnect(old))
      <4>1. Left([T EXCEPT ![old] = Deleted], a, offline[a])
        BY <1>4, <3>2, <3>4, <3>8, <3>9, DeletedLeft
      <4>2. \A t \in Sessions : Account[t] # a => [T EXCEPT ![old] = Deleted][t].told = T[t].told
        BY <3>4, <3>10 DEF Ready
      <4>3. Ready([T EXCEPT ![old] = Deleted], R, a)
        BY <1>4, <3>10, <4>1, <4>2, StillReady DEF Left
      <4> QED
        BY <2>1, <3>11, <3>13, <4>1, <4>3
    <3> QED
      BY <3>3, <3>12, <3>13
  <2> QED
    BY <2>2, <2>3
<1>7. /\ Waiting' /\ NoVainWait' /\ WithinLimit'
      /\ ses' \in [Sessions -> Fields] /\ queue' \in Seq(Sessions)
      /\ Same(ses'[s], Z[s])
      /\ \A t \in Sessions : t # s => ses'[t] = Z[t]
  BY <1>0, <1>1, <1>2, <1>3, <1>6, EnterQueue
<1>8. sessions' = [sessions EXCEPT ![a] = s] /\ disconnects' = recent
  BY <1>2, <1>6 DEF Enter
<1>9. Moves(a, s, off)
  BY <1>2, <1>3, <1>4, <1>6, <1>7, <1>8, EnterMoves
<1>10. Places' /\ Playing' /\ Apart'
  BY <1>1, <1>3, <1>4, <1>6, <1>9, MoveInv
<1>11. LastUpdate'
  BY <1>1, <1>3, <1>4, <1>6, <1>9, LastMove
<1>12. TypeOK'
  <2>1. /\ sessions' \in [Accounts -> Sessions \cup {Null}]
        /\ offline' \in [Accounts -> Sessions \cup {Null}]
    BY <1>0, <1>3, <1>4, <1>6, <1>8 DEF TypeOK
  <2>2. disconnects' \in SUBSET Accounts /\ aged' \in SUBSET Sessions
    BY <1>0, <1>6, <1>8 DEF TypeOK
  <2> QED
    BY <1>0, <1>1, <1>3, <1>7, <2>1, <2>2 DEF TypeOK
<1>13. Sweeping' /\ StoppedIsFinal'
  BY <1>0, <1>1 DEF Sweeping, StoppedIsFinal
<1> QED
  BY <1>7, <1>10, <1>11, <1>12, <1>13 DEF SessionInv, LogoutInv, CharacterInv, PlaceInv

-----------------------------------------------------------------------------
(* The invariant, and what follows from it. *)

\* There are no sessions at first.
LEMMA InitSessionInv == Init => SessionInv
<1> SUFFICES ASSUME Init PROVE SessionInv
  OBVIOUS
<1>1. PICK none : none = NoSession("none")
  OBVIOUS
<1>2. none \in Fields /\ none.st = "none" /\ none.list = "none" /\ Claims(none) = {}
  BY <1>1, NoSessionFacts
<1>3. ses = [s \in Sessions |-> none]
  BY <1>1 DEF Init
<1>4. \A s \in Sessions : ses[s] = none /\ s # Null /\ Account[s] \in Accounts
  BY <1>3, SessionsAssumption
<1>5. TypeOK
  <2>1. ses \in [Sessions -> Fields]
    BY <1>2, <1>3
  <2>2. addQueue \in Seq(Sessions) /\ queue \in Seq(Sessions)
    BY EmptySeq DEF Init
  <2>3. /\ sessions \in [Accounts -> Sessions \cup {Null}]
        /\ offline \in [Accounts -> Sessions \cup {Null}]
    BY DEF Init
  <2> QED
    BY <2>1, <2>2, <2>3 DEF Init, TypeOK
<1>6. \A s \in Sessions : ~IsOnline(s) /\ ~IsOffline(s) /\ ~IsNew(s)
  BY <1>4 DEF Init, IsOnline, IsOffline, IsNew
<1>7. Places
  BY <1>2, <1>4, <1>6 DEF Init, Places
<1>8. Sweeping /\ LastUpdate /\ StoppedIsFinal
  BY DEF Init, Sweeping, LastUpdate, StoppedIsFinal
<1>9. Playing /\ Apart
  BY <1>2, <1>4, <1>6 DEF Playing, Apart
<1>10. Waiting /\ NoVainWait
  BY DEF Init, Waiting, NoVainWait
<1>11. WithinLimit
  <2>1. Online = {}
    BY DEF Init, Online
  <2>2. ActiveSessionCount = 0
    BY <2>1, FS_EmptySet DEF Init, ActiveSessionCount
  <2> QED
    BY <2>2, LimitAssumption DEF WithinLimit
<1> QED
  BY <1>5, <1>7, <1>8, <1>9, <1>10, <1>11 DEF SessionInv, LogoutInv, CharacterInv, PlaceInv

\* Every step keeps the invariant.
LEMMA NextSessionInv == SessionInv /\ [Next]_vars => SessionInv'
<1> SUFFICES ASSUME SessionInv, [Next]_vars PROVE SessionInv'
  OBVIOUS
<1>1. CASE UNCHANGED vars
  <2>1. /\ UNCHANGED <<ses, stray, addQueue, sessions, offline, queue, disconnects, aged, stage, cur, todo>>
        /\ UNCHANGED <<stopping, final, timer, idle, wanted>>
    BY <1>1 DEF vars, netVars, mapVars, threadVars, stopVars
  <2> QED
    BY <2>1 DEF SessionInv, LogoutInv, CharacterInv, PlaceInv, TypeOK, Places, Sweeping, Playing,
       Apart, LastUpdate, StoppedIsFinal, Waiting, NoVainWait, WithinLimit, IsOnline, IsOffline,
       IsNew, Online, ActiveSessionCount
<1>2. CASE Update
  <2>1. CASE BeginUpdate \/ AllAdded \/ OtherPackets \/ AllUpdated
             \/ \E a \in Accounts : BeginSessionUpdate(a)
    BY <2>1, OtherSteps
  <2>2. CASE RefuseSession
    BY <2>2, RefuseStep
  <2>3. CASE AddNewSession \/ ReplaceSession
    BY <2>3, EnterSteps
  <2>4. CASE KickAll
    BY <2>4, KickAllStep
  <2>5. CASE KeepSession
    BY <2>5, KeepStep
  <2>6. CASE RemoveSession \/ \E a \in Accounts : GoOffline(a)
    BY <2>6, LeaveSteps
  <2>7. CASE EndOffline
    BY <2>7, EndStep
  <2>8. CASE \E s \in Sessions : Handlers(s)
    <3>1. PICK s \in Sessions : Handlers(s)
      BY <2>8
    <3>2. CASE \E c \in AllCharacters : LoginFromDatabase(s, c) \/ TakeOver(s, c)
      BY <3>2, LoginSteps
    <3>3. CASE \/ HandleCharEnumOpcode(s) \/ LoginDisabled(s) \/ LoginForeign(s)
               \/ \E c \in AllCharacters : LoginRefused(s, c)
      BY <3>3, VainSteps
    <3>4. CASE Callback(s)
      BY <3>4, CallbackSteps
    <3> QED
      BY <3>1, <3>2, <3>3, <3>4 DEF Handlers
  <2> QED
    BY <1>2, <2>1, <2>2, <2>3, <2>4, <2>5, <2>6, <2>7, <2>8 DEF Update
<1>3. CASE MinutePasses \/ StopNow \/ ShutdownCancel
           \/ \E t \in Times, i \in BOOLEAN : ShutdownServ(t, i)
  BY <1>3, OtherSteps
<1>4. CASE \E a \in Accounts : ToleranceExpires(a)
  BY <1>4, ToleranceStep
<1>5. CASE \E s \in Sessions : AddSession(s) \/ Disconnect(s) \/ Kick(s)
  BY <1>5, AddStep, CloseSteps
<1> QED
  BY <1>1, <1>2, <1>3, <1>4, <1>5 DEF Next, Stopped

\* The invariant of the sessions: their places, their characters, the last update
\* and the login queue.
THEOREM SessionInvariance == Spec => []SessionInv
<1>1. Init => SessionInv
  BY InitSessionInv
<1>2. SessionInv /\ [Next]_vars => SessionInv'
  BY NextSessionInv
<1> QED
  BY <1>1, <1>2, PTL DEF Spec

\* _sessions, _offlineSessions and _addSessQueue hold every session that exists,
\* once, and none that was deleted, for any number of accounts and sessions.
THEOREM AlwaysAccounted == Spec => []SessionsAccounted
<1>1. SessionInv => SessionsAccounted
  <2> SUFFICES ASSUME SessionInv PROVE SessionsAccounted
    OBVIOUS
  <2>0. TypeOK /\ Places
    BY DEF SessionInv, LogoutInv, CharacterInv, PlaceInv
  <2>1. \A s \in Sessions : s # Null /\ Account[s] \in Accounts
    BY SessionsAssumption
  <2>2. OnlineSessions = {s \in Sessions : IsOnline(s)}
    BY <2>0, <2>1 DEF OnlineSessions, Online, IsOnline, TypeOK, Places
  <2>3. OfflineSessions = {s \in Sessions : IsOffline(s)}
    BY <2>0, <2>1 DEF OfflineSessions, Offline, IsOffline, TypeOK, Places
  <2>4. /\ DOMAIN addQueue = 1..Len(addQueue) /\ ToSet(addQueue) \subseteq Sessions
        /\ \A i \in 1..Len(addQueue) : addQueue[i] \in ToSet(addQueue)
        /\ \A e \in ToSet(addQueue) : \E i \in 1..Len(addQueue) : e = addQueue[i]
    BY <2>0, SeqElements DEF TypeOK
  <2>5. ToSet(addQueue) = {s \in Sessions : IsNew(s)}
    BY <2>4 DEF IsNew
  <2>6. IsInjective(addQueue)
    BY <2>0, <2>4 DEF Places, IsInjective
  <2> QED
    BY <2>0, <2>2, <2>3, <2>5, <2>6 DEF SessionsAccounted, Places
<1> QED
  BY <1>1, SessionInvariance, PTL

\* However clients disconnect, come back, are replaced and ask for characters, no
\* character is played in two sessions, and the session that waits to load one that
\* another session plays ends with this update, before the answer can reach it.
THEOREM NeverTwice == Spec => []OneCharacter
<1>1. SessionInv => OneCharacter
  <2> SUFFICES ASSUME SessionInv, NEW s \in Sessions, NEW t \in Sessions, s # t,
                      ses[s].player # Null
               PROVE  /\ ses[t].player # ses[s].player
                      /\ ses[t].login[ses[s].player] > 0 =>
                            /\ t \in OfflineSessions /\ (ses[t].kicked \/ ses[t].player = Null)
                            /\ stage \in {"packets", "callbacks", "sweep", "offline"}
    BY DEF OneCharacter
  <2>0. TypeOK /\ Places /\ Playing /\ Apart
    BY DEF SessionInv, LogoutInv, CharacterInv, PlaceInv
  <2>1. PICK c : c = ses[s].player
    OBVIOUS
  <2>2. ses[s] \in Fields /\ ses[t] \in Fields
    BY <2>0 DEF TypeOK
  <2>3. c \in Claims(ses[s]) /\ c \in AllCharacters /\ c # Null
    BY <2>1, <2>2, ClaimFacts
  <2>4. (ses[t].player = c => c \in Claims(ses[t])) /\ (ses[t].login[c] > 0 => c \in Claims(ses[t]))
    BY <2>2, <2>3, ClaimFacts
  <2>5. CASE c \notin Claims(ses[t])
    BY <2>1, <2>4, <2>5
  <2>6. CASE c \in Claims(ses[t])
    <3>1. Account[s] = Account[t]
      <4>1. c \in Characters[Account[s]] /\ c \in Characters[Account[t]]
        BY <2>0, <2>3, <2>6 DEF Playing
      <4> QED
        BY <4>1, SessionsAssumption, CharactersAssumption
    <3>2. (IsOnline(s) \/ IsOffline(s)) /\ (IsOnline(t) \/ IsOffline(t))
      BY <2>0, <2>3, <2>6 DEF Playing
    <3>3. ~(IsOffline(s) /\ IsOnline(t))
      BY <2>0, <2>1, <2>6, <3>1 DEF Apart
    <3>4. IsOnline(s) /\ IsOffline(t)
      BY <3>1, <3>2, <3>3 DEF IsOnline, IsOffline
    <3>5. /\ stage \in {"packets", "callbacks", "sweep", "offline"}
          /\ ses[t].kicked \/ ses[t].player = Null
          /\ ses[t].player # c
      BY <2>0, <2>3, <3>1, <3>4 DEF Apart
    <3>6. t \in OfflineSessions
      BY <3>4, SessionsAssumption DEF IsOffline, OfflineSessions, Offline
    <3> QED
      BY <2>1, <3>5, <3>6
  <2> QED
    BY <2>5, <2>6
<1> QED
  BY <1>1, SessionInvariance, PTL

\* Of two sessions of an account that both play, one is offline, kicked, and ends
\* with this update: an account is logged in with one character at a time.
THEOREM OneAtATime == Spec => []OneOnlineCharacter
<1>1. SessionInv => OneOnlineCharacter
  <2> SUFFICES ASSUME SessionInv, NEW s \in Sessions, NEW t \in Sessions, s # t,
                      Account[s] = Account[t], ses[s].player # Null, ses[t].player # Null
               PROVE  /\ \E r \in {s, t} : r \in OfflineSessions /\ ses[r].kicked
                      /\ stage \in {"packets", "callbacks", "sweep", "offline"}
    BY DEF OneOnlineCharacter
  <2>0. TypeOK /\ Playing /\ Apart
    BY DEF SessionInv, LogoutInv, CharacterInv, PlaceInv
  <2>1. ses[s] \in Fields /\ ses[t] \in Fields
    BY <2>0 DEF TypeOK
  <2>2. Claims(ses[s]) # {} /\ Claims(ses[t]) # {}
    BY <2>1, ClaimFacts
  <2>3. (IsOnline(s) \/ IsOffline(s)) /\ (IsOnline(t) \/ IsOffline(t))
    BY <2>0, <2>2 DEF Playing
  <2>4. ~(IsOnline(s) /\ IsOnline(t)) /\ ~(IsOffline(s) /\ IsOffline(t))
    BY DEF IsOnline, IsOffline
  <2>5. ASSUME NEW p \in {s, t}, NEW q \in {s, t}, IsOnline(p), IsOffline(q)
        PROVE  /\ q \in OfflineSessions /\ ses[q].kicked
               /\ stage \in {"packets", "callbacks", "sweep", "offline"}
    <3>1. ses[q].kicked /\ stage \in {"packets", "callbacks", "sweep", "offline"}
      BY <2>0, <2>2, <2>5 DEF Apart
    <3>2. q \in OfflineSessions
      BY <2>5, SessionsAssumption DEF IsOffline, OfflineSessions, Offline
    <3> QED
      BY <3>1, <3>2
  <2> QED
    BY <2>3, <2>4, <2>5
<1> QED
  BY <1>1, SessionInvariance, PTL

\* KickAll and the last UpdateSessions log out the player of every session: of those
\* online, those whose client was gone, and those that were loading one or just
\* coming.
THEOREM NobodyLeftBehind == Spec => []AllLoggedOut
<1>1. SessionInv => AllLoggedOut
  <2> SUFFICES ASSUME SessionInv, stage = "stopped", NEW s \in Sessions PROVE ses[s].player = Null
    BY DEF AllLoggedOut
  <2>0. TypeOK /\ Playing /\ LastUpdate /\ final
    BY DEF SessionInv, LogoutInv, CharacterInv, PlaceInv, StoppedIsFinal
  <2>1. ~IsOffline(s)
    BY <2>0, SessionsAssumption DEF LastUpdate, IsOffline
  <2>2. CASE IsOnline(s)
    BY <2>0, <2>2 DEF LastUpdate
  <2>3. CASE ~IsOnline(s)
    <3>1. Claims(ses[s]) = {} /\ ses[s] \in Fields
      BY <2>0, <2>1, <2>3 DEF Playing, TypeOK
    <3> QED
      BY <3>1, ClaimFacts
  <2> QED
    BY <2>2, <2>3
<1> QED
  BY <1>1, SessionInvariance, PTL

\* The raw pointers of _queuedPlayer are to sessions of _sessions only, and to none
\* twice.
THEOREM QueueNeverDangles == Spec => []QueueIsOnline
<1>1. SessionInv => QueueIsOnline
  <2> SUFFICES ASSUME SessionInv PROVE QueueIsOnline
    OBVIOUS
  <2>0. TypeOK /\ Waiting
    BY DEF SessionInv, LogoutInv, CharacterInv, PlaceInv
  <2>1. /\ DOMAIN queue = 1..Len(queue) /\ ToSet(queue) \subseteq Sessions
        /\ \A e \in ToSet(queue) : \E i \in 1..Len(queue) : e = queue[i]
    BY <2>0, SeqElements DEF TypeOK
  <2>2. IsInjective(queue)
    BY <2>0, <2>1 DEF Waiting, IsInjective
  <2>3. ASSUME NEW e \in ToSet(queue) PROVE e \in OnlineSessions
    <3>1. e \in Sessions /\ IsOnline(e)
      BY <2>0, <2>1 DEF Waiting
    <3> QED
      BY <3>1, SessionsAssumption DEF IsOnline, OnlineSessions, Online
  <2> QED
    BY <2>2, <2>3 DEF QueueIsOnline
<1> QED
  BY <1>1, SessionInvariance, PTL

\* Whoever leaves _queuedPlayer, and from which position, every client that still
\* waits was last told the position it now has.
THEOREM AlwaysToldPosition == Spec => []ToldPosition
<1>1. SessionInv => ToldPosition
  <2> SUFFICES ASSUME SessionInv PROVE ToldPosition
    OBVIOUS
  <2>1. DOMAIN queue = 1..Len(queue)
    BY SeqElements DEF SessionInv, LogoutInv, CharacterInv, PlaceInv, TypeOK
  <2> QED
    BY <2>1 DEF SessionInv, Waiting, ToldPosition
<1> QED
  BY <1>1, SessionInvariance, PTL

\* For any limit nobody waits in the login queue while there is room: AddSession_
\* and RemoveQueuedPlayer count the active sessions right, replaced ones included.
THEOREM NobodyWaitsInVain == Spec => []NoVainWait
<1>1. SessionInv => NoVainWait
  BY DEF SessionInv
<1> QED
  BY <1>1, SessionInvariance, PTL

\* For any limit a realm without privileged accounts and without tolerance is never
\* fuller than it.
THEOREM NeverTooFull == Spec => []WithinLimit
<1>1. SessionInv => WithinLimit
  BY DEF SessionInv
<1> QED
  BY <1>1, SessionInvariance, PTL

-----------------------------------------------------------------------------
(* Clients that have left the login queue. *)

\* Steps that move nobody, and unmute or leave alone the sessions they touch.
LEMMA MutedKept ==
    ASSUME MutedWaits, UNCHANGED <<sessions, queue>>, final => final',
           \A t \in Sessions : Muted(ses'[t]) => Muted(ses[t])
    PROVE  MutedWaits'
BY DEF MutedWaits, IsOnline, Waits

\* The fields that mute a session are the same.
LEMMA SameMuted ==
    ASSUME NEW x, NEW y, y.inQueue = x.inQueue, y.init = x.init
    PROVE  Muted(y) <=> Muted(x)
BY DEF Muted

\* A kick or a closed socket does not unmute a session.
LEMMA KickedMuted ==
    ASSUME NEW r \in Fields
    PROVE  /\ CloseSocket(r).inQueue = r.inQueue /\ CloseSocket(r).init = r.init
           /\ KickPlayer(r).inQueue = r.inQueue /\ KickPlayer(r).init = r.init
<1>1. CloseSocket(r).inQueue = r.inQueue /\ CloseSocket(r).init = r.init
  BY DEF Fields, CloseSocket
<1>2. CloseSocket(r) \in Fields
  BY FieldFacts
<1>3. KickPlayer(r).inQueue = CloseSocket(r).inQueue /\ KickPlayer(r).init = CloseSocket(r).init
  BY <1>2 DEF Fields, KickPlayer
<1> QED
  BY <1>1, <1>3

\* One session gets new fields, which do not mute it.
LEMMA OneUnmuted ==
    ASSUME TypeOK, NEW s \in Sessions, NEW q, ses' = [ses EXCEPT ![s] = q],
           Muted(q) => Muted(ses[s])
    PROVE  \A t \in Sessions : Muted(ses'[t]) => Muted(ses[t])
BY DEF TypeOK

\* What the network, kicks, the clients' packets and the callbacks do to the fields.
LEMMA FieldsMuted ==
    ASSUME SessionInv, NEW s \in Sessions,
           AddSession(s) \/ Disconnect(s) \/ Kick(s) \/ Handlers(s)
    PROVE  \A t \in Sessions : Muted(ses'[t]) => Muted(ses[t])
<1>0. TypeOK /\ Places /\ Sweeping
  BY DEF SessionInv, LogoutInv, CharacterInv, PlaceInv
<1>1. PICK r : r = ses[s]
  OBVIOUS
<1>2. r \in Fields
  BY <1>0, <1>1 DEF TypeOK
<1>3. CASE AddSession(s)
  <2>1. ses' = [ses EXCEPT ![s] = [r EXCEPT !.st = "live", !.sock = "open"]]
    BY <1>0, <1>1, <1>3 DEF AddSession, TypeOK
  <2>2. Muted([r EXCEPT !.st = "live", !.sock = "open"]) => Muted(r)
    BY <1>2 DEF Fields, Muted
  <2> QED
    BY <1>0, <1>1, <2>1, <2>2, OneUnmuted
<1>4. CASE Disconnect(s)
  <2>1. ses' = [ses EXCEPT ![s] = [r EXCEPT !.sock = "closed"]]
    BY <1>0, <1>1, <1>4 DEF Disconnect, TypeOK
  <2>2. Muted([r EXCEPT !.sock = "closed"]) => Muted(r)
    BY <1>2 DEF Fields, Muted
  <2> QED
    BY <1>0, <1>1, <2>1, <2>2, OneUnmuted
<1>5. CASE Kick(s)
  <2>1. ses' = [ses EXCEPT ![s] = KickPlayer(r)]
    BY <1>0, <1>1, <1>5 DEF Kick, TypeOK
  <2>2. Muted(KickPlayer(r)) => Muted(r)
    BY <1>2, KickedMuted, SameMuted
  <2> QED
    BY <1>0, <1>1, <2>1, <2>2, OneUnmuted
<1>6. CASE HandleCharEnumOpcode(s) \/ HandleCharEnum(s)
  <2>1. PICK v : ses' = [ses EXCEPT ![s] = [r EXCEPT !.list = v]]
    BY <1>0, <1>1, <1>6 DEF HandleCharEnumOpcode, HandleCharEnum, TypeOK
  <2>2. Muted([r EXCEPT !.list = v]) => Muted(r)
    BY <1>2 DEF Fields, Muted
  <2> QED
    BY <1>0, <1>1, <2>1, <2>2, OneUnmuted
<1>7. CASE LoginDisabled(s) \/ \E c \in AllCharacters : LoginRefused(s, c)
  <2>1. ses' = [ses EXCEPT ![s] = [r EXCEPT !.loading = TRUE]]
    BY <1>0, <1>1, <1>7 DEF LoginDisabled, LoginRefused, TypeOK
  <2>2. Muted([r EXCEPT !.loading = TRUE]) => Muted(r)
    BY <1>2 DEF Fields, Muted
  <2> QED
    BY <1>0, <1>1, <2>1, <2>2, OneUnmuted
<1>8. CASE LoginForeign(s)
  <2>1. PICK k : k = KickPlayer(r)
    OBVIOUS
  <2>2. k \in Fields /\ (Muted(k) <=> Muted(r))
    BY <1>2, <2>1, FieldFacts, KickedMuted, SameMuted
  <2>3. ses' = [ses EXCEPT ![s] = [k EXCEPT !.loading = TRUE]]
    BY <1>0, <1>1, <1>8, <2>1 DEF LoginForeign, TypeOK
  <2>4. Muted([k EXCEPT !.loading = TRUE]) => Muted(k)
    BY <2>2 DEF Fields, Muted
  <2> QED
    BY <1>0, <1>1, <2>2, <2>3, <2>4, OneUnmuted
<1>9. CASE InitializeSessionCallback(s)
  <2>1. ses' = [ses EXCEPT ![s] = [r EXCEPT !.init = "done", !.inQueue = FALSE]]
    BY <1>0, <1>1, <1>9 DEF InitializeSessionCallback, TypeOK
  <2>2. ~Muted([r EXCEPT !.init = "done", !.inQueue = FALSE])
    BY <1>2 DEF Fields, Muted
  <2> QED
    BY <1>0, <1>1, <2>1, <2>2, OneUnmuted
<1>10. ASSUME NEW c \in AllCharacters, PlayerLoaded(s, c) PROVE Muted(ses'[s]) => Muted(r)
  <2>1. ses'[s] = [r EXCEPT !.player = c, !.login[c] = @ - 1, !.loading = FALSE]
    BY <1>0, <1>1, <1>10 DEF PlayerLoaded, TypeOK
  <2> QED
    BY <1>2, <2>1 DEF Fields, Muted
<1>11. ASSUME NEW c \in AllCharacters, LoadFails(s, c) PROVE Muted(ses'[s]) => Muted(r)
  <2>1. PICK k : k = KickPlayer(r)
    OBVIOUS
  <2>2. k \in Fields /\ (Muted(k) <=> Muted(r))
    BY <1>2, <2>1, FieldFacts, KickedMuted, SameMuted
  <2>3. ses'[s] = [k EXCEPT !.player = Null, !.login[c] = k.login[c] - 1, !.loading = FALSE]
    BY <1>0, <1>1, <1>11, <2>1 DEF LoadFails, TypeOK
  <2>4. Muted(ses'[s]) => Muted(k)
    BY <2>2, <2>3 DEF Fields, Muted
  <2> QED
    BY <2>2, <2>4
<1>12. CASE \E c \in AllCharacters : PlayerLoaded(s, c) \/ LoadFails(s, c)
  <2>1. \A t \in Sessions : t # s => ses'[t] = ses[t]
    BY <1>0, <1>12 DEF PlayerLoaded, LoadFails, TypeOK
  <2> QED
    BY <1>1, <1>10, <1>11, <1>12, <2>1
<1>13. ASSUME NEW c \in AllCharacters, LoginFromDatabase(s, c) \/ TakeOver(s, c)
       PROVE  \A t \in Sessions : Muted(ses'[t]) => Muted(ses[t])
  <2>1. stage = "packets" /\ s = sessions[cur] /\ Asks(s, c)
    BY <1>13 DEF LoginFromDatabase, TakeOver, Asks, Receives
  <2>2. PICK o : o = offline[cur]
    OBVIOUS
  <2>3. o # Null => o \in Sessions /\ o # s
    BY <1>0, <2>1, <2>2, CurrentFacts
  <2>4. CASE LoginFromDatabase(s, c)
    <3>1. PICK q : q = [r EXCEPT !.loading = TRUE, !.login[c] = @ + 1]
      OBVIOUS
    <3>2. Muted(q) => Muted(r)
      BY <1>2, <3>1 DEF Fields, Muted
    <3>3. [ses EXCEPT ![s].loading = TRUE, ![s].login[c] = @ + 1] = [ses EXCEPT ![s] = q]
      BY <1>0, <1>1, <1>2, <3>1 DEF TypeOK, Fields
    <3>4. \/ ses' = [ses EXCEPT ![s] = q]
          \/ o # Null /\ ses' = [[ses EXCEPT ![s] = q] EXCEPT ![o] = KickPlayer(@)]
      BY <2>2, <2>4, <3>3 DEF LoginFromDatabase
    <3>5. CASE ses' = [ses EXCEPT ![s] = q]
      BY <1>0, <1>1, <3>2, <3>5, OneUnmuted
    <3>6. CASE o # Null /\ ses' = [[ses EXCEPT ![s] = q] EXCEPT ![o] = KickPlayer(@)]
      <4>1. ses[o] \in Fields
        BY <1>0, <2>3, <3>6 DEF TypeOK
      <4>2. Muted(KickPlayer(ses[o])) => Muted(ses[o])
        BY <4>1, KickedMuted, SameMuted
      <4>3. /\ ses'[s] = q /\ ses'[o] = KickPlayer(ses[o])
            /\ \A t \in Sessions : t # s /\ t # o => ses'[t] = ses[t]
        BY <1>0, <2>3, <3>6 DEF TypeOK
      <4> QED
        BY <1>1, <3>2, <4>2, <4>3
    <3> QED
      BY <3>4, <3>5, <3>6
  <2>5. CASE TakeOver(s, c)
    <3>1. o # Null /\ ses' = [ses EXCEPT ![s].player = c, ![s].loading = FALSE, ![o].player = Null]
      BY <2>2, <2>5 DEF TakeOver
    <3>2. /\ ses'[s] = [r EXCEPT !.player = c, !.loading = FALSE]
          /\ ses'[o] = [ses[o] EXCEPT !.player = Null]
          /\ \A t \in Sessions : t # s /\ t # o => ses'[t] = ses[t]
      BY <1>0, <1>1, <2>3, <3>1 DEF TypeOK
    <3>3. Muted(ses'[s]) => Muted(r)
      BY <1>2, <3>2 DEF Fields, Muted
    <3>4. PICK x : x = ses[o]
      OBVIOUS
    <3>5. x \in Fields
      BY <1>0, <2>3, <3>1, <3>4 DEF TypeOK
    <3>6. Muted(ses'[o]) => Muted(x)
      BY <3>2, <3>4, <3>5 DEF Fields, Muted
    <3> QED
      BY <1>1, <3>2, <3>3, <3>4, <3>6
  <2> QED
    BY <1>13, <2>4, <2>5
<1> QED
  BY <1>3, <1>4, <1>5, <1>6, <1>7, <1>8, <1>9, <1>12, <1>13 DEF Handlers, Callback

\* Steps of UpdateSessions that end sessions, or one update of a session.
LEMMA EndsMuted ==
    ASSUME SessionInv, RefuseSession \/ EndOffline \/ KeepSession
    PROVE  \A t \in Sessions : Muted(ses'[t]) => Muted(ses[t])
<1>0. TypeOK /\ Places /\ Sweeping
  BY DEF SessionInv, LogoutInv, CharacterInv, PlaceInv
<1>1. ~Muted(Deleted)
  BY DEF Deleted, NoSession, Muted
<1>2. CASE RefuseSession
  <2>1. ses' = [ses EXCEPT ![Head(addQueue)] = Deleted]
    BY <1>2 DEF RefuseSession
  <2>2. \A t \in Sessions : ses'[t] \in {Deleted, ses[t]}
    BY <1>0, <2>1 DEF TypeOK
  <2> QED
    BY <1>1, <2>2
<1>3. CASE EndOffline
  <2>1. \A t \in Sessions : ses'[t] \in {Deleted, ses[t]}
    BY <1>3 DEF EndOffline
  <2> QED
    BY <1>1, <2>1
<1>4. CASE KeepSession
  <2>1. PICK s : s = sessions[cur]
    OBVIOUS
  <2>2. s \in Sessions
    BY <1>0, <1>4, <2>1, CurrentFacts DEF KeepSession
  <2>3. PICK r : r = ses[s]
    OBVIOUS
  <2>4. r \in Fields
    BY <1>0, <2>2, <2>3 DEF TypeOK
  <2>5. ses' = ses \/ ses' = [ses EXCEPT ![s] = [r EXCEPT !.player = Null]]
    BY <1>0, <1>4, <2>1, <2>2, <2>3 DEF KeepSession, TypeOK
  <2>6. Muted([r EXCEPT !.player = Null]) => Muted(r)
    BY <2>4 DEF Fields, Muted
  <2> QED
    BY <1>0, <2>2, <2>3, <2>5, <2>6, OneUnmuted
<1> QED
  BY <1>2, <1>3, <1>4

\* When s has left the queue, the muted sessions of other accounts are still in it.
LEMMA LeaveMuted ==
    ASSUME SessionInv, MutedWaits, ~final, NEW S \in [Sessions -> Fields], NEW s \in Sessions,
           \A t \in Sessions : S[t].told = ses[t].told /\ (t # s => S[t] = ses[t])
    PROVE  \A t \in Sessions :
               Account[t] # Account[s] /\ IsOnline(t) /\ Muted(RemoveQueuedPlayer(S, s).ses[t]) =>
                   Waits(RemoveQueuedPlayer(S, s).queue, t)
<1>0. TypeOK /\ Waiting
  BY DEF SessionInv, LogoutInv, CharacterInv, PlaceInv
<1>1. PICK T, Q : T = RemoveQueuedPlayer(S, s).ses /\ Q = RemoveQueuedPlayer(S, s).queue
  OBVIOUS
<1>2. \A t \in Sessions : Muted(T[t]) => /\ Muted(S[t])
                                         /\ t # s /\ Waits(queue, t) => Waits(Q, t)
  BY <1>0, <1>1, RemoveFacts
<1>3. ASSUME NEW t \in Sessions, Account[t] # Account[s], IsOnline(t), Muted(T[t]) PROVE Waits(Q, t)
  <2>1. t # s /\ S[t] = ses[t]
    BY <1>3
  <2>2. Waits(queue, t)
    BY <1>2, <1>3, <2>1 DEF MutedWaits
  <2> QED
    BY <1>2, <1>3, <2>1, <2>2
<1> QED
  BY <1>1, <1>3

\* The session that leaves, and the older one of its account, are the only ones
\* whose fields change afterwards.
LEMMA OthersAfter ==
    ASSUME SessionInv, NEW s \in Sessions, NEW T \in [Sessions -> Fields]
    PROVE  \A t \in Sessions : Account[t] # Account[s] =>
               PutOffline(T, s)[t] = T[t] /\ [T EXCEPT ![s] = Deleted][t] = T[t]
<1>0. TypeOK /\ Places /\ \A t \in Sessions : t # Null
  BY SessionsAssumption DEF SessionInv, LogoutInv, CharacterInv, PlaceInv
<1>1. Account[s] \in Accounts
  BY SessionsAssumption
<1>2. \A t \in Sessions : Account[t] # Account[s] => t # s /\ t # offline[Account[s]]
  BY <1>0, <1>1 DEF Places
<1> QED
  BY <1>2 DEF PutOffline

\* A session that enters _sessions waits, or waits for its account data.
LEMMA EnterMuted ==
    ASSUME TypeOK, NEW s \in Sessions, NEW S \in [Sessions -> Fields], NEW Q \in Seq(Sessions),
           NEW recent, Enter(s, S, Q, recent),
           \A t \in Sessions : Account[t] # Account[s] /\ IsOnline(t) /\ Muted(S[t]) => Waits(Q, t)
    PROVE  MutedWaits'
<1>1. PICK a, wait : /\ a = Account[s]
                     /\ wait <=> /\ ~HasFreeSlot(Cardinality(Online \ {a}))
                                 /\ a \notin Skippers \cup recent
  OBVIOUS
<1>2. /\ sessions' = [sessions EXCEPT ![a] = s]
      /\ wait => /\ queue' = Append(Q, s)
                 /\ ses' = [S EXCEPT ![s].inQueue = TRUE, ![s].told = Len(Q) + 1]
      /\ ~wait => queue' = Q /\ ses' = [S EXCEPT ![s].init = "pending"]
  BY <1>1 DEF Enter
<1>3. \A t \in Sessions : Account[t] # a =>
          ses'[t] = S[t] /\ sessions'[Account[t]] = sessions[Account[t]]
  BY <1>1, <1>2, SessionsAssumption DEF TypeOK
<1>4. \A t \in Sessions : Account[t] = a /\ IsOnline(t)' => t = s
  BY <1>1, <1>2, SessionsAssumption DEF TypeOK, IsOnline
<1>5. CASE wait
  <2>1. /\ Len(Q) \in Nat /\ Len(queue') = Len(Q) + 1 /\ queue'[Len(Q) + 1] = s
        /\ \A i \in 1..Len(Q) : queue'[i] = Q[i]
    BY <1>2, <1>5, AppendProperties, LenProperties
  <2>2. Waits(queue', s) /\ \A t \in Sessions : Waits(Q, t) => Waits(queue', t)
    BY <2>1 DEF Waits
  <2>3. ASSUME NEW t \in Sessions, IsOnline(t)', Muted(ses'[t]) PROVE Waits(queue', t)
    <3>1. CASE Account[t] = a
      BY <1>4, <2>2, <2>3, <3>1
    <3>2. CASE Account[t] # a
      <4>1. Muted(S[t]) /\ IsOnline(t)
        BY <1>3, <2>3, <3>2 DEF IsOnline
      <4>2. Waits(Q, t)
        BY <1>1, <3>2, <4>1
      <4> QED
        BY <2>2, <4>2
    <3> QED
      BY <3>1, <3>2
  <2> QED
    BY <2>3 DEF MutedWaits
<1>6. CASE ~wait
  <2>1. PICK x : x = S[s]
    OBVIOUS
  <2>2. ses'[s] = [x EXCEPT !.init = "pending"] /\ x \in Fields
    BY <1>2, <1>6, <2>1
  <2>3. ~Muted(ses'[s])
    BY <2>2 DEF Fields, Muted
  <2>4. \A t \in Sessions : IsOnline(t)' /\ Muted(ses'[t]) => Waits(queue', t)
    BY <1>1, <1>2, <1>3, <1>4, <1>6, <2>3 DEF IsOnline
  <2> QED
    BY <2>4 DEF MutedWaits
<1> QED
  BY <1>5, <1>6

\* Sessions leave _sessions.
LEMMA LeaveStepsMuted ==
    ASSUME SessionInv, MutedWaits, RemoveSession \/ \E a \in Accounts : GoOffline(a)
    PROVE  MutedWaits'
<1>0. TypeOK /\ Places /\ Sweeping
  BY DEF SessionInv, LogoutInv, CharacterInv, PlaceInv
<1>1. UNCHANGED final
  BY DEF RemoveSession, GoOffline, stopVars
<1> SUFFICES ASSUME ~final PROVE MutedWaits'
  BY <1>1 DEF MutedWaits
<1>2. PICK a \in Accounts : (RemoveSession /\ a = cur) \/ GoOffline(a)
  <2>1. RemoveSession => cur \in Accounts
    BY <1>0 DEF RemoveSession, Sweeping, TypeOK
  <2> QED
    BY <2>1
<1>3. PICK s, T, Q : /\ s = sessions[a] /\ T = RemoveQueuedPlayer(ses, s).ses
                     /\ Q = RemoveQueuedPlayer(ses, s).queue
  OBVIOUS
<1>4. /\ queue' = Q /\ sessions' = [sessions EXCEPT ![a] = Null]
      /\ ses' \in {PutOffline(T, s), [T EXCEPT ![s] = Deleted]} /\ a \in todo
      /\ stage \in {"sweep", "callbacks"}
  <2>1. CASE RemoveSession /\ a = cur
    BY <1>0, <1>3, <2>1 DEF RemoveSession, Sweeping
  <2>2. CASE GoOffline(a)
    BY <1>3, <2>2 DEF GoOffline
  <2> QED
    BY <1>2, <2>1, <2>2
<1>5. s \in Sessions /\ Account[s] = a /\ ses \in [Sessions -> Fields]
  <2>1. sessions[a] # Null
    BY <1>0, <1>4 DEF Sweeping, Online
  <2> QED
    BY <1>0, <1>3, <2>1 DEF TypeOK, Places
<1>6. T \in [Sessions -> Fields]
  BY <1>0, <1>3, <1>5, RemoveFacts DEF SessionInv
<1>7. \A t \in Sessions : Account[t] # a => ses'[t] = T[t]
  BY <1>4, <1>5, <1>6, OthersAfter
<1>8. \A t \in Sessions : Account[t] # a /\ IsOnline(t) /\ Muted(T[t]) => Waits(Q, t)
  BY <1>3, <1>5, LeaveMuted
<1>9. \A t \in Sessions : IsOnline(t)' => Account[t] # a /\ IsOnline(t)
  BY <1>0, <1>4, SessionsAssumption DEF TypeOK, IsOnline
<1> QED
  BY <1>4, <1>7, <1>8, <1>9 DEF MutedWaits

\* Sessions enter _sessions.
LEMMA EnterStepsMuted ==
    ASSUME SessionInv, MutedWaits, AddNewSession \/ ReplaceSession
    PROVE  MutedWaits'
<1>0. TypeOK /\ Places /\ Waiting
  BY DEF SessionInv, LogoutInv, CharacterInv, PlaceInv
<1>1. UNCHANGED final /\ addQueue # <<>> /\ addQueue' = Tail(addQueue)
  BY DEF AddNewSession, ReplaceSession, threadVars, stopVars
<1> SUFFICES ASSUME ~final PROVE MutedWaits'
  BY <1>1 DEF MutedWaits
<1>2. PICK s, a : s = Head(addQueue) /\ a = Account[s]
  OBVIOUS
<1>3. s \in Sessions /\ a \in Accounts /\ ses \in [Sessions -> Fields] /\ queue \in Seq(Sessions)
  BY <1>0, <1>1, <1>2, TakesNew, SessionsAssumption DEF TypeOK
<1>4. CASE AddNewSession
  <2>1. Enter(s, ses, queue, disconnects)
    BY <1>2, <1>4 DEF AddNewSession
  <2>2. \A t \in Sessions : Account[t] # a /\ IsOnline(t) /\ Muted(ses[t]) => Waits(queue, t)
    BY DEF MutedWaits
  <2> QED
    BY <1>0, <1>2, <1>3, <2>1, <2>2, EnterMuted
<1>5. CASE ReplaceSession
  <2>1. PICK old, S : old = sessions[a] /\ S = [ses EXCEPT ![old] = CloseSocket(@)]
    OBVIOUS
  <2>2. PICK T, R : T = RemoveQueuedPlayer(S, old).ses /\ R = RemoveQueuedPlayer(S, old).queue
    OBVIOUS
  <2>3. PICK Z : /\ old # Null /\ Enter(s, Z, R, NoteDisconnect(old))
                 /\ Z \in {PutOffline(T, old), [T EXCEPT ![old] = Deleted]}
    BY <1>2, <1>5, <2>1, <2>2 DEF ReplaceSession
  <2>4. old \in Sessions /\ Account[old] = a
    BY <1>0, <1>3, <2>1, <2>3 DEF TypeOK, Places
  <2>5. PICK r : r = ses[old]
    OBVIOUS
  <2>6. r \in Fields /\ CloseSocket(r) \in Fields /\ CloseSocket(r).told = r.told
    BY <1>3, <2>4, <2>5, FieldFacts
  <2>7. S \in [Sessions -> Fields] /\ S = [ses EXCEPT ![old] = CloseSocket(r)]
    BY <1>3, <2>1, <2>4, <2>5, <2>6
  <2>8. \A t \in Sessions : S[t].told = ses[t].told /\ (t # old => S[t] = ses[t])
    BY <1>3, <2>4, <2>5, <2>6, <2>7
  <2>9. T \in [Sessions -> Fields] /\ R \in Seq(Sessions)
    BY <1>0, <2>2, <2>4, <2>7, <2>8, RemoveFacts
  <2>10. \A t \in Sessions : Account[t] # a => Z[t] = T[t]
    BY <2>3, <2>4, <2>9, OthersAfter
  <2>11. \A t \in Sessions : Account[t] # a /\ IsOnline(t) /\ Muted(T[t]) => Waits(R, t)
    BY <2>2, <2>4, <2>7, <2>8, LeaveMuted
  <2>12. Z \in [Sessions -> Fields]
    <3>1. Deleted \in Fields
      BY NoSessionFacts DEF Deleted
    <3>2. ASSUME NEW t \in Sessions PROVE [T[t] EXCEPT !.sock = "null"] \in Fields
      BY <2>9, FieldTypes
    <3>3. PutOffline(T, old) \in [Sessions -> Fields]
      BY <2>9, <3>1, <3>2 DEF PutOffline
    <3>4. [T EXCEPT ![old] = Deleted] \in [Sessions -> Fields]
      BY <2>9, <3>1
    <3> QED
      BY <2>3, <3>3, <3>4
  <2> QED
    BY <1>0, <1>2, <1>3, <2>3, <2>9, <2>10, <2>11, <2>12, EnterMuted
<1> QED
  BY <1>4, <1>5

\* For any limit, and whoever is replaced, leaves or skips the queue, a client that
\* has left the login queue and is still muted waits for its account data, whose
\* answer unmutes it: RemoveQueuedPlayer forgets nobody whom it takes out.
THEOREM AdmittedNotForgotten == Spec => []AdmittedIsAnswered
<1>1. Init => MutedWaits
  <2> SUFFICES ASSUME Init PROVE MutedWaits
    OBVIOUS
  <2>1. \A t \in Sessions : t # Null /\ Account[t] \in Accounts
    BY SessionsAssumption
  <2> QED
    BY <2>1 DEF Init, MutedWaits, IsOnline
<1>2. SessionInv /\ MutedWaits /\ [Next]_vars => MutedWaits'
  <2> SUFFICES ASSUME SessionInv, MutedWaits, [Next]_vars PROVE MutedWaits'
    OBVIOUS
  <2>1. CASE UNCHANGED vars
    BY <2>1 DEF vars, mapVars, threadVars, stopVars, MutedWaits, IsOnline, Waits
  <2>2. CASE \/ BeginUpdate \/ AllAdded \/ OtherPackets \/ AllUpdated
             \/ MinutePasses \/ ShutdownCancel \/ StopNow
             \/ \E a \in Accounts : BeginSessionUpdate(a) \/ ToleranceExpires(a)
             \/ \E t \in Times, i \in BOOLEAN : ShutdownServ(t, i)
    <3>1. UNCHANGED <<ses, sessions, queue, final>>
      BY <2>2 DEF BeginUpdate, AllAdded, OtherPackets, AllUpdated, MinutePasses, ShutdownCancel,
         StopNow, BeginSessionUpdate, ToleranceExpires, ShutdownServ, netVars, mapVars, threadVars,
         stopVars
    <3> QED
      BY <3>1, MutedKept
  <2>3. CASE KickAll
    BY <2>3 DEF KickAll, MutedWaits
  <2>4. CASE RefuseSession \/ EndOffline \/ KeepSession
    <3>1. UNCHANGED <<sessions, queue, final>>
      BY <2>4 DEF RefuseSession, EndOffline, KeepSession, mapVars, threadVars, stopVars
    <3> QED
      BY <2>4, <3>1, EndsMuted, MutedKept
  <2>5. CASE \E s \in Sessions : AddSession(s) \/ Disconnect(s) \/ Kick(s) \/ Handlers(s)
    <3>1. PICK s \in Sessions : AddSession(s) \/ Disconnect(s) \/ Kick(s) \/ Handlers(s)
      BY <2>5
    <3>2. CASE AddSession(s) \/ Disconnect(s) \/ Kick(s)
      BY <3>2, FieldsMuted, MutedKept DEF AddSession, Disconnect, Kick, mapVars, threadVars, stopVars
    <3>3. CASE Callback(s)
      <4>1. UNCHANGED <<sessions, queue, final>>
        BY <3>3 DEF Callback, InitializeSessionCallback, HandleCharEnum, PlayerLoaded, LoadFails,
           mapVars, threadVars, stopVars
      <4> QED
        BY <3>1, <4>1, FieldsMuted, MutedKept
    <3>4. CASE HandleCharEnumOpcode(s) \/ LoginDisabled(s) \/ LoginForeign(s)
      <4>1. UNCHANGED <<sessions, queue, final>>
        BY <3>4 DEF HandleCharEnumOpcode, LoginDisabled, LoginForeign, mapVars, threadVars, stopVars
      <4> QED
        BY <3>1, <4>1, FieldsMuted, MutedKept
    <3>5. CASE \E c \in AllCharacters :
                   LoginFromDatabase(s, c) \/ LoginRefused(s, c) \/ TakeOver(s, c)
      <4>1. UNCHANGED <<sessions, queue, final>>
        BY <3>5 DEF LoginFromDatabase, LoginRefused, TakeOver, mapVars, threadVars, stopVars
      <4> QED
        BY <3>1, <4>1, FieldsMuted, MutedKept
    <3> QED
      BY <3>1, <3>2, <3>3, <3>4, <3>5 DEF Handlers
  <2>6. CASE RemoveSession \/ \E a \in Accounts : GoOffline(a)
    BY <2>6, LeaveStepsMuted
  <2>7. CASE AddNewSession \/ ReplaceSession
    BY <2>7, EnterStepsMuted
  <2> QED
    BY <2>1, <2>2, <2>3, <2>4, <2>5, <2>6, <2>7 DEF Next, Update, Stopped
<1>3. SessionInv /\ MutedWaits => AdmittedIsAnswered
  <2> SUFFICES ASSUME SessionInv, MutedWaits, ~final, NEW a \in Accounts, sessions[a] # Null,
                      ses[sessions[a]].inQueue, sessions[a] \notin ToSet(queue)
               PROVE  ses[sessions[a]].init = "pending"
    BY DEF AdmittedIsAnswered, OnlineSessions, Online
  <2>1. TypeOK /\ Places
    BY DEF SessionInv, LogoutInv, CharacterInv, PlaceInv
  <2>2. sessions[a] \in Sessions /\ IsOnline(sessions[a])
    BY <2>1 DEF TypeOK, Places, IsOnline
  <2>3. \A i \in 1..Len(queue) : queue[i] \in ToSet(queue)
    BY <2>1, SeqElements DEF TypeOK
  <2> QED
    BY <2>2, <2>3 DEF MutedWaits, Muted, Waits
<1> QED
  BY <1>1, <1>2, <1>3, SessionInvariance, PTL DEF Spec

-----------------------------------------------------------------------------
(* The shutdown timer. *)

\* The timer is a number of seconds, and runs while a shutdown is asked for.
TimerInv == timer \in Nat /\ ShutdownNotLost

\* For any delays a shutdown that was asked for is not lost in _UpdateGameTime,
\* however it is replaced, put off or waits for an empty realm.
THEOREM NeverLosesShutdown == Spec => []ShutdownNotLost
<1>1. Init => TimerInv
  BY DEF Init, TimerInv, ShutdownNotLost
<1>2. TimerInv /\ [Next]_vars => TimerInv'
  <2> SUFFICES ASSUME TimerInv, [Next]_vars PROVE TimerInv'
    OBVIOUS
  <2>0. timer \in Nat /\ (~stopping => (wanted <=> timer > 0))
    BY DEF TimerInv, ShutdownNotLost
  <2>1. CASE BeginUpdate
    <3>1. PICK e \in Elapsed : UpdateGameTime(e)
      BY <2>1 DEF BeginUpdate
    <3>2. ~stopping /\ UNCHANGED wanted /\ e \in Nat
      BY <2>1, LimitAssumption DEF BeginUpdate
    <3>3. PICK counts, stop : /\ counts <=> timer > 0 /\ e > 0
                              /\ stop <=> counts /\ timer <= e /\ (~idle \/ Online = {})
      OBVIOUS
    <3>4. stopping' <=> stop
      BY <3>1, <3>2, <3>3 DEF UpdateGameTime, Overdue
    <3>5. /\ ~counts \/ stop => timer' = timer
          /\ counts /\ ~stop /\ timer <= e => timer' = 1
          /\ counts /\ ~(timer <= e) => timer' = timer - e
      BY <2>0, <3>1, <3>2, <3>3 DEF UpdateGameTime, Overdue
    <3>6. CASE ~counts \/ stop
      BY <2>0, <3>2, <3>4, <3>5, <3>6 DEF TimerInv, ShutdownNotLost
    <3>7. CASE counts /\ ~stop /\ timer <= e
      BY <2>0, <3>2, <3>3, <3>5, <3>7 DEF TimerInv, ShutdownNotLost
    <3>8. CASE counts /\ ~(timer <= e)
      <4>1. timer' = timer - e /\ timer - e \in Nat /\ timer - e > 0 /\ timer > 0
        BY <2>0, <3>2, <3>3, <3>5, <3>8
      <4> QED
        BY <2>0, <3>2, <4>1 DEF TimerInv, ShutdownNotLost
    <3> QED
      BY <3>6, <3>7, <3>8
  <2>2. ASSUME NEW t \in Times, NEW i \in BOOLEAN, ShutdownServ(t, i) PROVE TimerInv'
    <3>1. PICK time, stop :
              /\ time = (IF t < SaveTime /\ ActiveSessionCount > 0 THEN SaveTime ELSE t)
              /\ stop <=> time = 0 /\ (~i \/ Online = {})
      OBVIOUS
    <3>2. time \in Nat
      BY <3>1, LimitAssumption
    <3>3. /\ stopping' <=> stop
          /\ wanted' = TRUE
      BY <2>2, <3>1 DEF ShutdownServ
    <3>4. /\ stop => timer' = timer
          /\ time = 0 /\ ~stop => timer' = 1
          /\ time # 0 => timer' = time
      BY <2>2, <3>1 DEF ShutdownServ
    <3> QED
      BY <2>0, <3>2, <3>3, <3>4 DEF TimerInv, ShutdownNotLost
  <2>3. CASE ShutdownCancel
    BY <2>3 DEF ShutdownCancel, TimerInv, ShutdownNotLost
  <2>4. CASE StopNow
    BY <2>0, <2>4 DEF StopNow, TimerInv, ShutdownNotLost
  <2>5. CASE UNCHANGED <<timer, wanted, stopping>>
    BY <2>0, <2>5 DEF TimerInv, ShutdownNotLost
  <2>6. CASE Update /\ ~BeginUpdate
    <3>1. ASSUME NEW s \in Sessions, Handlers(s) PROVE UNCHANGED <<timer, wanted, stopping>>
      <4>1. CASE Callback(s)
        BY <4>1 DEF Callback, InitializeSessionCallback, HandleCharEnum, PlayerLoaded, LoadFails,
           threadVars, stopVars
      <4>2. CASE HandleCharEnumOpcode(s) \/ LoginDisabled(s) \/ LoginForeign(s)
        BY <4>2 DEF HandleCharEnumOpcode, LoginDisabled, LoginForeign, threadVars, stopVars
      <4>3. ASSUME NEW c \in AllCharacters,
                   LoginFromDatabase(s, c) \/ LoginRefused(s, c) \/ TakeOver(s, c)
            PROVE  UNCHANGED <<timer, wanted, stopping>>
        BY <4>3 DEF LoginFromDatabase, LoginRefused, TakeOver, threadVars, stopVars
      <4> QED
        BY <3>1, <4>1, <4>2, <4>3 DEF Handlers
    <3>2. ASSUME RefuseSession \/ AddNewSession \/ ReplaceSession \/ AllAdded \/ KickAll
          PROVE  UNCHANGED <<timer, wanted, stopping>>
      BY <3>2 DEF RefuseSession, AddNewSession, ReplaceSession, AllAdded, KickAll, threadVars, stopVars
    <3>3. ASSUME OtherPackets \/ KeepSession \/ RemoveSession \/ AllUpdated \/ EndOffline
          PROVE  UNCHANGED <<timer, wanted, stopping>>
      BY <3>3 DEF OtherPackets, KeepSession, RemoveSession, AllUpdated, EndOffline, stopVars
    <3>4. ASSUME NEW a \in Accounts, GoOffline(a) \/ BeginSessionUpdate(a)
          PROVE  UNCHANGED <<timer, wanted, stopping>>
      BY <3>4 DEF GoOffline, BeginSessionUpdate, stopVars
    <3> QED
      BY <2>5, <2>6, <3>1, <3>2, <3>3, <3>4 DEF Update
  <2>7. CASE MinutePasses \/ Stopped \/ UNCHANGED vars
    BY <2>5, <2>7 DEF MinutePasses, Stopped, vars, threadVars, stopVars
  <2>8. CASE \/ \E a \in Accounts : ToleranceExpires(a)
             \/ \E s \in Sessions : AddSession(s) \/ Disconnect(s) \/ Kick(s)
    BY <2>5, <2>8 DEF ToleranceExpires, AddSession, Disconnect, Kick, threadVars, stopVars
  <2> QED
    BY <2>1, <2>2, <2>3, <2>4, <2>6, <2>7, <2>8 DEF Next, Update
<1>3. TimerInv => ShutdownNotLost
  BY DEF TimerInv
<1> QED
  BY <1>1, <1>2, <1>3, PTL DEF Spec
=============================================================================
