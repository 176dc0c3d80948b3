--------------------------- MODULE WorldSessions ---------------------------
(***************************************************************************)
(* The life of client sessions in worldserver:                             *)
(*   server/game/World/World.cpp              _addSessQueue, _sessions,    *)
(*                                            _offlineSessions and the     *)
(*                                            login queue _queuedPlayer    *)
(*   server/game/Server/WorldSession.cpp      Update, HandleSocketClosed,  *)
(*                                            InitializeSession, logout    *)
(*   server/game/Handlers/CharacterHandler.cpp  entering the world         *)
(*                                                                         *)
(* A network thread hands over a new session; the world thread adds it in  *)
(* UpdateSessions, where it replaces an older one of its account and is    *)
(* admitted or queued.  A player whose connection is lost stays in the     *)
(* world for a minute, in an offline session, and a new session of the     *)
(* account can take the character over.  Network threads close sockets     *)
(* while the world thread is anywhere in UpdateSessions, and the answers   *)
(* of the database arrive in any later update.                             *)
(*                                                                         *)
(* Nothing is assumed of the client: it may ask for its characters and for *)
(* one of them at any time, also while it plays or loads another one.      *)
(* Whether a player is in flight or between two maps, which                *)
(* HandleSocketClosed asks, is left open.                                  *)
(***************************************************************************)
EXTENDS Naturals, SequencesExt

CONSTANTS Sessions,     \* the sessions that network threads may create
          Accounts,
          Account,      \* the account of each session
          Characters,   \* the characters of each account
          Limit,        \* GetPlayerAmountLimit(), 0: no limit
          Skippers,     \* accounts with security or CanSkipQueue()
          Tolerance,    \* CONFIG_INTERVAL_DISCONNECT_TOLERANCE # 0
          RealmLogin,   \* the values of CONFIG_REALM_LOGIN_ENABLED
          MaxLogins,    \* bound: loads of one character a session waits for
          Times,        \* the delays that ShutdownServ is called with
          SaveTime,     \* the least delay with players online: 5 seconds
          Elapsed,      \* how many seconds may have passed in _UpdateGameTime
          Null

AllCharacters == UNION {Characters[a] : a \in Accounts}

ASSUME SessionsAssumption ==
    /\ IsFiniteSet(Sessions) /\ IsFiniteSet(Accounts)
    /\ Account \in [Sessions -> Accounts]
    /\ Null \notin Sessions \cup Accounts \cup AllCharacters
\* A character belongs to one account.
ASSUME CharactersAssumption ==
    \A a, b \in Accounts : a # b => Characters[a] \cap Characters[b] = {}
ASSUME LimitAssumption ==
    /\ Limit \in Nat /\ Skippers \subseteq Accounts /\ Tolerance \in BOOLEAN
    /\ RealmLogin \subseteq BOOLEAN /\ MaxLogins \in Nat
    /\ Times \subseteq Nat /\ SaveTime \in Nat /\ Elapsed \subseteq Nat

VARIABLES ses,          \* the fields of each session
          stray,        \* the players in the world that their session, with
                        \* which they are paired, does not point to any more
          addQueue,     \* _addSessQueue
          sessions,     \* _sessions: per account a session or Null
          offline,      \* _offlineSessions
          queue,        \* _queuedPlayer
          disconnects,  \* the accounts in _disconnects within the tolerance
          aged,         \* the sessions offline for more than a minute
          stage,        \* where the world thread is in UpdateSessions
          cur,          \* the account whose session is being updated
          todo,         \* the accounts still to be updated
          stopping,     \* World::IsStopped()
          final,        \* KickAll has run: the UpdateSessions under way is the last
          timer,        \* _shutdownTimer
          idle,         \* _shutdownMask has SHUTDOWN_MASK_IDLE
          wanted        \* history: a shutdown was asked for and not cancelled

netVars    == <<stray, addQueue>>
mapVars    == <<sessions, offline, queue, disconnects, aged>>
stopVars   == <<stopping, final, timer, idle, wanted>>
threadVars == <<stage, cur, todo, stopVars>>
vars == <<ses, netVars, mapVars, threadVars>>

\* How many loads of each character a session waits for.
NoLogins == [c \in AllCharacters |-> 0]

\* A session that does not exist: not created yet, or deleted.
NoSession(st) ==
    [st |-> st, sock |-> "null", inQueue |-> FALSE, told |-> 0, init |-> "none",
     list |-> "none", player |-> Null, loading |-> FALSE, login |-> NoLogins,
     kicked |-> FALSE]

\* ~WorldSession: the player it points to is logged out and its save queued, the
\* socket closed, and the pending callbacks vanish with the session.
Deleted == NoSession("deleted")

Init ==
    /\ ses = [s \in Sessions |-> NoSession("none")]
    /\ stray = {} /\ addQueue = <<>>
    /\ sessions = [a \in Accounts |-> Null]
    /\ offline = [a \in Accounts |-> Null]
    /\ queue = <<>> /\ disconnects = {} /\ aged = {}
    /\ stage = "idle" /\ cur = Null /\ todo = {}
    /\ stopping = FALSE /\ final = FALSE /\ timer = 0 /\ idle = FALSE /\ wanted = FALSE

Online == {a \in Accounts : sessions[a] # Null}
Offline == {a \in Accounts : offline[a] # Null}

CloseSocket(r) == IF r.sock = "open" THEN [r EXCEPT !.sock = "closed"] ELSE r
KickPlayer(r) == [CloseSocket(r) EXCEPT !.kicked = TRUE]

-----------------------------------------------------------------------------
(* The network threads. *)

\* WorldSocket has authenticated the client: AddSession.
AddSession(s) ==
    /\ ses[s].st = "none"
    /\ ses' = [ses EXCEPT ![s].st = "live", ![s].sock = "open"]
    /\ addQueue' = Append(addQueue, s)
    /\ UNCHANGED <<stray, mapVars, threadVars>>

\* The client is gone, or was idle for too long.
Disconnect(s) ==
    /\ ses[s].sock = "open"
    /\ ses' = [ses EXCEPT ![s].sock = "closed"]
    /\ UNCHANGED <<netVars, mapVars, threadVars>>

-----------------------------------------------------------------------------
(* The login queue. *)

ActiveSessionCount == Cardinality(Online) - Len(queue)

\* Mutant of HasFreeSlot: off by one.
HasSlotOrOneMore(n) == Limit = 0 \/ n <= Limit

HasFreeSlot(n) == Limit = 0 \/ n < Limit

\* Mutant of CountWithout: an active session that leaves is still counted.
CountWith(s) == ActiveSessionCount

\* The active sessions when s has left _sessions: "if session not queued then it
\* was an active session".
CountWithout(s) ==
    IF s \in ToSet(queue) THEN ActiveSessionCount ELSE ActiveSessionCount - 1

\* Mutant of FirstMoved: iter is not reset when the first client is admitted.
FirstBehind(admit, pos) == pos

\* Where the loop that tells clients their position starts.
FirstMoved(admit, pos) == IF admit THEN 1 ELSE pos

\* RemoveQueuedPlayer on the session fields S: takes s out of the queue, or
\* counts it as an active session that leaves; then admits the first of the
\* queue if there is room, and tells the clients behind the change where they
\* are.  The admitted session keeps m_inQueue until its callback.
RemoveQueuedPlayer(S, s) ==
    LET found == s \in ToSet(queue)
        pos   == IF found THEN CHOOSE n \in DOMAIN queue : queue[n] = s
                 ELSE Len(queue) + 1
        rest  == IF found THEN RemoveAt(queue, pos) ELSE queue
        admit == rest # <<>> /\ HasFreeSlot(CountWithout(s))
        left  == IF admit THEN Tail(rest) ELSE rest
        Moved(t) == {n \in FirstMoved(admit, pos)..Len(left) : left[n] = t}
    IN  [queue |-> left,
         ses |-> [t \in Sessions |->
                    CASE found /\ t = s          -> [S[t] EXCEPT !.inQueue = FALSE]
                      [] admit /\ t = Head(rest) -> [S[t] EXCEPT !.init = "pending"]
                      [] Moved(t) # {}           -> [S[t] EXCEPT !.told = CHOOSE n \in Moved(t) : TRUE]
                      [] OTHER                   -> S[t]]]

\* A session that leaves _sessions without having been queued.
NoteDisconnect(s) ==
    IF Tolerance /\ s \notin ToSet(queue) THEN disconnects \cup {Account[s]} ELSE disconnects

\* HandleSocketClosed may return TRUE for a session with these fields: its player
\* is to stay, if it is in the world and not in flight.
HandleSocketClosed(r) ==
    r.sock = "closed" /\ ~r.kicked /\ r.player # Null /\ ~stopping

\* The older offline session of the account is deleted, and m_Socket reset.
PutOffline(S, s) ==
    [t \in Sessions |-> CASE t = s                   -> [S[t] EXCEPT !.sock = "null"]
                          [] t = offline[Account[s]] -> Deleted
                          [] OTHER                   -> S[t]]

-----------------------------------------------------------------------------
(* UpdateSessions: new sessions. *)

\* Mutant of Overdue: a timer that has just run out is set to zero instead.
OverdueLate(e) == timer < e

Overdue(e) == timer <= e

\* _UpdateGameTime: the timer runs out and the server stops, unless it is to wait
\* until nobody is there; or it runs on.
UpdateGameTime(e) ==
    LET counts == ~stopping /\ timer > 0 /\ e > 0
        stop   == counts /\ Overdue(e) /\ (~idle \/ Online = {})
    IN  /\ stopping' = (stopping \/ stop)
        /\ timer' = CASE ~counts \/ stop -> timer
                      [] counts /\ ~stop /\ Overdue(e) -> 1
                      [] OTHER -> timer - e

\* World::Update, up to UpdateSessions.
BeginUpdate ==
    /\ stage = "idle" /\ ~stopping
    /\ \E e \in Elapsed : UpdateGameTime(e)
    /\ stage' = "add"
    /\ UNCHANGED <<ses, netVars, mapVars, cur, todo, final, idle, wanted>>

\* Mutant of RefuseSession: the refused session is not deleted.
LeakRefused ==
    /\ stage = "add" /\ addQueue # <<>>
    /\ LET s == Head(addQueue)
           old == sessions[Account[s]]
       IN  /\ old # Null
           /\ ses[old].loading
           /\ ses' = [ses EXCEPT ![s] = KickPlayer(@)]
    /\ addQueue' = Tail(addQueue)
    /\ UNCHANGED <<stray, mapVars, threadVars>>

\* AddSession_ while a character of the older session is being loaded: the new
\* session is deleted.
RefuseSession ==
    /\ stage = "add" /\ addQueue # <<>>
    /\ LET s == Head(addQueue)
           old == sessions[Account[s]]
       IN  /\ old # Null
           /\ ses[old].loading
           /\ ses' = [ses EXCEPT ![s] = Deleted]
    /\ addQueue' = Tail(addQueue)
    /\ UNCHANGED <<stray, mapVars, threadVars>>

\* The rest of AddSession_: s becomes the session of its account and is queued,
\* or its initialisation starts.
Enter(s, S, q, recent) ==
    LET a == Account[s]
        wait == /\ ~HasFreeSlot(Cardinality(Online \ {a}))
                /\ a \notin Skippers \cup recent
    IN  /\ sessions' = [sessions EXCEPT ![a] = s]
        /\ queue' = IF wait THEN Append(q, s) ELSE q
        /\ ses' = IF wait THEN [S EXCEPT ![s].inQueue = TRUE, ![s].told = Len(q) + 1]
                  ELSE [S EXCEPT ![s].init = "pending"]
        /\ disconnects' = recent

AddNewSession ==
    /\ stage = "add" /\ addQueue # <<>>
    /\ LET s == Head(addQueue)
       IN  /\ sessions[Account[s]] = Null
           /\ Enter(s, ses, queue, disconnects)
    /\ addQueue' = Tail(addQueue)
    /\ UNCHANGED <<stray, offline, aged, threadVars>>

\* KickSession closes the old socket; the old session goes offline or is
\* deleted, and takes itself out of the queue or admits another one first.
ReplaceSession ==
    /\ stage = "add" /\ addQueue # <<>>
    /\ LET s == Head(addQueue)
           a == Account[s]
           old == sessions[a]
           closed == [ses EXCEPT ![old] = CloseSocket(@)]
           r == RemoveQueuedPlayer(closed, old)
       IN  /\ old # Null
           /\ ~ses[old].loading
           /\ \/ /\ HandleSocketClosed(closed[old])
                 /\ offline' = [offline EXCEPT ![a] = old]
                 /\ aged' = aged \ {offline[a]}
                 /\ Enter(s, PutOffline(r.ses, old), r.queue, NoteDisconnect(old))
              \/ /\ UNCHANGED <<offline, aged>>
                 /\ Enter(s, [r.ses EXCEPT ![old] = Deleted], r.queue, NoteDisconnect(old))
    /\ addQueue' = Tail(addQueue)
    /\ UNCHANGED <<stray, threadVars>>

AllAdded ==
    /\ stage = "add" /\ addQueue = <<>>
    /\ stage' = "sweep"
    /\ todo' = Online
    /\ UNCHANGED <<ses, netVars, mapVars, cur, stopVars>>

-----------------------------------------------------------------------------
(* UpdateSessions: the sessions of _sessions, one after the other. *)

\* The connection is lost and the player stays in the world.
GoOffline(a) ==
    /\ stage = "sweep" /\ a \in todo
    /\ LET s == sessions[a]
           r == RemoveQueuedPlayer(ses, s)
       IN  /\ HandleSocketClosed(ses[s])
           /\ ses' = PutOffline(r.ses, s)
           /\ queue' = r.queue
           /\ disconnects' = NoteDisconnect(s)
           /\ sessions' = [sessions EXCEPT ![a] = Null]
           /\ offline' = [offline EXCEPT ![a] = s]
           /\ aged' = aged \ {offline[a]}
    /\ todo' = todo \ {a}
    /\ UNCHANGED <<netVars, stage, cur, stopVars>>

\* WorldSession::Update is entered.
BeginSessionUpdate(a) ==
    /\ stage = "sweep" /\ a \in todo
    /\ stage' = "packets" /\ cur' = a
    /\ UNCHANGED <<ses, netVars, mapVars, todo, stopVars>>

\* A packet of status STATUS_AUTHED arrives in an update of session s.
Receives(s) ==
    /\ stage = "packets" /\ s = sessions[cur]
    /\ ses[s].sock # "null" /\ ~ses[s].inQueue

\* CMSG_CHAR_ENUM: the characters of the account are looked up.
HandleCharEnumOpcode(s) ==
    /\ Receives(s) /\ ses[s].list = "none"
    /\ ses' = [ses EXCEPT ![s].list = "asked"]
    /\ UNCHANGED <<netVars, mapVars, threadVars>>

\* CMSG_PLAYER_LOGIN while the realm is closed for logins.
LoginDisabled(s) ==
    /\ Receives(s) /\ FALSE \in RealmLogin
    /\ ses' = [ses EXCEPT ![s].loading = TRUE]
    /\ UNCHANGED <<netVars, mapVars, threadVars>>

\* CMSG_PLAYER_LOGIN for what is not in _legitCharacters: the session is kicked.
LoginForeign(s) ==
    /\ Receives(s) /\ TRUE \in RealmLogin
    /\ ses' = [ses EXCEPT ![s] = [KickPlayer(@) EXCEPT !.loading = TRUE]]
    /\ UNCHANGED <<netVars, mapVars, threadVars>>

\* CMSG_PLAYER_LOGIN for character c.  Neither a player that the session has nor
\* a load that it waits for is in the way.
Asks(s, c) ==
    /\ Receives(s) /\ TRUE \in RealmLogin
    /\ ses[s].list = "known" /\ c \in Characters[cur]

\* Mutant of LoginFromDatabase: the offline session is not kicked.
LoginWithoutKick(s, c) ==
    /\ Asks(s, c) /\ ses[s].login[c] < MaxLogins
    /\ LET off == offline[cur]
       IN  off # Null => ses[off].player \notin {Null, c} /\ ~ses[off].kicked
    /\ ses' = [ses EXCEPT ![s].loading = TRUE, ![s].login[c] = @ + 1]
    /\ UNCHANGED <<netVars, mapVars, threadVars>>

\* Nobody has the character, or the account has left another one behind, whose
\* session is kicked: the character is loaded from the database.
LoginFromDatabase(s, c) ==
    /\ Asks(s, c) /\ ses[s].login[c] < MaxLogins
    /\ LET off == offline[cur]
           S == [ses EXCEPT ![s].loading = TRUE, ![s].login[c] = @ + 1]
       IN  \/ off = Null /\ ses' = S
           \/ /\ off # Null
              /\ ses[off].player \notin {Null, c} /\ ~ses[off].kicked
              /\ ses' = [S EXCEPT ![off] = KickPlayer(@)]
    /\ UNCHANGED <<netVars, mapVars, threadVars>>

\* CHAR_LOGIN_DUPLICATE_CHARACTER: the offline session is kicked, has no player
\* any more, or its player is between two maps.
LoginRefused(s, c) ==
    /\ Asks(s, c)
    /\ LET off == offline[cur]
       IN  /\ off # Null
           /\ ses[off].player \in {Null, c} \/ ses[off].kicked
    /\ ses' = [ses EXCEPT ![s].loading = TRUE]
    /\ UNCHANGED <<netVars, mapVars, threadVars>>

\* SetPlayer: the player the session had stays in the world without it.
LeftBehind(s) ==
    IF ses[s].player = Null THEN stray ELSE stray \cup {<<s, ses[s].player>>}

\* Mutant of TakeOver: the offline session keeps its pointer to the player.
TakeOverShared(s, c) ==
    /\ Asks(s, c)
    /\ LET off == offline[cur]
       IN  /\ off # Null
           /\ ses[off].player = c /\ ~ses[off].kicked
           /\ ses' = [ses EXCEPT ![s].player = c, ![s].loading = FALSE]
    /\ stray' = LeftBehind(s)
    /\ UNCHANGED <<addQueue, mapVars, threadVars>>

\* HandlePlayerLoginToCharInWorld: the player moves from the offline session to
\* this one.
TakeOver(s, c) ==
    /\ Asks(s, c)
    /\ LET off == offline[cur]
       IN  /\ off # Null
           /\ ses[off].player = c /\ ~ses[off].kicked
           /\ ses' = [ses EXCEPT ![s].player = c, ![s].loading = FALSE,
                                 ![off].player = Null]
    /\ stray' = LeftBehind(s)
    /\ UNCHANGED <<addQueue, mapVars, threadVars>>

\* The other packets, and the end of the loop.
OtherPackets ==
    /\ stage = "packets"
    /\ stage' = "callbacks"
    /\ UNCHANGED <<ses, netVars, mapVars, cur, todo, stopVars>>

\* ProcessQueryCallbacks of session s: in its own update, and in the update of a
\* map that holds a player of it, which follows UpdateSessions.
Processes(s) ==
    \/ stage = "callbacks" /\ s = sessions[cur]
    \/ /\ stage = "idle" /\ ses[s].st = "live"
       /\ ses[s].player # Null \/ \E c \in AllCharacters : <<s, c>> \in stray

\* Mutant of InitializeSessionCallback: the session stays muted.
CallbackKeepsQueued(s) ==
    /\ Processes(s) /\ ses[s].init = "pending"
    /\ ses' = [ses EXCEPT ![s].init = "done"]
    /\ UNCHANGED <<netVars, mapVars, threadVars>>

\* The account data is there.
InitializeSessionCallback(s) ==
    /\ Processes(s) /\ ses[s].init = "pending"
    /\ ses' = [ses EXCEPT ![s].init = "done", ![s].inQueue = FALSE]
    /\ UNCHANGED <<netVars, mapVars, threadVars>>

\* The characters are there and become _legitCharacters.
HandleCharEnum(s) ==
    /\ Processes(s) /\ ses[s].list = "asked"
    /\ ses' = [ses EXCEPT ![s].list = "known"]
    /\ UNCHANGED <<netVars, mapVars, threadVars>>

\* HandlePlayerLoginFromDB: the character enters the world, or cannot be loaded.
PlayerLoaded(s, c) ==
    /\ Processes(s) /\ ses[s].login[c] > 0
    /\ ses' = [ses EXCEPT ![s].player = c, ![s].login[c] = @ - 1, ![s].loading = FALSE]
    /\ stray' = LeftBehind(s)
    /\ UNCHANGED <<addQueue, mapVars, threadVars>>

LoadFails(s, c) ==
    /\ Processes(s) /\ ses[s].login[c] > 0
    /\ LET r == KickPlayer(ses[s])
       IN  ses' = [ses EXCEPT ![s] = [r EXCEPT !.player = Null, !.login[c] = r.login[c] - 1,
                                               !.loading = FALSE]]
    /\ stray' = LeftBehind(s)
    /\ UNCHANGED <<addQueue, mapVars, threadVars>>

\* The rest of WorldSession::Update: a logout that was asked for happens, and
\* then the session stays, if its socket is still open.
KeepSession ==
    /\ stage = "callbacks"
    /\ LET s == sessions[cur]
       IN  /\ ses[s].sock = "open"
           /\ \/ UNCHANGED ses
              \/ /\ ses[s].player # Null /\ ~ses[s].loading
                 /\ ses' = [ses EXCEPT ![s].player = Null]
    /\ stage' = "sweep" /\ cur' = Null /\ todo' = todo \ {cur}
    /\ UNCHANGED <<netVars, mapVars, stopVars>>

\* Mutant of RemoveSession: a queued session stays in the queue.
RemoveLeavesQueue ==
    /\ stage = "callbacks"
    /\ LET s == sessions[cur]
       IN  /\ ses[s].sock # "open"
           /\ ses' = [ses EXCEPT ![s] = Deleted]
           /\ disconnects' = NoteDisconnect(s)
           /\ sessions' = [sessions EXCEPT ![cur] = Null]
    /\ stage' = "sweep" /\ cur' = Null /\ todo' = todo \ {cur}
    /\ UNCHANGED <<netVars, offline, queue, aged, stopVars>>

\* Update returns false: the session leaves the queue and the map, and dies.
RemoveSession ==
    /\ stage = "callbacks"
    /\ LET s == sessions[cur]
           r == RemoveQueuedPlayer(ses, s)
       IN  /\ ses[s].sock # "open"
           /\ ses' = [r.ses EXCEPT ![s] = Deleted]
           /\ queue' = r.queue
           /\ disconnects' = NoteDisconnect(s)
           /\ sessions' = [sessions EXCEPT ![cur] = Null]
    /\ stage' = "sweep" /\ cur' = Null /\ todo' = todo \ {cur}
    /\ UNCHANGED <<netVars, offline, aged, stopVars>>

AllUpdated ==
    /\ stage = "sweep" /\ todo = {}
    /\ stage' = "offline"
    /\ UNCHANGED <<ses, netVars, mapVars, cur, todo, stopVars>>

-----------------------------------------------------------------------------
(* UpdateSessions: the offline sessions. *)

\* Without a player, a minute old or kicked.
Ends(r, s) == r.player = Null \/ s \in aged \/ r.kicked

\* Mutant of EndOffline: only kicked sessions are removed.
EndKickedOnly ==
    /\ stage = "offline"
    /\ LET gone == {offline[a] : a \in {b \in Offline : ses[offline[b]].kicked}}
       IN  /\ ses' = [s \in Sessions |-> IF s \in gone THEN Deleted ELSE ses[s]]
           /\ offline' = [a \in Accounts |-> IF offline[a] \in gone THEN Null ELSE offline[a]]
           /\ aged' = aged \ gone
    /\ stage' = IF final THEN "stopped" ELSE "idle"
    /\ UNCHANGED <<netVars, sessions, queue, disconnects, cur, todo, stopVars>>

EndOffline ==
    /\ stage = "offline"
    /\ LET gone == {offline[a] : a \in {b \in Offline : Ends(ses[offline[b]], offline[b])}}
       IN  /\ ses' = [s \in Sessions |-> IF s \in gone THEN Deleted ELSE ses[s]]
           /\ offline' = [a \in Accounts |-> IF offline[a] \in gone THEN Null ELSE offline[a]]
           /\ aged' = aged \ gone
    /\ stage' = IF final THEN "stopped" ELSE "idle"
    /\ UNCHANGED <<netVars, sessions, queue, disconnects, cur, todo, stopVars>>

-----------------------------------------------------------------------------
(* Between two updates. *)

\* A command kicks a player, online or offline.
Kick(s) ==
    /\ stage = "idle"
    /\ ses[s].player # Null /\ ~ses[s].kicked
    /\ ses' = [ses EXCEPT ![s] = KickPlayer(@)]
    /\ UNCHANGED <<netVars, mapVars, threadVars>>

MinutePasses ==
    /\ stage = "idle"
    /\ aged # {offline[a] : a \in Offline}
    /\ aged' = {offline[a] : a \in Offline}
    /\ UNCHANGED <<ses, netVars, sessions, offline, queue, disconnects, threadVars>>

ToleranceExpires(a) ==
    /\ stage = "idle"
    /\ a \in disconnects
    /\ disconnects' = disconnects \ {a}
    /\ UNCHANGED <<ses, netVars, sessions, offline, queue, aged, threadVars>>

\* A command asks for a shutdown: from the console after an update, or in a
\* packet.  With players online it is put off, and an idle one waits until the
\* next update if anybody is there.  A later request replaces an earlier one.
ShutdownServ(t, i) ==
    /\ stage \in {"idle", "packets"} /\ ~stopping
    /\ LET time == IF t < SaveTime /\ ActiveSessionCount > 0 THEN SaveTime ELSE t
           stop == time = 0 /\ (~i \/ Online = {})
       IN  /\ stopping' = stop
           /\ timer' = CASE stop -> timer
                         [] time = 0 /\ ~stop -> 1
                         [] OTHER -> time
    /\ idle' = i /\ wanted' = TRUE
    /\ UNCHANGED <<ses, netVars, mapVars, stage, cur, todo, final>>

ShutdownCancel ==
    /\ stage \in {"idle", "packets"} /\ ~stopping /\ timer > 0
    /\ timer' = 0 /\ idle' = FALSE /\ wanted' = FALSE
    /\ UNCHANGED <<ses, netVars, mapVars, stage, cur, todo, stopping, final>>

\* SignalHandler, in another thread: at any time.
StopNow ==
    /\ ~stopping
    /\ stopping' = TRUE
    /\ UNCHANGED <<ses, netVars, mapVars, stage, cur, todo, final, timer, idle, wanted>>

\* Mutant of KickAll: the offline sessions are forgotten.
KickAllOnline ==
    /\ stage = "idle" /\ stopping
    /\ final' = TRUE
    /\ queue' = <<>>
    /\ ses' = [s \in Sessions |-> IF s \in {sessions[a] : a \in Online}
                                  THEN KickPlayer(ses[s]) ELSE ses[s]]
    /\ stage' = "add"
    /\ UNCHANGED <<netVars, sessions, offline, disconnects, aged, cur, todo,
                   stopping, timer, idle, wanted>>

\* WorldUpdateLoop has ended: KickAll, and a last UpdateSessions.
KickAll ==
    /\ stage = "idle" /\ stopping
    /\ final' = TRUE
    /\ queue' = <<>>
    /\ ses' = [s \in Sessions |-> IF s \in {sessions[a] : a \in Online} \cup {offline[a] : a \in Offline}
                                  THEN KickPlayer(ses[s]) ELSE ses[s]]
    /\ stage' = "add"
    /\ UNCHANGED <<netVars, sessions, offline, disconnects, aged, cur, todo,
                   stopping, timer, idle, wanted>>

-----------------------------------------------------------------------------
Callback(s) ==
    \/ InitializeSessionCallback(s) \/ HandleCharEnum(s)
    \/ \E c \in AllCharacters : PlayerLoaded(s, c) \/ LoadFails(s, c)

Handlers(s) ==
    \/ HandleCharEnumOpcode(s) \/ LoginDisabled(s) \/ LoginForeign(s)
    \/ \E c \in AllCharacters : LoginFromDatabase(s, c) \/ LoginRefused(s, c) \/ TakeOver(s, c)
    \/ Callback(s)

Update ==
    \/ BeginUpdate \/ RefuseSession \/ AddNewSession \/ ReplaceSession \/ AllAdded
    \/ KickAll \/ OtherPackets \/ KeepSession \/ RemoveSession \/ AllUpdated \/ EndOffline
    \/ \E a \in Accounts : GoOffline(a) \/ BeginSessionUpdate(a)
    \/ \E s \in Sessions : Handlers(s)

Stopped == stage = "stopped" /\ UNCHANGED vars

Next ==
    \/ Update \/ MinutePasses \/ Stopped \/ StopNow \/ ShutdownCancel
    \/ \E t \in Times, i \in BOOLEAN : ShutdownServ(t, i)
    \/ \E a \in Accounts : ToleranceExpires(a)
    \/ \E s \in Sessions : AddSession(s) \/ Disconnect(s) \/ Kick(s)

\* The world thread keeps updating, and time passes.  Nothing depends on when the
\* database answers.
Fairness == WF_vars(Update) /\ SF_vars(MinutePasses)

Spec == Init /\ [][Next]_vars /\ Fairness

-----------------------------------------------------------------------------
(* Properties. *)

OnlineSessions == {sessions[a] : a \in Online}
OfflineSessions == {offline[a] : a \in Offline}

\* The two maps and the queue of new sessions hold every session that exists,
\* once, and no session that was deleted: no leak and no dangling pointer.
SessionsAccounted ==
    /\ OnlineSessions \cup OfflineSessions \cup ToSet(addQueue)
          = {s \in Sessions : ses[s].st = "live"}
    /\ OnlineSessions \cap OfflineSessions = {}
    /\ ToSet(addQueue) \cap (OnlineSessions \cup OfflineSessions) = {}
    /\ IsInjective(addQueue)

\* The login queue holds raw pointers: all to sessions of _sessions, none twice.
\* ASSERT(sessions > 0) in RemoveQueuedPlayer rests on it.
QueueIsOnline == IsInjective(queue) /\ ToSet(queue) \subseteq OnlineSessions

\* Nobody waits while there is room: the queue is empty unless the realm is
\* full, whoever leaves, is replaced, comes back or skips the queue.
NoVainWait == queue # <<>> => ActiveSessionCount >= Limit

\* A realm without privileged accounts and without tolerance is never fuller
\* than its limit.
WithinLimit ==
    Limit > 0 /\ ~Tolerance /\ Skippers = {} /\ ~final => ActiveSessionCount <= Limit

\* Every waiting client was last told the position it now has.
ToldPosition == \A n \in DOMAIN queue : ses[queue[n]].told = n

\* A shutdown that was asked for is not lost: until the server stops or the
\* shutdown is cancelled, its timer runs; and without one it does not.
ShutdownNotLost == ~stopping => (wanted <=> timer > 0)

\* No character is played in two sessions, nor played in one while another one
\* waits to load it; but for an offline session that ends with this update, before
\* it can process the answer.
OneCharacter ==
    \A s, t \in Sessions : s # t /\ ses[s].player # Null =>
        /\ ses[t].player # ses[s].player
        /\ ses[t].login[ses[s].player] > 0 =>
              /\ t \in OfflineSessions /\ (ses[t].kicked \/ ses[t].player = Null)
              /\ stage \in {"packets", "callbacks", "sweep", "offline"}

\* "Since each account can only have one online character at any given time"
\* (LogoutPlayer): its sessions play one, not counting an offline session that was
\* kicked and ends with this update.  A player that the same session left behind
\* by a second login is not counted either: nothing in the code prevents it.
OneOnlineCharacter ==
    \A s, t \in Sessions :
        s # t /\ Account[s] = Account[t] /\ ses[s].player # Null /\ ses[t].player # Null =>
            /\ \E r \in {s, t} : r \in OfflineSessions /\ ses[r].kicked
            /\ stage \in {"packets", "callbacks", "sweep", "offline"}

\* After KickAll and the last UpdateSessions no session has a player: all of them
\* have been logged out.
AllLoggedOut == stage = "stopped" => \A s \in Sessions : ses[s].player = Null

\* A player whose client is gone does not stay in the world for ever.
OfflineEnds ==
    \A s \in Sessions : s \in OfflineSessions ~> s \notin OfflineSessions \/ ses[s].player = Null

\* A client that has left the login queue and is still muted by m_inQueue waits for
\* its account data: the query was made for it, and the answer unmutes it.
AdmittedIsAnswered ==
    ~final => \A s \in OnlineSessions :
                  ses[s].inQueue /\ s \notin ToSet(queue) => ses[s].init = "pending"
=============================================================================
