--------------------------- MODULE SessionPackets ---------------------------
(***************************************************************************)
(* The packets of one client, from the network thread to their handlers:   *)
(*   server/game/Server/WorldSession.cpp   QueuePacket, Update, filters    *)
(*   common/Threading/LockedQueue.h        _recvQueue                      *)
(*   server/game/World/World.cpp, server/game/Maps/Map.cpp   the callers   *)
(*                                                                         *)
(* Two threads take packets from the queue in turn: the world thread in    *)
(* UpdateSessions and, while the player is in a map, the thread that       *)
(* updates that map.  Each takes from the front only what its filter lets  *)
(* it.  A packet that needs a player and comes before there is one goes    *)
(* back to the front after the loop.  The network thread appends at any    *)
(* time between two calls of next.                                         *)
(*                                                                         *)
(* A packet is its number and its kind; a kind stands for the opcodes of   *)
(* one status and one processing place.  Clients send what they like, a    *)
(* login while they play included; what the Player object that such a      *)
(* login leaves behind in the world (see WorldSessions) does to the queue  *)
(* is left out.                                                            *)
(***************************************************************************)
EXTENDS Naturals, SequencesExt

CONSTANTS MaxPackets,    \* bound on the packets of the client
          MaxProcessed   \* MAX_PROCESSED_PACKETS_IN_SAME_WORLDSESSION_UPDATE

ASSUME PacketsAssumption == MaxPackets \in Nat /\ MaxProcessed \in Nat \ {0}

\* login: CMSG_PLAYER_LOGIN, enum: CMSG_CHAR_ENUM, logout: CMSG_LOGOUT_REQUEST,
\* cancel: CMSG_LOGOUT_CANCEL, ack: MSG_MOVE_WORLDPORT_ACK; move, cast and chat
\* stand for the thread-safe, thread-unsafe and in-place opcodes of a player.
Kinds == {"login", "enum", "logout", "cancel", "ack", "move", "cast", "chat"}

Status(k) ==
    CASE k \in {"login", "enum"}                    -> "AUTHED"
      [] k \in {"logout", "move", "cast", "chat"}   -> "LOGGEDIN"
      [] k = "cancel"                               -> "LOGGEDIN_OR_RECENTLY_LOGGOUT"
      [] k = "ack"                                  -> "TRANSFER"

Place(k) ==
    CASE k = "move" -> "THREADSAFE" [] k = "chat" -> "INPLACE" [] OTHER -> "THREADUNSAFE"

VARIABLES recvQueue,      \* _recvQueue: packets [id, kind], front first
          requeue,        \* requeuePackets of the update that is running
          processed,      \* processedPackets
          filter,         \* whose update is running: "world" or "map"
          player,         \* _player: "none", "inworld", "transfer"
          loading,        \* m_playerLoading
          pending,        \* the number of characters being loaded
          recentLogout,   \* m_playerRecentlyLogout
          logoutAsked,    \* _logoutTime # 0
          sock,           \* m_Socket: "open", "closed", "null"
          kindOf,         \* history: the kinds received, by number
          handled,        \* history: the packets whose handlers were called
          done,           \* the packets deleted
          tookOver        \* history: an in-world character was taken over

queueVars == <<recvQueue, kindOf>>
loopVars == <<requeue, processed, filter, handled, done>>
playerVars == <<player, loading, pending, recentLogout, logoutAsked, tookOver>>
vars == <<queueVars, loopVars, playerVars, sock>>

Init ==
    /\ recvQueue = <<>> /\ requeue = <<>> /\ processed = 0 /\ filter = "world"
    /\ player = "none" /\ loading = FALSE /\ pending = 0
    /\ recentLogout = FALSE /\ logoutAsked = FALSE
    /\ sock = "open"
    /\ kindOf = <<>> /\ handled = <<>> /\ done = {} /\ tookOver = FALSE

HasPlayer == player \in {"inworld", "transfer"}

\* The loop requeues a packet of kind k.
Premature(k) == Status(k) = "LOGGEDIN" /\ ~HasPlayer /\ ~recentLogout

\* The network thread: ReadDataHandler calls QueuePacket.
QueuePacket(k) ==
    /\ sock = "open" /\ Len(kindOf) < MaxPackets
    /\ recvQueue' = Append(recvQueue, [id |-> Len(kindOf) + 1, kind |-> k])
    /\ kindOf' = Append(kindOf, k)
    /\ UNCHANGED <<loopVars, playerVars, sock>>

\* The client is gone, or is kicked.
Disconnect ==
    /\ sock = "open"
    /\ sock' = "closed"
    /\ UNCHANGED <<queueVars, loopVars, playerVars>>

-----------------------------------------------------------------------------
(* The filters and the loop of Update. *)

\* Mutant of Accepts: the world thread leaves every thread-safe packet to a map.
AcceptsByPlace(k) ==
    IF filter = "map" THEN Place(k) # "THREADUNSAFE" ELSE Place(k) # "THREADSAFE"

\* MapSessionFilter::Process and WorldSessionFilter::Process.
Accepts(k) ==
    \/ Place(k) = "INPLACE"
    \/ filter = "map" /\ Place(k) = "THREADSAFE" /\ player = "inworld"
    \/ filter = "world" /\ (Place(k) = "THREADUNSAFE" \/ player # "inworld")

\* The limit is not reached, and next returns true.
LoopGoesOn ==
    /\ sock # "null" /\ processed <= MaxProcessed
    /\ recvQueue # <<>> /\ Accepts(Head(recvQueue).kind)

\* Packet p is the next.
Takes(p) ==
    /\ LoopGoesOn /\ p = Head(recvQueue)
    /\ recvQueue' = Tail(recvQueue)
    /\ UNCHANGED <<kindOf, filter, sock>>

Requeue(p) ==
    /\ Takes(p)
    /\ Premature(p.kind)
    /\ requeue' = Append(requeue, p)
    /\ processed' = processed + 1
    /\ UNCHANGED <<handled, done, playerVars>>

\* The packet is deleted without its handler: it comes too late or during a
\* transfer, a hook forbids it, the session is muted, or it cannot be parsed.
Drop(p) ==
    /\ Takes(p)
    /\ ~Premature(p.kind)
    /\ p.kind = "ack" => player = "transfer"
    /\ done' = done \cup {p.id}
    /\ processed' = processed + 1
    /\ recentLogout' \in {recentLogout, recentLogout /\ p.kind # "enum"}
    /\ UNCHANGED <<requeue, handled, player, loading, pending, logoutAsked, tookOver>>

\* The packet is deleted and ends the loop: the client floods, or acknowledges a
\* transfer that is not under way.
DropAndBreak(p) ==
    /\ Takes(p)
    /\ ~Premature(p.kind)
    /\ Status(p.kind) = "LOGGEDIN" => player = "inworld"
    /\ p.kind = "cancel" => HasPlayer \/ recentLogout
    /\ done' = done \cup {p.id}
    /\ processed' = MaxProcessed + 1
    /\ recentLogout' = (recentLogout /\ p.kind # "enum")
    /\ UNCHANGED <<requeue, handled, player, loading, pending, logoutAsked, tookOver>>

\* opHandle->Call
Calls(p) ==
    /\ Takes(p)
    /\ handled' = Append(handled, p.id)
    /\ done' = done \cup {p.id}
    /\ processed' = processed + 1
    /\ UNCHANGED requeue

\* HandlePlayerLoginOpcode: refused with or without m_playerLoading left set,
\* loading begins, or a player that is still in the world is taken over at once.
\* A character of somebody else also gets the client kicked (Disconnect).
HandlePlayerLogin(p) ==
    /\ p.kind = "login"
    /\ Calls(p)
    /\ \/ loading' \in BOOLEAN /\ UNCHANGED <<player, pending, tookOver>>
       \/ loading' = TRUE /\ pending' = pending + 1 /\ UNCHANGED <<player, tookOver>>
       \/ player' = "inworld" /\ loading' = FALSE /\ tookOver' = TRUE /\ UNCHANGED pending
    /\ UNCHANGED <<recentLogout, logoutAsked>>

HandleCharEnum(p) ==
    /\ p.kind = "enum"
    /\ Calls(p)
    /\ recentLogout' = FALSE
    /\ UNCHANGED <<player, loading, pending, logoutAsked, tookOver>>

\* HandleLogoutRequestOpcode: refused, in twenty seconds, or at once.
HandleLogoutRequest(p) ==
    /\ p.kind = "logout" /\ player = "inworld"
    /\ Calls(p)
    /\ \/ logoutAsked' \in BOOLEAN /\ UNCHANGED <<player, recentLogout>>
       \/ player' = "none" /\ recentLogout' = TRUE /\ logoutAsked' = FALSE
    /\ UNCHANGED <<loading, pending, tookOver>>

HandleLogoutCancel(p) ==
    /\ p.kind = "cancel" /\ (HasPlayer \/ recentLogout)
    /\ Calls(p)
    /\ logoutAsked' = FALSE
    /\ UNCHANGED <<player, loading, pending, recentLogout, tookOver>>

HandleMoveWorldportAck(p) ==
    /\ p.kind = "ack" /\ player = "transfer"
    /\ Calls(p)
    /\ player' = "inworld"
    /\ UNCHANGED <<loading, pending, recentLogout, logoutAsked, tookOver>>

\* Any other handler may begin a transfer to another map.
HandleInWorld(p) ==
    /\ p.kind \in {"move", "cast", "chat"} /\ player = "inworld"
    /\ Calls(p)
    /\ player' \in {"inworld", "transfer"}
    /\ UNCHANGED <<loading, pending, recentLogout, logoutAsked, tookOver>>

-----------------------------------------------------------------------------
(* The rest of Update. *)

\* Mutant of Readd: the packets set aside are forgotten.
ReaddNothing == UNCHANGED recvQueue

\* Mutant of Readd: the packets go to the back.
ReaddAtBack == recvQueue' = recvQueue \o requeue

\* LockedQueue::readd
Readd == recvQueue' = requeue \o recvQueue

LoopEnds ==
    /\ ~LoopGoesOn
    /\ Readd /\ requeue' = <<>> /\ processed' = 0
    /\ UNCHANGED <<kindOf, handled, done, tookOver>>

\* Map::Update comes next, if the player is in a map.
NextFilter == IF player' = "inworld" /\ filter = "world" THEN "map" ELSE "world"

\* LogoutPlayer, at the end of the world thread's Update.
LogsOut ==
    /\ filter = "world" /\ logoutAsked
    /\ player' = "none" /\ recentLogout' = TRUE /\ logoutAsked' = FALSE

EndUpdate ==
    /\ sock = "open" \/ filter = "map"
    /\ LoopEnds
    /\ \/ UNCHANGED <<player, recentLogout, logoutAsked>>
       \/ HasPlayer /\ ~loading /\ LogsOut
       \/ /\ filter = "world" /\ player = "transfer"            \* HandleTeleportTimeout, first in the next one
          /\ player' = "inworld" /\ UNCHANGED <<recentLogout, logoutAsked>>
    /\ filter' = NextFilter
    /\ UNCHANGED <<sock, loading, pending>>

\* ProcessQueryCallbacks calls HandlePlayerLoginFromDB, in the update of either
\* thread; several results come in as many updates.  The player may log out at
\* once if the one before it had asked to.
PlayerLoaded ==
    /\ sock = "open" \/ filter = "map"
    /\ pending > 0
    /\ LoopEnds
    /\ pending' = pending - 1 /\ loading' = FALSE
    /\ \/ player' = "inworld" /\ UNCHANGED <<recentLogout, logoutAsked>>
       \/ LogsOut
    /\ filter' = NextFilter
    /\ UNCHANGED sock

\* HandlePlayerLoginFromDB cannot load the character and kicks the client.
LoadFails ==
    /\ sock = "open" \/ filter = "map"
    /\ pending > 0
    /\ LoopEnds
    /\ pending' = pending - 1 /\ loading' = FALSE
    /\ player' = "none" /\ sock' = IF sock = "open" THEN "closed" ELSE sock
    /\ filter' = NextFilter
    /\ UNCHANGED <<recentLogout, logoutAsked>>

\* Update of the world thread finds the socket closed and gives it up.
GiveUpSocket ==
    /\ sock = "closed" /\ filter = "world"
    /\ LoopEnds
    /\ sock' = "null"
    /\ UNCHANGED <<player, loading, pending, recentLogout, logoutAsked, filter>>

Handler(p) ==
    \/ HandlePlayerLogin(p) \/ HandleCharEnum(p) \/ HandleLogoutRequest(p)
    \/ HandleLogoutCancel(p) \/ HandleMoveWorldportAck(p) \/ HandleInWorld(p)

Update ==
    \/ \E p \in ToSet(recvQueue) : Requeue(p) \/ Drop(p) \/ DropAndBreak(p) \/ Handler(p)
    \/ EndUpdate \/ PlayerLoaded \/ LoadFails \/ GiveUpSocket

\* The session has no socket any more: what is queued is deleted with it.
Over == sock = "null" /\ UNCHANGED vars

Next == Disconnect \/ Update \/ Over \/ \E k \in Kinds : QueuePacket(k)

\* The world and the map are updated again and again, and the database answers.
Fairness == WF_vars(Update) /\ SF_vars(PlayerLoaded \/ LoadFails)

Spec == Init /\ [][Next]_vars /\ Fairness

-----------------------------------------------------------------------------
(* Properties. *)

Ids(seq) == {seq[i].id : i \in DOMAIN seq}

\* Every packet received is in the queue, set aside by the running update, or
\* deleted: in one of them, once.  None is leaked, deleted twice or handled
\* twice.
NothingLost ==
    /\ Ids(recvQueue) \cup Ids(requeue) \cup done = 1..Len(kindOf)
    /\ Len(recvQueue) + Len(requeue) + Cardinality(done) = Len(kindOf)
    /\ IsInjective(handled) /\ ToSet(handled) \subseteq done

OfPlayer(id) == Status(kindOf[id]) = "LOGGEDIN"

\* The packets of a player are handled in the order they were sent, whichever
\* thread takes them and however often some of them are put back.  A client that
\* sends packets ahead of a login that takes its character over at once is an
\* exception.
HandledInOrder ==
    \/ tookOver
    \/ \A i, j \in DOMAIN handled :
          i < j /\ OfPlayer(handled[i]) /\ OfPlayer(handled[j]) => handled[i] < handled[j]

\* A packet of a player waits as long as the client does not log in.
WaitsForLogin(i) == i \in DOMAIN kindOf /\ OfPlayer(i) /\ ~HasPlayer /\ pending = 0

\* More packets wait for a player than one update looks at: they are put back
\* over and over, and nothing behind them is reached.
Starved ==
    ~HasPlayer /\ Cardinality({i \in 1..Len(kindOf) \ done : OfPlayer(i)}) > MaxProcessed

\* No packet is left for ever to a thread that does not take it, or behind
\* packets that are put back, unless so many of them wait for a player that an
\* update looks at nothing else.
ProcessedUnlessStarved ==
    \A i \in 1..MaxPackets :
        i \in DOMAIN kindOf ~> i \in done \/ sock # "open" \/ WaitsForLogin(i) \/ Starved

\* "Any leftover will be processed in next update", whatever the client has sent
\* before: packets of a player wait for a login, the others for nothing.
LeftoverProcessed ==
    \A i \in 1..MaxPackets :
        i \in DOMAIN kindOf ~> i \in done \/ sock # "open" \/ WaitsForLogin(i)
=============================================================================
