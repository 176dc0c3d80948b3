---------------------------- MODULE WorldSocket ----------------------------
(***************************************************************************)
(* A client's connection to worldserver, from the first query to removal:  *)
(*   server/game/Server/WorldSocket.cpp      reading, the handshake, Update *)
(*   server/shared/Network/Socket.h          writing and closing (Socket)  *)
(*   server/shared/Network/NetworkThread.h   the loop that calls Update    *)
(*   common/Threading/MPSCQueue.h            _bufferQueue (MPSCQueue)      *)
(*   server/game/Server/WorldSession.cpp     SendPacket, kick, destructor  *)
(*                                                                         *)
(* One network thread runs the handlers of the socket and its Update, one  *)
(* after the other.  The world thread and the map threads send packets and *)
(* close the socket whenever they like.  The world thread deletes the      *)
(* session when it finds the socket closed, which it does while no map     *)
(* thread runs.                                                            *)
(*                                                                         *)
(* A packet is its number; sizes, contents and encryption are left out, so *)
(* a packet may or may not fit into the buffer being filled.  The checks   *)
(* of the handshake have one outcome, admitted or rejected.                *)
(***************************************************************************)
EXTENDS MPSCQueue, Socket

CONSTANTS MaxPackets,  \* bound on the packets sent to the client
          MaxInput     \* bound on the packets received from it

ASSUME BoundsAssumption ==
    /\ MaxPackets \in Nat /\ MaxInput \in Nat
    /\ Elements = 1..MaxPackets

Senders == Producers \ {Consumer}

VARIABLES net,           \* where the network thread is
          buffer,        \* Update's local buffer
          after,         \* what the network thread does after an Enqueue
          query,         \* the callback in _queryProcessor
          reading,       \* async_read_some is under way
          inbuf,         \* the packets in _readBuffer
          authed,        \* _authed
          worldSession,  \* _worldSession # nullptr
          session,       \* the WorldSession object itself
          closer,        \* where the thread that closes the socket is
          removed,       \* the network thread has dropped the socket
          used, received, rejection

netVars == <<net, buffer, after, query, reading, inbuf, authed>>
sessionVars == <<worldSession, session, closer>>
boundVars == <<removed, used, received, rejection>>
vars == <<mpscVars, socketVars, netVars, sessionVars, boundVars>>

Init ==
    /\ MPSCInit /\ SocketInit
    /\ net = "idle" /\ buffer = <<>> /\ after = "none"
    /\ query = "ip" /\ reading = FALSE /\ inbuf = <<>> /\ authed = FALSE
    /\ worldSession = FALSE /\ session = "none" /\ closer = "idle"
    /\ removed = FALSE /\ used = 0 /\ received = 0 /\ rejection = None

-----------------------------------------------------------------------------
(* Senders: the world thread and the map threads. *)

\* WorldSocket::SendPacket, called by thread t: nothing once the socket is
\* closed or about to be.
SendPacket(t) ==
    /\ IsOpen /\ used < MaxPackets
    /\ used' = used + 1
    /\ CallEnqueue(t, used + 1)
    /\ UNCHANGED consumerVars

SessionSends(t) ==
    /\ session = "live"
    /\ SendPacket(t)
    /\ UNCHANGED <<socketVars, netVars, sessionVars, removed, received, rejection>>

SenderEnqueues(t) ==
    /\ Exchange(t) \/ StoreLink(t)
    /\ UNCHANGED <<consumerVars, socketVars, netVars, sessionVars, boundVars>>

\* KickPlayer and the idle check call CloseSocket.
KickPlayer ==
    /\ session = "live" /\ closer = "idle" /\ ~closed
    /\ closed' = TRUE /\ closer' = "onclose"
    /\ UNCHANGED <<mpscVars, closing, writing, writeQueue, wire, failed, netVars,
                   worldSession, session, boundVars>>

\* Mutant of OnClose: the socket keeps its session.
OnCloseKeepsSession == UNCHANGED worldSession

OnClose == worldSession' = FALSE

\* The rest of CloseSocket on the world's side.
KickOnClose ==
    /\ closer = "onclose"
    /\ OnClose /\ closer' = "idle"
    /\ UNCHANGED <<mpscVars, socketVars, netVars, session, boundVars>>

\* WorldSession::Update finds the socket closed, or the session is deleted with
\* it: in both cases ~WorldSession calls CloseSocket in vain or not at all.
DeleteSession ==
    /\ session = "live" /\ closed /\ closer = "idle"
    /\ \A t \in Senders : input[t] = None
    /\ session' = "deleted"
    /\ UNCHANGED <<mpscVars, socketVars, netVars, worldSession, closer, boundVars>>

-----------------------------------------------------------------------------
(* The network thread: Update. *)

\* NetworkThread::Update comes to this socket.
Update ==
    /\ net = "idle" /\ ~removed
    /\ net' = "drain"
    /\ CallDequeue
    /\ UNCHANGED <<socketVars, buffer, after, query, reading, inbuf, authed,
                   sessionVars, boundVars>>

Dequeue ==
    /\ net = "drain"
    /\ DequeueStep
    /\ UNCHANGED <<socketVars, netVars, sessionVars, boundVars>>

\* Mutant of Fill: the full buffer is lost.
FillDrops(p) ==
    \/ buffer' = Append(buffer, p) /\ UNCHANGED writeQueue
    \/ buffer' = <<p>> /\ UNCHANGED writeQueue

\* The packet fits, or the buffer is queued as it is, even empty, and another
\* one begun.
Fill(p) ==
    \/ buffer' = Append(buffer, p) /\ UNCHANGED writeQueue
    \/ buffer' = <<p>> /\ writeQueue' = Append(writeQueue, buffer)

\* A packet is taken, copied and deleted, and Dequeue called again.
Drain ==
    /\ net = "drain"
    /\ TakeTail /\ Fill(tail)
    /\ net' = "again"
    /\ UNCHANGED <<closed, closing, writing, wire, failed, after, query, reading,
                   inbuf, authed, sessionVars, boundVars>>

DrainAgain ==
    /\ net = "again"
    /\ net' = "drain"
    /\ CallDequeue
    /\ UNCHANGED <<socketVars, buffer, after, query, reading, inbuf, authed,
                   sessionVars, boundVars>>

\* Nothing more to take: the last buffer is queued.
Drained ==
    /\ net = "drain"
    /\ FindsNothing
    /\ buffer' = <<>>
    /\ writeQueue' = IF buffer = <<>> THEN writeQueue ELSE Append(writeQueue, buffer)
    /\ net' = "base"
    /\ UNCHANGED <<closed, closing, writing, wire, failed, after, query, reading,
                   inbuf, authed, sessionVars, boundVars>>

\* Socket::Update: a closed socket is dropped by the network thread.
BaseUpdate ==
    /\ net = "base"
    /\ removed' = closed
    /\ net' = IF closed THEN "idle" ELSE IF NothingToWrite THEN "callbacks" ELSE "write"
    /\ UNCHANGED <<mpscVars, socketVars, buffer, after, query, reading, inbuf, authed,
                   sessionVars, used, received, rejection>>

\* One call of HandleQueue: in the loop of Update, or by WriteHandlerWrapper.
\* A call that closes the socket has emptied the queue, which ends the loop;
\* no callback is waiting then.
HandleQueue ==
    /\ net \in {"write", "written"}
    /\ LET back == IF net = "write" THEN "callbacks" ELSE "idle"
       IN  \/ /\ writeQueue = <<>>
              /\ net' = back
              /\ UNCHANGED socketVars
           \/ /\ WriteAll
              /\ net' = IF closed' /\ ~closed THEN "onclose"
                        ELSE IF writeQueue' # <<>> THEN (IF net = "write" THEN net ELSE back)
                        ELSE back
           \/ /\ WriteNothing \/ WriteFails
              /\ net' = IF closed' /\ ~closed THEN "onclose" ELSE back
           \/ /\ WouldBlock
              /\ net' = back
    /\ UNCHANGED <<mpscVars, buffer, after, query, reading, inbuf, authed, sessionVars,
                   boundVars>>

WriteHandlerWrapper ==
    /\ net = "idle" /\ writing
    /\ writing' = FALSE /\ net' = "written"
    /\ UNCHANGED <<mpscVars, closed, closing, writeQueue, wire, failed, buffer, after,
                   query, reading, inbuf, authed, sessionVars, boundVars>>

-----------------------------------------------------------------------------
(* The network thread: queries and packets to the client. *)

\* The network thread calls SendPacket itself; what follows is in `after'.  A
\* socket that is not open any more makes SendPacket return at once.
NetSends(what) ==
    /\ after' = what /\ net' = "sending"
    /\ SendPacket(Consumer)

\* ProcessReadyCallbacks: no result is ready.
NoResult ==
    /\ net = "callbacks"
    /\ net' = "idle"
    /\ UNCHANGED <<mpscVars, socketVars, buffer, after, query, reading, inbuf, authed,
                   sessionVars, boundVars>>

\* CheckIpCallback: AsyncRead, and the challenge.
IpAccepted ==
    /\ net = "callbacks" /\ query = "ip"
    /\ query' = "none" /\ reading' = IsOpen
    /\ NetSends("nothing")
    /\ UNCHANGED <<socketVars, buffer, inbuf, authed, sessionVars, removed, received, rejection>>

\* CheckIpCallback and HandleAuthSessionCallback: SendAuthResponseError, and
\* then DelayedCloseSocket.
Rejected ==
    /\ net = "callbacks" /\ query \in {"ip", "account"}
    /\ query' = "none" /\ rejection' = used + 1
    /\ NetSends("close")
    /\ UNCHANGED <<socketVars, buffer, reading, inbuf, authed, sessionVars, removed, received>>

\* Mutant of Admitted: no further read is started.
AdmittedUnread ==
    /\ net = "callbacks" /\ query = "account"
    /\ query' = "none" /\ authed' = TRUE
    /\ worldSession' = TRUE /\ session' = "live"
    /\ net' = "idle"
    /\ UNCHANGED <<mpscVars, socketVars, buffer, after, reading, inbuf, closer, boundVars>>

\* HandleAuthSessionCallback: the session is created and handed to the world.
Admitted ==
    /\ net = "callbacks" /\ query = "account"
    /\ query' = "none" /\ authed' = TRUE
    /\ worldSession' = TRUE /\ session' = "live"
    /\ reading' = IsOpen
    /\ net' = "idle"
    /\ UNCHANGED <<mpscVars, socketVars, buffer, after, inbuf, closer, boundVars>>

NetEnqueues ==
    /\ net = "sending"
    /\ \/ Exchange(Consumer) /\ UNCHANGED <<net, closing>>
       \/ /\ StoreLink(Consumer)
          /\ closing' = (closing \/ after = "close")
          /\ net' = IF after = "read" THEN "read" ELSE "idle"
    /\ UNCHANGED <<consumerVars, closed, writing, writeQueue, wire, failed, buffer, after,
                   query, reading, inbuf, authed, sessionVars, boundVars>>

-----------------------------------------------------------------------------
(* The network thread: packets from the client. *)

\* CloseSocket, called by a read handler.
NetCloses ==
    /\ closed' = TRUE
    /\ net' = IF closed THEN "idle" ELSE "onclose"
    /\ UNCHANGED <<closing, writing, writeQueue, wire, failed>>

NetOnClose ==
    /\ net = "onclose"
    /\ OnClose /\ net' = "idle"
    /\ UNCHANGED <<mpscVars, socketVars, buffer, after, query, reading, inbuf, authed,
                   session, closer, boundVars>>

\* ReadHandlerInternal with an error: the client is gone.
ReadFails ==
    /\ net = "idle" /\ reading
    /\ reading' = FALSE
    /\ NetCloses
    /\ UNCHANGED <<mpscVars, buffer, after, query, inbuf, authed, sessionVars, boundVars>>

\* ReadHandler begins with the packets that have become complete, none if only
\* a part of one has come.  CMSG_AUTH_SESSION is handled even if the challenge
\* it should answer is still waiting to be written.
ReadCompletes(packets) ==
    /\ net = "idle" /\ reading
    /\ received + Len(packets) <= MaxInput
    /\ received' = received + Len(packets)
    /\ reading' = FALSE
    /\ inbuf' = inbuf \o packets
    /\ net' = IF IsOpen THEN "read" ELSE "idle"
    /\ UNCHANGED <<mpscVars, socketVars, buffer, after, query, authed, sessionVars,
                   removed, used, rejection>>

\* The end of ReadHandler: AsyncRead, which does nothing on a closed socket.
AsyncRead ==
    /\ net = "read" /\ inbuf = <<>>
    /\ reading' = IsOpen
    /\ net' = "idle"
    /\ UNCHANGED <<mpscVars, socketVars, buffer, after, query, inbuf, authed, sessionVars,
                   boundVars>>

\* HandlePing: the pong, after which the loop of ReadHandler goes on.
HandlePing ==
    /\ net = "read" /\ inbuf # <<>> /\ Head(inbuf) = "ping"
    /\ worldSession
    /\ inbuf' = Tail(inbuf)
    /\ \/ /\ NetSends("read")
          /\ UNCHANGED socketVars
       \/ /\ ~IsOpen
          /\ UNCHANGED <<mpscVars, socketVars, net, after, used>>
    /\ UNCHANGED <<buffer, query, reading, authed, sessionVars, removed, received, rejection>>

\* HandleAuthSession: nothing is read until the query has its answer.
HandleAuthSession ==
    /\ net = "read" /\ inbuf # <<>> /\ Head(inbuf) = "auth"
    /\ ~authed
    /\ inbuf' = Tail(inbuf)
    /\ query' = "account" /\ net' = "idle"
    /\ UNCHANGED <<mpscVars, socketVars, buffer, after, reading, authed, sessionVars, boundVars>>

\* ReadDataHandler: the packet is queued on the session, under the lock that
\* OnClose takes.
QueueOnSession ==
    /\ net = "read" /\ inbuf # <<>> /\ Head(inbuf) = "data"
    /\ worldSession
    /\ inbuf' = Tail(inbuf)
    /\ UNCHANGED <<mpscVars, socketVars, net, buffer, after, query, reading, authed,
                   sessionVars, boundVars>>

\* Any packet may be malformed, a ping may come too fast, a second
\* CMSG_AUTH_SESSION and packets without a session are errors.  For a second
\* CMSG_AUTH_SESSION the session is asked who the player is, under the lock; if
\* the pointer is null this is undefined, and what is modelled is that it goes on.
ReadDataError ==
    /\ net = "read" /\ inbuf # <<>>
    /\ inbuf' = Tail(inbuf)
    /\ NetCloses
    /\ UNCHANGED <<mpscVars, buffer, after, query, reading, authed, sessionVars, boundVars>>

-----------------------------------------------------------------------------
Callbacks == IpAccepted \/ Rejected \/ Admitted

NetworkThread ==
    \/ Update \/ Dequeue \/ Drain \/ DrainAgain \/ Drained \/ BaseUpdate \/ HandleQueue
    \/ NoResult \/ Callbacks \/ NetEnqueues \/ NetOnClose
    \/ AsyncRead \/ HandlePing \/ HandleAuthSession \/ QueueOnSession \/ ReadDataError

Client ==
    \/ WriteHandlerWrapper \/ ReadFails
    \/ \E packets \in BoundedSeq({"ping", "auth", "data"}, 2) : ReadCompletes(packets)

World ==
    \/ KickPlayer \/ KickOnClose \/ DeleteSession
    \/ \E t \in Senders : SessionSends(t) \/ SenderEnqueues(t)

Gone == removed /\ UNCHANGED vars

Next == NetworkThread \/ Client \/ World \/ Gone

\* Every thread goes on, the database answers, and a client whose socket is
\* offered data over and over takes some or is found to be gone.
Fairness ==
    /\ WF_vars(NetworkThread) /\ SF_vars(Update) /\ SF_vars(Callbacks)
    /\ SF_vars(WriteHandlerWrapper)
    /\ SF_vars(HandleQueue /\ writeQueue' # writeQueue)
    /\ \A t \in Senders : WF_vars(SenderEnqueues(t))
    /\ WF_vars(KickOnClose)

Spec == Init /\ [][Next]_vars /\ Fairness

-----------------------------------------------------------------------------
(* Properties. *)

\* The wire, the queued buffers and the buffer being filled cut the packets taken
\* into pieces: cut[n] packets are on the wire or in the first n buffers.
Cuts(cut) ==
    /\ wire = SubSeq(got, 1, cut[0])
    /\ \A n \in 1..Len(writeQueue) : /\ cut[n - 1] <= cut[n]
                                     /\ writeQueue[n] = SubSeq(got, cut[n - 1] + 1, cut[n])
    /\ buffer = SubSeq(got, cut[Len(writeQueue)] + 1, Len(got))

\* What the client receives is what was sent, in the order of the exchanges,
\* with no packet lost between the queue, the buffers and the wire: as long as
\* no write fails.
SentInOrder ==
    /\ TakenInOrder
    /\ ~failed => \E cut \in [0..Len(writeQueue) -> 0..Len(got)] : Cuts(cut)

\* The network thread never touches a session that the world thread has
\* deleted: a pointer it still has belongs to a live session, unless the
\* network thread itself is on its way to reset it.  And the pointer is there as
\* long as an authenticated socket is open, so that the handler of a second
\* CMSG_AUTH_SESSION, which does not test it, meets null only after a kick.
SessionNotDangling ==
    /\ worldSession => session = "live" \/ net = "onclose"
    /\ authed /\ ~worldSession => closed

\* An open connection is watched: a read is under way, whose failure ends it,
\* or a query, whose answer starts one.
ConnectionWatched == IsOpen /\ net = "idle" => reading \/ query # "none"

\* A socket marked for delayed close is closed and dropped.  If the write queue
\* is empty when it is marked, the answer that goes with the mark and is still in
\* _bufferQueue is written first, unless a write fails.
RejectionEnds ==
    /\ closing ~> removed
    /\ closing /\ ~closed /\ writeQueue = <<>> ~> Contains(wire, rejection) \/ failed

\* A client that is rejected is told so, unless a write fails, as the log says
\* that it was ("Sent Auth Response"), and its socket is closed and dropped.
RejectedIsTold == closing ~> removed /\ (Contains(wire, rejection) \/ failed)

=============================================================================
