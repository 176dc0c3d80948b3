------------------------------- MODULE Socket -------------------------------
(***************************************************************************)
(* server/shared/Network/Socket.h: the part of a connection that the world *)
(* and the authentication server share, in the build without IOCP.         *)
(* Outgoing buffers wait in _writeQueue; Update, on the network thread,    *)
(* writes until the queue is empty, an error occurs or the kernel's buffer *)
(* is full, and in the last case asks to be called when it is not.         *)
(*                                                                         *)
(* A buffer is the sequence of packets in it; that part of the front       *)
(* buffer has been written is left out.  `wire' is a history of what was   *)
(* written, and `failed' tells that a write failed: the code drops the     *)
(* buffer and keeps the connection.                                        *)
(***************************************************************************)
EXTENDS Naturals, SequencesExt

VARIABLES closed,      \* _closed
          closing,     \* _closing
          writing,     \* _isWritingAsync
          writeQueue,  \* _writeQueue, front first
          wire, failed

socketVars == <<closed, closing, writing, writeQueue, wire, failed>>

SocketInit ==
    /\ closed = FALSE /\ closing = FALSE /\ writing = FALSE
    /\ writeQueue = <<>> /\ wire = <<>> /\ failed = FALSE

IsOpen == ~closed /\ ~closing

\* Update returns before its loop.
NothingToWrite == writing \/ (writeQueue = <<>> /\ ~closing)

\* Mutant of ClosesNow: the rest of the queue is not looked at.
ClosesAnyway == closing

\* HandleQueue calls CloseSocket after the pop of the front.
ClosesNow == closing /\ Tail(writeQueue) = <<>>

PopFront ==
    /\ writeQueue' = Tail(writeQueue)
    /\ closed' = (closed \/ ClosesNow)
    /\ UNCHANGED <<closing, writing>>

\* HandleQueue writes the front buffer: there may be more to do.
WriteAll ==
    /\ writeQueue # <<>> /\ Head(writeQueue) # <<>>
    /\ wire' = wire \o Head(writeQueue)
    /\ PopFront
    /\ UNCHANGED failed

\* HandleQueue has an empty front buffer: zero bytes are sent, and it returns
\* false.
WriteNothing ==
    /\ writeQueue # <<>> /\ Head(writeQueue) = <<>>
    /\ PopFront
    /\ UNCHANGED <<wire, failed>>

\* HandleQueue gets an error: the front buffer is dropped.
WriteFails ==
    /\ writeQueue # <<>> /\ Head(writeQueue) # <<>>
    /\ failed' = TRUE
    /\ PopFront
    /\ UNCHANGED wire

\* HandleQueue can write nothing, or a part: AsyncProcessQueue.
WouldBlock ==
    /\ writeQueue # <<>> /\ Head(writeQueue) # <<>>
    /\ writing' = TRUE
    /\ UNCHANGED <<closed, closing, writeQueue, wire, failed>>
=============================================================================
