# A verification project for AzerothCore's server core

AzerothCore (`src/`) is a game server in C++: `worldserver`, `authserver`, the
libraries they share (`src/src/common`, `src/src/server/database`,
`src/src/server/shared`) and a very large body of game rules
(`src/src/server/game`, `src/src/server/scripts`). This project models the part
that is hard to test: the threads, queues, connections and sessions on which the
game rules run. It consists of TLA+ modules, TLC runs on small instances and
TLAPS proofs for instances of any size.

File names below are relative to `src/src/`.

## 1. Inventory

### How the server runs

| thread | what it does |
| --- | --- |
| world thread | `World::Update`: sessions, maps (`MapMgr::Update`), callbacks of finished queries, timers; about every 10 ms |
| map update threads | `MapUpdater::WorkerThread`: update of single maps, between the start of `MapMgr::Update` and its `wait()` |
| database workers | one per asynchronous MySQL connection: `DatabaseWorker::WorkerThread` |
| network threads | `NetworkThread::Run`: sockets, authentication of clients, incoming packets |
| main thread | start-up (`DatabaseLoader`), world loop, shutdown in `Main.cpp` |

They meet in blocking queues (`PCQueue`), locked queues (`LockedQueue`), a
lock-free queue (`MPSCQueue`), promises and futures that the world thread polls
(`AsyncCallbackProcessor`), and objects that one of them owns and others point to.

### Components

| component | state | operations | talks to | what is hard | what makes it correct |
| --- | --- | --- | --- | --- | --- |
| map updater (`game/Maps/MapUpdater`, `MapMgr`, `MapInstanced`) | request queue, `pending_requests`, cancellation token | `schedule_update`, `wait`, `activate`, `deactivate`, worker loop | maps, which schedule nested requests for their instances | nested requests during `wait()`, deletion of instances, shutdown with sleeping workers | the tick is a barrier, no request outlives its map, every map once per tick, no lost wake-up |
| database pool (`server/database`) | shared queue, connections, promises, callbacks | `Open`, `Close`, `Execute`, `AsyncQuery`, `ProcessReadyCallbacks`, worker loop | everything that loads or saves | workers that start before their connection is open, the shared queue cancelled by one destructor, callbacks that add callbacks | each operation once and in order, each callback once and on a result, no use of a closed connection, queries are answered, shutdown saves and ends |
| SQL transactions (`MySQLConnection`, `Transaction`) | server session, error code, retries, `_deadlockLock` | `ExecuteTransaction`, retry loops, reconnect inside `Execute` | MySQL | deadlocks, refused statements, ignored errors and lost connections in the middle | all or nothing, an outcome that says what happened, clean session, one retrier, tasks end |
| world sessions (`World`, `WorldSession`, `CharacterHandler`) | `_sessions`, `_offlineSessions`, `_queuedPlayer`, `_disconnects`, session fields | add, replace, queue, admit, log in, take over, log out, kick, remove | sockets, database callbacks, players | sockets that close at any point, raw pointers in the queue, answers that come later, sessions of the same account, clients that ask again | nobody waits in vain, the limit is kept, no dangling or leaked session, no character in two sessions, everybody logged out at shutdown |
| packet queue of a session (`WorldSession::Update`, `LockedQueue`) | `_recvQueue`, the packets set aside, the state of the player | add, next with a filter, readd, handlers | network thread, world thread, map thread | two consumers whose filters depend on the player, requeueing, a limit per update | per-client order, no packet lost, handled twice or left over for ever |
| sockets (`shared/Network`, `WorldSocket`, `MPSCQueue`) | lock-free buffer queue, read buffer, write queue, closed/closing flags, pointer to the session | read, handshake, send, drain, write, close, delayed close | sessions, login database | a lock-free list cut in two, delayed close with an empty write queue, session deleted while a packet arrives | packets reach the wire in order, no use after free, a rejected client is told and dropped, an open connection is watched |
| `authserver` (`AuthSession`) | status, queries in flight, the session key in the database | challenge, proof, reconnect, realm list | login database, `worldserver` | commands while a query is pending, a key that another logon overwrites | answers in order, every command answered, an old key is of no use once a newer one has been |
| instance ids, map timers (`MapMgr`) | bit vector, next id | generate, register, free | instance saves | gaps, end of the vector, overflow | no id twice |
| shutdown timer (`World`) | timer, mask, stop event | start, cancel, tick, signal | sessions | second shutdown, cancel, idle mask, a signal in the middle of an update | a shutdown is not lost, everybody is logged out before the stop |
| events and tasks (`EventProcessor`, `TaskScheduler`) | multimap of events | add, abort, update, kill | game objects | events that delete or add events | each event executed or aborted once |
| battleground queue, dungeon finder, trade, auctions, groups, guild bank | game data | handlers on one thread | sessions | timeouts of invitations, players who leave | see the plan |
| spells, AI, movement, scripts, collision, tools, data, dependencies | game data, files | sequential | | numeric detail | not suited to model checking |

`PROJECT.json` lists all of them with their status, and the hazards at the line
where they bite.

## 2. Modules

| module | models | lines it stands for |
| --- | --- | --- |
| `PCQueue` | `common/Threading/PCQueue.h` | the whole class; each method is one step, because its body holds `_queueLock`; sleeping on the condition variable and returning from `WaitAndPop` are separate steps, and wake-ups may be spurious |
| `MapUpdater` | `MapUpdater.cpp`, `MapMgr::Update`, `MapInstanced::Update` and `DestroyInstance` | extends `PCQueue`; the world thread goes through schedule, wait and delayed updates, a worker through pop, check of the token, update, nested requests, `update_finished`; then `UnloadAll` and `deactivate` |
| `TickBarrier` | the promise of `MapMgr::Update` | an abstract specification without threads; `MapUpdater` is shown to implement it |
| `DatabaseWorkerPool` | `DatabaseWorkerPool.cpp`, `DatabaseWorker.cpp`, `DatabaseLoader.cpp`, `QueryCallback.cpp`, `AsyncCallbackProcessor.h` | extends `PCQueue`; opening with retries, closing, enqueueing, workers, polling; operations are model values with or without a promise |
| `SqlTransaction` | `MySQLConnection::ExecuteTransaction`, `Execute`, `_HandleMySQLErrno`; `TransactionTask`, `TransactionWithResultTask`, `DirectCommitTransaction` | each piece of SQL is one step and may fail in every way that the code distinguishes or ignores; the MySQL server is external |
| `WorldSessions` | `World.cpp` (sessions, login queue, shutdown), `WorldSession.cpp`, `CharacterHandler.cpp` (login), `Main.cpp` (end) | the world thread goes through `_UpdateGameTime` and `UpdateSessions` in the stages add, sweep (with packets and callbacks per session) and offline; network threads and the signal handler act in between |
| `MPSCQueue` | `common/Threading/MPSCQueue.h`, the intrusive queue | every load, store and exchange of `Enqueue` and `Dequeue` that another thread can come between is a step |
| `Socket` | `shared/Network/Socket.h` | operators on the write queue and the flags: `Update`, `HandleQueue`, `AsyncProcessQueue`, delayed close |
| `WorldSocket` | `WorldSocket.cpp`, `NetworkThread.h`; extends `MPSCQueue` and `Socket` | the composition: the network thread drains, writes, runs callbacks and reads, while two kinds of threads send, kick and delete the session |
| `SessionPackets` | `WorldSession::Update`, its filters, `LockedQueue.h` | the world thread and the map thread take turns; one step per packet, with the network thread in between |
| `AuthSession` | `AuthSession.cpp`, the key check of `WorldSocket::HandleAuthSessionCallback` | several connections of one account; handlers, the execution of queries and callbacks are separate steps |
| `MapUpdaterProofs`, `DatabaseWorkerPoolProofs`, `SqlTransactionProofs`, `WorldSessionsProofs`, `WorldSocketProofs`, `SessionPacketsProofs`, `AuthSessionProofs` | | theorems about the module of that name, see section 5 |
| `SequenceLemmas` | | what push, pop, erase and concatenation do to the elements of a queue; the proofs cite them |
| `MC...` | | instances for TLC |

Definitions that begin with "Mutant of" in their comment are faulty variants of
the definition below them. They are not part of any specification; they serve to
show that a property can fail (`mutants` in `PROJECT.json`).

Together `AuthSession`, `WorldSocket`, `SessionPackets` and `WorldSessions` follow a
client: the key it obtains, the connection on which it presents it, the packets it
sends and the session it gets. Each abstracts the others to their outcome:
`WorldSessions` sees a socket as open or closed and a packet as
`CMSG_CHAR_ENUM`, `CMSG_PLAYER_LOGIN` or another one, `SessionPackets` sees one session without replacement,
`WorldSocket` sees the account query as accepted or rejected.

### Abstractions

* **Map updater.** Time differences and the rotation `mapUpdateStep` are left
  out; which base maps are scheduled in a tick is all of them. The single-threaded
  configuration (no workers) is not modelled. Maps are created by the world
  thread between ticks, and base maps also by a worker (a transport that is
  teleported); whether the running loop over `i_maps` still meets the new map is
  left open, as it is by the code.
* **Database pool.** What an operation does in the database is in
  `SqlTransaction`; here it is executed in one step, which sets its promise.
  Operations are enqueued only while the pool is open, which is what start-up and
  shutdown of the servers do.
* **Transactions.** A session of the MySQL server has a flag "inside a
  transaction" and the statements in it. A lost connection rolls its session back;
  the statement in flight may or may not have been executed, which shows when
  it is `COMMIT` or runs in autocommit mode. Besides, the server may refuse
  `START TRANSACTION` or `COMMIT`, which the code does not notice: after the first
  the statements run in autocommit mode, with the second the server rolls back. After a failed reconnect the code
  calls `mysql_errno(nullptr)`; its result is left open. How many retries fit into
  the minute of a worker is left open.
* **Sessions.** `HandleSocketClosed` asks whether the player is in flight or
  between two maps; both answers are possible. Nothing is assumed of the client: it asks for the
  list of its characters and for a character, its own or not, at any time, also
  while another one, or the same, is being loaded or played; a login then counts how
  many loads of each character the session waits for (`login`), and a player that a
  second login replaces stays in the world without a session that points to it
  (`stray`). What becomes of that `Player` object once its session is gone is left
  out, and so are the statistics of `UpdateMaxSessionCounters`. The other
  packets change nothing here. A logout queues the save of the player; that it is
  executed is the business of the database pool (finding 1). `ShutdownServ` and `ShutdownCancel` come
  from the console between updates or from a packet. The scheduled save of all
  players, the exit code and the messages are left out. The seconds of the disconnect tolerance
  and the minute of an offline session are events that may happen between updates.

* **Sockets.** A packet is its number; whether it fits into the buffer being filled
  is left open, so buffers of every composition occur, the empty one that the code
  queues before a packet larger than a buffer included. That a part of a buffer has
  been written is not recorded. The checks of the handshake are one choice between
  admitted and rejected. A client sends `CMSG_AUTH_SESSION` when it likes, also before
  it has the challenge, and again. For a second one the handler asks the session who
  the player is; where a kick has reset the pointer this is undefined behaviour, of which
  the model has the outcome that the handler goes on. The build without IOCP is modelled.
* **Packets.** A kind stands for all opcodes of one status and one processing
  place; opcodes that are never allowed or not handled are deleted unread and left
  out. What `CanPacketReceive`, the flood protection and exceptions decide is left
  open. A transfer may begin in any handler of a player in the world. Clients send
  what they like and as much of it as `MaxPackets` allows, a login while they play
  included; the `Player` object that such a login leaves behind is left out.
* **Authentication.** A session key is the number of the proof that made it; SRP6,
  digests and tokens are taken to work and what makes the server refuse is left open.
  A database worker executes a query at any time after it was issued, and in any
  order. `DirectExecute` of the new key may fail, which the code does not notice: the
  client then has a key that the row does not. A client reconnects only if it has a key.

## 3. Runs

| run | instance | shows |
| --- | --- | --- |
| `map_updater` | 2 workers, a world map, a dungeon with 2 instances, the LFG request; 14,473 states | see below |
| `db_pool` | 2 workers, 3 operations, at most 1 failed `Open`; 206,505 states | see below |
| `db_pool_close` | 1 worker, 1 operation | finding 1 |
| `sql_tx` | 2 asynchronous connections and 1 synchronous one; transactions of 2 statements and of 1; 2 deadlocks, 1 refusal, 1 ignored error, 1 loss; 181,659 states | see below |
| `sql_tx_partial` | 1 connection, 1 transaction, 1 loss | finding 2 |
| `login_queue` | 3 accounts, one of them with 2 sessions, limit 1, the realm open or closed for logins, shutdowns in 0 or 1 seconds, at least 2 with players online; 7,159,664 states | see below |
| `characters` | 1 account with 2 sessions and 2 characters, 1 load of each character at a time; with disconnect tolerance; the server is stopped by a signal only; 748,012 states | see below |
| `world_socket` | 1 connection, 2 map threads that send, 3 packets to the client and 3 from it; 321,044 states | see below |
| `rejection_lost` | 1 connection, 3 packets to the client and 1 from it | finding 3 |
| `session_packets` | 4 packets of 8 kinds, 2 (the code: 150) per update; 1,107,398 states | see below |
| `session_starved` | 3 packets, 1 per update | finding 4 |
| `auth_session` | 1 account, 2 machines, 3 connections with at most 4, 3 and 2 commands; 304,769 states | see below |

**`map_updater`.** `PendingExact`: the counter equals the queued and running
requests. `SerialExclusion`: outside the parallel phase no worker holds a request.
`NoDanglingRequest`: no request for a deleted map. `UpdatedOncePerTick`: no map is
updated twice in a tick. `NoDanglingRequest` includes that a worker never
dereferences the null left by `Cancel`. `TickEnds`, `DeactivateEnds`: no lost wake-up, no hanging shutdown.
`RefinesBarrier`: `TickBarrier!Spec`. Two workers suffice for one to run a nested
request while the other finishes its parent; two instances for one to be deleted
while the other is queued.

**`db_pool`.** `CompletesInOrder`: operations are not overtaken, but for those that
several workers have in hands at once. `CallbackOnResult`, `NoLostCallback`: each callback
once, on a result, also when callbacks add callbacks. `RunsSafely`: workers and the
life of their connections. `AnsweredAtFirstOpen`,
`DestructionEnds`: liveness; the first says nothing of a pool whose first `Open` failed
(see the observations in section 4). Three operations allow a chain, an added callback and
a write at once.

**`sql_tx`.** `AtomicWhileConnected`: unless a connection is lost or the
`START TRANSACTION` of that transaction refused, a transaction is durable as a whole
and once, or not at all, whatever was retried or refused, its `COMMIT` included.
`HonestOutcome`: in these cases "failed" means that nothing is durable and "ok" that
everything is, with one exception, which it names: a transaction whose `COMMIT` was
refused is reported as done. `SessionClean`, `TaskEnds` hold with lost
connections and refused `START TRANSACTION`s too. The loop breaker and the reconnect
attempts are 2 instead of 5: what matters is the first, a middle and the last round.

**`login_queue`, `characters`.** `QueueIsOnline`, `SessionsAccounted`: every raw pointer
in the queue and the maps is to a live session, and none is leaked. `NoVainWait`,
`WithinLimit`, `ToldPosition`, `AdmittedIsAnswered`: the login queue as its clients see
it; the last says that who has left the queue and is still muted waits for nothing but
its account data. `OneCharacter`: no character is played in two sessions, and none is
waited for in a session while another plays it, except in an offline session that ends
before it could process the answer. `OneOnlineCharacter`: the sessions of an account do
not play two characters either, except that one is an offline session that was kicked
and ends with this update. Both compare sessions; that one session which asks twice
leaves a second player in the world is what the code does (see the observations).
`AllLoggedOut`: after `KickAll` and the last `UpdateSessions` no session has a player; the
saves are queued by then, not executed (finding 1). `OfflineEnds`: a player whose client is
gone does not stay. `ShutdownNotLost`: the timer runs exactly while a shutdown is wanted,
through requests that replace it, cancellation and waiting for an empty realm. A second
session of one account is what it takes to replace a queued, an active and an offline
session; two characters to come back for the other one, and to ask for the other one
before the first is there. `MaxLogins` bounds how many loads of one character a session
waits for; the proofs do without. `login_queue` has no tolerance, because `WithinLimit`
does not hold with it; that nobody waits in vain with it is proved.

**`world_socket`.** `SentInOrder`: buffers, write queue and wire hold, in this order,
the packets in the order of the exchanges on `_head`. `NoUseAfterFree`: nobody writes
the link of a packet that the network thread has deleted. `SessionNotDangling`: the
socket's pointer is to a live session, or the network thread is itself about to reset
it, and after the handshake it is null only on a closed socket. `ConnectionWatched`: an open socket has a read or a query under way.
`RejectionEnds`: a socket marked for closing is dropped, and if the write queue was
empty at the mark, after the answer was written or a write has failed; the other case
is finding 3. Two senders beside the network thread are what it takes for one
producer to finish while another is between its exchange and its store; three packets
let the queue run empty, and the dummy be queued, between two of them.

**`session_packets`.** `NothingLost`, `HandledInOrder`, and
`ProcessedUnlessStarved`: a packet is handled or dropped in the end, unless it waits for
a login, or more packets than an update looks at wait for one. Without the last
exception it is `LeftoverProcessed`, and does not hold (finding 4). A limit of
two lets an update end in the middle of the queue, with packets set aside or not; four
packets allow one ahead of the login, the login, one in the world and one in transfer
or after logout, and also three early ones that starve a login, so that both sides of
the exception occur.

**`auth_session`.** `AnswersInOrder`, `AnsweredOrClosed`: commands and callbacks.
`NoStaleReconnect`: a reconnect is accepted only with a key that was the account's at
some time since its challenge, although the key was read by an asynchronous query
and others log on meanwhile. `OldKeyStaysOut`: once `worldserver` has accepted a key it
accepts no older one, though a reconnect may have been accepted with it. Both hold
when the store of a new key fails unnoticed, too; then it is the newer client that is
turned away. Two machines suffice, because a key is wrong or not; the first
connection has room for two realm lists, the second for a reconnect.

### Fairness

Weak fairness for every thread that can run: the scheduler of the operating system
runs each thread again and again, and condition variables are modelled with their
wake-ups, so a sleeping thread is not kept alive by fairness. The network thread's
timer fires every millisecond (`Update` of `WorldSocket`). Strong fairness only where
the code waits in rounds for a clock, an answer or a peer: a worker
stops retrying after a minute (`GiveUp`, `DEADLOCK_MAX_RETRY_TIME_MS`), a minute
passes for offline sessions (`MinutePasses`), the database answers at some update
(`Callbacks`, `PlayerLoaded`), and a socket that is offered data over and over takes some,
fails or becomes writable (`HandleQueue`, `WriteHandlerWrapper`). Nothing forces a client to connect, a query to be issued or the
pool to be closed. That the answer comes is what `DatabaseWorkerPool` shows for
a pool that was opened at the first attempt.

### Deadlock

TLC checks for deadlock in every run. The specifications stutter explicitly only
where the process, the connection or the session is over (`Terminated`, `Stopped`,
`Ended`, `Gone`, `Over`) and where clients may do nothing more (`Idle`).

## 4. Findings

1. `db_pool_close`: `Close` deletes what is still queued, among it the saves that
   `KickAll` ("Kick (and save) all players") has enqueued.
2. `sql_tx_partial`: a connection lost inside a transaction is reopened below
   `ExecuteTransaction`, which goes on in autocommit mode: the first part of the
   transaction is gone, the second part is durable, and the result is success.
3. `rejection_lost`: `HandleQueue` closes a socket that is marked for closing when
   `_writeQueue` is empty, not looking at `_bufferQueue`. If the challenge is still being
   written when `CMSG_AUTH_SESSION` is rejected, the answer is lost.
4. `session_starved`: packets ahead of a login are put back to the front and count
   towards the limit of an update every time; with more of them than the limit the login
   is never handled, although "any leftover will be processed in next update".

`PROJECT.json` quotes the comments and tests that say otherwise.

Observations made while modelling, for which there is no run. The first five are what
a property of a passing run has to except, or what it does not speak about:

* After a failed `Open` the shared queue stays cancelled (`DatabaseWorker.cpp:34`).
  `DatabaseLoader` tries again, but the new workers leave at once and no query is
  answered. `AnsweredAtFirstOpen` is therefore about a pool whose first `Open` succeeds.
* The result of `COMMIT` is not looked at (`MySQLConnection.cpp:379`). One that the server
  refuses is neither retried nor reported, and the transaction is cleaned up as done;
  `HonestOutcome` names it as the exception.
* The early returns of `HandlePlayerLoginOpcode` (`CharacterHandler.cpp:713` and others)
  leave `m_playerLoading` set, and `AddSession_` then refuses new sessions of the account
  as long as the old one lasts (`RefuseSession`).
* `HandlePlayerLoginOpcode` does not ask whether a character is being loaded or played
  (`CharacterHandler.cpp:673`). A client that asks twice has two players in the world, of
  which the session knows the second (`stray`); no property counts the first.
* A second `CMSG_AUTH_SESSION` is logged with the name of the session's player, without a
  test whether a kick has reset the pointer since the packet was read
  (`WorldSocket.cpp:433`).
* A reconnect to MySQL that fails with an error outside the switch of
  `_HandleMySQLErrno` leaves the connection without a handle for good, and the server
  running (`MySQLConnection.cpp:642`).
* A write error drops the front buffer and keeps the connection (`Socket.h:379`); the
  read that fails next ends it.
* What stands behind `CMSG_AUTH_SESSION` in the read buffer waits for the next read.
* `WorldSession.cpp:330` says that early packets go "to the bottom of the queue"; they
  go back to its front, and `HandledInOrder` depends on it.
* A logon proof is accepted although the new key could not be stored
  (`AuthSession.cpp:523` discards the result): the client is then turned away by
  `worldserver` without anything having gone wrong on its side.
* `AuthSession::CheckIpCallback` answers a banned address and then neither reads from
  the connection nor closes it.

## 5. Proofs

All theorems hold for every value of the constants that satisfies the ASSUMEs of
the module: finite sets of workers, accounts or sessions, `Null` outside of them,
bounds that are natural numbers, disjoint sets of synchronous and asynchronous
connections, characters that belong to one account. The number of threads, maps,
operations, statements, sessions, packets, retries and faults is arbitrary, and so
are the limit of the realm and that of packets per update.

Every safety property of the passing runs is proved. Hardly any is inductive as it
stands; what has to be added is where the argument is. TLC has checked each
strengthened invariant on the instances of the runs or smaller ones before it was proved.

* **`MapUpdaterProofs`**: `TypeCorrect`, `CounterExact`, `BarrierExcludes`,
  `NeverCallsNull` from `IInv`: `TypeOK`, `PendingExact`,
  `SerialExclusion`, `WorkersHold` and `ShutdownOrder`. Exclusion alone is not
  inductive: `wait()` returns on the counter, so the counter must be exact; the
  counter stays exact only if a worker holds a request exactly between pop and
  `update_finished`; and a worker that leaves with the token does so only when
  `deactivate` has drained the queue. `NeverDangles` and `NeverUpdatedTwice` need
  `TickInv` as well: the loop over the maps runs over maps that exist (`LoopWithin`),
  a worker's loop over instances over those of the map it updates (`NestedOwn`), what
  is queued or held exists (`Live`), a map is in one place of the tick (`Once`,
  `DistinctQueue`), and an instance is due only behind its base map's loop
  (`Forwarded`), which is why `DestroyInstance` in that loop is harmless.
  `ImplementsBarrier` is the refinement: the initial states map to initial states of
  `TickBarrier`, and each action to one of its steps or to a stutter.
* **`DatabaseWorkerPoolProofs`**: `TypeCorrect`, `NeverRunsUnopened`,
  `NeverRunsNull`, and both together `AlwaysRunsSafely`. The invariant adds
  `OwnConnection` (a worker that has not exited
  has a connection), `QuietUntilOpen` (nothing to execute before the first
  successful `Open`, also after failed ones) and `Phases` (nothing is opened while
  connections are destroyed, and a running destructor belongs to a connection of the
  pool). `QuietUntilOpen` is the reason why starting the thread in the constructor
  is harmless: no code holds the worker back. `NeverExecutedTwice` and `OrderKept`
  rest on `PathInv`: an operation is in one place (`OnePlace`), the queue is the end
  of what was enqueued (`QueueIsEnd`), and what has left it is a prefix
  (`LeaveInOrder`). `NeverLosesCallback` and `NeverCalledOnBroken` rest on
  `CallbackInv`: promises are broken only when the pool closes (`Promises`), and
  `ProcessReadyCallbacks` runs, and leaves nothing in its local vectors, while it is
  open (`Passes`).
* **`SqlTransactionProofs`**: `TypeCorrect`, `LeavesSessionsClean`,
  `RetriesAreSerial`. `SessionClean` needs that a session is outside a transaction
  also when its handle is gone (`OutsideAtReturn`), that only closed connections are
  reconnected (`ReconnectsClosed`) and that a session outside a transaction holds no
  work; `OneRetrier` (at most one worker retries at a time) needs that a retrying worker holds `_deadlockLock` and that only
  workers before their first retry wait for it. `RetriesAreAtomic` and
  `OutcomesAreHonest` add, as long as no connection is lost and for the transactions
  whose `START TRANSACTION` was not refused, that a session holds a
  prefix of the transaction it executes (`WorkIsPrefix`), that every attempt begins
  outside a transaction (`AttemptBegins`), that a transaction is durable from its
  `COMMIT` on, unless that was refused (`Committed`), and that one connection executes
  it (`TxOfOne`). Those whose `START TRANSACTION` was refused are committed statement by
  statement in between, and must not disturb what the log holds of the others
  (`OthersKept`). Both theorems exclude lost connections, for which there is finding 2, and
  `OutcomesAreHonest` names the refused `COMMIT` as the one case left in which the
  outcome is wrong. What is
  durable is compared with the statements by position (`Whole`, `NoTrace`), so that no
  induction over the log is needed.
* **`WorldSessionsProofs`**: one invariant, `SessionInv`, for sessions, characters, the
  last update and the login queue, because a step such as `ReplaceSession` touches all
  of them: `Places` (a session is in one of `_sessions`, `_offlineSessions`,
  `_addSessQueue` exactly while it exists, and under its account), `Sweeping` (the
  loop is over accounts of `_sessions`), `Playing` (what a session plays or waits for,
  its `Claims`, are characters of its account, and only sessions that are or were online
  have any), `Apart` (the online session of an account claims no character that the
  offline one plays, and while it claims any the offline one ends with this update),
  `LastUpdate`, `Waiting`, `NoVainWait`, `WithinLimit`. From it `AlwaysAccounted`, `NeverTwice`,
  `OneAtATime`, `NobodyLeftBehind`, `QueueNeverDangles`, `AlwaysToldPosition`, `NobodyWaitsInVain`,
  `NeverTooFull`. Three places deserve a reader's attention. `NeverTwice` assumes nothing
  of the client. It rests on the offline session: a login first looks for the character
  in the offline session and takes it over or kicks that session, which then ends in
  the same update, before it processes another answer. A stale load of that session is
  therefore harmless, but exists for a moment, and the stage has to be part of `Apart`.
  `NobodyLeftBehind` holds although sessions are still added after `KickAll`: they are
  added before the sweep, and the list of their characters, without which every login is
  refused, comes in the callbacks of an update, after its packets, so that none can ask
  for a character before the last update is over (`LastUpdate`). `NobodyWaitsInVain` holds although `AddSession_` compares the limit
  with all sessions and `RemoveQueuedPlayer` with the active ones: with a queue the
  realm is full already, and without one the two counts agree. The counting is done
  once, in `RemoveReady`, `LeaveQueue` and `EnterQueue`, with the theorems on finite sets.
  `AdmittedNotForgotten` adds `MutedWaits`: an online session that is muted and whose
  account data is not under way stands in the queue. Its core is what
  `RemoveQueuedPlayer` does to those it does not remove (`RemoveFacts`): it drops one
  from the queue only together with asking for its data.
  `NeverLosesShutdown` has a small invariant of its own, `TimerInv`.
* **`WorldSocketProofs`**: `NeverUsedAfterFree` and `AlwaysSentInOrder` rest on
  `IsList`: at every moment there is a list from the tail to the head whose links are
  stored or owed by a producer between its exchange and its store; it holds what was
  sent and not yet taken, in the order of the exchanges (`HoldsRest`), and the elements
  that producers are about to send are not in it (`InputsPrivate`). `SentInv` follows
  the packets through the buffers, whose contents are cut from what was taken.
  `NeverDangles` and `AlwaysWatched` rest on `ConnectionInv`: where in the handshake
  the session is there (`Handshake`), that whoever closes a socket is about to reset
  its session (`ClosedSoon`), and which point of the network thread starts the next
  read (`Watched`).
* **`SessionPacketsProofs`**: `NeverLosesPacket`, `HandlesInOrder`. The packets set aside
  are older than those in the queue (`Ascending`), which makes `readd` at the front
  the right thing, and no player appears while packets are set aside (`NoPlayerYet`).
* **`AuthSessionProofs`**: `AnsweredInOrder`, `ReconnectIsCurrent`, `NewerKeyWins`. The
  status lets no other command in while a query is under way (`OneQuery`), so there is
  nothing to overtake. The row of the database only ever gets newer keys, also when a
  store fails; so the key a reconnect has loaded is one that the row has had since the
  challenge (`LoadedSince`), and none that `worldserver` has accepted is newer than the
  row.

Only model-checked: everything temporal under fairness (`TickEnds`,
`DeactivateEnds`, `AnsweredAtFirstOpen`, `DestructionEnds`, `TaskEnds`, `OfflineEnds`,
`RejectionEnds`, `ProcessedUnlessStarved`, `AnsweredOrClosed`), which is
outside what TLAPS proves; and the properties of the violation runs, which do not
hold.

## 6. Plan

Done: the map updater, the database pool, transactions, sessions and login queue; the
packets of a session, sockets with the lock-free queue, the authentication server and
the shutdown timer; the proofs of their safety properties.

Proofs next: that `PCQueue` and `MPSCQueue` implement an abstract queue, so that what
is now argued in each composition is said once; and the safety half of the
liveness properties (who owes the next wake-up to a sleeping worker, which rank goes
down with each step), which TLC checks only together with fairness.

Candidates for further modules: `GetFreeConnection` and `KeepAlive` of the synchronous
connections; instance ids against a reference definition ("least id not in use");
`EventProcessor`; invitations of the battleground queue; the acceptance protocol of a
trade.

## 7. Not modelled

Game rules (spells, AI, movement, combat, scripts), because an instance small enough
for TLC says nothing about them; cryptography (SRP6, session keys), because it is
arithmetic on large numbers; geometry and the extraction tools; logging, metrics and
configuration, which are input and output; the database updater, which runs once and
sequentially; the memory effects of unsynchronised accesses, such as the iteration
over `i_maps` while a worker inserts under a lock, beyond the interleavings that the
models have.

Of the network layer: accepting connections, the proxy header, the IOCP build, and how
sockets are spread over network threads. Of the authentication server: the refresh of
the realm list and the counting of wrong passwords.

The repository has about 700,000 lines, nearly all of them game rules and scripts for
single creatures, items and dungeons. The modules stand for the few thousand lines of
threads, queues, connections and sessions below them; a map that covered a large
share of the lines would have to model content, not mechanism.
