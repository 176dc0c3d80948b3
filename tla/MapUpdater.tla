----------------------------- MODULE MapUpdater -----------------------------
(***************************************************************************)
(* The multi-threaded map update of worldserver:                           *)
(*   server/game/Maps/MapUpdater.cpp   the worker pool and its barrier     *)
(*   server/game/Maps/MapMgr.cpp       the world thread's side of a tick   *)
(*   server/game/Maps/MapInstanced.cpp the nested requests of a worker     *)
(*                                                                         *)
(* Once per tick the world thread schedules one request for the LFG        *)
(* manager and one per base map, then blocks in wait() until               *)
(* pending_requests is 0.  A worker that updates an instanceable base map  *)
(* (MapInstanced) schedules a request for each of its instances, or        *)
(* destroys the instance, from inside its own request.  Everything the     *)
(* world thread does outside MapMgr::Update relies on no worker being      *)
(* inside a map then.                                                      *)
(*                                                                         *)
(* Every critical section of MapUpdater::_lock is one step.  Maps are      *)
(* model values.  Time differences are left out, and with them the         *)
(* rotation mapUpdateStep that decides which maps get a non-zero diff:     *)
(* every map is scheduled in every tick whatever its diff is.              *)
(***************************************************************************)
EXTENDS PCQueue

CONSTANTS Workers,        \* the threads started by activate(num_threads)
          BaseMaps,       \* map ids for MapMgr::i_maps
          InstanceMaps,   \* instances for MapInstanced::m_InstancedMaps
          Parent,         \* the instanceable base map of each instance
          LFG             \* the LFGUpdateRequest

Maps == BaseMaps \cup InstanceMaps
Requests == Maps \cup {LFG}

ASSUME WorkersAssumption == IsFiniteSet(Workers) /\ Workers # {}
ASSUME MapsAssumption ==
    /\ BaseMaps \cap InstanceMaps = {}
    /\ LFG \notin Maps
    /\ Null \notin Requests
    /\ Parent \in [InstanceMaps -> BaseMaps]

VARIABLES pending,     \* MapUpdater::pending_requests
          token,       \* MapUpdater::_cancelationToken
          wpc,         \* where the world thread is
          worldSleeps, \* the world thread is blocked in MapUpdater::_condition
          toSchedule,  \* what is left of MapMgr::Update's loop over i_maps
          wk,          \* where each worker is
          request,     \* each worker's UpdateRequest pointer
          nested,      \* what is left of MapInstanced::Update's loop
          maps,        \* the maps that exist: i_maps and every m_InstancedMaps
          updated      \* history: the requests completed in this tick

updaterVars == <<pending, token>>
worldVars   == <<wpc, worldSleeps, toSchedule>>
workerVars  == <<wk, request, nested>>
vars == <<queueVars, updaterVars, worldVars, workerVars, maps, updated>>

Init ==
    /\ QueueInit
    /\ pending = 0 /\ token = FALSE
    /\ wpc = "idle" /\ worldSleeps = FALSE /\ toSchedule = {}
    /\ wk = [w \in Workers |-> "pop"]
    /\ request = [w \in Workers |-> Null]
    /\ nested = [w \in Workers |-> {}]
    /\ maps = {} /\ updated = {}

-----------------------------------------------------------------------------
(* MapUpdater: the three operations under _lock. *)

\* Mutant of Schedule: the request is pushed and not counted.
ScheduleUncounted(r) ==
    /\ UNCHANGED pending
    /\ Push(r)

\* schedule_update and schedule_lfg_update: count, then push.
Schedule(r) ==
    /\ pending' = pending + 1
    /\ Push(r)

\* Mutant of Wait: off by one, the last request is not waited for.
WaitAllButOne(next) ==
    /\ ~worldSleeps
    /\ \/ pending > 1 /\ worldSleeps' = TRUE /\ UNCHANGED wpc
       \/ pending <= 1 /\ wpc' = next /\ UNCHANGED worldSleeps

\* The loop of wait(): block while requests are pending, else go on to next.
Wait(next) ==
    /\ ~worldSleeps
    /\ \/ pending > 0 /\ worldSleeps' = TRUE /\ UNCHANGED wpc
       \/ pending = 0 /\ wpc' = next /\ UNCHANGED worldSleeps

\* Mutant of UpdateFinished: no notify_all.
UpdateFinishedSilently ==
    /\ pending' = pending - 1
    /\ UNCHANGED worldSleeps

\* update_finished: uncount and wake the world thread.
UpdateFinished ==
    /\ pending' = pending - 1
    /\ worldSleeps' = FALSE

-----------------------------------------------------------------------------
(* The world thread between two calls of MapMgr::Update. *)

\* MapMgr::CreateBaseMap: a second caller finds the map and creates nothing.
CreateBaseMap(m) ==
    /\ wpc = "idle"
    /\ m \in BaseMaps \ maps
    /\ maps' = maps \cup {m}
    /\ UNCHANGED <<queueVars, updaterVars, worldVars, workerVars, updated>>

\* MapInstanced::CreateInstance and CreateBattleground, for a player that is
\* logging in or has acknowledged a far teleport.
CreateInstance(i) ==
    /\ wpc = "idle"
    /\ i \in InstanceMaps \ maps
    /\ Parent[i] \in maps
    /\ maps' = maps \cup {i}
    /\ UNCHANGED <<queueVars, updaterVars, worldVars, workerVars, updated>>

-----------------------------------------------------------------------------
(* MapMgr::Update. *)

\* The LFG request is scheduled before the loop over i_maps starts.
BeginUpdate ==
    /\ wpc = "idle"
    /\ Schedule(LFG)
    /\ wpc' = "schedule"
    /\ toSchedule' = maps \cap BaseMaps
    /\ updated' = {}
    /\ UNCHANGED <<token, worldSleeps, workerVars, maps>>

ScheduleMap(m) ==
    /\ wpc = "schedule"
    /\ m \in toSchedule
    /\ Schedule(m)
    /\ toSchedule' = toSchedule \ {m}
    /\ UNCHANGED <<token, wpc, worldSleeps, workerVars, maps, updated>>

\* Mutant of AllScheduled: the loop is left before its end.
LeaveLoopEarly ==
    /\ wpc = "schedule"
    /\ wpc' = "wait"
    /\ UNCHANGED <<queueVars, updaterVars, worldSleeps, toSchedule,
                   workerVars, maps, updated>>

AllScheduled ==
    /\ wpc = "schedule"
    /\ toSchedule = {}
    /\ wpc' = "wait"
    /\ UNCHANGED <<queueVars, updaterVars, worldSleeps, toSchedule,
                   workerVars, maps, updated>>

WaitForMaps ==
    /\ wpc = "wait"
    /\ Wait("delayed")
    /\ UNCHANGED <<queueVars, updaterVars, toSchedule, workerVars, maps,
                   updated>>

\* The second loop over i_maps: DelayedUpdate of maps and their instances, on
\* the world thread and without any lock.
DelayedUpdates ==
    /\ wpc = "delayed"
    /\ wpc' = "idle"
    /\ UNCHANGED <<queueVars, updaterVars, worldSleeps, toSchedule, workerVars,
                   maps, updated>>

-----------------------------------------------------------------------------
(* MapMgr::UnloadAll and MapUpdater::deactivate. *)

\* Every map is deleted while the workers still run; then the token is set.
UnloadAll ==
    /\ wpc = "idle"
    /\ maps' = {}
    /\ wpc' = "deactivate"
    /\ UNCHANGED <<queueVars, updaterVars, worldSleeps, toSchedule,
                   workerVars, updated>>

SetToken ==
    /\ wpc = "deactivate"
    /\ token' = TRUE
    /\ wpc' = "drain"
    /\ UNCHANGED <<queueVars, pending, worldSleeps, toSchedule,
                   workerVars, maps, updated>>

WaitForDrain ==
    /\ wpc = "drain"
    /\ Wait("cancel")
    /\ UNCHANGED <<queueVars, updaterVars, toSchedule, workerVars, maps,
                   updated>>

CancelQueue ==
    /\ wpc = "cancel"
    /\ Cancel
    /\ wpc' = "join"
    /\ UNCHANGED <<updaterVars, worldSleeps, toSchedule, workerVars,
                   maps, updated>>

JoinWorkers ==
    /\ wpc = "join"
    /\ \A w \in Workers : wk[w] = "exited"
    /\ wpc' = "stopped"
    /\ UNCHANGED <<queueVars, updaterVars, worldSleeps, toSchedule,
                   workerVars, maps, updated>>

-----------------------------------------------------------------------------
(* MapUpdater::WorkerThread. *)

Goto(w, label) == wk' = [wk EXCEPT ![w] = label]

WorkerSleeps(w) ==
    /\ wk[w] = "pop"
    /\ WaitOnCondition(w)
    /\ UNCHANGED <<updaterVars, worldVars, workerVars, maps, updated>>

WorkerWakes(w) ==
    /\ SpuriousWakeup(w)
    /\ UNCHANGED <<updaterVars, worldVars, workerVars, maps, updated>>

WorkerPops(w) ==
    /\ wk[w] = "pop"
    /\ \E r \in Requests \cup {Null} :
          /\ WaitAndPop(w, r)
          /\ request' = [request EXCEPT ![w] = r]
    /\ Goto(w, "popped")
    /\ UNCHANGED <<updaterVars, worldVars, nested, maps, updated>>

\* The token is read after the pop; without it request->call() is entered.
WorkerChecksToken(w) ==
    /\ wk[w] = "popped"
    /\ Goto(w, IF token THEN "exited" ELSE "update")
    /\ UNCHANGED <<queueVars, updaterVars, worldVars, request, nested, maps,
                   updated>>

\* A map update that needs a base map nobody has entered yet (a transport that
\* changes maps).  The world thread's loop over i_maps may or may not still
\* come across the new map.
WorkerCreatesBaseMap(w, m) ==
    /\ wk[w] = "update" /\ request[w] \in Maps
    /\ m \in BaseMaps \ maps
    /\ maps' = maps \cup {m}
    /\ \/ wpc = "schedule" /\ toSchedule' = toSchedule \cup {m}
       \/ UNCHANGED toSchedule
    /\ UNCHANGED <<queueVars, updaterVars, wpc, worldSleeps, workerVars,
                   updated>>

\* Map::Update or LFGMgr::Update, up to the loop over m_InstancedMaps.
WorkerUpdates(w) ==
    /\ wk[w] = "update"
    /\ Goto(w, "nested")
    /\ nested' = [nested EXCEPT ![w] =
                     {i \in InstanceMaps \cap maps : Parent[i] = request[w]}]
    /\ UNCHANGED <<queueVars, updaterVars, worldVars, request, maps, updated>>

\* Mutant of WorkerSchedulesInstance: the iterator is not advanced.
ScheduleInstanceAgain(w, i) ==
    /\ wk[w] = "nested" /\ i \in nested[w]
    /\ Schedule(i)
    /\ UNCHANGED <<token, worldVars, workerVars, maps, updated>>

\* The branch !CanUnload of MapInstanced::Update.
WorkerSchedulesInstance(w, i) ==
    /\ wk[w] = "nested" /\ i \in nested[w]
    /\ Schedule(i)
    /\ nested' = [nested EXCEPT ![w] = @ \ {i}]
    /\ UNCHANGED <<token, worldVars, wk, request, maps, updated>>

\* Mutant of WorkerDestroysInstance: the instance is scheduled, then unloaded.
ScheduleThenDestroy(w, i) ==
    /\ wk[w] = "nested" /\ i \in nested[w]
    /\ Schedule(i)
    /\ maps' = maps \ {i}
    /\ nested' = [nested EXCEPT ![w] = @ \ {i}]
    /\ UNCHANGED <<token, worldVars, wk, request, updated>>

\* The branch CanUnload: DestroyInstance deletes the map, or leaves it alone
\* when players are still inside.
WorkerDestroysInstance(w, i) ==
    /\ wk[w] = "nested" /\ i \in nested[w]
    /\ maps' \in {maps, maps \ {i}}
    /\ nested' = [nested EXCEPT ![w] = @ \ {i}]
    /\ UNCHANGED <<queueVars, updaterVars, worldVars, wk, request, updated>>

\* update_finished, and delete request.
WorkerFinishes(w) ==
    /\ wk[w] = "nested" /\ nested[w] = {}
    /\ UpdateFinished
    /\ updated' = updated \cup {request[w]}
    /\ request' = [request EXCEPT ![w] = Null]
    /\ Goto(w, "pop")
    /\ UNCHANGED <<queueVars, token, wpc, toSchedule, nested, maps>>

-----------------------------------------------------------------------------
World ==
    \/ BeginUpdate \/ AllScheduled \/ WaitForMaps \/ DelayedUpdates
    \/ UnloadAll \/ SetToken \/ WaitForDrain \/ CancelQueue \/ JoinWorkers
    \/ \E m \in BaseMaps : CreateBaseMap(m) \/ ScheduleMap(m)
    \/ \E i \in InstanceMaps : CreateInstance(i)

WorkerRuns(w) ==
    \/ WorkerSleeps(w) \/ WorkerPops(w) \/ WorkerChecksToken(w)
    \/ WorkerUpdates(w) \/ WorkerFinishes(w)
    \/ \E m \in BaseMaps : WorkerCreatesBaseMap(w, m)
    \/ \E i \in InstanceMaps :
          WorkerSchedulesInstance(w, i) \/ WorkerDestroysInstance(w, i)

\* The process has joined its threads and returned from UnloadAll.
Stopped == wpc = "stopped" /\ UNCHANGED vars

Next ==
    \/ World
    \/ \E w \in Workers : WorkerRuns(w) \/ WorkerWakes(w)
    \/ Stopped

\* Threads that can run do run; nothing is assumed about spurious wakeups.
Fairness ==
    /\ WF_vars(World)
    /\ \A w \in Workers : WF_vars(WorkerRuns(w))

Spec == Init /\ [][Next]_vars /\ Fairness

-----------------------------------------------------------------------------
(* Properties. *)

Busy == {w \in Workers : request[w] # Null}
Queued == {queue[n] : n \in 1..Len(queue)}

\* The types of the updater; pending_requests does not go below zero.
TypeOK ==
    /\ queue \in Seq(Requests)
    /\ shutdown \in BOOLEAN
    /\ sleeping \subseteq Workers
    /\ pending \in Nat
    /\ token \in BOOLEAN
    /\ wpc \in {"idle", "schedule", "wait", "delayed", "deactivate", "drain",
                "cancel", "join", "stopped"}
    /\ worldSleeps \in BOOLEAN
    /\ toSchedule \subseteq BaseMaps
    /\ wk \in [Workers -> {"pop", "popped", "update", "nested", "exited"}]
    /\ request \in [Workers -> Requests \cup {Null}]
    /\ nested \in [Workers -> SUBSET InstanceMaps]
    /\ maps \subseteq Maps
    /\ updated \subseteq Requests \cup {Null}

\* pending_requests counts exactly the requests that are queued or in the
\* hands of a worker, nested ones included: the counter is what wait() trusts.
PendingExact == pending = Len(queue) + Cardinality(Busy)

\* The world thread is outside the parallel part of MapMgr::Update.
Serial == wpc \notin {"schedule", "wait"}

\* While the world thread runs sessions, DelayedUpdate or UnloadAll, no worker
\* holds a request and none is queued: what wait() is for.
SerialExclusion == Serial => Busy = {} /\ queue = <<>>

\* WorkerThread dereferences what WaitAndPop gave it without a test: it is
\* never the Null that a cancelled queue leaves.
NoNullCall == \A w \in Workers : wk[w] \in {"update", "nested"} => request[w] # Null

\* A request refers to a Map by reference: no map that a request or a loop of
\* MapInstanced::Update still names has been deleted by DestroyInstance or
\* UnloadAll, and none is Null when it is called.
NoDanglingRequest ==
    /\ NoNullCall
    /\ Queued \subseteq maps \cup {LFG}
    /\ \A w \in Workers : /\ request[w] \in maps \cup {LFG, Null}
                         /\ nested[w] \subseteq maps

\* No map is updated by two workers at once, nor twice in one tick: the queue,
\* the workers and what is done in this tick never name a map twice.
UpdatedOncePerTick ==
    /\ \A m, n \in 1..Len(queue) : queue[m] = queue[n] => m = n
    /\ \A v, w \in Busy : request[v] = request[w] => v = w
    /\ \A w \in Busy : request[w] \notin Queued
    /\ ~Serial => updated \cap (Queued \cup {request[w] : w \in Busy}) = {}

\* wait() in MapMgr::Update returns: every tick ends.
TickEnds == wpc = "wait" ~> wpc = "delayed"

\* deactivate() returns: neither its wait() nor the joins hang.
DeactivateEnds == wpc = "deactivate" ~> wpc = "stopped"

\* The barrier as MapMgr sees it, with everything queued, being updated or
\* still to be scheduled as the work that is due.
Barrier == INSTANCE TickBarrier WITH
    phase <- IF ~Serial THEN "parallel"
             ELSE IF wpc \in {"idle", "delayed"} THEN "serial" ELSE "stopped",
    live  <- maps,
    due   <- toSchedule \cup Queued \cup {request[w] : w \in Busy},
    done  <- updated

\* The worker pool with its queue and counter implements the barrier.
RefinesBarrier == Barrier!Spec
=============================================================================
