-------------------------- MODULE MapUpdaterProofs --------------------------
(***************************************************************************)
(* MapUpdater for any number of workers, maps and instances: the counter   *)
(* is exact, wait() really excludes the workers, no worker calls through   *)
(* a null request, no request outlives its map, no map is updated twice    *)
(* in a tick, and all of it together implements TickBarrier.               *)
(*                                                                         *)
(* SerialExclusion is not inductive by itself.  It needs the counter to    *)
(* be exact (wait() sees only the counter), that a worker between          *)
(* requests holds none, and where in deactivate() the token and the        *)
(* shutdown flag are set (IInv).                                           *)
(*                                                                         *)
(* That a map is not updated twice needs to know where each map of the     *)
(* tick is: still ahead of the loop over the maps, queued, in the hands    *)
(* of one worker or updated; and for an instance that the loop of its      *)
(* base map, which may run in a worker, has come to it (TickInv).  These   *)
(* are also what maps the tick to the steps of TickBarrier.                *)
(***************************************************************************)
EXTENDS MapUpdater, SequenceLemmas, FiniteSetTheorems, TLAPS

\* A worker holds a request from the pop to update_finished, and a Null only
\* after the queue has been shut down.
WorkersHold ==
    \A w \in Workers :
        /\ wk[w] \in {"pop", "exited"} => request[w] = Null
        /\ wk[w] \in {"update", "nested"} => request[w] # Null
        /\ wk[w] = "popped" /\ request[w] = Null => token

\* The order of deactivate(): token, then wait, then Cancel.
ShutdownOrder ==
    /\ token <=> wpc \in {"drain", "cancel", "join", "stopped"}
    /\ shutdown => wpc \in {"join", "stopped"}

IInv == TypeOK /\ PendingExact /\ SerialExclusion /\ WorkersHold /\ ShutdownOrder

-----------------------------------------------------------------------------
\* The type invariant is inductive on its own, except that update_finished must
\* not take the counter below zero: that is PendingExact.
LEMMA TypeInit == Init => TypeOK
  <1> SUFFICES ASSUME Init PROVE TypeOK
    OBVIOUS
  <1>1. queue \in Seq(Requests) /\ pending \in Nat
    BY DEF Init, QueueInit
  <1>2. shutdown \in BOOLEAN /\ token \in BOOLEAN /\ worldSleeps \in BOOLEAN
    BY DEF Init, QueueInit
  <1>3. /\ sleeping \subseteq Workers /\ toSchedule \subseteq BaseMaps
        /\ maps \subseteq Maps /\ updated \subseteq Requests \cup {Null}
    BY DEF Init, QueueInit
  <1>4. /\ wk \in [Workers -> {"pop", "popped", "update", "nested", "exited"}]
        /\ request \in [Workers -> Requests \cup {Null}]
        /\ nested \in [Workers -> SUBSET InstanceMaps]
    BY DEF Init
  <1> QED
    BY <1>1, <1>2, <1>3, <1>4 DEF TypeOK, Init

\* A worker that holds a request makes the counter positive.
LEMMA BusyCounts ==
    ASSUME TypeOK, PendingExact, NEW w \in Workers, request[w] # Null
    PROVE  pending >= 1 /\ Cardinality(Busy) \in Nat /\ IsFiniteSet(Busy)
  <1>1. IsFiniteSet(Busy)
    BY WorkersAssumption, FS_Subset DEF Busy
  <1>2. Cardinality(Busy) \in Nat
    BY <1>1, FS_CardinalityType
  <1>3. Cardinality(Busy) # 0
    BY <1>1, FS_EmptySet DEF Busy
  <1>4. Len(queue) \in Nat
    BY DEF TypeOK
  <1> QED
    BY <1>1, <1>2, <1>3, <1>4 DEF PendingExact

\* NotifyOne takes at most one thread out of the set of sleepers.
LEMMA NotifyOneType ==
    ASSUME NEW S, sleeping \subseteq S, NotifyOne
    PROVE  sleeping' \subseteq S
  BY DEF NotifyOne

\* schedule_update adds one request and counts it.
LEMMA ScheduleType ==
    ASSUME TypeOK, NEW r \in Requests, Schedule(r)
    PROVE  /\ queue' \in Seq(Requests) /\ Len(queue') = Len(queue) + 1
           /\ pending' = pending + 1 /\ pending' \in Nat
           /\ sleeping' \subseteq Workers
           /\ shutdown' = shutdown
  <1>1. queue' = Append(queue, r) /\ pending' = pending + 1 /\ shutdown' = shutdown
    BY DEF Schedule, Push
  <1>2. sleeping' \subseteq Workers
    BY NotifyOneType DEF Schedule, Push, TypeOK
  <1> QED
    BY <1>1, <1>2 DEF TypeOK

\* Every step keeps the types.
LEMMA TypeStep ==
    ASSUME TypeOK, PendingExact, WorkersHold, [Next]_vars
    PROVE  TypeOK'
  <1> USE DEF queueVars, updaterVars, worldVars, workerVars
  <1>1. ASSUME NEW m \in BaseMaps, CreateBaseMap(m) PROVE TypeOK'
    BY <1>1 DEF CreateBaseMap, TypeOK, Maps
  <1>2. ASSUME NEW i \in InstanceMaps, CreateInstance(i) PROVE TypeOK'
    BY <1>2 DEF CreateInstance, TypeOK, Maps
  <1>3. CASE BeginUpdate
    <2>1. Schedule(LFG) /\ LFG \in Requests
      BY <1>3 DEF BeginUpdate, Requests
    <2> QED
      BY <2>1, <1>3, ScheduleType DEF BeginUpdate, TypeOK
  <1>4. ASSUME NEW m \in BaseMaps, ScheduleMap(m) PROVE TypeOK'
    <2>1. Schedule(m) /\ m \in Requests
      BY <1>4 DEF ScheduleMap, Requests, Maps
    <2> QED
      BY <2>1, <1>4, ScheduleType DEF ScheduleMap, TypeOK
  <1>5. CASE AllScheduled
    BY <1>5 DEF AllScheduled, TypeOK
  <1>6. CASE WaitForMaps
    BY <1>6 DEF WaitForMaps, Wait, TypeOK
  <1>7. CASE DelayedUpdates
    BY <1>7 DEF DelayedUpdates, TypeOK
  <1>8. CASE UnloadAll
    BY <1>8 DEF UnloadAll, TypeOK
  <1>9. CASE SetToken
    BY <1>9 DEF SetToken, TypeOK
  <1>10. CASE WaitForDrain
    BY <1>10 DEF WaitForDrain, Wait, TypeOK
  <1>11. CASE CancelQueue
    BY <1>11 DEF CancelQueue, Cancel, TypeOK
  <1>12. CASE JoinWorkers
    BY <1>12 DEF JoinWorkers, TypeOK
  <1>13. ASSUME NEW w \in Workers, WorkerSleeps(w) PROVE TypeOK'
    BY <1>13 DEF WorkerSleeps, WaitOnCondition, TypeOK
  <1>14. ASSUME NEW w \in Workers, WorkerWakes(w) PROVE TypeOK'
    BY <1>14 DEF WorkerWakes, SpuriousWakeup, TypeOK
  <1>15. ASSUME NEW w \in Workers, WorkerPops(w) PROVE TypeOK'
    BY <1>15 DEF WorkerPops, WaitAndPop, Goto, TypeOK
  <1>16. ASSUME NEW w \in Workers, WorkerChecksToken(w) PROVE TypeOK'
    BY <1>16 DEF WorkerChecksToken, Goto, TypeOK
  <1>17. ASSUME NEW w \in Workers, NEW m \in BaseMaps, WorkerCreatesBaseMap(w, m)
         PROVE  TypeOK'
    BY <1>17 DEF WorkerCreatesBaseMap, TypeOK, Maps
  <1>18. ASSUME NEW w \in Workers, WorkerUpdates(w) PROVE TypeOK'
    BY <1>18 DEF WorkerUpdates, Goto, TypeOK
  <1>19. ASSUME NEW w \in Workers, NEW i \in InstanceMaps, WorkerSchedulesInstance(w, i)
         PROVE  TypeOK'
    <2>1. Schedule(i) /\ i \in Requests
      BY <1>19 DEF WorkerSchedulesInstance, Requests, Maps
    <2> QED
      BY <2>1, <1>19, ScheduleType DEF WorkerSchedulesInstance, TypeOK
  <1>20. ASSUME NEW w \in Workers, NEW i \in InstanceMaps, WorkerDestroysInstance(w, i)
         PROVE  TypeOK'
    BY <1>20 DEF WorkerDestroysInstance, TypeOK
  <1>21. ASSUME NEW w \in Workers, WorkerFinishes(w) PROVE TypeOK'
    <2>1. pending >= 1
      BY <1>21, BusyCounts DEF WorkerFinishes, WorkersHold
    <2>2. pending' \in Nat
      BY <2>1, <1>21 DEF WorkerFinishes, UpdateFinished, TypeOK
    <2>3. worldSleeps' \in BOOLEAN
      BY <1>21 DEF WorkerFinishes, UpdateFinished
    <2>4. /\ wk' \in [Workers -> {"pop", "popped", "update", "nested", "exited"}]
          /\ request' \in [Workers -> Requests \cup {Null}]
          /\ updated' \subseteq Requests \cup {Null}
      BY <1>21 DEF WorkerFinishes, Goto, TypeOK
    <2> QED
      BY <2>2, <2>3, <2>4, <1>21 DEF WorkerFinishes, TypeOK
  <1>22. CASE Stopped \/ UNCHANGED vars
    BY <1>22 DEF Stopped, vars, TypeOK
  <1> QED
    BY <1>1, <1>2, <1>3, <1>4, <1>5, <1>6, <1>7, <1>8, <1>9, <1>10, <1>11, <1>12,
       <1>13, <1>14, <1>15, <1>16, <1>17, <1>18, <1>19, <1>20, <1>21, <1>22
       DEF Next, World, WorkerRuns

-----------------------------------------------------------------------------
\* Steps that touch neither the queue, the counter nor a worker's request.
Quiet == UNCHANGED <<queue, pending, request>>

\* A step is quiet, schedules a request, pops one, finishes one, or cancels.
LEMMA StepKinds ==
    ASSUME TypeOK, [Next]_vars
    PROVE  \/ Quiet
           \/ \E r \in Requests : Schedule(r) /\ UNCHANGED request
           \/ \E w \in Workers : WorkerPops(w)
           \/ \E w \in Workers : WorkerFinishes(w)
           \/ CancelQueue
  <1> USE DEF queueVars, updaterVars, worldVars, workerVars, Requests, Maps
  <1>1. CASE World
    <2>1. CASE \E i \in InstanceMaps : CreateInstance(i)
      BY <2>1 DEF CreateInstance, Quiet
    <2>2. CASE \E m \in BaseMaps : CreateBaseMap(m)
      BY <2>2 DEF CreateBaseMap, Quiet
    <2>3. CASE \E m \in BaseMaps : ScheduleMap(m)
      BY <2>3 DEF ScheduleMap
    <2>4. CASE BeginUpdate
      BY <2>4 DEF BeginUpdate
    <2>5. CASE AllScheduled \/ WaitForMaps \/ DelayedUpdates \/ UnloadAll
               \/ SetToken \/ WaitForDrain \/ JoinWorkers
      BY <2>5 DEF AllScheduled, WaitForMaps, DelayedUpdates, UnloadAll, SetToken,
                  WaitForDrain, JoinWorkers, Quiet
    <2> QED
      BY <1>1, <2>1, <2>2, <2>3, <2>4, <2>5 DEF World
  <1>2. ASSUME NEW w \in Workers, WorkerRuns(w) PROVE
           \/ Quiet
           \/ \E r \in Requests : Schedule(r) /\ UNCHANGED request
           \/ WorkerPops(w)
           \/ WorkerFinishes(w)
    <2>1. CASE WorkerSleeps(w) \/ WorkerChecksToken(w) \/ WorkerUpdates(w)
      BY <2>1 DEF WorkerSleeps, WaitOnCondition, WorkerChecksToken, WorkerUpdates, Quiet
    <2>2. CASE \E m \in BaseMaps : WorkerCreatesBaseMap(w, m)
      BY <2>2 DEF WorkerCreatesBaseMap, Quiet
    <2>3. CASE \E i \in InstanceMaps : WorkerSchedulesInstance(w, i)
      BY <2>3 DEF WorkerSchedulesInstance
    <2>4. CASE \E i \in InstanceMaps : WorkerDestroysInstance(w, i)
      BY <2>4 DEF WorkerDestroysInstance, Quiet
    <2> QED
      BY <1>2, <2>1, <2>2, <2>3, <2>4 DEF WorkerRuns
  <1>3. CASE \E w \in Workers : WorkerWakes(w)
    BY <1>3 DEF WorkerWakes, SpuriousWakeup, Quiet
  <1>4. CASE Stopped \/ UNCHANGED vars
    BY <1>4 DEF Stopped, vars, Quiet
  <1> QED
    BY <1>1, <1>2, <1>3, <1>4 DEF Next

\* The counter stays exact: a pop moves a request from the queue to a worker,
\* update_finished takes it from the worker and from the counter.
LEMMA PendingStep ==
    ASSUME TypeOK, TypeOK', PendingExact, SerialExclusion, WorkersHold,
           ShutdownOrder, [Next]_vars
    PROVE  PendingExact'
  <1>fin. IsFiniteSet(Busy) /\ Cardinality(Busy) \in Nat
    BY WorkersAssumption, FS_Subset, FS_CardinalityType DEF Busy
  <1>len. Len(queue) \in Nat
    BY DEF TypeOK
  <1>1. CASE Quiet
    BY <1>1 DEF Quiet, PendingExact, Busy
  <1>2. ASSUME NEW r \in Requests, Schedule(r), UNCHANGED request
        PROVE  PendingExact'
    <2>1. Len(queue') = Len(queue) + 1 /\ pending' = pending + 1
      BY <1>2, ScheduleType
    <2>2. Busy' = Busy
      BY <1>2 DEF Busy
    <2> QED
      BY <2>1, <2>2, <1>fin, <1>len DEF PendingExact
  <1>3. ASSUME NEW w \in Workers, WorkerPops(w)
        PROVE  PendingExact'
    <2>1. request[w] = Null /\ pending' = pending
      BY <1>3 DEF WorkerPops, WorkersHold, updaterVars
    <2>2. PICK r \in Requests \cup {Null} :
             WaitAndPop(w, r) /\ request' = [request EXCEPT ![w] = r]
      BY <1>3 DEF WorkerPops
    <2>3. CASE r = Null
      <3>1. queue' = queue
        <4>1. Null \notin Requests
          BY MapsAssumption
        <4>2. queue # <<>> => Head(queue) \in Requests
          BY DEF TypeOK
        <4> QED
          BY <2>2, <2>3, <4>1, <4>2 DEF WaitAndPop
      <3>2. Busy' = Busy
        BY <2>1, <2>2, <2>3 DEF Busy, TypeOK
      <3> QED
        BY <3>1, <3>2, <2>1 DEF PendingExact
    <2>4. CASE r # Null
      <3>1. Len(queue') = Len(queue) - 1
        BY <2>2, <2>4 DEF WaitAndPop, TypeOK
      <3>2. Busy' = Busy \cup {w} /\ w \notin Busy
        BY <2>1, <2>2, <2>4 DEF Busy, TypeOK
      <3>3. Cardinality(Busy') = Cardinality(Busy) + 1
        BY <3>2, <1>fin, FS_AddElement
      <3> QED
        BY <3>1, <3>3, <2>1, <1>fin, <1>len DEF PendingExact
    <2> QED
      BY <2>3, <2>4
  <1>4. ASSUME NEW w \in Workers, WorkerFinishes(w)
        PROVE  PendingExact'
    <2>1. w \in Busy
      BY <1>4 DEF WorkerFinishes, WorkersHold, Busy
    <2>2. Busy' = Busy \ {w}
      BY <1>4 DEF WorkerFinishes, Busy, TypeOK
    <2>3. Cardinality(Busy') = Cardinality(Busy) - 1
      BY <2>1, <2>2, <1>fin, FS_RemoveElement
    <2>4. pending' = pending - 1 /\ queue' = queue
      BY <1>4 DEF WorkerFinishes, UpdateFinished, queueVars
    <2> QED
      BY <2>3, <2>4, <1>fin, <1>len DEF PendingExact, TypeOK
  <1>5. CASE CancelQueue
    <2>1. queue = <<>> /\ queue' = <<>> /\ pending' = pending /\ request' = request
      BY <1>5 DEF CancelQueue, Cancel, SerialExclusion, Serial, updaterVars, workerVars
    <2> QED
      BY <2>1 DEF PendingExact, Busy
  <1> QED
    BY <1>1, <1>2, <1>3, <1>4, <1>5, StepKinds

\* The order of deactivate() is kept.
LEMMA OrderStep ==
    ASSUME TypeOK, ShutdownOrder, [Next]_vars
    PROVE  ShutdownOrder'
  <1> USE DEF queueVars, updaterVars, worldVars, workerVars, ShutdownOrder
  <1>1. CASE World
    <2>1. CASE \/ \E i \in InstanceMaps : CreateInstance(i)
               \/ \E m \in BaseMaps : CreateBaseMap(m)
      BY <2>1 DEF CreateInstance, CreateBaseMap
    <2>2. CASE BeginUpdate \/ \E m \in BaseMaps : ScheduleMap(m)
      BY <2>2 DEF BeginUpdate, ScheduleMap, Schedule, Push
    <2>3. CASE AllScheduled \/ DelayedUpdates \/ UnloadAll \/ JoinWorkers
      BY <2>3 DEF AllScheduled, DelayedUpdates, UnloadAll, JoinWorkers
    <2>4. CASE WaitForMaps \/ WaitForDrain
      BY <2>4 DEF WaitForMaps, WaitForDrain, Wait
    <2>5. CASE SetToken
      BY <2>5 DEF SetToken
    <2>6. CASE CancelQueue
      BY <2>6 DEF CancelQueue, Cancel
    <2> QED
      BY <1>1, <2>1, <2>2, <2>3, <2>4, <2>5, <2>6 DEF World
  <1>2. CASE \E w \in Workers : WorkerRuns(w) \/ WorkerWakes(w)
    <2>1. UNCHANGED <<shutdown, token, wpc>>
      BY <1>2 DEF WorkerRuns, WorkerWakes, SpuriousWakeup, WorkerSleeps, WaitOnCondition,
             WorkerPops, WaitAndPop, WorkerChecksToken, WorkerUpdates,
             WorkerFinishes, WorkerCreatesBaseMap, WorkerSchedulesInstance,
             WorkerDestroysInstance, Schedule, Push
    <2> QED
      BY <2>1
  <1>3. CASE Stopped \/ UNCHANGED vars
    BY <1>3 DEF Stopped, vars
  <1> QED
    BY <1>1, <1>2, <1>3 DEF Next

\* A worker between requests holds none.  This needs SerialExclusion: a worker
\* that finds the token set has popped nothing, so leaving loses no request.
LEMMA HoldStep ==
    ASSUME TypeOK, SerialExclusion, WorkersHold, ShutdownOrder, [Next]_vars
    PROVE  WorkersHold'
  <1> USE DEF queueVars, updaterVars, worldVars, workerVars
  <1>1. CASE World
    <2>1. wk' = wk /\ request' = request
      BY <1>1 DEF World, BeginUpdate, AllScheduled, WaitForMaps, DelayedUpdates,
             UnloadAll, SetToken, WaitForDrain, CancelQueue, JoinWorkers,
             CreateBaseMap, ScheduleMap, CreateInstance
    <2>2. token => token'
      BY <1>1 DEF World, BeginUpdate, AllScheduled, WaitForMaps, DelayedUpdates,
             UnloadAll, SetToken, WaitForDrain, CancelQueue, JoinWorkers,
             CreateBaseMap, ScheduleMap, CreateInstance
    <2> QED
      BY <2>1, <2>2 DEF WorkersHold
  <1>2. ASSUME NEW w \in Workers, WorkerRuns(w) PROVE WorkersHold'
    <2>1. CASE WorkerPops(w)
      <3>1. PICK r \in Requests \cup {Null} :
               WaitAndPop(w, r) /\ request' = [request EXCEPT ![w] = r]
        BY <2>1 DEF WorkerPops
      <3>2. wk' = [wk EXCEPT ![w] = "popped"] /\ token' = token
        BY <2>1 DEF WorkerPops, Goto
      <3>3. r = Null => token
        <4>1. Null \notin Requests
          BY MapsAssumption
        <4>2. queue # <<>> => Head(queue) \in Requests
          BY DEF TypeOK
        <4> QED
          BY <3>1, <4>1, <4>2 DEF WaitAndPop, ShutdownOrder
      <3> QED
        BY <3>1, <3>2, <3>3 DEF WorkersHold, TypeOK
    <2>2. CASE WorkerChecksToken(w)
      <3>1. token => request[w] = Null
        BY DEF ShutdownOrder, SerialExclusion, Serial, Busy
      <3>2. CASE token
        <4>1. wk' = [wk EXCEPT ![w] = "exited"] /\ request' = request /\ token' = token
          BY <2>2, <3>2 DEF WorkerChecksToken, Goto
        <4> QED
          BY <4>1, <3>1, <3>2 DEF WorkersHold, TypeOK
      <3>3. CASE ~token
        <4>1. wk' = [wk EXCEPT ![w] = "update"] /\ request' = request /\ token' = token
          BY <2>2, <3>3 DEF WorkerChecksToken, Goto
        <4>2. request[w] # Null
          BY <2>2, <3>3 DEF WorkerChecksToken, WorkersHold
        <4> QED
          BY <4>1, <4>2 DEF WorkersHold, TypeOK
      <3> QED
        BY <3>2, <3>3
    <2>3. CASE WorkerUpdates(w)
      <3>1. wk' = [wk EXCEPT ![w] = "nested"] /\ request' = request /\ token' = token
        BY <2>3 DEF WorkerUpdates, Goto
      <3>2. request[w] # Null
        BY <2>3 DEF WorkerUpdates, WorkersHold
      <3> QED
        BY <3>1, <3>2 DEF WorkersHold, TypeOK
    <2>4. CASE WorkerFinishes(w)
      <3>1. /\ wk' = [wk EXCEPT ![w] = "pop"]
            /\ request' = [request EXCEPT ![w] = Null]
            /\ token' = token
        BY <2>4 DEF WorkerFinishes, Goto
      <3> QED
        BY <3>1 DEF WorkersHold, TypeOK
    <2>5. CASE \/ WorkerSleeps(w)
               \/ \E m \in BaseMaps : WorkerCreatesBaseMap(w, m)
               \/ \E i \in InstanceMaps :
                     WorkerSchedulesInstance(w, i) \/ WorkerDestroysInstance(w, i)
      <3>1. wk' = wk /\ request' = request /\ token' = token
        BY <2>5 DEF WorkerSleeps, WorkerCreatesBaseMap, WorkerSchedulesInstance,
               WorkerDestroysInstance
      <3> QED
        BY <3>1 DEF WorkersHold
    <2> QED
      BY <1>2, <2>1, <2>2, <2>3, <2>4, <2>5 DEF WorkerRuns
  <1>3. CASE Stopped \/ UNCHANGED vars \/ \E w \in Workers : WorkerWakes(w)
    <2>1. wk' = wk /\ request' = request /\ token' = token
      BY <1>3 DEF Stopped, vars, WorkerWakes
    <2> QED
      BY <2>1 DEF WorkersHold
  <1> QED
    BY <1>1, <1>2, <1>3 DEF Next

\* The barrier: the world thread leaves wait() only at pending = 0, and while
\* it is outside nothing can be scheduled or popped.
LEMMA SerialStep ==
    ASSUME TypeOK, PendingExact, SerialExclusion, WorkersHold, ShutdownOrder,
           [Next]_vars
    PROVE  SerialExclusion'
  <1> USE DEF queueVars, updaterVars, worldVars, workerVars
  <1> SUFFICES ASSUME Serial' PROVE Busy' = {} /\ queue' = <<>>
    BY DEF SerialExclusion
  <1>1. CASE World
    <2>1. CASE WaitForMaps /\ ~Serial
      <3>1. pending = 0 /\ request' = request /\ queue' = queue
        BY <2>1 DEF WaitForMaps, Wait, Serial
      <3>2. IsFiniteSet(Busy) /\ Cardinality(Busy) \in Nat /\ Len(queue) \in Nat
        BY WorkersAssumption, FS_Subset, FS_CardinalityType DEF Busy, TypeOK
      <3>3. Cardinality(Busy) = 0 /\ Len(queue) = 0
        BY <3>1, <3>2 DEF PendingExact
      <3>4. Busy = {} /\ queue = <<>>
        BY <3>2, <3>3, FS_EmptySet DEF TypeOK
      <3> QED
        BY <3>1, <3>4 DEF Busy
    <2>2. CASE Serial /\ (queue' = queue \/ queue' = <<>>) /\ request' = request
      BY <2>2 DEF SerialExclusion, Busy
    <2>3. CASE BeginUpdate \/ \E m \in BaseMaps : ScheduleMap(m)
      BY <2>3 DEF BeginUpdate, ScheduleMap, Serial
    <2>4. CASE AllScheduled
      BY <2>4 DEF AllScheduled, Serial
    <2>5. CASE CancelQueue
      BY <2>5, <2>2 DEF CancelQueue, Cancel, Serial
    <2>6. CASE DelayedUpdates \/ UnloadAll \/ SetToken \/ WaitForDrain \/ JoinWorkers
               \/ (WaitForMaps /\ Serial)
      BY <2>6, <2>2 DEF DelayedUpdates, UnloadAll, SetToken, WaitForDrain, JoinWorkers,
               WaitForMaps, Serial
    <2>7. CASE \/ \E i \in InstanceMaps : CreateInstance(i)
               \/ \E m \in BaseMaps : CreateBaseMap(m)
      BY <2>7, <2>2 DEF CreateInstance, CreateBaseMap, Serial
    <2> QED
      BY <1>1, <2>1, <2>3, <2>4, <2>5, <2>6, <2>7 DEF World
  <1>2. ASSUME NEW w \in Workers, WorkerRuns(w) PROVE Busy' = {} /\ queue' = <<>>
    <2>1. wpc' = wpc
      BY <1>2 DEF WorkerRuns, WorkerSleeps, WorkerPops, WorkerChecksToken, WorkerUpdates,
             WorkerFinishes, WorkerCreatesBaseMap, WorkerSchedulesInstance,
             WorkerDestroysInstance
    <2>2. Busy = {} /\ queue = <<>> /\ request[w] = Null
      BY <2>1 DEF Serial, SerialExclusion, Busy
    <2>3. wk[w] \in {"pop", "popped"}
      BY <1>2, <2>2 DEF WorkersHold, WorkerRuns, WorkerSleeps, WorkerPops,
             WorkerChecksToken, WorkerUpdates, WorkerFinishes, WorkerCreatesBaseMap,
             WorkerSchedulesInstance, WorkerDestroysInstance
    <2>4. CASE WorkerSleeps(w) \/ WorkerChecksToken(w)
      BY <2>2, <2>4 DEF WorkerSleeps, WaitOnCondition, WorkerChecksToken, Busy
    <2>5. CASE WorkerPops(w)
      BY <2>2, <2>5 DEF WorkerPops, WaitAndPop, Busy, TypeOK
    <2> QED
      BY <1>2, <2>3, <2>4, <2>5 DEF WorkerRuns, WorkerUpdates, WorkerFinishes,
             WorkerCreatesBaseMap, WorkerSchedulesInstance, WorkerDestroysInstance
  <1>3. CASE Stopped \/ UNCHANGED vars \/ \E w \in Workers : WorkerWakes(w)
    BY <1>3 DEF Stopped, vars, WorkerWakes, SpuriousWakeup, SerialExclusion, Serial, Busy
  <1> QED
    BY <1>1, <1>2, <1>3 DEF Next

-----------------------------------------------------------------------------
\* Initially no request exists.
LEMMA InitIInv == Init => IInv
  <1> SUFFICES ASSUME Init PROVE IInv
    OBVIOUS
  <1>1. Busy = {} /\ queue = <<>> /\ pending = 0
    BY DEF Init, QueueInit, Busy
  <1>2. PendingExact /\ SerialExclusion
    BY <1>1, FS_EmptySet DEF PendingExact, SerialExclusion
  <1>3. WorkersHold
    BY DEF Init, WorkersHold
  <1>4. ShutdownOrder
    BY DEF Init, QueueInit, ShutdownOrder
  <1> QED
    BY <1>2, <1>3, <1>4, TypeInit DEF IInv

\* The strengthened invariant holds in every reachable state of the updater.
THEOREM Invariance == Spec => []IInv
  <1>1. IInv /\ [Next]_vars => IInv'
    BY TypeStep, PendingStep, SerialStep, HoldStep, OrderStep DEF IInv
  <1> QED
    BY <1>1, InitIInv, PTL DEF Spec

\* The variables of the updater keep their types; in particular the unsigned
\* pending_requests never wraps below zero.
THEOREM TypeCorrect == Spec => []TypeOK
  BY Invariance, PTL DEF IInv

\* For any number of threads and maps pending_requests counts exactly the
\* requests that are queued or in the hands of a worker.
THEOREM CounterExact == Spec => []PendingExact
  BY Invariance, PTL DEF IInv

\* For any number of threads and maps no worker holds a request, and none is
\* queued, while the world thread is outside the parallel part of a tick.
THEOREM BarrierExcludes == Spec => []SerialExclusion
  BY Invariance, PTL DEF IInv

\* WorkerThread never calls through the null request that WaitAndPop leaves
\* after Cancel.
THEOREM NeverCallsNull == Spec => []NoNullCall
  <1>1. IInv => NoNullCall
    BY DEF IInv, WorkersHold, NoNullCall
  <1> QED
    BY <1>1, Invariance, PTL
-----------------------------------------------------------------------------
(* One tick: nothing is updated twice and nothing updated is deleted. *)

\* The requests in the hands of workers.
Held == {request[w] : w \in Busy}

\* MapMgr::Update's loop is over maps that exist, and is empty outside of it.
LoopWithin == toSchedule \subseteq maps /\ (wpc # "schedule" => toSchedule = {})

\* A worker loops over instances only inside the request of their base map.
NestedOwn ==
    \A w \in Workers :
        /\ nested[w] # {} => wk[w] = "nested"
        /\ \A i \in nested[w] : i \in maps /\ Parent[i] = request[w]

\* What is queued or held exists; a base map updated in this tick still does.
Live ==
    /\ Queued \cup Held \subseteq maps \cup {LFG}
    /\ ~Serial => updated \cap BaseMaps \subseteq maps

\* Neither does the loop come across a map that is already scheduled.
Once ==
    /\ UpdatedOncePerTick
    /\ toSchedule \cap (Queued \cup Held) = {}
    /\ ~Serial => toSchedule \cap updated = {}

\* An instance is scheduled or updated only after its base map's loop has come to
\* it; that loop is still running, with the instance behind it, or is over.
Forwarded ==
    ~Serial => \A i \in InstanceMaps \cap (Queued \cup Held \cup updated) :
        \/ Parent[i] \in updated
        \/ \E w \in Workers : /\ request[w] = Parent[i] /\ wk[w] = "nested"
                             /\ i \notin nested[w]

TickInv == LoopWithin /\ NestedOwn /\ Live /\ Once /\ Forwarded
\* No request is queued twice.
DistinctQueue == \A m, n \in 1..Len(queue) : queue[m] = queue[n] => m = n

\* Queued and DistinctQueue in the terms of the lemmas on sequences.
LEMMA QueueElements ==
    ASSUME NEW q \in Seq(Requests)
    PROVE  /\ {q[n] : n \in 1..Len(q)} = ToSet(q)
           /\ (\A m, n \in 1..Len(q) : q[m] = q[n] => m = n) <=> IsInjective(q)
  BY SeqElements DEF ToSet, IsInjective

\* schedule_update adds one request to those queued.
LEMMA ScheduleElements ==
    ASSUME TypeOK, NEW r \in Requests, Schedule(r)
    PROVE  /\ Queued' = Queued \cup {r}
           /\ DistinctQueue /\ r \notin Queued => DistinctQueue'
  <1>1. queue' = Append(queue, r) /\ queue \in Seq(Requests)
    BY DEF Schedule, Push, TypeOK
  <1>2. queue' \in Seq(Requests) /\ ToSet(queue') = ToSet(queue) \cup {r}
    BY <1>1, AppendElements
  <1>3. IsInjective(queue) /\ r \notin ToSet(queue) => IsInjective(queue')
    BY <1>1, AppendElements
  <1>4. Queued = ToSet(queue) /\ (DistinctQueue <=> IsInjective(queue))
    BY <1>1, QueueElements DEF Queued, DistinctQueue
  <1>5. Queued' = ToSet(queue') /\ (DistinctQueue' <=> IsInjective(queue'))
    BY <1>2, QueueElements DEF Queued, DistinctQueue
  <1> QED
    BY <1>2, <1>3, <1>4, <1>5

\* A pop moves one request from the queue to the worker, or leaves it with Null.
LEMMA PopElements ==
    ASSUME TypeOK, WorkersHold, NEW w \in Workers, WorkerPops(w)
    PROVE  \/ queue' = queue /\ request' = request /\ shutdown
           \/ \E r \in Requests :
                 /\ Queued = Queued' \cup {r}
                 /\ DistinctQueue => DistinctQueue' /\ r \notin Queued'
                 /\ request' = [request EXCEPT ![w] = r]
                 /\ Busy' = Busy \cup {w} /\ Held' = Held \cup {r}
                 /\ w \notin Busy /\ request[w] = Null
  <1>1. request[w] = Null
    BY DEF WorkerPops, WorkersHold
  <1>2. PICK r \in Requests \cup {Null} :
           WaitAndPop(w, r) /\ request' = [request EXCEPT ![w] = r]
    BY DEF WorkerPops
  <1>3. CASE queue # <<>> /\ ~shutdown
    <2>1. r = Head(queue) /\ queue' = Tail(queue) /\ queue \in Seq(Requests)
      BY <1>2, <1>3 DEF WaitAndPop, TypeOK
    <2>2. /\ queue' \in Seq(Requests) /\ r \in Requests
          /\ ToSet(queue) = ToSet(queue') \cup {r}
          /\ IsInjective(queue) => IsInjective(queue') /\ r \notin ToSet(queue')
      BY <1>3, <2>1, TailElements
    <2>3. Queued = ToSet(queue) /\ (DistinctQueue <=> IsInjective(queue))
      BY <2>1, QueueElements DEF Queued, DistinctQueue
    <2>4. Queued' = ToSet(queue') /\ (DistinctQueue' <=> IsInjective(queue'))
      BY <2>2, QueueElements DEF Queued, DistinctQueue
    <2>5. r # Null
      BY <2>2, MapsAssumption
    <2>6. Busy' = Busy \cup {w} /\ w \notin Busy
      BY <1>1, <1>2, <2>5 DEF Busy, TypeOK
    <2>7. Held' = Held \cup {r}
      BY <1>2, <2>6 DEF Held, TypeOK, Busy
    <2> QED
      BY <1>1, <1>2, <2>2, <2>3, <2>4, <2>6, <2>7
  <1>4. CASE ~(queue # <<>> /\ ~shutdown)
    <2>1. r = Null /\ shutdown /\ queue' = queue
      BY <1>2, <1>4 DEF WaitAndPop
    <2>2. request' = request
      BY <1>1, <1>2, <2>1 DEF TypeOK
    <2> QED
      BY <2>1, <2>2
  <1> QED
    BY <1>3, <1>4

\* update_finished takes the request out of the worker's hands.
LEMMA FinishElements ==
    ASSUME TypeOK, WorkersHold, UpdatedOncePerTick, NEW w \in Workers, WorkerFinishes(w)
    PROVE  /\ w \in Busy /\ request[w] \in Held /\ Held' = Held \ {request[w]}
           /\ Busy' = Busy \ {w}
           /\ \A v \in Workers : v # w => request'[v] = request[v]
           /\ request'[w] = Null
  <1>1. request[w] # Null /\ w \in Busy
    BY DEF WorkerFinishes, WorkersHold, Busy
  <1>2. request' = [request EXCEPT ![w] = Null]
    BY DEF WorkerFinishes
  <1>3. Busy' = Busy \ {w}
    BY <1>2 DEF Busy, TypeOK
  <1>4. \A v \in Workers : v # w => request'[v] = request[v]
    BY <1>2 DEF TypeOK
  <1>5. request'[w] = Null
    BY <1>2 DEF TypeOK
  <1>6. \A v \in Busy : request[v] = request[w] => v = w
    BY <1>1 DEF UpdatedOncePerTick
  <1>7. Held' = {request'[v] : v \in Busy'}
    BY DEF Held
  <1>8. Held' = Held \ {request[w]}
    BY <1>1, <1>3, <1>4, <1>6, <1>7 DEF Held, Busy
  <1> QED
    BY <1>1, <1>3, <1>4, <1>5, <1>8 DEF Held

\* Steps that leave the requests, the maps and the loops alone.
Still ==
    /\ UNCHANGED <<queue, request, maps, updated, nested, wk, toSchedule>>
    /\ Serial' \/ ~Serial
    /\ wpc' # "schedule" => wpc # "schedule" \/ toSchedule = {}

\* Such steps keep the invariant of the tick.
LEMMA StillStep == ASSUME TickInv, Still PROVE TickInv'
  <1>1. Queued' = Queued /\ Busy' = Busy /\ Held' = Held
    BY DEF Still, Queued, Held, Busy
  <1>2. LoopWithin'
    BY DEF Still, TickInv, LoopWithin
  <1>3. NestedOwn'
    BY DEF Still, TickInv, NestedOwn
  <1>4. Live'
    BY <1>1 DEF Still, TickInv, Live
  <1>5. Once'
    BY <1>1 DEF Still, TickInv, Once, UpdatedOncePerTick
  <1>6. Forwarded'
    BY <1>1 DEF Still, TickInv, Forwarded
  <1> QED
    BY <1>2, <1>3, <1>4, <1>5, <1>6 DEF TickInv

\* Which steps these are.
LEMMA StillSteps ==
    ASSUME IInv, TickInv,
           \/ AllScheduled \/ WaitForMaps \/ DelayedUpdates \/ SetToken
           \/ WaitForDrain \/ CancelQueue \/ JoinWorkers \/ Stopped \/ UNCHANGED vars
           \/ \E w \in Workers : WorkerSleeps(w) \/ WorkerWakes(w)
    PROVE  Still
  <1> USE DEF Still, Serial, queueVars, updaterVars, worldVars, workerVars
  <1>1. CASE AllScheduled
    BY <1>1 DEF AllScheduled
  <1>2. CASE WaitForMaps \/ WaitForDrain
    BY <1>2 DEF WaitForMaps, WaitForDrain, Wait
  <1>3. CASE DelayedUpdates \/ SetToken \/ JoinWorkers
    BY <1>3 DEF DelayedUpdates, SetToken, JoinWorkers
  <1>4. CASE CancelQueue
    BY <1>4 DEF CancelQueue, Cancel, IInv, SerialExclusion
  <1>5. CASE Stopped \/ UNCHANGED vars
    BY <1>5 DEF Stopped, vars
  <1>6. CASE \E w \in Workers : WorkerSleeps(w) \/ WorkerWakes(w)
    BY <1>6 DEF WorkerSleeps, WorkerWakes, WaitOnCondition, SpuriousWakeup
  <1> QED
    BY <1>1, <1>2, <1>3, <1>4, <1>5, <1>6

\* While the world thread is outside the parallel part nothing is under way.
LEMMA SerialEmpty ==
    ASSUME IInv, TickInv, Serial
    PROVE  /\ Queued = {} /\ Held = {} /\ Busy = {} /\ toSchedule = {}
           /\ \A w \in Workers : nested[w] = {} /\ request[w] = Null
  <1>1. Busy = {} /\ queue = <<>>
    BY DEF IInv, SerialExclusion
  <1>2. \A w \in Workers : request[w] = Null
    BY <1>1 DEF Busy
  <1>3. \A w \in Workers : nested[w] = {}
    BY <1>2 DEF IInv, WorkersHold, TickInv, NestedOwn
  <1>4. toSchedule = {}
    BY DEF Serial, TickInv, LoopWithin
  <1>5. Queued = {} /\ Held = {}
    BY <1>1 DEF Queued, Held
  <1> QED
    BY <1>1, <1>2, <1>3, <1>4, <1>5

\* A worker inside a request: the world thread waits for it or still schedules.
LEMMA BusyParallel ==
    ASSUME IInv, NEW w \in Workers, request[w] # Null
    PROVE  ~Serial /\ w \in Busy /\ request[w] \in Held
  BY DEF IInv, SerialExclusion, Busy, Held

\* Creating maps, between two ticks or from a map update.
LEMMA CreateStep ==
    ASSUME IInv, TickInv, NEW m \in Maps, m \notin maps,
           maps' = maps \cup {m},
           UNCHANGED <<queue, request, updated, nested, wk, wpc>>,
           \/ toSchedule' = toSchedule
           \/ m \in BaseMaps /\ wpc = "schedule" /\ toSchedule' = toSchedule \cup {m}
    PROVE  TickInv'
  <1>1. Queued' = Queued /\ Busy' = Busy /\ Held' = Held /\ Serial' = Serial
    BY DEF Queued, Held, Busy, Serial
  <1>2. LoopWithin'
    BY DEF TickInv, LoopWithin
  <1>3. NestedOwn'
    BY DEF TickInv, NestedOwn
  <1>4. Live'
    BY <1>1 DEF TickInv, Live
  <1>5. Once'
    <2>1. m \notin Queued \cup Held
      BY MapsAssumption DEF TickInv, Live
    <2>2. ~Serial /\ m \in BaseMaps => m \notin updated
      BY DEF TickInv, Live
    <2>3. UpdatedOncePerTick'
      BY <1>1 DEF TickInv, Once, UpdatedOncePerTick
    <2> QED
      BY <1>1, <2>1, <2>2, <2>3 DEF TickInv, Once, Serial
  <1>6. Forwarded'
    BY <1>1 DEF TickInv, Forwarded
  <1> QED
    BY <1>2, <1>3, <1>4, <1>5, <1>6 DEF TickInv

\* A tick begins with the LFG request and an empty history.
LEMMA BeginStep ==
    ASSUME IInv, TickInv, BeginUpdate
    PROVE  TickInv' /\ Queued' = {LFG} /\ Held' = {} /\ Busy' = {}
  <1> USE DEF queueVars, updaterVars, worldVars, workerVars
  <1>1. Serial /\ ~Serial' /\ LFG \in Requests /\ LFG \notin Maps
    BY MapsAssumption DEF BeginUpdate, Serial, Requests
  <1>2. /\ Queued = {} /\ Busy = {} /\ \A w \in Workers : nested[w] = {}
        /\ queue = <<>>
    BY <1>1, SerialEmpty DEF IInv, SerialExclusion
  <1>3. Queued' = {LFG} /\ DistinctQueue'
    BY <1>1, <1>2, ScheduleElements DEF BeginUpdate, DistinctQueue, IInv
  <1>4. Busy' = {} /\ Held' = {}
    BY <1>2 DEF BeginUpdate, Busy, Held
  <1>5. LoopWithin'
    BY DEF BeginUpdate, LoopWithin
  <1>6. NestedOwn'
    BY <1>2 DEF BeginUpdate, NestedOwn
  <1>7. Live'
    BY <1>3, <1>4 DEF BeginUpdate, Live
  <1>8. Once'
    BY <1>1, <1>3, <1>4 DEF BeginUpdate, Once, UpdatedOncePerTick, DistinctQueue, Maps
  <1>9. Forwarded'
    BY <1>1, <1>3, <1>4 DEF BeginUpdate, Forwarded, Maps
  <1> QED
    BY <1>3, <1>4, <1>5, <1>6, <1>7, <1>8, <1>9 DEF TickInv

\* The loop of MapMgr::Update moves a base map into the queue.
LEMMA ScheduleMapStep ==
    ASSUME IInv, TickInv, NEW m \in BaseMaps, ScheduleMap(m)
    PROVE  TickInv' /\ Queued' = Queued \cup {m} /\ Held' = Held
  <1> USE DEF queueVars, updaterVars, worldVars, workerVars
  <1>1. m \in Requests /\ m \in toSchedule /\ m \in maps /\ ~Serial /\ ~Serial'
    BY DEF ScheduleMap, TickInv, LoopWithin, Requests, Maps, Serial
  <1>2. m \notin Queued \cup Held /\ m \notin updated
    BY <1>1 DEF TickInv, Once
  <1>3. Queued' = Queued \cup {m} /\ DistinctQueue'
    BY <1>1, <1>2, ScheduleElements
       DEF ScheduleMap, DistinctQueue, IInv, TickInv, Once, UpdatedOncePerTick
  <1>4. Busy' = Busy /\ Held' = Held
    BY DEF ScheduleMap, Busy, Held
  <1>5. LoopWithin'
    BY DEF ScheduleMap, TickInv, LoopWithin
  <1>6. NestedOwn'
    BY DEF ScheduleMap, TickInv, NestedOwn
  <1>7. Live'
    BY <1>1, <1>3, <1>4 DEF ScheduleMap, TickInv, Live
  <1>8. Once'
    <2>1. \A w \in Busy : request[w] # m
      BY <1>2 DEF Held
    <2>2. UpdatedOncePerTick'
      BY <1>1, <1>2, <1>3, <1>4, <2>1
         DEF ScheduleMap, TickInv, Once, UpdatedOncePerTick, DistinctQueue
    <2> QED
      BY <1>1, <1>2, <1>3, <1>4, <2>2 DEF ScheduleMap, TickInv, Once
  <1>9. Forwarded'
    <2>1. m \notin InstanceMaps
      BY MapsAssumption
    <2> QED
      BY <1>1, <1>3, <1>4, <2>1 DEF ScheduleMap, TickInv, Forwarded
  <1> QED
    BY <1>3, <1>4, <1>5, <1>6, <1>7, <1>8, <1>9 DEF TickInv

\* UnloadAll deletes every map, and no request or loop names one.
LEMMA UnloadStep ==
    ASSUME IInv, TickInv, UnloadAll PROVE TickInv'
  <1> USE DEF queueVars, updaterVars, worldVars, workerVars
  <1>1. Serial /\ Serial'
    BY DEF UnloadAll, Serial
  <1>2. /\ Queued = {} /\ Busy = {} /\ toSchedule = {}
        /\ \A w \in Workers : nested[w] = {}
    BY <1>1, SerialEmpty
  <1>3. Queued' = {} /\ Busy' = {} /\ Held' = {}
    BY <1>2 DEF UnloadAll, Queued, Busy, Held
  <1>4. LoopWithin' /\ NestedOwn' /\ Live' /\ Forwarded'
    BY <1>1, <1>2, <1>3 DEF UnloadAll, LoopWithin, NestedOwn, Live, Forwarded
  <1>5. Once'
    BY <1>1, <1>2, <1>3 DEF UnloadAll, TickInv, Once, UpdatedOncePerTick
  <1> QED
    BY <1>4, <1>5 DEF TickInv

\* A pop moves a request from the queue to a worker.
LEMMA PopStep ==
    ASSUME IInv, TickInv, NEW w \in Workers, WorkerPops(w)
    PROVE  TickInv' /\ Queued' \cup Held' = Queued \cup Held
  <1> USE DEF queueVars, updaterVars, worldVars, workerVars
  <1>1. /\ wk[w] = "pop" /\ wk' = [wk EXCEPT ![w] = "popped"]
        /\ UNCHANGED <<wpc, toSchedule, nested, maps, updated>> /\ Serial' = Serial
    BY DEF WorkerPops, Goto, Serial
  <1>2. LoopWithin'
    BY <1>1 DEF TickInv, LoopWithin
  <1>3. NestedOwn'
    <2>1. nested[w] = {}
      BY <1>1 DEF TickInv, NestedOwn
    <2>2. \A v \in Workers : v # w => request'[v] = request[v] /\ wk'[v] = wk[v]
      BY <1>1 DEF WorkerPops, IInv, TypeOK
    <2> QED
      BY <1>1, <2>1, <2>2 DEF TickInv, NestedOwn
  <1>4. CASE queue' = queue /\ request' = request /\ shutdown
    <2>1. Queued' = Queued /\ Busy' = Busy /\ Held' = Held
      BY <1>4 DEF Queued, Busy, Held
    <2>2. Serial
      BY <1>4 DEF IInv, ShutdownOrder, Serial
    <2>3. Live' /\ Forwarded'
      BY <1>1, <2>1, <2>2 DEF TickInv, Live, Forwarded
    <2>4. Once'
      BY <1>1, <1>4, <2>1 DEF TickInv, Once, UpdatedOncePerTick
    <2> QED
      BY <1>2, <1>3, <2>1, <2>3, <2>4 DEF TickInv
  <1>5. ASSUME NEW r \in Requests,
               Queued = Queued' \cup {r},
               DistinctQueue => DistinctQueue' /\ r \notin Queued',
               request' = [request EXCEPT ![w] = r],
               Busy' = Busy \cup {w}, Held' = Held \cup {r},
               w \notin Busy, request[w] = Null
        PROVE  TickInv' /\ Queued' \cup Held' = Queued \cup Held
    <2>1. Queued' \cup Held' = Queued \cup Held
      BY <1>5
    <2>2. Live'
      BY <1>1, <2>1 DEF TickInv, Live
    <2>3. DistinctQueue
      BY DEF TickInv, Once, UpdatedOncePerTick, DistinctQueue
    <2>4. r \notin Held /\ r \notin Queued' /\ DistinctQueue'
      BY <1>5, <2>3 DEF TickInv, Once, UpdatedOncePerTick, Held
    <2>5. request'[w] = r /\ \A v \in Busy : request'[v] = request[v]
      BY <1>5 DEF IInv, TypeOK, Busy
    <2>6. UpdatedOncePerTick'
      <3>1. \A u, v \in Busy' : request'[u] = request'[v] => u = v
        BY <1>5, <2>4, <2>5 DEF TickInv, Once, UpdatedOncePerTick, Held
      <3>2. \A v \in Busy' : request'[v] \notin Queued'
        BY <1>5, <2>4, <2>5 DEF TickInv, Once, UpdatedOncePerTick
      <3>3. ~Serial => updated \cap (Queued \cup Held) = {}
        BY DEF TickInv, Once, UpdatedOncePerTick, Held
      <3>4. Held' = {request'[v] : v \in Busy'}
        BY DEF Held
      <3> QED
        BY <1>1, <2>1, <2>4, <3>1, <3>2, <3>3, <3>4 DEF UpdatedOncePerTick, DistinctQueue
    <2>7. Once'
      BY <1>1, <2>1, <2>6 DEF TickInv, Once
    <2>8. Forwarded'
      <3> SUFFICES ASSUME ~Serial, NEW i \in InstanceMaps \cap (Queued \cup Held \cup updated),
                          Parent[i] \notin updated
                   PROVE  \E v \in Workers : /\ request'[v] = Parent[i] /\ wk'[v] = "nested"
                                             /\ i \notin nested'[v]
        BY <1>1, <2>1 DEF Forwarded
      <3>1. PICK v \in Workers : request[v] = Parent[i] /\ wk[v] = "nested" /\ i \notin nested[v]
        BY DEF TickInv, Forwarded
      <3>2. v # w /\ request'[v] = request[v] /\ wk'[v] = wk[v]
        BY <1>1, <1>5, <3>1 DEF IInv, TypeOK
      <3> QED
        BY <1>1, <3>1, <3>2
    <2> QED
      BY <1>2, <1>3, <2>1, <2>2, <2>7, <2>8 DEF TickInv
  <1> QED
    BY <1>4, <1>5, PopElements DEF IInv

\* Reading the token moves no request.
LEMMA CheckStep ==
    ASSUME IInv, TickInv, NEW w \in Workers, WorkerChecksToken(w)
    PROVE  TickInv' /\ Queued' = Queued /\ Held' = Held
  <1> USE DEF queueVars, updaterVars, worldVars, workerVars
  <1>1. /\ wk[w] = "popped" /\ \A v \in Workers : v # w => wk'[v] = wk[v]
        /\ UNCHANGED <<queue, request, wpc, toSchedule, nested, maps, updated>>
    BY DEF WorkerChecksToken, Goto, IInv, TypeOK
  <1>2. Queued' = Queued /\ Busy' = Busy /\ Held' = Held /\ Serial' = Serial
    BY <1>1 DEF Queued, Busy, Held, Serial
  <1>3. LoopWithin' /\ Live'
    BY <1>1, <1>2 DEF TickInv, LoopWithin, Live
  <1>4. NestedOwn'
    BY <1>1 DEF TickInv, NestedOwn
  <1>5. Once'
    BY <1>1, <1>2 DEF TickInv, Once, UpdatedOncePerTick
  <1>6. Forwarded'
    BY <1>1, <1>2 DEF TickInv, Forwarded
  <1> QED
    BY <1>2, <1>3, <1>4, <1>5, <1>6 DEF TickInv

\* The loop over the instances begins with those of the worker's own map.
LEMMA UpdateStep ==
    ASSUME IInv, TickInv, NEW w \in Workers, WorkerUpdates(w)
    PROVE  TickInv' /\ Queued' = Queued /\ Held' = Held
  <1> USE DEF queueVars, updaterVars, worldVars, workerVars
  <1>1. /\ wk[w] = "update" /\ wk' = [wk EXCEPT ![w] = "nested"]
        /\ nested' = [nested EXCEPT ![w] = {i \in InstanceMaps \cap maps : Parent[i] = request[w]}]
        /\ UNCHANGED <<queue, request, wpc, toSchedule, maps, updated>>
    BY DEF WorkerUpdates, Goto
  <1>2. Queued' = Queued /\ Busy' = Busy /\ Held' = Held /\ Serial' = Serial
    BY <1>1 DEF Queued, Busy, Held, Serial
  <1>3. LoopWithin' /\ Live'
    BY <1>1, <1>2 DEF TickInv, LoopWithin, Live
  <1>4. \A v \in Workers : v # w => wk'[v] = wk[v] /\ nested'[v] = nested[v]
    BY <1>1 DEF IInv, TypeOK
  <1>5. wk'[w] = "nested" /\ nested'[w] = {i \in InstanceMaps \cap maps : Parent[i] = request[w]}
    BY <1>1 DEF IInv, TypeOK
  <1>6. NestedOwn'
    BY <1>1, <1>4, <1>5 DEF TickInv, NestedOwn
  <1>7. Once'
    BY <1>1, <1>2 DEF TickInv, Once, UpdatedOncePerTick
  <1>8. Forwarded'
    BY <1>1, <1>2, <1>4 DEF TickInv, Forwarded
  <1> QED
    BY <1>2, <1>3, <1>6, <1>7, <1>8 DEF TickInv

\* An instance that a loop still has to come to is neither scheduled nor done, and
\* no other loop names it.
LEMMA NotYetForwarded ==
    ASSUME IInv, TickInv, NEW w \in Workers, NEW i \in nested[w]
    PROVE  /\ ~Serial /\ wk[w] = "nested" /\ i \in InstanceMaps /\ i \in maps
           /\ w \in Busy /\ request[w] \in Held /\ Parent[i] = request[w]
           /\ i \notin Queued \cup Held \cup updated
           /\ \A v \in Workers : i \in nested[v] => v = w
  <1>1. wk[w] = "nested" /\ i \in maps /\ Parent[i] = request[w] /\ i \in InstanceMaps
    BY DEF TickInv, NestedOwn, IInv, TypeOK
  <1>2. request[w] # Null
    BY <1>1 DEF IInv, WorkersHold
  <1>3. ~Serial /\ w \in Busy /\ request[w] \in Held
    BY <1>2, BusyParallel
  <1>4. request[w] \notin updated
    BY <1>3 DEF TickInv, Once, UpdatedOncePerTick, Held
  <1>5. \A v \in Workers : request[v] = request[w] => v = w
    BY <1>2, <1>3 DEF TickInv, Once, UpdatedOncePerTick, Busy
  <1>6. i \notin Queued \cup Held \cup updated
    BY <1>1, <1>3, <1>4, <1>5 DEF TickInv, Forwarded
  <1>7. \A v \in Workers : i \in nested[v] => v = w
    BY <1>1, <1>5 DEF TickInv, NestedOwn
  <1> QED
    BY <1>1, <1>3, <1>6, <1>7

\* A nested request is queued while the request of the base map is held.
LEMMA ForwardStep ==
    ASSUME IInv, TickInv, NEW w \in Workers, NEW i \in InstanceMaps,
           WorkerSchedulesInstance(w, i)
    PROVE  TickInv' /\ Queued' = Queued \cup {i} /\ Held' = Held
  <1> USE DEF queueVars, updaterVars, worldVars, workerVars
  <1>1. /\ i \in nested[w] /\ nested' = [nested EXCEPT ![w] = @ \ {i}]
        /\ UNCHANGED <<wpc, toSchedule, wk, request, maps, updated>>
    BY DEF WorkerSchedulesInstance
  <1>2. /\ ~Serial /\ wk[w] = "nested" /\ i \in maps /\ Parent[i] = request[w]
        /\ i \notin Queued \cup Held \cup updated
    BY <1>1, NotYetForwarded
  <1>3. Queued' = Queued \cup {i} /\ DistinctQueue'
    <2>1. i \in Requests /\ Schedule(i)
      BY DEF Requests, Maps, WorkerSchedulesInstance
    <2> QED
      BY <1>2, <2>1, ScheduleElements
         DEF DistinctQueue, IInv, TickInv, Once, UpdatedOncePerTick
  <1>4. Busy' = Busy /\ Held' = Held /\ Serial' = Serial
    BY <1>1 DEF Busy, Held, Serial
  <1>5. LoopWithin' /\ Live'
    BY <1>1, <1>2, <1>3, <1>4 DEF TickInv, LoopWithin, Live
  <1>6. \A v \in Workers : v # w => nested'[v] = nested[v]
    BY <1>1 DEF IInv, TypeOK
  <1>7. nested'[w] = nested[w] \ {i}
    BY <1>1 DEF IInv, TypeOK
  <1>8. NestedOwn'
    BY <1>1, <1>6, <1>7 DEF TickInv, NestedOwn
  <1>9. Once'
    <2>1. \A v \in Busy : request[v] # i
      BY <1>2 DEF Held
    <2>2. UpdatedOncePerTick'
      BY <1>1, <1>2, <1>3, <1>4, <2>1 DEF TickInv, Once, UpdatedOncePerTick, DistinctQueue
    <2>3. i \notin toSchedule
      BY MapsAssumption DEF IInv, TypeOK
    <2> QED
      BY <1>1, <1>3, <1>4, <2>2, <2>3 DEF TickInv, Once
  <1>10. Forwarded'
    <2> SUFFICES ASSUME NEW j \in InstanceMaps \cap (Queued \cup {i} \cup Held \cup updated)
                 PROVE  \/ Parent[j] \in updated
                        \/ \E v \in Workers : /\ request[v] = Parent[j] /\ wk[v] = "nested"
                                              /\ j \notin nested'[v]
      BY <1>1, <1>3, <1>4 DEF Forwarded
    <2>1. CASE j = i
      BY <1>1, <1>2, <1>7, <2>1
    <2>2. CASE j # i
      BY <1>2, <1>6, <1>7, <2>2 DEF TickInv, Forwarded
    <2> QED
      BY <2>1, <2>2
  <1> QED
    BY <1>3, <1>4, <1>5, <1>8, <1>9, <1>10 DEF TickInv

\* DestroyInstance deletes an instance that no request and no other loop names.
LEMMA DestroyStep ==
    ASSUME IInv, TickInv, NEW w \in Workers, NEW i \in InstanceMaps,
           WorkerDestroysInstance(w, i)
    PROVE  TickInv' /\ Queued' = Queued /\ Held' = Held
  <1> USE DEF queueVars, updaterVars, worldVars, workerVars
  <1>1. /\ i \in nested[w] /\ nested' = [nested EXCEPT ![w] = @ \ {i}]
        /\ maps' = maps \/ maps' = maps \ {i}
        /\ UNCHANGED <<queue, wpc, toSchedule, wk, request, updated>>
    BY DEF WorkerDestroysInstance
  <1>2. /\ ~Serial /\ i \notin Queued \cup Held \cup updated
        /\ \A v \in Workers : i \in nested[v] => v = w
    BY <1>1, NotYetForwarded
  <1>3. Queued' = Queued /\ Busy' = Busy /\ Held' = Held /\ Serial' = Serial
    BY <1>1 DEF Queued, Busy, Held, Serial
  <1>4. i \notin BaseMaps
    BY MapsAssumption
  <1>5. LoopWithin'
    BY <1>1, <1>4 DEF TickInv, LoopWithin, IInv, TypeOK
  <1>6. Live'
    BY <1>1, <1>2, <1>3, <1>4 DEF TickInv, Live
  <1>7. \A v \in Workers : v # w => nested'[v] = nested[v]
    BY <1>1 DEF IInv, TypeOK
  <1>8. nested'[w] = nested[w] \ {i}
    BY <1>1 DEF IInv, TypeOK
  <1>9. NestedOwn'
    BY <1>1, <1>2, <1>7, <1>8 DEF TickInv, NestedOwn
  <1>10. Once'
    BY <1>1, <1>3 DEF TickInv, Once, UpdatedOncePerTick
  <1>11. Forwarded'
    <2>1. \A v \in Workers : nested'[v] \subseteq nested[v]
      BY <1>7, <1>8
    <2> QED
      BY <1>1, <1>3, <2>1 DEF TickInv, Forwarded
  <1> QED
    BY <1>3, <1>5, <1>6, <1>9, <1>10, <1>11 DEF TickInv

\* update_finished moves the request from the worker to the history of the tick;
\* the instances that its loop has forwarded now have a finished base map.
LEMMA FinishStep ==
    ASSUME IInv, TickInv, NEW w \in Workers, WorkerFinishes(w)
    PROVE  /\ TickInv' /\ Queued' = Queued
           /\ request[w] \in Held /\ Held' = Held \ {request[w]}
           /\ request[w] \notin toSchedule \cup Queued /\ ~Serial
  <1> USE DEF queueVars, updaterVars, worldVars, workerVars
  <1>1. /\ wk[w] = "nested" /\ nested[w] = {} /\ wk' = [wk EXCEPT ![w] = "pop"]
        /\ updated' = updated \cup {request[w]}
        /\ UNCHANGED <<queue, wpc, toSchedule, nested, maps>>
    BY DEF WorkerFinishes, Goto
  <1>2. UpdatedOncePerTick
    BY DEF TickInv, Once
  <1>3. /\ w \in Busy /\ request[w] \in Held /\ Held' = Held \ {request[w]}
        /\ Busy' = Busy \ {w} /\ request'[w] = Null
        /\ \A v \in Workers : v # w => request'[v] = request[v]
    BY <1>2, FinishElements DEF IInv
  <1>4. \A v \in Workers : v # w => wk'[v] = wk[v]
    BY <1>1 DEF IInv, TypeOK
  <1>5. Queued' = Queued /\ Serial' = Serial
    BY <1>1 DEF Queued, Serial
  <1>6. ~Serial
    BY <1>3, BusyParallel DEF Busy
  <1>7. request[w] \notin toSchedule \cup Queued
    BY <1>2, <1>3 DEF TickInv, Once, UpdatedOncePerTick
  <1>8. LoopWithin'
    BY <1>1 DEF TickInv, LoopWithin
  <1>9. NestedOwn'
    BY <1>1, <1>3, <1>4 DEF TickInv, NestedOwn
  <1>10. Live'
    <2>1. request[w] \in maps \cup {LFG} /\ LFG \notin BaseMaps
      BY <1>3, MapsAssumption DEF TickInv, Live, Maps
    <2> QED
      BY <1>1, <1>3, <1>5, <2>1 DEF TickInv, Live
  <1>11. UpdatedOncePerTick'
    <2>1. \A u, v \in Busy' : request'[u] = request'[v] => u = v
      BY <1>2, <1>3 DEF UpdatedOncePerTick, Busy
    <2>2. \A v \in Busy' : request'[v] \notin Queued'
      BY <1>2, <1>3, <1>5 DEF UpdatedOncePerTick, Busy
    <2>3. updated \cap (Queued \cup Held) = {}
      BY <1>2, <1>6 DEF UpdatedOncePerTick, Held
    <2>4. Held' = {request'[v] : v \in Busy'}
      BY DEF Held
    <2>5. updated' \cap (Queued' \cup Held') = {}
      BY <1>1, <1>3, <1>5, <1>7, <2>3
    <2>6. DistinctQueue'
      BY <1>1, <1>2 DEF UpdatedOncePerTick, DistinctQueue
    <2> QED
      BY <2>1, <2>2, <2>4, <2>5, <2>6 DEF UpdatedOncePerTick, DistinctQueue
  <1>12. Once'
    BY <1>1, <1>3, <1>5, <1>7, <1>11 DEF TickInv, Once
  <1>13. Forwarded'
    <2> SUFFICES ASSUME NEW i \in InstanceMaps \cap (Queued \cup Held \cup updated),
                        Parent[i] \notin updated'
                 PROVE  \E v \in Workers : /\ request'[v] = Parent[i] /\ wk'[v] = "nested"
                                           /\ i \notin nested'[v]
      BY <1>1, <1>3, <1>5 DEF Forwarded
    <2>1. PICK v \in Workers : request[v] = Parent[i] /\ wk[v] = "nested" /\ i \notin nested[v]
      BY <1>1, <1>6 DEF TickInv, Forwarded
    <2>2. v # w
      BY <1>1, <2>1
    <2> QED
      BY <1>1, <1>3, <1>4, <2>1, <2>2
  <1> QED
    BY <1>3, <1>5, <1>6, <1>7, <1>8, <1>9, <1>10, <1>12, <1>13 DEF TickInv

\* Every step keeps the invariant of the tick.
LEMMA TickStep ==
    ASSUME IInv, TickInv, [Next]_vars PROVE TickInv'
  <1> USE DEF queueVars, updaterVars, worldVars, workerVars
  <1>1. CASE \/ AllScheduled \/ WaitForMaps \/ DelayedUpdates \/ SetToken
             \/ WaitForDrain \/ CancelQueue \/ JoinWorkers \/ Stopped \/ UNCHANGED vars
             \/ \E w \in Workers : WorkerSleeps(w) \/ WorkerWakes(w)
    BY <1>1, StillSteps, StillStep
  <1>2. CASE BeginUpdate
    BY <1>2, BeginStep
  <1>3. CASE UnloadAll
    BY <1>3, UnloadStep
  <1>4. ASSUME NEW m \in BaseMaps, CreateBaseMap(m) PROVE TickInv'
    BY <1>4, CreateStep DEF CreateBaseMap, Maps
  <1>5. ASSUME NEW i \in InstanceMaps, CreateInstance(i) PROVE TickInv'
    BY <1>5, CreateStep DEF CreateInstance, Maps
  <1>6. ASSUME NEW m \in BaseMaps, ScheduleMap(m) PROVE TickInv'
    BY <1>6, ScheduleMapStep
  <1>7. ASSUME NEW w \in Workers, WorkerRuns(w), ~WorkerSleeps(w) PROVE TickInv'
    <2>1. ASSUME NEW m \in BaseMaps, WorkerCreatesBaseMap(w, m) PROVE TickInv'
      BY <2>1, CreateStep DEF WorkerCreatesBaseMap, Maps
    <2> QED
      BY <1>7, <2>1, PopStep, CheckStep, UpdateStep, ForwardStep, DestroyStep, FinishStep
         DEF WorkerRuns
  <1> QED
    BY <1>1, <1>2, <1>3, <1>4, <1>5, <1>6, <1>7 DEF Next, World

\* Initially there is no map and no request.
LEMMA InitTick == Init => TickInv
  <1> SUFFICES ASSUME Init PROVE TickInv
    OBVIOUS
  <1>1. Queued = {} /\ Busy = {} /\ Held = {} /\ Serial
    BY DEF Init, QueueInit, Queued, Busy, Held, Serial
  <1>2. LoopWithin /\ NestedOwn /\ Live /\ Forwarded
    BY <1>1 DEF Init, LoopWithin, NestedOwn, Live, Forwarded
  <1>3. Once
    BY <1>1 DEF Init, QueueInit, Once, UpdatedOncePerTick
  <1> QED
    BY <1>2, <1>3 DEF TickInv

\* The invariant of the tick holds in every reachable state.
THEOREM TickInvariance == Spec => [](IInv /\ TickInv)
  <1>1. IInv /\ TickInv /\ [Next]_vars => TickInv'
    BY TickStep
  <1> QED
    BY <1>1, InitTick, Invariance, PTL DEF Spec

\* For any number of threads and maps no request, and no loop of a MapInstanced,
\* names a map that DestroyInstance or UnloadAll has deleted.
THEOREM NeverDangles == Spec => []NoDanglingRequest
  <1>1. IInv /\ TickInv => NoDanglingRequest
    <2> SUFFICES ASSUME IInv, TickInv PROVE NoDanglingRequest
      OBVIOUS
    <2>1. NoNullCall
      BY DEF IInv, WorkersHold, NoNullCall
    <2>2. Queued \subseteq maps \cup {LFG}
      BY DEF TickInv, Live
    <2>3. \A w \in Workers : request[w] \in maps \cup {LFG, Null}
      BY DEF TickInv, Live, Held, Busy
    <2>4. \A w \in Workers : nested[w] \subseteq maps
      BY DEF TickInv, NestedOwn
    <2> QED
      BY <2>1, <2>2, <2>3, <2>4 DEF NoDanglingRequest
  <1> QED
    BY <1>1, TickInvariance, PTL

\* For any number of threads and maps no map is updated by two workers at once or
\* twice in one tick, whichever worker schedules or creates it.
THEOREM NeverUpdatedTwice == Spec => []UpdatedOncePerTick
  <1>1. TickInv => UpdatedOncePerTick
    BY DEF TickInv, Once
  <1> QED
    BY <1>1, TickInvariance, PTL

-----------------------------------------------------------------------------
(* The worker pool implements TickBarrier. *)

Phase == IF ~Serial THEN "parallel"
         ELSE IF wpc \in {"idle", "delayed"} THEN "serial" ELSE "stopped"
Due == toSchedule \cup Queued \cup Held

\* A step that changes none of what the barrier shows.
Unseen == Phase' = Phase /\ maps' = maps /\ Due' = Due /\ updated' = updated

\* The refinement mapping in the terms of this module.
LEMMA Mapping ==
    /\ Unseen => UNCHANGED Barrier!vars
    /\ Phase = "parallel" <=> ~Serial
    /\ Phase = "serial" <=> wpc \in {"idle", "delayed"}
  BY DEF Unseen, Barrier!vars, Phase, Due, Held, Serial

\* Steps of the world thread.
LEMMA WorldRefines ==
    ASSUME IInv, IInv', TickInv, TickInv', World
    PROVE  [Barrier!Next]_(Barrier!vars)
  <1> USE DEF queueVars, updaterVars, worldVars, workerVars
  <1>1. CASE BeginUpdate
    <2>1. Queued' = {LFG} /\ Held' = {} /\ toSchedule' = maps \cap BaseMaps
      BY <1>1, BeginStep DEF BeginUpdate
    <2>2. Barrier!Begin
      BY <1>1, <2>1 DEF BeginUpdate, Barrier!Begin, Serial, Held
    <2> QED
      BY <2>2 DEF Barrier!Next
  <1>2. CASE WaitForMaps /\ wpc' = "delayed"
    <2>1. ~Serial /\ Serial' /\ maps' = maps /\ updated' = updated
          /\ queue' = queue /\ request' = request /\ toSchedule' = toSchedule
      BY <1>2 DEF WaitForMaps, Wait, Serial
    <2>2. Busy' = {} /\ queue' = <<>>
      BY <2>1 DEF IInv, SerialExclusion
    <2>3. toSchedule = {}
      BY <1>2 DEF WaitForMaps, TickInv, LoopWithin
    <2>4. Queued = {} /\ Held = {} /\ Queued' = {} /\ Held' = {}
      BY <2>1, <2>2 DEF Queued, Held, Busy
    <2>5. Barrier!End
      BY <1>2, <2>1, <2>3, <2>4 DEF Barrier!End, Serial, Held
    <2> QED
      BY <2>5 DEF Barrier!Next
  <1>3. CASE UnloadAll
    <2>1. Serial /\ Serial'
      BY <1>3 DEF UnloadAll, Serial
    <2>2. Queued' = Queued /\ Held' = Held /\ toSchedule' = toSchedule
      BY <1>3 DEF UnloadAll, Queued, Held, Busy
    <2>3. Barrier!Stop
      BY <1>3, <2>1, <2>2 DEF UnloadAll, Barrier!Stop, Held, Serial
    <2> QED
      BY <2>3 DEF Barrier!Next
  <1>4. ASSUME NEW m \in BaseMaps, CreateBaseMap(m) PROVE Barrier!Next
    <2>1. Queued' = Queued /\ Held' = Held
      BY <1>4 DEF CreateBaseMap, Queued, Held, Busy
    <2>2. m \notin InstanceMaps
      BY MapsAssumption
    <2>3. Barrier!Create(m)
      BY <1>4, <2>1, <2>2 DEF CreateBaseMap, Barrier!Create, Held, Serial
    <2> QED
      BY <2>3 DEF Barrier!Next
  <1>5. ASSUME NEW i \in InstanceMaps, CreateInstance(i) PROVE Barrier!Next
    <2>1. Queued' = Queued /\ Held' = Held
      BY <1>5 DEF CreateInstance, Queued, Held, Busy
    <2>2. Barrier!Create(i)
      BY <1>5, <2>1 DEF CreateInstance, Barrier!Create, Held, Serial
    <2> QED
      BY <2>2 DEF Barrier!Next
  <1>6. ASSUME NEW m \in BaseMaps, ScheduleMap(m) PROVE Unseen
    <2>1. Queued' = Queued \cup {m} /\ Held' = Held
      BY <1>6, ScheduleMapStep
    <2> QED
      BY <1>6, <2>1 DEF ScheduleMap, Unseen, Due, Phase, Serial
  <1>7. CASE \/ AllScheduled \/ DelayedUpdates \/ SetToken \/ WaitForDrain
             \/ CancelQueue \/ JoinWorkers \/ (WaitForMaps /\ wpc' # "delayed")
    <2>1. Still
      BY <1>7, StillSteps
    <2>2. Due' = Due /\ maps' = maps /\ updated' = updated
      BY <2>1 DEF Still, Due, Queued, Held, Busy
    <2>3. Phase' = Phase
      BY <1>7 DEF AllScheduled, DelayedUpdates, SetToken, WaitForDrain, CancelQueue,
         JoinWorkers, WaitForMaps, Wait, Phase, Serial
    <2> QED
      BY <2>2, <2>3, Mapping DEF Unseen
  <1> QED
    BY <1>1, <1>2, <1>3, <1>4, <1>5, <1>6, <1>7, Mapping DEF World

\* Steps of a worker.
LEMMA WorkerRefines ==
    ASSUME IInv, TickInv, NEW w \in Workers, WorkerRuns(w) \/ WorkerWakes(w)
    PROVE  [Barrier!Next]_(Barrier!vars)
  <1> USE DEF queueVars, updaterVars, worldVars, workerVars
  <1>wpc. wpc' = wpc /\ Serial' = Serial /\ Phase' = Phase
    <2>1. wpc' = wpc
      BY DEF WorkerRuns, WorkerWakes, WorkerSleeps, WorkerPops, WorkerChecksToken,
             WorkerUpdates, WorkerFinishes, WorkerCreatesBaseMap, WorkerSchedulesInstance,
             WorkerDestroysInstance
    <2> QED
      BY <2>1 DEF Serial, Phase
  <1>1. CASE WorkerSleeps(w) \/ WorkerWakes(w)
    <2>1. Still
      BY <1>1, StillSteps
    <2>2. Due' = Due /\ maps' = maps /\ updated' = updated
      BY <2>1 DEF Still, Due, Queued, Held, Busy
    <2> QED
      BY <1>wpc, <2>2, Mapping DEF Unseen
  <1>2. CASE WorkerPops(w)
    <2>1. Queued' \cup Held' = Queued \cup Held
      BY <1>2, PopStep
    <2>2. Unseen
      BY <1>2, <1>wpc, <2>1 DEF WorkerPops, Unseen, Due
    <2> QED
      BY <2>2, Mapping
  <1>3. CASE WorkerChecksToken(w) \/ WorkerUpdates(w)
    <2>1. Queued' = Queued /\ Held' = Held
      BY <1>3, CheckStep, UpdateStep
    <2>2. Unseen
      BY <1>3, <1>wpc, <2>1 DEF WorkerChecksToken, WorkerUpdates, Unseen, Due
    <2> QED
      BY <2>2, Mapping
  <1>4. ASSUME NEW m \in BaseMaps, WorkerCreatesBaseMap(w, m) PROVE Barrier!Next
    <2>1. Queued' = Queued /\ Held' = Held
      BY <1>4 DEF WorkerCreatesBaseMap, Queued, Held, Busy
    <2>2. request[w] # Null
      BY <1>4, MapsAssumption DEF WorkerCreatesBaseMap, Requests
    <2>3. ~Serial
      BY <2>2, BusyParallel
    <2>4. Barrier!Create(m)
      BY <1>4, <1>wpc, <2>1, <2>3 DEF WorkerCreatesBaseMap, Barrier!Create, Held, Serial
    <2> QED
      BY <2>4 DEF Barrier!Next
  <1>5. ASSUME NEW i \in InstanceMaps,
               WorkerSchedulesInstance(w, i) \/ WorkerDestroysInstance(w, i)
        PROVE  Barrier!Next \/ Unseen
    <2>1. i \in nested[w]
      BY <1>5 DEF WorkerSchedulesInstance, WorkerDestroysInstance
    <2>2. /\ ~Serial /\ i \in maps /\ request[w] \in Held /\ Parent[i] = request[w]
          /\ i \notin Queued \cup Held \cup updated
      BY <2>1, NotYetForwarded
    <2>3. i \notin toSchedule
      BY MapsAssumption DEF IInv, TypeOK
    <2>4. CASE WorkerSchedulesInstance(w, i)
      <3>1. Queued' = Queued \cup {i} /\ Held' = Held
        BY <2>4, ForwardStep
      <3>2. Barrier!Forward(i)
        BY <1>wpc, <2>2, <2>3, <2>4, <3>1
           DEF WorkerSchedulesInstance, Barrier!Forward, Held, Serial
      <3> QED
        BY <3>2 DEF Barrier!Next
    <2>5. CASE WorkerDestroysInstance(w, i) /\ maps' = maps \ {i}
      <3>1. Queued' = Queued /\ Held' = Held
        BY <2>5, DestroyStep
      <3>2. Barrier!Forward(i)
        BY <1>wpc, <2>2, <2>3, <2>5, <3>1
           DEF WorkerDestroysInstance, Barrier!Forward, Held, Serial
      <3> QED
        BY <3>2 DEF Barrier!Next
    <2>6. CASE WorkerDestroysInstance(w, i) /\ maps' = maps
      <3>1. Queued' = Queued /\ Held' = Held
        BY <2>6, DestroyStep
      <3> QED
        BY <1>wpc, <2>6, <3>1 DEF WorkerDestroysInstance, Unseen, Due
    <2> QED
      BY <1>5, <2>4, <2>5, <2>6 DEF WorkerDestroysInstance
  <1>6. CASE WorkerFinishes(w)
    <2>1. /\ Queued' = Queued /\ request[w] \in Held /\ Held' = Held \ {request[w]}
          /\ request[w] \notin toSchedule \cup Queued /\ ~Serial
      BY <1>6, FinishStep
    <2>2. PICK r \in BaseMaps \cup InstanceMaps \cup {LFG} : r = request[w]
      <3>1. request[w] \in Requests \cup {Null} /\ request[w] # Null
        BY <1>6 DEF IInv, TypeOK, WorkersHold, WorkerFinishes
      <3> QED
        BY <3>1 DEF Requests, Maps
    <2>3. Barrier!Finish(r)
      BY <1>6, <1>wpc, <2>1, <2>2 DEF WorkerFinishes, Barrier!Finish, Held, Serial
    <2> QED
      BY <2>3 DEF Barrier!Next
  <1> QED
    BY <1>1, <1>2, <1>3, <1>4, <1>5, <1>6, Mapping DEF WorkerRuns

\* MapMgr::Update is a barrier for any number of threads, base maps and instances:
\* queue, counter, condition variable and nested requests together implement a
\* tick in which everything due is updated once and that ends when nothing is due.
THEOREM ImplementsBarrier == Spec => RefinesBarrier
  <1>1. Init => Barrier!Init
    <2> SUFFICES ASSUME Init PROVE Barrier!Init
      OBVIOUS
    <2>1. Queued = {} /\ Busy = {} /\ Serial
      BY DEF Init, QueueInit, Queued, Busy, Serial
    <2> QED
      BY <2>1 DEF Init, Barrier!Init, Serial
  <1>2. ASSUME IInv, IInv', TickInv, TickInv', [Next]_vars
        PROVE  [Barrier!Next]_(Barrier!vars)
    <2>1. CASE World
      BY <1>2, <2>1, WorldRefines
    <2>2. CASE \E w \in Workers : WorkerRuns(w) \/ WorkerWakes(w)
      BY <1>2, <2>2, WorkerRefines
    <2>3. CASE Stopped \/ UNCHANGED vars
      <3>1. Unseen
        BY <2>3 DEF Stopped, vars, queueVars, updaterVars, worldVars, workerVars,
               Unseen, Phase, Due, Serial, Queued, Held, Busy
      <3> QED
        BY <3>1, Mapping
    <2> QED
      BY <1>2, <2>1, <2>2, <2>3 DEF Next
  <1> QED
    BY <1>1, <1>2, TickInvariance, PTL DEF Spec, RefinesBarrier, Barrier!Spec
=============================================================================
