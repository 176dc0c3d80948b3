---------------------------- MODULE TickBarrier ----------------------------
(***************************************************************************)
(* What MapMgr::Update promises the rest of worldserver, without threads,  *)
(* queue or counter: a tick has a serial and a parallel phase; in the      *)
(* parallel phase every base map that existed when it began, the LFG       *)
(* manager, and the instances that their MapInstanced forwards the update  *)
(* to are each updated once; it ends when nothing is due any more.         *)
(* An instance is deleted only before it becomes due in the tick.          *)
(***************************************************************************)
CONSTANTS BaseMaps, InstanceMaps, Parent, LFG

VARIABLES phase,   \* "serial", "parallel" or "stopped"
          live,    \* the maps that exist
          due,     \* the updates of this tick that are not finished
          done     \* those that are

vars == <<phase, live, due, done>>

Init == phase = "serial" /\ live = {} /\ due = {} /\ done = {}

\* Maps are created by the world thread, and base maps also by map updates;
\* these may or may not still be updated in the running tick.
Create(m) ==
    /\ m \notin live
    /\ \/ phase = "serial" /\ (m \in InstanceMaps => Parent[m] \in live)
       \/ phase = "parallel" /\ m \in BaseMaps
    /\ live' = live \cup {m}
    /\ \/ UNCHANGED due
       \/ phase = "parallel" /\ due' = due \cup {m}
    /\ UNCHANGED <<phase, done>>

Begin ==
    /\ phase = "serial"
    /\ phase' = "parallel"
    /\ due' = (live \cap BaseMaps) \cup {LFG}
    /\ done' = {}
    /\ UNCHANGED live

\* While a base map is being updated its instances become due or are deleted.
Forward(i) ==
    /\ phase = "parallel"
    /\ i \in live \ (due \cup done) /\ Parent[i] \in due
    /\ \/ due' = due \cup {i} /\ UNCHANGED live
       \/ live' = live \ {i} /\ UNCHANGED due
    /\ UNCHANGED <<phase, done>>

Finish(r) ==
    /\ phase = "parallel"
    /\ r \in due
    /\ due' = due \ {r}
    /\ done' = done \cup {r}
    /\ UNCHANGED <<phase, live>>

End ==
    /\ phase = "parallel"
    /\ due = {}
    /\ phase' = "serial"
    /\ UNCHANGED <<live, due, done>>

Stop ==
    /\ phase = "serial"
    /\ phase' = "stopped"
    /\ live' = {}
    /\ UNCHANGED <<due, done>>

Next ==
    \/ Begin \/ End \/ Stop
    \/ \E m \in BaseMaps \cup InstanceMaps : Create(m)
    \/ \E i \in InstanceMaps : Forward(i)
    \/ \E r \in BaseMaps \cup InstanceMaps \cup {LFG} : Finish(r)

Spec == Init /\ [][Next]_vars
=============================================================================
