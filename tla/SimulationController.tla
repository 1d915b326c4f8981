------------------------ MODULE SimulationController ------------------------
(***************************************************************************)
(* The reconciler of FinancialSimulation resources (k8s_controller.go).    *)
(* Controllers read the simulation and its resources from caches that lag  *)
(* behind the API server, work on a copy, and write its status back under  *)
(* optimistic concurrency: a write succeeds only from the stored version.  *)
(* Nothing elects a leader, so two controllers overlap during a rollout.   *)
(* Version numbers are abstracted to what is asked of them: whether a copy *)
(* or a cache entry is of the stored version.                              *)
(***************************************************************************)
EXTENDS Integers

CONSTANTS
  Controllers,   (* the running instances of the operator                  *)
  Duration,      (* SimulationParams.Duration                              *)
  Grace,         (* the 5 minutes a simulation may be without nodes        *)
  Second,        (* how many ticks of the clock a second has               *)
  MaxStart,      (* bound: the clock stops here until the simulation has a *)
                 (* start time, and then once Duration has passed          *)
  MaxFaults      (* bound: failed requests, crashes, lost nodes, deletions *)

ASSUME ControllerAssumption ==
  /\ Duration \in Nat /\ Grace \in Nat /\ Second \in Nat \ {0}
  /\ MaxStart \in Nat /\ MaxFaults \in Nat

VARIABLES
  simulation,    (* the stored FinancialSimulation                         *)
  resources,     (* the stored resources that belong to it                 *)
  ready,         (* ReadyReplicas of the StatefulSet, 0 or 1               *)
  now,
  seen,          (* the simulation in each controller's cache              *)
  view,          (* each resource in each controller's cache ...           *)
  seenReady,     (* ... and the ReadyReplicas there                        *)
  copy,          (* the object each controller's reconciliation works on   *)
  queued,        (* the controllers whose work queue holds the simulation  *)
  pc,            (* the next request of each controller's reconciliation   *)
  faults,        (* how many faults have happened                          *)
  removed        (* history: the resources somebody else deleted           *)

cluster == <<simulation, resources, ready, now>>
caches  == <<seen, view, seenReady>>
work    == <<copy, queued, pc>>
vars    == <<cluster, caches, work, faults, removed>>

Resources == {"config", "services", "set"}
Ended     == {"Completed", "Failed"}
Phases    == {"", "Pending", "Running", "Terminating"} \cup Ended
Unset     == -1

Object == [deleting : BOOLEAN, phase : Phases, startTime : Int, completionTime : Int,
           nodesRunning : {0, 1}]

(* An object read from the server, and whether it is still what is stored. *)
Snapshot == [object : Object, current : BOOLEAN]

Created == [deleting |-> FALSE, phase |-> "", startTime |-> Unset, completionTime |-> Unset,
            nodesRunning |-> 0]

NoCopy == [object |-> Created, current |-> FALSE]

Stored == [r \in Resources |-> IF r \in resources THEN "current" ELSE "absent"]

Init ==
  /\ simulation = Created /\ resources = {} /\ ready = 0 /\ now = 0
  /\ seen = [c \in Controllers |-> [object |-> Created, current |-> TRUE]]
  /\ view = [c \in Controllers |-> [r \in Resources |-> "absent"]]
  /\ seenReady = [c \in Controllers |-> 0]
  /\ copy = [c \in Controllers |-> NoCopy]
  /\ queued = Controllers /\ pc = [c \in Controllers |-> "idle"]
  /\ faults = 0 /\ removed = {}

-----------------------------------------------------------------------------
(* How a reconciliation goes on and ends.                                  *)
Write(c, o, step) ==
  /\ copy' = [copy EXCEPT ![c].object = o] /\ pc' = [pc EXCEPT ![c] = step]
  /\ UNCHANGED queued

GoTo(c, step) == Write(c, copy[c].object, step)

(* RequeueAfter, or an error, after which the manager tries again.         *)
Again(c) ==
  /\ copy' = [copy EXCEPT ![c] = NoCopy] /\ pc' = [pc EXCEPT ![c] = "idle"]
  /\ queued' = queued \cup {c}

(* What was read before is no longer what is stored, except by the writer. *)
Superseded(snapshots, writers) ==
  [c \in Controllers |-> IF c \in writers THEN snapshots[c] ELSE [snapshots[c] EXCEPT !.current = FALSE]]

(* A resource changes: the cached versions of it are outdated.             *)
Outdated(r) ==
  [c \in Controllers |-> [view[c] EXCEPT ![r] = IF @ = "current" THEN "outdated" ELSE @]]

-----------------------------------------------------------------------------
(* A reconciliation works on a copy of the cached simulation.              *)
Begin(c, o, step) ==
  /\ copy' = [copy EXCEPT ![c] = [object |-> o, current |-> seen[c].current]]
  /\ pc' = [pc EXCEPT ![c] = step]

(* A metav1.Time is stored in whole seconds.                               *)
Stamp(t) == t - (t % Second)

(* Reconcile: a simulation without a phase gets one, and its start time.   *)
Claimed_NoStart(s) == [s EXCEPT !.phase = "Pending", !.nodesRunning = 0]

Claimed(s) == [s EXCEPT !.phase = "Pending", !.startTime = Stamp(now), !.nodesRunning = 0]

HandleRunning_Restarts(c, s) ==
  \/ /\ now - s.startTime > Duration
     /\ Begin(c, [s EXCEPT !.phase = "Completed", !.completionTime = Stamp(now)], "end")
  \/ /\ now - s.startTime <= Duration /\ view[c]["set"] = "absent"
     /\ Begin(c, [s EXCEPT !.startTime = Stamp(now)], "config")
  \/ /\ now - s.startTime <= Duration /\ view[c]["set"] # "absent"
     /\ Begin(c, [s EXCEPT !.nodesRunning = seenReady[c]],
              IF s.nodesRunning # seenReady[c] THEN "counted" ELSE "check")

(* handleRunningPhase up to its first write. What it reads of the cluster  *)
(* comes from caches, so that reading it at once loses nothing.            *)
HandleRunning(c, s) ==
  \/ /\ now - s.startTime > Duration
     /\ Begin(c, [s EXCEPT !.phase = "Completed", !.completionTime = Stamp(now)], "end")
  \/ /\ now - s.startTime <= Duration /\ view[c]["set"] = "absent"
     /\ Begin(c, s, "config")
  \/ /\ now - s.startTime <= Duration /\ view[c]["set"] # "absent"
     /\ Begin(c, [s EXCEPT !.nodesRunning = seenReady[c]],
              IF s.nodesRunning # seenReady[c] THEN "counted" ELSE "check")

(* Reconcile: the copy is handled by its phase.                            *)
Reconcile(c) ==
  LET s == seen[c].object IN
  /\ pc[c] = "idle" /\ c \in queued
  /\ queued' = queued \ {c}
  /\ \/ /\ s.phase = "Terminating" \/ (s.phase \in Ended /\ ~s.deleting)
        /\ UNCHANGED <<copy, pc>>
     \/ /\ s.deleting /\ s.phase # "Terminating"
        /\ Begin(c, [s EXCEPT !.phase = "Terminating"], "end")
     \/ /\ ~s.deleting /\ s.phase = ""
        /\ Begin(c, Claimed(s), "claim")
     \/ /\ ~s.deleting /\ s.phase = "Pending" /\ Begin(c, s, "config")
     \/ /\ ~s.deleting /\ s.phase = "Running" /\ HandleRunning(c, s)
  /\ UNCHANGED <<cluster, caches, faults, removed>>

(* r.Status().Update: a conflict is an error like any other.               *)
Accepted_Patch(c) == TRUE

Accepted(c) == copy[c].current

UpdateStatus(c) ==
  /\ pc[c] \in {"claim", "start", "counted", "end"} /\ Accepted(c)
  /\ simulation' = copy[c].object
  /\ LET changed == copy[c].object # simulation
         others  == IF changed THEN Superseded(copy, {c}) ELSE copy
     IN /\ seen' = IF changed THEN Superseded(seen, {}) ELSE seen
        /\ copy' = IF pc[c] \in {"start", "end"} THEN [others EXCEPT ![c] = NoCopy] ELSE others
  /\ pc' = [pc EXCEPT ![c] = CASE @ = "claim" -> "config" [] @ = "counted" -> "check" [] OTHER -> "idle"]
  /\ queued' = IF pc[c] = "start" THEN queued \cup {c} ELSE queued
  /\ UNCHANGED <<resources, ready, now, view, seenReady, faults, removed>>

Conflict(c) ==
  /\ pc[c] \in {"claim", "start", "counted", "end"} /\ ~Accepted(c)
  /\ Again(c)
  /\ UNCHANGED <<cluster, caches, faults, removed>>

(* createConfigMap, createServices and createStatefulSet, in this order.   *)
AfterResource_Early(c, r) ==
  IF r = "config" THEN GoTo(c, "set")
  ELSE Write(c, [copy[c].object EXCEPT !.phase = "Running"], "start")

AfterResource(c, r) ==
  CASE r = "config"   -> GoTo(c, "services")
    [] r = "services" -> GoTo(c, "set")
    [] r = "set"      -> Write(c, [copy[c].object EXCEPT !.phase = "Running"], "start")

CreateResource(c, r) ==
  /\ pc[c] = r /\ view[c][r] = "absent"
  /\ IF r \in resources
     THEN Again(c) /\ UNCHANGED resources
     ELSE resources' = resources \cup {r} /\ AfterResource(c, r)
  /\ UNCHANGED <<simulation, ready, now, caches, faults, removed>>

(* One that is there already: services are left alone, the others written  *)
(* from the cached version, with what they hold already.                   *)
KeepResource(c, r) ==
  /\ pc[c] = r /\ view[c][r] # "absent"
  /\ IF r = "services" \/ view[c][r] = "current" THEN AfterResource(c, r) ELSE Again(c)
  /\ UNCHANGED <<cluster, caches, faults, removed>>

(* The end of handleRunningPhase.                                          *)
CheckNodes_Once(c) ==
  /\ pc[c] = "check"
  /\ IF copy[c].object.nodesRunning = 0 /\ now - copy[c].object.startTime > Grace
     THEN Write(c, [copy[c].object EXCEPT !.phase = "Failed"], "end")
     ELSE /\ copy' = [copy EXCEPT ![c] = NoCopy] /\ pc' = [pc EXCEPT ![c] = "idle"]
          /\ UNCHANGED queued
  /\ UNCHANGED <<cluster, caches, faults, removed>>

CheckNodes(c) ==
  /\ pc[c] = "check"
  /\ IF copy[c].object.nodesRunning = 0 /\ now - copy[c].object.startTime > Grace
     THEN Write(c, [copy[c].object EXCEPT !.phase = "Failed"], "end")
     ELSE Again(c)
  /\ UNCHANGED <<cluster, caches, faults, removed>>

-----------------------------------------------------------------------------
(* The API server, the caches, the nodes, and what goes wrong.             *)
Fault == faults < MaxFaults /\ faults' = faults + 1

(* A request fails: the error is returned.                                 *)
RequestFails(c) ==
  /\ Fault /\ pc[c] # "idle" /\ Again(c)
  /\ UNCHANGED <<cluster, caches, removed>>

(* The process dies in mid-reconciliation; the next one fills its caches   *)
(* before it starts, and finds the simulation in its queue.                *)
Crash(c) ==
  /\ Fault /\ pc[c] # "idle" /\ Again(c)
  /\ seen' = [seen EXCEPT ![c] = [object |-> simulation, current |-> TRUE]]
  /\ view' = [view EXCEPT ![c] = Stored] /\ seenReady' = [seenReady EXCEPT ![c] = ready]
  /\ UNCHANGED <<cluster, removed>>

(* A watch brings a cache up to date and puts the simulation into the work *)
(* queue; the caches of the resources are taken to advance together.       *)
WatchSimulation(c) ==
  /\ ~seen[c].current
  /\ seen' = [seen EXCEPT ![c] = [object |-> simulation, current |-> TRUE]]
  /\ queued' = queued \cup {c}
  /\ UNCHANGED <<cluster, view, seenReady, copy, pc, faults, removed>>

WatchResources(c) ==
  /\ view[c] # Stored \/ seenReady[c] # ready
  /\ view' = [view EXCEPT ![c] = Stored] /\ seenReady' = [seenReady EXCEPT ![c] = ready]
  /\ queued' = queued \cup {c}
  /\ UNCHANGED <<cluster, seen, copy, pc, faults, removed>>

NodesStart ==
  /\ "set" \in resources /\ ready = 0 /\ ready' = 1 /\ view' = Outdated("set")
  /\ UNCHANGED <<simulation, resources, now, seen, seenReady, work, faults, removed>>

NodesFail ==
  /\ Fault /\ ready = 1 /\ ready' = 0 /\ view' = Outdated("set")
  /\ UNCHANGED <<simulation, resources, now, seen, seenReady, work, removed>>

ResourceDeleted(r) ==
  /\ Fault /\ r \in resources
  /\ resources' = resources \ {r} /\ removed' = removed \cup {r}
  /\ ready' = IF r = "set" THEN 0 ELSE ready
  /\ view' = Outdated(r)
  /\ UNCHANGED <<simulation, now, seen, seenReady, work>>

(* A user deletes the simulation: it is marked until all that it owns is   *)
(* collected, and then gone, which nothing here waits for.                 *)
Delete ==
  /\ Fault /\ ~simulation.deleting
  /\ simulation' = [simulation EXCEPT !.deleting = TRUE]
  /\ seen' = Superseded(seen, {}) /\ copy' = Superseded(copy, {})
  /\ UNCHANGED <<resources, ready, now, view, seenReady, queued, pc, removed>>

Tick ==
  /\ \/ now < MaxStart
     \/ simulation.startTime # Unset /\ now <= simulation.startTime + Duration
  /\ now' = now + 1
  /\ UNCHANGED <<simulation, resources, ready, caches, work, faults, removed>>

-----------------------------------------------------------------------------
Step(c) ==
  \/ Reconcile(c) \/ UpdateStatus(c) \/ Conflict(c)
  \/ \E r \in Resources : CreateResource(c, r) \/ KeepResource(c, r)
  \/ CheckNodes(c)

Watch(c) == WatchSimulation(c) \/ WatchResources(c)

Next ==
  \/ \E c \in Controllers : Step(c) \/ Watch(c) \/ RequestFails(c) \/ Crash(c)
  \/ \E r \in Resources : ResourceDeleted(r)
  \/ NodesStart \/ NodesFail \/ Delete \/ Tick

(* Workers run, watches deliver and time passes.                           *)
Fairness ==
  /\ \A c \in Controllers :
       WF_vars(Step(c)) /\ WF_vars(WatchSimulation(c)) /\ WF_vars(WatchResources(c))
  /\ WF_vars(Tick)

Spec == Init /\ [][Next]_vars /\ Fairness

-----------------------------------------------------------------------------
(* Type invariant; and whatever was stored, cached or copied of a started  *)
(* simulation has the start time that handleRunningPhase dereferences, as  *)
(* has every copy past the first status, also an outdated one.             *)
HasStart(o) == o.phase \notin {"", "Terminating"} => o.startTime # Unset

StartIsKnown ==
  /\ HasStart(simulation)
  /\ \A c \in Controllers :
       /\ HasStart(seen[c].object) /\ HasStart(copy[c].object)
       /\ pc[c] \notin {"idle", "claim", "end"} => copy[c].object.startTime # Unset

TypeOK ==
  /\ simulation \in Object /\ resources \subseteq Resources /\ ready \in {0, 1} /\ now \in Nat
  /\ seen \in [Controllers -> Snapshot] /\ copy \in [Controllers -> Snapshot] /\ queued \subseteq Controllers
  /\ view \in [Controllers -> [Resources -> {"absent", "current", "outdated"}]]
  /\ seenReady \in [Controllers -> {0, 1}]
  /\ pc \in [Controllers -> {"idle", "claim", "counted", "check", "start", "end"} \cup Resources]
  /\ faults \in 0..MaxFaults /\ removed \subseteq Resources
  /\ StartIsKnown

(* Whatever controllers read from stale caches, do twice or leave half     *)
(* done, the stored phase only goes forward, and an ended simulation stays *)
(* as it ended until it is deleted.                                        *)
Follows(p) ==
  CASE p = "" -> {"Pending"} [] p = "Pending" -> {"Running"} [] p = "Running" -> Ended [] OTHER -> {}

PhasesGoForward ==
  [][simulation'.phase # simulation.phase =>
       \/ simulation'.phase \in Follows(simulation.phase)
       \/ simulation'.phase = "Terminating" /\ simulation.deleting]_vars

(* The start and the end of a simulation are stored once, however often it *)
(* is reconciled or its nodes are created again, and it is completed only  *)
(* when its duration has passed since that start, but for the part of a    *)
(* second by which the stored completion is early.                         *)
TimesAreKept ==
  [][/\ simulation.startTime # Unset => simulation'.startTime = simulation.startTime
     /\ simulation.completionTime # Unset => simulation'.completionTime = simulation.completionTime
     /\ simulation'.phase = "Completed" =>
          simulation'.completionTime - simulation'.startTime > Duration - Second]_vars

(* A simulation whose phase says Running, or that ended, has each of its   *)
(* resources, but for those that somebody else deleted: no conflict, crash *)
(* or early return leaves one out.                                         *)
ResourcesAreThere ==
  simulation.phase \in {"Running"} \cup Ended => Resources \subseteq resources \cup removed

(* A simulation is stored as Failed together with the count of no nodes    *)
(* that made it fail, after the time it had to start them.                 *)
FailedWithoutNodes ==
  simulation.phase = "Failed" =>
    simulation.nodesRunning = 0 /\ now - simulation.startTime > Grace

(* Every simulation is completed, has failed or is deleted in the end: no  *)
(* conflict, failed request or crash leaves it without a reconciliation to *)
(* come.                                                                   *)
SimulationEnds == <>(simulation.phase \in Ended \/ simulation.deleting)
=============================================================================
