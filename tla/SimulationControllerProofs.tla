---------------------- MODULE SimulationControllerProofs ----------------------
(***************************************************************************)
(* What holds of the reconciler for any number of controllers, faults and  *)
(* ticks. A write is accepted only from the stored version, so what counts *)
(* is how a copy that is still current differs from what is stored: that   *)
(* is what Basis says, for each place a reconciliation can be at.          *)
(***************************************************************************)
EXTENDS SimulationController, TLAPS

Existed == resources \cup removed

(* The stored simulation, by itself.                                       *)
Sane ==
  /\ simulation.phase = "" => simulation.startTime = Unset
  /\ simulation.completionTime # Unset => simulation.phase \in {"Completed", "Terminating"}
  /\ simulation.phase = "Completed" => simulation.completionTime - simulation.startTime > Duration - Second

(* What a current copy may write over what is stored.                      *)
Claiming(o) ==
  /\ simulation.phase = "" /\ o.phase = "Pending"
  /\ o.startTime \in Nat /\ o.completionTime = Unset

Ending(o) ==
  \/ simulation.deleting /\ o = [simulation EXCEPT !.phase = "Terminating"]
  \/ /\ simulation.phase = "Running"
     /\ o = [simulation EXCEPT !.phase = "Completed", !.completionTime = o.completionTime]
     /\ o.completionTime \in Nat /\ o.completionTime - o.startTime > Duration - Second
  \/ /\ simulation.phase = "Running" /\ o = [simulation EXCEPT !.phase = "Failed"]
     /\ o.nodesRunning = 0 /\ now - o.startTime > Grace

Basis(c) ==
  /\ pc[c] = "idle" => ~copy[c].current
  /\ pc[c] = "claim" => Claiming(copy[c].object)
  /\ pc[c] \in Resources =>
       copy[c].object = simulation /\ simulation.phase \in {"Pending", "Running"}
  /\ pc[c] = "start" =>
       /\ copy[c].object = [simulation EXCEPT !.phase = "Running"]
       /\ simulation.phase \in {"Pending", "Running"}
  /\ pc[c] = "counted" =>
       /\ copy[c].object = [simulation EXCEPT !.nodesRunning = copy[c].object.nodesRunning]
       /\ simulation.phase = "Running"
  /\ pc[c] = "check" => copy[c].object = simulation /\ simulation.phase = "Running"
  /\ pc[c] = "end" => Ending(copy[c].object)

Copies == \A c \in Controllers : copy[c].current => Basis(c)

Caches == \A c \in Controllers : seen[c].current => seen[c].object = simulation

(* What is passed on the way to "start" has been created by somebody.      *)
Made ==
  \A c \in Controllers :
    /\ \A r \in Resources : view[c][r] # "absent" => r \in Existed
    /\ pc[c] \in {"services", "set", "start"} => "config" \in Existed
    /\ pc[c] \in {"set", "start"} => "services" \in Existed
    /\ pc[c] = "start" => "set" \in Existed

IInv == TypeOK /\ Sane /\ Copies /\ Caches /\ Made /\ ResourcesAreThere /\ FailedWithoutNodes

Steps == {"idle", "claim", "counted", "check", "start", "end"} \cup Resources

USE DEF Resources, Ended, Phases, Unset

(* What a time loses when it is stored is less than a second.              *)
LEMMA StampBounds ==
  ASSUME NEW t \in Nat
  PROVE  Stamp(t) \in Nat /\ Stamp(t) > t - Second
<1>1. PICK e, q, r : e = Second /\ q = t \div e /\ r = t % e
  OBVIOUS
<1>2. e \in Nat \ {0}
  BY <1>1, ControllerAssumption
<1>3. t = e * q + r /\ q \in Int /\ r \in Nat /\ r < e
  BY <1>1, <1>2
<1>4. q >= 0
  <2> SUFFICES ASSUME q <= -1 PROVE FALSE
    BY <1>3
  <2>1. PICK k \in Nat : q = -1 - k
    <3>1. -1 - q \in Nat
      BY <1>3
    <3> QED
      BY <1>3, <3>1
  <2>2. e * q = -e - e * k /\ e * k >= 0
    BY <1>2, <2>1
  <2> QED
    BY <1>2, <1>3, <2>2
<1>5. e * q \in Nat
  BY <1>2, <1>3, <1>4
<1>6. t - r \in Nat /\ t - r > t - e
  BY <1>2, <1>3, <1>5
<1> QED
  BY <1>1, <1>6 DEF Stamp

(* A new simulation satisfies the invariant.                               *)
LEMMA Starts == Init => IInv
<1> SUFFICES ASSUME Init PROVE IInv
  OBVIOUS
<1>1. Created \in Object /\ NoCopy \in Snapshot
  BY DEF Created, NoCopy, Object, Snapshot
<1>2. TypeOK
  <2>1. simulation \in Object /\ simulation.phase = ""
    BY <1>1 DEF Init, Created
  <2>2. seen \in [Controllers -> Snapshot] /\ copy \in [Controllers -> Snapshot]
    BY <1>1 DEF Init, Snapshot
  <2>3. view \in [Controllers -> [Resources -> {"absent", "current", "outdated"}]]
    BY DEF Init
  <2>4. pc \in [Controllers -> Steps] /\ seenReady \in [Controllers -> {0, 1}]
    BY DEF Init, Steps
  <2>5. faults \in 0..MaxFaults /\ now \in Nat /\ ready \in {0, 1}
    BY ControllerAssumption DEF Init
  <2>6. resources \subseteq Resources /\ queued \subseteq Controllers /\ removed \subseteq Resources
    BY DEF Init
  <2>7. StartIsKnown
    BY DEF Init, Created, NoCopy, StartIsKnown, HasStart
  <2> QED
    BY <2>1, <2>2, <2>3, <2>4, <2>5, <2>6, <2>7 DEF TypeOK, Steps
<1>3. Sane /\ ResourcesAreThere /\ FailedWithoutNodes
  BY DEF Init, Sane, Created, ResourcesAreThere, FailedWithoutNodes
<1>4. Copies /\ Caches /\ Made
  BY DEF Init, Copies, Caches, Made, NoCopy
<1> QED
  BY <1>2, <1>3, <1>4 DEF IInv

(* What has elapsed stays so.                                              *)
LEMMA StaysElapsed ==
  ASSUME NEW n \in Int, NEW m \in Int, NEW g \in Int, n >= m,
         NEW t \in Int, m - t > g
  PROVE  n - t > g
OBVIOUS

(* No time is before itself.                                               *)
LEMMA NotBefore == \A n \in Int : n >= n
OBVIOUS

(* A step that leaves the stored simulation as it is keeps the invariant   *)
(* if the caches and what each reconciliation has moved on to satisfy it.  *)
Moved(d) ==
  /\ copy'[d].current => Basis(d)'
  /\ pc'[d] \in {"services", "set", "start"} => "config" \in Existed'
  /\ pc'[d] \in {"set", "start"} => "services" \in Existed'
  /\ pc'[d] = "start" => "set" \in Existed'

(* The invariant after a step that leaves the stored simulation as it is.  *)
LEMMA Kept ==
  ASSUME IInv, TypeOK', simulation' = simulation, now' >= now,
         Existed \subseteq Existed', Caches',
         \A d \in Controllers : UNCHANGED <<copy[d], pc[d]>> \/ Moved(d),
         \A d \in Controllers, r \in Resources : view'[d][r] # "absent" => r \in Existed'
  PROVE  IInv'
<1>1. simulation \in Object /\ now \in Nat /\ now' \in Nat
  BY DEF IInv, TypeOK
<1>0. \A t \in Int : now - t > Grace => now' - t > Grace
  <2>1. Grace \in Int /\ now \in Int /\ now' \in Int
    BY <1>1, ControllerAssumption
  <2> QED
    BY <2>1, StaysElapsed
<1>2. Sane' /\ ResourcesAreThere'
  BY DEF IInv, Sane, ResourcesAreThere, Existed
<1>3. FailedWithoutNodes'
  <2>1. simulation.startTime \in Int
    BY <1>1 DEF Object
  <2> QED
    BY <1>0, <2>1 DEF IInv, FailedWithoutNodes
<1>4. Copies'
  <2> SUFFICES ASSUME NEW d \in Controllers, copy'[d].current PROVE Basis(d)'
    BY DEF Copies
  <2>1. CASE Moved(d)
    BY <2>1 DEF Moved
  <2>2. CASE UNCHANGED <<copy[d], pc[d]>>
    <3>1. Basis(d)
      BY <2>2 DEF IInv, Copies
    <3>2. copy[d].object \in Object
      BY DEF IInv, TypeOK, Snapshot
    <3>3. Ending(copy[d].object) => Ending(copy[d].object)'
      <4>1. copy[d].object.startTime \in Int
        BY <3>2 DEF Object
      <4> QED
        BY <1>0, <2>2, <4>1 DEF Ending
    <3>4. Claiming(copy[d].object) => Claiming(copy[d].object)'
      BY <2>2 DEF Claiming
    <3> HIDE DEF Resources, Ended, Phases
    <3> QED
      BY <2>2, <3>1, <3>3, <3>4 DEF Basis
  <2> QED
    BY <2>1, <2>2
<1>5. Made'
  BY DEF IInv, Made, Moved
<1> QED
  BY <1>2, <1>3, <1>4, <1>5 DEF IInv

(* What may end the stored simulation may end it while that stays.         *)
LEMMA EndingStays ==
  ASSUME NEW w, Ending(w), UNCHANGED <<simulation, now>>
  PROVE  Ending(w)'
BY DEF Ending

(* A step of one reconciliation that leaves the caches as they are.        *)
LEMMA LocalStep ==
  ASSUME IInv, NEW c \in Controllers, NEW s \in Snapshot, NEW p \in Steps,
         copy' = [copy EXCEPT ![c] = s], pc' = [pc EXCEPT ![c] = p],
         queued' \subseteq Controllers, faults' \in 0..MaxFaults,
         UNCHANGED <<simulation, ready, now, caches, removed>>,
         resources \subseteq resources', resources' \subseteq Resources,
         Moved(c), HasStart(s.object),
         p \notin {"idle", "claim", "end"} => s.object.startTime # Unset
  PROVE  IInv'
<1>0. StartIsKnown'
  <2>1. UNCHANGED <<simulation, seen>> /\ copy'[c] = s /\ pc'[c] = p
    BY DEF IInv, TypeOK, caches
  <2>2. \A d \in Controllers \ {c} : copy'[d] = copy[d] /\ pc'[d] = pc[d]
    BY DEF IInv, TypeOK
  <2> QED
    BY <2>1, <2>2 DEF IInv, TypeOK, StartIsKnown, HasStart
<1>1. TypeOK'
  BY <1>0 DEF IInv, TypeOK, Steps, caches
<1>2. Existed \subseteq Existed' /\ Caches'
  BY DEF IInv, Existed, Caches, caches
<1>3. \A d \in Controllers : UNCHANGED <<copy[d], pc[d]>> \/ Moved(d)
  <2> SUFFICES ASSUME NEW d \in Controllers, d # c PROVE UNCHANGED <<copy[d], pc[d]>>
    OBVIOUS
  <2> QED
    BY DEF IInv, TypeOK
<1>4. \A d \in Controllers, r \in Resources : view'[d][r] # "absent" => r \in Existed'
  BY <1>2 DEF IInv, Made, caches
<1>5. now \in Nat
  BY DEF IInv, TypeOK
<1> QED
  BY <1>1, <1>2, <1>3, <1>4, <1>5, Kept

(* Reconcile: what it begins with is what the cache holds, and the write it *)
(* prepares is justified if that is still what is stored.                   *)
LEMMA ReconcileStep ==
  ASSUME IInv, NEW c \in Controllers, Reconcile(c)
  PROVE  IInv'
<1> DEFINE s == seen[c].object
<1>0. faults \in 0..MaxFaults /\ resources \subseteq Resources /\ queued \subseteq Controllers
  BY DEF IInv, TypeOK
<1>1. seen[c] \in Snapshot /\ s \in Object /\ now \in Nat
  BY DEF IInv, TypeOK, Snapshot
<1>2. seen[c].current => simulation = s
  BY DEF IInv, Caches
<1>3. /\ queued' = queued \ {c}
      /\ UNCHANGED <<cluster, caches, faults, removed>>
  BY DEF Reconcile
<1>4. ASSUME NEW o \in Object, NEW p \in Steps \ {"services", "set", "start"}, Begin(c, o, p),
             seen[c].current => Basis(c)', HasStart(o),
             p \notin {"claim", "end"} => o.startTime # Unset
      PROVE  IInv'
  <2>1. [object |-> o, current |-> seen[c].current] \in Snapshot
    BY <1>1 DEF Snapshot
  <2>2. copy'[c] = [object |-> o, current |-> seen[c].current] /\ pc'[c] = p
    BY <1>4 DEF Begin, IInv, TypeOK
  <2>3. Moved(c)
    BY <1>4, <2>2 DEF Moved
  <2> QED
    BY <1>0, <1>1, <1>3, <1>4, <2>1, <2>3, LocalStep DEF Begin, cluster
<1>5. ASSUME NEW o \in Object, NEW p, Begin(c, o, p)
      PROVE  copy'[c].object = o /\ pc'[c] = p /\ UNCHANGED <<simulation, now>>
  BY <1>3, <1>5 DEF Begin, IInv, TypeOK, cluster
<1>6. seen[c].current => Sane /\ simulation \in Object
  BY DEF IInv, TypeOK
<1>7. s.phase \notin {"", "Terminating"} => s.startTime # Unset
  BY DEF IInv, TypeOK, StartIsKnown, HasStart
<1> HIDE DEF s
<1>a. CASE UNCHANGED <<copy, pc>>
  <2>0. StartIsKnown'
    BY <1>a, <1>3 DEF IInv, TypeOK, StartIsKnown, HasStart, cluster, caches
  <2>1. TypeOK' /\ Caches' /\ Existed' = Existed
    BY <1>a, <1>0, <1>3, <2>0 DEF IInv, TypeOK, Caches, Existed, cluster, caches
  <2> QED
    BY <1>a, <1>1, <1>3, <2>1, Kept DEF IInv, Made, cluster, caches
<1>b. CASE s.deleting /\ Begin(c, [s EXCEPT !.phase = "Terminating"], "end")
  <2>1. [s EXCEPT !.phase = "Terminating"] \in Object /\ HasStart([s EXCEPT !.phase = "Terminating"])
    BY <1>1 DEF Object, HasStart
  <2>2. seen[c].current => Basis(c)'
    BY <1>2, <1>b, <1>5, <2>1 DEF Basis, Ending
  <2> QED
    BY <1>4, <1>b, <2>1, <2>2 DEF Steps
<1>c. CASE s.phase = "" /\ Begin(c, Claimed(s), "claim")
  <2>0. Stamp(now) \in Nat
    BY <1>1, StampBounds
  <2>1. Claimed(s) \in Object /\ HasStart(Claimed(s))
    <3>1. Stamp(now) \in Int /\ Stamp(now) # Unset /\ "Pending" \in Phases /\ 0 \in {0, 1}
      BY <2>0
    <3> HIDE DEF Phases, Unset
    <3> QED
      BY <1>1, <3>1 DEF Object, Claimed, HasStart
  <2>2. seen[c].current => Claiming(Claimed(s))
    BY <1>1, <1>2, <1>6, <1>c, <2>0 DEF Claiming, Claimed, Sane, Object
  <2>3. seen[c].current => Basis(c)'
    BY <1>c, <1>5, <2>1, <2>2 DEF Basis, Claiming
  <2> QED
    BY <1>4, <1>c, <2>1, <2>3 DEF Steps
<1>d. CASE s.phase = "Pending" /\ Begin(c, s, "config")
  <2>1. seen[c].current => Basis(c)'
    BY <1>1, <1>2, <1>d, <1>5 DEF Basis
  <2> QED
    BY <1>1, <1>4, <1>7, <1>d, <2>1 DEF Steps, HasStart
<1>e. CASE s.phase = "Running" /\ HandleRunning(c, s)
  <2>1. CASE /\ now - s.startTime > Duration
             /\ Begin(c, [s EXCEPT !.phase = "Completed", !.completionTime = Stamp(now)], "end")
    <3> DEFINE o == [s EXCEPT !.phase = "Completed", !.completionTime = Stamp(now)]
    <3>0. Stamp(now) \in Nat /\ Stamp(now) \in Int /\ "Completed" \in Phases
      BY <1>1, StampBounds
    <3> HIDE DEF Phases
    <3>1. o \in Object /\ o.completionTime = Stamp(now) /\ o.startTime = s.startTime
      BY <1>1, <3>0 DEF Object
    <3>a. HasStart(o)
      BY <1>7, <1>e, <3>1 DEF HasStart
    <3>b. o.completionTime - o.startTime > Duration - Second
      <4>1. s.startTime \in Int /\ now \in Nat /\ Duration \in Nat /\ Second \in Nat
        BY <1>1, ControllerAssumption DEF Object
      <4>2. Stamp(now) > now - Second /\ now - s.startTime > Duration
        BY <1>1, <2>1, StampBounds
      <4>3. Stamp(now) - s.startTime > Duration - Second
        BY <3>0, <4>1, <4>2
      <4> HIDE DEF o
      <4> QED
        BY <3>1, <4>3
    <3>2. seen[c].current => Ending(o)
      <4>1. o = [s EXCEPT !.phase = "Completed", !.completionTime = o.completionTime]
        BY <3>1
      <4> HIDE DEF o
      <4> QED
        BY <1>2, <1>e, <3>0, <3>1, <3>b, <4>1 DEF Ending
    <3>3. copy'[c].object = o /\ pc'[c] = "end" /\ UNCHANGED <<simulation, now>>
      BY <1>5, <2>1, <3>1
    <3>4. seen[c].current => Basis(c)'
      <4> HIDE DEF o
      <4> QED
        BY <3>2, <3>3 DEF Basis, Ending
    <3> QED
      BY <1>4, <2>1, <3>1, <3>4, <3>a DEF Steps
  <2>2. CASE Begin(c, s, "config")
    <3>1. seen[c].current => Basis(c)'
      BY <1>1, <1>2, <1>e, <2>2, <1>5 DEF Basis
    <3> QED
      BY <1>1, <1>4, <1>7, <1>e, <2>2, <3>1 DEF Steps, HasStart
  <2>3. CASE Begin(c, [s EXCEPT !.nodesRunning = seenReady[c]],
                   IF s.nodesRunning # seenReady[c] THEN "counted" ELSE "check")
    <3> DEFINE o == [s EXCEPT !.nodesRunning = seenReady[c]]
    <3>1. seenReady[c] \in {0, 1}
      BY DEF IInv, TypeOK
    <3>2. o \in Object /\ o.nodesRunning = seenReady[c] /\ o.startTime = s.startTime
      BY <1>1, <3>1 DEF Object
    <3>5. HasStart(o) /\ o.startTime # Unset
      BY <1>7, <1>e, <3>2 DEF HasStart
    <3>3. CASE s.nodesRunning # seenReady[c]
      <4>1. seen[c].current => Basis(c)'
        BY <1>2, <1>e, <1>5, <2>3, <3>2, <3>3 DEF Basis
      <4> QED
        BY <1>4, <2>3, <3>2, <3>3, <3>5, <4>1 DEF Steps
    <3>4. CASE s.nodesRunning = seenReady[c]
      <4>1. o = s
        BY <1>1, <3>4 DEF Object
      <4>2. seen[c].current => Basis(c)'
        BY <1>2, <1>e, <1>5, <2>3, <3>2, <3>4, <4>1 DEF Basis
      <4> QED
        BY <1>4, <2>3, <3>2, <3>4, <3>5, <4>2 DEF Steps
    <3> QED
      BY <3>3, <3>4
  <2> QED
    BY <1>e, <2>1, <2>2, <2>3 DEF HandleRunning
<1> QED
  BY <1>a, <1>b, <1>c, <1>d, <1>e DEF Reconcile, s

(* The steps that only go on, fail or are tried again.                     *)
LEMMA AgainStep ==
  ASSUME IInv, NEW c \in Controllers, Again(c), faults' \in 0..MaxFaults,
         UNCHANGED <<simulation, ready, now, caches, removed>>,
         resources \subseteq resources', resources' \subseteq Resources
  PROVE  IInv'
<1>0. HasStart(NoCopy.object)
  BY DEF NoCopy, Created, HasStart
<1>1. NoCopy \in Snapshot /\ ~NoCopy.current
  BY DEF NoCopy, Snapshot, Created, Object
<1>2. copy'[c] = NoCopy /\ pc'[c] = "idle" /\ queued' \subseteq Controllers
  BY DEF Again, IInv, TypeOK
<1>3. Moved(c)
  BY <1>1, <1>2 DEF Moved
<1> QED
  BY <1>0, <1>1, <1>2, <1>3, LocalStep DEF Again, Steps

(* The number of faults stays within its bound.                            *)
LEMMA FaultStep ==
  ASSUME faults \in 0..MaxFaults, Fault
  PROVE  faults' \in 0..MaxFaults
<1>1. faults \in Int /\ 0 <= faults /\ faults < MaxFaults /\ MaxFaults \in Int
  BY ControllerAssumption DEF Fault
<1>2. faults' = faults + 1
  BY DEF Fault
<1> QED
  BY <1>1, <1>2

(* A refused write and a failed request are tried again.                   *)
LEMMA ConflictStep ==
  ASSUME IInv, NEW c \in Controllers, Conflict(c) \/ RequestFails(c)
  PROVE  IInv'
<1>1. faults \in 0..MaxFaults /\ resources \subseteq Resources
  BY DEF IInv, TypeOK
<1>2. CASE Conflict(c)
  BY <1>1, <1>2, AgainStep DEF Conflict, cluster
<1>3. CASE RequestFails(c)
  <2>1. faults' \in 0..MaxFaults
    BY <1>1, <1>3, FaultStep DEF RequestFails
  <2> QED
    BY <1>1, <1>3, <2>1, AgainStep DEF RequestFails, cluster
<1> QED
  BY <1>2, <1>3

(* One resource after the other exists once a reconciliation is past it.   *)
LEMMA ResourceStep ==
  ASSUME IInv, NEW c \in Controllers, NEW r \in Resources, pc[c] = r, r \in Existed',
         AfterResource(c, r), UNCHANGED <<simulation, ready, now, caches, faults, removed>>,
         resources \subseteq resources', resources' \subseteq Resources
  PROVE  IInv'
<1> DEFINE o == copy[c].object
<1>1. copy[c] \in Snapshot /\ o \in Object /\ simulation \in Object /\ Existed \subseteq Existed'
  BY DEF IInv, TypeOK, Snapshot, Existed
<1>2. copy[c].current => o = simulation /\ simulation.phase \in {"Pending", "Running"}
  BY DEF IInv, Copies, Basis
<1>3. faults' \in 0..MaxFaults /\ queued \subseteq Controllers /\ o.startTime # Unset
  BY DEF IInv, TypeOK, StartIsKnown
<1>4. ASSUME NEW w \in Object, NEW p \in Steps, Write(c, w, p), copy[c].current => Basis(c)',
             w.startTime = o.startTime,
             p \in {"services", "set", "start"} => "config" \in Existed',
             p \in {"set", "start"} => "services" \in Existed',
             p = "start" => "set" \in Existed'
      PROVE  IInv'
  <2> DEFINE s == [object |-> w, current |-> copy[c].current]
  <2>1. s \in Snapshot /\ s = [copy[c] EXCEPT !.object = w]
    BY <1>1 DEF Snapshot
  <2>2. copy' = [copy EXCEPT ![c] = s] /\ pc' = [pc EXCEPT ![c] = p] /\ queued' = queued
    BY <1>4, <2>1 DEF Write
  <2>3. copy'[c].current = copy[c].current /\ pc'[c] = p
    BY <2>2 DEF IInv, TypeOK
  <2>4. Moved(c)
    BY <1>4, <2>3 DEF Moved
  <2>5. s.object.startTime # Unset /\ HasStart(s.object)
    BY <1>3, <1>4 DEF HasStart
  <2> HIDE DEF s
  <2> QED
    BY <1>3, <2>1, <2>2, <2>4, <2>5, LocalStep
<1>5. ASSUME NEW w, NEW p, Write(c, w, p)
      PROVE  copy'[c].object = w /\ pc'[c] = p
  BY <1>1, <1>5 DEF Write, IInv, TypeOK, Snapshot
<1> HIDE DEF o
<1>6. CASE r = "config" /\ Write(c, o, "services")
  <2>1. copy[c].current => Basis(c)'
    BY <1>2, <1>5, <1>6 DEF Basis
  <2> QED
    BY <1>1, <1>4, <1>6, <2>1 DEF Steps
<1>7. CASE r = "services" /\ Write(c, o, "set")
  <2>1. copy[c].current => Basis(c)'
    BY <1>2, <1>5, <1>7 DEF Basis
  <2>2. "config" \in Existed'
    BY <1>1, <1>7 DEF IInv, Made
  <2> QED
    BY <1>1, <1>4, <1>7, <2>1, <2>2 DEF Steps
<1>8. CASE r = "set" /\ Write(c, [o EXCEPT !.phase = "Running"], "start")
  <2>1. [o EXCEPT !.phase = "Running"] \in Object /\ [o EXCEPT !.phase = "Running"].startTime = o.startTime
    BY <1>1 DEF Object
  <2>2. copy[c].current => Basis(c)'
    BY <1>2, <1>5, <1>8, <2>1 DEF Basis
  <2>3. "config" \in Existed' /\ "services" \in Existed'
    BY <1>1, <1>8 DEF IInv, Made
  <2> QED
    BY <1>4, <1>8, <2>1, <2>2, <2>3 DEF Steps
<1> QED
  BY <1>6, <1>7, <1>8 DEF AfterResource, GoTo, o

(* A resource is created, or found to exist already.                       *)
LEMMA CreateStep ==
  ASSUME IInv, NEW c \in Controllers, NEW r \in Resources, CreateResource(c, r)
  PROVE  IInv'
<1>1. faults' \in 0..MaxFaults /\ resources \subseteq Resources
  BY DEF CreateResource, IInv, TypeOK
<1>2. CASE Again(c) /\ UNCHANGED resources
  BY <1>1, <1>2, AgainStep DEF CreateResource
<1>3. CASE resources' = resources \cup {r} /\ AfterResource(c, r)
  <2>1. r \in Existed'
    BY <1>3 DEF Existed
  <2> QED
    BY <1>1, <1>3, <2>1, ResourceStep DEF CreateResource
<1> QED
  BY <1>2, <1>3 DEF CreateResource

(* A resource that the cache holds is left, or written as it was.          *)
LEMMA KeepStep ==
  ASSUME IInv, NEW c \in Controllers, NEW r \in Resources, KeepResource(c, r)
  PROVE  IInv'
<1>1. faults' \in 0..MaxFaults /\ resources \subseteq Resources /\ UNCHANGED <<cluster, caches, faults, removed>>
  BY DEF KeepResource, IInv, TypeOK
<1>2. CASE Again(c)
  BY <1>1, <1>2, AgainStep DEF cluster
<1>3. CASE AfterResource(c, r)
  <2>1. r \in Existed'
    BY <1>1 DEF KeepResource, IInv, Made, Existed, cluster
  <2> QED
    BY <1>1, <1>3, <2>1, ResourceStep DEF KeepResource, cluster
<1> QED
  BY <1>2, <1>3 DEF KeepResource

(* A simulation fails by what was counted in the version that is stored.   *)
LEMMA CheckStep ==
  ASSUME IInv, NEW c \in Controllers, CheckNodes(c)
  PROVE  IInv'
<1> DEFINE o == copy[c].object
           w == [o EXCEPT !.phase = "Failed"]
           s == [object |-> w, current |-> copy[c].current]
<1>1. faults' \in 0..MaxFaults /\ resources \subseteq Resources /\ queued \subseteq Controllers
  BY DEF CheckNodes, IInv, TypeOK
<1>2. CASE Again(c)
  BY <1>1, <1>2, AgainStep DEF CheckNodes, cluster
<1>3. CASE o.nodesRunning = 0 /\ now - o.startTime > Grace /\ Write(c, w, "end")
  <2>1. copy[c] \in Snapshot /\ o \in Object /\ copy[c].current \in BOOLEAN
    BY DEF IInv, TypeOK, Snapshot
  <2>2. w \in Object /\ w.nodesRunning = 0 /\ w.startTime = o.startTime
    BY <1>3, <2>1 DEF Object
  <2>3. s \in Snapshot /\ s = [copy[c] EXCEPT !.object = w]
    BY <2>1, <2>2 DEF Snapshot
  <2>4. copy' = [copy EXCEPT ![c] = s] /\ pc' = [pc EXCEPT ![c] = "end"] /\ queued' = queued
    BY <1>3, <2>3 DEF Write
  <2>5. copy'[c] = s /\ pc'[c] = "end"
    BY <2>4 DEF IInv, TypeOK
  <2>6. copy[c].current => o = simulation /\ simulation.phase = "Running"
    BY DEF CheckNodes, IInv, Copies, Basis
  <2>7. copy[c].current => Ending(w)
    BY <1>3, <2>2, <2>6 DEF Ending
  <2>8. copy'[c].object = w /\ copy'[c].current = copy[c].current /\ UNCHANGED <<simulation, now>>
    BY <2>5 DEF CheckNodes, cluster
  <2>9. Moved(c)
    <3> HIDE DEF w, s, o
    <3>1. copy[c].current => Ending(copy[c].object)'
      BY <2>7, <2>8, EndingStays
    <3> QED
      BY <2>5, <2>8, <3>1 DEF Moved, Basis
  <2>10. HasStart(s.object)
    <3>1. o.startTime # Unset
      BY DEF CheckNodes, IInv, TypeOK, StartIsKnown
    <3> QED
      BY <2>2, <3>1 DEF HasStart
  <2> HIDE DEF s, w, o
  <2> QED
    BY <1>1, <2>3, <2>4, <2>9, <2>10, LocalStep DEF CheckNodes, cluster, Steps
<1> QED
  BY <1>2, <1>3 DEF CheckNodes

(* An accepted write replaces the very version its copy was read from.     *)
LEMMA UpdateStep ==
  ASSUME IInv, NEW c \in Controllers, UpdateStatus(c)
  PROVE  IInv'
<1> DEFINE w == copy[c].object
<1>0. copy[c].current /\ pc[c] \in {"claim", "start", "counted", "end"} /\ simulation' = w
  BY DEF UpdateStatus, Accepted
<1>1. /\ copy[c] \in Snapshot /\ w \in Object /\ simulation \in Object
      /\ seen \in [Controllers -> Snapshot] /\ copy \in [Controllers -> Snapshot]
  BY DEF IInv, TypeOK, Snapshot
<1>2. Basis(c)
  BY <1>0 DEF IInv, Copies
<1>3. UNCHANGED <<resources, ready, now, view, seenReady, faults, removed>> /\ Existed' = Existed
  BY DEF UpdateStatus, Existed
<1>4. pc'[c] = CASE pc[c] = "claim" -> "config" [] pc[c] = "counted" -> "check" [] OTHER -> "idle"
  BY DEF UpdateStatus, IInv, TypeOK
<1>5. copy'[c] = IF pc[c] \in {"start", "end"} THEN NoCopy ELSE copy[c]
  BY <1>1 DEF UpdateStatus, Superseded
<1>6. ASSUME NEW d \in Controllers, d # c
      PROVE  pc'[d] = pc[d] /\ (copy'[d].current => copy'[d] = copy[d] /\ simulation' = simulation)
  <2>1. pc'[d] = pc[d]
    BY <1>6 DEF UpdateStatus, IInv, TypeOK
  <2>2. CASE w = simulation
    <3>1. copy'[d] = copy[d]
      BY <1>1, <1>6, <2>2 DEF UpdateStatus
    <3> QED
      BY <1>0, <2>1, <2>2, <3>1
  <2>3. CASE w # simulation
    <3>1. copy'[d] = [copy[d] EXCEPT !.current = FALSE]
      BY <1>1, <1>6, <2>3 DEF UpdateStatus, Superseded
    <3>2. ~copy'[d].current
      BY <1>1, <3>1 DEF Snapshot
    <3> QED
      BY <2>1, <3>2
  <2> QED
    BY <2>2, <2>3
<1>7. seen' \in [Controllers -> Snapshot] /\ copy' \in [Controllers -> Snapshot]
  <2>1. \A s \in Snapshot : [s EXCEPT !.current = FALSE] \in Snapshot
    BY DEF Snapshot
  <2>2. NoCopy \in Snapshot
    BY DEF NoCopy, Snapshot, Created, Object
  <2>3. Superseded(seen, {}) \in [Controllers -> Snapshot] /\ Superseded(copy, {c}) \in [Controllers -> Snapshot]
    BY <1>1, <2>1 DEF Superseded
  <2> HIDE DEF w
  <2> QED
    BY <1>1, <2>2, <2>3 DEF UpdateStatus
<1>8. pc' \in [Controllers -> Steps] /\ queued' \subseteq Controllers
  BY DEF UpdateStatus, IInv, TypeOK, Steps
<1>9. Caches'
  <2>1. CASE w = simulation
    BY <1>0, <2>1 DEF UpdateStatus, IInv, Caches
  <2>2. CASE w # simulation
    <3>1. \A d \in Controllers : seen'[d] = [seen[d] EXCEPT !.current = FALSE]
      BY <1>1, <2>2 DEF UpdateStatus, Superseded
    <3> QED
      BY <1>1, <3>1 DEF Caches, Snapshot
  <2> QED
    BY <2>1, <2>2
<1>10. Made'
  <2>1. pc'[c] \notin {"services", "set", "start"}
    BY <1>0, <1>4
  <2> QED
    BY <1>3, <1>6, <2>1 DEF IInv, Made
<1> DEFINE Good ==
      /\ w.phase \notin {"", "Terminating"} => w.startTime # Unset
      /\ w.phase = "" => w.startTime = Unset
      /\ w.completionTime # Unset => w.phase \in {"Completed", "Terminating"}
      /\ w.phase = "Completed" => w.completionTime - w.startTime > Duration - Second
      /\ w.phase \in {"Running"} \cup Ended => Resources \subseteq Existed
      /\ w.phase = "Failed" => w.nodesRunning = 0 /\ now - w.startTime > Grace
<1>11. /\ simulation.phase \notin {"", "Terminating"} => simulation.startTime # Unset
       /\ simulation.phase = "Running" => simulation.completionTime = Unset /\ Resources \subseteq Existed
       /\ simulation.phase = "Pending" => simulation.completionTime = Unset
  <2>1. simulation.phase \notin {"", "Terminating"} => simulation.startTime # Unset
    BY DEF IInv, TypeOK, StartIsKnown, HasStart
  <2> QED
    BY <2>1 DEF IInv, Sane, ResourcesAreThere, Existed
<1>a. ASSUME pc[c] = "claim" PROVE Good /\ (copy'[c].current => Basis(c)')
  <2>1. Claiming(w)
    BY <1>2, <1>a DEF Basis
  <2>2. w.phase = "Pending" /\ w.startTime # Unset /\ w.completionTime = Unset
    <3>1. \A n \in Nat : n # Unset
      OBVIOUS
    <3> HIDE DEF w, Unset
    <3> QED
      BY <2>1, <3>1 DEF Claiming
  <2>3. Good
    <3> HIDE DEF w
    <3> QED
      BY <2>2
  <2>4. Basis(c)'
    BY <1>0, <1>4, <1>5, <1>a, <2>1 DEF Basis, Claiming
  <2> QED
    BY <2>3, <2>4
<1>b. ASSUME pc[c] = "start" PROVE Good /\ (copy'[c].current => Basis(c)')
  <2>1. w = [simulation EXCEPT !.phase = "Running"] /\ simulation.phase \in {"Pending", "Running"}
    BY <1>2, <1>b DEF Basis
  <2>2. /\ w.phase = "Running" /\ w.startTime = simulation.startTime
        /\ w.completionTime = simulation.completionTime
    BY <1>1, <2>1 DEF Object
  <2>3. Resources \subseteq Existed
    BY <1>b DEF IInv, Made
  <2>4. Good
    BY <1>11, <2>1, <2>2, <2>3
  <2>5. ~copy'[c].current
    BY <1>5, <1>b DEF NoCopy
  <2> QED
    BY <2>4, <2>5
<1>c. ASSUME pc[c] = "counted" PROVE Good /\ (copy'[c].current => Basis(c)')
  <2>1. w = [simulation EXCEPT !.nodesRunning = w.nodesRunning] /\ simulation.phase = "Running"
    BY <1>2, <1>c DEF Basis
  <2>2. /\ w.phase = "Running" /\ w.startTime = simulation.startTime
        /\ w.completionTime = simulation.completionTime
    <3> HIDE DEF w
    <3> QED
      BY <1>1, <2>1 DEF Object
  <2>3. Good
    BY <1>11, <2>1, <2>2
  <2>4. Basis(c)'
    BY <1>0, <1>4, <1>5, <1>c, <2>2 DEF Basis
  <2> QED
    BY <2>3, <2>4
<1>d. ASSUME pc[c] = "end" PROVE Good /\ (copy'[c].current => Basis(c)')
  <2>1. ~copy'[c].current
    BY <1>5, <1>d DEF NoCopy
  <2>2. Ending(w)
    BY <1>2, <1>d DEF Basis
  <2> HIDE DEF w
  <2>3. CASE w = [simulation EXCEPT !.phase = "Terminating"]
    <3>1. w.phase = "Terminating"
      BY <1>1, <2>3 DEF Object
    <3> QED
      BY <2>1, <3>1
  <2>4. CASE /\ simulation.phase = "Running"
             /\ w = [simulation EXCEPT !.phase = "Completed", !.completionTime = w.completionTime]
             /\ w.completionTime \in Nat /\ w.completionTime - w.startTime > Duration - Second
    <3>1. w.phase = "Completed" /\ w.startTime = simulation.startTime
      BY <1>1, <2>4 DEF Object
    <3> QED
      BY <1>11, <2>1, <2>4, <3>1
  <2>5. CASE /\ simulation.phase = "Running" /\ w = [simulation EXCEPT !.phase = "Failed"]
             /\ w.nodesRunning = 0 /\ now - w.startTime > Grace
    <3>1. /\ w.phase = "Failed" /\ w.startTime = simulation.startTime
          /\ w.completionTime = simulation.completionTime
      BY <1>1, <2>5 DEF Object
    <3> QED
      BY <1>11, <2>1, <2>5, <3>1
  <2> QED
    BY <2>2, <2>3, <2>4, <2>5 DEF Ending
<1>12. Good /\ (copy'[c].current => Basis(c)')
  BY <1>0, <1>a, <1>b, <1>c, <1>d
<1> HIDE DEF w
<1>16. StartIsKnown'
  <2>1. /\ HasStart(w) /\ \A d \in Controllers : HasStart(seen[d].object) /\ HasStart(copy[d].object)
        /\ \A d \in Controllers : pc[d] \notin {"idle", "claim", "end"} => copy[d].object.startTime # Unset
    BY DEF IInv, TypeOK, StartIsKnown, w
  <2>2. \A d \in Controllers : seen'[d].object = seen[d].object
    BY <1>0, <1>1 DEF UpdateStatus, Superseded, Snapshot
  <2>3. \A d \in Controllers : copy'[d] = NoCopy \/ copy'[d].object = copy[d].object
    BY <1>0, <1>1 DEF UpdateStatus, Superseded, Snapshot
  <2>4. HasStart(NoCopy.object)
    BY DEF NoCopy, Created, HasStart
  <2>5. \A d \in Controllers \ {c} : pc'[d] = pc[d] /\ copy'[d].object = copy[d].object
    BY <1>1, <1>6 DEF UpdateStatus, Superseded, Snapshot
  <2>6. pc'[c] \notin {"idle", "claim", "end"} => copy'[c].object.startTime # Unset
    <3>1. CASE pc[c] = "claim"
      <4>1. copy'[c] = copy[c] /\ w.startTime \in Nat
        BY <1>2, <1>5, <3>1 DEF Basis, Claiming, w
      <4> QED
        BY <4>1 DEF w
    <3>2. CASE pc[c] = "counted"
      BY <1>5, <2>1, <3>2
    <3>3. CASE pc[c] \in {"start", "end"}
      BY <1>4, <3>3
    <3> QED
      BY <1>0, <3>1, <3>2, <3>3
  <2>7. HasStart(simulation')
    BY <1>0, <2>1
  <2>8. \A d \in Controllers : HasStart(seen'[d].object) /\ HasStart(copy'[d].object)
    BY <2>1, <2>2, <2>3, <2>4
  <2> QED
    BY <2>1, <2>5, <2>6, <2>7, <2>8 DEF StartIsKnown, HasStart
<1>13. TypeOK'
  BY <1>0, <1>1, <1>3, <1>7, <1>8, <1>16 DEF IInv, TypeOK, Steps
<1>14. Sane' /\ ResourcesAreThere' /\ FailedWithoutNodes'
  <2>1. Existed \subseteq resources' \cup removed'
    BY <1>3 DEF Existed
  <2> QED
    BY <1>0, <1>3, <1>12, <2>1 DEF Sane, ResourcesAreThere, FailedWithoutNodes
<1>15. Copies'
  <2> SUFFICES ASSUME NEW d \in Controllers, copy'[d].current PROVE Basis(d)'
    BY DEF Copies
  <2>1. CASE d = c
    BY <1>12, <2>1
  <2>2. CASE d # c
    <3>1. UNCHANGED <<copy[d], pc[d], simulation, now>>
      BY <1>3, <1>6, <2>2
    <3>2. Basis(d)
      BY <3>1 DEF IInv, Copies
    <3> QED
      BY <3>1, <3>2 DEF Basis, Claiming, Ending
  <2> QED
    BY <2>1, <2>2
<1> QED
  BY <1>9, <1>10, <1>13, <1>14, <1>15 DEF IInv

(* A watch, the nodes, the clock and lost resources change what is cached  *)
(* and what there is, and what there was stays in Existed.                 *)
LEMMA EnvironmentStep ==
  ASSUME IInv,
         \/ \E c \in Controllers : Watch(c)
         \/ \E r \in Resources : ResourceDeleted(r)
         \/ NodesStart \/ NodesFail \/ Tick
  PROVE  IInv'
<1>1. /\ simulation \in Object /\ now \in Nat /\ ready \in {0, 1} /\ faults \in 0..MaxFaults
      /\ seen \in [Controllers -> Snapshot] /\ seenReady \in [Controllers -> {0, 1}]
      /\ view \in [Controllers -> [Resources -> {"absent", "current", "outdated"}]]
      /\ queued \subseteq Controllers /\ resources \subseteq Resources /\ removed \subseteq Resources
  BY DEF IInv, TypeOK
<1>2. /\ \A c \in Controllers, r \in Resources : view[c][r] # "absent" => r \in Existed
      /\ Caches
  BY DEF IInv, Made
<1>3. Stored \in [Resources -> {"absent", "current", "outdated"}]
  BY DEF Stored
<1>4. [object |-> simulation, current |-> TRUE] \in Snapshot
  BY <1>1 DEF Snapshot
<1>5. \A r \in Resources : Outdated(r) \in [Controllers -> [Resources -> {"absent", "current", "outdated"}]]
  BY <1>1 DEF Outdated
<1>6. \A q, r \in Resources, c \in Controllers : Outdated(q)[c][r] # "absent" => view[c][r] # "absent"
  BY <1>1 DEF Outdated
<1>7. now' >= now /\ now' \in Nat /\ UNCHANGED simulation
  BY <1>1 DEF Watch, WatchSimulation, WatchResources, ResourceDeleted, NodesStart, NodesFail,
              Tick, cluster
<1>8. UNCHANGED <<copy, pc>>
  BY DEF Watch, WatchSimulation, WatchResources, ResourceDeleted, NodesStart, NodesFail, Tick, work
<1>9. /\ resources' \subseteq Resources /\ removed' \subseteq Resources /\ Existed \subseteq Existed'
      /\ queued' \subseteq Controllers /\ ready' \in {0, 1}
  BY <1>1 DEF Watch, WatchSimulation, WatchResources, ResourceDeleted, NodesStart, NodesFail, Tick,
              cluster, work, Existed
<1>10. faults' \in 0..MaxFaults
  BY <1>1, FaultStep DEF Watch, WatchSimulation, WatchResources, ResourceDeleted, NodesStart,
                         NodesFail, Tick
<1>11. seen' \in [Controllers -> Snapshot] /\ Caches'
  <2>1. CASE \E c \in Controllers : WatchSimulation(c)
    BY <1>1, <1>2, <1>4, <2>1 DEF WatchSimulation, cluster, Caches
  <2>2. CASE UNCHANGED <<seen, simulation>>
    BY <1>1, <1>2, <2>2 DEF Caches
  <2> QED
    BY <1>7, <2>1, <2>2 DEF Watch, WatchResources, ResourceDeleted, NodesStart, NodesFail, Tick, caches
<1>12. /\ view' \in [Controllers -> [Resources -> {"absent", "current", "outdated"}]]
       /\ seenReady' \in [Controllers -> {0, 1}]
       /\ \A d \in Controllers, r \in Resources : view'[d][r] # "absent" => r \in Existed'
  <2>1. CASE \E c \in Controllers : WatchResources(c)
    <3>1. \A r \in Resources : Stored[r] # "absent" => r \in Existed'
      BY <1>9 DEF Stored, Existed
    <3> QED
      BY <1>1, <1>2, <1>3, <1>9, <2>1, <3>1 DEF WatchResources
  <2>2. CASE (\E r \in Resources : view' = Outdated(r)) /\ UNCHANGED seenReady
    BY <1>1, <1>2, <1>5, <1>6, <1>9, <2>2
  <2>3. CASE UNCHANGED <<view, seenReady>>
    BY <1>1, <1>2, <1>9, <2>3
  <2> QED
    BY <2>1, <2>2, <2>3 DEF Watch, WatchSimulation, ResourceDeleted, NodesStart, NodesFail, Tick, caches
<1>14. StartIsKnown'
  <2>1. \A c \in Controllers : seen'[c] = seen[c] \/ seen'[c].object = simulation
    <3>1. CASE \E c \in Controllers : WatchSimulation(c)
      BY <1>1, <3>1 DEF WatchSimulation
    <3>2. CASE UNCHANGED seen
      BY <3>2
    <3> QED
      BY <3>1, <3>2 DEF Watch, WatchResources, ResourceDeleted, NodesStart, NodesFail, Tick, caches
  <2> QED
    BY <1>7, <1>8, <2>1 DEF IInv, TypeOK, StartIsKnown, HasStart
<1>13. TypeOK'
  BY <1>1, <1>7, <1>8, <1>9, <1>10, <1>11, <1>12, <1>14 DEF IInv, TypeOK
<1> QED
  BY <1>7, <1>8, <1>9, <1>11, <1>12, <1>13, Kept

(* A controller that starts again works on nothing.                        *)
LEMMA CrashStep ==
  ASSUME IInv, NEW c \in Controllers, Crash(c)
  PROVE  IInv'
<1>1. /\ simulation \in Object /\ now \in Nat /\ ready \in {0, 1} /\ faults \in 0..MaxFaults
      /\ seen \in [Controllers -> Snapshot] /\ seenReady \in [Controllers -> {0, 1}]
      /\ copy \in [Controllers -> Snapshot]
      /\ view \in [Controllers -> [Resources -> {"absent", "current", "outdated"}]]
      /\ pc \in [Controllers -> Steps] /\ queued \subseteq Controllers
  BY DEF IInv, TypeOK, Steps
<1>2. UNCHANGED <<simulation, resources, ready, now, removed>> /\ Existed' = Existed
  BY DEF Crash, cluster, Existed
<1>3. NoCopy \in Snapshot /\ ~NoCopy.current
  BY DEF NoCopy, Snapshot, Created, Object
<1>4. /\ copy' = [copy EXCEPT ![c] = NoCopy] /\ pc' = [pc EXCEPT ![c] = "idle"]
      /\ queued' = queued \cup {c}
  BY DEF Crash, Again
<1>5. \A d \in Controllers : UNCHANGED <<copy[d], pc[d]>> \/ Moved(d)
  BY <1>1, <1>3, <1>4 DEF Moved
<1>6. faults' \in 0..MaxFaults
  BY <1>1, FaultStep DEF Crash
<1>7. [object |-> simulation, current |-> TRUE] \in Snapshot
  BY <1>1 DEF Snapshot
<1>8. seen' \in [Controllers -> Snapshot] /\ Caches'
  BY <1>1, <1>2, <1>7 DEF Crash, IInv, Caches
<1>9. Stored \in [Resources -> {"absent", "current", "outdated"}]
  BY DEF Stored
<1>10. /\ view' \in [Controllers -> [Resources -> {"absent", "current", "outdated"}]]
       /\ seenReady' \in [Controllers -> {0, 1}]
  BY <1>1, <1>9 DEF Crash
<1>11. \A d \in Controllers, r \in Resources : view'[d][r] # "absent" => r \in Existed'
  <2>1. \A r \in Resources : Stored[r] # "absent" => r \in Existed'
    BY <1>2 DEF Stored, Existed
  <2> QED
    BY <1>1, <1>2, <2>1 DEF Crash, IInv, Made
<1>12. TypeOK'
  <2>1. copy' \in [Controllers -> Snapshot] /\ pc' \in [Controllers -> Steps] /\ queued' \subseteq Controllers
    BY <1>1, <1>3, <1>4 DEF Steps
  <2>2. StartIsKnown'
    <3>1. \A d \in Controllers : seen'[d] = seen[d] \/ seen'[d].object = simulation
      BY <1>1 DEF Crash
    <3>2. \A d \in Controllers :
            \/ copy'[d] = NoCopy /\ pc'[d] = "idle"
            \/ copy'[d] = copy[d] /\ pc'[d] = pc[d]
      <4> TAKE d \in Controllers
      <4>1. CASE d = c
        BY <1>1, <1>4, <4>1
      <4>2. CASE d # c
        BY <1>1, <1>4, <4>2
      <4> QED
        BY <4>1, <4>2
    <3>3. HasStart(NoCopy.object)
      BY DEF NoCopy, Created, HasStart
    <3> QED
      BY <1>2, <3>1, <3>2, <3>3 DEF IInv, TypeOK, StartIsKnown, HasStart
  <2> QED
    BY <1>2, <1>6, <1>8, <1>10, <2>1, <2>2 DEF IInv, TypeOK, Steps
<1> QED
  BY <1>1, <1>2, <1>5, <1>8, <1>11, <1>12, Kept

(* Once the simulation is marked, nothing that was read is what is stored. *)
LEMMA DeleteStep ==
  ASSUME IInv, Delete
  PROVE  IInv'
<1>1. /\ simulation \in Object /\ faults \in 0..MaxFaults
      /\ seen \in [Controllers -> Snapshot] /\ copy \in [Controllers -> Snapshot]
  BY DEF IInv, TypeOK
<1>2. UNCHANGED <<resources, ready, now, view, seenReady, queued, pc, removed>> /\ Existed' = Existed
  BY DEF Delete, Existed
<1>3. \A s \in Snapshot : [s EXCEPT !.current = FALSE] \in Snapshot /\ ~[s EXCEPT !.current = FALSE].current
  BY DEF Snapshot
<1>4. /\ seen' \in [Controllers -> Snapshot] /\ copy' \in [Controllers -> Snapshot]
      /\ \A d \in Controllers : ~seen'[d].current /\ ~copy'[d].current
  BY <1>1, <1>3 DEF Delete, Superseded
<1>5. /\ simulation' \in Object /\ simulation'.phase = simulation.phase
      /\ simulation'.startTime = simulation.startTime
      /\ simulation'.completionTime = simulation.completionTime
      /\ simulation'.nodesRunning = simulation.nodesRunning
  BY <1>1 DEF Delete, Object
<1>6. faults' \in 0..MaxFaults
  BY <1>1, FaultStep DEF Delete
<1>10. StartIsKnown'
  <2>1. \A d \in Controllers : seen'[d].object = seen[d].object /\ copy'[d].object = copy[d].object
    BY <1>1 DEF Delete, Superseded, Snapshot
  <2> QED
    BY <1>2, <1>5, <2>1 DEF IInv, TypeOK, StartIsKnown, HasStart
<1>7. TypeOK'
  BY <1>2, <1>4, <1>5, <1>6, <1>10 DEF IInv, TypeOK
<1>8. Sane' /\ ResourcesAreThere' /\ FailedWithoutNodes'
  BY <1>2, <1>5 DEF IInv, Sane, ResourcesAreThere, FailedWithoutNodes
<1>9. Copies' /\ Caches' /\ Made'
  BY <1>2, <1>4 DEF IInv, Copies, Caches, Made
<1> QED
  BY <1>7, <1>8, <1>9 DEF IInv

(* Every step preserves the invariant.                                     *)
LEMMA NextKeeps == IInv /\ [Next]_vars => IInv'
<1> SUFFICES ASSUME IInv, [Next]_vars PROVE IInv'
  OBVIOUS
<1>1. ASSUME NEW c \in Controllers, Step(c)
      PROVE  IInv'
  <2>1. CASE Reconcile(c)
    BY <2>1, ReconcileStep
  <2>2. CASE UpdateStatus(c)
    BY <2>2, UpdateStep
  <2>3. CASE Conflict(c)
    BY <2>3, ConflictStep
  <2>4. ASSUME NEW r \in Resources, CreateResource(c, r) \/ KeepResource(c, r)
        PROVE  IInv'
    <3> HIDE DEF Resources
    <3> QED
      BY <2>4, CreateStep, KeepStep
  <2>5. CASE CheckNodes(c)
    BY <2>5, CheckStep
  <2> QED
    BY <1>1, <2>1, <2>2, <2>3, <2>4, <2>5 DEF Step
<1>2. ASSUME NEW c \in Controllers, RequestFails(c) \/ Crash(c)
      PROVE  IInv'
  BY <1>2, ConflictStep, CrashStep
<1>3. CASE Delete
  BY <1>3, DeleteStep
<1>4. CASE UNCHANGED vars
  <2>1. UNCHANGED <<simulation, resources, ready, now, seen, view, seenReady, copy, queued, pc, faults, removed>>
    BY <1>4 DEF vars, cluster, caches, work
  <2>2. TypeOK' /\ Existed' = Existed /\ Caches'
    BY <2>1 DEF IInv, TypeOK, StartIsKnown, HasStart, Existed, Caches
  <2>3. now' >= now
    <3>1. now \in Nat
      BY DEF IInv, TypeOK
    <3>2. now' = now
      BY <2>1
    <3>3. now \in Int
      BY <3>1
    <3> QED
      BY <3>2, <3>3, NotBefore
  <2> QED
    BY <2>1, <2>2, <2>3, Kept DEF IInv, Made
<1> HIDE DEF Resources
<1> QED
  BY <1>1, <1>2, <1>3, <1>4, EnvironmentStep DEF Next

(* The invariant holds of every behaviour.                                 *)
LEMMA Invariant == Spec => []IInv
<1>1. Init => IInv
  BY Starts
<1>2. IInv /\ [Next]_vars => IInv'
  BY NextKeeps
<1> QED
  BY <1>1, <1>2, PTL DEF Spec

(* Types: whatever lags, fails or runs twice, what is stored, cached or    *)
(* worked on of a simulation that was started has the start time that      *)
(* handleRunningPhase dereferences.                                        *)
THEOREM ControllerTypes == Spec => []TypeOK
<1>1. IInv => TypeOK
  BY DEF IInv
<1> QED
  BY <1>1, Invariant, PTL

(* A simulation whose phase says Running, or that ended, has its config    *)
(* map, its services and its stateful set, but for those somebody removed. *)
THEOREM ResourcesMade == Spec => []ResourcesAreThere
<1>1. IInv => ResourcesAreThere
  BY DEF IInv
<1> QED
  BY <1>1, Invariant, PTL

(* A simulation is failed with the count of no nodes that made it fail.    *)
THEOREM FailedCounted == Spec => []FailedWithoutNodes
<1>1. IInv => FailedWithoutNodes
  BY DEF IInv
<1> QED
  BY <1>1, Invariant, PTL

(* What a step does to the stored simulation: nothing, marking it, or the  *)
(* write of a current copy.                                                *)
LEMMA WhoWrites ==
  ASSUME [Next]_vars
  PROVE  \/ UNCHANGED simulation
         \/ simulation' = [simulation EXCEPT !.deleting = TRUE]
         \/ \E c \in Controllers : UpdateStatus(c)
BY DEF Next, Step, Watch, Reconcile, Conflict, CreateResource, KeepResource, CheckNodes,
       WatchSimulation, WatchResources, RequestFails, Crash, ResourceDeleted, NodesStart, NodesFail,
       Delete, Tick, vars, cluster

(* What an accepted write changes: the phase goes forward, and the times   *)
(* are set once.                                                           *)
LEMMA WhatIsWritten ==
  ASSUME IInv, NEW c \in Controllers, UpdateStatus(c)
  PROVE  /\ simulation'.phase # simulation.phase =>
              \/ simulation'.phase \in Follows(simulation.phase)
              \/ simulation'.phase = "Terminating" /\ simulation.deleting
         /\ simulation.startTime # Unset => simulation'.startTime = simulation.startTime
         /\ simulation.completionTime # Unset => simulation'.completionTime = simulation.completionTime
<1> DEFINE w == copy[c].object
<1>1. w \in Object /\ simulation \in Object /\ Sane
  BY DEF IInv, TypeOK, Snapshot
<1>2. Basis(c) /\ simulation' = w /\ pc[c] \in {"claim", "start", "counted", "end"}
  BY DEF UpdateStatus, Accepted, IInv, Copies
<1> DEFINE Kind == \/ Claiming(w) \/ Ending(w)
                   \/ w = [simulation EXCEPT !.phase = "Running"] /\ simulation.phase \in {"Pending", "Running"}
                   \/ w = [simulation EXCEPT !.nodesRunning = w.nodesRunning]
<1>3. Kind
  BY <1>2 DEF Basis
<1> HIDE DEF w
<1>a. CASE Claiming(w)
  BY <1>1, <1>2, <1>a DEF Claiming, Sane, Follows
<1>b. CASE w = [simulation EXCEPT !.phase = "Running"] /\ simulation.phase \in {"Pending", "Running"}
  BY <1>1, <1>2, <1>b DEF Object, Follows
<1>c. CASE w = [simulation EXCEPT !.nodesRunning = w.nodesRunning]
  <2>1. w.phase = simulation.phase /\ w.startTime = simulation.startTime /\ w.completionTime = simulation.completionTime
    BY <1>1, <1>c DEF Object
  <2> QED
    BY <1>2, <2>1
<1>d. CASE simulation.deleting /\ w = [simulation EXCEPT !.phase = "Terminating"]
  BY <1>1, <1>2, <1>d DEF Object
<1>e. CASE /\ simulation.phase = "Running"
           /\ w = [simulation EXCEPT !.phase = "Completed", !.completionTime = w.completionTime]
  <2>1. w.phase = "Completed" /\ w.startTime = simulation.startTime
    BY <1>1, <1>e DEF Object
  <2> QED
    BY <1>1, <1>2, <1>e, <2>1 DEF Sane, Follows
<1>f. CASE simulation.phase = "Running" /\ w = [simulation EXCEPT !.phase = "Failed"]
  BY <1>1, <1>2, <1>f DEF Object, Follows
<1> QED
  BY <1>3, <1>a, <1>b, <1>c, <1>d, <1>e, <1>f DEF Ending

(* The stored phase only goes forward, for any number of controllers.      *)
THEOREM PhasesForward == Spec => PhasesGoForward
<1>1. ASSUME IInv, [Next]_vars
      PROVE  [simulation'.phase # simulation.phase =>
                \/ simulation'.phase \in Follows(simulation.phase)
                \/ simulation'.phase = "Terminating" /\ simulation.deleting]_vars
  <2>1. simulation \in Object
    BY <1>1 DEF IInv, TypeOK
  <2>2. CASE simulation' = [simulation EXCEPT !.deleting = TRUE]
    BY <2>1, <2>2 DEF Object
  <2> QED
    BY <1>1, <2>2, WhoWrites, WhatIsWritten
<1> QED
  BY <1>1, Invariant, PTL DEF Spec, PhasesGoForward

(* Start and end are stored once, and a simulation is completed only when  *)
(* its duration has passed since that start, less the part of a second     *)
(* that the stored completion loses.                                       *)
THEOREM TimesKept == Spec => TimesAreKept
<1>1. ASSUME IInv, IInv', [Next]_vars
      PROVE  [/\ simulation.startTime # Unset => simulation'.startTime = simulation.startTime
              /\ simulation.completionTime # Unset => simulation'.completionTime = simulation.completionTime
              /\ simulation'.phase = "Completed" =>
                   simulation'.completionTime - simulation'.startTime > Duration - Second]_vars
  <2>1. simulation \in Object
    BY <1>1 DEF IInv, TypeOK
  <2>2. simulation'.phase = "Completed" => simulation'.completionTime - simulation'.startTime > Duration - Second
    BY <1>1 DEF IInv, Sane
  <2>3. CASE simulation' = [simulation EXCEPT !.deleting = TRUE]
    BY <2>1, <2>2, <2>3 DEF Object
  <2> HIDE DEF Unset
  <2> QED
    BY <1>1, <2>2, <2>3, WhoWrites, WhatIsWritten
<1> QED
  BY <1>1, Invariant, NextKeeps, PTL DEF Spec, TimesAreKept
===============================================================================
