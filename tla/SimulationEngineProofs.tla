------------------------ MODULE SimulationEngineProofs ------------------------
(***************************************************************************)
(* Theorems about SimulationEngine, for any number of threads, events and   *)
(* callbacks: periodic callbacks keep up, no handler runs before its        *)
(* event's time, no event is lost or handed out twice, and one thread takes *)
(* them in order. Each theorem names what it takes of the clients.          *)
(***************************************************************************)
EXTENDS SimulationEngine, FiniteSetTheorems, SequenceTheorems, TLAPS

\* What the theorems take of the clients: callbacks do not throw (one that does
\* leaves itself behind), nobody initializes an engine in mid-run, one thread
\* schedules and runs, and no delay is negative.
CallbacksReturn == "callback" \notin Faults
NeverReset == "initialize" \notin Calls
OneUser == \A t, u \in Threads : t = u
DelaysForward == Delays \subseteq Nat

(***************************************************************************)
(* The inductive invariants.                                               *)
(***************************************************************************)

\* The code that runs under mutex_: the loop over the callbacks, a callback,
\* Actor::initialize, and what the latter two call.
Locked(t) ==
  \/ pc[t] \in {"callbacks", "callback", "spin", "init"}
  \/ pc[t] = "schedule" /\ local[t].back \in {"callback", "init"}

Exclusion == \A t \in Threads : Locked(t) <=> mutex = t

Structure == TypeOK /\ Exclusion

\* Only a thread in the loop over the callbacks leaves some behind: those it has
\* not come to.
InCallbacks(t) ==
  \/ pc[t] \in {"callbacks", "callback", "spin"}
  \/ pc[t] = "schedule" /\ local[t].back = "callback"

BehindOnlyInLoop ==
  \A i \in DOMAIN callbacks : callbacks[i].interval > 0 =>
    /\ callbacks[i].next_call <= clock + callbacks[i].interval
    /\ \/ clock < callbacks[i].next_call
       \/ \E t \in Threads : InCallbacks(t) /\ local[t].cb <= i

\* From taking an event to the end of its handler.
HasEvent(t) ==
  \/ pc[t] \in {"callbacks", "callback", "spin", "process"}
  \/ pc[t] = "schedule" /\ local[t].back \in {"callback", "process"}

ClockReached == \A t \in Threads : HasEvent(t) => clock >= local[t].event.timestamp

\* The three places an event can be in, and that no id is in one of them twice.
Queued(id) == \E e \in event_queue : e.id = id
OnItsWay(id) == \E t \in Threads : local[t].scheduled.id = id
Taken(id) == \E i \in DOMAIN popped : popped[i].id = id

NoTwins ==
  /\ \A e, f \in event_queue : e.id = f.id => e = f
  /\ \A t, u \in Threads : local[t].scheduled.id = local[u].scheduled.id
                             => t = u \/ local[t].scheduled.id = MaxEvents
  /\ \A i, j \in DOMAIN popped : popped[i].id = popped[j].id => i = j

InOnePlace ==
  /\ \A id \in 0..next_id - 1 :
       \/ Queued(id) /\ ~OnItsWay(id) /\ ~Taken(id)
       \/ ~Queued(id) /\ OnItsWay(id) /\ ~Taken(id)
       \/ ~Queued(id) /\ ~OnItsWay(id) /\ Taken(id)
  /\ \A e \in event_queue : e.id < next_id
  /\ \A i \in DOMAIN popped : popped[i].id < next_id
  /\ \A t \in Threads : IF pc[t] = "schedule" THEN local[t].scheduled.id < next_id
                                              ELSE local[t].scheduled = NoEvent

\* An event still to be taken comes after all that were, and is not in the past.
Later(e) ==
  /\ e.timestamp >= clock
  /\ e.id < next_id
  /\ \A i \in DOMAIN popped : Before(popped[i], e)

InTurn ==
  /\ InOrder
  /\ \A i \in DOMAIN popped : popped[i].timestamp <= clock /\ popped[i].id < next_id
  /\ \A e \in event_queue : Later(e)
  /\ \A t \in Threads : pc[t] = "schedule" => Later(local[t].scheduled)

(***************************************************************************)
(* Steps.                                                                  *)
(***************************************************************************)

\* What one thread may do.
Step(t) ==
  \/ \E end \in Int : t \in Runners /\ Run(t, end)
  \/ RegisterActor(t) \/ Registered(t)
  \/ \E i \in Intervals : AddPeriodicCallback(t, i)
  \/ "initialize" \in Calls /\ Initialize(t)
  \/ \E d \in Delays : Construct(t, d)
  \/ Throw(t)
  \/ Schedule(t)
  \/ Loop(t) \/ ConditionHolds(t) \/ NoMoreEvents(t) \/ CheckEnd(t)
  \/ NextEvent(t)
  \/ CallCallback(t) \/ CallbackReturns(t)
  \/ Process(t) \/ Processed(t)
  \/ Stop(t)
  \/ Spin(t)

\* Every step of the engine is one of these, by one thread.
LEMMA NextSteps ==
  ASSUME TypeOK, Next
  PROVE  \E t \in Threads : Step(t)
<1>1. PICK t \in Threads : Client(t) \/ Application(t) \/ Proceed(t)
  BY DEF Next
<1>2. CASE Client(t)
  <2>1. \A d \in Durations : clock + d \in Int
    BY EngineAssumption DEF TypeOK
  <2>2. NoEnd \in Int
    BY DEF NoEnd
  <2>. QED  BY <1>2, <2>1, <2>2 DEF Client, Step
<1>3. CASE Application(t)
  BY <1>3 DEF Application, Step
<1>4. CASE Proceed(t)
  BY <1>4 DEF Proceed, Step
<1>. QED  BY <1>1, <1>2, <1>3, <1>4

(***************************************************************************)
(* Types, return addresses, and the lock.                                  *)
(***************************************************************************)

\* Division rounds down.
LEMMA DivisionBounds ==
  ASSUME NEW x \in Int, NEW k \in Nat, k > 0
  PROVE  /\ x \div k \in Int
         /\ k * (x \div k) <= x
         /\ x < k * (x \div k) + k
OBVIOUS

\* The catching up of a callback adds a whole number of intervals, and as many
\* as bring the next call past the clock but no more than one interval past it.
LEMMA CatchUpProperties ==
  ASSUME clock \in Nat, NEW cb \in PeriodicCallback, cb.interval > 0
  PROVE  /\ CatchUp(cb) \in PeriodicCallback
         /\ CatchUp(cb).interval = cb.interval
         /\ clock < CatchUp(cb).next_call
         /\ CatchUp(cb).next_call <= clock + cb.interval
<1> DEFINE n == cb.next_call
           k == cb.interval
           d == (clock - n) \div k
<1>0. n \in Int /\ k \in Intervals
  BY DEF PeriodicCallback
<1>1. n \in Int /\ k \in Nat /\ k > 0 /\ clock - n \in Int
  <2>1. k \in Nat
    BY <1>0, EngineAssumption
  <2>. QED  BY <1>0, <2>1
<1>2. d \in Int /\ k * d <= clock - n /\ clock - n < k * d + k
  BY <1>1, DivisionBounds
<1>3. CatchUp(cb) = [interval |-> k, next_call |-> n + k * (d + 1)]
  BY DEF CatchUp, PeriodicCallback
<1>. HIDE DEF n, k, d
<1>4. k * (d + 1) = k * d + k /\ k * d \in Int
  BY <1>1, <1>2
<1>. QED  BY <1>0, <1>1, <1>2, <1>3, <1>4 DEF PeriodicCallback, n, k

\* Assigning to an element of a vector, if there is one at the index.
LEMMA AssignProperties ==
  ASSUME NEW S, NEW s \in Seq(S), NEW i, NEW v, i \in DOMAIN s => v \in S
  PROVE  /\ [s EXCEPT ![i] = v] \in Seq(S)
         /\ DOMAIN [s EXCEPT ![i] = v] = DOMAIN s
         /\ \A j \in DOMAIN s : [s EXCEPT ![i] = v][j] = IF j = i THEN v ELSE s[j]
<1>1. CASE i \in DOMAIN s
  BY <1>1, ExceptSeq
<1>2. CASE i \notin DOMAIN s
  <2>1. [s EXCEPT ![i] = v] = s
    BY <1>2, LenProperties
  <2>. QED  BY <1>2, <2>1
<1>. QED  BY <1>1, <1>2

\* Every action keeps the types, and what runs under the lock is run by its owner.
LEMMA StructureKeeps ==
  ASSUME Structure, NEW t \in Threads, Step(t)
  PROVE  Structure'
<1> USE DEF Structure, Goto
<1>0. /\ t # NoThread /\ NoEvent \in Event /\ NoLocal \in Local /\ NoLocal.back = "idle"
      /\ Sources \subseteq Labels /\ local[t] \in Local
  <2>1. t # NoThread /\ Sources \subseteq Labels
    BY EngineAssumption DEF Labels
  <2>2. NoEvent \in Event
    BY EngineAssumption DEF NoEvent, Event
  <2>3. NoLocal \in Local /\ NoLocal.back = "idle"
    BY <2>2 DEF NoLocal, Local, NoEnd
  <2>. QED  BY <2>1, <2>2, <2>3 DEF TypeOK
<1>1. ASSUME NEW end \in Int, Run(t, end)
      PROVE  Structure'
  <2>1. TypeOK'
    BY <1>0, <1>1 DEF Run, TypeOK, Local, Labels
  <2>2. Exclusion'
    BY <1>1 DEF Run, TypeOK, Exclusion, Locked
  <2>. QED  BY <2>1, <2>2
<1>2. CASE RegisterActor(t) \/ Registered(t)
  <2>1. TypeOK'
    BY <1>0, <1>2 DEF RegisterActor, Registered, TypeOK, Labels
  <2>2. Exclusion'
    BY <1>2, EngineAssumption DEF RegisterActor, Registered, TypeOK, Exclusion, Locked
  <2>. QED  BY <2>1, <2>2
<1>3. ASSUME NEW i \in Intervals, AddPeriodicCallback(t, i)
      PROVE  Structure'
  <2>1. [interval |-> i, next_call |-> clock + i] \in PeriodicCallback
    BY EngineAssumption DEF TypeOK, PeriodicCallback
  <2>2. TypeOK'
    BY <1>3, <2>1, AppendProperties DEF AddPeriodicCallback, TypeOK
  <2>3. Exclusion'
    BY <1>3 DEF AddPeriodicCallback, Exclusion, Locked
  <2>. QED  BY <2>2, <2>3
<1>4. CASE Initialize(t)
  <2>1. TypeOK'
    BY <1>4, EmptySeq DEF Initialize, TypeOK
  <2>2. Exclusion'
    BY <1>4 DEF Initialize, Exclusion, Locked
  <2>. QED  BY <2>1, <2>2
<1>5. ASSUME NEW d \in Delays, Construct(t, d)
      PROVE  Structure'
  <2> DEFINE e == [timestamp |-> clock + d, id |-> next_id]
  <2>1. e \in Event /\ next_id + 1 \in 0..MaxEvents
    BY <1>5, EngineAssumption DEF Construct, TypeOK, Event
  <2> DEFINE l == [local[t] EXCEPT !.scheduled = e, !.back = pc[t]]
  <2>2. local' = [local EXCEPT ![t] = l]
    BY <1>5 DEF Construct, TypeOK
  <2>. HIDE DEF e
  <2>3. l \in Local /\ l.back = pc[t]
    <3>1. pc[t] \in Sources
      BY <1>5 DEF Construct
    <3>. QED  BY <1>0, <2>1, <3>1 DEF Local
  <2>. HIDE DEF l
  <2>4. TypeOK'
    BY <1>5, <2>1, <2>2, <2>3 DEF Construct, TypeOK, Labels
  <2>5. Exclusion'
    BY <1>0, <1>5, <2>2, <2>3, EngineAssumption DEF Construct, TypeOK, Exclusion, Locked
  <2>. QED  BY <2>4, <2>5
<1>6. CASE Throw(t)
  <2>1. TypeOK'
    BY <1>0, <1>6, EngineAssumption DEF Throw, TypeOK, Labels
  <2>2. Exclusion'
    BY <1>0, <1>6, EngineAssumption DEF Throw, TypeOK, Exclusion, Locked
  <2>. QED  BY <2>1, <2>2
<1>7. CASE Schedule(t)
  <2> DEFINE l == [local[t] EXCEPT !.scheduled = NoEvent, !.back = "idle"]
  <2>1. local' = [local EXCEPT ![t] = l] /\ l \in Local /\ l.back = "idle"
    BY <1>0, <1>7 DEF Schedule, TypeOK, Local
  <2>2. local[t].scheduled \in Event /\ local[t].back \in Sources \cup {"idle"}
    BY <1>0, <1>7 DEF Schedule, Local
  <2>. HIDE DEF l
  <2>3. TypeOK'
    <3>1. local[t].back \in Labels
      BY <1>0, <2>2 DEF Labels
    <3>. QED  BY <1>7, <2>1, <2>2, <3>1 DEF Schedule, TypeOK
  <2>4. local[t].back \in {"idle", "process"}
    <3>1. ~Locked(t)
      BY <1>0, <1>7 DEF Schedule, Exclusion
    <3>. QED  BY <1>7, <2>2, <3>1, EngineAssumption DEF Schedule, Locked
  <2>5. Exclusion'
    BY <1>0, <1>7, <2>1, <2>4 DEF Schedule, TypeOK, Exclusion, Locked
  <2>. QED  BY <2>3, <2>5
<1>8. CASE Loop(t) \/ ConditionHolds(t) \/ NoMoreEvents(t) \/ CheckEnd(t)
  <2>1. TypeOK'
    BY <1>8 DEF Loop, ConditionHolds, NoMoreEvents, CheckEnd, TypeOK, Labels
  <2>2. Exclusion'
    BY <1>8 DEF Loop, ConditionHolds, NoMoreEvents, CheckEnd, TypeOK, Exclusion, Locked
  <2>. QED  BY <2>1, <2>2
<1>9. CASE NextEvent(t)
  <2>1. PICK e \in event_queue :
          /\ event_queue' = event_queue \ {e}
          /\ clock' = AdvanceTo(e.timestamp)
          /\ local' = [local EXCEPT ![t].event = e, ![t].cb = 1]
          /\ popped' = Append(popped, e)
    BY <1>9 DEF NextEvent
  <2>2. e \in Event /\ popped' \in Seq(Event)
    BY <2>1, AppendProperties DEF TypeOK
  <2>3. clock' \in Nat
    <3>1. e.timestamp \in Int
      BY <2>2 DEF Event
    <3>. QED  BY <2>1, <3>1 DEF AdvanceTo, TypeOK
  <2> DEFINE l == [local[t] EXCEPT !.event = e, !.cb = 1]
  <2>4. local' = [local EXCEPT ![t] = l] /\ l \in Local /\ l.back = local[t].back
    BY <1>0, <2>1, <2>2 DEF Local, TypeOK
  <2>. HIDE DEF l
  <2>5. /\ pc[t] = "next" /\ mutex = NoThread /\ mutex' = t
        /\ pc' = [pc EXCEPT ![t] = "callbacks"]
        /\ UNCHANGED <<next_id, callbacks, is_running>>
    BY <1>9 DEF NextEvent
  <2>6. TypeOK'
    BY <2>1, <2>2, <2>3, <2>4, <2>5 DEF TypeOK, Labels
  <2>7. Exclusion'
    BY <1>0, <2>4, <2>5, EngineAssumption DEF TypeOK, Exclusion, Locked
  <2>. QED  BY <2>6, <2>7
<1>10. CASE CallCallback(t)
  <2>1. PICK i \in DueFrom(t) : local' = [local EXCEPT ![t].cb = i]
    BY <1>10 DEF CallCallback
  <2>2. i \in Nat
    BY <2>1 DEF DueFrom, TypeOK
  <2> DEFINE l == [local[t] EXCEPT !.cb = i]
  <2>3. local' = [local EXCEPT ![t] = l] /\ l \in Local /\ l.back = local[t].back
    BY <1>0, <2>1, <2>2 DEF Local, TypeOK
  <2>. HIDE DEF l
  <2>4. TypeOK'
    BY <1>10, <2>3 DEF CallCallback, TypeOK, Labels
  <2>5. Exclusion'
    BY <1>0, <1>10, <2>3 DEF CallCallback, TypeOK, Exclusion, Locked
  <2>. QED  BY <2>4, <2>5
<1>11. CASE CallbackReturns(t)
  <2> DEFINE i == local[t].cb
             l == [local[t] EXCEPT !.cb = i + 1]
  <2>1. i \in Nat /\ l \in Local /\ l.back = local[t].back
    BY <1>0 DEF Local
  <2>2. CASE /\ callbacks[i].interval > 0
             /\ callbacks' = [callbacks EXCEPT ![i] = CatchUp(@)]
             /\ local' = [local EXCEPT ![t].cb = i + 1]
             /\ pc' = [pc EXCEPT ![t] = "callbacks"]
    <3>1. local' = [local EXCEPT ![t] = l]
      BY <2>2
    <3>2. callbacks' \in Seq(PeriodicCallback)
      <4> DEFINE v == CatchUp(callbacks[i])
      <4>1. callbacks' = [callbacks EXCEPT ![i] = v]
        BY <2>2
      <4>2. i \in DOMAIN callbacks => v \in PeriodicCallback
        BY <2>2, CatchUpProperties DEF TypeOK
      <4>. HIDE DEF v, i
      <4>. QED  BY <4>1, <4>2, AssignProperties DEF TypeOK
    <3>. HIDE DEF i, l
    <3>3. TypeOK'
      BY <1>11, <2>1, <2>2, <3>1, <3>2 DEF CallbackReturns, TypeOK, Labels
    <3>4. Exclusion'
      BY <1>0, <1>11, <2>1, <2>2, <3>1 DEF CallbackReturns, TypeOK, Exclusion, Locked
    <3>. QED  BY <3>3, <3>4
  <2>3. CASE pc' = [pc EXCEPT ![t] = "spin"] /\ UNCHANGED <<callbacks, local>>
    <3>1. TypeOK'
      BY <1>11, <2>3 DEF CallbackReturns, TypeOK, Labels
    <3>2. Exclusion'
      BY <1>0, <1>11, <2>3 DEF CallbackReturns, TypeOK, Exclusion, Locked
    <3>. QED  BY <3>1, <3>2
  <2>. QED  BY <1>11, <2>2, <2>3 DEF CallbackReturns
<1>12. CASE Process(t)
  <2> DEFINE l == [local[t] EXCEPT !.cb = 1]
  <2>1. local' = [local EXCEPT ![t] = l] /\ l \in Local /\ l.back = local[t].back
    BY <1>0, <1>12 DEF Process, Local, TypeOK
  <2>. HIDE DEF l
  <2>2. TypeOK'
    BY <1>12, <2>1 DEF Process, TypeOK, Labels
  <2>3. Exclusion'
    BY <1>0, <1>12, <2>1, EngineAssumption DEF Process, TypeOK, Exclusion, Locked
  <2>. QED  BY <2>2, <2>3
<1>13. CASE Processed(t)
  <2> DEFINE l == [local[t] EXCEPT !.event = NoEvent]
  <2>1. local' = [local EXCEPT ![t] = l] /\ l \in Local /\ l.back = local[t].back
    BY <1>0, <1>13 DEF Processed, Local, TypeOK
  <2>. HIDE DEF l
  <2>2. TypeOK'
    BY <1>13, <2>1 DEF Processed, TypeOK, Labels
  <2>3. Exclusion'
    BY <1>0, <1>13, <2>1 DEF Processed, TypeOK, Exclusion, Locked
  <2>. QED  BY <2>2, <2>3
<1>14. CASE Stop(t)
  <2>1. TypeOK'
    BY <1>0, <1>14 DEF Stop, TypeOK, Labels
  <2>2. Exclusion'
    BY <1>0, <1>14 DEF Stop, TypeOK, Exclusion, Locked
  <2>. QED  BY <2>1, <2>2
<1>15. CASE Spin(t)
  BY <1>15 DEF Spin, vars, TypeOK, Exclusion, Locked
<1>. QED
  BY <1>1, <1>2, <1>3, <1>4, <1>5, <1>6, <1>7, <1>8, <1>9, <1>10, <1>11, <1>12, <1>13,
     <1>14, <1>15 DEF Step

\* A new engine has the types, and nobody in it.
LEMMA StructureInit == Init => Structure
<1> SUFFICES ASSUME Init PROVE Structure
  OBVIOUS
<1>1. NoLocal \in Local /\ NoLocal.back = "idle"
  BY EngineAssumption DEF NoLocal, Local, NoEnd, NoEvent, Event
<1>2. TypeOK
  <2>1. next_id \in 0..MaxEvents /\ clock \in Nat
    BY EngineAssumption DEF Init
  <2>. QED  BY <1>1, <2>1, EmptySeq DEF Init, TypeOK, Labels
<1>3. Exclusion
  BY EngineAssumption DEF Init, Exclusion, Locked
<1>. QED  BY <1>2, <1>3 DEF Structure

\* Whatever the clients do, every variable of the engine keeps its type, and the
\* code that runs under mutex_ is run by the thread that owns it.
THEOREM EngineStructure == Spec => []Structure
<1>1. Structure /\ [Next]_vars => Structure'
  <2> SUFFICES ASSUME Structure, [Next]_vars PROVE Structure'
    OBVIOUS
  <2>1. CASE Next
    BY <2>1, NextSteps, StructureKeeps DEF Structure
  <2>2. CASE UNCHANGED vars
    BY <2>2 DEF vars, Structure, TypeOK, Exclusion, Locked
  <2>. QED  BY <2>1, <2>2
<1>. QED  BY <1>1, StructureInit, PTL DEF Spec

(***************************************************************************)
(* Periodic callbacks.                                                     *)
(***************************************************************************)

\* Steps that leave the clock, the callbacks and who is in the loop over them.
LEMMA BehindUntouched ==
  ASSUME Structure, BehindOnlyInLoop, UNCHANGED <<clock, callbacks>>,
         \A t \in Threads : InCallbacks(t) => InCallbacks(t)' /\ local'[t].cb = local[t].cb
  PROVE  BehindOnlyInLoop'
BY DEF BehindOnlyInLoop, InCallbacks

\* The callbacks and the clock that the catching up works on.
LEMMA CallbackTypes ==
  ASSUME TypeOK, NEW i \in DOMAIN callbacks
  PROVE  /\ clock \in Nat
         /\ callbacks[i] \in PeriodicCallback
         /\ callbacks[i].interval \in Nat /\ callbacks[i].next_call \in Int
<1>1. callbacks[i] \in PeriodicCallback
  BY DEF TypeOK
<1>2. callbacks[i].interval \in Intervals /\ callbacks[i].next_call \in Int
  BY <1>1 DEF PeriodicCallback
<1>. QED  BY <1>1, <1>2, EngineAssumption DEF TypeOK

\* Every action leaves behind no callback but those the loop will come to: taking an
\* event starts the loop, and the loop ends when none is due.
LEMMA BehindKeeps ==
  ASSUME Structure, BehindOnlyInLoop, CallbacksReturn, NEW t \in Threads, Step(t)
  PROVE  BehindOnlyInLoop'
<1> USE DEF Goto
<1>0. TypeOK /\ Exclusion
  BY DEF Structure
<1>1. CASE UNCHANGED <<clock, callbacks>> /\ ~InCallbacks(t)
             /\ \A u \in Threads \ {t} : pc'[u] = pc[u] /\ local'[u] = local[u]
  BY <1>1, BehindUntouched DEF InCallbacks
<1>2. ASSUME NEW end \in Int, Run(t, end)
      PROVE  BehindOnlyInLoop'
  BY <1>0, <1>1, <1>2 DEF Run, InCallbacks, TypeOK
<1>3. CASE RegisterActor(t) \/ Registered(t)
  BY <1>0, <1>1, <1>3 DEF RegisterActor, Registered, InCallbacks, TypeOK
<1>4. ASSUME NEW k \in Intervals, AddPeriodicCallback(t, k)
      PROVE  BehindOnlyInLoop'
  <2> DEFINE c == [interval |-> k, next_call |-> clock + k]
  <2>1. /\ callbacks' = Append(callbacks, c) /\ UNCHANGED <<clock, pc, local>>
    BY <1>4 DEF AddPeriodicCallback
  <2>2. k \in Nat /\ clock \in Nat /\ callbacks \in Seq(PeriodicCallback) /\ c \in PeriodicCallback
    BY <1>0, EngineAssumption DEF TypeOK, PeriodicCallback
  <2>3. c.interval = k /\ c.next_call = clock + k
    OBVIOUS
  <2>. HIDE DEF c
  <2>4. \A i \in DOMAIN callbacks' : \/ i \in DOMAIN callbacks /\ callbacks'[i] = callbacks[i]
                                     \/ callbacks'[i] = c
    BY <2>1, <2>2, AppendProperties, LenProperties
  <2>5. \A i \in DOMAIN callbacks' : callbacks'[i].interval > 0 =>
          /\ callbacks'[i].next_call <= clock' + callbacks'[i].interval
          /\ \/ clock' < callbacks'[i].next_call
             \/ \E u \in Threads : InCallbacks(u) /\ local[u].cb <= i
    BY <2>1, <2>2, <2>3, <2>4 DEF BehindOnlyInLoop
  <2>. QED  BY <2>1, <2>5 DEF BehindOnlyInLoop, InCallbacks
<1>5. CASE Initialize(t)
  BY <1>5 DEF Initialize, BehindOnlyInLoop
<1>6. ASSUME NEW d \in Delays, Construct(t, d)
      PROVE  BehindOnlyInLoop'
  <2>1. /\ UNCHANGED <<clock, callbacks>> /\ local'[t].cb = local[t].cb /\ local'[t].back = pc[t]
        /\ pc' = [pc EXCEPT ![t] = "schedule"]
        /\ \A u \in Threads \ {t} : local'[u] = local[u]
        /\ pc[t] \in Sources
    BY <1>0, <1>6 DEF Construct, TypeOK, Local
  <2>2. InCallbacks(t) => pc[t] = "callback"
    BY <2>1, EngineAssumption DEF InCallbacks
  <2>. QED  BY <1>0, <2>1, <2>2, BehindUntouched DEF InCallbacks, TypeOK
<1>7. CASE Throw(t)
  <2>1. ~InCallbacks(t)
    BY <1>7, EngineAssumption DEF Throw, InCallbacks, CallbacksReturn
  <2>. QED  BY <1>0, <1>1, <1>7, <2>1 DEF Throw, TypeOK
<1>8. CASE Schedule(t)
  <2>1. ~InCallbacks(t)
    BY <1>0, <1>8, EngineAssumption DEF Schedule, Exclusion, Locked, InCallbacks
  <2>. QED  BY <1>0, <1>1, <1>8, <2>1 DEF Schedule, TypeOK
<1>9. CASE Loop(t) \/ ConditionHolds(t) \/ NoMoreEvents(t) \/ CheckEnd(t)
  BY <1>0, <1>1, <1>9 DEF Loop, ConditionHolds, NoMoreEvents, CheckEnd, InCallbacks, TypeOK
<1>10. CASE NextEvent(t)
  <2>1. PICK e \in event_queue :
          /\ clock' = AdvanceTo(e.timestamp)
          /\ local' = [local EXCEPT ![t].event = e, ![t].cb = 1]
    BY <1>10 DEF NextEvent
  <2>2. e.timestamp \in Int
    BY <1>0 DEF TypeOK, Event
  <2>3. clock \in Nat /\ clock' \in Nat /\ clock <= clock'
    BY <1>0, <2>1, <2>2 DEF AdvanceTo, TypeOK
  <2>4. InCallbacks(t)' /\ local'[t].cb = 1 /\ UNCHANGED callbacks
    BY <1>0, <1>10, <2>1 DEF NextEvent, InCallbacks, TypeOK, Local
  <2>5. \A u \in Threads : ~InCallbacks(u)
    BY <1>0, <1>10, EngineAssumption DEF NextEvent, Exclusion, Locked, InCallbacks
  <2>6. \A i \in DOMAIN callbacks : 1 <= i
    BY <1>0 DEF TypeOK
  <2>7. ASSUME NEW i \in DOMAIN callbacks, callbacks[i].interval > 0
        PROVE  callbacks[i].next_call <= clock' + callbacks[i].interval
    <3>1. callbacks[i].interval \in Nat /\ callbacks[i].next_call \in Int
      BY <1>0, CallbackTypes
    <3>. QED  BY <2>3, <2>7, <3>1 DEF BehindOnlyInLoop
  <2>. QED  BY <2>4, <2>6, <2>7 DEF BehindOnlyInLoop
<1>11. CASE CallCallback(t)
  <2>1. PICK i \in DueFrom(t) : (\A j \in DueFrom(t) : i <= j) /\ local' = [local EXCEPT ![t].cb = i]
    BY <1>11 DEF CallCallback
  <2>2. InCallbacks(t)' /\ InCallbacks(t) /\ local'[t].cb = i /\ UNCHANGED <<clock, callbacks>>
    BY <1>0, <1>11, <2>1 DEF CallCallback, InCallbacks, TypeOK, Local
  <2>3. \A u \in Threads : InCallbacks(u) => u = t
    BY <1>0, <2>2 DEF Exclusion, Locked, InCallbacks
  <2>4. ASSUME NEW j \in DOMAIN callbacks, callbacks[j].interval > 0, ~(clock < callbacks[j].next_call)
        PROVE  i <= j
    <3>1. local[t].cb <= j
      BY <2>3, <2>4 DEF BehindOnlyInLoop
    <3>2. callbacks[j].next_call \in Int /\ clock \in Nat /\ j \in Nat /\ local[t].cb \in Nat
      BY <1>0, CallbackTypes DEF TypeOK, Local
    <3>3. j \in DueFrom(t)
      BY <2>4, <3>1, <3>2 DEF DueFrom, Due
    <3>. QED  BY <2>1, <3>3
  <2>. QED  BY <2>2, <2>4 DEF BehindOnlyInLoop
<1>12. CASE CallbackReturns(t)
  <2> DEFINE i == local[t].cb
  <2>1. /\ pc[t] = "callback" /\ UNCHANGED <<clock, mutex>> /\ i \in Nat
        /\ \A u \in Threads : InCallbacks(u) => u = t
    BY <1>0, <1>12 DEF CallbackReturns, Exclusion, Locked, InCallbacks, TypeOK, Local
  <2>2. CASE /\ callbacks[i].interval > 0
             /\ callbacks' = [callbacks EXCEPT ![i] = CatchUp(@)]
             /\ local' = [local EXCEPT ![t].cb = i + 1]
             /\ pc' = [pc EXCEPT ![t] = "callbacks"]
    <3> DEFINE v == CatchUp(callbacks[i])
    <3>1. InCallbacks(t)' /\ local'[t].cb = i + 1
      BY <1>0, <2>2 DEF InCallbacks, TypeOK, Local
    <3>2. callbacks' = [callbacks EXCEPT ![i] = v]
      BY <2>2
    <3>3. i \in DOMAIN callbacks =>
            /\ v \in PeriodicCallback
            /\ clock < v.next_call /\ v.next_call <= clock + v.interval
      BY <1>0, <2>2, CallbackTypes, CatchUpProperties
    <3>. HIDE DEF i, v
    <3>4. /\ DOMAIN callbacks' = DOMAIN callbacks
          /\ \A j \in DOMAIN callbacks : callbacks'[j] = IF j = i THEN v ELSE callbacks[j]
      BY <1>0, <3>2, <3>3, AssignProperties DEF TypeOK
    <3>5. ASSUME NEW j \in DOMAIN callbacks, callbacks[j].interval > 0, j # i
          PROVE  /\ callbacks[j].next_call <= clock + callbacks[j].interval
                 /\ clock < callbacks[j].next_call \/ i + 1 <= j
      <4>1. clock < callbacks[j].next_call \/ i <= j
        BY <2>1, <3>5 DEF BehindOnlyInLoop, i
      <4>2. j \in Nat
        BY <1>0 DEF TypeOK
      <4>. QED  BY <2>1, <3>5, <4>1, <4>2 DEF BehindOnlyInLoop
    <3>6. \A j \in DOMAIN callbacks' : callbacks'[j].interval > 0 =>
            /\ callbacks'[j].next_call <= clock + callbacks'[j].interval
            /\ clock < callbacks'[j].next_call \/ i + 1 <= j
      BY <3>3, <3>4, <3>5
    <3>. QED  BY <2>1, <3>1, <3>6 DEF BehindOnlyInLoop
  <2>3. CASE pc' = [pc EXCEPT ![t] = "spin"] /\ UNCHANGED <<callbacks, local>>
    BY <1>0, <2>1, <2>3, BehindUntouched DEF InCallbacks, TypeOK
  <2>. QED  BY <1>12, <2>2, <2>3 DEF CallbackReturns
<1>13. CASE Process(t)
  <2>1. /\ pc[t] = "callbacks" /\ DueFrom(t) = {} /\ UNCHANGED <<clock, callbacks>>
    BY <1>13 DEF Process
  <2>2. \A u \in Threads : InCallbacks(u) => u = t
    BY <1>0, <2>1 DEF Exclusion, Locked, InCallbacks
  <2>3. ASSUME NEW j \in DOMAIN callbacks, callbacks[j].interval > 0
        PROVE  clock < callbacks[j].next_call
    <3>1. callbacks[j].next_call \in Int /\ clock \in Nat
      BY <1>0, CallbackTypes
    <3>2. SUFFICES ASSUME ~(clock < callbacks[j].next_call) PROVE FALSE
      OBVIOUS
    <3>3. local[t].cb <= j
      BY <2>2, <2>3, <3>2 DEF BehindOnlyInLoop
    <3>4. local[t].cb \in Nat /\ j \in Nat
      BY <1>0 DEF TypeOK, Local
    <3>. QED  BY <2>1, <3>1, <3>2, <3>3, <3>4 DEF DueFrom, Due
  <2>. QED  BY <2>1, <2>3 DEF BehindOnlyInLoop
<1>14. CASE Processed(t)
  BY <1>0, <1>1, <1>14 DEF Processed, InCallbacks, TypeOK
<1>15. CASE Stop(t)
  BY <1>0, <1>1, <1>15 DEF Stop, InCallbacks, TypeOK
<1>16. CASE Spin(t)
  BY <1>16 DEF Spin, vars, BehindOnlyInLoop, InCallbacks
<1>. QED
  BY <1>2, <1>3, <1>4, <1>5, <1>6, <1>7, <1>8, <1>9, <1>10, <1>11, <1>12, <1>13, <1>14,
     <1>15, <1>16 DEF Step

\* Whatever is added or scheduled, and even if the engine is initialized in
\* mid-run, a periodic callback is never behind between two events, if callbacks
\* do not throw: the throw would leave the loop, and release the lock, before the
\* catching up.
THEOREM CallbacksAlwaysKeepUp == CallbacksReturn => (Spec => []CallbacksKeepUp)
<1> SUFFICES ASSUME CallbacksReturn PROVE Spec => []CallbacksKeepUp
  OBVIOUS
<1>1. Init => BehindOnlyInLoop
  BY DEF Init, BehindOnlyInLoop
<1>2. Structure /\ BehindOnlyInLoop /\ [Next]_vars => BehindOnlyInLoop'
  <2> SUFFICES ASSUME Structure, BehindOnlyInLoop, [Next]_vars PROVE BehindOnlyInLoop'
    OBVIOUS
  <2>1. CASE Next
    BY <2>1, NextSteps, BehindKeeps DEF Structure
  <2>2. CASE UNCHANGED vars
    BY <2>2 DEF vars, BehindOnlyInLoop, InCallbacks
  <2>. QED  BY <2>1, <2>2
<1>3. Structure /\ BehindOnlyInLoop => CallbacksKeepUp
  <2> SUFFICES ASSUME Structure, BehindOnlyInLoop, mutex = NoThread PROVE CallbacksKeepUp
    BY DEF CallbacksKeepUp
  <2>1. \A t \in Threads : ~InCallbacks(t)
    BY EngineAssumption DEF Structure, Exclusion, Locked, InCallbacks
  <2>. QED  BY <2>1 DEF BehindOnlyInLoop, CallbacksKeepUp
<1>. QED  BY <1>1, <1>2, <1>3, EngineStructure, PTL DEF Spec

(***************************************************************************)
(* The clock.                                                              *)
(***************************************************************************)

\* Unless the engine is initialized, its clock never goes back.
LEMMA ClockOnlyGrows ==
  ASSUME Structure, NeverReset, NEW t \in Threads, Step(t)
  PROVE  clock \in Nat /\ clock' \in Nat /\ clock <= clock'
<1>1. clock \in Nat
  BY DEF Structure, TypeOK
<1>2. CASE NextEvent(t)
  <2>1. PICK e \in event_queue : clock' = AdvanceTo(e.timestamp)
    BY <1>2 DEF NextEvent
  <2>2. e.timestamp \in Int
    BY DEF Structure, TypeOK, Event
  <2>. QED  BY <1>1, <2>1, <2>2 DEF AdvanceTo
<1>3. CASE ~NextEvent(t)
  <2>1. UNCHANGED clock
    BY <1>3 DEF Step, NeverReset, Run, RegisterActor, Registered, AddPeriodicCallback,
                Construct, Throw, Schedule, Loop, ConditionHolds, NoMoreEvents, CheckEnd,
                CallCallback, CallbackReturns, Process, Processed, Stop, Spin, vars
  <2>. QED  BY <1>1, <2>1
<1>. QED  BY <1>2, <1>3

\* No action but NextEvent gives a thread an event.
LEMMA EventKept ==
  ASSUME Structure, NEW t \in Threads, Step(t), ~NextEvent(t), NEW u \in Threads, HasEvent(u)'
  PROVE  HasEvent(u) /\ local'[u].event = local[u].event
<1> USE DEF Structure, Goto
<1>1. CASE \/ \E end \in Int : Run(t, end)
           \/ RegisterActor(t) \/ Registered(t) \/ Initialize(t)
           \/ \E i \in Intervals : AddPeriodicCallback(t, i)
  BY <1>1 DEF Run, RegisterActor, Registered, Initialize, AddPeriodicCallback, HasEvent, TypeOK, Local
<1>2. CASE \E d \in Delays : Construct(t, d)
  BY <1>2 DEF Construct, HasEvent, TypeOK, Local
<1>3. CASE Schedule(t)
  <2>1. local[t] \in Local /\ local[t].back \in {"idle", "process", "callback", "init"}
    BY EngineAssumption DEF TypeOK, Local
  <2>2. /\ pc' = [pc EXCEPT ![t] = local[t].back] /\ local'[u].event = local[u].event
        /\ pc[t] = "schedule" /\ (u # t => local'[u] = local[u])
    BY <1>3 DEF Schedule, TypeOK, Local
  <2>. QED  BY <2>1, <2>2 DEF HasEvent, TypeOK
<1>4. CASE Throw(t) \/ Stop(t)
  BY <1>4 DEF Throw, Stop, HasEvent, TypeOK
<1>5. CASE Loop(t) \/ ConditionHolds(t) \/ NoMoreEvents(t) \/ CheckEnd(t) \/ Spin(t)
  BY <1>5 DEF Loop, ConditionHolds, NoMoreEvents, CheckEnd, Spin, vars, HasEvent, TypeOK
<1>6. CASE CallCallback(t)
  BY <1>6 DEF CallCallback, HasEvent, TypeOK, Local
<1>7. CASE CallbackReturns(t)
  BY <1>7 DEF CallbackReturns, HasEvent, TypeOK, Local
<1>8. CASE Process(t)
  BY <1>8 DEF Process, HasEvent, TypeOK, Local
<1>9. CASE Processed(t)
  <2>1. /\ pc'[t] \in {"loop", "check"} /\ \A w \in Threads \ {t} : pc'[w] = pc[w]
        /\ \A w \in Threads \ {t} : local'[w] = local[w]
    BY <1>9 DEF Processed, TypeOK
  <2>. QED  BY <2>1 DEF HasEvent
<1>. QED  BY <1>1, <1>2, <1>3, <1>4, <1>5, <1>6, <1>7, <1>8, <1>9 DEF Step

\* The clock has reached the time of every event that is being processed.
LEMMA ClockKeeps ==
  ASSUME Structure, ClockReached, NeverReset, NEW t \in Threads, Step(t)
  PROVE  ClockReached'
<1> SUFFICES ASSUME NEW u \in Threads, HasEvent(u)'
             PROVE  clock' >= local'[u].event.timestamp
  BY DEF ClockReached
<1>1. clock \in Nat /\ clock' \in Nat /\ clock <= clock'
  BY ClockOnlyGrows
<1>2. \A w \in Threads : local[w].event.timestamp \in Int
  BY DEF Structure, TypeOK, Local, Event
<1>3. CASE ~NextEvent(t)
  <2>1. HasEvent(u) /\ local'[u].event = local[u].event
    BY <1>3, EventKept
  <2>. QED  BY <1>1, <1>2, <2>1 DEF ClockReached
<1>4. CASE NextEvent(t)
  <2>1. PICK e \in event_queue :
          /\ clock' = AdvanceTo(e.timestamp)
          /\ local' = [local EXCEPT ![t].event = e, ![t].cb = 1]
    BY <1>4 DEF NextEvent
  <2>2. pc' = [pc EXCEPT ![t] = "callbacks"]
    BY <1>4 DEF NextEvent, Goto
  <2>3. e.timestamp \in Int
    BY DEF Structure, TypeOK, Event
  <2>4. CASE u = t
    <3>1. local'[u].event = e
      BY <2>1, <2>4 DEF Structure, TypeOK, Local
    <3>. QED  BY <1>1, <2>1, <2>3, <3>1 DEF AdvanceTo
  <2>5. CASE u # t
    <3>1. local'[u] = local[u] /\ HasEvent(u)
      BY <2>1, <2>2, <2>5 DEF HasEvent, Structure, TypeOK
    <3>. QED  BY <1>1, <1>2, <3>1 DEF ClockReached
  <2>. QED  BY <2>4, <2>5
<1>. QED  BY <1>3, <1>4

\* However many threads run the engine and schedule for it, and whatever throws,
\* no handler runs before its event's time, if the engine is not initialized.
THEOREM HandlersNeverEarly == NeverReset => (Spec => []NeverEarly)
<1> SUFFICES ASSUME NeverReset PROVE Spec => []NeverEarly
  OBVIOUS
<1>1. Init => ClockReached
  BY DEF Init, ClockReached, HasEvent
<1>2. Structure /\ ClockReached /\ [Next]_vars => ClockReached'
  <2> SUFFICES ASSUME Structure, ClockReached, [Next]_vars PROVE ClockReached'
    OBVIOUS
  <2>1. CASE Next
    BY <2>1, NextSteps, ClockKeeps DEF Structure
  <2>2. CASE UNCHANGED vars
    BY <2>2 DEF vars, ClockReached, HasEvent
  <2>. QED  BY <2>1, <2>2
<1>3. ClockReached => NeverEarly
  BY DEF ClockReached, NeverEarly, HasEvent
<1>. QED  BY <1>1, <1>2, <1>3, EngineStructure, PTL DEF Spec

(***************************************************************************)
(* Events.                                                                 *)
(***************************************************************************)

\* The size of a set that has at most one element.
LEMMA AtMostOne ==
  ASSUME NEW S, \A x, y \in S : x = y
  PROVE  Cardinality(S) = IF S # {} THEN 1 ELSE 0
<1>1. CASE S = {}
  BY <1>1, FS_EmptySet
<1>2. ASSUME NEW x \in S
      PROVE  Cardinality(S) = 1
  <2>1. S = {x}
    OBVIOUS
  <2>. QED  BY <2>1, FS_Singleton
<1>. QED  BY <1>1, <1>2

Accounted == NoTwins /\ InOnePlace

\* Steps that move no event.
LEMMA NoEventMoves ==
  ASSUME Structure, NeverReset, NEW t \in Threads, Step(t),
         ~NextEvent(t), ~Schedule(t), \A d \in Delays : ~Construct(t, d), Accounted
  PROVE  /\ UNCHANGED <<event_queue, next_id, popped>>
         /\ \A u \in Threads : local'[u].scheduled = local[u].scheduled
         /\ \A u \in Threads : pc'[u] = "schedule" <=> pc[u] = "schedule"
<1> USE DEF Structure, Goto
<1>1. \A u \in Threads : local[u] \in Local
  BY DEF TypeOK
<1>2. CASE \/ RegisterActor(t) \/ Registered(t)
           \/ \E i \in Intervals : AddPeriodicCallback(t, i)
  BY <1>2 DEF RegisterActor, Registered, AddPeriodicCallback, TypeOK
<1>9. ASSUME NEW end \in Int, Run(t, end)
      PROVE  /\ UNCHANGED <<event_queue, next_id, popped>>
             /\ \A u \in Threads : local'[u].scheduled = local[u].scheduled
             /\ \A u \in Threads : pc'[u] = "schedule" <=> pc[u] = "schedule"
  BY <1>1, <1>9 DEF Run, TypeOK, Local
<1>3. CASE Throw(t) \/ Stop(t)
  <2>1. /\ UNCHANGED <<event_queue, next_id, popped>> /\ pc[t] # "schedule"
        /\ pc' = [pc EXCEPT ![t] = "idle"] /\ local' = [local EXCEPT ![t] = NoLocal]
    BY <1>3, EngineAssumption DEF Throw, Stop
  <2>2. local[t].scheduled = NoEvent /\ NoLocal.scheduled = NoEvent
    BY <2>1 DEF Accounted, InOnePlace, NoLocal
  <2>. QED  BY <2>1, <2>2 DEF TypeOK
<1>4. CASE Loop(t) \/ ConditionHolds(t) \/ NoMoreEvents(t) \/ CheckEnd(t) \/ Spin(t)
  BY <1>4 DEF Loop, ConditionHolds, NoMoreEvents, CheckEnd, Spin, vars, TypeOK
<1>5. CASE CallCallback(t)
  BY <1>1, <1>5 DEF CallCallback, TypeOK, Local
<1>6. CASE CallbackReturns(t)
  <2>1. /\ UNCHANGED <<event_queue, next_id, popped>> /\ pc[t] = "callback"
        /\ \/ local' = [local EXCEPT ![t].cb = local[t].cb + 1]
           \/ local' = local
        /\ \/ pc' = [pc EXCEPT ![t] = "callbacks"]
           \/ pc' = [pc EXCEPT ![t] = "spin"]
    BY <1>6 DEF CallbackReturns
  <2> DEFINE i == local[t].cb + 1
  <2>2. \A u \in Threads : local'[u].scheduled = local[u].scheduled
    <3>1. \/ local' = [local EXCEPT ![t].cb = i]
          \/ local' = local
      BY <2>1
    <3>. HIDE DEF i
    <3>2. ASSUME local' = [local EXCEPT ![t].cb = i], NEW u \in Threads
          PROVE  local'[u].scheduled = local[u].scheduled
      <4>1. local'[u] = IF u = t THEN [local[t] EXCEPT !.cb = i] ELSE local[u]
        BY <3>2 DEF TypeOK
      <4>. QED  BY <1>1, <4>1 DEF TypeOK, Local
    <3>. QED  BY <3>1, <3>2
  <2>3. \A u \in Threads : pc'[u] = "schedule" <=> pc[u] = "schedule"
    BY <2>1 DEF TypeOK
  <2>. QED  BY <2>1, <2>2, <2>3
<1>7. CASE Process(t)
  BY <1>1, <1>7 DEF Process, TypeOK, Local
<1>8. CASE Processed(t)
  BY <1>1, <1>8 DEF Processed, TypeOK, Local
<1>. QED  BY <1>2, <1>3, <1>4, <1>5, <1>6, <1>7, <1>8, <1>9 DEF Step, NeverReset

\* Constructing an event gives a thread that had none an id that is in no place yet;
\* scheduling moves the event to the queue, and NextEvent from there to the handler.
LEMMA AccountedKeeps ==
  ASSUME Structure, Accounted, NeverReset, NEW t \in Threads, Step(t)
  PROVE  Accounted'
<1> USE DEF Accounted
<1>0. /\ \A u \in Threads : local[u] \in Local /\ local[u].scheduled \in Event
      /\ \A u \in Threads : local[u].scheduled.id \in Nat
      /\ next_id \in Nat /\ MaxEvents \in Nat /\ next_id <= MaxEvents
      /\ \A e \in event_queue : e.id \in Nat
      /\ \A i \in DOMAIN popped : popped[i].id \in Nat
      /\ NoEvent.id = MaxEvents
  <2>1. \A u \in Threads : local[u] \in Local /\ local[u].scheduled \in Event
    BY DEF Structure, TypeOK, Local
  <2>2. \A e \in Event : e.id \in Nat
    BY DEF Event
  <2>3. next_id \in Nat /\ MaxEvents \in Nat /\ next_id <= MaxEvents /\ NoEvent.id = MaxEvents
    BY EngineAssumption DEF Structure, TypeOK, NoEvent
  <2>4. event_queue \subseteq Event /\ \A i \in DOMAIN popped : popped[i] \in Event
    BY DEF Structure, TypeOK
  <2>. QED  BY <2>1, <2>2, <2>3, <2>4
<1>1. CASE ~NextEvent(t) /\ ~Schedule(t) /\ (\A d \in Delays : ~Construct(t, d))
  <2>1. /\ UNCHANGED <<event_queue, next_id, popped>>
        /\ \A u \in Threads : local'[u].scheduled = local[u].scheduled
        /\ \A u \in Threads : pc'[u] = "schedule" <=> pc[u] = "schedule"
    BY <1>1, NoEventMoves
  <2>. QED  BY <2>1 DEF NoTwins, InOnePlace, Queued, OnItsWay, Taken
<1>2. ASSUME NEW d \in Delays, Construct(t, d)
      PROVE  Accounted'
  <2> DEFINE e == [timestamp |-> clock + d, id |-> next_id]
  <2>1. /\ UNCHANGED <<event_queue, popped>> /\ next_id' = next_id + 1 /\ next_id < MaxEvents
        /\ local'[t].scheduled = e /\ pc'[t] = "schedule" /\ pc[t] # "schedule"
        /\ \A u \in Threads \ {t} : local'[u] = local[u] /\ pc'[u] = pc[u]
    BY <1>0, <1>2, EngineAssumption DEF Construct, Goto, Structure, TypeOK, Local
  <2>2. e.id = next_id
    OBVIOUS
  <2>. HIDE DEF e
  <2>3. local[t].scheduled = NoEvent
    BY <2>1 DEF InOnePlace
  <2>4. NoTwins'
    BY <1>0, <2>1, <2>2, <2>3 DEF NoTwins, InOnePlace
  <2>5. /\ \A f \in event_queue' : f.id < next_id'
        /\ \A i \in DOMAIN popped' : popped'[i].id < next_id'
        /\ \A u \in Threads : IF pc'[u] = "schedule" THEN local'[u].scheduled.id < next_id'
                                                     ELSE local'[u].scheduled = NoEvent
    BY <1>0, <2>1, <2>2 DEF InOnePlace
  <2>6. ASSUME NEW id \in 0..next_id - 1
        PROVE  /\ Queued(id)' <=> Queued(id)
               /\ Taken(id)' <=> Taken(id)
               /\ OnItsWay(id)' <=> OnItsWay(id)
    BY <1>0, <2>1, <2>2, <2>3 DEF Queued, Taken, OnItsWay
  <2>7. ASSUME NEW n, n = next_id
        PROVE  ~Queued(n)' /\ ~Taken(n)' /\ OnItsWay(n)'
    BY <1>0, <2>1, <2>2, <2>7 DEF Queued, Taken, OnItsWay, InOnePlace
  <2>8. \A id \in 0..next_id' - 1 : id \in 0..next_id - 1 \/ id = next_id
    BY <1>0, <2>1
  <2>9. ASSUME NEW id \in 0..next_id' - 1
        PROVE  \/ Queued(id)' /\ ~OnItsWay(id)' /\ ~Taken(id)'
               \/ ~Queued(id)' /\ OnItsWay(id)' /\ ~Taken(id)'
               \/ ~Queued(id)' /\ ~OnItsWay(id)' /\ Taken(id)'
    <3>1. CASE id \in 0..next_id - 1
      BY <2>6, <3>1 DEF InOnePlace
    <3>2. CASE id = next_id
      BY <2>7, <3>2
    <3>. QED  BY <2>8, <3>1, <3>2
  <2>. QED  BY <2>4, <2>5, <2>9 DEF InOnePlace
<1>3. CASE Schedule(t)
  <2>0. PICK e \in Event : e = local[t].scheduled
    BY <1>0
  <2>1. /\ UNCHANGED <<next_id, popped>> /\ event_queue' = event_queue \cup {e}
        /\ local'[t].scheduled = NoEvent /\ pc[t] = "schedule" /\ pc'[t] # "schedule"
        /\ \A u \in Threads \ {t} : local'[u] = local[u] /\ pc'[u] = pc[u]
    <3>1. local[t].back # "schedule"
      BY <1>0, EngineAssumption DEF Local
    <3>. QED  BY <1>0, <1>3, <2>0, <3>1 DEF Schedule, Goto, Structure, TypeOK, Local
  <2>2. e.id < next_id /\ e.id \in 0..next_id - 1
    BY <1>0, <2>0, <2>1 DEF InOnePlace
  <2>3. OnItsWay(e.id)
    BY <2>0 DEF OnItsWay
  <2>4. ~Queued(e.id) /\ ~Taken(e.id)
    BY <2>2, <2>3 DEF InOnePlace
  <2>5. \A u \in Threads \ {t} : local[u].scheduled.id # e.id
    BY <1>0, <2>0, <2>2 DEF NoTwins
  <2>6. NoTwins'
    BY <1>0, <2>1, <2>4 DEF NoTwins, Queued
  <2>7. /\ \A f \in event_queue' : f.id < next_id'
        /\ \A i \in DOMAIN popped' : popped'[i].id < next_id'
        /\ \A u \in Threads : IF pc'[u] = "schedule" THEN local'[u].scheduled.id < next_id'
                                                     ELSE local'[u].scheduled = NoEvent
    BY <2>1, <2>2 DEF InOnePlace
  <2>8. ASSUME NEW id \in 0..next_id - 1, id # e.id
        PROVE  /\ Queued(id)' <=> Queued(id)
               /\ Taken(id)' <=> Taken(id)
               /\ OnItsWay(id)' <=> OnItsWay(id)
    BY <1>0, <2>0, <2>1, <2>8 DEF Queued, Taken, OnItsWay
  <2>9. Queued(e.id)' /\ ~Taken(e.id)' /\ ~OnItsWay(e.id)'
    <3>1. Queued(e.id)' /\ ~Taken(e.id)'
      BY <2>1, <2>4 DEF Queued, Taken
    <3>2. ~OnItsWay(e.id)'
      BY <1>0, <2>1, <2>2, <2>5 DEF OnItsWay
    <3>. QED  BY <3>1, <3>2
  <2>. QED  BY <2>1, <2>6, <2>7, <2>8, <2>9 DEF InOnePlace
<1>4. CASE NextEvent(t)
  <2>1. PICK e \in event_queue :
          /\ event_queue' = event_queue \ {e}
          /\ local' = [local EXCEPT ![t].event = e, ![t].cb = 1]
          /\ popped' = Append(popped, e)
    BY <1>4 DEF NextEvent
  <2>2. /\ UNCHANGED next_id /\ \A u \in Threads : local'[u].scheduled = local[u].scheduled
        /\ \A u \in Threads : pc'[u] = "schedule" <=> pc[u] = "schedule"
    <3>1. UNCHANGED next_id /\ pc[t] = "next" /\ pc' = [pc EXCEPT ![t] = "callbacks"]
      BY <1>4 DEF NextEvent, Goto
    <3>. QED  BY <1>0, <2>1, <3>1 DEF Structure, TypeOK, Local
  <2>3. /\ DOMAIN popped \subseteq DOMAIN popped'
        /\ \A i \in DOMAIN popped : popped'[i] = popped[i]
        /\ Len(popped) + 1 \in DOMAIN popped'
        /\ \A i \in DOMAIN popped' : IF i \in DOMAIN popped THEN popped'[i] = popped[i]
                                                            ELSE i = Len(popped) + 1 /\ popped'[i] = e
    <3>1. e \in Event /\ popped \in Seq(Event)
      BY DEF Structure, TypeOK
    <3>. QED  BY <2>1, <3>1, AppendProperties, LenProperties
  <2>4. e.id \in 0..next_id - 1 /\ Queued(e.id) /\ ~OnItsWay(e.id) /\ ~Taken(e.id)
    <3>1. e.id \in 0..next_id - 1
      BY <1>0 DEF InOnePlace
    <3>2. Queued(e.id)
      BY DEF Queued
    <3>. QED  BY <3>1, <3>2 DEF InOnePlace
  <2>5. NoTwins'
    <3>1. ASSUME NEW i \in DOMAIN popped', NEW j \in DOMAIN popped', popped'[i].id = popped'[j].id
          PROVE  i = j
      <4>1. CASE i \in DOMAIN popped /\ j \in DOMAIN popped
        BY <2>3, <3>1, <4>1 DEF NoTwins
      <4>2. CASE i \notin DOMAIN popped /\ j \notin DOMAIN popped
        BY <2>3, <4>2
      <4>3. CASE i \in DOMAIN popped /\ j \notin DOMAIN popped
        BY <2>3, <2>4, <3>1, <4>3 DEF Taken
      <4>4. CASE i \notin DOMAIN popped /\ j \in DOMAIN popped
        BY <2>3, <2>4, <3>1, <4>4 DEF Taken
      <4>. QED  BY <4>1, <4>2, <4>3, <4>4
    <3>2. \A f, g \in event_queue' : f.id = g.id => f = g
      BY <2>1 DEF NoTwins
    <3>3. \A u, w \in Threads : local'[u].scheduled.id = local'[w].scheduled.id
                               => u = w \/ local'[u].scheduled.id = MaxEvents
      BY <2>2 DEF NoTwins
    <3>. QED  BY <3>1, <3>2, <3>3 DEF NoTwins
  <2>6. /\ \A f \in event_queue' : f.id < next_id'
        /\ \A i \in DOMAIN popped' : popped'[i].id < next_id'
        /\ \A u \in Threads : IF pc'[u] = "schedule" THEN local'[u].scheduled.id < next_id'
                                                     ELSE local'[u].scheduled = NoEvent
    BY <2>1, <2>2, <2>3 DEF InOnePlace
  <2>7. \A id : OnItsWay(id)' <=> OnItsWay(id)
    BY <2>2 DEF OnItsWay
  <2>8. \A id : id # e.id => (Queued(id)' <=> Queued(id)) /\ (Taken(id)' <=> Taken(id))
    BY <2>1, <2>3 DEF Queued, Taken
  <2>9. ~Queued(e.id)' /\ Taken(e.id)'
    BY <2>1, <2>3 DEF Queued, Taken, NoTwins
  <2>. QED  BY <2>2, <2>4, <2>5, <2>6, <2>7, <2>8, <2>9 DEF InOnePlace
<1>. QED  BY <1>1, <1>2, <1>3, <1>4

\* However many threads schedule events and run the engine, and whatever throws,
\* every event constructed is in the queue, on its way there, or was handed to one
\* handler once; an initialization of the engine would discard it.
THEOREM EveryEventOnce == NeverReset => (Spec => []EachEventOnce)
<1> SUFFICES ASSUME NeverReset PROVE Spec => []EachEventOnce
  OBVIOUS
<1>1. Init => Accounted
  <2> SUFFICES ASSUME Init PROVE Accounted
    OBVIOUS
  <2>1. /\ event_queue = {} /\ DOMAIN popped = {} /\ next_id = 0
        /\ \A t \in Threads : local[t].scheduled = NoEvent /\ pc[t] = "idle"
    BY DEF Init, NoLocal
  <2>. QED  BY <2>1 DEF Accounted, NoTwins, InOnePlace, NoEvent
<1>2. Structure /\ Accounted /\ [Next]_vars => Accounted'
  <2> SUFFICES ASSUME Structure, Accounted, [Next]_vars PROVE Accounted'
    OBVIOUS
  <2>1. CASE Next
    BY <2>1, NextSteps, AccountedKeeps DEF Structure
  <2>2. CASE UNCHANGED vars
    BY <2>2 DEF vars, Accounted, NoTwins, InOnePlace, Queued, OnItsWay, Taken
  <2>. QED  BY <2>1, <2>2
<1>3. Structure /\ Accounted => EachEventOnce
  <2> SUFFICES ASSUME Structure, Accounted, NEW id \in 0..next_id - 1
               PROVE  Cardinality({e \in event_queue : e.id = id})
                      + Cardinality({t \in Threads : local[t].scheduled.id = id})
                      + Cardinality({i \in DOMAIN popped : popped[i].id = id}) = 1
    BY DEF EachEventOnce
  <2> DEFINE Q == {e \in event_queue : e.id = id}
             W == {t \in Threads : local[t].scheduled.id = id}
             P == {i \in DOMAIN popped : popped[i].id = id}
  <2>1. id # MaxEvents
    BY EngineAssumption DEF Structure, TypeOK
  <2>2. /\ \A e, f \in Q : e = f
        /\ \A t, u \in W : t = u
        /\ \A i, j \in P : i = j
    BY <2>1 DEF Accounted, NoTwins
  <2>3. /\ Queued(id) <=> Q # {}
        /\ OnItsWay(id) <=> W # {}
        /\ Taken(id) <=> P # {}
    BY DEF Queued, OnItsWay, Taken
  <2>. HIDE DEF Q, W, P
  <2>4. /\ Cardinality(Q) = IF Queued(id) THEN 1 ELSE 0
        /\ Cardinality(W) = IF OnItsWay(id) THEN 1 ELSE 0
        /\ Cardinality(P) = IF Taken(id) THEN 1 ELSE 0
    BY <2>2, <2>3, AtMostOne
  <2>5. Cardinality(Q) + Cardinality(W) + Cardinality(P) = 1
    BY <2>4 DEF Accounted, InOnePlace
  <2>. QED  BY <2>5 DEF Q, W, P
<1>. QED  BY <1>1, <1>2, <1>3, EngineStructure, PTL DEF Spec

(***************************************************************************)
(* Order.                                                                  *)
(***************************************************************************)

\* With one thread, every event still to be taken stays in turn: one that is
\* constructed now is not earlier than the clock, and has a higher id than all
\* before it.
LEMMA InTurnKeeps ==
  ASSUME Structure, InTurn, OneUser, DelaysForward, NEW t \in Threads, Step(t)
  PROVE  InTurn'
<1>0. /\ local[t] \in Local /\ \A u \in Threads : u = t
      /\ clock \in Nat /\ next_id \in Nat /\ event_queue \subseteq Event /\ popped \in Seq(Event)
      /\ \A e \in Event : e.timestamp \in Int /\ e.id \in Nat
      /\ \A i \in DOMAIN popped : popped[i] \in Event /\ i \in Nat
  <2>1. clock \in Nat /\ next_id \in Nat /\ event_queue \subseteq Event /\ popped \in Seq(Event)
    BY EngineAssumption DEF Structure, TypeOK
  <2>2. \A e \in Event : e.timestamp \in Int /\ e.id \in Nat
    BY DEF Event
  <2>. QED  BY <2>1, <2>2 DEF Structure, TypeOK, OneUser
<1>1. ASSUME UNCHANGED <<clock, event_queue, next_id, popped>>,
             pc'[t] = "schedule" => pc[t] = "schedule" /\ local'[t].scheduled = local[t].scheduled
      PROVE  InTurn'
  BY <1>0, <1>1 DEF InTurn, InOrder, Later
<1>2. ASSUME NEW end \in Int, Run(t, end)
      PROVE  InTurn'
  BY <1>1, <1>2 DEF Run, Goto, Structure, TypeOK
<1>3. CASE RegisterActor(t) \/ Registered(t) \/ \E i \in Intervals : AddPeriodicCallback(t, i)
  BY <1>1, <1>3 DEF RegisterActor, Registered, AddPeriodicCallback, Goto, Structure, TypeOK
<1>4. CASE Loop(t) \/ ConditionHolds(t) \/ NoMoreEvents(t) \/ CheckEnd(t)
  BY <1>1, <1>4 DEF Loop, ConditionHolds, NoMoreEvents, CheckEnd, Goto, Structure, TypeOK
<1>5. CASE Throw(t) \/ Stop(t) \/ CallCallback(t)
  BY <1>1, <1>5 DEF Throw, Stop, CallCallback, Goto, Structure, TypeOK
<1>6. CASE CallbackReturns(t)
  BY <1>1, <1>6 DEF CallbackReturns, Goto, Structure, TypeOK
<1>7. CASE Process(t) \/ Processed(t)
  BY <1>1, <1>7 DEF Process, Processed, Goto, Structure, TypeOK
<1>8. CASE Spin(t)
  BY <1>1, <1>8 DEF Spin, vars
<1>9. CASE Initialize(t)
  <2>1. /\ pc[t] = "idle" /\ UNCHANGED <<pc, next_id>>
        /\ event_queue' = {} /\ popped' = << >>
    BY <1>9 DEF Initialize
  <2>2. DOMAIN popped' = {}
    BY <2>1
  <2>. QED  BY <1>0, <2>1, <2>2 DEF InTurn, InOrder
<1>10. ASSUME NEW d \in Delays, Construct(t, d)
       PROVE  InTurn'
  <2> DEFINE e == [timestamp |-> clock + d, id |-> next_id]
  <2>1. /\ UNCHANGED <<clock, event_queue, popped>> /\ next_id' = next_id + 1
        /\ local'[t].scheduled = e
    BY <1>0, <1>10 DEF Construct, Structure, TypeOK, Local
  <2>2. d \in Nat /\ e.timestamp = clock + d /\ e.id = next_id
    BY DEF DelaysForward
  <2>. HIDE DEF e
  <2>3. e.timestamp >= clock /\ e.id < next_id' /\ \A i \in DOMAIN popped : Before(popped[i], e)
    BY <1>0, <2>1, <2>2 DEF InTurn, Before
  <2>4. \A f \in event_queue : Later(f)'
    BY <1>0, <2>1 DEF InTurn, Later
  <2>5. InOrder' /\ \A i \in DOMAIN popped' : popped'[i].timestamp <= clock' /\ popped'[i].id < next_id'
    BY <1>0, <2>1 DEF InTurn, InOrder
  <2>6. Later(local[t].scheduled)'
    BY <2>1, <2>3 DEF Later
  <2>. QED  BY <1>0, <2>1, <2>4, <2>5, <2>6 DEF InTurn
<1>11. CASE Schedule(t)
  <2>1. PICK e \in Event : e = local[t].scheduled
    BY <1>0 DEF Local
  <2>2. /\ UNCHANGED <<clock, next_id, popped>> /\ event_queue' = event_queue \cup {e}
        /\ pc[t] = "schedule" /\ pc'[t] # "schedule"
    <3>1. local[t].back # "schedule"
      BY <1>0, EngineAssumption DEF Local
    <3>. QED  BY <1>11, <2>1, <3>1 DEF Schedule, Goto, Structure, TypeOK
  <2>3. Later(e)
    BY <2>1, <2>2 DEF InTurn
  <2>4. \A f \in event_queue' : Later(f)'
    BY <2>2, <2>3 DEF InTurn, Later
  <2>. QED  BY <1>0, <2>2, <2>4 DEF InTurn, InOrder
<1>12. CASE NextEvent(t)
  <2>1. PICK e \in event_queue :
          /\ \A f \in event_queue \ {e} : Before(e, f)
          /\ event_queue' = event_queue \ {e}
          /\ clock' = AdvanceTo(e.timestamp)
          /\ popped' = Append(popped, e)
    BY <1>12 DEF NextEvent
  <2>2. UNCHANGED next_id /\ pc'[t] # "schedule"
    BY <1>12 DEF NextEvent, Goto, Structure, TypeOK
  <2>3. e \in Event /\ Later(e)
    BY <1>0 DEF InTurn
  <2>4. clock' = e.timestamp /\ clock' >= clock
    BY <1>0, <2>1, <2>3 DEF AdvanceTo, Later
  <2>5. \A i \in DOMAIN popped' : \/ i \in DOMAIN popped /\ popped'[i] = popped[i]
                                  \/ i = Len(popped) + 1 /\ popped'[i] = e
    BY <1>0, <2>1, <2>3, AppendProperties, LenProperties
  <2>6. \A i \in DOMAIN popped : i < Len(popped) + 1
    BY <1>0, LenProperties
  <2>7. InOrder'
    <3>1. ASSUME NEW i \in DOMAIN popped', NEW j \in DOMAIN popped', i < j
          PROVE  Before(popped'[i], popped'[j])
      <4>1. Len(popped) \in Nat
        BY <1>0, LenProperties
      <4>2. CASE j \in DOMAIN popped /\ popped'[j] = popped[j]
        BY <1>0, <2>5, <2>6, <3>1, <4>1, <4>2 DEF InTurn, InOrder
      <4>3. CASE j = Len(popped) + 1 /\ popped'[j] = e
        BY <1>0, <2>3, <2>5, <3>1, <4>1, <4>3 DEF Later
      <4>. QED  BY <2>5, <4>2, <4>3
    <3>. QED  BY <3>1 DEF InOrder
  <2>8. \A i \in DOMAIN popped' : popped'[i].timestamp <= clock' /\ popped'[i].id < next_id'
    BY <1>0, <2>2, <2>3, <2>4, <2>5 DEF InTurn, Later
  <2>9. ASSUME NEW f \in event_queue'
        PROVE  Later(f)'
    <3>1. f \in Event /\ Later(f) /\ Before(e, f)
      BY <1>0, <2>1 DEF InTurn
    <3>2. f.timestamp >= clock' /\ f.id < next_id'
      BY <1>0, <2>2, <2>3, <2>4, <3>1 DEF Later, Before
    <3>3. \A i \in DOMAIN popped' : Before(popped'[i], f)
      BY <2>5, <3>1 DEF Later
    <3>. QED  BY <3>2, <3>3 DEF Later
  <2>. QED  BY <1>0, <2>2, <2>7, <2>8, <2>9 DEF InTurn
<1>. QED
  BY <1>2, <1>3, <1>4, <1>5, <1>6, <1>7, <1>8, <1>9, <1>10, <1>11, <1>12 DEF Step

\* One thread that schedules with no negative delay, runs, and may initialize the
\* engine between its runs takes the events in the order of their times, those of
\* one time as they were constructed.
THEOREM EventsInOrder == OneUser /\ DelaysForward => (Spec => []InOrder)
<1> SUFFICES ASSUME OneUser, DelaysForward PROVE Spec => []InOrder
  OBVIOUS
<1>1. Init => InTurn
  <2> SUFFICES ASSUME Init PROVE InTurn
    OBVIOUS
  <2>1. event_queue = {} /\ DOMAIN popped = {} /\ \A t \in Threads : pc[t] = "idle"
    BY DEF Init
  <2>. QED  BY <2>1 DEF InTurn, InOrder
<1>2. Structure /\ InTurn /\ [Next]_vars => InTurn'
  <2> SUFFICES ASSUME Structure, InTurn, [Next]_vars PROVE InTurn'
    OBVIOUS
  <2>1. CASE Next
    BY <2>1, NextSteps, InTurnKeeps DEF Structure
  <2>2. CASE UNCHANGED vars
    BY <2>2 DEF vars, InTurn, InOrder, Later
  <2>. QED  BY <2>1, <2>2
<1>3. InTurn => InOrder
  BY DEF InTurn
<1>. QED  BY <1>1, <1>2, <1>3, EngineStructure, PTL DEF Spec
==============================================================================
