--------------------------- MODULE SimulationEngine ---------------------------
(***************************************************************************)
(* The discrete-event engine of a node (engine/src/engine.hpp, engine.cpp). *)
(*                                                                         *)
(* Several threads use one engine: a thread in run_until or                 *)
(* run_until_condition takes events from the queue and processes them,      *)
(* while RPC threads schedule events, register actors, add callbacks or     *)
(* initialize the engine.  mutex_ protects the queue, but not everything:   *)
(* a handler runs without it, a periodic callback and Actor::initialize run *)
(* with it, and now() and is_running_ are read without it.                  *)
(*                                                                         *)
(* A critical section that calls nobody is one step, enabled while mutex_   *)
(* is free.  Event is an arbitrary event: all that matters of it is its     *)
(* timestamp, its id, and that its handler may schedule more.               *)
(***************************************************************************)
EXTENDS Integers, Sequences, FiniteSets

\* Definitions named X_... are X with a mistake in it, for checking that the
\* properties notice: each stands before the definition it is a variant of.

CONSTANTS
  Threads,       (* threads that use the engine                               *)
  Runners,       (* those that run it: the simulation threads                 *)
  Delays,        (* what a caller of schedule_event adds to now()             *)
  Intervals,     (* intervals of periodic callbacks                           *)
  Durations,     (* arguments of run_for                                      *)
  Sources,       (* code that schedules: clients ("idle"), handlers           *)
                 (*   ("process"), callbacks ("callback"), actors ("init")    *)
  Faults,        (* code that may throw: "process", "callback", "init"        *)
  Calls,         (* which of the other calls clients make                     *)
  MaxEvents,     (* bound on the number of events ever created                *)
  MaxCallbacks,  (* bound on the number of periodic callbacks                 *)
  NoThread       (* mutex_ is free                                            *)

ASSUME EngineAssumption ==
  /\ Runners \subseteq Threads
  /\ NoThread \notin Threads
  /\ Delays \subseteq Int
  /\ Intervals \subseteq Nat
  /\ Durations \subseteq Nat
  /\ Sources \subseteq {"idle", "process", "callback", "init"}
  /\ Faults \subseteq {"process", "callback", "init"}
  /\ Calls \subseteq {"condition", "register", "callback", "initialize"}
  /\ MaxEvents \in Nat
  /\ MaxCallbacks \in Nat

VARIABLES
  clock,        (* VirtualClock::current_time_                                *)
  event_queue,  (* the events in the priority queue                           *)
  next_id,      (* Event::next_id_, which initialize does not reset           *)
  callbacks,    (* periodic_callbacks_                                        *)
  is_running,   (* is_running_                                                *)
  mutex,        (* the owner of mutex_                                        *)
  pc,           (* where each thread is                                       *)
  local,        (* each thread's local variables                              *)
  popped        (* history: the events taken from the queue, in that order,   *)
                (*   since initialize                                        *)

vars == <<clock, event_queue, next_id, callbacks, is_running, mutex, pc, local, popped>>

(***************************************************************************)
(* Data.                                                                   *)
(***************************************************************************)

Event == [timestamp : Int, id : Nat]
NoEvent == [timestamp |-> 0, id |-> MaxEvents]  \* ids in use are smaller

\* run_until_condition has no end: it asks its condition instead.
NoEnd == -1

\* event: being processed; scheduled: constructed but not yet in the queue;
\* back: where schedule_event returns to; end: end_time; cb: loop index.
Local == [event : Event, scheduled : Event, back : Sources \cup {"idle"}, end : Int, cb : Nat]
NoLocal == [event |-> NoEvent, scheduled |-> NoEvent, back |-> "idle", end |-> NoEnd, cb |-> 1]

\* Among events of one timestamp the last one constructed comes first.
Before_LastIn(e, f) ==
  e.timestamp < f.timestamp \/ (e.timestamp = f.timestamp /\ e.id > f.id)

\* Event::operator>, by which the queue is ordered.
Before(e, f) ==
  e.timestamp < f.timestamp \/ (e.timestamp = f.timestamp /\ e.id < f.id)

\* The clock takes the event's time, earlier or not.
AdvanceTo_Always(time) == time

\* VirtualClock::advance_to.
AdvanceTo(time) == IF time > clock THEN time ELSE clock

Due(cb) == clock >= cb.next_call

\* One interval is added, however many have passed.
CatchUp_Once(cb) == [cb EXCEPT !.next_call = @ + cb.interval]

\* while (next_call <= now) next_call += interval, for a positive interval.
CatchUp(cb) ==
  [cb EXCEPT !.next_call = @ + cb.interval * ((clock - @) \div cb.interval + 1)]

Init ==
  /\ clock = 0
  /\ event_queue = {}
  /\ next_id = 0
  /\ callbacks = << >>
  /\ is_running = FALSE
  /\ mutex = NoThread
  /\ pc = [t \in Threads |-> "idle"]
  /\ local = [t \in Threads |-> NoLocal]
  /\ popped = << >>

Goto(t, label) == pc' = [pc EXCEPT ![t] = label]

(***************************************************************************)
(* Scheduling. The event is constructed, with an id and a timestamp read    *)
(* from the clock, before schedule_event takes the lock.                    *)
(***************************************************************************)

Construct(t, delay) ==
  /\ pc[t] \in Sources
  /\ next_id < MaxEvents
  /\ next_id' = next_id + 1
  /\ local' = [local EXCEPT ![t].scheduled = [timestamp |-> clock + delay, id |-> next_id],
                            ![t].back = pc[t]]
  /\ Goto(t, "schedule")
  /\ UNCHANGED <<clock, event_queue, callbacks, is_running, mutex, popped>>

\* schedule_event. A thread that owns the mutex waits for itself here.
Schedule(t) ==
  /\ pc[t] = "schedule"
  /\ mutex = NoThread
  /\ event_queue' = event_queue \cup {local[t].scheduled}
  /\ local' = [local EXCEPT ![t].scheduled = NoEvent, ![t].back = "idle"]
  /\ Goto(t, local[t].back)
  /\ UNCHANGED <<clock, next_id, callbacks, is_running, mutex, popped>>

(***************************************************************************)
(* run_for, run_until and run_until_condition.                             *)
(***************************************************************************)

Run(t, end) ==
  /\ pc[t] = "idle"
  /\ is_running' = TRUE
  /\ local' = [local EXCEPT ![t].end = end]
  /\ Goto(t, "loop")
  /\ UNCHANGED <<clock, event_queue, next_id, callbacks, mutex, popped>>

\* while (is_running_): false when some other run has ended meanwhile.
Loop(t) ==
  /\ pc[t] = "loop"
  /\ Goto(t, IF is_running THEN "next" ELSE "stop")
  /\ UNCHANGED <<clock, event_queue, next_id, callbacks, is_running, mutex, local, popped>>

\* The condition of run_until_condition, any function of the caller's, holds.
ConditionHolds(t) ==
  /\ pc[t] = "loop"
  /\ is_running
  /\ local[t].end = NoEnd
  /\ Goto(t, "stop")
  /\ UNCHANGED <<clock, event_queue, next_id, callbacks, is_running, mutex, local, popped>>

\* An empty queue does not end the run.
NoMoreEvents_Waits(t) ==
  /\ pc[t] = "next"
  /\ mutex = NoThread
  /\ event_queue = {}
  /\ Goto(t, "loop")
  /\ UNCHANGED <<clock, event_queue, next_id, callbacks, is_running, mutex, local, popped>>

\* process_next_event finds the queue empty.
NoMoreEvents(t) ==
  /\ pc[t] = "next"
  /\ mutex = NoThread
  /\ event_queue = {}
  /\ Goto(t, "stop")
  /\ UNCHANGED <<clock, event_queue, next_id, callbacks, is_running, mutex, local, popped>>

\* The event is not taken out of the queue.
NextEvent_TopOnly(t) ==
  /\ pc[t] = "next"
  /\ mutex = NoThread
  /\ \E e \in event_queue :
       /\ \A f \in event_queue \ {e} : Before(e, f)
       /\ clock' = AdvanceTo(e.timestamp)
       /\ local' = [local EXCEPT ![t].event = e, ![t].cb = 1]
       /\ popped' = Append(popped, e)
  /\ mutex' = t
  /\ Goto(t, "callbacks")
  /\ UNCHANGED <<event_queue, next_id, callbacks, is_running>>

\* process_next_event takes the lock and the top event, and moves the clock.
NextEvent(t) ==
  /\ pc[t] = "next"
  /\ mutex = NoThread
  /\ \E e \in event_queue :
       /\ \A f \in event_queue \ {e} : Before(e, f)
       /\ event_queue' = event_queue \ {e}
       /\ clock' = AdvanceTo(e.timestamp)
       /\ local' = [local EXCEPT ![t].event = e, ![t].cb = 1]
       /\ popped' = Append(popped, e)
  /\ mutex' = t
  /\ Goto(t, "callbacks")
  /\ UNCHANGED <<next_id, callbacks, is_running>>

\* The loop over the periodic callbacks, with the lock held, from index cb on.
DueFrom(t) == {i \in DOMAIN callbacks : i >= local[t].cb /\ Due(callbacks[i])}

CallCallback(t) ==
  /\ pc[t] = "callbacks"
  /\ \E i \in DueFrom(t) :
       /\ \A j \in DueFrom(t) : i <= j
       /\ local' = [local EXCEPT ![t].cb = i]
  /\ Goto(t, "callback")
  /\ UNCHANGED <<clock, event_queue, next_id, callbacks, is_running, mutex, popped>>

\* With an interval of 0 the inner while loop never ends, with the lock held.
CallbackReturns(t) ==
  /\ pc[t] = "callback"
  /\ LET i == local[t].cb
     IN  \/ /\ callbacks[i].interval > 0
            /\ callbacks' = [callbacks EXCEPT ![i] = CatchUp(@)]
            /\ local' = [local EXCEPT ![t].cb = i + 1]
            /\ Goto(t, "callbacks")
         \/ /\ callbacks[i].interval = 0
            /\ Goto(t, "spin")
            /\ UNCHANGED <<callbacks, local>>
  /\ UNCHANGED <<clock, event_queue, next_id, is_running, mutex, popped>>

Spin(t) == pc[t] = "spin" /\ UNCHANGED vars

\* The lock is released before event->process.
Process(t) ==
  /\ pc[t] = "callbacks"
  /\ DueFrom(t) = {}
  /\ mutex' = NoThread
  /\ local' = [local EXCEPT ![t].cb = 1]
  /\ Goto(t, "process")
  /\ UNCHANGED <<clock, event_queue, next_id, callbacks, is_running, popped>>

\* The handler returns; run_until then asks whether the clock is at the end.
Processed(t) ==
  /\ pc[t] = "process"
  /\ local' = [local EXCEPT ![t].event = NoEvent]
  /\ Goto(t, IF local[t].end = NoEnd THEN "loop" ELSE "check")
  /\ UNCHANGED <<clock, event_queue, next_id, callbacks, is_running, mutex, popped>>

\* < for >=: the run stops short of its end.
CheckEnd_Inverted(t) ==
  /\ pc[t] = "check"
  /\ Goto(t, IF clock < local[t].end THEN "stop" ELSE "loop")
  /\ UNCHANGED <<clock, event_queue, next_id, callbacks, is_running, mutex, local, popped>>

CheckEnd(t) ==
  /\ pc[t] = "check"
  /\ Goto(t, IF clock >= local[t].end THEN "stop" ELSE "loop")
  /\ UNCHANGED <<clock, event_queue, next_id, callbacks, is_running, mutex, local, popped>>

Stop(t) ==
  /\ pc[t] = "stop"
  /\ is_running' = FALSE
  /\ local' = [local EXCEPT ![t] = NoLocal]
  /\ Goto(t, "idle")
  /\ UNCHANGED <<clock, event_queue, next_id, callbacks, mutex, popped>>

(***************************************************************************)
(* The other calls, and exceptions.                                        *)
(***************************************************************************)

\* register_actor calls Actor::initialize with the lock held.
RegisterActor(t) ==
  /\ pc[t] = "idle"
  /\ mutex = NoThread
  /\ mutex' = t
  /\ Goto(t, "init")
  /\ UNCHANGED <<clock, event_queue, next_id, callbacks, is_running, local, popped>>

Registered(t) ==
  /\ pc[t] = "init"
  /\ mutex' = NoThread
  /\ Goto(t, "idle")
  /\ UNCHANGED <<clock, event_queue, next_id, callbacks, is_running, local, popped>>

AddPeriodicCallback(t, interval) ==
  /\ pc[t] = "idle"
  /\ mutex = NoThread
  /\ Len(callbacks) < MaxCallbacks
  /\ callbacks' = Append(callbacks, [interval |-> interval, next_call |-> clock + interval])
  /\ UNCHANGED <<clock, event_queue, next_id, is_running, mutex, pc, local, popped>>

\* initialize, and reset. A run in progress goes on.
Initialize(t) ==
  /\ pc[t] = "idle"
  /\ mutex = NoThread
  /\ clock' = 0
  /\ event_queue' = {}
  /\ popped' = << >>
  /\ callbacks' = << >>
  /\ UNCHANGED <<next_id, is_running, mutex, pc, local>>

\* An exception leaves run_until or register_actor: the lock, if held, is
\* released, is_running_ stays set, and what was not done is not done.
Throw(t) ==
  /\ pc[t] \in Faults
  /\ mutex' = IF mutex = t THEN NoThread ELSE mutex
  /\ local' = [local EXCEPT ![t] = NoLocal]
  /\ Goto(t, "idle")
  /\ UNCHANGED <<clock, event_queue, next_id, callbacks, is_running, popped>>

Client(t) ==
  \/ t \in Runners /\ \E d \in Durations : Run(t, clock + d)
  \/ t \in Runners /\ "condition" \in Calls /\ Run(t, NoEnd)
  \/ "register" \in Calls /\ RegisterActor(t)
  \/ "callback" \in Calls /\ \E i \in Intervals : AddPeriodicCallback(t, i)
  \/ "initialize" \in Calls /\ Initialize(t)

\* What handlers, callbacks and actors do is the application's.
Application(t) ==
  \/ \E d \in Delays : Construct(t, d)
  \/ Throw(t)

Proceed(t) ==
  \/ Schedule(t) \/ Loop(t) \/ ConditionHolds(t) \/ NoMoreEvents(t) \/ NextEvent(t)
  \/ CallCallback(t) \/ CallbackReturns(t) \/ Process(t) \/ Processed(t)
  \/ CheckEnd(t) \/ Stop(t) \/ Registered(t) \/ Spin(t)

Next == \E t \in Threads : Client(t) \/ Application(t) \/ Proceed(t)

Spec == Init /\ [][Next]_vars

\* A call is a function running on its thread, and handlers return.
FairSpec == Spec /\ \A t \in Threads : WF_vars(Proceed(t))

(***************************************************************************)
(* Properties.                                                             *)
(***************************************************************************)

Labels == {"idle", "schedule", "loop", "next", "callbacks", "callback", "spin",
           "process", "check", "stop", "init"}

PeriodicCallback == [interval : Intervals, next_call : Int]

\* Every variable keeps its type.
TypeOK ==
  /\ clock \in Nat
  /\ event_queue \subseteq Event
  /\ next_id \in 0..MaxEvents
  /\ callbacks \in Seq(PeriodicCallback)
  /\ is_running \in BOOLEAN
  /\ mutex \in Threads \cup {NoThread}
  /\ pc \in [Threads -> Labels]
  /\ local \in [Threads -> Local]
  /\ popped \in Seq(Event)

\* A callback never falls behind: whenever the engine is between two events, each
\* periodic callback with a positive interval is due after the present time and no
\* more than its interval later, whatever was added, scheduled or reset meanwhile (engine.cpp:115-126:
\* the catching up is done under the lock that protects the clock).
CallbacksKeepUp ==
  mutex = NoThread =>
    \A i \in DOMAIN callbacks : callbacks[i].interval > 0 =>
      /\ clock < callbacks[i].next_call
      /\ callbacks[i].next_call <= clock + callbacks[i].interval

\* No handler runs before its event's time: at the start of event->process and
\* as long as it runs, the clock has reached the timestamp, whatever other
\* threads schedule or run (engine.cpp:112-113).
NeverEarly == \A t \in Threads : pc[t] = "process" => clock >= local[t].event.timestamp

\* Each event is handed out once, and none disappears: an id is in the queue, or
\* on its way there, or was taken from it by one run, once.
EachEventOnce ==
  \A id \in 0..next_id - 1 :
    Cardinality({e \in event_queue : e.id = id})
    + Cardinality({t \in Threads : local[t].scheduled.id = id})
    + Cardinality({i \in DOMAIN popped : popped[i].id = id}) = 1

\* One thread that schedules and runs, with delays that are not negative, takes
\* the events in the order of their timestamps, and those of one timestamp in the
\* order they were constructed (engine.hpp:70 "FIFO for same timestamp"), although
\* handlers schedule more while the queue is drained; initialize, which leaves no
\* earlier event behind but does not reset next_id, starts anew.
InOrder ==
  \A i, j \in DOMAIN popped : i < j => Before(popped[i], popped[j])

\* A run ends because its time has come or no event was left, never because of
\* another thread (engine.cpp:60-76). Every run clears the one is_running_, so this
\* takes that one thread runs the engine at a time, as the node arranges.
RunStopsForAReason ==
  [][\A t \in Threads : pc[t] # "stop" /\ pc'[t] = "stop" /\ local[t].end # NoEnd
       => event_queue = {} \/ clock >= local[t].end]_vars

\* Every call returns, a run among them, when the events are finitely many, the
\* callbacks do not schedule and have positive intervals: no thread waits for ever
\* for the mutex, and no wakeup is needed since an empty queue ends the run.
RunReturns == \A t \in Threads : pc[t] # "idle" ~> pc[t] = "idle"

(***************************************************************************)
(* What comments in the source say of the engine, and the code does not do. *)
(***************************************************************************)

\* engine.cpp:128 "Release lock before processing event to avoid deadlocks": no
\* thread waits for the mutex that it owns.
NeverWaitsForItself == \A t \in Threads : ~(pc[t] = "schedule" /\ mutex = t)
==============================================================================
