------------------------- MODULE SimulationNodeProofs -------------------------
(***************************************************************************)
(* With one client of RunSimulation, and any number of simulation threads,  *)
(* a node runs one simulation at a time, in an open session, under its flag, *)
(* and a run of its engine lasts until its end.                             *)
(***************************************************************************)
EXTENDS SimulationNode, SimulationEngineProofs

OneCaller == \E c : Clients = {c}

Busy == {s \in Runners : sim[s] # "none"}

(***************************************************************************)
(* The inductive invariant. A handler past the check of g_running finds no  *)
(* simulation thread, from the flag up to the start of the thread, and has  *)
(* done what its place in the handler says it has.                          *)
(***************************************************************************)
Types ==
  /\ g_running \in BOOLEAN
  /\ trading_open \in BOOLEAN
  /\ rpc \in [Clients -> {"none", "claim", "open", "start", "respond"}]
  /\ sim \in [Runners -> {"none", "started", "running", "close", "closing"}]

Starting ==
  \A c \in Clients :
    /\ rpc[c] \in {"claim", "open", "start"} => Busy = {}
    /\ rpc[c] \in {"open", "start"} => g_running
    /\ rpc[c] = "start" => trading_open

Running ==
  /\ \A s, r \in Busy : s = r
  /\ Busy # {} => g_running
  /\ \A s \in Runners : sim[s] \in {"started", "running"} => trading_open

NodeInv == Types /\ Starting /\ Running

\* A new node has nothing running.
LEMMA NodeInitHolds == NodeInit => NodeInv
BY DEF NodeInit, NodeInv, Types, Starting, Running, Busy

\* The handler of RunSimulation keeps the invariant: it starts a thread only if
\* the flag it found cleared covered every thread.
LEMMA HandlerKeeps ==
  ASSUME NodeInv, OneCaller, NEW c \in Clients, NEW d,
         \/ CheckRunning(c, d) \/ SetRunning(c) \/ OpenExchanges(c)
         \/ StartThread(c) \/ StartFails(c) \/ Respond(c)
  PROVE  NodeInv'
<1>0. Clients = {c}  BY DEF OneCaller
<1>1. CASE CheckRunning(c, d)
  BY <1>0, <1>1 DEF CheckRunning, NodeInv, Types, Starting, Running, Busy, GotoRpc, At
<1>2. CASE SetRunning(c)
  BY <1>0, <1>2 DEF SetRunning, NodeInv, Types, Starting, Running, Busy, GotoRpc, At
<1>3. CASE OpenExchanges(c)
  BY <1>0, <1>3 DEF OpenExchanges, NodeInv, Types, Starting, Running, Busy, GotoRpc, At
<1>4. CASE StartThread(c)
  <2>1. PICK s \in Runners : sim' = [sim EXCEPT ![s] = "started"]
    BY <1>4 DEF StartThread, GotoSim
  <2>2. Busy = {} /\ g_running /\ trading_open
    BY <1>4 DEF StartThread, At, NodeInv, Starting
  <2>3. Busy' = {s}
    BY <2>1, <2>2 DEF Busy, NodeInv, Types
  <2>4. rpc' = [rpc EXCEPT ![c] = "respond"] /\ UNCHANGED <<g_running, trading_open>>
    BY <1>4 DEF StartThread, GotoRpc
  <2>. QED
    BY <1>0, <2>1, <2>2, <2>3, <2>4 DEF NodeInv, Types, Starting, Running
<1>5. CASE StartFails(c)
  BY <1>0, <1>5 DEF StartFails, NodeInv, Types, Starting, Running, Busy, GotoRpc, At
<1>6. CASE Respond(c)
  BY <1>0, <1>6 DEF Respond, NodeInv, Types, Starting, Running, Busy, GotoRpc, At
<1>. QED  BY <1>1, <1>2, <1>3, <1>4, <1>5, <1>6

\* The simulation thread keeps the invariant: it is the only one, and no handler
\* is past its check while it lives.
LEMMA ThreadKeeps ==
  ASSUME NodeInv, NEW s \in Runners,
         \/ Begin(s) \/ RunFor(s) \/ CloseExchanges(s) \/ ClearRunning(s)
  PROVE  NodeInv'
<1>1. CASE Begin(s)
  <2>1. sim[s] = "started" /\ sim' = [sim EXCEPT ![s] = "running"]
        /\ UNCHANGED <<g_running, trading_open, rpc>>
    BY <1>1 DEF Begin, GotoSim
  <2>. QED  BY <2>1 DEF NodeInv, Types, Starting, Running, Busy
<1>2. CASE RunFor(s)
  <2>1. /\ sim[s] = "running"
        /\ \E label \in {"close", "running"} : sim' = [sim EXCEPT ![s] = label]
        /\ UNCHANGED <<g_running, trading_open, rpc>>
    BY <1>2 DEF RunFor, GotoSim
  <2>. QED  BY <2>1 DEF NodeInv, Types, Starting, Running, Busy
<1>3. CASE CloseExchanges(s)
  <2>1. /\ sim[s] = "close" /\ sim' = [sim EXCEPT ![s] = "closing"]
        /\ trading_open' = FALSE /\ UNCHANGED <<g_running, rpc>>
    BY <1>3 DEF CloseExchanges, GotoSim
  <2>2. s \in Busy /\ Busy' = Busy
    BY <2>1 DEF Busy, NodeInv, Types
  <2>3. \A r \in Runners : sim'[r] \notin {"started", "running"}
    BY <2>1, <2>2 DEF NodeInv, Types, Running, Busy
  <2>4. \A c \in Clients : rpc[c] # "start"
    BY <2>2 DEF NodeInv, Starting
  <2>. QED  BY <2>1, <2>2, <2>3, <2>4 DEF NodeInv, Types, Starting, Running
<1>4. CASE ClearRunning(s)
  <2>1. /\ sim[s] = "closing" /\ sim' = [sim EXCEPT ![s] = "none"]
        /\ g_running' = FALSE /\ UNCHANGED <<trading_open, rpc>>
    BY <1>4 DEF ClearRunning, GotoSim
  <2>2. s \in Busy /\ Busy' = {}
    BY <2>1 DEF Busy, NodeInv, Types, Running
  <2>3. \A c \in Clients : rpc[c] \notin {"claim", "open", "start"}
    BY <2>2 DEF NodeInv, Starting
  <2>. QED  BY <2>1, <2>2, <2>3 DEF NodeInv, Types, Starting, Running, Busy
<1>. QED  BY <1>1, <1>2, <1>3, <1>4

\* Every step of the node keeps the invariant; what the engine does by itself
\* does not touch it.
LEMMA NodeNextKeeps ==
  ASSUME NodeInv, OneCaller, [NodeNext]_<<vars, nodeVars>>
  PROVE  NodeInv'
<1>1. CASE \E c \in Clients :
             \/ \E d \in Durations : CheckRunning(c, d)
             \/ SetRunning(c) \/ OpenExchanges(c) \/ StartThread(c) \/ StartFails(c) \/ Respond(c)
  <2>1. PICK c \in Clients :
             \/ \E d \in Durations : CheckRunning(c, d)
             \/ SetRunning(c) \/ OpenExchanges(c) \/ StartThread(c) \/ StartFails(c) \/ Respond(c)
    BY <1>1
  <2>2. CASE \E d \in Durations : CheckRunning(c, d)
    BY <2>2, HandlerKeeps
  <2>3. CASE SetRunning(c) \/ OpenExchanges(c) \/ StartThread(c) \/ StartFails(c) \/ Respond(c)
    <3> DEFINE d == 0
    <3>. HIDE DEF d
    <3>. QED  BY <2>3, HandlerKeeps
  <2>. QED  BY <2>1, <2>2, <2>3
<1>2. CASE \E s \in Runners : Begin(s) \/ RunFor(s) \/ CloseExchanges(s) \/ ClearRunning(s)
  BY <1>2, ThreadKeeps
<1>3. CASE UNCHANGED <<g_running, trading_open, rpc, sim>>
  BY <1>3 DEF NodeInv, Types, Starting, Running, Busy
<1>4. ASSUME NEW c \in Clients, OtherRpc(c)  PROVE UNCHANGED <<g_running, trading_open, rpc, sim>>
  BY <1>4 DEF OtherRpc, nodeVars
<1>5. ASSUME NEW s \in Runners, ScheduleMore(s) \/ Terminate(s)
      PROVE UNCHANGED <<g_running, trading_open, rpc, sim>>
  BY <1>5 DEF ScheduleMore, Terminate, nodeVars
<1>6. ASSUME UNCHANGED <<vars, nodeVars>>  PROVE UNCHANGED <<g_running, trading_open, rpc, sim>>
  BY <1>6 DEF nodeVars
<1>. QED  BY <1>1, <1>2, <1>3, <1>4, <1>5, <1>6 DEF NodeNext

\* A node with one client of RunSimulation always satisfies the invariant.
THEOREM NodeInvariant == OneCaller => (NodeSpec => []NodeInv)
<1> SUFFICES ASSUME OneCaller PROVE NodeSpec => []NodeInv
  OBVIOUS
<1>1. NodeInv /\ [NodeNext]_<<vars, nodeVars>> => NodeInv'
  BY NodeNextKeeps
<1>. QED  BY <1>1, NodeInitHolds, PTL DEF NodeSpec

\* Its engine runs on one thread at a time: RunSimulation's check of g_running is
\* enough for one client, for any number of threads that it starts over time.
THEOREM OneRun == OneCaller => (NodeSpec => []OneRunAtATime)
<1>1. NodeInv => OneRunAtATime
  <2> SUFFICES ASSUME NodeInv PROVE Cardinality(Busy) <= 1
    BY DEF OneRunAtATime, Busy
  <2>1. CASE Busy = {}
    BY <2>1, FS_EmptySet
  <2>2. CASE Busy # {}
    <3>1. PICK s : s \in Busy
      BY <2>2
    <3>2. Busy = {s}
      BY <3>1 DEF NodeInv, Running
    <3>. QED  BY <3>2, FS_Singleton
  <2>. QED  BY <2>1, <2>2
<1>. QED  BY <1>1, NodeInvariant, PTL

\* Its handlers run in an open trading session.
THEOREM SessionOpen == OneCaller => (NodeSpec => []OpenWhileRunning)
<1>1. NodeInv => OpenWhileRunning
  BY DEF NodeInv, Running, OpenWhileRunning
<1>. QED  BY <1>1, NodeInvariant, PTL

\* Its flag is set as long as a simulation thread lives.
THEOREM FlagCovers == OneCaller => (NodeSpec => []FlagCoversTheRun)
<1>1. NodeInv => FlagCoversTheRun
  BY DEF NodeInv, Running, Busy, FlagCoversTheRun
<1>. QED  BY <1>1, NodeInvariant, PTL

(***************************************************************************)
(* The engine's runs. Only the simulation thread that runs is inside        *)
(* run_for, so no other run clears is_running_ under it.                    *)
(***************************************************************************)

\* From the call of run_for to its return, handlers and callbacks included.
InRun(t) ==
  \/ pc[t] \in {"loop", "next", "callbacks", "callback", "spin", "process", "check", "stop"}
  \/ pc[t] = "schedule" /\ local[t].back \in {"process", "callback"}

RunInv ==
  /\ \A t \in Threads : InRun(t) => t \in Runners /\ sim[t] = "running"
  /\ \A t \in Threads : InRun(t) /\ pc[t] # "stop" => is_running

\* A thread changes no other thread's place and local variables.
LEMMA OthersStay ==
  ASSUME Structure, NEW t \in Threads, Step(t)
  PROVE  \A u \in Threads \ {t} : pc'[u] = pc[u] /\ local'[u] = local[u]
<1> USE DEF Structure, TypeOK, Goto
<1>1. CASE \/ \E end \in Int : Run(t, end)
           \/ RegisterActor(t) \/ Registered(t) \/ Initialize(t)
           \/ \E i \in Intervals : AddPeriodicCallback(t, i)
  BY <1>1 DEF Run, RegisterActor, Registered, Initialize, AddPeriodicCallback
<1>2. CASE (\E d \in Delays : Construct(t, d)) \/ Throw(t) \/ Schedule(t) \/ Stop(t)
  BY <1>2 DEF Construct, Throw, Schedule, Stop
<1>3. CASE Loop(t) \/ ConditionHolds(t) \/ NoMoreEvents(t) \/ CheckEnd(t) \/ Spin(t)
  BY <1>3 DEF Loop, ConditionHolds, NoMoreEvents, CheckEnd, Spin, vars
<1>4. CASE NextEvent(t) \/ CallCallback(t)
  BY <1>4 DEF NextEvent, CallCallback
<1>5. CASE Process(t) \/ Processed(t)
  BY <1>5 DEF Process, Processed
<1>6. CASE CallbackReturns(t)
  BY <1>6 DEF CallbackReturns
<1>. QED  BY <1>1, <1>2, <1>3, <1>4, <1>5, <1>6 DEF Step

\* A thread is in a run after its step only if it was before, or has called run_for;
\* and is_running_ is cleared by the end of a run only.
LEMMA RunSteps ==
  ASSUME Structure, NEW t \in Threads, Step(t)
  PROVE  /\ InRun(t)' => InRun(t) \/ (t \in Runners /\ pc[t] = "idle" /\ pc'[t] = "loop")
         /\ ~InRun(t) /\ InRun(t)' => is_running' = TRUE
         /\ InRun(t) /\ pc[t] = "stop" => ~InRun(t)'
         /\ \/ is_running' = is_running
            \/ is_running' = TRUE
            \/ Stop(t) /\ ~InRun(t)'
         /\ InRun(t)' /\ pc'[t] # "stop" /\ InRun(t) => pc[t] # "stop"
<1> USE DEF Structure, Goto
<1>0. local[t] \in Local /\ \A e \in {"idle", "init"} : e \notin {"process", "callback"}
  BY DEF TypeOK
<1>1. CASE \/ RegisterActor(t) \/ Registered(t) \/ Initialize(t)
           \/ \E i \in Intervals : AddPeriodicCallback(t, i)
  BY <1>1 DEF RegisterActor, Registered, Initialize, AddPeriodicCallback, InRun, TypeOK
<1>2. CASE \E end \in Int : t \in Runners /\ Run(t, end)
  BY <1>2 DEF Run, InRun, TypeOK
<1>3. CASE \E d \in Delays : Construct(t, d)
  BY <1>0, <1>3 DEF Construct, InRun, TypeOK, Local
<1>4. CASE Throw(t) \/ Stop(t)
  BY <1>4, EngineAssumption DEF Throw, Stop, InRun, TypeOK
<1>5. CASE Schedule(t)
  <2>1. /\ pc[t] = "schedule" /\ pc'[t] = local[t].back /\ is_running' = is_running
        /\ local[t].back \in {"idle", "process", "callback", "init"}
    BY <1>0, <1>5, EngineAssumption DEF Schedule, TypeOK, Local
  <2>. QED  BY <2>1 DEF InRun
<1>6. CASE Loop(t) \/ ConditionHolds(t) \/ NoMoreEvents(t) \/ CheckEnd(t) \/ Spin(t)
  BY <1>6 DEF Loop, ConditionHolds, NoMoreEvents, CheckEnd, Spin, vars, InRun, TypeOK
<1>7. CASE NextEvent(t) \/ CallCallback(t)
  BY <1>7 DEF NextEvent, CallCallback, InRun, TypeOK
<1>8. CASE Process(t) \/ Processed(t)
  BY <1>8 DEF Process, Processed, InRun, TypeOK
<1>9. CASE CallbackReturns(t)
  BY <1>9 DEF CallbackReturns, InRun, TypeOK
<1>. QED  BY <1>1, <1>2, <1>3, <1>4, <1>5, <1>6, <1>7, <1>8, <1>9 DEF Step

\* A run to an end stops when its time has come or the queue is empty, unless its
\* loop finds is_running_ cleared.
LEMMA StopsForAReason ==
  ASSUME Structure, NEW t \in Threads, Step(t), pc[t] = "loop" => is_running
  PROVE  pc[t] # "stop" /\ pc'[t] = "stop" /\ local[t].end # NoEnd
           => event_queue = {} \/ clock >= local[t].end
<1> USE DEF Structure, Goto
<1>0. local[t] \in Local
  BY DEF TypeOK
<1>1. CASE \/ \E end \in Int : Run(t, end)
           \/ RegisterActor(t) \/ Registered(t) \/ Initialize(t)
           \/ \E i \in Intervals : AddPeriodicCallback(t, i)
  BY <1>1 DEF Run, RegisterActor, Registered, Initialize, AddPeriodicCallback, TypeOK
<1>2. CASE (\E d \in Delays : Construct(t, d)) \/ Throw(t) \/ Stop(t)
  BY <1>2 DEF Construct, Throw, Stop, TypeOK
<1>3. CASE Schedule(t)
  <2>1. pc'[t] = local[t].back /\ local[t].back \in {"idle", "process", "callback", "init"}
    BY <1>0, <1>3, EngineAssumption DEF Schedule, TypeOK, Local
  <2>. QED  BY <2>1
<1>4. CASE Loop(t) \/ ConditionHolds(t) \/ NoMoreEvents(t) \/ CheckEnd(t) \/ Spin(t)
  BY <1>4 DEF Loop, ConditionHolds, NoMoreEvents, CheckEnd, Spin, vars, TypeOK
<1>5. CASE NextEvent(t) \/ CallCallback(t) \/ CallbackReturns(t) \/ Process(t) \/ Processed(t)
  BY <1>5 DEF NextEvent, CallCallback, CallbackReturns, Process, Processed, TypeOK
<1>. QED  BY <1>1, <1>2, <1>3, <1>4, <1>5 DEF Step

\* A step of the node that changes the engine is a step of one thread, which leaves
\* the other simulation threads where they are. It is an RPC thread's, or that of a
\* simulation thread inside run_for, at its end, or outside it.
NodeStep(t) ==
  \/ t \in Clients /\ UNCHANGED sim
  \/ t \in Runners /\ sim' = [sim EXCEPT ![t] = "running"]
  \/ t \in Runners /\ Stop(t) /\ sim' = [sim EXCEPT ![t] = "close"]
  \/ /\ t \in Runners /\ UNCHANGED sim
     /\ pc'[t] \in {"schedule", "idle"} \/ pc[t] = "schedule"

\* Every step of the node is one of these, or lets the engine be and no simulation
\* thread out of run_for.
LEMMA NodeSteps ==
  ASSUME TypeOK, Types, NodeNext
  PROVE  \/ UNCHANGED vars /\ \A s \in Runners : sim[s] = "running" => sim'[s] = "running"
         \/ \E t \in Threads : Step(t) /\ NodeStep(t)
<1>1. ASSUME NEW t \in Threads, Proceed(t) \/ Application(t) \/ (t \in Clients /\ Client(t))
      PROVE  Step(t)
  <2>1. CASE Proceed(t)
    BY <2>1 DEF Proceed, Step
  <2>2. CASE Application(t)
    BY <2>2 DEF Application, Step
  <2>3. CASE t \in Clients /\ Client(t)
    BY <2>3 DEF Client, Clients, Step
  <2>. QED  BY <1>1, <2>1, <2>2, <2>3
<1>2. ASSUME NEW c \in Clients,
             \/ \E d \in Durations : CheckRunning(c, d)
             \/ SetRunning(c) \/ OpenExchanges(c) \/ StartThread(c) \/ StartFails(c) \/ Respond(c)
      PROVE  UNCHANGED vars /\ \A s \in Runners : sim[s] = "running" => sim'[s] = "running"
  BY <1>2 DEF CheckRunning, SetRunning, OpenExchanges, StartThread, StartFails, Respond,
              GotoSim, Types
<1>3. ASSUME NEW s \in Runners, CloseExchanges(s) \/ ClearRunning(s)
      PROVE  UNCHANGED vars /\ \A r \in Runners : sim[r] = "running" => sim'[r] = "running"
  BY <1>3 DEF CloseExchanges, ClearRunning, GotoSim, Types
<1>4. ASSUME NEW c \in Clients, OtherRpc(c)
      PROVE  c \in Threads /\ Step(c) /\ NodeStep(c)
  BY <1>1, <1>4 DEF OtherRpc, NodeStep, nodeVars, Clients
<1>5. ASSUME NEW s \in Runners
      PROVE  /\ s \in Threads
             /\ Begin(s) => Step(s) /\ NodeStep(s)
             /\ RunFor(s) => Step(s) /\ NodeStep(s)
             /\ ScheduleMore(s) => Step(s) /\ NodeStep(s)
             /\ Terminate(s) => Step(s) /\ NodeStep(s)
  <2>1. s \in Threads
    BY EngineAssumption
  <2>2. ASSUME Begin(s) PROVE Step(s) /\ NodeStep(s)
    <3>1. \A d \in Durations : clock + d \in Int
      BY EngineAssumption DEF TypeOK
    <3>. QED  BY <2>2, <3>1 DEF Begin, GotoSim, Step, NodeStep
  <2>3. ASSUME RunFor(s) PROVE Step(s) /\ NodeStep(s)
    <3>1. Proceed(s) /\ sim' = [sim EXCEPT ![s] = IF pc[s] = "stop" THEN "close" ELSE "running"]
      BY <2>3 DEF RunFor, GotoSim
    <3>2. pc[s] = "stop" => Stop(s)
      BY <2>1, <3>1 DEF Proceed, Schedule, Loop, ConditionHolds, NoMoreEvents, NextEvent,
                CallCallback, CallbackReturns, Process, Processed, CheckEnd, Registered, Spin
    <3>. QED  BY <1>1, <2>1, <3>1, <3>2 DEF NodeStep
  <2>4. ASSUME ScheduleMore(s) PROVE Step(s) /\ NodeStep(s)
    <3>1. (\E d \in Delays : Construct(s, d)) \/ Schedule(s)
      BY <2>4 DEF ScheduleMore
    <3>3. pc'[s] = "schedule" \/ pc[s] = "schedule"
      BY <2>1, <3>1 DEF Construct, Schedule, Goto, TypeOK
    <3>. QED  BY <2>4, <3>1, <3>3 DEF ScheduleMore, nodeVars, Step, NodeStep
  <2>5. ASSUME Terminate(s) PROVE Step(s) /\ NodeStep(s)
    BY <2>1, <2>5 DEF Terminate, Throw, Goto, TypeOK, Step, NodeStep
  <2>. QED  BY <2>1, <2>2, <2>3, <2>4, <2>5
<1>6. Clients \subseteq Threads
  BY DEF Clients
<1>. QED  BY <1>2, <1>3, <1>4, <1>5, <1>6 DEF NodeNext

\* A step of the engine keeps the invariant: a run in progress is the only one, so
\* the one whose end clears is_running_ is the one that ends.
LEMMA RunKeeps ==
  ASSUME NodeInv, Structure, RunInv, NEW t \in Threads, Step(t), NodeStep(t)
  PROVE  RunInv'
<1>1. \A u \in Threads \ {t} : pc'[u] = pc[u] /\ local'[u] = local[u]
  BY OthersStay
<1>2. \A u \in Threads \ {t} : InRun(u)' <=> InRun(u)
  BY <1>1 DEF InRun
<1>3. \A s \in Runners \ {t} : sim'[s] = sim[s]
  BY DEF NodeStep, NodeInv, Types
<1>4. InRun(t)' => t \in Runners /\ sim'[t] = "running"
  <2> SUFFICES ASSUME InRun(t)' PROVE t \in Runners /\ sim'[t] = "running"
    OBVIOUS
  <2>1. \/ InRun(t)
        \/ t \in Runners /\ pc[t] = "idle" /\ pc'[t] = "loop"
    BY RunSteps
  <2>2. t \in Runners
    BY <2>1 DEF RunInv
  <2>3. CASE sim' = [sim EXCEPT ![t] = "running"]
    BY <2>2, <2>3 DEF NodeInv, Types
  <2>4. CASE Stop(t)
    BY <2>4 DEF Stop, Goto, InRun, Structure, TypeOK
  <2>5. CASE UNCHANGED sim /\ (pc'[t] \in {"schedule", "idle"} \/ pc[t] = "schedule")
    <3>1. InRun(t)
      BY <2>1, <2>5
    <3>. QED  BY <2>5, <3>1, <2>2 DEF RunInv
  <2>. QED  BY <2>2, <2>3, <2>4, <2>5 DEF NodeStep, Clients
<1>5. \A u \in Threads : InRun(u)' => u \in Runners /\ sim'[u] = "running"
  BY <1>2, <1>3, <1>4 DEF RunInv
<1>6. ASSUME NEW u \in Threads, InRun(u)', pc'[u] # "stop"  PROVE is_running'
  <2>1. CASE is_running' = TRUE
    BY <2>1
  <2>2. CASE is_running' = is_running
    <3>1. CASE u # t
      BY <1>1, <1>2, <1>6, <2>2, <3>1 DEF RunInv
    <3>2. CASE u = t /\ InRun(t)
      BY <1>6, <2>2, <3>2, RunSteps DEF RunInv
    <3>3. CASE u = t /\ ~InRun(t)
      BY <1>6, <3>3, RunSteps
    <3>. QED  BY <3>1, <3>2, <3>3
  <2>3. CASE Stop(t) /\ ~InRun(t)'
    <3>1. u # t /\ InRun(u) /\ InRun(t)
      BY <1>2, <1>6, <2>3 DEF Stop, InRun
    <3>2. u \in Busy /\ t \in Busy
      BY <3>1 DEF RunInv, Busy
    <3>. QED  BY <3>1, <3>2 DEF NodeInv, Running
  <2>. QED  BY <2>1, <2>2, <2>3, RunSteps
<1>. QED  BY <1>5, <1>6 DEF RunInv

\* The engine of a node keeps its structure, and its runs the invariant.
LEMMA NodeRunInvariant == OneCaller => (NodeSpec => [](NodeInv /\ Structure /\ RunInv))
<1> SUFFICES ASSUME OneCaller PROVE NodeSpec => [](NodeInv /\ Structure /\ RunInv)
  OBVIOUS
<1> DEFINE IInv == NodeInv /\ Structure /\ RunInv
<1>1. NodeInit => IInv
  <2>1. NodeInit => RunInv
    BY DEF NodeInit, Init, RunInv, InRun
  <2>. QED  BY <2>1, NodeInitHolds, StructureInit DEF NodeInit
<1>2. IInv /\ [NodeNext]_<<vars, nodeVars>> => IInv'
  <2> SUFFICES ASSUME IInv, [NodeNext]_<<vars, nodeVars>> PROVE IInv'
    OBVIOUS
  <2>1. NodeInv'
    BY NodeNextKeeps
  <2>2. CASE UNCHANGED vars /\ \A s \in Runners : sim[s] = "running" => sim'[s] = "running"
    <3>1. Structure'
      BY <2>2 DEF vars, Structure, TypeOK, Exclusion, Locked
    <3>2. RunInv'
      BY <2>2 DEF vars, RunInv, InRun
    <3>. QED  BY <2>1, <3>1, <3>2
  <2>3. ASSUME NEW t \in Threads, Step(t), NodeStep(t)
        PROVE  Structure' /\ RunInv'
    BY <2>3, StructureKeeps, RunKeeps
  <2>4. CASE NodeNext
    BY <2>1, <2>2, <2>3, <2>4, NodeSteps DEF NodeInv, Structure
  <2>5. CASE UNCHANGED <<vars, nodeVars>>
    BY <2>2, <2>5 DEF nodeVars
  <2>. QED  BY <2>4, <2>5
<1>. QED  BY <1>1, <1>2, PTL DEF NodeSpec

\* In a node with one client of RunSimulation, a run for a duration ends because
\* the duration has passed or no event is left, never because another run clears
\* the is_running_ that all runs of the engine share.
THEOREM RunsLast == OneCaller => (NodeSpec => RunStopsForAReason)
<1> SUFFICES ASSUME OneCaller PROVE NodeSpec => RunStopsForAReason
  OBVIOUS
<1> DEFINE Stops(t) == pc[t] # "stop" /\ pc'[t] = "stop" /\ local[t].end # NoEnd
                         => event_queue = {} \/ clock >= local[t].end
<1>1. ASSUME NodeInv, Structure, RunInv, [NodeNext]_<<vars, nodeVars>>
      PROVE  [\A t \in Threads : Stops(t)]_vars
  <2>1. CASE UNCHANGED vars
    BY <2>1
  <2>2. ASSUME NEW t \in Threads, Step(t), NEW u \in Threads
        PROVE  Stops(u)
    <3>1. CASE u = t
      <4>1. pc[t] = "loop" => is_running
        BY <1>1 DEF RunInv, InRun
      <4>. QED  BY <1>1, <2>2, <3>1, <4>1, StopsForAReason
    <3>2. CASE u # t
      BY <1>1, <2>2, <3>2, OthersStay
    <3>. QED  BY <3>1, <3>2
  <2>3. CASE NodeNext
    BY <1>1, <2>1, <2>2, <2>3, NodeSteps DEF NodeInv, Structure
  <2>. QED  BY <1>1, <2>1, <2>3
<1>2. NodeInv /\ Structure /\ RunInv /\ [NodeNext]_<<vars, nodeVars>>
        => [\A t \in Threads : Stops(t)]_vars
  BY <1>1
<1>. QED  BY <1>2, NodeRunInvariant, PTL DEF NodeSpec, RunStopsForAReason
==============================================================================
