---------------------------- MODULE SimulationNode ----------------------------
(***************************************************************************)
(* The gRPC node around the engine (engine/src/main.cpp).                   *)
(*                                                                         *)
(* RunSimulation is an RPC handler: it opens the exchanges, starts a        *)
(* detached simulation thread, and returns; the thread runs the engine,     *)
(* closes the exchanges and clears g_running.  gRPC serves every call on a  *)
(* thread of its own and frees the request when the handler returns.        *)
(*                                                                         *)
(* Runners are the simulation threads, the other threads of the engine are  *)
(* the RPC threads.  The exchanges are opened and closed together and are   *)
(* one flag here.  What RPC handlers other than RunSimulation do to the     *)
(* engine are the engine's own client calls.                                *)
(***************************************************************************)
EXTENDS SimulationEngine

VARIABLES
  g_running,     (* the atomic flag of that name                              *)
  trading_open,  (* is_trading_open_ of the exchanges                         *)
  rpc,           (* where each RPC thread is in RunSimulation                 *)
  sim,           (* where each simulation thread is                           *)
  duration,      (* duration_ns of each request, by RPC thread, and the one   *)
                 (*   each simulation thread was started for                  *)
  borrowed,      (* the RPC thread whose request a simulation thread holds a  *)
                 (*   pointer to; NoThread once that request is freed         *)
  terminated     (* std::terminate has ended the process                      *)

nodeVars == <<g_running, trading_open, rpc, sim, duration, borrowed, terminated>>

Clients == Threads \ Runners

NodeInit ==
  /\ Init
  /\ g_running = FALSE
  /\ trading_open = FALSE
  /\ rpc = [c \in Clients |-> "none"]
  /\ sim = [s \in Runners |-> "none"]
  /\ duration = [t \in Threads |-> 0]
  /\ borrowed = [s \in Runners |-> NoThread]
  /\ terminated = FALSE

(***************************************************************************)
(* The handler of RunSimulation.                                           *)
(***************************************************************************)

At(c, label) == ~terminated /\ rpc[c] = label
GotoRpc(c, label) == rpc' = [rpc EXCEPT ![c] = label]
GotoSim(s, label) == sim' = [sim EXCEPT ![s] = label]

\* g_running is not looked at.
CheckRunning_Never(c, d) ==
  /\ At(c, "none") /\ pc[c] = "idle"
  /\ duration' = [duration EXCEPT ![c] = d]
  /\ GotoRpc(c, "claim")
  /\ UNCHANGED <<vars, g_running, trading_open, sim, borrowed, terminated>>

\* "Check if already running". A call that finds it so changes nothing.
CheckRunning(c, d) ==
  /\ At(c, "none") /\ pc[c] = "idle"
  /\ ~g_running
  /\ duration' = [duration EXCEPT ![c] = d]
  /\ GotoRpc(c, "claim")
  /\ UNCHANGED <<vars, g_running, trading_open, sim, borrowed, terminated>>

SetRunning(c) ==
  /\ At(c, "claim")
  /\ g_running' = TRUE
  /\ GotoRpc(c, "open")
  /\ UNCHANGED <<vars, trading_open, sim, duration, borrowed, terminated>>

OpenExchanges(c) ==
  /\ At(c, "open")
  /\ trading_open' = TRUE
  /\ GotoRpc(c, "start")
  /\ UNCHANGED <<vars, g_running, sim, duration, borrowed, terminated>>

StartThread(c) ==
  /\ At(c, "start")
  /\ \E s \in Runners :
       /\ sim[s] = "none"
       /\ GotoSim(s, "started")
       /\ duration' = [duration EXCEPT ![s] = duration[c]]
       /\ borrowed' = [borrowed EXCEPT ![s] = c]
  /\ GotoRpc(c, "respond")
  /\ UNCHANGED <<vars, g_running, trading_open, terminated>>

\* The catch block forgets the flag.
StartFails_FlagKept(c) ==
  /\ At(c, "start")
  /\ GotoRpc(c, "none")
  /\ UNCHANGED <<vars, g_running, trading_open, sim, duration, borrowed, terminated>>

\* The thread cannot be created: the handler's catch block.
StartFails(c) ==
  /\ At(c, "start")
  /\ g_running' = FALSE
  /\ GotoRpc(c, "none")
  /\ UNCHANGED <<vars, trading_open, sim, duration, borrowed, terminated>>

\* The handler returns and its request is freed.
Respond(c) ==
  /\ At(c, "respond")
  /\ GotoRpc(c, "none")
  /\ duration' = [duration EXCEPT ![c] = 0]
  /\ borrowed' = [s \in Runners |-> IF borrowed[s] = c THEN NoThread ELSE borrowed[s]]
  /\ UNCHANGED <<vars, g_running, trading_open, sim, terminated>>

(***************************************************************************)
(* The simulation thread.                                                  *)
(***************************************************************************)

\* It reads the duration through the pointer it captured. Once the request is
\* freed the value read is arbitrary.
Begin(s) ==
  /\ ~terminated
  /\ sim[s] = "started"
  /\ \E d \in Durations :
       /\ borrowed[s] # NoThread => d = duration[s]
       /\ Run(s, clock + d)
  /\ GotoSim(s, "running")
  /\ UNCHANGED <<g_running, trading_open, rpc, duration, borrowed, terminated>>

\* The flag is cleared as soon as run_for returns, before the exchanges close.
RunFor_FlagFirst(s) ==
  /\ ~terminated
  /\ sim[s] = "running"
  /\ Proceed(s)
  /\ GotoSim(s, IF pc[s] = "stop" THEN "close" ELSE "running")
  /\ g_running' = IF pc[s] = "stop" THEN FALSE ELSE g_running
  /\ UNCHANGED <<trading_open, rpc, duration, borrowed, terminated>>

\* run_for, up to its return.
RunFor(s) ==
  /\ ~terminated
  /\ sim[s] = "running"
  /\ Proceed(s)
  /\ GotoSim(s, IF pc[s] = "stop" THEN "close" ELSE "running")
  /\ UNCHANGED <<g_running, trading_open, rpc, duration, borrowed, terminated>>

\* Handlers schedule events, and so do the broadcasts of close_trading_session.
ScheduleMore(s) ==
  /\ ~terminated
  /\ sim[s] \in {"running", "closing"}
  /\ \/ \E d \in Delays : Construct(s, d)
     \/ sim[s] = "closing" /\ Schedule(s)
  /\ UNCHANGED nodeVars

\* Nobody catches an exception on this thread.
Terminate(s) ==
  /\ ~terminated
  /\ sim[s] = "running"
  /\ Throw(s)
  /\ terminated' = TRUE
  /\ UNCHANGED <<g_running, trading_open, rpc, sim, duration, borrowed>>

CloseExchanges(s) ==
  /\ ~terminated
  /\ sim[s] = "close"
  /\ trading_open' = FALSE
  /\ GotoSim(s, "closing")
  /\ UNCHANGED <<vars, g_running, rpc, duration, borrowed, terminated>>

\* g_running = false, and the thread ends.
ClearRunning(s) ==
  /\ ~terminated
  /\ sim[s] = "closing" /\ pc[s] = "idle"
  /\ g_running' = FALSE
  /\ GotoSim(s, "none")
  /\ duration' = [duration EXCEPT ![s] = 0]
  /\ borrowed' = [borrowed EXCEPT ![s] = NoThread]
  /\ UNCHANGED <<vars, trading_open, rpc, terminated>>

(***************************************************************************)
(* The other handlers: Initialize, RegisterActor, and the orders, whose     *)
(* executions and broadcasts schedule events.                              *)
(***************************************************************************)

OtherRpc(c) ==
  /\ At(c, "none")
  /\ \/ Client(c)
     \/ Application(c)
     \/ Proceed(c)
  /\ UNCHANGED nodeVars

NodeProceed(t) ==
  \/ /\ t \in Clients
     /\ \/ SetRunning(t) \/ OpenExchanges(t) \/ StartThread(t) \/ StartFails(t)
        \/ Respond(t)
        \/ At(t, "none") /\ Proceed(t) /\ UNCHANGED nodeVars
  \/ /\ t \in Runners
     /\ \/ Begin(t) \/ RunFor(t) \/ CloseExchanges(t) \/ ClearRunning(t)
        \/ sim[t] = "closing" /\ Schedule(t) /\ UNCHANGED nodeVars

NodeNext ==
  \/ \E c \in Clients :
       \/ \E d \in Durations : CheckRunning(c, d)
       \/ SetRunning(c) \/ OpenExchanges(c) \/ StartThread(c) \/ StartFails(c)
       \/ Respond(c) \/ OtherRpc(c)
  \/ \E s \in Runners :
       \/ Begin(s) \/ RunFor(s) \/ ScheduleMore(s) \/ Terminate(s)
       \/ CloseExchanges(s) \/ ClearRunning(s)

NodeSpec == NodeInit /\ [][NodeNext]_<<vars, nodeVars>>

\* Handlers and threads, once started, go on.
NodeFairSpec == NodeSpec /\ \A t \in Threads : WF_<<vars, nodeVars>>(NodeProceed(t))

(***************************************************************************)
(* Properties. They hold when RunSimulation is called by one client at a    *)
(* time, which is what the orchestrator does.                              *)
(***************************************************************************)

NodeTypeOK ==
  /\ TypeOK
  /\ g_running \in BOOLEAN
  /\ trading_open \in BOOLEAN
  /\ rpc \in [Clients -> {"none", "claim", "open", "start", "respond"}]
  /\ sim \in [Runners -> {"none", "started", "running", "close", "closing"}]
  /\ duration \in [Threads -> Nat]
  /\ borrowed \in [Runners -> Clients \cup {NoThread}]
  /\ terminated \in BOOLEAN

\* The engine runs on one thread at a time (main.cpp:298-303): it is what the
\* engine needs for its runs to last until their end, and what keeps two handlers
\* out of one order book.
OneRunAtATime == Cardinality({s \in Runners : sim[s] # "none"}) <= 1

\* Handlers run in an open trading session, up to the end of the run: no earlier
\* run, ending late, closes the session of a later one (main.cpp:306-323).
OpenWhileRunning == \A s \in Runners : sim[s] = "running" => trading_open

\* GetSimulationState answers "not running" only when no simulation thread is left
\* (main.cpp:342): the flag is cleared last.
FlagCoversTheRun == (\E s \in Runners : sim[s] # "none") => g_running

\* A node becomes free for the next run, also when a thread could not be created,
\* unless an exception in a handler has ended the process (main.cpp:314-336).
NodeBecomesFree == g_running ~> ~g_running \/ terminated
==============================================================================
