----------------------------- MODULE Orchestrator -----------------------------
(***************************************************************************)
(* The orchestrator (orchestrator.go) and the nodes it sets up and runs    *)
(* (the RPC handlers of main.cpp). SetupSimulation sends one request after *)
(* the other; RunSimulation starts a collector of data, a goroutine per    *)
(* node and one that waits for them all, and reads the errors they send.   *)
(* main calls it once; the flag and the mutex are there for callers beside *)
(* it. A process that ends may be started again while the nodes live on.   *)
(***************************************************************************)
EXTENDS Integers, Sequences

CONSTANTS
  NodeList, ExchangeList, InstrumentList, ActorList,   (* Nodes and Config *)
  Watches,       (* the set of instruments that each actor of ActorList    *)
                 (* wants to hear of, among them any that are not listed   *)
  Callers,       (* those who call RunSimulation in one process            *)
  MaxFaults,     (* bound: lost requests and answers, restarted nodes,     *)
                 (* files not created                                      *)
  MaxRestarts    (* bound: how often the process is started again          *)

Elements(s) == {s[i] : i \in DOMAIN s}

Nodes       == Elements(NodeList)
Exchanges   == Elements(ExchangeList)
Instruments == Elements(InstrumentList)
Actors      == Elements(ActorList)
Watched     == UNION Elements(Watches)

ASSUME OrchestratorAssumption ==
  /\ NodeList \in Seq(Nodes) /\ Len(NodeList) > 0
  /\ ExchangeList \in Seq(Exchanges) /\ InstrumentList \in Seq(Instruments)
  /\ ActorList \in Seq(Actors) /\ DOMAIN Watches = DOMAIN ActorList
  /\ MaxFaults \in Nat /\ MaxRestarts \in Nat

VARIABLES
  node,          (* what each node holds                                   *)
  setup,         (* how many requests of SetupSimulation are answered, or  *)
                 (* Failed                                                 *)
  running,       (* o.Running                                              *)
  caller,        (* whether each caller waits in RunSimulation             *)
  answer,        (* what its last call returned                            *)
  run,           (* the goroutines and the channel of its last call        *)
  ctx,           (* "live" until a signal cancels it, then "done"          *)
  faults, restarts,
  lost           (* history: the nodes that were restarted since then      *)

process == <<setup, running, caller, answer, run, ctx>>
vars    == <<node, process, faults, restarts, lost>>

Failed == -1

Empty == [created |-> {}, listed |-> {}, subscribed |-> {}, open |-> {}, running |-> FALSE]

(* nodeErrors holds an error of each node in errors; accepted is a history *)
(* of the nodes that answered with success.                                *)
NoRun == [worker |-> [n \in Nodes |-> "none"], collector |-> "none", waiter |-> "none",
          errors |-> {}, closed |-> FALSE, accepted |-> {}]

Started ==
  /\ setup = 0 /\ running = FALSE /\ ctx = "live"
  /\ caller = [k \in Callers |-> "idle"] /\ answer = [k \in Callers |-> "none"]
  /\ run = [k \in Callers |-> NoRun]

Init == node = [n \in Nodes |-> Empty] /\ Started /\ faults = 0 /\ restarts = 0 /\ lost = {}

Fault == faults < MaxFaults /\ faults' = faults + 1

-----------------------------------------------------------------------------
(* The handlers of a node: what each leaves of the node n.                 *)

(* A new exchange, also under a name that is taken.                        *)
CreateExchange(n, e) ==
  [n EXCEPT !.created = @ \cup {e}, !.open = @ \ {e},
            !.listed = {l \in @ : l.exchange # e}, !.subscribed = {s \in @ : s.exchange # e}]

AddInstrument(n, e, i) ==
  [n EXCEPT !.listed = @ \cup {[exchange |-> e, instrument |-> i]}]

(* What an actor that wants to hear of the instruments w is to be told on  *)
(* a node: it is subscribed on the exchanges that the node has by then.    *)
Everything(a, w, n) == [actor : {a}, exchange : n.created, instrument : w]

RegisterActor(n, a, w) == [n EXCEPT !.subscribed = @ \cup Everything(a, w, n)]

OpenAndRun(n) == [n EXCEPT !.running = TRUE, !.open = n.created]

(* The simulation thread closes the exchanges and clears g_running.        *)
RunEnds(n) ==
  /\ node[n].running
  /\ node' = [node EXCEPT ![n].running = FALSE, ![n].open = {}]
  /\ UNCHANGED <<process, faults, restarts, lost>>

(* A node is started again, with nothing that was set up on it.            *)
NodeRestarts(n) ==
  /\ Fault /\ node[n] # Empty
  /\ node' = [node EXCEPT ![n] = Empty] /\ lost' = lost \cup {n}
  /\ UNCHANGED <<process, restarts>>

-----------------------------------------------------------------------------
(* SetupSimulation: the requests, in the order in which they are sent.     *)
(* exchangeNodeMap leads from the name of an exchange to the node it was   *)
(* created on, the last one if the name is given to several.               *)
Dealt(i) == NodeList[((i - 1) % Len(NodeList)) + 1]

LastNamed(e) ==
  CHOOSE i \in DOMAIN ExchangeList :
    /\ ExchangeList[i] = e
    /\ \A j \in DOMAIN ExchangeList : ExchangeList[j] = e => j <= i

Home(e) == Dealt(LastNamed(e))

Creates == [i \in DOMAIN ExchangeList |-> [kind |-> "create", exchange |-> i]]

Adds ==
  LET e == Len(ExchangeList) IN
  [k \in 1 .. (e * Len(InstrumentList)) |->
     [kind |-> "add", exchange |-> ((k - 1) % e) + 1, instrument |-> ((k - 1) \div e) + 1]]

Registers == [a \in DOMAIN ActorList |-> [kind |-> "register", actor |-> a]]

Requests_ActorsFirst == Registers \o Creates \o Adds

Requests == Creates \o Adds \o Registers

(* What handling a request makes of the node n.                            *)
Handled(q, n) ==
  CASE q.kind = "create"   -> CreateExchange(n, ExchangeList[q.exchange])
    [] q.kind = "add"      -> AddInstrument(n, ExchangeList[q.exchange], InstrumentList[q.instrument])
    [] q.kind = "register" -> RegisterActor(n, ActorList[q.actor], Watches[q.actor])

(* The node a request is sent to; the one of an actor is drawn at random.  *)
Targets(q) ==
  CASE q.kind = "create"   -> {Dealt(q.exchange)}
    [] q.kind = "add"      -> {Home(ExchangeList[q.exchange])}
    [] q.kind = "register" -> Nodes

Refused(q, n) == q.kind = "add" /\ ExchangeList[q.exchange] \notin n.created

SettingUp == setup \in 0 .. (Len(Requests) - 1)

SetupStep ==
  /\ SettingUp /\ ctx = "live"
  /\ LET q == Requests[setup + 1] IN \E n \in Targets(q) :
       IF Refused(q, node[n])
       THEN setup' = Failed /\ UNCHANGED node
       ELSE setup' = setup + 1 /\ node' = [node EXCEPT ![n] = Handled(q, node[n])]
  /\ UNCHANGED <<running, caller, answer, run, ctx, faults, restarts, lost>>

(* The request or its answer is lost, or the context has ended.            *)
SetupFails ==
  /\ SettingUp /\ setup' = Failed
  /\ IF ctx = "live" THEN Fault ELSE UNCHANGED faults
  /\ LET q == Requests[setup + 1] IN \E n \in Targets(q) :
       \/ UNCHANGED node
       \/ ctx = "live" /\ ~Refused(q, node[n]) /\ node' = [node EXCEPT ![n] = Handled(q, node[n])]
  /\ UNCHANGED <<running, caller, answer, run, ctx, restarts, lost>>

-----------------------------------------------------------------------------
(* RunSimulation. It is refused while the goroutines of a call are left.   *)
AlreadyRunning(k) ==
  /\ setup = Len(Requests) /\ caller[k] = "idle" /\ running
  /\ answer' = [answer EXCEPT ![k] = "refused"]
  /\ UNCHANGED <<node, setup, running, caller, run, ctx, faults, restarts, lost>>

RunSimulation_Anyway(k) ==
  /\ ~SettingUp /\ caller[k] = "idle" /\ ~running
  /\ running' = TRUE /\ caller' = [caller EXCEPT ![k] = "waiting"]
  /\ answer' = [answer EXCEPT ![k] = "none"]
  /\ run' = [run EXCEPT ![k] = [NoRun EXCEPT !.worker = [n \in Nodes |-> "calling"],
                                             !.collector = "collecting", !.waiter = "waiting"]]
  /\ UNCHANGED <<node, setup, ctx, faults, restarts, lost>>

(* main runs what has been set up without an error.                        *)
RunSimulation(k) ==
  /\ setup = Len(Requests) /\ caller[k] = "idle" /\ ~running
  /\ running' = TRUE /\ caller' = [caller EXCEPT ![k] = "waiting"]
  /\ answer' = [answer EXCEPT ![k] = "none"]
  /\ run' = [run EXCEPT ![k] = [NoRun EXCEPT !.worker = [n \in Nodes |-> "calling"],
                                             !.collector = "collecting", !.waiter = "waiting"]]
  /\ UNCHANGED <<node, setup, ctx, faults, restarts, lost>>

(* The handler RunSimulation of a node, and its answer.                    *)
Answered_RefusalLost(k, n) ==
  /\ run[k].worker[n] = "calling"
  /\ run' = [run EXCEPT ![k].worker[n] = "done",
                        ![k].accepted = IF node[n].running THEN @ ELSE @ \cup {n}]
  /\ node' = IF node[n].running THEN node ELSE [node EXCEPT ![n] = OpenAndRun(@)]
  /\ UNCHANGED <<setup, running, caller, answer, ctx, faults, restarts, lost>>

Answered(k, n) ==
  /\ run[k].worker[n] = "calling"
  /\ IF node[n].running
     THEN /\ run' = [run EXCEPT ![k].worker[n] = "error"]
          /\ UNCHANGED node
     ELSE /\ run' = [run EXCEPT ![k].worker[n] = "done", ![k].accepted = @ \cup {n}]
          /\ node' = [node EXCEPT ![n] = OpenAndRun(@)]
  /\ UNCHANGED <<setup, running, caller, answer, ctx, faults, restarts, lost>>

(* No answer comes: the call or its answer is lost, or the context ends.   *)
NoAnswer(k, n) ==
  /\ run[k].worker[n] = "calling"
  /\ IF ctx = "live" THEN Fault ELSE UNCHANGED faults
  /\ run' = [run EXCEPT ![k].worker[n] = "error"]
  /\ node' \in {node} \cup (IF node[n].running THEN {} ELSE {[node EXCEPT ![n] = OpenAndRun(@)]})
  /\ UNCHANGED <<setup, running, caller, answer, ctx, restarts, lost>>

(* nodeErrors has room for an error of each node.                          *)
SendError_Unbuffered(k, n) ==
  /\ run[k].worker[n] = "error" /\ caller[k] = "waiting" /\ run[k].errors = {}
  /\ run' = [run EXCEPT ![k].worker[n] = "done", ![k].errors = @ \cup {n}]
  /\ UNCHANGED <<node, setup, running, caller, answer, ctx, faults, restarts, lost>>

SendError(k, n) ==
  /\ run[k].worker[n] = "error" /\ run[k].errors # Nodes
  /\ run' = [run EXCEPT ![k].worker[n] = "done", ![k].errors = @ \cup {n}]
  /\ UNCHANGED <<node, setup, running, caller, answer, ctx, faults, restarts, lost>>

(* collectData ends with the context, or at once if it cannot create its   *)
(* file. What it collects is read by nobody.                               *)
CollectorEnds(k) ==
  /\ run[k].collector = "collecting" /\ ctx = "done"
  /\ run' = [run EXCEPT ![k].collector = "done"]
  /\ UNCHANGED <<node, setup, running, caller, answer, ctx, faults, restarts, lost>>

NoFile(k) ==
  /\ Fault /\ run[k].collector = "collecting"
  /\ run' = [run EXCEPT ![k].collector = "done"]
  /\ UNCHANGED <<node, setup, running, caller, answer, ctx, restarts, lost>>

(* wg.Wait() and close(nodeErrors); the flag is cleared after it.          *)
CloseErrors_EarlyAdd(k) ==
  /\ run[k].waiter = "waiting" /\ run[k].collector = "done"
  /\ run' = [run EXCEPT ![k].waiter = "clearing", ![k].closed = TRUE]
  /\ UNCHANGED <<node, setup, running, caller, answer, ctx, faults, restarts, lost>>

CloseErrors(k) ==
  /\ run[k].waiter = "waiting" /\ run[k].collector = "done"
  /\ \A n \in Nodes : run[k].worker[n] = "done"
  /\ run' = [run EXCEPT ![k].waiter = "clearing", ![k].closed = TRUE]
  /\ UNCHANGED <<node, setup, running, caller, answer, ctx, faults, restarts, lost>>

ClearRunning(k) ==
  /\ run[k].waiter = "clearing"
  /\ run' = [run EXCEPT ![k].waiter = "done"] /\ running' = FALSE
  /\ UNCHANGED <<node, setup, caller, answer, ctx, faults, restarts, lost>>

(* The loop over nodeErrors: the first error is returned, the goroutines   *)
(* go on; nil is returned when the channel is closed and empty.            *)
Return(k, result) ==
  /\ caller' = [caller EXCEPT ![k] = "idle"] /\ answer' = [answer EXCEPT ![k] = result]

ReturnError_Clears(k) ==
  /\ caller[k] = "waiting" /\ Return(k, "error") /\ running' = FALSE
  /\ \E n \in run[k].errors : run' = [run EXCEPT ![k].errors = @ \ {n}]
  /\ UNCHANGED <<node, setup, ctx, faults, restarts, lost>>

ReturnError(k) ==
  /\ caller[k] = "waiting" /\ Return(k, "error")
  /\ \E n \in run[k].errors : run' = [run EXCEPT ![k].errors = @ \ {n}]
  /\ UNCHANGED <<node, setup, running, ctx, faults, restarts, lost>>

ReturnNil(k) ==
  /\ caller[k] = "waiting" /\ run[k].closed /\ run[k].errors = {} /\ Return(k, "nil")
  /\ UNCHANGED <<node, setup, running, run, ctx, faults, restarts, lost>>

(* A signal; and the end of the process, by log.Fatalf or otherwise, after *)
(* which main runs again.                                                  *)
Signal ==
  /\ ctx = "live" /\ ctx' = "done"
  /\ UNCHANGED <<node, setup, running, caller, answer, run, faults, restarts, lost>>

Restart ==
  /\ restarts < MaxRestarts /\ restarts' = restarts + 1
  /\ setup' = 0 /\ running' = FALSE /\ ctx' = "live"
  /\ caller' = [k \in Callers |-> "idle"] /\ answer' = [k \in Callers |-> "none"]
  /\ run' = [k \in Callers |-> NoRun] /\ lost' = {}
  /\ UNCHANGED <<node, faults>>

-----------------------------------------------------------------------------
Goroutine(k) ==
  \/ \E n \in Nodes : Answered(k, n) \/ NoAnswer(k, n) \/ SendError(k, n)
  \/ CollectorEnds(k) \/ NoFile(k) \/ CloseErrors(k) \/ ClearRunning(k)

Next ==
  \/ SetupStep \/ SetupFails \/ Signal \/ Restart
  \/ \E n \in Nodes : RunEnds(n) \/ NodeRestarts(n)
  \/ \E k \in Callers :
       RunSimulation(k) \/ AlreadyRunning(k) \/ Goroutine(k) \/ ReturnError(k) \/ ReturnNil(k)

(* A call to a node is answered or ends with the context, and a goroutine  *)
(* that can go on does.                                                    *)
Fairness ==
  \A k \in Callers :
    /\ \A n \in Nodes : WF_vars(Answered(k, n)) /\ WF_vars(SendError(k, n))
    /\ WF_vars(CollectorEnds(k)) /\ WF_vars(CloseErrors(k)) /\ WF_vars(ClearRunning(k))
    /\ WF_vars(ReturnError(k)) /\ WF_vars(ReturnNil(k))

Spec == Init /\ [][Next]_vars /\ Fairness

-----------------------------------------------------------------------------
(* Types.                                                                  *)
NodeState ==
  [created : SUBSET Exchanges, listed : SUBSET [exchange : Exchanges, instrument : Instruments],
   subscribed : SUBSET [actor : Actors, exchange : Exchanges, instrument : Watched],
   open : SUBSET Exchanges, running : BOOLEAN]

RunState ==
  [worker : [Nodes -> {"none", "calling", "error", "done"}],
   collector : {"none", "collecting", "done"}, waiter : {"none", "waiting", "clearing", "done"},
   errors : SUBSET Nodes, closed : BOOLEAN, accepted : SUBSET Nodes]

TypeOK ==
  /\ node \in [Nodes -> NodeState] /\ setup \in {Failed} \cup 0 .. Len(Requests)
  /\ running \in BOOLEAN /\ ctx \in {"live", "done"}
  /\ caller \in [Callers -> {"idle", "waiting"}]
  /\ answer \in [Callers -> {"none", "nil", "error", "refused"}]
  /\ run \in [Callers -> RunState]
  /\ faults \in 0 .. MaxFaults /\ restarts \in 0 .. MaxRestarts /\ lost \subseteq Nodes

(* When SetupSimulation is done, whatever earlier processes left behind,   *)
(* each name of an exchange leads to a node that has the exchange with     *)
(* every instrument, and each actor is told of what it watches on every    *)
(* exchange of some node, as long as the nodes live: nothing sets up a     *)
(* node that was restarted meanwhile. An exchange under the same name on a *)
(* node dealt with before is left without instruments.                     *)
SetUpIsComplete ==
  setup = Len(Requests) =>
    /\ \A e \in Exchanges, t \in Instruments : Home(e) \notin lost =>
         [exchange |-> e, instrument |-> t] \in node[Home(e)].listed
    /\ \A a \in DOMAIN ActorList : \E n \in Nodes :
         Everything(ActorList[a], Watches[a], node[n]) \subseteq node[n].subscribed \/ n \in lost

(* A node that runs for this process trades on all the exchanges that were *)
(* created on it, with every instrument where the name leads to it.        *)
RunsAsSetUp ==
  \A k \in Callers : \A n \in run[k].accepted \ lost : node[n].running =>
    /\ \A i \in DOMAIN ExchangeList : Dealt(i) = n => ExchangeList[i] \in node[n].open
    /\ \A e \in Exchanges, t \in Instruments : Home(e) = n =>
         e \in node[n].open /\ [exchange |-> e, instrument |-> t] \in node[n].listed

(* The goroutines of one call at most are left, the collector that writes  *)
(* the output file among them, and Running stays set until they are gone,  *)
(* also after RunSimulation returned early.                                *)
Alive(k) ==
  \/ \E n \in Nodes : run[k].worker[n] \in {"calling", "error"}
  \/ run[k].collector = "collecting" \/ run[k].waiter \in {"waiting", "clearing"}

OneGeneration == \A k \in Callers : Alive(k) => running /\ \A j \in Callers \ {k} : ~Alive(j)

(* Nothing is sent on the closed channel, which would end the process.     *)
NoSendAfterClose ==
  \A k \in Callers : run[k].closed => \A n \in Nodes : run[k].worker[n] = "done"

(* nil says that every node has started the run this call asked it for.    *)
NilMeansStarted == \A k \in Callers : answer[k] = "nil" => run[k].accepted = Nodes

(* Once the context has ended RunSimulation returns, and every goroutine   *)
(* ends, so that the flag is cleared: no error is left without a reader.   *)
ShutsDown ==
  /\ ctx = "done" ~> ~running
  /\ \A k \in Callers : caller[k] = "waiting" /\ ctx = "done" ~> caller[k] = "idle"
===============================================================================
