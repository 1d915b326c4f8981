-------------------------- MODULE OrchestratorProofs --------------------------
(***************************************************************************)
(* RunSimulation for any number of nodes, callers, faults and restarts: at *)
(* most one call has goroutines, none of them sends on a closed channel,   *)
(* and nil means that every node has started. SetupSimulation for any      *)
(* lists of exchanges, instruments and actors: what is set up is complete, *)
(* and is what the nodes run.                                              *)
(***************************************************************************)
EXTENDS Orchestrator, SequenceTheorems, FiniteSetTheorems, WellFoundedInduction, TLAPS

RunTypes ==
  /\ run \in [Callers -> RunState] /\ caller \in [Callers -> {"idle", "waiting"}]
  /\ answer \in [Callers -> {"none", "nil", "error", "refused"}]

(* The waiter is past wg.Wait only when every goroutine is done, and it is *)
(* the one that closes the channel.                                        *)
Waited(k) ==
  /\ run[k].closed <=> run[k].waiter \in {"clearing", "done"}
  /\ run[k].closed =>
       run[k].collector = "done" /\ \A n \in Nodes : run[k].worker[n] = "done"

(* While the caller still reads, a goroutine that is done has been         *)
(* accepted by its node or has left its error in the channel.              *)
Told(k) ==
  caller[k] = "waiting" =>
    \A n \in Nodes : run[k].worker[n] = "done" => n \in run[k].accepted \cup run[k].errors

IInv ==
  /\ RunTypes /\ OneGeneration /\ NilMeansStarted
  /\ \A k \in Callers : Waited(k) /\ Told(k)

(* Before the first call there are no goroutines.                          *)
LEMMA NothingStarted ==
  ASSUME run = [k \in Callers |-> NoRun], caller = [k \in Callers |-> "idle"],
         answer = [k \in Callers |-> "none"]
  PROVE  IInv
<1>1. NoRun \in RunState
  BY DEF NoRun, RunState
<1>2. RunTypes
  BY <1>1 DEF RunTypes
<1>3. \A k \in Callers : Waited(k) /\ Told(k) /\ ~Alive(k)
  BY DEF Waited, Told, Alive, NoRun
<1> QED
  BY <1>2, <1>3 DEF IInv, OneGeneration, NilMeansStarted

(* A step of one call that starts no goroutine and leaves the flag alone.  *)
LEMMA OneCallMoves ==
  ASSUME IInv, NEW k \in Callers, NEW r \in RunState, NEW c \in {"idle", "waiting"},
         NEW a \in {"none", "nil", "error", "refused"}, UNCHANGED running,
         run' = [run EXCEPT ![k] = r], caller' = [caller EXCEPT ![k] = c],
         answer' = [answer EXCEPT ![k] = a],
         Alive(k)' => Alive(k), Waited(k)', Told(k)', a = "nil" => r.accepted = Nodes
  PROVE  IInv'
<1>1. RunTypes'
  BY DEF IInv, RunTypes
<1>2. run'[k] = r /\ answer'[k] = a
  BY DEF IInv, RunTypes
<1>3. \A j \in Callers \ {k} : run'[j] = run[j] /\ caller'[j] = caller[j] /\ answer'[j] = answer[j]
  BY DEF IInv, RunTypes
<1>4. \A j \in Callers \ {k} : (Alive(j)' <=> Alive(j)) /\ Waited(j)' /\ Told(j)'
  BY <1>3 DEF IInv, Alive, Waited, Told
<1>5. OneGeneration'
  BY <1>4 DEF IInv, OneGeneration
<1>6. NilMeansStarted'
  BY <1>2, <1>3 DEF IInv, NilMeansStarted
<1> QED
  BY <1>1, <1>4, <1>5, <1>6 DEF IInv

(* A goroutine that talks to a node goes on.                               *)
LEMMA WorkerStep ==
  ASSUME IInv, NEW k \in Callers, NEW n \in Nodes,
         Answered(k, n) \/ NoAnswer(k, n) \/ SendError(k, n)
  PROVE  IInv'
<1> DEFINE r == run[k]
           After(w, e, t) == [r EXCEPT !.worker = [@ EXCEPT ![n] = w], !.errors = e, !.accepted = t]
<1>1. r \in RunState /\ run \in [Callers -> RunState] /\ Waited(k) /\ Told(k)
  BY DEF IInv, RunTypes
<1>2. UNCHANGED <<running, caller, answer>>
  BY DEF Answered, NoAnswer, SendError
<1>3. /\ caller' = [caller EXCEPT ![k] = caller[k]] /\ answer' = [answer EXCEPT ![k] = answer[k]]
      /\ caller[k] \in {"idle", "waiting"} /\ answer[k] \in {"none", "nil", "error", "refused"}
      /\ answer[k] = "nil" => r.accepted = Nodes
  BY <1>2 DEF IInv, RunTypes, NilMeansStarted
<1>4. r.worker[n] \in {"calling", "error"} /\ Alive(k) /\ ~r.closed
  BY <1>1 DEF Answered, NoAnswer, SendError, Alive, Waited
<1>5. ASSUME NEW w \in {"error", "done"}, NEW e \in SUBSET Nodes, NEW t \in SUBSET Nodes,
             run' = [run EXCEPT ![k] = After(w, e, t)],
             r.errors \subseteq e, r.accepted \subseteq t, w = "done" => n \in e \cup t
      PROVE  IInv'
  <2> DEFINE s == After(w, e, t)
  <2>1. s \in RunState /\ s.closed = r.closed /\ s.waiter = r.waiter /\ s.errors = e /\ s.accepted = t
    BY <1>1 DEF RunState
  <2>2. s.worker = [r.worker EXCEPT ![n] = w] /\ r.worker \in [Nodes -> {"none", "calling", "error", "done"}]
    BY <1>1 DEF RunState
  <2>3. run'[k] = s
    BY <1>1, <1>5
  <2> HIDE DEF s, r
  <2>4. Waited(k)'
    BY <1>1, <1>4, <2>1, <2>3 DEF Waited, r
  <2>5. Told(k)'
    BY <1>1, <1>2, <1>5, <2>1, <2>2, <2>3 DEF Told, r
  <2>6. answer[k] = "nil" => s.accepted = Nodes
    BY <1>3, <1>5, <2>1
  <2>7. run' = [run EXCEPT ![k] = s]
    BY <1>5 DEF s
  <2> QED
    BY <1>2, <1>3, <1>4, <2>1, <2>4, <2>5, <2>6, <2>7, OneCallMoves
<1>6. r.errors \in SUBSET Nodes /\ r.accepted \in SUBSET Nodes
  BY <1>1 DEF RunState
<1>7. r.errors \cup {n} \in SUBSET Nodes /\ r.accepted \cup {n} \in SUBSET Nodes
  BY <1>6
<1>8. CASE run' = [run EXCEPT ![k].worker[n] = "error"]
  <2>1. After("error", r.errors, r.accepted) = [r EXCEPT !.worker[n] = "error"]
    BY <1>1 DEF RunState
  <2>2. run' = [run EXCEPT ![k] = After("error", r.errors, r.accepted)]
    BY <1>8, <2>1
  <2> HIDE DEF r, After
  <2> QED
    BY <1>5, <1>6, <2>2
<1>9. CASE run' = [run EXCEPT ![k].worker[n] = "done", ![k].accepted = @ \cup {n}]
  <2>1. After("done", r.errors, r.accepted \cup {n})
        = [r EXCEPT !.worker[n] = "done", !.accepted = @ \cup {n}]
    BY <1>1 DEF RunState
  <2>2. run' = [run EXCEPT ![k] = [r EXCEPT !.worker[n] = "done", !.accepted = @ \cup {n}]]
    BY <1>1, <1>9
  <2>3. run' = [run EXCEPT ![k] = After("done", r.errors, r.accepted \cup {n})]
    BY <2>1, <2>2
  <2> HIDE DEF r, After
  <2> QED
    BY <1>5, <1>6, <1>7, <2>3
<1>10. CASE run' = [run EXCEPT ![k].worker[n] = "done", ![k].errors = @ \cup {n}]
  <2>1. After("done", r.errors \cup {n}, r.accepted)
        = [r EXCEPT !.worker[n] = "done", !.errors = @ \cup {n}]
    BY <1>1 DEF RunState
  <2>2. run' = [run EXCEPT ![k] = [r EXCEPT !.worker[n] = "done", !.errors = @ \cup {n}]]
    BY <1>1, <1>10
  <2>3. run' = [run EXCEPT ![k] = After("done", r.errors \cup {n}, r.accepted)]
    BY <2>1, <2>2
  <2> HIDE DEF r, After
  <2> QED
    BY <1>5, <1>6, <1>7, <2>3
<1> HIDE DEF r, After
<1> QED
  BY <1>8, <1>9, <1>10 DEF Answered, NoAnswer, SendError

(* The collector ends, and the waiter closes the channel.                  *)
LEMMA EndStep ==
  ASSUME IInv, NEW k \in Callers, CollectorEnds(k) \/ NoFile(k) \/ CloseErrors(k)
  PROVE  IInv'
<1> DEFINE r == run[k]
<1>1. r \in RunState /\ run \in [Callers -> RunState] /\ Waited(k) /\ Told(k)
  BY DEF IInv, RunTypes
<1>2. UNCHANGED <<running, caller, answer>>
  BY DEF CollectorEnds, NoFile, CloseErrors
<1>3. /\ caller' = [caller EXCEPT ![k] = caller[k]] /\ answer' = [answer EXCEPT ![k] = answer[k]]
      /\ caller[k] \in {"idle", "waiting"} /\ answer[k] \in {"none", "nil", "error", "refused"}
      /\ answer[k] = "nil" => r.accepted = Nodes
  BY <1>2 DEF IInv, RunTypes, NilMeansStarted
<1>4. Alive(k)
  BY DEF CollectorEnds, NoFile, CloseErrors, Alive
<1>5. CASE CollectorEnds(k) \/ NoFile(k)
  <2> DEFINE s == [r EXCEPT !.collector = "done"]
  <2>1. s \in RunState /\ s.closed = r.closed /\ s.waiter = r.waiter /\ s.errors = r.errors
        /\ s.accepted = r.accepted /\ s.worker = r.worker /\ s.collector = "done"
    BY <1>1 DEF RunState
  <2>2. run' = [run EXCEPT ![k] = s] /\ run'[k] = s
    BY <1>1, <1>5 DEF CollectorEnds, NoFile
  <2> HIDE DEF s
  <2>3. Waited(k)' /\ Told(k)'
    BY <1>1, <1>2, <2>1, <2>2 DEF Waited, Told
  <2> QED
    BY <1>2, <1>3, <1>4, <2>1, <2>2, <2>3, OneCallMoves
<1>6. CASE CloseErrors(k)
  <2> DEFINE s == [r EXCEPT !.waiter = "clearing", !.closed = TRUE]
  <2>1. s \in RunState /\ s.closed /\ s.waiter = "clearing" /\ s.errors = r.errors
        /\ s.accepted = r.accepted /\ s.worker = r.worker /\ s.collector = r.collector
    BY <1>1 DEF RunState
  <2>2. run' = [run EXCEPT ![k] = s] /\ run'[k] = s
    BY <1>1, <1>6 DEF CloseErrors
  <2> HIDE DEF s
  <2>3. Waited(k)' /\ Told(k)'
    BY <1>1, <1>2, <1>6, <2>1, <2>2 DEF Waited, Told, CloseErrors
  <2> QED
    BY <1>2, <1>3, <1>4, <2>1, <2>2, <2>3, OneCallMoves
<1> QED
  BY <1>5, <1>6

(* The loop over the errors returns.                                       *)
LEMMA ReturnStep ==
  ASSUME IInv, NEW k \in Callers, ReturnError(k) \/ ReturnNil(k)
  PROVE  IInv'
<1> DEFINE r == run[k]
<1>1. r \in RunState /\ run \in [Callers -> RunState] /\ caller \in [Callers -> {"idle", "waiting"}]
      /\ Waited(k) /\ Told(k) /\ r.accepted \subseteq Nodes
  BY DEF IInv, RunTypes, RunState
<1>2. UNCHANGED running /\ caller' = [caller EXCEPT ![k] = "idle"] /\ caller'[k] = "idle"
  BY <1>1 DEF ReturnError, ReturnNil, Return
<1>3. Told(k)'
  BY <1>2 DEF Told
<1>4. CASE ReturnError(k)
  <2>1. PICK n \in r.errors : run' = [run EXCEPT ![k].errors = @ \ {n}]
    BY <1>4 DEF ReturnError
  <2> DEFINE s == [r EXCEPT !.errors = r.errors \ {n}]
  <2>2. s \in RunState /\ s.closed = r.closed /\ s.waiter = r.waiter
        /\ s.worker = r.worker /\ s.collector = r.collector
    BY <1>1 DEF RunState
  <2>3. run' = [run EXCEPT ![k] = s] /\ run'[k] = s
    BY <1>1, <2>1
  <2> HIDE DEF s
  <2>4. Waited(k)' /\ (Alive(k)' => Alive(k))
    BY <1>1, <2>2, <2>3 DEF Waited, Alive
  <2> QED
    BY <1>2, <1>3, <1>4, <2>2, <2>3, <2>4, OneCallMoves DEF ReturnError, Return
<1>5. CASE ReturnNil(k)
  <2>1. run' = [run EXCEPT ![k] = r] /\ run'[k] = r
    BY <1>1, <1>5 DEF ReturnNil
  <2>2. Waited(k)' /\ (Alive(k)' => Alive(k))
    BY <1>1, <2>1 DEF Waited, Alive
  <2>3. r.accepted = Nodes
    BY <1>1, <1>5 DEF ReturnNil, Waited, Told
  <2> HIDE DEF r
  <2> QED
    BY <1>1, <1>2, <1>3, <1>5, <2>1, <2>2, <2>3, OneCallMoves DEF ReturnNil, Return
<1> QED
  BY <1>4, <1>5

(* A call finds another one at work, or begins when none has goroutines.   *)
LEMMA CallStep ==
  ASSUME IInv, NEW k \in Callers, AlreadyRunning(k) \/ RunSimulation(k)
  PROVE  IInv'
<1>1. RunTypes /\ Waited(k) /\ Told(k) /\ run[k] \in RunState
  BY DEF IInv, RunTypes
<1>2. CASE AlreadyRunning(k)
  <2>1. run' = [run EXCEPT ![k] = run[k]] /\ caller' = [caller EXCEPT ![k] = caller[k]]
        /\ UNCHANGED <<run, caller, running>> /\ answer' = [answer EXCEPT ![k] = "refused"]
        /\ caller[k] \in {"idle", "waiting"}
    BY <1>1, <1>2 DEF AlreadyRunning, RunTypes
  <2>2. Waited(k)' /\ Told(k)' /\ (Alive(k)' => Alive(k))
    BY <1>1, <2>1 DEF Waited, Told, Alive
  <2> QED
    BY <1>1, <2>1, <2>2, OneCallMoves
<1>3. CASE RunSimulation(k)
  <2> DEFINE s == [NoRun EXCEPT !.worker = [n \in Nodes |-> "calling"],
                                !.collector = "collecting", !.waiter = "waiting"]
  <2>1. s \in RunState /\ ~s.closed /\ s.waiter = "waiting" /\ \A n \in Nodes : s.worker[n] = "calling"
    BY DEF NoRun, RunState
  <2>2. run' = [run EXCEPT ![k] = s] /\ running' /\ caller' = [caller EXCEPT ![k] = "waiting"]
        /\ answer' = [answer EXCEPT ![k] = "none"]
    BY <1>3 DEF RunSimulation
  <2> HIDE DEF s
  <2>3. run'[k] = s /\ answer'[k] = "none" /\ RunTypes'
    BY <1>1, <2>1, <2>2 DEF RunTypes
  <2>4. \A j \in Callers \ {k} : run'[j] = run[j] /\ caller'[j] = caller[j] /\ answer'[j] = answer[j]
    BY <1>1, <2>2 DEF RunTypes
  <2>5. \A j \in Callers : ~Alive(j)
    BY <1>3 DEF IInv, OneGeneration, RunSimulation
  <2>6. \A j \in Callers \ {k} : ~Alive(j)' /\ Waited(j)' /\ Told(j)'
    BY <2>4, <2>5 DEF IInv, Alive, Waited, Told
  <2>7. Waited(k)' /\ Told(k)'
    BY <2>1, <2>3 DEF Waited, Told
  <2>8. OneGeneration'
    BY <2>2, <2>6 DEF OneGeneration
  <2>9. NilMeansStarted'
    BY <2>3, <2>4 DEF IInv, NilMeansStarted
  <2> QED
    BY <2>3, <2>6, <2>7, <2>8, <2>9 DEF IInv
<1> QED
  BY <1>2, <1>3

(* The flag is cleared when nothing is left to cover.                      *)
LEMMA ClearStep ==
  ASSUME IInv, NEW k \in Callers, ClearRunning(k)
  PROVE  IInv'
<1> DEFINE s == [run[k] EXCEPT !.waiter = "done"]
<1>1. RunTypes /\ Waited(k) /\ run[k] \in RunState
  BY DEF IInv, RunTypes
<1>2. s \in RunState /\ s.closed = run[k].closed /\ s.waiter = "done" /\ s.errors = run[k].errors
      /\ s.accepted = run[k].accepted /\ s.worker = run[k].worker /\ s.collector = run[k].collector
  BY <1>1 DEF RunState
<1>3. run' = [run EXCEPT ![k] = s] /\ UNCHANGED <<caller, answer>> /\ run[k].waiter = "clearing"
  BY DEF ClearRunning
<1> HIDE DEF s
<1>4. run'[k] = s /\ RunTypes' /\ \A j \in Callers \ {k} : run'[j] = run[j]
  BY <1>1, <1>2, <1>3 DEF RunTypes
<1>5. Alive(k) /\ \A j \in Callers \ {k} : ~Alive(j)
  BY <1>3 DEF IInv, OneGeneration, Alive
<1>6. Waited(k)' /\ ~Alive(k)'
  BY <1>1, <1>2, <1>3, <1>4 DEF Waited, Alive
<1>7. \A j \in Callers \ {k} : ~Alive(j)' /\ Waited(j)'
  BY <1>4, <1>5 DEF IInv, Alive, Waited
<1>8. \A j \in Callers : Told(j)'
  BY <1>2, <1>3, <1>4 DEF IInv, Told
<1>9. NilMeansStarted'
  BY <1>2, <1>3, <1>4 DEF IInv, NilMeansStarted
<1> QED
  BY <1>4, <1>6, <1>7, <1>8, <1>9 DEF IInv, OneGeneration

(* A step of the setup, of a node or of the context.                       *)
LEMMA OtherStep ==
  ASSUME IInv, UNCHANGED <<running, caller, answer, run>>
  PROVE  IInv'
BY DEF IInv, RunTypes, OneGeneration, Alive, NilMeansStarted, Waited, Told

(* Every step preserves the invariant.                                     *)
LEMMA NextKeeps == IInv /\ [Next]_vars => IInv'
<1> SUFFICES ASSUME IInv, [Next]_vars PROVE IInv'
  OBVIOUS
<1>1. CASE SetupStep \/ SetupFails \/ Signal \/ \E n \in Nodes : RunEnds(n) \/ NodeRestarts(n)
  <2>1. UNCHANGED <<running, caller, answer, run>>
    BY <1>1 DEF SetupStep, SetupFails, Signal, RunEnds, NodeRestarts, process
  <2> QED
    BY <2>1, OtherStep
<1>2. CASE Restart
  <2>1. /\ run' = [k \in Callers |-> NoRun] /\ caller' = [k \in Callers |-> "idle"]
        /\ answer' = [k \in Callers |-> "none"]
    BY <1>2 DEF Restart
  <2>2. NoRun \in RunState
    BY DEF NoRun, RunState
  <2>3. RunTypes'
    BY <2>1, <2>2 DEF RunTypes
  <2>4. \A k \in Callers : Waited(k)' /\ Told(k)' /\ ~Alive(k)'
    BY <2>1 DEF Waited, Told, Alive, NoRun
  <2> QED
    BY <2>1, <2>3, <2>4 DEF IInv, OneGeneration, NilMeansStarted
<1>3. ASSUME NEW k \in Callers,
             RunSimulation(k) \/ AlreadyRunning(k) \/ Goroutine(k) \/ ReturnError(k) \/ ReturnNil(k)
      PROVE  IInv'
  BY <1>3, CallStep, WorkerStep, EndStep, ClearStep, ReturnStep DEF Goroutine
<1>4. CASE UNCHANGED vars
  BY <1>4, OtherStep DEF vars, process
<1> QED
  BY <1>1, <1>2, <1>3, <1>4 DEF Next

(* The invariant holds of every behaviour.                                 *)
LEMMA Invariant == Spec => []IInv
<1>1. Init => IInv
  BY NothingStarted DEF Init, Started
<1> QED
  BY <1>1, NextKeeps, PTL DEF Spec

(* At most one call of RunSimulation has goroutines, and Running stays set *)
(* until they are gone, also after an early return.                        *)
THEOREM OneGenerationAtATime == Spec => []OneGeneration
<1>1. IInv => OneGeneration
  BY DEF IInv
<1> QED
  BY <1>1, Invariant, PTL

(* No goroutine sends on nodeErrors once it is closed.                     *)
THEOREM ChannelOutlivesSenders == Spec => []NoSendAfterClose
<1>1. IInv => NoSendAfterClose
  BY DEF IInv, Waited, NoSendAfterClose
<1> QED
  BY <1>1, Invariant, PTL

(* RunSimulation returns nil only when every node has started its run.     *)
THEOREM NilStartsEveryNode == Spec => []NilMeansStarted
<1>1. IInv => NilMeansStarted
  BY DEF IInv
<1> QED
  BY <1>1, Invariant, PTL

-----------------------------------------------------------------------------
(* The requests of SetupSimulation, one by one.                            *)

(* How many exchanges, pairs of an exchange and an instrument, and actors.  *)
ExchangeCount == Len(ExchangeList)
PairCount == Len(ExchangeList) * Len(InstrumentList)
ActorCount == Len(ActorList)

(* The lists have lengths, and there is a node.                            *)
LEMMA Counts ==
  /\ ExchangeCount \in Nat /\ PairCount \in Nat /\ ActorCount \in Nat
  /\ Len(InstrumentList) \in Nat /\ Len(NodeList) \in Nat \ {0}
  /\ DOMAIN ExchangeList = 1..ExchangeCount /\ DOMAIN ActorList = 1..ActorCount
  /\ DOMAIN InstrumentList = 1..Len(InstrumentList) /\ DOMAIN NodeList = 1..Len(NodeList)
<1>1. /\ Len(ExchangeList) \in Nat /\ Len(InstrumentList) \in Nat
      /\ Len(ActorList) \in Nat /\ Len(NodeList) \in Nat
  BY OrchestratorAssumption, LenProperties
<1>2. PICK e, i : e = Len(ExchangeList) /\ i = Len(InstrumentList)
  OBVIOUS
<1>3. e * i \in Nat
  BY <1>1, <1>2
<1> QED
  BY <1>1, <1>2, <1>3, OrchestratorAssumption, LenProperties DEF ExchangeCount, PairCount, ActorCount

(* A quotient and a remainder.                                             *)
LEMMA Division ==
  ASSUME NEW e \in Nat \ {0}, NEW x \in Nat
  PROVE  \E q \in Nat, r \in 0..(e - 1) : q = x \div e /\ r = x % e /\ x = q * e + r
<1>1. PICK q, r : q = x \div e /\ r = x % e
  OBVIOUS
<1>2. x = e * q + r
  BY <1>1
<1>3. q \in Int /\ r \in Nat /\ r < e
  BY <1>1
<1>4. q >= 0
  <2> SUFFICES ASSUME q <= -1 PROVE FALSE
    BY <1>3
  <2>1. PICK k \in Nat : q = -1 - k
    <3>1. -1 - q \in Nat
      BY <1>3
    <3> QED
      BY <1>3, <3>1
  <2>2. e * q = -e - e * k /\ e * k >= 0
    BY <2>1
  <2> QED
    BY <1>2, <1>3, <2>2
<1>5. e * q = q * e
  BY <1>3
<1>6. q \in Nat /\ r \in 0..(e - 1) /\ x = q * e + r
  BY <1>2, <1>3, <1>4, <1>5
<1> QED
  BY <1>1, <1>6

(* Numbers below e are told apart by the remainder.                        *)
LEMMA Pairing ==
  ASSUME NEW e \in Nat \ {0}, NEW y \in Nat, NEW r \in 0..(e - 1)
  PROVE  (y * e + r) % e = r /\ (y * e + r) \div e = y
<1>1. PICK x \in Nat : x = y * e + r
  OBVIOUS
<1>2. PICK q \in Nat, s \in 0..(e - 1) : q = x \div e /\ s = x % e /\ x = q * e + s
  BY Division
<1>3. x = q * e + s
  BY <1>2
<1>4. y <= q
  <2> SUFFICES ASSUME q + 1 <= y PROVE FALSE
    OBVIOUS
  <2>1. (q + 1) * e <= y * e
    <3>1. PICK d \in Nat : y = q + 1 + d
      <4>1. y - (q + 1) \in Nat
        OBVIOUS
      <4> QED
        BY <4>1
    <3>2. y * e = (q + 1) * e + d * e /\ d * e >= 0
      BY <3>1
    <3> QED
      BY <3>2
  <2>2. (q + 1) * e = q * e + e
    OBVIOUS
  <2> QED
    BY <1>1, <1>3, <2>1, <2>2
<1>5. q <= y
  <2> SUFFICES ASSUME y + 1 <= q PROVE FALSE
    OBVIOUS
  <2>1. (y + 1) * e <= q * e
    <3>1. PICK d \in Nat : q = y + 1 + d
      <4>1. q - (y + 1) \in Nat
        OBVIOUS
      <4> QED
        BY <4>1
    <3>2. q * e = (y + 1) * e + d * e /\ d * e >= 0
      BY <3>1
    <3> QED
      BY <3>2
  <2>2. (y + 1) * e = y * e + e
    OBVIOUS
  <2> QED
    BY <1>1, <1>3, <2>1, <2>2
<1>6. y = q
  BY <1>4, <1>5
<1>7. r = s
  BY <1>1, <1>3, <1>6
<1> QED
  BY <1>1, <1>2, <1>6, <1>7

(* A sequence given by its elements.                                       *)
LEMMA SequenceOf ==
  ASSUME NEW n \in Nat, NEW S, NEW f \in [1..n -> S]
  PROVE  f \in Seq(S) /\ Len(f) = n
<1>1. f \in Seq(S)
  BY SeqDef
<1>2. DOMAIN f = 1..n
  OBVIOUS
<1> QED
  BY <1>1, <1>2, LenProperties

CreateOf(i) == [kind |-> "create", exchange |-> i]
AddOf(k) == [kind |-> "add", exchange |-> ((k - 1) % ExchangeCount) + 1,
             instrument |-> ((k - 1) \div ExchangeCount) + 1]
RegisterOf(a) == [kind |-> "register", actor |-> a]

(* Which request is the n-th.                                              *)
LEMMA RequestList ==
  /\ Len(Requests) = ExchangeCount + PairCount + ActorCount
  /\ \A i \in 1..ExchangeCount : Requests[i] = CreateOf(i)
  /\ \A k \in 1..PairCount : Requests[ExchangeCount + k] = AddOf(k)
  /\ \A a \in 1..ActorCount : Requests[ExchangeCount + PairCount + a] = RegisterOf(a)
<1> DEFINE S == {CreateOf(i) : i \in 1..ExchangeCount} \cup {AddOf(k) : k \in 1..PairCount}
                  \cup {RegisterOf(a) : a \in 1..ActorCount}
<1>1. /\ Creates = [i \in 1..ExchangeCount |-> CreateOf(i)]
      /\ Adds = [k \in 1..PairCount |-> AddOf(k)]
      /\ Registers = [a \in 1..ActorCount |-> RegisterOf(a)]
  <2>1. Creates = [i \in 1..ExchangeCount |-> CreateOf(i)]
    BY Counts DEF Creates, CreateOf
  <2>2. Adds = [k \in 1..PairCount |-> AddOf(k)]
    BY DEF Adds, AddOf, PairCount, ExchangeCount
  <2>3. Registers = [a \in 1..ActorCount |-> RegisterOf(a)]
    BY Counts DEF Registers, RegisterOf
  <2> QED
    BY <2>1, <2>2, <2>3
<1>2. PICK c, d, r, n, m, l :
        /\ c = Creates /\ d = Adds /\ r = Registers
        /\ n = ExchangeCount /\ m = PairCount /\ l = ActorCount
  OBVIOUS
<1>3. /\ c \in [1..n -> S] /\ \A i \in 1..n : c[i] = CreateOf(i)
      /\ d \in [1..m -> S] /\ \A k \in 1..m : d[k] = AddOf(k)
      /\ r \in [1..l -> S] /\ \A a \in 1..l : r[a] = RegisterOf(a)
  <2> HIDE DEF CreateOf, AddOf, RegisterOf
  <2> QED
    BY <1>1, <1>2
<1>4. n \in Nat /\ m \in Nat /\ l \in Nat
  BY <1>2, Counts
<1> HIDE DEF S
<1>5. /\ c \in Seq(S) /\ Len(c) = n /\ d \in Seq(S) /\ Len(d) = m /\ r \in Seq(S) /\ Len(r) = l
  BY <1>3, <1>4, SequenceOf
<1>6. PICK cd : cd = c \o d
  OBVIOUS
<1>7. /\ cd \in Seq(S) /\ Len(cd) = n + m
      /\ \A i \in 1..(n + m) : cd[i] = IF i <= n THEN c[i] ELSE d[i - n]
  <2>1. /\ c \o d \in Seq(S) /\ Len(c \o d) = Len(c) + Len(d)
        /\ \A i \in 1 .. Len(c) + Len(d) : (c \o d)[i] = IF i <= Len(c) THEN c[i] ELSE d[i - Len(c)]
    BY <1>5, ConcatProperties
  <2> QED
    BY <1>5, <1>6, <2>1
<1>8. PICK q : q = cd \o r
  OBVIOUS
<1>9. /\ Len(q) = n + m + l
      /\ \A i \in 1..(n + m + l) : q[i] = IF i <= n + m THEN cd[i] ELSE r[i - (n + m)]
  <2>1. cd \in Seq(S) /\ r \in Seq(S)
    BY <1>5, <1>7
  <2>2. /\ Len(cd \o r) = Len(cd) + Len(r)
        /\ \A i \in 1 .. Len(cd) + Len(r) :
             (cd \o r)[i] = IF i <= Len(cd) THEN cd[i] ELSE r[i - Len(cd)]
    BY <2>1, ConcatProperties
  <2> QED
    BY <1>5, <1>7, <1>8, <2>2
<1>10. Requests = q
  BY <1>2, <1>6, <1>8 DEF Requests
<1>11. \A i \in 1..n : q[i] = c[i]
  BY <1>4, <1>7, <1>9
<1>12. \A k \in 1..m : q[n + k] = d[k]
  <2> TAKE k \in 1..m
  <2>1. PICK i : i = n + k
    OBVIOUS
  <2>2. i \in 1..(n + m) /\ i \in 1..(n + m + l) /\ ~(i <= n) /\ i <= n + m /\ i - n = k
    BY <1>4, <2>1
  <2>3. q[i] = cd[i] /\ cd[i] = d[i - n]
    BY <1>7, <1>9, <2>2
  <2> QED
    BY <2>1, <2>2, <2>3
<1>13. \A a \in 1..l : q[n + m + a] = r[a]
  <2> TAKE a \in 1..l
  <2>1. PICK i : i = n + m + a
    OBVIOUS
  <2>2. i \in 1..(n + m + l) /\ ~(i <= n + m) /\ i - (n + m) = a
    BY <1>4, <2>1
  <2>3. q[i] = r[i - (n + m)]
    BY <1>9, <2>2
  <2> QED
    BY <2>1, <2>2, <2>3
<1> HIDE DEF CreateOf, AddOf, RegisterOf
<1> QED
  BY <1>2, <1>3, <1>9, <1>10, <1>11, <1>12, <1>13

(* The exchange and the instrument of a pair.                              *)
PairExchange(k) == ((k - 1) % ExchangeCount) + 1
PairInstrument(k) == ((k - 1) \div ExchangeCount) + 1

(* A pair is of an exchange and an instrument of the lists.                *)
LEMMA PairBounds ==
  ASSUME NEW k \in 1..PairCount
  PROVE  PairExchange(k) \in 1..ExchangeCount /\ PairInstrument(k) \in 1..Len(InstrumentList)
<1>1. PICK e, i, x : e = ExchangeCount /\ i = Len(InstrumentList) /\ x = k - 1
  OBVIOUS
<1>2. PairCount = e * i
  BY <1>1 DEF PairCount, ExchangeCount
<1>3. e \in Nat /\ i \in Nat /\ x \in Nat /\ x + 1 <= e * i
  BY <1>1, <1>2, Counts
<1>4. e # 0
  <2> SUFFICES ASSUME e = 0 PROVE FALSE
    OBVIOUS
  <2>1. e * i = 0
    BY <1>3
  <2> QED
    BY <1>3, <2>1
<1>5. PICK q \in Nat, r \in 0..(e - 1) : q = x \div e /\ r = x % e /\ x = q * e + r
  BY <1>3, <1>4, Division
<1>6. q + 1 <= i
  <2> SUFFICES ASSUME i <= q PROVE FALSE
    BY <1>3
  <2>1. PICK d \in Nat : q = i + d
    <3>1. q - i \in Nat
      BY <1>3
    <3> QED
      BY <1>3, <3>1
  <2>2. q * e = e * i + d * e /\ d * e >= 0
    BY <1>3, <2>1
  <2> QED
    BY <1>3, <1>5, <2>2
<1>7. q + 1 \in 1..i /\ r + 1 \in 1..e
  BY <1>3, <1>4, <1>6
<1> QED
  BY <1>1, <1>5, <1>7 DEF PairExchange, PairInstrument

(* Every exchange is paired with every instrument.                         *)
LEMMA PairExists ==
  ASSUME NEW i \in 1..ExchangeCount, NEW j \in 1..Len(InstrumentList)
  PROVE  \E k \in 1..PairCount : PairExchange(k) = i /\ PairInstrument(k) = j
<1>1. PICK e, l : e = ExchangeCount /\ l = Len(InstrumentList)
  OBVIOUS
<1>2. PairCount = e * l
  BY <1>1 DEF PairCount, ExchangeCount
<1>3. e \in Nat /\ l \in Nat /\ i \in 1..e /\ j \in 1..l
  BY <1>1, Counts
<1>4. PICK y \in Nat, r \in 0..(e - 1) : y = j - 1 /\ r = i - 1
  BY <1>3
<1>5. PICK x \in Nat : x = y * e + r
  <2>1. y * e + r \in Nat
    BY <1>3
  <2> QED
    BY <2>1
<1>6. e \in Nat \ {0}
  BY <1>3
<1>7. (y * e + r) % e = r /\ (y * e + r) \div e = y
  BY <1>4, <1>6, Pairing
<1>8. x % e = r /\ x \div e = y
  BY <1>5, <1>7
<1>9. x + 1 <= e * l
  <2>1. PICK d \in Nat : l = y + 1 + d
    <3>1. l - (y + 1) \in Nat
      BY <1>3, <1>4
    <3> QED
      BY <1>3, <3>1
  <2>2. e * l = y * e + e + d * e /\ d * e >= 0
    BY <1>3, <2>1
  <2> QED
    BY <1>3, <1>5, <2>2
<1>10. PICK k : k = x + 1
  OBVIOUS
<1>11. k \in 1..PairCount /\ k - 1 = x
  BY <1>2, <1>3, <1>9, <1>10
<1>12. r + 1 = i /\ y + 1 = j
  BY <1>3, <1>4
<1>13. PairExchange(k) = i /\ PairInstrument(k) = j
  BY <1>1, <1>8, <1>11, <1>12 DEF PairExchange, PairInstrument
<1> QED
  BY <1>11, <1>13

(* A set of numbers up to d has a greatest one.                            *)
LEMMA GreatestNumber ==
  ASSUME NEW d \in Nat, NEW B \in SUBSET (1..d), B # {}
  PROVE  \E m \in B : \A k \in B : k <= m
<1> DEFINE F == FiniteSubsetsOf(Nat)
           R == StrictSubsetOrdering(Nat)
           T == {n..d : n \in B}
<1>1. IsWellFoundedOn(R, F)
  BY FS_StrictSubsetOrderingWellFounded
<1>2. T \subseteq F /\ T # {}
  <2>1. \A n \in B : n..d \in SUBSET Nat /\ IsFiniteSet(n..d)
    BY FS_Interval
  <2>. QED  BY <2>1 DEF FiniteSubsetsOf
<1>3. \E x \in T : \A y \in T : ~(<<y, x>> \in R)
  <2>. HIDE DEF F, R, T
  <2>. QED  BY <1>1, <1>2, WFMin
<1>4. PICK m \in B : \A k \in B : ~(<<k..d, m..d>> \in R)
  BY <1>3
<1>5. ASSUME NEW k \in B, ~(k <= m)
      PROVE  FALSE
  <2>1. k \in Nat /\ m \in Nat /\ m < k /\ k <= d
    BY <1>5
  <2>2. k..d \subseteq m..d /\ m \in m..d /\ m \notin k..d
    BY <2>1
  <2>3. <<k..d, m..d>> \in R
    BY <2>1, <2>2 DEF StrictSubsetOrdering
  <2>. QED  BY <1>4, <2>3
<1>. QED  BY <1>5

(* Exchanges are dealt to nodes.                                           *)
LEMMA DealtIsNode ==
  ASSUME NEW i \in 1..ExchangeCount
  PROVE  Dealt(i) \in Nodes
<1>1. PICK e, x : e = Len(NodeList) /\ x = i - 1
  OBVIOUS
<1>2. e \in Nat \ {0} /\ x \in Nat /\ DOMAIN NodeList = 1..e
  BY <1>1, Counts
<1>3. PICK q \in Nat, r \in 0..(e - 1) : q = x \div e /\ r = x % e /\ x = q * e + r
  BY <1>2, Division
<1>4. r + 1 \in DOMAIN NodeList
  BY <1>2
<1>5. Dealt(i) = NodeList[r + 1]
  BY <1>1, <1>3 DEF Dealt
<1> QED
  BY <1>4, <1>5 DEF Nodes, Elements

(* The name of an exchange leads to the node of the last one of that name. *)
LEMMA HomeIsDealt ==
  ASSUME NEW e \in Exchanges
  PROVE  /\ LastNamed(e) \in 1..ExchangeCount /\ ExchangeList[LastNamed(e)] = e
         /\ Home(e) = Dealt(LastNamed(e)) /\ Home(e) \in Nodes
<1> DEFINE B == {i \in 1..ExchangeCount : ExchangeList[i] = e}
<1>1. ExchangeCount \in Nat /\ DOMAIN ExchangeList = 1..ExchangeCount
  BY Counts
<1>2. B \in SUBSET (1..ExchangeCount) /\ B # {}
  BY <1>1 DEF Exchanges, Elements
<1>3. \E m \in B : \A k \in B : k <= m
  <2> HIDE DEF B
  <2> QED
    BY <1>1, <1>2, GreatestNumber
<1>4. LastNamed(e) \in 1..ExchangeCount /\ ExchangeList[LastNamed(e)] = e
  BY <1>1, <1>3 DEF LastNamed
<1> QED
  BY <1>4, DealtIsNode DEF Home

-----------------------------------------------------------------------------
(* What the requests answered so far have left on the nodes.               *)

Created ==
  \A i \in 1..ExchangeCount : i <= setup /\ Dealt(i) \notin lost =>
    ExchangeList[i] \in node[Dealt(i)].created

Pair(k) == [exchange |-> ExchangeList[PairExchange(k)], instrument |-> InstrumentList[PairInstrument(k)]]

PairHome(k) == Home(ExchangeList[PairExchange(k)])

Listed ==
  \A k \in 1..PairCount : ExchangeCount + k <= setup /\ PairHome(k) \notin lost =>
    Pair(k) \in node[PairHome(k)].listed

All(a, n) == Everything(ActorList[a], Watches[a], n)

Subscribed ==
  \A a \in 1..ActorCount : ExchangeCount + PairCount + a <= setup =>
    \E n \in Nodes : n \in lost \/ All(a, node[n]) \subseteq node[n].subscribed

SetupInv ==
  /\ node \in [Nodes -> NodeState] /\ setup \in {Failed} \cup 0 .. Len(Requests)
  /\ Created /\ Listed /\ Subscribed

(* Only what is set up is run, and a node that runs for this process has   *)
(* every exchange open that was created on it.                             *)
Opened(k) ==
  \A n \in run[k].accepted \ lost : node[n].running => node[n].open = node[n].created

RunInv ==
  /\ IInv
  /\ \A k \in Callers : (run[k] # NoRun => setup = Len(Requests)) /\ Opened(k)

(* A pair is added on a node.                                              *)
LEMMA PairHomeIsNode ==
  ASSUME NEW k \in 1..PairCount
  PROVE  PairHome(k) \in Nodes /\ ExchangeList[PairExchange(k)] \in Exchanges
<1>1. ExchangeList[PairExchange(k)] \in Exchanges
  BY PairBounds, Counts DEF Exchanges, Elements
<1> QED
  BY <1>1, HomeIsDealt DEF PairHome

(* Nodes that are not set up any more lose nothing of what they have.      *)
LEMMA NodesKeepSetup ==
  ASSUME SetupInv, node' \in [Nodes -> NodeState], UNCHANGED setup, lost \subseteq lost',
         \A n \in Nodes : n \in lost' \/
           /\ node'[n].created = node[n].created /\ node'[n].listed = node[n].listed
           /\ node'[n].subscribed = node[n].subscribed
  PROVE  SetupInv'
<1>1. Created'
  BY DealtIsNode DEF SetupInv, Created
<1>2. Listed'
  BY PairHomeIsNode DEF SetupInv, Listed
<1>3. Subscribed'
  <2> SUFFICES ASSUME NEW a \in 1..ActorCount, ExchangeCount + PairCount + a <= setup'
               PROVE  \E n \in Nodes : n \in lost' \/
                        All(a, node'[n]) \subseteq node'[n].subscribed
    BY DEF Subscribed
  <2>1. PICK n \in Nodes : n \in lost \/ All(a, node[n]) \subseteq node[n].subscribed
    BY DEF SetupInv, Subscribed
  <2>2. CASE n \in lost'
    BY <2>2
  <2>3. CASE n \notin lost'
    <3>1. All(a, node'[n]) = All(a, node[n])
      BY <2>3 DEF All, Everything
    <3> QED
      BY <2>1, <2>3, <3>1
  <2> QED
    BY <2>2, <2>3
<1> QED
  BY <1>1, <1>2, <1>3 DEF SetupInv

(* Without a setup there is nothing to keep.                               *)
LEMMA NoSetup ==
  ASSUME node' \in [Nodes -> NodeState], setup' = Failed \/ setup' = 0
  PROVE  SetupInv'
<1>1. /\ ExchangeCount \in Nat /\ PairCount \in Nat /\ ActorCount \in Nat
  BY Counts
<1>2. setup' \in {Failed} \cup 0 .. Len(Requests) /\ setup' \in Int /\ setup' <= 0
  BY <1>1, RequestList DEF Failed
<1>3. Created' /\ Listed' /\ Subscribed'
  BY <1>1, <1>2 DEF Created, Listed, Subscribed
<1> QED
  BY <1>2, <1>3 DEF SetupInv

(* A new exchange takes the place of one of that name, and no other's.     *)
LEMMA CreateExchangeType ==
  ASSUME NEW n \in NodeState, NEW e \in Exchanges
  PROVE  /\ CreateExchange(n, e) \in NodeState
         /\ CreateExchange(n, e).created = n.created \cup {e}
<1>1. PICK c, l, s, o : /\ c = n.created \cup {e} /\ l = {x \in n.listed : x.exchange # e}
                        /\ s = {x \in n.subscribed : x.exchange # e} /\ o = n.open \ {e}
  OBVIOUS
<1>2. CreateExchange(n, e)
        = [created |-> c, listed |-> l, subscribed |-> s, open |-> o, running |-> n.running]
  <2>1. CreateExchange(n, e)
          = [n EXCEPT !.created = c, !.open = o, !.listed = l, !.subscribed = s]
    BY <1>1 DEF CreateExchange
  <2>2. n = [created |-> n.created, listed |-> n.listed, subscribed |-> n.subscribed,
             open |-> n.open, running |-> n.running]
    BY DEF NodeState
  <2> QED
    BY <2>1, <2>2
<1>3. /\ c \in SUBSET Exchanges /\ o \in SUBSET Exchanges /\ n.running \in BOOLEAN
      /\ l \in SUBSET [exchange : Exchanges, instrument : Instruments]
      /\ s \in SUBSET [actor : Actors, exchange : Exchanges, instrument : Watched]
  BY <1>1 DEF NodeState
<1> QED
  BY <1>1, <1>2, <1>3 DEF NodeState

(* The handlers keep the nodes' types.                                     *)
LEMMA HandledType ==
  ASSUME NEW n \in NodeState, NEW s \in 1..Len(Requests)
  PROVE  Handled(Requests[s], n) \in NodeState
<1>1. /\ ExchangeCount \in Nat /\ PairCount \in Nat /\ ActorCount \in Nat
  BY Counts
<1>2. CASE s <= ExchangeCount
  <2>0. s \in 1..ExchangeCount
    BY <1>1, <1>2, RequestList
  <2>1. Requests[s] = CreateOf(s) /\ ExchangeList[s] \in Exchanges
    BY <2>0, RequestList, Counts DEF Exchanges, Elements
  <2>2. Handled(Requests[s], n) = CreateExchange(n, ExchangeList[s])
    BY <2>1 DEF Handled, CreateOf
  <2> QED
    BY <2>1, <2>2, CreateExchangeType
<1>3. CASE ExchangeCount < s /\ s <= ExchangeCount + PairCount
  <2>1. PICK k \in 1..PairCount : s = ExchangeCount + k
    <3>1. s - ExchangeCount \in 1..PairCount
      BY <1>1, <1>3
    <3> QED
      BY <1>1, <3>1
  <2>2. Requests[s] = AddOf(k)
    BY <2>1, RequestList
  <2>3. Handled(Requests[s], n)
          = AddInstrument(n, ExchangeList[PairExchange(k)], InstrumentList[PairInstrument(k)])
    BY <2>2 DEF Handled, AddOf, PairExchange, PairInstrument
  <2>4. ExchangeList[PairExchange(k)] \in Exchanges /\ InstrumentList[PairInstrument(k)] \in Instruments
    BY PairBounds, Counts DEF Exchanges, Instruments, Elements
  <2> QED
    BY <2>3, <2>4 DEF AddInstrument, NodeState
<1>4. CASE ExchangeCount + PairCount < s
  <2>1. PICK a \in 1..ActorCount : s = ExchangeCount + PairCount + a
    <3>1. s - (ExchangeCount + PairCount) \in 1..ActorCount
      BY <1>1, <1>4, RequestList
    <3> QED
      BY <1>1, <3>1
  <2>2. Requests[s] = RegisterOf(a)
    BY <2>1, RequestList
  <2>3. Handled(Requests[s], n) = RegisterActor(n, ActorList[a], Watches[a])
    BY <2>2 DEF Handled, RegisterOf
  <2>4. ActorList[a] \in Actors /\ Watches[a] \subseteq Watched
    BY Counts, OrchestratorAssumption DEF Actors, Watched, Elements
  <2>5. Everything(ActorList[a], Watches[a], n)
          \in SUBSET [actor : Actors, exchange : Exchanges, instrument : Watched]
    BY <2>4 DEF Everything, NodeState
  <2> QED
    BY <2>3, <2>5 DEF RegisterActor, NodeState
<1> QED
  BY <1>1, <1>2, <1>3, <1>4

(* The number of a request tells its kind.                                 *)
LEMMA Phases ==
  ASSUME NEW s \in 1..Len(Requests)
  PROVE  \/ s \in 1..ExchangeCount /\ Requests[s] = CreateOf(s)
         \/ \E k \in 1..PairCount : s = ExchangeCount + k /\ Requests[s] = AddOf(k)
         \/ \E a \in 1..ActorCount : s = ExchangeCount + PairCount + a /\ Requests[s] = RegisterOf(a)
<1>1. /\ ExchangeCount \in Nat /\ PairCount \in Nat /\ ActorCount \in Nat
      /\ s \in 1..(ExchangeCount + PairCount + ActorCount)
  BY Counts, RequestList
<1>2. CASE s <= ExchangeCount
  <2>1. s \in 1..ExchangeCount
    BY <1>1, <1>2
  <2> QED
    BY <2>1, RequestList
<1>3. CASE ExchangeCount < s /\ s <= ExchangeCount + PairCount
  <2>1. PICK k \in 1..PairCount : s = ExchangeCount + k
    <3>1. s - ExchangeCount \in 1..PairCount
      BY <1>1, <1>3
    <3> QED
      BY <1>1, <3>1
  <2> QED
    BY <2>1, RequestList
<1>4. CASE ExchangeCount + PairCount < s
  <2>1. PICK a \in 1..ActorCount : s = ExchangeCount + PairCount + a
    <3>1. s - (ExchangeCount + PairCount) \in 1..ActorCount
      BY <1>1, <1>4
    <3> QED
      BY <1>1, <3>1
  <2> QED
    BY <2>1, RequestList
<1> QED
  BY <1>1, <1>2, <1>3, <1>4

(* A request that is answered leaves what it asks for, and takes nothing   *)
(* away of what was asked for before: all exchanges are created first.     *)
LEMMA AnsweredRequest ==
  ASSUME SetupInv, NEW s \in 1..Len(Requests), s = setup + 1, setup' = s, lost' = lost,
         NEW n \in Targets(Requests[s]), n \in Nodes,
         node' = [node EXCEPT ![n] = Handled(Requests[s], node[n])]
  PROVE  SetupInv'
<1>1. node' \in [Nodes -> NodeState]
  <2>1. Handled(Requests[s], node[n]) \in NodeState
    BY HandledType DEF SetupInv
  <2> QED
    BY <2>1 DEF SetupInv
<1>2. node'[n] = Handled(Requests[s], node[n]) /\ \A m \in Nodes \ {n} : node'[m] = node[m]
  BY DEF SetupInv
<1>3. node[n] \in NodeState
  BY DEF SetupInv
<1>4. setup' \in {Failed} \cup 0 .. Len(Requests)
  OBVIOUS
<1>5. /\ ExchangeCount \in Nat /\ PairCount \in Nat /\ ActorCount \in Nat /\ setup \in Int
      /\ s \in Nat /\ s >= 1
  <2>1. Len(Requests) \in Nat
    BY Counts, RequestList
  <2>2. setup \in Int
    BY <2>1 DEF SetupInv, Failed
  <2> QED
    BY <2>1, <2>2, Counts
<1>6. CASE s \in 1..ExchangeCount /\ Requests[s] = CreateOf(s)
  <2>1. n = Dealt(s)
    BY <1>6 DEF Targets, CreateOf
  <2>2. node'[n] = CreateExchange(node[n], ExchangeList[s])
    BY <1>2, <1>6 DEF Handled, CreateOf
  <2>3. ExchangeList[s] \in Exchanges
    BY <1>6, Counts DEF Exchanges, Elements
  <2>4. node'[n].created = node[n].created \cup {ExchangeList[s]}
    BY <1>3, <2>2, <2>3, CreateExchangeType
  <2>5. \A m \in Nodes : node[m].created \subseteq node'[m].created
    BY <1>2, <2>4
  <2>6. Created'
    <3> SUFFICES ASSUME NEW i \in 1..ExchangeCount, i <= s, Dealt(i) \notin lost
                 PROVE  ExchangeList[i] \in node'[Dealt(i)].created
      BY DEF Created
    <3>1. CASE i = s
      BY <2>1, <2>4, <3>1
    <3>2. CASE i # s
      <4>1. i <= setup
        BY <1>5, <3>2
      <4> QED
        BY <2>5, <4>1, DealtIsNode DEF SetupInv, Created
    <3> QED
      BY <3>1, <3>2
  <2>7. Listed' /\ Subscribed'
    BY <1>5, <1>6 DEF Listed, Subscribed
  <2> QED
    BY <1>1, <1>4, <2>6, <2>7 DEF SetupInv
<1>7. ASSUME NEW k \in 1..PairCount, s = ExchangeCount + k, Requests[s] = AddOf(k)
      PROVE  SetupInv'
  <2>1. n = PairHome(k)
    BY <1>7 DEF Targets, AddOf, PairHome, PairExchange
  <2>2. node'[n] = AddInstrument(node[n], ExchangeList[PairExchange(k)], InstrumentList[PairInstrument(k)])
    BY <1>2, <1>7 DEF Handled, AddOf, PairExchange, PairInstrument
  <2>3. node'[n].created = node[n].created /\ node'[n].listed = node[n].listed \cup {Pair(k)}
    BY <1>3, <2>2 DEF AddInstrument, NodeState, Pair
  <2>4. \A m \in Nodes : node'[m].created = node[m].created /\ node[m].listed \subseteq node'[m].listed
    BY <1>2, <2>3
  <2>5. Created'
    <3>1. \A i \in 1..ExchangeCount : i <= setup
      BY <1>5, <1>7
    <3> QED
      BY <2>4, <3>1, DealtIsNode DEF SetupInv, Created
  <2>6. Listed'
    <3> SUFFICES ASSUME NEW j \in 1..PairCount, ExchangeCount + j <= s, PairHome(j) \notin lost
                 PROVE  Pair(j) \in node'[PairHome(j)].listed
      BY DEF Listed
    <3>1. CASE j = k
      BY <2>1, <2>3, <3>1
    <3>2. CASE j # k
      <4>1. ExchangeCount + j <= setup
        BY <1>5, <1>7, <3>2
      <4>2. PairHome(j) \in Nodes
        BY PairHomeIsNode
      <4> QED
        BY <2>4, <4>1, <4>2 DEF SetupInv, Listed
    <3> QED
      BY <3>1, <3>2
  <2>7. Subscribed'
    BY <1>5, <1>7 DEF Subscribed
  <2> QED
    BY <1>1, <1>4, <2>5, <2>6, <2>7 DEF SetupInv
<1>8. ASSUME NEW a \in 1..ActorCount, s = ExchangeCount + PairCount + a, Requests[s] = RegisterOf(a)
      PROVE  SetupInv'
  <2>1. node'[n] = RegisterActor(node[n], ActorList[a], Watches[a])
    BY <1>2, <1>8 DEF Handled, RegisterOf
  <2>2. /\ node'[n].created = node[n].created /\ node'[n].listed = node[n].listed
        /\ node'[n].subscribed = node[n].subscribed \cup All(a, node[n])
    BY <1>3, <2>1 DEF RegisterActor, NodeState, All
  <2>3. \A m \in Nodes : /\ node'[m].created = node[m].created /\ node'[m].listed = node[m].listed
                         /\ node[m].subscribed \subseteq node'[m].subscribed
    BY <1>2, <2>2
  <2>4. Created'
    <3>1. \A i \in 1..ExchangeCount : i <= setup
      BY <1>5, <1>8
    <3> QED
      BY <2>3, <3>1, DealtIsNode DEF SetupInv, Created
  <2>5. Listed'
    <3>1. \A j \in 1..PairCount : ExchangeCount + j <= setup
      BY <1>5, <1>8
    <3> QED
      BY <2>3, <3>1, PairHomeIsNode DEF SetupInv, Listed
  <2>6. \A b, m : m \in Nodes => All(b, node'[m]) = All(b, node[m])
    BY <2>3 DEF All, Everything
  <2>7. Subscribed'
    <3> SUFFICES ASSUME NEW b \in 1..ActorCount, ExchangeCount + PairCount + b <= s
                 PROVE  \E m \in Nodes : m \in lost \/ All(b, node'[m]) \subseteq node'[m].subscribed
      BY DEF Subscribed
    <3>1. CASE b = a
      <4>1. All(b, node'[n]) \subseteq node'[n].subscribed
        BY <2>2, <2>6, <3>1
      <4> QED
        BY <4>1
    <3>2. CASE b # a
      <4>1. ExchangeCount + PairCount + b <= setup
        BY <1>5, <1>8, <3>2
      <4>2. PICK m \in Nodes : m \in lost \/ All(b, node[m]) \subseteq node[m].subscribed
        BY <4>1 DEF SetupInv, Subscribed
      <4>3. All(b, node'[m]) = All(b, node[m])
        BY <2>6
      <4> QED
        BY <2>3, <4>2, <4>3
    <3> QED
      BY <3>1, <3>2
  <2> QED
    BY <1>1, <1>4, <2>4, <2>5, <2>7 DEF SetupInv
<1> QED
  BY <1>6, <1>7, <1>8, Phases

(* Requests are sent to nodes.                                             *)
LEMMA TargetsAreNodes ==
  ASSUME NEW s \in 1..Len(Requests), NEW n \in Targets(Requests[s])
  PROVE  n \in Nodes
<1>1. CASE s \in 1..ExchangeCount /\ Requests[s] = CreateOf(s)
  BY <1>1, DealtIsNode DEF Targets, CreateOf
<1>2. ASSUME NEW k \in 1..PairCount, Requests[s] = AddOf(k)
      PROVE  n \in Nodes
  <2>1. n = PairHome(k)
    BY <1>2 DEF Targets, AddOf, PairHome, PairExchange
  <2> QED
    BY <2>1, PairHomeIsNode
<1>3. ASSUME NEW a \in 1..ActorCount, Requests[s] = RegisterOf(a)
      PROVE  n \in Nodes
  BY <1>3 DEF Targets, RegisterOf
<1> QED
  BY <1>1, <1>2, <1>3, Phases

(* A setup in progress has started no run.                                 *)
LEMMA NothingRuns ==
  ASSUME RunInv, SettingUp, UNCHANGED <<running, caller, answer, run>>
  PROVE  RunInv'
<1>1. Len(Requests) \in Nat /\ setup # Len(Requests)
  <2>1. Len(Requests) \in Nat
    BY Counts, RequestList
  <2> QED
    BY <2>1 DEF SettingUp
<1>2. \A k \in Callers : run[k] = NoRun
  BY <1>1 DEF RunInv
<1>3. \A k \in Callers : run'[k] = NoRun /\ Opened(k)'
  <2>1. NoRun.accepted = {}
    BY DEF NoRun
  <2>2. \A k \in Callers : run'[k] = NoRun
    BY <1>2
  <2> QED
    BY <2>1, <2>2 DEF Opened
<1>4. IInv'
  BY OtherStep DEF RunInv
<1> QED
  BY <1>3, <1>4 DEF RunInv

(* A request is answered, or refused, which ends the setup.                *)
LEMMA SetupStepKeeps ==
  ASSUME SetupInv, RunInv, SetupStep
  PROVE  SetupInv' /\ RunInv'
<1>1. RunInv'
  BY NothingRuns DEF SetupStep
<1>2. PICK s, n : /\ s = setup + 1 /\ n \in Targets(Requests[s])
                  /\ \/ setup' = Failed /\ UNCHANGED node
                     \/ setup' = s /\ node' = [node EXCEPT ![n] = Handled(Requests[s], node[n])]
  BY DEF SetupStep
<1>3. s \in 1..Len(Requests)
  <2>1. Len(Requests) \in Nat
    BY Counts, RequestList
  <2> QED
    BY <1>2, <2>1 DEF SetupStep, SettingUp
<1>4. CASE setup' = Failed /\ UNCHANGED node
  <2>1. node' \in [Nodes -> NodeState]
    BY <1>4 DEF SetupInv
  <2> QED
    BY <1>1, <1>4, <2>1, NoSetup
<1>5. CASE setup' = s /\ node' = [node EXCEPT ![n] = Handled(Requests[s], node[n])]
  <2>1. n \in Nodes
    BY <1>2, <1>3, TargetsAreNodes
  <2>2. lost' = lost
    BY DEF SetupStep
  <2> QED
    BY <1>1, <1>2, <1>3, <1>5, <2>1, <2>2, AnsweredRequest
<1> QED
  BY <1>2, <1>4, <1>5

(* A request that fails may still have been handled.                       *)
LEMMA SetupFailsKeeps ==
  ASSUME SetupInv, RunInv, SetupFails
  PROVE  SetupInv' /\ RunInv'
<1>1. RunInv'
  BY NothingRuns DEF SetupFails
<1>2. PICK s, n : /\ s = setup + 1 /\ n \in Targets(Requests[s])
                  /\ UNCHANGED node \/ node' = [node EXCEPT ![n] = Handled(Requests[s], node[n])]
  BY DEF SetupFails
<1>3. s \in 1..Len(Requests)
  <2>1. Len(Requests) \in Nat
    BY Counts, RequestList
  <2> QED
    BY <1>2, <2>1 DEF SetupFails, SettingUp
<1>4. n \in Nodes
  BY <1>2, <1>3, TargetsAreNodes
<1>5. Handled(Requests[s], node[n]) \in NodeState
  BY <1>3, <1>4, HandledType DEF SetupInv
<1>6. node' \in [Nodes -> NodeState]
  BY <1>2, <1>5 DEF SetupInv
<1>7. setup' = Failed
  BY DEF SetupFails
<1> QED
  BY <1>1, <1>6, <1>7, NoSetup

(* A process that starts again has set up nothing yet, and lost no node.   *)
LEMMA RestartKeeps ==
  ASSUME SetupInv, RunInv, Restart
  PROVE  SetupInv' /\ RunInv'
<1>1. SetupInv'
  <2>1. node' \in [Nodes -> NodeState] /\ setup' = 0
    BY DEF Restart, SetupInv
  <2> QED
    BY <2>1, NoSetup
<1>2. IInv'
  BY NextKeeps DEF RunInv, Next
<1>3. \A k \in Callers : run'[k] = NoRun /\ Opened(k)'
  BY DEF Restart, Opened, NoRun
<1> QED
  BY <1>1, <1>2, <1>3 DEF RunInv

(* What a node does by itself.                                             *)
LEMMA NodeKeeps ==
  ASSUME SetupInv, RunInv, NEW n \in Nodes, RunEnds(n) \/ NodeRestarts(n)
  PROVE  SetupInv' /\ RunInv'
<1>1. node[n] \in NodeState /\ UNCHANGED <<setup, running, caller, answer, run>>
  BY DEF SetupInv, RunEnds, NodeRestarts, process
<1>2. IInv'
  BY <1>1, OtherStep DEF RunInv
<1>3. CASE RunEnds(n)
  <2>1. PICK x : x = [node[n] EXCEPT !.running = FALSE, !.open = {}]
    OBVIOUS
  <2>2. /\ x \in NodeState /\ ~x.running /\ x.created = node[n].created
        /\ x.listed = node[n].listed /\ x.subscribed = node[n].subscribed
    BY <1>1, <2>1 DEF NodeState
  <2>3. node' = [node EXCEPT ![n] = x] /\ lost' = lost
    BY <1>3, <2>1 DEF RunEnds, SetupInv
  <2>4. node' \in [Nodes -> NodeState] /\ node'[n] = x /\ \A m \in Nodes \ {n} : node'[m] = node[m]
    BY <2>2, <2>3 DEF SetupInv
  <2>5. SetupInv'
    <3>1. \A m \in Nodes : /\ node'[m].created = node[m].created /\ node'[m].listed = node[m].listed
                           /\ node'[m].subscribed = node[m].subscribed
      BY <2>2, <2>4
    <3> QED
      BY <1>1, <2>3, <2>4, <3>1, NodesKeepSetup
  <2>6. \A k \in Callers : Opened(k)'
    <3>1. \A k \in Callers : run[k].accepted \subseteq Nodes
      BY DEF RunInv, IInv, RunTypes, RunState
    <3> QED
      BY <1>1, <2>2, <2>3, <2>4, <3>1 DEF RunInv, Opened
  <2> QED
    BY <1>1, <1>2, <2>5, <2>6 DEF RunInv
<1>4. CASE NodeRestarts(n)
  <2>1. node' = [node EXCEPT ![n] = Empty] /\ lost' = lost \cup {n}
    BY <1>4 DEF NodeRestarts
  <2>2. Empty \in NodeState
    BY DEF Empty, NodeState
  <2>3. node' \in [Nodes -> NodeState] /\ \A m \in Nodes \ {n} : node'[m] = node[m]
    BY <2>1, <2>2 DEF SetupInv
  <2>4. SetupInv'
    BY <1>1, <2>1, <2>3, NodesKeepSetup
  <2>5. \A k \in Callers : Opened(k)'
    <3>1. \A k \in Callers : run[k].accepted \subseteq Nodes
      BY DEF RunInv, IInv, RunTypes, RunState
    <3> QED
      BY <1>1, <2>1, <2>3, <3>1 DEF RunInv, Opened
  <2> QED
    BY <1>1, <1>2, <2>4, <2>5 DEF RunInv
<1> QED
  BY <1>3, <1>4

(* The handler RunSimulation of a node that does not run yet opens the     *)
(* exchanges that were created on it.                                      *)
LEMMA OpenKeeps ==
  ASSUME SetupInv, NEW n \in Nodes, UNCHANGED <<setup, lost>>,
         node' \in {node, [node EXCEPT ![n] = OpenAndRun(@)]}
  PROVE  /\ SetupInv' /\ node' \in [Nodes -> NodeState]
         /\ \A m \in Nodes : \/ node'[m] = node[m]
                             \/ m = n /\ node' # node /\ node'[m].open = node'[m].created
<1>1. node[n] \in NodeState
  BY DEF SetupInv
<1>2. PICK x : x = OpenAndRun(node[n])
  OBVIOUS
<1>3. /\ x \in NodeState /\ x.open = x.created /\ x.created = node[n].created
      /\ x.listed = node[n].listed /\ x.subscribed = node[n].subscribed
  BY <1>1, <1>2 DEF OpenAndRun, NodeState
<1>4. node' = node \/ node' = [node EXCEPT ![n] = x]
  BY <1>2 DEF SetupInv
<1>5. /\ node' \in [Nodes -> NodeState]
      /\ \A m \in Nodes : \/ node'[m] = node[m]
                          \/ m = n /\ node' # node /\ node'[m] = x
  BY <1>3, <1>4 DEF SetupInv
<1>6. \A m \in Nodes : /\ node'[m].created = node[m].created /\ node'[m].listed = node[m].listed
                       /\ node'[m].subscribed = node[m].subscribed
  BY <1>3, <1>5
<1>7. SetupInv'
  BY <1>5, <1>6, NodesKeepSetup
<1> QED
  BY <1>3, <1>5, <1>7

(* What one call does, with its goroutines.                                *)
LEMMA CallKeeps ==
  ASSUME SetupInv, RunInv, NEW k \in Callers,
         RunSimulation(k) \/ AlreadyRunning(k) \/ Goroutine(k) \/ ReturnError(k) \/ ReturnNil(k)
  PROVE  SetupInv' /\ RunInv'
<1>1. IInv'
  BY NextKeeps DEF RunInv, Next
<1>2. UNCHANGED <<setup, lost>>
  BY DEF RunSimulation, AlreadyRunning, Goroutine, Answered, NoAnswer, SendError, CollectorEnds,
     NoFile, CloseErrors, ClearRunning, ReturnError, ReturnNil
<1>3. /\ run \in [Callers -> RunState] /\ node \in [Nodes -> NodeState]
      /\ \A j \in Callers : run[j].accepted \subseteq Nodes /\ run'[j].accepted \subseteq Nodes
  BY <1>1 DEF SetupInv, RunInv, IInv, RunTypes, RunState
<1>4. \A j \in Callers \ {k} : run'[j] = run[j]
  BY <1>3 DEF RunSimulation, AlreadyRunning, Goroutine, Answered, NoAnswer, SendError, CollectorEnds,
     NoFile, CloseErrors, ClearRunning, ReturnError, ReturnNil
<1>5. run'[k] # NoRun => setup = Len(Requests)
  <2>1. CASE run[k] # NoRun
    BY <2>1 DEF RunInv
  <2>2. CASE run[k] = NoRun
    <3>1. /\ \A n \in Nodes : run[k].worker[n] = "none"
          /\ run[k].collector = "none" /\ run[k].waiter = "none" /\ run[k].errors = {}
      BY <2>2 DEF NoRun
    <3>2. RunSimulation(k) \/ AlreadyRunning(k) \/ ReturnNil(k)
      BY <3>1 DEF Goroutine, Answered, NoAnswer, SendError, CollectorEnds, NoFile, CloseErrors,
         ClearRunning, ReturnError
    <3> QED
      BY <2>2, <3>2 DEF RunSimulation, AlreadyRunning, ReturnNil
  <2> QED
    BY <2>1, <2>2
<1>6. SUFFICES SetupInv' /\ \A j \in Callers : Opened(j)'
  BY <1>1, <1>2, <1>4, <1>5 DEF RunInv
<1>7. ASSUME UNCHANGED node, run'[k].accepted \subseteq run[k].accepted
      PROVE  SetupInv' /\ \A j \in Callers : Opened(j)'
  <2>1. SetupInv'
    BY <1>2, <1>7, NodesKeepSetup DEF SetupInv
  <2>2. \A j \in Callers : run'[j].accepted \subseteq run[j].accepted
    BY <1>4, <1>7
  <2> QED
    BY <1>2, <1>7, <2>1, <2>2 DEF RunInv, Opened
<1>8. CASE \E n \in Nodes : Answered(k, n) \/ NoAnswer(k, n)
  <2>1. PICK n \in Nodes : Answered(k, n) \/ NoAnswer(k, n)
    BY <1>8
  <2>2. run[k] \in RunState /\ run'[k].accepted \in {run[k].accepted, run[k].accepted \cup {n}}
    BY <1>3, <2>1 DEF Answered, NoAnswer, RunState
  <2>3. node' \in {node, [node EXCEPT ![n] = OpenAndRun(@)]}
    BY <2>1 DEF Answered, NoAnswer
  <2>4. /\ SetupInv' /\ node' \in [Nodes -> NodeState]
        /\ \A m \in Nodes : \/ node'[m] = node[m]
                            \/ m = n /\ node' # node /\ node'[m].open = node'[m].created
    BY <1>2, <2>3, OpenKeeps
  <2>5. n \in run'[k].accepted \ run[k].accepted => node'[n].open = node'[n].created
    <3> SUFFICES ASSUME n \in run'[k].accepted \ run[k].accepted
                 PROVE  node'[n].open = node'[n].created
      OBVIOUS
    <3>1. Answered(k, n) /\ ~node[n].running
      BY <1>3, <2>1, <2>2 DEF Answered, NoAnswer, RunState
    <3>2. node'[n] = OpenAndRun(node[n]) /\ node[n] \in NodeState
      BY <1>3, <3>1 DEF Answered
    <3> QED
      BY <3>2 DEF OpenAndRun, NodeState
  <2>6. \A j \in Callers : Opened(j)'
    <3> SUFFICES ASSUME NEW j \in Callers, NEW m \in run'[j].accepted \ lost, node'[m].running
                 PROVE  node'[m].open = node'[m].created
      BY <1>2 DEF Opened
    <3>1. m \in Nodes
      BY <1>3
    <3>2. CASE m \in run[j].accepted /\ node'[m] = node[m]
      BY <3>2 DEF RunInv, Opened
    <3>3. CASE node'[m] # node[m]
      BY <2>4, <3>1, <3>3
    <3>4. CASE m \notin run[j].accepted
      BY <1>4, <2>2, <2>5, <3>4
    <3> QED
      BY <3>2, <3>3, <3>4
  <2> QED
    BY <2>4, <2>6
<1>9. CASE RunSimulation(k)
  <2>1. run'[k].accepted = {}
    BY <1>3, <1>9 DEF RunSimulation, NoRun
  <2> QED
    BY <1>7, <1>9, <2>1 DEF RunSimulation
<1>10. CASE AlreadyRunning(k) \/ ReturnError(k) \/ ReturnNil(k)
  <2>1. UNCHANGED node /\ run'[k].accepted = run[k].accepted
    BY <1>3, <1>10 DEF AlreadyRunning, ReturnError, ReturnNil, RunState
  <2> QED
    BY <1>7, <2>1
<1>11. CASE (\E n \in Nodes : SendError(k, n)) \/ CollectorEnds(k) \/ NoFile(k) \/ CloseErrors(k) \/ ClearRunning(k)
  <2>1. CASE \E n \in Nodes : SendError(k, n)
    <3>1. UNCHANGED node /\ run'[k].accepted = run[k].accepted
      BY <1>3, <2>1 DEF SendError, RunState
    <3> QED
      BY <1>7, <3>1
  <2>2. CASE CollectorEnds(k) \/ NoFile(k)
    <3>1. UNCHANGED node /\ run'[k].accepted = run[k].accepted
      <4>1. CASE CollectorEnds(k)
        BY <1>3, <4>1 DEF CollectorEnds, RunState
      <4>2. CASE NoFile(k)
        BY <1>3, <4>2 DEF NoFile, RunState
      <4>. QED  BY <2>2, <4>1, <4>2
    <3> QED
      BY <1>7, <3>1
  <2>3. CASE CloseErrors(k) \/ ClearRunning(k)
    <3>1. UNCHANGED node /\ run'[k].accepted = run[k].accepted
      BY <1>3, <2>3 DEF CloseErrors, ClearRunning, RunState
    <3> QED
      BY <1>7, <3>1
  <2> QED
    BY <1>11, <2>1, <2>2, <2>3
<1> QED
  BY <1>8, <1>9, <1>10, <1>11 DEF Goroutine

(* Every step keeps what has been set up.                                  *)
LEMMA NextKeepsSetup == SetupInv /\ RunInv /\ [Next]_vars => SetupInv' /\ RunInv'
<1> SUFFICES ASSUME SetupInv, RunInv, [Next]_vars PROVE SetupInv' /\ RunInv'
  OBVIOUS
<1>1. CASE Signal \/ UNCHANGED vars
  <2>1. UNCHANGED <<node, setup, running, caller, answer, run, lost>>
    BY <1>1 DEF Signal, vars, process
  <2>2. SetupInv'
    BY <2>1, NodesKeepSetup DEF SetupInv
  <2>3. IInv' /\ \A k \in Callers : Opened(k)'
    BY <2>1, OtherStep DEF RunInv, Opened
  <2> QED
    BY <2>1, <2>2, <2>3 DEF RunInv
<1> QED
  BY <1>1, SetupStepKeeps, SetupFailsKeeps, RestartKeeps, NodeKeeps, CallKeeps DEF Next

(* The invariants hold of every behaviour.                                 *)
LEMMA SetupInvariant == Spec => [](SetupInv /\ RunInv)
<1>1. Init => SetupInv /\ RunInv
  <2> SUFFICES ASSUME Init PROVE SetupInv /\ RunInv
    OBVIOUS
  <2>1. IInv
    BY NothingStarted DEF Init, Started
  <2>2. Empty \in NodeState
    BY DEF Empty, NodeState
  <2>3. node \in [Nodes -> NodeState] /\ setup = 0
    BY <2>2 DEF Init, Started
  <2>4. Len(Requests) \in Nat /\ ExchangeCount \in Nat /\ PairCount \in Nat /\ ActorCount \in Nat
    BY Counts, RequestList
  <2>5. Created /\ Listed /\ Subscribed
    BY <2>3, <2>4 DEF Created, Listed, Subscribed
  <2>6. setup \in 0 .. Len(Requests)
    BY <2>3, <2>4
  <2>7. \A k \in Callers : run[k] = NoRun /\ Opened(k)
    BY DEF Init, Started, Opened, NoRun
  <2> QED
    BY <2>1, <2>3, <2>5, <2>6, <2>7 DEF SetupInv, RunInv
<1> QED
  BY <1>1, NextKeepsSetup, PTL DEF Spec

(* When the setup is done, the name of each exchange leads to a node that  *)
(* has the exchange with every instrument, and each actor is told of what  *)
(* it watches on every exchange of its node, whatever earlier processes    *)
(* left behind, unless the node was restarted meanwhile, and also if a     *)
(* name is given twice (orchestrator.go's SetupSimulation).                *)
THEOREM SetUpCompletes == Spec => []SetUpIsComplete
<1>1. SetupInv => SetUpIsComplete
  <2> SUFFICES ASSUME SetupInv, setup = Len(Requests)
               PROVE  /\ \A e \in Exchanges, t \in Instruments : Home(e) \notin lost =>
                           [exchange |-> e, instrument |-> t] \in node[Home(e)].listed
                      /\ \A a \in DOMAIN ActorList : \E n \in Nodes :
                           All(a, node[n]) \subseteq node[n].subscribed \/ n \in lost
    BY DEF SetUpIsComplete, All
  <2>1. /\ ExchangeCount \in Nat /\ PairCount \in Nat /\ ActorCount \in Nat
        /\ setup = ExchangeCount + PairCount + ActorCount
    BY Counts, RequestList
  <2>2. ASSUME NEW e \in Exchanges, NEW t \in Instruments, Home(e) \notin lost
        PROVE  [exchange |-> e, instrument |-> t] \in node[Home(e)].listed
    <3>1. PICK j \in 1..Len(InstrumentList) : t = InstrumentList[j]
      BY Counts DEF Instruments, Elements
    <3>2. PICK i \in 1..ExchangeCount : ExchangeList[i] = e
      BY Counts DEF Exchanges, Elements
    <3>3. PICK k \in 1..PairCount : PairExchange(k) = i /\ PairInstrument(k) = j
      BY PairExists
    <3>4. ExchangeCount + k <= setup
      BY <2>1
    <3>5. PairHome(k) = Home(e) /\ Pair(k) = [exchange |-> e, instrument |-> t]
      BY <3>1, <3>2, <3>3 DEF PairHome, Pair
    <3> QED
      BY <2>2, <3>4, <3>5 DEF SetupInv, Listed
  <2>3. ASSUME NEW a \in DOMAIN ActorList
        PROVE  \E n \in Nodes : All(a, node[n]) \subseteq node[n].subscribed \/ n \in lost
    <3>1. a \in 1..ActorCount /\ ExchangeCount + PairCount + a <= setup
      BY <2>1, Counts
    <3> QED
      BY <3>1 DEF SetupInv, Subscribed
  <2> QED
    BY <2>2, <2>3
<1> QED
  BY <1>1, SetupInvariant, PTL

(* A node that runs for this process trades on all the exchanges that were *)
(* created on it, with every instrument where the name leads to it:        *)
(* nothing is set up after a run was started, and a run that began before  *)
(* is refused to this process (main.cpp's RunSimulation handler).          *)
THEOREM SetupIsRun == Spec => []RunsAsSetUp
<1>1. SetupInv /\ SetUpIsComplete /\ RunInv => RunsAsSetUp
  <2> SUFFICES ASSUME SetupInv, SetUpIsComplete, RunInv,
                      NEW k \in Callers, NEW n \in run[k].accepted \ lost, node[n].running
               PROVE  /\ \A i \in DOMAIN ExchangeList : Dealt(i) = n => ExchangeList[i] \in node[n].open
                      /\ \A e \in Exchanges, t \in Instruments : Home(e) = n =>
                           e \in node[n].open /\ [exchange |-> e, instrument |-> t] \in node[n].listed
    BY DEF RunsAsSetUp
  <2>1. run[k] # NoRun
    BY DEF NoRun
  <2>2. setup = Len(Requests)
    BY <2>1 DEF RunInv
  <2>3. node[n].open = node[n].created
    BY DEF RunInv, Opened
  <2>4. ASSUME NEW i \in 1..ExchangeCount, Dealt(i) = n
        PROVE  ExchangeList[i] \in node[n].open
    <3>1. ExchangeCount \in Nat /\ PairCount \in Nat /\ ActorCount \in Nat
      BY Counts
    <3>2. i <= setup
      BY <2>2, <3>1, RequestList
    <3> QED
      BY <2>3, <2>4, <3>2 DEF SetupInv, Created
  <2>5. ASSUME NEW e \in Exchanges, Home(e) = n
        PROVE  e \in node[n].open
    BY <2>4, <2>5, HomeIsDealt
  <2>6. \A e \in Exchanges, t \in Instruments : Home(e) = n =>
          [exchange |-> e, instrument |-> t] \in node[n].listed
    BY <2>2 DEF SetUpIsComplete
  <2> QED
    BY <2>4, <2>5, <2>6, Counts
<1> QED
  BY <1>1, SetupInvariant, SetUpCompletes, PTL
===============================================================================
