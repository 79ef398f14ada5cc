------------------------ MODULE ConcurrentRunProofs ------------------------
(***************************************************************************)
(* Proofs, for every finite acyclic graph, every number of workers and any *)
(* order of their steps, of the invariants MCConcurrentRun checks on one   *)
(* graph with two workers.                                                 *)
(*                                                                         *)
(* The threads implement SchedulerState, so its proved invariants hold of  *)
(* the node states (Object below). What remains is where a node is: in the *)
(* ready queue, about to be pushed there, blocked, popped, in the pool, on *)
(* a worker or in the log, and never in two of these places at once.       *)
(***************************************************************************)
EXTENDS ConcurrentRun, RunGraphProofs, SequenceTheorems

Object == INSTANCE SchedulerStateProofs WITH
  depCount <- [n \in Nodes |-> UnmetDeps(nodeState, n)],
  completed <- {n \in Nodes : nodeState[n] \in Decided}

-----------------------------------------------------------------------------
(* The inductive invariant.                                                *)

Early == {"taken", "running"}              \* the task has not returned

Late == {"ran", "released", "completing"}  \* it has, and the node is not completed

OnWorker(n, stages) == \E w \in Workers : worker[w].at \in stages /\ worker[w].node = n

Logged(n) == \E i \in DOMAIN log : log[i].node = n

InLog(n, ok) == \E i \in DOMAIN log : log[i] = [node |-> n, ok |-> ok]

Pushing(w, n) == worker[w].at = "pushing" /\ n \in worker[w].ready

Pushed(n) == \E w \in Workers : Pushing(w, n)

Waiting(n) == n \in blocked \/ n = popped

(* No thread has taken n up yet.                                           *)
Fresh(n) == ~ Waiting(n) /\ n \notin pool /\ ~ OnWorker(n, Early) /\ ~ Logged(n)

(* A worker without a task is as it was at the start, one with a task has  *)
(* a node of its own.                                                      *)
WorkersSound ==
  \A w \in Workers :
    /\ worker[w].at = "idle" => worker[w] = Idle
    /\ worker[w].at # "idle" => worker[w].node \in Nodes
    /\ worker[w].at \notin {"pushing", "finishing"} => worker[w].ready = {}
    /\ worker[w].at \in Late => InLog(worker[w].node, worker[w].ok)
    /\ \A v \in Workers :
         /\ worker[w].at \in Early \cup Late /\ worker[v].at \in Early \cup Late
              /\ worker[v].node = worker[w].node => v = w
         /\ \A n \in Nodes :
              Pushing(w, n) /\ Pushing(v, n) /\ nodeState[n] = "READY" => v = w

(* A node the dispatcher or a worker has taken up is in one place, its     *)
(* predecessors have succeeded, and its state says where it is.            *)
TakenUp(n) ==
  /\ Waiting(n) => /\ n \notin pool /\ ~ OnWorker(n, Early) /\ ~ Logged(n)
                   /\ nodeState[n] \in {"READY", "CANCELED"}
                   /\ n \notin blocked \/ n # popped
  /\ n \in pool => /\ ~ OnWorker(n, Early) /\ ~ Logged(n)
                   /\ nodeState[n] \in {"DISPATCHED", "CANCELED"}
  /\ OnWorker(n, Early) => ~ Logged(n)
  /\ OnWorker(n, {"taken"}) => nodeState[n] \in {"DISPATCHED", "CANCELED"}
  /\ OnWorker(n, {"running"} \cup Late) => nodeState[n] \in {"RUNNING", "CANCELED"}
  /\ ~ Fresh(n) => PredsSucceeded(nodeState, n)
  /\ nodeState[n] = "CANCELED" /\ ~ canceled => Fresh(n)

(* Where a node is that has not been decided.                              *)
Placed(n) ==
  /\ nodeState[n] = "BLOCKED" => Fresh(n) /\ n \notin readyQueue /\ ~ Pushed(n)
  /\ nodeState[n] = "READY" =>
       IF Waiting(n) THEN n \notin readyQueue /\ ~ Pushed(n)
       ELSE Fresh(n) /\ (n \in readyQueue <=> ~ Pushed(n))
  /\ nodeState[n] = "DISPATCHED" => n \in pool \/ OnWorker(n, {"taken"}) \/ draining
  /\ nodeState[n] = "RUNNING" => OnWorker(n, {"running"} \cup Late) \/ canceled
  /\ nodeState[n] \notin {"RETRY_WAIT", "DEAD_LETTERED"}

(* The log says what became of the nodes.                                  *)
Recorded(n) ==
  /\ nodeState[n] = "SUCCEEDED" => InLog(n, TRUE)
  /\ nodeState[n] = "FAILED" => InLog(n, FALSE)
  /\ nodeState[n] = "CANCELED" /\ ~ canceled => \E m \in Nodes : nodeState[m] = "FAILED"
  /\ ~ canceled => \A i \in DOMAIN log : log[i].node = n =>
       OnWorker(n, Late) \/ nodeState[n] = IF log[i].ok THEN "SUCCEEDED" ELSE "FAILED"

NodesSound == \A n \in Nodes : TakenUp(n) /\ Placed(n) /\ Recorded(n)

(* The one session: who has it, and that nobody else has.                  *)
HasSession(n) ==
  n \in BrowserNodes /\ (n = popped \/ n \in pool \/ OnWorker(n, {"taken", "running", "ran"}))

SessionSound ==
  /\ usage \in {0, 1}
  /\ blocked \subseteq BrowserNodes
  /\ \A n \in Nodes : HasSession(n) => usage = 1
  /\ \A m, n \in Nodes : HasSession(m) /\ HasSession(n) => m = n

CountSound ==
  /\ InFlightExact
  /\ inFlight >= Cardinality(pool) + Cardinality(Busy)

(* Where the threads are in the life of the run.                           *)
Leaving == {"draining", "joining", "returned"}

PhaseSound ==
  /\ cancelPc # "idle" <=> canceled
  /\ pc \in {"start", "starting"} =>
       /\ readyQueue = {} /\ blocked = {} /\ pool = {} /\ popped = NoNode
       /\ worker = [w \in Workers |-> Idle] /\ log = <<>> /\ inFlight = 0 /\ usage = 0
  /\ popped # NoNode => pc = "popping"
  /\ draining => pc \in {"joining", "returned"}
  /\ runState = "QUEUED" => pc \in {"start", "starting"}
  /\ ~ canceled =>
       /\ pc \in {"start", "starting"} => runState = "QUEUED"
       /\ pc \notin {"start", "starting", "returned"} => runState = "RUNNING"
       /\ pc = "returned" => runState = Outcome(nodeState)
  /\ outcome # "none" => pc = "returned"

IInv ==
  /\ TypeOK
  /\ Object!IInv
  /\ WorkersSound
  /\ NodesSound
  /\ SessionSound
  /\ CountSound
  /\ PhaseSound
  /\ LogRespectsGraph /\ LeavesWhenDecided

-----------------------------------------------------------------------------
(* The two instances of the state machine are the same machine.            *)

(* The instances have their own copies of the graph's functions; they are  *)
(* the same functions.                                                     *)
LEMMA SameGraph ==
  /\ \A st, n, how : Object!Fail(st, n, how) = Fail(st, n, how)
  /\ \A st : Object!CancelOpen(st) = CancelOpen(st)
  /\ \A st : Object!Outcome(st) = Outcome(st)
  /\ \A n : Object!Succs(n) = Succs(n)
  /\ \A st, n : Object!UnmetDeps(st, n) = UnmetDeps(st, n)
  /\ \A st, n : Object!PredsSucceeded(st, n) <=> PredsSucceeded(st, n)
  /\ \A st : Object!Open(st) = Open(st)
  /\ Object!Decided = Decided /\ Object!InFlight = InFlight
<1>0. Object!Terminal = Terminal
  BY DEF Object!Terminal, Terminal, Object!Unsuccessful, Unsuccessful
<1>1. \A st : Object!Open(st) = Open(st)
  BY <1>0 DEF Object!Open, Open
<1>2. \A st, n : Object!Downstream(st, n) = Downstream(st, n)
  BY <1>1 DEF Object!Downstream, Downstream, Object!WalkClosed, WalkClosed
<1>3. \A st, n, how : Object!Fail(st, n, how) = Fail(st, n, how)
  BY <1>2 DEF Object!Fail, Fail
<1>4. \A st : Object!CancelOpen(st) = CancelOpen(st)
  BY <1>0 DEF Object!CancelOpen, CancelOpen
<1>5. \A st : Object!Outcome(st) = Outcome(st)
  BY DEF Object!Outcome, Outcome
<1>6. \A n : Object!Succs(n) = Succs(n)
  BY DEF Object!Succs, Succs
<1>7. \A S : Object!Cardinality(S) = Cardinality(S)
  BY DEF Object!Cardinality, Cardinality
<1>8. \A st, n : Object!UnmetDeps(st, n) = UnmetDeps(st, n)
  BY <1>7 DEF Object!UnmetDeps, UnmetDeps
<1>9. \A st, n : Object!PredsSucceeded(st, n) <=> PredsSucceeded(st, n)
  BY DEF Object!PredsSucceeded, PredsSucceeded
<1>10. Object!Decided = Decided /\ Object!InFlight = InFlight
  BY DEF Object!Decided, Decided, Object!InFlight, InFlight
<1> QED
  BY <1>1, <1>3, <1>4, <1>5, <1>6, <1>8, <1>9, <1>10

(* The machine this module drives and the one whose theorems are cited are *)
(* two instances with one meaning.                                         *)
LEMMA SameMachine ==
  /\ Machine!Init <=> Object!Init
  /\ Machine!Next <=> Object!Next
  /\ Machine!vars = Object!vars
<1>1. Machine!vars = Object!vars
  BY DEF Machine!vars, Object!vars
<1>2. \A S : Machine!Cardinality(S) = Object!Cardinality(S)
  BY DEF Machine!Cardinality, Object!Cardinality
<1>3. Machine!Init <=> Object!Init
  BY <1>2 DEF Machine!Init, Object!Init
<1>4. \A st, n, how : Machine!Fail(st, n, how) = Object!Fail(st, n, how)
  <2>1. \A st : Machine!Open(st) = Object!Open(st)
    BY DEF Machine!Open, Object!Open, Machine!Terminal, Object!Terminal,
           Machine!Unsuccessful, Object!Unsuccessful
  <2>2. \A st, n : Machine!Downstream(st, n) = Object!Downstream(st, n)
    BY <2>1 DEF Machine!Downstream, Object!Downstream, Machine!WalkClosed, Object!WalkClosed
  <2> QED
    BY <2>2 DEF Machine!Fail, Object!Fail
<1>5. ASSUME NEW n \in Nodes
      PROVE  Machine!Attempt(n) <=> Object!Attempt(n)
  <2>1. Machine!CompleteSuccess(n) <=> Object!CompleteSuccess(n)
    BY DEF Machine!CompleteSuccess, Object!CompleteSuccess, Machine!Succs, Object!Succs
  <2>2. /\ Machine!CompleteFailure(n) <=> Object!CompleteFailure(n)
        /\ Machine!FailNode(n) <=> Object!FailNode(n)
        /\ Machine!DeadLetterNode(n) <=> Object!DeadLetterNode(n)
    BY <1>4 DEF Machine!CompleteFailure, Object!CompleteFailure, Machine!FailNode,
                Object!FailNode, Machine!DeadLetterNode, Object!DeadLetterNode
  <2>3. /\ Machine!DispatchNode(n) <=> Object!DispatchNode(n)
        /\ Machine!StartNode(n) <=> Object!StartNode(n)
        /\ Machine!LaunchNode(n) <=> Object!LaunchNode(n)
        /\ Machine!AbandonNode(n) <=> Object!AbandonNode(n)
        /\ Machine!RetryWaitNode(n) <=> Object!RetryWaitNode(n)
        /\ Machine!ReadyFromRetry(n) <=> Object!ReadyFromRetry(n)
    BY DEF Machine!DispatchNode, Object!DispatchNode, Machine!StartNode, Object!StartNode,
           Machine!LaunchNode, Object!LaunchNode, Machine!AbandonNode, Object!AbandonNode,
           Machine!InFlight, Object!InFlight, Machine!RetryWaitNode, Object!RetryWaitNode,
           Machine!ReadyFromRetry, Object!ReadyFromRetry
  <2> QED
    BY <2>1, <2>2, <2>3 DEF Machine!Attempt, Object!Attempt
<1>6. Machine!Resume <=> Object!Resume
  <2>1. Machine!RowStatus = Object!RowStatus
    BY DEF Machine!RowStatus, Object!RowStatus
  <2>2. \A rows : Machine!RowsCoherent(rows) <=> Object!RowsCoherent(rows)
    BY DEF Machine!RowsCoherent, Object!RowsCoherent
  <2>3. \A rows : Machine!Restore(rows) = Object!Restore(rows)
    BY DEF Machine!Restore, Object!Restore, Machine!Unblock, Object!Unblock,
           Machine!PredsSucceeded, Object!PredsSucceeded, Machine!RestoredState,
           Object!RestoredState
  <2>4. \A st, n : Machine!UnmetDeps(st, n) = Object!UnmetDeps(st, n)
    BY <1>2 DEF Machine!UnmetDeps, Object!UnmetDeps
  <2>5. Machine!Decided = Object!Decided
    BY DEF Machine!Decided, Object!Decided
  <2>6. ASSUME NEW rows
        PROVE  Machine!Reconstruct(rows) <=> Object!Reconstruct(rows)
    BY <2>2, <2>3, <2>4, <2>5 DEF Machine!Reconstruct, Object!Reconstruct
  <2> QED
    BY <2>1, <2>6 DEF Machine!Resume, Object!Resume
<1>7. /\ Machine!StartRun <=> Object!StartRun
      /\ Machine!Restart <=> Object!Restart
      /\ Machine!CancelRun <=> Object!CancelRun
      /\ Machine!FinalizeRun <=> Object!FinalizeRun
  <2>1. \A st : Machine!CancelOpen(st) = Object!CancelOpen(st)
    BY DEF Machine!CancelOpen, Object!CancelOpen, Machine!Terminal, Object!Terminal,
           Machine!Unsuccessful, Object!Unsuccessful
  <2>2. \A st : Machine!Outcome(st) = Object!Outcome(st)
    BY DEF Machine!Outcome, Object!Outcome
  <2> QED
    BY <1>2, <2>1, <2>2
       DEF Machine!StartRun, Object!StartRun, Machine!Restart, Object!Restart,
           Machine!CancelRun, Object!CancelRun, Machine!FinalizeRun, Object!FinalizeRun
<1>8. Machine!Next <=> Object!Next
  BY <1>5, <1>6, <1>7 DEF Machine!Next, Object!Next
<1> QED
  BY <1>1, <1>3, <1>8

-----------------------------------------------------------------------------
(* The threads implement the machine.                                      *)

Counts(st) == [n \in Nodes |-> UnmetDeps(st, n)]

DecidedNodes(st) == {n \in Nodes : st[n] \in Decided}

NodesTyped == nodeState \in [Nodes -> NodeStates]

(* Node states with the same decided and the same succeeded nodes are the  *)
(* same to the counters and to completed_.                                 *)
LEMMA SameDecided ==
  ASSUME NEW st, NEW tt,
         \A n \in Nodes : /\ st[n] = "SUCCEEDED" <=> tt[n] = "SUCCEEDED"
                          /\ st[n] \in Decided <=> tt[n] \in Decided
  PROVE  Counts(tt) = Counts(st) /\ DecidedNodes(tt) = DecidedNodes(st)
<1>1. \A n \in Nodes : UnmetDeps(tt, n) = UnmetDeps(st, n)
  BY SameSucceeded
<1> QED
  BY <1>1 DEF Counts, DecidedNodes

(* dispatch_node and start_node.                                           *)
LEMMA MoveSimulated ==
  ASSUME NodesTyped, NEW n \in Nodes, runState' = runState,
         \/ nodeState[n] = "READY" /\ nodeState' = [nodeState EXCEPT ![n] = "DISPATCHED"]
         \/ nodeState[n] = "DISPATCHED" /\ nodeState' = [nodeState EXCEPT ![n] = "RUNNING"]
  PROVE  Object!Next
<1>1. \A m \in Nodes : nodeState'[m] = nodeState[m] \/ (m = n /\ nodeState[m] \notin Decided
                                                       /\ nodeState'[m] \notin Decided)
  BY DEF NodesTyped, Decided
<1>2. \A m \in Nodes : /\ nodeState[m] = "SUCCEEDED" <=> nodeState'[m] = "SUCCEEDED"
                       /\ nodeState[m] \in Decided <=> nodeState'[m] \in Decided
  BY <1>1 DEF Decided
<1>3. Counts(nodeState') = Counts(nodeState) /\ DecidedNodes(nodeState') = DecidedNodes(nodeState)
  BY <1>2, SameDecided
<1>4. Object!DispatchNode(n) \/ Object!StartNode(n)
  BY <1>3 DEF Object!DispatchNode, Object!StartNode, Counts, DecidedNodes
<1> QED
  BY <1>4 DEF Object!Next, Object!Attempt

(* complete_node: a success decrements the counter of every successor, a   *)
(* failure cancels everything downstream.                                  *)
LEMMA SuccessSimulated ==
  ASSUME NodesTyped, NEW n \in Nodes, nodeState[n] = "RUNNING", runState' = runState,
         nodeState' = Succeed(nodeState, n)
  PROVE  Object!Next
<1>1. nodeState \in [Nodes -> NodeStates]
  BY DEF NodesTyped
<1>2. /\ nodeState' \in [Nodes -> NodeStates] /\ nodeState'[n] = "SUCCEEDED"
      /\ \A p \in Nodes : nodeState'[p] = "SUCCEEDED" <=> p = n \/ nodeState[p] = "SUCCEEDED"
      /\ \A m \in Nodes \ {n} : nodeState'[m] =
           IF n \in Preds[m] /\ nodeState[m] = "BLOCKED" /\ PredsSucceeded(nodeState', m)
           THEN "READY" ELSE nodeState[m]
  BY <1>1, SucceedEffect
<1>3. \A m \in Nodes : /\ UnmetDeps(nodeState', m) \in Nat
                       /\ UnmetDeps(nodeState', m) = 0 <=> PredsSucceeded(nodeState', m)
                       /\ UnmetDeps(nodeState, m) \in Nat
  BY UnmetDepsCounts
<1>4. \A m \in Nodes : UnmetDeps(nodeState', m) =
        IF m \in Succs(n) /\ UnmetDeps(nodeState, m) > 0
        THEN UnmetDeps(nodeState, m) - 1 ELSE UnmetDeps(nodeState, m)
  BY <1>2, OneMoreSucceeded
<1>5. Counts(nodeState') =
        [m \in Nodes |-> IF m \in Succs(n) /\ Counts(nodeState)[m] > 0
                         THEN Counts(nodeState)[m] - 1 ELSE Counts(nodeState)[m]]
  BY <1>4 DEF Counts
<1>6. DecidedNodes(nodeState') = DecidedNodes(nodeState) \cup {n}
  BY <1>2 DEF DecidedNodes, Decided
<1>7. nodeState' =
        [m \in Nodes |->
           IF m = n THEN "SUCCEEDED"
           ELSE IF m \in Succs(n) /\ Counts(nodeState')[m] = 0 /\ nodeState[m] = "BLOCKED"
           THEN "READY" ELSE nodeState[m]]
  BY <1>2, <1>3 DEF Counts, Succs
<1>8. n \notin DecidedNodes(nodeState)
  BY DEF DecidedNodes, Decided
<1>9. Object!CompleteSuccess(n)
  BY <1>5, <1>6, <1>7, <1>8, SameGraph DEF Object!CompleteSuccess, Counts, DecidedNodes
<1> QED
  BY <1>9 DEF Object!Next, Object!Attempt

(* A failed task is the machine's FailNode: the node fails and what        *)
(* follows it is canceled.                                                 *)
LEMMA FailureSimulated ==
  ASSUME NodesTyped, NEW n \in Nodes, nodeState[n] = "RUNNING", runState' = runState,
         nodeState' = Fail(nodeState, n, "FAILED")
  PROVE  Object!Next
<1>1. nodeState \in [Nodes -> NodeStates]
  BY DEF NodesTyped
<1>2. /\ nodeState' \in [Nodes -> NodeStates] /\ nodeState'[n] = "FAILED"
      /\ \A m \in Nodes \ {n} : nodeState'[m] = nodeState[m]
                               \/ (nodeState[m] \notin Terminal /\ nodeState'[m] = "CANCELED")
  BY <1>1, FailEffect
<1>3. \A m \in Nodes : nodeState[m] = "SUCCEEDED" <=> nodeState'[m] = "SUCCEEDED"
  BY <1>2 DEF Terminal
<1>4. \A m \in Nodes : UnmetDeps(nodeState', m) = UnmetDeps(nodeState, m)
  BY <1>3, SameSucceeded
<1>5. Counts(nodeState') = Counts(nodeState)
  BY <1>4 DEF Counts
<1>6. DecidedNodes(nodeState') = DecidedNodes(nodeState) \cup {n}
  BY <1>2 DEF DecidedNodes, Decided, Terminal, Unsuccessful
<1>7. n \notin DecidedNodes(nodeState)
  BY DEF DecidedNodes, Decided
<1>8. Object!CompleteFailure(n)
  BY <1>5, <1>6, <1>7, SameGraph DEF Object!CompleteFailure, Counts, DecidedNodes
<1> QED
  BY <1>8 DEF Object!Next, Object!Attempt

(* cancel_run, from the canceling thread or from run().                    *)
LEMMA CancelSimulated ==
  ASSUME nodeState' = CancelOpen(nodeState), runState' = "CANCELED"
  PROVE  Object!Next
<1>1. \A n \in Nodes : nodeState'[n] =
        IF nodeState[n] \in Terminal THEN nodeState[n] ELSE "CANCELED"
  BY DEF CancelOpen
<1>2. \A n \in Nodes : /\ nodeState[n] = "SUCCEEDED" <=> nodeState'[n] = "SUCCEEDED"
                       /\ nodeState[n] \in Decided <=> nodeState'[n] \in Decided
  BY <1>1 DEF Terminal, Unsuccessful, Decided
<1>3. Counts(nodeState') = Counts(nodeState) /\ DecidedNodes(nodeState') = DecidedNodes(nodeState)
  BY <1>2, SameDecided
<1>4. Object!CancelRun
  BY <1>3, SameGraph DEF Object!CancelRun, Counts, DecidedNodes
<1> QED
  BY <1>4 DEF Object!Next

(* start_run: nothing has happened to a machine that is QUEUED.            *)
LEMMA StartSimulated ==
  ASSUME runState = "QUEUED", runState' = "RUNNING", nodeState' = Unblock(nodeState),
         \A n \in Nodes : nodeState[n] = "BLOCKED"
  PROVE  Object!Next
<1>1. \A n \in Nodes : UnmetDeps(nodeState, n) = 0 <=> PredsSucceeded(nodeState, n)
  BY UnmetDepsCounts
<1>2. nodeState' = [n \in Nodes |-> IF Counts(nodeState)[n] = 0 THEN "READY" ELSE nodeState[n]]
  BY <1>1 DEF Counts, Unblock
<1>3. \A n \in Nodes : nodeState'[n] \in {"READY", "BLOCKED"}
  BY <1>2
<1>4. Counts(nodeState') = Counts(nodeState) /\ DecidedNodes(nodeState') = DecidedNodes(nodeState)
  BY <1>3, SameDecided DEF Decided
<1>5. Object!StartRun
  BY <1>2, <1>4, SameGraph DEF Object!StartRun, Counts, DecidedNodes
<1> QED
  BY <1>5 DEF Object!Next

(* finalize_run.                                                           *)
LEMMA FinalizeSimulated ==
  ASSUME runState = "RUNNING", runState' = Outcome(nodeState), UNCHANGED nodeState
  PROVE  Object!Next
<1>1. Object!FinalizeRun
  BY SameGraph DEF Object!FinalizeRun
<1> QED
  BY <1>1 DEF Object!Next

(* A step that leaves the run's object alone is a stutter of the machine.  *)
LEMMA MachineIdle ==
  ASSUME UNCHANGED machine
  PROVE  UNCHANGED Object!vars
  BY DEF machine, Object!vars

(* What SchedulerState's invariant says here: a machine that is QUEUED is  *)
(* untouched, nodes wait for their predecessors, and a run with an open    *)
(* node has one that is not blocked.                                       *)
LEMMA ObjectMeaning ==
  ASSUME Object!IInv
  PROVE  /\ runState = "QUEUED" => \A n \in Nodes : nodeState[n] = "BLOCKED"
         /\ \A n \in Nodes :
              nodeState[n] \in {"READY", "DISPATCHED", "RUNNING", "RETRY_WAIT", "SUCCEEDED"} =>
                PredsSucceeded(nodeState, n)
         /\ runState # "QUEUED" /\ Open(nodeState) # {} =>
              \E n \in Nodes :
                nodeState[n] \in {"READY", "DISPATCHED", "RUNNING", "RETRY_WAIT"}
<1>1. Object!IsFiniteSet(Nodes)
  BY NodesFinite DEF Object!IsFiniteSet, IsFiniteSet
<1>2. Object!NeverStuck
  BY <1>1, PredsAreNodes, Acyclic, Object!SomeNodeCanAct
<1> QED
  BY <1>2, SameGraph DEF Object!IInv, Object!QueuedFresh, Object!PredecessorsFirst,
     Object!NeverStuck

(* A step of the machine keeps its invariant.                              *)
LEMMA ObjectKept ==
  ASSUME Object!IInv, Object!Next \/ UNCHANGED Object!vars
  PROVE  Object!IInv'
<1>1. Object!IsFiniteSet(Nodes)
  BY NodesFinite DEF Object!IsFiniteSet, IsFiniteSet
<1> QED
  BY <1>1, PredsAreNodes, Acyclic, Object!NextPreservesIInv

(* The steps that do not touch the state machine.                          *)
SilentStep ==
  \/ Begin \/ Lock \/ Test \/ FallAsleep \/ BreakOrGoOn \/ EndTurn \/ Drain \/ Report
  \/ CancelFlag \/ CancelNotify \/ UNCHANGED vars
  \/ \E n \in Nodes : Pop(n)
  \/ \E w \in Workers : Take(w) \/ EndTask(w) \/ CheckCanceled(w) \/ Push(w) \/ Finish(w)

(* The steps that move the machine, and the others.                        *)
LEMMA NextCases ==
  [Next]_vars =>
    \/ SilentStep
    \/ BeginCanceled \/ StartRun \/ UnblockFirst \/ SubmitPopped \/ Return \/ CancelNodes
    \/ \E w \in Workers : StartTask(w) \/ Release(w) \/ Complete(w)
  BY DEF Next, Dispatcher, Work, Cancel, SilentStep

(* Locks, waits, notifications and the queues leave the machine alone.     *)
LEMMA SilentKeepsMachine ==
  SilentStep => UNCHANGED machine
  BY DEF SilentStep, Begin, Lock, Test, FallAsleep, BreakOrGoOn, EndTurn, Drain, Report,
     CancelFlag, CancelNotify, vars, Pop, Take, EndTask, CheckCanceled, Push, Finish, machine

(* Every step of a thread is a step of the machine or leaves it alone.     *)
LEMMA StepSimulated ==
  ASSUME TypeOK, Object!IInv, WorkersSound, PhaseSound, [Next]_vars
  PROVE  Object!Next \/ UNCHANGED Object!vars
<1>1. NodesTyped
  BY DEF TypeOK, NodesTyped
<1>2. ASSUME NEW n \in Nodes, runState' = runState, nodeState' = Dispatched(nodeState, n)
      PROVE  Object!Next \/ UNCHANGED Object!vars
  <2>1. CASE nodeState[n] = "READY"
    BY <1>1, <1>2, <2>1, MoveSimulated DEF Dispatched
  <2>2. CASE nodeState[n] # "READY"
    BY <1>2, <2>2, MachineIdle DEF Dispatched, machine
  <2> QED
    BY <2>1, <2>2
<1>3. ASSUME NEW used, DrainBlocked(used), runState' = runState
      PROVE  Object!Next \/ UNCHANGED Object!vars
  <2>1. CASE UNCHANGED nodeState
    BY <1>3, <2>1, MachineIdle DEF machine
  <2>2. CASE \E n \in blocked : nodeState' = Dispatched(nodeState, n)
    BY <1>2, <1>3, <2>2 DEF TypeOK
  <2> QED
    BY <1>3, <2>1, <2>2 DEF DrainBlocked, Submit
<1>4. CASE SilentStep
  BY <1>4, SilentKeepsMachine, MachineIdle
<1>5. CASE BeginCanceled \/ CancelNodes
  BY <1>5, CancelSimulated DEF BeginCanceled, CancelNodes
<1>6. CASE StartRun
  <2>1. CASE runState = "QUEUED"
    BY <1>6, <2>1, StartSimulated, ObjectMeaning DEF StartRun
  <2>2. CASE runState # "QUEUED"
    BY <1>6, <2>2, MachineIdle DEF StartRun
  <2> QED
    BY <2>1, <2>2
<1>7. CASE UnblockFirst
  BY <1>3, <1>7 DEF UnblockFirst
<1>8. CASE SubmitPopped
  <2>1. popped \in Nodes
    BY <1>8 DEF SubmitPopped, TypeOK
  <2> QED
    BY <1>2, <1>8, <2>1 DEF SubmitPopped, Submit
<1>9. CASE Return
  <2>1. CASE runState \in RunTerminal
    BY <1>9, <2>1, MachineIdle DEF Return, machine
  <2>2. CASE runState \notin RunTerminal
    <3>1. runState = "RUNNING"
      BY <1>9, <2>2 DEF Return, PhaseSound, TypeOK, RunStates, RunTerminal
    <3> QED
      BY <1>9, <2>2, <3>1, FinalizeSimulated DEF Return
  <2> QED
    BY <2>1, <2>2
<1>10. ASSUME NEW w \in Workers, StartTask(w) \/ Release(w) \/ Complete(w)
       PROVE  Object!Next \/ UNCHANGED Object!vars
  <2>1. CASE Release(w)
    <3>1. \E used : DrainBlocked(used) /\ runState' = runState
      BY <2>1 DEF Release
    <3> QED
      BY <1>3, <3>1
  <2>2. CASE StartTask(w) \/ Complete(w)
    <3>1. worker[w].node \in Nodes /\ runState' = runState
      BY <2>2 DEF StartTask, Complete, WorkersSound
    <3>2. CASE StartTask(w)
      BY <1>1, <3>1, <3>2, MoveSimulated, MachineIdle DEF StartTask, machine
    <3>3. CASE Complete(w)
      BY <1>1, <3>1, <3>3, SuccessSimulated, FailureSimulated, MachineIdle DEF Complete, machine
    <3> QED
      BY <2>2, <3>2, <3>3
  <2> QED
    BY <1>10, <2>1, <2>2
<1> QED
  BY <1>4, <1>5, <1>6, <1>7, <1>8, <1>9, <1>10, NextCases

-----------------------------------------------------------------------------
(* Where the nodes are, and what a step of a worker does to that.          *)

Working == Early \cup Late

(* The sets of stages the invariant of the nodes speaks of.                *)
NodeStages == {Early, Late, {"taken"}, {"running"} \cup Late}

(* A step leaves m where it is.                                            *)
SamePlace(m) ==
  /\ m \in readyQueue' <=> m \in readyQueue
  /\ m \in blocked' <=> m \in blocked
  /\ m = popped' <=> m = popped
  /\ m \in pool' <=> m \in pool
  /\ \A S \in NodeStages : OnWorker(m, S)' <=> OnWorker(m, S)
  /\ Logged(m)' <=> Logged(m)
  /\ Pushed(m)' <=> Pushed(m)

WorkerRecord ==
  [at: Stages, node: Nodes \cup {NoNode}, ok: BOOLEAN, ready: SUBSET Nodes]

(* How the stages of a worker divide.                                      *)
LEMMA StageSets ==
  /\ \A S \in NodeStages : S \subseteq Working
  /\ Working \subseteq Stages /\ "idle" \notin Working
  /\ "pushing" \notin Working /\ "finishing" \notin Working
  /\ Early \cap Late = {}
  BY DEF NodeStages, Working, Early, Late, Stages

(* One worker's record is written.                                         *)
WorkerWrites(w, x) == x \in WorkerRecord /\ worker' = [worker EXCEPT ![w] = x]

(* A write to one worker's record leaves the others as they are.           *)
LEMMA WriteEffect ==
  ASSUME TypeOK, NEW w \in Workers, NEW x, WorkerWrites(w, x)
  PROVE  /\ worker \in [Workers -> WorkerRecord] /\ worker' \in [Workers -> WorkerRecord]
         /\ worker'[w] = x /\ \A v \in Workers \ {w} : worker'[v] = worker[v]
<1>1. worker \in [Workers -> WorkerRecord]
  BY DEF TypeOK, WorkerRecord
<1> QED
  BY <1>1 DEF WorkerWrites

(* A worker with a task goes on with it, to another stage or out of them:  *)
(* only its node is affected, and no other worker has that node.           *)
LEMMA TaskMoves ==
  ASSUME TypeOK, WorkersSound, NEW w \in Workers, NEW x, WorkerWrites(w, x),
         worker[w].at \in Working, x.node = worker[w].node
  PROVE  \A S \in SUBSET Working :
           /\ OnWorker(x.node, S) <=> worker[w].at \in S
           /\ OnWorker(x.node, S)' <=> x.at \in S
           /\ \A m : m # x.node => (OnWorker(m, S)' <=> OnWorker(m, S))
<1> SUFFICES ASSUME NEW S \in SUBSET Working
             PROVE  /\ OnWorker(x.node, S) <=> worker[w].at \in S
                    /\ OnWorker(x.node, S)' <=> x.at \in S
                    /\ \A m : m # x.node => (OnWorker(m, S)' <=> OnWorker(m, S))
  OBVIOUS
<1>1. worker'[w] = x /\ \A v \in Workers \ {w} : worker'[v] = worker[v]
  BY WriteEffect
<1>2. \A v \in Workers \ {w} : worker[v].at \in S => worker[v].node # x.node
  BY DEF WorkersSound, Working
<1>3. OnWorker(x.node, S) <=> worker[w].at \in S
  BY <1>2 DEF OnWorker
<1>4. OnWorker(x.node, S)' <=> x.at \in S
  BY <1>1, <1>2 DEF OnWorker
<1>5. \A m : m # x.node => (OnWorker(m, S)' <=> OnWorker(m, S))
  BY <1>1 DEF OnWorker
<1> QED
  BY <1>3, <1>4, <1>5

(* A worker that has nothing to do with a task any more: nothing changes.  *)
LEMMA OutsideMoves ==
  ASSUME TypeOK, NEW w \in Workers, NEW x, WorkerWrites(w, x),
         worker[w].at \notin Working, x.at \notin Working
  PROVE  \A S \in SUBSET Working : \A m : OnWorker(m, S)' <=> OnWorker(m, S)
<1>1. worker'[w] = x /\ \A v \in Workers \ {w} : worker'[v] = worker[v]
  BY WriteEffect
<1> QED
  BY <1>1 DEF OnWorker

(* A node whose place and state stay is as sound as it was.                *)
LEMMA NodeKept ==
  ASSUME NEW m \in Nodes, SamePlace(m), nodeState'[m] = nodeState[m],
         PredsSucceeded(nodeState, m) => PredsSucceeded(nodeState', m),
         canceled => canceled', draining => draining', TakenUp(m), Placed(m)
  PROVE  TakenUp(m)' /\ Placed(m)'
<1>1. Waiting(m)' <=> Waiting(m)
  BY DEF SamePlace, Waiting
<1>2. \A S \in NodeStages : OnWorker(m, S)' <=> OnWorker(m, S)
  BY DEF SamePlace
<1>3. Early \in NodeStages /\ {"taken"} \in NodeStages /\ {"running"} \cup Late \in NodeStages
  BY DEF NodeStages
<1>4. Fresh(m)' <=> Fresh(m)
  BY <1>1, <1>2, <1>3 DEF SamePlace, Fresh
<1>5. TakenUp(m)'
  BY <1>1, <1>2, <1>3, <1>4 DEF SamePlace, TakenUp
<1>6. Placed(m)'
  BY <1>1, <1>2, <1>3, <1>4 DEF SamePlace, Placed
<1> QED
  BY <1>5, <1>6

(* A node that is canceled where it is: by a cancellation of the run, or   *)
(* because a failure upstream means that no thread will ever take it up.   *)
LEMMA NodeCanceled ==
  ASSUME NEW m \in Nodes, SamePlace(m) \/ (Fresh(m) /\ Fresh(m)'), nodeState'[m] = "CANCELED",
         PredsSucceeded(nodeState, m) => PredsSucceeded(nodeState', m),
         nodeState[m] \notin Terminal,
         canceled' \/ (Fresh(m) /\ Fresh(m)'), TakenUp(m)
  PROVE  TakenUp(m)' /\ Placed(m)'
<1>1. Placed(m)'
  BY DEF Placed
<1>2. CASE SamePlace(m) /\ canceled'
  <2>1. Waiting(m)' <=> Waiting(m)
    BY <1>2 DEF SamePlace, Waiting
  <2>2. \A S \in NodeStages : OnWorker(m, S)' <=> OnWorker(m, S)
    BY <1>2 DEF SamePlace
  <2>3. Early \in NodeStages /\ {"taken"} \in NodeStages /\ {"running"} \cup Late \in NodeStages
    BY DEF NodeStages
  <2>4. Fresh(m)' <=> Fresh(m)
    BY <1>2, <2>1, <2>2, <2>3 DEF SamePlace, Fresh
  <2>5. TakenUp(m)'
    BY <1>2, <2>1, <2>2, <2>3, <2>4 DEF SamePlace, TakenUp
  <2> QED
    BY <1>1, <2>5
<1>3. CASE Fresh(m)'
  BY <1>1, <1>3 DEF Fresh, TakenUp
<1> QED
  BY <1>1, <1>2, <1>3

(* A state no step has decided yet may change; a decided one is for good.  *)
StatesMove ==
  /\ nodeState' \in [Nodes -> NodeStates]
  /\ \A n \in Nodes : nodeState'[n] = nodeState[n] \/ nodeState[n] \notin Terminal

(* A dispatch takes its node from READY to DISPATCHED, and no other.       *)
LEMMA DispatchedMoves ==
  ASSUME NodesTyped, NEW n \in Nodes, nodeState' = Dispatched(nodeState, n)
  PROVE  /\ StatesMove
         /\ nodeState'[n] = IF nodeState[n] = "READY" THEN "DISPATCHED" ELSE nodeState[n]
         /\ \A m \in Nodes \ {n} : nodeState'[m] = nodeState[m]
<1>1. CASE nodeState[n] = "READY"
  <2>1. nodeState' = [nodeState EXCEPT ![n] = "DISPATCHED"]
    BY <1>1 DEF Dispatched
  <2> QED
    BY <1>1, <2>1 DEF NodesTyped, StatesMove, NodeStates, Terminal, Unsuccessful
<1>2. CASE nodeState[n] # "READY"
  <2>1. nodeState' = nodeState
    BY <1>2 DEF Dispatched
  <2> QED
    BY <1>2, <2>1 DEF NodesTyped, StatesMove
<1> QED
  BY <1>1, <1>2

(* A cancel of the run closes every open node and takes back nothing       *)
(* decided.                                                                *)
LEMMA CancelMoves ==
  ASSUME NodesTyped, nodeState' = CancelOpen(nodeState)
  PROVE  /\ StatesMove
         /\ \A n \in Nodes : nodeState'[n] =
              IF nodeState[n] \in Terminal THEN nodeState[n] ELSE "CANCELED"
<1>1. \A n \in Nodes : nodeState'[n] =
        IF nodeState[n] \in Terminal THEN nodeState[n] ELSE "CANCELED"
  BY DEF CancelOpen
<1>2. nodeState' \in [Nodes -> NodeStates]
  BY <1>1 DEF CancelOpen, NodesTyped, NodeStates
<1> QED
  BY <1>1, <1>2 DEF StatesMove

(* No step of any thread changes the state of a node that is decided.      *)
LEMMA DecidedStays ==
  ASSUME TypeOK, WorkersSound, [Next]_vars
  PROVE  StatesMove
<1>1. NodesTyped
  BY DEF TypeOK, NodesTyped
<1>2. CASE UNCHANGED nodeState
  BY <1>1, <1>2 DEF NodesTyped, StatesMove
<1>3. ASSUME NEW used, DrainBlocked(used)
      PROVE  StatesMove
  BY <1>1, <1>2, <1>3, DispatchedMoves DEF DrainBlocked, Submit, TypeOK
<1>4. CASE SilentStep
  BY <1>2, <1>4, SilentKeepsMachine DEF machine
<1>5. CASE BeginCanceled \/ CancelNodes
  BY <1>1, <1>5, CancelMoves DEF BeginCanceled, CancelNodes
<1>6. CASE StartRun
  <2>1. CASE nodeState' = Unblock(nodeState)
    BY <1>1, <2>1 DEF Unblock, NodesTyped, StatesMove, NodeStates, Terminal, Unsuccessful
  <2> QED
    BY <1>2, <1>6, <2>1 DEF StartRun, machine
<1>7. CASE UnblockFirst \/ \E w \in Workers : Release(w)
  BY <1>3, <1>7 DEF UnblockFirst, Release
<1>8. CASE SubmitPopped
  BY <1>1, <1>8, DispatchedMoves DEF SubmitPopped, Submit, TypeOK
<1>9. CASE Return
  BY <1>2, <1>9 DEF Return
<1>10. ASSUME NEW w \in Workers, StartTask(w) \/ Complete(w)
       PROVE  StatesMove
  <2>1. worker[w].node \in Nodes
    BY <1>10 DEF StartTask, Complete, WorkersSound
  <2>2. CASE StartTask(w)
    BY <1>1, <2>1, <2>2 DEF StartTask, NodesTyped, StatesMove, NodeStates, Terminal,
       Unsuccessful
  <2>3. CASE Complete(w)
    <3>1. CASE nodeState[worker[w].node] # "RUNNING"
      BY <1>2, <2>3, <3>1 DEF Complete
    <3>2. CASE nodeState[worker[w].node] = "RUNNING" /\ worker[w].ok
      <4>1. nodeState' = Succeed(nodeState, worker[w].node)
        BY <2>3, <3>2 DEF Complete
      <4> QED
        BY <1>1, <2>1, <3>2, <4>1, SucceedEffect
           DEF NodesTyped, StatesMove, Terminal, Unsuccessful
    <3>3. CASE nodeState[worker[w].node] = "RUNNING" /\ ~ worker[w].ok
      <4>1. nodeState' = Fail(nodeState, worker[w].node, "FAILED")
        BY <2>3, <3>3 DEF Complete
      <4>2. /\ nodeState' \in [Nodes -> NodeStates]
            /\ \A m \in Nodes \ {worker[w].node} : nodeState'[m] = nodeState[m]
                 \/ (nodeState[m] \notin Terminal /\ nodeState'[m] = "CANCELED")
        BY <1>1, <2>1, <4>1, FailEffect DEF NodesTyped
      <4> QED
        BY <3>3, <4>2 DEF StatesMove, Terminal, Unsuccessful
    <3> QED
      BY <3>1, <3>2, <3>3
  <2> QED
    BY <1>10, <2>2, <2>3
<1> QED
  BY <1>4, <1>5, <1>6, <1>7, <1>8, <1>9, <1>10, NextCases

(* A node whose predecessors have succeeded keeps them so.                 *)
LEMMA SuccessesStay ==
  ASSUME StatesMove
  PROVE  \A m \in Nodes : PredsSucceeded(nodeState, m) => PredsSucceeded(nodeState', m)
BY PredsAreNodes DEF StatesMove, PredsSucceeded, Terminal

(* The log has what it had about m, and nothing else about it.             *)
SameLog(m) ==
  /\ \A ok : InLog(m, ok) => InLog(m, ok)'
  /\ \A i \in DOMAIN log' : log'[i].node = m => i \in DOMAIN log /\ log'[i] = log[i]

(* A step that logs nothing leaves what the log says of every node.        *)
LEMMA LogStays ==
  ASSUME log' = log
  PROVE  \A m : SameLog(m)
BY DEF SameLog, InLog

(* A node that stays where it is, as the log does.                         *)
LEMMA NodeStays ==
  ASSUME NEW m \in Nodes, SamePlace(m), StatesMove, nodeState'[m] = nodeState[m],
         canceled => canceled', draining => draining', SameLog(m),
         TakenUp(m), Placed(m), Recorded(m)
  PROVE  TakenUp(m)' /\ Placed(m)' /\ Recorded(m)'
<1>1. TakenUp(m)' /\ Placed(m)'
  BY NodeKept, SuccessesStay
<1>2. OnWorker(m, Late)' <=> OnWorker(m, Late)
  BY DEF SamePlace, NodeStages
<1>3. \A p \in Nodes : nodeState[p] = "FAILED" => nodeState'[p] = "FAILED"
  BY DEF StatesMove, Terminal, Unsuccessful
<1>4. /\ (nodeState[m] = "SUCCEEDED" => InLog(m, TRUE))'
      /\ (nodeState[m] = "FAILED" => InLog(m, FALSE))'
  BY DEF Recorded, SameLog
<1>5. (nodeState[m] = "CANCELED" /\ ~ canceled => \E p \in Nodes : nodeState[p] = "FAILED")'
  BY <1>3 DEF Recorded
<1>6. (~ canceled => \A i \in DOMAIN log : log[i].node = m =>
         OnWorker(m, Late) \/ nodeState[m] = IF log[i].ok THEN "SUCCEEDED" ELSE "FAILED")'
  <2> SUFFICES ASSUME ~ canceled', NEW i \in DOMAIN log', log'[i].node = m
               PROVE  OnWorker(m, Late)' \/ nodeState'[m] = IF log'[i].ok THEN "SUCCEEDED" ELSE "FAILED"
    OBVIOUS
  <2>1. i \in DOMAIN log /\ log'[i] = log[i]
    BY DEF SameLog
  <2> QED
    BY <1>2, <2>1 DEF Recorded
<1>7. Recorded(m)'
  BY <1>4, <1>5, <1>6 DEF Recorded
<1> QED
  BY <1>1, <1>7

(* A node that is canceled where it is: the log need not say anything.     *)
LEMMA NodeEnds ==
  ASSUME NEW m \in Nodes, SamePlace(m) \/ (Fresh(m) /\ Fresh(m)'), StatesMove,
         nodeState'[m] = "CANCELED", nodeState[m] \notin Terminal,
         canceled' \/ (Fresh(m) /\ Fresh(m)' /\ \E p \in Nodes : nodeState'[p] = "FAILED"),
         TakenUp(m)
  PROVE  TakenUp(m)' /\ Placed(m)' /\ Recorded(m)'
<1>1. TakenUp(m)' /\ Placed(m)'
  BY NodeCanceled, SuccessesStay
<1>2. ~ canceled' => ~ Logged(m)'
  BY DEF Fresh
<1>3. Recorded(m)'
  BY <1>2 DEF Recorded, Logged
<1> QED
  BY <1>1, <1>3

(* The places of the nodes, all together.                                  *)
PlacesSound == WorkersSound /\ NodesSound /\ SessionSound

(* The control of the dispatcher and of the canceling thread moves no node *)
(* and no worker.                                                          *)
NothingMoves ==
  UNCHANGED <<nodeState, popped, readyQueue, blocked, usage, pool, worker, log>>

(* A step that moves no node between the queues and the workers.           *)
LEMMA NothingMovesKeeps ==
  ASSUME PlacesSound, StatesMove, NothingMoves, canceled => canceled', draining => draining'
  PROVE  PlacesSound'
<1>1. WorkersSound'
  BY DEF PlacesSound, NothingMoves, WorkersSound, InLog, Pushing
<1>2. \A m \in Nodes : SamePlace(m) /\ nodeState'[m] = nodeState[m]
  BY DEF NothingMoves, SamePlace, OnWorker, Logged, Pushed, Pushing
<1>3. log' = log
  BY DEF NothingMoves
<1>4. NodesSound'
  BY <1>2, <1>3, LogStays, NodeStays DEF PlacesSound, NodesSound
<1>5. SessionSound'
  BY DEF PlacesSound, NothingMoves, SessionSound, HasSession, OnWorker
<1> QED
  BY <1>1, <1>4, <1>5 DEF PlacesSound

(* What a worker may write of itself without disturbing the others.        *)
LEMMA WorkersKept ==
  ASSUME TypeOK, WorkersSound, NEW w \in Workers, NEW x, WorkerWrites(w, x),
         \A n, ok : InLog(n, ok) => InLog(n, ok)',
         \A n \in Nodes : nodeState'[n] = "READY" /\ nodeState[n] # "READY" => ~ Pushed(n),
         x.at = "idle" => x = Idle,
         x.at # "idle" => x.node \in Nodes,
         x.at \notin {"pushing", "finishing"} => x.ready = {},
         x.at \in Late => InLog(x.node, x.ok)',
         x.at \in Working =>
           \A v \in Workers \ {w} : worker[v].at \in Working => worker[v].node # x.node,
         x.at = "pushing" =>
           \A n \in x.ready : nodeState'[n] = "READY" =>
             \A v \in Workers \ {w} : ~ Pushing(v, n)
  PROVE  WorkersSound'
<1>1. worker'[w] = x /\ \A v \in Workers \ {w} : worker'[v] = worker[v]
  BY WriteEffect
<1>2. ASSUME NEW u \in Workers
      PROVE  /\ worker'[u].at = "idle" => worker'[u] = Idle
             /\ worker'[u].at # "idle" => worker'[u].node \in Nodes
             /\ worker'[u].at \notin {"pushing", "finishing"} => worker'[u].ready = {}
             /\ worker'[u].at \in Late => (\E i \in DOMAIN log' :
                  log'[i] = [node |-> worker'[u].node, ok |-> worker'[u].ok])
  <2>1. CASE u = w
    BY <1>1, <2>1 DEF InLog
  <2>2. CASE u # w
    <3>1. worker'[u] = worker[u]
      BY <1>1, <2>2
    <3>2. PICK n, ok : n = worker[u].node /\ ok = worker[u].ok
      OBVIOUS
    <3>3. worker[u].at \in Late => InLog(n, ok)'
      BY <3>2 DEF WorkersSound
    <3>4. worker'[u].at \in Late => (\E i \in DOMAIN log' :
            log'[i] = [node |-> worker'[u].node, ok |-> worker'[u].ok])
      BY <3>1, <3>2, <3>3 DEF InLog
    <3> QED
      BY <3>1, <3>4 DEF WorkersSound
  <2> QED
    BY <2>1, <2>2
<1>3. ASSUME NEW u \in Workers, NEW v \in Workers,
             worker'[u].at \in Early \cup Late, worker'[v].at \in Early \cup Late,
             worker'[v].node = worker'[u].node
      PROVE  v = u
  <2>1. CASE u = w
    BY <1>1, <1>3, <2>1 DEF Working
  <2>2. CASE v = w
    BY <1>1, <1>3, <2>2 DEF Working
  <2>3. CASE u # w /\ v # w
    BY <1>1, <1>3, <2>3 DEF WorkersSound
  <2> QED
    BY <2>1, <2>2, <2>3
<1>4. ASSUME NEW u \in Workers, NEW v \in Workers, NEW n \in Nodes,
             Pushing(u, n)', Pushing(v, n)', nodeState'[n] = "READY"
      PROVE  v = u
  <2>1. \A t \in Workers \ {w} : Pushing(t, n)' => Pushing(t, n)
    BY <1>1 DEF Pushing
  <2>2. Pushing(w, n)' => x.at = "pushing" /\ n \in x.ready
    BY <1>1 DEF Pushing
  <2>3. CASE u = w
    BY <1>4, <2>1, <2>2, <2>3
  <2>4. CASE v = w
    BY <1>4, <2>1, <2>2, <2>4
  <2>5. CASE u # w /\ v # w
    <3>1. Pushing(u, n) /\ Pushing(v, n)
      BY <1>4, <2>1, <2>5
    <3>2. nodeState[n] = "READY"
      BY <1>4, <3>1 DEF Pushed
    <3> QED
      BY <3>1, <3>2 DEF WorkersSound
  <2> QED
    BY <2>3, <2>4, <2>5
<1> QED
  BY <1>2, <1>3, <1>4 DEF WorkersSound, InLog

(* Only a worker that begins or ends pushing changes what is pushed.       *)
LEMMA PushedKept ==
  ASSUME TypeOK, NEW w \in Workers, NEW x, WorkerWrites(w, x),
         worker[w].at # "pushing", x.at # "pushing"
  PROVE  \A m : Pushed(m)' <=> Pushed(m)
<1>1. worker'[w] = x /\ \A v \in Workers \ {w} : worker'[v] = worker[v]
  BY WriteEffect
<1>2. ASSUME NEW m, NEW v \in Workers
      PROVE  Pushing(v, m)' <=> Pushing(v, m)
  BY <1>1 DEF Pushing
<1> QED
  BY <1>2 DEF Pushed

(* Who has the session keeps it or gives it up, and nobody else takes it.  *)
LEMMA SessionKept ==
  ASSUME SessionSound, usage' = usage, blocked' = blocked,
         \A n \in Nodes : HasSession(n)' => HasSession(n)
  PROVE  SessionSound'
<1>1. usage' \in {0, 1} /\ blocked' \subseteq BrowserNodes
  BY DEF SessionSound
<1>2. \A n \in Nodes : HasSession(n)' => usage' = 1
  BY DEF SessionSound
<1>3. \A m, n \in Nodes : HasSession(m)' /\ HasSession(n)' => m = n
  BY DEF SessionSound
<1> QED
  BY <1>1, <1>2, <1>3 DEF SessionSound

(* A worker goes on with its task: the other nodes stay.                   *)
LEMMA TaskStepOthers ==
  ASSUME TypeOK, PlacesSound, NEW w \in Workers, NEW x, WorkerWrites(w, x),
         worker[w].at \in Working, x.at # "pushing", x.node = worker[w].node,
         UNCHANGED <<popped, readyQueue, blocked, pool>>
  PROVE  /\ \A m \in Nodes \ {x.node} : (Logged(m)' <=> Logged(m)) => SamePlace(m)
         /\ \A m \in Nodes : Pushed(m)' <=> Pushed(m)
<1>1. \A S \in SUBSET Working : \A m : m # x.node => (OnWorker(m, S)' <=> OnWorker(m, S))
  BY TaskMoves DEF PlacesSound
<1>2. \A m : Pushed(m)' <=> Pushed(m)
  BY PushedKept, StageSets
<1>3. \A m \in Nodes \ {x.node} : (Logged(m)' <=> Logged(m)) => SamePlace(m)
  BY <1>1, <1>2, StageSets DEF SamePlace
<1> QED
  BY <1>2, <1>3

(* What the invariant says of a worker in the middle of a task.            *)
LEMMA TaskMeaning ==
  ASSUME PlacesSound, NEW w \in Workers, worker[w].at \in Working
  PROVE  /\ worker[w].node \in Nodes
         /\ worker[w].ready = {}
         /\ \A v \in Workers \ {w} :
              worker[v].at \in Working => worker[v].node # worker[w].node
         /\ ~ Waiting(worker[w].node) /\ worker[w].node \notin pool
         /\ ~ Fresh(worker[w].node)
         /\ PredsSucceeded(nodeState, worker[w].node)
         /\ nodeState[worker[w].node] = "CANCELED" => canceled
         /\ worker[w].at \in Early <=> ~ Logged(worker[w].node)
<1> DEFINE n == worker[w].node
<1>1. n \in Nodes /\ worker[w].ready = {}
  BY StageSets DEF PlacesSound, WorkersSound
<1>2. \A v \in Workers \ {w} : worker[v].at \in Working => worker[v].node # n
  BY DEF PlacesSound, WorkersSound, Working
<1>3. TakenUp(n)
  BY <1>1 DEF PlacesSound, NodesSound
<1>4. CASE worker[w].at \in Early
  <2>1. OnWorker(n, Early)
    BY <1>4 DEF OnWorker
  <2> QED
    BY <1>1, <1>2, <1>3, <1>4, <2>1 DEF TakenUp, Fresh
<1>5. CASE worker[w].at \in Late
  <2>1. Logged(n)
    <3>1. InLog(n, worker[w].ok)
      BY <1>5 DEF PlacesSound, WorkersSound
    <3> QED
      BY <3>1 DEF InLog, Logged
  <2>2. worker[w].at \notin Early
    BY <1>5, StageSets
  <2> QED
    BY <1>1, <1>2, <1>3, <2>1, <2>2 DEF TakenUp, Fresh
<1> QED
  BY <1>4, <1>5 DEF Working

(* A worker holds n at a stage of its task.                                *)
LEMMA WorkerHolds ==
  ASSUME NEW n \in Nodes, NEW stage \in Working,
         \A S \in SUBSET Working : OnWorker(n, S)' <=> stage \in S,
         ~ Waiting(n)', n \notin pool', stage \in Early <=> ~ Logged(n)',
         PredsSucceeded(nodeState', n), nodeState'[n] = "CANCELED" => canceled',
         nodeState'[n] \in IF stage = "taken" THEN {"DISPATCHED", "CANCELED"}
                                              ELSE {"RUNNING", "CANCELED"}
  PROVE  TakenUp(n)' /\ Placed(n)' /\ Recorded(n)'
<1>1. /\ OnWorker(n, Early)' <=> stage \in Early
      /\ OnWorker(n, {"taken"})' <=> stage = "taken"
      /\ OnWorker(n, {"running"} \cup Late)' <=> stage \in {"running"} \cup Late
      /\ OnWorker(n, Late)' <=> stage \in Late
  BY DEF Working, Early
<1>2. stage = "taken" <=> stage \notin {"running"} \cup Late
  BY DEF Working, Early, Late
<1>3. TakenUp(n)'
  BY <1>1, <1>2 DEF TakenUp
<1>4. Placed(n)'
  BY <1>1, <1>2 DEF Placed
<1>5. Recorded(n)'
  BY <1>1 DEF Recorded, Logged, Working
<1> QED
  BY <1>3, <1>4, <1>5

(* A worker writes another stage into its record.                          *)
LEMMA Restaged ==
  ASSUME TypeOK, NEW w \in Workers, NEW stage \in Stages,
         worker' = [worker EXCEPT ![w].at = stage]
  PROVE  \E x : /\ WorkerWrites(w, x)
                /\ x.at = stage /\ x.node = worker[w].node /\ x.ok = worker[w].ok
                /\ x.ready = worker[w].ready
<1> DEFINE x == [worker[w] EXCEPT !.at = stage]
<1>1. worker[w] \in WorkerRecord
  BY DEF TypeOK, WorkerRecord
<1>2. x \in WorkerRecord
  BY <1>1 DEF WorkerRecord
<1>3. worker' = [worker EXCEPT ![w] = x]
  OBVIOUS
<1>4. x.at = stage /\ x.node = worker[w].node /\ x.ok = worker[w].ok /\ x.ready = worker[w].ready
  BY <1>1 DEF WorkerRecord
<1> QED
  BY <1>2, <1>3, <1>4 DEF WorkerWrites

(* A worker that writes a stage of the same task, or the end of it, with   *)
(* the rest left alone: all is sound if its node is.                       *)
LEMMA TaskStepSound ==
  ASSUME TypeOK, PlacesSound, StatesMove, NEW w \in Workers, NEW x, WorkerWrites(w, x),
         worker[w].at \in Working, x.at \in Working \cup {"finishing"},
         x.node = worker[w].node, x.ready = {},
         x.at \in Late => InLog(x.node, x.ok)',
         x.at \in {"taken", "running", "ran"} =>
           worker[w].at \in {"taken", "running", "ran"},
         canceled => canceled', draining => draining',
         UNCHANGED <<popped, readyQueue, blocked, pool, usage>>,
         \A n, ok : InLog(n, ok) => InLog(n, ok)',
         \A m \in Nodes \ {x.node} : /\ nodeState'[m] = nodeState[m]
                                     /\ Logged(m)' <=> Logged(m)
                                     /\ SameLog(m),
         nodeState'[x.node] = "READY" => nodeState[x.node] = "READY",
         TakenUp(x.node)' /\ Placed(x.node)' /\ Recorded(x.node)'
  PROVE  PlacesSound'
<1>1. x.node \in Nodes
  BY TaskMeaning
<1>2. \A v \in Workers \ {w} : worker[v].at \in Working => worker[v].node # x.node
  BY TaskMeaning
<1>3. x.at \notin {"idle", "pushing"}
  BY DEF Working, Early, Late
<1>4. \A n \in Nodes : ~ (nodeState'[n] = "READY" /\ nodeState[n] # "READY")
  OBVIOUS
<1>5. WorkersSound'
  BY <1>1, <1>2, <1>3, <1>4, WorkersKept DEF PlacesSound
<1>6. \A m \in Nodes \ {x.node} : SamePlace(m)
  BY <1>3, TaskStepOthers
<1>7. \A m \in Nodes : TakenUp(m) /\ Placed(m) /\ Recorded(m)
  BY DEF PlacesSound, NodesSound
<1>8. \A m \in Nodes \ {x.node} : TakenUp(m)' /\ Placed(m)' /\ Recorded(m)'
  BY <1>6, <1>7, NodeStays
<1>9. NodesSound'
  BY <1>8 DEF NodesSound
<1>10. \A n \in Nodes : HasSession(n)' => HasSession(n)
  <2>1. {"taken", "running", "ran"} \in SUBSET Working
    BY DEF Working, Early, Late
  <2>2. \A n \in Nodes : OnWorker(n, {"taken", "running", "ran"})' =>
          OnWorker(n, {"taken", "running", "ran"})
    BY <2>1, TaskMoves DEF PlacesSound
  <2> QED
    BY <2>2 DEF HasSession
<1>11. SessionSound'
  BY <1>10, SessionKept DEF PlacesSound
<1> QED
  BY <1>5, <1>9, <1>11 DEF PlacesSound

(* start_node and the task.                                                *)
LEMMA StartTaskKeeps ==
  ASSUME TypeOK, PlacesSound, StatesMove, NEW w \in Workers, StartTask(w)
  PROVE  PlacesSound'
<1>1. PICK x : /\ WorkerWrites(w, x)
               /\ x.at = "running" /\ x.node = worker[w].node /\ x.ok = worker[w].ok
               /\ x.ready = worker[w].ready
  BY Restaged DEF StartTask, Stages
<1> DEFINE n == x.node
<1>2. worker[w].at = "taken" /\ worker[w].at \in Working /\ worker[w].at \in Early
  BY DEF StartTask, Working, Early
<1>3. /\ UNCHANGED <<popped, readyQueue, blocked, pool, usage, log, canceled, draining>>
      /\ nodeState' = IF nodeState[n] = "DISPATCHED"
                      THEN [nodeState EXCEPT ![n] = "RUNNING"] ELSE nodeState
  BY <1>1 DEF StartTask, mainVars, dispatch, cancelVars
<1>4. /\ n \in Nodes /\ x.ready = {}
      /\ ~ Waiting(n) /\ n \notin pool /\ PredsSucceeded(nodeState, n) /\ ~ Logged(n)
      /\ nodeState[n] = "CANCELED" => canceled
  BY <1>1, <1>2, TaskMeaning
<1>5. nodeState[n] \in {"DISPATCHED", "CANCELED"}
  <2>1. OnWorker(n, {"taken"})
    BY <1>1, <1>2 DEF OnWorker
  <2> QED
    BY <1>4, <2>1 DEF PlacesSound, NodesSound, TakenUp
<1>6. nodeState'[n] \in {"RUNNING", "CANCELED"} /\ (nodeState'[n] = "CANCELED" => canceled')
  BY <1>3, <1>4, <1>5 DEF TypeOK
<1>7. \A m \in Nodes \ {n} : nodeState'[m] = nodeState[m] /\ (Logged(m)' <=> Logged(m)) /\ SameLog(m)
  BY <1>3, <1>4, LogStays DEF TypeOK, Logged
<1>8. \A S \in SUBSET Working : OnWorker(n, S)' <=> x.at \in S
  BY <1>1, <1>2, TaskMoves DEF PlacesSound
<1>9. TakenUp(n)' /\ Placed(n)' /\ Recorded(n)'
  <2>1. ~ Waiting(n)' /\ n \notin pool' /\ ~ Logged(n)'
    BY <1>3, <1>4 DEF Waiting, Logged
  <2>2. PredsSucceeded(nodeState', n)
    BY <1>4, SuccessesStay
  <2>3. x.at \in Working /\ x.at \in Early /\ x.at # "taken"
    BY <1>1 DEF Working, Early
  <2> HIDE DEF n
  <2> QED
    BY <1>4, <1>6, <1>8, <2>1, <2>2, <2>3, WorkerHolds
<1>10. \A m, ok : InLog(m, ok) => InLog(m, ok)'
  BY <1>3 DEF InLog
<1>11. x.at \in Working \cup {"finishing"} /\ x.at \notin Late /\ nodeState'[n] # "READY"
  BY <1>1, <1>6 DEF Working, Early, Late
<1> QED
  BY <1>1, <1>2, <1>3, <1>4, <1>7, <1>9, <1>10, <1>11, TaskStepSound

(* What appending an entry does to the log.                                *)
LEMMA LogAppended ==
  ASSUME TypeOK, NEW e \in LogEntry, log' = Append(log, e)
  PROVE  /\ log' \in Seq(LogEntry) /\ Len(log') = Len(log) + 1 /\ Len(log) \in Nat
         /\ DOMAIN log = 1..Len(log) /\ DOMAIN log' = 1..(Len(log) + 1)
         /\ \A i \in DOMAIN log : log'[i] = log[i]
         /\ log'[Len(log) + 1] = e
         /\ \A m, ok : InLog(m, ok) => InLog(m, ok)'
         /\ InLog(e.node, e.ok)' /\ Logged(e.node)'
         /\ \A m : m # e.node => SameLog(m) /\ (Logged(m)' <=> Logged(m))
<1>1. log \in Seq(LogEntry)
  BY DEF TypeOK
<1>2. /\ log' \in Seq(LogEntry) /\ Len(log') = Len(log) + 1 /\ Len(log) \in Nat
      /\ DOMAIN log = 1..Len(log) /\ DOMAIN log' = 1..(Len(log) + 1)
      /\ \A i \in 1..Len(log) : log'[i] = log[i]
      /\ log'[Len(log) + 1] = e
  BY <1>1, AppendProperties, LenProperties
<1>3. \A m, ok : InLog(m, ok) => InLog(m, ok)'
  BY <1>2 DEF InLog
<1>4. e = [node |-> e.node, ok |-> e.ok]
  BY DEF LogEntry
<1>5. InLog(e.node, e.ok)' /\ Logged(e.node)'
  <2>1. Len(log) + 1 \in DOMAIN log'
    BY <1>2
  <2> QED
    BY <1>2, <1>4, <2>1 DEF InLog, Logged
<1>6. ASSUME NEW m, m # e.node
      PROVE  SameLog(m) /\ (Logged(m)' <=> Logged(m))
  <2>1. \A i \in DOMAIN log' : log'[i].node = m => i \in DOMAIN log /\ log'[i] = log[i]
    BY <1>2, <1>6
  <2>2. \A i \in DOMAIN log : i \in DOMAIN log' /\ log'[i] = log[i]
    BY <1>2
  <2> QED
    BY <1>3, <2>1, <2>2 DEF SameLog, Logged
<1> QED
  BY <1>2, <1>3, <1>5, <1>6

(* A worker that has run its task still holds its node.                    *)
LEMMA EndTaskKeeps ==
  ASSUME TypeOK, PlacesSound, StatesMove, NEW w \in Workers, EndTask(w)
  PROVE  PlacesSound'
<1>1. worker[w].at = "running" /\ worker[w].at \in Working /\ worker[w].at \in Early
  BY DEF EndTask, Working, Early
<1>2. PICK ok \in BOOLEAN :
        /\ worker' = [worker EXCEPT ![w].at = "ran", ![w].ok = ok]
        /\ log' = Append(log, [node |-> worker[w].node, ok |-> ok])
  BY ConcurrentConstants DEF EndTask
<1>3. worker[w] \in WorkerRecord
  BY DEF TypeOK, WorkerRecord
<1>4. PICK x : x = [worker[w] EXCEPT !.at = "ran", !.ok = ok]
  OBVIOUS
<1>5. /\ x.at = "ran" /\ x.node = worker[w].node /\ x.ok = ok /\ x.ready = worker[w].ready
      /\ x \in WorkerRecord
  BY <1>3, <1>4 DEF WorkerRecord, Stages
<1>6. WorkerWrites(w, x)
  BY <1>2, <1>4, <1>5 DEF WorkerWrites, TypeOK
<1> DEFINE n == x.node
<1>7. UNCHANGED <<popped, readyQueue, blocked, pool, usage, nodeState, canceled, draining>>
  BY DEF EndTask, mainVars, dispatch, cancelVars, machine
<1>8. /\ n \in Nodes /\ x.ready = {}
      /\ ~ Waiting(n) /\ n \notin pool /\ PredsSucceeded(nodeState, n)
      /\ nodeState[n] = "CANCELED" => canceled
  BY <1>1, <1>5, TaskMeaning
<1>9. nodeState[n] \in {"RUNNING", "CANCELED"}
  <2>1. OnWorker(n, {"running"} \cup Late)
    BY <1>1, <1>5 DEF OnWorker
  <2> QED
    BY <1>8, <2>1 DEF PlacesSound, NodesSound, TakenUp
<1>10. PICK e \in LogEntry : e.node = n /\ e.ok = ok /\ log' = Append(log, e)
  BY <1>2, <1>5, <1>8 DEF LogEntry
<1>11. /\ \A m, k : InLog(m, k) => InLog(m, k)'
       /\ InLog(n, x.ok)' /\ Logged(n)'
       /\ \A m : m # n => SameLog(m) /\ (Logged(m)' <=> Logged(m))
  BY <1>5, <1>10, LogAppended
<1>12. \A S \in SUBSET Working : OnWorker(n, S)' <=> x.at \in S
  BY <1>1, <1>5, <1>6, TaskMoves DEF PlacesSound
<1>13. TakenUp(n)' /\ Placed(n)' /\ Recorded(n)'
  <2>1. ~ Waiting(n)' /\ n \notin pool'
    BY <1>7, <1>8 DEF Waiting
  <2>2. PredsSucceeded(nodeState', n)
    BY <1>8, SuccessesStay
  <2>3. x.at \in Working /\ x.at \notin Early /\ x.at # "taken"
    BY <1>5 DEF Working, Early, Late
  <2>4. /\ nodeState'[n] \in {"RUNNING", "CANCELED"}
        /\ nodeState'[n] = "CANCELED" => canceled'
    BY <1>7, <1>8, <1>9
  <2> HIDE DEF n
  <2> QED
    BY <1>8, <1>11, <1>12, <2>1, <2>2, <2>3, <2>4, WorkerHolds
<1>14. x.at \in Working \cup {"finishing"} /\ nodeState'[n] # "READY"
  BY <1>5, <1>7, <1>9 DEF Working, Early, Late
<1>15. \A m \in Nodes \ {x.node} : /\ nodeState'[m] = nodeState[m]
                                   /\ Logged(m)' <=> Logged(m)
                                   /\ SameLog(m)
  BY <1>7, <1>11
<1> QED
  BY <1>1, <1>5, <1>6, <1>7, <1>8, <1>11, <1>13, <1>14, <1>15, TaskStepSound

(* The test of canceled_ after a task: on to its completion, or past it.   *)
LEMMA CheckCanceledKeeps ==
  ASSUME TypeOK, PlacesSound, StatesMove, NEW w \in Workers, CheckCanceled(w)
  PROVE  PlacesSound'
<1>1. PICK x : /\ WorkerWrites(w, x)
               /\ x.at = IF canceled THEN "finishing" ELSE "completing"
               /\ x.node = worker[w].node /\ x.ok = worker[w].ok
               /\ x.ready = worker[w].ready
  <2>1. CASE canceled
    <3>1. worker' = [worker EXCEPT ![w].at = "finishing"]
      BY <2>1 DEF CheckCanceled
    <3>2. \E x : /\ WorkerWrites(w, x)
                 /\ x.at = "finishing" /\ x.node = worker[w].node /\ x.ok = worker[w].ok
                 /\ x.ready = worker[w].ready
      BY <3>1, Restaged DEF Stages
    <3> QED
      BY <2>1, <3>2
  <2>2. CASE ~ canceled
    <3>1. worker' = [worker EXCEPT ![w].at = "completing"]
      BY <2>2 DEF CheckCanceled
    <3>2. \E x : /\ WorkerWrites(w, x)
                 /\ x.at = "completing" /\ x.node = worker[w].node /\ x.ok = worker[w].ok
                 /\ x.ready = worker[w].ready
      BY <3>1, Restaged DEF Stages
    <3> QED
      BY <2>2, <3>2
  <2> QED
    BY <2>1, <2>2
<1> DEFINE n == x.node
<1>2. worker[w].at = "released" /\ worker[w].at \in Working /\ worker[w].at \notin Early
  BY DEF CheckCanceled, Working, Early, Late
<1>3. UNCHANGED <<popped, readyQueue, blocked, pool, usage, log, canceled, draining, nodeState>>
  BY DEF CheckCanceled, mainVars, dispatch, cancelVars, machine
<1>4. /\ n \in Nodes /\ x.ready = {}
      /\ ~ Waiting(n) /\ n \notin pool /\ PredsSucceeded(nodeState, n) /\ Logged(n)
      /\ nodeState[n] = "CANCELED" => canceled
  BY <1>1, <1>2, TaskMeaning
<1>5. nodeState[n] \in {"RUNNING", "CANCELED"}
  <2>1. OnWorker(n, {"running"} \cup Late)
    BY <1>1, <1>2 DEF OnWorker, Late
  <2> QED
    BY <1>4, <2>1 DEF PlacesSound, NodesSound, TakenUp
<1>6. \A S \in SUBSET Working : OnWorker(n, S)' <=> x.at \in S
  BY <1>1, <1>2, TaskMoves DEF PlacesSound
<1>7. /\ ~ Waiting(n)' /\ n \notin pool' /\ Logged(n)'
      /\ PredsSucceeded(nodeState', n)
      /\ nodeState'[n] \in {"RUNNING", "CANCELED"}
      /\ nodeState'[n] = "CANCELED" => canceled'
  <2>1. ~ Waiting(n)' /\ n \notin pool' /\ Logged(n)'
    BY <1>3, <1>4 DEF Waiting, Logged
  <2> QED
    BY <1>3, <1>4, <1>5, <2>1, SuccessesStay
<1>8. TakenUp(n)' /\ Placed(n)' /\ Recorded(n)'
  <2>1. CASE ~ canceled
    <3>1. x.at \in Working /\ x.at \notin Early /\ x.at # "taken"
      BY <1>1, <2>1 DEF Working, Early, Late
    <3> HIDE DEF n
    <3> QED
      BY <1>4, <1>6, <1>7, <3>1, WorkerHolds
  <2>2. CASE canceled
    <3>1. x.at \notin Working /\ canceled'
      BY <1>1, <1>3, <2>2, StageSets
    <3>2. \A S \in SUBSET Working : ~ OnWorker(n, S)'
      BY <1>6, <3>1
    <3>3. ~ OnWorker(n, Early)' /\ ~ OnWorker(n, {"taken"})' /\ ~ OnWorker(n, {"running"} \cup Late)'
      BY <3>2 DEF Working, Early
    <3>4. TakenUp(n)'
      BY <1>7, <3>1, <3>3 DEF TakenUp
    <3>5. Placed(n)'
      BY <1>7, <3>1 DEF Placed
    <3>6. Recorded(n)'
      BY <1>7, <3>1 DEF Recorded
    <3> QED
      BY <3>4, <3>5, <3>6
  <2> QED
    BY <2>1, <2>2
<1>9. /\ \A m, k : InLog(m, k) => InLog(m, k)'
      /\ \A m : SameLog(m) /\ (Logged(m)' <=> Logged(m))
  BY <1>3, LogStays DEF InLog, Logged
<1>10. x.at \in Working \cup {"finishing"} /\ x.at \notin {"taken", "running", "ran"}
  BY <1>1 DEF Working, Late
<1>11. InLog(x.node, x.ok)'
  <2>1. \A k : k = worker[w].ok => InLog(n, k)
    BY <1>1, <1>2 DEF PlacesSound, WorkersSound, Working
  <2> QED
    BY <1>1, <1>9, <2>1
<1>12. nodeState' = nodeState
  BY <1>3
<1> QED
  BY <1>1, <1>2, <1>3, <1>4, <1>8, <1>9, <1>10, <1>11, <1>12, TaskStepSound

(* What complete_node does to the other nodes: it readies some that were   *)
(* blocked, or cancels some that no thread can have taken up.              *)
LEMMA CompleteEffect ==
  ASSUME TypeOK, NEW w \in Workers, Complete(w), NEW n \in Nodes, n = worker[w].node
  PROVE  /\ nodeState'[n] = IF nodeState[n] # "RUNNING" THEN nodeState[n]
                            ELSE IF worker[w].ok THEN "SUCCEEDED" ELSE "FAILED"
         /\ \A m \in Nodes \ {n} :
              \/ nodeState'[m] = nodeState[m]
              \/ nodeState[m] = "BLOCKED" /\ nodeState'[m] = "READY"
              \/ /\ nodeState[m] \notin Terminal /\ nodeState'[m] = "CANCELED"
                 /\ nodeState'[n] = "FAILED" /\ ~ PredsSucceeded(nodeState, m)
<1>1. nodeState \in [Nodes -> NodeStates]
  BY DEF TypeOK
<1>2. CASE nodeState[n] # "RUNNING"
  BY <1>2 DEF Complete
<1>3. CASE nodeState[n] = "RUNNING" /\ worker[w].ok
  <2>1. nodeState' = Succeed(nodeState, n)
    BY <1>3 DEF Complete
  <2> QED
    BY <1>1, <1>3, <2>1, SucceedEffect
<1>4. CASE nodeState[n] = "RUNNING" /\ ~ worker[w].ok
  <2> DEFINE failed == [nodeState EXCEPT ![n] = "FAILED"]
  <2>1. nodeState' = Fail(nodeState, n, "FAILED")
    BY <1>4 DEF Complete
  <2>2. /\ nodeState'[n] = "FAILED"
        /\ \A m \in Nodes \ {n} : nodeState'[m] = nodeState[m]
             \/ (nodeState[m] \notin Terminal /\ nodeState'[m] = "CANCELED")
    BY <1>1, <2>1, FailEffect
  <2>3. \A m \in Nodes \ {n} : m \notin Downstream(failed, n) => nodeState'[m] = nodeState[m]
    BY <1>1, <2>1 DEF Fail
  <2>4. failed[n] # "SUCCEEDED" /\ \A p \in Nodes : nodeState[p] = "SUCCEEDED" <=> failed[p] = "SUCCEEDED"
    BY <1>1, <1>4
  <2>5. \A m \in Downstream(failed, n) : ~ PredsSucceeded(failed, m)
    BY <2>4, DownstreamWaits
  <2>6. \A m \in Nodes : PredsSucceeded(failed, m) <=> PredsSucceeded(nodeState, m)
    BY <2>4, SameSucceeded
  <2> QED
    BY <1>4, <2>2, <2>3, <2>5, <2>6
<1> QED
  BY <1>2, <1>3, <1>4

(* A node whose last predecessor has completed, about to be pushed.        *)
LEMMA NodeReadied ==
  ASSUME NEW m \in Nodes, TakenUp(m), Placed(m), nodeState[m] = "BLOCKED",
         nodeState'[m] = "READY", m \notin readyQueue', Pushed(m)', ~ Waiting(m)',
         m \notin pool', Logged(m)' <=> Logged(m),
         \A S \in NodeStages : OnWorker(m, S)' <=> OnWorker(m, S)
  PROVE  TakenUp(m)' /\ Placed(m)' /\ Recorded(m)'
<1>1. Fresh(m)
  BY DEF Placed
<1>2. Fresh(m)'
  BY <1>1 DEF Fresh, NodeStages
<1>3. TakenUp(m)'
  <2>1. ~ Waiting(m)' /\ m \notin pool' /\ ~ OnWorker(m, Early)'
    BY <1>2 DEF Fresh
  <2>2. ~ OnWorker(m, {"taken"})'
    BY <2>1 DEF OnWorker, Early
  <2>3. ~ OnWorker(m, {"running"} \cup Late)
    BY DEF TakenUp
  <2>4. ~ OnWorker(m, {"running"} \cup Late)'
    BY <2>3 DEF NodeStages
  <2> QED
    BY <1>2, <2>1, <2>2, <2>4 DEF TakenUp
<1>4. Placed(m)'
  BY <1>2 DEF Placed
<1>5. Recorded(m)'
  BY <1>2 DEF Fresh, Logged, Recorded
<1> QED
  BY <1>3, <1>4, <1>5

(* complete_node by a worker that goes on to push what it returns.         *)
LEMMA CompleteKeeps ==
  ASSUME TypeOK, PlacesSound, LogRespectsGraph, StatesMove, NEW w \in Workers, Complete(w)
  PROVE  PlacesSound'
<1>1. PICK x : x = [worker[w] EXCEPT !.at = "pushing",
                      !.ready = {m \in Nodes \ {worker[w].node} : nodeState'[m] # nodeState[m]}]
  OBVIOUS
<1>2. worker[w] \in WorkerRecord
  BY DEF TypeOK, WorkerRecord
<1> DEFINE n == x.node
<1>3. /\ x \in WorkerRecord
      /\ x.at = "pushing" /\ x.node = worker[w].node /\ x.ok = worker[w].ok
      /\ x.ready = {m \in Nodes \ {n} : nodeState'[m] # nodeState[m]}
  BY <1>1, <1>2 DEF WorkerRecord, Stages
<1>4. WorkerWrites(w, x)
  BY <1>1, <1>3 DEF Complete, WorkerWrites, TypeOK
<1>5. worker[w].at = "completing" /\ worker[w].at \in Working /\ worker[w].at \in Late
      /\ worker[w].at \notin Early
  BY DEF Complete, Working, Early, Late
<1>6. /\ UNCHANGED <<popped, readyQueue, blocked, pool, usage, log, canceled, draining>>
      /\ \A m, k : InLog(m, k) => InLog(m, k)'
      /\ \A m : SameLog(m) /\ (Logged(m)' <=> Logged(m))
  <2>1. UNCHANGED <<popped, readyQueue, blocked, pool, usage, log, canceled, draining>>
    BY DEF Complete, mainVars, dispatch, cancelVars
  <2> QED
    BY <2>1, LogStays DEF InLog, Logged
<1>7. /\ n \in Nodes /\ worker[w].ready = {}
      /\ ~ Waiting(n) /\ n \notin pool /\ PredsSucceeded(nodeState, n) /\ Logged(n)
      /\ nodeState[n] = "CANCELED" => canceled
  BY <1>3, <1>5, TaskMeaning
<1>8. \A m \in Nodes : TakenUp(m) /\ Placed(m) /\ Recorded(m)
  BY DEF PlacesSound, NodesSound
<1>9. nodeState[n] \in {"RUNNING", "CANCELED"}
  <2>1. OnWorker(n, {"running"} \cup Late)
    BY <1>3, <1>5 DEF OnWorker
  <2> QED
    BY <1>7, <1>8, <2>1 DEF TakenUp
<1>10. /\ nodeState'[n] = IF nodeState[n] # "RUNNING" THEN nodeState[n]
                          ELSE IF x.ok THEN "SUCCEEDED" ELSE "FAILED"
       /\ \A m \in Nodes \ {n} :
            \/ nodeState'[m] = nodeState[m]
            \/ nodeState[m] = "BLOCKED" /\ nodeState'[m] = "READY"
            \/ /\ nodeState[m] \notin Terminal /\ nodeState'[m] = "CANCELED"
               /\ nodeState'[n] = "FAILED" /\ ~ PredsSucceeded(nodeState, m)
  BY <1>3, <1>7, CompleteEffect
<1>11. \A S \in SUBSET Working : /\ ~ OnWorker(n, S)'
                                 /\ \A m : m # n => (OnWorker(m, S)' <=> OnWorker(m, S))
  <2>1. x.at \notin Working
    BY <1>3, StageSets
  <2> QED
    BY <1>3, <1>4, <1>5, <2>1, TaskMoves DEF PlacesSound
<1>12. worker'[w] = x /\ \A v \in Workers \ {w} : worker'[v] = worker[v]
  BY <1>4, WriteEffect
<1>13. \A m \in Nodes : Pushed(m)' <=> Pushed(m) \/ m \in x.ready
  <2>1. ASSUME NEW m
        PROVE  Pushing(w, m)' <=> m \in x.ready
    BY <1>3, <1>12 DEF Pushing
  <2>2. ASSUME NEW m, NEW v \in Workers \ {w}
        PROVE  Pushing(v, m)' <=> Pushing(v, m)
    BY <1>12 DEF Pushing
  <2>3. \A m : ~ Pushing(w, m)
    BY <1>5 DEF Pushing
  <2> QED
    BY <2>1, <2>2, <2>3 DEF Pushed
<1>14. \A m \in Nodes : nodeState'[m] = "READY" /\ nodeState[m] # "READY" => ~ Pushed(m)
  BY <1>8, <1>9, <1>10 DEF Placed
<1>15. WorkersSound'
  <2>1. x.at \notin Working /\ x.at \notin Late /\ x.at # "idle"
    BY <1>3, StageSets DEF Working
  <2>2. \A m \in x.ready : nodeState'[m] = "READY" => \A v \in Workers \ {w} : ~ Pushing(v, m)
    BY <1>3, <1>14 DEF Pushed
  <2>3. x.at \in {"pushing", "finishing"}
    BY <1>3
  <2> QED
    BY <1>3, <1>4, <1>6, <1>7, <1>14, <2>1, <2>2, <2>3, WorkersKept DEF PlacesSound
<1>16. ASSUME NEW m \in Nodes \ {n}
       PROVE  TakenUp(m)' /\ Placed(m)' /\ Recorded(m)'
  <2>1. \A S \in NodeStages : OnWorker(m, S)' <=> OnWorker(m, S)
    BY <1>11, StageSets
  <2>2. Waiting(m)' <=> Waiting(m)
    BY <1>6 DEF Waiting
  <2>3. CASE nodeState'[m] = nodeState[m]
    <3>1. SamePlace(m)
      BY <1>3, <1>6, <1>13, <2>1, <2>3 DEF SamePlace
    <3> QED
      BY <1>6, <1>8, <2>3, <3>1, NodeStays
  <2>4. CASE nodeState[m] = "BLOCKED" /\ nodeState'[m] = "READY"
    <3>1. Fresh(m) /\ m \notin readyQueue /\ Pushed(m)'
      BY <1>3, <1>8, <1>13, <2>4 DEF Placed
    <3>2. ~ Waiting(m)' /\ m \notin pool' /\ m \notin readyQueue'
      BY <1>6, <2>2, <3>1 DEF Fresh
    <3> QED
      BY <1>6, <1>8, <2>1, <2>4, <3>1, <3>2, NodeReadied
  <2>5. CASE /\ nodeState[m] \notin Terminal /\ nodeState'[m] = "CANCELED"
             /\ nodeState'[n] = "FAILED" /\ ~ PredsSucceeded(nodeState, m)
    <3>1. Fresh(m)
      BY <1>8, <2>5 DEF TakenUp
    <3>2. Fresh(m)'
      BY <1>6, <2>1, <2>2, <3>1 DEF Fresh, NodeStages
    <3> QED
      BY <1>7, <1>8, <2>5, <3>1, <3>2, NodeEnds
  <2> QED
    BY <1>10, <2>3, <2>4, <2>5
<1>17. TakenUp(n)' /\ Placed(n)' /\ Recorded(n)'
  <2>1. PredsSucceeded(nodeState', n)
    BY <1>7, SuccessesStay
  <2>2. ~ Waiting(n)' /\ n \notin pool' /\ Logged(n)'
    BY <1>6, <1>7 DEF Waiting
  <2>3. ~ OnWorker(n, Early)' /\ ~ OnWorker(n, {"taken"})' /\ ~ OnWorker(n, {"running"} \cup Late)'
    BY <1>11 DEF Working, Early
  <2>4. nodeState'[n] = "CANCELED" => canceled'
    BY <1>6, <1>7, <1>10
  <2>5. TakenUp(n)'
    BY <2>1, <2>2, <2>3, <2>4 DEF TakenUp
  <2>6. nodeState'[n] \in {"SUCCEEDED", "FAILED", "CANCELED"}
    BY <1>9, <1>10
  <2>7. Placed(n)'
    BY <2>6 DEF Placed
  <2>8. \A k : k = x.ok => InLog(n, k)
    BY <1>3, <1>5 DEF PlacesSound, WorkersSound
  <2>9. x.ok \in BOOLEAN
    BY <1>3 DEF WorkerRecord
  <2>10. PICK i \in DOMAIN log : log[i] = [node |-> n, ok |-> x.ok]
    BY <2>8 DEF InLog
  <2>11. \A j \in DOMAIN log : log[j].node = n => j = i
    BY <2>10 DEF LogRespectsGraph
  <2>12. \A j \in DOMAIN log' : log'[j].node = n => log'[j].ok = x.ok
    BY <1>6, <2>10, <2>11
  <2>13. InLog(n, x.ok)'
    BY <1>6, <2>8
  <2>14. ~ canceled' => nodeState'[n] = IF x.ok THEN "SUCCEEDED" ELSE "FAILED"
    BY <1>6, <1>7, <1>9, <1>10
  <2>15. /\ nodeState'[n] = "SUCCEEDED" => x.ok = TRUE
         /\ nodeState'[n] = "FAILED" => x.ok = FALSE
    BY <1>9, <1>10, <2>9
  <2>16. /\ nodeState'[n] = "SUCCEEDED" => InLog(n, TRUE)'
         /\ nodeState'[n] = "FAILED" => InLog(n, FALSE)'
    BY <2>13, <2>15
  <2>17. ~ canceled' => \A j \in DOMAIN log' : log'[j].node = n =>
           nodeState'[n] = IF log'[j].ok THEN "SUCCEEDED" ELSE "FAILED"
    BY <2>12, <2>14
  <2>18. Recorded(n)'
    BY <2>4, <2>16, <2>17 DEF Recorded
  <2> QED
    BY <2>5, <2>7, <2>18
<1>18. NodesSound'
  BY <1>16, <1>17 DEF NodesSound
<1>19. SessionSound'
  <2>1. \A m \in Nodes : OnWorker(m, {"taken", "running", "ran"})' =>
          OnWorker(m, {"taken", "running", "ran"})
    <3>1. {"taken", "running", "ran"} \in SUBSET Working
      BY DEF Working, Early, Late
    <3> QED
      BY <1>11, <3>1
  <2>2. \A m \in Nodes : HasSession(m)' => HasSession(m)
    BY <1>6, <2>1 DEF HasSession
  <2> QED
    BY <1>6, <2>2, SessionKept DEF PlacesSound
<1> QED
  BY <1>15, <1>18, <1>19 DEF PlacesSound

(* A worker that pushes what a completion returned.                        *)
LEMMA PushKeeps ==
  ASSUME TypeOK, PlacesSound, StatesMove, NEW w \in Workers, Push(w)
  PROVE  PlacesSound'
<1>1. PICK x : /\ WorkerWrites(w, x)
               /\ x.at = "finishing" /\ x.node = worker[w].node /\ x.ok = worker[w].ok
               /\ x.ready = worker[w].ready
  <2>1. worker' = [worker EXCEPT ![w].at = "finishing"]
    BY DEF Push
  <2> QED
    BY <2>1, Restaged DEF Stages
<1>2. /\ UNCHANGED <<popped, blocked, pool, usage, log, canceled, draining, nodeState>>
      /\ worker[w].at = "pushing" /\ readyQueue' = readyQueue \cup worker[w].ready
  BY DEF Push, mainVars, dispatch, cancelVars, machine
<1>3. worker'[w] = x /\ \A v \in Workers \ {w} : worker'[v] = worker[v]
  BY <1>1, WriteEffect
<1>4. worker[w].at \notin Working /\ x.at \notin Working /\ x.at \notin Late
  BY <1>1, <1>2, StageSets DEF Working
<1>5. \A S \in SUBSET Working : \A m : OnWorker(m, S)' <=> OnWorker(m, S)
  BY <1>1, <1>4, OutsideMoves
<1>6. /\ \A m, k : InLog(m, k) => InLog(m, k)'
      /\ \A m : SameLog(m) /\ (Logged(m)' <=> Logged(m))
  BY <1>2, LogStays DEF InLog, Logged
<1>7. WorkersSound'
  <2>1. worker[w].node \in Nodes
    BY <1>2 DEF PlacesSound, WorkersSound
  <2>2. \A n \in Nodes : ~ (nodeState'[n] = "READY" /\ nodeState[n] # "READY")
    BY <1>2
  <2>3. x.at # "idle" /\ x.at \in {"pushing", "finishing"} /\ x.at # "pushing"
    BY <1>1
  <2> QED
    BY <1>1, <1>4, <1>6, <2>1, <2>2, <2>3, WorkersKept DEF PlacesSound
<1>8. \A m : Pushed(m)' <=> \E v \in Workers \ {w} : Pushing(v, m)
  <2>1. \A m : ~ Pushing(w, m)'
    BY <1>1, <1>3 DEF Pushing
  <2>2. ASSUME NEW m, NEW v \in Workers \ {w}
        PROVE  Pushing(v, m)' <=> Pushing(v, m)
    BY <1>3 DEF Pushing
  <2> QED
    BY <2>1, <2>2 DEF Pushed
<1>9. ASSUME NEW m \in Nodes
      PROVE  TakenUp(m)' /\ Placed(m)' /\ Recorded(m)'
  <2>1. TakenUp(m) /\ Placed(m) /\ Recorded(m)
    BY DEF PlacesSound, NodesSound
  <2>2. \A S \in NodeStages : OnWorker(m, S)' <=> OnWorker(m, S)
    BY <1>5, StageSets
  <2>3. Waiting(m)' <=> Waiting(m)
    BY <1>2 DEF Waiting
  <2>4. CASE m \notin worker[w].ready
    <3>1. Pushed(m)' <=> Pushed(m)
      BY <1>8, <2>4 DEF Pushed, Pushing
    <3>2. SamePlace(m)
      BY <1>2, <1>6, <2>2, <2>4, <3>1 DEF SamePlace
    <3> QED
      BY <1>2, <1>6, <2>1, <3>2, NodeStays
  <2>5. CASE m \in worker[w].ready
    <3>1. Pushed(m)
      BY <1>2, <2>5 DEF Pushed, Pushing
    <3>2. Fresh(m)' <=> Fresh(m)
      BY <1>2, <1>6, <2>2, <2>3 DEF Fresh, NodeStages
    <3>3. TakenUp(m)'
      BY <1>2, <1>6, <2>1, <2>2, <2>3, <3>2, SuccessesStay DEF TakenUp, NodeStages
    <3>4. nodeState[m] = "READY" => ~ Pushed(m)'
      BY <1>2, <1>8, <2>5 DEF PlacesSound, WorkersSound, Pushing
    <3>5. Placed(m)'
      <4>1. nodeState'[m] # "BLOCKED" /\ (nodeState'[m] = "READY" => ~ Waiting(m) /\ Fresh(m))
        BY <1>2, <2>1, <3>1 DEF Placed
      <4>2. m \in readyQueue'
        BY <1>2, <2>5
      <4>3. nodeState'[m] = "READY" => ~ Pushed(m)' /\ ~ Waiting(m)' /\ Fresh(m)'
        BY <1>2, <2>3, <3>2, <3>4, <4>1
      <4>4. nodeState'[m] = "RUNNING" => OnWorker(m, {"running"} \cup Late)' \/ canceled'
        BY <1>2, <2>1, <2>2 DEF Placed, NodeStages
      <4>5. nodeState'[m] = "DISPATCHED" => m \in pool' \/ OnWorker(m, {"taken"})' \/ draining'
        BY <1>2, <2>1, <2>2 DEF Placed, NodeStages
      <4>6. nodeState'[m] \notin {"RETRY_WAIT", "DEAD_LETTERED"}
        BY <1>2, <2>1 DEF Placed
      <4> QED
        BY <4>1, <4>2, <4>3, <4>4, <4>5, <4>6 DEF Placed
    <3>6. Recorded(m)'
      <4>1. OnWorker(m, Late)' <=> OnWorker(m, Late)
        BY <2>2 DEF NodeStages
      <4> QED
        BY <1>2, <1>6, <2>1, <4>1 DEF Recorded, SameLog
    <3> QED
      BY <3>3, <3>5, <3>6
  <2> QED
    BY <2>4, <2>5
<1>10. NodesSound'
  BY <1>9 DEF NodesSound
<1>11. SessionSound'
  <2>1. {"taken", "running", "ran"} \in SUBSET Working
    BY DEF Working, Early, Late
  <2>2. \A m \in Nodes : HasSession(m)' => HasSession(m)
    BY <1>2, <1>5, <2>1 DEF HasSession
  <2> QED
    BY <1>2, <2>2, SessionKept DEF PlacesSound
<1> QED
  BY <1>7, <1>10, <1>11 DEF PlacesSound

(* The record of a worker with nothing to do.                              *)
LEMMA IdleRecord ==
  /\ Idle \in WorkerRecord
  /\ Idle.at = "idle" /\ Idle.node = NoNode /\ Idle.ready = {}
BY DEF Idle, WorkerRecord, Stages

(* A worker that is done with its task.                                    *)
LEMMA FinishKeeps ==
  ASSUME TypeOK, PlacesSound, StatesMove, NEW w \in Workers, Finish(w)
  PROVE  PlacesSound'
<1>1. WorkerWrites(w, Idle)
  BY IdleRecord DEF Finish, WorkerWrites
<1>2. PICK x : x = Idle
  OBVIOUS
<1>3. WorkerWrites(w, x) /\ x.at = "idle" /\ x.ready = {}
  BY <1>1, <1>2, IdleRecord
<1>4. /\ UNCHANGED <<popped, readyQueue, blocked, pool, usage, log, canceled, draining, nodeState>>
      /\ worker[w].at = "finishing"
  BY DEF Finish, cancelVars, machine
<1>5. worker[w].at \notin Working /\ x.at \notin Working /\ x.at \notin Late
  BY <1>3, <1>4, StageSets DEF Working
<1>6. \A S \in SUBSET Working : \A m : OnWorker(m, S)' <=> OnWorker(m, S)
  BY <1>3, <1>5, OutsideMoves
<1>7. /\ \A m, k : InLog(m, k) => InLog(m, k)'
      /\ \A m : SameLog(m) /\ (Logged(m)' <=> Logged(m))
  BY <1>4, LogStays DEF InLog, Logged
<1>8. \A m : Pushed(m)' <=> Pushed(m)
  BY <1>3, <1>4, PushedKept
<1>9. WorkersSound'
  <2>1. \A n \in Nodes : ~ (nodeState'[n] = "READY" /\ nodeState[n] # "READY")
    BY <1>4
  <2>2. x.at = "idle" /\ x.at # "pushing"
    BY <1>3
  <2> QED
    BY <1>2, <1>3, <1>5, <1>7, <2>1, <2>2, WorkersKept DEF PlacesSound
<1>10. \A m \in Nodes : SamePlace(m)
  BY <1>4, <1>6, <1>7, <1>8, StageSets DEF SamePlace
<1>11. NodesSound'
  BY <1>4, <1>7, <1>10, NodeStays DEF PlacesSound, NodesSound
<1>12. SessionSound'
  <2>1. {"taken", "running", "ran"} \in SUBSET Working
    BY DEF Working, Early, Late
  <2>2. \A m \in Nodes : HasSession(m)' => HasSession(m)
    BY <1>4, <1>6, <2>1 DEF HasSession
  <2> QED
    BY <1>4, <2>2, SessionKept DEF PlacesSound
<1> QED
  BY <1>9, <1>11, <1>12 DEF PlacesSound

(* A node that is on no worker early and not in the log is on none at all. *)
LEMMA Unworked ==
  ASSUME PlacesSound, NEW n, ~ OnWorker(n, Early), ~ Logged(n)
  PROVE  \A S \in SUBSET Working : ~ OnWorker(n, S)
<1>1. ASSUME NEW v \in Workers, worker[v].at \in Late
      PROVE  worker[v].node # n
  <2>1. \A m, k : m = worker[v].node /\ k = worker[v].ok => InLog(m, k)
    BY <1>1 DEF PlacesSound, WorkersSound
  <2> QED
    BY <2>1 DEF InLog, Logged
<1> QED
  BY <1>1 DEF OnWorker, Working

(* A worker takes a task from the pool.                                    *)
LEMMA TakeKeeps ==
  ASSUME TypeOK, PlacesSound, StatesMove, NEW w \in Workers, Take(w)
  PROVE  PlacesSound'
<1>1. PICK n \in pool : /\ pool' = pool \ {n}
                        /\ worker' = [worker EXCEPT ![w] = [Idle EXCEPT !.at = "taken", !.node = n]]
  BY DEF Take
<1>2. n \in Nodes
  BY DEF TypeOK
<1>3. PICK x : x = [Idle EXCEPT !.at = "taken", !.node = n]
  OBVIOUS
<1>4. x \in WorkerRecord /\ x.at = "taken" /\ x.node = n /\ x.ready = {}
  BY <1>2, <1>3 DEF Idle, WorkerRecord, Stages
<1>5. WorkerWrites(w, x)
  BY <1>1, <1>3, <1>4 DEF WorkerWrites
<1>6. /\ UNCHANGED <<popped, readyQueue, blocked, usage, log, canceled, draining, nodeState>>
      /\ worker[w].at = "idle"
  BY DEF Take, mainVars, cancelVars, machine
<1>7. TakenUp(n) /\ Placed(n) /\ Recorded(n)
  BY <1>2 DEF PlacesSound, NodesSound
<1>8. /\ ~ Waiting(n) /\ ~ OnWorker(n, Early) /\ ~ Logged(n)
      /\ nodeState[n] \in {"DISPATCHED", "CANCELED"}
      /\ PredsSucceeded(nodeState, n) /\ (nodeState[n] = "CANCELED" => canceled)
  BY <1>7 DEF TakenUp, Fresh
<1>9. \A S \in SUBSET Working : ~ OnWorker(n, S)
  BY <1>8, Unworked
<1>10. worker'[w] = x /\ \A v \in Workers \ {w} : worker'[v] = worker[v]
  BY <1>5, WriteEffect
<1>11. worker[w].at \notin Working
  BY <1>6, StageSets
<1>12. \A S \in SUBSET Working : /\ OnWorker(n, S)' <=> x.at \in S
                                 /\ \A m : m # n => (OnWorker(m, S)' <=> OnWorker(m, S))
  BY <1>4, <1>9, <1>10, <1>11 DEF OnWorker
<1>13. /\ \A m, k : InLog(m, k) => InLog(m, k)'
       /\ \A m : SameLog(m) /\ (Logged(m)' <=> Logged(m))
  BY <1>6, LogStays DEF InLog, Logged
<1>14. \A m : Pushed(m)' <=> Pushed(m)
  BY <1>4, <1>5, <1>6, PushedKept
<1>15. x.at \in Working /\ x.at \in Early /\ x.at \notin Late
  BY <1>4 DEF Working, Early, Late
<1>16. WorkersSound'
  <2>1. \A m \in Nodes : ~ (nodeState'[m] = "READY" /\ nodeState[m] # "READY")
    BY <1>6
  <2>2. x.at # "idle" /\ x.at # "pushing"
    BY <1>4
  <2>3. \A v \in Workers \ {w} : worker[v].at \in Working => worker[v].node # n
    BY <1>9 DEF OnWorker
  <2> QED
    BY <1>2, <1>4, <1>5, <1>13, <1>15, <2>1, <2>2, <2>3, WorkersKept DEF PlacesSound
<1>17. ASSUME NEW m \in Nodes \ {n}
       PROVE  TakenUp(m)' /\ Placed(m)' /\ Recorded(m)'
  <2>1. SamePlace(m)
    BY <1>1, <1>6, <1>12, <1>13, <1>14, StageSets DEF SamePlace
  <2> QED
    BY <1>6, <1>13, <2>1, NodeStays DEF PlacesSound, NodesSound
<1>18. TakenUp(n)' /\ Placed(n)' /\ Recorded(n)'
  <2>1. ~ Waiting(n)' /\ n \notin pool' /\ ~ Logged(n)'
    BY <1>1, <1>6, <1>8, <1>13 DEF Waiting
  <2>2. PredsSucceeded(nodeState', n)
    BY <1>2, <1>8, SuccessesStay
  <2>3. /\ nodeState'[n] \in {"DISPATCHED", "CANCELED"}
        /\ nodeState'[n] = "CANCELED" => canceled'
    BY <1>6, <1>8
  <2> QED
    BY <1>2, <1>4, <1>12, <1>15, <2>1, <2>2, <2>3, WorkerHolds
<1>19. NodesSound'
  BY <1>17, <1>18 DEF NodesSound
<1>20. SessionSound'
  <2>1. {"taken", "running", "ran"} \in SUBSET Working
    BY DEF Working, Early, Late
  <2>2. \A m \in Nodes : HasSession(m)' => HasSession(m)
    BY <1>1, <1>6, <1>12, <2>1 DEF HasSession
  <2> QED
    BY <1>6, <2>2, SessionKept DEF PlacesSound
<1> QED
  BY <1>16, <1>19, <1>20 DEF PlacesSound

(* The workers are as they were, and no node turned ready.                 *)
LEMMA WorkersSame ==
  ASSUME WorkersSound, worker' = worker, \A n, ok : InLog(n, ok) => InLog(n, ok)',
         \A n \in Nodes : nodeState'[n] = "READY" => nodeState[n] = "READY"
  PROVE  WorkersSound'
<1>1. ASSUME NEW w \in Workers
      PROVE  (worker[w].at \in Late => InLog(worker[w].node, worker[w].ok))'
  <2>1. PICK n, ok : n = worker[w].node /\ ok = worker[w].ok
    OBVIOUS
  <2>2. worker[w].at \in Late => InLog(n, ok)'
    BY <2>1 DEF WorkersSound
  <2> QED
    BY <2>1, <2>2 DEF InLog
<1>2. ASSUME NEW w \in Workers, NEW v \in Workers, NEW n \in Nodes
      PROVE  Pushing(w, n)' /\ Pushing(v, n)' /\ nodeState'[n] = "READY" => v = w
  BY DEF WorkersSound, Pushing
<1>3. \A w \in Workers :
        /\ worker'[w].at = "idle" => worker'[w] = Idle
        /\ worker'[w].at # "idle" => worker'[w].node \in Nodes
        /\ worker'[w].at \notin {"pushing", "finishing"} => worker'[w].ready = {}
        /\ \A v \in Workers :
             worker'[w].at \in Early \cup Late /\ worker'[v].at \in Early \cup Late
               /\ worker'[v].node = worker'[w].node => v = w
  BY DEF WorkersSound
<1> QED
  BY <1>1, <1>2, <1>3 DEF WorkersSound

(* A ready node the dispatcher takes from the queue, to submit it or to    *)
(* have it wait for the session.                                           *)
LEMMA NodeWaits ==
  ASSUME NEW n \in Nodes, PlacesSound, n \in readyQueue, nodeState[n] = "READY",
         PredsSucceeded(nodeState, n), Waiting(n)', ~ (n \in blocked' /\ n = popped'),
         n \notin readyQueue', UNCHANGED <<worker, nodeState, pool, log>>
  PROVE  TakenUp(n)' /\ Placed(n)' /\ Recorded(n)'
<1>1. TakenUp(n) /\ Placed(n) /\ Recorded(n)
  BY DEF PlacesSound, NodesSound
<1>2. Fresh(n) /\ ~ Pushed(n)
  BY <1>1 DEF Placed
<1>3. /\ \A S : OnWorker(n, S)' <=> OnWorker(n, S)
      /\ Logged(n)' <=> Logged(n)
      /\ Pushed(n)' <=> Pushed(n)
  BY DEF OnWorker, Logged, Pushed, Pushing
<1>4. n \notin pool' /\ ~ OnWorker(n, Early)' /\ ~ Logged(n)' /\ nodeState'[n] = "READY"
  BY <1>2, <1>3 DEF Fresh
<1>5. ~ OnWorker(n, {"taken"})' /\ ~ OnWorker(n, {"running"} \cup Late)'
  <2>1. ~ OnWorker(n, {"running"} \cup Late) /\ ~ OnWorker(n, {"taken"})
    BY <1>1 DEF TakenUp
  <2> QED
    BY <1>3, <2>1
<1>6. PredsSucceeded(nodeState', n)
  OBVIOUS
<1>7. TakenUp(n)'
  BY <1>4, <1>5, <1>6 DEF TakenUp
<1>8. Placed(n)'
  BY <1>2, <1>3, <1>4 DEF Placed
<1>9. Recorded(n)'
  BY <1>4 DEF Recorded, Logged
<1> QED
  BY <1>7, <1>8, <1>9

(* try_pop and what the dispatcher makes of the node.                      *)
LEMMA PopKeeps ==
  ASSUME TypeOK, Object!IInv, PlacesSound, StatesMove, NEW n \in Nodes, Pop(n)
  PROVE  PlacesSound'
<1>1. /\ UNCHANGED <<nodeState, pool, draining, worker, log, canceled>>
      /\ n \in readyQueue /\ readyQueue' = readyQueue \ {n} /\ popped = NoNode
  BY DEF Pop, machine, cancelVars
<1>2. /\ \A m, k : InLog(m, k) => InLog(m, k)'
      /\ \A m : SameLog(m) /\ (Logged(m)' <=> Logged(m))
      /\ \A m, S : OnWorker(m, S)' <=> OnWorker(m, S)
      /\ \A m : Pushed(m)' <=> Pushed(m)
  BY <1>1, LogStays DEF InLog, Logged, OnWorker, Pushed, Pushing
<1>3. WorkersSound'
  BY <1>1, <1>2, WorkersSame DEF PlacesSound
<1>4. TakenUp(n) /\ Placed(n) /\ Recorded(n)
  BY DEF PlacesSound, NodesSound
<1>5. NoNode \notin Nodes
  BY ConcurrentConstants
<1>6. ASSUME \A m \in Nodes \ {n} : (m \in blocked' <=> m \in blocked)
                                   /\ (m = popped' <=> m = popped),
             TakenUp(n)' /\ Placed(n)' /\ Recorded(n)'
      PROVE  NodesSound'
  <2>1. \A m \in Nodes \ {n} : SamePlace(m)
    BY <1>1, <1>2, <1>6 DEF SamePlace
  <2>2. \A m \in Nodes \ {n} : TakenUp(m)' /\ Placed(m)' /\ Recorded(m)'
    BY <1>1, <1>2, <2>1, NodeStays DEF PlacesSound, NodesSound
  <2> QED
    BY <1>6, <2>2 DEF NodesSound
<1>7. CASE nodeState[n] # "READY"
  <2>1. UNCHANGED <<blocked, usage, popped>>
    BY <1>7 DEF Pop
  <2>2. nodeState[n] # "BLOCKED"
    BY <1>1, <1>4 DEF Placed
  <2>3. Waiting(n)' <=> Waiting(n)
    BY <2>1 DEF Waiting
  <2>4. Fresh(n)' <=> Fresh(n)
    BY <1>1, <1>2, <2>3 DEF Fresh
  <2>5. TakenUp(n)'
    BY <1>1, <1>2, <1>4, <2>1, <2>3, <2>4 DEF TakenUp
  <2>6. Placed(n)'
    BY <1>1, <1>2, <1>4, <1>7, <2>2 DEF Placed
  <2>7. Recorded(n)'
    BY <1>1, <1>2, <1>4 DEF Recorded, SameLog
  <2>8. NodesSound'
    BY <1>6, <2>1, <2>5, <2>6, <2>7
  <2>9. SessionSound'
    <3>1. \A m \in Nodes : HasSession(m)' => HasSession(m)
      BY <1>1, <1>2, <2>1 DEF HasSession
    <3> QED
      BY <2>1, <3>1, SessionKept DEF PlacesSound
  <2> QED
    BY <1>3, <2>8, <2>9 DEF PlacesSound
<1>8. CASE nodeState[n] = "READY"
  <2>1. PredsSucceeded(nodeState, n)
    BY <1>8, ObjectMeaning
  <2>2. n \notin readyQueue' /\ ~ Waiting(n)
    BY <1>1, <1>4, <1>8 DEF Placed
  <2>3. CASE ~ HasRoom(n)
    <3>1. blocked' = blocked \cup {n} /\ UNCHANGED <<usage, popped>> /\ n \in BrowserNodes
      BY <1>8, <2>3 DEF Pop, HasRoom
    <3>2. Waiting(n)' /\ ~ (n \in blocked' /\ n = popped')
      BY <1>1, <1>5, <3>1 DEF Waiting
    <3>3. TakenUp(n)' /\ Placed(n)' /\ Recorded(n)'
      BY <1>1, <1>8, <2>1, <2>2, <3>2, NodeWaits
    <3>4. NodesSound'
      BY <1>6, <3>1, <3>3
    <3>5. \A m \in Nodes : HasSession(m)' <=> HasSession(m)
      BY <1>1, <1>2, <3>1 DEF HasSession
    <3>6. SessionSound'
      <4>1. usage' \in {0, 1} /\ blocked' \subseteq BrowserNodes
        BY <3>1 DEF PlacesSound, SessionSound
      <4>2. \A m \in Nodes : HasSession(m)' => usage' = 1
        BY <3>1, <3>5 DEF PlacesSound, SessionSound
      <4>3. \A m, k \in Nodes : HasSession(m)' /\ HasSession(k)' => m = k
        BY <3>5 DEF PlacesSound, SessionSound
      <4> QED
        BY <4>1, <4>2, <4>3 DEF SessionSound
    <3> QED
      BY <1>3, <3>4, <3>6 DEF PlacesSound
  <2>4. CASE HasRoom(n)
    <3>1. /\ popped' = n /\ UNCHANGED blocked
          /\ usage' = IF n \in BrowserNodes THEN usage + 1 ELSE usage
      BY <1>8, <2>4 DEF Pop
    <3>2. Waiting(n)' /\ ~ (n \in blocked' /\ n = popped')
      BY <2>2, <3>1 DEF Waiting
    <3>3. TakenUp(n)' /\ Placed(n)' /\ Recorded(n)'
      BY <1>1, <1>8, <2>1, <2>2, <3>2, NodeWaits
    <3>4. NodesSound'
      BY <1>1, <1>5, <1>6, <3>1, <3>3
    <3>5. \A m \in Nodes : HasSession(m)' => HasSession(m) \/ (m = n /\ n \in BrowserNodes)
      BY <1>1, <1>2, <3>1 DEF HasSession
    <3>6. SessionSound'
      <4>1. CASE n \in BrowserNodes
        <5>1. usage = 0 /\ usage' = 1
          BY <2>4, <3>1, <4>1 DEF HasRoom, PlacesSound, SessionSound
        <5>2. \A m \in Nodes : ~ HasSession(m)
          BY <5>1 DEF PlacesSound, SessionSound
        <5>3. blocked' \subseteq BrowserNodes
          BY <3>1 DEF PlacesSound, SessionSound
        <5>4. \A m \in Nodes : HasSession(m)' => m = n
          BY <3>5, <5>2
        <5> QED
          BY <5>1, <5>3, <5>4 DEF SessionSound
      <4>2. CASE n \notin BrowserNodes
        BY <3>1, <3>5, <4>2, SessionKept DEF PlacesSound
      <4> QED
        BY <4>1, <4>2
    <3> QED
      BY <1>3, <3>4, <3>6 DEF PlacesSound
  <2> QED
    BY <2>3, <2>4
<1> QED
  BY <1>7, <1>8

(* The rest of the run stays as it is while a node is submitted.           *)
Standing ==
  /\ \A m \in Nodes : \A S \in NodeStages : OnWorker(m, S)' <=> OnWorker(m, S)
  /\ \A m \in Nodes : Pushed(m)' <=> Pushed(m)
  /\ UNCHANGED <<readyQueue, log, canceled, draining>>

(* dispatch_node and pool_.submit of a node that was waiting.              *)
LEMMA SubmitKeepsNodes ==
  ASSUME TypeOK, PlacesSound, StatesMove, Standing, NEW n \in Nodes, Waiting(n), Submit(n),
         ~ Waiting(n)',
         \A m \in Nodes \ {n} : (m \in blocked' <=> m \in blocked) /\ (m = popped' <=> m = popped)
  PROVE  NodesSound'
<1>1. /\ nodeState'[n] = IF nodeState[n] = "READY" THEN "DISPATCHED" ELSE nodeState[n]
      /\ \A m \in Nodes \ {n} : nodeState'[m] = nodeState[m]
  BY DispatchedMoves DEF Submit, TypeOK, NodesTyped
<1>2. pool' = IF draining THEN pool ELSE pool \cup {n}
  BY DEF Submit
<1>3. \A m : SameLog(m) /\ (Logged(m)' <=> Logged(m))
  BY LogStays DEF Standing, Logged
<1>4. ASSUME NEW m \in Nodes \ {n}
      PROVE  TakenUp(m)' /\ Placed(m)' /\ Recorded(m)'
  <2>1. SamePlace(m)
    BY <1>2, <1>3 DEF SamePlace, Standing
  <2> QED
    BY <1>1, <1>3, <2>1, NodeStays DEF PlacesSound, NodesSound, Standing
<1>5. TakenUp(n) /\ Placed(n)
  BY DEF PlacesSound, NodesSound
<1>6. /\ n \notin pool /\ ~ OnWorker(n, Early) /\ ~ Logged(n)
      /\ nodeState[n] \in {"READY", "CANCELED"}
      /\ PredsSucceeded(nodeState, n) /\ (nodeState[n] = "CANCELED" => canceled)
  BY <1>5 DEF TakenUp, Fresh
<1>7. /\ OnWorker(n, Early)' <=> OnWorker(n, Early)
      /\ OnWorker(n, {"taken"})' <=> OnWorker(n, {"taken"})
      /\ OnWorker(n, {"running"} \cup Late)' <=> OnWorker(n, {"running"} \cup Late)
  BY DEF Standing, NodeStages
<1>8. /\ nodeState'[n] \in {"DISPATCHED", "CANCELED"} /\ PredsSucceeded(nodeState', n)
      /\ nodeState'[n] = "CANCELED" => canceled'
  BY <1>1, <1>6, SuccessesStay DEF Standing
<1>9. ~ Logged(n)'
  BY <1>3, <1>6
<1>10. TakenUp(n)'
  <2>1. OnWorker(n, {"running"} \cup Late)' => nodeState'[n] = "CANCELED"
    BY <1>1, <1>5, <1>6, <1>7 DEF TakenUp
  <2> QED
    BY <1>6, <1>7, <1>8, <1>9, <2>1 DEF TakenUp
<1>11. Placed(n)'
  <2>1. n \in pool' \/ draining'
    BY <1>2 DEF Standing
  <2> QED
    BY <1>8, <2>1 DEF Placed
<1>12. Recorded(n)'
  BY <1>8, <1>9 DEF Recorded, Logged
<1> QED
  BY <1>4, <1>10, <1>11, <1>12 DEF NodesSound

(* A step of the dispatcher that leaves every node where it is.            *)
LEMMA NodesStand ==
  ASSUME PlacesSound, StatesMove, Standing, UNCHANGED <<nodeState, blocked, pool, popped>>
  PROVE  NodesSound'
<1>1. \A m : SameLog(m) /\ (Logged(m)' <=> Logged(m))
  BY LogStays DEF Standing, Logged
<1>2. \A m \in Nodes : SamePlace(m)
  BY <1>1 DEF SamePlace, Standing
<1> QED
  BY <1>1, <1>2, NodeStays DEF PlacesSound, NodesSound, Standing

(* The dispatcher hands the node it has popped to the pool.                *)
LEMMA SubmitPoppedKeeps ==
  ASSUME TypeOK, PlacesSound, StatesMove, SubmitPopped
  PROVE  PlacesSound'
<1>1. PICK n \in Nodes : n = popped
  BY DEF SubmitPopped, TypeOK
<1>2. /\ Submit(n) /\ popped' = NoNode
      /\ UNCHANGED <<canceled, readyQueue, blocked, usage, draining, worker, log>>
  BY <1>1 DEF SubmitPopped, cancelVars
<1>3. NoNode \notin Nodes
  BY ConcurrentConstants
<1>4. Waiting(n) /\ TakenUp(n)
  BY <1>1 DEF Waiting, PlacesSound, NodesSound
<1>5. ~ Waiting(n)'
  BY <1>1, <1>2, <1>3, <1>4 DEF Waiting, TakenUp
<1>6. Standing
  BY <1>2 DEF Standing, OnWorker, Pushed, Pushing
<1>7. \A m \in Nodes \ {n} : (m \in blocked' <=> m \in blocked) /\ (m = popped' <=> m = popped)
  BY <1>1, <1>2, <1>3
<1>8. NodesSound'
  BY <1>2, <1>4, <1>5, <1>6, <1>7, SubmitKeepsNodes
<1>9. WorkersSound'
  <2>1. \A m \in Nodes : nodeState'[m] = "READY" => nodeState[m] = "READY"
    BY <1>2, DispatchedMoves DEF Submit, TypeOK, NodesTyped
  <2>2. \A m, k : InLog(m, k) => InLog(m, k)'
    BY <1>2 DEF InLog
  <2> QED
    BY <1>2, <2>1, <2>2, WorkersSame DEF PlacesSound
<1>10. SessionSound'
  <2>1. \A m \in Nodes : HasSession(m)' => HasSession(m)
    BY <1>1, <1>2, <1>3 DEF HasSession, Submit, OnWorker
  <2> QED
    BY <1>2, <2>1, SessionKept DEF PlacesSound
<1> QED
  BY <1>8, <1>9, <1>10 DEF PlacesSound

(* drain_resource_blocked gives the session only while nobody has it.      *)
LEMMA DrainKeepsSession ==
  ASSUME TypeOK, SessionSound, NEW used \in {0, 1}, DrainBlocked(used), popped' = popped,
         used = 1 => usage = 1,
         \A m \in Nodes : OnWorker(m, {"taken", "running", "ran"})' =>
           OnWorker(m, {"taken", "running", "ran"}),
         used = 0 => \A m \in BrowserNodes :
           m # popped /\ m \notin pool /\ ~ OnWorker(m, {"taken", "running", "ran"})'
  PROVE  SessionSound'
<1>0. BrowserNodes \subseteq Nodes
  BY ConcurrentConstants
<1>1. CASE used = 0 /\ blocked # {}
  <2>1. PICK n \in blocked : usage' = 1 /\ blocked' = blocked \ {n} /\ Submit(n)
    BY <1>1 DEF DrainBlocked
  <2>2. pool' \subseteq pool \cup {n}
    BY <2>1 DEF Submit
  <2>3. \A m \in Nodes : HasSession(m)' => m = n
    BY <1>1, <2>2 DEF HasSession
  <2>4. blocked' \subseteq BrowserNodes
    BY <2>1 DEF SessionSound
  <2> QED
    BY <2>1, <2>3, <2>4 DEF SessionSound
<1>2. CASE ~ (used = 0 /\ blocked # {})
  <2>1. usage' = used /\ UNCHANGED <<blocked, pool>>
    BY <1>2 DEF DrainBlocked
  <2>2. \A m \in Nodes : HasSession(m)' => HasSession(m)
    BY <2>1 DEF HasSession
  <2>3. CASE used = 1
    BY <2>1, <2>2, <2>3, SessionKept
  <2>4. CASE used = 0
    <3>1. \A m \in Nodes : ~ HasSession(m)'
      BY <2>1, <2>4 DEF HasSession
    <3> QED
      BY <2>1, <2>4, <3>1 DEF SessionSound
  <2> QED
    BY <2>3, <2>4
<1> QED
  BY <1>1, <1>2

(* The drain of the nodes that wait for the session hands one of them to   *)
(* the pool when the session is free, and moves no other.                  *)
LEMMA DrainKeepsNodes ==
  ASSUME TypeOK, PlacesSound, StatesMove, Standing, NEW used, DrainBlocked(used),
         popped' = popped
  PROVE  /\ NodesSound'
         /\ \A m \in Nodes : nodeState'[m] = "READY" => nodeState[m] = "READY"
<1>1. CASE used = 0 /\ blocked # {}
  <2>1. PICK n \in blocked : usage' = 1 /\ blocked' = blocked \ {n} /\ Submit(n)
    BY <1>1 DEF DrainBlocked
  <2>2. n \in Nodes
    BY <2>1 DEF TypeOK
  <2>3. Waiting(n) /\ TakenUp(n)
    BY <2>2 DEF Waiting, PlacesSound, NodesSound
  <2>4. ~ Waiting(n)'
    BY <2>1, <2>3 DEF Waiting, TakenUp
  <2>5. \A m \in Nodes \ {n} : (m \in blocked' <=> m \in blocked) /\ (m = popped' <=> m = popped)
    BY <2>1
  <2>6. NodesSound'
    BY <2>1, <2>2, <2>3, <2>4, <2>5, SubmitKeepsNodes
  <2>7. \A m \in Nodes : nodeState'[m] = "READY" => nodeState[m] = "READY"
    BY <2>1, <2>2, DispatchedMoves DEF Submit, TypeOK, NodesTyped
  <2> QED
    BY <2>6, <2>7
<1>2. CASE ~ (used = 0 /\ blocked # {})
  <2>1. UNCHANGED <<nodeState, blocked, pool>>
    BY <1>2 DEF DrainBlocked
  <2> QED
    BY <2>1, NodesStand
<1> QED
  BY <1>1, <1>2

(* The dispatcher hands a node that waits for the session to the pool when *)
(* the session is free.                                                    *)
LEMMA UnblockFirstKeeps ==
  ASSUME TypeOK, PlacesSound, StatesMove, UnblockFirst
  PROVE  PlacesSound'
<1>1. UNCHANGED <<canceled, popped, readyQueue, draining, worker, log>>
  BY DEF UnblockFirst, cancelVars
<1>2. Standing
  BY <1>1 DEF Standing, OnWorker, Pushed, Pushing
<1>3. PICK used : used = usage
  OBVIOUS
<1>4. DrainBlocked(used)
  BY <1>3 DEF UnblockFirst, DrainBlocked
<1>5. NodesSound' /\ \A m \in Nodes : nodeState'[m] = "READY" => nodeState[m] = "READY"
  BY <1>1, <1>2, <1>4, DrainKeepsNodes
<1>6. WorkersSound'
  <2>1. \A m, k : InLog(m, k) => InLog(m, k)'
    BY <1>1 DEF InLog
  <2> QED
    BY <1>1, <1>5, <2>1, WorkersSame DEF PlacesSound
<1>7. SessionSound'
  <2>1. used \in {0, 1} /\ (used = 1 => usage = 1)
    BY <1>3 DEF PlacesSound, SessionSound
  <2>2. \A m, S : OnWorker(m, S)' <=> OnWorker(m, S)
    BY <1>1 DEF OnWorker
  <2>3. used = 0 => \A m \in BrowserNodes :
          m # popped /\ m \notin pool /\ ~ OnWorker(m, {"taken", "running", "ran"})'
    BY <1>3, <2>2, ConcurrentConstants DEF PlacesSound, SessionSound, HasSession
  <2> QED
    BY <1>1, <1>4, <2>1, <2>2, <2>3, DrainKeepsSession DEF PlacesSound
<1> QED
  BY <1>5, <1>6, <1>7 DEF PlacesSound

(* A worker gives the session up and lets a blocked node have it.          *)
LEMMA ReleaseKeeps ==
  ASSUME TypeOK, PlacesSound, StatesMove, NEW w \in Workers, Release(w)
  PROVE  PlacesSound'
<1>1. PICK x : /\ WorkerWrites(w, x)
               /\ x.at = "released" /\ x.node = worker[w].node /\ x.ok = worker[w].ok
               /\ x.ready = worker[w].ready
  <2>1. worker' = [worker EXCEPT ![w].at = "released"]
    BY DEF Release
  <2> QED
    BY <2>1, Restaged DEF Stages
<1> DEFINE r == x.node
<1>2. PICK used : used = IF r \in BrowserNodes /\ usage > 0 THEN usage - 1 ELSE usage
  OBVIOUS
<1>3. /\ DrainBlocked(used) /\ worker[w].at = "ran"
      /\ UNCHANGED <<canceled, popped, readyQueue, draining, log>>
  BY <1>1, <1>2 DEF Release, DrainBlocked, cancelVars, mainVars
<1>4. worker[w].at \in Working /\ x.at \in Late /\ x.at \in Working
  BY <1>1, <1>3 DEF Working, Late
<1>5. /\ r \in Nodes /\ x.ready = {} /\ ~ Waiting(r) /\ r \notin pool
      /\ \A v \in Workers \ {w} : worker[v].at \in Working => worker[v].node # r
  BY <1>1, <1>4, TaskMeaning
<1>6. \A S \in SUBSET Working : /\ OnWorker(r, S) <=> worker[w].at \in S
                                /\ OnWorker(r, S)' <=> x.at \in S
                                /\ \A m : m # r => (OnWorker(m, S)' <=> OnWorker(m, S))
  BY <1>1, <1>4, TaskMoves DEF PlacesSound
<1>7. Standing
  <2>1. \A S \in NodeStages : worker[w].at \in S <=> x.at \in S
    BY <1>1, <1>3 DEF NodeStages, Early, Late
  <2>2. \A m \in Nodes : \A S \in NodeStages : OnWorker(m, S)' <=> OnWorker(m, S)
    BY <1>6, <2>1, StageSets
  <2>3. \A m : Pushed(m)' <=> Pushed(m)
    BY <1>1, <1>3, PushedKept
  <2> QED
    BY <1>3, <2>2, <2>3 DEF Standing
<1>8. NodesSound' /\ \A m \in Nodes : nodeState'[m] = "READY" => nodeState[m] = "READY"
  BY <1>3, <1>7, DrainKeepsNodes
<1>9. WorkersSound'
  <2>1. \A m, k : InLog(m, k) => InLog(m, k)'
    BY <1>3 DEF InLog
  <2>2. \A k : k = x.ok => InLog(r, k)
    BY <1>1, <1>3 DEF PlacesSound, WorkersSound, Late
  <2>3. InLog(r, x.ok)'
    BY <2>1, <2>2
  <2>4. x.at # "idle" /\ x.at # "pushing"
    BY <1>1
  <2> QED
    BY <1>1, <1>5, <1>8, <2>1, <2>3, <2>4, WorkersKept DEF PlacesSound
<1>10. SessionSound'
  <2> DEFINE T == {"taken", "running", "ran"}
  <2>1. T \in SUBSET Working
    BY DEF Working, Early, Late
  <2>2. OnWorker(r, T) /\ ~ OnWorker(r, T)' /\ \A m : m # r => (OnWorker(m, T)' <=> OnWorker(m, T))
    BY <1>1, <1>3, <1>6, <2>1
  <2>3. usage \in {0, 1}
    BY DEF PlacesSound, SessionSound
  <2>4. used \in {0, 1} /\ (used = 1 => usage = 1)
    BY <1>2, <2>3
  <2>5. r \in BrowserNodes => HasSession(r)
    BY <2>2 DEF HasSession
  <2>6. used = 0 => \A m \in BrowserNodes : m # r => ~ HasSession(m)
    <3>1. CASE r \in BrowserNodes
      BY <1>5, <2>5, <3>1, ConcurrentConstants DEF PlacesSound, SessionSound
    <3>2. CASE r \notin BrowserNodes
      BY <1>2, <2>3, <3>2, ConcurrentConstants DEF PlacesSound, SessionSound
    <3> QED
      BY <3>1, <3>2
  <2>7. used = 0 => \A m \in BrowserNodes : m # popped /\ m \notin pool /\ ~ OnWorker(m, T)'
    BY <1>5, <2>2, <2>6 DEF HasSession, Waiting
  <2>8. \A m \in Nodes : OnWorker(m, T)' => OnWorker(m, T)
    BY <2>2
  <2> QED
    BY <1>3, <2>4, <2>7, <2>8, DrainKeepsSession DEF PlacesSound
<1> QED
  BY <1>8, <1>9, <1>10 DEF PlacesSound

(* start_run finds every place empty; the nodes it readies go into the     *)
(* queue at once.                                                          *)
LEMMA StartRunKeeps ==
  ASSUME TypeOK, PlacesSound, PhaseSound, StatesMove, StartRun
  PROVE  PlacesSound'
<1>1. /\ UNCHANGED <<canceled, popped, blocked, usage, pool, draining, worker, log>>
      /\ readyQueue' = {n \in Nodes : nodeState'[n] = "READY"}
      /\ nodeState' = nodeState \/ nodeState' = Unblock(nodeState)
  BY DEF StartRun, cancelVars, dispatch, machine
<1>2. /\ readyQueue = {} /\ blocked = {} /\ pool = {} /\ popped = NoNode
      /\ worker = [w \in Workers |-> Idle] /\ log = <<>>
  BY DEF StartRun, PhaseSound
<1>3. NoNode \notin Nodes
  BY ConcurrentConstants
<1>4. /\ \A n \in Nodes : ~ Waiting(n) /\ ~ Waiting(n)'
      /\ \A n \in Nodes : ~ Pushed(n) /\ ~ Pushed(n)'
      /\ \A n \in Nodes : ~ Logged(n) /\ ~ Logged(n)'
      /\ \A n \in Nodes : \A S \in SUBSET Working : ~ OnWorker(n, S) /\ ~ OnWorker(n, S)'
  <2>1. \A w \in Workers : worker[w].at = "idle" /\ worker'[w].at = "idle"
    BY <1>1, <1>2, IdleRecord
  <2>2. DOMAIN log = {} /\ DOMAIN log' = {}
    BY <1>1, <1>2
  <2>3. \A n \in Nodes : ~ Waiting(n) /\ ~ Waiting(n)'
    BY <1>1, <1>2, <1>3 DEF Waiting
  <2>4. \A n \in Nodes : ~ Pushed(n) /\ ~ Pushed(n)'
    BY <2>1 DEF Pushed, Pushing
  <2>5. \A n \in Nodes : ~ Logged(n) /\ ~ Logged(n)'
    BY <2>2 DEF Logged
  <2>6. \A n \in Nodes : \A S \in SUBSET Working : ~ OnWorker(n, S) /\ ~ OnWorker(n, S)'
    BY <2>1, StageSets DEF OnWorker
  <2> QED
    BY <2>3, <2>4, <2>5, <2>6
<1>5. \A n \in Nodes : Fresh(n) /\ Fresh(n)'
  BY <1>1, <1>2, <1>4 DEF Fresh, Working
<1>6. /\ \A m, k : InLog(m, k) => InLog(m, k)'
      /\ \A m : SameLog(m) /\ (Logged(m)' <=> Logged(m))
  BY <1>1, LogStays DEF InLog, Logged
<1>7. \A n \in Nodes : nodeState[n] # "READY"
  BY <1>2, <1>4 DEF PlacesSound, NodesSound, Placed
<1>8. \A n \in Nodes : nodeState'[n] = nodeState[n] \/ nodeState'[n] = "READY"
  BY <1>1 DEF Unblock, StatesMove
<1>9. WorkersSound'
  <2>1. \A w \in Workers : worker'[w] = Idle
    BY <1>1, <1>2
  <2>2. "idle" \notin Late \cup Early /\ "idle" # "pushing"
    BY StageSets DEF Working
  <2> QED
    BY <2>1, <2>2, IdleRecord DEF WorkersSound, Pushing
<1>10. ASSUME NEW m \in Nodes
       PROVE  TakenUp(m)' /\ Placed(m)' /\ Recorded(m)'
  <2>1. CASE nodeState'[m] = "READY"
    <3>1. TakenUp(m)'
      BY <1>1, <1>2, <1>4, <1>5, <2>1 DEF TakenUp, Working, Early
    <3>2. Placed(m)'
      BY <1>1, <1>4, <1>5, <2>1 DEF Placed
    <3>3. Recorded(m)'
      BY <1>4, <2>1 DEF Recorded, Logged
    <3> QED
      BY <3>1, <3>2, <3>3
  <2>2. CASE nodeState'[m] = nodeState[m] /\ nodeState'[m] # "READY"
    <3>1. SamePlace(m)
      BY <1>1, <1>2, <1>4, <1>6, <2>2, StageSets DEF SamePlace
    <3> QED
      BY <1>1, <1>6, <2>2, <3>1, NodeStays DEF PlacesSound, NodesSound
  <2> QED
    BY <1>8, <2>1, <2>2
<1>11. NodesSound'
  BY <1>10 DEF NodesSound
<1>12. SessionSound'
  <2>1. \A m \in Nodes : HasSession(m)' => HasSession(m)
    BY <1>1 DEF HasSession, OnWorker
  <2> QED
    BY <1>1, <2>1, SessionKept DEF PlacesSound
<1> QED
  BY <1>9, <1>11, <1>12 DEF PlacesSound

(* cancel_run cancels the nodes where they are.                            *)
LEMMA CancelKeeps ==
  ASSUME TypeOK, PlacesSound, PhaseSound, StatesMove, BeginCanceled \/ CancelNodes
  PROVE  PlacesSound'
<1>1. /\ UNCHANGED <<canceled, popped, readyQueue, blocked, usage, pool, draining, worker, log>>
      /\ nodeState' = CancelOpen(nodeState)
  BY DEF BeginCanceled, CancelNodes, cancelVars, mainVars, dispatch
<1>2. canceled'
  BY <1>1 DEF BeginCanceled, CancelNodes, PhaseSound
<1>3. \A n \in Nodes : nodeState'[n] = IF nodeState[n] \in Terminal THEN nodeState[n] ELSE "CANCELED"
  BY <1>1, CancelMoves DEF TypeOK, NodesTyped
<1>4. /\ \A m, k : InLog(m, k) => InLog(m, k)'
      /\ \A m : SameLog(m) /\ (Logged(m)' <=> Logged(m))
  BY <1>1, LogStays DEF InLog, Logged
<1>5. \A m \in Nodes : SamePlace(m)
  BY <1>1, <1>4 DEF SamePlace, OnWorker, Pushed, Pushing
<1>6. ASSUME NEW m \in Nodes
      PROVE  TakenUp(m)' /\ Placed(m)' /\ Recorded(m)'
  <2>1. TakenUp(m) /\ Placed(m) /\ Recorded(m)
    BY DEF PlacesSound, NodesSound
  <2>2. CASE nodeState[m] \in Terminal
    BY <1>1, <1>3, <1>4, <1>5, <2>1, <2>2, NodeStays
  <2>3. CASE nodeState[m] \notin Terminal
    BY <1>2, <1>3, <1>5, <2>1, <2>3, NodeEnds
  <2> QED
    BY <2>2, <2>3
<1>7. WorkersSound'
  <2>1. \A m \in Nodes : nodeState'[m] = "READY" => nodeState[m] = "READY"
    BY <1>3
  <2> QED
    BY <1>1, <1>4, <2>1, WorkersSame DEF PlacesSound
<1>8. SessionSound'
  <2>1. \A m \in Nodes : HasSession(m)' => HasSession(m)
    BY <1>1 DEF HasSession, OnWorker
  <2> QED
    BY <1>1, <2>1, SessionKept DEF PlacesSound
<1> QED
  BY <1>6, <1>7, <1>8 DEF PlacesSound, NodesSound

(* The steps that only move the control of the dispatcher or of cancel().  *)
ControlStep ==
  \/ Begin \/ Lock \/ Test \/ FallAsleep \/ BreakOrGoOn \/ EndTurn \/ Drain \/ Return
  \/ Report \/ CancelFlag \/ CancelNotify \/ UNCHANGED vars

(* Steps of control move no node, and take back neither the cancel nor the *)
(* drain.                                                                  *)
LEMMA ControlEffect ==
  ASSUME TypeOK, ControlStep
  PROVE  /\ NothingMoves /\ inFlight' = inFlight
         /\ canceled => canceled'
         /\ draining => draining'
<1>1. CASE Begin \/ Lock \/ Test \/ FallAsleep \/ BreakOrGoOn \/ EndTurn \/ Return \/ Report
           \/ CancelNotify \/ UNCHANGED vars
  BY <1>1 DEF Begin, Lock, Test, FallAsleep, BreakOrGoOn, EndTurn, Return, Report,
     CancelNotify, vars, machine, cancelVars, mainVars, dispatch, NothingMoves
<1>2. CASE Drain \/ CancelFlag
  BY <1>2 DEF Drain, CancelFlag, machine, cancelVars, mainVars, dispatch, NothingMoves
<1> QED
  BY <1>1, <1>2 DEF ControlStep

(* The steps, by whether they move a node.                                 *)
LEMMA StepKinds ==
  [Next]_vars =>
    \/ ControlStep
    \/ BeginCanceled \/ CancelNodes \/ StartRun \/ UnblockFirst \/ SubmitPopped
    \/ \E n \in Nodes : Pop(n)
    \/ \E w \in Workers : Work(w)
  BY DEF Next, Dispatcher, Cancel, ControlStep

(* Every step keeps the places sound.                                      *)
LEMMA PlacesStep ==
  ASSUME TypeOK, Object!IInv, PlacesSound, PhaseSound, LogRespectsGraph, [Next]_vars
  PROVE  PlacesSound'
<1>1. StatesMove
  BY DecidedStays DEF PlacesSound
<1>2. CASE ControlStep
  BY <1>1, <1>2, ControlEffect, NothingMovesKeeps
<1>3. CASE BeginCanceled \/ CancelNodes
  BY <1>1, <1>3, CancelKeeps
<1>4. CASE StartRun
  BY <1>1, <1>4, StartRunKeeps
<1>5. CASE UnblockFirst
  BY <1>1, <1>5, UnblockFirstKeeps
<1>6. CASE SubmitPopped
  BY <1>1, <1>6, SubmitPoppedKeeps
<1>7. CASE \E n \in Nodes : Pop(n)
  BY <1>1, <1>7, PopKeeps
<1>8. ASSUME NEW w \in Workers, Work(w)
      PROVE  PlacesSound'
  <2>1. CASE Take(w)
    BY <1>1, <2>1, TakeKeeps
  <2>2. CASE StartTask(w)
    BY <1>1, <2>2, StartTaskKeeps
  <2>3. CASE EndTask(w)
    BY <1>1, <2>3, EndTaskKeeps
  <2>4. CASE Release(w)
    BY <1>1, <2>4, ReleaseKeeps
  <2>5. CASE CheckCanceled(w)
    BY <1>1, <2>5, CheckCanceledKeeps
  <2>6. CASE Complete(w)
    BY <1>1, <2>6, CompleteKeeps
  <2>7. CASE Push(w)
    BY <1>1, <2>7, PushKeeps
  <2>8. CASE Finish(w)
    BY <1>1, <2>8, FinishKeeps
  <2> QED
    BY <1>8, <2>1, <2>2, <2>3, <2>4, <2>5, <2>6, <2>7, <2>8 DEF Work
<1> QED
  BY <1>2, <1>3, <1>4, <1>5, <1>6, <1>7, <1>8, StepKinds

-----------------------------------------------------------------------------
(* The counter of the work in flight.                                      *)

Load == Cardinality(pool) + Cardinality(Busy)

(* The pool and the busy workers can be counted.                           *)
LEMMA Countable ==
  ASSUME TypeOK
  PROVE  /\ IsFiniteSet(pool) /\ Cardinality(pool) \in Nat
         /\ IsFiniteSet(Busy) /\ Cardinality(Busy) \in Nat
<1>1. pool \subseteq Nodes /\ Busy \subseteq Workers
  BY DEF TypeOK, Busy
<1>2. IsFiniteSet(pool) /\ IsFiniteSet(Busy)
  BY <1>1, NodesFinite, ConcurrentConstants, FS_Subset
<1> QED
  BY <1>2, FS_CardinalityType

(* A worker that writes its record becomes busy, idle, or stays as it was. *)
LEMMA BusyEffect ==
  ASSUME TypeOK, NEW w \in Workers, NEW x, WorkerWrites(w, x)
  PROVE  /\ worker[w].at = "idle" /\ x.at # "idle" => w \notin Busy /\ Busy' = Busy \cup {w}
         /\ worker[w].at # "idle" /\ x.at = "idle" => w \in Busy /\ Busy' = Busy \ {w}
         /\ worker[w].at # "idle" /\ x.at # "idle" => Busy' = Busy
<1>1. worker'[w] = x /\ \A v \in Workers \ {w} : worker'[v] = worker[v]
  BY WriteEffect
<1>2. Busy' = {v \in Workers : worker'[v].at # "idle"}
  BY DEF Busy
<1> QED
  BY <1>1, <1>2 DEF Busy

(* A worker that goes on from one stage of its task to the next is busy    *)
(* before and after.                                                       *)
LEMMA StillBusy ==
  ASSUME TypeOK, NEW w \in Workers,
         StartTask(w) \/ EndTask(w) \/ Release(w) \/ CheckCanceled(w) \/ Complete(w) \/ Push(w)
  PROVE  Busy' = Busy
<1>1. /\ worker \in [Workers -> WorkerRecord]
      /\ \A v \in Workers \ {w} : worker'[v] = worker[v]
      /\ worker[w].at # "idle" /\ worker'[w].at # "idle"
  <2>1. worker \in [Workers -> WorkerRecord]
    BY DEF TypeOK, WorkerRecord
  <2>2. CASE EndTask(w)
    BY <2>1, <2>2 DEF EndTask, WorkerRecord
  <2>3. CASE Complete(w)
    BY <2>1, <2>3 DEF Complete, WorkerRecord
  <2>4. CASE CheckCanceled(w)
    BY <2>1, <2>4 DEF CheckCanceled, WorkerRecord
  <2>5. CASE StartTask(w) \/ Push(w)
    BY <2>1, <2>5 DEF StartTask, Push, WorkerRecord
  <2>6. CASE Release(w)
    BY <2>1, <2>6 DEF Release, WorkerRecord
  <2> QED
    BY <2>1, <2>2, <2>3, <2>4, <2>5, <2>6
<1>2. Busy' = {v \in Workers : worker'[v].at # "idle"}
  BY DEF Busy
<1> QED
  BY <1>1, <1>2 DEF Busy

(* A step that submits nothing and completes nothing leaves the count      *)
(* exact.                                                                  *)
LEMMA CountUnchanged ==
  ASSUME CountSound, pool' = pool, Busy' = Busy, inFlight' = inFlight, draining => draining'
  PROVE  CountSound'
<1>1. InFlightExact'
  BY DEF CountSound, InFlightExact
<1>2. inFlight' >= Cardinality(pool') + Cardinality(Busy')
  BY DEF CountSound
<1> QED
  BY <1>1, <1>2 DEF CountSound

(* A submission counts the one task it adds.                               *)
LEMMA CountSubmitted ==
  ASSUME TypeOK, CountSound, NEW n, n \notin pool, Submit(n), Busy' = Busy,
         draining' = draining
  PROVE  CountSound' /\ inFlight' \in Nat
<1>1. inFlight' = inFlight + 1 /\ inFlight \in Nat
  BY DEF Submit, TypeOK
<1>2. CASE draining
  <2>1. pool' = pool
    BY <1>2 DEF Submit
  <2>2. inFlight' >= Cardinality(pool') + Cardinality(Busy')
    BY <1>1, <2>1, Countable DEF CountSound
  <2>3. InFlightExact'
    BY <1>2 DEF InFlightExact
  <2> QED
    BY <1>1, <2>2, <2>3 DEF CountSound
<1>3. CASE ~ draining
  <2>1. pool' = pool \cup {n}
    BY <1>3 DEF Submit
  <2>2. Cardinality(pool') = Cardinality(pool) + 1
    BY <2>1, Countable, FS_AddElement
  <2>3. inFlight' = Cardinality(pool') + Cardinality(Busy')
    BY <1>1, <1>3, <2>2, Countable DEF CountSound, InFlightExact
  <2>4. InFlightExact' /\ inFlight' >= Cardinality(pool') + Cardinality(Busy')
    BY <1>1, <2>3 DEF InFlightExact
  <2> QED
    BY <1>1, <2>4 DEF CountSound
<1> QED
  BY <1>2, <1>3

(* --in_flight_ never goes below zero, and the sum stays exact.            *)
LEMMA CountStep ==
  ASSUME TypeOK, PlacesSound, CountSound, [Next]_vars
  PROVE  CountSound' /\ inFlight' \in Nat
<1>0. inFlight \in Nat
  BY DEF TypeOK
<1>1. ASSUME NEW n \in Nodes
      PROVE  Waiting(n) => n \notin pool
  BY DEF PlacesSound, NodesSound, TakenUp
<1>2. ASSUME NEW used, DrainBlocked(used), Busy' = Busy, draining' = draining
      PROVE  CountSound' /\ inFlight' \in Nat
  <2>1. CASE used = 0 /\ blocked # {}
    <3>1. PICK n \in blocked : Submit(n)
      BY <1>2, <2>1 DEF DrainBlocked
    <3>2. n \notin pool
      BY <1>1 DEF Waiting, TypeOK
    <3> QED
      BY <1>2, <3>1, <3>2, CountSubmitted
  <2>2. CASE ~ (used = 0 /\ blocked # {})
    <3>1. pool' = pool /\ inFlight' = inFlight
      BY <1>2, <2>2 DEF DrainBlocked
    <3> QED
      BY <1>0, <1>2, <3>1, CountUnchanged
  <2> QED
    BY <2>1, <2>2
<1>3. CASE ControlStep
  <2>1. NothingMoves /\ inFlight' = inFlight /\ (draining => draining')
    BY <1>3, ControlEffect
  <2>2. pool' = pool /\ Busy' = Busy
    BY <2>1 DEF NothingMoves, Busy
  <2> QED
    BY <1>0, <2>1, <2>2, CountUnchanged
<1>4. CASE BeginCanceled \/ CancelNodes \/ StartRun \/ \E n \in Nodes : Pop(n)
  <2>1. UNCHANGED <<pool, inFlight, worker, draining>>
    BY <1>4 DEF BeginCanceled, CancelNodes, StartRun, Pop, dispatch
  <2>2. Busy' = Busy
    BY <2>1 DEF Busy
  <2> QED
    BY <1>0, <2>1, <2>2, CountUnchanged
<1>5. CASE UnblockFirst
  <2>1. DrainBlocked(usage) /\ draining' = draining /\ Busy' = Busy
    BY <1>5 DEF UnblockFirst, Busy
  <2>2. PICK used : used = usage
    OBVIOUS
  <2>3. DrainBlocked(used)
    BY <2>1, <2>2 DEF DrainBlocked
  <2> QED
    BY <1>2, <2>1, <2>3
<1>6. CASE SubmitPopped
  <2>1. PICK n \in Nodes : n = popped
    BY <1>6 DEF SubmitPopped, TypeOK
  <2>2. Submit(n) /\ draining' = draining /\ Busy' = Busy
    BY <1>6, <2>1 DEF SubmitPopped, Busy
  <2>3. n \notin pool
    BY <1>1, <2>1 DEF Waiting
  <2> QED
    BY <2>2, <2>3, CountSubmitted
<1>7. ASSUME NEW w \in Workers, Take(w)
      PROVE  CountSound' /\ inFlight' \in Nat
  <2>1. PICK n \in pool : /\ pool' = pool \ {n}
                          /\ worker' = [worker EXCEPT ![w] = [Idle EXCEPT !.at = "taken", !.node = n]]
    BY <1>7 DEF Take
  <2>2. inFlight' = inFlight /\ draining' = draining /\ worker[w].at = "idle"
    BY <1>7 DEF Take
  <2>3. PICK x : x = [Idle EXCEPT !.at = "taken", !.node = n]
    OBVIOUS
  <2>4. x \in WorkerRecord /\ x.at = "taken"
    BY <2>3 DEF Idle, WorkerRecord, Stages, TypeOK
  <2>5. WorkerWrites(w, x)
    BY <2>1, <2>3, <2>4 DEF WorkerWrites
  <2>6. w \notin Busy /\ Busy' = Busy \cup {w}
    BY <2>2, <2>4, <2>5, BusyEffect
  <2>7. Cardinality(Busy') = Cardinality(Busy) + 1
    BY <2>6, Countable, FS_AddElement
  <2>8. Cardinality(pool') = Cardinality(pool) - 1
    BY <2>1, Countable, FS_RemoveElement
  <2>9. Cardinality(pool') + Cardinality(Busy') = Cardinality(pool) + Cardinality(Busy)
    BY <2>7, <2>8, Countable
  <2>10. InFlightExact'
    BY <2>2, <2>9 DEF CountSound, InFlightExact
  <2>11. inFlight' >= Cardinality(pool') + Cardinality(Busy')
    BY <2>2, <2>9 DEF CountSound
  <2> QED
    BY <1>0, <2>2, <2>10, <2>11 DEF CountSound
<1>8. ASSUME NEW w \in Workers, Finish(w)
      PROVE  CountSound' /\ inFlight' \in Nat
  <2>1. WorkerWrites(w, Idle)
    BY <1>8, IdleRecord DEF Finish, WorkerWrites
  <2>2. inFlight' = inFlight - 1 /\ draining' = draining /\ pool' = pool /\ worker[w].at # "idle"
    BY <1>8 DEF Finish
  <2>3. PICK x : x = Idle
    OBVIOUS
  <2>4. WorkerWrites(w, x) /\ x.at = "idle"
    BY <2>1, <2>3, IdleRecord
  <2>5. w \in Busy /\ Busy' = Busy \ {w}
    BY <2>2, <2>4, BusyEffect
  <2>6. Cardinality(Busy') = Cardinality(Busy) - 1
    BY <2>5, Countable, FS_RemoveElement
  <2>7. Cardinality(Busy) > 0
    BY <2>5, Countable, FS_EmptySet
  <2>8. inFlight >= 1
    BY <1>0, <2>7, Countable DEF CountSound
  <2>9. inFlight' \in Nat
    BY <1>0, <2>2, <2>8
  <2>10. InFlightExact'
    BY <1>0, <2>2, <2>6, Countable DEF CountSound, InFlightExact
  <2>11. inFlight' >= Cardinality(pool') + Cardinality(Busy')
    BY <1>0, <2>2, <2>6, Countable DEF CountSound
  <2> QED
    BY <2>9, <2>10, <2>11 DEF CountSound
<1>9. ASSUME NEW w \in Workers,
             StartTask(w) \/ EndTask(w) \/ CheckCanceled(w) \/ Complete(w) \/ Push(w)
      PROVE  CountSound' /\ inFlight' \in Nat
  <2>1. UNCHANGED <<pool, inFlight, draining>>
    BY <1>9 DEF StartTask, EndTask, CheckCanceled, Complete, Push, dispatch
  <2>2. Busy' = Busy
    BY <1>9, StillBusy
  <2> QED
    BY <1>0, <2>1, <2>2, CountUnchanged
<1>10. ASSUME NEW w \in Workers, Release(w)
       PROVE  CountSound' /\ inFlight' \in Nat
  <2>1. Busy' = Busy /\ draining' = draining
    BY <1>10, StillBusy DEF Release
  <2>2. PICK used : used = IF worker[w].node \in BrowserNodes /\ usage > 0
                           THEN usage - 1 ELSE usage
    OBVIOUS
  <2>3. DrainBlocked(used)
    BY <1>10, <2>2 DEF Release, DrainBlocked
  <2> QED
    BY <1>2, <2>1, <2>3
<1> QED
  BY <1>3, <1>4, <1>5, <1>6, <1>7, <1>8, <1>9, <1>10, StepKinds DEF Work

-----------------------------------------------------------------------------
(* The control of the threads, and the types.                              *)

(* Once every node is decided none moves again.                            *)
LEMMA DecidedForGood ==
  ASSUME TypeOK, StatesMove, AllTerminal(nodeState)
  PROVE  nodeState' = nodeState
<1>1. \A n \in Nodes : nodeState[n] \in Terminal
  BY DEF AllTerminal, Open
<1> QED
  BY <1>1 DEF TypeOK, StatesMove

(* Before the run is started no worker has anything to do.                 *)
LEMMA StartedBeforeWork ==
  ASSUME TypeOK, PhaseSound, NEW w \in Workers, Work(w)
  PROVE  pc \notin {"start", "starting"}
<1>1. ASSUME pc \in {"start", "starting"}
      PROVE  worker[w].at = "idle" /\ pool = {}
  BY <1>1, IdleRecord DEF PhaseSound
<1> QED
  BY <1>1 DEF Work, Take, StartTask, EndTask, Release, CheckCanceled, Complete, Push, Finish

(* Every step keeps what the dispatcher's place says of the run.           *)
LEMMA PhaseStep ==
  ASSUME TypeOK, WorkersSound, PhaseSound, LeavesWhenDecided, [Next]_vars
  PROVE  PhaseSound'
<1>1. StatesMove
  BY DecidedStays
<1>2. pc = "returned" /\ ~ canceled => nodeState' = nodeState
  BY <1>1, DecidedForGood DEF LeavesWhenDecided
<1>3. CASE ControlStep
  <2>1. CASE Begin \/ Lock \/ Test \/ FallAsleep
    BY <2>1 DEF PhaseSound, Begin, Lock, Test, FallAsleep, machine, cancelVars, dispatch
  <2>2. CASE BreakOrGoOn \/ EndTurn
    BY <2>2 DEF PhaseSound, BreakOrGoOn, EndTurn, machine, cancelVars, dispatch
  <2>3. CASE Drain \/ Report
    BY <2>3 DEF PhaseSound, Drain, Report, machine, cancelVars, mainVars, dispatch
  <2>4. CASE Return
    <3>1. Outcome(nodeState) # "QUEUED"
      BY DEF Outcome
    <3> QED
      BY <2>4, <3>1 DEF PhaseSound, Return, cancelVars, dispatch, RunTerminal
  <2>5. CASE CancelFlag
    BY <2>5 DEF PhaseSound, CancelFlag, machine, mainVars, dispatch, TypeOK
  <2>6. CASE CancelNotify
    BY <2>6 DEF PhaseSound, CancelNotify, Notify, machine, dispatch, TypeOK
  <2>7. CASE UNCHANGED vars
    BY <2>7 DEF PhaseSound, vars, machine, cancelVars, mainVars, dispatch
  <2> QED
    BY <1>3, <2>1, <2>2, <2>3, <2>4, <2>5, <2>6, <2>7 DEF ControlStep
<1>4. CASE BeginCanceled
  BY <1>4 DEF PhaseSound, BeginCanceled, cancelVars, dispatch
<1>5. CASE CancelNodes
  BY <1>5 DEF PhaseSound, CancelNodes, mainVars, dispatch, TypeOK
<1>6. CASE StartRun
  BY <1>6 DEF PhaseSound, StartRun, machine, cancelVars, dispatch
<1>7. CASE UnblockFirst
  BY <1>7 DEF PhaseSound, UnblockFirst, cancelVars
<1>8. CASE SubmitPopped
  BY <1>8 DEF PhaseSound, SubmitPopped, cancelVars
<1>9. CASE \E n \in Nodes : Pop(n)
  BY <1>9 DEF PhaseSound, Pop, machine, cancelVars
<1>10. ASSUME NEW w \in Workers, Work(w)
       PROVE  PhaseSound'
  <2>1. pc \notin {"start", "starting"}
    BY <1>10, StartedBeforeWork
  <2>2. /\ UNCHANGED <<runState, canceled, cancelPc, popped, draining, outcome>>
        /\ pc' = pc \/ (pc = "asleep" /\ pc' = "locking")
    BY <1>10 DEF Work, Take, StartTask, EndTask, Release, CheckCanceled, Complete, Push,
       Finish, Notify, cancelVars, mainVars, machine
  <2>3. pc' = "returned" /\ ~ canceled => runState' = Outcome(nodeState')
    BY <1>2, <2>2 DEF PhaseSound
  <2> QED
    BY <2>1, <2>2, <2>3 DEF PhaseSound
<1> QED
  BY <1>3, <1>4, <1>5, <1>6, <1>7, <1>8, <1>9, <1>10, StepKinds

(* The steps of a worker write a record and a log of the right types.      *)
LEMMA WorkerTyped ==
  ASSUME TypeOK, WorkersSound, StatesMove, NEW w \in Workers, Work(w)
  PROVE  worker' \in [Workers -> WorkerRecord] /\ log' \in Seq(LogEntry)
<1>1. worker \in [Workers -> WorkerRecord] /\ log \in Seq(LogEntry)
  BY DEF TypeOK, WorkerRecord
<1>2. CASE Take(w)
  <2>1. PICK n \in pool : worker' = [worker EXCEPT ![w] = [Idle EXCEPT !.at = "taken", !.node = n]]
    BY <1>2 DEF Take
  <2>2. [Idle EXCEPT !.at = "taken", !.node = n] \in WorkerRecord
    BY DEF Idle, WorkerRecord, Stages, TypeOK
  <2> QED
    BY <1>1, <1>2, <2>1, <2>2 DEF Take
<1>3. CASE EndTask(w)
  <2>1. worker[w].node \in Nodes
    BY <1>3 DEF EndTask, WorkersSound
  <2>2. PICK ok \in BOOLEAN :
          /\ worker' = [worker EXCEPT ![w].at = "ran", ![w].ok = ok]
          /\ log' = Append(log, [node |-> worker[w].node, ok |-> ok])
    BY <1>3, ConcurrentConstants DEF EndTask
  <2>3. [node |-> worker[w].node, ok |-> ok] \in LogEntry
    BY <2>1 DEF LogEntry
  <2>4. log' \in Seq(LogEntry)
    BY <1>1, <2>2, <2>3, AppendProperties
  <2>5. [worker[w] EXCEPT !.at = "ran", !.ok = ok] \in WorkerRecord
    BY <1>1 DEF WorkerRecord, Stages
  <2> QED
    BY <1>1, <2>2, <2>4, <2>5
<1>4. CASE Complete(w)
  <2>1. [worker[w] EXCEPT !.at = "pushing",
           !.ready = {m \in Nodes \ {worker[w].node} : nodeState'[m] # nodeState[m]}]
          \in WorkerRecord
    BY <1>1 DEF WorkerRecord, Stages
  <2> QED
    BY <1>1, <1>4, <2>1 DEF Complete
<1>5. CASE Finish(w)
  BY <1>1, <1>5, IdleRecord DEF Finish
<1>6. ASSUME NEW stage \in Stages, worker' = [worker EXCEPT ![w].at = stage], log' = log
      PROVE  worker' \in [Workers -> WorkerRecord] /\ log' \in Seq(LogEntry)
  <2>1. [worker[w] EXCEPT !.at = stage] \in WorkerRecord
    BY <1>1 DEF WorkerRecord
  <2> QED
    BY <1>1, <1>6, <2>1
<1>7. CASE StartTask(w) \/ Release(w) \/ Push(w)
  BY <1>6, <1>7 DEF StartTask, Release, Push, Stages
<1>8. CASE CheckCanceled(w)
  <2>1. log' = log
    BY <1>8 DEF CheckCanceled
  <2>2. CASE canceled
    <3>1. worker' = [worker EXCEPT ![w].at = "finishing"]
      BY <1>8, <2>2 DEF CheckCanceled
    <3> QED
      BY <1>6, <2>1, <3>1 DEF Stages
  <2>3. CASE ~ canceled
    <3>1. worker' = [worker EXCEPT ![w].at = "completing"]
      BY <1>8, <2>3 DEF CheckCanceled
    <3> QED
      BY <1>6, <2>1, <3>1 DEF Stages
  <2> QED
    BY <2>2, <2>3
<1> QED
  BY <1>2, <1>3, <1>4, <1>5, <1>7, <1>8 DEF Work

(* Every step keeps the types.                                             *)
LEMMA TypeStep ==
  ASSUME TypeOK, PlacesSound, CountSound, [Next]_vars
  PROVE  TypeOK'
<1>1. nodeState' \in [Nodes -> NodeStates]
  BY DecidedStays DEF PlacesSound, StatesMove
<1>2. inFlight' \in Nat
  BY CountStep
<1>3. worker' \in [Workers -> WorkerRecord] /\ log' \in Seq(LogEntry)
  <2>1. ASSUME UNCHANGED <<worker, log>>
        PROVE  worker' \in [Workers -> WorkerRecord] /\ log' \in Seq(LogEntry)
    BY <2>1 DEF TypeOK, WorkerRecord
  <2>2. CASE ControlStep
    BY <2>1, <2>2, ControlEffect DEF NothingMoves
  <2>3. CASE BeginCanceled \/ CancelNodes \/ StartRun \/ UnblockFirst \/ SubmitPopped
             \/ \E n \in Nodes : Pop(n)
    BY <2>1, <2>3 DEF BeginCanceled, CancelNodes, StartRun, UnblockFirst, SubmitPopped, Pop
  <2>4. CASE \E w \in Workers : Work(w)
    BY <2>4, WorkerTyped, DecidedStays DEF PlacesSound
  <2> QED
    BY <2>2, <2>3, <2>4, StepKinds
<1>4. /\ runState' \in RunStates
      /\ canceled' \in BOOLEAN
      /\ cancelPc' \in {"idle", "flagged", "committed", "done"}
      /\ draining' \in BOOLEAN
      /\ outcome' \in {"none", "SUCCEEDED", "FAILED", "CANCELED"}
  <2>1. Outcome(nodeState) \in RunStates
    BY DEF Outcome, RunStates
  <2>2. CASE ControlStep
    BY <2>1, <2>2 DEF ControlStep, TypeOK, Begin, Lock, Test, FallAsleep, BreakOrGoOn, EndTurn,
       Drain, Return, Report, CancelFlag, CancelNotify, vars, machine, cancelVars, mainVars
  <2>3. CASE BeginCanceled \/ CancelNodes \/ StartRun \/ UnblockFirst \/ SubmitPopped
             \/ \E n \in Nodes : Pop(n)
    BY <2>3 DEF BeginCanceled, CancelNodes, StartRun, UnblockFirst, SubmitPopped, Pop, TypeOK,
       RunStates, machine, cancelVars, mainVars
  <2>4. CASE \E w \in Workers : Work(w)
    BY <2>4 DEF Work, Take, StartTask, EndTask, Release, CheckCanceled, Complete, Push, Finish,
       TypeOK, machine, cancelVars, mainVars
  <2> QED
    BY <2>2, <2>3, <2>4, StepKinds
<1>5. /\ pc' \in {"start", "starting", "locking", "testing", "blocking", "asleep", "tested",
                  "unblocking", "popping", "draining", "joining", "returned"}
      /\ lock' \in {"free", "dispatcher"}
  <2>1. CASE ControlStep
    BY <2>1 DEF ControlStep, TypeOK, Begin, Lock, Test, FallAsleep, BreakOrGoOn, EndTurn,
       Drain, Return, Report, CancelFlag, CancelNotify, vars, mainVars, Notify
  <2>2. CASE BeginCanceled \/ CancelNodes \/ StartRun \/ UnblockFirst \/ SubmitPopped
             \/ \E n \in Nodes : Pop(n)
    BY <2>2 DEF BeginCanceled, CancelNodes, StartRun, UnblockFirst, SubmitPopped, Pop, TypeOK,
       mainVars
  <2>3. CASE \E w \in Workers : Work(w)
    BY <2>3 DEF Work, Take, StartTask, EndTask, Release, CheckCanceled, Complete, Push, Finish,
       TypeOK, mainVars, Notify
  <2> QED
    BY <2>1, <2>2, <2>3, StepKinds
<1>6. /\ popped' \in Nodes \cup {NoNode}
      /\ readyQueue' \subseteq Nodes /\ blocked' \subseteq Nodes /\ pool' \subseteq Nodes
      /\ usage' \in Nat
  <2>0. /\ popped \in Nodes \cup {NoNode} /\ readyQueue \subseteq Nodes
        /\ blocked \subseteq Nodes /\ pool \subseteq Nodes
    BY DEF TypeOK
  <2>1. ASSUME NEW used \in Nat, DrainBlocked(used)
        PROVE  usage' \in Nat /\ blocked' \subseteq Nodes /\ pool' \subseteq Nodes
    BY <2>0, <2>1 DEF DrainBlocked, Submit
  <2>2. CASE ControlStep
    BY <2>0, <2>2, ControlEffect DEF NothingMoves, TypeOK
  <2>3. CASE BeginCanceled \/ CancelNodes \/ StartRun
    BY <2>0, <2>3 DEF BeginCanceled, CancelNodes, StartRun, TypeOK, mainVars, dispatch
  <2>4. CASE UnblockFirst
    <3>1. PICK used \in Nat : used = usage
      BY DEF TypeOK
    <3>2. DrainBlocked(used) /\ UNCHANGED <<popped, readyQueue>>
      BY <2>4, <3>1 DEF UnblockFirst, DrainBlocked
    <3> QED
      BY <2>0, <2>1, <3>2
  <2>5. CASE SubmitPopped
    <3>1. popped \in Nodes
      BY <2>0, <2>5 DEF SubmitPopped
    <3> QED
      BY <2>0, <2>5, <3>1 DEF SubmitPopped, Submit, TypeOK
  <2>6. CASE \E n \in Nodes : Pop(n)
    BY <2>0, <2>6 DEF Pop, TypeOK
  <2>7. ASSUME NEW w \in Workers, Work(w)
        PROVE  /\ popped' \in Nodes \cup {NoNode}
               /\ readyQueue' \subseteq Nodes /\ blocked' \subseteq Nodes /\ pool' \subseteq Nodes
               /\ usage' \in Nat
    <3>1. CASE Release(w)
      <4>1. PICK used \in Nat : used = IF worker[w].node \in BrowserNodes /\ usage > 0
                                       THEN usage - 1 ELSE usage
        BY DEF TypeOK
      <4>2. DrainBlocked(used) /\ UNCHANGED <<popped, readyQueue>>
        BY <3>1, <4>1 DEF Release, DrainBlocked, mainVars
      <4> QED
        BY <2>0, <2>1, <4>2
    <3>2. CASE Push(w)
      <4>1. worker[w].ready \subseteq Nodes
        BY DEF TypeOK
      <4> QED
        BY <2>0, <3>2, <4>1 DEF Push, mainVars, dispatch, TypeOK
    <3>3. CASE Take(w) \/ StartTask(w) \/ EndTask(w) \/ CheckCanceled(w) \/ Complete(w) \/ Finish(w)
      BY <2>0, <3>3 DEF Take, StartTask, EndTask, CheckCanceled, Complete, Finish, mainVars,
         dispatch, TypeOK
    <3> QED
      BY <2>7, <3>1, <3>2, <3>3 DEF Work
  <2> QED
    BY <2>2, <2>3, <2>4, <2>5, <2>6, <2>7, StepKinds
<1> QED
  BY <1>1, <1>2, <1>3, <1>4, <1>5, <1>6 DEF TypeOK, WorkerRecord

-----------------------------------------------------------------------------
(* The log, the dispatcher's exit and the outcome.                         *)

(* A task is logged only when those it follows have been logged as done.   *)
LEMMA LogStep ==
  ASSUME TypeOK, PlacesSound, LogRespectsGraph, [Next]_vars
  PROVE  LogRespectsGraph'
<1>1. ASSUME log' = log
      PROVE  LogRespectsGraph'
  BY <1>1 DEF LogRespectsGraph
<1>2. CASE ControlStep
  BY <1>1, <1>2, ControlEffect DEF NothingMoves
<1>3. CASE BeginCanceled \/ CancelNodes \/ StartRun \/ UnblockFirst \/ SubmitPopped
           \/ \E n \in Nodes : Pop(n)
  BY <1>1, <1>3 DEF BeginCanceled, CancelNodes, StartRun, UnblockFirst, SubmitPopped, Pop
<1>4. ASSUME NEW w \in Workers, EndTask(w)
      PROVE  LogRespectsGraph'
  <2>1. PICK n : n = worker[w].node
    OBVIOUS
  <2>2. worker[w].at \in Working /\ worker[w].at \in Early
    BY <1>4 DEF EndTask, Working, Early
  <2>3. n \in Nodes /\ PredsSucceeded(nodeState, n) /\ ~ Logged(n)
    BY <2>1, <2>2, TaskMeaning
  <2>4. PICK e \in LogEntry : e.node = n /\ log' = Append(log, e)
    <3>1. PICK ok \in BOOLEAN : log' = Append(log, [node |-> n, ok |-> ok])
      BY <1>4, <2>1, ConcurrentConstants DEF EndTask
    <3> QED
      BY <2>3, <3>1 DEF LogEntry
  <2>5. /\ Len(log) \in Nat
        /\ DOMAIN log = 1..Len(log) /\ DOMAIN log' = 1..(Len(log) + 1)
        /\ \A i \in DOMAIN log : log'[i] = log[i]
        /\ log'[Len(log) + 1] = e
    BY <2>4, LogAppended
  <2>6. ASSUME NEW p \in Preds[n]
        PROVE  \E j \in DOMAIN log : log[j] = [node |-> p, ok |-> TRUE]
    <3>1. p \in Nodes /\ nodeState[p] = "SUCCEEDED"
      BY <2>3, PredsAreNodes DEF PredsSucceeded
    <3> QED
      BY <3>1 DEF PlacesSound, NodesSound, Recorded, InLog
  <2>7. \A j \in DOMAIN log : log[j].node # n
    BY <2>3 DEF Logged
  <2>8. ASSUME NEW i \in DOMAIN log', NEW j \in DOMAIN log', log'[j].node = log'[i].node
        PROVE  j = i
    BY <2>4, <2>5, <2>7, <2>8 DEF LogRespectsGraph
  <2>9. ASSUME NEW i \in DOMAIN log', NEW p \in Preds[log'[i].node]
        PROVE  \E j \in 1..(i - 1) : log'[j] = [node |-> p, ok |-> TRUE]
    <3>1. CASE i \in DOMAIN log
      <4>1. PICK j \in 1..(i - 1) : log[j] = [node |-> p, ok |-> TRUE]
        BY <2>5, <2>9, <3>1 DEF LogRespectsGraph
      <4>2. j \in DOMAIN log
        BY <2>5, <3>1, <4>1
      <4> QED
        BY <2>5, <4>1, <4>2
    <3>2. CASE i = Len(log) + 1
      <4>1. p \in Preds[n]
        BY <2>4, <2>5, <2>9, <3>2
      <4>2. PICK j \in DOMAIN log : log[j] = [node |-> p, ok |-> TRUE]
        BY <2>6, <4>1
      <4>3. i - 1 = Len(log)
        BY <2>5, <3>2
      <4>4. j \in 1..(i - 1)
        BY <2>5, <4>2, <4>3
      <4> QED
        BY <2>5, <4>2, <4>4
    <3>3. i \in 1..(Len(log) + 1) /\ DOMAIN log = 1..Len(log)
      BY <2>5
    <3>4. i \in DOMAIN log \/ i = Len(log) + 1
      BY <2>5, <3>3
    <3> QED
      BY <3>1, <3>2, <3>4
  <2> QED
    BY <2>8, <2>9 DEF LogRespectsGraph
<1>5. ASSUME NEW w \in Workers, Take(w) \/ StartTask(w) \/ Release(w) \/ CheckCanceled(w)
                                \/ Complete(w) \/ Push(w) \/ Finish(w)
      PROVE  LogRespectsGraph'
  BY <1>1, <1>5 DEF Take, StartTask, Release, CheckCanceled, Complete, Push, Finish
<1> QED
  BY <1>2, <1>3, <1>4, <1>5, StepKinds DEF Work

(* With nothing in flight, nothing blocked and nothing in the queue, no    *)
(* node is anywhere, and then every node is decided: otherwise one could   *)
(* act, and it would be somewhere.                                         *)
LEMMA NothingLeft ==
  ASSUME TypeOK, Object!IInv, PlacesSound, CountSound, PhaseSound,
         pc = "popping", popped = NoNode, readyQueue = {}, blocked = {}, inFlight = 0,
         ~ canceled
  PROVE  AllTerminal(nodeState)
<1>1. ~ draining
  BY DEF PhaseSound
<1>2. Cardinality(pool) = 0 /\ Cardinality(Busy) = 0
  BY <1>1, Countable DEF CountSound, InFlightExact
<1>3. pool = {} /\ Busy = {}
  BY <1>2, Countable, FS_EmptySet
<1>4. \A n \in Nodes : ~ Waiting(n)
  BY ConcurrentConstants DEF Waiting
<1>5. \A w \in Workers : worker[w].at = "idle"
  BY <1>3 DEF Busy
<1>6. \A n \in Nodes : ~ Pushed(n) /\ \A S \in SUBSET Working : ~ OnWorker(n, S)
  BY <1>5, StageSets DEF Pushed, Pushing, OnWorker
<1>7. \A n \in Nodes : ~ OnWorker(n, {"taken"}) /\ ~ OnWorker(n, {"running"} \cup Late)
  BY <1>6 DEF Working, Early
<1>8. \A n \in Nodes : nodeState[n] \notin {"READY", "DISPATCHED", "RUNNING", "RETRY_WAIT"}
  <2> SUFFICES ASSUME NEW n \in Nodes
               PROVE  nodeState[n] \notin {"READY", "DISPATCHED", "RUNNING", "RETRY_WAIT"}
    OBVIOUS
  <2>1. Placed(n)
    BY DEF PlacesSound, NodesSound
  <2> QED
    BY <1>1, <1>3, <1>4, <1>6, <1>7, <2>1 DEF Placed
<1>9. runState # "QUEUED"
  BY DEF PhaseSound
<1> QED
  BY <1>8, <1>9, ObjectMeaning DEF AllTerminal

(* The dispatcher leaves its loop only when nothing is in flight and all   *)
(* is decided.                                                             *)
LEMMA LeavesStep ==
  ASSUME TypeOK, Object!IInv, PlacesSound, CountSound, PhaseSound, LeavesWhenDecided,
         [Next]_vars
  PROVE  LeavesWhenDecided'
<1>1. StatesMove
  BY DecidedStays DEF PlacesSound
<1>2. AllTerminal(nodeState) => AllTerminal(nodeState')
  BY <1>1, DecidedForGood
<1>3. ASSUME pc' \in Leaving, ~ canceled', pc \notin Leaving
      PROVE  AllTerminal(nodeState')
  <2>1. CASE EndTurn
    BY <1>2, <1>3, <2>1, NothingLeft DEF EndTurn, Leaving, cancelVars
  <2>2. CASE BreakOrGoOn \/ BeginCanceled
    BY <1>3, <2>2 DEF BreakOrGoOn, BeginCanceled, Leaving, cancelVars
  <2>3. CASE Begin \/ Lock \/ Test \/ FallAsleep \/ Drain \/ Return \/ Report \/ CancelFlag
             \/ CancelNotify \/ UNCHANGED vars
    BY <1>3, <2>3 DEF Begin, Lock, Test, FallAsleep, Drain, Return, Report, CancelFlag,
       CancelNotify, Notify, vars, mainVars, Leaving, TypeOK
  <2>4. CASE CancelNodes \/ StartRun \/ UnblockFirst \/ SubmitPopped \/ \E n \in Nodes : Pop(n)
    BY <1>3, <2>4 DEF CancelNodes, StartRun, UnblockFirst, SubmitPopped, Pop, mainVars, Leaving
  <2>5. CASE \E w \in Workers : Work(w)
    BY <1>3, <2>5 DEF Work, Take, StartTask, EndTask, Release, CheckCanceled, Complete, Push,
       Finish, Notify, mainVars, Leaving
  <2> QED
    BY <2>1, <2>2, <2>3, <2>4, <2>5, StepKinds DEF ControlStep
<1>4. canceled => canceled'
  <2>1. CASE ControlStep
    BY <2>1, ControlEffect
  <2>2. CASE BeginCanceled \/ CancelNodes \/ StartRun \/ UnblockFirst \/ SubmitPopped
             \/ \E n \in Nodes : Pop(n)
    BY <2>2 DEF BeginCanceled, CancelNodes, StartRun, UnblockFirst, SubmitPopped, Pop, cancelVars
  <2>3. CASE \E w \in Workers : Work(w)
    BY <2>3 DEF Work, Take, StartTask, EndTask, Release, CheckCanceled, Complete, Push, Finish,
       cancelVars
  <2> QED
    BY <2>1, <2>2, <2>3, StepKinds
<1>5. (pc' \in Leaving /\ ~ canceled') => AllTerminal(nodeState')
  <2>1. CASE pc \in Leaving /\ ~ canceled
    BY <1>2, <2>1 DEF LeavesWhenDecided, Leaving
  <2> QED
    BY <1>3, <1>4, <2>1
<1> QED
  BY <1>5 DEF LeavesWhenDecided, Leaving

(* The machine starts as SchedulerState does.                              *)
LEMMA MachineStarts ==
  Init => Object!Init
<1> SUFFICES ASSUME Init
             PROVE  Object!Init
  OBVIOUS
<1>1. \A n \in Nodes : nodeState[n] = "BLOCKED"
  BY DEF Init
<1>2. \A n \in Nodes : UnmetDeps(nodeState, n) = Cardinality(Preds[n])
  BY <1>1, PredsAreNodes DEF UnmetDeps
<1>3. {n \in Nodes : nodeState[n] \in Decided} = {}
  BY <1>1 DEF Decided
<1>4. \A S : Object!Cardinality(S) = Cardinality(S)
  BY DEF Object!Cardinality, Cardinality
<1> QED
  BY <1>2, <1>3, <1>4 DEF Init, Object!Init

(* The run is submitted and no thread has begun.                           *)
LEMMA IInvInit ==
  Init => IInv
<1> SUFFICES ASSUME Init
             PROVE  IInv
  OBVIOUS
<1>1. Object!IInv
  <2>1. Object!Init
    BY MachineStarts
  <2>2. Object!IsFiniteSet(Nodes)
    BY NodesFinite DEF Object!IsFiniteSet, IsFiniteSet
  <2> QED
    BY <2>1, <2>2, PredsAreNodes, Acyclic, Object!InitEstablishesIInv
<1>2. worker \in [Workers -> WorkerRecord] /\ \A w \in Workers : worker[w] = Idle
  BY IdleRecord DEF Init
<1>3. TypeOK
  <2>1. log \in Seq(LogEntry)
    BY DEF Init
  <2> QED
    BY <1>2, <2>1 DEF Init, TypeOK, WorkerRecord, RunStates, NodeStates
<1>4. /\ \A n \in Nodes : ~ Waiting(n) /\ ~ Pushed(n) /\ ~ Logged(n)
      /\ \A n \in Nodes : \A S \in SUBSET Working : ~ OnWorker(n, S)
  <2>1. DOMAIN log = {} /\ blocked = {} /\ popped \notin Nodes
    BY ConcurrentConstants DEF Init
  <2> QED
    BY <1>2, <2>1, IdleRecord, StageSets DEF Waiting, Pushed, Pushing, Logged, OnWorker
<1>5. WorkersSound
  BY <1>2, IdleRecord, StageSets DEF WorkersSound, Pushing, Working
<1>6. NodesSound
  <2> SUFFICES ASSUME NEW n \in Nodes
               PROVE  TakenUp(n) /\ Placed(n) /\ Recorded(n)
    BY DEF NodesSound
  <2>1. nodeState[n] = "BLOCKED" /\ pool = {} /\ readyQueue = {}
    BY DEF Init
  <2>2. /\ ~ OnWorker(n, Early) /\ ~ OnWorker(n, {"taken"})
        /\ ~ OnWorker(n, {"running"} \cup Late)
    BY <1>4 DEF Working, Early
  <2>3. Fresh(n)
    BY <1>4, <2>1, <2>2 DEF Fresh
  <2>4. TakenUp(n) /\ Placed(n)
    BY <1>4, <2>1, <2>2, <2>3 DEF TakenUp, Placed
  <2>5. Recorded(n)
    BY <1>4, <2>1 DEF Recorded, Logged
  <2> QED
    BY <2>4, <2>5
<1>7. SessionSound
  <2>1. \A n \in Nodes : ~ HasSession(n)
    <3>1. {"taken", "running", "ran"} \in SUBSET Working
      BY DEF Working, Early, Late
    <3> QED
      BY <1>4, <3>1 DEF HasSession, Waiting, Init
  <2> QED
    BY <2>1 DEF SessionSound, Init
<1>8. CountSound
  <2>1. Busy = {}
    BY <1>2, IdleRecord DEF Busy
  <2>2. Cardinality(pool) = 0 /\ Cardinality(Busy) = 0
    BY <2>1, FS_EmptySet DEF Init
  <2> QED
    BY <2>2 DEF CountSound, InFlightExact, Init
<1>9. PhaseSound
  BY DEF PhaseSound, Init
<1>10. LogRespectsGraph /\ LeavesWhenDecided
  BY DEF LogRespectsGraph, LeavesWhenDecided, Init
<1> QED
  BY <1>1, <1>3, <1>5, <1>6, <1>7, <1>8, <1>9, <1>10 DEF IInv

(* Every step, of any thread, keeps the invariant.                         *)
LEMMA IInvStep ==
  IInv /\ [Next]_vars => IInv'
<1> SUFFICES ASSUME IInv, [Next]_vars
             PROVE  IInv'
  OBVIOUS
<1>1. /\ TypeOK /\ Object!IInv /\ PlacesSound /\ CountSound /\ PhaseSound
      /\ LogRespectsGraph /\ LeavesWhenDecided
  BY DEF IInv, PlacesSound
<1>2. TypeOK' /\ CountSound'
  BY <1>1, TypeStep, CountStep
<1>3. Object!IInv'
  BY <1>1, StepSimulated, ObjectKept DEF PlacesSound
<1>4. PlacesSound' /\ LogRespectsGraph'
  BY <1>1, PlacesStep, LogStep
<1>5. PhaseSound' /\ LeavesWhenDecided'
  BY <1>1, PhaseStep, LeavesStep DEF PlacesSound
<1> QED
  BY <1>2, <1>3, <1>4, <1>5 DEF IInv, PlacesSound

(* The invariant holds in every reachable state.                           *)
LEMMA Invariance == Spec => []IInv
<1>1. Init => IInv
  BY IInvInit
<1>2. IInv /\ [Next]_vars => IInv'
  BY IInvStep
<1> QED
  BY <1>1, <1>2, PTL DEF Spec

(* Once the nodes are decided and nothing was canceled, what the log says  *)
(* of all tasks together is what the nodes say.                            *)
LEMMA LogTellsOutcome ==
  ASSUME IInv, Nodes # {}, AllTerminal(nodeState), ~ canceled
  PROVE  /\ AllOk <=> \A n \in Nodes : nodeState[n] = "SUCCEEDED"
         /\ Outcome(nodeState) = IF AllOk THEN "SUCCEEDED" ELSE "FAILED"
<1>1. ASSUME NEW n \in Nodes
      PROVE  /\ nodeState[n] \in {"SUCCEEDED", "FAILED", "CANCELED"}
             /\ nodeState[n] = "SUCCEEDED" => InLog(n, TRUE)
             /\ nodeState[n] = "FAILED" => InLog(n, FALSE)
             /\ nodeState[n] = "CANCELED" => \E m \in Nodes : nodeState[m] = "FAILED"
             /\ \A i \in DOMAIN log : log[i].node = n =>
                  OnWorker(n, Late) \/ nodeState[n] = IF log[i].ok THEN "SUCCEEDED" ELSE "FAILED"
             /\ OnWorker(n, {"running"} \cup Late) => nodeState[n] \in {"RUNNING", "CANCELED"}
             /\ nodeState[n] = "CANCELED" => Fresh(n)
  <2>1. TakenUp(n) /\ Placed(n) /\ Recorded(n)
    BY DEF IInv, NodesSound
  <2>2. nodeState[n] \in Terminal
    BY DEF AllTerminal, Open
  <2> QED
    BY <2>1, <2>2 DEF TakenUp, Placed, Recorded, Terminal, Unsuccessful
<1>2. log \in Seq(LogEntry)
  BY DEF IInv, TypeOK
<1>3. \A i \in DOMAIN log : log[i].node \in Nodes /\ log[i].ok \in BOOLEAN
  <2>1. \A i \in 1..Len(log) : log[i] \in LogEntry
    BY <1>2, ElementOfSeq
  <2> QED
    BY <1>2, <2>1, LenProperties DEF LogEntry
<1>4. ASSUME \A n \in Nodes : nodeState[n] = "SUCCEEDED"
      PROVE  AllOk
  <2>1. log # <<>>
    BY <1>1, <1>4 DEF InLog
  <2>2. ASSUME NEW i \in DOMAIN log
        PROVE  log[i].ok
    <3>1. PICK n \in Nodes : n = log[i].node
      BY <1>3
    <3>2. ~ OnWorker(n, {"running"} \cup Late)
      BY <1>1, <1>4
    <3>3. ~ OnWorker(n, Late)
      BY <3>2 DEF OnWorker
    <3> QED
      BY <1>1, <1>3, <1>4, <3>1, <3>3
  <2> QED
    BY <2>1, <2>2 DEF AllOk
<1>5. ASSUME ~ \A n \in Nodes : nodeState[n] = "SUCCEEDED"
      PROVE  ~ AllOk /\ \E m \in Nodes : nodeState[m] = "FAILED"
  <2>1. PICK m \in Nodes : nodeState[m] = "FAILED"
    BY <1>1, <1>5
  <2>2. PICK i \in DOMAIN log : log[i] = [node |-> m, ok |-> FALSE]
    BY <1>1, <2>1 DEF InLog
  <2>3. ~ log[i].ok
    BY <2>2
  <2> QED
    BY <2>1, <2>3 DEF AllOk
<1>6. CASE \A n \in Nodes : nodeState[n] = "SUCCEEDED"
  BY <1>4, <1>6 DEF Outcome
<1>7. CASE ~ \A n \in Nodes : nodeState[n] = "SUCCEEDED"
  BY <1>5, <1>7 DEF Outcome
<1> QED
  BY <1>6, <1>7

(* What the run reports is what became of its nodes, when it has any.      *)
LEMMA OutcomeStep ==
  ASSUME Nodes # {}, IInv, OutcomeMatchesNodes, [Next]_vars
  PROVE  OutcomeMatchesNodes'
<1>1. TypeOK /\ WorkersSound /\ PhaseSound /\ LeavesWhenDecided
  BY DEF IInv
<1>2. PhaseSound'
  BY IInvStep DEF IInv
<1>3. SUFFICES ASSUME outcome' # "none", ~ canceled'
               PROVE  /\ outcome' = runState'
                      /\ (outcome' = "SUCCEEDED") = (\A n \in Nodes : nodeState'[n] = "SUCCEEDED")
  BY DEF OutcomeMatchesNodes
<1>4. pc' = "returned" /\ runState' = Outcome(nodeState')
  BY <1>2, <1>3 DEF PhaseSound
<1>5. CASE outcome = "none"
  <2>1. Report
    <3>1. CASE ControlStep
      BY <1>3, <1>5, <3>1 DEF ControlStep, Begin, Lock, Test, FallAsleep, BreakOrGoOn, EndTurn,
         Drain, Return, CancelFlag, CancelNotify, vars
    <3>2. CASE BeginCanceled \/ CancelNodes \/ StartRun \/ UnblockFirst \/ SubmitPopped
               \/ \E n \in Nodes : Pop(n)
      BY <1>3, <1>5, <3>2 DEF BeginCanceled, CancelNodes, StartRun, UnblockFirst, SubmitPopped,
         Pop
    <3>3. CASE \E w \in Workers : Work(w)
      <4>1. outcome' = outcome
        BY <3>3 DEF Work, Take, StartTask, EndTask, Release, CheckCanceled, Complete, Push,
           Finish
      <4> QED
        BY <1>3, <1>5, <4>1
    <3> QED
      BY <3>1, <3>2, <3>3, StepKinds
  <2>2. /\ pc = "returned" /\ ~ canceled /\ UNCHANGED <<nodeState, runState>>
        /\ outcome' = IF AllOk THEN "SUCCEEDED" ELSE "FAILED"
    BY <1>3, <2>1 DEF Report, machine, cancelVars
  <2>3. AllTerminal(nodeState)
    BY <1>1, <2>2 DEF LeavesWhenDecided
  <2>4. /\ AllOk <=> \A n \in Nodes : nodeState[n] = "SUCCEEDED"
        /\ Outcome(nodeState) = IF AllOk THEN "SUCCEEDED" ELSE "FAILED"
    BY <2>2, <2>3, LogTellsOutcome
  <2>5. outcome' = runState'
    BY <1>4, <2>2, <2>4
  <2>6. CASE AllOk
    BY <2>2, <2>4, <2>5, <2>6
  <2>7. CASE ~ AllOk
    BY <2>2, <2>4, <2>5, <2>7
  <2> QED
    BY <2>6, <2>7
<1>6. CASE outcome # "none"
  <2>1. ~ canceled /\ outcome' = outcome
    <3>1. CASE ControlStep
      BY <1>3, <1>6, <3>1, <1>1 DEF ControlStep, Begin, Lock, Test, FallAsleep, BreakOrGoOn,
         EndTurn, Drain, Return, Report, CancelFlag, CancelNotify, vars, cancelVars, TypeOK
    <3>2. CASE BeginCanceled \/ CancelNodes \/ StartRun \/ UnblockFirst \/ SubmitPopped
               \/ \E n \in Nodes : Pop(n)
      BY <1>3, <3>2 DEF BeginCanceled, CancelNodes, StartRun, UnblockFirst, SubmitPopped, Pop,
         cancelVars
    <3>3. CASE \E w \in Workers : Work(w)
      <4>1. outcome' = outcome /\ canceled' = canceled
        BY <3>3 DEF Work, Take, StartTask, EndTask, Release, CheckCanceled, Complete, Push,
           Finish, cancelVars
      <4> QED
        BY <1>3, <4>1
    <3> QED
      BY <3>1, <3>2, <3>3, StepKinds
  <2>2. pc = "returned" /\ runState = Outcome(nodeState)
    BY <1>1, <1>6, <2>1 DEF PhaseSound
  <2>3. nodeState' = nodeState
    BY <1>1, <2>1, <2>2, DecidedStays, DecidedForGood DEF LeavesWhenDecided
  <2>4. runState' = runState
    BY <1>4, <2>2, <2>3
  <2> QED
    BY <1>6, <2>1, <2>3, <2>4 DEF OutcomeMatchesNodes
<1> QED
  BY <1>5, <1>6

-----------------------------------------------------------------------------
(* The theorems.                                                           *)

(* The variables keep the types they stand for; in_flight_ never goes      *)
(* below zero.                                                             *)
THEOREM TypeCorrect == Spec => []TypeOK
<1>1. IInv => TypeOK
  BY DEF IInv
<1> QED
  BY <1>1, Invariance, PTL

(* in_flight_ is exactly the number of tasks submitted and not finished,   *)
(* until the pool starts to refuse them: the dispatcher neither leaves     *)
(* early nor waits for work that no longer exists.                         *)
THEOREM CounterIsExact == Spec => []InFlightExact
<1>1. IInv => InFlightExact
  BY DEF IInv, CountSound
<1> QED
  BY <1>1, Invariance, PTL

(* A set without two different elements has at most one.                   *)
LEMMA AtMostOne ==
  ASSUME NEW S, \A v, w \in S : v = w
  PROVE  Cardinality(S) <= 1
<1>1. CASE S = {}
  BY <1>1, FS_EmptySet
<1>2. CASE S # {}
  <2>1. PICK w : w \in S
    BY <1>2
  <2>2. S = {w}
    BY <2>1
  <2>3. Cardinality({w}) = 1
    BY FS_Singleton
  <2> QED
    BY <2>2, <2>3
<1> QED
  BY <1>1, <1>2

(* Two browser nodes never run at the same time, whoever hands the session *)
(* on and in whichever order the workers finish.                           *)
THEOREM SessionIsExclusive == Spec => []BrowserExclusive
<1>1. IInv => BrowserExclusive
  <2> SUFFICES ASSUME IInv
               PROVE  BrowserExclusive
    OBVIOUS
  <2> DEFINE H == {w \in Workers : /\ worker[w].at \in {"taken", "running", "ran"}
                                   /\ worker[w].node \in BrowserNodes}
  <2>1. ASSUME NEW w \in H, NEW v \in H
        PROVE  v = w
    <3>1. \A u \in H : worker[u].node \in Nodes /\ HasSession(worker[u].node)
      BY ConcurrentConstants DEF HasSession, OnWorker
    <3>2. worker[v].node = worker[w].node
      BY <3>1 DEF IInv, SessionSound
    <3>3. worker[w].at \in Early \cup Late /\ worker[v].at \in Early \cup Late
      BY DEF Early, Late
    <3> QED
      BY <3>2, <3>3 DEF IInv, WorkersSound
  <2>2. \A w, v \in H : v = w
    BY <2>1
  <2> HIDE DEF H
  <2>3. Cardinality(H) <= 1
    BY <2>2, AtMostOne
  <2> USE DEF H
  <2> QED
    BY <2>3 DEF BrowserExclusive
<1> QED
  BY <1>1, Invariance, PTL

(* A task runs at most once, and only after the tasks of all predecessors  *)
(* of its node have completed.                                             *)
THEOREM TasksFollowTheGraph == Spec => []LogRespectsGraph
<1>1. IInv => LogRespectsGraph
  BY DEF IInv
<1> QED
  BY <1>1, Invariance, PTL

(* run() leaves its loop without a cancellation only when every node is    *)
(* decided.                                                                *)
THEOREM LeavesOnlyWhenDecided == Spec => []LeavesWhenDecided
<1>1. IInv => LeavesWhenDecided
  BY DEF IInv
<1> QED
  BY <1>1, Invariance, PTL

(* The outcome submit_local computes from the log is the run state that    *)
(* finalize_run computes from the nodes. A run has a node: for a graph     *)
(* without any the log is empty and the two differ.                        *)
THEOREM ReportIsTrue == Nodes # {} => (Spec => []OutcomeMatchesNodes)
<1> SUFFICES ASSUME Nodes # {}
             PROVE  Spec => []OutcomeMatchesNodes
  OBVIOUS
<1>1. Init => OutcomeMatchesNodes
  BY DEF Init, OutcomeMatchesNodes
<1>2. IInv /\ OutcomeMatchesNodes /\ [Next]_vars => OutcomeMatchesNodes'
  BY OutcomeStep
<1> QED
  BY <1>1, <1>2, Invariance, PTL DEF Spec

(* The threads use the state machine of SchedulerState as it is meant to   *)
(* be used: every step of theirs is one of its steps or leaves it alone.   *)
THEOREM ThreadsDriveTheMachine == Spec => ImplementsMachine
<1>1. Init => Machine!Init
  BY MachineStarts, SameMachine
<1>2. IInv /\ [Next]_vars => [Machine!Next]_(Machine!vars)
  <2> SUFFICES ASSUME IInv, [Next]_vars
               PROVE  Machine!Next \/ UNCHANGED Machine!vars
    OBVIOUS
  <2>1. Object!Next \/ UNCHANGED Object!vars
    BY StepSimulated DEF IInv
  <2>2. UNCHANGED Object!vars => UNCHANGED Machine!vars
    BY DEF Object!vars, Machine!vars
  <2> QED
    BY <2>1, <2>2, SameMachine
<1> QED
  BY <1>1, <1>2, Invariance, PTL DEF Spec, ImplementsMachine, Machine!Spec

=============================================================================
