--------------------------- MODULE SchedulerState ---------------------------
(***************************************************************************)
(* The logical state machine of one run (engine/core/src/state_machine.cpp)*)
(* as its two drivers use it, the distributed run loop and the in-process  *)
(* concurrent scheduler. A method holds mu_ for its whole body, so a call  *)
(* is one step; the drivers may call in any order their threads produce,   *)
(* so Next lets every method be called whenever its own early returns do   *)
(* not make it a no-op. results_ and failure_reasons_ are data nobody      *)
(* branches on and are left out.                                           *)
(***************************************************************************)
EXTENDS RunGraph

VARIABLES
  runState,    \* run_state_
  nodeState,   \* node_states_
  depCount,    \* dep_counts_: predecessors that have not succeeded yet
  completed    \* completed_: nodes whose success or failure is recorded

vars == <<runState, nodeState, depCount, completed>>

-----------------------------------------------------------------------------
(* The constructor.                                                        *)

Init ==
  /\ runState = "QUEUED"
  /\ nodeState = [n \in Nodes |-> "BLOCKED"]
  /\ depCount = [n \in Nodes |-> Cardinality(Preds[n])]
  /\ completed = {}

(* The process that owned the object is gone; the next one constructs its  *)
(* own.                                                                    *)
Restart ==
  /\ runState' = "QUEUED"
  /\ nodeState' = [n \in Nodes |-> "BLOCKED"]
  /\ depCount' = [n \in Nodes |-> Cardinality(Preds[n])]
  /\ completed' = {}

StartRun ==
  /\ runState = "QUEUED"
  /\ runState' = "RUNNING"
  /\ nodeState' =
       [n \in Nodes |-> IF depCount[n] = 0 THEN "READY" ELSE nodeState[n]]
  /\ UNCHANGED <<depCount, completed>>

(* Slips of reconstruct, for the mutants.                                  *)
ReconstructKeepingCounts(rows) ==   \* the counters of the constructor stay
  /\ RowsCoherent(rows)
  /\ runState' = "RUNNING"
  /\ nodeState' = Restore(rows)
  /\ completed' = {n \in Nodes : nodeState'[n] \in Decided}
  /\ UNCHANGED depCount

ReconstructForgettingDeadLetters(rows) ==   \* completed_ gets FAILED, not DEAD_LETTERED
  /\ RowsCoherent(rows)
  /\ runState' = "RUNNING"
  /\ nodeState' = Restore(rows)
  /\ depCount' = [n \in Nodes |-> UnmetDeps(nodeState', n)]
  /\ completed' = {n \in Nodes : nodeState'[n] \in {"SUCCEEDED", "FAILED"}}

(* reconstruct(rows).                                                      *)
Reconstruct(rows) ==
  /\ RowsCoherent(rows)
  /\ runState' = "RUNNING"
  /\ nodeState' = Restore(rows)
  /\ depCount' = [n \in Nodes |-> UnmetDeps(nodeState', n)]
  /\ completed' = {n \in Nodes : nodeState'[n] \in Decided}

(* A resuming run loop calls it on a fresh object.                         *)
Resume ==
  /\ runState = "QUEUED"
  /\ \E rows \in [Nodes -> RowStatus] : Reconstruct(rows)

-----------------------------------------------------------------------------
(* A node's way through an attempt.                                        *)

DispatchNode(n) ==
  /\ nodeState[n] = "READY"
  /\ nodeState' = [nodeState EXCEPT ![n] = "DISPATCHED"]
  /\ UNCHANGED <<runState, depCount, completed>>

StartNode(n) ==
  /\ nodeState[n] = "DISPATCHED"
  /\ nodeState' = [nodeState EXCEPT ![n] = "RUNNING"]
  /\ UNCHANGED <<runState, depCount, completed>>

(* dispatch_node and start_node called back to back, as dispatch_ready of  *)
(* the distributed loop does.                                              *)
LaunchNode(n) ==
  /\ nodeState[n] = "READY"
  /\ nodeState' = [nodeState EXCEPT ![n] = "RUNNING"]
  /\ UNCHANGED <<runState, depCount, completed>>

(* Slips of complete_node, for the mutants.                                *)
CompleteSuccessReadyingEarly(n) ==   \* readies a successor whatever its counter
  /\ n \notin completed
  /\ nodeState[n] = "RUNNING"
  /\ completed' = completed \cup {n}
  /\ depCount' =
       [m \in Nodes |-> IF m \in Succs(n) /\ depCount[m] > 0
                        THEN depCount[m] - 1 ELSE depCount[m]]
  /\ nodeState' =
       [m \in Nodes |->
          IF m = n THEN "SUCCEEDED"
          ELSE IF m \in Succs(n) /\ nodeState[m] = "BLOCKED"
          THEN "READY" ELSE nodeState[m]]
  /\ UNCHANGED runState

CompleteSuccessTestingOldCount(n) ==   \* compares the counter before the decrement
  /\ n \notin completed
  /\ nodeState[n] = "RUNNING"
  /\ completed' = completed \cup {n}
  /\ depCount' =
       [m \in Nodes |-> IF m \in Succs(n) /\ depCount[m] > 0
                        THEN depCount[m] - 1 ELSE depCount[m]]
  /\ nodeState' =
       [m \in Nodes |->
          IF m = n THEN "SUCCEEDED"
          ELSE IF m \in Succs(n) /\ depCount[m] = 0 /\ nodeState[m] = "BLOCKED"
          THEN "READY" ELSE nodeState[m]]
  /\ UNCHANGED runState

CompleteSuccess(n) ==
  /\ n \notin completed
  /\ nodeState[n] = "RUNNING"
  /\ completed' = completed \cup {n}
  /\ depCount' =
       [m \in Nodes |-> IF m \in Succs(n) /\ depCount[m] > 0
                        THEN depCount[m] - 1 ELSE depCount[m]]
  /\ nodeState' =
       [m \in Nodes |->
          IF m = n THEN "SUCCEEDED"
          ELSE IF m \in Succs(n) /\ depCount'[m] = 0 /\ nodeState[m] = "BLOCKED"
          THEN "READY" ELSE nodeState[m]]
  /\ UNCHANGED runState

CompleteFailure(n) ==
  /\ n \notin completed
  /\ nodeState[n] = "RUNNING"
  /\ completed' = completed \cup {n}
  /\ nodeState' = Fail(nodeState, n, "FAILED")
  /\ UNCHANGED <<runState, depCount>>

(* fail_node and dead_letter_node look only at completed_: a driver calls  *)
(* them for a node of a run it has started, whatever that node's state.    *)
FailNode(n) ==
  /\ runState # "QUEUED"
  /\ n \notin completed
  /\ completed' = completed \cup {n}
  /\ nodeState' = Fail(nodeState, n, "FAILED")
  /\ UNCHANGED <<runState, depCount>>

DeadLetterNode(n) ==
  /\ runState # "QUEUED"
  /\ n \notin completed
  /\ completed' = completed \cup {n}
  /\ nodeState' = Fail(nodeState, n, "DEAD_LETTERED")
  /\ UNCHANGED <<runState, depCount>>

AbandonNode(n) ==
  /\ nodeState[n] \in InFlight
  /\ nodeState' = [nodeState EXCEPT ![n] = "READY"]
  /\ UNCHANGED <<runState, depCount, completed>>

RetryWaitNode(n) ==
  /\ nodeState[n] = "RUNNING"
  /\ nodeState' = [nodeState EXCEPT ![n] = "RETRY_WAIT"]
  /\ UNCHANGED <<runState, depCount, completed>>

ReadyFromRetry(n) ==
  /\ nodeState[n] = "RETRY_WAIT"
  /\ nodeState' = [nodeState EXCEPT ![n] = "READY"]
  /\ UNCHANGED <<runState, depCount, completed>>

-----------------------------------------------------------------------------
(* The run.                                                                *)

CancelRun ==
  /\ runState' = "CANCELED"
  /\ nodeState' = CancelOpen(nodeState)
  /\ UNCHANGED <<depCount, completed>>

(* The method's own guard is runState \notin RunTerminal; no driver calls   *)
(* it before start_run or reconstruct.                                     *)
FinalizeRun ==
  /\ runState = "RUNNING"
  /\ runState' = Outcome(nodeState)
  /\ UNCHANGED <<nodeState, depCount, completed>>

Attempt(n) ==
  \/ DispatchNode(n)
  \/ StartNode(n)
  \/ LaunchNode(n)
  \/ CompleteSuccess(n)
  \/ CompleteFailure(n)
  \/ FailNode(n)
  \/ DeadLetterNode(n)
  \/ AbandonNode(n)
  \/ RetryWaitNode(n)
  \/ ReadyFromRetry(n)

Next ==
  \/ StartRun
  \/ Resume
  \/ Restart
  \/ \E n \in Nodes : Attempt(n)
  \/ CancelRun
  \/ FinalizeRun

Spec == Init /\ [][Next]_vars

-----------------------------------------------------------------------------
(* Properties.                                                             *)

(* The variables hold values of the C++ types they stand for.              *)
TypeOK ==
  /\ runState \in RunStates
  /\ nodeState \in [Nodes -> NodeStates]
  /\ depCount \in [Nodes -> Nat]
  /\ completed \in SUBSET Nodes

(* Every dependency counter equals the number of predecessors that have    *)
(* not succeeded: complete_node decrements each successor once and only    *)
(* once, and reconstruct re-derives the same number from the rows          *)
(* (state_machine.cpp:212-223, 157-165).                                   *)
DepCountExact ==
  \A n \in Nodes : depCount[n] = UnmetDeps(nodeState, n)

(* No node becomes ready, runs, waits for a retry or succeeds before all   *)
(* its predecessors have succeeded, whatever failures, retries, lease      *)
(* reaps and restarts came before.                                         *)
PredecessorsFirst ==
  \A n \in Nodes :
    nodeState[n] \in {"READY", "DISPATCHED", "RUNNING", "RETRY_WAIT", "SUCCEEDED"} =>
      PredsSucceeded(nodeState, n)

(* Whatever the editor offers a node as upstream has produced its output   *)
(* by the time the node is ready, at any distance in the graph: "anything  *)
(* listed here has produced its output by the time the selected node runs" *)
(* (use-upstream-connections.ts:24-26).                                    *)
UpstreamProduced ==
  \A n \in Nodes :
    nodeState[n] \in {"READY", "DISPATCHED", "RUNNING", "RETRY_WAIT", "SUCCEEDED"} =>
      \A a \in Upstream(n) : nodeState[a] = "SUCCEEDED"

(* Nothing downstream of a failed, dead-lettered or canceled node is left  *)
(* able to run: mark_canceled_transitive reaches all of it although it     *)
(* turns back at terminal nodes.                                           *)
FailureClosed ==
  \A n \in Nodes : \A p \in Preds[n] :
    nodeState[p] \in Unsuccessful => nodeState[n] \in Unsuccessful

(* completed_ holds exactly the nodes whose success or failure is recorded *)
(* in their state, so the idempotence test of complete_node, fail_node and *)
(* dead_letter_node never refuses an open node nor lets a decided one be   *)
(* decided again.                                                          *)
CompletedExact == completed = {n \in Nodes : nodeState[n] \in Decided}

(* A started run is never stuck in the machine: while a node is open, some *)
(* node is ready, in flight or parked for a retry, so a driver always has  *)
(* a call that moves the run forward.                                      *)
NeverStuck ==
  (runState # "QUEUED" /\ Open(nodeState) # {}) =>
    \E n \in Nodes : nodeState[n] \in {"READY", "DISPATCHED", "RUNNING", "RETRY_WAIT"}

(* The outcome of a finished run is that of its nodes: SUCCEEDED only when *)
(* all of them succeeded, FAILED only when one failed for good; no later   *)
(* call on a node takes that back.                                         *)
OutcomeHonest ==
  /\ runState = "SUCCEEDED" => \A n \in Nodes : nodeState[n] = "SUCCEEDED"
  /\ runState = "FAILED" => \E n \in Nodes : nodeState[n] \in {"FAILED", "DEAD_LETTERED"}

(* Within one process a decided node stays as it was decided; only a new   *)
(* process (Restart) starts from a clean object.                           *)
DecidedStays ==
  [][\A n \in Nodes : nodeState[n] \in Decided =>
       nodeState'[n] = nodeState[n] \/ runState' = "QUEUED"]_vars

=============================================================================
