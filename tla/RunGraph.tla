------------------------------ MODULE RunGraph ------------------------------
(***************************************************************************)
(* The workflow graph of one run and the pure functions of the scheduler   *)
(* that read it: what a node's completion, failure or cancellation does to *)
(* the states of the other nodes, what a restarted scheduler makes of the  *)
(* persisted node rows, and which outcome the nodes give the run           *)
(* (engine/core/src/dag.cpp, engine/core/src/state_machine.cpp).           *)
(*                                                                         *)
(* SchedulerState keeps these states in variables of its own, with the     *)
(* dependency counters of the code; DistributedRun keeps them beside the   *)
(* durable rows, the message streams and the workers.                      *)
(***************************************************************************)
EXTENDS Naturals, FiniteSets

CONSTANTS
  Nodes,   \* the node ids of the run's DAG
  Preds    \* Preds[n]: the nodes with an edge into n

ASSUME NodesFinite == IsFiniteSet(Nodes)

ASSUME PredsAreNodes == Preds \in [Nodes -> SUBSET Nodes]

(***************************************************************************)
(* Dag::build refuses a graph Kahn's algorithm cannot consume: every       *)
(* non-empty set of nodes has one without a predecessor in the set.        *)
(***************************************************************************)
ASSUME Acyclic ==
  \A S \in SUBSET Nodes : S # {} => \E n \in S : Preds[n] \cap S = {}

Succs(n) == {m \in Nodes : n \in Preds[m]}

\* The nodes whose outputs the editor offers to n: the walk up the incoming edges
\* (use-upstream-connections.ts) collects the least set closed under predecessors.
UpClosed(n, S) == Preds[n] \subseteq S /\ \A m \in S : Preds[m] \subseteq S

Upstream(n) == {a \in Nodes : \A S \in SUBSET Nodes : UpClosed(n, S) => a \in S}

-----------------------------------------------------------------------------
(* Logical node states and the run states (state_machine.hpp).             *)

NodeStates ==
  {"BLOCKED", "READY", "DISPATCHED", "RUNNING", "RETRY_WAIT",
   "SUCCEEDED", "FAILED", "DEAD_LETTERED", "CANCELED"}

Unsuccessful == {"FAILED", "DEAD_LETTERED", "CANCELED"}

Terminal == Unsuccessful \cup {"SUCCEEDED"}

Decided == {"SUCCEEDED", "FAILED", "DEAD_LETTERED"}   \* the set completed_

InFlight == {"DISPATCHED", "RUNNING"}

RunStates == {"QUEUED", "RUNNING", "SUCCEEDED", "FAILED", "CANCELED"}

RunTerminal == {"SUCCEEDED", "FAILED", "CANCELED"}

Open(st) == {n \in Nodes : st[n] \notin Terminal}

AllTerminal(st) == Open(st) = {}

PredsSucceeded(st, n) == \A p \in Preds[n] : st[p] = "SUCCEEDED"

UnmetDeps(st, n) == Cardinality({p \in Preds[n] : st[p] # "SUCCEEDED"})

-----------------------------------------------------------------------------
(* The walk of mark_canceled_transitive from n: it enters the successors   *)
(* that are not terminal, cancels them and goes on from each, and turns    *)
(* back at a terminal one. What it cancels is the least set closed under   *)
(* those steps.                                                            *)

WalkClosed(st, n, S) ==
  \A m \in Open(st) : (n \in Preds[m] \/ Preds[m] \cap S # {}) => m \in S

Downstream(st, n) ==
  {m \in Open(st) : \A S \in SUBSET Nodes : WalkClosed(st, n, S) => m \in S}

(* Slips (a mutant puts each in the place of the definition that follows). *)
FailDirectOnly(st, n, how) ==          \* cancels the direct successors only
  LET failed == [st EXCEPT ![n] = how]
  IN  [m \in Nodes |-> IF m \in Open(failed) \cap Succs(n)
                       THEN "CANCELED" ELSE failed[m]]

OutcomeIgnoringOpen(st) ==             \* any_nonterminal forgotten
  IF \E n \in Nodes : st[n] \in {"FAILED", "DEAD_LETTERED"} THEN "FAILED"
  ELSE IF \E n \in Nodes : st[n] = "CANCELED" THEN "CANCELED"
  ELSE "SUCCEEDED"

(* fail_node, dead_letter_node and a failing complete_node on the node states. *)
Fail(st, n, how) ==
  LET failed == [st EXCEPT ![n] = how]
      canceled == Downstream(failed, n)
  IN  [m \in Nodes |-> IF m \in canceled THEN "CANCELED" ELSE failed[m]]

SucceedEarly(st, n) ==   \* slip: readies a successor whatever its other predecessors
  [m \in Nodes |-> IF m = n THEN "SUCCEEDED"
                   ELSE IF m \in Succs(n) /\ st[m] = "BLOCKED" THEN "READY" ELSE st[m]]

(* A succeeding complete_node on the node states.                          *)
Succeed(st, n) ==
  LET done == [st EXCEPT ![n] = "SUCCEEDED"]
  IN  [m \in Nodes |->
         IF m \in Succs(n) /\ done[m] = "BLOCKED" /\ PredsSucceeded(done, m)
         THEN "READY" ELSE done[m]]

(* cancel_run on the node states.                                          *)
CancelOpen(st) ==
  [n \in Nodes |-> IF st[n] \in Terminal THEN st[n] ELSE "CANCELED"]

(* The run state finalize_run derives from the node states.                *)
Outcome(st) ==
  IF \E n \in Nodes : st[n] \in {"FAILED", "DEAD_LETTERED"} THEN "FAILED"
  ELSE IF \A n \in Nodes : st[n] = "SUCCEEDED" THEN "SUCCEEDED"
  ELSE "CANCELED"

-----------------------------------------------------------------------------
(* The persisted status of a node_runs row ("absent": no such row), and    *)
(* the state SchedulerState::reconstruct restores from it.                 *)

RowStatus ==
  {"absent", "blocked", "ready", "dispatched", "running", "retry_wait",
   "succeeded", "failed", "dead_lettered", "canceled"}

RowTerminal == {"succeeded", "failed", "dead_lettered", "canceled"}

RestoredState(status) ==
  CASE status = "succeeded"                 -> "SUCCEEDED"
    [] status = "failed"                    -> "FAILED"
    [] status = "dead_lettered"             -> "DEAD_LETTERED"
    [] status = "canceled"                  -> "CANCELED"
    [] status = "retry_wait"                -> "RETRY_WAIT"
    [] status = "ready"                     -> "READY"
    [] status \in {"dispatched", "running"} -> "RUNNING"
    [] OTHER                                -> "BLOCKED"

UnblockAfterTerminal(st) ==   \* slip: a failed predecessor counts as done
  [n \in Nodes |->
     IF st[n] = "BLOCKED" /\ \A p \in Preds[n] : st[p] \in Terminal
     THEN "READY" ELSE st[n]]

(* Blocked nodes whose predecessors have all succeeded become ready.       *)
Unblock(st) ==
  [n \in Nodes |->
     IF st[n] = "BLOCKED" /\ PredsSucceeded(st, n) THEN "READY" ELSE st[n]]

Restore(rows) == Unblock([n \in Nodes |-> RestoredState(rows[n])])

(***************************************************************************)
(* Rows a restart can resume from: work started only after its             *)
(* predecessors succeeded, and no node still waits on one that failed.     *)
(***************************************************************************)
RowsCoherent(rows) ==
  /\ \A n \in Nodes :
       rows[n] \notin {"absent", "blocked", "canceled"} =>
         \A p \in Preds[n] : rows[p] = "succeeded"
  /\ \A n \in Nodes : \A p \in Preds[n] :
       rows[p] \in {"failed", "dead_lettered", "canceled"} => rows[n] = "canceled"

=============================================================================
