------------------------ MODULE SchedulerStateProofs ------------------------
(***************************************************************************)
(* Proofs, for every finite acyclic graph, of the invariants MCScheduler-  *)
(* State checks on one graph of four nodes. IInv is the inductive          *)
(* invariant: the properties themselves and two facts they lean on,        *)
(* QueuedFresh (nothing has happened to a machine that was not started)    *)
(* and BlockedHasReason (a blocked node of a started run waits on a        *)
(* predecessor).                                                           *)
(***************************************************************************)
EXTENDS SchedulerState, RunGraphProofs

Active == {"READY", "DISPATCHED", "RUNNING", "RETRY_WAIT"}

QueuedFresh ==
  runState = "QUEUED" =>
    /\ \A n \in Nodes : nodeState[n] = "BLOCKED"
    /\ completed = {}

BlockedHasReason ==
  runState # "QUEUED" =>
    \A n \in Nodes : nodeState[n] = "BLOCKED" => ~ PredsSucceeded(nodeState, n)

IInv ==
  /\ TypeOK
  /\ QueuedFresh
  /\ CompletedExact
  /\ DepCountExact
  /\ PredecessorsFirst
  /\ FailureClosed
  /\ BlockedHasReason
  /\ OutcomeHonest

-----------------------------------------------------------------------------
(* The constructor's state satisfies the invariant; Restart produces the   *)
(* same one.                                                               *)

(* The invariant holds of a run that has not started.                      *)
LEMMA InitEstablishesIInv == Init => IInv
<1> SUFFICES ASSUME Init PROVE IInv
  OBVIOUS
<1> USE DEF Init
<1>1. \A n \in Nodes : UnmetDeps(nodeState, n) = Cardinality(Preds[n])
  <2>1. ASSUME NEW n \in Nodes
        PROVE  {p \in Preds[n] : nodeState[p] # "SUCCEEDED"} = Preds[n]
    BY PredsAreNodes
  <2> QED
    BY <2>1 DEF UnmetDeps
<1>2. \A n \in Nodes : UnmetDeps(nodeState, n) \in Nat
  BY UnmetDepsCounts
<1>3. TypeOK
  BY <1>1, <1>2 DEF TypeOK, RunStates, NodeStates
<1>4. QueuedFresh /\ CompletedExact /\ BlockedHasReason
  BY DEF QueuedFresh, CompletedExact, BlockedHasReason, Decided
<1>5. DepCountExact
  BY <1>1 DEF DepCountExact
<1>6. PredecessorsFirst /\ FailureClosed /\ OutcomeHonest
  BY PredsAreNodes DEF PredecessorsFirst, FailureClosed, OutcomeHonest, Unsuccessful
<1> QED
  BY <1>3, <1>4, <1>5, <1>6 DEF IInv

(* A restart forgets everything: the object is new.                        *)
LEMMA RestartStep ==
  ASSUME Restart
  PROVE  IInv'
<1> USE DEF Restart
<1>1. \A n \in Nodes : UnmetDeps(nodeState', n) = Cardinality(Preds[n])
  <2>1. ASSUME NEW n \in Nodes
        PROVE  {p \in Preds[n] : nodeState'[p] # "SUCCEEDED"} = Preds[n]
    BY PredsAreNodes
  <2> QED
    BY <2>1 DEF UnmetDeps
<1>2. \A n \in Nodes : UnmetDeps(nodeState', n) \in Nat
  BY UnmetDepsCounts
<1>3. TypeOK'
  BY <1>1, <1>2 DEF TypeOK, RunStates, NodeStates
<1>4. (QueuedFresh /\ CompletedExact /\ BlockedHasReason)'
  BY DEF QueuedFresh, CompletedExact, BlockedHasReason, Decided
<1>5. DepCountExact'
  BY <1>1 DEF DepCountExact
<1>6. (PredecessorsFirst /\ FailureClosed /\ OutcomeHonest)'
  BY PredsAreNodes DEF PredecessorsFirst, FailureClosed, OutcomeHonest, Unsuccessful
<1> QED
  BY <1>3, <1>4, <1>5, <1>6 DEF IInv

-----------------------------------------------------------------------------
(* The steps of a node that stays undecided: dispatch, start, abandon,     *)
(* retry wait and its end. All of them move n within Active.               *)
LEMMA MoveStep ==
  ASSUME IInv, NEW n \in Nodes, nodeState[n] \in Active, NEW x \in Active,
         nodeState' = [nodeState EXCEPT ![n] = x],
         UNCHANGED <<runState, depCount, completed>>
  PROVE  IInv'
<1> USE DEF IInv
<1>1. nodeState \in [Nodes -> NodeStates] /\ x \in NodeStates
  BY DEF TypeOK, Active, NodeStates
<1>2. \A p \in Nodes : nodeState[p] = "SUCCEEDED" <=> nodeState'[p] = "SUCCEEDED"
  BY <1>1 DEF Active
<1>3. \A m \in Nodes : /\ UnmetDeps(nodeState', m) = UnmetDeps(nodeState, m)
                       /\ PredsSucceeded(nodeState', m) <=> PredsSucceeded(nodeState, m)
  BY <1>2, SameSucceeded
<1>4. TypeOK'
  BY <1>1 DEF TypeOK
<1>5. QueuedFresh'
  BY DEF QueuedFresh, Active
<1>6. CompletedExact'
  BY <1>1 DEF CompletedExact, Decided, Active
<1>7. DepCountExact'
  BY <1>3 DEF DepCountExact
<1>8. PredecessorsFirst'
  BY <1>1, <1>3 DEF PredecessorsFirst, Active
<1>9. FailureClosed'
  BY <1>1, PredsAreNodes DEF FailureClosed, Active, Unsuccessful
<1>10. BlockedHasReason'
  BY <1>1, <1>3 DEF BlockedHasReason, Active
<1>11. OutcomeHonest'
  BY <1>1 DEF OutcomeHonest, Active
<1> QED
  BY <1>4, <1>5, <1>6, <1>7, <1>8, <1>9, <1>10, <1>11

(* A success decrements the counter of each successor exactly once and     *)
(* readies those it was the last obstacle of.                              *)
LEMMA SuccessStep ==
  ASSUME IInv, NEW n \in Nodes, CompleteSuccess(n)
  PROVE  IInv'
<1> USE DEF IInv
<1>1. /\ nodeState \in [Nodes -> NodeStates]
      /\ nodeState[n] = "RUNNING"
      /\ runState' = runState /\ runState # "QUEUED"
  BY DEF CompleteSuccess, TypeOK, QueuedFresh
<1>2. /\ nodeState' \in [Nodes -> NodeStates]
      /\ nodeState'[n] = "SUCCEEDED"
      /\ \A m \in Nodes \ {n} :
           \/ nodeState'[m] = nodeState[m]
           \/ /\ m \in Succs(n) /\ depCount'[m] = 0
              /\ nodeState[m] = "BLOCKED" /\ nodeState'[m] = "READY"
      /\ \A m \in Nodes : m \in Succs(n) /\ depCount'[m] = 0 /\ m # n =>
           nodeState'[m] # "BLOCKED"
  BY <1>1 DEF CompleteSuccess, NodeStates
<1>3. \A p \in Nodes : nodeState'[p] = "SUCCEEDED" <=> p = n \/ nodeState[p] = "SUCCEEDED"
  BY <1>1, <1>2
<1>4. ASSUME NEW m \in Nodes
      PROVE  depCount'[m] = UnmetDeps(nodeState', m)
  <2>1. depCount[m] = UnmetDeps(nodeState, m) /\ UnmetDeps(nodeState, m) \in Nat
    BY UnmetDepsCounts DEF DepCountExact
  <2>2. CASE m \in Succs(n)
    BY <1>1, <1>3, <2>1, <2>2, OneMoreSucceeded DEF CompleteSuccess
  <2>3. CASE m \notin Succs(n)
    BY <1>1, <1>3, <2>1, <2>3, OneMoreSucceeded DEF CompleteSuccess
  <2> QED
    BY <2>2, <2>3
<1>5. \A m \in Nodes : /\ depCount'[m] \in Nat
                       /\ depCount'[m] = 0 <=> PredsSucceeded(nodeState', m)
  BY <1>4, UnmetDepsCounts
<1>6. TypeOK'
  <2>1. depCount' \in [Nodes -> Nat]
    BY <1>5 DEF CompleteSuccess
  <2> QED
    BY <1>2, <2>1 DEF TypeOK, CompleteSuccess
<1>7. QueuedFresh'
  BY <1>1 DEF QueuedFresh
<1>8. CompletedExact'
  BY <1>1, <1>2 DEF CompletedExact, Decided, CompleteSuccess
<1>9. DepCountExact'
  BY <1>4 DEF DepCountExact
<1>10. PredecessorsFirst'
  <2> SUFFICES ASSUME NEW m \in Nodes,
                      nodeState'[m] \in {"READY", "DISPATCHED", "RUNNING",
                                         "RETRY_WAIT", "SUCCEEDED"}
               PROVE  PredsSucceeded(nodeState', m)
    BY DEF PredecessorsFirst
  <2>1. PredsSucceeded(nodeState, m) => PredsSucceeded(nodeState', m)
    BY <1>3, PredsAreNodes DEF PredsSucceeded
  <2>2. CASE m = n \/ nodeState'[m] = nodeState[m]
    BY <1>1, <2>1, <2>2 DEF PredecessorsFirst
  <2>3. CASE m # n /\ nodeState'[m] # nodeState[m]
    BY <1>2, <1>5, <2>3
  <2> QED
    BY <2>2, <2>3
<1>11. FailureClosed'
  BY <1>1, <1>2, PredsAreNodes DEF FailureClosed, Unsuccessful
<1>12. BlockedHasReason'
  <2> SUFFICES ASSUME NEW m \in Nodes, nodeState'[m] = "BLOCKED"
               PROVE  ~ PredsSucceeded(nodeState', m)
    BY DEF BlockedHasReason
  <2>1. m # n /\ nodeState[m] = "BLOCKED"
    BY <1>2
  <2>2. CASE m \in Succs(n)
    BY <1>2, <1>5, <2>1, <2>2
  <2>3. CASE m \notin Succs(n)
    <3>1. depCount'[m] = depCount[m] /\ depCount[m] # 0
      <4>1. depCount[m] # 0
        BY <1>1, <2>1, UnmetDepsCounts DEF BlockedHasReason, DepCountExact
      <4> QED
        BY <2>3, <4>1 DEF CompleteSuccess
    <3> QED
      BY <1>5, <3>1
  <2> QED
    BY <2>2, <2>3
<1>13. OutcomeHonest'
  BY <1>1, <1>2 DEF OutcomeHonest
<1> QED
  BY <1>6, <1>7, <1>8, <1>9, <1>10, <1>11, <1>12, <1>13

(* A failure for good, with the cancellation of everything downstream.     *)
LEMMA FailStep ==
  ASSUME IInv, runState # "QUEUED", NEW n \in Nodes, n \notin completed,
         NEW how \in {"FAILED", "DEAD_LETTERED"},
         completed' = completed \cup {n},
         nodeState' = Fail(nodeState, n, how),
         UNCHANGED <<runState, depCount>>
  PROVE  IInv'
<1> USE DEF IInv
<1>1. nodeState \in [Nodes -> NodeStates] /\ nodeState[n] \notin Decided
  BY DEF TypeOK, CompletedExact
<1>2. /\ nodeState' \in [Nodes -> NodeStates]
      /\ nodeState'[n] = how
      /\ \A m \in Nodes \ {n} :
           nodeState'[m] = nodeState[m]
           \/ (nodeState[m] \notin Terminal /\ nodeState'[m] = "CANCELED")
      /\ \A m \in Nodes : n \in Preds[m] => nodeState'[m] \in Terminal
      /\ \A m \in Nodes, p \in Nodes \ {n} :
           p \in Preds[m] /\ nodeState'[p] # nodeState[p] => nodeState'[m] \in Terminal
  BY <1>1, FailEffect
<1>3. \A p \in Nodes : nodeState[p] = "SUCCEEDED" <=> nodeState'[p] = "SUCCEEDED"
  BY <1>1, <1>2 DEF Terminal, Decided
<1>4. \A m \in Nodes : /\ UnmetDeps(nodeState', m) = UnmetDeps(nodeState, m)
                       /\ PredsSucceeded(nodeState', m) <=> PredsSucceeded(nodeState, m)
  BY <1>3, SameSucceeded
<1>5. TypeOK'
  BY <1>2 DEF TypeOK
<1>6. QueuedFresh'
  BY DEF QueuedFresh
<1>7. CompletedExact'
  BY <1>1, <1>2 DEF CompletedExact, Decided, Terminal, Unsuccessful
<1>8. DepCountExact'
  BY <1>4 DEF DepCountExact
<1>9. PredecessorsFirst'
  BY <1>1, <1>2, <1>4 DEF PredecessorsFirst
<1>10. FailureClosed'
  <2> SUFFICES ASSUME NEW m \in Nodes, NEW p \in Preds[m],
                      nodeState'[p] \in Unsuccessful
               PROVE  nodeState'[m] \in Unsuccessful
    BY DEF FailureClosed
  <2>1. p \in Nodes
    BY PredsAreNodes
  <2>2. nodeState'[m] # "SUCCEEDED"
    BY <1>3, <2>1 DEF PredecessorsFirst, PredsSucceeded, Unsuccessful
  <2>3. nodeState'[m] \in Terminal
    <3>1. CASE p = n
      BY <1>2, <3>1
    <3>2. CASE p # n /\ nodeState'[p] # nodeState[p]
      BY <1>2, <2>1, <3>2
    <3>3. CASE nodeState'[p] = nodeState[p]
      <4>1. nodeState[m] \in Unsuccessful
        BY <3>3 DEF FailureClosed
      <4> QED
        BY <1>2, <4>1 DEF Terminal, Unsuccessful
    <3> QED
      BY <3>1, <3>2, <3>3
  <2> QED
    BY <2>2, <2>3 DEF Terminal
<1>11. BlockedHasReason'
  BY <1>2, <1>4 DEF BlockedHasReason
<1>12. OutcomeHonest'
  BY <1>1, <1>2 DEF OutcomeHonest, Decided, Terminal
<1> QED
  BY <1>5, <1>6, <1>7, <1>8, <1>9, <1>10, <1>11, <1>12

-----------------------------------------------------------------------------
(* Starting the run: afresh, or from the persisted rows.                   *)

(* The start readies the nodes without predecessors.                       *)
LEMMA StartStep ==
  ASSUME IInv, StartRun
  PROVE  IInv'
<1> USE DEF IInv
<1>1. /\ \A n \in Nodes : nodeState[n] = "BLOCKED"
      /\ \A n \in Nodes : depCount[n] = 0 <=> PredsSucceeded(nodeState, n)
      /\ completed = {} /\ runState' = "RUNNING"
  BY UnmetDepsCounts DEF StartRun, QueuedFresh, DepCountExact
<1>2. \A n \in Nodes : nodeState'[n] =
        IF PredsSucceeded(nodeState, n) THEN "READY" ELSE "BLOCKED"
  BY <1>1 DEF StartRun
<1>3. \A n \in Nodes : /\ UnmetDeps(nodeState', n) = UnmetDeps(nodeState, n)
                       /\ PredsSucceeded(nodeState', n) <=> PredsSucceeded(nodeState, n)
  <2>1. \A p \in Nodes : nodeState[p] = "SUCCEEDED" <=> nodeState'[p] = "SUCCEEDED"
    BY <1>1, <1>2
  <2> QED
    BY <2>1, SameSucceeded
<1>4. TypeOK'
  BY DEF StartRun, TypeOK, NodeStates, RunStates
<1>5. (QueuedFresh /\ OutcomeHonest)'
  BY <1>1 DEF QueuedFresh, OutcomeHonest
<1>6. CompletedExact'
  BY <1>1, <1>2 DEF StartRun, CompletedExact, Decided
<1>7. DepCountExact'
  BY <1>3 DEF StartRun, DepCountExact
<1>8. (PredecessorsFirst /\ BlockedHasReason)'
  BY <1>2, <1>3 DEF PredecessorsFirst, BlockedHasReason
<1>9. FailureClosed'
  BY <1>2, PredsAreNodes DEF FailureClosed, Unsuccessful
<1> QED
  BY <1>4, <1>5, <1>6, <1>7, <1>8, <1>9

(* A reconstruction from rows gives a sound object, whatever the rows.     *)
LEMMA ReconstructStep ==
  ASSUME IInv, NEW rows \in [Nodes -> RowStatus], Reconstruct(rows)
  PROVE  IInv'
<1> USE DEF IInv
<1>1. /\ nodeState' = Restore(rows) /\ RowsCoherent(rows) /\ runState' = "RUNNING"
      /\ depCount' = [n \in Nodes |-> UnmetDeps(nodeState', n)]
      /\ completed' = {n \in Nodes : nodeState'[n] \in Decided}
  BY DEF Reconstruct
<1>2. /\ nodeState' \in [Nodes -> NodeStates]
      /\ \A n \in Nodes :
           nodeState'[n] \in {"READY", "RUNNING", "RETRY_WAIT", "SUCCEEDED"} =>
             PredsSucceeded(nodeState', n)
      /\ \A n \in Nodes : nodeState'[n] = "BLOCKED" => ~ PredsSucceeded(nodeState', n)
      /\ \A n \in Nodes : nodeState'[n] # "DISPATCHED"
      /\ \A n \in Nodes, p \in Nodes :
           p \in Preds[n] /\ nodeState'[p] \in Unsuccessful =>
             nodeState'[n] \in Unsuccessful
  BY <1>1, RestoreEffect
<1>3. \A n \in Nodes : UnmetDeps(nodeState', n) \in Nat
  BY UnmetDepsCounts
<1>4. TypeOK'
  BY <1>1, <1>2, <1>3 DEF TypeOK, RunStates
<1>5. (QueuedFresh /\ OutcomeHonest /\ CompletedExact /\ DepCountExact)'
  BY <1>1 DEF QueuedFresh, OutcomeHonest, CompletedExact, DepCountExact
<1>6. (PredecessorsFirst /\ BlockedHasReason)'
  BY <1>2 DEF PredecessorsFirst, BlockedHasReason
<1>7. FailureClosed'
  BY <1>2, PredsAreNodes DEF FailureClosed
<1> QED
  BY <1>4, <1>5, <1>6, <1>7

-----------------------------------------------------------------------------
(* The steps of the run.                                                   *)

(* A cancel of the run closes every open node.                             *)
LEMMA CancelStep ==
  ASSUME IInv, CancelRun
  PROVE  IInv'
<1> USE DEF IInv
<1>1. /\ nodeState \in [Nodes -> NodeStates]
      /\ nodeState' \in [Nodes -> NodeStates]
      /\ \A n \in Nodes : nodeState'[n] =
           IF nodeState[n] \in Terminal THEN nodeState[n] ELSE "CANCELED"
  BY DEF CancelRun, CancelOpen, TypeOK, NodeStates
<1>2. \A p \in Nodes : nodeState[p] = "SUCCEEDED" <=> nodeState'[p] = "SUCCEEDED"
  BY <1>1 DEF Terminal
<1>3. \A n \in Nodes : /\ UnmetDeps(nodeState', n) = UnmetDeps(nodeState, n)
                       /\ PredsSucceeded(nodeState', n) <=> PredsSucceeded(nodeState, n)
  BY <1>2, SameSucceeded
<1>4. TypeOK'
  BY <1>1 DEF TypeOK, CancelRun, RunStates
<1>5. (QueuedFresh /\ OutcomeHonest)'
  BY DEF CancelRun, QueuedFresh, OutcomeHonest
<1>6. CompletedExact'
  BY <1>1 DEF CancelRun, CompletedExact, Terminal, Unsuccessful, Decided
<1>7. DepCountExact'
  BY <1>3 DEF CancelRun, DepCountExact
<1>8. PredecessorsFirst'
  BY <1>1, <1>3 DEF PredecessorsFirst
<1>9. FailureClosed'
  <2> SUFFICES ASSUME NEW n \in Nodes, NEW p \in Preds[n],
                      nodeState'[p] \in Unsuccessful
               PROVE  nodeState'[n] \in Unsuccessful
    BY DEF FailureClosed
  <2>1. nodeState[n] # "SUCCEEDED"
    BY <1>2, PredsAreNodes DEF PredecessorsFirst, PredsSucceeded, Unsuccessful
  <2> QED
    BY <1>1, <2>1 DEF Terminal, Unsuccessful
<1>10. BlockedHasReason'
  BY <1>1 DEF BlockedHasReason, Terminal, Unsuccessful
<1> QED
  BY <1>4, <1>5, <1>6, <1>7, <1>8, <1>9, <1>10

(* The end of the run is taken from nodes that are all decided.            *)
LEMMA FinalizeStep ==
  ASSUME IInv, FinalizeRun
  PROVE  IInv'
<1> USE DEF IInv, FinalizeRun
<1>1. TypeOK'
  BY DEF TypeOK, Outcome, RunStates
<1>2. (QueuedFresh /\ OutcomeHonest)'
  BY DEF QueuedFresh, OutcomeHonest, Outcome
<1>3. (CompletedExact /\ DepCountExact /\ PredecessorsFirst /\ FailureClosed)'
  BY DEF CompletedExact, DepCountExact, PredecessorsFirst, PredsSucceeded, FailureClosed,
         UnmetDeps
<1>4. BlockedHasReason'
  BY DEF BlockedHasReason, PredsSucceeded
<1> QED
  BY <1>1, <1>2, <1>3, <1>4

-----------------------------------------------------------------------------
(* Every step of the machine preserves the invariant.                      *)
LEMMA NextPreservesIInv ==
  ASSUME IInv, [Next]_vars
  PROVE  IInv'
<1>1. CASE StartRun
  BY <1>1, StartStep
<1>2. CASE Resume
  BY <1>2, ReconstructStep DEF Resume
<1>3. CASE Restart
  BY <1>3, RestartStep
<1>4. ASSUME NEW n \in Nodes, Attempt(n)
      PROVE  IInv'
  <2>1. CASE DispatchNode(n)
    BY <2>1, MoveStep DEF DispatchNode, Active
  <2>2. CASE StartNode(n)
    BY <2>2, MoveStep DEF StartNode, Active
  <2>3. CASE LaunchNode(n)
    BY <2>3, MoveStep DEF LaunchNode, Active
  <2>4. CASE CompleteSuccess(n)
    BY <2>4, SuccessStep
  <2>5. CASE CompleteFailure(n)
    <3>1. runState # "QUEUED"
      BY <2>5 DEF CompleteFailure, IInv, QueuedFresh
    <3> QED
      BY <2>5, <3>1, FailStep DEF CompleteFailure
  <2>6. CASE FailNode(n)
    BY <2>6, FailStep DEF FailNode
  <2>7. CASE DeadLetterNode(n)
    BY <2>7, FailStep DEF DeadLetterNode
  <2>8. CASE AbandonNode(n)
    BY <2>8, MoveStep DEF AbandonNode, Active, InFlight
  <2>9. CASE RetryWaitNode(n)
    BY <2>9, MoveStep DEF RetryWaitNode, Active
  <2>10. CASE ReadyFromRetry(n)
    BY <2>10, MoveStep DEF ReadyFromRetry, Active
  <2> QED
    BY <1>4, <2>1, <2>2, <2>3, <2>4, <2>5, <2>6, <2>7, <2>8, <2>9, <2>10 DEF Attempt
<1>5. CASE CancelRun
  BY <1>5, CancelStep
<1>6. CASE FinalizeRun
  BY <1>6, FinalizeStep
<1>7. CASE UNCHANGED vars
  BY <1>7 DEF vars, IInv, TypeOK, QueuedFresh, CompletedExact, DepCountExact,
     PredecessorsFirst, FailureClosed, BlockedHasReason, OutcomeHonest,
     UnmetDeps, PredsSucceeded
<1> QED
  BY <1>1, <1>2, <1>3, <1>4, <1>5, <1>6, <1>7 DEF Next

(* IInv holds in every reachable state.                                    *)
THEOREM IInvHolds == Spec => []IInv
<1>1. Init => IInv
  BY InitEstablishesIInv
<1>2. IInv /\ [Next]_vars => IInv'
  BY NextPreservesIInv
<1> QED
  BY <1>1, <1>2, PTL DEF Spec

(* The variables of a SchedulerState object keep their types.              *)
THEOREM TypeCorrect == Spec => []TypeOK
<1>1. IInv => TypeOK
  BY DEF IInv
<1> QED
  BY <1>1, IInvHolds, PTL

(* The incremental dependency counters of complete_node and the re-derived *)
(* ones of reconstruct always equal the number of predecessors that have   *)
(* not succeeded.                                                          *)
THEOREM DependencyCountsExact == Spec => []DepCountExact
<1>1. IInv => DepCountExact
  BY DEF IInv
<1> QED
  BY <1>1, IInvHolds, PTL

(* No node runs, waits for a retry or succeeds before its predecessors.    *)
THEOREM NoNodeBeforeItsPredecessors == Spec => []PredecessorsFirst
<1>1. IInv => PredecessorsFirst
  BY DEF IInv
<1> QED
  BY <1>1, IInvHolds, PTL

(* Every output the editor offers to a node is there when the node runs:   *)
(* the succeeded nodes are closed under predecessors, so they contain all  *)
(* that is upstream of a node whose predecessors have succeeded.           *)
THEOREM UpstreamIsProduced == Spec => []UpstreamProduced
<1>1. IInv => UpstreamProduced
  <2>1. SUFFICES ASSUME PredecessorsFirst, NEW n \in Nodes, NEW a \in Upstream(n),
                        nodeState[n] \in Active \cup {"SUCCEEDED"}
                 PROVE  nodeState[a] = "SUCCEEDED"
    BY DEF IInv, UpstreamProduced, Active
  <2> DEFINE S == {m \in Nodes : nodeState[m] = "SUCCEEDED"}
  <2>2. Preds[n] \subseteq S
    BY <2>1, PredsAreNodes DEF PredecessorsFirst, PredsSucceeded, Active
  <2>3. ASSUME NEW m \in S
        PROVE  Preds[m] \subseteq S
    BY <2>1, PredsAreNodes DEF PredecessorsFirst, PredsSucceeded
  <2>4. a \in S
    BY <2>2, <2>3 DEF Upstream, UpClosed
  <2> QED
    BY <2>4
<1> QED
  BY <1>1, IInvHolds, PTL

(* A failure or cancellation reaches everything downstream of it.          *)
THEOREM FailureReachesDownstream == Spec => []FailureClosed
<1>1. IInv => FailureClosed
  BY DEF IInv
<1> QED
  BY <1>1, IInvHolds, PTL

(* completed_ is the set of decided nodes.                                 *)
THEOREM CompletedIsDecided == Spec => []CompletedExact
<1>1. IInv => CompletedExact
  BY DEF IInv
<1> QED
  BY <1>1, IInvHolds, PTL

(* A run reported SUCCEEDED or FAILED stays the outcome of its nodes.      *)
THEOREM OutcomeIsHonest == Spec => []OutcomeHonest
<1>1. IInv => OutcomeHonest
  BY DEF IInv
<1> QED
  BY <1>1, IInvHolds, PTL

(* On any acyclic graph a started run with an open node has one a driver   *)
(* can act on: take the open nodes; one of them has no open predecessor,   *)
(* so its predecessors all succeeded (then it is not blocked) or one is    *)
(* unsuccessful (then it is not open).                                     *)
LEMMA SomeNodeCanAct == IInv => NeverStuck
<1> SUFFICES ASSUME IInv, runState # "QUEUED", Open(nodeState) # {}
             PROVE  \E n \in Nodes :
                      nodeState[n] \in {"READY", "DISPATCHED", "RUNNING", "RETRY_WAIT"}
  BY DEF NeverStuck
<1> USE DEF IInv
<1>1. Open(nodeState) \in SUBSET Nodes
  BY DEF Open
<1>2. PICK n \in Open(nodeState) : Preds[n] \cap Open(nodeState) = {}
  BY <1>1, Acyclic
<1>3. n \in Nodes /\ nodeState[n] \in NodeStates \ Terminal
  BY <1>2 DEF Open, TypeOK
<1>4. \A p \in Preds[n] : nodeState[p] = "SUCCEEDED"
  <2>1. \A p \in Preds[n] : nodeState[p] \in Terminal
    BY <1>2, <1>3, PredsAreNodes DEF Open
  <2>2. \A p \in Preds[n] : nodeState[p] \notin Unsuccessful
    BY <1>3 DEF FailureClosed, Terminal
  <2> QED
    BY <2>1, <2>2 DEF Terminal
<1>5. nodeState[n] # "BLOCKED"
  BY <1>3, <1>4 DEF BlockedHasReason, PredsSucceeded
<1> QED
  BY <1>3, <1>5 DEF NodeStates, Terminal, Unsuccessful

(* A started run never runs out of calls while a node is open.             *)
THEOREM RunIsNeverStuck == Spec => []NeverStuck
  BY SomeNodeCanAct, IInvHolds, PTL

(* Within one process no call takes a decided node back.                   *)
THEOREM DecisionsStand == Spec => DecidedStays
<1> DEFINE Stays == \A n \in Nodes : nodeState[n] \in Decided =>
                      nodeState'[n] = nodeState[n] \/ runState' = "QUEUED"
<1>1. ASSUME IInv, [Next]_vars
      PROVE  [Stays]_vars
  <2> SUFFICES ASSUME NEW n \in Nodes, nodeState[n] \in Decided, Next
               PROVE  nodeState'[n] = nodeState[n] \/ runState' = "QUEUED"
    BY <1>1
  <2>1. /\ n \in completed /\ nodeState \in [Nodes -> NodeStates]
        /\ runState # "QUEUED"
        /\ nodeState[n] \notin {"READY", "DISPATCHED", "RUNNING", "RETRY_WAIT", "BLOCKED"}
    BY <1>1 DEF IInv, CompletedExact, TypeOK, QueuedFresh, Decided
  <2>2. ASSUME NEW m \in Nodes, Attempt(m)
        PROVE  nodeState'[n] = nodeState[n]
    <3>1. CASE \E how \in {"FAILED", "DEAD_LETTERED"} :
                 m \notin completed /\ nodeState' = Fail(nodeState, m, how)
      <4>1. PICK how \in {"FAILED", "DEAD_LETTERED"} :
              m \notin completed /\ nodeState' = Fail(nodeState, m, how)
        BY <3>1
      <4>2. n # m /\ nodeState[n] \in Terminal
        BY <2>1, <4>1 DEF Decided, Terminal, Unsuccessful
      <4> QED
        BY <2>1, <4>1, <4>2, FailEffect
    <3>2. CASE CompleteSuccess(m)
      BY <2>1, <3>2 DEF CompleteSuccess
    <3>3. CASE \E x \in NodeStates : nodeState[m] \in Active
                                     /\ nodeState' = [nodeState EXCEPT ![m] = x]
      BY <2>1, <3>3 DEF Active
    <3> QED
      BY <2>2, <3>1, <3>2, <3>3
      DEF Attempt, DispatchNode, StartNode, LaunchNode, CompleteFailure, FailNode,
          DeadLetterNode, AbandonNode, RetryWaitNode, ReadyFromRetry, Active,
          InFlight, NodeStates
  <2>3. CASE StartRun \/ Restart \/ Resume
    BY <2>1, <2>3 DEF StartRun, Restart, Resume
  <2>4. CASE CancelRun
    BY <2>4 DEF CancelRun, CancelOpen, Decided, Terminal, Unsuccessful
  <2>5. CASE FinalizeRun
    BY <2>5 DEF FinalizeRun
  <2> QED
    BY <2>2, <2>3, <2>4, <2>5 DEF Next
<1> QED
  BY <1>1, IInvHolds, PTL DEF Spec, DecidedStays

=============================================================================
