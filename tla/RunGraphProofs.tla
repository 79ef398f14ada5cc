--------------------------- MODULE RunGraphProofs ---------------------------
(***************************************************************************)
(* What the functions of RunGraph do to the states of the nodes, for every *)
(* finite acyclic graph: the lemmas the proofs about SchedulerState,       *)
(* DistributedRun and ConcurrentRun share.                                 *)
(***************************************************************************)
EXTENDS RunGraph, FiniteSetTheorems, TLAPS

(* The number of unmet dependencies is a natural number, and it is zero    *)
(* exactly when every predecessor has succeeded.                           *)
LEMMA UnmetDepsCounts ==
  ASSUME NEW st, NEW n \in Nodes
  PROVE  /\ IsFiniteSet({p \in Preds[n] : st[p] # "SUCCEEDED"})
         /\ UnmetDeps(st, n) \in Nat
         /\ UnmetDeps(st, n) = 0 <=> PredsSucceeded(st, n)
<1> DEFINE U == {p \in Preds[n] : st[p] # "SUCCEEDED"}
<1>1. U \subseteq Nodes
  BY PredsAreNodes
<1>2. IsFiniteSet(U)
  BY <1>1, NodesFinite, FS_Subset
<1>3. Cardinality(U) \in Nat /\ (Cardinality(U) = 0 <=> U = {})
  BY <1>2, FS_CardinalityType, FS_EmptySet
<1>4. U = {} <=> PredsSucceeded(st, n)
  BY DEF PredsSucceeded
<1> QED
  BY <1>2, <1>3, <1>4 DEF UnmetDeps

(* Node states with the same succeeded nodes have the same unmet           *)
(* dependencies.                                                           *)
LEMMA SameSucceeded ==
  ASSUME NEW st, NEW tt, NEW n \in Nodes,
         \A p \in Nodes : st[p] = "SUCCEEDED" <=> tt[p] = "SUCCEEDED"
  PROVE  /\ UnmetDeps(tt, n) = UnmetDeps(st, n)
         /\ PredsSucceeded(tt, n) <=> PredsSucceeded(st, n)
<1>1. Preds[n] \subseteq Nodes
  BY PredsAreNodes
<1>2. {p \in Preds[n] : tt[p] # "SUCCEEDED"} = {p \in Preds[n] : st[p] # "SUCCEEDED"}
  BY <1>1
<1> QED
  BY <1>1, <1>2 DEF UnmetDeps, PredsSucceeded

(* When one more node has succeeded, each of its successors has one unmet  *)
(* dependency less, and every other node as many as before.                *)
LEMMA OneMoreSucceeded ==
  ASSUME NEW st, NEW tt, NEW n \in Nodes, st[n] # "SUCCEEDED",
         \A p \in Nodes : tt[p] = "SUCCEEDED" <=> p = n \/ st[p] = "SUCCEEDED",
         NEW m \in Nodes
  PROVE  /\ m \in Succs(n) => /\ UnmetDeps(st, m) > 0
                             /\ UnmetDeps(tt, m) = UnmetDeps(st, m) - 1
         /\ m \notin Succs(n) => UnmetDeps(tt, m) = UnmetDeps(st, m)
<1> DEFINE U == {p \in Preds[m] : st[p] # "SUCCEEDED"}
           V == {p \in Preds[m] : tt[p] # "SUCCEEDED"}
<1>1. IsFiniteSet(U) /\ Cardinality(U) \in Nat
  BY UnmetDepsCounts DEF UnmetDeps
<1>2. V = U \ {n}
  BY PredsAreNodes
<1>3. n \in U <=> m \in Succs(n)
  BY DEF Succs
<1> HIDE DEF U, V
<1>4. CASE m \in Succs(n)
  <2>1. Cardinality(V) = Cardinality(U) - 1
    BY <1>1, <1>2, <1>3, <1>4, FS_RemoveElement
  <2>2. Cardinality(U) # 0
    BY <1>1, <1>3, <1>4, FS_EmptySet
  <2> QED
    BY <1>1, <1>4, <2>1, <2>2 DEF UnmetDeps, U, V
<1>5. CASE m \notin Succs(n)
  <2>1. V = U
    BY <1>2, <1>3, <1>5
  <2> QED
    BY <1>5, <2>1 DEF UnmetDeps, U, V
<1> QED
  BY <1>4, <1>5

(* The set of nodes mark_canceled_transitive reaches is closed under its   *)
(* own steps: it contains every open successor of n and of its members.    *)
LEMMA DownstreamClosed ==
  ASSUME NEW st, NEW n \in Nodes
  PROVE  /\ Downstream(st, n) \subseteq Open(st)
         /\ WalkClosed(st, n, Downstream(st, n))
<1>1. Downstream(st, n) \subseteq Open(st)
  BY DEF Downstream
<1>2. ASSUME NEW m \in Open(st), n \in Preds[m] \/ Preds[m] \cap Downstream(st, n) # {}
      PROVE  m \in Downstream(st, n)
  <2>1. ASSUME NEW S \in SUBSET Nodes, WalkClosed(st, n, S)
        PROVE  m \in S
    <3>1. Downstream(st, n) \subseteq S
      BY <2>1 DEF Downstream
    <3>2. n \in Preds[m] \/ Preds[m] \cap S # {}
      BY <1>2, <3>1
    <3> QED
      BY <2>1, <3>2 DEF WalkClosed
  <2> QED
    BY <2>1 DEF Downstream
<1> QED
  BY <1>1, <1>2 DEF WalkClosed

(* What failing n does to the node states: n gets its outcome, some open   *)
(* nodes are canceled, everything else stays, and no open node is left     *)
(* among the successors of n or of the nodes canceled with it.             *)
LEMMA FailEffect ==
  ASSUME NEW st \in [Nodes -> NodeStates], NEW n \in Nodes,
         NEW how \in {"FAILED", "DEAD_LETTERED"}
  PROVE  LET f == Fail(st, n, how)
         IN  /\ f \in [Nodes -> NodeStates]
             /\ f[n] = how
             /\ \A m \in Nodes \ {n} :
                  f[m] = st[m] \/ (st[m] \notin Terminal /\ f[m] = "CANCELED")
             /\ \A m \in Nodes : n \in Preds[m] => f[m] \in Terminal
             /\ \A m \in Nodes, p \in Nodes \ {n} :
                  p \in Preds[m] /\ f[p] # st[p] => f[m] \in Terminal
<1> DEFINE failed == [st EXCEPT ![n] = how]
           D == Downstream(failed, n)
           f == Fail(st, n, how)
<1>1. D \subseteq Open(failed) /\ WalkClosed(failed, n, D)
  BY DownstreamClosed
<1>2. f = [m \in Nodes |-> IF m \in D THEN "CANCELED" ELSE failed[m]]
  BY DEF Fail
<1>3. n \notin D
  BY <1>1 DEF Open, Terminal, Unsuccessful
<1>4. f \in [Nodes -> NodeStates] /\ f[n] = how
  BY <1>2, <1>3 DEF NodeStates
<1>5. \A m \in Nodes \ {n} :
        f[m] = st[m] \/ (st[m] \notin Terminal /\ f[m] = "CANCELED")
  BY <1>1, <1>2 DEF Open
<1>6. \A m \in Nodes : m \notin D /\ m \in Open(failed) =>
        n \notin Preds[m] /\ Preds[m] \cap D = {}
  BY <1>1 DEF WalkClosed
<1>7. \A m \in Nodes : f[m] \notin Terminal => m \notin D /\ m \in Open(failed)
  BY <1>2 DEF Open, Terminal, Unsuccessful
<1>8. \A p \in Nodes \ {n} : f[p] # st[p] => p \in D
  BY <1>2
<1> HIDE DEF D, f
<1>9. \A m \in Nodes : n \in Preds[m] => f[m] \in Terminal
  BY <1>6, <1>7
<1>10. \A m \in Nodes, p \in Nodes \ {n} :
        p \in Preds[m] /\ f[p] # st[p] => f[m] \in Terminal
  BY <1>6, <1>7, <1>8
<1> QED
  BY <1>4, <1>5, <1>9, <1>10 DEF f

(* The walk only cancels nodes that still wait for a predecessor: from a   *)
(* node that has not succeeded it never reaches one whose predecessors     *)
(* have all succeeded.                                                     *)
LEMMA DownstreamWaits ==
  ASSUME NEW st, NEW n \in Nodes, st[n] # "SUCCEEDED"
  PROVE  \A m \in Downstream(st, n) : ~ PredsSucceeded(st, m)
<1> DEFINE S == {m \in Open(st) : ~ PredsSucceeded(st, m)}
<1>1. S \in SUBSET Nodes
  BY DEF Open
<1>2. WalkClosed(st, n, S)
  <2> SUFFICES ASSUME NEW m \in Open(st), n \in Preds[m] \/ Preds[m] \cap S # {}
               PROVE  ~ PredsSucceeded(st, m)
    BY DEF WalkClosed
  <2>1. \A p \in S : st[p] # "SUCCEEDED"
    BY DEF Open, Terminal
  <2> QED
    BY <2>1 DEF PredsSucceeded
<1>3. Downstream(st, n) \subseteq S
  BY <1>1, <1>2 DEF Downstream
<1> QED
  BY <1>3

(* What completing n does: n has succeeded, the blocked successors whose   *)
(* predecessors have all succeeded are ready, everything else stays.       *)
LEMMA SucceedEffect ==
  ASSUME NEW st \in [Nodes -> NodeStates], NEW n \in Nodes, st[n] # "BLOCKED"
  PROVE  LET f == Succeed(st, n)
         IN  /\ f \in [Nodes -> NodeStates]
             /\ f[n] = "SUCCEEDED"
             /\ \A p \in Nodes : f[p] = "SUCCEEDED" <=> p = n \/ st[p] = "SUCCEEDED"
             /\ \A m \in Nodes \ {n} :
                  f[m] = IF n \in Preds[m] /\ st[m] = "BLOCKED" /\ PredsSucceeded(f, m)
                         THEN "READY" ELSE st[m]
<1> DEFINE done == [st EXCEPT ![n] = "SUCCEEDED"]
           f == Succeed(st, n)
<1>1. done \in [Nodes -> NodeStates]
  BY DEF NodeStates
<1>2. f = [m \in Nodes |->
             IF m \in Succs(n) /\ done[m] = "BLOCKED" /\ PredsSucceeded(done, m)
             THEN "READY" ELSE done[m]]
  BY DEF Succeed
<1>3. \A p \in Nodes : f[p] = "SUCCEEDED" <=> done[p] = "SUCCEEDED"
  BY <1>2
<1>4. \A m \in Nodes : PredsSucceeded(f, m) <=> PredsSucceeded(done, m)
  BY <1>3, SameSucceeded
<1>5. done[n] = "SUCCEEDED" /\ \A m \in Nodes \ {n} : done[m] = st[m]
  OBVIOUS
<1> HIDE DEF done, f
<1>6. f \in [Nodes -> NodeStates]
  BY <1>1, <1>2 DEF NodeStates
<1>7. f[n] = "SUCCEEDED"
  BY <1>3, <1>5
<1>8. \A p \in Nodes : f[p] = "SUCCEEDED" <=> p = n \/ st[p] = "SUCCEEDED"
  BY <1>3, <1>5
<1>9. \A m \in Nodes \ {n} :
        f[m] = IF n \in Preds[m] /\ st[m] = "BLOCKED" /\ PredsSucceeded(f, m)
               THEN "READY" ELSE st[m]
  BY <1>2, <1>4, <1>5 DEF Succs
<1> QED
  BY <1>6, <1>7, <1>8, <1>9 DEF f

(* The state a row is restored to: its own, but for a blocked node it is   *)
(* the rows of the predecessors that say.                                  *)
LEMMA RestoreAt ==
  ASSUME NEW rows \in [Nodes -> RowStatus], NEW n \in Nodes
  PROVE  Restore(rows)[n] =
           IF rows[n] \in {"absent", "blocked"}
           THEN IF \A p \in Preds[n] : rows[p] = "succeeded" THEN "READY" ELSE "BLOCKED"
           ELSE RestoredState(rows[n])
<1> DEFINE st == [m \in Nodes |-> RestoredState(rows[m])]
<1>1. \A m \in Nodes : /\ st[m] = "SUCCEEDED" <=> rows[m] = "succeeded"
                       /\ st[m] = "BLOCKED" <=> rows[m] \in {"absent", "blocked"}
  BY DEF RestoredState, RowStatus
<1>2. PredsSucceeded(st, n) <=> \A p \in Preds[n] : rows[p] = "succeeded"
  BY <1>1, PredsAreNodes DEF PredsSucceeded
<1>3. Restore(rows)[n] = IF st[n] = "BLOCKED" /\ PredsSucceeded(st, n)
                         THEN "READY" ELSE st[n]
  BY DEF Restore, Unblock
<1> QED
  BY <1>1, <1>2, <1>3

(* What reconstruct makes of coherent rows.                                *)
LEMMA RestoreEffect ==
  ASSUME NEW rows \in [Nodes -> RowStatus], RowsCoherent(rows)
  PROVE  LET r == Restore(rows)
         IN  /\ r \in [Nodes -> NodeStates]
             /\ \A n \in Nodes :
                  r[n] \in {"READY", "RUNNING", "RETRY_WAIT", "SUCCEEDED"} =>
                    PredsSucceeded(r, n)
             /\ \A n \in Nodes : r[n] = "BLOCKED" => ~ PredsSucceeded(r, n)
             /\ \A n \in Nodes : r[n] # "DISPATCHED"
             /\ \A n \in Nodes, p \in Nodes :
                  p \in Preds[n] /\ r[p] \in Unsuccessful => r[n] \in Unsuccessful
<1> DEFINE st == [n \in Nodes |-> RestoredState(rows[n])]
           r == Restore(rows)
<1>1. \A n \in Nodes :
        /\ st[n] \in NodeStates \ {"DISPATCHED"}
        /\ st[n] = "SUCCEEDED" <=> rows[n] = "succeeded"
        /\ st[n] \in Unsuccessful <=> rows[n] \in {"failed", "dead_lettered", "canceled"}
        /\ st[n] = "CANCELED" <=> rows[n] = "canceled"
        /\ st[n] = "BLOCKED" <=> rows[n] \in {"absent", "blocked"}
  BY DEF RestoredState, RowStatus, NodeStates, Unsuccessful
<1>2. r = Unblock(st)
  BY DEF Restore
<1> HIDE DEF st, r
<1>3. st \in [Nodes -> NodeStates]
  BY <1>1 DEF st
<1>4. \A n \in Nodes : r[n] =
        IF st[n] = "BLOCKED" /\ PredsSucceeded(st, n) THEN "READY" ELSE st[n]
  BY <1>2 DEF Unblock
<1>5. r \in [Nodes -> NodeStates]
  BY <1>2, <1>3 DEF Unblock, NodeStates
<1>6. \A n \in Nodes : r[n] = "SUCCEEDED" <=> st[n] = "SUCCEEDED"
  BY <1>4
<1>7. \A n \in Nodes : PredsSucceeded(r, n) <=> PredsSucceeded(st, n)
  BY <1>6, SameSucceeded
<1>8. \A n \in Nodes : rows[n] \notin {"absent", "blocked", "canceled"} =>
        PredsSucceeded(st, n)
  BY <1>1, PredsAreNodes DEF RowsCoherent, PredsSucceeded
<1>9. \A n \in Nodes :
        r[n] \in {"READY", "RUNNING", "RETRY_WAIT", "SUCCEEDED"} => PredsSucceeded(r, n)
  BY <1>1, <1>4, <1>7, <1>8 DEF Unsuccessful
<1>10. \A n \in Nodes : r[n] = "BLOCKED" => ~ PredsSucceeded(r, n)
  BY <1>4, <1>7
<1>11. \A n \in Nodes : r[n] # "DISPATCHED"
  BY <1>1, <1>4
<1>12. \A n \in Nodes, p \in Nodes :
         p \in Preds[n] /\ r[p] \in Unsuccessful => r[n] \in Unsuccessful
  BY <1>1, <1>4 DEF RowsCoherent, Unsuccessful
<1> QED
  BY <1>5, <1>9, <1>10, <1>11, <1>12 DEF r

=============================================================================
