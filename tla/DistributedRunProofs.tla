------------------------ MODULE DistributedRunProofs ------------------------
(***************************************************************************)
(* Proofs, for every finite acyclic graph, every retry policy, every set   *)
(* of faults and any number of mishaps, of the invariants MCDistributedRun *)
(* checks on two graphs.                                                   *)
(*                                                                         *)
(* The theorems that hold only when the scheduler does not die at certain  *)
(* points of a call say so in their statement: these points are the        *)
(* windows a death in which leaves rows no restart can read back.          *)
(***************************************************************************)
EXTENDS DistributedRun, RunGraphProofs, SequenceTheorems

(* Deaths that leave a node recorded as in flight without an attempt the   *)
(* lease scan could report.                                                *)
WedgePoints ==
  {"dispatch.dispatched", "dispatch.recorded", "dispatch.running", "reap.marked",
   "fail.attempt_finished"}

(* Deaths that leave some of the rows of one write-out unwritten.          *)
PartialPoints == {"create.partial", "fail.completed", "cancel.partial", "stop.partial"}

EndedRow == {"succeeded", "failed", "canceled"}

InFlightRow == {"dispatched", "running"}

-----------------------------------------------------------------------------
(* The inductive invariant, in four parts.                                 *)

(* Messages. What is in flight names attempts that were recorded. A node   *)
(* without a row has none, and its tasks are only answered by a worker     *)
(* that heard of the cancellation and did not execute them.                *)
TaskSound(t) ==
  /\ \E m \in Nodes : nodeRow[m] # "absent"
  /\ nodeRow[t[1]] # "absent" => t[2] <= Len(attempts[t[1]])

ResultSound(r) ==
  TaskSound(Key(r)) /\ (r.outcome # "fatal" => nodeRow[r.node] # "absent")

StreamSound(s) == \A i \in DOMAIN s : ResultSound(s[i])

MessagesSound ==
  /\ \A t \in taskQueue \cup held : TaskSound(t)
  /\ \A t \in held : nodeRow[t[1]] # "absent"
  /\ StreamSound(resultStream) /\ StreamSound(pel) /\ StreamSound(batch)
  /\ \A l \in expired : l.attempt \in DOMAIN attempts[l.node]

(* Phases. The run row follows the loop, a loop that has not started has   *)
(* a fresh memory, and it starts afresh only where there are no rows.      *)
NoRows == \A n \in Nodes : nodeRow[n] = "absent"

Phases ==
  /\ pc \in Loop => runRow \notin EndedRow
  /\ pc = "done" => runRow \in EndedRow
  /\ Driving => /\ runRow = "running"
                /\ Nodes = {} \/ ~ NoRows
  /\ pc = "start" => NoRows

FreshMemory ==
  pc \in {"start", "down"} =>
    /\ nodeState = [n \in Nodes |-> "BLOCKED"]
    /\ current = [n \in Nodes |-> 0]
    /\ retryDue = {} /\ quotaHeld = {} /\ usage = 0
    /\ expired = {} /\ batch = <<>>

(* The stamp on the run row is known to the loop, unless a death between   *)
(* the run row and the first node row makes the next loop start afresh.    *)
StampKnown ==
  /\ stampPending => cancelReq /\ pc # "down"
  /\ ("create.run" \notin CrashPoints /\ Nodes # {}) =>
        /\ pc \in Loop /\ cancelStamp => cancelReq
        /\ NoRows => runRow = "queued"

(* Rows. What the row of a node says of its attempts. A node that may      *)
(* still be tried has failed less often than its policy allows; a death    *)
(* can leave one that has spent it in flight for ever.                     *)
Failures(h) == {k \in DOMAIN h : h[k].status = "failed"}

Lapses(h) == {k \in DOMAIN h : h[k].status = "lease_expired"}

Waits(row, h) ==
  /\ row \in {"absent", "blocked"} => h = <<>>
  /\ row \in {"ready", "retry_wait"} => \A k \in DOMAIN h : h[k].status # "running"
  /\ \A k \in DOMAIN h : h[k].status = "succeeded" => row = "succeeded"
  /\ \A k \in DOMAIN h : h[k].status = "running" => k = Len(h)

Budgeted(n, row, h) ==
  /\ Cardinality(Failures(h)) <= RetryMax[n]
  /\ Len(h) <= RetryMax[n] + Cardinality(Lapses(h))
  /\ row \notin RowTerminal =>
       \/ Cardinality(Failures(h)) < RetryMax[n]
       \/ row \in InFlightRow /\ h[Len(h)].status = "failed"

Leased(row, h) ==
  (CrashPoints \cap WedgePoints = {} /\ row \in InFlightRow) =>
    h # <<>> /\ h[Len(h)].status = "running" /\ h[Len(h)].lease # "none"

HistorySound(n, row, h) == Waits(row, h) /\ Budgeted(n, row, h) /\ Leased(row, h)

(* What the rows say of each other: a node was tried or readied only after *)
(* its predecessors' success, one browser node is in flight, and rows are  *)
(* missing, or can not be resumed from, after certain deaths only.         *)
PredsDone(n) == \A p \in Preds[n] : nodeRow[p] = "succeeded"

Started(n) == nodeRow[n] \notin {"absent", "blocked", "canceled"} \/ attempts[n] # <<>>

NodeSound(n) ==
  HistorySound(n, nodeRow[n], attempts[n]) /\ (Started(n) => PredsDone(n))

OneBrowserRow ==
  \A m, n \in BrowserNodes :
    nodeRow[m] \in InFlightRow /\ nodeRow[n] \in InFlightRow => m = n

AllRows ==
  "create.partial" \notin CrashPoints => NoRows \/ \A n \in Nodes : nodeRow[n] # "absent"

NoneStranded(rows) ==
  \A n \in Nodes : \A p \in Preds[n] :
    rows[p] \in {"failed", "dead_lettered", "canceled"} => rows[n] = "canceled"

NoStrandedRows == CrashPoints \cap PartialPoints = {} => NoneStranded(nodeRow)

RowsInv == (\A n \in Nodes : NodeSound(n)) /\ OneBrowserRow /\ AllRows /\ NoStrandedRows

(* Memory. The loop's memory is what a restart would make of the rows; a   *)
(* node without a row can be tried in memory and never succeeds there.     *)
RowState(n) ==
  IF nodeRow[n] = "blocked" THEN IF PredsDone(n) THEN "READY" ELSE "BLOCKED"
  ELSE RestoredState(nodeRow[n])

MemorySound(n) ==
  IF nodeRow[n] = "absent"
  THEN /\ nodeState[n] \in {"BLOCKED", "READY", "RUNNING", "FAILED", "CANCELED"}
       /\ nodeState[n] \in {"READY", "RUNNING"} => PredsDone(n)
  ELSE nodeState[n] = RowState(n) /\ current[n] = Len(attempts[n])

MemoryFits ==
  Driving => /\ \A n \in Nodes : MemorySound(n)
             /\ retryDue = {n \in Nodes : nodeRow[n] = "retry_wait"}

Busy(n) == nodeState[n] = "RUNNING"

SlotsFit ==
  Driving =>
    /\ quotaHeld = {n \in Nodes : Busy(n)}
    /\ usage = IF \E n \in BrowserNodes : Busy(n) THEN 1 ELSE 0
    /\ \A m, n \in BrowserNodes : Busy(m) /\ Busy(n) => m = n

IInv ==
  /\ TypeOK
  /\ MessagesSound
  /\ Phases /\ FreshMemory /\ StampKnown
  /\ RowsInv
  /\ MemoryFits /\ SlotsFit
  /\ FinishedRunIsSettled

-----------------------------------------------------------------------------
(* The operations on attempts.                                             *)

AttemptTable == [Nodes -> Seq(Attempt)]

(* The indices, the elements and the last element of a sequence.           *)
LEMMA SeqFacts ==
  ASSUME NEW S, NEW seq \in Seq(S)
  PROVE  /\ DOMAIN seq = 1 .. Len(seq) /\ Len(seq) \in Nat
         /\ \A k \in DOMAIN seq : seq[k] \in S
         /\ seq = <<>> => Len(seq) = 0 /\ DOMAIN seq = {}
         /\ seq # <<>> => Len(seq) # 0 /\ Len(seq) \in DOMAIN seq
<1>1. DOMAIN seq = 1 .. Len(seq) /\ Len(seq) \in Nat
  BY LenProperties
<1>2. \A k \in DOMAIN seq : seq[k] \in S
  BY LenProperties
<1>3. seq = <<>> <=> Len(seq) = 0
  BY EmptySeq
<1>4. Len(seq) # 0 => Len(seq) \in 1 .. Len(seq)
  BY <1>1
<1>5. Len(seq) = 0 => 1 .. Len(seq) = {}
  BY <1>1
<1> QED
  BY <1>1, <1>2, <1>3, <1>4, <1>5

(* record_attempt adds a running attempt at the end of the node's attempts *)
(* unless the node has no row.                                             *)
LEMMA RecordEffect ==
  ASSUME TypeOK, NEW n \in Nodes, NEW lease \in {"none", "live", "lapsed"}
  PROVE  LET new == RecordAttempt(n, lease)
         IN  /\ new \in AttemptTable
             /\ \A m \in Nodes : m # n \/ nodeRow[n] = "absent" => new[m] = attempts[m]
             /\ nodeRow[n] # "absent" =>
                  /\ Len(new[n]) = Len(attempts[n]) + 1
                  /\ DOMAIN new[n] = DOMAIN attempts[n] \cup {Len(attempts[n]) + 1}
                  /\ \A k \in DOMAIN attempts[n] : new[n][k] = attempts[n][k]
                  /\ new[n][Len(attempts[n]) + 1] =
                       [status |-> "running", lease |-> lease, claimed |-> FALSE]
<1> DEFINE new == RecordAttempt(n, lease)
           att == [status |-> "running", lease |-> lease, claimed |-> FALSE]
<1>1. attempts \in AttemptTable /\ attempts[n] \in Seq(Attempt) /\ att \in Attempt
  BY DEF TypeOK, AttemptTable, Attempt
<1>2. /\ Append(attempts[n], att) \in Seq(Attempt)
      /\ Len(Append(attempts[n], att)) = Len(attempts[n]) + 1
      /\ \A k \in 1 .. Len(attempts[n]) : Append(attempts[n], att)[k] = attempts[n][k]
      /\ Append(attempts[n], att)[Len(attempts[n]) + 1] = att
  BY <1>1, AppendProperties
<1>3. /\ DOMAIN attempts[n] = 1 .. Len(attempts[n]) /\ Len(attempts[n]) \in Nat
      /\ DOMAIN Append(attempts[n], att) = 1 .. Len(attempts[n]) + 1
  BY <1>1, <1>2, LenProperties
<1>4. new = IF nodeRow[n] = "absent" THEN attempts
            ELSE [attempts EXCEPT ![n] = Append(attempts[n], att)]
  BY DEF RecordAttempt
<1> HIDE DEF new, att
<1>5. CASE nodeRow[n] = "absent"
  BY <1>1, <1>4, <1>5 DEF new
<1>6. CASE nodeRow[n] # "absent"
  <2>1. /\ new \in AttemptTable
        /\ new[n] = Append(attempts[n], att)
        /\ \A m \in Nodes \ {n} : new[m] = attempts[m]
    BY <1>1, <1>2, <1>4, <1>6 DEF AttemptTable
  <2>2. 1 .. Len(attempts[n]) + 1 = 1 .. Len(attempts[n]) \cup {Len(attempts[n]) + 1}
    BY <1>3
  <2> QED
    BY <1>2, <1>3, <1>6, <2>1, <2>2 DEF new, att
<1> QED
  BY <1>5, <1>6

Rewritten(n, k, a) == [attempts EXCEPT ![n][k] = a]

OneRewritten(new, n, k, a) ==
  /\ new \in AttemptTable
  /\ \A m \in Nodes : DOMAIN new[m] = DOMAIN attempts[m] /\ Len(new[m]) = Len(attempts[m])
  /\ \A m \in Nodes : \A j \in DOMAIN attempts[m] :
       new[m][j] = IF m = n /\ j = k THEN a ELSE attempts[m][j]

(* A write to one attempt keeps the number of attempts and every other     *)
(* one.                                                                    *)
LEMMA RewriteEffect ==
  ASSUME TypeOK, NEW n \in Nodes, NEW k \in Nat \ {0}, NEW a,
         k \in DOMAIN attempts[n] => a \in Attempt
  PROVE  OneRewritten(Rewritten(n, k, a), n, k, a)
<1> DEFINE new == Rewritten(n, k, a)
           seq == [attempts[n] EXCEPT ![k] = a]
<1>1. /\ attempts \in AttemptTable /\ attempts[n] \in Seq(Attempt)
      /\ DOMAIN attempts[n] = 1 .. Len(attempts[n]) /\ Len(attempts[n]) \in Nat
      /\ attempts[n] \in [1 .. Len(attempts[n]) -> Attempt]
  BY LenProperties DEF TypeOK, AttemptTable
<1>2. new = [attempts EXCEPT ![n] = seq]
  BY <1>1 DEF Rewritten
<1>3. /\ seq \in Seq(Attempt) /\ Len(seq) = Len(attempts[n])
      /\ DOMAIN seq = DOMAIN attempts[n]
      /\ \A j \in DOMAIN attempts[n] : seq[j] = IF j = k THEN a ELSE attempts[n][j]
  <2>1. CASE k \in DOMAIN attempts[n]
    BY <1>1, <2>1, ExceptSeq, LenProperties
  <2>2. CASE k \notin DOMAIN attempts[n]
    BY <1>1, <2>2
  <2> QED
    BY <2>1, <2>2
<1> HIDE DEF new, seq
<1>4. new \in AttemptTable /\ new[n] = seq /\ \A m \in Nodes \ {n} : new[m] = attempts[m]
  BY <1>1, <1>2, <1>3 DEF AttemptTable
<1> QED
  BY <1>3, <1>4 DEF new, OneRewritten

(* The end of an attempt changes the status of that attempt and of no      *)
(* other.                                                                  *)
LEMMA FinishEffect ==
  ASSUME TypeOK, NEW r, r.node \in Nodes, r.attempt \in Nat \ {0},
         NEW status \in {"running", "succeeded", "failed", "lease_expired"}
  PROVE  LET new == FinishAttempt(r, status)
         IN  /\ new \in AttemptTable
             /\ \A m \in Nodes : /\ DOMAIN new[m] = DOMAIN attempts[m]
                                 /\ Len(new[m]) = Len(attempts[m])
             /\ \A m \in Nodes : \A j \in DOMAIN attempts[m] :
                  /\ new[m][j].status = IF m = r.node /\ j = r.attempt THEN status
                                        ELSE attempts[m][j].status
                  /\ new[m][j].lease = attempts[m][j].lease
<1> DEFINE old == attempts[r.node][r.attempt]
           a == [old EXCEPT !.status = status]
<1>1. FinishAttempt(r, status) = Rewritten(r.node, r.attempt, a)
  BY DEF FinishAttempt, Rewritten, TypeOK
<1>2. ASSUME NEW m \in Nodes, NEW j \in DOMAIN attempts[m]
      PROVE  attempts[m][j] \in Attempt
  BY <1>2, LenProperties DEF TypeOK
<1>3. r.attempt \in DOMAIN attempts[r.node] =>
        a \in Attempt /\ a.status = status /\ a.lease = old.lease
  BY <1>2 DEF Attempt
<1> HIDE DEF a, old
<1>4. OneRewritten(Rewritten(r.node, r.attempt, a), r.node, r.attempt, a)
  BY <1>3, RewriteEffect
<1> QED
  BY <1>1, <1>3, <1>4 DEF old, OneRewritten

(* Claiming an attempt, and a lease that lapses or is renewed: statuses    *)
(* stay, and a lease that was there is still there.                        *)
LeaseWrite(t, lease) == [attempts EXCEPT ![t[1]][t[2]].lease = lease]

ClaimWrite(t) == [attempts EXCEPT ![t[1]][t[2]].claimed = TRUE, ![t[1]][t[2]].lease = "live"]

LeaseSet(new, t, lease) ==
  /\ new \in AttemptTable
  /\ \A m \in Nodes : DOMAIN new[m] = DOMAIN attempts[m] /\ Len(new[m]) = Len(attempts[m])
  /\ \A m \in Nodes : \A j \in DOMAIN attempts[m] :
       /\ new[m][j].status = attempts[m][j].status
       /\ new[m][j].lease = IF m = t[1] /\ j = t[2] THEN lease ELSE attempts[m][j].lease

(* A lease is written for one attempt, by the service, a heartbeat or a    *)
(* claim.                                                                  *)
LEMMA LeaseEffect ==
  ASSUME TypeOK, NEW t \in AttemptIds, Running(t), NEW lease \in {"live", "lapsed"}
  PROVE  LeaseSet(LeaseWrite(t, lease), t, lease) /\ LeaseSet(ClaimWrite(t), t, "live")
<1> DEFINE n == t[1]
           k == t[2]
           old == attempts[n][k]
           changed == [old EXCEPT !.lease = lease]
           claimed == [old EXCEPT !.claimed = TRUE, !.lease = "live"]
<1>1. n \in Nodes /\ k \in Nat \ {0} /\ attempts[n] \in Seq(Attempt)
  BY DEF AttemptIds, TypeOK
<1>2. k \in DOMAIN attempts[n] /\ n \in DOMAIN attempts
  <2>1. k <= Len(attempts[n])
    BY DEF Running
  <2>2. DOMAIN attempts[n] = 1 .. Len(attempts[n]) /\ Len(attempts[n]) \in Nat
    BY <1>1, SeqFacts
  <2> QED
    BY <1>1, <2>1, <2>2 DEF TypeOK
<1>3. old \in Attempt
  BY <1>1, <1>2, SeqFacts
<1>4. /\ changed \in Attempt /\ changed.status = old.status /\ changed.lease = lease
      /\ claimed \in Attempt /\ claimed.status = old.status /\ claimed.lease = "live"
  BY <1>3 DEF Attempt
<1>5. LeaseWrite(t, lease) = Rewritten(n, k, changed)
  BY <1>2 DEF LeaseWrite, Rewritten
<1>6. ClaimWrite(t) = Rewritten(n, k, claimed)
  BY <1>2 DEF ClaimWrite, Rewritten
<1> HIDE DEF changed, claimed
<1>7. ASSUME NEW a \in Attempt, NEW to, a.status = old.status, a.lease = to
      PROVE  LeaseSet(Rewritten(n, k, a), t, to)
  <2> HIDE DEF old, n, k
  <2>1. OneRewritten(Rewritten(n, k, a), n, k, a)
    <3>1. n \in Nodes /\ k \in Nat \ {0}
      BY <1>1
    <3>2. k \in DOMAIN attempts[n] => a \in Attempt
      BY <1>7
    <3> QED
      BY <3>1, <3>2, RewriteEffect
  <2> QED
    BY <1>7, <2>1 DEF LeaseSet, OneRewritten, old, n, k
<1> QED
  BY <1>4, <1>5, <1>6, <1>7

-----------------------------------------------------------------------------
(* Histories of attempts.                                                  *)

(* The first n numbers.                                                    *)
LEMMA FirstNumbers ==
  ASSUME NEW n \in Nat
  PROVE  /\ IsFiniteSet(1 .. n) /\ Cardinality(1 .. n) = n
         /\ n # 0 => /\ n - 1 \in Nat /\ n \in 1 .. n
                     /\ 1 .. n = (1 .. n - 1) \cup {n}
         /\ \A k \in 1 .. n - 1 : k \in 1 .. n /\ k # n
         /\ \A k \in 1 .. n + 1 : k \in 1 .. n \/ k = n + 1
         /\ \A k \in 1 .. n : k \in 1 .. n + 1 /\ k # n + 1
<1>1. /\ IsFiniteSet(1 .. n)
      /\ Cardinality(1 .. n) = IF 1 > n THEN 0 ELSE n - 1 + 1
  <2>1. 1 \in Int /\ n \in Int
    OBVIOUS
  <2> QED
    BY <2>1, FS_Interval
<1>2. (IF 1 > n THEN 0 ELSE n - 1 + 1) = n
  OBVIOUS
<1>3. n # 0 => /\ n - 1 \in Nat /\ n \in 1 .. n
               /\ 1 .. n = (1 .. n - 1) \cup {n}
  OBVIOUS
<1>4. /\ \A k \in 1 .. n - 1 : k \in 1 .. n /\ k # n
      /\ \A k \in 1 .. n + 1 : k \in 1 .. n \/ k = n + 1
      /\ \A k \in 1 .. n : k \in 1 .. n + 1 /\ k # n + 1
  OBVIOUS
<1> QED
  BY <1>1, <1>2, <1>3, <1>4

(* The failures and lapses of a history are disjoint finite sets of its    *)
(* attempts.                                                               *)
LEMMA HistoryCounts ==
  ASSUME NEW h \in Seq(Attempt)
  PROVE  /\ IsFiniteSet(Failures(h)) /\ IsFiniteSet(Lapses(h))
         /\ Cardinality(Failures(h)) \in Nat /\ Cardinality(Lapses(h)) \in Nat
         /\ Cardinality(Failures(h)) <= Len(h)
         /\ Cardinality(Failures(h) \cup Lapses(h)) =
              Cardinality(Failures(h)) + Cardinality(Lapses(h))
         /\ DOMAIN h = 1 .. Len(h) /\ Len(h) \in Nat
         /\ \A k \in DOMAIN h : h[k] \in Attempt
         /\ h = <<>> => Len(h) = 0 /\ DOMAIN h = {}
         /\ h # <<>> => Len(h) # 0 /\ Len(h) \in DOMAIN h
<1>1. /\ DOMAIN h = 1 .. Len(h) /\ Len(h) \in Nat
      /\ \A k \in DOMAIN h : h[k] \in Attempt
      /\ h = <<>> => Len(h) = 0 /\ DOMAIN h = {}
      /\ h # <<>> => Len(h) # 0 /\ Len(h) \in DOMAIN h
  BY SeqFacts
<1>2. IsFiniteSet(1 .. Len(h)) /\ Cardinality(1 .. Len(h)) = Len(h)
  BY <1>1, FirstNumbers
<1>3. Failures(h) \subseteq 1 .. Len(h) /\ Lapses(h) \subseteq 1 .. Len(h)
  BY <1>1 DEF Failures, Lapses
<1>4. /\ IsFiniteSet(Failures(h)) /\ IsFiniteSet(Lapses(h))
      /\ Cardinality(Failures(h)) <= Len(h)
  BY <1>2, <1>3, FS_Subset
<1>5. Cardinality(Failures(h)) \in Nat /\ Cardinality(Lapses(h)) \in Nat
  BY <1>4, FS_CardinalityType
<1>6. Failures(h) \cap Lapses(h) = {}
  BY DEF Failures, Lapses
<1>7. Cardinality(Failures(h) \cup Lapses(h)) =
        Cardinality(Failures(h)) + Cardinality(Lapses(h))
  <2>1. Cardinality(Failures(h) \cup Lapses(h)) =
          Cardinality(Failures(h)) + Cardinality(Lapses(h))
            - Cardinality(Failures(h) \cap Lapses(h))
    BY <1>4, FS_Union
  <2>2. Cardinality(Failures(h) \cap Lapses(h)) = 0
    BY <1>6, FS_EmptySet
  <2> QED
    BY <1>5, <2>1, <2>2
<1> QED
  BY <1>1, <1>4, <1>5, <1>7

(* Where every attempt but perhaps the last failed or lapsed, the two      *)
(* counts add up to the number of attempts.                                *)
LEMMA HistoryLength ==
  ASSUME NEW h \in Seq(Attempt),
         \A k \in DOMAIN h : k = Len(h) \/ h[k].status \in {"failed", "lease_expired"}
  PROVE  /\ Len(h) <= Cardinality(Failures(h)) + Cardinality(Lapses(h)) + 1
         /\ (h # <<>> => h[Len(h)].status \in {"failed", "lease_expired"}) =>
              Len(h) = Cardinality(Failures(h)) + Cardinality(Lapses(h))
<1> DEFINE ended == Failures(h) \cup Lapses(h)
           len == Len(h)
<1>1. /\ DOMAIN h = 1 .. len /\ len \in Nat
      /\ h = <<>> => len = 0
      /\ h # <<>> => len # 0
  BY HistoryCounts
<1>2. ended \subseteq 1 .. len /\ \A k \in 1 .. len : k = len \/ k \in ended
  BY <1>1 DEF Failures, Lapses
<1>3. Cardinality(ended) = Cardinality(Failures(h)) + Cardinality(Lapses(h))
  BY HistoryCounts
<1>4. IsFiniteSet(ended) /\ Cardinality(ended) \in Nat
  BY <1>1, <1>2, FirstNumbers, FS_Subset, FS_CardinalityType
<1>5. CASE len = 0
  <2>1. 1 .. len = {} /\ ended = {}
    BY <1>2, <1>5
  <2>2. Cardinality(ended) = 0
    BY <2>1, FS_EmptySet
  <2> QED
    BY <1>3, <1>5, <2>2
<1>6. CASE len # 0
  <2>1. len - 1 \in Nat /\ len \in 1 .. len /\ 1 .. len = (1 .. len - 1) \cup {len}
    BY <1>1, <1>6, FirstNumbers
  <2>2. IsFiniteSet(1 .. len - 1) /\ Cardinality(1 .. len - 1) = len - 1
    BY <2>1, FirstNumbers
  <2>3. 1 .. len - 1 \subseteq ended
    <3>1. \A k \in 1 .. len - 1 : k \in 1 .. len /\ k # len
      BY <1>1, FirstNumbers
    <3> QED
      BY <1>2, <3>1
  <2>4. len - 1 <= Cardinality(ended)
    BY <1>4, <2>2, <2>3, FS_Subset
  <2>5. ASSUME h # <<>> => h[len].status \in {"failed", "lease_expired"}
        PROVE  len = Cardinality(ended)
    <3>1. len \in ended
      BY <1>1, <1>6, <2>1, <2>5 DEF Failures, Lapses
    <3>2. ended = 1 .. len
      BY <1>2, <3>1
    <3> QED
      BY <1>1, <3>2, FirstNumbers
  <2> QED
    BY <1>1, <1>3, <1>4, <2>4, <2>5
<1> QED
  BY <1>1, <1>5, <1>6

(* A history, and one that a claim, a lapse or a renewal of a lease may    *)
(* turn it into.                                                           *)
SameHistory(h, g) ==
  /\ DOMAIN g = DOMAIN h /\ Len(g) = Len(h)
  /\ \A k \in DOMAIN h : /\ g[k].status = h[k].status
                         /\ h[k].lease # "none" => g[k].lease # "none"

(* Such a step disturbs nothing a row says of the attempts.                *)
LEMMA SameHistorySound ==
  ASSUME NEW h \in Seq(Attempt), NEW g \in Seq(Attempt), SameHistory(h, g),
         NEW n \in Nodes, NEW row, HistorySound(n, row, h)
  PROVE  HistorySound(n, row, g)
<1>1. /\ DOMAIN h = 1 .. Len(h) /\ Len(h) \in Nat
      /\ DOMAIN g = 1 .. Len(h) /\ Len(g) = Len(h)
  BY HistoryCounts DEF SameHistory
<1>2. Failures(g) = Failures(h) /\ Lapses(g) = Lapses(h)
  BY DEF Failures, Lapses, SameHistory
<1>3. h # <<>> => Len(h) \in DOMAIN h
  BY HistoryCounts
<1>4. g = <<>> <=> h = <<>>
  BY <1>1, HistoryCounts
<1>5. Waits(row, g)
  BY <1>1, <1>4 DEF HistorySound, Waits, SameHistory
<1>6. Budgeted(n, row, g)
  <2>1. CASE h = <<>>
    <3>1. Failures(h) = {} /\ Cardinality({}) = 0
      BY <2>1, FS_EmptySet DEF Failures
    <3> QED
      BY <1>1, <1>2, <2>1, <3>1, RunConstants DEF HistorySound, Budgeted
  <2>2. CASE h # <<>>
    BY <1>1, <1>2, <1>3, <2>2 DEF HistorySound, Budgeted, SameHistory
  <2> QED
    BY <2>1, <2>2
<1>7. Leased(row, g)
  BY <1>1, <1>3, <1>4 DEF HistorySound, Leased, SameHistory
<1> QED
  BY <1>5, <1>6, <1>7 DEF HistorySound

(* A node that waits for its turn and is not settled has failed less often *)
(* than its policy allows, so that one more attempt fits.                  *)
LEMMA RecordHistory ==
  ASSUME NEW h \in Seq(Attempt), NEW g \in Seq(Attempt), NEW n \in Nodes,
         NEW row \in {"blocked", "ready"}, HistorySound(n, row, h),
         NEW new \in {"dispatched", "running", "failed"},
         Len(g) = Len(h) + 1,
         \A k \in DOMAIN h : g[k] = h[k],
         g[Len(h) + 1].status = "running",
         CrashPoints \cap WedgePoints = {} => g[Len(h) + 1].lease # "none"
  PROVE  HistorySound(n, new, g)
<1>1. /\ DOMAIN h = 1 .. Len(h) /\ Len(h) \in Nat
      /\ DOMAIN g = 1 .. Len(h) + 1
      /\ \A k \in DOMAIN h : h[k] \in Attempt
  BY HistoryCounts
<1>2. \A k \in DOMAIN h : h[k].status \in {"failed", "lease_expired"}
  BY <1>1, HistoryCounts DEF HistorySound, Waits, Attempt
<1>3. Failures(g) = Failures(h) /\ Lapses(g) = Lapses(h)
  BY <1>1 DEF Failures, Lapses
<1>4. Len(h) = Cardinality(Failures(h)) + Cardinality(Lapses(h))
  <2>1. h # <<>> => Len(h) \in DOMAIN h
    BY HistoryCounts
  <2> QED
    BY <1>2, <2>1, HistoryLength
<1>5. Cardinality(Failures(h)) < RetryMax[n] /\ RetryMax[n] \in Nat
  BY RunConstants DEF HistorySound, Budgeted, RowTerminal, InFlightRow
<1>6. Cardinality(Failures(h)) \in Nat /\ Cardinality(Lapses(h)) \in Nat
  BY HistoryCounts
<1>7. Waits(new, g)
  BY <1>1, <1>2 DEF Waits
<1>8. Budgeted(n, new, g)
  BY <1>1, <1>3, <1>4, <1>5, <1>6 DEF Budgeted
<1>9. Leased(new, g)
  BY <1>1 DEF Leased
<1> QED
  BY <1>7, <1>8, <1>9 DEF HistorySound

(* How the last attempt of a node in flight may end, and the row the end   *)
(* is written with: a retry only below the number of attempts the policy   *)
(* allows, and a row left in flight only by a death.                       *)
Ends(n, h, status, new) ==
  \/ status = "succeeded" /\ new = "succeeded"
  \/ status = "failed" /\ new \in {"failed", "dead_lettered"}
  \/ status = "failed" /\ new = "retry_wait" /\ Len(h) < RetryMax[n]
  \/ /\ status = "failed" /\ new \in InFlightRow
     /\ CrashPoints \cap WedgePoints # {}
  \/ status = "lease_expired" /\ new = "ready" /\ h[Len(h)].status = "running"
  \/ /\ status = "lease_expired" /\ new \in InFlightRow /\ h[Len(h)].status = "running"
     /\ CrashPoints \cap WedgePoints # {}

(* However it ends, the row still tells the truth about the attempts and   *)
(* the budget is kept, also where the attempt had been taken for lost.     *)
LEMMA FinishHistory ==
  ASSUME NEW h \in Seq(Attempt), NEW g \in Seq(Attempt), NEW n \in Nodes,
         NEW row \in InFlightRow, HistorySound(n, row, h), h # <<>>,
         NEW status, NEW new, Ends(n, h, status, new),
         Len(g) = Len(h),
         \A k \in DOMAIN h :
           g[k].status = IF k = Len(h) THEN status ELSE h[k].status
  PROVE  HistorySound(n, new, g)
<1> DEFINE len == Len(h)
           F == Failures(h)
           G == Failures(g)
<1>1. /\ DOMAIN h = 1 .. len /\ DOMAIN g = 1 .. len /\ len \in Nat
      /\ \A k \in DOMAIN h : h[k] \in Attempt
      /\ Len(g) = len
  BY HistoryCounts
<1>2. len \in 1 .. len /\ g # <<>>
  BY <1>1, HistoryCounts
<1>3. /\ IsFiniteSet(F) /\ Cardinality(F) \in Nat
      /\ IsFiniteSet(G) /\ Cardinality(G) \in Nat /\ Cardinality(G) <= len
      /\ Cardinality(Lapses(g)) \in Nat /\ RetryMax[n] \in Nat
  BY <1>1, HistoryCounts, RunConstants
<1>4. \A k \in 1 .. len : k = len \/ h[k].status \in {"failed", "lease_expired"}
  BY <1>1 DEF HistorySound, Waits, Attempt, InFlightRow
<1>5. /\ status = "failed" => G = F \cup {len}
      /\ status # "failed" => G = F \ {len}
  BY <1>1, <1>2 DEF Failures
<1>6. /\ len \in F => Cardinality(F \cup {len}) = Cardinality(F)
      /\ len \notin F => Cardinality(F \cup {len}) = Cardinality(F) + 1
      /\ len \in F => Cardinality(F \ {len}) = Cardinality(F) - 1
      /\ len \notin F => Cardinality(F \ {len}) = Cardinality(F)
  BY <1>3, FS_AddElement, FS_RemoveElement
<1>7. /\ Cardinality(F) <= RetryMax[n]
      /\ Cardinality(F) < RetryMax[n] \/ len \in F
  BY <1>1, <1>2 DEF HistorySound, Budgeted, Failures, InFlightRow, RowTerminal
<1>8. /\ Cardinality(G) <= RetryMax[n]
      /\ status # "failed" => Cardinality(G) < RetryMax[n]
  <2>1. CASE status = "failed"
    <3>1. G = F \cup {len}
      BY <1>5, <2>1
    <3>2. CASE len \in F
      BY <1>3, <1>6, <1>7, <2>1, <3>1, <3>2
    <3>3. CASE len \notin F
      BY <1>3, <1>6, <1>7, <2>1, <3>1, <3>3
    <3> QED
      BY <3>2, <3>3
  <2>2. CASE status # "failed"
    <3>1. G = F \ {len}
      BY <1>5, <2>2
    <3>2. CASE len \in F
      BY <1>3, <1>6, <1>7, <3>1, <3>2
    <3>3. CASE len \notin F
      BY <1>3, <1>6, <1>7, <3>1, <3>3
    <3> QED
      BY <3>2, <3>3
  <2> QED
    BY <2>1, <2>2
<1>9. \A k \in DOMAIN g : k = Len(g) \/ g[k].status \in {"failed", "lease_expired"}
  BY <1>1, <1>4
<1>10. /\ Len(g) <= Cardinality(G) + Cardinality(Lapses(g)) + 1
       /\ status \in {"failed", "lease_expired"} =>
            Len(g) = Cardinality(G) + Cardinality(Lapses(g))
  BY <1>1, <1>2, <1>9, HistoryLength
<1>11. status = "failed" => len \in G /\ g[len].status = "failed"
  BY <1>1, <1>2 DEF Failures
<1>12. Waits(new, g)
  BY <1>1, <1>2, <1>4 DEF Waits, Ends, InFlightRow
<1>13. Budgeted(n, new, g)
  <2>1. Len(g) <= RetryMax[n] + Cardinality(Lapses(g))
    BY <1>3, <1>8, <1>10 DEF Ends
  <2>2. ASSUME new \notin RowTerminal
        PROVE  \/ Cardinality(G) < RetryMax[n]
               \/ new \in InFlightRow /\ g[len].status = "failed"
    BY <1>1, <1>3, <1>8, <1>11, <2>2 DEF Ends, RowTerminal
  <2> QED
    BY <1>1, <1>8, <2>1, <2>2 DEF Budgeted
<1>14. Leased(new, g)
  BY DEF Leased, Ends, InFlightRow
<1> QED
  BY <1>12, <1>13, <1>14 DEF HistorySound

(* An attempt that ends after its node was settled changes nothing else.   *)
LEMMA LapseHistory ==
  ASSUME NEW h \in Seq(Attempt), NEW g \in Seq(Attempt), NEW n \in Nodes,
         NEW row \in RowTerminal, HistorySound(n, row, h),
         Len(g) = Len(h), NEW k \in DOMAIN h, h[k].status = "running",
         \A j \in DOMAIN h :
           g[j].status = IF j = k THEN "lease_expired" ELSE h[j].status
  PROVE  HistorySound(n, row, g)
<1>1. /\ DOMAIN h = 1 .. Len(h) /\ DOMAIN g = 1 .. Len(h) /\ Len(h) \in Nat
  BY HistoryCounts
<1>2. Failures(g) = Failures(h) /\ Lapses(g) = Lapses(h) \cup {k}
  BY <1>1 DEF Failures, Lapses
<1>3. IsFiniteSet(Lapses(h)) /\ Cardinality(Lapses(h)) \in Nat /\ k \notin Lapses(h)
  BY HistoryCounts DEF Lapses
<1>4. Cardinality(Lapses(g)) = Cardinality(Lapses(h)) + 1
  BY <1>2, <1>3, FS_AddElement
<1>5. Waits(row, g)
  BY <1>1 DEF HistorySound, Waits, RowTerminal
<1>6. Budgeted(n, row, g)
  BY <1>1, <1>2, <1>3, <1>4, RunConstants DEF HistorySound, Budgeted
<1> QED
  BY <1>5, <1>6 DEF HistorySound, Leased, RowTerminal, InFlightRow

(* The row changes alone: a node that was never tried or is not in flight  *)
(* any more becomes ready, or a node is settled.                           *)
LEMMA RowHistory ==
  ASSUME NEW h \in Seq(Attempt), NEW n \in Nodes, NEW row, NEW new,
         HistorySound(n, row, h),
         \/ row = "retry_wait" /\ new = "ready"
         \/ row = "absent" /\ new = "blocked"
         \/ row # "succeeded" /\ new \in RowTerminal
         \/ /\ row \in {"blocked", "ready"} /\ new = "dispatched"
            /\ CrashPoints \cap WedgePoints # {}
  PROVE  HistorySound(n, new, h)
<1>1. \A k \in DOMAIN h : h[k].status = "succeeded" => row = "succeeded"
  BY DEF HistorySound, Waits
<1>2. Waits(new, h)
  BY <1>1 DEF HistorySound, Waits, RowTerminal
<1>3. Budgeted(n, new, h)
  BY DEF HistorySound, Budgeted, RowTerminal, InFlightRow
<1>4. Leased(new, h)
  BY DEF HistorySound, Leased, RowTerminal, InFlightRow
<1> QED
  BY <1>2, <1>3, <1>4 DEF HistorySound

-----------------------------------------------------------------------------
(* Types.                                                                  *)

(* Writing the row of a node keeps the rows typed and every other row, and *)
(* an absent or a terminal row is left as it is.                           *)
LEMMA SetRowTypes ==
  ASSUME NEW rows \in [Nodes -> RowStatus], NEW n \in Nodes, NEW status \in RowStatus
  PROVE  /\ SetRow(rows, n, status) \in [Nodes -> RowStatus]
         /\ \A m \in Nodes : SetRow(rows, n, status)[m] =
              IF m = n /\ rows[n] \notin RowTerminal \cup {"absent"} THEN status ELSE rows[m]
<1>1. SetRow(rows, n, status) \in [Nodes -> RowStatus]
  BY DEF SetRow
<1>2. \A m \in Nodes : SetRow(rows, n, status)[m] =
        IF m = n /\ rows[n] \notin RowTerminal \cup {"absent"} THEN status ELSE rows[m]
  BY DEF SetRow
<1> QED
  BY <1>1, <1>2

(* Canceling the rows of a set cancels the open ones of it and no others.  *)
LEMMA CancelRowsTypes ==
  ASSUME NEW rows \in [Nodes -> RowStatus], NEW S
  PROVE  /\ CancelRows(rows, S) \in [Nodes -> RowStatus]
         /\ \A m \in Nodes : CancelRows(rows, S)[m] =
              IF m \in S /\ rows[m] \notin RowTerminal \cup {"absent"}
              THEN "canceled" ELSE rows[m]
<1>1. CancelRows(rows, S) \in [Nodes -> RowStatus]
  BY DEF CancelRows, RowStatus
<1>2. \A m \in Nodes : CancelRows(rows, S)[m] =
        IF m \in S /\ rows[m] \notin RowTerminal \cup {"absent"}
        THEN "canceled" ELSE rows[m]
  BY DEF CancelRows
<1> QED
  BY <1>1, <1>2

(* Every row status restores to a state of the machine.                    *)
LEMMA RowRestores ==
  ASSUME NEW rows \in [Nodes -> RowStatus]
  PROVE  Restore(rows) \in [Nodes -> NodeStates]
<1>1. \A m \in Nodes : RestoredState(rows[m]) \in NodeStates
  BY DEF RestoredState, RowStatus, NodeStates
<1> QED
  BY <1>1 DEF Restore, Unblock, NodeStates

(* The head and the tail of a sequence that is not empty.                  *)
LEMMA SeqEnds ==
  ASSUME NEW S, NEW seq \in Seq(S), seq # <<>>
  PROVE  /\ Head(seq) \in S /\ Tail(seq) \in Seq(S)
         /\ Head(seq) = seq[1] /\ 1 \in DOMAIN seq
         /\ \A i \in DOMAIN Tail(seq) : i + 1 \in DOMAIN seq /\ Tail(seq)[i] = seq[i + 1]
<1>1. Head(seq) \in S /\ Head(seq) = seq[1]
  BY HeadTailProperties, EmptySeq
<1>2. /\ Tail(seq) \in Seq(S) /\ Len(Tail(seq)) = Len(seq) - 1
      /\ \A i \in 1 .. Len(Tail(seq)) : Tail(seq)[i] = seq[i + 1]
  BY HeadTailProperties
<1>3. /\ DOMAIN seq = 1 .. Len(seq) /\ Len(seq) \in Nat /\ Len(seq) # 0
      /\ DOMAIN Tail(seq) = 1 .. Len(Tail(seq))
  BY <1>2, SeqFacts
<1>4. 1 \in DOMAIN seq
  BY <1>3
<1>5. \A i \in DOMAIN Tail(seq) : i + 1 \in DOMAIN seq
  BY <1>2, <1>3
<1> QED
  BY <1>1, <1>2, <1>3, <1>4, <1>5

(* A part of a sequence.                                                   *)
LEMMA SeqPart ==
  ASSUME NEW S, NEW seq \in Seq(S), NEW i \in Nat \ {0}, NEW j \in Int, j <= Len(seq)
  PROVE  /\ SubSeq(seq, i, j) \in Seq(S)
         /\ \A k \in DOMAIN SubSeq(seq, i, j) :
              \E l \in DOMAIN seq : SubSeq(seq, i, j)[k] = seq[l]
<1>1. Len(seq) \in Nat /\ DOMAIN seq = 1 .. Len(seq)
  BY SeqFacts
<1>2. CASE i > j
  <2>1. SubSeq(seq, i, j) = <<>>
    BY <1>1, <1>2, SubSeqEmpty
  <2> QED
    BY <2>1, EmptySeq, SeqFacts
<1>3. CASE i <= j
  <2>1. /\ i \in 1 .. Len(seq) + 1 /\ j \in i - 1 .. Len(seq)
    BY <1>1, <1>3
  <2>2. /\ SubSeq(seq, i, j) \in Seq(S)
        /\ Len(SubSeq(seq, i, j)) = j - i + 1
        /\ \A k \in 1 .. j - i + 1 : SubSeq(seq, i, j)[k] = seq[i + k - 1]
    BY <1>1, <1>3, <2>1, SubSeqProperties
  <2>3. DOMAIN SubSeq(seq, i, j) = 1 .. j - i + 1
    BY <2>2, SeqFacts
  <2>4. \A k \in 1 .. j - i + 1 : i + k - 1 \in 1 .. Len(seq)
    BY <1>1, <1>3
  <2> QED
    BY <1>1, <2>2, <2>3, <2>4
<1> QED
  BY <1>1, <1>2, <1>3

(* The result a step consumes.                                             *)
LEMMA NextResultFacts ==
  ASSUME TypeOK, NEW r \in NextResults
  PROVE  /\ IsNext(r)
         /\ r \in Result /\ Key(r) \in AttemptIds
         /\ pc \in {"apply", "drain"}
         /\ pc = "apply" => batch # <<>> /\ r = Head(batch)
         /\ pc = "drain" => pel # <<>> /\ r = Head(pel)
<1>1. IsNext(r)
  BY DEF NextResults
<1>2. \/ pc = "apply" /\ batch # <<>> /\ r = Head(batch)
      \/ pc = "drain" /\ pel # <<>> /\ r = Head(pel)
  BY <1>1 DEF IsNext
<1>3. r \in Result
  BY <1>2, SeqEnds DEF TypeOK
<1>4. Key(r) \in AttemptIds
  BY <1>3 DEF Key, AttemptIds, Result
<1> QED
  BY <1>1, <1>2, <1>3, <1>4

(* The memory of a scheduler that has just died.                           *)
LEMMA DeadTypes ==
  ASSUME TypeOK, Die
  PROVE  /\ pc' = "down" /\ mishaps' \in Nat
         /\ nodeState' \in [Nodes -> NodeStates] /\ current' \in [Nodes -> Nat]
         /\ dedupe' = {} /\ retryDue' = {} /\ quotaHeld' = {} /\ usage' = 0
         /\ cancelReq' = FALSE /\ stopReq' = FALSE /\ stampPending' = FALSE
         /\ todo' = {} /\ expired' = {} /\ batch' = <<>> /\ batchLen' = 0
         /\ UNCHANGED net
  BY DEF Die, ForgetMemory, TypeOK, NodeStates

(* The types hold at the start.                                            *)
LEMMA TypeInit == Init => TypeOK
<1> SUFFICES ASSUME Init
             PROVE  TypeOK
  OBVIOUS
<1>1. /\ resultStream \in Seq(Result) /\ pel \in Seq(Result) /\ batch \in Seq(Result)
      /\ attempts \in [Nodes -> Seq(Attempt)]
  BY EmptySeq DEF Init
<1>2. /\ cancelReq \in BOOLEAN /\ stopReq \in BOOLEAN /\ stampPending \in BOOLEAN
      /\ cancelStamp \in BOOLEAN
  BY Zenon DEF Init
<1>3. /\ runRow \in {"queued", "running", "succeeded", "failed", "canceled"}
      /\ pc \in Loop \cup {"done", "down"}
      /\ nodeRow \in [Nodes -> RowStatus] /\ nodeState \in [Nodes -> NodeStates]
      /\ current \in [Nodes -> Nat]
  BY DEF Init, Loop, RowStatus, NodeStates
<1>4. /\ ledger \subseteq AttemptIds /\ taskQueue \subseteq AttemptIds
      /\ held \subseteq AttemptIds /\ dedupe \subseteq AttemptIds
      /\ retryDue \subseteq Nodes /\ quotaHeld \subseteq Nodes /\ todo \subseteq Nodes
      /\ usage \in Nat /\ batchLen \in Nat /\ mishaps \in Nat
      /\ expired \subseteq [node: Nodes, attempt: Nat \ {0}, claimed: BOOLEAN]
  BY DEF Init
<1> QED
  BY <1>1, <1>2, <1>3, <1>4, Zenon DEF TypeOK

(* A death inside a call leaves values of the right types, whatever rows   *)
(* it leaves.                                                              *)
LEMMA TypeAfterDeath ==
  ASSUME TypeOK, Die,
         runRow' \in {runRow, "running"}, UNCHANGED cancelStamp,
         nodeRow' \in [Nodes -> RowStatus], attempts' \in [Nodes -> Seq(Attempt)],
         ledger' \subseteq AttemptIds
  PROVE  TypeOK'
<1>1. batch' \in Seq(Result)
  BY DeadTypes, EmptySeq
<1>2. /\ cancelReq' \in BOOLEAN /\ stopReq' \in BOOLEAN /\ stampPending' \in BOOLEAN
      /\ cancelStamp' \in BOOLEAN
  BY DeadTypes, Zenon DEF TypeOK
<1>3. /\ runRow' \in {"queued", "running", "succeeded", "failed", "canceled"}
      /\ pc' \in Loop \cup {"done", "down"}
  BY DeadTypes DEF TypeOK
<1>4. /\ taskQueue' \subseteq AttemptIds /\ held' \subseteq AttemptIds
      /\ resultStream' \in Seq(Result) /\ pel' \in Seq(Result)
  BY DeadTypes DEF TypeOK, net
<1>5. /\ nodeState' \in [Nodes -> NodeStates] /\ current' \in [Nodes -> Nat]
      /\ dedupe' \subseteq AttemptIds
      /\ retryDue' \subseteq Nodes /\ quotaHeld' \subseteq Nodes /\ todo' \subseteq Nodes
      /\ usage' \in Nat /\ batchLen' \in Nat /\ mishaps' \in Nat
      /\ expired' \subseteq [node: Nodes, attempt: Nat \ {0}, claimed: BOOLEAN]
  BY DeadTypes
<1> QED
  BY <1>1, <1>2, <1>3, <1>4, <1>5, Zenon DEF TypeOK

(* The batch or the pending list after a result was taken from its head.   *)
LEMMA ConsumeEffect ==
  ASSUME TypeOK, NEW r \in NextResults, Consume
  PROVE  /\ pel' \in Seq(Result) /\ batch' \in Seq(Result)
         /\ \A i \in DOMAIN pel' : \E j \in DOMAIN pel : pel'[i] = pel[j]
         /\ \A i \in DOMAIN batch' : \E j \in DOMAIN batch : batch'[i] = batch[j]
<1>1. pel \in Seq(Result) /\ batch \in Seq(Result)
  BY DEF TypeOK
<1>2. CASE pc = "apply"
  <2>1. batch' = Tail(batch) /\ pel' = pel /\ batch # <<>>
    BY <1>2, NextResultFacts DEF Consume
  <2> QED
    BY <1>1, <2>1, SeqEnds
<1>3. CASE pc = "drain"
  <2>1. pel' = Tail(pel) /\ batch' = batch /\ pel # <<>>
    BY <1>3, NextResultFacts DEF Consume
  <2> QED
    BY <1>1, <2>1, SeqEnds
<1> QED
  BY <1>2, <1>3, NextResultFacts

(* What applying a result does to everything but the node's row, its       *)
(* attempts and the memory's states.                                       *)
LEMMA ClaimTypes ==
  ASSUME TypeOK, NEW r \in NextResults, Claim(r)
  PROVE  /\ ledger' \subseteq AttemptIds /\ dedupe' \subseteq AttemptIds
         /\ pel' \in Seq(Result) /\ batch' \in Seq(Result)
         /\ usage' \in Nat /\ quotaHeld' \subseteq Nodes
<1>1. r.node \in Nodes /\ Key(r) \in AttemptIds
  BY NextResultFacts DEF Result
<1>2. pel' \in Seq(Result) /\ batch' \in Seq(Result)
  BY ConsumeEffect DEF Claim
<1>3. usage' \in Nat /\ quotaHeld' \subseteq Nodes
  BY <1>1 DEF TypeOK, Claim, ReleaseSlots, Dec
<1> QED
  BY <1>1, <1>2, <1>3 DEF TypeOK, Claim

(* A recorded attempt has an id.                                           *)
LEMMA AttemptIdsOf ==
  ASSUME TypeOK, NEW n \in Nodes, NEW k \in DOMAIN attempts[n]
  PROVE  <<n, k>> \in AttemptIds
<1>1. k \in Nat \ {0}
  BY SeqFacts DEF TypeOK
<1> QED
  BY <1>1 DEF AttemptIds

(* Every step keeps the types.                                             *)
LEMMA TypeStep == TypeOK /\ [Next]_vars => TypeOK'
<1> SUFFICES ASSUME TypeOK, [Next]_vars
             PROVE  TypeOK'
  OBVIOUS
<1> USE DEF TypeOK, db, net, slots, signal, walk
<1>1. CASE StartFresh
  <2>1. Unblock(nodeState) \in [Nodes -> NodeStates]
    BY DEF Unblock, NodeStates
  <2>2. [n \in Nodes |-> IF nodeRow[n] = "absent" THEN "blocked" ELSE nodeRow[n]]
          \in [Nodes -> RowStatus]
    BY DEF RowStatus
  <2> QED
    BY <1>1, <2>1, <2>2 DEF StartFresh, Loop
<1>2. CASE CancelRun
  <2>1. CancelOpen(nodeState) \in [Nodes -> NodeStates]
    BY DEF CancelOpen, NodeStates
  <2>2. PersistCanceled(nodeRow, nodeState') \in [Nodes -> RowStatus]
    BY DEF PersistCanceled, CancelRows, RowStatus
  <2> QED
    BY <1>2, <2>1, <2>2 DEF CancelRun
<1>3. CASE BeginDispatch
  BY <1>3 DEF BeginDispatch, Loop
<1>4. CASE ScanLeases
  <2>1. \A n \in Nodes : \A k \in Lapsed(n) :
          [node |-> n, attempt |-> k, claimed |-> attempts[n][k].claimed]
            \in [node: Nodes, attempt: Nat \ {0}, claimed: BOOLEAN]
    <3> SUFFICES ASSUME NEW n \in Nodes, NEW k \in Lapsed(n)
                 PROVE  k \in Nat \ {0} /\ attempts[n][k].claimed \in BOOLEAN
      OBVIOUS
    <3>1. attempts[n] \in Seq(Attempt) /\ k \in DOMAIN attempts[n]
      BY DEF Lapsed
    <3>2. k \in Nat \ {0} /\ attempts[n][k] \in Attempt
      BY <3>1, SeqFacts
    <3> QED
      BY <3>2 DEF Attempt
  <2>2. expired' \subseteq [node: Nodes, attempt: Nat \ {0}, claimed: BOOLEAN]
    BY <1>4, <2>1 DEF ScanLeases
  <2> QED
    BY <1>4, <2>2 DEF ScanLeases, Loop
<1>5. CASE EndScan
  BY <1>5 DEF EndScan, Loop
<1>6. CASE Finish
  BY <1>6 DEF Finish, RunRowOf
<1>7. CASE ReadNothing
  BY <1>7 DEF ReadNothing, Loop
<1>8. CASE ReadBatch
  <2>1. Len(resultStream) \in Nat
    BY SeqFacts
  <2>2. PICK k \in Nat : /\ k <= Len(resultStream)
                         /\ batch' = SubSeq(resultStream, 1, k)
                         /\ batchLen' = k
                         /\ resultStream' = SubSeq(resultStream, k + 1, Len(resultStream))
                         /\ pel' = pel \o batch'
    <3> DEFINE size == IF Len(resultStream) < BatchSize THEN Len(resultStream) ELSE BatchSize
    <3>1. size \in Nat /\ size <= Len(resultStream)
      BY <2>1, RunConstants
    <3> QED
      BY <1>8, <3>1 DEF ReadBatch
  <2>3. batch' \in Seq(Result) /\ resultStream' \in Seq(Result)
    BY <2>1, <2>2, SeqPart
  <2>4. pel' \in Seq(Result)
    BY <2>2, <2>3, ConcatProperties
  <2> QED
    BY <1>8, <2>2, <2>3, <2>4 DEF ReadBatch, Loop
<1>9. CASE AckBatch
  <2>1. Len(pel) \in Nat /\ Len(pel) - batchLen \in Int /\ Len(pel) - batchLen <= Len(pel)
    BY SeqFacts
  <2>2. pel' \in Seq(Result)
    <3>1. 1 \in Nat \ {0}
      OBVIOUS
    <3>2. SubSeq(pel, 1, Len(pel) - batchLen) \in Seq(Result)
      BY <2>1, <3>1, SeqPart
    <3> QED
      BY <1>9, <3>2 DEF AckBatch
  <2> QED
    BY <1>9, <2>2 DEF AckBatch, Loop
<1>10. CASE EndDrain
  BY <1>10 DEF EndDrain, Loop
<1>11. ASSUME NEW n \in Nodes, Dispatch(n)
       PROVE  TypeOK'
  <2>1. attempts' \in [Nodes -> Seq(Attempt)]
    BY <1>11, RecordEffect DEF Dispatch, AttemptTable
  <2>2. nodeRow' \in [Nodes -> RowStatus]
    BY <1>11, SetRowTypes DEF Dispatch, RowStatus
  <2>3. nodeState' \in [Nodes -> NodeStates] /\ current' \in [Nodes -> Nat]
    BY <1>11 DEF Dispatch, NodeStates
  <2>4. <<n, current'[n]>> \in AttemptIds
    BY <1>11 DEF Dispatch, AttemptIds
  <2>5. usage' \in Nat /\ quotaHeld' \subseteq Nodes
    BY <1>11 DEF Dispatch, TakeSlots
  <2> QED
    BY <1>11, <2>1, <2>2, <2>3, <2>4, <2>5 DEF Dispatch
<1>12. ASSUME NEW n \in Nodes, DispatchFails(n)
       PROVE  TypeOK'
  <2>1. attempts' \in [Nodes -> Seq(Attempt)]
    BY <1>12, RecordEffect DEF DispatchFails, AttemptTable
  <2>2. nodeRow' \in [Nodes -> RowStatus]
    <3>1. SetRow(nodeRow, n, "failed") \in [Nodes -> RowStatus]
      BY SetRowTypes DEF RowStatus
    <3> QED
      BY <1>12, <3>1, CancelRowsTypes DEF DispatchFails, PersistCanceled
  <2>3. Fail(nodeState, n, "FAILED") \in [Nodes -> NodeStates]
    BY FailEffect
  <2> QED
    BY <1>12, <2>1, <2>2, <2>3 DEF DispatchFails
<1>13. ASSUME NEW n \in Nodes, Defer(n)
       PROVE  TypeOK'
  BY <1>13 DEF Defer
<1>14. ASSUME NEW n \in Nodes, RetryReady(n)
       PROVE  TypeOK'
  <2>1. nodeRow' \in [Nodes -> RowStatus] /\ nodeState' \in [Nodes -> NodeStates]
    <3>1. SetRow(nodeRow, n, "ready") \in [Nodes -> RowStatus]
      BY SetRowTypes DEF RowStatus
    <3> QED
      BY <1>14, <3>1 DEF RetryReady, NodeStates
  <2> QED
    BY <1>14, <2>1 DEF RetryReady
<1>15. ASSUME NEW l \in expired, Reap(l)
       PROVE  TypeOK'
  <2>1. l.node \in Nodes /\ l.attempt \in Nat \ {0}
    OBVIOUS
  <2>2. attempts' \in [Nodes -> Seq(Attempt)]
    BY <1>15, <2>1, FinishEffect DEF Reap, AttemptTable
  <2>3. nodeRow' \in [Nodes -> RowStatus] /\ nodeState' \in [Nodes -> NodeStates]
    <3>1. SetRow(nodeRow, l.node, "ready") \in [Nodes -> RowStatus]
      BY <2>1, SetRowTypes DEF RowStatus
    <3> QED
      BY <1>15, <3>1 DEF Reap, NodeStates
  <2>4. usage' \in Nat /\ quotaHeld' \subseteq Nodes
    BY <1>15, <2>1 DEF Reap, ReleaseSlots, Dec
  <2> QED
    BY <1>15, <2>2, <2>3, <2>4 DEF Reap
<1>16. ASSUME NEW l \in expired, SkipLease(l)
       PROVE  TypeOK'
  BY <1>16 DEF SkipLease
<1>17. ASSUME NEW r \in NextResults, Discard(r)
       PROVE  TypeOK'
  <2>1. pel' \in Seq(Result) /\ batch' \in Seq(Result)
    BY <1>17, ConsumeEffect DEF Discard
  <2>2. dedupe' \subseteq AttemptIds
    BY <1>17, NextResultFacts DEF Discard
  <2> QED
    BY <1>17, <2>1, <2>2 DEF Discard
<1>18. ASSUME NEW r \in NextResults,
              ApplySuccess(r) \/ ApplyRetry(r) \/ ApplyDeadLetter(r) \/ ApplyFailure(r)
       PROVE  TypeOK'
  <2>1. Claim(r) /\ IsNext(r) /\ Applicable(r)
    BY <1>18 DEF ApplySuccess, ApplyRetry, ApplyDeadLetter, ApplyFailure, Claim
  <2>2. r.node \in Nodes /\ r.attempt \in Nat \ {0} /\ nodeState[r.node] = "RUNNING"
    BY <2>1, NextResultFacts DEF Result, Applicable
  <2>3. attempts' \in [Nodes -> Seq(Attempt)]
    BY <1>18, <2>2, FinishEffect
       DEF ApplySuccess, ApplyRetry, ApplyDeadLetter, ApplyFailure, AttemptTable
  <2>4. nodeRow' \in [Nodes -> RowStatus]
    <3>1. PICK status \in RowStatus, S \in SUBSET Nodes :
            \/ nodeRow' = SetRow(nodeRow, r.node, status)
            \/ nodeRow' = CancelRows(SetRow(nodeRow, r.node, status), S)
      BY <1>18 DEF ApplySuccess, ApplyRetry, ApplyDeadLetter, ApplyFailure,
                   PersistCanceled, RowStatus
    <3>2. SetRow(nodeRow, r.node, status) \in [Nodes -> RowStatus]
      BY <2>2, SetRowTypes
    <3> QED
      BY <2>2, <3>1, <3>2, CancelRowsTypes
  <2>5. nodeState' \in [Nodes -> NodeStates]
    <3>1. \/ nodeState' = Succeed(nodeState, r.node)
          \/ nodeState' = [nodeState EXCEPT ![r.node] = "RETRY_WAIT"]
          \/ nodeState' = Fail(nodeState, r.node, "DEAD_LETTERED")
          \/ nodeState' = Fail(nodeState, r.node, "FAILED")
      BY <1>18 DEF ApplySuccess, ApplyRetry, ApplyDeadLetter, ApplyFailure
    <3>2. Succeed(nodeState, r.node) \in [Nodes -> NodeStates]
      BY <2>2, SucceedEffect
    <3>3. /\ Fail(nodeState, r.node, "DEAD_LETTERED") \in [Nodes -> NodeStates]
          /\ Fail(nodeState, r.node, "FAILED") \in [Nodes -> NodeStates]
      BY <2>2, FailEffect
    <3>4. [nodeState EXCEPT ![r.node] = "RETRY_WAIT"] \in [Nodes -> NodeStates]
      BY DEF NodeStates
    <3> QED
      BY <3>1, <3>2, <3>3, <3>4
  <2>6. retryDue' \subseteq Nodes
    BY <1>18, <2>2 DEF ApplySuccess, ApplyRetry, ApplyDeadLetter, ApplyFailure
  <2> QED
    BY <2>1, <2>3, <2>4, <2>5, <2>6, ClaimTypes DEF Claim
<1>19. CASE Crash
  <2>1. Die /\ UNCHANGED db
    BY <1>19 DEF Crash
  <2> QED
    BY <2>1, TypeAfterDeath
<1>20. CASE CrashCreating
  <2>1. nodeRow' \in [Nodes -> RowStatus]
    BY <1>20 DEF CrashCreating, RowStatus
  <2> QED
    BY <1>20, <2>1, TypeAfterDeath DEF CrashCreating
<1>21. CASE CrashCanceling
  <2>1. nodeRow' \in [Nodes -> RowStatus]
    BY <1>21 DEF CrashCanceling, CancelRows, RowStatus
  <2> QED
    BY <1>21, <2>1, TypeAfterDeath DEF CrashCanceling
<1>22. ASSUME NEW n \in Nodes, CrashDispatching(n)
       PROVE  TypeOK'
  <2>0. PICK point \in CrashPoints \cap DispatchPoints :
       /\ nodeRow' = SetRow(nodeRow, n,
                            IF point \in {"dispatch.dispatched", "dispatch.recorded"}
                            THEN "dispatched" ELSE "running")
       /\ attempts' = IF point = "dispatch.dispatched" THEN attempts
                      ELSE RecordAttempt(n, IF point = "dispatch.leased"
                                            THEN "live" ELSE "none")
    BY <1>22 DEF CrashDispatching
  <2>1. nodeRow' \in [Nodes -> RowStatus]
    BY <2>0, SetRowTypes DEF RowStatus
  <2>2. attempts' \in [Nodes -> Seq(Attempt)]
    BY <2>0, RecordEffect DEF AttemptTable
  <2> QED
    BY <1>22, <2>1, <2>2, TypeAfterDeath DEF CrashDispatching
<1>23. ASSUME NEW l \in expired, CrashReaping(l)
       PROVE  TypeOK'
  <2>1. l.node \in Nodes /\ l.attempt \in Nat \ {0}
    OBVIOUS
  <2>2. attempts' \in [Nodes -> Seq(Attempt)]
    BY <1>23, <2>1, FinishEffect DEF CrashReaping, AttemptTable
  <2> QED
    BY <1>23, <2>2, TypeAfterDeath DEF CrashReaping
<1>24. ASSUME NEW r \in NextResults, CrashApplying(r)
       PROVE  TypeOK'
  <2>1. r.node \in Nodes /\ r.attempt \in Nat \ {0} /\ Key(r) \in AttemptIds
    BY NextResultFacts DEF Result
  <2>2. attempts' \in [Nodes -> Seq(Attempt)]
    BY <1>24, <2>1, FinishEffect DEF CrashApplying, AttemptTable
  <2>3. nodeRow' \in [Nodes -> RowStatus]
    <3>1. CASE UNCHANGED nodeRow
      BY <3>1
    <3>2. ASSUME nodeRow' = SetRow(nodeRow, r.node, "succeeded")
          PROVE  nodeRow' \in [Nodes -> RowStatus]
      BY <2>1, <3>2, SetRowTypes DEF RowStatus
    <3>3. ASSUME NEW S, nodeRow' = CancelRows(SetRow(nodeRow, r.node, FailureRow(r)), S)
          PROVE  nodeRow' \in [Nodes -> RowStatus]
      <4>1. SetRow(nodeRow, r.node, FailureRow(r)) \in [Nodes -> RowStatus]
        BY <2>1, SetRowTypes DEF RowStatus, FailureRow
      <4> QED
        BY <2>1, <3>3, <4>1, CancelRowsTypes
    <3> QED
      BY <1>24, <3>1, <3>2, <3>3 DEF CrashApplying
  <2>4. Die /\ ledger' \subseteq AttemptIds /\ UNCHANGED <<runRow, cancelStamp>>
    BY <1>24, <2>1 DEF CrashApplying
  <2> QED
    BY <2>2, <2>3, <2>4, TypeAfterDeath
<1>25. CASE Resume
  <2>1. Restore(nodeRow) \in [Nodes -> NodeStates]
    BY RowRestores
  <2>2. \A n \in Nodes : Len(attempts[n]) \in Nat
    BY SeqFacts
  <2>3. Cardinality(InFlightRows \cap BrowserNodes) \in Nat /\ InFlightRows \subseteq Nodes
    BY NodesFinite, FS_Subset, FS_CardinalityType DEF InFlightRows
  <2>4. /\ nodeState' \in [Nodes -> NodeStates] /\ current' \in [Nodes -> Nat]
        /\ retryDue' \subseteq Nodes /\ quotaHeld' \subseteq Nodes /\ usage' \in Nat
        /\ pc' \in Loop
    BY <1>25, <2>1, <2>2, <2>3 DEF Resume, AttemptNumbers, Parked, Loop
  <2>5. cancelReq' \in BOOLEAN
    BY <1>25, Zenon DEF Resume
  <2> QED
    BY <1>25, <2>4, <2>5 DEF Resume
<1>26. CASE Control
  BY <1>26 DEF Control, CancelFlag, CancelStamp, Stop
<1>27. ASSUME NEW t \in taskQueue \cup held, WorkerStep(t)
       PROVE  TypeOK'
  <2>1. t \in AttemptIds /\ t[1] \in Nodes /\ t[2] \in Nat \ {0}
    BY DEF AttemptIds
  <2>2. CASE WorkerClaim(t)
    <3>1. attempts' \in [Nodes -> Seq(Attempt)]
      <4>1. CASE Running(t)
        <5>1. attempts' = ClaimWrite(t)
          BY <2>2, <4>1 DEF ClaimWrite, WorkerClaim
        <5> QED
          BY <2>1, <4>1, <5>1, LeaseEffect DEF AttemptTable, LeaseSet
      <4>2. CASE ~ Running(t)
        BY <2>2, <4>2 DEF WorkerClaim
      <4> QED
        BY <4>1, <4>2
    <3> QED
      BY <2>1, <2>2, <3>1 DEF WorkerClaim
  <2>3. CASE WorkerShortCircuits(t)
    <3>1. Answer(t, "fatal") \in Result
      BY <2>1 DEF Answer, Result
    <3>2. resultStream' \in Seq(Result)
      BY <2>3, <3>1, AppendProperties DEF WorkerShortCircuits
    <3> QED
      BY <2>3, <3>2 DEF WorkerShortCircuits
  <2>4. CASE WorkerFinish(t)
    <3>1. \A o \in {"ok", "retryable", "fatal"} :
            /\ Answer(t, o) \in Result
            /\ <<Answer(t, o), Answer(t, o)>> \in Seq(Result)
      BY <2>1 DEF Answer, Result
    <3>2. PICK o \in {"ok", "retryable", "fatal"} :
            \/ resultStream' = Append(resultStream, Answer(t, o))
            \/ resultStream' = resultStream \o <<Answer(t, o), Answer(t, o)>>
      BY <2>4, RunConstants DEF WorkerFinish
    <3>3. resultStream' \in Seq(Result)
      <4>1. Answer(t, o) \in Result /\ <<Answer(t, o), Answer(t, o)>> \in Seq(Result)
        BY <3>1
      <4>2. CASE resultStream' = Append(resultStream, Answer(t, o))
        BY <4>1, <4>2, AppendProperties
      <4>3. CASE resultStream' = resultStream \o <<Answer(t, o), Answer(t, o)>>
        BY <4>1, <4>3, ConcatProperties
      <4> QED
        BY <3>2, <4>2, <4>3
    <3>4. mishaps' \in Nat
      BY <2>4 DEF WorkerFinish
    <3> QED
      BY <2>4, <3>3, <3>4 DEF WorkerFinish
  <2>5. CASE WorkerDies(t)
    BY <2>5 DEF WorkerDies
  <2>6. CASE Renew(t)
    <3>1. attempts' \in [Nodes -> Seq(Attempt)]
      <4>1. Running(t) /\ attempts' = LeaseWrite(t, "live")
        BY <2>6 DEF LeaseWrite, Renew
      <4> QED
        BY <2>1, <4>1, LeaseEffect DEF AttemptTable, LeaseSet
    <3> QED
      BY <2>6, <3>1 DEF Renew
  <2> QED
    BY <1>27, <2>2, <2>3, <2>4, <2>5, <2>6 DEF WorkerStep
<1>28. ASSUME NEW t \in AttemptIds, LeaseLapses(t)
       PROVE  TypeOK'
  <2>1. Running(t) /\ attempts' = LeaseWrite(t, "lapsed")
    BY <1>28 DEF LeaseWrite, LeaseLapses
  <2>2. attempts' \in [Nodes -> Seq(Attempt)]
    BY <2>1, LeaseEffect DEF AttemptTable, LeaseSet
  <2>3. mishaps' \in Nat
    BY <1>28 DEF LeaseLapses
  <2> QED
    BY <1>28, <2>2, <2>3 DEF LeaseLapses
<1>29. CASE UNCHANGED vars
  BY <1>29 DEF vars
<1> QED
  BY <1>1, <1>2, <1>3, <1>4, <1>5, <1>6, <1>7, <1>8, <1>9, <1>10, <1>11, <1>12, <1>13,
     <1>14, <1>15, <1>16, <1>17, <1>18, <1>19, <1>20, <1>21, <1>22, <1>23, <1>24, <1>25,
     <1>26, <1>27, <1>28, <1>29, AttemptIdsOf
     DEF Next, LoopStep, SchedulerDies

(* Type correctness: whatever the loop, the workers and the deaths do, the *)
(* rows, messages and memory hold values of their types.                   *)
THEOREM TypeCorrect == Spec => []TypeOK
  BY TypeInit, TypeStep, PTL DEF Spec

-----------------------------------------------------------------------------
(* Rows. What a step does to them in general.                              *)

(* No row is written and no attempt begins or ends.                        *)
QuietRows ==
  nodeRow' = nodeRow /\ \A n \in Nodes : SameHistory(attempts[n], attempts'[n])

(* Only the row of n is written, and rows that wait for a predecessor are  *)
(* canceled; only the attempts of n begin or end.                          *)
OthersKept(n) ==
  \A m \in Nodes \ {n} :
    /\ SameHistory(attempts[m], attempts'[m])
    /\ nodeRow'[m] = nodeRow[m] \/ (nodeRow[m] = "blocked" /\ nodeRow'[m] = "canceled")

(* A history that is not written is kept.                                  *)
LEMMA SameHistoryKept ==
  \A h : SameHistory(h, h)
  BY DEF SameHistory

(* Such a step disturbs nothing the rows say.                              *)
LEMMA QuietKeepsRows ==
  ASSUME TypeOK, TypeOK', RowsInv, QuietRows
  PROVE  RowsInv'
<1>1. ASSUME NEW n \in Nodes
      PROVE  NodeSound(n)'
  <2>1. /\ attempts[n] \in Seq(Attempt) /\ attempts'[n] \in Seq(Attempt)
        /\ SameHistory(attempts[n], attempts'[n]) /\ nodeRow'[n] = nodeRow[n]
        /\ NodeSound(n)
    BY DEF TypeOK, QuietRows, RowsInv
  <2>2. HistorySound(n, nodeRow'[n], attempts'[n])
    BY <2>1, SameHistorySound DEF NodeSound
  <2>3. attempts'[n] = <<>> <=> attempts[n] = <<>>
    BY <2>1, SeqFacts DEF SameHistory
  <2>4. Started(n)' => PredsDone(n)'
    BY <2>1, <2>3 DEF NodeSound, Started, PredsDone, QuietRows
  <2> QED
    BY <2>2, <2>4 DEF NodeSound
<1>2. OneBrowserRow' /\ AllRows' /\ NoStrandedRows'
  BY DEF RowsInv, OneBrowserRow, AllRows, NoStrandedRows, NoneStranded, NoRows, QuietRows
<1> QED
  BY <1>1, <1>2 DEF RowsInv

(* What a step that is about one node must show of that node for the rows  *)
(* of all to stay sound.                                                   *)
LEMMA OneNodeKeepsRows ==
  ASSUME TypeOK, TypeOK', RowsInv, NEW n \in Nodes, OthersKept(n),
         nodeRow'[n] = "absent" <=> nodeRow[n] = "absent",
         nodeRow[n] = "succeeded" => nodeRow'[n] = "succeeded",
         HistorySound(n, nodeRow'[n], attempts'[n]),
         Started(n)' => PredsDone(n),
         n \in BrowserNodes /\ nodeRow'[n] \in InFlightRow =>
           \A m \in BrowserNodes : nodeRow[m] \in InFlightRow => m = n,
         NoStrandedRows'
  PROVE  RowsInv'
<1>1. ASSUME NEW m \in Nodes \ {n}
      PROVE  HistorySound(m, nodeRow'[m], attempts'[m]) /\ (Started(m)' => Started(m))
  <2>1. /\ attempts[m] \in Seq(Attempt) /\ attempts'[m] \in Seq(Attempt)
        /\ SameHistory(attempts[m], attempts'[m])
        /\ HistorySound(m, nodeRow[m], attempts[m])
    BY DEF TypeOK, OthersKept, RowsInv, NodeSound
  <2>2. HistorySound(m, nodeRow[m], attempts'[m])
    BY <2>1, SameHistorySound
  <2>3. nodeRow'[m] = nodeRow[m] \/ (nodeRow[m] = "blocked" /\ nodeRow'[m] = "canceled")
    BY DEF OthersKept
  <2>4. HistorySound(m, nodeRow'[m], attempts'[m])
    BY <2>1, <2>2, <2>3, RowHistory DEF RowTerminal
  <2>5. attempts'[m] = <<>> <=> attempts[m] = <<>>
    BY <2>1, SeqFacts DEF SameHistory
  <2> QED
    BY <2>3, <2>4, <2>5 DEF Started
<1>2. ASSUME NEW m \in Nodes, PredsDone(m)
      PROVE  PredsDone(m)'
  BY <1>2, PredsAreNodes DEF PredsDone, OthersKept
<1>3. ASSUME NEW m \in Nodes
      PROVE  NodeSound(m)'
  BY <1>1, <1>2 DEF NodeSound, RowsInv
<1>4. OneBrowserRow'
  <2> SUFFICES ASSUME NEW a \in BrowserNodes, NEW b \in BrowserNodes,
                      nodeRow'[a] \in InFlightRow, nodeRow'[b] \in InFlightRow
               PROVE  a = b
    BY DEF OneBrowserRow
  <2>1. \A m \in BrowserNodes \ {n} : nodeRow'[m] \in InFlightRow => nodeRow[m] \in InFlightRow
    BY RunConstants DEF OthersKept, InFlightRow
  <2> QED
    BY <2>1 DEF RowsInv, OneBrowserRow
<1>5. AllRows'
  <2>1. \A m \in Nodes : nodeRow'[m] = "absent" <=> nodeRow[m] = "absent"
    BY DEF OthersKept
  <2> QED
    BY <2>1 DEF RowsInv, AllRows, NoRows
<1> QED
  BY <1>3, <1>4, <1>5 DEF RowsInv

-----------------------------------------------------------------------------
(* Memory. What the state of a node in the loop's memory says of its row.  *)

(* What a node in the loop's memory says of the node's row, and the other  *)
(* way round: they differ only where no row was written.                   *)
LEMMA MemoryMeaning ==
  ASSUME TypeOK, RowsInv, MemoryFits, Driving, NEW n \in Nodes
  PROVE  /\ nodeState[n] = "SUCCEEDED" <=> nodeRow[n] = "succeeded"
         /\ nodeState[n] \in {"READY", "RUNNING", "RETRY_WAIT"} => PredsDone(n)
         /\ nodeState[n] = "READY" => nodeRow[n] \in {"absent", "blocked", "ready"}
         /\ nodeState[n] = "RUNNING" => nodeRow[n] \in {"absent", "dispatched", "running"}
         /\ nodeState[n] = "RETRY_WAIT" <=> nodeRow[n] = "retry_wait"
         /\ nodeRow[n] \in InFlightRow => nodeState[n] = "RUNNING"
         /\ nodeRow[n] \in RowTerminal => nodeState[n] \in Terminal
         /\ nodeState[n] \in Terminal /\ nodeRow[n] # "absent" => nodeRow[n] \in RowTerminal
         /\ nodeState[n] = "CANCELED" /\ nodeRow[n] # "absent" => nodeRow[n] = "canceled"
         /\ nodeRow[n] = "canceled" => nodeState[n] = "CANCELED"
         /\ nodeState[n] # "DISPATCHED"
         /\ nodeState[n] = "BLOCKED" => nodeRow[n] \in {"absent", "blocked"}
<1>1. /\ nodeRow[n] \in RowStatus /\ nodeState[n] \in NodeStates
      /\ MemorySound(n)
      /\ Started(n) => PredsDone(n)
  BY DEF TypeOK, MemoryFits, RowsInv, NodeSound
<1>2. CASE nodeRow[n] = "absent"
  BY <1>1, <1>2 DEF MemorySound, InFlightRow, RowTerminal
<1>3. CASE nodeRow[n] # "absent"
  <2>1. nodeState[n] = RowState(n)
    BY <1>1, <1>3 DEF MemorySound
  <2>2. CASE nodeRow[n] = "blocked"
    BY <1>1, <2>1, <2>2 DEF RowState, InFlightRow, RowTerminal, Terminal, Unsuccessful
  <2>3. CASE nodeRow[n] # "blocked"
    <3>1. nodeState[n] = RestoredState(nodeRow[n])
      BY <2>1, <2>3 DEF RowState
    <3> QED
      BY <1>1, <1>3, <2>3, <3>1
         DEF RestoredState, RowStatus, Started, InFlightRow, RowTerminal, Terminal, Unsuccessful
  <2> QED
    BY <2>2, <2>3
<1> QED
  BY <1>2, <1>3

(* A node neither row, memory nor predecessors of which change.            *)
LEMMA KeptMemory ==
  ASSUME TypeOK, NEW m \in Nodes, MemorySound(m),
         \A p \in Preds[m] : nodeRow'[p] = "succeeded" <=> nodeRow[p] = "succeeded",
         nodeRow'[m] = nodeRow[m], nodeState'[m] = nodeState[m],
         current'[m] = current[m], Len(attempts'[m]) = Len(attempts[m])
  PROVE  MemorySound(m)'
<1>1. PredsDone(m)' <=> PredsDone(m)
  BY DEF PredsDone
<1> QED
  BY <1>1 DEF MemorySound, RowState

(* What the walk from a node that is ready or running reaches: nodes that  *)
(* still wait for a predecessor, in memory and on their row.               *)
LEMMA DownstreamRows ==
  ASSUME TypeOK, RowsInv, MemoryFits, Driving, NEW n \in Nodes,
         nodeState[n] \in {"READY", "RUNNING"},
         NEW st, st = nodeState \/ \E how \in Unsuccessful : st = [nodeState EXCEPT ![n] = how],
         NEW m \in Downstream(st, n)
  PROVE  /\ m \in Nodes \ {n} /\ ~ PredsDone(m)
         /\ nodeState[m] = "BLOCKED" /\ nodeRow[m] \in {"absent", "blocked"}
<1>1. st[n] # "SUCCEEDED" /\ \A p \in Nodes \ {n} : st[p] = nodeState[p]
  BY DEF TypeOK, Unsuccessful
<1>2. m \in Nodes /\ st[m] \notin Terminal /\ ~ PredsSucceeded(st, m)
  BY <1>1, DownstreamClosed, DownstreamWaits DEF Open
<1>3. PICK p \in Preds[m] : st[p] # "SUCCEEDED"
  BY <1>2 DEF PredsSucceeded
<1>4. p \in Nodes
  BY <1>2, PredsAreNodes
<1>5. nodeRow[p] # "succeeded"
  BY <1>1, <1>3, <1>4, MemoryMeaning
<1>6. ~ PredsDone(m)
  BY <1>5 DEF PredsDone
<1>7. m # n
  BY <1>6, MemoryMeaning
<1>8. nodeState[m] \notin Terminal /\ nodeState[m] \in NodeStates
  BY <1>1, <1>2, <1>7 DEF TypeOK
<1>9. nodeState[m] = "BLOCKED"
  BY <1>2, <1>6, <1>8, MemoryMeaning DEF NodeStates, Terminal, Unsuccessful
<1> QED
  BY <1>2, <1>6, <1>7, <1>9, MemoryMeaning

(* What failing a node that is ready or running does to the memory and,    *)
(* with persist_canceled, to the rows: the nodes it cancels waited for a   *)
(* predecessor in both, and no row is left waiting for one that failed.    *)
LEMMA FailRows ==
  ASSUME TypeOK, RowsInv, MemoryFits, Driving, NEW n \in Nodes,
         nodeState[n] \in {"READY", "RUNNING"},
         NEW how, NEW row,
         \/ how = "FAILED" /\ row = "failed"
         \/ how = "DEAD_LETTERED" /\ row = "dead_lettered"
  PROVE  LET f == Fail(nodeState, n, how)
             rows == PersistCanceled(SetRow(nodeRow, n, row), f)
         IN  /\ f[n] = how
             /\ rows[n] = IF nodeRow[n] = "absent" THEN "absent" ELSE row
             /\ \A m \in Nodes \ {n} :
                  \/ f[m] = nodeState[m] /\ rows[m] = nodeRow[m]
                  \/ /\ f[m] = "CANCELED" /\ nodeState[m] = "BLOCKED"
                     /\ nodeRow[m] \in {"absent", "blocked"}
                     /\ rows[m] = IF nodeRow[m] = "absent" THEN "absent" ELSE "canceled"
             /\ (NoneStranded(nodeRow) /\ \A m \in Nodes : nodeRow[m] # "absent") =>
                  NoneStranded(rows)
<1> DEFINE f == Fail(nodeState, n, how)
           failed == [nodeState EXCEPT ![n] = how]
           set == SetRow(nodeRow, n, row)
           rows == PersistCanceled(set, f)
           Bad == {"failed", "dead_lettered", "canceled"}
<1>1. /\ nodeState \in [Nodes -> NodeStates] /\ nodeRow \in [Nodes -> RowStatus]
      /\ how \in {"FAILED", "DEAD_LETTERED"} /\ row \in {"failed", "dead_lettered"}
      /\ row \in RowStatus
  BY DEF TypeOK, RowStatus
<1>2. /\ f \in [Nodes -> NodeStates] /\ f[n] = how
      /\ \A m \in Nodes : n \in Preds[m] => f[m] \in Terminal
      /\ \A m \in Nodes, p \in Nodes \ {n} :
           p \in Preds[m] /\ f[p] # nodeState[p] => f[m] \in Terminal
  BY <1>1, FailEffect
<1>3. \A m \in Nodes : f[m] = IF m \in Downstream(failed, n) THEN "CANCELED" ELSE failed[m]
  BY DEF Fail
<1>4. \A m \in Downstream(failed, n) :
        /\ m \in Nodes \ {n} /\ ~ PredsDone(m)
        /\ nodeState[m] = "BLOCKED" /\ nodeRow[m] \in {"absent", "blocked"}
  BY <1>1, DownstreamRows DEF Unsuccessful
<1>5. nodeRow[n] \in {"absent", "blocked", "ready", "dispatched", "running"}
  BY MemoryMeaning
<1>6. /\ set \in [Nodes -> RowStatus]
      /\ set[n] = IF nodeRow[n] = "absent" THEN "absent" ELSE row
      /\ \A m \in Nodes \ {n} : set[m] = nodeRow[m]
  BY <1>1, <1>5, SetRowTypes DEF RowTerminal
<1>7. \A m \in Nodes : rows[m] =
        IF f[m] = "CANCELED" /\ nodeState[m] # "CANCELED" /\ set[m] \notin RowTerminal \cup {"absent"}
        THEN "canceled" ELSE set[m]
  BY DEF PersistCanceled, CancelRows
<1> HIDE DEF f, rows, set
<1>8. rows[n] = IF nodeRow[n] = "absent" THEN "absent" ELSE row
  BY <1>1, <1>2, <1>6, <1>7
<1>9. ASSUME NEW m \in Nodes \ {n}
      PROVE  \/ f[m] = nodeState[m] /\ rows[m] = nodeRow[m]
             \/ /\ f[m] = "CANCELED" /\ nodeState[m] = "BLOCKED"
                /\ nodeRow[m] \in {"absent", "blocked"}
                /\ rows[m] = IF nodeRow[m] = "absent" THEN "absent" ELSE "canceled"
  <2>1. CASE m \in Downstream(failed, n)
    BY <1>3, <1>4, <1>6, <1>7, <2>1 DEF RowTerminal
  <2>2. CASE m \notin Downstream(failed, n)
    BY <1>1, <1>3, <1>6, <1>7, <2>2
  <2> QED
    BY <2>1, <2>2
<1>10. ASSUME NoneStranded(nodeRow), \A m \in Nodes : nodeRow[m] # "absent"
       PROVE  NoneStranded(rows)
  <2> SUFFICES ASSUME NEW m \in Nodes, NEW p \in Preds[m], rows[p] \in Bad
               PROVE  rows[m] = "canceled"
    BY DEF NoneStranded
  <2>1. p \in Nodes
    BY PredsAreNodes
  <2>2. CASE nodeRow[p] \in Bad
    <3>1. nodeRow[m] = "canceled"
      BY <1>10, <2>2 DEF NoneStranded
    <3>2. m # n
      BY <1>5, <3>1
    <3> QED
      BY <1>9, <3>1, <3>2
  <2>3. CASE nodeRow[p] \notin Bad
    <3>1. f[m] \in Terminal
      BY <1>1, <1>2, <1>9, <2>1, <2>3
    <3>2. nodeRow[p] # "succeeded"
      BY <1>5, <1>9, <2>1, <2>3
    <3>3. ~ PredsDone(m)
      BY <3>2 DEF PredsDone
    <3>4. m # n
      BY <3>3, MemoryMeaning
    <3>5. CASE f[m] = nodeState[m] /\ rows[m] = nodeRow[m]
      <4>1. nodeRow[m] \in RowTerminal
        BY <1>10, <3>1, <3>5, MemoryMeaning
      <4>2. ~ Started(m)
        BY <3>3 DEF RowsInv, NodeSound
      <4> QED
        BY <3>5, <4>1, <4>2 DEF Started, RowTerminal
    <3> QED
      BY <1>9, <1>10, <3>4, <3>5
  <2> QED
    BY <2>2, <2>3
<1> QED
  BY <1>2, <1>8, <1>9, <1>10 DEF f, rows, set

-----------------------------------------------------------------------------
(* Steps about one node: what they share.                                  *)

(* Rows come into being at the start only, and attempts are never removed. *)
RowsGrow ==
  /\ \A n \in Nodes : nodeRow'[n] = "absent" <=> nodeRow[n] = "absent"
  /\ \A n \in Nodes : Len(attempts[n]) <= Len(attempts'[n])

(* A step that writes the row and the attempts of one node takes back      *)
(* nothing.                                                                *)
LEMMA OneNodeGrows ==
  ASSUME TypeOK, TypeOK', NEW n \in Nodes, OthersKept(n),
         nodeRow'[n] = "absent" <=> nodeRow[n] = "absent",
         Len(attempts[n]) <= Len(attempts'[n])
  PROVE  RowsGrow
<1>1. \A m \in Nodes : Len(attempts[m]) \in Nat
  BY SeqFacts DEF TypeOK
<1> QED
  BY <1>1 DEF RowsGrow, OthersKept, SameHistory

(* A step that writes no history takes back nothing.                       *)
LEMMA QuietGrows ==
  ASSUME TypeOK, QuietRows
  PROVE  RowsGrow
<1>1. \A m \in Nodes : Len(attempts[m]) \in Nat
  BY SeqFacts DEF TypeOK
<1> QED
  BY <1>1 DEF RowsGrow, QuietRows, SameHistory

(* A row that is not and does not become one of those that end a branch.   *)
LEMMA NoStrandedKept ==
  ASSUME NEW n \in Nodes, \A m \in Nodes \ {n} : nodeRow'[m] = nodeRow[m],
         nodeRow[n] # "canceled",
         nodeRow'[n] \notin {"failed", "dead_lettered", "canceled"},
         NoStrandedRows
  PROVE  NoStrandedRows'
  BY PredsAreNodes DEF NoStrandedRows, NoneStranded

(* The memory still fits where one node moves on without succeeding, and   *)
(* nodes that wait for a predecessor may be canceled.                      *)
LEMMA OneNodeMemory ==
  ASSUME TypeOK, TypeOK', MemoryFits, Driving, NEW n \in Nodes,
         nodeRow'[n] = "succeeded" <=> nodeRow[n] = "succeeded",
         \A m \in Nodes \ {n} :
           /\ Len(attempts'[m]) = Len(attempts[m]) /\ current'[m] = current[m]
           /\ \/ nodeState'[m] = nodeState[m] /\ nodeRow'[m] = nodeRow[m]
              \/ /\ nodeState'[m] = "CANCELED" /\ nodeRow[m] \in {"absent", "blocked"}
                 /\ nodeRow'[m] = IF nodeRow[m] = "absent" THEN "absent" ELSE "canceled",
         MemorySound(n)',
         \A m \in Nodes : m \in retryDue' <=> IF m = n THEN nodeRow'[n] = "retry_wait"
                                              ELSE m \in retryDue
  PROVE  MemoryFits'
<1>1. \A p \in Nodes : nodeRow'[p] = "succeeded" <=> nodeRow[p] = "succeeded"
  OBVIOUS
<1>2. ASSUME NEW m \in Nodes \ {n}
      PROVE  MemorySound(m)'
  <2>1. MemorySound(m)
    BY DEF MemoryFits
  <2>2. \A p \in Preds[m] : nodeRow'[p] = "succeeded" <=> nodeRow[p] = "succeeded"
    BY <1>1, PredsAreNodes
  <2>3. CASE nodeState'[m] = nodeState[m] /\ nodeRow'[m] = nodeRow[m]
    BY <2>1, <2>2, <2>3, KeptMemory
  <2>4. CASE /\ nodeState'[m] = "CANCELED" /\ nodeRow[m] \in {"absent", "blocked"}
             /\ nodeRow'[m] = IF nodeRow[m] = "absent" THEN "absent" ELSE "canceled"
    <3>1. CASE nodeRow[m] = "absent"
      BY <2>4, <3>1 DEF MemorySound
    <3>2. CASE nodeRow[m] = "blocked"
      <4>1. current[m] = Len(attempts[m])
        BY <2>1, <3>2 DEF MemorySound
      <4> QED
        BY <2>4, <3>2, <4>1 DEF MemorySound, RowState, RestoredState
    <3> QED
      BY <2>4, <3>1, <3>2
  <2> QED
    BY <2>3, <2>4
<1>3. retryDue' = {m \in Nodes : nodeRow'[m] = "retry_wait"}
  <2>1. retryDue' \subseteq Nodes /\ retryDue = {m \in Nodes : nodeRow[m] = "retry_wait"}
    BY DEF TypeOK, MemoryFits
  <2> QED
    BY <2>1
<1> QED
  BY <1>2, <1>3 DEF MemoryFits

(* Slots stay right when no node begins or stops being busy.               *)
LEMMA SlotsKept ==
  ASSUME SlotsFit, Driving, UNCHANGED slots,
         \A m \in Nodes : Busy(m)' <=> Busy(m)
  PROVE  SlotsFit'
  BY RunConstants DEF SlotsFit, slots

(* A node that stops being busy gives its slots back.                      *)
LEMMA SlotsReleased ==
  ASSUME TypeOK, SlotsFit, Driving, NEW n \in Nodes, Busy(n), ReleaseSlots(n),
         ~ Busy(n)', \A m \in Nodes \ {n} : Busy(m)' <=> Busy(m)
  PROVE  SlotsFit'
<1>1. /\ quotaHeld = {m \in Nodes : Busy(m)}
      /\ usage = IF \E m \in BrowserNodes : Busy(m) THEN 1 ELSE 0
      /\ \A m, k \in BrowserNodes : Busy(m) /\ Busy(k) => m = k
      /\ BrowserNodes \subseteq Nodes
  BY RunConstants DEF SlotsFit
<1>2. quotaHeld' = {m \in Nodes : Busy(m)'}
  BY <1>1 DEF ReleaseSlots
<1>3. usage' = IF \E m \in BrowserNodes : Busy(m)' THEN 1 ELSE 0
  <2>1. CASE n \in BrowserNodes
    BY <1>1, <2>1 DEF ReleaseSlots, Dec
  <2>2. CASE n \notin BrowserNodes
    BY <1>1, <2>2 DEF ReleaseSlots
  <2> QED
    BY <2>1, <2>2
<1> QED
  BY <1>1, <1>2, <1>3 DEF SlotsFit

(* One more node in flight, whose class has a slot left.                   *)
LEMMA SlotsTaken ==
  ASSUME TypeOK, SlotsFit, Driving, NEW n \in Nodes, ~ Busy(n), HasSlot(n), TakeSlots(n),
         Busy(n)', \A m \in Nodes \ {n} : Busy(m)' <=> Busy(m)
  PROVE  SlotsFit' /\ (n \in BrowserNodes => \A m \in BrowserNodes : ~ Busy(m))
<1>1. /\ quotaHeld = {m \in Nodes : Busy(m)}
      /\ usage = IF \E m \in BrowserNodes : Busy(m) THEN 1 ELSE 0
      /\ \A m, k \in BrowserNodes : Busy(m) /\ Busy(k) => m = k
      /\ BrowserNodes \subseteq Nodes
  BY RunConstants DEF SlotsFit
<1>2. quotaHeld' = {m \in Nodes : Busy(m)'}
  BY <1>1 DEF TakeSlots
<1>3. n \in BrowserNodes => \A m \in BrowserNodes : ~ Busy(m)
  BY <1>1 DEF HasSlot, AffinityCapacity
<1>4. usage' = IF \E m \in BrowserNodes : Busy(m)' THEN 1 ELSE 0
  <2>1. CASE n \in BrowserNodes
    BY <1>1, <1>3, <2>1 DEF TakeSlots
  <2>2. CASE n \notin BrowserNodes
    BY <1>1, <2>2 DEF TakeSlots
  <2> QED
    BY <2>1, <2>2
<1>5. \A m, k \in BrowserNodes : Busy(m)' /\ Busy(k)' => m = k
  BY <1>1, <1>3
<1> QED
  BY <1>2, <1>3, <1>4, <1>5 DEF SlotsFit

-----------------------------------------------------------------------------
(* The steps that write rows, one by one.                                  *)

(* What a step must show of the rows and of the memory.                    *)
CarriesOn == RowsInv' /\ MemoryFits' /\ SlotsFit' /\ RowsGrow

(* What recording an attempt of a node that waits to be dispatched does to *)
(* the rows, whichever status the row is given.                            *)
LEMMA RecordStep ==
  ASSUME IInv, TypeOK', NEW n \in Nodes, Driving, nodeState[n] = "READY",
         nodeRow[n] # "absent",
         NEW lease \in {"live", "none"}, attempts' = RecordAttempt(n, lease),
         CrashPoints \cap WedgePoints = {} => lease = "live",
         nodeRow'[n] \in {"dispatched", "running", "failed"}
  PROVE  /\ HistorySound(n, nodeRow'[n], attempts'[n])
         /\ \A m \in Nodes \ {n} : SameHistory(attempts[m], attempts'[m])
         /\ Len(attempts'[n]) = Len(attempts[n]) + 1
<1>1. nodeRow[n] \in {"blocked", "ready"}
  BY MemoryMeaning DEF IInv
<1>2. /\ \A m \in Nodes : m # n \/ nodeRow[n] = "absent" => attempts'[m] = attempts[m]
      /\ Len(attempts'[n]) = Len(attempts[n]) + 1
      /\ \A k \in DOMAIN attempts[n] : attempts'[n][k] = attempts[n][k]
      /\ attempts'[n][Len(attempts[n]) + 1] =
           [status |-> "running", lease |-> lease, claimed |-> FALSE]
  <2>1. TypeOK /\ lease \in {"none", "live", "lapsed"}
    BY DEF IInv
  <2> QED
    BY <2>1, RecordEffect
<1>3. attempts[n] \in Seq(Attempt) /\ attempts'[n] \in Seq(Attempt)
  BY DEF IInv, TypeOK
<1>4. HistorySound(n, nodeRow[n], attempts[n])
  BY DEF IInv, RowsInv, NodeSound
<1>5. HistorySound(n, nodeRow'[n], attempts'[n])
  BY <1>1, <1>2, <1>3, <1>4, RecordHistory, SMTT(30)
<1> QED
  BY <1>2, <1>5, SameHistoryKept

(* A dispatch: the attempt, the row, the lease and the envelope.           *)
LEMMA DispatchCarriesOn ==
  ASSUME IInv, TypeOK', NEW n \in Nodes, Dispatch(n)
  PROVE  CarriesOn
<1>1. /\ TypeOK /\ RowsInv /\ MemoryFits /\ SlotsFit /\ Driving
      /\ nodeState[n] = "READY" /\ HasSlot(n) /\ ~ Busy(n)
  BY DEF IInv, Dispatch, CanDispatch, Driving, Loop, Busy
<1>2. /\ nodeRow[n] \in {"absent", "blocked", "ready"} /\ PredsDone(n)
  BY <1>1, MemoryMeaning
<1>3. /\ nodeState' = [nodeState EXCEPT ![n] = "RUNNING"]
      /\ current' = [current EXCEPT ![n] = @ + 1]
      /\ nodeRow' = SetRow(nodeRow, n, "running")
      /\ attempts' = RecordAttempt(n, "live")
      /\ TakeSlots(n) /\ UNCHANGED <<pc, retryDue>>
  BY DEF Dispatch
<1>4. /\ nodeState'[n] = "RUNNING" /\ current'[n] = current[n] + 1
      /\ \A m \in Nodes \ {n} : nodeState'[m] = nodeState[m] /\ current'[m] = current[m]
  BY <1>1, <1>3 DEF TypeOK
<1>5. /\ nodeRow'[n] = IF nodeRow[n] = "absent" THEN "absent" ELSE "running"
      /\ \A m \in Nodes \ {n} : nodeRow'[m] = nodeRow[m]
  <2>1. nodeRow \in [Nodes -> RowStatus] /\ "running" \in RowStatus
    BY <1>1 DEF TypeOK, RowStatus
  <2>2. \A m \in Nodes : nodeRow'[m] =
          IF m = n /\ nodeRow[n] \notin RowTerminal \cup {"absent"} THEN "running"
          ELSE nodeRow[m]
    BY <1>3, <2>1, SetRowTypes
  <2> QED
    BY <1>2, <2>2 DEF RowTerminal
<1>6. Busy(n)' /\ \A m \in Nodes \ {n} : Busy(m)' <=> Busy(m)
  BY <1>4 DEF Busy
<1>7. SlotsFit' /\ (n \in BrowserNodes => \A m \in BrowserNodes : ~ Busy(m))
  BY <1>1, <1>3, <1>6, SlotsTaken
<1>8. PredsDone(n)'
  BY <1>2, <1>5, PredsAreNodes DEF PredsDone
<1>9. \A m \in Nodes : m \in retryDue' <=> IF m = n THEN nodeRow'[n] = "retry_wait"
                                           ELSE m \in retryDue
  BY <1>1, <1>2, <1>3, <1>5 DEF MemoryFits
<1>10. CASE nodeRow[n] = "absent"
  <2>1. attempts' = attempts /\ nodeRow' = nodeRow
    BY <1>3, <1>10 DEF RecordAttempt, SetRow
  <2>2. QuietRows
    BY <2>1, SameHistoryKept DEF QuietRows
  <2>3. RowsInv' /\ RowsGrow
    BY <1>1, <2>2, QuietKeepsRows, QuietGrows
  <2>4. MemorySound(n)'
    BY <1>4, <1>5, <1>8, <1>10 DEF MemorySound
  <2>5. MemoryFits'
    BY <1>1, <1>2, <1>4, <1>5, <1>9, <2>1, <2>4, OneNodeMemory
  <2> QED
    BY <1>7, <2>3, <2>5 DEF CarriesOn
<1>11. CASE nodeRow[n] # "absent"
  <2>1. nodeRow'[n] = "running"
    BY <1>5, <1>11
  <2>2. /\ HistorySound(n, nodeRow'[n], attempts'[n])
        /\ \A m \in Nodes \ {n} : SameHistory(attempts[m], attempts'[m])
        /\ Len(attempts'[n]) = Len(attempts[n]) + 1
    BY <1>1, <1>3, <1>11, <2>1, RecordStep
  <2>3. OthersKept(n)
    BY <1>5, <2>2 DEF OthersKept
  <2>4. n \in BrowserNodes => \A m \in BrowserNodes : nodeRow[m] \notin InFlightRow
    BY <1>1, <1>7, MemoryMeaning, RunConstants DEF Busy
  <2>5. NoStrandedRows'
    BY <1>1, <1>2, <1>5, <1>11, <2>1, NoStrandedKept DEF RowsInv
  <2>6. RowsInv'
    BY <1>1, <1>2, <1>11, <2>1, <2>2, <2>3, <2>4, <2>5, OneNodeKeepsRows
  <2>7. Len(attempts[n]) \in Nat
    BY <1>1, SeqFacts DEF TypeOK
  <2>8. RowsGrow
    BY <1>1, <1>11, <2>1, <2>2, <2>3, <2>7, OneNodeGrows
  <2>9. MemorySound(n)'
    <3>1. current[n] = Len(attempts[n])
      BY <1>1, <1>11 DEF MemoryFits, MemorySound
    <3> QED
      BY <1>4, <2>1, <2>2, <3>1 DEF MemorySound, RowState, RestoredState
  <2>10. MemoryFits'
    BY <1>1, <1>2, <1>4, <1>5, <1>9, <2>1, <2>2, <2>9, OneNodeMemory DEF SameHistory
  <2> QED
    BY <1>7, <2>6, <2>8, <2>10 DEF CarriesOn
<1> QED
  BY <1>10, <1>11

(* A dispatch that the transport refuses: the attempt is recorded, the     *)
(* node fails without a retry and what follows it is canceled.             *)
LEMMA DispatchFailsCarriesOn ==
  ASSUME IInv, TypeOK', NEW n \in Nodes, DispatchFails(n)
  PROVE  CarriesOn
<1>1. /\ TypeOK /\ RowsInv /\ MemoryFits /\ SlotsFit /\ Driving
      /\ nodeState[n] = "READY" /\ ~ Busy(n)
  BY DEF IInv, DispatchFails, CanDispatch, Driving, Loop, Busy
<1>2. /\ nodeRow[n] \in {"absent", "blocked", "ready"} /\ PredsDone(n)
  BY <1>1, MemoryMeaning
<1>3. /\ nodeState' = Fail(nodeState, n, "FAILED")
      /\ current' = [current EXCEPT ![n] = @ + 1]
      /\ nodeRow' = PersistCanceled(SetRow(nodeRow, n, "failed"), nodeState')
      /\ attempts' = RecordAttempt(n, "live")
      /\ UNCHANGED <<pc, retryDue, slots>>
  BY DEF DispatchFails
<1>4. /\ nodeState'[n] = "FAILED"
      /\ nodeRow'[n] = IF nodeRow[n] = "absent" THEN "absent" ELSE "failed"
      /\ \A m \in Nodes \ {n} :
           \/ nodeState'[m] = nodeState[m] /\ nodeRow'[m] = nodeRow[m]
           \/ /\ nodeState'[m] = "CANCELED" /\ nodeState[m] = "BLOCKED"
              /\ nodeRow[m] \in {"absent", "blocked"}
              /\ nodeRow'[m] = IF nodeRow[m] = "absent" THEN "absent" ELSE "canceled"
      /\ (NoneStranded(nodeRow) /\ \A m \in Nodes : nodeRow[m] # "absent") =>
           NoneStranded(nodeRow')
  BY <1>1, <1>3, FailRows
<1>5. /\ current'[n] = current[n] + 1
      /\ \A m \in Nodes \ {n} : current'[m] = current[m]
  BY <1>1, <1>3 DEF TypeOK
<1>6. \A m \in Nodes : Busy(m)' <=> Busy(m)
  BY <1>1, <1>4 DEF Busy
<1>7. SlotsFit'
  BY <1>1, <1>3, <1>6, SlotsKept
<1>8. \A m \in Nodes : m \in retryDue' <=> IF m = n THEN nodeRow'[n] = "retry_wait"
                                           ELSE m \in retryDue
  BY <1>1, <1>2, <1>3, <1>4 DEF MemoryFits
<1>9. /\ \A m \in Nodes \ {n} : SameHistory(attempts[m], attempts'[m])
      /\ nodeRow[n] # "absent" => /\ HistorySound(n, nodeRow'[n], attempts'[n])
                                  /\ Len(attempts'[n]) = Len(attempts[n]) + 1
      /\ nodeRow[n] = "absent" => attempts' = attempts
  <2>1. CASE nodeRow[n] # "absent"
    BY <1>1, <1>3, <1>4, <2>1, RecordStep
  <2>2. CASE nodeRow[n] = "absent"
    BY <1>3, <2>2, SameHistoryKept DEF RecordAttempt
  <2> QED
    BY <2>1, <2>2
<1>10. OthersKept(n)
  BY <1>4, <1>9 DEF OthersKept
<1>11. MemorySound(n)'
  <2>1. CASE nodeRow[n] = "absent"
    BY <1>4, <2>1 DEF MemorySound
  <2>2. CASE nodeRow[n] # "absent"
    <3>1. current[n] = Len(attempts[n])
      BY <1>1, <2>2 DEF MemoryFits, MemorySound
    <3> QED
      BY <1>4, <1>5, <1>9, <2>2, <3>1 DEF MemorySound, RowState, RestoredState
  <2> QED
    BY <2>1, <2>2
<1>12. MemoryFits'
  BY <1>1, <1>2, <1>4, <1>5, <1>8, <1>9, <1>11, OneNodeMemory DEF SameHistory
<1>13. Len(attempts[n]) \in Nat
  BY <1>1, SeqFacts DEF TypeOK
<1>14. RowsGrow
  BY <1>1, <1>4, <1>9, <1>10, <1>13, OneNodeGrows
<1>15. RowsInv'
  <2>1. NoStrandedRows'
    <3> SUFFICES ASSUME CrashPoints \cap PartialPoints = {}
                 PROVE  NoneStranded(nodeRow')
      BY DEF NoStrandedRows
    <3>1. NoneStranded(nodeRow) /\ (NoRows \/ \A m \in Nodes : nodeRow[m] # "absent")
      BY <1>1 DEF RowsInv, NoStrandedRows, AllRows, PartialPoints
    <3>2. CASE NoRows
      <4>1. \A m \in Nodes : nodeRow'[m] = "absent"
        BY <1>4, <3>2 DEF NoRows
      <4> QED
        BY <4>1, PredsAreNodes DEF NoneStranded
    <3> QED
      BY <1>4, <3>1, <3>2
  <2>2. HistorySound(n, nodeRow'[n], attempts'[n])
    BY <1>1, <1>4, <1>9 DEF RowsInv, NodeSound
  <2>3. nodeRow'[n] = "absent" <=> nodeRow[n] = "absent"
    BY <1>4
  <2>4. nodeRow'[n] \notin InFlightRow
    BY <1>4 DEF InFlightRow
  <2> QED
    BY <1>1, <1>2, <1>10, <2>1, <2>2, <2>3, <2>4, OneNodeKeepsRows
<1> QED
  BY <1>7, <1>12, <1>14, <1>15 DEF CarriesOn

(* A retry whose backoff is over is made ready.                            *)
LEMMA RetryReadyCarriesOn ==
  ASSUME IInv, TypeOK', NEW n \in Nodes, RetryReady(n)
  PROVE  CarriesOn
<1>1. TypeOK /\ RowsInv /\ MemoryFits /\ SlotsFit /\ Driving
  BY DEF IInv, RetryReady, Driving, Loop
<1>2. nodeRow[n] = "retry_wait" /\ nodeState[n] = "RETRY_WAIT" /\ PredsDone(n)
  <2>1. nodeRow[n] = "retry_wait"
    BY <1>1 DEF MemoryFits, RetryReady
  <2> QED
    BY <1>1, <2>1, MemoryMeaning
<1>3. /\ nodeState' = [nodeState EXCEPT ![n] = "READY"]
      /\ nodeRow' = SetRow(nodeRow, n, "ready")
      /\ retryDue' = retryDue \ {n} /\ UNCHANGED <<attempts, current, slots, pc>>
  BY <1>2 DEF RetryReady
<1>4. /\ nodeState'[n] = "READY" /\ nodeRow'[n] = "ready"
      /\ \A m \in Nodes \ {n} : nodeState'[m] = nodeState[m] /\ nodeRow'[m] = nodeRow[m]
  <2>1. nodeRow \in [Nodes -> RowStatus] /\ "ready" \in RowStatus
    BY <1>1 DEF TypeOK, RowStatus
  <2>2. \A m \in Nodes : nodeRow'[m] =
          IF m = n /\ nodeRow[n] \notin RowTerminal \cup {"absent"} THEN "ready"
          ELSE nodeRow[m]
    BY <1>3, <2>1, SetRowTypes
  <2> QED
    BY <1>1, <1>2, <1>3, <2>2 DEF RowTerminal, TypeOK
<1>5. OthersKept(n)
  BY <1>3, <1>4, SameHistoryKept DEF OthersKept
<1>6. HistorySound(n, nodeRow'[n], attempts'[n])
  <2>1. attempts[n] \in Seq(Attempt) /\ HistorySound(n, nodeRow[n], attempts[n])
    BY <1>1 DEF RowsInv, NodeSound, TypeOK
  <2> QED
    BY <1>2, <1>3, <1>4, <2>1, RowHistory
<1>7. RowsInv'
  <2>1. NoStrandedRows'
    BY <1>1, <1>2, <1>4, NoStrandedKept DEF RowsInv
  <2> QED
    BY <1>1, <1>2, <1>4, <1>5, <1>6, <2>1, OneNodeKeepsRows DEF InFlightRow
<1>8. RowsGrow
  <2>1. Len(attempts[n]) \in Nat
    BY <1>1, SeqFacts DEF TypeOK
  <2> QED
    BY <1>1, <1>2, <1>3, <1>4, <1>5, <2>1, OneNodeGrows
<1>9. MemorySound(n)'
  <2>1. current[n] = Len(attempts[n])
    BY <1>1, <1>2 DEF MemoryFits, MemorySound
  <2> QED
    BY <1>3, <1>4, <2>1 DEF MemorySound, RowState, RestoredState
<1>10. MemoryFits'
  <2>1. \A m \in Nodes : m \in retryDue' <=> IF m = n THEN nodeRow'[n] = "retry_wait"
                                             ELSE m \in retryDue
    BY <1>3, <1>4
  <2> QED
    BY <1>1, <1>2, <1>3, <1>4, <1>9, <2>1, OneNodeMemory
<1>11. SlotsFit'
  <2>1. \A m \in Nodes : Busy(m)' <=> Busy(m)
    BY <1>2, <1>4 DEF Busy
  <2> QED
    BY <1>1, <1>3, <2>1, SlotsKept
<1> QED
  BY <1>7, <1>8, <1>10, <1>11 DEF CarriesOn

(* The attempt of a lease the loop is about to reap: the node's last one   *)
(* when the node is in flight, and a leftover of a settled node otherwise. *)
LEMMA ReapFacts ==
  ASSUME IInv, NEW l \in expired, pc = "reaping", Reapable(l)
  PROVE  /\ l.node \in Nodes /\ l.attempt \in Nat \ {0}
         /\ l.attempt \in DOMAIN attempts[l.node]
         /\ attempts[l.node][l.attempt].status = "running"
         /\ attempts[l.node] \in Seq(Attempt) /\ attempts[l.node] # <<>>
         /\ HistorySound(l.node, nodeRow[l.node], attempts[l.node])
         /\ PredsDone(l.node) /\ current[l.node] = Len(attempts[l.node])
         /\ nodeState[l.node] \in InFlight =>
              /\ Busy(l.node) /\ nodeRow[l.node] \in InFlightRow
              /\ l.attempt = Len(attempts[l.node])
         /\ nodeState[l.node] \notin InFlight =>
              nodeRow[l.node] \in RowTerminal /\ ~ Busy(l.node)
<1> DEFINE n == l.node
<1>1. /\ n \in Nodes /\ l.attempt \in Nat \ {0}
      /\ l.attempt \in DOMAIN attempts[n] /\ attempts[n] \in Seq(Attempt)
      /\ TypeOK /\ RowsInv /\ MemoryFits /\ Driving
  BY DEF IInv, TypeOK, MessagesSound, Driving, Loop
<1>2. attempts[n][l.attempt].status = "running"
  BY DEF Reapable
<1>3. attempts[n] # <<>>
  BY <1>1, SeqFacts
<1>4. HistorySound(n, nodeRow[n], attempts[n]) /\ PredsDone(n)
  BY <1>1, <1>3 DEF RowsInv, NodeSound, Started
<1>5. /\ nodeRow[n] \notin {"absent", "blocked", "ready", "retry_wait"}
      /\ l.attempt = Len(attempts[n])
  BY <1>1, <1>2, <1>3, <1>4 DEF HistorySound, Waits
<1>6. current[n] = Len(attempts[n])
  BY <1>1, <1>5 DEF MemoryFits, MemorySound
<1>7. nodeRow[n] \in RowStatus
  BY <1>1 DEF TypeOK
<1>8. nodeState[n] \in InFlight => Busy(n) /\ nodeRow[n] \in InFlightRow
  BY <1>1, <1>5, MemoryMeaning DEF InFlight, InFlightRow, Busy
<1>9. nodeState[n] \notin InFlight => nodeRow[n] \in RowTerminal /\ ~ Busy(n)
  BY <1>1, <1>5, <1>7, MemoryMeaning DEF InFlight, InFlightRow, Busy, RowStatus, RowTerminal
<1> QED
  BY <1>1, <1>2, <1>3, <1>4, <1>5, <1>6, <1>8, <1>9

(* An expired lease is reaped: its attempt is over, and the node that was  *)
(* in flight is ready again and holds no slot.                             *)
LEMMA ReapCarriesOn ==
  ASSUME IInv, TypeOK', NEW l \in expired, Reap(l)
  PROVE  CarriesOn
<1> DEFINE n == l.node
<1>1. /\ TypeOK /\ RowsInv /\ MemoryFits /\ SlotsFit /\ Driving /\ pc = "reaping"
      /\ Reapable(l)
  BY DEF IInv, Reap, Driving, Loop
<1>2. /\ n \in Nodes /\ l.attempt \in Nat \ {0}
      /\ l.attempt \in DOMAIN attempts[n]
      /\ attempts[n][l.attempt].status = "running"
      /\ attempts[n] \in Seq(Attempt) /\ attempts[n] # <<>>
      /\ HistorySound(n, nodeRow[n], attempts[n])
      /\ PredsDone(n) /\ current[n] = Len(attempts[n])
      /\ nodeState[n] \in InFlight =>
           Busy(n) /\ nodeRow[n] \in InFlightRow /\ l.attempt = Len(attempts[n])
      /\ nodeState[n] \notin InFlight => nodeRow[n] \in RowTerminal /\ ~ Busy(n)
  BY <1>1, ReapFacts
<1>3. /\ attempts'[n] \in Seq(Attempt) /\ Len(attempts'[n]) = Len(attempts[n])
      /\ \A j \in DOMAIN attempts[n] :
           attempts'[n][j].status = IF j = l.attempt THEN "lease_expired"
                                    ELSE attempts[n][j].status
      /\ \A m \in Nodes \ {n} : SameHistory(attempts[m], attempts'[m])
  <2>1. attempts' = FinishAttempt(l, "lease_expired")
    BY DEF Reap
  <2>2. /\ attempts' \in AttemptTable
        /\ \A m \in Nodes : /\ DOMAIN attempts'[m] = DOMAIN attempts[m]
                            /\ Len(attempts'[m]) = Len(attempts[m])
        /\ \A m \in Nodes : \A j \in DOMAIN attempts[m] :
             /\ attempts'[m][j].status = IF m = n /\ j = l.attempt THEN "lease_expired"
                                         ELSE attempts[m][j].status
             /\ attempts'[m][j].lease = attempts[m][j].lease
    BY <1>1, <1>2, <2>1, FinishEffect
  <2> QED
    BY <1>2, <2>2 DEF SameHistory, AttemptTable
<1>4. UNCHANGED <<pc, current, retryDue>>
  BY DEF Reap
<1>5. Len(attempts[n]) \in Nat
  BY <1>2, SeqFacts
<1>6. CASE nodeState[n] \in InFlight
  <2>1. /\ nodeState' = [nodeState EXCEPT ![n] = "READY"]
        /\ nodeRow' = SetRow(nodeRow, n, "ready")
        /\ ReleaseSlots(n)
    BY <1>6 DEF Reap
  <2>2. /\ nodeState'[n] = "READY" /\ nodeRow'[n] = "ready"
        /\ \A m \in Nodes \ {n} : nodeState'[m] = nodeState[m] /\ nodeRow'[m] = nodeRow[m]
    <3>1. n \in Nodes /\ nodeRow \in [Nodes -> RowStatus] /\ "ready" \in RowStatus
      BY <1>1, <1>2 DEF TypeOK, RowStatus
    <3>2. \A m \in Nodes : nodeRow'[m] =
            IF m = n /\ nodeRow[n] \notin RowTerminal \cup {"absent"} THEN "ready"
            ELSE nodeRow[m]
      BY <2>1, <3>1, SetRowTypes
    <3> QED
      BY <1>1, <1>2, <1>6, <2>1, <3>2 DEF RowTerminal, TypeOK, InFlightRow
  <2>3. OthersKept(n)
    BY <1>3, <2>2 DEF OthersKept
  <2>4. HistorySound(n, nodeRow'[n], attempts'[n])
    <3>1. Ends(n, attempts[n], "lease_expired", "ready")
      BY <1>2, <1>6 DEF Ends
    <3> QED
      BY <1>2, <1>3, <1>6, <2>2, <3>1, FinishHistory, SMTT(30)
  <2>5. RowsInv'
    <3>1. NoStrandedRows'
      BY <1>1, <1>2, <1>6, <2>2, NoStrandedKept DEF RowsInv, InFlightRow
    <3> QED
      BY <1>1, <1>2, <1>6, <2>2, <2>3, <2>4, <3>1, OneNodeKeepsRows DEF InFlightRow
  <2>6. RowsGrow
    BY <1>1, <1>2, <1>3, <1>5, <1>6, <2>2, <2>3, OneNodeGrows DEF InFlightRow
  <2>7. MemorySound(n)'
    BY <1>2, <1>3, <1>4, <2>2 DEF MemorySound, RowState, RestoredState
  <2>8. MemoryFits'
    <3>1. n \notin retryDue
      BY <1>1, <1>2, <1>6 DEF MemoryFits, InFlightRow
    <3>2. \A m \in Nodes : m \in retryDue' <=> IF m = n THEN nodeRow'[n] = "retry_wait"
                                               ELSE m \in retryDue
      BY <1>4, <2>2, <3>1
    <3> QED
      BY <1>1, <1>2, <1>3, <1>4, <1>6, <2>2, <2>7, <3>2, OneNodeMemory
         DEF SameHistory, InFlightRow
  <2>9. SlotsFit'
    <3>1. ~ Busy(n)' /\ \A m \in Nodes \ {n} : Busy(m)' <=> Busy(m)
      BY <2>2 DEF Busy
    <3> QED
      BY <1>1, <1>2, <1>6, <2>1, <3>1, SlotsReleased
  <2> QED
    BY <2>5, <2>6, <2>8, <2>9 DEF CarriesOn
<1>7. CASE nodeState[n] \notin InFlight
  <2>1. UNCHANGED <<nodeState, nodeRow, slots>>
    BY <1>7 DEF Reap
  <2>2. OthersKept(n)
    BY <1>3, <2>1 DEF OthersKept
  <2>3. HistorySound(n, nodeRow'[n], attempts'[n])
    BY <1>2, <1>3, <1>7, <2>1, LapseHistory
  <2>4. RowsInv'
    <3>1. NoStrandedRows'
      BY <1>1, <2>1 DEF RowsInv, NoStrandedRows
    <3> QED
      BY <1>1, <1>2, <1>7, <2>1, <2>2, <2>3, <3>1, OneNodeKeepsRows DEF InFlightRow, RowTerminal
  <2>5. RowsGrow
    BY <1>1, <1>2, <1>3, <1>5, <2>1, <2>2, OneNodeGrows
  <2>6. MemorySound(n)'
    <3>1. MemorySound(n) /\ PredsDone(n)' /\ nodeRow[n] # "absent"
      BY <1>1, <1>2, <1>7, <2>1 DEF MemoryFits, PredsDone, RowTerminal
    <3> QED
      BY <1>2, <1>3, <1>4, <2>1, <3>1 DEF MemorySound, RowState
  <2>7. MemoryFits'
    <3>1. \A m \in Nodes : m \in retryDue' <=> IF m = n THEN nodeRow'[n] = "retry_wait"
                                               ELSE m \in retryDue
      BY <1>1, <1>4, <2>1 DEF MemoryFits
    <3> QED
      BY <1>1, <1>2, <1>3, <1>4, <2>1, <2>6, <3>1, OneNodeMemory DEF SameHistory
  <2>8. SlotsFit'
    <3>1. \A m \in Nodes : Busy(m)' <=> Busy(m)
      BY <2>1 DEF Busy
    <3> QED
      BY <1>1, <2>1, <3>1, SlotsKept
  <2> QED
    BY <2>4, <2>5, <2>7, <2>8 DEF CarriesOn
<1> QED
  BY <1>6, <1>7

(* A result that is applied answers the last attempt of a node in flight,  *)
(* or, as a failure, a node that has no row.                               *)
LEMMA ResultFacts ==
  ASSUME IInv, NEW r, IsNext(r), Applicable(r)
  PROVE  /\ r \in Result /\ r.node \in Nodes /\ r.attempt \in Nat \ {0}
         /\ Driving /\ Busy(r.node) /\ PredsDone(r.node)
         /\ attempts[r.node] \in Seq(Attempt) /\ Len(attempts[r.node]) \in Nat
         /\ HistorySound(r.node, nodeRow[r.node], attempts[r.node])
         /\ nodeRow[r.node] = "absent" => r.outcome = "fatal" /\ attempts[r.node] = <<>>
         /\ nodeRow[r.node] # "absent" =>
              /\ nodeRow[r.node] \in InFlightRow
              /\ attempts[r.node] # <<>>
              /\ r.attempt = Len(attempts[r.node]) /\ current[r.node] = Len(attempts[r.node])
<1>1. TypeOK /\ RowsInv /\ MemoryFits /\ Driving
  BY DEF IInv, IsNext, Driving, Loop
<1>2. r \in Result /\ ResultSound(r)
  <2>1. CASE batch # <<>> /\ r = Head(batch)
    <3>1. batch \in Seq(Result)
      BY <1>1 DEF TypeOK
    <3>2. Head(batch) \in Result /\ Head(batch) = batch[1] /\ 1 \in DOMAIN batch
      BY <2>1, <3>1, SeqEnds
    <3>3. \A i \in DOMAIN batch : ResultSound(batch[i])
      BY DEF IInv, MessagesSound, StreamSound
    <3> QED
      BY <2>1, <3>2, <3>3
  <2>2. CASE pel # <<>> /\ r = Head(pel)
    <3>1. pel \in Seq(Result)
      BY <1>1 DEF TypeOK
    <3>2. Head(pel) \in Result /\ Head(pel) = pel[1] /\ 1 \in DOMAIN pel
      BY <2>2, <3>1, SeqEnds
    <3>3. \A i \in DOMAIN pel : ResultSound(pel[i])
      BY DEF IInv, MessagesSound, StreamSound
    <3> QED
      BY <2>2, <3>2, <3>3
  <2> QED
    BY <2>1, <2>2 DEF IsNext
<1> DEFINE n == r.node
<1>3. n \in Nodes /\ r.attempt \in Nat \ {0}
  BY <1>2 DEF Result
<1>4. Busy(n) /\ PredsDone(n) /\ nodeRow[n] \in {"absent", "dispatched", "running"}
  BY <1>1, <1>3, MemoryMeaning DEF Applicable, Busy
<1>5. attempts[n] \in Seq(Attempt) /\ Len(attempts[n]) \in Nat
  BY <1>1, <1>3, SeqFacts DEF TypeOK
<1>6. HistorySound(n, nodeRow[n], attempts[n])
  BY <1>1, <1>3 DEF RowsInv, NodeSound
<1>7. nodeRow[n] = "absent" => r.outcome = "fatal" /\ attempts[n] = <<>>
  BY <1>2, <1>6 DEF ResultSound, HistorySound, Waits
<1>8. ASSUME nodeRow[n] # "absent"
      PROVE  /\ nodeRow[n] \in InFlightRow /\ attempts[n] # <<>>
             /\ r.attempt = Len(attempts[n]) /\ current[n] = Len(attempts[n])
  <2>1. current[n] = Len(attempts[n])
    BY <1>1, <1>3, <1>8 DEF MemoryFits, MemorySound
  <2>2. r.attempt <= Len(attempts[n])
    BY <1>2, <1>8 DEF ResultSound, TaskSound, Key
  <2>3. ~ (r.attempt < current[n])
    BY DEF Applicable, Late
  <2>4. r.attempt = Len(attempts[n])
    BY <1>3, <1>5, <2>1, <2>2, <2>3
  <2>5. attempts[n] # <<>>
    BY <1>3, <1>5, <2>4, SeqFacts
  <2> QED
    BY <1>4, <1>8, <2>1, <2>4, <2>5 DEF InFlightRow
<1> QED
  BY <1>1, <1>2, <1>3, <1>4, <1>5, <1>6, <1>7, <1>8

(* What finishing the attempt a result answers does to the attempts.       *)
LEMMA FinishResult ==
  ASSUME IInv, NEW r, IsNext(r), Applicable(r),
         NEW status \in {"succeeded", "failed"}, NEW new,
         attempts' = FinishAttempt(r, status),
         nodeRow[r.node] # "absent" => Ends(r.node, attempts[r.node], status, new)
  PROVE  /\ attempts'[r.node] \in Seq(Attempt)
         /\ \A m \in Nodes : Len(attempts'[m]) = Len(attempts[m])
         /\ \A m \in Nodes \ {r.node} : SameHistory(attempts[m], attempts'[m])
         /\ nodeRow[r.node] # "absent" => HistorySound(r.node, new, attempts'[r.node])
         /\ nodeRow[r.node] = "absent" => HistorySound(r.node, "absent", attempts'[r.node])
<1> DEFINE n == r.node
<1>1. /\ n \in Nodes /\ r.attempt \in Nat \ {0}
      /\ attempts[n] \in Seq(Attempt) /\ Len(attempts[n]) \in Nat
      /\ HistorySound(n, nodeRow[n], attempts[n])
      /\ nodeRow[n] = "absent" => attempts[n] = <<>>
      /\ nodeRow[n] # "absent" => /\ nodeRow[n] \in InFlightRow /\ attempts[n] # <<>>
                                  /\ r.attempt = Len(attempts[n])
  BY ResultFacts
<1>2. TypeOK
  BY DEF IInv
<1>3. /\ attempts' \in AttemptTable
      /\ \A m \in Nodes : /\ DOMAIN attempts'[m] = DOMAIN attempts[m]
                          /\ Len(attempts'[m]) = Len(attempts[m])
      /\ \A m \in Nodes : \A j \in DOMAIN attempts[m] :
           /\ attempts'[m][j].status = IF m = n /\ j = r.attempt THEN status
                                       ELSE attempts[m][j].status
           /\ attempts'[m][j].lease = attempts[m][j].lease
  BY <1>1, <1>2, FinishEffect
<1>4. attempts'[n] \in Seq(Attempt)
  BY <1>1, <1>3 DEF AttemptTable
<1>5. \A m \in Nodes \ {n} : SameHistory(attempts[m], attempts'[m])
  BY <1>3 DEF SameHistory
<1>6. CASE nodeRow[n] # "absent"
  <2>1. \A j \in DOMAIN attempts[n] :
          attempts'[n][j].status = IF j = Len(attempts[n]) THEN status
                                   ELSE attempts[n][j].status
    BY <1>1, <1>3, <1>6
  <2>2. Len(attempts'[n]) = Len(attempts[n])
    BY <1>1, <1>3
  <2>3. HistorySound(n, new, attempts'[n])
    BY <1>1, <1>4, <1>6, <2>1, <2>2, FinishHistory
  <2> QED
    BY <1>3, <1>4, <1>5, <1>6, <2>3
<1>7. CASE nodeRow[n] = "absent"
  <2>1. DOMAIN attempts[n] = {}
    BY <1>1, <1>7, SeqFacts
  <2>2. SameHistory(attempts[n], attempts'[n])
    BY <1>1, <1>3, <2>1 DEF SameHistory
  <2>3. HistorySound(n, "absent", attempts'[n])
    BY <1>1, <1>4, <1>7, <2>2, SameHistorySound
  <2> QED
    BY <1>3, <1>4, <1>5, <1>7, <2>3
<1> QED
  BY <1>6, <1>7

(* A success is applied: the row, the attempt, the slots and the nodes it  *)
(* readies.                                                                *)
LEMMA ApplySuccessCarriesOn ==
  ASSUME IInv, TypeOK', NEW r, ApplySuccess(r)
  PROVE  CarriesOn
<1> DEFINE n == r.node
<1>1. /\ TypeOK /\ RowsInv /\ MemoryFits /\ SlotsFit
      /\ IsNext(r) /\ Applicable(r) /\ r.outcome = "ok"
  BY DEF IInv, ApplySuccess, Claim
<1>2. /\ n \in Nodes /\ Driving /\ Busy(n) /\ PredsDone(n)
      /\ nodeRow[n] # "absent" /\ nodeRow[n] \in InFlightRow
      /\ attempts[n] # <<>> /\ Len(attempts[n]) \in Nat
      /\ current[n] = Len(attempts[n])
  BY <1>1, ResultFacts
<1>3. /\ nodeRow' = SetRow(nodeRow, n, "succeeded")
      /\ attempts' = FinishAttempt(r, "succeeded")
      /\ nodeState' = Succeed(nodeState, n)
      /\ ReleaseSlots(n) /\ UNCHANGED <<pc, current, retryDue>>
  BY DEF ApplySuccess, Claim
<1>4. /\ \A m \in Nodes : Len(attempts'[m]) = Len(attempts[m])
      /\ \A m \in Nodes \ {n} : SameHistory(attempts[m], attempts'[m])
      /\ HistorySound(n, "succeeded", attempts'[n])
  <2>1. Ends(n, attempts[n], "succeeded", "succeeded")
    BY DEF Ends
  <2> QED
    BY <1>1, <1>2, <1>3, <2>1, FinishResult
<1>5. nodeRow'[n] = "succeeded" /\ \A m \in Nodes \ {n} : nodeRow'[m] = nodeRow[m]
  <2>1. nodeRow \in [Nodes -> RowStatus] /\ "succeeded" \in RowStatus /\ n \in Nodes
    BY <1>1, <1>2 DEF TypeOK, RowStatus
  <2>2. \A m \in Nodes : nodeRow'[m] =
          IF m = n /\ nodeRow[n] \notin RowTerminal \cup {"absent"} THEN "succeeded"
          ELSE nodeRow[m]
    BY <1>3, <2>1, SetRowTypes
  <2> QED
    BY <1>2, <2>2 DEF RowTerminal, InFlightRow
<1>6. /\ nodeState'[n] = "SUCCEEDED"
      /\ \A p \in Nodes : nodeState'[p] = "SUCCEEDED" <=> p = n \/ nodeState[p] = "SUCCEEDED"
      /\ \A m \in Nodes \ {n} :
           nodeState'[m] = IF /\ n \in Preds[m] /\ nodeState[m] = "BLOCKED"
                              /\ PredsSucceeded(nodeState', m)
                           THEN "READY" ELSE nodeState[m]
  <2>1. nodeState \in [Nodes -> NodeStates] /\ n \in Nodes /\ nodeState[n] # "BLOCKED"
    BY <1>1, <1>2 DEF TypeOK, Busy
  <2> QED
    BY <1>3, <2>1, SucceedEffect
<1>7. \A m \in Nodes : PredsSucceeded(nodeState', m) <=> PredsDone(m)'
  <2>1. \A p \in Nodes : nodeState'[p] = "SUCCEEDED" <=> nodeRow'[p] = "succeeded"
    BY <1>1, <1>2, <1>5, <1>6, MemoryMeaning
  <2> QED
    BY <2>1, PredsAreNodes DEF PredsSucceeded, PredsDone
<1>8. OthersKept(n)
  BY <1>4, <1>5 DEF OthersKept
<1>9. RowsInv'
  <2>1. NoStrandedRows'
    BY <1>1, <1>2, <1>5, NoStrandedKept DEF RowsInv, InFlightRow
  <2> QED
    BY <1>1, <1>2, <1>4, <1>5, <1>8, <2>1, OneNodeKeepsRows DEF InFlightRow
<1>10. RowsGrow
  BY <1>1, <1>2, <1>4, <1>5, <1>8, OneNodeGrows
<1>11. MemorySound(n)'
  BY <1>2, <1>3, <1>4, <1>5, <1>6 DEF MemorySound, RowState, RestoredState
<1>12. ASSUME NEW m \in Nodes \ {n}
       PROVE  MemorySound(m)'
  <2>1. /\ MemorySound(m) /\ nodeRow'[m] = nodeRow[m]
        /\ current'[m] = current[m] /\ Len(attempts'[m]) = Len(attempts[m])
    BY <1>1, <1>2, <1>3, <1>4, <1>5 DEF MemoryFits
  <2>2. /\ PredsDone(m) => PredsDone(m)'
        /\ n \notin Preds[m] => (PredsDone(m)' => PredsDone(m))
    BY <1>5, PredsAreNodes DEF PredsDone
  <2>3. nodeState'[m] = IF n \in Preds[m] /\ nodeState[m] = "BLOCKED" /\ PredsDone(m)'
                        THEN "READY" ELSE nodeState[m]
    BY <1>6, <1>7
  <2>4. CASE nodeRow[m] = "absent"
    BY <2>1, <2>2, <2>3, <2>4 DEF MemorySound
  <2>5. CASE nodeRow[m] = "blocked"
    BY <2>1, <2>2, <2>3, <2>5 DEF MemorySound, RowState
  <2>6. CASE nodeRow[m] \notin {"absent", "blocked"}
    <3>1. nodeState[m] # "BLOCKED"
      BY <1>1, <1>2, <2>6, MemoryMeaning
    <3> QED
      BY <2>1, <2>3, <2>6, <3>1 DEF MemorySound, RowState
  <2> QED
    BY <2>4, <2>5, <2>6
<1>13. MemoryFits'
  <2>1. retryDue' = {m \in Nodes : nodeRow'[m] = "retry_wait"}
    BY <1>1, <1>2, <1>3, <1>5 DEF MemoryFits, InFlightRow
  <2> QED
    BY <1>11, <1>12, <2>1 DEF MemoryFits
<1>14. SlotsFit'
  <2>1. ~ Busy(n)' /\ \A m \in Nodes \ {n} : Busy(m)' <=> Busy(m)
    BY <1>6 DEF Busy
  <2> QED
    BY <1>1, <1>2, <1>3, <2>1, SlotsReleased
<1> QED
  BY <1>9, <1>10, <1>13, <1>14 DEF CarriesOn

(* A failure that may be retried is applied: the node waits for its        *)
(* backoff.                                                                *)
LEMMA ApplyRetryCarriesOn ==
  ASSUME IInv, TypeOK', NEW r, ApplyRetry(r)
  PROVE  CarriesOn
<1> DEFINE n == r.node
<1>1. /\ TypeOK /\ RowsInv /\ MemoryFits /\ SlotsFit
      /\ IsNext(r) /\ Applicable(r) /\ r.outcome = "retryable" /\ ~ Exhausted(r)
  BY DEF IInv, ApplyRetry, Claim
<1>2. /\ n \in Nodes /\ Driving /\ Busy(n) /\ PredsDone(n)
      /\ nodeRow[n] # "absent" /\ nodeRow[n] \in InFlightRow
      /\ attempts[n] # <<>> /\ Len(attempts[n]) \in Nat
      /\ current[n] = Len(attempts[n]) /\ r.attempt = Len(attempts[n])
  BY <1>1, ResultFacts
<1>3. /\ nodeRow' = SetRow(nodeRow, n, "retry_wait")
      /\ attempts' = FinishAttempt(r, "failed")
      /\ nodeState' = [nodeState EXCEPT ![n] = "RETRY_WAIT"]
      /\ retryDue' = retryDue \cup {n}
      /\ ReleaseSlots(n) /\ UNCHANGED <<pc, current>>
  BY DEF ApplyRetry, Claim
<1>4. /\ \A m \in Nodes : Len(attempts'[m]) = Len(attempts[m])
      /\ \A m \in Nodes \ {n} : SameHistory(attempts[m], attempts'[m])
      /\ HistorySound(n, "retry_wait", attempts'[n])
  <2>1. Len(attempts[n]) < RetryMax[n]
    <3>1. RetryMax[n] \in Nat /\ ~ (Len(attempts[n]) >= RetryMax[n])
      BY <1>1, <1>2, RunConstants DEF Exhausted
    <3> QED
      BY <1>2, <3>1
  <2>2. Ends(n, attempts[n], "failed", "retry_wait")
    BY <2>1 DEF Ends
  <2> QED
    BY <1>1, <1>2, <1>3, <2>2, FinishResult
<1>5. nodeRow'[n] = "retry_wait" /\ \A m \in Nodes \ {n} : nodeRow'[m] = nodeRow[m]
  <2>1. nodeRow \in [Nodes -> RowStatus] /\ "retry_wait" \in RowStatus /\ n \in Nodes
    BY <1>1, <1>2 DEF TypeOK, RowStatus
  <2>2. \A m \in Nodes : nodeRow'[m] =
          IF m = n /\ nodeRow[n] \notin RowTerminal \cup {"absent"} THEN "retry_wait"
          ELSE nodeRow[m]
    BY <1>3, <2>1, SetRowTypes
  <2> QED
    BY <1>2, <2>2 DEF RowTerminal, InFlightRow
<1>6. /\ nodeState'[n] = "RETRY_WAIT"
      /\ \A m \in Nodes \ {n} : nodeState'[m] = nodeState[m]
  BY <1>1, <1>2, <1>3 DEF TypeOK
<1>7. OthersKept(n)
  BY <1>4, <1>5 DEF OthersKept
<1>8. RowsInv'
  <2>1. NoStrandedRows'
    BY <1>1, <1>2, <1>5, NoStrandedKept DEF RowsInv, InFlightRow
  <2> QED
    BY <1>1, <1>2, <1>4, <1>5, <1>7, <2>1, OneNodeKeepsRows DEF InFlightRow
<1>9. RowsGrow
  BY <1>1, <1>2, <1>4, <1>5, <1>7, OneNodeGrows
<1>10. MemorySound(n)'
  BY <1>2, <1>3, <1>4, <1>5, <1>6 DEF MemorySound, RowState, RestoredState
<1>11. MemoryFits'
  <2>1. \A m \in Nodes : m \in retryDue' <=> IF m = n THEN nodeRow'[n] = "retry_wait"
                                             ELSE m \in retryDue
    BY <1>3, <1>5
  <2> QED
    BY <1>1, <1>2, <1>3, <1>4, <1>5, <1>6, <1>10, <2>1, OneNodeMemory DEF InFlightRow
<1>12. SlotsFit'
  <2>1. ~ Busy(n)' /\ \A m \in Nodes \ {n} : Busy(m)' <=> Busy(m)
    BY <1>6 DEF Busy
  <2> QED
    BY <1>1, <1>2, <1>3, <2>1, SlotsReleased
<1> QED
  BY <1>8, <1>9, <1>11, <1>12 DEF CarriesOn

(* The two ways to fail a node for good.                                   *)
LEMMA ApplyFailingCarriesOn ==
  ASSUME IInv, TypeOK', NEW r, ApplyDeadLetter(r) \/ ApplyFailure(r)
  PROVE  CarriesOn
<1> DEFINE n == r.node
<1>1. /\ TypeOK /\ RowsInv /\ MemoryFits /\ SlotsFit /\ IsNext(r) /\ Applicable(r)
  BY DEF IInv, ApplyDeadLetter, ApplyFailure, Claim
<1>2. /\ n \in Nodes /\ Driving /\ Busy(n) /\ PredsDone(n)
      /\ Len(attempts[n]) \in Nat
      /\ nodeRow[n] # "absent" =>
           nodeRow[n] \in InFlightRow /\ current[n] = Len(attempts[n])
  BY <1>1, ResultFacts
<1>3. PICK how, row :
        /\ \/ how = "FAILED" /\ row = "failed"
           \/ how = "DEAD_LETTERED" /\ row = "dead_lettered"
        /\ nodeState' = Fail(nodeState, n, how)
        /\ nodeRow' = PersistCanceled(SetRow(nodeRow, n, row), nodeState')
  BY DEF ApplyDeadLetter, ApplyFailure
<1>4. /\ attempts' = FinishAttempt(r, "failed")
      /\ ReleaseSlots(n) /\ UNCHANGED <<pc, current, retryDue>>
  BY DEF ApplyDeadLetter, ApplyFailure, Claim
<1>5. nodeState[n] = "RUNNING" /\ nodeRow[n] \in {"absent", "dispatched", "running"}
  BY <1>2 DEF Busy, InFlightRow
<1>6. /\ nodeState'[n] = how
      /\ nodeRow'[n] = IF nodeRow[n] = "absent" THEN "absent" ELSE row
      /\ \A m \in Nodes \ {n} :
           \/ nodeState'[m] = nodeState[m] /\ nodeRow'[m] = nodeRow[m]
           \/ /\ nodeState'[m] = "CANCELED" /\ nodeState[m] = "BLOCKED"
              /\ nodeRow[m] \in {"absent", "blocked"}
              /\ nodeRow'[m] = IF nodeRow[m] = "absent" THEN "absent" ELSE "canceled"
      /\ (NoneStranded(nodeRow) /\ \A m \in Nodes : nodeRow[m] # "absent") =>
           NoneStranded(nodeRow')
  BY <1>1, <1>2, <1>3, <1>5, FailRows
<1>7. /\ \A m \in Nodes : Len(attempts'[m]) = Len(attempts[m])
      /\ \A m \in Nodes \ {n} : SameHistory(attempts[m], attempts'[m])
      /\ HistorySound(n, nodeRow'[n], attempts'[n])
  <2>1. Ends(n, attempts[n], "failed", row)
    BY <1>3 DEF Ends
  <2>2. /\ \A m \in Nodes : Len(attempts'[m]) = Len(attempts[m])
        /\ \A m \in Nodes \ {n} : SameHistory(attempts[m], attempts'[m])
        /\ nodeRow[n] # "absent" => HistorySound(n, row, attempts'[n])
        /\ nodeRow[n] = "absent" => HistorySound(n, "absent", attempts'[n])
    BY <1>1, <1>4, <2>1, FinishResult
  <2> QED
    BY <1>6, <2>2
<1>8. OthersKept(n)
  BY <1>6, <1>7 DEF OthersKept
<1>9. nodeRow'[n] = "absent" <=> nodeRow[n] = "absent"
  BY <1>3, <1>6
<1>10. nodeRow'[n] \notin InFlightRow \cup {"retry_wait", "succeeded"}
  BY <1>3, <1>6 DEF InFlightRow
<1>11. RowsInv'
  <2>1. NoStrandedRows'
    <3> SUFFICES ASSUME CrashPoints \cap PartialPoints = {}
                 PROVE  NoneStranded(nodeRow')
      BY DEF NoStrandedRows
    <3>1. NoneStranded(nodeRow) /\ (NoRows \/ \A m \in Nodes : nodeRow[m] # "absent")
      BY <1>1 DEF RowsInv, NoStrandedRows, AllRows, PartialPoints
    <3>2. CASE NoRows
      <4>1. \A m \in Nodes : nodeRow'[m] = "absent"
        BY <1>6, <3>2 DEF NoRows
      <4> QED
        BY <4>1, PredsAreNodes DEF NoneStranded
    <3> QED
      BY <1>6, <3>1, <3>2
  <2> QED
    BY <1>1, <1>2, <1>5, <1>7, <1>8, <1>9, <1>10, <2>1, OneNodeKeepsRows
<1>12. RowsGrow
  BY <1>1, <1>2, <1>7, <1>8, <1>9, OneNodeGrows
<1>13. MemorySound(n)'
  <2>1. CASE nodeRow[n] = "absent"
    <3>1. nodeState'[n] = "FAILED"
      <4>1. r.outcome = "fatal"
        BY <1>1, <2>1, ResultFacts
      <4>2. ApplyFailure(r)
        BY <4>1 DEF ApplyDeadLetter
      <4>3. nodeState \in [Nodes -> NodeStates] /\ nodeState' = Fail(nodeState, n, "FAILED")
        BY <1>1, <4>2 DEF ApplyFailure, TypeOK
      <4> QED
        BY <1>2, <4>3, FailEffect
    <3> QED
      BY <1>6, <2>1, <3>1 DEF MemorySound
  <2>2. CASE nodeRow[n] # "absent"
    BY <1>2, <1>3, <1>4, <1>6, <1>7, <2>2 DEF MemorySound, RowState, RestoredState
  <2> QED
    BY <2>1, <2>2
<1>14. MemoryFits'
  <2>1. \A m \in Nodes : m \in retryDue' <=> IF m = n THEN nodeRow'[n] = "retry_wait"
                                             ELSE m \in retryDue
    BY <1>1, <1>2, <1>4, <1>5, <1>10 DEF MemoryFits
  <2> QED
    BY <1>1, <1>2, <1>4, <1>5, <1>6, <1>7, <1>10, <1>13, <2>1, OneNodeMemory
<1>15. SlotsFit'
  <2>1. ~ Busy(n)' /\ \A m \in Nodes \ {n} : Busy(m)' <=> Busy(m)
    BY <1>3, <1>6 DEF Busy
  <2> QED
    BY <1>1, <1>2, <1>4, <2>1, SlotsReleased
<1> QED
  BY <1>11, <1>12, <1>14, <1>15 DEF CarriesOn

-----------------------------------------------------------------------------
(* Steps that leave the rows and the loop's view of them alone.            *)

QuietStep ==
  \/ BeginDispatch \/ ScanLeases \/ EndScan \/ Finish \/ ReadNothing
  \/ ReadBatch \/ AckBatch \/ EndDrain
  \/ \E n \in Nodes : Defer(n)
  \/ \E l \in expired : SkipLease(l)
  \/ \E r \in NextResults : Discard(r)
  \/ Control
  \/ \E t \in taskQueue \cup held : WorkerStep(t)
  \/ \E n \in Nodes : \E k \in DOMAIN attempts[n] : LeaseLapses(<<n, k>>)
  \/ UNCHANGED vars

(* A claim, a lapse and a renewal keep the history of every node.          *)
LEMMA LeasesQuiet ==
  ASSUME TypeOK, NEW t \in AttemptIds,
         \/ WorkerClaim(t) \/ Renew(t) \/ LeaseLapses(t)
  PROVE  QuietRows
<1>1. nodeRow' = nodeRow
  BY DEF WorkerClaim, Renew, LeaseLapses
<1>2. CASE UNCHANGED attempts
  BY <1>1, <1>2, SameHistoryKept DEF QuietRows
<1>3. CASE ~ UNCHANGED attempts
  <2>1. Running(t)
    BY <1>3 DEF WorkerClaim, Renew, LeaseLapses
  <2>2. \/ attempts' = ClaimWrite(t)
        \/ attempts' = LeaseWrite(t, "live")
        \/ attempts' = LeaseWrite(t, "lapsed")
    BY <1>3 DEF WorkerClaim, Renew, LeaseLapses, ClaimWrite, LeaseWrite
  <2>3. LeaseSet(attempts', t, "live") \/ LeaseSet(attempts', t, "lapsed")
    BY <2>1, <2>2, LeaseEffect
  <2>4. \A m \in Nodes : SameHistory(attempts[m], attempts'[m])
    BY <2>3 DEF LeaseSet, SameHistory
  <2> QED
    BY <1>1, <2>4 DEF QuietRows
<1> QED
  BY <1>2, <1>3

(* The steps of workers, messages, clocks and users write no history.      *)
LEMMA QuietStepEffect ==
  ASSUME TypeOK, QuietStep
  PROVE  /\ QuietRows /\ UNCHANGED <<nodeState, current, retryDue, slots>>
         /\ Driving' => Driving
<1>1. CASE UNCHANGED <<nodeRow, attempts>>
  <2>1. QuietRows
    BY <1>1, SameHistoryKept DEF QuietRows
  <2>2. UNCHANGED <<nodeState, current, retryDue, slots>>
    BY DEF QuietStep, BeginDispatch, ScanLeases, EndScan, Finish, ReadNothing, ReadBatch,
           AckBatch, EndDrain, Defer, SkipLease, Discard, Control, CancelFlag, CancelStamp,
           Stop, WorkerStep, WorkerClaim, WorkerShortCircuits, WorkerFinish, WorkerDies,
           Renew, LeaseLapses, vars, db, net, slots
  <2>3. Driving' => Driving
    BY ZenonT(40) DEF Driving, Loop, QuietStep, BeginDispatch, ScanLeases, EndScan, Finish, ReadNothing,
           ReadBatch, AckBatch, EndDrain, Defer, SkipLease, Discard, Control, CancelFlag,
           CancelStamp, Stop, WorkerStep, WorkerClaim, WorkerShortCircuits, WorkerFinish,
           WorkerDies, Renew, LeaseLapses, vars, db, net, slots
  <2> QED
    BY <2>1, <2>2, <2>3
<1>2. CASE ~ UNCHANGED <<nodeRow, attempts>>
  <2>1. \/ \E t \in taskQueue \cup held : WorkerStep(t)
        \/ \E n \in Nodes : \E k \in DOMAIN attempts[n] : LeaseLapses(<<n, k>>)
    BY <1>2 DEF QuietStep, BeginDispatch, ScanLeases, EndScan, Finish, ReadNothing, ReadBatch,
           AckBatch, EndDrain, Defer, SkipLease, Discard, Control, CancelFlag, CancelStamp,
           Stop, vars, db
  <2>2. \E t \in AttemptIds : WorkerClaim(t) \/ Renew(t) \/ LeaseLapses(t)
    <3>1. ASSUME NEW t \in taskQueue \cup held, WorkerStep(t)
          PROVE  t \in AttemptIds /\ (WorkerClaim(t) \/ Renew(t))
      BY <1>2, <3>1 DEF WorkerStep, WorkerShortCircuits, WorkerFinish, WorkerDies, db, TypeOK
    <3>2. ASSUME NEW n \in Nodes, NEW k \in DOMAIN attempts[n]
          PROVE  <<n, k>> \in AttemptIds
      <4>1. attempts[n] \in Seq(Attempt)
        BY DEF TypeOK
      <4>2. k \in Nat \ {0}
        BY <4>1, SeqFacts
      <4> QED
        BY <4>2 DEF AttemptIds
    <3> QED
      BY <2>1, <3>1, <3>2
  <2>3. PICK t \in AttemptIds : WorkerClaim(t) \/ Renew(t) \/ LeaseLapses(t)
    BY <2>2
  <2>4. QuietRows
    BY <2>3, LeasesQuiet
  <2> QED
    BY <2>3, <2>4 DEF WorkerClaim, Renew, LeaseLapses, Driving
<1> QED
  BY <1>1, <1>2

(* Those steps keep the rows, the memory and the slots in agreement.       *)
LEMMA QuietCarriesOn ==
  ASSUME IInv, TypeOK', QuietStep
  PROVE  CarriesOn
<1>1. TypeOK /\ RowsInv /\ MemoryFits /\ SlotsFit
  BY DEF IInv
<1>2. /\ QuietRows /\ UNCHANGED <<nodeState, current, retryDue, slots>>
      /\ Driving' => Driving
  BY <1>1, QuietStepEffect
<1>3. RowsInv' /\ RowsGrow
  BY <1>1, <1>2, QuietKeepsRows, QuietGrows
<1>4. MemoryFits'
  <2> SUFFICES ASSUME Driving
               PROVE  /\ \A n \in Nodes : MemorySound(n)'
                      /\ retryDue' = {n \in Nodes : nodeRow'[n] = "retry_wait"}
    BY <1>2 DEF MemoryFits
  <2>1. \A n \in Nodes : Len(attempts'[n]) = Len(attempts[n])
    BY <1>2 DEF QuietRows, SameHistory
  <2>2. ASSUME NEW n \in Nodes
        PROVE  MemorySound(n)'
    <3>1. MemorySound(n) /\ nodeRow' = nodeRow
      BY <1>1, <1>2 DEF MemoryFits, QuietRows
    <3> QED
      BY <1>1, <1>2, <2>1, <3>1, KeptMemory
  <2>3. retryDue' = {n \in Nodes : nodeRow'[n] = "retry_wait"}
    BY <1>1, <1>2 DEF MemoryFits, QuietRows
  <2> QED
    BY <2>2, <2>3
<1>5. SlotsFit'
  <2> SUFFICES ASSUME Driving
               PROVE  SlotsFit'
    BY <1>2 DEF SlotsFit
  <2>1. \A m \in Nodes : Busy(m)' <=> Busy(m)
    BY <1>2 DEF Busy
  <2> QED
    BY <1>1, <1>2, <2>1, SlotsKept
<1> QED
  BY <1>3, <1>4, <1>5 DEF CarriesOn

-----------------------------------------------------------------------------
(* The start, the cancellation, and the restart.                           *)

(* Rows that come into being: every one is blocked and nothing was tried.  *)
LEMMA CreatedRows ==
  ASSUME TypeOK, RowsInv, NoRows, attempts' = attempts,
         \A n \in Nodes : nodeRow'[n] \in {"absent", "blocked"}, AllRows'
  PROVE  RowsInv' /\ \A n \in Nodes : attempts[n] = <<>>
<1>1. ASSUME NEW n \in Nodes
      PROVE  NodeSound(n)' /\ attempts[n] = <<>>
  <2>1. nodeRow[n] = "absent" /\ attempts[n] \in Seq(Attempt)
    BY DEF NoRows, TypeOK
  <2>2. HistorySound(n, nodeRow[n], attempts[n])
    BY DEF RowsInv, NodeSound
  <2>3. attempts[n] = <<>>
    BY <2>1, <2>2 DEF HistorySound, Waits
  <2>4. HistorySound(n, nodeRow'[n], attempts'[n])
    BY <2>1, <2>2, RowHistory
  <2>5. ~ Started(n)'
    BY <2>3 DEF Started
  <2> QED
    BY <2>3, <2>4, <2>5 DEF NodeSound
<1>2. OneBrowserRow'
  BY RunConstants DEF OneBrowserRow, InFlightRow
<1>3. NoStrandedRows'
  BY PredsAreNodes DEF NoStrandedRows, NoneStranded
<1> QED
  BY <1>1, <1>2, <1>3 DEF RowsInv

(* A fresh run creates its rows, all of them blocked.                      *)
LEMMA StartCarriesOn ==
  ASSUME IInv, TypeOK', StartFresh
  PROVE  RowsInv' /\ MemoryFits' /\ SlotsFit' /\ \A n \in Nodes : nodeRow'[n] = "blocked"
<1>1. /\ TypeOK /\ RowsInv /\ NoRows
      /\ nodeState = [n \in Nodes |-> "BLOCKED"] /\ current = [n \in Nodes |-> 0]
      /\ retryDue = {} /\ quotaHeld = {} /\ usage = 0
  BY DEF IInv, Phases, FreshMemory, StartFresh
<1>2. /\ \A n \in Nodes : nodeRow'[n] = "blocked"
      /\ attempts' = attempts /\ UNCHANGED <<current, retryDue, slots>>
      /\ nodeState' = Unblock(nodeState)
  BY <1>1 DEF StartFresh, NoRows
<1>3. RowsInv' /\ \A n \in Nodes : attempts[n] = <<>>
  <2>1. AllRows'
    BY <1>2 DEF AllRows
  <2> QED
    BY <1>1, <1>2, <2>1, CreatedRows
<1>4. ASSUME NEW n \in Nodes
      PROVE  MemorySound(n)' /\ ~ Busy(n)'
  <2>1. PredsSucceeded(nodeState, n) <=> Preds[n] = {}
    BY <1>1, PredsAreNodes DEF PredsSucceeded
  <2>2. PredsDone(n)' <=> Preds[n] = {}
    BY <1>2, PredsAreNodes DEF PredsDone
  <2>3. nodeState'[n] = IF Preds[n] = {} THEN "READY" ELSE "BLOCKED"
    BY <1>1, <1>2, <2>1 DEF Unblock
  <2>4. current'[n] = Len(attempts'[n])
    BY <1>1, <1>2, <1>3
  <2> QED
    BY <1>2, <2>2, <2>3, <2>4 DEF MemorySound, RowState, Busy
<1>5. MemoryFits'
  BY <1>1, <1>2, <1>4 DEF MemoryFits
<1>6. SlotsFit'
  BY <1>1, <1>2, <1>4, RunConstants DEF SlotsFit, slots
<1> QED
  BY <1>2, <1>3, <1>5, <1>6

(* Rows that are canceled, whatever became of their nodes.                 *)
LEMMA CanceledRows ==
  ASSUME TypeOK, RowsInv, NEW S, nodeRow' = CancelRows(nodeRow, S),
         attempts' = attempts, NoStrandedRows'
  PROVE  RowsInv' /\ RowsGrow
<1>1. \A m \in Nodes : nodeRow'[m] =
        IF m \in S /\ nodeRow[m] \notin RowTerminal \cup {"absent"}
        THEN "canceled" ELSE nodeRow[m]
  BY DEF CancelRows
<1>2. ASSUME NEW n \in Nodes
      PROVE  NodeSound(n)'
  <2>1. /\ HistorySound(n, nodeRow[n], attempts[n]) /\ (Started(n) => PredsDone(n))
        /\ attempts[n] \in Seq(Attempt)
    BY DEF RowsInv, NodeSound, TypeOK
  <2>2. HistorySound(n, nodeRow'[n], attempts'[n])
    <3>1. CASE nodeRow'[n] = nodeRow[n]
      BY <2>1, <3>1
    <3>2. CASE nodeRow[n] # "succeeded" /\ nodeRow'[n] = "canceled"
      BY <2>1, <3>2, RowHistory DEF RowTerminal
    <3> QED
      BY <1>1, <3>1, <3>2 DEF RowTerminal
  <2>3. Started(n)' => Started(n)
    BY <1>1 DEF Started
  <2>4. PredsDone(n) => PredsDone(n)'
    BY <1>1, PredsAreNodes DEF PredsDone, RowTerminal
  <2> QED
    BY <2>1, <2>2, <2>3, <2>4 DEF NodeSound
<1>3. OneBrowserRow'
  <2>1. \A m \in BrowserNodes : nodeRow'[m] \in InFlightRow => nodeRow[m] \in InFlightRow
    BY <1>1, RunConstants DEF InFlightRow
  <2> QED
    BY <2>1 DEF RowsInv, OneBrowserRow
<1>4. \A n \in Nodes : nodeRow'[n] = "absent" <=> nodeRow[n] = "absent"
  BY <1>1
<1>5. AllRows'
  BY <1>4 DEF RowsInv, AllRows, NoRows
<1>6. \A m \in Nodes : Len(attempts[m]) <= Len(attempts'[m])
  <2>1. \A m \in Nodes : Len(attempts[m]) \in Nat
    BY SeqFacts DEF TypeOK
  <2> QED
    BY <2>1
<1> QED
  BY <1>2, <1>3, <1>4, <1>5, <1>6 DEF RowsInv, RowsGrow

(* A cancel of the run closes every row that is open.                      *)
LEMMA CancelRunCarriesOn ==
  ASSUME IInv, CancelRun
  PROVE  CarriesOn /\ \A n \in Nodes : ~ RowOpen(n)'
<1>1. TypeOK /\ RowsInv /\ MemoryFits /\ Driving
  BY DEF IInv, CancelRun, Driving, Loop
<1> DEFINE S == {m \in Nodes : nodeState'[m] = "CANCELED" /\ nodeState[m] # "CANCELED"}
<1>2. nodeRow' = CancelRows(nodeRow, S) /\ attempts' = attempts /\ pc' = "done"
  BY DEF CancelRun, PersistCanceled
<1>3. \A m \in Nodes : nodeState[m] \notin Terminal <=> m \in S
  BY DEF CancelRun, CancelOpen, Terminal, Unsuccessful
<1>4. \A m \in Nodes : nodeRow'[m] =
        IF nodeRow[m] \in RowTerminal \cup {"absent"} THEN nodeRow[m] ELSE "canceled"
  <2>1. \A m \in Nodes : nodeRow[m] \notin RowTerminal \cup {"absent"} => m \in S
    BY <1>1, <1>3, MemoryMeaning
  <2>2. \A m \in Nodes : nodeRow'[m] =
          IF m \in S /\ nodeRow[m] \notin RowTerminal \cup {"absent"}
          THEN "canceled" ELSE nodeRow[m]
    BY <1>2 DEF CancelRows
  <2> QED
    BY <2>1, <2>2
<1>5. NoStrandedRows'
  <2> SUFFICES ASSUME CrashPoints \cap PartialPoints = {}, NEW m \in Nodes, NEW p \in Preds[m],
                      nodeRow'[p] \in {"failed", "dead_lettered", "canceled"}
               PROVE  nodeRow'[m] = "canceled"
    BY DEF NoStrandedRows, NoneStranded
  <2>1. p \in Nodes
    BY PredsAreNodes
  <2>2. nodeRow[p] # "absent" /\ nodeRow[p] # "succeeded"
    BY <1>4, <2>1 DEF RowTerminal
  <2>3. nodeRow[m] # "absent"
    BY <1>1, <2>1, <2>2 DEF RowsInv, AllRows, NoRows, PartialPoints
  <2>4. ~ Started(m)
    BY <1>1, <2>2 DEF RowsInv, NodeSound, PredsDone
  <2> QED
    BY <1>4, <2>3, <2>4 DEF Started, RowTerminal
<1>6. RowsInv' /\ RowsGrow
  BY <1>1, <1>2, <1>5, CanceledRows
<1>7. MemoryFits' /\ SlotsFit'
  BY <1>2 DEF MemoryFits, SlotsFit, Driving, Loop
<1>8. \A n \in Nodes : ~ RowOpen(n)'
  BY <1>4 DEF RowOpen, RowTerminal
<1> QED
  BY <1>6, <1>7, <1>8 DEF CarriesOn

(* The memory a resuming loop rebuilds fits the rows it reads.             *)
LEMMA ResumeCarriesOn ==
  ASSUME IInv, TypeOK', Resume
  PROVE  CarriesOn
<1>1. TypeOK /\ RowsInv
  BY DEF IInv
<1>2. nodeRow' = nodeRow /\ attempts' = attempts
  BY DEF Resume, db
<1>3. QuietRows
  BY <1>2, SameHistoryKept DEF QuietRows
<1>4. RowsInv' /\ RowsGrow
  BY <1>1, <1>3, QuietKeepsRows, QuietGrows
<1>5. CASE NoRows
  <2>1. pc' = "start"
    BY <1>5 DEF Resume, NoRows
  <2> QED
    BY <1>4, <2>1 DEF CarriesOn, MemoryFits, SlotsFit, Driving
<1>6. CASE ~ NoRows
  <2>1. /\ nodeState' = Restore(nodeRow)
        /\ current' = [n \in Nodes |-> Len(attempts[n])]
        /\ retryDue' = {n \in Nodes : nodeRow[n] = "retry_wait"}
        /\ usage' = Cardinality(InFlightRows \cap BrowserNodes)
        /\ quotaHeld' = InFlightRows
    BY <1>6 DEF Resume, AttemptNumbers, Parked, NoRows
  <2>2. ASSUME NEW n \in Nodes
        PROVE  MemorySound(n)' /\ (Busy(n)' <=> nodeRow[n] \in InFlightRow)
    <3>1. nodeRow \in [Nodes -> RowStatus] /\ nodeRow[n] \in RowStatus
      BY <1>1 DEF TypeOK
    <3>2. nodeState'[n] = IF nodeRow[n] \in {"absent", "blocked"}
                          THEN IF PredsDone(n) THEN "READY" ELSE "BLOCKED"
                          ELSE RestoredState(nodeRow[n])
      BY <2>1, <3>1, RestoreAt DEF PredsDone
    <3>3. PredsDone(n)' <=> PredsDone(n)
      BY <1>2 DEF PredsDone
    <3>4. current'[n] = Len(attempts'[n])
      BY <1>2, <2>1
    <3>5. MemorySound(n)'
      BY <1>2, <3>2, <3>3, <3>4 DEF MemorySound, RowState
    <3>6. Busy(n)' <=> nodeRow[n] \in InFlightRow
      BY <3>1, <3>2 DEF Busy, RestoredState, RowStatus, InFlightRow
    <3> QED
      BY <3>5, <3>6
  <2>3. MemoryFits'
    BY <1>2, <2>1, <2>2 DEF MemoryFits
  <2>4. SlotsFit'
    <3> DEFINE S == InFlightRows \cap BrowserNodes
    <3>1. S = {n \in BrowserNodes : nodeRow[n] \in InFlightRow}
      BY RunConstants DEF InFlightRows, InFlightRow
    <3>2. \A m, n \in BrowserNodes : Busy(m)' /\ Busy(n)' => m = n
      BY <1>1, <2>2, RunConstants DEF RowsInv, OneBrowserRow
    <3>3. usage' = IF \E n \in BrowserNodes : Busy(n)' THEN 1 ELSE 0
      <4>1. CASE S = {}
        <5>1. usage' = 0
          BY <2>1, <4>1, FS_EmptySet
        <5> QED
          BY <2>2, <3>1, <4>1, <5>1, RunConstants
      <4>2. CASE S # {}
        <5>1. PICK x \in S : TRUE
          BY <4>2
        <5>2. S = {x}
          BY <1>1, <3>1, <5>1 DEF RowsInv, OneBrowserRow
        <5>3. usage' = 1
          BY <2>1, <5>2, FS_Singleton
        <5> QED
          BY <2>2, <3>1, <5>1, <5>3, RunConstants
      <4> QED
        BY <4>1, <4>2
    <3>4. quotaHeld' = {n \in Nodes : Busy(n)'}
      BY <2>1, <2>2 DEF InFlightRows, InFlightRow
    <3> QED
      BY <3>2, <3>3, <3>4 DEF SlotsFit
  <2> QED
    BY <1>4, <2>3, <2>4 DEF CarriesOn
<1> QED
  BY <1>5, <1>6

-----------------------------------------------------------------------------
(* Deaths in the middle of a call.                                         *)

(* A dead scheduler has no memory that should fit anything.                *)
LEMMA DeadMemory ==
  ASSUME Die
  PROVE  MemoryFits' /\ SlotsFit'
  BY DEF Die, MemoryFits, SlotsFit, Driving, Loop

(* A crash while the rows are created leaves none or some of them, and no  *)
(* memory.                                                                 *)
LEMMA CrashCreatingCarriesOn ==
  ASSUME IInv, TypeOK', CrashCreating
  PROVE  RowsInv' /\ MemoryFits' /\ SlotsFit'
<1>1. TypeOK /\ RowsInv /\ NoRows
  BY DEF IInv, Phases, CrashCreating
<1>2. PICK rows \in [Nodes -> {"absent", "blocked"}] :
        /\ (\A n \in Nodes : rows[n] = "absent") \/ "create.partial" \in CrashPoints
        /\ nodeRow' = [n \in Nodes |-> IF nodeRow[n] = "absent" THEN rows[n] ELSE nodeRow[n]]
  BY DEF CrashCreating
<1>3. \A n \in Nodes : nodeRow'[n] = rows[n]
  BY <1>1, <1>2 DEF NoRows
<1>4. AllRows'
  BY <1>2, <1>3 DEF AllRows, NoRows
<1>5. attempts' = attempts /\ \A n \in Nodes : nodeRow'[n] \in {"absent", "blocked"}
  BY <1>2, <1>3 DEF CrashCreating
<1>6. RowsInv'
  BY <1>1, <1>4, <1>5, CreatedRows
<1> QED
  BY <1>6, DeadMemory DEF CrashCreating

(* A crash within a dispatch leaves the first of its writes, and no        *)
(* memory.                                                                 *)
LEMMA CrashDispatchingCarriesOn ==
  ASSUME IInv, TypeOK', NEW n \in Nodes, CrashDispatching(n)
  PROVE  CarriesOn
<1>1. /\ TypeOK /\ RowsInv /\ MemoryFits /\ SlotsFit /\ Driving
      /\ nodeState[n] = "READY" /\ HasSlot(n) /\ Die
  BY DEF IInv, CrashDispatching, CanDispatch, Driving, Loop
<1>2. /\ nodeRow[n] \in {"absent", "blocked", "ready"} /\ PredsDone(n)
  BY <1>1, MemoryMeaning
<1>3. PICK point \in CrashPoints \cap DispatchPoints :
        /\ nodeRow' = SetRow(nodeRow, n,
                             IF point \in {"dispatch.dispatched", "dispatch.recorded"}
                             THEN "dispatched" ELSE "running")
        /\ attempts' = IF point = "dispatch.dispatched" THEN attempts
                       ELSE RecordAttempt(n, IF point = "dispatch.leased"
                                             THEN "live" ELSE "none")
  BY DEF CrashDispatching
<1> DEFINE status == IF point \in {"dispatch.dispatched", "dispatch.recorded"}
                     THEN "dispatched" ELSE "running"
<1>4. /\ nodeRow'[n] = IF nodeRow[n] = "absent" THEN "absent" ELSE status
      /\ \A m \in Nodes \ {n} : nodeRow'[m] = nodeRow[m]
  <2>1. nodeRow \in [Nodes -> RowStatus] /\ status \in RowStatus
    BY <1>1 DEF TypeOK, RowStatus
  <2>0. nodeRow' = SetRow(nodeRow, n, status)
    BY <1>3
  <2> HIDE DEF status
  <2>2. \A m \in Nodes : nodeRow'[m] =
          IF m = n /\ nodeRow[n] \notin RowTerminal \cup {"absent"} THEN status
          ELSE nodeRow[m]
    BY <2>0, <2>1, SetRowTypes
  <2> USE DEF status
  <2> QED
    BY <1>2, <2>2 DEF RowTerminal
<1>5. status \in {"dispatched", "running"}
  OBVIOUS
<1>6. point # "dispatch.leased" => CrashPoints \cap WedgePoints # {}
  BY DEF DispatchPoints, WedgePoints
<1> HIDE DEF status
<1>7. RowsInv' /\ RowsGrow
  <2>1. CASE nodeRow[n] = "absent"
    <3>1. nodeRow' = nodeRow /\ attempts' = attempts
      BY <1>3, <2>1 DEF SetRow, RecordAttempt
    <3>2. QuietRows
      BY <3>1, SameHistoryKept DEF QuietRows
    <3> QED
      BY <1>1, <3>2, QuietKeepsRows, QuietGrows
  <2>2. CASE nodeRow[n] # "absent"
    <3>1. nodeRow'[n] \in {"dispatched", "running"}
      BY <1>4, <1>5, <2>2
    <3>2. Len(attempts[n]) \in Nat
      BY <1>1, SeqFacts DEF TypeOK
    <3>3. /\ HistorySound(n, nodeRow'[n], attempts'[n])
          /\ \A m \in Nodes \ {n} : SameHistory(attempts[m], attempts'[m])
          /\ Len(attempts[n]) <= Len(attempts'[n])
      <4>1. CASE point = "dispatch.dispatched"
        <5>1. attempts' = attempts
          BY <1>3, <4>1
        <5>2. nodeRow'[n] = "dispatched"
          BY <1>4, <2>2, <4>1 DEF status
        <5>3. HistorySound(n, nodeRow[n], attempts[n]) /\ attempts[n] \in Seq(Attempt)
          BY <1>1 DEF RowsInv, NodeSound, TypeOK
        <5>4. HistorySound(n, nodeRow'[n], attempts'[n])
          BY <1>2, <1>6, <2>2, <4>1, <5>1, <5>2, <5>3, RowHistory
        <5> QED
          BY <3>2, <5>1, <5>4, SameHistoryKept
      <4>2. CASE point = "dispatch.leased"
        <5>1. attempts' = RecordAttempt(n, "live")
          BY <1>3, <4>2
        <5> QED
          BY <1>1, <2>2, <3>1, <3>2, <5>1, RecordStep
      <4>3. CASE point \notin {"dispatch.dispatched", "dispatch.leased"}
        <5>1. attempts' = RecordAttempt(n, "none") /\ CrashPoints \cap WedgePoints # {}
          BY <1>3, <1>6, <4>3
        <5> QED
          BY <1>1, <2>2, <3>1, <3>2, <5>1, RecordStep
      <4> QED
        BY <4>1, <4>2, <4>3
    <3>4. OthersKept(n)
      BY <1>4, <3>3 DEF OthersKept
    <3>5. n \in BrowserNodes => \A m \in BrowserNodes : nodeRow[m] \notin InFlightRow
      <4>1. n \in BrowserNodes => \A m \in BrowserNodes : ~ Busy(m)
        BY <1>1 DEF SlotsFit, HasSlot, AffinityCapacity
      <4> QED
        BY <1>1, <4>1, MemoryMeaning, RunConstants DEF Busy
    <3>6. NoStrandedRows'
      BY <1>1, <1>2, <1>4, <3>1, NoStrandedKept DEF RowsInv
    <3>7. RowsInv'
      BY <1>1, <1>2, <2>2, <3>1, <3>3, <3>4, <3>5, <3>6, OneNodeKeepsRows
    <3> QED
      BY <1>1, <2>2, <3>1, <3>3, <3>4, <3>7, OneNodeGrows
  <2> QED
    BY <2>1, <2>2
<1> QED
  BY <1>1, <1>7, DeadMemory DEF CarriesOn

(* A crash within the reaping of a lease leaves the first of its writes,   *)
(* and no memory.                                                          *)
LEMMA CrashReapingCarriesOn ==
  ASSUME IInv, TypeOK', NEW l \in expired, CrashReaping(l)
  PROVE  CarriesOn
<1> DEFINE n == l.node
<1>1. /\ TypeOK /\ RowsInv /\ pc = "reaping" /\ Reapable(l) /\ Die
      /\ CrashPoints \cap WedgePoints # {}
      /\ nodeRow' = nodeRow /\ attempts' = FinishAttempt(l, "lease_expired")
  BY DEF IInv, CrashReaping, WedgePoints
<1>2. /\ n \in Nodes /\ l.attempt \in Nat \ {0}
      /\ l.attempt \in DOMAIN attempts[n]
      /\ attempts[n][l.attempt].status = "running"
      /\ attempts[n] \in Seq(Attempt) /\ attempts[n] # <<>>
      /\ HistorySound(n, nodeRow[n], attempts[n]) /\ PredsDone(n)
      /\ \/ nodeRow[n] \in InFlightRow /\ l.attempt = Len(attempts[n])
         \/ nodeRow[n] \in RowTerminal
  BY <1>1, ReapFacts
<1>3. /\ attempts' \in AttemptTable
      /\ \A m \in Nodes : /\ DOMAIN attempts'[m] = DOMAIN attempts[m]
                          /\ Len(attempts'[m]) = Len(attempts[m])
      /\ \A m \in Nodes : \A j \in DOMAIN attempts[m] :
           /\ attempts'[m][j].status = IF m = n /\ j = l.attempt THEN "lease_expired"
                                       ELSE attempts[m][j].status
           /\ attempts'[m][j].lease = attempts[m][j].lease
  BY <1>1, <1>2, FinishEffect
<1>4. attempts'[n] \in Seq(Attempt) /\ Len(attempts[n]) \in Nat
  BY <1>2, <1>3, SeqFacts DEF AttemptTable
<1>5. OthersKept(n)
  BY <1>1, <1>3 DEF OthersKept, SameHistory
<1>6. HistorySound(n, nodeRow'[n], attempts'[n])
  <2>1. CASE nodeRow[n] \in InFlightRow /\ l.attempt = Len(attempts[n])
    <3>1. Ends(n, attempts[n], "lease_expired", nodeRow[n])
      BY <1>1, <1>2, <2>1 DEF Ends
    <3> QED
      BY <1>1, <1>2, <1>3, <1>4, <2>1, <3>1, FinishHistory
  <2>2. CASE nodeRow[n] \in RowTerminal
    BY <1>1, <1>2, <1>3, <1>4, <2>2, LapseHistory, SMTT(30)
  <2> QED
    BY <1>2, <2>1, <2>2
<1>7. RowsInv'
  <2>1. NoStrandedRows'
    BY <1>1 DEF RowsInv, NoStrandedRows
  <2>2. n \in BrowserNodes /\ nodeRow'[n] \in InFlightRow =>
          \A m \in BrowserNodes : nodeRow[m] \in InFlightRow => m = n
    BY <1>1 DEF RowsInv, OneBrowserRow
  <2> QED
    BY <1>1, <1>2, <1>5, <1>6, <2>1, <2>2, OneNodeKeepsRows
<1>8. RowsGrow
  BY <1>1, <1>2, <1>3, <1>4, <1>5, OneNodeGrows
<1> QED
  BY <1>1, <1>7, <1>8, DeadMemory DEF CarriesOn

(* A crash within the handling of a result leaves the first of its writes, *)
(* and no memory.                                                          *)
LEMMA CrashApplyingCarriesOn ==
  ASSUME IInv, TypeOK', NEW r, CrashApplying(r)
  PROVE  CarriesOn
<1> DEFINE n == r.node
<1>1. /\ TypeOK /\ RowsInv /\ MemoryFits /\ IsNext(r) /\ Applicable(r) /\ Die
  BY DEF IInv, CrashApplying
<1>2. /\ n \in Nodes /\ Driving /\ Busy(n) /\ PredsDone(n)
      /\ r \in Result /\ attempts[n] \in Seq(Attempt) /\ Len(attempts[n]) \in Nat
      /\ HistorySound(n, nodeRow[n], attempts[n])
      /\ nodeRow[n] = "absent" => r.outcome = "fatal"
      /\ nodeRow[n] # "absent" => nodeRow[n] \in InFlightRow
  BY <1>1, ResultFacts
<1>3. nodeRow \in [Nodes -> RowStatus]
  BY <1>1 DEF TypeOK
<1>4. ASSUME UNCHANGED <<nodeRow, attempts>>
      PROVE  RowsInv' /\ RowsGrow
  <2>1. QuietRows
    BY <1>4, SameHistoryKept DEF QuietRows
  <2> QED
    BY <1>1, <2>1, QuietKeepsRows, QuietGrows
<1>5. ASSUME r.outcome = "ok", nodeRow' = SetRow(nodeRow, n, "succeeded"), UNCHANGED attempts
      PROVE  RowsInv' /\ RowsGrow
  <2>1. nodeRow'[n] = "succeeded" /\ \A m \in Nodes \ {n} : nodeRow'[m] = nodeRow[m]
    <3>1. "succeeded" \in RowStatus /\ n \in Nodes /\ nodeRow' = SetRow(nodeRow, n, "succeeded")
      BY <1>2, <1>5 DEF RowStatus
    <3>2. \A m \in Nodes : nodeRow'[m] =
            IF m = n /\ nodeRow[n] \notin RowTerminal \cup {"absent"} THEN "succeeded"
            ELSE nodeRow[m]
      BY <1>3, <3>1, SetRowTypes
    <3> QED
      BY <1>2, <1>5, <3>2 DEF RowTerminal, InFlightRow
  <2>2. OthersKept(n)
    BY <1>5, <2>1, SameHistoryKept DEF OthersKept
  <2>3. HistorySound(n, nodeRow'[n], attempts'[n])
    BY <1>2, <1>5, <2>1, RowHistory DEF InFlightRow, RowTerminal
  <2>4. NoStrandedRows'
    BY <1>1, <1>2, <1>5, <2>1, NoStrandedKept DEF RowsInv, InFlightRow
  <2> QED
    BY <1>1, <1>2, <1>5, <2>1, <2>2, <2>3, <2>4, OneNodeKeepsRows, OneNodeGrows DEF InFlightRow
<1>6. ASSUME "fail.attempt_finished" \in CrashPoints, r.outcome # "ok",
             attempts' = FinishAttempt(r, "failed"), UNCHANGED nodeRow
      PROVE  RowsInv' /\ RowsGrow
  <2>1. nodeRow[n] # "absent" => Ends(n, attempts[n], "failed", nodeRow[n])
    BY <1>2, <1>6 DEF Ends, WedgePoints
  <2>2. /\ \A m \in Nodes : Len(attempts'[m]) = Len(attempts[m])
        /\ \A m \in Nodes \ {n} : SameHistory(attempts[m], attempts'[m])
        /\ HistorySound(n, nodeRow[n], attempts'[n])
    BY <1>1, <1>6, <2>1, FinishResult
  <2>3. OthersKept(n)
    BY <1>6, <2>2 DEF OthersKept
  <2>4. NoStrandedRows'
    BY <1>1, <1>6 DEF RowsInv, NoStrandedRows
  <2>5. n \in BrowserNodes /\ nodeRow'[n] \in InFlightRow =>
          \A m \in BrowserNodes : nodeRow[m] \in InFlightRow => m = n
    BY <1>1, <1>6 DEF RowsInv, OneBrowserRow
  <2> QED
    BY <1>1, <1>2, <1>6, <2>2, <2>3, <2>4, <2>5, OneNodeKeepsRows, OneNodeGrows
<1>7. ASSUME "fail.completed" \in CrashPoints,
             r.outcome = "fatal" \/ (r.outcome = "retryable" /\ Exhausted(r)),
             attempts' = FinishAttempt(r, "failed"),
             NEW kept \in SUBSET Nodes,
             nodeRow' = CancelRows(SetRow(nodeRow, n, FailureRow(r)),
                                   Downstream(nodeState, n) \ kept)
      PROVE  RowsInv' /\ RowsGrow
  <2> DEFINE row == FailureRow(r)
             set == SetRow(nodeRow, n, row)
  <2>1. row \in {"failed", "dead_lettered"} /\ row \in RowStatus
    BY DEF FailureRow, RowStatus
  <2> HIDE DEF row
  <2>2. /\ set \in [Nodes -> RowStatus]
        /\ \A m \in Nodes : set[m] =
             IF m = n /\ nodeRow[n] \notin RowTerminal \cup {"absent"} THEN row
             ELSE nodeRow[m]
    BY <1>2, <1>3, <2>1, SetRowTypes
  <2>3. \A m \in Nodes : nodeRow'[m] =
          IF m \in Downstream(nodeState, n) \ kept /\ set[m] \notin RowTerminal \cup {"absent"}
          THEN "canceled" ELSE set[m]
    BY <1>7 DEF CancelRows, row
  <2> HIDE DEF set
  <2>4. \A m \in Downstream(nodeState, n) :
          m \in Nodes \ {n} /\ nodeRow[m] \in {"absent", "blocked"}
    BY <1>1, <1>2, DownstreamRows DEF Busy
  <2>5. nodeRow'[n] = IF nodeRow[n] = "absent" THEN "absent" ELSE row
    BY <1>2, <2>2, <2>3, <2>4 DEF RowTerminal, InFlightRow
  <2>6. \A m \in Nodes \ {n} :
          nodeRow'[m] = nodeRow[m] \/ (nodeRow[m] = "blocked" /\ nodeRow'[m] = "canceled")
    BY <2>2, <2>3, <2>4
  <2>7. Ends(n, attempts[n], "failed", row)
    BY <2>1 DEF Ends
  <2>8. /\ \A m \in Nodes : Len(attempts'[m]) = Len(attempts[m])
        /\ \A m \in Nodes \ {n} : SameHistory(attempts[m], attempts'[m])
        /\ HistorySound(n, nodeRow'[n], attempts'[n])
    <3>1. /\ \A m \in Nodes : Len(attempts'[m]) = Len(attempts[m])
          /\ \A m \in Nodes \ {n} : SameHistory(attempts[m], attempts'[m])
          /\ nodeRow[n] # "absent" => HistorySound(n, row, attempts'[n])
          /\ nodeRow[n] = "absent" => HistorySound(n, "absent", attempts'[n])
      BY <1>1, <1>7, <2>7, FinishResult
    <3> QED
      BY <2>5, <3>1
  <2>9. OthersKept(n)
    BY <2>6, <2>8 DEF OthersKept
  <2>10. NoStrandedRows'
    BY <1>7 DEF NoStrandedRows, PartialPoints
  <2>11. /\ nodeRow'[n] = "absent" <=> nodeRow[n] = "absent"
         /\ nodeRow'[n] \notin InFlightRow /\ nodeRow[n] # "succeeded"
    BY <1>2, <2>1, <2>5 DEF InFlightRow
  <2> QED
    BY <1>1, <1>2, <2>8, <2>9, <2>10, <2>11, OneNodeKeepsRows, OneNodeGrows
<1>8. RowsInv' /\ RowsGrow
  BY <1>4, <1>5, <1>6, <1>7 DEF CrashApplying
<1> QED
  BY <1>1, <1>8, DeadMemory DEF CarriesOn

(* A crash within the cancel of a run leaves some of its rows closed.      *)
LEMMA CrashCancelingCarriesOn ==
  ASSUME IInv, CrashCanceling
  PROVE  CarriesOn
<1>1. TypeOK /\ RowsInv /\ Die /\ attempts' = attempts
  BY DEF IInv, CrashCanceling
<1>2. PICK S : nodeRow' = CancelRows(nodeRow, S)
  BY DEF CrashCanceling
<1>3. NoStrandedRows'
  BY DEF NoStrandedRows, PartialPoints, CrashCanceling
<1>4. RowsInv' /\ RowsGrow
  BY <1>1, <1>2, <1>3, CanceledRows
<1> QED
  BY <1>1, <1>4, DeadMemory DEF CarriesOn

(* A crash between two steps loses the memory and nothing else.            *)
LEMMA CrashCarriesOn ==
  ASSUME IInv, TypeOK', Crash
  PROVE  CarriesOn
<1>1. TypeOK /\ RowsInv /\ Die
  BY DEF IInv, Crash
<1>2. QuietRows
  BY SameHistoryKept DEF QuietRows, Crash, db
<1> QED
  BY <1>1, <1>2, QuietKeepsRows, QuietGrows, DeadMemory DEF CarriesOn

-----------------------------------------------------------------------------
(* Every step keeps the rows, the memory and the slots.                    *)

(* The steps, by what they write.                                          *)
LEMMA NextCases ==
  [Next]_vars =>
    \/ QuietStep \/ StartFresh \/ CancelRun \/ Resume
    \/ \E n \in Nodes : Dispatch(n) \/ DispatchFails(n) \/ RetryReady(n)
    \/ \E l \in expired : Reap(l)
    \/ \E r \in NextResults :
         ApplySuccess(r) \/ ApplyRetry(r) \/ ApplyDeadLetter(r) \/ ApplyFailure(r)
    \/ Crash \/ CrashCreating \/ CrashCanceling
    \/ \E n \in Nodes : CrashDispatching(n)
    \/ \E l \in expired : CrashReaping(l)
    \/ \E r \in NextResults : CrashApplying(r)
  BY DEF Next, LoopStep, SchedulerDies, QuietStep

Creation == NoRows /\ (StartFresh \/ CrashCreating)

(* Every step keeps the rows, the memory and the slots sound, and takes    *)
(* back nothing that was recorded, unless it creates the rows.             *)
LEMMA RowsStep ==
  ASSUME IInv, TypeOK', [Next]_vars
  PROVE  RowsInv' /\ MemoryFits' /\ SlotsFit' /\ (RowsGrow \/ Creation)
<1>1. CASE QuietStep
  BY <1>1, QuietCarriesOn DEF CarriesOn
<1>2. CASE StartFresh
  BY <1>2, StartCarriesOn DEF IInv, Phases, StartFresh, Creation
<1>3. CASE CancelRun
  BY <1>3, CancelRunCarriesOn DEF CarriesOn
<1>4. CASE Resume
  BY <1>4, ResumeCarriesOn DEF CarriesOn
<1>5. CASE \E n \in Nodes : Dispatch(n) \/ DispatchFails(n) \/ RetryReady(n)
  BY <1>5, DispatchCarriesOn, DispatchFailsCarriesOn, RetryReadyCarriesOn DEF CarriesOn
<1>6. CASE \E l \in expired : Reap(l)
  BY <1>6, ReapCarriesOn DEF CarriesOn
<1>7. CASE \E r \in NextResults :
             ApplySuccess(r) \/ ApplyRetry(r) \/ ApplyDeadLetter(r) \/ ApplyFailure(r)
  BY <1>7, ApplySuccessCarriesOn, ApplyRetryCarriesOn, ApplyFailingCarriesOn DEF CarriesOn
<1>8. CASE Crash
  BY <1>8, CrashCarriesOn DEF CarriesOn
<1>9. CASE CrashCreating
  BY <1>9, CrashCreatingCarriesOn DEF IInv, Phases, CrashCreating, Creation
<1>10. CASE CrashCanceling
  BY <1>10, CrashCancelingCarriesOn DEF CarriesOn
<1>11. CASE \E n \in Nodes : CrashDispatching(n)
  BY <1>11, CrashDispatchingCarriesOn DEF CarriesOn
<1>12. CASE \E l \in expired : CrashReaping(l)
  BY <1>12, CrashReapingCarriesOn DEF CarriesOn
<1>13. CASE \E r \in NextResults : CrashApplying(r)
  BY <1>13, CrashApplyingCarriesOn DEF CarriesOn
<1> QED
  BY <1>1, <1>2, <1>3, <1>4, <1>5, <1>6, <1>7, <1>8, <1>9, <1>10, <1>11, <1>12, <1>13,
     NextCases

-----------------------------------------------------------------------------
(* Messages.                                                               *)

Elements(s) == {s[i] : i \in DOMAIN s}

Carried == Elements(resultStream) \cup Elements(pel) \cup Elements(batch)

(* What was sound to say of an attempt stays sound.                        *)
Later ==
  /\ \A t \in AttemptIds : TaskSound(t) => TaskSound(t)'
  /\ \A r \in Result : ResultSound(r) => ResultSound(r)'
  /\ \A n \in Nodes : nodeRow[n] # "absent" => nodeRow'[n] # "absent"
  /\ \A n \in Nodes : \A k \in DOMAIN attempts[n] : k \in DOMAIN attempts'[n]

(* What the rows say of a task or a result on its way they go on saying.   *)
LEMMA LaterHolds ==
  ASSUME TypeOK, TypeOK', RowsInv, RowsGrow \/ NoRows
  PROVE  Later
<1>1. ASSUME NEW n \in Nodes
      PROVE  /\ Len(attempts[n]) \in Nat /\ Len(attempts'[n]) \in Nat
             /\ DOMAIN attempts[n] = 1 .. Len(attempts[n])
             /\ DOMAIN attempts'[n] = 1 .. Len(attempts'[n])
             /\ nodeRow[n] = "absent" => DOMAIN attempts[n] = {}
  <2>1. attempts[n] \in Seq(Attempt) /\ attempts'[n] \in Seq(Attempt)
    BY DEF TypeOK
  <2>2. nodeRow[n] = "absent" => attempts[n] = <<>>
    BY DEF RowsInv, NodeSound, HistorySound, Waits
  <2> QED
    BY <2>1, <2>2, SeqFacts
<1>2. \A n \in Nodes : nodeRow[n] # "absent" => nodeRow'[n] # "absent"
  BY DEF RowsGrow, NoRows
<1>3. \A n \in Nodes : \A k \in DOMAIN attempts[n] : k \in DOMAIN attempts'[n]
  <2>1. CASE NoRows
    BY <1>1, <2>1 DEF NoRows
  <2>2. CASE RowsGrow
    <3> SUFFICES ASSUME NEW n \in Nodes, NEW k \in 1 .. Len(attempts[n])
                 PROVE  k \in 1 .. Len(attempts'[n])
      BY <1>1
    <3> QED
      BY <1>1, <2>2 DEF RowsGrow
  <2> QED
    BY <2>1, <2>2
<1>4. ASSUME NEW t \in AttemptIds, TaskSound(t)
      PROVE  TaskSound(t)'
  <2>1. RowsGrow
    BY <1>4 DEF TaskSound, NoRows
  <2>2. t[1] \in Nodes /\ t[2] \in Nat
    BY DEF AttemptIds
  <2>3. \E m \in Nodes : nodeRow'[m] # "absent"
    BY <1>2, <1>4 DEF TaskSound
  <2>4. ASSUME nodeRow'[t[1]] # "absent"
        PROVE  t[2] <= Len(attempts'[t[1]])
    <3>1. t[2] <= Len(attempts[t[1]])
      BY <1>4, <2>1, <2>2, <2>4 DEF TaskSound, RowsGrow
    <3>2. Len(attempts[t[1]]) <= Len(attempts'[t[1]])
      BY <2>1, <2>2 DEF RowsGrow
    <3> QED
      BY <1>1, <2>2, <3>1, <3>2
  <2> QED
    BY <2>3, <2>4 DEF TaskSound
<1>5. ASSUME NEW r \in Result, ResultSound(r)
      PROVE  ResultSound(r)'
  <2>1. Key(r) \in AttemptIds /\ r.node \in Nodes
    BY DEF Key, Result, AttemptIds
  <2>2. TaskSound(Key(r))'
    BY <1>4, <1>5, <2>1 DEF ResultSound
  <2> QED
    BY <1>2, <1>5, <2>1, <2>2 DEF ResultSound
<1> QED
  BY <1>2, <1>3, <1>4, <1>5 DEF Later

(* What a step must show of the messages it adds.                          *)
LEMMA MessagesStep ==
  ASSUME TypeOK, TypeOK', MessagesSound, Later,
         \A t \in taskQueue' \cup held' : t \in taskQueue \cup held \/ TaskSound(t)',
         \A t \in held' : t \in held \/ nodeRow[t[1]] # "absent",
         \A r \in Carried' : r \in Carried \/ (r \in Result /\ ResultSound(r)),
         \A l \in expired' : l \in expired \/ l.attempt \in DOMAIN attempts[l.node]
  PROVE  MessagesSound'
<1>1. \A t \in taskQueue' \cup held' : TaskSound(t)'
  BY DEF MessagesSound, Later, TypeOK
<1>2. \A t \in held' : nodeRow'[t[1]] # "absent"
  <2>1. \A t \in held' : t \in AttemptIds /\ t[1] \in Nodes
    BY DEF TypeOK, AttemptIds
  <2> QED
    BY <2>1 DEF MessagesSound, Later
<1>3. \A r \in Carried : r \in Result /\ ResultSound(r)
  <2>1. resultStream \in Seq(Result) /\ pel \in Seq(Result) /\ batch \in Seq(Result)
    BY DEF TypeOK
  <2>2. ASSUME NEW s \in Seq(Result)
        PROVE  \A i \in DOMAIN s : s[i] \in Result
    BY SeqFacts
  <2> QED
    BY <2>1, <2>2 DEF Carried, Elements, MessagesSound, StreamSound
<1>4. \A r \in Carried' : ResultSound(r)'
  BY <1>3 DEF Later
<1>5. /\ \A i \in DOMAIN resultStream' : resultStream'[i] \in Carried'
      /\ \A i \in DOMAIN pel' : pel'[i] \in Carried'
      /\ \A i \in DOMAIN batch' : batch'[i] \in Carried'
  BY DEF Carried, Elements
<1>6. StreamSound(resultStream)' /\ StreamSound(pel)' /\ StreamSound(batch)'
  BY <1>4, <1>5 DEF StreamSound, ResultSound, TaskSound, Key
<1>7. \A l \in expired' : l.attempt \in DOMAIN attempts'[l.node]
  <2>1. \A l \in expired' : l.node \in Nodes
    BY DEF TypeOK
  <2> QED
    BY <2>1 DEF MessagesSound, Later
<1> QED
  BY <1>1, <1>2, <1>6, <1>7 DEF MessagesSound

(* The steps that send nothing.                                            *)
LEMMA SilentMessages ==
  ASSUME TypeOK, TypeOK', MessagesSound, Later,
         taskQueue' \subseteq taskQueue, held' \subseteq held,
         Carried' \subseteq Carried, expired' \subseteq expired
  PROVE  MessagesSound'
  BY MessagesStep

(* The death of the scheduler leaves what is on its way sound.             *)
LEMMA DeadMessages ==
  ASSUME TypeOK, TypeOK', MessagesSound, Later, Die
  PROVE  MessagesSound'
<1>1. Elements(batch') = {}
  BY DEF Die, ForgetMemory, Elements
<1>2. Carried' \subseteq Carried
  BY <1>1 DEF Die, net, Carried, Elements
<1> QED
  BY <1>2, SilentMessages DEF Die, ForgetMemory, net

(* Consuming a result removes it from where it was.                        *)
LEMMA ConsumeMessages ==
  ASSUME TypeOK, NEW r, IsNext(r), Consume, UNCHANGED resultStream
  PROVE  Carried' \subseteq Carried
<1>1. ASSUME NEW s \in Seq(Result), s # <<>>
      PROVE  Elements(Tail(s)) \subseteq Elements(s)
  BY <1>1, SeqEnds DEF Elements
<1>2. batch \in Seq(Result) /\ pel \in Seq(Result)
  BY DEF TypeOK
<1>3. CASE pc = "apply"
  <2>1. batch' = Tail(batch) /\ pel' = pel /\ batch # <<>>
    BY <1>3 DEF Consume, IsNext
  <2>2. Elements(batch') \subseteq Elements(batch)
    BY <1>1, <1>2, <2>1
  <2> QED
    BY <2>1, <2>2 DEF Carried, Elements
<1>4. CASE pc # "apply"
  <2>1. pel' = Tail(pel) /\ batch' = batch /\ pel # <<>>
    BY <1>4 DEF Consume, IsNext
  <2>2. Elements(pel') \subseteq Elements(pel)
    BY <1>1, <1>2, <2>1
  <2> QED
    BY <2>1, <2>2 DEF Carried, Elements
<1> QED
  BY <1>3, <1>4

(* The steps of the workers.                                               *)
LEMMA WorkerMessages ==
  ASSUME TypeOK, TypeOK', RowsInv, MessagesSound, Later,
         NEW t \in taskQueue \cup held, WorkerStep(t)
  PROVE  MessagesSound'
<1>1. t \in AttemptIds /\ t[1] \in Nodes /\ t[2] \in Nat \ {0} /\ TaskSound(t)
  BY DEF TypeOK, AttemptIds, MessagesSound
<1>2. resultStream \in Seq(Result)
  BY DEF TypeOK
<1>3. ASSUME NEW outcome \in {"ok", "retryable", "fatal"},
             outcome # "fatal" => nodeRow[t[1]] # "absent"
      PROVE  Answer(t, outcome) \in Result /\ ResultSound(Answer(t, outcome))
  <2>1. Answer(t, outcome) \in Result
    BY <1>1 DEF Answer, Result
  <2>2. Key(Answer(t, outcome)) = t /\ Answer(t, outcome).node = t[1]
    BY <1>1 DEF Answer, Key, AttemptIds
  <2>3. Answer(t, outcome).outcome = outcome
    BY DEF Answer
  <2> QED
    BY <1>1, <1>3, <2>1, <2>2, <2>3 DEF ResultSound
<1>4. ASSUME NEW r \in Result
      PROVE  /\ \A x \in Elements(Append(resultStream, r)) : x \in Carried \/ x = r
             /\ \A x \in Elements(resultStream \o <<r, r>>) : x \in Carried \/ x = r
  <2>1. /\ DOMAIN resultStream = 1 .. Len(resultStream) /\ Len(resultStream) \in Nat
    BY <1>2, SeqFacts
  <2>2. ASSUME NEW x \in Elements(Append(resultStream, r))
        PROVE  x \in Carried \/ x = r
    <3>1. PICK i \in DOMAIN Append(resultStream, r) : x = Append(resultStream, r)[i]
      BY DEF Elements
    <3>2. i \in 1 .. Len(resultStream) + 1
      BY <1>2, <2>1, <3>1, AppendProperties, LenProperties
    <3>3. CASE i = Len(resultStream) + 1
      BY <1>2, <3>1, <3>3, AppendProperties
    <3>4. CASE i \in 1 .. Len(resultStream)
      BY <1>2, <2>1, <3>1, <3>4, AppendProperties DEF Carried, Elements
    <3> QED
      BY <2>1, <3>2, <3>3, <3>4
  <2>3. ASSUME NEW x \in Elements(resultStream \o <<r, r>>)
        PROVE  x \in Carried \/ x = r
    <3> DEFINE two == <<r, r>>
               s == resultStream \o two
    <3>1. two \in Seq(Result) /\ Len(two) = 2 /\ two[1] = r /\ two[2] = r
      OBVIOUS
    <3> HIDE DEF two, s
    <3>2. /\ s \in Seq(Result) /\ Len(s) = Len(resultStream) + 2
          /\ \A i \in 1 .. Len(resultStream) + 2 :
               s[i] = IF i <= Len(resultStream) THEN resultStream[i]
                      ELSE two[i - Len(resultStream)]
      <4>1. s = resultStream \o two
        BY DEF s
      <4>2. /\ s \in Seq(Result) /\ Len(s) = Len(resultStream) + Len(two)
            /\ \A i \in 1 .. Len(resultStream) + Len(two) :
                 s[i] = IF i <= Len(resultStream) THEN resultStream[i]
                        ELSE two[i - Len(resultStream)]
        BY <1>2, <3>1, <4>1, ConcatProperties
      <4> QED
        BY <3>1, <4>2
    <3>3. DOMAIN s = 1 .. Len(resultStream) + 2
      BY <3>2, LenProperties
    <3>4. x \in Elements(s)
      BY DEF two, s
    <3>5. PICK i \in DOMAIN s : x = s[i]
      BY <3>4 DEF Elements
    <3>6. CASE i <= Len(resultStream)
      <4>1. i \in DOMAIN resultStream /\ x = resultStream[i]
        BY <2>1, <3>2, <3>3, <3>5, <3>6
      <4> QED
        BY <4>1 DEF Carried, Elements
    <3>7. CASE ~ (i <= Len(resultStream))
      <4>1. i - Len(resultStream) = 1 \/ i - Len(resultStream) = 2
        BY <2>1, <3>3, <3>5, <3>7
      <4> QED
        BY <3>1, <3>2, <3>3, <3>5, <3>7, <4>1
    <3> QED
      BY <3>6, <3>7
  <2> QED
    BY <2>2, <2>3
<1>5. CASE WorkerClaim(t)
  <2>1. /\ taskQueue' \subseteq taskQueue /\ UNCHANGED <<resultStream, pel, batch, expired>>
        /\ held' \subseteq held \cup {t} /\ t \in taskQueue
    BY <1>5 DEF WorkerClaim, walk
  <2>2. t \in held' => t \in held \/ nodeRow[t[1]] # "absent"
    <3>1. CASE Running(t)
      <4>1. t[2] <= Len(attempts[t[1]])
        BY <3>1 DEF Running
      <4>2. attempts[t[1]] # <<>>
        BY <1>1, <4>1, SeqFacts, SMTT(30) DEF TypeOK
      <4> QED
        BY <1>1, <4>2 DEF RowsInv, NodeSound, HistorySound, Waits
    <3>2. CASE ~ Running(t)
      BY <1>5, <3>2 DEF WorkerClaim
    <3> QED
      BY <3>1, <3>2
  <2>3. Carried' = Carried
    BY <2>1 DEF Carried, Elements
  <2> QED
    BY <2>1, <2>2, <2>3, MessagesStep
<1>6. CASE WorkerShortCircuits(t)
  <2>1. /\ taskQueue' \subseteq taskQueue /\ UNCHANGED <<held, pel, batch, expired>>
        /\ resultStream' = Append(resultStream, Answer(t, "fatal"))
    BY <1>6 DEF WorkerShortCircuits, walk
  <2>2. Answer(t, "fatal") \in Result /\ ResultSound(Answer(t, "fatal"))
    BY <1>3
  <2>3. \A r \in Carried' : r \in Carried \/ r = Answer(t, "fatal")
    BY <1>4, <2>1, <2>2 DEF Carried, Elements
  <2> QED
    BY <2>1, <2>2, <2>3, MessagesStep
<1>7. CASE WorkerFinish(t)
  <2>1. PICK outcome \in {"ok", "retryable", "fatal"} :
          \/ resultStream' = Append(resultStream, Answer(t, outcome))
          \/ resultStream' = resultStream \o <<Answer(t, outcome), Answer(t, outcome)>>
    BY <1>7, RunConstants DEF WorkerFinish
  <2>2. /\ held' \subseteq held /\ UNCHANGED <<taskQueue, pel, batch, expired>> /\ t \in held
    BY <1>7 DEF WorkerFinish, walk
  <2>3. Answer(t, outcome) \in Result /\ ResultSound(Answer(t, outcome))
    BY <1>3, <2>2 DEF MessagesSound
  <2>4. \A r \in Carried' : r \in Carried \/ r = Answer(t, outcome)
    BY <1>4, <2>1, <2>2, <2>3 DEF Carried, Elements
  <2> QED
    BY <2>2, <2>3, <2>4, MessagesStep
<1>8. CASE WorkerDies(t) \/ Renew(t)
  <2>1. /\ held' \subseteq held
        /\ UNCHANGED <<taskQueue, resultStream, pel, batch, expired>>
    BY <1>8 DEF WorkerDies, Renew, walk, net
  <2>2. Carried' = Carried
    BY <2>1 DEF Carried, Elements
  <2> QED
    BY <2>1, <2>2, SilentMessages
<1> QED
  BY <1>5, <1>6, <1>7, <1>8 DEF WorkerStep

(* The steps of the loop that move results or send a task.                 *)
LEMMA LoopMessages ==
  ASSUME IInv, TypeOK', MemoryFits', Later,
         \/ ReadBatch \/ AckBatch \/ ScanLeases \/ \E n \in Nodes : Dispatch(n)
  PROVE  MessagesSound'
<1>1. TypeOK /\ MessagesSound /\ resultStream \in Seq(Result) /\ pel \in Seq(Result)
  BY DEF IInv, TypeOK
<1>2. CASE ReadBatch
  <2>1. PICK k \in Nat \ {0} :
          /\ k <= Len(resultStream)
          /\ batch' = SubSeq(resultStream, 1, k)
          /\ resultStream' = SubSeq(resultStream, k + 1, Len(resultStream))
          /\ pel' = pel \o batch'
    <3> DEFINE k == IF Len(resultStream) < BatchSize THEN Len(resultStream) ELSE BatchSize
    <3>1. Len(resultStream) \in Nat \ {0} /\ BatchSize \in Nat \ {0}
      BY <1>1, <1>2, SeqFacts, RunConstants DEF ReadBatch
    <3>2. k \in Nat \ {0} /\ k <= Len(resultStream)
      BY <3>1
    <3> QED
      BY <1>2, <3>2 DEF ReadBatch
  <2>2. UNCHANGED <<taskQueue, held, expired>>
    BY <1>2 DEF ReadBatch
  <2>3. Len(resultStream) \in Nat
    BY <1>1, SeqFacts
  <2>4. /\ batch' \in Seq(Result) /\ Elements(batch') \subseteq Carried
        /\ Elements(resultStream') \subseteq Carried
    BY <1>1, <2>1, <2>3, SeqPart DEF Carried, Elements
  <2>5. Elements(pel') \subseteq Carried
    <3>1. /\ pel' \in Seq(Result) /\ Len(pel') = Len(pel) + Len(batch')
          /\ \A i \in 1 .. Len(pel) + Len(batch') :
               pel'[i] = IF i <= Len(pel) THEN pel[i] ELSE batch'[i - Len(pel)]
      BY <1>1, <2>1, <2>4, ConcatProperties
    <3>2. /\ DOMAIN pel' = 1 .. Len(pel) + Len(batch')
          /\ DOMAIN pel = 1 .. Len(pel) /\ Len(pel) \in Nat
          /\ DOMAIN batch' = 1 .. Len(batch') /\ Len(batch') \in Nat
      BY <1>1, <2>4, <3>1, LenProperties
    <3>3. ASSUME NEW i \in DOMAIN pel'
          PROVE  pel'[i] \in Carried
      <4>1. CASE i <= Len(pel)
        <5>1. i \in DOMAIN pel /\ pel'[i] = pel[i]
          BY <3>1, <3>2, <4>1
        <5> QED
          BY <5>1 DEF Carried, Elements
      <4>2. CASE ~ (i <= Len(pel))
        <5>1. i - Len(pel) \in DOMAIN batch' /\ pel'[i] = batch'[i - Len(pel)]
          BY <3>1, <3>2, <4>2
        <5> QED
          BY <2>4, <5>1 DEF Elements
      <4> QED
        BY <4>1, <4>2
    <3> QED
      BY <3>3 DEF Elements
  <2>6. Carried' \subseteq Carried
    BY <2>4, <2>5 DEF Carried, Elements
  <2> QED
    BY <1>1, <2>2, <2>6, SilentMessages
<1>3. CASE AckBatch
  <2>1. /\ UNCHANGED <<taskQueue, held, expired, resultStream, batch>>
        /\ pel' = pel \/ pel' = SubSeq(pel, 1, Len(pel) - batchLen)
    BY <1>3 DEF AckBatch
  <2>2. Elements(pel') \subseteq Elements(pel)
    <3>1. Len(pel) \in Nat /\ batchLen \in Nat
      BY <1>1, SeqFacts DEF TypeOK
    <3>2. Len(pel) - batchLen \in Int /\ Len(pel) - batchLen <= Len(pel)
      BY <3>1
    <3>3. \A i \in DOMAIN SubSeq(pel, 1, Len(pel) - batchLen) :
            \E j \in DOMAIN pel : SubSeq(pel, 1, Len(pel) - batchLen)[i] = pel[j]
      BY <1>1, <3>2, SeqPart
    <3> QED
      BY <2>1, <3>3 DEF Elements
  <2>3. Carried' \subseteq Carried
    BY <2>1, <2>2 DEF Carried, Elements
  <2> QED
    BY <1>1, <2>1, <2>3, SilentMessages
<1>4. CASE ScanLeases
  <2>1. UNCHANGED <<taskQueue, held, resultStream, pel, batch>>
    BY <1>4 DEF ScanLeases, net
  <2>2. \A l \in expired' : l.attempt \in DOMAIN attempts[l.node]
    BY <1>4 DEF ScanLeases, Lapsed
  <2>3. Carried' = Carried
    BY <2>1 DEF Carried, Elements
  <2> QED
    BY <1>1, <2>1, <2>2, <2>3, MessagesStep
<1>5. CASE \E n \in Nodes : Dispatch(n)
  <2>1. PICK n \in Nodes : Dispatch(n)
    BY <1>5
  <2>2. /\ UNCHANGED <<held, resultStream, pel, batch, expired, pc>> /\ pc = "dispatching"
        /\ taskQueue' = taskQueue \cup {<<n, current'[n]>>}
        /\ nodeRow' = SetRow(nodeRow, n, "running")
    BY <2>1 DEF Dispatch, CanDispatch
  <2>3. \E m \in Nodes : nodeRow'[m] # "absent"
    <3>1. \E m \in Nodes : nodeRow[m] # "absent"
      BY <2>2 DEF IInv, Phases, Driving, Loop, NoRows
    <3> QED
      BY <3>1 DEF Later
  <2>4. nodeRow'[n] # "absent" => current'[n] = Len(attempts'[n]) /\ current'[n] \in Nat
    BY <2>2 DEF MemoryFits, MemorySound, Driving, Loop, TypeOK
  <2>5. PICK t : t = <<n, current'[n]>>
    OBVIOUS
  <2>6. TaskSound(t)'
    BY <2>3, <2>4, <2>5 DEF TaskSound
  <2>7. Carried' = Carried
    BY <2>2 DEF Carried, Elements
  <2> QED
    BY <1>1, <2>2, <2>5, <2>6, <2>7, MessagesStep
<1> QED
  BY <1>2, <1>3, <1>4, <1>5

(* Messages stay sound in every step.                                      *)
LEMMA MessagesHold ==
  ASSUME IInv, TypeOK', MemoryFits', RowsGrow \/ NoRows, [Next]_vars
  PROVE  MessagesSound'
<1>1. TypeOK /\ RowsInv /\ MessagesSound
  BY DEF IInv
<1>2. Later
  BY <1>1, LaterHolds
<1>3. ASSUME UNCHANGED <<net, batch>>, expired' \subseteq expired
      PROVE  MessagesSound'
  BY <1>1, <1>2, <1>3, SilentMessages DEF net, Carried, Elements
<1>4. CASE \/ BeginDispatch \/ EndScan \/ Finish \/ ReadNothing \/ EndDrain
           \/ StartFresh \/ CancelRun \/ Resume \/ Control \/ UNCHANGED vars
  BY <1>3, <1>4 DEF BeginDispatch, EndScan, Finish, ReadNothing, EndDrain, StartFresh,
     CancelRun, Resume, Control, CancelFlag, CancelStamp, Stop, vars, walk
<1>5. CASE \/ \E n \in Nodes : Defer(n) \/ DispatchFails(n) \/ RetryReady(n)
           \/ \E l \in expired : SkipLease(l) \/ Reap(l)
           \/ \E n \in Nodes : \E k \in DOMAIN attempts[n] : LeaseLapses(<<n, k>>)
  BY <1>3, <1>5 DEF Defer, DispatchFails, RetryReady, SkipLease, Reap, LeaseLapses, walk
<1>6. CASE \/ ReadBatch \/ AckBatch \/ ScanLeases \/ \E n \in Nodes : Dispatch(n)
  BY <1>2, <1>6, LoopMessages
<1>7. CASE \E t \in taskQueue \cup held : WorkerStep(t)
  BY <1>1, <1>2, <1>7, WorkerMessages
<1>8. CASE \E r \in NextResults :
             Discard(r) \/ ApplySuccess(r) \/ ApplyRetry(r) \/ ApplyDeadLetter(r) \/ ApplyFailure(r)
  <2>1. PICK r : /\ IsNext(r) /\ Consume
                 /\ UNCHANGED <<resultStream, taskQueue, held, expired>>
    BY <1>8 DEF Discard, ApplySuccess, ApplyRetry, ApplyDeadLetter, ApplyFailure, Claim
  <2>2. Carried' \subseteq Carried
    BY <1>1, <2>1, ConsumeMessages
  <2> QED
    BY <1>1, <1>2, <2>1, <2>2, SilentMessages
<1>9. CASE SchedulerDies
  <2>1. Die
    BY <1>9 DEF SchedulerDies, Crash, CrashCreating, CrashCanceling, CrashDispatching,
                CrashReaping, CrashApplying
  <2> QED
    BY <1>1, <1>2, <2>1, DeadMessages
<1> QED
  BY <1>4, <1>5, <1>6, <1>7, <1>8, <1>9 DEF Next, LoopStep

-----------------------------------------------------------------------------
(* Phases, the stamp and the outcome.                                      *)

(* What every step does to the run row and to the position of the loop.    *)
LEMMA StepKinds ==
  ASSUME [Next]_vars
  PROVE  \/ StartFresh \/ CancelRun \/ Finish \/ Resume
         \/ SchedulerDies
         \/ UNCHANGED <<runRow, cancelStamp, pc, cancelReq, stampPending>>
         \/ UNCHANGED runRow /\ UNCHANGED <<cancelStamp, cancelReq, stampPending>>
              /\ pc \in Loop \ {"start"} /\ pc' \in Loop \ {"start"}
         \/ CancelFlag \/ CancelStamp
  BY ZenonT(40) DEF Next, LoopStep, Control, WorkerStep, vars, db, signal, Loop,
         BeginDispatch, ScanLeases, EndScan, ReadNothing, ReadBatch, AckBatch, EndDrain,
         Defer, SkipLease, Discard, Stop, WorkerClaim, WorkerShortCircuits, WorkerFinish,
         WorkerDies, Renew, LeaseLapses, Dispatch, DispatchFails, RetryReady, Reap,
         ApplySuccess, ApplyRetry, ApplyDeadLetter, ApplyFailure, Claim

(* A loop that has not started or is gone does nothing; a run whose row    *)
(* has ended is touched by nobody.                                         *)
LEMMA IdleSteps ==
  ASSUME [Next]_vars
  PROVE  /\ pc \in {"start", "down"} /\ pc' = pc =>
              UNCHANGED <<nodeState, current, retryDue, quotaHeld, usage, expired, batch>>
         /\ pc \in {"done", "down"} /\ runRow # "running" => UNCHANGED <<runRow, nodeRow>>
<1>1. CASE LoopStep
  BY <1>1 DEF LoopStep, StartFresh, CancelRun, Finish, BeginDispatch, ScanLeases, EndScan,
     ReadNothing, ReadBatch, AckBatch, EndDrain, Dispatch, DispatchFails, CanDispatch, Defer,
     RetryReady, Reap, SkipLease, NextResults, IsNext
<1>2. CASE SchedulerDies
  BY <1>2 DEF SchedulerDies, Crash, CrashCreating, CrashCanceling, CrashDispatching,
     CanDispatch, CrashReaping, CrashApplying, NextResults, IsNext, Die, ForgetMemory, db, Loop
<1>3. CASE Resume
  BY <1>3 DEF Resume
<1>4. CASE \/ Control \/ (\E t \in taskQueue \cup held : WorkerStep(t)) \/ UNCHANGED vars
           \/ \E n \in Nodes : \E k \in DOMAIN attempts[n] : LeaseLapses(<<n, k>>)
  BY <1>4 DEF Control, CancelFlag, CancelStamp, Stop, WorkerStep, WorkerClaim,
     WorkerShortCircuits, WorkerFinish, WorkerDies, Renew, LeaseLapses, vars, db, slots, walk
<1> QED
  BY <1>1, <1>2, <1>3, <1>4 DEF Next

(* What a death does to the run row.                                       *)
LEMMA DeathRunRow ==
  ASSUME SchedulerDies
  PROVE  /\ Die /\ pc' = "down" /\ ~ stampPending'
         /\ UNCHANGED runRow \/ (CrashCreating /\ runRow' = "running")
  BY DEF SchedulerDies, Crash, CrashCreating, CrashCanceling, CrashDispatching,
     CrashReaping, CrashApplying, Die, ForgetMemory, db

(* Whether there are rows at all changes in run() only.                    *)
LEMMA RowsAppear ==
  ASSUME RowsGrow \/ Creation, ~ StartFresh, ~ CrashCreating
  PROVE  NoRows' <=> NoRows
  BY DEF Creation, RowsGrow, NoRows

(* Every step keeps what the status of the run says of its nodes.          *)
LEMMA PhasesStep ==
  ASSUME IInv, TypeOK', RowsGrow \/ Creation, [Next]_vars
  PROVE  Phases' /\ FreshMemory'
<1>1. TypeOK /\ Phases /\ FreshMemory
  BY DEF IInv
<1>2. FreshMemory'
  <2>1. CASE SchedulerDies
    <3>1. Die
      BY <2>1, DeathRunRow
    <3> QED
      BY <3>1 DEF Die, ForgetMemory, FreshMemory
  <2>2. CASE Resume
    BY <1>1, <2>2 DEF Resume, FreshMemory, slots, walk
  <2>3. CASE pc' \in {"start", "down"} /\ ~ SchedulerDies /\ ~ Resume
    <3>1. pc' = pc
      BY <2>3, StepKinds DEF StartFresh, CancelRun, Finish, Loop, CancelFlag, CancelStamp
    <3> QED
      BY <1>1, <2>3, <3>1, IdleSteps DEF FreshMemory
  <2>4. CASE pc' \notin {"start", "down"}
    BY <2>4 DEF FreshMemory
  <2> QED
    BY <2>1, <2>2, <2>3, <2>4
<1>3. CASE StartFresh
  <2>1. \A n \in Nodes : nodeRow'[n] # "absent"
    BY <1>3 DEF StartFresh
  <2>2. Nodes = {} \/ ~ NoRows'
    BY <2>1 DEF NoRows
  <2>3. pc' = "top" /\ runRow' = "running"
    BY <1>1, <1>3 DEF StartFresh, Phases, TypeOK, EndedRow, Loop
  <2> QED
    BY <1>2, <2>2, <2>3 DEF Phases, Driving, Loop, EndedRow
<1>4. CASE CancelRun
  BY <1>2, <1>4 DEF CancelRun, Phases, Driving, Loop, EndedRow
<1>5. CASE Finish
  BY <1>2, <1>5 DEF Finish, RunRowOf, Phases, Driving, Loop, EndedRow
<1>6. CASE Resume
  BY <1>2, <1>6 DEF Resume, db, Phases, Driving, Loop, EndedRow, NoRows
<1>7. CASE SchedulerDies
  BY <1>2, <1>7, DeathRunRow DEF Phases, Driving, Loop
<1>8. CASE ~ StartFresh /\ ~ SchedulerDies /\ UNCHANGED <<runRow, pc>>
  <2>1. NoRows' <=> NoRows
    BY <1>8, RowsAppear DEF SchedulerDies
  <2> QED
    BY <1>1, <1>2, <1>8, <2>1 DEF Phases, Driving
<1>9. CASE ~ StartFresh /\ ~ SchedulerDies /\ UNCHANGED runRow
             /\ pc \in Loop \ {"start"} /\ pc' \in Loop \ {"start"}
  <2>1. NoRows' <=> NoRows
    BY <1>9, RowsAppear DEF SchedulerDies
  <2> QED
    BY <1>1, <1>2, <1>9, <2>1 DEF Phases, Driving, Loop
<1> QED
  BY <1>3, <1>4, <1>5, <1>6, <1>7, <1>8, <1>9, StepKinds DEF CancelFlag, CancelStamp, db

(* Every step keeps a stamped cancel known to the loop or to the row.      *)
LEMMA StampStep ==
  ASSUME IInv, TypeOK', RowsGrow \/ Creation, [Next]_vars
  PROVE  StampKnown'
<1>1. TypeOK /\ Phases /\ StampKnown
  BY DEF IInv
<1>2. stampPending' => cancelReq' /\ pc' # "down"
  <2>1. CASE SchedulerDies
    BY <2>1, DeathRunRow
  <2>2. CASE Resume
    BY <1>1, <2>2 DEF Resume, StampKnown
  <2>3. CASE StartFresh
    BY <2>3 DEF StartFresh
  <2>4. CASE CancelRun \/ Finish
    BY <1>1, <2>4 DEF CancelRun, Finish, signal, StampKnown
  <2>5. CASE CancelFlag \/ CancelStamp
    BY <1>1, <2>5 DEF CancelFlag, CancelStamp, StampKnown, Loop
  <2> QED
    BY <1>1, <2>1, <2>2, <2>3, <2>4, <2>5, StepKinds DEF StampKnown, Loop
<1>3. ASSUME "create.run" \notin CrashPoints, Nodes # {}
      PROVE  /\ pc' \in Loop /\ cancelStamp' => cancelReq'
             /\ NoRows' => runRow' = "queued"
  <2>1. /\ pc \in Loop /\ cancelStamp => cancelReq
        /\ NoRows => runRow = "queued"
        /\ stampPending => cancelReq
    BY <1>1, <1>3 DEF StampKnown
  <2>2. CASE StartFresh
    <3>1. \A n \in Nodes : nodeRow'[n] # "absent"
      BY <2>2 DEF StartFresh
    <3>2. ~ NoRows'
      BY <1>3, <3>1 DEF NoRows
    <3> QED
      BY <2>1, <2>2, <3>2 DEF StartFresh, Loop
  <2>3. CASE CancelRun \/ Finish
    <3>1. Driving /\ ~ StartFresh /\ ~ CrashCreating /\ pc' = "done"
      BY <2>3 DEF CancelRun, Finish, StartFresh, CrashCreating, Driving, Loop
    <3>2. ~ NoRows'
      BY <1>1, <1>3, <3>1, RowsAppear DEF Phases
    <3> QED
      BY <3>1, <3>2 DEF Loop
  <2>4. CASE Resume
    <3>1. nodeRow' = nodeRow /\ runRow' = runRow /\ runRow = "running" /\ cancelStamp' = cancelStamp
      BY <2>4 DEF Resume, db
    <3>2. ~ NoRows
      BY <2>1, <3>1
    <3>3. cancelReq' = cancelStamp
      BY <2>4, <3>2 DEF Resume, NoRows
    <3> QED
      BY <3>1, <3>2, <3>3 DEF NoRows
  <2>5. CASE CrashCreating
    <3>1. NoRows
      BY <1>1, <2>5 DEF Phases, CrashCreating
    <3>2. PICK rows \in [Nodes -> {"absent", "blocked"}] :
            /\ ~ \A n \in Nodes : rows[n] = "absent"
            /\ nodeRow' = [n \in Nodes |-> IF nodeRow[n] = "absent" THEN rows[n] ELSE nodeRow[n]]
      BY <1>3, <2>5 DEF CrashCreating
    <3>3. ~ NoRows'
      BY <3>1, <3>2 DEF NoRows
    <3> QED
      BY <2>5, <3>3 DEF CrashCreating, Die, Loop
  <2>6. CASE SchedulerDies /\ ~ CrashCreating
    <3>1. pc' = "down" /\ UNCHANGED runRow /\ pc' # "top"
      BY <2>6, DeathRunRow
    <3>2. NoRows' <=> NoRows
      BY <2>6, <3>1, RowsAppear DEF StartFresh
    <3> QED
      BY <2>1, <3>1, <3>2 DEF Loop
  <2>7. CASE CancelFlag \/ CancelStamp
    <3>1. UNCHANGED <<nodeRow, runRow, pc>>
      BY <2>7 DEF CancelFlag, CancelStamp, db
    <3>2. cancelReq' => pc \in Loop \/ cancelReq
      BY <2>7 DEF CancelFlag, CancelStamp
    <3>3. cancelStamp' => cancelStamp \/ (stampPending /\ CancelStamp)
      BY <2>7 DEF CancelFlag, CancelStamp, db
    <3>4. cancelReq => cancelReq'
      BY <2>7 DEF CancelFlag, CancelStamp
    <3> QED
      BY <2>1, <3>1, <3>3, <3>4 DEF NoRows
  <2>8. CASE /\ ~ StartFresh /\ ~ SchedulerDies
             /\ UNCHANGED <<runRow, cancelStamp, cancelReq>>
             /\ pc' \in Loop => pc \in Loop
    <3>1. NoRows' <=> NoRows
      BY <2>8, RowsAppear DEF SchedulerDies
    <3> QED
      BY <2>1, <2>8, <3>1
  <2> QED
    BY <2>2, <2>3, <2>4, <2>5, <2>6, <2>7, <2>8, StepKinds DEF SchedulerDies
<1> QED
  BY <1>2, <1>3 DEF StampKnown

(* Every step keeps the row of a finished run in agreement with its nodes. *)
LEMMA OutcomeStep ==
  ASSUME IInv, [Next]_vars
  PROVE  FinishedRunIsSettled'
<1>1. TypeOK /\ RowsInv /\ MemoryFits /\ Phases /\ FinishedRunIsSettled
  BY DEF IInv
<1>2. CASE runRow \in EndedRow
  <2>1. pc \in {"done", "down"} /\ runRow # "running"
    BY <1>1, <1>2 DEF Phases, TypeOK, EndedRow
  <2>2. UNCHANGED <<runRow, nodeRow>>
    BY <2>1, IdleSteps
  <2> QED
    BY <1>1, <2>2 DEF FinishedRunIsSettled, RowOpen
<1>3. CASE CancelRun
  <2>1. \A n \in Nodes : ~ RowOpen(n)'
    BY <1>3, CancelRunCarriesOn
  <2>2. runRow' = "canceled"
    BY <1>3 DEF CancelRun
  <2> QED
    BY <2>1, <2>2 DEF FinishedRunIsSettled
<1>4. CASE Finish
  <2>1. /\ Driving /\ nodeRow' = nodeRow /\ AllTerminal(nodeState)
        /\ runRow' = RunRowOf(Outcome(nodeState))
    BY <1>4 DEF Finish, Driving, Loop
  <2>2. \A n \in Nodes : nodeState[n] \in Terminal
    BY <2>1 DEF AllTerminal, Open
  <2>3. \A n \in Nodes : nodeRow[n] \in RowTerminal \cup {"absent"}
    BY <1>1, <2>1, <2>2, MemoryMeaning
  <2>4. ASSUME runRow' = "succeeded"
        PROVE  \A n \in Nodes : nodeRow'[n] = "succeeded"
    <3>1. \A n \in Nodes : nodeState[n] = "SUCCEEDED"
      BY <2>1, <2>4 DEF RunRowOf, Outcome
    <3> QED
      BY <1>1, <2>1, <3>1, MemoryMeaning
  <2>5. ASSUME runRow' = "failed"
        PROVE  \E n \in Nodes : nodeRow'[n] \in {"failed", "dead_lettered", "absent"}
    <3>1. PICK n \in Nodes : nodeState[n] \in {"FAILED", "DEAD_LETTERED"}
      BY <2>1, <2>5 DEF RunRowOf, Outcome
    <3>2. nodeRow[n] # "succeeded" /\ nodeRow[n] # "canceled"
      BY <1>1, <2>1, <3>1, MemoryMeaning
    <3> QED
      BY <2>1, <2>3, <3>2 DEF RowTerminal
  <2> QED
    BY <2>1, <2>3, <2>4, <2>5 DEF FinishedRunIsSettled, RowOpen
<1>5. CASE runRow \notin EndedRow /\ ~ CancelRun /\ ~ Finish
  <2>1. runRow' \notin EndedRow
    BY <1>5, StepKinds, DeathRunRow
       DEF StartFresh, Resume, db, CancelFlag, CancelStamp, EndedRow
  <2> QED
    BY <2>1 DEF FinishedRunIsSettled, EndedRow
<1> QED
  BY <1>2, <1>3, <1>4, <1>5

-----------------------------------------------------------------------------
(* The invariant.                                                          *)

(* The invariant holds at the start: no rows, no memory, no messages.      *)
LEMMA IInvInit == Init => IInv
<1> SUFFICES ASSUME Init
             PROVE  IInv
  OBVIOUS
<1>1. TypeOK
  BY TypeInit
<1>2. MessagesSound
  <2>1. DOMAIN resultStream = {} /\ DOMAIN pel = {} /\ DOMAIN batch = {}
    BY DEF Init
  <2> QED
    BY <2>1 DEF Init, MessagesSound, StreamSound
<1>3. Phases /\ FreshMemory /\ StampKnown
  BY DEF Init, Phases, FreshMemory, StampKnown, Driving, Loop, EndedRow, NoRows
<1>4. RowsInv
  <2>1. ASSUME NEW n \in Nodes
        PROVE  NodeSound(n)
    <3>1. nodeRow[n] = "absent" /\ attempts[n] = <<>> /\ DOMAIN attempts[n] = {}
      BY DEF Init
    <3>2. attempts[n] \in Seq(Attempt)
      BY <1>1 DEF TypeOK
    <3>3. /\ Failures(attempts[n]) = {} /\ Cardinality(Failures(attempts[n])) = 0
          /\ Len(attempts[n]) = 0 /\ Cardinality(Lapses(attempts[n])) \in Nat
      <4>1. Failures(attempts[n]) = {}
        BY <3>1 DEF Failures
      <4> QED
        BY <3>1, <3>2, <4>1, FS_EmptySet, HistoryCounts
    <3>4. RetryMax[n] \in Nat \ {0}
      BY RunConstants
    <3>5. HistorySound(n, nodeRow[n], attempts[n])
      BY <3>1, <3>3, <3>4 DEF HistorySound, Waits, Budgeted, Leased, RowTerminal, InFlightRow
    <3>6. ~ Started(n)
      BY <3>1 DEF Started
    <3> QED
      BY <3>5, <3>6 DEF NodeSound
  <2>2. OneBrowserRow /\ AllRows /\ NoStrandedRows
    BY PredsAreNodes, RunConstants
       DEF Init, OneBrowserRow, AllRows, NoStrandedRows, NoneStranded, NoRows, InFlightRow
  <2> QED
    BY <2>1, <2>2 DEF RowsInv
<1>5. MemoryFits /\ SlotsFit /\ FinishedRunIsSettled
  BY DEF Init, MemoryFits, SlotsFit, FinishedRunIsSettled, Driving
<1> QED
  BY <1>1, <1>2, <1>3, <1>4, <1>5 DEF IInv

(* Every step keeps the invariant.                                         *)
LEMMA IInvStep == IInv /\ [Next]_vars => IInv'
<1> SUFFICES ASSUME IInv, [Next]_vars
             PROVE  IInv'
  OBVIOUS
<1>1. TypeOK'
  BY TypeStep DEF IInv
<1>2. RowsInv' /\ MemoryFits' /\ SlotsFit' /\ (RowsGrow \/ Creation)
  BY <1>1, RowsStep
<1>3. MessagesSound'
  BY <1>1, <1>2, MessagesHold DEF Creation
<1>4. Phases' /\ FreshMemory' /\ StampKnown' /\ FinishedRunIsSettled'
  BY <1>1, <1>2, PhasesStep, StampStep, OutcomeStep
<1> QED
  BY <1>1, <1>2, <1>3, <1>4 DEF IInv

(* The invariant holds in every reachable state.                           *)
LEMMA Invariance == Spec => []IInv
  BY IInvInit, IInvStep, PTL DEF Spec

-----------------------------------------------------------------------------
(* What holds whatever the faults and wherever the scheduler dies.         *)

(* Work is recorded for a node only after the success of its predecessors  *)
(* is durable: RUNNING and READY in the memory mean that the rows of the   *)
(* predecessors say succeeded, and a restart believes the rows only.       *)
THEOREM OrderedDispatch == Spec => []DispatchAfterPredecessors
<1>1. IInv => DispatchAfterPredecessors
  BY DEF IInv, RowsInv, NodeSound, Started, PredsDone, DispatchAfterPredecessors
<1> QED
  BY <1>1, Invariance, PTL

(* A tried node finds the output of everything upstream of it in the       *)
(* store, not only of its predecessors: a node that has succeeded was      *)
(* started, so its own predecessors had succeeded, and so on up.           *)
THEOREM UpstreamIsDurable ==
  Spec => [](\A n \in Nodes : attempts[n] # <<>> =>
               \A a \in Upstream(n) : nodeRow[a] = "succeeded")
<1> DEFINE Durable == \A n \in Nodes : attempts[n] # <<>> =>
                        \A a \in Upstream(n) : nodeRow[a] = "succeeded"
<1>1. IInv => Durable
  <2> SUFFICES ASSUME IInv, NEW n \in Nodes, attempts[n] # <<>>, NEW a \in Upstream(n)
               PROVE  nodeRow[a] = "succeeded"
    OBVIOUS
  <2> DEFINE S == {m \in Nodes : nodeRow[m] = "succeeded"}
  <2>1. \A m \in Nodes : Started(m) => PredsDone(m)
    BY DEF IInv, RowsInv, NodeSound
  <2>2. Preds[n] \subseteq S
    BY <2>1, PredsAreNodes DEF Started, PredsDone
  <2>3. \A m \in S : Preds[m] \subseteq S
    BY <2>1, PredsAreNodes DEF Started, PredsDone
  <2>4. a \in S
    BY <2>2, <2>3 DEF Upstream, UpClosed
  <2> QED
    BY <2>4
<1> QED
  BY <1>1, Invariance, PTL

(* At most one attempt of a node may still be answered, its last one.      *)
THEOREM SingleAttempt == Spec => []OneRunningAttempt
<1>1. IInv => OneRunningAttempt
  BY DEF IInv, RowsInv, NodeSound, HistorySound, Waits, OneRunningAttempt
<1> QED
  BY <1>1, Invariance, PTL

(* No policy is exceeded: a node fails at most max_attempts times, across  *)
(* schedulers, and each attempt beyond them is paid for by a lapsed lease. *)
THEOREM BudgetKept == Spec => []RetryBudget
<1>1. IInv => RetryBudget
  BY DEF IInv, RowsInv, NodeSound, HistorySound, Budgeted, RetryBudget, Failures, Lapses
<1> QED
  BY <1>1, Invariance, PTL

(* A terminal run row tells the truth about the node rows.                 *)
THEOREM OutcomeIsTrue == Spec => []FinishedRunIsSettled
<1>1. IInv => FinishedRunIsSettled
  BY DEF IInv
<1> QED
  BY <1>1, Invariance, PTL

-----------------------------------------------------------------------------
(* What holds unless the scheduler dies at certain points of a call.       *)

(* Where every node has its row, which only a death among the inserts of   *)
(* run() prevents, the living loop's memory is the one a restart would     *)
(* rebuild.                                                                *)
THEOREM MemoryIsRows ==
  "create.partial" \notin CrashPoints => (Spec => []MemoryMatchesRows)
<1> SUFFICES ASSUME "create.partial" \notin CrashPoints
             PROVE  Spec => []MemoryMatchesRows
  OBVIOUS
<1>1. IInv => MemoryMatchesRows
  <2> SUFFICES ASSUME IInv, Driving
               PROVE  /\ nodeState = Restore(nodeRow)
                      /\ \A n \in Nodes : current[n] = Len(attempts[n])
                      /\ retryDue = {n \in Nodes : nodeRow[n] = "retry_wait"}
    BY DEF MemoryMatchesRows
  <2>1. \A n \in Nodes : nodeRow[n] # "absent"
    BY DEF IInv, Phases, RowsInv, AllRows
  <2>2. /\ \A n \in Nodes : nodeState[n] = RowState(n) /\ current[n] = Len(attempts[n])
        /\ retryDue = {n \in Nodes : nodeRow[n] = "retry_wait"}
    BY <2>1 DEF IInv, MemoryFits, MemorySound
  <2>3. nodeRow \in [Nodes -> RowStatus] /\ nodeState \in [Nodes -> NodeStates]
    BY DEF IInv, TypeOK
  <2>4. \A n \in Nodes : Restore(nodeRow)[n] = RowState(n)
    BY <2>1, <2>3, RestoreAt DEF RowState, PredsDone
  <2>5. Restore(nodeRow) \in [Nodes -> NodeStates]
    BY <2>3, RowRestores
  <2>6. nodeState = Restore(nodeRow)
    BY <2>2, <2>3, <2>4, <2>5
  <2> QED
    BY <2>2, <2>6
<1> QED
  BY <1>1, Invariance, PTL

(* SlotsMatchWork: the slots of every resource class and the usage of the  *)
(* run are exactly what its nodes in flight hold; no path through a retry, *)
(* a dead letter, a cancel or a resume leaks one or gives one back twice,  *)
(* as long as no crash leaves the rows half created.                       *)
THEOREM SlotsAreWork ==
  "create.partial" \notin CrashPoints => (Spec => []SlotsMatchWork)
<1> SUFFICES ASSUME "create.partial" \notin CrashPoints
             PROVE  Spec => []SlotsMatchWork
  OBVIOUS
<1>1. IInv => SlotsMatchWork
  <2> SUFFICES ASSUME IInv, Driving
               PROVE  /\ quotaHeld = InFlightRows
                      /\ usage = Cardinality(InFlightRows \cap BrowserNodes)
                      /\ usage <= AffinityCapacity
    BY DEF SlotsMatchWork
  <2>1. \A n \in Nodes : nodeRow[n] # "absent"
    BY DEF IInv, Phases, RowsInv, AllRows
  <2>2. \A n \in Nodes : Busy(n) <=> nodeRow[n] \in InFlightRow
    BY <2>1, MemoryMeaning DEF IInv, Busy, InFlightRow
  <2>3. InFlightRows = {n \in Nodes : Busy(n)}
    BY <2>2 DEF InFlightRows, InFlightRow
  <2>4. /\ quotaHeld = {n \in Nodes : Busy(n)}
        /\ usage = IF \E n \in BrowserNodes : Busy(n) THEN 1 ELSE 0
        /\ \A m, n \in BrowserNodes : Busy(m) /\ Busy(n) => m = n
        /\ BrowserNodes \subseteq Nodes
    BY RunConstants DEF IInv, SlotsFit
  <2>5. usage = Cardinality(InFlightRows \cap BrowserNodes)
    <3>1. CASE InFlightRows \cap BrowserNodes = {}
      BY <2>3, <2>4, <3>1, FS_EmptySet
    <3>2. CASE InFlightRows \cap BrowserNodes # {}
      <4>1. PICK x \in InFlightRows \cap BrowserNodes : TRUE
        BY <3>2
      <4>2. InFlightRows \cap BrowserNodes = {x}
        BY <2>3, <2>4, <4>1
      <4>3. usage = 1
        BY <2>3, <2>4, <4>1
      <4> QED
        BY <4>2, <4>3, FS_Singleton
    <3> QED
      BY <3>1, <3>2
  <2> QED
    BY <2>3, <2>4, <2>5 DEF AffinityCapacity
<1> QED
  BY <1>1, Invariance, PTL

(* Without the deaths that leave a node recorded as in flight and no       *)
(* attempt of it running under a lease, every node in flight can be found  *)
(* by the lease scan.                                                      *)
THEOREM ReapableInFlight ==
  CrashPoints \cap (WedgePoints \cup {"create.partial"}) = {} => (Spec => []InFlightIsReapable)
<1> SUFFICES ASSUME CrashPoints \cap (WedgePoints \cup {"create.partial"}) = {}
             PROVE  Spec => []InFlightIsReapable
  OBVIOUS
<1>1. IInv => InFlightIsReapable
  <2> SUFFICES ASSUME IInv, Driving, NEW n \in Nodes, nodeState[n] = "RUNNING"
               PROVE  /\ attempts[n] # <<>>
                      /\ attempts[n][Len(attempts[n])].status = "running"
                      /\ attempts[n][Len(attempts[n])].lease # "none"
    BY DEF InFlightIsReapable
  <2>1. nodeRow[n] # "absent"
    BY DEF IInv, Phases, RowsInv, AllRows
  <2>2. nodeRow[n] \in InFlightRow
    BY <2>1, MemoryMeaning DEF IInv, InFlightRow
  <2> QED
    BY <2>2 DEF IInv, RowsInv, NodeSound, HistorySound, Leased
<1> QED
  BY <1>1, Invariance, PTL

(* Where no death leaves rows half written or a node in flight without a   *)
(* lease, an unfinished run has a node that some turn of the loop will     *)
(* move on. Take an open node with no open predecessor, which an acyclic   *)
(* graph has: it is not blocked, for then a predecessor would have ended   *)
(* without success and its own row would say canceled.                     *)
THEOREM NeverStuck ==
  CrashPoints \cap (WedgePoints \cup PartialPoints) = {} => (Spec => []LoopIsNeverStuck)
<1> SUFFICES ASSUME CrashPoints \cap (WedgePoints \cup PartialPoints) = {}
             PROVE  Spec => []LoopIsNeverStuck
  OBVIOUS
<1>1. /\ "create.partial" \notin CrashPoints /\ CrashPoints \cap PartialPoints = {}
      /\ CrashPoints \cap (WedgePoints \cup {"create.partial"}) = {}
  BY DEF PartialPoints
<1>2. Spec => []InFlightIsReapable
  BY <1>1, ReapableInFlight
<1>3. IInv /\ InFlightIsReapable => LoopIsNeverStuck
  <2> SUFFICES ASSUME IInv, Driving, Open(nodeState) # {}
               PROVE  \E n \in Nodes :
                        \/ nodeState[n] \in {"READY", "RUNNING"}
                        \/ nodeState[n] = "RETRY_WAIT" /\ n \in retryDue
    BY DEF LoopIsNeverStuck
  <2>1. TypeOK /\ RowsInv /\ MemoryFits /\ NoneStranded(nodeRow)
    BY <1>1 DEF IInv, RowsInv, NoStrandedRows
  <2>2. \A m \in Nodes : nodeRow[m] # "absent"
    BY <1>1 DEF IInv, Phases, RowsInv, AllRows
  <2>3. PICK n \in Open(nodeState) : Preds[n] \cap Open(nodeState) = {}
    <3>1. Open(nodeState) \in SUBSET Nodes
      BY DEF Open
    <3> QED
      BY <3>1, Acyclic
  <2>4. n \in Nodes /\ nodeState[n] \notin Terminal /\ nodeState[n] \in NodeStates
    BY <2>1, <2>3 DEF Open, TypeOK
  <2>5. nodeState[n] # "BLOCKED"
    <3> SUFFICES ASSUME nodeState[n] = "BLOCKED"
                 PROVE  FALSE
      OBVIOUS
    <3>1. nodeRow[n] = "blocked"
      BY <2>1, <2>2, <2>4, MemoryMeaning
    <3>2. ~ PredsDone(n)
      BY <2>1, <2>4, <3>1 DEF MemoryFits, MemorySound, RowState
    <3>3. PICK p \in Preds[n] : nodeRow[p] # "succeeded"
      BY <3>2 DEF PredsDone
    <3>4. p \in Nodes /\ nodeState[p] \in Terminal
      BY <2>3, <2>4, PredsAreNodes DEF Open
    <3>5. nodeRow[p] \in RowTerminal
      BY <2>1, <2>2, <3>4, MemoryMeaning
    <3>6. nodeRow[n] = "canceled"
      BY <2>1, <2>4, <3>3, <3>5 DEF NoneStranded, RowTerminal
    <3> QED
      BY <3>1, <3>6
  <2>6. nodeState[n] \in {"READY", "RUNNING", "RETRY_WAIT"}
    BY <2>1, <2>4, <2>5, MemoryMeaning DEF NodeStates, Terminal, Unsuccessful
  <2>7. CASE nodeState[n] = "RETRY_WAIT"
    <3>1. nodeRow[n] = "retry_wait"
      BY <2>1, <2>4, <2>7, MemoryMeaning
    <3>2. n \in retryDue
      BY <2>1, <2>4, <3>1 DEF MemoryFits
    <3> QED
      BY <2>4, <2>7, <3>2
  <2> QED
    BY <2>4, <2>6, <2>7
<1> QED
  BY <1>2, <1>3, Invariance, PTL

(* Without the deaths that write some of a set of rows only, the rows a    *)
(* dead scheduler leaves can be resumed from.                              *)
THEOREM RowsCanResume ==
  CrashPoints \cap PartialPoints = {} => (Spec => []ResumableRows)
<1> SUFFICES ASSUME CrashPoints \cap PartialPoints = {}
             PROVE  Spec => []ResumableRows
  OBVIOUS
<1>1. IInv => ResumableRows
  BY DEF IInv, RowsInv, NodeSound, Started, PredsDone, NoStrandedRows, NoneStranded,
         ResumableRows, RowsCoherent
<1> QED
  BY <1>1, Invariance, PTL

(* A durable cancellation is known to every loop that drives the run,      *)
(* unless a death between the run row and the first node row let the next  *)
(* loop start afresh, which does not read the stamp.                       *)
THEOREM CancelSurvives ==
  ("create.run" \notin CrashPoints /\ Nodes # {}) => (Spec => []StampedCancelIsHonored)
<1> SUFFICES ASSUME "create.run" \notin CrashPoints, Nodes # {}
             PROVE  Spec => []StampedCancelIsHonored
  OBVIOUS
<1>1. IInv => StampedCancelIsHonored
  BY DEF IInv, StampKnown, StampedCancelIsHonored, Driving
<1> QED
  BY <1>1, Invariance, PTL

-----------------------------------------------------------------------------
(* What is settled stays settled.                                          *)

(* No step writes a terminal node row: every write of a status goes to a   *)
(* row that is neither terminal nor missing, or creates one.               *)
LEMMA TerminalRowsKept ==
  ASSUME TypeOK, [Next]_vars, NEW n \in Nodes, nodeRow[n] \in RowTerminal
  PROVE  nodeRow'[n] = nodeRow[n]
<1>1. nodeRow \in [Nodes -> RowStatus]
  BY DEF TypeOK
<1>2. ASSUME NEW rows \in [Nodes -> RowStatus], rows[n] = nodeRow[n],
             NEW m \in Nodes, NEW status \in RowStatus
      PROVE  /\ SetRow(rows, m, status)[n] = nodeRow[n]
             /\ SetRow(rows, m, status) \in [Nodes -> RowStatus]
  <2>1. nodeRow[n] \in RowTerminal
    OBVIOUS
  <2>2. /\ SetRow(rows, m, status) \in [Nodes -> RowStatus]
        /\ SetRow(rows, m, status)[n] =
             IF n = m /\ rows[m] \notin RowTerminal \cup {"absent"} THEN status ELSE rows[n]
    BY <1>2, SetRowTypes
  <2> QED
    BY <1>2, <2>1, <2>2
<1>3. ASSUME NEW rows, rows[n] = nodeRow[n], NEW S
      PROVE  CancelRows(rows, S)[n] = nodeRow[n]
  BY <1>3 DEF CancelRows
<1>4. CASE UNCHANGED nodeRow
  BY <1>4
<1>5. ASSUME NEW m \in Nodes, NEW status \in RowStatus, nodeRow' = SetRow(nodeRow, m, status)
      PROVE  nodeRow'[n] = nodeRow[n]
  BY <1>1, <1>2, <1>5
<1>6. ASSUME NEW m \in Nodes, NEW status \in RowStatus, NEW S,
             nodeRow' = CancelRows(SetRow(nodeRow, m, status), S)
      PROVE  nodeRow'[n] = nodeRow[n]
  BY <1>1, <1>2, <1>3, <1>6
<1>7. {"ready", "dispatched", "running", "succeeded", "failed", "dead_lettered", "retry_wait"}
        \subseteq RowStatus
  BY DEF RowStatus
<1>8. ASSUME NEW m \in Nodes,
             \/ Dispatch(m) \/ DispatchFails(m) \/ RetryReady(m) \/ CrashDispatching(m)
      PROVE  nodeRow'[n] = nodeRow[n]
  BY <1>1, <1>5, <1>6, <1>7, <1>8
     DEF Dispatch, DispatchFails, RetryReady, CrashDispatching, PersistCanceled
<1>9. CASE \E l \in expired : Reap(l) \/ CrashReaping(l)
  <2>1. PICK l \in expired : Reap(l) \/ CrashReaping(l)
    BY <1>9
  <2>2. l.node \in Nodes
    BY DEF TypeOK
  <2> QED
    BY <1>5, <1>7, <2>1, <2>2 DEF Reap, CrashReaping
<1>10. CASE \E r \in NextResults : \/ ApplySuccess(r) \/ ApplyRetry(r) \/ ApplyDeadLetter(r)
                                   \/ ApplyFailure(r) \/ CrashApplying(r)
  <2>1. PICK r \in NextResults : \/ ApplySuccess(r) \/ ApplyRetry(r) \/ ApplyDeadLetter(r)
                                 \/ ApplyFailure(r) \/ CrashApplying(r)
    BY <1>10
  <2>2. r.node \in Nodes
    BY <2>1, NextResultFacts DEF Result
  <2>3. CASE ApplySuccess(r) \/ ApplyRetry(r)
    BY <1>5, <1>7, <2>2, <2>3 DEF ApplySuccess, ApplyRetry
  <2>4. CASE ApplyDeadLetter(r) \/ ApplyFailure(r)
    BY <1>6, <1>7, <2>2, <2>4 DEF ApplyDeadLetter, ApplyFailure, PersistCanceled
  <2>5. CASE CrashApplying(r)
    <3>1. FailureRow(r) \in {"failed", "dead_lettered"}
      BY DEF FailureRow
    <3> QED
      BY <1>5, <1>6, <1>7, <2>2, <2>5, <3>1 DEF CrashApplying
  <2> QED
    BY <2>1, <2>3, <2>4, <2>5
<1>11. CASE CancelRun \/ CrashCanceling
  BY <1>1, <1>3, <1>11 DEF CancelRun, CrashCanceling, PersistCanceled
<1>12. CASE StartFresh
  BY <1>12 DEF StartFresh, RowTerminal
<1>13. CASE CrashCreating
  BY <1>13 DEF CrashCreating, RowTerminal
<1>14. CASE Resume \/ Crash
  BY <1>4, <1>14 DEF Resume, Crash, db
<1>15. CASE QuietStep
  BY <1>4, <1>15, QuietStepEffect DEF QuietRows
<1> QED
  BY <1>8, <1>9, <1>10, <1>11, <1>12, <1>13, <1>14, <1>15, NextCases

(* No late result, duplicate, reap, restart or death at any point          *)
(* resurrects a terminal node or a finished run.                           *)
THEOREM SettledForGood == Spec => SettledStays
<1>1. IInv /\ [Next]_vars =>
        [/\ \A n \in Nodes : nodeRow[n] \in RowTerminal => nodeRow'[n] = nodeRow[n]
         /\ runRow \in {"succeeded", "failed", "canceled"} => runRow' = runRow]_vars
  <2> SUFFICES ASSUME IInv, [Next]_vars
               PROVE  /\ \A n \in Nodes : nodeRow[n] \in RowTerminal => nodeRow'[n] = nodeRow[n]
                      /\ runRow \in EndedRow => runRow' = runRow
    BY DEF EndedRow
  <2>1. \A n \in Nodes : nodeRow[n] \in RowTerminal => nodeRow'[n] = nodeRow[n]
    BY TerminalRowsKept DEF IInv
  <2>2. ASSUME runRow \in EndedRow
        PROVE  runRow' = runRow
    <3>1. pc \in {"done", "down"} /\ runRow # "running"
      BY <2>2 DEF IInv, Phases, TypeOK, EndedRow
    <3> QED
      BY <3>1, IdleSteps
  <2> QED
    BY <2>1, <2>2
<1> QED
  BY <1>1, Invariance, PTL DEF Spec, SettledStays

-----------------------------------------------------------------------------
(* Attempts: each number is spent once, and an attempt that has ended has  *)
(* ended for good.                                                         *)

KeysSound == \A t \in ledger \cup dedupe : TaskSound(t)

(* The result the loop is about to apply names an attempt that was         *)
(* recorded.                                                               *)
LEMMA NextIsSound ==
  ASSUME TypeOK, MessagesSound, NEW r \in NextResults
  PROVE  r \in Result /\ ResultSound(r)
<1>1. /\ r \in Result
      /\ \/ batch # <<>> /\ r = Head(batch)
         \/ pel # <<>> /\ r = Head(pel)
  BY NextResultFacts
<1>2. ASSUME NEW s \in Seq(Result), s # <<>>, StreamSound(s)
      PROVE  ResultSound(Head(s))
  <2>1. Head(s) = s[1] /\ 1 \in DOMAIN s
    BY <1>2, SeqEnds
  <2> QED
    BY <1>2, <2>1 DEF StreamSound
<1> QED
  BY <1>1, <1>2 DEF TypeOK, MessagesSound

(* The keys a step spends are those of results it consumes.                *)
LEMMA KeysSpent ==
  ASSUME [Next]_vars
  PROVE  \A t \in ledger' \cup dedupe' :
           t \in ledger \cup dedupe \/ \E r \in NextResults : t = Key(r)
<1>1. CASE UNCHANGED <<ledger, dedupe>>
  BY <1>1
<1>2. ASSUME NEW r \in NextResults,
             \/ Discard(r) \/ ApplySuccess(r) \/ ApplyRetry(r) \/ ApplyDeadLetter(r)
             \/ ApplyFailure(r) \/ CrashApplying(r)
      PROVE  /\ ledger' \subseteq ledger \cup {Key(r)}
             /\ dedupe' \subseteq dedupe \cup {Key(r)}
  BY <1>2 DEF Discard, ApplySuccess, ApplyRetry, ApplyDeadLetter, ApplyFailure, Claim,
              CrashApplying, Die, ForgetMemory, db
<1>3. CASE SchedulerDies /\ ~ \E r \in NextResults : CrashApplying(r)
  BY <1>3 DEF SchedulerDies, Crash, CrashCreating, CrashCanceling, CrashDispatching,
              CrashReaping, Die, ForgetMemory, db
<1>4. \/ UNCHANGED <<ledger, dedupe>>
      \/ SchedulerDies /\ ~ \E r \in NextResults : CrashApplying(r)
      \/ \E r \in NextResults :
           \/ Discard(r) \/ ApplySuccess(r) \/ ApplyRetry(r) \/ ApplyDeadLetter(r)
           \/ ApplyFailure(r) \/ CrashApplying(r)
  <2>1. CASE LoopStep
    BY <2>1 DEF LoopStep, StartFresh, CancelRun, BeginDispatch, ScanLeases, EndScan, Finish,
       ReadNothing, ReadBatch, AckBatch, EndDrain, Dispatch, DispatchFails, Defer, RetryReady,
       Reap, SkipLease, db
  <2>2. CASE \/ Resume \/ Control \/ (\E t \in taskQueue \cup held : WorkerStep(t))
             \/ (\E n \in Nodes : \E k \in DOMAIN attempts[n] : LeaseLapses(<<n, k>>))
             \/ UNCHANGED vars
    BY <2>2 DEF Resume, Control, CancelFlag, CancelStamp, Stop, WorkerStep, WorkerClaim,
       WorkerShortCircuits, WorkerFinish, WorkerDies, Renew, LeaseLapses, vars, db
  <2> QED
    BY <2>1, <2>2 DEF Next, SchedulerDies
<1> QED
  BY <1>1, <1>2, <1>3, <1>4

(* The keys in the ledger and in the loop's memory name recorded attempts. *)
LEMMA KeysHold == Spec => []KeysSound
<1>1. Init => KeysSound
  BY DEF Init, KeysSound
<1>2. IInv /\ IInv' /\ KeysSound /\ [Next]_vars => KeysSound'
  <2> SUFFICES ASSUME IInv, IInv', KeysSound, [Next]_vars,
                      NEW t \in ledger' \cup dedupe'
               PROVE  TaskSound(t)'
    BY DEF KeysSound
  <2>1. Later
    <3>1. RowsGrow \/ NoRows
      BY RowsStep DEF IInv, Creation
    <3> QED
      BY <3>1, LaterHolds DEF IInv
  <2>2. CASE t \in ledger \cup dedupe
    BY <2>1, <2>2 DEF KeysSound, Later, IInv, TypeOK
  <2>3. CASE \E r \in NextResults : t = Key(r)
    <3>1. PICK r \in NextResults : t = Key(r)
      BY <2>3
    <3>2. r \in Result /\ ResultSound(r)
      BY NextIsSound DEF IInv
    <3>3. t \in AttemptIds /\ TaskSound(t)
      BY <3>1, <3>2 DEF ResultSound, Key, Result, AttemptIds
    <3> QED
      BY <2>1, <3>3 DEF Later
  <2> QED
    BY <2>2, <2>3, KeysSpent
<1> QED
  BY <1>1, <1>2, Invariance, PTL DEF Spec

(* Where every node has its row, no task, result or key names an attempt   *)
(* that was not recorded.                                                  *)
LEMMA UnseenBeyond ==
  ASSUME IInv, KeysSound, "create.partial" \notin CrashPoints,
         NEW n \in Nodes, NEW k \in Nat, k > Len(attempts[n])
  PROVE  Unseen(<<n, k>>)
<1>1. Len(attempts[n]) \in Nat
  BY SeqFacts DEF IInv, TypeOK
<1>2. ASSUME NEW t, TaskSound(t), t[1] = n, t[2] = k
      PROVE  FALSE
  <2>1. nodeRow[n] # "absent"
    BY <1>2 DEF IInv, RowsInv, AllRows, NoRows, TaskSound
  <2>2. k <= Len(attempts[n])
    BY <1>2, <2>1 DEF TaskSound
  <2> QED
    BY <1>1, <2>2
<1>3. <<n, k>> \notin taskQueue \cup held \cup ledger \cup dedupe
  BY <1>2 DEF IInv, MessagesSound, KeysSound
<1>4. ASSUME NEW s \in {resultStream, pel, batch}, NEW i \in DOMAIN s
      PROVE  Key(s[i]) # <<n, k>>
  <2>1. TaskSound(Key(s[i]))
    BY <1>4 DEF IInv, MessagesSound, StreamSound, ResultSound
  <2> QED
    BY <1>2, <2>1
<1> QED
  BY <1>3, <1>4 DEF Unseen

(* A task is published under the number of the attempt just recorded.      *)
LEMMA PublishedIsNext ==
  ASSUME IInv, [Next]_vars, "create.partial" \notin CrashPoints,
         NEW t \in taskQueue' \ taskQueue
  PROVE  \E n \in Nodes : t = <<n, Len(attempts[n]) + 1>>
<1>1. \E n \in Nodes : Dispatch(n)
  <2>1. CASE LoopStep
    BY <2>1 DEF LoopStep, StartFresh, CancelRun, BeginDispatch, ScanLeases, EndScan, Finish,
       ReadNothing, ReadBatch, AckBatch, EndDrain, DispatchFails, Defer, RetryReady,
       Reap, SkipLease, Discard, ApplySuccess, ApplyRetry, ApplyDeadLetter, ApplyFailure,
       Claim, net
  <2>2. CASE SchedulerDies
    BY <2>2, DeathRunRow DEF Die, net
  <2>3. CASE \/ Resume \/ Control \/ (\E m \in taskQueue \cup held : WorkerStep(m))
             \/ (\E n \in Nodes : \E k \in DOMAIN attempts[n] : LeaseLapses(<<n, k>>))
             \/ UNCHANGED vars
    BY <2>3 DEF Resume, Control, CancelFlag, CancelStamp, Stop, WorkerStep, WorkerClaim,
       WorkerShortCircuits, WorkerFinish, WorkerDies, Renew, LeaseLapses, vars, net
  <2> QED
    BY <2>1, <2>2, <2>3 DEF Next
<1>2. PICK n \in Nodes : Dispatch(n)
  BY <1>1
<1>3. /\ Driving /\ taskQueue' = taskQueue \cup {<<n, current'[n]>>}
      /\ current' = [current EXCEPT ![n] = @ + 1]
  BY <1>2 DEF Dispatch, CanDispatch, Driving, Loop
<1>4. nodeRow[n] # "absent"
  BY <1>3 DEF IInv, Phases, RowsInv, AllRows
<1>5. current'[n] = Len(attempts[n]) + 1
  BY <1>3, <1>4 DEF IInv, TypeOK, MemoryFits, MemorySound
<1> QED
  BY <1>3, <1>5

(* No attempt number is spent twice, by one scheduler or by a later one:   *)
(* what a dead scheduler, a slow worker or a reaped attempt left behind    *)
(* never has the name of an attempt yet to be made.                        *)
THEOREM NumbersAreFresh ==
  "create.partial" \notin CrashPoints => (Spec => FreshAttempts)
<1> SUFFICES ASSUME "create.partial" \notin CrashPoints
             PROVE  Spec => FreshAttempts
  OBVIOUS
<1>1. IInv /\ IInv' /\ KeysSound /\ [Next]_vars =>
        [/\ \A n \in Nodes :
              Len(attempts'[n]) > Len(attempts[n]) => Unseen(<<n, Len(attempts'[n])>>)
         /\ \A t \in taskQueue' \ taskQueue : Unseen(t)]_vars
  <2> SUFFICES ASSUME IInv, IInv', KeysSound, [Next]_vars
               PROVE  /\ \A n \in Nodes : Len(attempts'[n]) > Len(attempts[n]) =>
                           Unseen(<<n, Len(attempts'[n])>>)
                      /\ \A t \in taskQueue' \ taskQueue : Unseen(t)
    OBVIOUS
  <2>1. \A n \in Nodes : Len(attempts[n]) \in Nat /\ Len(attempts'[n]) \in Nat
    BY SeqFacts DEF IInv, TypeOK
  <2>2. \A n \in Nodes : Len(attempts'[n]) > Len(attempts[n]) =>
          Unseen(<<n, Len(attempts'[n])>>)
    BY <2>1, UnseenBeyond
  <2>3. ASSUME NEW t \in taskQueue' \ taskQueue
        PROVE  Unseen(t)
    <3>1. PICK n \in Nodes : t = <<n, Len(attempts[n]) + 1>>
      BY <2>3, PublishedIsNext
    <3>2. Len(attempts[n]) + 1 \in Nat /\ Len(attempts[n]) + 1 > Len(attempts[n])
      BY <2>1
    <3> QED
      BY <3>1, <3>2, UnseenBeyond
  <2> QED
    BY <2>2, <2>3
<1> QED
  BY <1>1, Invariance, KeysHold, PTL DEF Spec, FreshAttempts

(* Behind a node in flight there is an attempt, and the last of them is    *)
(* still running, unless the ledger shows that its result was claimed.     *)
Answered ==
  \A n \in Nodes : nodeRow[n] \in InFlightRow =>
    /\ attempts[n] # <<>>
    /\ \/ attempts[n][Len(attempts[n])].status = "running"
       \/ <<n, Len(attempts[n])>> \in ledger

(* The deaths that leave a node in flight behind an attempt that is over   *)
(* and was never answered.                                                 *)
UnansweredPoints == {"dispatch.dispatched", "reap.marked"}

(* No step takes a key out of the ledger.                                  *)
LEMMA LedgerGrows ==
  ASSUME [Next]_vars
  PROVE  ledger \subseteq ledger'
<1>1. CASE QuietStep
  BY <1>1, ZenonT(40) DEF QuietStep, BeginDispatch, ScanLeases, EndScan, Finish, ReadNothing,
     ReadBatch, AckBatch, EndDrain, Defer, SkipLease, Discard, Control, CancelFlag, CancelStamp,
     Stop, WorkerStep, WorkerClaim, WorkerShortCircuits, WorkerFinish, WorkerDies, Renew,
     LeaseLapses, vars, db
<1>2. CASE ~ QuietStep
  BY <1>2, NextCases DEF StartFresh, CancelRun, Resume, Dispatch, DispatchFails, RetryReady,
     Reap, ApplySuccess, ApplyRetry, ApplyDeadLetter, ApplyFailure, Claim, Crash,
     CrashCreating, CrashCanceling, CrashDispatching, CrashReaping, CrashApplying, db
<1> QED
  BY <1>1, <1>2

(* Rows leave flight freely: they enter it with the attempt that is        *)
(* recorded for them.                                                      *)
NoneTakesOff(S) ==
  \A n \in Nodes \ S : nodeRow'[n] \in InFlightRow => nodeRow[n] \in InFlightRow

(* What a set of rows written and a set of rows canceled do to the flight. *)
LEMMA WritesTakeNoneOff ==
  ASSUME TypeOK, NEW n \in Nodes, NEW status \in RowStatus, NEW S,
         \/ nodeRow' = SetRow(nodeRow, n, status)
         \/ nodeRow' = CancelRows(SetRow(nodeRow, n, status), S)
  PROVE  /\ NoneTakesOff({n})
         /\ status \notin InFlightRow \/ nodeRow[n] = "absent" =>
             nodeRow'[n] \notin InFlightRow
<1> DEFINE rows == SetRow(nodeRow, n, status)
<1>1. /\ rows \in [Nodes -> RowStatus]
      /\ \A m \in Nodes : rows[m] =
           IF m = n /\ nodeRow[n] \notin RowTerminal \cup {"absent"} THEN status
           ELSE nodeRow[m]
  BY SetRowTypes DEF TypeOK
<1>2. \A m \in Nodes : nodeRow'[m] \in {rows[m], "canceled"}
  BY <1>1, CancelRowsTypes
<1> HIDE DEF rows
<1> QED
  BY <1>1, <1>2 DEF NoneTakesOff, InFlightRow, RowTerminal

(* A node that stays in flight on the attempts it had stays answered.      *)
LEMMA KeptAnswered ==
  ASSUME TypeOK, Answered, ledger \subseteq ledger', NEW n \in Nodes,
         nodeRow'[n] \in InFlightRow => nodeRow[n] \in InFlightRow,
         SameHistory(attempts[n], attempts'[n]),
         attempts'[n] \in Seq(Attempt)
  PROVE  nodeRow'[n] \in InFlightRow =>
           /\ attempts'[n] # <<>>
           /\ \/ attempts'[n][Len(attempts'[n])].status = "running"
              \/ <<n, Len(attempts'[n])>> \in ledger'
<1> SUFFICES ASSUME nodeRow[n] \in InFlightRow
             PROVE  /\ attempts'[n] # <<>>
                    /\ \/ attempts'[n][Len(attempts'[n])].status = "running"
                       \/ <<n, Len(attempts'[n])>> \in ledger'
  OBVIOUS
<1>1. /\ attempts[n] # <<>>
      /\ \/ attempts[n][Len(attempts[n])].status = "running"
         \/ <<n, Len(attempts[n])>> \in ledger
  BY DEF Answered
<1>2. attempts[n] \in Seq(Attempt)
  BY DEF TypeOK
<1>3. Len(attempts[n]) \in DOMAIN attempts[n] /\ Len(attempts[n]) # 0
  BY <1>1, <1>2, SeqFacts
<1>4. /\ Len(attempts'[n]) = Len(attempts[n])
      /\ attempts'[n][Len(attempts[n])].status = attempts[n][Len(attempts[n])].status
  BY <1>3 DEF SameHistory
<1>5. attempts'[n] # <<>>
  BY <1>3, <1>4, SeqFacts
<1> QED
  BY <1>1, <1>4, <1>5

(* The recording of a node's next attempt, whatever becomes of its row.    *)
LEMMA RecordAnswered ==
  ASSUME TypeOK, TypeOK', Answered, ledger \subseteq ledger', NEW n \in Nodes,
         NEW lease \in {"none", "live", "lapsed"},
         attempts' = RecordAttempt(n, lease), NoneTakesOff({n}),
         nodeRow[n] = "absent" => nodeRow'[n] \notin InFlightRow
  PROVE  Answered'
<1>1. /\ \A m \in Nodes : m # n => attempts'[m] = attempts[m]
      /\ nodeRow[n] # "absent" =>
           /\ Len(attempts'[n]) = Len(attempts[n]) + 1
           /\ attempts'[n][Len(attempts[n]) + 1].status = "running"
  BY RecordEffect
<1>2. \A m \in Nodes : attempts[m] \in Seq(Attempt) /\ attempts'[m] \in Seq(Attempt)
  BY DEF TypeOK
<1>3. ASSUME nodeRow[n] # "absent"
      PROVE  attempts'[n] # <<>> /\ attempts'[n][Len(attempts'[n])].status = "running"
  <2>1. Len(attempts[n]) \in Nat
    BY <1>2, SeqFacts
  <2>2. Len(attempts'[n]) # 0
    BY <1>1, <1>3, <2>1
  <2> QED
    BY <1>1, <1>2, <1>3, <2>2, SeqFacts
<1>4. ASSUME NEW m \in Nodes, m # n
      PROVE  nodeRow'[m] \in InFlightRow =>
               /\ attempts'[m] # <<>>
               /\ \/ attempts'[m][Len(attempts'[m])].status = "running"
                  \/ <<m, Len(attempts'[m])>> \in ledger'
  <2>1. SameHistory(attempts[m], attempts'[m])
    BY <1>1, <1>4, SameHistoryKept
  <2>2. nodeRow'[m] \in InFlightRow => nodeRow[m] \in InFlightRow
    BY <1>4 DEF NoneTakesOff
  <2> QED
    BY <1>2, <2>1, <2>2, KeptAnswered
<1> QED
  BY <1>3, <1>4 DEF Answered

(* The end of the attempt of a node that leaves flight.                    *)
LEMMA LandedAnswered ==
  ASSUME TypeOK, TypeOK', Answered, ledger \subseteq ledger', NEW r,
         r.node \in Nodes, r.attempt \in Nat \ {0},
         NEW status \in {"running", "succeeded", "failed", "lease_expired"},
         attempts' = attempts \/ attempts' = FinishAttempt(r, status),
         NoneTakesOff({r.node}),
         \/ nodeRow'[r.node] \notin InFlightRow
         \/ /\ nodeRow'[r.node] \in InFlightRow => nodeRow[r.node] \in InFlightRow
            /\ nodeRow[r.node] \in InFlightRow => r.attempt = Len(attempts[r.node])
            /\ <<r.node, r.attempt>> \in ledger'
  PROVE  Answered'
<1>1. \A m \in Nodes : attempts[m] \in Seq(Attempt) /\ attempts'[m] \in Seq(Attempt)
  BY DEF TypeOK
<1>2. /\ \A m \in Nodes : Len(attempts'[m]) = Len(attempts[m])
      /\ \A m \in Nodes : m # r.node => SameHistory(attempts[m], attempts'[m])
  <2>1. CASE attempts' = attempts
    BY <2>1, SameHistoryKept
  <2>2. CASE attempts' = FinishAttempt(r, status)
    BY <2>2, FinishEffect DEF SameHistory
  <2> QED
    BY <2>1, <2>2
<1>3. ASSUME NEW m \in Nodes, m # r.node
      PROVE  nodeRow'[m] \in InFlightRow =>
               /\ attempts'[m] # <<>>
               /\ \/ attempts'[m][Len(attempts'[m])].status = "running"
                  \/ <<m, Len(attempts'[m])>> \in ledger'
  <2>1. nodeRow'[m] \in InFlightRow => nodeRow[m] \in InFlightRow
    BY <1>3 DEF NoneTakesOff
  <2> QED
    BY <1>1, <1>2, <1>3, <2>1, KeptAnswered
<1>4. ASSUME nodeRow'[r.node] \in InFlightRow
      PROVE  attempts'[r.node] # <<>> /\ <<r.node, Len(attempts'[r.node])>> \in ledger'
  <2>1. /\ nodeRow[r.node] \in InFlightRow /\ r.attempt = Len(attempts[r.node])
        /\ <<r.node, r.attempt>> \in ledger'
    BY <1>4
  <2>2. attempts[r.node] # <<>>
    BY <2>1 DEF Answered
  <2>3. attempts'[r.node] # <<>>
    BY <1>1, <1>2, <2>2, SeqFacts
  <2> QED
    BY <1>2, <2>1, <2>3
<1> QED
  BY <1>3, <1>4 DEF Answered

(* Every step but a death at those points keeps it.                        *)
LEMMA AnsweredStep ==
  ASSUME IInv, TypeOK', Answered, [Next]_vars, CrashPoints \cap UnansweredPoints = {}
  PROVE  Answered'
<1>1. TypeOK /\ ledger \subseteq ledger'
  BY LedgerGrows DEF IInv
<1>2. \A n \in Nodes : attempts'[n] \in Seq(Attempt)
  BY DEF TypeOK
<1>3. ASSUME NoneTakesOff({}), \A n \in Nodes : SameHistory(attempts[n], attempts'[n])
      PROVE  Answered'
  <2>1. \A n \in Nodes : nodeRow'[n] \in InFlightRow => nodeRow[n] \in InFlightRow
    BY <1>3 DEF NoneTakesOff
  <2> QED
    BY <1>1, <1>2, <1>3, <2>1, KeptAnswered DEF Answered
<1>4. CASE QuietStep
  <2>1. QuietRows
    BY <1>1, <1>4, QuietStepEffect
  <2> QED
    BY <1>3, <2>1 DEF QuietRows, NoneTakesOff
<1>5. CASE StartFresh \/ CancelRun \/ Resume \/ Crash \/ CrashCreating \/ CrashCanceling
  <2>1. UNCHANGED attempts
    BY <1>5 DEF StartFresh, CancelRun, Resume, Crash, CrashCreating, CrashCanceling, db
  <2>2. NoneTakesOff({})
    <3>1. CASE StartFresh \/ CrashCreating
      BY <3>1 DEF StartFresh, CrashCreating, NoneTakesOff, InFlightRow
    <3>2. CASE CancelRun \/ CrashCanceling
      <4>1. PICK S : nodeRow' = CancelRows(nodeRow, S)
        BY <3>2 DEF CancelRun, CrashCanceling, PersistCanceled
      <4>2. nodeRow \in [Nodes -> RowStatus]
        BY <1>1 DEF TypeOK
      <4>3. \A m \in Nodes : nodeRow'[m] \in {nodeRow[m], "canceled"}
        BY <4>1, <4>2, CancelRowsTypes
      <4> QED
        BY <4>3 DEF NoneTakesOff, InFlightRow
    <3>3. CASE Resume \/ Crash
      BY <3>3 DEF Resume, Crash, db, NoneTakesOff
    <3> QED
      BY <1>5, <3>1, <3>2, <3>3
  <2> QED
    BY <1>3, <2>1, <2>2, SameHistoryKept
<1>6. ASSUME NEW n \in Nodes, RetryReady(n)
      PROVE  Answered'
  <2>1. UNCHANGED attempts
    BY <1>6 DEF RetryReady
  <2>2. NoneTakesOff({})
    <3>1. CASE UNCHANGED nodeRow
      BY <3>1 DEF NoneTakesOff
    <3>2. CASE nodeRow' = SetRow(nodeRow, n, "ready")
      <4>1. NoneTakesOff({n}) /\ nodeRow'[n] \notin InFlightRow
        BY <1>1, <3>2, WritesTakeNoneOff DEF RowStatus, InFlightRow
      <4> QED
        BY <4>1 DEF NoneTakesOff
    <3> QED
      BY <1>6, <3>1, <3>2 DEF RetryReady
  <2> QED
    BY <1>3, <2>1, <2>2, SameHistoryKept
<1>7. ASSUME NEW n \in Nodes, Dispatch(n) \/ DispatchFails(n)
      PROVE  Answered'
  <2>1. PICK status \in RowStatus, S \in SUBSET Nodes :
          \/ nodeRow' = SetRow(nodeRow, n, status)
          \/ nodeRow' = CancelRows(SetRow(nodeRow, n, status), S)
    <3>1. CASE Dispatch(n)
      BY <3>1 DEF Dispatch, RowStatus
    <3>2. CASE DispatchFails(n)
      <4>1. nodeRow' = CancelRows(SetRow(nodeRow, n, "failed"),
                         {m \in Nodes : nodeState'[m] = "CANCELED" /\ nodeState[m] # "CANCELED"})
        BY <3>2 DEF DispatchFails, PersistCanceled
      <4>2. "failed" \in RowStatus
        BY DEF RowStatus
      <4> QED
        BY <4>1, <4>2
    <3> QED
      BY <1>7, <3>1, <3>2
  <2>2. attempts' = RecordAttempt(n, "live")
    BY <1>7 DEF Dispatch, DispatchFails
  <2>3. /\ NoneTakesOff({n})
        /\ nodeRow[n] = "absent" => nodeRow'[n] \notin InFlightRow
    BY <1>1, <2>1, WritesTakeNoneOff
  <2> QED
    BY <1>1, <2>2, <2>3, RecordAnswered
<1>8. ASSUME NEW n \in Nodes, CrashDispatching(n)
      PROVE  Answered'
  <2>1. PICK point \in CrashPoints \cap DispatchPoints :
          /\ nodeRow' = SetRow(nodeRow, n,
                               IF point \in {"dispatch.dispatched", "dispatch.recorded"}
                               THEN "dispatched" ELSE "running")
          /\ attempts' = IF point = "dispatch.dispatched" THEN attempts
                         ELSE RecordAttempt(n, IF point = "dispatch.leased"
                                               THEN "live" ELSE "none")
    BY <1>8 DEF CrashDispatching
  <2>2. point # "dispatch.dispatched"
    BY DEF UnansweredPoints
  <2>3. PICK lease \in {"none", "live", "lapsed"} : attempts' = RecordAttempt(n, lease)
    BY <2>1, <2>2
  <2>4. PICK status \in RowStatus : nodeRow' = SetRow(nodeRow, n, status)
    BY <2>1 DEF RowStatus
  <2>5. /\ NoneTakesOff({n})
        /\ nodeRow[n] = "absent" => nodeRow'[n] \notin InFlightRow
    BY <1>1, <2>4, WritesTakeNoneOff
  <2> QED
    BY <1>1, <2>3, <2>5, RecordAnswered
<1>9. ASSUME NEW l \in expired, Reap(l)
      PROVE  Answered'
  <2>1. /\ pc = "reaping" /\ Reapable(l)
        /\ attempts' = FinishAttempt(l, "lease_expired")
    BY <1>9 DEF Reap
  <2>2. /\ l.node \in Nodes /\ l.attempt \in Nat \ {0}
        /\ nodeState[l.node] \notin InFlight => nodeRow[l.node] \in RowTerminal
    BY <2>1, ReapFacts
  <2>3. NoneTakesOff({l.node}) /\ nodeRow'[l.node] \notin InFlightRow
    <3>1. CASE nodeState[l.node] \in InFlight
      <4>1. nodeRow' = SetRow(nodeRow, l.node, "ready")
        BY <1>9, <3>1 DEF Reap
      <4> QED
        BY <1>1, <2>2, <4>1, WritesTakeNoneOff DEF RowStatus, InFlightRow
    <3>2. CASE nodeState[l.node] \notin InFlight
      <4>1. nodeRow' = nodeRow
        BY <1>9, <3>2 DEF Reap
      <4> QED
        BY <2>2, <3>2, <4>1 DEF NoneTakesOff, RowTerminal, InFlightRow
    <3> QED
      BY <3>1, <3>2
  <2> QED
    BY <1>1, <2>1, <2>2, <2>3, LandedAnswered
<1>10. ASSUME NEW r, ApplySuccess(r) \/ ApplyRetry(r) \/ ApplyDeadLetter(r) \/ ApplyFailure(r)
       PROVE  Answered'
  <2>1. IsNext(r) /\ Applicable(r)
    BY <1>10 DEF ApplySuccess, ApplyRetry, ApplyDeadLetter, ApplyFailure, Claim
  <2>2. r.node \in Nodes /\ r.attempt \in Nat \ {0}
    BY <2>1, ResultFacts
  <2>3. PICK ended \in {"succeeded", "failed"} : attempts' = FinishAttempt(r, ended)
    BY <1>10 DEF ApplySuccess, ApplyRetry, ApplyDeadLetter, ApplyFailure
  <2>4. PICK status \in RowStatus \ InFlightRow, S \in SUBSET Nodes :
          \/ nodeRow' = SetRow(nodeRow, r.node, status)
          \/ nodeRow' = CancelRows(SetRow(nodeRow, r.node, status), S)
    <3>1. {"succeeded", "retry_wait", "dead_lettered", "failed"} \subseteq RowStatus \ InFlightRow
      BY DEF RowStatus, InFlightRow
    <3>2. CASE ApplySuccess(r) \/ ApplyRetry(r)
      BY <3>1, <3>2 DEF ApplySuccess, ApplyRetry
    <3>3. CASE ApplyDeadLetter(r) \/ ApplyFailure(r)
      <4>1. \E status \in {"dead_lettered", "failed"} :
              nodeRow' = CancelRows(SetRow(nodeRow, r.node, status),
                {m \in Nodes : nodeState'[m] = "CANCELED" /\ nodeState[m] # "CANCELED"})
        BY <3>3 DEF ApplyDeadLetter, ApplyFailure, PersistCanceled
      <4> QED
        BY <3>1, <4>1
    <3> QED
      BY <1>10, <3>2, <3>3
  <2>5. NoneTakesOff({r.node})
    BY <1>1, <2>2, <2>4, WritesTakeNoneOff
  <2>6. nodeRow'[r.node] \notin InFlightRow
    BY <1>1, <2>2, <2>4, WritesTakeNoneOff
  <2> QED
    BY <1>1, <2>2, <2>3, <2>5, <2>6, LandedAnswered
<1>11. ASSUME NEW l \in expired, CrashReaping(l)
       PROVE  Answered'
  BY <1>11 DEF CrashReaping, UnansweredPoints
<1>12. ASSUME NEW r, CrashApplying(r)
       PROVE  Answered'
  <2>1. IsNext(r) /\ Applicable(r) /\ Key(r) \in ledger'
    BY <1>12 DEF CrashApplying
  <2>2. /\ r.node \in Nodes /\ r.attempt \in Nat \ {0}
        /\ nodeRow[r.node] # "absent" =>
             nodeRow[r.node] \in InFlightRow /\ r.attempt = Len(attempts[r.node])
    BY <2>1, ResultFacts
  <2>3. attempts' = attempts \/ attempts' = FinishAttempt(r, "failed")
    BY <1>12 DEF CrashApplying
  <2>4. /\ NoneTakesOff({r.node})
        /\ nodeRow'[r.node] \in InFlightRow => nodeRow[r.node] \in InFlightRow
    <3>1. CASE nodeRow' = nodeRow
      BY <3>1 DEF NoneTakesOff
    <3>2. CASE nodeRow' # nodeRow
      <4>1. PICK status \in RowStatus \ InFlightRow :
              \/ nodeRow' = SetRow(nodeRow, r.node, status)
              \/ \E S : nodeRow' = CancelRows(SetRow(nodeRow, r.node, status), S)
        <5>1. {"succeeded", "dead_lettered", "failed"} \subseteq RowStatus \ InFlightRow
          BY DEF RowStatus, InFlightRow
        <5>2. FailureRow(r) \in {"dead_lettered", "failed"}
          BY DEF FailureRow
        <5> QED
          BY <1>12, <3>2, <5>1, <5>2 DEF CrashApplying
      <4>2. NoneTakesOff({r.node}) /\ nodeRow'[r.node] \notin InFlightRow
        BY <1>1, <2>2, <4>1, WritesTakeNoneOff
      <4> QED
        BY <4>2
    <3> QED
      BY <3>1, <3>2
  <2>5. nodeRow[r.node] \in InFlightRow => r.attempt = Len(attempts[r.node])
    BY <2>2 DEF InFlightRow
  <2>6. <<r.node, r.attempt>> \in ledger'
    BY <2>1 DEF Key
  <2> QED
    BY <1>1, <2>2, <2>3, <2>4, <2>5, <2>6, LandedAnswered
<1> QED
  BY <1>4, <1>5, <1>6, <1>7, <1>8, <1>9, <1>10, <1>11, <1>12, NextCases

(* Barring those deaths, what is in flight is at work or answered.         *)
LEMMA AllAnswered ==
  CrashPoints \cap UnansweredPoints = {} => (Spec => []Answered)
<1> SUFFICES ASSUME CrashPoints \cap UnansweredPoints = {}
             PROVE  Spec => []Answered
  OBVIOUS
<1>1. Init => Answered
  BY DEF Init, Answered, InFlightRow
<1>2. IInv /\ IInv' /\ Answered /\ [Next]_vars => Answered'
  BY AnsweredStep DEF IInv
<1> QED
  BY <1>1, <1>2, Invariance, PTL DEF Spec

EndsNoOther(n) ==
  \A k \in DOMAIN attempts[n] :
    /\ k \in DOMAIN attempts'[n]
    /\ attempts[n][k].status # "running" => attempts'[n][k].status = attempts[n][k].status

(* Every write of a status goes to an attempt that is still running: the   *)
(* reap tests it, and a result is applied only while its node is in flight *)
(* and its own key is not in the ledger, so that the attempt it names, the *)
(* last, is running.                                                       *)
LEMMA OnlyRunningEnd ==
  ASSUME IInv, Answered, [Next]_vars, NEW n \in Nodes
  PROVE  EndsNoOther(n)
<1>1. TypeOK
  BY DEF IInv
<1>2. ASSUME SameHistory(attempts[n], attempts'[n])
      PROVE  EndsNoOther(n)
  BY <1>2 DEF SameHistory, EndsNoOther
<1>3. CASE UNCHANGED attempts
  BY <1>2, <1>3, SameHistoryKept
<1>4. ASSUME NEW m \in Nodes, NEW lease \in {"none", "live", "lapsed"},
             attempts' = RecordAttempt(m, lease)
      PROVE  EndsNoOther(n)
  BY <1>1, <1>4, RecordEffect DEF EndsNoOther
<1>5. ASSUME NEW r, r.node \in Nodes, r.attempt \in Nat \ {0},
             r.attempt \in DOMAIN attempts[r.node] =>
               attempts[r.node][r.attempt].status = "running",
             NEW status \in {"succeeded", "failed", "lease_expired"},
             attempts' = FinishAttempt(r, status)
      PROVE  EndsNoOther(n)
  BY <1>1, <1>5, FinishEffect DEF EndsNoOther
<1>6. CASE \E m \in Nodes : Dispatch(m) \/ DispatchFails(m) \/ RetryReady(m)
  BY <1>3, <1>4, <1>6 DEF Dispatch, DispatchFails, RetryReady
<1>7. CASE \E m \in Nodes : CrashDispatching(m)
  BY <1>3, <1>4, <1>7 DEF CrashDispatching
<1>8. CASE \E l \in expired : Reap(l) \/ CrashReaping(l)
  <2>1. PICK l \in expired : Reap(l) \/ CrashReaping(l)
    BY <1>8
  <2>2. l.node \in Nodes /\ l.attempt \in Nat \ {0}
    BY <1>1 DEF TypeOK
  <2>3. /\ attempts[l.node][l.attempt].status = "running"
        /\ attempts' = FinishAttempt(l, "lease_expired")
    BY <2>1 DEF Reap, CrashReaping, Reapable
  <2> QED
    BY <1>5, <2>2, <2>3
<1>9. CASE \E r \in NextResults : \/ ApplySuccess(r) \/ ApplyRetry(r) \/ ApplyDeadLetter(r)
                                  \/ ApplyFailure(r) \/ CrashApplying(r)
  <2>1. PICK r \in NextResults : \/ ApplySuccess(r) \/ ApplyRetry(r) \/ ApplyDeadLetter(r)
                                 \/ ApplyFailure(r) \/ CrashApplying(r)
    BY <1>9
  <2>2. IsNext(r) /\ Applicable(r)
    BY <2>1 DEF ApplySuccess, ApplyRetry, ApplyDeadLetter, ApplyFailure, Claim, CrashApplying
  <2>3. /\ r.node \in Nodes /\ r.attempt \in Nat \ {0}
        /\ nodeRow[r.node] = "absent" => attempts[r.node] = <<>>
        /\ nodeRow[r.node] # "absent" =>
             nodeRow[r.node] \in InFlightRow /\ r.attempt = Len(attempts[r.node])
    BY <2>2, ResultFacts
  <2>4. ASSUME r.attempt \in DOMAIN attempts[r.node]
        PROVE  attempts[r.node][r.attempt].status = "running"
    <3>1. attempts[r.node] # <<>>
      BY <2>4
    <3>2. <<r.node, r.attempt>> \notin ledger
      BY <2>2 DEF Applicable, Key
    <3> QED
      BY <2>3, <3>1, <3>2 DEF Answered
  <2>5. \/ UNCHANGED attempts
        \/ \E status \in {"succeeded", "failed"} : attempts' = FinishAttempt(r, status)
    BY <2>1 DEF ApplySuccess, ApplyRetry, ApplyDeadLetter, ApplyFailure, CrashApplying
  <2> QED
    BY <1>3, <1>5, <2>3, <2>4, <2>5
<1>10. CASE StartFresh \/ CancelRun \/ Resume \/ Crash \/ CrashCreating \/ CrashCanceling
  BY <1>3, <1>10 DEF StartFresh, CancelRun, Resume, Crash, CrashCreating, CrashCanceling, db
<1>11. CASE QuietStep
  BY <1>1, <1>2, <1>11, QuietStepEffect DEF QuietRows
<1> QED
  BY <1>6, <1>7, <1>8, <1>9, <1>10, <1>11, NextCases

(* Where no death leaves a node in flight behind an attempt that is over   *)
(* and was never answered, the verdict on an attempt is final: the late    *)
(* result of a reaped attempt, a duplicate or a replay never rewrites it.  *)
THEOREM VerdictsStand ==
  CrashPoints \cap UnansweredPoints = {} => (Spec => AttemptsSettle)
<1> SUFFICES ASSUME CrashPoints \cap UnansweredPoints = {}
             PROVE  Spec => AttemptsSettle
  OBVIOUS
<1>1. IInv /\ Answered /\ [Next]_vars =>
        [\A n \in Nodes : \A k \in DOMAIN attempts[n] :
           /\ k \in DOMAIN attempts'[n]
           /\ attempts[n][k].status # "running" =>
                attempts'[n][k].status = attempts[n][k].status]_vars
  BY OnlyRunningEnd DEF EndsNoOther
<1> QED
  BY <1>1, AllAnswered, Invariance, PTL DEF Spec, AttemptsSettle

-----------------------------------------------------------------------------
(* The refinement of SchedulerState.                                       *)

(* Its variables, as Machine instantiates them.                            *)
MachineState ==
  CASE pc \in {"start", "down"} -> "QUEUED"
    [] pc = "done" -> (CASE runRow = "succeeded" -> "SUCCEEDED"
                         [] runRow = "failed"    -> "FAILED"
                         [] OTHER                -> "CANCELED")
    [] OTHER -> "RUNNING"

Counts(st) == [n \in Nodes |-> UnmetDeps(st, n)]

DecidedNodes(st) == {n \in Nodes : st[n] \in Decided}

(* The instance has its own copies of the graph's functions; they are the  *)
(* same functions.                                                         *)
LEMMA SameGraph ==
  /\ \A st, n, how : Machine!Fail(st, n, how) = Fail(st, n, how)
  /\ \A st : Machine!CancelOpen(st) = CancelOpen(st)
  /\ \A st : Machine!Outcome(st) = Outcome(st)
  /\ \A n : Machine!Succs(n) = Succs(n)
  /\ \A st, n : Machine!UnmetDeps(st, n) = UnmetDeps(st, n)
  /\ \A rows : Machine!RowsCoherent(rows) <=> RowsCoherent(rows)
  /\ \A rows : Machine!Restore(rows) = Restore(rows)
  /\ Machine!Decided = Decided /\ Machine!InFlight = InFlight
  /\ Machine!RowStatus = RowStatus
<1>0. Machine!Terminal = Terminal
  BY DEF Machine!Terminal, Terminal, Machine!Unsuccessful, Unsuccessful
<1>1. \A st : Machine!Open(st) = Open(st)
  BY <1>0 DEF Machine!Open, Open
<1>2. \A st, n : Machine!Downstream(st, n) = Downstream(st, n)
  BY <1>1 DEF Machine!Downstream, Downstream, Machine!WalkClosed, WalkClosed
<1>3. \A st, n, how : Machine!Fail(st, n, how) = Fail(st, n, how)
  BY <1>2 DEF Machine!Fail, Fail
<1>4. \A st : Machine!CancelOpen(st) = CancelOpen(st)
  BY <1>0 DEF Machine!CancelOpen, CancelOpen
<1>5. \A st : Machine!Outcome(st) = Outcome(st)
  BY DEF Machine!Outcome, Outcome
<1>6. \A n : Machine!Succs(n) = Succs(n)
  BY DEF Machine!Succs, Succs
<1>7. \A st, n : Machine!UnmetDeps(st, n) = UnmetDeps(st, n)
  <2>1. \A S : Machine!Cardinality(S) = Cardinality(S)
    BY DEF Machine!Cardinality, Cardinality
  <2> QED
    BY <2>1 DEF Machine!UnmetDeps, UnmetDeps
<1>8. \A rows : Machine!RowsCoherent(rows) <=> RowsCoherent(rows)
  BY DEF Machine!RowsCoherent, RowsCoherent
<1>9. \A rows : Machine!Restore(rows) = Restore(rows)
  BY DEF Machine!Restore, Restore, Machine!Unblock, Unblock, Machine!PredsSucceeded,
         PredsSucceeded, Machine!RestoredState, RestoredState
<1>10. Machine!Decided = Decided /\ Machine!InFlight = InFlight
       /\ Machine!RowStatus = RowStatus
  BY DEF Machine!Decided, Decided, Machine!InFlight, InFlight, Machine!RowStatus, RowStatus
<1> QED
  BY <1>3, <1>4, <1>5, <1>6, <1>7, <1>8, <1>9, <1>10

(* A machine no node of which has been touched.                            *)
LEMMA FreshCounts ==
  LET st == [n \in Nodes |-> "BLOCKED"]
  IN  /\ Counts(st) = [n \in Nodes |-> Cardinality(Preds[n])]
      /\ DecidedNodes(st) = {}
<1> DEFINE st == [n \in Nodes |-> "BLOCKED"]
<1>1. ASSUME NEW n \in Nodes
      PROVE  UnmetDeps(st, n) = Cardinality(Preds[n])
  <2>1. {p \in Preds[n] : st[p] # "SUCCEEDED"} = Preds[n]
    BY PredsAreNodes
  <2> QED
    BY <2>1 DEF UnmetDeps
<1> QED
  BY <1>1 DEF Counts, DecidedNodes, Decided

(* The mapped variables stay when the machine's part of the state does.    *)
LEMMA MachineIdle ==
  ASSUME UNCHANGED nodeState, MachineState' = MachineState
  PROVE  UNCHANGED Machine!vars
  BY DEF Machine!vars, MachineState
(* A call that moves a node between undecided states leaves the counters   *)
(* and completed_ alone.                                                   *)
LEMMA UndecidedMove ==
  ASSUME TypeOK, NEW n \in Nodes, nodeState[n] \notin Decided,
         NEW x, x \notin Decided, nodeState' = [nodeState EXCEPT ![n] = x]
  PROVE  /\ Counts(nodeState') = Counts(nodeState)
         /\ DecidedNodes(nodeState') = DecidedNodes(nodeState)
<1>1. \A m \in Nodes : nodeState'[m] = IF m = n THEN x ELSE nodeState[m]
  BY DEF TypeOK
<1>2. \A m \in Nodes : nodeState[m] = "SUCCEEDED" <=> nodeState'[m] = "SUCCEEDED"
  BY <1>1 DEF Decided
<1>3. \A m \in Nodes : UnmetDeps(nodeState', m) = UnmetDeps(nodeState, m)
  BY <1>2, SameSucceeded
<1>4. Counts(nodeState') = Counts(nodeState)
  BY <1>3 DEF Counts
<1>5. DecidedNodes(nodeState') = DecidedNodes(nodeState)
  BY <1>1 DEF DecidedNodes
<1> QED
  BY <1>4, <1>5

(* Dispatch, a lapsed lease, a retry and the end of its backoff are calls  *)
(* the machine allows.                                                     *)
LEMMA MoveSimulated ==
  ASSUME TypeOK, NEW n \in Nodes, MachineState' = MachineState,
         \/ nodeState[n] = "READY" /\ nodeState' = [nodeState EXCEPT ![n] = "RUNNING"]
         \/ nodeState[n] \in InFlight /\ nodeState' = [nodeState EXCEPT ![n] = "READY"]
         \/ nodeState[n] = "RUNNING" /\ nodeState' = [nodeState EXCEPT ![n] = "RETRY_WAIT"]
         \/ nodeState[n] = "RETRY_WAIT" /\ nodeState' = [nodeState EXCEPT ![n] = "READY"]
  PROVE  Machine!Next
<1>1. /\ Counts(nodeState') = Counts(nodeState)
      /\ DecidedNodes(nodeState') = DecidedNodes(nodeState)
  <2>1. /\ nodeState[n] \notin Decided
        /\ \/ nodeState' = [nodeState EXCEPT ![n] = "RUNNING"]
           \/ nodeState' = [nodeState EXCEPT ![n] = "READY"]
           \/ nodeState' = [nodeState EXCEPT ![n] = "RETRY_WAIT"]
    BY DEF Decided, InFlight
  <2>2. "RUNNING" \notin Decided /\ "READY" \notin Decided /\ "RETRY_WAIT" \notin Decided
    BY DEF Decided
  <2> QED
    BY <2>1, <2>2, UndecidedMove
<1>2. \/ Machine!LaunchNode(n) \/ Machine!AbandonNode(n)
      \/ Machine!RetryWaitNode(n) \/ Machine!ReadyFromRetry(n)
  BY <1>1, SameGraph
     DEF Machine!LaunchNode, Machine!AbandonNode, Machine!RetryWaitNode,
         Machine!ReadyFromRetry, MachineState, Counts, DecidedNodes
<1> QED
  BY <1>2 DEF Machine!Next, Machine!Attempt

(* A success is complete_node's: every successor's counter goes down by    *)
(* one, and those it brings to zero become ready.                          *)
LEMMA SuccessSimulated ==
  ASSUME TypeOK, NEW n \in Nodes, nodeState[n] = "RUNNING",
         nodeState' = Succeed(nodeState, n), MachineState' = MachineState
  PROVE  Machine!Next
<1>1. nodeState \in [Nodes -> NodeStates]
  BY DEF TypeOK
<1>2. /\ nodeState' \in [Nodes -> NodeStates] /\ nodeState'[n] = "SUCCEEDED"
      /\ \A p \in Nodes : nodeState'[p] = "SUCCEEDED" <=> p = n \/ nodeState[p] = "SUCCEEDED"
      /\ \A m \in Nodes \ {n} : nodeState'[m] =
           IF n \in Preds[m] /\ nodeState[m] = "BLOCKED" /\ PredsSucceeded(nodeState', m)
           THEN "READY" ELSE nodeState[m]
  BY <1>1, SucceedEffect
<1>3. \A m \in Nodes : /\ UnmetDeps(nodeState', m) \in Nat
                       /\ UnmetDeps(nodeState', m) = 0 <=> PredsSucceeded(nodeState', m)
                       /\ UnmetDeps(nodeState, m) \in Nat
  BY UnmetDepsCounts
<1>4. \A m \in Nodes : UnmetDeps(nodeState', m) =
        IF m \in Succs(n) /\ UnmetDeps(nodeState, m) > 0
        THEN UnmetDeps(nodeState, m) - 1 ELSE UnmetDeps(nodeState, m)
  BY <1>2, OneMoreSucceeded
<1>5. Counts(nodeState') =
        [m \in Nodes |-> IF m \in Succs(n) /\ Counts(nodeState)[m] > 0
                         THEN Counts(nodeState)[m] - 1 ELSE Counts(nodeState)[m]]
  BY <1>4 DEF Counts
<1>6. DecidedNodes(nodeState') = DecidedNodes(nodeState) \cup {n}
  BY <1>2 DEF DecidedNodes, Decided
<1>7. nodeState' =
        [m \in Nodes |->
           IF m = n THEN "SUCCEEDED"
           ELSE IF m \in Succs(n) /\ Counts(nodeState')[m] = 0 /\ nodeState[m] = "BLOCKED"
           THEN "READY" ELSE nodeState[m]]
  BY <1>2, <1>3 DEF Counts, Succs
<1>8. n \notin DecidedNodes(nodeState)
  BY DEF DecidedNodes, Decided
<1>9. Machine!CompleteSuccess(n)
  BY <1>5, <1>6, <1>7, <1>8, SameGraph
     DEF Machine!CompleteSuccess, MachineState, Counts, DecidedNodes
<1> QED
  BY <1>9 DEF Machine!Next, Machine!Attempt

(* A failure for good is fail_node or dead_letter_node of an undecided     *)
(* node of a started run.                                                  *)
LEMMA FailSimulated ==
  ASSUME TypeOK, NEW n \in Nodes, nodeState[n] \notin Decided, Driving,
         NEW how \in {"FAILED", "DEAD_LETTERED"},
         nodeState' = Fail(nodeState, n, how), MachineState' = MachineState
  PROVE  Machine!Next
<1>1. nodeState \in [Nodes -> NodeStates]
  BY DEF TypeOK
<1>2. /\ nodeState' \in [Nodes -> NodeStates] /\ nodeState'[n] = how
      /\ \A m \in Nodes \ {n} : nodeState'[m] = nodeState[m]
                               \/ (nodeState[m] \notin Terminal /\ nodeState'[m] = "CANCELED")
  BY <1>1, FailEffect
<1>3. \A m \in Nodes : nodeState[m] = "SUCCEEDED" <=> nodeState'[m] = "SUCCEEDED"
  BY <1>2 DEF Decided, Terminal
<1>4. \A m \in Nodes : UnmetDeps(nodeState', m) = UnmetDeps(nodeState, m)
  BY <1>3, SameSucceeded
<1>5. Counts(nodeState') = Counts(nodeState)
  BY <1>4 DEF Counts
<1>6. DecidedNodes(nodeState') = DecidedNodes(nodeState) \cup {n}
  BY <1>2 DEF DecidedNodes, Decided, Terminal, Unsuccessful
<1>7. MachineState = "RUNNING"
  BY DEF MachineState, Driving, Loop
<1>8. n \notin DecidedNodes(nodeState)
  BY DEF DecidedNodes
<1>9. Machine!FailNode(n) \/ Machine!DeadLetterNode(n)
  BY <1>5, <1>6, <1>7, <1>8, SameGraph
     DEF Machine!FailNode, Machine!DeadLetterNode, MachineState, Counts, DecidedNodes
<1> QED
  BY <1>9 DEF Machine!Next, Machine!Attempt

(* A death is the end of the machine; the next scheduler has a new one.    *)
LEMMA DeathSimulated ==
  ASSUME SchedulerDies
  PROVE  Machine!Next
<1>1. pc' = "down" /\ nodeState' = [n \in Nodes |-> "BLOCKED"]
  BY DeathRunRow DEF Die, ForgetMemory
<1>2. /\ Counts(nodeState') = [n \in Nodes |-> Cardinality(Preds[n])]
      /\ DecidedNodes(nodeState') = {}
  BY <1>1, FreshCounts
<1>3. \A S : Machine!Cardinality(S) = Cardinality(S)
  BY DEF Machine!Cardinality, Cardinality
<1>4. Machine!Restart
  BY <1>1, <1>2, <1>3 DEF Machine!Restart, Counts, DecidedNodes
<1> QED
  BY <1>4 DEF Machine!Next

(* run() starts a machine nothing has happened to: the nodes without       *)
(* predecessors are ready.                                                 *)
LEMMA StartSimulated ==
  ASSUME IInv, StartFresh
  PROVE  Machine!Next
<1>1. /\ pc = "start" /\ pc' = "top" /\ nodeState' = Unblock(nodeState)
      /\ nodeState = [n \in Nodes |-> "BLOCKED"]
  BY DEF StartFresh, IInv, FreshMemory
<1>2. MachineState = "QUEUED" /\ MachineState' = "RUNNING"
  BY <1>1 DEF MachineState
<1>3. \A n \in Nodes : UnmetDeps(nodeState, n) = 0 <=> PredsSucceeded(nodeState, n)
  BY UnmetDepsCounts
<1>4. nodeState' = [n \in Nodes |-> IF Counts(nodeState)[n] = 0 THEN "READY" ELSE nodeState[n]]
  BY <1>1, <1>3 DEF Counts, Unblock
<1>5. \A n \in Nodes : nodeState'[n] \in {"READY", "BLOCKED"} /\ nodeState[n] = "BLOCKED"
  BY <1>1, <1>4
<1>6. \A n \in Nodes : UnmetDeps(nodeState', n) = UnmetDeps(nodeState, n)
  BY <1>5, SameSucceeded
<1>7. Counts(nodeState') = Counts(nodeState) /\ DecidedNodes(nodeState') = DecidedNodes(nodeState)
  BY <1>5, <1>6 DEF Counts, DecidedNodes, Decided
<1>8. Machine!StartRun
  BY <1>2, <1>4, <1>7, SameGraph DEF Machine!StartRun, MachineState, Counts, DecidedNodes
<1> QED
  BY <1>8 DEF Machine!Next

(* The cancel path is cancel_run.                                          *)
LEMMA CancelSimulated ==
  ASSUME TypeOK, CancelRun
  PROVE  Machine!Next
<1>1. nodeState' = CancelOpen(nodeState) /\ MachineState' = "CANCELED"
  BY DEF CancelRun, MachineState
<1>2. \A n \in Nodes : nodeState'[n] =
        IF nodeState[n] \in Terminal THEN nodeState[n] ELSE "CANCELED"
  BY <1>1 DEF CancelOpen
<1>3. \A n \in Nodes : /\ nodeState[n] = "SUCCEEDED" <=> nodeState'[n] = "SUCCEEDED"
                       /\ nodeState[n] \in Decided <=> nodeState'[n] \in Decided
  BY <1>2 DEF Terminal, Unsuccessful, Decided
<1>4. \A n \in Nodes : UnmetDeps(nodeState', n) = UnmetDeps(nodeState, n)
  BY <1>3, SameSucceeded
<1>5. Counts(nodeState') = Counts(nodeState) /\ DecidedNodes(nodeState') = DecidedNodes(nodeState)
  BY <1>3, <1>4 DEF Counts, DecidedNodes
<1>6. Machine!CancelRun
  BY <1>1, <1>5, SameGraph DEF Machine!CancelRun, MachineState, Counts, DecidedNodes
<1> QED
  BY <1>6 DEF Machine!Next

(* The end of a run is finalize_run, whose outcome goes to the run row.    *)
LEMMA FinishSimulated ==
  ASSUME Finish
  PROVE  Machine!Next
<1>1. /\ pc = "poll" /\ pc' = "done" /\ UNCHANGED nodeState
      /\ runRow' = RunRowOf(Outcome(nodeState))
  BY DEF Finish
<1>2. Outcome(nodeState) \in {"FAILED", "SUCCEEDED", "CANCELED"}
  BY DEF Outcome
<1>3. MachineState = "RUNNING" /\ MachineState' = Outcome(nodeState)
  BY <1>1, <1>2 DEF MachineState, RunRowOf
<1>4. Machine!FinalizeRun
  BY <1>1, <1>3, SameGraph DEF Machine!FinalizeRun, MachineState
<1> QED
  BY <1>4 DEF Machine!Next

(* A resumed loop reconstructs its machine from rows that are coherent; a  *)
(* run without rows gets a machine that has not started.                   *)
LEMMA ResumeSimulated ==
  ASSUME IInv, Resume, CrashPoints \cap PartialPoints = {}
  PROVE  Machine!Next \/ UNCHANGED Machine!vars
<1>1. pc = "down" /\ runRow = "running" /\ MachineState = "QUEUED"
  BY DEF Resume, MachineState
<1>2. CASE NoRows
  <2>1. MachineState' = "QUEUED" /\ UNCHANGED nodeState
    BY <1>2 DEF Resume, NoRows, MachineState
  <2> QED
    BY <1>1, <2>1, MachineIdle
<1>3. CASE ~ NoRows
  <2>1. nodeState' = Restore(nodeRow) /\ MachineState' = "RUNNING"
    BY <1>3 DEF Resume, NoRows, MachineState
  <2>2. nodeRow \in [Nodes -> RowStatus]
    BY DEF IInv, TypeOK
  <2>3. RowsCoherent(nodeRow)
    BY DEF IInv, RowsInv, NodeSound, Started, PredsDone, NoStrandedRows, NoneStranded,
           RowsCoherent
  <2>4. PICK rows : rows = nodeRow
    OBVIOUS
  <2>5. rows \in [Nodes -> Machine!RowStatus]
    BY <2>2, <2>4, SameGraph
  <2>6. Machine!Reconstruct(rows)
    BY <2>1, <2>3, <2>4, SameGraph DEF Machine!Reconstruct, MachineState
  <2>7. Machine!Resume
    BY <1>1, <2>5, <2>6 DEF Machine!Resume, MachineState
  <2> QED
    BY <2>7 DEF Machine!Next
<1> QED
  BY <1>2, <1>3

(* What the other steps do to the mapped run state: nothing.               *)
LEMMA MachineStateKept ==
  ASSUME IInv, [Next]_vars, ~ StartFresh, ~ CancelRun, ~ Finish, ~ Resume, ~ SchedulerDies
  PROVE  MachineState' = MachineState
<1>1. CASE UNCHANGED <<runRow, pc>>
  BY <1>1 DEF MachineState
<1>2. CASE pc \in Loop \ {"start"} /\ pc' \in Loop \ {"start"}
  BY <1>2 DEF MachineState, Loop
<1>3. CASE CancelFlag \/ CancelStamp
  BY <1>1, <1>3 DEF CancelFlag, CancelStamp, db
<1> QED
  BY <1>1, <1>2, <1>3, StepKinds

(* Every step of the loop is a step of the machine or leaves it alone.     *)
LEMMA StepSimulated ==
  ASSUME IInv, [Next]_vars, CrashPoints \cap PartialPoints = {}
  PROVE  Machine!Next \/ UNCHANGED Machine!vars
<1>1. TypeOK
  BY DEF IInv
<1>2. CASE StartFresh \/ CancelRun \/ Finish \/ Resume \/ SchedulerDies
  BY <1>1, <1>2, StartSimulated, CancelSimulated, FinishSimulated, ResumeSimulated,
     DeathSimulated
<1>3. CASE ~ (StartFresh \/ CancelRun \/ Finish \/ Resume \/ SchedulerDies)
  <2>1. MachineState' = MachineState
    BY <1>3, MachineStateKept
  <2>2. CASE QuietStep
    BY <1>1, <2>1, <2>2, QuietStepEffect, MachineIdle
  <2>3. ASSUME NEW n \in Nodes, Dispatch(n) \/ DispatchFails(n) \/ RetryReady(n)
        PROVE  Machine!Next \/ UNCHANGED Machine!vars
    <3>1. CASE Dispatch(n)
      BY <1>1, <2>1, <3>1, MoveSimulated DEF Dispatch, CanDispatch
    <3>2. CASE DispatchFails(n)
      <4>1. /\ nodeState[n] = "READY" /\ Driving /\ nodeState[n] \notin Decided
            /\ nodeState' = Fail(nodeState, n, "FAILED")
        BY <3>2 DEF DispatchFails, CanDispatch, Driving, Loop, Decided
      <4> QED
        BY <1>1, <2>1, <4>1, FailSimulated
    <3>3. CASE RetryReady(n)
      BY <1>1, <2>1, <3>3, MoveSimulated, MachineIdle DEF RetryReady
    <3> QED
      BY <2>3, <3>1, <3>2, <3>3
  <2>4. ASSUME NEW l \in expired, Reap(l)
        PROVE  Machine!Next \/ UNCHANGED Machine!vars
    <3>1. l.node \in Nodes
      BY <1>1 DEF TypeOK
    <3> QED
      BY <1>1, <2>1, <2>4, <3>1, MoveSimulated, MachineIdle DEF Reap
  <2>5. ASSUME NEW r \in NextResults,
               ApplySuccess(r) \/ ApplyRetry(r) \/ ApplyDeadLetter(r) \/ ApplyFailure(r)
        PROVE  Machine!Next \/ UNCHANGED Machine!vars
    <3>1. r.node \in Nodes /\ Driving
      BY <1>1, NextResultFacts DEF Result, Driving, Loop
    <3>2. nodeState[r.node] = "RUNNING" /\ nodeState[r.node] \notin Decided
      BY <2>5 DEF ApplySuccess, ApplyRetry, ApplyDeadLetter, ApplyFailure, Claim, Applicable,
             Decided
    <3>3. CASE ApplySuccess(r)
      BY <1>1, <2>1, <3>1, <3>2, <3>3, SuccessSimulated DEF ApplySuccess
    <3>4. CASE ApplyRetry(r)
      BY <1>1, <2>1, <3>1, <3>2, <3>4, MoveSimulated DEF ApplyRetry
    <3>5. CASE ApplyDeadLetter(r) \/ ApplyFailure(r)
      BY <1>1, <2>1, <3>1, <3>2, <3>5, FailSimulated DEF ApplyDeadLetter, ApplyFailure
    <3> QED
      BY <2>5, <3>3, <3>4, <3>5
  <2> QED
    BY <1>3, <2>2, <2>3, <2>4, <2>5, NextCases DEF SchedulerDies
<1> QED
  BY <1>2, <1>3

(* The loop drives a SchedulerState object as the object is meant to be    *)
(* driven, and its counters are the numbers of unmet dependencies: every   *)
(* behaviour of the run, seen through the states of its nodes, is one of   *)
(* the state machine. What reconstruct is called on must be coherent,      *)
(* hence the hypothesis on the points of death.                            *)
THEOREM DrivesTheMachine ==
  CrashPoints \cap PartialPoints = {} => (Spec => ImplementsMachine)
<1> SUFFICES ASSUME CrashPoints \cap PartialPoints = {}
             PROVE  Spec => ImplementsMachine
  OBVIOUS
<1>1. Init => Machine!Init
  <2> SUFFICES ASSUME Init
               PROVE  Machine!Init
    OBVIOUS
  <2>1. nodeState = [n \in Nodes |-> "BLOCKED"] /\ MachineState = "QUEUED"
    BY DEF Init, MachineState
  <2>2. /\ Counts(nodeState) = [n \in Nodes |-> Cardinality(Preds[n])]
        /\ DecidedNodes(nodeState) = {}
    BY <2>1, FreshCounts
  <2>3. \A S : Machine!Cardinality(S) = Cardinality(S)
    BY DEF Machine!Cardinality, Cardinality
  <2> QED
    BY <2>1, <2>2, <2>3 DEF Machine!Init, MachineState, Counts, DecidedNodes
<1>2. IInv /\ [Next]_vars => [Machine!Next]_(Machine!vars)
  BY StepSimulated
<1> QED
  BY <1>1, <1>2, Invariance, PTL DEF Spec, ImplementsMachine, Machine!Spec

=============================================================================
