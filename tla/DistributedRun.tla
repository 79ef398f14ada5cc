--------------------------- MODULE DistributedRun ---------------------------
(***************************************************************************)
(* One run driven by DistributedRunLoop (engine/core/src/distributed_run_  *)
(* loop.cpp), with what it shares with others: the durable rows in         *)
(* Postgres (engine/pg/src/pg_run_store.cpp), the task and result streams  *)
(* in Redis, the workers that claim, execute and answer tasks              *)
(* (worker/src/worker.ts), the CancelRun and shutdown threads, and the     *)
(* restart of a scheduler that died (engine/app/grpc_service.cpp,          *)
(* reconcile_active_runs).                                                 *)
(*                                                                         *)
(* A call the loop makes for one node, lease or result is one step: only   *)
(* the loop writes the memory, and nobody reads the rows between the       *)
(* writes of one call, except a scheduler that starts again after dying    *)
(* there. Those deaths are the Crash...ing actions: each leaves the writes *)
(* that precede the point of death, and CrashPoints says which points a    *)
(* configuration explores. Between two steps the scheduler can always die. *)
(***************************************************************************)
EXTENDS RunGraph, Sequences

CONSTANTS
  RetryMax,      \* RetryMax[n]: max_attempts of the retry policy of n's resource class
  BrowserNodes,  \* nodes of class browser: they share the run's affinity key
  BatchSize,     \* result_batch_size
  Outcomes,      \* what an executor may answer: "ok", "retryable", "fatal"
  Faults,        \* what the environment may do: see FaultKinds
  CrashPoints,   \* where inside a call the scheduler may die
  MaxMishaps     \* bound on deaths, duplicates and leases that lapse early

FaultKinds == {"cancel", "stop", "publish_fails", "ack_lost", "quota_full"}

DispatchPoints ==
  {"dispatch.dispatched", "dispatch.recorded", "dispatch.running", "dispatch.leased"}

AllCrashPoints == DispatchPoints \cup
  {"create.run", "create.partial", "reap.marked", "apply.claimed", "apply.completed",
   "fail.attempt_finished", "fail.completed", "cancel.partial", "stop.partial"}

ASSUME RunConstants ==
  /\ RetryMax \in [Nodes -> Nat \ {0}]
  /\ BrowserNodes \subseteq Nodes
  /\ BatchSize \in Nat \ {0}
  /\ Outcomes \subseteq {"ok", "retryable", "fatal"}
  /\ Faults \subseteq FaultKinds
  /\ CrashPoints \subseteq AllCrashPoints
  /\ MaxMishaps \in Nat

AffinityCapacity == 1

VARIABLES
  (* Postgres *)
  runRow,        \* workflow_runs.status
  cancelStamp,   \* cancel_requested_at is set
  nodeRow,       \* node_runs.status by node
  attempts,      \* task_attempts of a node, the k-th being attempt number k
  ledger,        \* idempotency_records: the <<node, attempt>> claimed
  (* Redis and the workers *)
  taskQueue,     \* task envelopes no worker has read
  held,          \* attempts a worker is executing
  resultStream,  \* result envelopes the group has not read
  pel,           \* results read by the scheduler's consumer and not acked
  (* the loop's memory *)
  pc,            \* where the loop is
  nodeState,     \* state_
  current,       \* current_attempt_
  dedupe,        \* dedupe_
  retryDue,      \* keys of retry_due_
  usage,         \* resource_usage_ of the run's affinity key
  quotaHeld,     \* quota_held_
  cancelReq,     \* cancel_requested_
  stopReq,       \* stop_requested_
  todo,          \* the rest of ready_nodes() in dispatch_ready
  expired,       \* the rest of the leases scan_expired_attempt_leases returned
  batch,         \* the rest of the result batch
  batchLen,      \* how many results the batch had
  (* the cancel RPC and the budget *)
  stampPending,  \* cancel() has set the flag and not yet stamped the row
  mishaps

db     == <<runRow, cancelStamp, nodeRow, attempts, ledger>>
net    == <<taskQueue, held, resultStream, pel>>
slots  == <<usage, quotaHeld>>
signal == <<cancelReq, stopReq, stampPending>>
walk   == <<todo, expired, batch, batchLen>>
vars   == <<db, net, pc, nodeState, current, dedupe, retryDue, slots, signal, walk, mishaps>>

Loop == {"start", "drain", "top", "dispatching", "reaping", "poll", "apply"}

AttemptIds == Nodes \X (Nat \ {0})

Attempt == [status: {"running", "succeeded", "failed", "lease_expired"},
            lease: {"none", "live", "lapsed"}, claimed: BOOLEAN]

Result == [node: Nodes, attempt: Nat \ {0}, outcome: {"ok", "retryable", "fatal"}]

-----------------------------------------------------------------------------
(* Postgres. A node row that is terminal or missing is never updated.      *)

RowOpen(n) == nodeRow[n] \notin RowTerminal \cup {"absent"}

SetRow(rows, n, status) ==
  IF rows[n] \in RowTerminal \cup {"absent"} THEN rows ELSE [rows EXCEPT ![n] = status]

CancelRows(rows, S) ==
  [m \in Nodes |-> IF m \in S /\ rows[m] \notin RowTerminal \cup {"absent"}
                   THEN "canceled" ELSE rows[m]]

(* persist_canceled: the rows of the nodes that st cancels.                *)
PersistCanceled(rows, st) ==
  CancelRows(rows, {m \in Nodes : st[m] = "CANCELED" /\ nodeState[m] # "CANCELED"})

(* record_attempt, then init_attempt_lease unless lease is "none".         *)
RecordAttempt(n, lease) ==
  IF nodeRow[n] = "absent" THEN attempts
  ELSE [attempts EXCEPT ![n] =
          Append(@, [status |-> "running", lease |-> lease, claimed |-> FALSE])]

FinishAttempt(r, status) ==
  [attempts EXCEPT ![r.node][r.attempt].status = status]

InFlightRows == {n \in Nodes : nodeRow[n] \in {"dispatched", "running"}}

-----------------------------------------------------------------------------
(* Affinity and quota slots.                                               *)

Dec(k) == IF k > 0 THEN k - 1 ELSE k

TakeSlots(n) ==
  /\ usage' = IF n \in BrowserNodes THEN usage + 1 ELSE usage
  /\ quotaHeld' = quotaHeld \cup {n}

ReleaseSlots(n) ==
  /\ usage' = IF n \in BrowserNodes THEN Dec(usage) ELSE usage
  /\ quotaHeld' = quotaHeld \ {n}

-----------------------------------------------------------------------------
(* The web application has inserted the run row as queued and SubmitRun    *)
(* has started the loop's thread.                                          *)

ForgetMemory ==
  /\ nodeState' = [n \in Nodes |-> "BLOCKED"]
  /\ current' = [n \in Nodes |-> 0]
  /\ dedupe' = {} /\ retryDue' = {}
  /\ usage' = 0 /\ quotaHeld' = {}
  /\ cancelReq' = FALSE /\ stopReq' = FALSE /\ stampPending' = FALSE
  /\ todo' = {} /\ expired' = {} /\ batch' = <<>> /\ batchLen' = 0

Init ==
  /\ runRow = "queued" /\ cancelStamp = FALSE
  /\ nodeRow = [n \in Nodes |-> "absent"]
  /\ attempts = [n \in Nodes |-> <<>>]
  /\ ledger = {}
  /\ taskQueue = {} /\ held = {} /\ resultStream = <<>> /\ pel = <<>>
  /\ pc = "start"
  /\ nodeState = [n \in Nodes |-> "BLOCKED"]
  /\ current = [n \in Nodes |-> 0]
  /\ dedupe = {} /\ retryDue = {}
  /\ usage = 0 /\ quotaHeld = {}
  /\ cancelReq = FALSE /\ stopReq = FALSE /\ stampPending = FALSE
  /\ todo = {} /\ expired = {} /\ batch = <<>> /\ batchLen = 0
  /\ mishaps = 0

-----------------------------------------------------------------------------
(* run(): start, and one turn of its loop.                                 *)

(* create_run promotes a queued row and leaves any other; create_node_run  *)
(* inserts the missing rows. If cancel() has set its flag, the re-stamp    *)
(* waits for it on cancel_mu_, so the row is stamped when this returns.    *)
StartFresh ==
  /\ pc = "start"
  /\ runRow' = IF runRow = "queued" THEN "running" ELSE runRow
  /\ nodeRow' = [n \in Nodes |-> IF nodeRow[n] = "absent" THEN "blocked" ELSE nodeRow[n]]
  /\ cancelStamp' = (cancelStamp \/ cancelReq)
  /\ stampPending' = FALSE
  /\ nodeState' = Unblock(nodeState)
  /\ pc' = "top"
  /\ UNCHANGED <<attempts, ledger, net, current, dedupe, retryDue, slots,
                 cancelReq, stopReq, walk, mishaps>>

CancelRunInMemory ==   \* slip: the canceled node rows are not persisted
  /\ pc = "top" /\ (cancelReq \/ stopReq)
  /\ nodeState' = CancelOpen(nodeState)
  /\ quotaHeld' = {}
  /\ runRow' = "canceled"
  /\ pc' = "done"
  /\ UNCHANGED <<cancelStamp, nodeRow, attempts, ledger, net, current, dedupe,
                 retryDue, usage, signal, walk, mishaps>>

(* The top of the loop under cancel_requested_, and its exit under         *)
(* stop_requested_: every open node is canceled and so is the run.         *)
CancelRun ==
  /\ pc = "top" /\ (cancelReq \/ stopReq)
  /\ nodeState' = CancelOpen(nodeState)
  /\ nodeRow' = PersistCanceled(nodeRow, nodeState')
  /\ quotaHeld' = {}
  /\ runRow' = "canceled"
  /\ pc' = "done"
  /\ UNCHANGED <<cancelStamp, attempts, ledger, net, current, dedupe, retryDue,
                 usage, signal, walk, mishaps>>

(* The two checks of the flag, the loop's and dispatch_ready's, are one.   *)
BeginDispatch ==
  /\ pc = "top" /\ ~cancelReq /\ ~stopReq
  /\ todo' = {n \in Nodes : nodeState[n] = "READY"}
  /\ pc' = "dispatching"
  /\ UNCHANGED <<db, net, nodeState, current, dedupe, retryDue, slots, signal,
                 expired, batch, batchLen, mishaps>>

HasSlot(n) == n \in BrowserNodes => usage < AffinityCapacity

CanDispatch(n) ==
  pc = "dispatching" /\ n \in todo /\ nodeState[n] = "READY" /\ HasSlot(n)

Dispatch(n) ==
  /\ CanDispatch(n)
  /\ TakeSlots(n)
  /\ current' = [current EXCEPT ![n] = @ + 1]
  /\ nodeState' = [nodeState EXCEPT ![n] = "RUNNING"]
  /\ nodeRow' = SetRow(nodeRow, n, "running")
  /\ attempts' = RecordAttempt(n, "live")
  /\ taskQueue' = taskQueue \cup {<<n, current'[n]>>}
  /\ todo' = todo \ {n}
  /\ UNCHANGED <<runRow, cancelStamp, ledger, held, resultStream, pel, pc, dedupe,
                 retryDue, signal, expired, batch, batchLen, mishaps>>

(* The transport refuses the envelope: the node fails without a retry.     *)
DispatchFails(n) ==
  /\ "publish_fails" \in Faults
  /\ CanDispatch(n)
  /\ current' = [current EXCEPT ![n] = @ + 1]
  /\ nodeState' = Fail(nodeState, n, "FAILED")
  /\ nodeRow' = PersistCanceled(SetRow(nodeRow, n, "failed"), nodeState')
  /\ attempts' = RecordAttempt(n, "live")
  /\ todo' = todo \ {n}
  /\ UNCHANGED <<runRow, cancelStamp, ledger, net, pc, dedupe, retryDue, slots,
                 signal, expired, batch, batchLen, mishaps>>

(* Not dispatched in this turn: no longer READY, no affinity slot, or the  *)
(* cross-run quota gate is full.                                           *)
Defer(n) ==
  /\ pc = "dispatching" /\ n \in todo
  /\ nodeState[n] # "READY" \/ ~HasSlot(n) \/ "quota_full" \in Faults
  /\ todo' = todo \ {n}
  /\ UNCHANGED <<db, net, pc, nodeState, current, dedupe, retryDue, slots, signal,
                 expired, batch, batchLen, mishaps>>

(* The attempts of n a scan reports: running, with a lease in the past.    *)
Lapsed(n) ==
  {k \in DOMAIN attempts[n] : /\ attempts[n][k].status = "running"
                              /\ attempts[n][k].lease = "lapsed"}

(* dispatch_ready returns and scan_expired_leases reads the store.         *)
ScanLeases ==
  /\ pc = "dispatching" /\ todo = {}
  /\ expired' = UNION {{[node |-> n, attempt |-> k, claimed |-> attempts[n][k].claimed] :
                          k \in Lapsed(n)} : n \in Nodes}
  /\ pc' = "reaping"
  /\ UNCHANGED <<db, net, nodeState, current, dedupe, retryDue, slots, signal,
                 todo, batch, batchLen, mishaps>>

ReapableIfClaimed(l) ==   \* slip: worker_id = '' does not match NULL
  LET row == attempts[l.node][l.attempt]
  IN  row.status = "running" /\ row.claimed /\ l.claimed

(* mark_attempt_lease_expired's WHERE clause: still running and held by    *)
(* the worker of the scanned row. It does not look at the lease again.     *)
Reapable(l) ==
  LET row == attempts[l.node][l.attempt]
  IN  row.status = "running" /\ row.claimed = l.claimed

ReapKeepingRow(l) ==   \* slip: set_node_status(ready) is not called
  /\ pc = "reaping" /\ l \in expired
  /\ Reapable(l)
  /\ attempts' = FinishAttempt(l, "lease_expired")
  /\ IF nodeState[l.node] \in InFlight
     THEN /\ nodeState' = [nodeState EXCEPT ![l.node] = "READY"]
          /\ ReleaseSlots(l.node)
     ELSE UNCHANGED <<nodeState, slots>>
  /\ expired' = expired \ {l}
  /\ UNCHANGED <<runRow, cancelStamp, nodeRow, ledger, net, pc, current, dedupe,
                 retryDue, signal, todo, batch, batchLen, mishaps>>

ReapKeepingSlots(l) ==   \* slip: the slots of the lost attempt leak
  /\ pc = "reaping" /\ l \in expired
  /\ Reapable(l)
  /\ attempts' = FinishAttempt(l, "lease_expired")
  /\ IF nodeState[l.node] \in InFlight
     THEN /\ nodeState' = [nodeState EXCEPT ![l.node] = "READY"]
          /\ nodeRow' = SetRow(nodeRow, l.node, "ready")
     ELSE UNCHANGED <<nodeState, nodeRow>>
  /\ expired' = expired \ {l}
  /\ UNCHANGED <<runRow, cancelStamp, ledger, net, pc, current, dedupe,
                 retryDue, slots, signal, todo, batch, batchLen, mishaps>>

ReapWithoutMark(l) ==   \* slip: the attempt stays running
  /\ pc = "reaping" /\ l \in expired
  /\ Reapable(l)
  /\ IF nodeState[l.node] \in InFlight
     THEN /\ nodeState' = [nodeState EXCEPT ![l.node] = "READY"]
          /\ nodeRow' = SetRow(nodeRow, l.node, "ready")
          /\ ReleaseSlots(l.node)
     ELSE UNCHANGED <<nodeState, nodeRow, slots>>
  /\ expired' = expired \ {l}
  /\ UNCHANGED <<runRow, cancelStamp, attempts, ledger, net, pc, current, dedupe,
                 retryDue, signal, todo, batch, batchLen, mishaps>>

Reap(l) ==
  /\ pc = "reaping" /\ l \in expired
  /\ Reapable(l)
  /\ attempts' = FinishAttempt(l, "lease_expired")
  /\ IF nodeState[l.node] \in InFlight
     THEN /\ nodeState' = [nodeState EXCEPT ![l.node] = "READY"]
          /\ nodeRow' = SetRow(nodeRow, l.node, "ready")
          /\ ReleaseSlots(l.node)
     ELSE UNCHANGED <<nodeState, nodeRow, slots>>
  /\ expired' = expired \ {l}
  /\ UNCHANGED <<runRow, cancelStamp, ledger, net, pc, current, dedupe, retryDue,
                 signal, todo, batch, batchLen, mishaps>>

SkipLease(l) ==
  /\ pc = "reaping" /\ l \in expired
  /\ ~Reapable(l)
  /\ expired' = expired \ {l}
  /\ UNCHANGED <<db, net, pc, nodeState, current, dedupe, retryDue, slots, signal,
                 todo, batch, batchLen, mishaps>>

EndScan ==
  /\ pc = "reaping" /\ expired = {}
  /\ pc' = "poll"
  /\ UNCHANGED <<db, net, nodeState, current, dedupe, retryDue, slots, signal,
                 walk, mishaps>>

(* process_retry_waits, for a node whose backoff has elapsed.              *)
RetryReady(n) ==
  /\ pc = "poll" /\ ~cancelReq
  /\ n \in retryDue
  /\ retryDue' = retryDue \ {n}
  /\ IF nodeState[n] = "RETRY_WAIT"
     THEN /\ nodeState' = [nodeState EXCEPT ![n] = "READY"]
          /\ nodeRow' = SetRow(nodeRow, n, "ready")
     ELSE UNCHANGED <<nodeState, nodeRow>>
  /\ UNCHANGED <<runRow, cancelStamp, attempts, ledger, net, pc, current, dedupe,
                 slots, signal, walk, mishaps>>

RunRowOf(outcome) ==
  CASE outcome = "SUCCEEDED" -> "succeeded"
    [] outcome = "CANCELED"  -> "canceled"
    [] OTHER                 -> "failed"

Finish ==
  /\ pc = "poll"
  /\ AllTerminal(nodeState)
  /\ runRow' = RunRowOf(Outcome(nodeState))
  /\ pc' = "done"
  /\ UNCHANGED <<cancelStamp, nodeRow, attempts, ledger, net, nodeState, current,
                 dedupe, retryDue, slots, signal, walk, mishaps>>

(* read_batch returns empty-handed when nothing came or stop() was called. *)
ReadNothing ==
  /\ pc = "poll" /\ ~AllTerminal(nodeState)
  /\ resultStream = <<>> \/ stopReq
  /\ pc' = "top"
  /\ UNCHANGED <<db, net, nodeState, current, dedupe, retryDue, slots, signal,
                 walk, mishaps>>

ReadBatch ==
  /\ pc = "poll" /\ ~AllTerminal(nodeState)
  /\ resultStream # <<>>
  /\ LET k == IF Len(resultStream) < BatchSize THEN Len(resultStream) ELSE BatchSize
     IN  /\ batch' = SubSeq(resultStream, 1, k)
         /\ batchLen' = k
         /\ resultStream' = SubSeq(resultStream, k + 1, Len(resultStream))
         /\ pel' = pel \o batch'
  /\ pc' = "apply"
  /\ UNCHANGED <<db, taskQueue, held, nodeState, current, dedupe, retryDue, slots,
                 signal, todo, expired, mishaps>>

(* ack_many of the whole batch. "ack_lost": the command does not reach the *)
(* group's pending list.                                                   *)
AckBatch ==
  /\ pc = "apply" /\ batch = <<>>
  /\ \/ pel' = SubSeq(pel, 1, Len(pel) - batchLen)
     \/ "ack_lost" \in Faults /\ pel' = pel
  /\ batchLen' = 0
  /\ pc' = "top"
  /\ UNCHANGED <<db, taskQueue, held, resultStream, nodeState, current, dedupe,
                 retryDue, slots, signal, todo, expired, batch, mishaps>>

-----------------------------------------------------------------------------
(* apply_result, for the next result of the batch or, in a resuming loop,  *)
(* of the pending list, where each result is acked as it is consumed.      *)

IsNext(r) ==
  \/ pc = "apply" /\ batch # <<>> /\ r = Head(batch)
  \/ pc = "drain" /\ ~stopReq /\ pel # <<>> /\ r = Head(pel)

Consume ==
  IF pc = "apply" THEN batch' = Tail(batch) /\ UNCHANGED pel
                  ELSE pel' = Tail(pel) /\ UNCHANGED batch

Key(r) == <<r.node, r.attempt>>

Late(r) == r.attempt < current[r.node]

ApplicableInAnyState(r) ==   \* slip: the node need not be RUNNING
  /\ Key(r) \notin dedupe
  /\ ~Late(r)
  /\ Key(r) \notin ledger

Applicable(r) ==
  /\ nodeState[r.node] = "RUNNING"
  /\ Key(r) \notin dedupe
  /\ ~Late(r)
  /\ Key(r) \notin ledger

(* The dedupe key is spent once the node is RUNNING, late result or not.   *)
Discard(r) ==
  /\ IsNext(r) /\ ~Applicable(r)
  /\ Consume
  /\ dedupe' = IF nodeState[r.node] = "RUNNING" THEN dedupe \cup {Key(r)} ELSE dedupe
  /\ UNCHANGED <<db, taskQueue, held, resultStream, pc, nodeState, current, retryDue,
                 slots, signal, todo, expired, batchLen, mishaps>>

(* What the four ways to apply a result have in common.                    *)
Claim(r) ==
  /\ IsNext(r) /\ Applicable(r)
  /\ Consume
  /\ dedupe' = dedupe \cup {Key(r)}
  /\ ledger' = ledger \cup {Key(r)}
  /\ ReleaseSlots(r.node)
  /\ UNCHANGED <<runRow, cancelStamp, taskQueue, held, resultStream, pc, current,
                 signal, todo, expired, batchLen, mishaps>>

ApplySuccess(r) ==
  /\ r.outcome = "ok"
  /\ Claim(r)
  /\ nodeRow' = SetRow(nodeRow, r.node, "succeeded")
  /\ attempts' = FinishAttempt(r, "succeeded")
  /\ nodeState' = Succeed(nodeState, r.node)
  /\ UNCHANGED retryDue

ExhaustedTooLate(r) == r.attempt > RetryMax[r.node]   \* slip: off by one

Exhausted(r) == r.attempt >= RetryMax[r.node]

ApplyRetry(r) ==
  /\ r.outcome = "retryable" /\ ~Exhausted(r)
  /\ Claim(r)
  /\ nodeRow' = SetRow(nodeRow, r.node, "retry_wait")
  /\ attempts' = FinishAttempt(r, "failed")
  /\ nodeState' = [nodeState EXCEPT ![r.node] = "RETRY_WAIT"]
  /\ retryDue' = retryDue \cup {r.node}

ApplyDeadLetter(r) ==
  /\ r.outcome = "retryable" /\ Exhausted(r)
  /\ Claim(r)
  /\ nodeState' = Fail(nodeState, r.node, "DEAD_LETTERED")
  /\ nodeRow' = PersistCanceled(SetRow(nodeRow, r.node, "dead_lettered"), nodeState')
  /\ attempts' = FinishAttempt(r, "failed")
  /\ UNCHANGED retryDue

ApplyFailure(r) ==
  /\ r.outcome = "fatal"
  /\ Claim(r)
  /\ nodeState' = Fail(nodeState, r.node, "FAILED")
  /\ nodeRow' = PersistCanceled(SetRow(nodeRow, r.node, "failed"), nodeState')
  /\ attempts' = FinishAttempt(r, "failed")
  /\ UNCHANGED retryDue

-----------------------------------------------------------------------------
(* The scheduler process dies, and is started again.                       *)

CanMishap == mishaps < MaxMishaps

Die ==
  /\ CanMishap
  /\ mishaps' = mishaps + 1
  /\ pc' = "down"
  /\ ForgetMemory
  /\ UNCHANGED net

(* Between two steps, or when the run has ended.                           *)
Crash ==
  /\ pc \in Loop \cup {"done"}
  /\ Die
  /\ UNCHANGED db

(* In run(), with the run row written and none or only some node rows.     *)
CrashCreating ==
  /\ pc = "start"
  /\ Die
  /\ runRow' = "running"
  /\ \E rows \in [Nodes -> {"absent", "blocked"}] :
       /\ \E n \in Nodes : rows[n] = "absent"
       /\ IF \A n \in Nodes : rows[n] = "absent" THEN "create.run" \in CrashPoints
                                                 ELSE "create.partial" \in CrashPoints
       /\ \A n \in Nodes : nodeRow[n] = "absent" \/ rows[n] = "blocked"
       /\ nodeRow' = [n \in Nodes |-> IF nodeRow[n] = "absent" THEN rows[n] ELSE nodeRow[n]]
  /\ UNCHANGED <<cancelStamp, attempts, ledger>>

(* In dispatch_ready: after the status became dispatched, after            *)
(* record_attempt, after it became running, after init_attempt_lease.      *)
CrashDispatching(n) ==
  /\ CanDispatch(n)
  /\ Die
  /\ \E point \in CrashPoints \cap DispatchPoints :
       /\ nodeRow' = SetRow(nodeRow, n,
                            IF point \in {"dispatch.dispatched", "dispatch.recorded"}
                            THEN "dispatched" ELSE "running")
       /\ attempts' = IF point = "dispatch.dispatched" THEN attempts
                      ELSE RecordAttempt(n, IF point = "dispatch.leased"
                                            THEN "live" ELSE "none")
  /\ UNCHANGED <<runRow, cancelStamp, ledger>>

(* In scan_expired_leases: the attempt is marked, the node is not yet      *)
(* ready again.                                                            *)
CrashReaping(l) ==
  /\ "reap.marked" \in CrashPoints
  /\ pc = "reaping" /\ l \in expired
  /\ Reapable(l)
  /\ Die
  /\ attempts' = FinishAttempt(l, "lease_expired")
  /\ UNCHANGED <<runRow, cancelStamp, nodeRow, ledger>>

FailureRow(r) == IF r.outcome = "fatal" THEN "failed" ELSE "dead_lettered"

(* In apply_result: after the ledger claim; with the success on the node   *)
(* row and not on the attempt; with the failure on the attempt and not on  *)
(* the node row; or with the node failed and some of its downstream not    *)
(* canceled.                                                               *)
CrashApplying(r) ==
  /\ IsNext(r) /\ Applicable(r)
  /\ Die
  /\ ledger' = ledger \cup {Key(r)}
  /\ \/ /\ "apply.claimed" \in CrashPoints
        /\ UNCHANGED <<nodeRow, attempts>>
     \/ /\ "apply.completed" \in CrashPoints /\ r.outcome = "ok"
        /\ nodeRow' = SetRow(nodeRow, r.node, "succeeded")
        /\ UNCHANGED attempts
     \/ /\ "fail.attempt_finished" \in CrashPoints /\ r.outcome # "ok"
        /\ attempts' = FinishAttempt(r, "failed")
        /\ UNCHANGED nodeRow
     \/ /\ "fail.completed" \in CrashPoints
        /\ r.outcome = "fatal" \/ (r.outcome = "retryable" /\ Exhausted(r))
        /\ attempts' = FinishAttempt(r, "failed")
        /\ \E kept \in SUBSET Nodes :
             LET rows == SetRow(nodeRow, r.node, FailureRow(r))
             IN  nodeRow' = CancelRows(rows, Downstream(nodeState, r.node) \ kept)
  /\ UNCHANGED <<runRow, cancelStamp>>

(* In the cancel path: some node rows are canceled, the run row is not.    *)
CrashCanceling ==
  /\ pc = "top" /\ (cancelReq \/ stopReq)
  /\ IF cancelStamp THEN "cancel.partial" \in CrashPoints
                    ELSE "stop.partial" \in CrashPoints
  /\ Die
  /\ \E S \in SUBSET Open(nodeState) \ {{}} :
       nodeRow' = CancelRows(nodeRow, S)
  /\ UNCHANGED <<runRow, cancelStamp, attempts, ledger>>

(* What reconstruct_from_store makes of the attempt rows, and of the       *)
(* retry_wait rows, which keep the due time they were parked with.         *)
NumberedAfresh == [n \in Nodes |-> 0]   \* slip: current_attempt_ is not restored

AttemptNumbers == [n \in Nodes |-> Len(attempts[n])]

NoneParked == {}   \* slip: retry_due_ is not rebuilt

Parked == {n \in Nodes : nodeRow[n] = "retry_wait"}

ResumeForgettingCancel ==   \* slip: the durable stamp is not read
  /\ pc = "down" /\ runRow = "running"
  /\ IF \A n \in Nodes : nodeRow[n] = "absent"
     THEN pc' = "start" /\ UNCHANGED <<nodeState, current, retryDue, slots, cancelReq>>
     ELSE /\ pc' = "drain"
          /\ nodeState' = Restore(nodeRow)
          /\ current' = AttemptNumbers
          /\ retryDue' = Parked
          /\ usage' = Cardinality(InFlightRows \cap BrowserNodes)
          /\ quotaHeld' = InFlightRows
          /\ UNCHANGED cancelReq
  /\ UNCHANGED <<db, net, dedupe, stopReq, stampPending, walk, mishaps>>

ResumeFinished ==   \* slip: terminal runs are listed as active
  /\ pc = "down" /\ runRow # "queued"
  /\ IF \A n \in Nodes : nodeRow[n] = "absent"
     THEN pc' = "start" /\ UNCHANGED <<nodeState, current, retryDue, slots, cancelReq>>
     ELSE /\ pc' = "drain"
          /\ nodeState' = Restore(nodeRow)
          /\ current' = AttemptNumbers
          /\ retryDue' = Parked
          /\ usage' = Cardinality(InFlightRows \cap BrowserNodes)
          /\ quotaHeld' = InFlightRows
          /\ cancelReq' = cancelStamp
  /\ UNCHANGED <<db, net, dedupe, stopReq, stampPending, walk, mishaps>>

(* reconcile_active_runs starts a loop for a run that is running (a queued *)
(* row has no dag_json yet and is skipped). Without node rows              *)
(* reconstruct_from_store returns false before it looks at the stamp, and  *)
(* run() falls back to a fresh start.                                      *)
Resume ==
  /\ pc = "down" /\ runRow = "running"
  /\ IF \A n \in Nodes : nodeRow[n] = "absent"
     THEN pc' = "start" /\ UNCHANGED <<nodeState, current, retryDue, slots, cancelReq>>
     ELSE /\ pc' = "drain"
          /\ nodeState' = Restore(nodeRow)
          /\ current' = AttemptNumbers
          /\ retryDue' = Parked
          /\ usage' = Cardinality(InFlightRows \cap BrowserNodes)
          /\ quotaHeld' = InFlightRows
          /\ cancelReq' = cancelStamp
  /\ UNCHANGED <<db, net, dedupe, stopReq, stampPending, walk, mishaps>>

EndDrain ==
  /\ pc = "drain" /\ (pel = <<>> \/ stopReq)
  /\ pc' = "top"
  /\ UNCHANGED <<db, net, nodeState, current, dedupe, retryDue, slots, signal, walk,
                 mishaps>>

-----------------------------------------------------------------------------
(* The cancel RPC and the shutdown.                                        *)

(* cancel() sets the flag ...                                              *)
CancelFlag ==
  /\ "cancel" \in Faults
  /\ pc \in Loop /\ ~cancelReq
  /\ cancelReq' = TRUE
  /\ stampPending' = TRUE
  /\ UNCHANGED <<db, net, pc, nodeState, current, dedupe, retryDue, slots, stopReq,
                 walk, mishaps>>

(* ... and then stamps the run row, which keeps its first stamp.           *)
CancelStamp ==
  /\ stampPending
  /\ stampPending' = FALSE
  /\ cancelStamp' = TRUE
  /\ UNCHANGED <<runRow, nodeRow, attempts, ledger, net, pc, nodeState, current, dedupe,
                 retryDue, slots, cancelReq, stopReq, walk, mishaps>>

Stop ==
  /\ "stop" \in Faults
  /\ pc \in Loop /\ ~stopReq
  /\ stopReq' = TRUE
  /\ UNCHANGED <<db, net, pc, nodeState, current, dedupe, retryDue, slots, cancelReq,
                 stampPending, walk, mishaps>>

-----------------------------------------------------------------------------
(* The workers. A task is delivered to one worker and never again: workers *)
(* read new entries only, so what a dead one had read is recovered by the  *)
(* lease.                                                                  *)

Running(t) ==
  t[2] <= Len(attempts[t[1]]) /\ attempts[t[1]][t[2]].status = "running"

(* acquireAttemptLease: nobody else holds the attempt, so it succeeds      *)
(* exactly when the attempt is still running; otherwise the task is acked  *)
(* and dropped.                                                            *)
WorkerClaim(t) ==
  /\ t \in taskQueue
  /\ taskQueue' = taskQueue \ {t}
  /\ IF Running(t)
     THEN /\ held' = held \cup {t}
          /\ attempts' = [attempts EXCEPT ![t[1]][t[2]].claimed = TRUE,
                                          ![t[1]][t[2]].lease = "live"]
     ELSE UNCHANGED <<held, attempts>>
  /\ UNCHANGED <<runRow, cancelStamp, nodeRow, ledger, resultStream, pel, pc, nodeState,
                 current, dedupe, retryDue, slots, signal, walk, mishaps>>

Answer(t, outcome) == [node |-> t[1], attempt |-> t[2], outcome |-> outcome]

(* A worker that heard CANCEL_RUN answers a queued task without executing  *)
(* it or taking its lease.                                                 *)
WorkerShortCircuits(t) ==
  /\ t \in taskQueue
  /\ cancelStamp
  /\ taskQueue' = taskQueue \ {t}
  /\ resultStream' = Append(resultStream, Answer(t, "fatal"))
  /\ UNCHANGED <<db, held, pel, pc, nodeState, current, dedupe, retryDue, slots, signal,
                 walk, mishaps>>

(* The result is published once, or twice when the first publish went      *)
(* through and its reply was lost. CANCEL_RUN aborts the executor.         *)
WorkerFinish(t) ==
  /\ t \in held
  /\ held' = held \ {t}
  /\ \E outcome \in Outcomes \cup (IF cancelStamp THEN {"fatal"} ELSE {}) :
       \/ /\ resultStream' = Append(resultStream, Answer(t, outcome))
          /\ UNCHANGED mishaps
       \/ /\ CanMishap
          /\ resultStream' = resultStream \o <<Answer(t, outcome), Answer(t, outcome)>>
          /\ mishaps' = mishaps + 1
  /\ UNCHANGED <<db, taskQueue, pel, pc, nodeState, current, dedupe, retryDue, slots,
                 signal, walk>>

WorkerDies(t) ==
  /\ t \in held
  /\ CanMishap
  /\ held' = held \ {t}
  /\ mishaps' = mishaps + 1
  /\ UNCHANGED <<db, taskQueue, resultStream, pel, pc, nodeState, current, dedupe,
                 retryDue, slots, signal, walk>>

(* Nobody will answer this attempt any more.                               *)
Lost(t) ==
  /\ t \notin taskQueue \cup held
  /\ \A i \in DOMAIN resultStream : Key(resultStream[i]) # t
  /\ \A i \in DOMAIN pel : Key(pel[i]) # t \/ t \in ledger

(* A lease lapses in time when nobody renews it; while a worker still      *)
(* holds the task, or its result is on the way, only by a mishap.          *)
LeaseLapses(t) ==
  /\ Running(t) /\ attempts[t[1]][t[2]].lease = "live"
  /\ attempts' = [attempts EXCEPT ![t[1]][t[2]].lease = "lapsed"]
  /\ IF Lost(t) THEN UNCHANGED mishaps ELSE CanMishap /\ mishaps' = mishaps + 1
  /\ UNCHANGED <<runRow, cancelStamp, nodeRow, ledger, net, pc, nodeState, current,
                 dedupe, retryDue, slots, signal, walk>>

(* The renewal of a slow worker arrives after the lease lapsed.            *)
Renew(t) ==
  /\ t \in held
  /\ Running(t) /\ attempts[t[1]][t[2]].lease = "lapsed"
  /\ attempts' = [attempts EXCEPT ![t[1]][t[2]].lease = "live"]
  /\ UNCHANGED <<runRow, cancelStamp, nodeRow, ledger, net, pc, nodeState, current,
                 dedupe, retryDue, slots, signal, walk, mishaps>>

-----------------------------------------------------------------------------
NextResults == {r \in {Head(q) : q \in {batch, pel} \ {<<>>}} : IsNext(r)}

LoopStep ==
  \/ StartFresh \/ CancelRun \/ BeginDispatch \/ ScanLeases \/ EndScan
  \/ Finish \/ ReadNothing \/ ReadBatch \/ AckBatch \/ EndDrain
  \/ \E n \in Nodes : Dispatch(n) \/ DispatchFails(n) \/ Defer(n) \/ RetryReady(n)
  \/ \E l \in expired : Reap(l) \/ SkipLease(l)
  \/ \E r \in NextResults :
       Discard(r) \/ ApplySuccess(r) \/ ApplyRetry(r) \/ ApplyDeadLetter(r) \/ ApplyFailure(r)

SchedulerDies ==
  \/ Crash \/ CrashCreating \/ CrashCanceling
  \/ \E n \in Nodes : CrashDispatching(n)
  \/ \E l \in expired : CrashReaping(l)
  \/ \E r \in NextResults : CrashApplying(r)

Control == CancelFlag \/ CancelStamp \/ Stop

WorkerStep(t) ==
  WorkerClaim(t) \/ WorkerShortCircuits(t) \/ WorkerFinish(t) \/ WorkerDies(t) \/ Renew(t)

Next ==
  \/ LoopStep
  \/ SchedulerDies
  \/ Resume
  \/ Control
  \/ \E t \in taskQueue \cup held : WorkerStep(t)
  \/ \E n \in Nodes : \E k \in DOMAIN attempts[n] : LeaseLapses(<<n, k>>)

Spec == Init /\ [][Next]_vars

(***************************************************************************)
(* The loop's thread runs, and is started again after a death; workers     *)
(* claim what is queued and finish what they hold unless they die; the     *)
(* clock moves on, past leases and backoffs; a node the quota gate defers  *)
(* is admitted in the end. Finitely many tasks exist in a behaviour, so    *)
(* fairness of the quantified actions is fairness to each of them.         *)
(***************************************************************************)
Fairness ==
  /\ WF_vars(LoopStep)
  /\ WF_vars(Resume)
  /\ WF_vars(CancelStamp)
  /\ WF_vars(\E t \in taskQueue : WorkerClaim(t))
  /\ WF_vars(\E t \in held : WorkerFinish(t))
  /\ WF_vars(\E n \in Nodes : \E k \in DOMAIN attempts[n] :
               Lost(<<n, k>>) /\ LeaseLapses(<<n, k>>))
  /\ SF_vars(\E n \in Nodes : Dispatch(n))
  /\ SF_vars(\E n \in Nodes : RetryReady(n))

FairSpec == Spec /\ Fairness

-----------------------------------------------------------------------------
(* Properties.                                                             *)

(* The variables hold values of the types they stand for.                  *)
TypeOK ==
  /\ runRow \in {"queued", "running", "succeeded", "failed", "canceled"}
  /\ cancelStamp \in BOOLEAN
  /\ nodeRow \in [Nodes -> RowStatus]
  /\ attempts \in [Nodes -> Seq(Attempt)]
  /\ ledger \subseteq AttemptIds
  /\ taskQueue \subseteq AttemptIds /\ held \subseteq AttemptIds
  /\ resultStream \in Seq(Result) /\ pel \in Seq(Result)
  /\ pc \in Loop \cup {"done", "down"}
  /\ nodeState \in [Nodes -> NodeStates]
  /\ current \in [Nodes -> Nat]
  /\ dedupe \subseteq AttemptIds
  /\ retryDue \subseteq Nodes /\ quotaHeld \subseteq Nodes /\ todo \subseteq Nodes
  /\ usage \in Nat /\ batchLen \in Nat /\ mishaps \in Nat
  /\ cancelReq \in BOOLEAN /\ stopReq \in BOOLEAN /\ stampPending \in BOOLEAN
  /\ expired \subseteq [node: Nodes, attempt: Nat \ {0}, claimed: BOOLEAN]
  /\ batch \in Seq(Result)

Driving == pc \in Loop \ {"start"}

Unseen(t) ==
  /\ t \notin taskQueue \cup held \cup ledger \cup dedupe
  /\ \A s \in {resultStream, pel, batch} : \A i \in DOMAIN s : Key(s[i]) # t

(* A scheduler started at this moment would rebuild the very run the       *)
(* living one is driving: its node states, attempt numbers and backoffs    *)
(* are those reconstruct_from_store reads from the rows                    *)
(* (distributed_run_loop.cpp:504-556).                                     *)
MemoryMatchesRows ==
  Driving =>
    /\ nodeState = Restore(nodeRow)
    /\ \A n \in Nodes : current[n] = Len(attempts[n])
    /\ retryDue = {n \in Nodes : nodeRow[n] = "retry_wait"}

(* Affinity and quota slots are neither leaked nor freed twice: at every   *)
(* moment the loop holds those of its in-flight nodes and no others,       *)
(* whatever mix of results, duplicates, reaps, failed publishes and        *)
(* restarts led there; and one run never has two browser nodes in flight.  *)
SlotsMatchWork ==
  Driving =>
    /\ quotaHeld = InFlightRows
    /\ usage = Cardinality(InFlightRows \cap BrowserNodes)
    /\ usage <= AffinityCapacity

(* Work is recorded only for nodes whose predecessors' success is already  *)
(* durable, across restarts.                                               *)
DispatchAfterPredecessors ==
  \A n \in Nodes : attempts[n] # <<>> =>
    \A p \in Preds[n] : nodeRow[p] = "succeeded"

(* A node has at most one attempt that may still be executed or answered,  *)
(* and it is its last one.                                                 *)
OneRunningAttempt ==
  \A n \in Nodes : \A k \in DOMAIN attempts[n] :
    attempts[n][k].status = "running" => k = Len(attempts[n])

(* "The attempt either completes (its result arrives) or its lease expires *)
(* and the ordinary lease-reap path re-dispatches it"                      *)
(* (state_machine.cpp:117-121): behind every node that is RUNNING in the   *)
(* loop's memory there is a running attempt with a lease, so that the      *)
(* lease scan can find it.                                                 *)
InFlightIsReapable ==
  Driving =>
    \A n \in Nodes : nodeState[n] = "RUNNING" =>
      /\ attempts[n] # <<>>
      /\ attempts[n][Len(attempts[n])].status = "running"
      /\ attempts[n][Len(attempts[n])].lease # "none"

(* An unfinished run always has a node that some turn of the loop will     *)
(* move, after any deaths, reaps, retries and lost results: one that is    *)
(* ready, one that is parked with its backoff on the clock, or one in      *)
(* flight; and every one in flight will be answered or reaped. ("Scheduler *)
(* restart completes the run to a consistent terminal outcome",            *)
(* SYSTEM_DESIGN_NOTES.md, section 9.)                                     *)
LoopIsNeverStuck ==
  /\ InFlightIsReapable
  /\ (Driving /\ Open(nodeState) # {}) =>
       \E n \in Nodes : \/ nodeState[n] \in {"READY", "RUNNING"}
                        \/ nodeState[n] = "RETRY_WAIT" /\ n \in retryDue

(* The rows a dead scheduler leaves are ones reconstruct can resume from.  *)
ResumableRows ==
  (pc = "down" /\ runRow = "running") => RowsCoherent(nodeRow)

(* A run row says how its node rows ended: none is left open, and          *)
(* SUCCEEDED means every one succeeded, FAILED that one failed. (CANCELED  *)
(* says less: a request that arrives after the last result was applied     *)
(* cancels a run whose nodes have all succeeded. A node whose row a death  *)
(* in run() prevented has none to say how it ended.)                       *)
FinishedRunIsSettled ==
  runRow \in {"succeeded", "failed", "canceled"} =>
    /\ \A n \in Nodes : ~RowOpen(n)
    /\ runRow = "succeeded" => \A n \in Nodes : nodeRow[n] = "succeeded"
    /\ runRow = "failed" =>
         \E n \in Nodes : nodeRow[n] \in {"failed", "dead_lettered", "absent"}

(* No more attempts of a node fail than its retry policy allows, counting  *)
(* those of schedulers that died; attempts beyond that number are paid for *)
(* by leases that were reaped.                                             *)
RetryBudget ==
  \A n \in Nodes :
    /\ Cardinality({k \in DOMAIN attempts[n] : attempts[n][k].status = "failed"})
         <= RetryMax[n]
    /\ Len(attempts[n]) <= RetryMax[n] +
         Cardinality({k \in DOMAIN attempts[n] : attempts[n][k].status = "lease_expired"})

(* A cancellation whose stamp is durable is known to whichever scheduler   *)
(* drives the run ("durable: stamps cancel_requested_at on the run row",   *)
(* distributed_run_loop.hpp; "durable cancel request" is among what a      *)
(* restart reconstructs, SYSTEM_DESIGN_NOTES.md, section 9).               *)
StampedCancelIsHonored == cancelStamp /\ Driving => cancelReq

(* Once a node row or the run row is terminal nothing changes it: no late  *)
(* result, duplicate, reap or restart resurrects it.                       *)
SettledStays ==
  [][/\ \A n \in Nodes : nodeRow[n] \in RowTerminal => nodeRow'[n] = nodeRow[n]
     /\ runRow \in {"succeeded", "failed", "canceled"} => runRow' = runRow]_vars

(* An attempt number is spent once, across restarts: when an attempt is    *)
(* recorded and when its task is published, no worker, no stream and no    *)
(* ledger knows a task of that name yet, so that nothing an earlier        *)
(* attempt left behind can be taken for its answer.                        *)
FreshAttempts ==
  [][/\ \A n \in Nodes :
          Len(attempts'[n]) > Len(attempts[n]) => Unseen(<<n, Len(attempts'[n])>>)
     /\ \A t \in taskQueue' \ taskQueue : Unseen(t)]_vars

(* No attempt is forgotten, and one that has ended keeps the status it     *)
(* ended with: finish_attempt would overwrite it, so it is the loop that   *)
(* keeps the late result of a reaped attempt away from its row.            *)
AttemptsSettle ==
  [][\A n \in Nodes : \A k \in DOMAIN attempts[n] :
       /\ k \in DOMAIN attempts'[n]
       /\ attempts[n][k].status # "running" => attempts'[n][k].status = attempts[n][k].status]_vars

(* "the guard here makes 'no dispatch after cancel' unconditional"         *)
(* (distributed_run_loop.cpp:273-276).                                     *)
NoDispatchAfterCancel ==
  [][cancelReq => \A n \in Nodes : Len(attempts'[n]) = Len(attempts[n])]_vars

(* The loop uses the state machine of SchedulerState as it is meant to be  *)
(* used: seen through nodeState, each step is a call SchedulerState allows *)
(* or leaves the machine alone, a death starts a new object, and a resumed *)
(* loop calls reconstruct on coherent rows only.                           *)
Machine == INSTANCE SchedulerState WITH
  runState <- CASE pc \in {"start", "down"} -> "QUEUED"
                [] pc = "done" -> (CASE runRow = "succeeded" -> "SUCCEEDED"
                                     [] runRow = "failed"    -> "FAILED"
                                     [] OTHER                -> "CANCELED")
                [] OTHER -> "RUNNING",
  depCount <- [n \in Nodes |-> UnmetDeps(nodeState, n)],
  completed <- {n \in Nodes : nodeState[n] \in Decided}

ImplementsMachine == Machine!Spec

(* A run whose row says running reaches a terminal row.                    *)
RunSettles == (runRow = "running") ~> (runRow \in {"succeeded", "failed", "canceled"})

=============================================================================
