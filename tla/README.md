# EvoBrowser in TLA+

EvoBrowser runs browser-automation workflows: the members of an organization draw a
directed acyclic graph of nodes on a shared canvas, or have a planner draw it, and a
*run* executes it. There are two engines. The legacy one is a single Trigger.dev
task. The Evo engine is a C++ scheduler that drives each run over Redis Streams to
TypeScript workers, with Postgres as the durable record. The web application
starts and stops runs, keeps their records, and shows them live.

    the browser and the web application          WebControl
          |                 |                    EventFeed (what a viewer is shown)
          v                 v
      Evo engine        legacy engine            LegacyTask (with its live view and replay)
          |
    SchedulerState  logical state machine of a run   (abstract specification)
        ^  refined by                 ^  refined by
    DistributedRun                ConcurrentRun
    product runs: loop + rows +   synthetic runs: dispatcher + thread pool
    streams + workers + restarts  in the scheduler's own process
          |
    TaskWorker      one worker process from inside, over BrowserSessions

SchedulerState, DistributedRun and ConcurrentRun EXTEND RunGraph, the graph and its
pure functions; TaskWorker EXTENDS BrowserSessions.

## 1. Inventory

| component | state it keeps | operations | talks to |
|---|---|---|---|
| `SchedulerState` (engine/core/src/state_machine.cpp) | run state, node states, dependency counters, `completed_`, all under one mutex | start_run, reconstruct, dispatch/start/complete/fail/dead_letter/abandon/retry_wait/ready_from_retry, cancel_run, finalize_run | called by the two drivers |
| `DistributedRunLoop` (engine/core/src/distributed_run_loop.cpp) | attempt numbers, dedupe set, retry due times, affinity and quota slots, cancel and stop flags | run, apply_result, dispatch_ready, scan_expired_leases, process_retry_waits, reconstruct_from_store, cancel, stop | Postgres, Redis, quota gate |
| `PgRunStore` (engine/pg/src/pg_run_store.cpp) | workflow_runs, node_runs, task_attempts with leases, idempotency_records | guarded single-statement updates | loop, workers, web |
| `RedisTransport` (engine/redis/src/redis_transport.cpp) | streams, consumer groups, pending entries | publish, read, read_batch, read_pending, ack, ack_many | loop, workers |
| worker (worker/src/worker.ts, main.ts, node-executor-adapter.ts) | in-flight tasks, abort controllers, canceled runs | process, control loop, stop with its drain | Redis, Postgres, sessions |
| `BrowserSessionManager` (worker/src/browser-session-manager.ts) | sessions and openings by key | getForTask, closeAllForRun, closeAll | Browserbase |
| `ConcurrentScheduler`, `ThreadPool` (engine/core/src) | ready queue, blocked nodes, `in_flight_`, log, pending tasks | run, cancel, worker_task, on_node_complete | the state machine |
| control service (engine/app/grpc_service.cpp) | registry of active runs | SubmitRun, CancelRun, GetRun, reconcile_active_runs, shutdown | both drivers, quota gate |
| `QuotaGate` (engine/core/src/quota.cpp) | active runs and tasks by org and class, demand | admit, release, acquire_task, fair_recipient, reacquire | service, loops |
| run events (evo-run-events-route.ts, evo-run-events.ts, run-view-model.ts, evo-run-events-provider.tsx) | stream position, frames, last event id, folded view | replay, snapshot, tail, reduce, reconnect | Redis, Postgres, browser |
| web control plane (features/workflows/actions.ts and lib/) | workflow rows, immutable versions, run rows, in two stores | run, run again, cancel, delete, plan | gRPC, Trigger.dev, Postgres, Neon, Liveblocks |
| run console and popup (workflow-runs-provider.tsx, console-panel.tsx) | the merged list, the run being tracked | poll, realtime, open results | web control plane |
| legacy task (features/workflows/tasks/run-workflow.ts) | steps, session, cancellation signal | one attempt from load to `finally` | Browserbase, Neon, Trigger.dev |
| live view and replay (live-browser.tsx, session-replay.tsx, app/api) | handshake rows, debug URL, artifact | fetch URL, connected, screenshot, replay | Browserbase, both stores |

What is hard here, by kind (each one is a hazard in PROJECT.json, at its line):

* **Deaths between two writes.** The loop never groups its statements in a
  transaction. A scheduler that dies between the node row, the attempt row, the
  lease and the ledger leaves combinations nobody wrote a test for.
* **Redelivery.** Results are read before they are applied and acked after;
  workers may publish twice; a reaped worker still answers.
* **Two memories.** The loop's memory and the rows must say the same at every
  moment, since a successor rebuilds the first from the second.
* **Slots.** Browser affinity and quota are taken and given back on many paths.
* **Cancel.** The request comes from another thread at any time, is a flag and
  a durable stamp written one after the other, and races dispatch and finish.
* **Threads.** The in-process scheduler mixes two mutexes, atomics, a condition
  variable and a pool that drains.
* **The graph walk.** Failure cancels downstream by a walk that turns back at
  terminal nodes; counters are decremented in one place and rebuilt in another.
* **Awaits.** Between two awaits of one task in a worker, another task, a
  cancellation or the shutdown runs and finds the session map as it is then.
* **Replays.** A viewer is sent events twice, from the stream and from the tail,
  or a snapshot put together from two reads, over a connection that breaks.
* **Everything read twice.** The web application looks at the graph, the engine
  flag and the rows of a run at different moments, in two stores, while other
  members edit, run and delete; each call may fail before or after its effect.
* **Attempts.** A legacy run starts over up to three times; what the last
  attempt left behind (session, handshake, metadata) is still there.

What makes each component correct: the state machine never starts a node before all that
is upstream of it, never leaves one runnable behind a failure, never gets stuck,
and never revises a decision. The loop does the same durably and across
restarts, runs an attempt's result at most once, holds exactly the slots of its
in-flight nodes, keeps the retry budget, honours a durable cancel and ends. The
in-process scheduler keeps its browser session exclusive under all
interleavings, leaves only when all is decided, and returns. A worker has one
session per key, acks nothing it has not handed off, and finishes what it claims.
A viewer is shown what happened, never an end that is not true, and sees the end. A
run executes a graph that was validated and allowed, and Stop reaches the engine that
has it. A legacy attempt shows how it ended, as far as its metadata can be flushed, and closes
what it opened.

## 2. Modules

### RunGraph
`Nodes`, `Preds` and the functions of state_machine.cpp that read them: `Fail`,
`Succeed`, `CancelOpen`, `Outcome`, and what a row becomes on restart
(`RestoredState`, `Unblock`, `Restore`). The transitive walk is stated as the
least set closed under its steps (`Downstream`), without recursion, so that it can be proved
about. `Acyclic` is what `Dag::build` guarantees when Kahn's algorithm consumes
the graph: every non-empty set of nodes has one with no predecessor inside.
`RowsCoherent` says which rows a restart can resume from. `Upstream` is everything a
node can be reached from: the nodes whose outputs the editor offers it
(use-upstream-connections.ts).

### SchedulerState
One action per method. A method holds `mu_`, so it is one step; which method
is called when is left to the drivers, hence `Next` allows every call that is
not a no-op. `fail_node` and `dead_letter_node` look only at `completed_`, and so do
`FailNode` and `DeadLetterNode`. `LaunchNode` is dispatch and start called back to
back by the distributed loop. `Restart` is a new object in a new process.
`Resume` reconstructs from any coherent rows; that the rows of the real
loop are coherent is not assumed: `ImplementsMachine` of DistributedRun would fail where they
were not, and `ResumableRows` is a theorem.

### DistributedRun
One run: its rows, its share of the streams, the workers, the loop and its
restarts. `pc` is where the loop is: `start`, `drain` (pending results of a resumed
loop), `top`, `dispatching`, `reaping`, `poll`, `apply`, then `done` or `down`.

| model | code |
|---|---|
| `runRow`, `cancelStamp`, `nodeRow`, `attempts`, `ledger` | workflow_runs.status and cancel_requested_at, node_runs.status, task_attempts (k-th is attempt k), idempotency_records |
| `taskQueue`, `held`, `resultStream`, `pel` | task stream, tasks being executed, unread results, results read and not acked |
| `nodeState`, `current`, `dedupe`, `retryDue`, `usage`, `quotaHeld` | `state_`, `current_attempt_`, `dedupe_`, `retry_due_`, `resource_usage_`, `quota_held_` |
| `cancelReq`, `stopReq`, `stampPending` | the two flags, and a cancel() that has set its flag and not yet stamped |
| `todo`, `expired`, `batch`, `batchLen` | the ready snapshot, the scanned leases, the batch being applied |

A call the loop makes for one node, lease or result is one step. That is sound
because the loop alone writes its memory and no other party acts on the rows
between two writes of a call, except the scheduler that starts after a death
there, and those deaths are actions of their own: `CrashCreating`,
`CrashDispatching`, `CrashReaping`, `CrashApplying`, `CrashCanceling` each leave
the prefix of the writes that precede the point of death. `Crash` is a death between
steps. Workers take the lease with a guarded update (`WorkerClaim`), renew late
(`Renew`), answer once or twice (`WorkerFinish`), answer without executing
when they heard the cancel (`WorkerShortCircuits`), or die. A lease lapses for
free when nobody will answer the attempt any more, and as a counted mishap
otherwise: a slow worker, a paused process, a downtime.

Abstracted: outputs, reasons, timestamps (a lease is none, live or lapsed; a
backoff has elapsed when `RetryReady` happens), envelope encoding, the event stream. The
class of an error is its effect: `retryable` or `fatal`.

### ConcurrentRun
A step is what one thread does under one lock or to one atomic. The
dispatcher's test of its wait predicate (`Test`) and its falling asleep
(`FallAsleep`) are two steps because workers change `in_flight_` and notify
without `dispatch_mu_`; `Notify` wakes only a dispatcher that is asleep. The queues
are sets, since the order of the ready nodes matters to no property. The cancelling thread
has three steps, the runner reports the outcome as submit_local does. The ready
queue is unbounded, as the service configures it.

### BrowserSessions and TaskWorker
The worker from inside. JavaScript runs the code between two awaits without
interruption, so an action is such a piece of code of one `process()`, or the settling
of an external call with one of its outcomes. `pc` says which await a task
stands at.

| model | code |
|---|---|
| `sessions`, `state` | the map of affinity keys; opening, `closed`, and what became of the session at Browserbase. `Opening(k)` is the map of opens in flight |
| `watched` | `liveViewWaited` |
| `closer` | where closeAllForRun or closeAll stands; the control loop awaits each CANCEL_RUN, so there is one |
| `canceled`, `orders` | `canceledRuns` with their fired controllers; control messages not read yet |
| `phase`, `reading`, `listening` | `stopping`, and which loops have returned, for stop() and its drain |
| `result`, `published`, `acked` | the result envelope, the result stream, the task group |

A session is named after the task that opened it. `ClosedKey` deletes the entry of
the key, whichever session it is by then, as closeKey does. `Acquire` treats a
database error like a refused lease, as the worker does. A task left pending is
never claimed again: the workers read new entries only (there is no XCLAIM).
A death of the process is DistributedRun's subject: it leaves what `DurableHandoff` says.

### EventFeed
The order in which the loop writes rows and publishes their events (`unsent` is
the event between the two), the stream of all runs, one connection of the route
(`conn`: `replay`, `snapshot`, `nodes`, `tail`, `ended`), the frames on their way, and the
provider with its EventSource. `Reduce` is reduceEvoEvents by its status effects;
`SnapshotOf` is durableRunSnapshot, two reads at two moments. A replay (`Replayed`) is the
run's entries in the order of their ids. A replayed frame has an id, a tailed
one has none, so that a reconnect replays what the tail had sent. `Refuse` is an answer other
than 200, after which an EventSource never tries again. The run is abstracted to what
orders its writes; its logic is DistributedRun's.

### WebControl
One workflow, one open tab, other members. A graph is its nodes by type and its
edges; what validateGraph, the planner's rules and `Dag::build` accept are three
different predicates, as in the code. Each call of a store or an engine is a step with three outcomes:
done, done and its answer lost, refused. `req` is runWorkflowAction statement
by statement, with createWorkflowVersion's loop (`ReadLatest`, `InsertVersion`, `InsertClashes`,
`Reread`) at the grain of its queries. `stop` is cancelWorkflowRunAction with resolveRunEngine. `shown` and
`popup` are the console list and the effect that opens results. The engines are what they
do with a run: which graph they load (`EvoStarts`: the version's; `LegacyStarts`: the
saved graph of that moment, again in each attempt) and how it ends.

### LegacyTask
One run and its attempts at Trigger.dev. `steps` is the task's array, `published` what
the metadata shows. Each flush the task awaits (`Flush`) may be refused, and nothing in the code catches
that: the attempt unwinds from where it stands, with `outcome` "unflushed". The SDK may flush at any time (`BackgroundFlush`),
then with all that is set, the session (`SetSession`) and what a refused flush left included, and does at
the end of an attempt that lives (`Settle`), but a stop or the time limit kills the process wherever it stands
(`Kill`). The panel fetches the debug URL, its frame loads, and its handshake goes
through the route in two steps (authorize, write) to the row the task polls. An
attempt stands for its session, since it alone opens it.

### Proof modules
`RunGraphProofs` holds what the graph's functions return; `SchedulerStateProofs`,
`DistributedRunProofs` and `ConcurrentRunProofs` use it. `TaskWorkerProofs`, `EventFeedProofs`,
`WebControlProofs` and `LegacyTaskProofs` stand alone. Section 5 says what they prove.

### MC modules
They only define graphs and constants. The definitions marked "slip" or "Mutant" in the modules are
plausible bugs, used to show that each property can fail; no specification uses them.

Every module has a `TypeOK` that documents its state, and each is a theorem (`TypeCorrect`). They
are left out of the configurations, since each invariant there says more.

## 3. Runs

| run | instance and bounds | what it shows |
|---|---|---|
| sched_state | 4 nodes: a, b -> c; b, c -> d. No other bound | all six properties of the state machine, for every order of calls |
| run_join | a, b -> c; a, b browser; 2 attempts for a; batches of 2; 1 mishap; deaths between steps and at 3 points inside calls; cancel, refused publish, lost ack, full quota | memory equals rows, slots exact, in-flight work reapable, an unfinished run always has a node to move, durable cancel known, attempt numbers spent once, verdicts on attempts final, the loop refines SchedulerState |
| run_torn | a -> b; 2 mishaps; deaths at all 13 points inside calls | what survives even the deaths that wedge a run: causality, one running attempt, settled rows, retry budget, terminal rows never change |
| run_live | a -> b; 1 mishap; stop, cancel, refused publish, full quota, lost ack; FairSpec | a running run reaches a terminal row |
| run_wedge | a -> b; one death at 5 points | expected violation, finding 1 |
| cancel_race | a, b -> c, no faults but cancel | expected violation, finding 2 |
| conc_join | a, b -> c; a -> d; a, b browser; 2 workers; success, failure; cancel | exclusivity of the session, counters, exactly-once and ordered execution, no early exit, outcome, refinement of SchedulerState |
| conc_wakeup | two nodes without an edge, 2 workers, all succeed; FairSpec | expected violation, finding 3 |
| worker_sessions | 2 tasks of one run under one key, one browser node and one of any of the five kinds; one CANCEL_RUN; stop; every call may fail; FairSpec | one session per key and everyone in it, no ack before the result, every claim and every stop ends |
| feed | 1 node, 1 retry or lost lease, 1 fault (event not published, connection broken, refused or given up, foreign entry), stop; FairSpec | nothing skipped or doubled, no false end, whole snapshots, decided steps stay, the viewer sees the end |
| web_control | 2 requests (this tab, a colleague), 4 graphs, no Pro plan, both engine flags, 2 tries for a version, 1 edit or deletion, 1 failed or lost call | approved graphs only, Stop reaches the owner, results open once |
| legacy_task | start, browser, plain node; 3 attempts; 2 polls of the wait; 1 retry of the panel; 1 failed call; stop and kill anywhere; FairSpec | the end is painted unless the flush that would show it is refused, sessions closed, the handshake is the session's own, the run ends |

Why these bounds are enough to be interesting: the join has the smallest
graph in which a counter goes from two to zero, two ready nodes compete for one
slot, a failure cancels a node another branch is still feeding, and a batch
holds results of two nodes. The 4-node graph adds a node reached along two
paths and a chain behind the join. The chain is what a death between any two
writes needs: one node to break and one to depend on it; two mishaps let a
death meet a duplicate, a lost worker or a second death. `MaxMishaps` bounds deaths
of schedulers and workers, duplicates and early leases together; `RetryMax` bounds
failed attempts, and the mishaps bound reaped ones, so the state space is finite without a
state constraint.

Two tasks of a key are what sharing an open, closing under somebody's feet and
opening again after a cancel need. The order of rows, events, reads and frames of one node already
has every race between replay, snapshot, tail and reconnect; the retry makes a
step go back, and a second connection is the first to replay what was tailed. `MaxFaults` bounds the faults of a feed
together. A chain of two nodes (`Chain` and `ChainLater` of MCEventFeed) holds with one retry and
one fault too, in about 4 million states: too long to keep as a run.
Two requests are the least in which version numbers clash, the list has a newest entry that is not one's own and a graph is saved
between another's save and its start; the four graphs are the blank canvas, one anybody may
run, one that needs the Pro plan and one that validateGraph passes and the engine refuses.
`MaxEdits` and `MaxFaults` bound edits and failed calls. Three attempts are the
configured number; two polls let a handshake come before, in and after the wait.

Deadlock is checked in sched_state. The other specifications describe a run,
a process or a tab that ends, after which nothing happens, so their configurations turn it off;
RunSettles, ClaimsSettle, ViewSettles and RunEnds check instead that the end is reached.

run_join and run_live include the deaths from which the code recovers
(`dispatch.leased`, `apply.claimed`, `apply.completed`, and `cancel.partial` in
run_live). Each of the others breaks one of the properties of run_join or `ResumableRows` (the
table in section 5 says which). The windows of run_wedge are finding 1. Of the rest, `fail.completed` and `stop.partial` strand nodes
behind one that ended, `create.partial` leaves a node that can never complete durably and `create.run`
forgets a cancel: section 6 describes them, and no property covers them, since the code does not survive them.
`cancel.partial` leaves rows that only a run about to be canceled has, and run_live shows it survives that.

## 4. Fairness

*DistributedRun.* The loop's thread runs (WF of `LoopStep`); a dead scheduler is started
again (WF of `Resume`; reconcile_active_runs at start-up); a cancel() that set its
flag goes on to the stamp; workers claim what is queued and finish what they hold
unless they die; a lease nobody will renew lapses (WF, restricted to
`Lost` attempts, so that time is never blamed for an early expiry). `Dispatch` and
`RetryReady` need strong fairness: a ready node may be deferred by the quota
gate, or its backoff not have elapsed, each time the loop comes by, but not for
ever: the gate frees slots and the clock moves on. A behaviour has finitely many tasks, so
WF of "some worker claims some task" gives each task its turn.
Nothing is assumed of faults, deaths, cancels or `Stop`.

*ConcurrentRun.* Every thread that can run is scheduled. Strong fairness per thread, because a thread may
find `dispatch_mu_` taken each time it looks. A sleeping dispatcher is owed nothing: that is finding 3.

*TaskWorker.* The event loop runs every continuation that is ready, and every external
call settles (it may settle as a failure): WF per task and per open. Reads time out, and so
does the drain, by its deadline; nothing obliges a task to be delivered, a
CANCEL_RUN to be read, or stop() to be called.

*EventFeed.* The route and EventSource go on, and a connection that is not broken
delivers. Nothing is assumed of the run; a connection may break (a bounded number of times) but
need not be given up.

*LegacyTask.* The task's process runs (its calls settle, one way or the other), a settled attempt is
recorded and a retry starts. Nothing is assumed of the viewer: the run must end without one.

WebControl states no fairness: its properties are safety.

## 5. Proofs

Every safety property of a passing run is proved, for every value of the constants, and so
are the types of every module and both refinements of SchedulerState. The assumptions are the ones the modules
declare (a finite acyclic graph and the shape of the other constants); a theorem that needs more
says so in its statement, and the need is argued below.

### The graph
`RunGraphProofs` has the lemmas all three schedulers need. `UnmetDepsCounts`: a successor of a
node that succeeds loses exactly one unmet predecessor, other nodes none. `DownstreamClosed`,
`FailEffect`: given that failures are closed downstream before the call, the walk that turns
back at terminal nodes leaves nothing open behind the failed node and changes no decided one. `RestoreEffect`: what
a restart makes of each row.

### SchedulerState
All six properties of sched_state, its types, and `CompletedExact`: `completed_` holds the decided nodes, by whatever code it was filled. The invariants are not inductive one by one. `IInv` is their conjunction
strengthened by two facts: `QueuedFresh` (before start_run the object is the constructor's,
or canceled) and `BlockedHasReason` (a blocked node has a predecessor that is open). There is
one lemma per kind of call (`RestartStep`, `MoveStep`, `SuccessStep`, `FailStep`, `StartStep`,
`ReconstructStep`, `CancelStep`, `FinalizeStep`), combined in `NextPreservesIInv`.
`DepCountExact` with `UnmetDepsCounts` makes "counter is zero" and "all predecessors
succeeded" the same test. `NeverStuck` follows from `BlockedHasReason` and `Acyclic`: among the blocked nodes
one has no blocked predecessor, its open predecessor is ready, in flight or parked.
`UpstreamProduced`: the succeeded nodes together with the node itself are closed under
predecessors, and `Upstream` is the least such set. `DecidedStays` is the
invariant and one look at each action.

### DistributedRun
`DistributedRunProofs`, for every graph, policy, set of faults, set of points of death and
number of mishaps. `IInv` joins four groups:

* `RowsInv`, about the rows alone: each node's row and its attempts fit (`HistorySound`: only
  the last attempt may be running, failures within the policy, each attempt beyond it paid for
  by a lapsed lease), a node past blocked has its predecessors durably succeeded, at most one browser row is in flight.
* `MemoryFits`, `SlotsFit`, while a loop drives the run: its memory is what a restart would make
  of the rows, node by node, and its slots are those of the running nodes. Where a node has no row, as
  after a torn creation, the invariant says what remains: it may be tried, never succeed.
* `MessagesSound`: every task, result, batch entry and scanned lease belongs to a recorded attempt,
  so that a late one can be told apart.
* `Phases`, `FreshMemory`, `StampKnown`, `FinishedRunIsSettled`: the row of the run follows the loop.

The rows are the hard part. `RowsGrow` says what no step takes back (a row that exists
stays, and the attempts of a node never get fewer), and each action is shown to carry on (`DispatchCarriesOn`, ...,
`CrashApplyingCarriesOn`); messages follow from the growth of the rows alone (`LaterHolds`).

| theorem | property | hypothesis |
|---|---|---|
| TypeCorrect, OrderedDispatch, UpstreamIsDurable, SingleAttempt, BudgetKept, OutcomeIsTrue, SettledForGood | TypeOK, DispatchAfterPredecessors, (its transitive form), OneRunningAttempt, RetryBudget, FinishedRunIsSettled, SettledStays | none: any death at any point |
| MemoryIsRows, SlotsAreWork, NumbersAreFresh | MemoryMatchesRows, SlotsMatchWork, FreshAttempts | no death at `create.partial` |
| VerdictsStand | AttemptsSettle | no death at `dispatch.dispatched` or `reap.marked` |
| ReapableInFlight | InFlightIsReapable | none of the five windows of finding 1, nor `create.partial` |
| NeverStuck | LoopIsNeverStuck | none of the five windows of finding 1, nor within a write of several rows |
| RowsCanResume, DrivesTheMachine | ResumableRows, ImplementsMachine | no death within a write of several rows (`PartialPoints`) |
| CancelSurvives | StampedCancelIsHonored | no death at `create.run`; the graph has a node |

The hypotheses are the weakest of their kind: allow any one of these points and TLC finds the invariant
violated on the chain of run_torn. So they say which deaths inside a call the code does not
survive, and that it survives all others. The deaths at `dispatch.leased`, `apply.claimed` and
`apply.completed`, and those between steps, are allowed by every theorem.
(A graph without nodes has no row to tell a started run by, and each restart of it starts afresh.)

The arguments that need more than `IInv`:

* `NeverStuck`: among the open nodes one has no open predecessor (`Acyclic`); its predecessors have
  succeeded, or else it would have been canceled with them, so it is not blocked; and by
  `ReapableInFlight` a node in flight has a running attempt under a lease.
* `NumbersAreFresh`: every message and every key names a recorded attempt (`MessagesSound`, and
  `KeysSound` for the ledger and the dedupe set), and the next number is one more than the recorded ones.
* `VerdictsStand`: an in-flight node has a running last attempt, or the ledger has the key of that attempt
  (`Answered`, an invariant of its own: the two excluded deaths are the two that break it). A result is applied
  only if its key is not in the ledger and its number not below the current one, so it
  ends an attempt that runs. `finish_attempt` itself does not look (pg_run_store.cpp:217-227). The deaths at
  `dispatch.recorded`, `dispatch.running` and `fail.attempt_finished`, which wedge a run, change no verdict.
* `UpstreamIsDurable`: the nodes that have succeeded are closed under predecessors, and `Upstream` is
  the least such set. It needs no hypothesis, hence no death gives an executor a missing output.

`DrivesTheMachine` cites the machine's lemmas through `INSTANCE SchedulerStateProofs`: the counters are
defined as the numbers of unmet predecessors, which is `DepCountExact`; a restart is `Resume`, from rows that `NoStrandedRows` makes coherent.

### ConcurrentRun
`ConcurrentRunProofs`, for any graph, workers and interleaving. `IInv` says where every node is: in the ready queue, popped, blocked,
in the pool, or on one worker at one stage, according to its state (`NodesSound`, `WorkersSound`); `SessionSound`
relates `usage` to the one browser node past its submission; `CountSound` is `InFlightExact` with the pool;
`PhaseSound` ties the dispatcher's place to the run. It contains the `IInv` of
SchedulerStateProofs for the object the threads drive, and the proof of that part is the
refinement: each step is one of the machine's, whose preservation lemma is then cited. `LogRespectsGraph`
rests on it, since a task starts from a node whose predecessors have succeeded. `LeavesWhenDecided` uses `SomeNodeCanAct`: with nothing in flight, queued or
blocked, a run with an open node would be stuck, which the machine never is.
`ReportIsTrue` asks for a node: `Dag::build` accepts an empty graph (engine/tests/dag_test.cpp:203-205), whose empty log
is reported as FAILED while its state machine says SUCCEEDED; the web application never submits one.

### TaskWorker
`TaskWorkerProofs`, for any tasks, runs and keys. `AckedIsPublished` follows `result` through every exit of `process()`
(`Handoffs`). `OneSessionPerKey` needs `SessionInv`: a session in the map is the one filed under its
key; a task that waits for an opening waits for the one of its key; the closer closes what it has taken from the map;
and, for the keys of runs not canceled, at most one session opening or live. Keys of canceled
runs are left out because there the late delete of closeKey breaks it.

### EventFeed
`EventFeedProofs`, for any nodes, retries and faults. A view can be right only if every event still
on its way is: `Honest(e)` says an event agrees with the rows as they are now, and stays so because
the rows only advance (`RowsAdvance`). It holds of the event not yet published, the stream, the frames, and hence of the fold (`FoldOf`). `StreamOrdered` (no
run_started after run_finished), `WireOrdered` and `EndSent` (the route sends nothing behind the end)
make `Over`: a browser that shows the end is sent no start any more and will not connect again. For the
snapshot, a run row read as terminal stays, and its nodes had all settled (`AllSettled`). That the failure of a
node dooms none that has run is `Gated`. The order of a replay is a fact about finite sets: `EveryRank`
(by the least counterexample, since there is no induction to cite) and `NthInOrder`.

`CaughtUpShowsAll` says that a browser behind no frame shows the fold of the whole stream, although
a reconnect replays to it what the tail had sent, so that part of the stream is folded twice. The
proof gives each frame on the wire its place in the stream (`Follows`). `Seen(view, p)` says that the
view shows all that the first p entries tell, and nothing that no entry tells; a reconnect only goes back to an
earlier p. Two views that have seen the whole stream are equal (`SeenWhole`), since a node ends in one way only
(`OneFate`) and nothing is told of it after its cancellation (`CancelInv`), and the fold is one of them. The
fold is a recursive function (`FoldUpTo`), unfolded one step at a time; what is true of all its prefixes is
proved by taking the least counterexample (`Least`).

### WebControl
`WebControlProofs` proves, for any number of requests, graphs, retries and failed
calls, `RunsApprovedGraph` and `StopReachesOwner`, from `WebConstants`. The inductive invariant `Control` joins
the types of what it speaks about to four facts: a request past its gates carries
an approved graph; the numbers of a store's versions are unique, and the version a
request names holds the graph of that request; a run in an engine, or with a row, has an
engine, and the row is in that engine's store; what was saved is the graph of some request, and
what ran is approved. Each action is taken once against it (`RequestControl`,
`EngineControl`, `PlannerControl`, `ConsoleControl`). Uniqueness of numbers is what the
retry loop rests on: `InsertVersion` alone adds a version, with a number not taken.
For Stop, `StopInv` says a lookup that got as far as Neon without being blind was for a run with no Phase-2
row, and a run that the console lists as live is in that case a legacy one. For
`PopupOnce`, `PopupInv`: rows say "ended" only of runs that have (`RowsTrue`), and a run whose results were opened
is remembered for as long as a list can show it ended again (`Remembered`). `TypeCorrect` adds to these
the bounds on edits and failed calls and the variables no property speaks of (`Rest`).

### LegacyTask
`LegacyTaskProofs` proves `HandshakeIsForThisSession`, `NoSessionLeft` and
`EndIsPainted` for every workflow and every number of attempts, polls and faults, from
`TaskConstants`. Each has an inductive invariant of its own: rows and handshakes come from frames that have
loaded (`LoadedRows`); a session belongs to the attempt and its Stagehand until
closed (`SessionOwned`); the steps before `at` are done, and each way out of the body
flushed them or, where the flush was refused, has set them for the next one or left one step open
(`StepsTold`, with `SetForLater`). That is also what `EndIsPainted` says: a property without that case would be false of the code, since no
flush has a handler. A run that is recorded as completed has left by a flush that was not refused, so it shows
every step done. `TypeCorrect` takes the variables in four groups (`TaskTypes`, `RunTypes`, `PanelTypes`,
`ResultTypes`) together with `StepsTold`, which keeps `at` within the steps; `FaultsCounted` bounds the failed calls.

### Only model-checked
The liveness properties `RunSettles`, `ClaimsSettle`, `ViewSettles` and `RunEnds` are outside what the
prover does. The properties of the three expected violations are false; the first is proved where it
is true (`ReapableInFlight`). Every inductive invariant above was first checked by TLC on the instance of its run.

## 6. Findings

1. **A death inside a call wedges the run** (run_wedge). Windows: after
   distributed_run_loop.cpp:317 and 318 and before 330; between 128 and 138;
   between 476 and 212 or 485. The node is restored as RUNNING without an attempt
   the lease scan can report; state_machine.cpp:117-121 promises one. With
   run_timeout at 0 the run stays running.
2. **Dispatch after cancel** (cancel_race). dispatch_ready tests the flag once
   and then dispatches its whole snapshot; the comment at 273-276 calls "no dispatch
   after cancel" unconditional.
3. **Lost wakeup** (conc_wakeup). concurrent_scheduler.cpp:307-308 changes the
   wait condition and notifies without the mutex; run() may never return.

The rest is behaviour met while modelling, which no run is given to: the models have it,
and where a property would forbid it the property says so in its exception.

*Scheduler.* A run whose nodes all
succeeded can be finished as canceled, and a run whose cancel was accepted can be
finished as succeeded (the loop passed the flag test); a local run canceled late is
reported SUCCEEDED although its state machine says CANCELED; after a cancel the in-process
scheduler still submits nodes that waited for the session; a queued run whose
scheduler died before create_run is not resumed; a partial creation of node rows
is never completed on resume.

*Restarts.* Two more deaths the scheduler does not survive; TLC finds each as soon as its point is allowed on
the chain. A failed node is written at distributed_run_loop.cpp:485 (196 when dead-lettered) and its
downstream canceled only after that (491, 202): a death in between strands the blocked rows, since a
restart unblocks nodes whose predecessors succeeded and cancels none (`LoopIsNeverStuck` with `fail.completed`), although
docs/phase2/SYSTEM_DESIGN_NOTES.md:162-163 has a restart complete the run. After a death between the run row (686)
and the first node row (687) the next scheduler starts afresh and never looks at cancel_requested_at, which is read only at
558 (`StampedCancelIsHonored` with `create.run`), although lines 154-157 of that document list the durable cancel request among
what a restart reconstructs.

*Outputs of farther nodes.* use-upstream-connections.ts:24-26 offers a node the outputs of
every node upstream, "resolved at run time"; they do exist then (`UpstreamProduced`), but the Evo worker
loads those of direct predecessors only (durable-loaders.ts:79-90), so a token of a farther
node becomes the empty string. The legacy task keeps all outputs of its attempt.

*Worker.* A shutdown makes a task that was about to start answer ERROR_CANCELED, not
retryable, though its run is not canceled (node-executor-adapter.ts:103 against worker.ts:496-497), and the retry
policy then fails the run. After a cancel of the run, a task that was past the check
opens a session nobody closes, and closeKey's late delete (browser-session-manager.ts:275) can
drop the entry of a newer one. A canceled task that never ran is acked even when its answer could not be
published. The run row keeps the id of the first session only (main.ts:192-212): after a lost
worker the live view, the replay and the handshake go to a dead session.

*Feed.* A viewer who reconnects between the final row and run_finished is sent a terminal
snapshot, which closes its source, and ignores it, because it has had events before
(evo-run-events-provider.tsx:124-127): it stays at "running". An answer other than 200
closes the source for good while the view says it reconnects. If run_finished is never
published, a viewer with other events sees the run as running. A replayed
node_retry_scheduled takes a canceled step back to running until node_canceled is replayed too. The
provider is mounted nowhere yet; the console polls.

*Control plane.* A submission that fails leaves its row queued, which the console shows
as live, with a Stop that answers NOT_FOUND; a graph with an edge to a removed node
does so without any fault, because validateGraph passes what `Dag::build` refuses. A list
of Evo runs that cannot be read is replaced by an empty one (evo-runs.ts:74-76 against
workflow-runs-provider.tsx:116-118). A Stop whose Phase-2 lookup failed goes to the legacy engine.
"At most one is live at a time" (workflow-runs-provider.tsx:193-195) does not hold: Run again and colleagues do not look. Two
collaborators can each add a trigger (right-sidebar.tsx:245-252), and a value typed in the inspector
overwrites another field a collaborator changed meanwhile (142-168). The planner's result
clears whatever collaborators drew while it planned.

*Legacy.* `metadata.flush()` is awaited without a handler (run-workflow.ts:129, 201, 291, 317, 346). Refused at 291 it
ends the attempt with the step left running, at 201 before the first step; at 129 and 317 its error takes the
place of the real one and the end is shown by the next flush of the SDK, if there is one; at 346 it fails an attempt
whose nodes have all run, and the retry runs them again, effects included. Each attempt runs the graph saved by then, not a version, starts from the
first node again and repeats its effects. A failed poll of the handshake while the run is being stopped leaves the
steps unmarked (run-workflow.ts:226), as does an executor that fails on a stop. A killed
process leaves its session to Browserbase's timeout and the handshake row to stay. The screenshot is stored however a run ends (163-165), but the
results show it only for a run with an output (run-console.ts:100-102).

## 7. Not modelled, and why

* `run_timeout` as a branch of the loop: 0 in the service, so the branch is dead there
  (EventFeed has its event). Store errors that a
  living scheduler survives, and deaths inside the refused-publish path
  (368-381), whose windows are those of the failing apply_result.
* Several loops on one result stream: a loop acks results of other runs. Its effect on one
  run, a lost result, is in run_live; the composition of two runs at this grain is beyond what TLC finishes.
* The quota gate and the registry of the control service: several orgs and runs, whose caps and
  timeouts would be a model of their own. One run sees a gate that may defer it.
* The bounded ready queue of the in-process scheduler and tasks that throw.
* Heartbeats and counters of the worker; trimming of streams; reconnects of clients.
* What nodes do in the browser, in mails and in language models; the prompt, layout and styling
  of the interface; logs, metrics, benchmarks, tokens: no state of
  the kind a model checker helps with. The in-memory store and transport and
  the sequential scheduler are test doubles of what is modelled.
* saveWorkflowGraphOptimistic, closeForRun, triggerRunToViewModel: used by tests only.

## 8. What could follow

1. **QuotaGate + ControlService**: admission, caps per org and class, fair
   share, idempotent submission, reconcile, two runs on one result stream. Abstract
   specification: a counting semaphore per org and class.
2. **Proofs**: what the whole handoff of DistributedRun and TaskWorker gives together (a worker
   that acks what it published is the worker DistributedRun assumes); that a `Stop` of a run whose
   lookup was not blind ends it.
3. **RetryPolicy** as pure functions against a reference.
