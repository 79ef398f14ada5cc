---------------------------- MODULE ConcurrentRun ----------------------------
(***************************************************************************)
(* One run of synthetic nodes driven in the scheduler's own process:       *)
(* ConcurrentScheduler (engine/core/src/concurrent_scheduler.cpp) with its *)
(* dispatcher thread, its ThreadPool of workers, the thread that cancels   *)
(* it, and the runner that reports the outcome (submit_local in            *)
(* engine/app/grpc_service.cpp).                                           *)
(*                                                                         *)
(* Unlike the distributed loop, everything here is threads on shared       *)
(* memory. A step is what a thread does under one lock or to one atomic:   *)
(* the dispatcher's test of its wait condition and its falling asleep are  *)
(* two steps, because a worker that finishes changes in_flight_ and        *)
(* notifies without holding dispatch_mu_. The ready queue is unbounded, as *)
(* the service configures it. The queues are sets: the order in which      *)
(* nodes leave them does not matter to any property.                       *)
(***************************************************************************)
EXTENDS RunGraph, Sequences

CONSTANTS
  Workers,       \* the threads of the pool
  BrowserNodes,  \* nodes that need the run's browser session
  TaskResults,   \* what a task may return: TRUE for completed
  MayCancel,     \* whether cancel() may be called
  NoNode         \* no node

ASSUME ConcurrentConstants ==
  /\ Workers # {} /\ IsFiniteSet(Workers)
  /\ BrowserNodes \subseteq Nodes
  /\ TaskResults \subseteq BOOLEAN
  /\ MayCancel \in BOOLEAN
  /\ NoNode \notin Nodes

VARIABLES
  runState, nodeState,   \* state_
  canceled,      \* canceled_
  cancelPc,      \* the thread in cancel()
  pc,            \* the thread in run()
  lock,          \* who holds dispatch_mu_ between steps: the dispatcher or nobody
  popped,        \* the node the dispatcher has popped and not yet submitted
  readyQueue,    \* ready_queue_
  blocked,       \* resource_blocked_
  usage,         \* resource_usage_ of the run's browser session
  inFlight,      \* in_flight_
  pool,          \* the pool's pending_ tasks
  draining,      \* the pool's draining_
  worker,        \* what each worker is doing
  log,           \* log_
  outcome        \* the outcome submit_local records

machine    == <<runState, nodeState>>
cancelVars == <<canceled, cancelPc>>
mainVars   == <<pc, lock, popped>>
dispatch   == <<blocked, usage, inFlight, pool>>
vars       == <<machine, cancelVars, mainVars, readyQueue, dispatch, draining, worker,
                log, outcome>>

Stages == {"idle", "taken", "running", "ran", "released", "completing", "pushing",
           "finishing"}

Idle == [at |-> "idle", node |-> NoNode, ok |-> FALSE, ready |-> {}]

LogEntry == [node: Nodes, ok: BOOLEAN]

Init ==
  /\ runState = "QUEUED"
  /\ nodeState = [n \in Nodes |-> "BLOCKED"]
  /\ canceled = FALSE /\ cancelPc = "idle"
  /\ pc = "start" /\ lock = "free" /\ popped = NoNode
  /\ readyQueue = {} /\ blocked = {} /\ usage = 0 /\ inFlight = 0
  /\ pool = {} /\ draining = FALSE
  /\ worker = [w \in Workers |-> Idle]
  /\ log = <<>>
  /\ outcome = "none"

-----------------------------------------------------------------------------
(* Calls several threads make.                                             *)

(* notify_one and notify_all: only the dispatcher ever waits, and one that *)
(* is not asleep yet does not hear it.                                     *)
Notify == pc' = IF pc = "asleep" THEN "locking" ELSE pc

HasRoomForTwo(n) == n \in BrowserNodes => usage <= 1   \* slip: off by one

HasRoom(n) == n \in BrowserNodes => usage < 1

Dispatched(st, n) == IF st[n] = "READY" THEN [st EXCEPT ![n] = "DISPATCHED"] ELSE st

(* dispatch_node, ++in_flight_ and pool_.submit, which refuses the task    *)
(* once the pool drains.                                                   *)
Submit(n) ==
  /\ nodeState' = Dispatched(nodeState, n)
  /\ inFlight' = inFlight + 1
  /\ pool' = IF draining THEN pool ELSE pool \cup {n}

(* drain_resource_blocked, with used slots of the session taken. All the   *)
(* blocked nodes wait for that one session, so at most one goes. It looks  *)
(* neither at the node's state nor at canceled_.                           *)
DrainBlocked(used) ==
  IF used = 0 /\ blocked # {}
  THEN \E n \in blocked :
         /\ usage' = 1
         /\ blocked' = blocked \ {n}
         /\ Submit(n)
  ELSE usage' = used /\ UNCHANGED <<nodeState, blocked, inFlight, pool>>

-----------------------------------------------------------------------------
(* The dispatcher: run().                                                  *)

(* A run that is canceled before it starts ends at once.                   *)
BeginCanceled ==
  /\ pc = "start" /\ canceled
  /\ nodeState' = CancelOpen(nodeState)
  /\ runState' = "CANCELED"
  /\ pc' = "returned"
  /\ UNCHANGED <<cancelVars, lock, popped, readyQueue, dispatch, draining, worker, log,
                 outcome>>

Begin ==
  /\ pc = "start" /\ ~canceled
  /\ pc' = "starting"
  /\ UNCHANGED <<machine, cancelVars, lock, popped, readyQueue, dispatch, draining,
                 worker, log, outcome>>

(* start_run, which does nothing to a run canceled meanwhile, and          *)
(* dispatch_ready_nodes_locked.                                            *)
StartRun ==
  /\ pc = "starting"
  /\ IF runState = "QUEUED"
     THEN runState' = "RUNNING" /\ nodeState' = Unblock(nodeState)
     ELSE UNCHANGED machine
  /\ readyQueue' = {n \in Nodes : nodeState'[n] = "READY"}
  /\ pc' = "locking"
  /\ UNCHANGED <<cancelVars, lock, popped, dispatch, draining, worker, log, outcome>>

Lock ==
  /\ pc = "locking" /\ lock = "free"
  /\ lock' = "dispatcher"
  /\ pc' = "testing"
  /\ UNCHANGED <<machine, cancelVars, popped, readyQueue, dispatch, draining, worker, log,
                 outcome>>

(* The predicate of dispatch_cv_.wait.                                     *)
Test ==
  /\ pc = "testing"
  /\ pc' = IF canceled \/ readyQueue # {} \/ inFlight = 0 THEN "tested" ELSE "blocking"
  /\ UNCHANGED <<machine, cancelVars, lock, popped, readyQueue, dispatch, draining,
                 worker, log, outcome>>

(* wait() gives dispatch_mu_ back and sleeps until it is notified.         *)
FallAsleep ==
  /\ pc = "blocking"
  /\ lock' = "free"
  /\ pc' = "asleep"
  /\ UNCHANGED <<machine, cancelVars, popped, readyQueue, dispatch, draining, worker, log,
                 outcome>>

BreakOrGoOn ==
  /\ pc = "tested"
  /\ IF canceled THEN pc' = "draining" /\ lock' = "free"
                 ELSE pc' = "unblocking" /\ UNCHANGED lock
  /\ UNCHANGED <<machine, cancelVars, popped, readyQueue, dispatch, draining, worker, log,
                 outcome>>

UnblockFirst ==
  /\ pc = "unblocking"
  /\ DrainBlocked(usage)
  /\ pc' = "popping"
  /\ UNCHANGED <<runState, cancelVars, lock, popped, readyQueue, draining, worker, log,
                 outcome>>

(* try_pop, and the tests before the dispatch: still READY, and room for   *)
(* it.                                                                     *)
Pop(n) ==
  /\ pc = "popping" /\ popped = NoNode
  /\ n \in readyQueue
  /\ readyQueue' = readyQueue \ {n}
  /\ IF nodeState[n] # "READY"
     THEN UNCHANGED <<blocked, usage, popped>>
     ELSE IF ~HasRoom(n)
     THEN blocked' = blocked \cup {n} /\ UNCHANGED <<usage, popped>>
     ELSE /\ popped' = n
          /\ usage' = IF n \in BrowserNodes THEN usage + 1 ELSE usage
          /\ UNCHANGED blocked
  /\ UNCHANGED <<machine, cancelVars, pc, lock, inFlight, pool, draining, worker, log,
                 outcome>>

SubmitPopped ==
  /\ pc = "popping" /\ popped # NoNode
  /\ Submit(popped)
  /\ popped' = NoNode
  /\ UNCHANGED <<runState, cancelVars, pc, lock, readyQueue, blocked, usage, draining,
                 worker, log, outcome>>

EndTurnIgnoringInFlight ==   \* slip: leaves with work in flight
  /\ pc = "popping" /\ popped = NoNode /\ readyQueue = {}
  /\ pc' = IF blocked = {} THEN "draining" ELSE "locking"
  /\ lock' = "free"
  /\ UNCHANGED <<machine, cancelVars, popped, readyQueue, dispatch, draining, worker, log,
                 outcome>>

EndTurn ==
  /\ pc = "popping" /\ popped = NoNode /\ readyQueue = {}
  /\ pc' = IF inFlight = 0 /\ blocked = {} THEN "draining" ELSE "locking"
  /\ lock' = "free"
  /\ UNCHANGED <<machine, cancelVars, popped, readyQueue, dispatch, draining, worker, log,
                 outcome>>

(* pool_.drain(): no new task is taken on ...                              *)
Drain ==
  /\ pc = "draining"
  /\ draining' = TRUE
  /\ pc' = "joining"
  /\ UNCHANGED <<machine, cancelVars, lock, popped, readyQueue, dispatch, worker, log,
                 outcome>>

(* ... the pending ones are finished and the workers joined; then          *)
(* finalize_and_collect.                                                   *)
Return ==
  /\ pc = "joining"
  /\ pool = {} /\ \A w \in Workers : worker[w] = Idle
  /\ runState' = IF runState \in RunTerminal THEN runState ELSE Outcome(nodeState)
  /\ pc' = "returned"
  /\ UNCHANGED <<nodeState, cancelVars, lock, popped, readyQueue, dispatch, draining,
                 worker, log, outcome>>

SomeOk == \E i \in DOMAIN log : log[i].ok   \* slip: one success is enough

AllOk == log # <<>> /\ \A i \in DOMAIN log : log[i].ok

(* The runner of submit_local asks the log first, then canceled_.          *)
Report ==
  /\ pc = "returned" /\ outcome = "none"
  /\ outcome' = IF AllOk THEN "SUCCEEDED" ELSE IF canceled THEN "CANCELED" ELSE "FAILED"
  /\ UNCHANGED <<machine, cancelVars, mainVars, readyQueue, dispatch, draining, worker,
                 log>>

-----------------------------------------------------------------------------
(* The workers: worker_task and on_node_complete.                          *)

Take(w) ==
  /\ worker[w].at = "idle"
  /\ \E n \in pool :
       /\ pool' = pool \ {n}
       /\ worker' = [worker EXCEPT ![w] = [Idle EXCEPT !.at = "taken", !.node = n]]
  /\ UNCHANGED <<machine, cancelVars, mainVars, readyQueue, blocked, usage, inFlight,
                 draining, log, outcome>>

(* start_node does nothing to a node canceled meanwhile; the task is run   *)
(* all the same.                                                           *)
StartTask(w) ==
  LET n == worker[w].node
  IN  /\ worker[w].at = "taken"
      /\ nodeState' = IF nodeState[n] = "DISPATCHED"
                      THEN [nodeState EXCEPT ![n] = "RUNNING"] ELSE nodeState
      /\ worker' = [worker EXCEPT ![w].at = "running"]
      /\ UNCHANGED <<runState, cancelVars, mainVars, readyQueue, dispatch, draining, log,
                     outcome>>

EndTask(w) ==
  /\ worker[w].at = "running"
  /\ \E ok \in TaskResults :
       /\ worker' = [worker EXCEPT ![w].at = "ran", ![w].ok = ok]
       /\ log' = Append(log, [node |-> worker[w].node, ok |-> ok])
  /\ UNCHANGED <<machine, cancelVars, mainVars, readyQueue, dispatch, draining, outcome>>

Release(w) ==
  LET n == worker[w].node
  IN  /\ worker[w].at = "ran" /\ lock = "free"
      /\ DrainBlocked(IF n \in BrowserNodes /\ usage > 0 THEN usage - 1 ELSE usage)
      /\ worker' = [worker EXCEPT ![w].at = "released"]
      /\ UNCHANGED <<runState, cancelVars, mainVars, readyQueue, draining, log, outcome>>

CheckCanceledReturning(w) ==   \* slip: the early return skips the decrement
  /\ worker[w].at = "released"
  /\ worker' = [worker EXCEPT ![w] = IF canceled THEN Idle ELSE [@ EXCEPT !.at = "completing"]]
  /\ UNCHANGED <<machine, cancelVars, mainVars, readyQueue, dispatch, draining, log,
                 outcome>>

CheckCanceled(w) ==
  /\ worker[w].at = "released"
  /\ worker' = [worker EXCEPT ![w].at = IF canceled THEN "finishing" ELSE "completing"]
  /\ UNCHANGED <<machine, cancelVars, mainVars, readyQueue, dispatch, draining, log,
                 outcome>>

CompleteInAnyState(w) ==   \* slip: the node need not be RUNNING
  LET n == worker[w].node
  IN  /\ worker[w].at = "completing"
      /\ nodeState' = IF worker[w].ok THEN Succeed(nodeState, n)
                                      ELSE Fail(nodeState, n, "FAILED")
      /\ worker' = [worker EXCEPT ![w].at = "pushing",
                      ![w].ready = {m \in Nodes \ {n} : nodeState'[m] # nodeState[m]}]
      /\ UNCHANGED <<runState, cancelVars, mainVars, readyQueue, dispatch, draining, log,
                     outcome>>

(* complete_node returns the successors it readied, or for a failure the   *)
(* nodes it canceled: on_node_complete pushes either.                      *)
Complete(w) ==
  LET n == worker[w].node
  IN  /\ worker[w].at = "completing"
      /\ nodeState' = IF nodeState[n] # "RUNNING" THEN nodeState
                      ELSE IF worker[w].ok THEN Succeed(nodeState, n)
                      ELSE Fail(nodeState, n, "FAILED")
      /\ worker' = [worker EXCEPT ![w].at = "pushing",
                      ![w].ready = {m \in Nodes \ {n} : nodeState'[m] # nodeState[m]}]
      /\ UNCHANGED <<runState, cancelVars, mainVars, readyQueue, dispatch, draining, log,
                     outcome>>

Push(w) ==
  /\ worker[w].at = "pushing" /\ lock = "free"
  /\ readyQueue' = readyQueue \cup worker[w].ready
  /\ worker' = [worker EXCEPT ![w].at = "finishing"]
  /\ UNCHANGED <<machine, cancelVars, mainVars, dispatch, draining, log, outcome>>

(* --in_flight_ and notify_one, without dispatch_mu_.                      *)
Finish(w) ==
  /\ worker[w].at = "finishing"
  /\ inFlight' = inFlight - 1
  /\ Notify
  /\ worker' = [worker EXCEPT ![w] = Idle]
  /\ UNCHANGED <<machine, cancelVars, lock, popped, readyQueue, blocked, usage, pool,
                 draining, log, outcome>>

-----------------------------------------------------------------------------
(* The thread in cancel(). CancelRun refuses a run that is done.           *)

CancelFlag ==
  /\ MayCancel
  /\ cancelPc = "idle" /\ outcome = "none"
  /\ canceled' = TRUE
  /\ cancelPc' = "flagged"
  /\ UNCHANGED <<machine, mainVars, readyQueue, dispatch, draining, worker, log, outcome>>

CancelNodes ==
  /\ cancelPc = "flagged"
  /\ nodeState' = CancelOpen(nodeState)
  /\ runState' = "CANCELED"
  /\ cancelPc' = "committed"
  /\ UNCHANGED <<canceled, mainVars, readyQueue, dispatch, draining, worker, log, outcome>>

CancelNotify ==
  /\ cancelPc = "committed"
  /\ Notify
  /\ cancelPc' = "done"
  /\ UNCHANGED <<machine, canceled, lock, popped, readyQueue, dispatch, draining, worker,
                 log, outcome>>

-----------------------------------------------------------------------------
Dispatcher ==
  \/ BeginCanceled \/ Begin \/ StartRun
  \/ Lock \/ Test \/ FallAsleep \/ BreakOrGoOn \/ UnblockFirst
  \/ \E n \in Nodes : Pop(n)
  \/ SubmitPopped \/ EndTurn \/ Drain \/ Return \/ Report

Work(w) ==
  \/ Take(w) \/ StartTask(w) \/ EndTask(w) \/ Release(w) \/ CheckCanceled(w)
  \/ Complete(w) \/ Push(w) \/ Finish(w)

Cancel == CancelFlag \/ CancelNodes \/ CancelNotify

Next == Dispatcher \/ (\E w \in Workers : Work(w)) \/ Cancel

Spec == Init /\ [][Next]_vars

(***************************************************************************)
(* Every thread that can run is scheduled and tasks return. dispatch_mu_   *)
(* is held by the dispatcher for finitely many steps, but a thread may     *)
(* find it taken each time it looks: strong fairness, as mutexes of the    *)
(* platforms give in practice. A sleeping thread is owed nothing.          *)
(***************************************************************************)
Fairness ==
  /\ SF_vars(Dispatcher)
  /\ \A w \in Workers : SF_vars(Work(w))
  /\ WF_vars(CancelNodes) /\ WF_vars(CancelNotify)

FairSpec == Spec /\ Fairness

-----------------------------------------------------------------------------
(* Properties.                                                             *)

(* The variables hold values of the types they stand for.                  *)
TypeOK ==
  /\ runState \in RunStates
  /\ nodeState \in [Nodes -> NodeStates]
  /\ canceled \in BOOLEAN
  /\ cancelPc \in {"idle", "flagged", "committed", "done"}
  /\ pc \in {"start", "starting", "locking", "testing", "blocking", "asleep", "tested",
             "unblocking", "popping", "draining", "joining", "returned"}
  /\ lock \in {"free", "dispatcher"}
  /\ popped \in Nodes \cup {NoNode}
  /\ readyQueue \subseteq Nodes /\ blocked \subseteq Nodes /\ pool \subseteq Nodes
  /\ usage \in Nat /\ inFlight \in Nat
  /\ draining \in BOOLEAN
  /\ worker \in [Workers -> [at: Stages, node: Nodes \cup {NoNode}, ok: BOOLEAN,
                             ready: SUBSET Nodes]]
  /\ log \in Seq(LogEntry)
  /\ outcome \in {"none", "SUCCEEDED", "FAILED", "CANCELED"}

Busy == {w \in Workers : worker[w].at # "idle"}

(* in_flight_, which the dispatcher's exit and its wait condition rest on, *)
(* counts the tasks submitted and not finished, until the pool starts to   *)
(* refuse them.                                                            *)
InFlightExact == ~draining => inFlight = Cardinality(pool) + Cardinality(Busy)

(* "serializes all browser-class nodes in a run ... so they never run      *)
(* concurrently against the same browser session"                          *)
(* (concurrent_scheduler.hpp:21-23), a cancellation and the drain of the   *)
(* pool included.                                                          *)
BrowserExclusive ==
  Cardinality({w \in Workers : /\ worker[w].at \in {"taken", "running", "ran"}
                               /\ worker[w].node \in BrowserNodes}) <= 1

(* A task runs at most once, and after the tasks of all the predecessors   *)
(* of its node have completed.                                             *)
LogRespectsGraph ==
  \A i \in DOMAIN log :
    /\ \A j \in DOMAIN log : log[j].node = log[i].node => j = i
    /\ \A p \in Preds[log[i].node] :
         \E j \in 1..(i - 1) : log[j] = [node |-> p, ok |-> TRUE]

(* run() "blocks until all nodes reach a terminal state"                   *)
(* (concurrent_scheduler.hpp:128-129): the dispatcher never leaves its     *)
(* loop on a moment of quiet between a completion and the push of what it  *)
(* readied.                                                                *)
LeavesWhenDecided ==
  (pc \in {"draining", "joining", "returned"} /\ ~canceled) => AllTerminal(nodeState)

(* Without a cancellation the reported outcome is that of the nodes.       *)
OutcomeMatchesNodes ==
  (outcome # "none" /\ ~canceled) =>
    /\ outcome = runState
    /\ (outcome = "SUCCEEDED") = (\A n \in Nodes : nodeState[n] = "SUCCEEDED")

(* The threads use the state machine of SchedulerState as it is meant to   *)
(* be used, whatever their order.                                          *)
Machine == INSTANCE SchedulerState WITH
  depCount <- [n \in Nodes |-> UnmetDeps(nodeState, n)],
  completed <- {n \in Nodes : nodeState[n] \in Decided}

ImplementsMachine == Machine!Spec

(* run() returns: "Blocks until all nodes reach a terminal state (all      *)
(* succeeded, any failed, or run canceled)" (concurrent_scheduler.hpp:     *)
(* 128-129).                                                               *)
RunReturns == <>(pc = "returned")

=============================================================================
