----------------------------- MODULE EventFeed -----------------------------
(***************************************************************************)
(* How a browser follows one run: the scheduler writes rows and then       *)
(* events, the SSE route replays the event stream, falls back to the rows  *)
(* when the replay is empty, then tails; the provider folds what it is     *)
(* sent into the view it shows.  Connections break, events may never be    *)
(* published, and only replayed frames carry an id to resume from.         *)
(* The run is abstracted to the order in which the run loop writes.        *)
(***************************************************************************)
EXTENDS Integers, Sequences, FiniteSets, SequencesExt

CONSTANTS
  Nodes,      \* of the run
  Later,      \* Later[n]: the nodes canceled when n fails
  NoNode,     \* the node of a run-level event
  Outcomes,   \* what may end a run early: canceled, timeout, stopped
  MaxRetries, \* retries and expired leases of the run
  MaxFaults   \* lost events, broken connections and entries the reducer skips

ASSUME FeedConstants ==
  /\ Later \in [Nodes -> SUBSET Nodes]
  /\ NoNode \notin Nodes
  /\ Outcomes \subseteq {"canceled", "timeout", "stopped"}
  /\ {MaxRetries, MaxFaults} \subseteq Nat

VARIABLES
  runRow,   \* workflow_runs.status
  nodeRow,  \* node_runs.status; "none": no row yet
  doomed,   \* nodes canceled in memory whose rows are not written yet
  outcome,  \* what the loop will finish the run with
  unsent,   \* the event of the row written last
  stream,   \* the Redis stream: [event, ours]
  budget,   \* what is left of the two bounds: [retries, faults]
  conn,     \* the route's side of the connection: [phase, from, cursor, seen]
  wire,     \* frames on their way to the browser
  client    \* EvoRunEventsProviderInner and its EventSource

runVars    == <<runRow, nodeRow, doomed, outcome>>
serverVars == <<runVars, unsent, stream>>
vars       == <<serverVars, budget, conn, wire, client>>

RunRows  == {"queued", "running", "succeeded", "failed", "canceled"}
NodeRows == {"none", "blocked", "ready", "running", "retry_wait",
             "succeeded", "failed", "dead_lettered", "canceled"}

TerminalRuns  == {"succeeded", "failed", "canceled"}
TerminalNodes == {"succeeded", "failed", "dead_lettered", "canceled"}

Event(kind, node, detail) == [kind |-> kind, node |-> node, detail |-> detail]

Events ==
  [kind : {"run_started", "node_dispatched", "node_succeeded", "node_failed", "node_canceled",
           "node_retry_scheduled", "node_lease_expired", "node_dead_lettered",
           "run_finished", "browser_session_opened"},
   node : Nodes \cup {NoNode},
   detail : {"", "succeeded", "failed", "canceled", "timeout", "stopped"}]

NoEvent == Event("none", NoNode, "")

-----------------------------------------------------------------------------
(* The view model *)

Steps == {"absent", "pending", "running", "done", "failed", "canceled"}

\* An event whose node has no step yet makes it one.
Ensured(step) == IF step = "absent" THEN "pending" ELSE step

\* A dispatch marks its step running, whatever the step has become since.
DispatchRestarts(kind, step) ==
  CASE kind \in {"node_dispatched", "node_retry_scheduled"} -> "running"
    [] kind = "node_succeeded" -> "done"
    [] kind \in {"node_failed", "node_dead_lettered"} -> "failed"
    [] kind = "node_canceled" -> IF step \in {"done", "failed"} THEN step ELSE "canceled"
    [] OTHER -> step

\* The status a node event leaves its step with.
StepAfter(kind, step) ==
  CASE kind = "node_dispatched" -> IF Ensured(step) = "pending" THEN "running" ELSE step
    [] kind = "node_succeeded" -> "done"
    [] kind = "node_failed" -> "failed"
    [] kind = "node_canceled" -> IF step \in {"done", "failed"} THEN step ELSE "canceled"
    [] kind = "node_retry_scheduled" -> IF step \in {"done", "failed"} THEN step ELSE "running"
    [] kind = "node_dead_lettered" -> IF step = "done" THEN step ELSE "failed"
    [] OTHER -> step

\* A stopped run, or one that timed out, taken for a failed one.
FinishLooksFailed(detail) == IF detail \in {"succeeded", "canceled"} THEN detail ELSE "failed"

\* The status of a finished run, from the detail of run_finished.
FinishStatus(detail) ==
  CASE detail = "succeeded" -> "succeeded"
    [] detail \in {"canceled", "stopped", "timeout"} -> "canceled"
    [] OTHER -> "failed"

\* One turn of the loop of reduceEvoEvents.
Reduce(view, e) ==
  CASE e.kind = "run_started" -> [view EXCEPT !.status = "running"]
    [] e.kind = "run_finished" -> [view EXCEPT !.status = FinishStatus(e.detail)]
    [] e.node # NoNode /\ e.kind \notin {"run_started", "run_finished"} ->
         [view EXCEPT !.steps[e.node] = StepAfter(e.kind, @)]
    [] OTHER -> view

BlankView == [status |-> "queued", steps |-> [n \in Nodes |-> "absent"]]

Views == [status : RunRows, steps : [Nodes -> Steps]]

\* mapNodeStatus before retries came to the engine.
StepOfOldRow(row) ==
  CASE row = "none" -> "absent"
    [] row = "succeeded" -> "done"
    [] row \in {"failed", "canceled"} -> row
    [] row \in {"running", "ready"} -> "running"
    [] OTHER -> "pending"

\* mapNodeStatus of the durable snapshot.
StepOfRow(row) ==
  CASE row = "none" -> "absent"
    [] row = "succeeded" -> "done"
    [] row \in {"failed", "dead_lettered"} -> "failed"
    [] row = "canceled" -> "canceled"
    [] row \in {"running", "ready", "retry_wait"} -> "running"
    [] OTHER -> "pending"

\* The view of a run row read first and node rows read after it.
SnapshotOf(run, rows) == [status |-> run, steps |-> [n \in Nodes |-> StepOfRow(rows[n])]]

IsTerminal(view) == view.status \in TerminalRuns

NoView == [status |-> "none"]

-----------------------------------------------------------------------------
(* Types and the initial state *)

EventFrame(e, id) == [kind |-> "run-event", event |-> e, id |-> id]
SnapshotFrame(v)  == [kind |-> "snapshot", view |-> v]

Frame(f) ==
  \/ f.kind = "run-event" /\ f.event \in Events /\ f.id \in 0 .. Len(stream)
  \/ f.kind = "snapshot" /\ f.view \in Views

TypeOK ==
  /\ runRow \in RunRows /\ nodeRow \in [Nodes -> NodeRows] /\ doomed \subseteq Nodes
  /\ outcome \in {"none", "canceled", "timeout", "stopped"}
  /\ unsent \in Events \cup {NoEvent}
  /\ \A i \in DOMAIN stream : stream[i].event \in Events /\ stream[i].ours \in BOOLEAN
  /\ budget \in [retries : Nat, faults : Nat]
  /\ conn.phase \in {"none", "replay", "snapshot", "nodes", "tail", "ended"}
  /\ conn.from \in 0 .. Len(stream) /\ conn.cursor \in conn.from .. Len(stream)
  /\ \A i \in DOMAIN wire : Frame(wire[i])
  /\ client.mode \in {"connecting", "open", "closed", "refused"}
  /\ client.lastId \in 0 .. conn.cursor
  /\ client.received \in BOOLEAN /\ client.terminal \in BOOLEAN
  /\ client.fold \in Views /\ client.snapshot \in Views \cup {NoView}

\* The app has inserted the run row; the loop has not created the node rows.
Init ==
  /\ runRow = "queued" /\ nodeRow = [n \in Nodes |-> "none"] /\ doomed = {}
  /\ outcome = "none" /\ unsent = NoEvent /\ stream = <<>>
  /\ budget = [retries |-> MaxRetries, faults |-> MaxFaults]
  /\ conn = [phase |-> "none", from |-> 0, cursor |-> 0, seen |-> "queued"]
  /\ wire = <<>>
  /\ client = [mode |-> "connecting", lastId |-> 0, received |-> FALSE, terminal |-> FALSE,
               fold |-> BlankView, snapshot |-> NoView]

-----------------------------------------------------------------------------
(* The run loop, the workers and other runs: rows first, then their event *)

Feedless == UNCHANGED <<stream, conn, wire, client>>

\* The loop does nothing else between a row and its event.
Idle == unsent = NoEvent

WriteNode(n, row, kind) ==
  /\ nodeRow' = [nodeRow EXCEPT ![n] = row]
  /\ unsent' = IF kind = "" THEN NoEvent ELSE Event(kind, n, "")
  /\ Feedless

Spend(what) == budget[what] > 0 /\ budget' = [budget EXCEPT ![what] = @ - 1]

CreateRows ==
  /\ runRow = "queued"
  /\ runRow' = "running" /\ nodeRow' = [n \in Nodes |-> "blocked"]
  /\ unsent' = Event("run_started", NoNode, "")
  /\ UNCHANGED <<doomed, outcome, budget>> /\ Feedless

Working == Idle /\ runRow = "running" /\ outcome = "none" /\ doomed = {}

Unblocked(n) == \A m \in Nodes : n \in Later[m] => nodeRow[m] = "succeeded"

Dispatch(n) ==
  /\ Working /\ nodeRow[n] \in {"blocked", "ready"} /\ Unblocked(n)
  /\ WriteNode(n, "running", "node_dispatched")
  /\ UNCHANGED <<runRow, doomed, outcome, budget>>

Succeed(n) ==
  /\ Working /\ nodeRow[n] = "running"
  /\ WriteNode(n, "succeeded", "node_succeeded")
  /\ UNCHANGED <<runRow, doomed, outcome, budget>>

\* A failure that is not retried, or whose retries are used up.
FailNode(n) ==
  /\ Working /\ nodeRow[n] = "running"
  /\ \/ WriteNode(n, "failed", "node_failed")
     \/ budget.retries = 0 /\ WriteNode(n, "dead_lettered", "node_dead_lettered")
  /\ doomed' = Later[n]
  /\ UNCHANGED <<runRow, outcome, budget>>

\* A retry is parked, or the attempt's lease has run out.
Retry(n) ==
  /\ Working /\ nodeRow[n] = "running" /\ Spend("retries")
  /\ \/ WriteNode(n, "retry_wait", "node_retry_scheduled")
     \/ WriteNode(n, "ready", "node_lease_expired")
  /\ UNCHANGED <<runRow, doomed, outcome>>

BackoffElapses(n) ==
  /\ Working /\ nodeRow[n] = "retry_wait"
  /\ WriteNode(n, "ready", "")
  /\ UNCHANGED <<runRow, doomed, outcome, budget>>

\* A cancel, the run's deadline or a stop: every node still open is canceled.
CancelRun ==
  /\ Working
  /\ outcome' \in Outcomes
  /\ doomed' = {n \in Nodes : nodeRow[n] \notin TerminalNodes}
  /\ UNCHANGED <<runRow, nodeRow, unsent, budget>> /\ Feedless

\* One turn of persist_canceled.
PersistCanceled(n) ==
  /\ Idle /\ n \in doomed
  /\ doomed' = doomed \ {n}
  /\ WriteNode(n, "canceled", "node_canceled")
  /\ UNCHANGED <<runRow, outcome, budget>>

FinishRun ==
  /\ Idle /\ runRow = "running" /\ doomed = {}
  /\ \A n \in Nodes : nodeRow[n] \in TerminalNodes
  /\ LET status == IF outcome # "none" THEN "canceled"
                   ELSE IF \A n \in Nodes : nodeRow[n] = "succeeded" THEN "succeeded" ELSE "failed"
     IN  /\ runRow' = status
         /\ unsent' = Event("run_finished", NoNode, IF outcome # "none" THEN outcome ELSE status)
  /\ UNCHANGED <<nodeRow, doomed, outcome, budget>> /\ Feedless

Append1(e, ours) == stream' = Append(stream, [event |-> e, ours |-> ours])

\* transport_.publish, whose failure emit ignores; a crash of the scheduler
\* between the row and the event has the same effect.
Publish ==
  /\ ~Idle /\ unsent' = NoEvent
  /\ \/ Append1(unsent, TRUE) /\ UNCHANGED budget
     \/ Spend("faults") /\ UNCHANGED stream
  /\ UNCHANGED <<runVars, conn, wire, client>>

\* Another run's event, or the worker's event for the session it opened.
Noise ==
  /\ Spend("faults")
  /\ \/ Append1(Event("run_started", NoNode, ""), FALSE)
     \/ runRow # "queued" /\ Append1(Event("browser_session_opened", NoNode, ""), TRUE)
  /\ UNCHANGED <<runVars, unsent, conn, wire, client>>

Loop ==
  \/ CreateRows \/ CancelRun \/ FinishRun \/ Publish \/ Noise
  \/ \E n \in Nodes : \/ Dispatch(n) \/ Succeed(n) \/ FailNode(n) \/ Retry(n)
                      \/ BackoffElapses(n) \/ PersistCanceled(n)

-----------------------------------------------------------------------------
(* The route *)

Serverless == UNCHANGED <<serverVars>>

Disconnected(id) == [phase |-> "none", from |-> id, cursor |-> id, seen |-> "queued"]

\* EventSource opens the connection, with the id of the last frame that had one.
Connect ==
  /\ client.mode = "connecting"
  /\ client' = [client EXCEPT !.mode = "open"]
  /\ conn' = [Disconnected(client.lastId) EXCEPT !.phase = "replay"]
  /\ Serverless /\ UNCHANGED <<budget, wire>>

\* The route answers with an error: no session, or no organization, for the moment,
\* or no answer from Postgres about the run.  EventSource never tries again.
Refuse ==
  /\ client.mode = "connecting" /\ Spend("faults")
  /\ client' = [client EXCEPT !.mode = "refused"]
  /\ Serverless /\ UNCHANGED <<conn, wire>>

\* The run's entries of the stream after `from`, by their ids.
OursAfter(from) == {i \in from + 1 .. Len(stream) : stream[i].ours}

\* The k-th of a set of ids, in their order.
Nth(ids, k) == CHOOSE i \in ids : Cardinality({j \in ids : j <= i}) = k

\* They become frames with their ids, in the order of the stream.
Replayed(from) ==
  LET ids == OursAfter(from)
  IN  [k \in 1 .. Cardinality(ids) |-> EventFrame(stream[Nth(ids, k)].event, Nth(ids, k))]

SawTerminal(frames) == \E i \in DOMAIN frames : frames[i].event.kind = "run_finished"

\* At the end of the stream as it is when the tail starts.
TailFromEnd(c) == Len(stream)

\* Where the tail starts: at the last entry the replay has read.
TailFrom(c) == c.cursor

\* XRANGE; nothing for this run means the durable snapshot.
Replay ==
  /\ conn.phase = "replay"
  /\ LET frames == Replayed(conn.from) IN
       /\ wire' = wire \o frames
       /\ conn' = [conn EXCEPT !.cursor = Len(stream),
                               !.phase = IF frames = <<>> THEN "snapshot"
                                         ELSE IF SawTerminal(frames) THEN "ended" ELSE "tail"]
  /\ Serverless /\ UNCHANGED <<budget, client>>

\* durableRunSnapshot, first SELECT: the run row.
SnapshotRun ==
  /\ conn.phase = "snapshot"
  /\ conn' = [conn EXCEPT !.phase = "nodes", !.seen = runRow]
  /\ Serverless /\ UNCHANGED <<budget, wire, client>>

\* What the snapshot says: the run row as it was read, the node rows as they are.
Snapshot == SnapshotOf(conn.seen, nodeRow)

\* Second SELECT: the node rows.  A terminal snapshot ends the stream.
SnapshotNodes ==
  /\ conn.phase = "nodes"
  /\ wire' = Append(wire, SnapshotFrame(Snapshot))
  /\ conn' = [conn EXCEPT !.seen = "queued", !.cursor = TailFrom(conn),
                          !.phase = IF IsTerminal(Snapshot) THEN "ended" ELSE "tail"]
  /\ Serverless /\ UNCHANGED <<budget, client>>

\* One entry of an XREAD; a tailed frame has no id.
TailEntry ==
  /\ conn.phase = "tail" /\ conn.cursor < Len(stream)
  /\ LET entry == stream[conn.cursor + 1] IN
       /\ wire' = IF entry.ours THEN Append(wire, EventFrame(entry.event, 0)) ELSE wire
       /\ conn' = [conn EXCEPT !.cursor = @ + 1,
                               !.phase = IF entry.ours /\ entry.event.kind = "run_finished"
                                         THEN "ended" ELSE @]
  /\ Serverless /\ UNCHANGED <<budget, client>>

\* The ten minutes are over, or Redis or Postgres has answered with an error.
GiveUp ==
  /\ conn.phase \in {"replay", "snapshot", "nodes", "tail"}
  /\ Spend("faults")
  /\ conn' = [conn EXCEPT !.phase = "ended"]
  /\ Serverless /\ UNCHANGED <<wire, client>>

-----------------------------------------------------------------------------
(* The provider *)

OnRunEvent(c, f) ==
  [c EXCEPT !.fold = Reduce(@, f.event), !.received = TRUE,
            !.lastId = IF f.id > 0 THEN f.id ELSE @,
            !.terminal = @ \/ f.event.kind = "run_finished"]

OnSnapshot(c, f) == [c EXCEPT !.snapshot = f.view, !.terminal = @ \/ IsTerminal(f.view)]

Deliver ==
  /\ client.mode = "open" /\ wire # <<>>
  /\ wire' = Tail(wire)
  /\ client' = IF Head(wire).kind = "snapshot" THEN OnSnapshot(client, Head(wire))
               ELSE OnRunEvent(client, Head(wire))
  /\ Serverless /\ UNCHANGED <<budget, conn>>

\* Close on any error.
OnErrorCloses(c) == [c EXCEPT !.mode = "closed"]

\* source.onerror: close for good after a terminal frame, else reconnect.
OnError(c) == [c EXCEPT !.mode = IF c.terminal THEN "closed" ELSE "connecting"]

HangUp ==
  /\ client' = OnError(client)
  /\ conn' = Disconnected(client.lastId)
  /\ wire' = <<>>
  /\ Serverless

\* The stream has ended and everything sent has arrived.
StreamEnds == client.mode = "open" /\ conn.phase = "ended" /\ wire = <<>>
              /\ HangUp /\ UNCHANGED budget

\* The network breaks the connection; what was on its way is gone.
Drop == client.mode = "open" /\ Spend("faults") /\ HangUp

Feed == Connect \/ Refuse \/ Replay \/ SnapshotRun \/ SnapshotNodes \/ TailEntry \/ GiveUp
        \/ Deliver \/ StreamEnds \/ Drop

Next == Loop \/ Feed

Spec == Init /\ [][Next]_vars

\* The route and EventSource keep going; the network delivers.  Nothing is asked
\* of the run, nor that a connection is given up.
FairSpec ==
  /\ Spec
  /\ WF_vars(Connect) /\ WF_vars(Replay) /\ WF_vars(SnapshotRun) /\ WF_vars(SnapshotNodes)
  /\ WF_vars(TailEntry) /\ WF_vars(Deliver) /\ WF_vars(StreamEnds)

-----------------------------------------------------------------------------
(* Properties *)

\* What useEvoRunView shows.
View == IF client.received THEN client.fold ELSE client.snapshot

HasView == View # NoView

\* The fold of what the first k entries of the stream say of the run.
FoldUpTo[k \in 0 .. Len(stream)] ==
  IF k = 0 THEN BlankView
  ELSE IF stream[k].ours THEN Reduce(FoldUpTo[k - 1], stream[k].event) ELSE FoldUpTo[k - 1]

\* The fold of everything published for the run so far.
FoldOfStream == FoldUpTo[Len(stream)]

\* A viewer who has caught up shows the fold of the whole stream: nothing is
\* skipped between replay, snapshot and tail, and what a reconnect replays a
\* second time (tailed frames carry no id) changes nothing.
CaughtUp ==
  (client.mode = "open" /\ conn.phase = "tail" /\ conn.cursor = Len(stream)
     /\ wire = <<>> /\ client.received)
    => client.fold = FoldOfStream

\* A view that says the run is over says how the row says it ended.
TerminalIsTrue == (HasView /\ IsTerminal(View)) => View.status = runRow

\* A snapshot that says the run is over shows every step decided, though it is
\* put together from two reads.
SnapshotIsWhole ==
  \A v \in {client.snapshot} \cup {f.view : f \in {f \in ToSet(wire) : f.kind = "snapshot"}} :
    (v # NoView /\ IsTerminal(v)) => \A n \in Nodes : v.steps[n] \in {"done", "failed", "canceled"}

\* A step shown as done or failed is never shown as anything else again, whatever
\* is replayed; nor is a run that is over.  (A step shown as canceled is: a
\* replayed node_retry_scheduled shows it running until node_canceled is replayed.)
DecidedStepsStay ==
  [][client.received =>
       /\ \A n \in Nodes : client.fold.steps[n] \in {"done", "failed"} =>
            client'.fold.steps[n] = client.fold.steps[n]
       /\ IsTerminal(client.fold) => client'.fold.status = client.fold.status]_vars

Finished == \E i \in DOMAIN stream : stream[i].event.kind = "run_finished"

\* onerror has closed the source because of a terminal snapshot, while the
\* provider, having received events, does not show snapshots any more.
ClosedOnIgnoredSnapshot ==
  client.mode = "closed" /\ client.received /\ client.snapshot # NoView
    /\ IsTerminal(client.snapshot)

\* Once run_finished is in the stream the viewer comes to show the run as over
\* and stops reconnecting, unless it closed on a snapshot that it ignores or was
\* refused by the route, after which it says that it reconnects and never does.
ViewSettles ==
  Finished ~> \/ client.mode = "refused"
              \/ client.mode = "closed" /\ (ClosedOnIgnoredSnapshot \/ IsTerminal(View))
=============================================================================
