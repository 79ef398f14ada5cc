----------------------------- MODULE TaskWorker -----------------------------
(***************************************************************************)
(* One worker process (worker/src/worker.ts as main.ts configures it): the *)
(* loop that claims task envelopes, the concurrent process() of each, the  *)
(* control loop that applies CANCEL_RUN, and stop().  A task runs the      *)
(* composite executor: synthetic nodes directly, product nodes through the *)
(* adapter, browser nodes with a session of BrowserSessions.  Each action  *)
(* is the code of one process() between two awaits, or the settling of an  *)
(* external call with one of its outcomes.                                 *)
(***************************************************************************)
EXTENDS BrowserSessions

CONSTANTS
  kindsOf,    \* what each envelope may hold
  MaxOrders   \* CANCEL_RUN deliveries of a run, duplicates included

Kinds == {"malformed", "synthetic", "trigger", "plain", "browser"}

ASSUME WorkerConstants ==
  /\ kindsOf \in [Tasks -> SUBSET Kinds]
  /\ MaxOrders \in Nat

VARIABLES
  kind,       \* what each envelope holds; never changes
  phase,      \* of the process: start() has returned, stop() not been called, ...
  reading,    \* readLoop has not returned
  listening,  \* controlLoop has not returned
  canceled,   \* canceledRuns, whose abort controllers have fired
  orders,     \* CANCEL_RUN messages this worker's control group has not read
  pc,         \* where the process() of each task stands
  using,      \* the session a task waits for or works with
  result,     \* the result envelope
  published,  \* tasks whose result is on the result stream
  acked       \* tasks acknowledged on the task stream

loopVars == <<phase, reading, listening, canceled, orders>>
taskVars == <<kind, pc, using, result, published, acked>>
vars     == <<sessionVars, loopVars, taskVars>>

Phases == {"running", "stopping", "draining", "closing", "stopped"}

Stages == {"queued", "decode", "acquire", "synthetic", "load", "preds", "opening", "view",
           "act", "shot", "publish", "publish_canceled", "ack", "done", "pending"}

\* A result envelope, as far as the scheduler's decisions depend on it.
\* "executed" is the result the executor returned, before it is encoded.
Classes == {"none", "transient", "permanent", "canceled"}

Results == [status : {"OK", "NODE_FAILED", "CANCELED", "executed"}, class : Classes]

NoResult == [status |-> "none", class |-> "none"]

TypeOK ==
  /\ SessionTypeOK
  /\ kind \in [Tasks -> Kinds]
  /\ phase \in Phases /\ reading \in BOOLEAN /\ listening \in BOOLEAN
  /\ canceled \subseteq Runs
  /\ orders \in [Runs -> 0 .. MaxOrders]
  /\ pc \in [Tasks -> Stages]
  /\ using \in [Tasks -> Tasks \cup {NoTask}]
  /\ result \in [Tasks -> Results \cup {NoResult}]
  /\ published \subseteq Tasks /\ acked \subseteq Tasks
  /\ \A t \in Tasks : result[t].status = "executed" <=> pc[t] = "shot"

Settled == {"done", "pending"}

InFlight == {t \in Tasks : pc[t] \notin Settled \cup {"queued"}}

Up == phase # "stopped"

\* A CANCEL_RUN has been seen for the run.
IsRunCanceled(r) == r \in canceled

\* The run's abort controller has fired, the same for the tasks before and after the order.
RunAborted(r) == IsRunCanceled(r)

\* AbortSignal.any of the worker's signal and the run's.
Aborted(t) == phase # "running" \/ RunAborted(runOf[t])

Init ==
  /\ SessionInit
  /\ kind \in {f \in [Tasks -> Kinds] : \A t \in Tasks : f[t] \in kindsOf[t]}
  /\ phase = "running" /\ reading = TRUE /\ listening = TRUE
  /\ canceled = {}
  /\ orders = [r \in Runs |-> MaxOrders]   \* not all need be read
  /\ pc = [t \in Tasks |-> "queued"]
  /\ using = [t \in Tasks |-> NoTask]
  /\ result = [t \in Tasks |-> NoResult]
  /\ published = {} /\ acked = {}

-----------------------------------------------------------------------------
(* Claiming *)

Goto(t, stage) == pc' = [pc EXCEPT ![t] = stage]

\* readGroup returns an envelope; a read that was outstanding when stop() was
\* called may still return one, the loop's last.
Claim(t) ==
  /\ reading /\ pc[t] = "queued"
  /\ Goto(t, "decode")
  /\ reading' = (phase = "running")
  /\ UNCHANGED <<sessionVars, phase, listening, canceled, orders, using, result,
                 published, acked, kind>>

Canceled == [status |-> "CANCELED", class |-> "canceled"]

\* The envelope is decoded: quarantined, or answered for a canceled run, or
\* taken on.
Decode(t) ==
  /\ Up /\ pc[t] = "decode"
  /\ \/ kind[t] = "malformed" /\ Goto(t, "ack") /\ UNCHANGED result
     \/ /\ kind[t] # "malformed" /\ IsRunCanceled(runOf[t])
        /\ Goto(t, "publish_canceled")
        /\ result' = [result EXCEPT ![t] = Canceled]
     \/ /\ kind[t] # "malformed" /\ ~IsRunCanceled(runOf[t])
        /\ Goto(t, "acquire") /\ UNCHANGED result
  /\ UNCHANGED <<sessionVars, loopVars, kind, using, published, acked>>

\* What the UPDATE of acquireAttemptLease may come to: the row is this worker's;
\* another worker or the scheduler has it; Postgres cannot be reached.
LeaseAnswers == {"granted", "refused", "error"}

\* An error counts as a refusal.  A lease lost later changes nothing here: the
\* worker ignores the answers to its renewals.
Acquire(t) ==
  /\ Up /\ pc[t] = "acquire"
  /\ \E answer \in LeaseAnswers :
       Goto(t, CASE answer # "granted" -> "ack"
                 [] kind[t] = "synthetic" -> "synthetic"
                 [] OTHER -> "load")
  /\ UNCHANGED <<sessionVars, loopVars, kind, using, result, published, acked>>

-----------------------------------------------------------------------------
(* Executing *)

\* The status of a result is decided when it is encoded, from canceledRuns.
Encode(t, class) ==
  [status |-> IF class = "none" THEN "OK"
              ELSE IF IsRunCanceled(runOf[t]) THEN "CANCELED" ELSE "NODE_FAILED",
   class  |-> class]

\* The executor returns to process(), by way of main.ts's screenshot when it
\* is the product executor.
Return(t, class) ==
  /\ result' = [result EXCEPT ![t] = [status |-> "executed", class |-> class]]
  /\ Goto(t, "shot")

\* The executor throws: the cancellation of the run, or a transient failure.
Throw(t) ==
  /\ result' = [result EXCEPT
                  ![t] = Encode(t, IF IsRunCanceled(runOf[t]) THEN "canceled" ELSE "transient")]
  /\ Goto(t, "publish")

\* syntheticExecutor: a sleep rejects on abort, an outcome is returned else.
RunSynthetic(t) ==
  /\ Up /\ pc[t] = "synthetic"
  /\ \/ Aborted(t) /\ Throw(t)
     \/ \E class \in {"none", "transient", "permanent"} :
          /\ result' = [result EXCEPT ![t] = Encode(t, class)]
          /\ Goto(t, "publish")
  /\ UNCHANGED <<sessionVars, loopVars, kind, using, published, acked>>

\* loadVersion reads the snapshot of the task's version, in which the node is
\* then looked up.
VersionAnswers == {"error", "absent", "node"}

\* A signal fired by now, whoever fired it, ends the attempt as canceled.
LoadVersion(t) ==
  /\ Up /\ pc[t] = "load"
  /\ \E answer \in VersionAnswers :
       \/ answer = "error" /\ Throw(t)
       \/ answer = "absent" /\ Return(t, "permanent")
       \/ answer = "node" /\ kind[t] = "trigger" /\ Return(t, "none")
       \/ answer = "node" /\ kind[t] # "trigger" /\ Aborted(t) /\ Return(t, "canceled")
       \/ /\ answer = "node" /\ kind[t] # "trigger" /\ ~Aborted(t)
          /\ Goto(t, "preds") /\ UNCHANGED result
  /\ UNCHANGED <<sessionVars, loopVars, kind, using, published, acked>>

\* Waiting for the live view or going on with a session that exists.
EnterSession(t, s) ==
  /\ using' = [using EXCEPT ![t] = s]
  /\ IF watched[s] THEN Goto(t, "act") /\ UNCHANGED sessionVars
                   ELSE Goto(t, "view") /\ Watch(s)

\* Mutant: an open in flight is not shared.
GetSessionEach(t) ==
  \/ HasLive(keyOf[t]) /\ EnterSession(t, sessions[keyOf[t]])
  \/ /\ ~HasLive(keyOf[t])
     /\ Goto(t, "opening")
     /\ using' = [using EXCEPT ![t] = t]
     /\ StartOpen(t)

\* getForTask up to its first await: the open session of the key, the open in
\* flight for it, or an open of this task's own.
GetSession(t) ==
  \/ HasLive(keyOf[t]) /\ EnterSession(t, sessions[keyOf[t]])
  \/ /\ ~HasLive(keyOf[t])
     /\ Goto(t, "opening")
     /\ \/ \E s \in Opening(keyOf[t]) : /\ using' = [using EXCEPT ![t] = s]
                                        /\ UNCHANGED sessionVars
        \/ /\ Opening(keyOf[t]) = {}
           /\ using' = [using EXCEPT ![t] = t]
           /\ StartOpen(t)

\* loadPredecessorOutputs queries the run, its version and the node rows; a
\* missing one is no error but an empty output.
OutputAnswers == {"error", "outputs"}

LoadPredecessors(t) ==
  /\ Up /\ pc[t] = "preds"
  /\ \E answer \in OutputAnswers :
       \/ answer = "error" /\ Throw(t) /\ UNCHANGED <<sessionVars, using>>
       \/ /\ answer = "outputs" /\ kind[t] = "plain" /\ Goto(t, "act")
          /\ UNCHANGED <<sessionVars, using, result>>
       \/ answer = "outputs" /\ kind[t] = "browser" /\ GetSession(t) /\ UNCHANGED result
  /\ UNCHANGED <<loopVars, kind, published, acked>>

Waiting(s) == {t \in Tasks : pc[t] = "opening" /\ using[t] = s}

\* The open of s succeeds: its callers go on, the first of them to the wait.
SessionOpens(s) ==
  /\ Up
  /\ OpenSucceeds(s, Waiting(s) # {})
  /\ \/ Waiting(s) = {} /\ UNCHANGED pc
     \/ \E first \in Waiting(s) :
          pc' = [t \in Tasks |-> IF t = first THEN "view"
                                 ELSE IF t \in Waiting(s) THEN "act" ELSE pc[t]]
  /\ UNCHANGED <<loopVars, using, result, published, acked, kind>>

\* Mutant: only the caller that started the open learns that it failed.
OpenRejectsOpener(s) ==
  /\ Up
  /\ OpenFails(s)
  /\ Return(s, "transient")
  /\ using' = [using EXCEPT ![s] = NoTask]
  /\ UNCHANGED <<loopVars, kind, published, acked>>

\* The open of s fails: every caller's executor fails.
OpenRejects(s) ==
  /\ Up
  /\ OpenFails(s)
  /\ pc' = [t \in Tasks |-> IF t \in Waiting(s) THEN "shot" ELSE pc[t]]
  /\ result' = [t \in Tasks |-> IF t \in Waiting(s)
                                THEN [status |-> "executed", class |-> "transient"]
                                ELSE result[t]]
  /\ using' = [t \in Tasks |-> IF t \in Waiting(s) THEN NoTask ELSE using[t]]
  /\ UNCHANGED <<loopVars, kind, published, acked>>

\* The live view has connected, or the wait for it has timed out.
LiveViewReady(t) ==
  /\ Up /\ pc[t] = "view"
  /\ Goto(t, "act")
  /\ UNCHANGED <<sessionVars, loopVars, using, result, published, acked, kind>>

\* The node's executor ends; a session that was closed meanwhile fails it.
Act(t) ==
  /\ Up /\ pc[t] = "act"
  /\ \/ Return(t, "transient")
     \/ /\ using[t] # NoTask => state[using[t]] # "gone"
        /\ Return(t, "none")
  /\ using' = [using EXCEPT ![t] = NoTask]
  /\ UNCHANGED <<sessionVars, loopVars, kind, published, acked>>

\* The page of the key's open session, if it has one, is captured and saved;
\* then the result is encoded.
Capture(t) ==
  /\ Up /\ pc[t] = "shot"
  /\ result' = [result EXCEPT ![t] = Encode(t, result[t].class)]
  /\ Goto(t, "publish")
  /\ UNCHANGED <<sessionVars, loopVars, kind, using, published, acked>>

-----------------------------------------------------------------------------
(* Handing off *)

\* Mutant: the envelope is acked whether or not its result was published.
PublishThenAck(t) ==
  /\ Up /\ pc[t] \in {"publish", "publish_canceled"}
  /\ \E sent \in SUBSET {t} : published' = published \cup sent
  /\ Goto(t, "ack")
  /\ UNCHANGED <<sessionVars, loopVars, kind, using, result, acked>>

\* One of the three attempts to publish succeeds, or none does.  Only process()
\* looks at the difference; the canceled result's publisher just returns.
Publish(t) ==
  /\ Up /\ pc[t] \in {"publish", "publish_canceled"}
  /\ \/ published' = published \cup {t} /\ Goto(t, "ack")
     \/ /\ Goto(t, IF pc[t] = "publish" THEN "pending" ELSE "ack")
        /\ UNCHANGED published
  /\ UNCHANGED <<sessionVars, loopVars, kind, using, result, acked>>

\* The ack arrives, or throws and leaves the envelope pending in the group.
Ack(t) ==
  /\ Up /\ pc[t] = "ack"
  /\ \/ acked' = acked \cup {t} /\ Goto(t, "done")
     \/ Goto(t, "pending") /\ UNCHANGED acked
  /\ UNCHANGED <<sessionVars, loopVars, kind, using, result, published>>

-----------------------------------------------------------------------------
(* Cancellation and shutdown *)

\* controlLoop reads a CANCEL_RUN of r.  One read may still return after stop() was called.
ReadOrder(r) ==
  /\ listening /\ closer.mode = "idle" /\ orders[r] > 0
  /\ orders' = [orders EXCEPT ![r] = @ - 1]
  /\ listening' = (phase = "running")

\* The order is applied up to its first await; a duplicate does nothing.
ApplyCancel(r) ==
  /\ ReadOrder(r)
  /\ canceled' = canceled \cup {r}
  /\ IF IsRunCanceled(r) THEN UNCHANGED sessionVars ELSE BeginCancel(r)
  /\ UNCHANGED <<phase, reading, taskVars>>

MoveCloser == Up /\ CloserStep /\ UNCHANGED <<loopVars, taskVars>>

\* onCancelRun returns to the control loop, or onShutdown to stop().
CloserReturns ==
  /\ Up /\ CloserDone
  /\ phase' = IF closer.mode = "shutdown" THEN "stopped" ELSE phase
  /\ UNCHANGED <<reading, listening, canceled, orders, taskVars>>

Stop ==
  /\ phase = "running"
  /\ phase' = "stopping"
  /\ UNCHANGED <<sessionVars, reading, listening, canceled, orders, taskVars>>

\* A blocking read times out and its loop sees `stopping`.
ReadLoopEnds ==
  /\ phase = "stopping" /\ reading /\ reading' = FALSE
  /\ UNCHANGED <<sessionVars, phase, listening, canceled, orders, taskVars>>

ControlLoopEnds ==
  /\ phase = "stopping" /\ listening /\ closer.mode = "idle" /\ listening' = FALSE
  /\ UNCHANGED <<sessionVars, phase, reading, canceled, orders, taskVars>>

\* Both loops have returned; what they started is drained.
Drain ==
  /\ phase = "stopping" /\ ~reading /\ ~listening /\ closer.mode = "idle"
  /\ phase' = "draining"
  /\ UNCHANGED <<sessionVars, reading, listening, canceled, orders, taskVars>>

\* Nothing is in flight or the deadline has passed; the sessions are closed.
CloseSessions ==
  /\ phase = "draining"
  /\ phase' = "closing"
  /\ BeginCloseAll
  /\ UNCHANGED <<reading, listening, canceled, orders, taskVars>>

-----------------------------------------------------------------------------
TaskStep(t) ==
  \/ Decode(t) \/ Acquire(t) \/ RunSynthetic(t) \/ LoadVersion(t) \/ LoadPredecessors(t)
  \/ LiveViewReady(t) \/ Act(t) \/ Capture(t) \/ Publish(t) \/ Ack(t)

OpenSettles(s) == SessionOpens(s) \/ OpenRejects(s)

LoopEnds == ReadLoopEnds \/ ControlLoopEnds \/ Drain \/ CloseSessions

Next ==
  \/ \E t \in Tasks : Claim(t) \/ TaskStep(t) \/ OpenSettles(t)
  \/ \E r \in Runs : ApplyCancel(r)
  \/ MoveCloser \/ CloserReturns \/ Stop \/ LoopEnds

Spec == Init /\ [][Next]_vars

\* Every external call settles, reads and the drain time out: the event loop
\* runs each continuation that is ready.
FairSpec ==
  /\ Spec
  /\ \A t \in Tasks : WF_vars(TaskStep(t)) /\ WF_vars(OpenSettles(t))
  /\ WF_vars(MoveCloser) /\ WF_vars(CloserReturns) /\ WF_vars(LoopEnds)

-----------------------------------------------------------------------------
KeyCanceled(k) == \E t \in Tasks : keyOf[t] = k /\ runOf[t] \in canceled

\* While no run of an affinity key is canceled and the worker is not closing
\* down, the key has at most one session, opening or open; an open one is the
\* entry of the map, and every task at work in the browser works with it.
\* "One session per affinity key" (browser-session-manager.ts:6).
SessionExclusive ==
  \A k \in Keys :
    phase \notin {"closing", "stopped"} /\ ~KeyCanceled(k) =>
      /\ \A s, u \in Tasks : /\ keyOf[s] = k /\ keyOf[u] = k
                             /\ state[s] \in {"opening", "live"}
                             /\ state[u] \in {"opening", "live"}
                             => s = u
      /\ \A s \in Tasks : keyOf[s] = k /\ state[s] = "live" => sessions[k] = s
      /\ \A t \in Tasks : keyOf[t] = k /\ kind[t] = "browser" /\ pc[t] \in {"view", "act"}
                          => HasLive(k) /\ using[t] = sessions[k]

\* The durable handoff rule (worker.ts:519-522): an executed task is acked only
\* after its result is on the result stream, and a result that could not be
\* published leaves the envelope pending.  (A task that answers "canceled" is left out, although
\* only one that never began is acked when its answer could not be published; and one whose lease
\* was refused, or could not be had from the database, is acked without an answer.)
DurableHandoff ==
  \A t \in acked : result[t] \notin {NoResult, Canceled} => t \in published

\* Every claimed task is handed off, refused or left pending, and every stop()
\* completes, whatever sessions are opening and whoever waits for them.
ClaimsSettle ==
  /\ \A t \in Tasks : pc[t] = "decode" ~> pc[t] \in Settled \/ phase = "stopped"
  /\ phase = "stopping" ~> phase = "stopped"

=============================================================================
