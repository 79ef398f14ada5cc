----------------------------- MODULE LegacyTask -----------------------------
(***************************************************************************)
(* One legacy run: the attempts Trigger.dev makes of run-workflow, the     *)
(* Browserbase session each opens, the metadata they publish, the Live     *)
(* Browser panel of one tab with its two routes, the handshake between the *)
(* panel and the task, and the screenshot and replay shown afterwards.     *)
(* An attempt stands for its session too, which it alone opens.  The task  *)
(* moves from one await to the next; the platform may stop, kill or retry  *)
(* it in between.                                                          *)
(***************************************************************************)
EXTENDS Naturals, Sequences, FiniteSets

CONSTANTS
  Order,         \* the connected nodes in topological order, each given by its kind
  MaxAttempts,   \* retries.default.maxAttempts
  WaitPolls,     \* polls that fit in LIVE_VIEW_WAIT_MS
  MaxRetries,    \* of the panel for the debug URL
  MaxFaults      \* bound of the model: calls that fail

ASSUME TaskConstants ==
  /\ Order \in Seq({"start", "browser", "plain"})
  /\ MaxAttempts \in Nat \ {0} /\ WaitPolls \in Nat
  /\ MaxRetries \in Nat /\ MaxFaults \in Nat

VARIABLES
  status,     \* the run at Trigger.dev
  attempt,
  pc, at,     \* where the attempt stands, and its node
  outcome,    \* how the attempt left its body
  steps,      \* the steps of this attempt
  published,  \* the steps as the run's metadata shows them
  session,    \* the session the metadata shows, 0: none yet
  aborted,    \* the abort signal of the run
  hand,       \* the Stagehand of the attempt
  open,       \* sessions alive at Browserbase
  unclosable, \* sessions whose close failed or whose process was killed
  polls,      \* left until the deadline of waitForLiveView
  sighted,    \* the wait ended because the view was connected
  rows,       \* live_view_connections
  loaded,     \* sessions whose Live Browser frame has loaded
  view,       \* the Live Browser panel
  posts,      \* handshakes on their way through the connected route
  artifact,   \* run_artifacts: none, blank, or with a picture
  captured,   \* the attempt has a screenshot in hand
  results,    \* what the results popup and the replay panel show
  faults

taskVars    == <<pc, at, outcome, steps, hand, polls, sighted, captured>>
runVars     == <<status, attempt, aborted>>
sharedVars  == <<published, session, open, unclosable, rows, artifact>>
viewerVars  == <<loaded, view, posts, results>>
vars == <<taskVars, runVars, sharedVars, viewerVars, faults>>

Attempts == 1 .. MaxAttempts

Indices == 1 .. Len(Order)

StepStatus == {"pending", "running", "done", "failed", "canceled"}

Ended == {"COMPLETED", "FAILED", "CANCELED", "TIMED_OUT"}

Stages == {"load", "init", "announce", "check", "look", "abandon", "next", "execute", "finish",
           "shoot", "artifact", "close", "clear", "left", "gone"}

NoView == [state |-> "absent", session |-> 0, retries |-> 0, notified |-> 0]

TypeOK ==
  /\ status \in {"EXECUTING", "REATTEMPTING"} \cup Ended
  /\ attempt \in Attempts
  /\ pc \in Stages /\ at \in 1 .. Len(Order) + 1
  /\ outcome \in {"none", "returned", "threw", "canceled", "error", "unflushed"}
  /\ steps \in [Indices -> StepStatus] /\ published \in [Indices -> StepStatus]
  /\ session \in 0 .. MaxAttempts
  /\ aborted \in BOOLEAN /\ sighted \in BOOLEAN /\ captured \in BOOLEAN
  /\ hand \in {"none", "broken", "open", "closed"}
  /\ open \subseteq Attempts /\ unclosable \subseteq Attempts
  /\ rows \subseteq Attempts /\ loaded \subseteq Attempts
  /\ polls \in 0 .. WaitPolls
  /\ view \in [state : {"absent", "waiting", "connecting", "live", "unavailable"},
               session : 0 .. MaxAttempts, retries : 0 .. MaxRetries,
               notified : 0 .. MaxAttempts]
  /\ posts \subseteq [session : Attempts, allowed : BOOLEAN]
  /\ artifact \in {"none", "blank", "picture"}
  /\ results \in [picture : {"unseen", "shown", "placeholder"},
                  replay : {"closed", "loading", "ready", "error"}]
  /\ faults \in 0 .. MaxFaults

Seeded == [i \in Indices |-> "pending"]

Init ==
  /\ status = "EXECUTING" /\ attempt = 1 /\ aborted = FALSE
  /\ pc = "load" /\ at = 1 /\ outcome = "none"
  /\ steps = Seeded /\ published = Seeded /\ session = 0
  /\ hand = "none" /\ open = {} /\ unclosable = {}
  /\ polls = WaitPolls /\ sighted = FALSE /\ captured = FALSE
  /\ rows = {} /\ loaded = {} /\ view = NoView /\ posts = {}
  /\ artifact = "none"
  /\ results = [picture |-> "unseen", replay |-> "closed"]
  /\ faults = 0

\* A call either succeeds or fails at the cost of one fault.
Call(ok) == IF ok THEN UNCHANGED faults ELSE faults < MaxFaults /\ faults' = faults + 1

HasBrowserStep == \E i \in Indices : Order[i] = "browser"

Alive == pc \notin {"left", "gone"}

-----------------------------------------------------------------------------
(* The body of the task.                                                   *)

frame == <<runVars, viewerVars>>

\* getWorkflow and the seeding of the steps, not flushed yet.
Load ==
  /\ pc = "load"
  /\ \E ok \in BOOLEAN :
       /\ Call(ok)
       /\ IF ok THEN /\ pc' = IF HasBrowserStep THEN "init" ELSE "next"
                     /\ UNCHANGED outcome
                ELSE pc' = "left" /\ outcome' = "error"
  /\ UNCHANGED <<at, steps, hand, polls, sighted, captured, sharedVars, frame>>

\* stagehand.init, which may fail with or without a session behind it.
InitSession ==
  /\ pc = "init"
  /\ \E ok \in BOOLEAN, made \in BOOLEAN :
       /\ Call(ok) /\ (ok => made)
       /\ open' = IF made THEN open \cup {attempt} ELSE open
       /\ hand' = IF ok THEN "open" ELSE "broken"
       /\ pc' = IF ok THEN "announce" ELSE "abandon"
       /\ outcome' = IF ok THEN outcome ELSE "error"
  /\ UNCHANGED <<at, steps, polls, sighted, captured, published, session, unclosable, rows,
                 artifact, frame>>

\* metadata.flush publishes the steps as they now are, or it is refused: it throws, no handler of
\* its own is around it, and what was set is left to a flush of the SDK.
Flush(ok) == Call(ok) /\ published' = IF ok THEN steps' ELSE published

\* getStagehand publishes the session's id and flushes.
Announce ==
  /\ pc = "announce" /\ UNCHANGED steps
  /\ \E ok \in BOOLEAN :
       /\ Flush(ok)
       /\ session' = IF ok THEN attempt ELSE session
       /\ pc' = IF ok THEN "check" ELSE "abandon"
       /\ outcome' = IF ok THEN outcome ELSE "unflushed"
  /\ UNCHANGED <<at, hand, polls, sighted, captured, open, unclosable, rows, artifact, frame>>

Marked == [i \in Indices |-> IF steps[i] \in {"pending", "running"} THEN "canceled" ELSE steps[i]]

\* throwIfCanceled: the steps that did not run (here there always is one) are published as canceled,
\* and it throws; so does a refused flush, in its place.
ThrowIfCanceled(stage) ==
  /\ aborted /\ pc' = stage /\ steps' = Marked
  /\ \E ok \in BOOLEAN :
       Flush(ok) /\ outcome' = IF ok THEN "canceled" ELSE "unflushed"

\* One turn of the wait: the signal, then the row, then the time.
WaitChecks ==
  /\ pc = "check"
  /\ \/ polls > 0 /\ ThrowIfCanceled("abandon") /\ UNCHANGED polls
     \/ /\ pc' = IF polls = 0 THEN "next" ELSE "look"
        /\ polls > 0 => ~ aborted
        /\ UNCHANGED <<outcome, steps, published, polls, faults>>
  /\ UNCHANGED <<at, hand, sighted, captured, session, open, unclosable, rows, artifact, frame>>

AnyRow(s) == rows # {}   \* slip: the handshake of any session of the run is taken

IsLiveViewConnected(s) == s \in rows

KeepsWaiting(p) == p     \* slip: no deadline

SpendsPoll(p) == p - 1

WaitLooks ==
  /\ pc = "look"
  /\ \E ok \in BOOLEAN :
       /\ Call(ok)
       /\ \/ /\ ok /\ IsLiveViewConnected(attempt)
             /\ pc' = "next" /\ sighted' = TRUE /\ UNCHANGED <<polls, outcome>>
          \/ /\ ok /\ ~ IsLiveViewConnected(attempt)
             /\ pc' = "check" /\ polls' = SpendsPoll(polls) /\ UNCHANGED <<sighted, outcome>>
          \/ /\ ~ ok /\ ~ aborted
             /\ pc' = "check" /\ polls' = SpendsPoll(polls) /\ UNCHANGED <<sighted, outcome>>
          \/ /\ ~ ok /\ aborted   \* rethrown without marking the steps
             /\ pc' = "abandon" /\ outcome' = "error" /\ UNCHANGED <<polls, sighted>>
  /\ UNCHANGED <<at, steps, hand, captured, sharedVars, frame>>

LeavesOpen ==   \* slip: the early failure path forgets the session
  /\ hand' = "closed" /\ UNCHANGED <<open, unclosable, faults>>

\* closeStagehand swallows the error of a close that fails.
CloseStagehand ==
  IF hand \in {"open", "broken"}
  THEN \E ok \in BOOLEAN :
         /\ Call(ok) /\ hand' = "closed"
         /\ open' = IF ok THEN open \ {attempt} ELSE open
         /\ unclosable' = IF ok THEN unclosable ELSE unclosable \cup ({attempt} \cap open)
  ELSE UNCHANGED <<hand, open, unclosable, faults>>

\* A failure before the main try closes the session and nothing else.
Abandon ==
  /\ pc = "abandon" /\ pc' = "left"
  /\ CloseStagehand
  /\ UNCHANGED <<at, outcome, steps, polls, sighted, captured, published, session, rows, artifact,
                 frame>>

\* Every kind of node but the trigger has an entry in nodeExecutors.
HasExecutor(nodeKind) == nodeKind # "start"

nextFrame == <<hand, polls, sighted, captured, session, open, unclosable, rows, artifact, frame>>

\* The head of the loop: canceled, a node without an executor, or one that starts.
NextNode ==
  /\ pc = "next" /\ at \in Indices
  /\ \/ ThrowIfCanceled("shoot") /\ UNCHANGED at
     \/ /\ ~ aborted /\ ~ HasExecutor(Order[at])
        /\ steps' = [steps EXCEPT ![at] = "done"] /\ at' = at + 1
        /\ UNCHANGED <<pc, outcome, published, faults>>
     \/ /\ ~ aborted /\ HasExecutor(Order[at])
        /\ steps' = [steps EXCEPT ![at] = "running"] /\ UNCHANGED at
        /\ \E ok \in BOOLEAN :
             /\ Flush(ok)
             /\ pc' = IF ok THEN "execute" ELSE "shoot"   \* refused: past the executor's catch
             /\ outcome' = IF ok THEN outcome ELSE "unflushed"
  /\ UNCHANGED nextFrame

FailsQuietly ==   \* slip: the failed step is set and not flushed before the throw
  /\ steps' = [steps EXCEPT ![at] = "failed"] /\ UNCHANGED <<published, at, faults>>
  /\ pc' = "shoot" /\ outcome' = "threw"

\* The failed step is flushed before its error is thrown on; a refused flush replaces the error.
ExecutorThrows ==
  /\ steps' = [steps EXCEPT ![at] = "failed"] /\ pc' = "shoot" /\ UNCHANGED at
  /\ \E ok \in BOOLEAN :
       Flush(ok) /\ outcome' = IF ok THEN "threw" ELSE "unflushed"

\* The executor does not see the signal: it returns or throws in its own time.
Execute ==
  /\ pc = "execute"
  /\ \/ /\ steps' = [steps EXCEPT ![at] = "done"] /\ at' = at + 1
        /\ pc' = "next" /\ UNCHANGED <<published, outcome, faults>>
     \/ ExecutorThrows
  /\ UNCHANGED nextFrame

\* The final URL and the duration are flushed, with every step; refused, the attempt throws
\* although all its nodes ran.
Finish ==
  /\ pc = "next" /\ at = Len(Order) + 1 /\ pc' = "shoot"
  /\ UNCHANGED <<at, steps, nextFrame>>
  /\ \E ok \in BOOLEAN :
       Flush(ok) /\ outcome' = IF ok THEN "returned" ELSE "unflushed"

-----------------------------------------------------------------------------
(* The finally block.                                                      *)

Shoot ==
  /\ pc = "shoot" /\ pc' = "artifact"
  /\ \E ok \in BOOLEAN :
       /\ IF hand = "open" THEN Call(ok) ELSE ok = FALSE /\ UNCHANGED faults
       /\ captured' = ok
  /\ UNCHANGED <<at, outcome, steps, hand, polls, sighted, sharedVars, frame>>

\* The upsert; one without a picture leaves what an earlier attempt stored.
SaveArtifact ==
  /\ pc = "artifact" /\ pc' = "close"
  /\ \E ok \in BOOLEAN :
       /\ Call(ok)
       /\ artifact' = CASE ~ ok                                -> artifact
                        [] ok /\ captured                      -> "picture"
                        [] ok /\ ~ captured /\ artifact = "none" -> "blank"
                        [] OTHER                               -> artifact
  /\ UNCHANGED <<at, outcome, steps, hand, polls, sighted, captured, published, session, open,
                 unclosable, rows, frame>>

Close ==
  /\ pc = "close" /\ pc' = IF hand = "none" THEN "left" ELSE "clear"
  /\ CloseStagehand
  /\ UNCHANGED <<at, outcome, steps, polls, sighted, captured, published, session, rows, artifact,
                 frame>>

ClearRow ==
  /\ pc = "clear" /\ pc' = "left"
  /\ \E ok \in BOOLEAN :
       /\ Call(ok)
       /\ rows' = IF ok THEN rows \ {attempt} ELSE rows
  /\ UNCHANGED <<at, outcome, steps, hand, polls, sighted, captured, published, session, open,
                 unclosable, artifact, frame>>

TaskStep ==
  \/ Load \/ InitSession \/ Announce \/ WaitChecks \/ WaitLooks \/ Abandon
  \/ NextNode \/ Execute \/ Finish
  \/ Shoot \/ SaveArtifact \/ Close \/ ClearRow

-----------------------------------------------------------------------------
(* The platform.                                                           *)

\* The session the task has set in its metadata, flushed or not.
SetSession ==
  IF pc # "announce" /\ hand \in {"open", "closed"} /\ outcome # "error" THEN attempt ELSE session

\* The SDK flushes the metadata in the background and when the attempt ends, and makes up for a
\* flush that was refused.
BackgroundFlush ==
  /\ pc \notin {"load", "gone"} /\ <<published, session>> # <<steps, SetSession>>
  /\ published' = steps /\ session' = SetSession
  /\ UNCHANGED <<taskVars, runVars, open, unclosable, rows, artifact, viewerVars, faults>>

StopRun ==
  /\ status \in {"EXECUTING", "REATTEMPTING"}
  /\ status' = "CANCELED" /\ aborted' = TRUE
  /\ UNCHANGED <<taskVars, attempt, sharedVars, viewerVars, faults>>

\* The process of a stopped run is killed at any point, or that of one past maxDuration.
Kill ==
  /\ Alive
  /\ \/ aborted /\ UNCHANGED status
     \/ ~ aborted /\ status = "EXECUTING" /\ pc = "execute" /\ status' = "TIMED_OUT"
  /\ pc' = "gone"
  /\ unclosable' = unclosable \cup open
  /\ UNCHANGED <<at, outcome, steps, hand, polls, sighted, captured, attempt, aborted, published,
                 session, open, rows, artifact, viewerVars, faults>>

\* The attempt is over, its metadata flushed unless an error ended it: the run completes, fails or
\* is tried again.
Settle ==
  /\ pc = "left" /\ status = "EXECUTING"
  /\ outcome \in {"error", "unflushed"} \/ published = steps
  /\ status' = CASE outcome = "returned"                               -> "COMPLETED"
                 [] outcome # "returned" /\ attempt = MaxAttempts      -> "FAILED"
                 [] OTHER                                              -> "REATTEMPTING"
  /\ UNCHANGED <<taskVars, attempt, aborted, sharedVars, viewerVars, faults>>

Reattempt ==
  /\ status = "REATTEMPTING"
  /\ status' = "EXECUTING" /\ attempt' = attempt + 1
  /\ pc' = "load" /\ at' = 1 /\ outcome' = "none" /\ steps' = Seeded
  /\ hand' = "none" /\ polls' = WaitPolls /\ sighted' = FALSE /\ captured' = FALSE
  /\ UNCHANGED <<aborted, sharedVars, viewerVars, faults>>

-----------------------------------------------------------------------------
(* The tab.  The shell mounts the panel while it shows the run as live.    *)

viewFrame == <<taskVars, runVars, sharedVars>>

Connecting(s) ==
  [NoView EXCEPT !.state = IF s = 0 THEN "waiting" ELSE "connecting", !.session = s]

\* The layout of the shell has the panel beside the canvas.
ShowsLiveBrowser == status = "EXECUTING"

\* Mounted, or rendered with another session: everything starts over but the sent handshake.
ShowSession ==
  /\ ShowsLiveBrowser
  /\ view.state = "absent" \/ view.session # session
  /\ view' = [Connecting(session) EXCEPT !.notified = view.notified]
  /\ UNCHANGED <<loaded, posts, results, faults, viewFrame>>

Unmount ==
  /\ ~ ShowsLiveBrowser /\ view.state # "absent"
  /\ view' = NoView
  /\ UNCHANGED <<loaded, posts, results, faults, viewFrame>>

\* authorizeRunAccess: the metadata must still show the session asked for.
Authorized(s) == s = session

\* GET /api/live-view: whether the route answers with the debug URL of the session.
ServesLiveView(s, ok) == ok /\ Authorized(s) /\ s \in open

\* The panel fetches the URL, and tries again a bounded number of times.
FetchDebugUrl ==
  /\ view.state = "connecting"
  /\ \E ok \in BOOLEAN :
       /\ Call(ok)
       /\ view' = CASE ServesLiveView(view.session, ok) -> [view EXCEPT !.state = "live"]
                    [] ~ServesLiveView(view.session, ok) /\ view.retries < MaxRetries ->
                         [view EXCEPT !.retries = @ + 1]
                    [] OTHER -> [view EXCEPT !.state = "unavailable"]
  /\ UNCHANGED <<loaded, posts, results, viewFrame>>

\* Of all the panel's states, this one alone renders the frame.
RendersFrame == view.state = "live"

\* handleIframeLoad posts the handshake once per session.
FrameLoads ==
  /\ RendersFrame /\ view.notified # view.session
  /\ view' = [view EXCEPT !.notified = view.session]
  /\ loaded' = loaded \cup {view.session}
  /\ posts' = posts \cup {[session |-> view.session, allowed |-> FALSE]}
  /\ UNCHANGED <<results, faults, viewFrame>>

\* POST /connected authorizes, then writes the row; a refused one is never sent again.
RouteAuthorizes ==
  /\ \E p \in posts, ok \in BOOLEAN :
       /\ ~ p.allowed /\ Call(ok)
       /\ posts' = (posts \ {p}) \cup
                     (IF ok /\ Authorized(p.session) THEN {[p EXCEPT !.allowed = TRUE]} ELSE {})
  /\ UNCHANGED <<loaded, view, results, viewFrame>>

RouteMarks ==
  /\ \E p \in posts, ok \in BOOLEAN :
       /\ p.allowed /\ Call(ok)
       /\ posts' = posts \ {p}
       /\ rows' = IF ok THEN rows \cup {p.session} ELSE rows
  /\ UNCHANGED <<loaded, view, results, taskVars, runVars, published, session, open, unclosable,
                 artifact>>

\* Only a run that returned has an output, and with it a session to show.
HasOutput == status = "COMPLETED" /\ hand # "none"

\* GET /api/runs/[runId]/screenshot: whether the route answers with a picture.
ServesScreenshot(ok) == ok /\ artifact = "picture"

\* The popup opens with the terminal status and asks for the screenshot once; a request that
\* fails shows the placeholder.
ShowResults ==
  /\ status \in Ended \ {"TIMED_OUT"} /\ results.picture = "unseen"
  /\ \E ok \in BOOLEAN :
       /\ IF HasOutput THEN Call(ok) ELSE ok /\ UNCHANGED faults
       /\ results' = [results EXCEPT !.picture =
                        IF HasOutput /\ ServesScreenshot(ok) THEN "shown" ELSE "placeholder"]
  /\ UNCHANGED <<loaded, view, posts, viewFrame>>

WatchReplay ==
  /\ HasOutput /\ results.replay = "closed"
  /\ results' = [results EXCEPT !.replay = "loading"]
  /\ UNCHANGED <<loaded, view, posts, faults, viewFrame>>

\* GET /api/replays: refused or failed, 202 while there is no recording, or the playlist.  A
\* recording is made of a closed session, some time later.
ReplayAnswers(ok) ==
  IF ~ (ok /\ Authorized(attempt)) THEN {"error"}
  ELSE {"loading"} \cup (IF attempt \in open THEN {} ELSE {"ready"})

PollReplay ==
  /\ results.replay = "loading"
  /\ \E ok \in BOOLEAN :
       /\ Call(ok)
       /\ \E answer \in ReplayAnswers(ok) : results' = [results EXCEPT !.replay = answer]
  /\ UNCHANGED <<loaded, view, posts, viewFrame>>

ViewerStep ==
  \/ ShowSession \/ Unmount \/ FetchDebugUrl \/ FrameLoads
  \/ RouteAuthorizes \/ RouteMarks
  \/ ShowResults \/ WatchReplay \/ PollReplay

Next ==
  \/ TaskStep
  \/ BackgroundFlush \/ StopRun \/ Kill \/ Settle \/ Reattempt
  \/ ViewerStep

Spec == Init /\ [][Next]_vars

\* The task's process runs, its executors come back and the platform acts on what they end with.
\* Nobody need watch.
FairSpec ==
  /\ Spec
  /\ WF_vars(TaskStep) /\ WF_vars(BackgroundFlush) /\ WF_vars(Settle) /\ WF_vars(Reattempt)

-----------------------------------------------------------------------------
(* Properties.                                                             *)

Before(i) == {j \in Indices : j < i}

AllDone(shown) == \A i \in Indices : shown[i] = "done"

FailedAfterDone(shown) ==
  \E i \in Indices : shown[i] = "failed" /\ \A j \in Before(i) : shown[j] = "done"

StoppedAtBoundary(shown) == \A i \in Indices : shown[i] \in {"done", "canceled"}

\* Done up to a step that waits or spins, and nothing after it has begun.
LeftOpen(shown) ==
  \E i \in Indices : /\ shown[i] \in {"pending", "running"}
                     /\ \A j \in Before(i) : shown[j] = "done"
                     /\ \A j \in Indices : i < j => shown[j] = "pending"

\* What the metadata shows once an attempt has left its body says how it ended, even if the
\* process dies right after, unless the very flush that was to show it is refused
\* (run-workflow.ts:129, 317, 346, none of which has a handler). Then the attempt has thrown, has
\* set the same end for a flush of the SDK to show, and its run is not recorded as completed. Only
\* a refusal of the flush that announces the session or a running step (201, 291) leaves an end
\* that no flush shows: a step that waits or spins.
EndIsPainted ==
  /\ outcome = "returned" => AllDone(published)
  /\ outcome = "threw" => FailedAfterDone(published)
  /\ outcome = "canceled" => StoppedAtBoundary(published)
  /\ outcome = "unflushed" =>
       AllDone(steps) \/ FailedAfterDone(steps) \/ StoppedAtBoundary(steps) \/ LeftOpen(steps)
  /\ status = "COMPLETED" => AllDone(published)

\* No attempt leaves its session open, on whatever path it ends, and two attempts never hold one
\* each, unless Browserbase refused the close or the process was killed (closeStagehand).
NoSessionLeft ==
  /\ pc = "left" => open \subseteq unclosable
  /\ open \ unclosable \subseteq {attempt}

\* The automation starts early only because the frame of its own session has loaded, never by
\* the late handshake of an earlier attempt (waitForLiveView, the connected route).
HandshakeIsForThisSession == sighted => attempt \in loaded

\* A run ends at Trigger.dev whether or not anyone watches (LIVE_VIEW_WAIT_MS).
RunEnds == <>(status \in Ended)

=============================================================================
