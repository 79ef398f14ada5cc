-------------------------- MODULE LegacyTaskProofs --------------------------
(***************************************************************************)
(* Proofs, for every workflow, every number of attempts and of faults, of  *)
(* the invariants MCLegacyTask checks on three nodes. Each theorem has its *)
(* own inductive invariant, because each is about another part of the      *)
(* state: the rows behind the handshake, the life of the session, the      *)
(* steps of the attempt, and the types.                                    *)
(***************************************************************************)
EXTENDS LegacyTask, TLAPS

-----------------------------------------------------------------------------
(* The handshake.                                                          *)

LoadedRows ==
  /\ rows \subseteq loaded
  /\ posts \subseteq [session : loaded, allowed : BOOLEAN]
  /\ sighted => attempt \in loaded

(* A handshake is sent by a frame that has loaded, a row is written by a   *)
(* handshake, and the wait ends by the row of its own session.             *)
LEMMA LoadedRowsStep ==
  ASSUME LoadedRows, [Next]_vars
  PROVE  LoadedRows'
<1> USE DEF LoadedRows, taskVars, runVars, sharedVars, viewerVars, frame, nextFrame, viewFrame
<1>1. CASE UNCHANGED vars
  BY <1>1 DEF vars
<1>2. CASE Load \/ InitSession \/ Announce \/ WaitChecks \/ Abandon
  BY <1>2 DEF Load, InitSession, Announce, WaitChecks, Abandon
<1>3. CASE WaitLooks
  BY <1>3 DEF WaitLooks, IsLiveViewConnected
<1>4. CASE NextNode \/ Execute \/ Finish
  BY <1>4 DEF NextNode, Execute, Finish
<1>5. CASE Shoot \/ SaveArtifact \/ Close \/ ClearRow
  BY <1>5 DEF Shoot, SaveArtifact, Close, ClearRow
<1>6. CASE BackgroundFlush \/ StopRun \/ Kill \/ Settle \/ Reattempt
  BY <1>6 DEF BackgroundFlush, StopRun, Kill, Settle, Reattempt
<1>7. CASE ShowSession \/ Unmount \/ FetchDebugUrl
  BY <1>7 DEF ShowSession, Unmount, FetchDebugUrl
<1>11. CASE FrameLoads
  <2>1. [session |-> view.session, allowed |-> FALSE] \in [session : loaded', allowed : BOOLEAN]
    BY <1>11 DEF FrameLoads
  <2>2. [session : loaded, allowed : BOOLEAN] \subseteq [session : loaded', allowed : BOOLEAN]
    BY <1>11 DEF FrameLoads
  <2>3. loaded \subseteq loaded' /\ UNCHANGED <<rows, sighted, attempt>>
    BY <1>11 DEF FrameLoads
  <2>4. posts' = posts \cup {[session |-> view.session, allowed |-> FALSE]}
    BY <1>11 DEF FrameLoads
  <2>5. posts' \subseteq [session : loaded', allowed : BOOLEAN]
    BY <2>1, <2>2, <2>4
  <2> QED
    BY <2>3, <2>5
<1>8. CASE RouteAuthorizes
  <2>1. \A p \in posts : [p EXCEPT !.allowed = TRUE] \in [session : loaded, allowed : BOOLEAN]
    OBVIOUS
  <2> QED
    BY <1>8, <2>1 DEF RouteAuthorizes
<1>10. CASE RouteMarks
  BY <1>10 DEF RouteMarks
<1>9. CASE ShowResults \/ WatchReplay \/ PollReplay
  BY <1>9 DEF ShowResults, WatchReplay, PollReplay
<1> QED
  BY <1>1, <1>2, <1>3, <1>4, <1>5, <1>6, <1>7, <1>8, <1>9, <1>10, <1>11 DEF Next, TaskStep, ViewerStep

(* The automation starts early only because the frame of its own session   *)
(* has loaded, whatever late handshakes and however many attempts.         *)
THEOREM OnlyItsOwnHandshake == Spec => []HandshakeIsForThisSession
<1>1. Init => LoadedRows
  BY DEF Init, LoadedRows
<1>2. LoadedRows /\ [Next]_vars => LoadedRows'
  BY LoadedRowsStep
<1>3. LoadedRows => HandshakeIsForThisSession
  BY DEF LoadedRows, HandshakeIsForThisSession
<1> QED
  BY <1>1, <1>2, <1>3, PTL DEF Spec

-----------------------------------------------------------------------------
(* The session.                                                            *)

SessionOwned ==
  /\ hand \in {"none", "closed"} => open \subseteq unclosable
  /\ pc \in {"load", "clear", "left", "gone"} => open \subseteq unclosable
  /\ pc \in {"load", "init"} => hand = "none"
  /\ open \ unclosable \subseteq {attempt}
  /\ hand \in {"none", "broken", "open", "closed"}
  /\ status = "REATTEMPTING" => pc = "left"

(* Between opening and closing the attempt holds its own session only.     *)
LEMMA SessionOwnedStep ==
  ASSUME SessionOwned, [Next]_vars
  PROVE  SessionOwned'
<1> USE DEF SessionOwned, taskVars, runVars, sharedVars, frame, nextFrame, viewFrame
<1>1. CASE UNCHANGED vars
  BY <1>1 DEF vars
<1>2. CASE Load
  BY <1>2 DEF Load
<1>3. CASE InitSession
  BY <1>3 DEF InitSession
<1>4. CASE Announce \/ WaitChecks \/ WaitLooks
  BY <1>4 DEF Announce, WaitChecks, WaitLooks, ThrowIfCanceled
<1>5. CASE Abandon
  BY <1>5 DEF Abandon, CloseStagehand
<1>6. CASE NextNode \/ Execute \/ Finish
  BY <1>6 DEF NextNode, Execute, Finish, ThrowIfCanceled, ExecutorThrows
<1>7. CASE Close
  BY <1>7 DEF Close, CloseStagehand
<1>8. CASE Shoot \/ SaveArtifact \/ ClearRow
  BY <1>8 DEF Shoot, SaveArtifact, ClearRow
<1>9. CASE BackgroundFlush \/ StopRun
  BY <1>9 DEF BackgroundFlush, StopRun
<1>12. CASE Kill
  BY <1>12 DEF Kill, Alive
<1>13. CASE Settle
  BY <1>13 DEF Settle
<1>10. CASE Reattempt
  BY <1>10 DEF Reattempt
<1>11. CASE ViewerStep
  BY <1>11 DEF ViewerStep, ShowSession, Unmount, FetchDebugUrl, FrameLoads, RouteAuthorizes,
               RouteMarks, ShowResults, WatchReplay, PollReplay
<1> QED
  BY <1>1, <1>2, <1>3, <1>4, <1>5, <1>6, <1>7, <1>8, <1>9, <1>10, <1>11, <1>12, <1>13 DEF Next, TaskStep

(* No attempt leaves its session open behind it, unless the close was      *)
(* refused or the process killed.                                          *)
THEOREM SessionsAreClosed == Spec => []NoSessionLeft
<1>1. Init => SessionOwned
  BY DEF Init, SessionOwned
<1>2. SessionOwned /\ [Next]_vars => SessionOwned'
  BY SessionOwnedStep
<1>3. SessionOwned => NoSessionLeft
  BY DEF SessionOwned, NoSessionLeft
<1> QED
  BY <1>1, <1>2, <1>3, PTL DEF Spec

-----------------------------------------------------------------------------
(* The steps.                                                              *)

(* Where the attempt stands determines its steps, until it leaves its body *)
(* and they stay what it made of them. An attempt that leaves in time has  *)
(* had them published; after a refused flush they are only set.            *)
InOrder(i, here) == IF i < at THEN "done" ELSE IF i = at THEN here ELSE "pending"

Told(shownSteps) ==
  /\ outcome = "returned" => \A i \in Indices : shownSteps[i] = "done"
  /\ outcome = "threw" => at \in Indices /\ shownSteps[at] = "failed"
                          /\ \A i \in Indices : i < at => shownSteps[i] = "done"
  /\ outcome = "canceled" => \A i \in Indices : shownSteps[i] \in {"done", "canceled"}

SetForLater ==
  outcome = "unflushed" =>
    AllDone(steps) \/ FailedAfterDone(steps) \/ StoppedAtBoundary(steps) \/ LeftOpen(steps)

Body == {"load", "init", "announce", "check", "look", "next", "execute"}

StepsTold ==
  /\ at \in 1 .. Len(Order) + 1
  /\ steps \in [Indices -> StepStatus] /\ published \in [Indices -> StepStatus]
  /\ outcome \in {"none", "returned", "threw", "canceled", "error", "unflushed"}
  /\ pc \in Body => outcome = "none"
  /\ pc \in {"load", "init", "announce", "check", "look"} => at = 1
  /\ pc \in Body \ {"execute"} => \A i \in Indices : steps[i] = InOrder(i, "pending")
  /\ pc = "execute" => at \in Indices /\ \A i \in Indices : steps[i] = InOrder(i, "running")
  /\ Told(steps) /\ Told(published) /\ SetForLater
  /\ status = "COMPLETED" => pc = "left" /\ outcome = "returned"

(* The order of execution has a length.                                    *)
LEMMA LengthOfOrder == Len(Order) \in Nat
  BY TaskConstants

(* A step that stands in its place says so.                                *)
LEMMA InOrderIsOpen ==
  ASSUME NEW here \in {"pending", "running"}, at \in Indices,
         \A i \in Indices : steps[i] = InOrder(i, here)
  PROVE  LeftOpen(steps)
<1>1. steps[at] = here /\ \A j \in Before(at) : steps[j] = "done"
  BY LengthOfOrder DEF InOrder, Before, Indices
<1>2. \A j \in Indices : at < j => steps[j] = "pending"
  BY LengthOfOrder DEF InOrder, Indices
<1> QED
  BY <1>1, <1>2 DEF LeftOpen

(* A flush leaves in the metadata what it showed or what was set.          *)
LEMMA FlushShows ==
  ASSUME NEW ok \in BOOLEAN, Flush(ok)
  PROVE  /\ published' \in {published, steps'}
         /\ ok => published' = steps'
  BY DEF Flush

(* A canceled attempt has no failed step, and none of its spinners stays,  *)
(* published or, when the flush is refused, set.                           *)
LEMMA CanceledIsTold ==
  ASSUME StepsTold, pc \in Body, NEW stage \in {"abandon", "shoot"}, ThrowIfCanceled(stage),
         UNCHANGED <<at, status>>
  PROVE  StepsTold'
<1>1. \A i \in Indices : steps[i] \in {"done", "pending", "running"}
  BY DEF StepsTold, InOrder, Body
<1>2. /\ steps' \in [Indices -> StepStatus]
      /\ \A i \in Indices : steps'[i] \in {"done", "canceled"}
  BY <1>1 DEF ThrowIfCanceled, Marked, StepStatus, StepsTold
<1>3. PICK ok \in BOOLEAN : Flush(ok) /\ outcome' = IF ok THEN "canceled" ELSE "unflushed"
  BY DEF ThrowIfCanceled
<1>4. pc' = stage /\ at' = at /\ status' = status
  BY DEF ThrowIfCanceled
<1>5. published' \in [Indices -> StepStatus] /\ (ok => published' = steps')
  BY <1>2, <1>3, FlushShows DEF StepsTold
<1>6. StoppedAtBoundary(steps)' /\ SetForLater'
  BY <1>2 DEF StoppedAtBoundary, SetForLater
<1>7. Told(steps)' /\ Told(published)'
  BY <1>2, <1>3, <1>5 DEF Told
<1>8. status # "COMPLETED"
  BY DEF StepsTold, Body
<1> QED
  BY <1>2, <1>3, <1>4, <1>5, <1>6, <1>7, <1>8 DEF StepsTold, Body

(* Before the first node runs, its steps all wait, also for an attempt     *)
(* that cannot announce its session.                                       *)
LEMMA AnnounceTells ==
  ASSUME StepsTold, Announce
  PROVE  StepsTold'
<1> USE LengthOfOrder DEF frame, runVars
<1>1. /\ \/ pc' = "check" /\ outcome' = outcome
         \/ pc' = "abandon" /\ outcome' = "unflushed"
      /\ published' \in {published, steps'}
  BY DEF Announce, Flush
<1>2. pc = "announce" /\ outcome = "none" /\ at = 1 /\ status # "COMPLETED"
  BY DEF Announce, StepsTold, Body
<1>3. UNCHANGED <<at, steps, status>>
  BY DEF Announce
<1>4. \A i \in Indices : steps[i] = InOrder(i, "pending")
  BY <1>2 DEF StepsTold, Body
<1>5. steps' \in [Indices -> StepStatus] /\ published' \in [Indices -> StepStatus]
  BY <1>1, <1>3 DEF StepsTold
<1>6. AllDone(steps)' \/ LeftOpen(steps)'
  <2>1. CASE at \in Indices
    BY <1>3, <1>4, <2>1, InOrderIsOpen DEF LeftOpen, Before
  <2>2. CASE at \notin Indices
    BY <1>2, <1>3, <2>2 DEF AllDone, Indices
  <2> QED
    BY <2>1, <2>2
<1>7. \/ pc' = "check" /\ outcome' = "none"
      \/ pc' = "abandon" /\ outcome' = "unflushed"
  BY <1>1, <1>2
<1>8. Told(steps)' /\ Told(published)' /\ SetForLater'
  BY <1>6, <1>7 DEF Told, SetForLater
<1>9. \A i \in Indices : steps'[i] = InOrder(i, "pending")'
  BY <1>3, <1>4 DEF InOrder
<1>10. at' = 1 /\ at' \in 1 .. Len(Order) + 1 /\ status' # "COMPLETED"
  BY <1>2, <1>3
<1> QED
  BY <1>5, <1>7, <1>8, <1>9, <1>10 DEF StepsTold, Body

(* The head of the loop, whose flush of a running step may be refused.     *)
LEMMA NextNodeTells ==
  ASSUME StepsTold, NextNode
  PROVE  StepsTold'
<1> USE LengthOfOrder DEF nextFrame, frame, runVars
<1>1. at \in Indices /\ pc = "next" /\ outcome = "none" /\ UNCHANGED status
      /\ status # "COMPLETED" /\ \A i \in Indices : steps[i] = InOrder(i, "pending")
  BY DEF NextNode, StepsTold, Body
<1>2. CASE ThrowIfCanceled("shoot") /\ UNCHANGED at
  BY <1>1, <1>2, CanceledIsTold DEF Body
<1>3. CASE /\ steps' = [steps EXCEPT ![at] = "done"] /\ at' = at + 1
           /\ UNCHANGED <<pc, outcome, published>>
  <2>1. steps' \in [Indices -> StepStatus] /\ at' \in 1 .. Len(Order) + 1
    BY <1>1, <1>3 DEF StepsTold, StepStatus, Indices
  <2>2. \A i \in Indices : steps'[i] = InOrder(i, "pending")'
    BY <1>1, <1>3 DEF StepsTold, InOrder, Indices
  <2> QED
    BY <1>1, <1>3, <2>1, <2>2 DEF StepsTold, Told, SetForLater, Body
<1>4. ASSUME NEW ok \in BOOLEAN, Flush(ok), UNCHANGED at,
             steps' = [steps EXCEPT ![at] = "running"],
             pc' = IF ok THEN "execute" ELSE "shoot",
             outcome' = IF ok THEN outcome ELSE "unflushed"
      PROVE  StepsTold'
  <2>1. steps' \in [Indices -> StepStatus]
    BY <1>4 DEF StepsTold, StepStatus
  <2>2. \A i \in Indices : steps'[i] = InOrder(i, "running")'
    BY <1>1, <1>4 DEF StepsTold, InOrder, Indices
  <2>3. LeftOpen(steps)'
    <3>1. steps'[at] = "running" /\ \A i \in Before(at) : steps'[i] = "done"
      BY <1>1, <1>4, <2>2 DEF InOrder, Before, Indices
    <3>2. \A i \in Indices : at < i => steps'[i] = "pending"
      BY <1>1, <1>4, <2>2 DEF InOrder, Indices
    <3> QED
      BY <1>1, <3>1, <3>2 DEF LeftOpen, Before
  <2>4. published' \in [Indices -> StepStatus]
    BY <1>4, <2>1, FlushShows DEF StepsTold
  <2> QED
    BY <1>1, <1>4, <2>1, <2>2, <2>3, <2>4 DEF StepsTold, Told, SetForLater, Body
<1> QED
  BY <1>2, <1>3, <1>4 DEF NextNode

(* The executor returns, or throws with its step failed.                   *)
LEMMA ExecuteTells ==
  ASSUME StepsTold, Execute
  PROVE  StepsTold'
<1> USE LengthOfOrder DEF nextFrame, frame, runVars
<1>1. at \in Indices /\ pc = "execute" /\ outcome = "none" /\ UNCHANGED status
      /\ status # "COMPLETED" /\ \A i \in Indices : steps[i] = InOrder(i, "running")
  BY DEF Execute, StepsTold, Body
<1>2. CASE ExecutorThrows
  <2>1. PICK ok \in BOOLEAN : Flush(ok) /\ outcome' = IF ok THEN "threw" ELSE "unflushed"
    BY <1>2 DEF ExecutorThrows
  <2>2. /\ steps' \in [Indices -> StepStatus] /\ steps'[at] = "failed"
        /\ at' = at /\ pc' = "shoot"
        /\ \A i \in Indices : i < at => steps'[i] = "done"
    BY <1>1, <1>2 DEF ExecutorThrows, StepsTold, StepStatus, InOrder, Indices
  <2>3. published' \in [Indices -> StepStatus] /\ (ok => published' = steps')
    BY <2>1, <2>2, FlushShows DEF StepsTold
  <2>4. Told(steps)' /\ Told(published)'
    BY <1>1, <2>1, <2>2, <2>3 DEF Told
  <2>5. FailedAfterDone(steps)'
    BY <1>1, <2>2 DEF FailedAfterDone, Before
  <2> QED
    BY <1>1, <2>1, <2>2, <2>3, <2>4, <2>5 DEF StepsTold, SetForLater, Body
<1>3. CASE /\ steps' = [steps EXCEPT ![at] = "done"] /\ at' = at + 1
           /\ pc' = "next" /\ UNCHANGED <<published, outcome>>
  <2>1. steps' \in [Indices -> StepStatus] /\ at' \in 1 .. Len(Order) + 1
    BY <1>1, <1>3 DEF StepsTold, StepStatus, Indices
  <2>2. \A i \in Indices : steps'[i] = InOrder(i, "pending")'
    BY <1>1, <1>3 DEF StepsTold, InOrder, Indices
  <2> QED
    BY <1>1, <1>3, <2>1, <2>2 DEF StepsTold, Told, SetForLater, Body
<1> QED
  BY <1>2, <1>3 DEF Execute

(* The last flush finds every step done, and so does a refused one.        *)
LEMMA FinishTells ==
  ASSUME StepsTold, Finish
  PROVE  StepsTold'
<1> USE LengthOfOrder DEF nextFrame, frame, runVars
<1>1. PICK ok \in BOOLEAN : Flush(ok) /\ outcome' = IF ok THEN "returned" ELSE "unflushed"
  BY DEF Finish
<1>2. /\ UNCHANGED <<at, steps, status>> /\ pc' = "shoot" /\ status # "COMPLETED"
      /\ \A i \in Indices : steps[i] = "done"
  BY DEF Finish, StepsTold, InOrder, Body, Indices
<1>3. published' \in [Indices -> StepStatus] /\ (ok => published' = steps')
  BY <1>1, <1>2, FlushShows DEF StepsTold
<1>4. AllDone(steps)'
  BY <1>2 DEF AllDone
<1>5. Told(steps)' /\ Told(published)'
  BY <1>1, <1>2, <1>3 DEF Told
<1> QED
  BY <1>1, <1>2, <1>3, <1>4, <1>5 DEF StepsTold, SetForLater, Body

(* Nothing else touches the steps, and every exception is published with   *)
(* the steps it leaves, or leaves them to the SDK.                         *)
LEMMA StepsToldStep ==
  ASSUME StepsTold, [Next]_vars
  PROVE  StepsTold'
<1> USE LengthOfOrder
    DEF taskVars, runVars, sharedVars, viewerVars, frame, nextFrame, viewFrame
<1> DEFINE Kept == /\ UNCHANGED <<at, steps, outcome>>
                   /\ published' \in {published, steps}
<1>1. ASSUME Kept PROVE Told(steps)' /\ Told(published)' /\ SetForLater'
  <2>1. Told(steps)' /\ Told(published)'
    BY <1>1 DEF StepsTold, Told
  <2>2. SetForLater'
    BY <1>1 DEF StepsTold, SetForLater, AllDone, FailedAfterDone, StoppedAtBoundary, LeftOpen,
       Before
  <2> QED
    BY <2>1, <2>2
<1>2. CASE UNCHANGED <<at, steps, published, outcome, pc, status>>
  BY <1>1, <1>2 DEF StepsTold, InOrder
<1>3. CASE Load \/ InitSession
  BY <1>3 DEF Load, InitSession, StepsTold, Told, SetForLater, InOrder, Body
<1>4. CASE WaitChecks
  <2>1. CASE ThrowIfCanceled("abandon")
    BY <1>4, <2>1, CanceledIsTold DEF WaitChecks, Body
  <2>2. CASE pc' \in {"look", "next"} /\ UNCHANGED <<at, outcome, steps, published>>
    <3>1. pc = "check" /\ UNCHANGED status
      BY <1>4 DEF WaitChecks
    <3> QED
      BY <1>1, <2>2, <3>1 DEF StepsTold, InOrder, Body
  <2> QED
    BY <1>4, <2>1, <2>2 DEF WaitChecks
<1>5. CASE WaitLooks
  BY <1>5 DEF WaitLooks, StepsTold, Told, SetForLater, InOrder, Body
<1>6. CASE Announce \/ NextNode \/ Execute \/ Finish
  BY <1>6, AnnounceTells, NextNodeTells, ExecuteTells, FinishTells
<1>7. CASE Abandon \/ Shoot \/ SaveArtifact \/ Close \/ ClearRow
  <2>1. /\ UNCHANGED <<at, steps, published, outcome, status>>
        /\ pc \in {"abandon", "shoot", "artifact", "close", "clear"}
        /\ pc' \in {"artifact", "close", "clear", "left"}
    BY <1>7 DEF Abandon, Shoot, SaveArtifact, Close, ClearRow
  <2> QED
    BY <1>1, <2>1 DEF StepsTold, Body
<1>8. CASE BackgroundFlush
  <2>1. published' = steps /\ UNCHANGED <<at, steps, outcome, pc, status>>
    BY <1>8 DEF BackgroundFlush
  <2> QED
    BY <1>1, <2>1 DEF StepsTold, InOrder
<1>9. CASE StopRun \/ Kill \/ Settle
  <2>1. /\ UNCHANGED <<at, steps, published, outcome>> /\ pc' \in {pc, "gone"}
        /\ status' = "COMPLETED" => pc' = "left" /\ outcome = "returned"
    BY <1>9 DEF StopRun, Kill, Alive, Settle, StepsTold
  <2> QED
    BY <1>1, <2>1 DEF StepsTold, InOrder, Body
<1>10. CASE Reattempt
  <2>1. /\ steps' \in [Indices -> StepStatus] /\ at' = 1 /\ at' \in 1 .. Len(Order) + 1
        /\ \A i \in Indices : steps'[i] = InOrder(i, "pending")'
        /\ pc' = "load" /\ outcome' = "none" /\ published' = published /\ status' = "EXECUTING"
    BY <1>10 DEF Reattempt, Seeded, StepStatus, InOrder, Indices
  <2> QED
    BY <2>1 DEF StepsTold, Told, SetForLater, Body
<1>11. CASE ViewerStep \/ UNCHANGED vars
  <2>1. UNCHANGED <<at, steps, published, outcome, pc, status>>
    BY <1>11 DEF ViewerStep, ShowSession, Unmount, FetchDebugUrl, FrameLoads,
                 RouteAuthorizes, RouteMarks, ShowResults, WatchReplay, PollReplay, vars
  <2> QED
    BY <1>2, <2>1
<1> QED
  BY <1>3, <1>4, <1>5, <1>6, <1>7, <1>8, <1>9, <1>10, <1>11 DEF Next, TaskStep

(* Whatever the end of an attempt, the metadata shows it when the attempt  *)
(* has left its body, and nothing waits for a later flush, unless the one  *)
(* that was to show it is refused: then the end is set, or a step stays    *)
(* open, and the run is not completed by it.                               *)
THEOREM EndsArePainted == Spec => []EndIsPainted
<1>1. Init => StepsTold
  BY LengthOfOrder DEF Init, Seeded, StepsTold, Told, SetForLater, InOrder, Body, Indices, StepStatus
<1>2. StepsTold /\ [Next]_vars => StepsTold'
  BY StepsToldStep
<1>3. StepsTold => EndIsPainted
  <2> SUFFICES ASSUME StepsTold
               PROVE  EndIsPainted
    OBVIOUS
  <2>1. outcome = "threw" => FailedAfterDone(published)
    BY DEF StepsTold, Told, FailedAfterDone, Before
  <2>2. /\ outcome = "returned" => AllDone(published)
        /\ outcome = "canceled" => StoppedAtBoundary(published)
        /\ status = "COMPLETED" => AllDone(published)
    BY DEF StepsTold, Told, AllDone, StoppedAtBoundary
  <2> QED
    BY <2>1, <2>2 DEF EndIsPainted, StepsTold, SetForLater
<1> QED
  BY <1>1, <1>2, <1>3, PTL DEF Spec

-----------------------------------------------------------------------------
(* The types, one part of the state at a time; those of the steps are in   *)
(* StepsTold.                                                              *)

TaskTypes ==
  /\ pc \in Stages /\ polls \in 0 .. WaitPolls /\ (pc = "look" => polls > 0)
  /\ aborted \in BOOLEAN /\ sighted \in BOOLEAN /\ captured \in BOOLEAN
  /\ hand \in {"none", "broken", "open", "closed"}
  /\ artifact \in {"none", "blank", "picture"}

RunTypes ==
  /\ status \in {"EXECUTING", "REATTEMPTING"} \cup Ended
  /\ attempt \in Attempts /\ (status = "REATTEMPTING" => attempt < MaxAttempts)
  /\ session \in 0 .. MaxAttempts
  /\ open \subseteq Attempts /\ unclosable \subseteq Attempts

Views == [state : {"absent", "waiting", "connecting", "live", "unavailable"},
          session : 0 .. MaxAttempts, retries : 0 .. MaxRetries, notified : 0 .. MaxAttempts]

PanelTypes ==
  /\ view \in Views /\ (view.state = "live" => view.session \in Attempts)
  /\ posts \subseteq [session : Attempts, allowed : BOOLEAN]
  /\ rows \subseteq Attempts /\ loaded \subseteq Attempts

ResultTypes == results \in [picture : {"unseen", "shown", "placeholder"},
                            replay : {"closed", "loading", "ready", "error"}]

(* Every failed call is counted, and no more of them than the model allows.*)
LEMMA FaultsCounted ==
  ASSUME faults \in 0 .. MaxFaults, [Next]_vars
  PROVE  faults' \in 0 .. MaxFaults
<1>1. (\E ok \in BOOLEAN : Call(ok)) => faults' \in 0 .. MaxFaults
  BY TaskConstants DEF Call
<1>2. (\E ok \in BOOLEAN : Call(ok)) \/ UNCHANGED faults
  <2>1. CASE TaskStep
    <3>1. CASE Announce \/ WaitChecks
      BY <3>1 DEF Announce, WaitChecks, ThrowIfCanceled, Flush
    <3>2. CASE NextNode
      BY <3>2 DEF NextNode, ThrowIfCanceled, Flush
    <3>3. CASE Execute \/ Finish
      BY <3>3 DEF Execute, ExecutorThrows, Finish, Flush
    <3>4. CASE Load \/ InitSession \/ WaitLooks
      BY <3>4 DEF Load, InitSession, WaitLooks
    <3>5. CASE Abandon \/ Shoot \/ SaveArtifact \/ Close \/ ClearRow
      BY <3>5 DEF Abandon, CloseStagehand, Shoot, SaveArtifact, Close, ClearRow
    <3> QED
      BY <2>1, <3>1, <3>2, <3>3, <3>4, <3>5 DEF TaskStep
  <2>2. CASE BackgroundFlush \/ StopRun \/ Kill \/ Settle \/ Reattempt
    BY <2>2 DEF BackgroundFlush, StopRun, Kill, Settle, Reattempt
  <2>3. CASE ViewerStep
    BY <2>3 DEF ViewerStep, ShowSession, Unmount, FetchDebugUrl, FrameLoads, RouteAuthorizes,
       RouteMarks, ShowResults, WatchReplay, PollReplay
  <2> QED
    BY <2>1, <2>2, <2>3 DEF Next, vars
<1> QED
  BY <1>1, <1>2

(* The row is only looked up while there are polls left.                   *)
LEMMA TaskTypesStep ==
  ASSUME TaskTypes, [Next]_vars
  PROVE  TaskTypes'
<1> USE TaskConstants
    DEF TaskTypes, Stages, taskVars, runVars, sharedVars, viewerVars, frame, nextFrame, viewFrame
<1>1. CASE Load \/ InitSession \/ Announce
  BY <1>1 DEF Load, InitSession, Announce
<1>2. CASE WaitChecks
  BY <1>2 DEF WaitChecks, ThrowIfCanceled
<1>3. CASE WaitLooks
  <2>1. polls > 0 => polls - 1 \in 0 .. WaitPolls
    OBVIOUS
  <2>2. pc' \in {"check", "next", "abandon"} /\ polls' \in {polls, polls - 1} /\ pc = "look"
    BY <1>3 DEF WaitLooks, SpendsPoll
  <2>3. sighted' \in {sighted, TRUE} /\ UNCHANGED <<hand, captured, aborted, artifact>>
    BY <1>3 DEF WaitLooks
  <2> QED
    BY <2>1, <2>2, <2>3
<1>4. CASE Abandon \/ Close
  BY <1>4 DEF Abandon, Close, CloseStagehand
<1>5. CASE NextNode
  BY <1>5 DEF NextNode, ThrowIfCanceled
<1>6. CASE Execute \/ Finish
  BY <1>6 DEF Execute, ExecutorThrows, Finish
<1>7. CASE Shoot \/ SaveArtifact \/ ClearRow
  BY <1>7 DEF Shoot, SaveArtifact, ClearRow
<1>8. CASE BackgroundFlush \/ StopRun \/ Kill \/ Settle
  <2>1. pc' \in {pc, "gone"} /\ aborted' \in {aborted, TRUE}
        /\ UNCHANGED <<polls, sighted, captured, hand, artifact>>
    BY <1>8 DEF BackgroundFlush, StopRun, Kill, Settle
  <2>2. pc' \in Stages /\ (pc' = "look" => pc = "look") /\ aborted' \in BOOLEAN
    BY <2>1
  <2> QED
    BY <2>1, <2>2
<1>9. CASE Reattempt
  <2>1. pc' = "load" /\ polls' = WaitPolls /\ sighted' = FALSE /\ captured' = FALSE
        /\ hand' = "none" /\ UNCHANGED <<aborted, artifact>>
    BY <1>9 DEF Reattempt
  <2>2. WaitPolls \in 0 .. WaitPolls
    OBVIOUS
  <2> QED
    BY <2>1, <2>2
<1>10. CASE ViewerStep
  BY <1>10 DEF ViewerStep, ShowSession, Unmount, FetchDebugUrl, FrameLoads, RouteAuthorizes,
     RouteMarks, ShowResults, WatchReplay, PollReplay
<1>11. CASE UNCHANGED vars
  BY <1>11 DEF vars
<1> QED
  BY <1>1, <1>2, <1>3, <1>4, <1>5, <1>6, <1>7, <1>8, <1>9, <1>10, <1>11 DEF Next, TaskStep

(* An attempt is only repeated when there is one to follow.                *)
LEMMA RunTypesStep ==
  ASSUME RunTypes, [Next]_vars
  PROVE  RunTypes'
<1> USE TaskConstants
    DEF RunTypes, taskVars, runVars, sharedVars, viewerVars, frame, nextFrame, viewFrame
<1>1. CASE InitSession
  BY <1>1 DEF InitSession
<1>2. CASE Announce
  BY <1>2 DEF Announce, Attempts
<1>3. CASE Abandon \/ Close
  BY <1>3 DEF Abandon, Close, CloseStagehand
<1>4. CASE \/ Load \/ WaitChecks \/ WaitLooks \/ NextNode \/ Execute \/ Finish
           \/ Shoot \/ SaveArtifact \/ ClearRow
  BY <1>4 DEF Load, WaitChecks, WaitLooks, NextNode, Execute, Finish, Shoot, SaveArtifact, ClearRow
<1>5. CASE BackgroundFlush
  <2>1. session' \in {attempt, session} /\ UNCHANGED <<status, attempt, open, unclosable>>
    BY <1>5 DEF BackgroundFlush, SetSession
  <2> QED
    BY <2>1 DEF Attempts
<1>6. CASE StopRun
  BY <1>6 DEF StopRun, Ended
<1>7. CASE Kill
  <2>1. status' \in {status, "TIMED_OUT"} /\ unclosable' = unclosable \cup open
        /\ UNCHANGED <<attempt, session, open>>
    BY <1>7 DEF Kill
  <2> QED
    BY <2>1 DEF Ended
<1>8. CASE Settle
  <2>1. status' \in {"COMPLETED", "FAILED", "REATTEMPTING"}
        /\ (status' = "REATTEMPTING" => attempt # MaxAttempts \/ outcome = "returned")
        /\ (status' = "REATTEMPTING" => outcome # "returned")
        /\ UNCHANGED <<attempt, session, open, unclosable>>
    BY <1>8 DEF Settle
  <2>2. attempt # MaxAttempts => attempt < MaxAttempts
    BY DEF Attempts
  <2> QED
    BY <2>1, <2>2 DEF Ended
<1>9. CASE Reattempt
  <2>1. attempt < MaxAttempts => attempt + 1 \in Attempts
    BY DEF Attempts
  <2>2. status = "REATTEMPTING" /\ status' = "EXECUTING" /\ attempt' = attempt + 1
        /\ UNCHANGED <<session, open, unclosable>>
    BY <1>9 DEF Reattempt
  <2> QED
    BY <2>1, <2>2
<1>10. CASE ViewerStep
  BY <1>10 DEF ViewerStep, ShowSession, Unmount, FetchDebugUrl, FrameLoads, RouteAuthorizes,
     RouteMarks, ShowResults, WatchReplay, PollReplay
<1>11. CASE UNCHANGED vars
  BY <1>11 DEF vars
<1> QED
  BY <1>1, <1>2, <1>3, <1>4, <1>5, <1>6, <1>7, <1>8, <1>9, <1>10, <1>11 DEF Next, TaskStep

(* The frame is only rendered with a session behind it, so a handshake and *)
(* a row always name one.                                                  *)
LEMMA PanelTypesStep ==
  ASSUME PanelTypes, RunTypes, [Next]_vars
  PROVE  PanelTypes'
<1> USE TaskConstants
    DEF PanelTypes, taskVars, runVars, sharedVars, viewerVars, frame, nextFrame, viewFrame
<1>1. CASE UNCHANGED <<view, posts, rows, loaded>>
  BY <1>1
<1>2. CASE ClearRow
  BY <1>2 DEF ClearRow
<1>3. CASE ShowSession \/ Unmount
  <2>1. NoView \in Views /\ NoView.state # "live"
    BY DEF NoView, Views
  <2>2. ASSUME ShowSession
        PROVE  view' \in Views /\ view'.state # "live"
    <3>1. PICK st \in {"waiting", "connecting"} :
            view' = [state |-> st, session |-> session, retries |-> 0,
                     notified |-> view.notified]
      BY <2>2 DEF ShowSession, Connecting, NoView
    <3>2. session \in 0 .. MaxAttempts /\ view.notified \in 0 .. MaxAttempts
          /\ 0 \in 0 .. MaxRetries
      BY DEF RunTypes, Views
    <3> QED
      BY <3>1, <3>2 DEF Views
  <2> QED
    BY <1>3, <2>1, <2>2 DEF ShowSession, Unmount
<1>4. CASE FetchDebugUrl
  <2>1. \/ view' = [view EXCEPT !.state = "live"] /\ view.session \in open
        \/ view' = [view EXCEPT !.retries = @ + 1] /\ view.retries < MaxRetries
           /\ view.state = "connecting"
        \/ view' = [view EXCEPT !.state = "unavailable"]
    BY <1>4 DEF FetchDebugUrl, ServesLiveView
  <2>2. view.retries < MaxRetries => view.retries + 1 \in 0 .. MaxRetries
    BY DEF Views
  <2>3. view' \in Views /\ (view'.state = "live" => view'.session \in Attempts)
    BY <2>1, <2>2 DEF Views, RunTypes
  <2> QED
    BY <1>4, <2>3 DEF FetchDebugUrl
<1>5. CASE FrameLoads
  <2>1. view' = [view EXCEPT !.notified = view.session] /\ view.session \in Attempts
        /\ view.session \in 0 .. MaxAttempts
    BY <1>5 DEF FrameLoads, RendersFrame, Views
  <2>2. view' \in Views /\ view'.session \in Attempts
    BY <2>1 DEF Views
  <2>3. [session |-> view.session, allowed |-> FALSE] \in [session : Attempts, allowed : BOOLEAN]
    BY <2>1
  <2> QED
    BY <1>5, <2>1, <2>2, <2>3 DEF FrameLoads
<1>6. CASE RouteAuthorizes \/ RouteMarks
  <2>1. PICK p \in posts : /\ rows' \subseteq rows \cup {p.session}
                           /\ posts' \subseteq posts \cup {[p EXCEPT !.allowed = TRUE]}
    BY <1>6 DEF RouteAuthorizes, RouteMarks
  <2>2. p \in [session : Attempts, allowed : BOOLEAN]
    OBVIOUS
  <2>3. /\ p.session \in Attempts
        /\ [p EXCEPT !.allowed = TRUE] \in [session : Attempts, allowed : BOOLEAN]
    BY <2>2
  <2> QED
    BY <1>6, <2>1, <2>3 DEF RouteAuthorizes, RouteMarks
<1>7. CASE \/ Load \/ InitSession \/ Announce \/ WaitChecks \/ WaitLooks \/ Abandon
           \/ NextNode \/ Execute \/ Finish \/ Shoot \/ SaveArtifact \/ Close
  BY <1>1, <1>7 DEF Load, InitSession, Announce, WaitChecks, WaitLooks, Abandon, NextNode, Execute,
     Finish, Shoot, SaveArtifact, Close
<1>8. CASE BackgroundFlush \/ StopRun \/ Kill \/ Settle \/ Reattempt
  BY <1>1, <1>8 DEF BackgroundFlush, StopRun, Kill, Settle, Reattempt
<1>9. CASE ShowResults \/ WatchReplay \/ PollReplay \/ UNCHANGED vars
  BY <1>1, <1>9 DEF ShowResults, WatchReplay, PollReplay, vars
<1> QED
  BY <1>2, <1>3, <1>4, <1>5, <1>6, <1>7, <1>8, <1>9 DEF Next, TaskStep, ViewerStep

(* The results show what the routes answer.                                *)
LEMMA ResultTypesStep ==
  ASSUME ResultTypes, [Next]_vars
  PROVE  ResultTypes'
<1> USE DEF ResultTypes, taskVars, runVars, sharedVars, viewerVars, frame, nextFrame, viewFrame
<1>1. CASE UNCHANGED results
  BY <1>1
<1>2. CASE ShowResults
  BY <1>2 DEF ShowResults
<1>3. CASE WatchReplay
  BY <1>3 DEF WatchReplay
<1>4. CASE PollReplay
  <2>1. PICK answer \in {"error", "loading", "ready"} :
          results' = [results EXCEPT !.replay = answer]
    BY <1>4 DEF PollReplay, ReplayAnswers
  <2> QED
    BY <2>1
<1>5. CASE TaskStep
  BY <1>1, <1>5 DEF TaskStep, Load, InitSession, Announce, WaitChecks, WaitLooks, Abandon, NextNode,
     Execute, Finish, Shoot, SaveArtifact, Close, ClearRow
<1>6. CASE BackgroundFlush \/ StopRun \/ Kill \/ Settle \/ Reattempt
  BY <1>1, <1>6 DEF BackgroundFlush, StopRun, Kill, Settle, Reattempt
<1>7. CASE ShowSession \/ Unmount \/ FetchDebugUrl \/ FrameLoads \/ RouteAuthorizes \/ RouteMarks
  BY <1>1, <1>7 DEF ShowSession, Unmount, FetchDebugUrl, FrameLoads, RouteAuthorizes, RouteMarks
<1> QED
  BY <1>1, <1>2, <1>3, <1>4, <1>5, <1>6, <1>7 DEF Next, ViewerStep, vars

(* The variables hold what they stand for, in every attempt and after any  *)
(* stop, kill or failed call.                                              *)
THEOREM TypeCorrect == Spec => []TypeOK
<1> DEFINE Types == /\ TaskTypes /\ RunTypes /\ PanelTypes /\ ResultTypes /\ StepsTold
                    /\ faults \in 0 .. MaxFaults
<1>1. Init => Types
  <2> SUFFICES ASSUME Init
               PROVE  Types
    OBVIOUS
  <2>1. TaskTypes /\ faults \in 0 .. MaxFaults
    <3>1. WaitPolls \in 0 .. WaitPolls /\ 0 \in 0 .. MaxFaults
      BY TaskConstants
    <3> QED
      BY <3>1 DEF Init, TaskTypes, Stages
  <2>2. ResultTypes
    BY DEF Init, ResultTypes
  <2>3. RunTypes /\ PanelTypes
    BY TaskConstants DEF Init, RunTypes, PanelTypes, Views, NoView, Attempts
  <2>4. StepsTold
    BY LengthOfOrder DEF Init, Seeded, StepsTold, Told, SetForLater, InOrder, Body, Indices, StepStatus
  <2> QED
    BY <2>1, <2>2, <2>3, <2>4
<1>2. Types /\ [Next]_vars => Types'
  BY FaultsCounted, TaskTypesStep, RunTypesStep, PanelTypesStep, ResultTypesStep, StepsToldStep
<1>3. Types => TypeOK
  BY DEF TypeOK, TaskTypes, RunTypes, PanelTypes, ResultTypes, StepsTold, Views
<1> QED
  BY <1>1, <1>2, <1>3, PTL DEF Spec

=============================================================================
