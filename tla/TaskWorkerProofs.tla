-------------------------- MODULE TaskWorkerProofs --------------------------
(***************************************************************************)
(* Proofs, for every set of tasks, runs and affinity keys, whatever the    *)
(* envelopes hold and however often a run is canceled, of what             *)
(* MCTaskWorker checks with two tasks: the types, that a result is acked   *)
(* only once it is on the result stream (DurableHandoff), and that a key   *)
(* has one browser session (SessionExclusive).                             *)
(***************************************************************************)
EXTENDS TaskWorker, TLAPS

(* What an await of one process() may change outside the sessions.         *)
OneTask(t) ==
  /\ pc' \in [Tasks -> Stages] /\ \A u \in Tasks \ {t} : pc'[u] = pc[u]
  /\ result' \in [Tasks -> Results \cup {NoResult}]
  /\ \A u \in Tasks \ {t} : result'[u] = result[u]
  /\ using' \in [Tasks -> Tasks \cup {NoTask}]
  /\ \A u \in Tasks \ {t} : using'[u] = using[u]
  /\ kind' = kind /\ UNCHANGED loopVars
  /\ published \subseteq published' /\ published' \subseteq published \cup {t}
  /\ acked \subseteq acked' /\ acked' \subseteq acked \cup {t}

(* The steps, by who takes them.                                           *)
LEMMA NextCases ==
  ASSUME Next
  PROVE  \/ \E t \in Tasks : Claim(t) \/ TaskStep(t) \/ SessionOpens(t) \/ OpenRejects(t)
         \/ \E r \in Runs : ApplyCancel(r)
         \/ MoveCloser \/ CloserReturns \/ Stop \/ LoopEnds
  BY DEF Next, OpenSettles

-----------------------------------------------------------------------------
(* One step of a task.                                                     *)

(* Where a task may go next, with which result, and on which condition.    *)
Route(t) ==
  \/ /\ pc[t] = "decode" /\ pc'[t] = "ack" /\ result'[t] = result[t]
  \/ /\ pc[t] = "decode" /\ pc'[t] = "publish_canceled" /\ result'[t] = Canceled
  \/ /\ pc[t] = "decode" /\ pc'[t] = "acquire" /\ result'[t] = result[t]
  \/ /\ pc[t] = "acquire" /\ pc'[t] \in {"ack", "synthetic", "load"} /\ result'[t] = result[t]
  \/ /\ pc[t] \in {"synthetic", "load", "preds", "act", "shot"} /\ pc'[t] = "publish"
     /\ result'[t].status # "executed"
  \/ /\ pc[t] \in {"load", "act"} /\ pc'[t] = "shot" /\ result'[t].status = "executed"
  \/ /\ pc[t] = "load" /\ pc'[t] = "preds" /\ result'[t] = result[t]
  \/ /\ pc[t] = "preds" /\ kind[t] = "plain" /\ pc'[t] = "act" /\ result'[t] = result[t]
  \/ /\ pc[t] = "preds" /\ kind[t] = "browser" /\ GetSession(t) /\ result'[t] = result[t]
  \/ /\ pc[t] = "view" /\ pc'[t] = "act" /\ result'[t] = result[t] /\ using'[t] = using[t]
  \/ /\ pc[t] = "publish_canceled" /\ pc'[t] = "ack" /\ result'[t] = result[t]
  \/ /\ pc[t] = "publish" /\ pc'[t] = "ack" /\ result'[t] = result[t] /\ t \in published'
  \/ /\ pc[t] = "publish" /\ pc'[t] = "pending" /\ result'[t] = result[t]
  \/ /\ pc[t] = "ack" /\ pc'[t] = "done" /\ result'[t] = result[t]
  \/ /\ pc[t] = "ack" /\ pc'[t] = "pending" /\ result'[t] = result[t] /\ acked' = acked

(* A class of error encodes to a result that is not that of an executed    *)
(* task.                                                                   *)
LEMMA EncodeTyped ==
  ASSUME NEW t \in Tasks, NEW class \in Classes
  PROVE  Encode(t, class) \in Results /\ Encode(t, class).status # "executed"
  BY DEF Encode, Results, Classes

(* A task that throws is to publish a result of the envelope's own.        *)
LEMMA ThrowEffect ==
  ASSUME TypeOK, NEW t \in Tasks, Throw(t)
  PROVE  /\ pc' = [pc EXCEPT ![t] = "publish"]
         /\ result' \in [Tasks -> Results \cup {NoResult}]
         /\ \A u \in Tasks \ {t} : result'[u] = result[u]
         /\ result'[t].status # "executed"
<1>1. PICK class \in Classes : result' = [result EXCEPT ![t] = Encode(t, class)]
  BY DEF Throw, Classes
<1>2. Encode(t, class) \in Results /\ Encode(t, class).status # "executed" BY EncodeTyped
<1>3. QED BY <1>1, <1>2 DEF TypeOK, Throw, Goto

(* A task whose executor returns is to take its screenshot.                *)
LEMMA ReturnEffect ==
  ASSUME TypeOK, NEW t \in Tasks, NEW class \in Classes, Return(t, class)
  PROVE  /\ pc' = [pc EXCEPT ![t] = "shot"]
         /\ result' \in [Tasks -> Results \cup {NoResult}]
         /\ \A u \in Tasks \ {t} : result'[u] = result[u]
         /\ result'[t].status = "executed"
<1>1. [status |-> "executed", class |-> class] \in Results BY DEF Results
<1>2. QED BY <1>1 DEF TypeOK, Return, Goto

(* A task that goes on moves no other.                                     *)
LEMMA GotoEffect ==
  ASSUME TypeOK, NEW t \in Tasks, NEW stage \in Stages, Goto(t, stage)
  PROVE  /\ pc' \in [Tasks -> Stages] /\ pc'[t] = stage
         /\ \A u \in Tasks \ {t} : pc'[u] = pc[u]
  BY DEF TypeOK, Goto

(* A task that enters a session moves no other and writes no session.      *)
LEMMA EnterEffect ==
  ASSUME TypeOK, NEW t \in Tasks, NEW s \in Tasks, EnterSession(t, s)
  PROVE  /\ using' = [using EXCEPT ![t] = s]
         /\ pc'[t] \in {"view", "act"}
         /\ pc' \in [Tasks -> Stages] /\ \A u \in Tasks \ {t} : pc'[u] = pc[u]
         /\ state' = state /\ sessions' = sessions /\ closer' = closer
         /\ watched' \in [Tasks -> BOOLEAN]
<1>1. CASE watched[s]
  BY <1>1, GotoEffect DEF TypeOK, SessionTypeOK, EnterSession, sessionVars, Stages
<1>2. CASE ~watched[s]
  <2>1. Goto(t, "view") /\ Watch(s) BY <1>2 DEF EnterSession
  <2>2. QED BY <2>1, GotoEffect DEF TypeOK, SessionTypeOK, EnterSession, Watch, Stages
<1>3. QED BY <1>1, <1>2

(* A task that asks for a session joins one, waits for one or opens one.   *)
LEMMA GetSessionEffect ==
  ASSUME TypeOK, NEW t \in Tasks, GetSession(t)
  PROVE  /\ using' \in [Tasks -> Tasks \cup {NoTask}]
         /\ \A u \in Tasks \ {t} : using'[u] = using[u]
         /\ pc'[t] \in {"opening", "view", "act"}
         /\ pc' \in [Tasks -> Stages] /\ \A u \in Tasks \ {t} : pc'[u] = pc[u]
         /\ SessionTypeOK'
<1>1. CASE HasLive(keyOf[t]) /\ EnterSession(t, sessions[keyOf[t]])
  <2>1. PICK s \in Tasks : s = sessions[keyOf[t]]
    BY <1>1, SessionConstants DEF HasLive, TypeOK, SessionTypeOK
  <2>2. EnterSession(t, s) BY <1>1, <2>1
  <2>3. QED BY <2>2, EnterEffect DEF TypeOK, SessionTypeOK
<1>2. CASE Goto(t, "opening") /\ \E s \in Opening(keyOf[t]) : /\ using' = [using EXCEPT ![t] = s]
                                                               /\ UNCHANGED sessionVars
  BY <1>2, GotoEffect DEF Opening, Stages, TypeOK, SessionTypeOK, sessionVars
<1>3. CASE Goto(t, "opening") /\ using' = [using EXCEPT ![t] = t] /\ StartOpen(t)
  BY <1>3, GotoEffect DEF StartOpen, States, Stages, TypeOK, SessionTypeOK
<1>4. QED BY <1>1, <1>2, <1>3 DEF GetSession
(* The sessions and what a task uses of them change only where it gets one *)
(* or has done with it.                                                    *)
Keeps(t) ==
  \/ UNCHANGED sessionVars /\ using' = using
  \/ UNCHANGED sessionVars /\ pc[t] = "act" /\ using' = [using EXCEPT ![t] = NoTask]
  \/ pc[t] = "preds" /\ kind[t] = "browser" /\ GetSession(t)

(* Every step of a task takes one of the routes and touches no other task. *)
LEMMA TaskEffect ==
  ASSUME TypeOK, NEW t \in Tasks, TaskStep(t)
  PROVE  OneTask(t) /\ Route(t) /\ Keeps(t) /\ SessionTypeOK'
<1> DEFINE Calm == UNCHANGED sessionVars /\ using' = using
<1>0. Calm => SessionTypeOK' /\ Keeps(t)
  BY DEF TypeOK, SessionTypeOK, sessionVars, Keeps
<1>1. CASE Decode(t)
  <2>1. Canceled \in Results BY DEF Canceled, Results, Classes
  <2>2. OneTask(t) BY <1>1, <2>1 DEF Decode, Goto, TypeOK, OneTask, Stages
  <2>3. Route(t) BY <1>1, <2>1 DEF Decode, Goto, TypeOK, Route, Stages
  <2>4. Calm BY <1>1 DEF Decode
  <2>5. QED BY <1>0, <2>2, <2>3, <2>4
<1>2. CASE Acquire(t)
  <2>1. PICK stage \in {"ack", "synthetic", "load"} : Goto(t, stage)
    BY <1>2 DEF Acquire
  <2>2. OneTask(t) BY <1>2, <2>1 DEF Acquire, Goto, TypeOK, OneTask, Stages
  <2>3. Route(t) BY <1>2, <2>1 DEF Acquire, Goto, TypeOK, Route, Stages
  <2>4. Calm BY <1>2 DEF Acquire
  <2>5. QED BY <1>0, <2>2, <2>3, <2>4
<1>3. CASE RunSynthetic(t)
  <2>1. /\ pc' = [pc EXCEPT ![t] = "publish"]
        /\ result' \in [Tasks -> Results \cup {NoResult}]
        /\ \A u \in Tasks \ {t} : result'[u] = result[u]
        /\ result'[t].status # "executed"
    <3>1. CASE Throw(t) BY <3>1, ThrowEffect
    <3>2. CASE \E class \in {"none", "transient", "permanent"} :
                 result' = [result EXCEPT ![t] = Encode(t, class)] /\ Goto(t, "publish")
      <4>1. PICK class \in {"none", "transient", "permanent"} :
              result' = [result EXCEPT ![t] = Encode(t, class)] /\ Goto(t, "publish")
        BY <3>2
      <4>2. Encode(t, class) \in Results /\ Encode(t, class).status # "executed"
        BY EncodeTyped DEF Classes
      <4>3. QED BY <4>1, <4>2 DEF Goto, TypeOK
    <3>3. QED BY <1>3, <3>1, <3>2 DEF RunSynthetic
  <2>2. OneTask(t) BY <1>3, <2>1 DEF RunSynthetic, TypeOK, OneTask, Stages
  <2>3. Route(t) BY <1>3, <2>1 DEF RunSynthetic, TypeOK, Route, Stages
  <2>4. Calm BY <1>3 DEF RunSynthetic
  <2>5. QED BY <1>0, <2>2, <2>3, <2>4
<1>4. CASE LoadVersion(t)
  <2>1. Calm /\ UNCHANGED <<loopVars, kind, published, acked>> /\ pc[t] = "load" BY <1>4 DEF LoadVersion
  <2>2. CASE Throw(t)
    <3>1. OneTask(t) BY <2>1, <2>2, ThrowEffect DEF TypeOK, OneTask, Stages
    <3>2. Route(t) BY <2>1, <2>2, ThrowEffect DEF TypeOK, Route, Stages
    <3>3. QED BY <1>0, <2>1, <3>1, <3>2
  <2>3. CASE \E class \in Classes : Return(t, class)
    <3>1. OneTask(t) BY <2>1, <2>3, ReturnEffect DEF TypeOK, OneTask, Stages
    <3>2. Route(t) BY <2>1, <2>3, ReturnEffect DEF TypeOK, Route, Stages
    <3>3. QED BY <1>0, <2>1, <3>1, <3>2
  <2>4. CASE Goto(t, "preds") /\ UNCHANGED result
    <3>1. OneTask(t) BY <2>1, <2>4 DEF Goto, TypeOK, OneTask, Stages
    <3>2. Route(t) BY <2>1, <2>4 DEF Goto, TypeOK, Route, Stages
    <3>3. QED BY <1>0, <2>1, <3>1, <3>2
  <2>5. QED BY <1>4, <2>2, <2>3, <2>4 DEF LoadVersion, Classes
<1>5. CASE LoadPredecessors(t)
  <2>1. UNCHANGED <<loopVars, kind, published, acked>> /\ pc[t] = "preds" BY <1>5 DEF LoadPredecessors
  <2>2. CASE Throw(t) /\ Calm
    <3>1. OneTask(t) BY <2>1, <2>2, ThrowEffect DEF TypeOK, OneTask, Stages
    <3>2. Route(t) BY <2>1, <2>2, ThrowEffect DEF TypeOK, Route, Stages
    <3>3. QED BY <1>0, <2>2, <3>1, <3>2
  <2>3. CASE kind[t] = "plain" /\ Goto(t, "act") /\ UNCHANGED result /\ Calm
    <3>1. OneTask(t) BY <2>1, <2>3 DEF Goto, TypeOK, OneTask, Stages
    <3>2. Route(t) BY <2>1, <2>3 DEF Goto, TypeOK, Route, Stages
    <3>3. QED BY <1>0, <2>3, <3>1, <3>2
  <2>4. CASE kind[t] = "browser" /\ GetSession(t) /\ UNCHANGED result
    <3>1. OneTask(t) BY <2>1, <2>4, GetSessionEffect DEF TypeOK, OneTask
    <3>2. Route(t) BY <2>1, <2>4 DEF Route
    <3>3. SessionTypeOK' BY <2>4, GetSessionEffect
    <3>4. Keeps(t) BY <2>1, <2>4 DEF Keeps
    <3>5. QED BY <3>1, <3>2, <3>3, <3>4
  <2>5. QED BY <1>5, <2>2, <2>3, <2>4 DEF LoadPredecessors
<1>6. CASE LiveViewReady(t)
  <2>1. OneTask(t) BY <1>6 DEF LiveViewReady, Goto, TypeOK, OneTask, Stages
  <2>2. Route(t) BY <1>6 DEF LiveViewReady, Goto, TypeOK, Route, Stages
  <2>3. Calm BY <1>6 DEF LiveViewReady
  <2>4. QED BY <1>0, <2>1, <2>2, <2>3
<1>7. CASE Act(t)
  <2>1. PICK class \in Classes : Return(t, class) BY <1>7 DEF Act, Classes
  <2>2. OneTask(t) BY <1>7, <2>1, ReturnEffect DEF Act, TypeOK, OneTask, Stages
  <2>3. Route(t) BY <1>7, <2>1, ReturnEffect DEF Act, TypeOK, Route, Stages
  <2>4. Keeps(t) BY <1>7 DEF Act, Keeps
  <2>5. SessionTypeOK' BY <1>7 DEF Act, TypeOK, SessionTypeOK, sessionVars
  <2>6. QED BY <2>2, <2>3, <2>4, <2>5
<1>8. CASE Capture(t)
  <2>1. result[t].status = "executed" BY <1>8 DEF TypeOK, Capture
  <2>2. result[t] \in Results BY <2>1 DEF TypeOK, NoResult
  <2>3. PICK class \in Classes : class = result[t].class BY <2>2 DEF Results
  <2>4. Encode(t, class) \in Results /\ Encode(t, class).status # "executed" BY EncodeTyped
  <2>5. result' = [result EXCEPT ![t] = Encode(t, class)] /\ Goto(t, "publish")
    BY <1>8, <2>3 DEF Capture
  <2>6. OneTask(t) BY <1>8, <2>4, <2>5 DEF Capture, Goto, TypeOK, OneTask, Stages
  <2>7. Route(t) BY <1>8, <2>4, <2>5 DEF Capture, Goto, TypeOK, Route, Stages
  <2>8. Calm BY <1>8 DEF Capture
  <2>9. QED BY <1>0, <2>6, <2>7, <2>8
<1>9. CASE Publish(t)
  <2>1. OneTask(t) BY <1>9 DEF Publish, Goto, TypeOK, OneTask, Stages
  <2>2. Route(t) BY <1>9 DEF Publish, Goto, TypeOK, Route, Stages
  <2>3. Calm BY <1>9 DEF Publish
  <2>4. QED BY <1>0, <2>1, <2>2, <2>3
<1>10. CASE Ack(t)
  <2>1. OneTask(t) BY <1>10 DEF Ack, Goto, TypeOK, OneTask, Stages
  <2>2. Route(t) BY <1>10 DEF Ack, Goto, TypeOK, Route, Stages
  <2>3. Calm BY <1>10 DEF Ack
  <2>4. QED BY <1>0, <2>1, <2>2, <2>3
<1>11. QED BY <1>1, <1>2, <1>3, <1>4, <1>5, <1>6, <1>7, <1>8, <1>9, <1>10 DEF TaskStep
-----------------------------------------------------------------------------
(* Types.                                                                  *)

(* A closer that has one key or one opening less to see to is still a      *)
(* closer.                                                                 *)
LEMMA ClosersTyped ==
  ASSUME SessionTypeOK
  PROVE  /\ Idle \in Closers
         /\ \A k \in Keys : [closer EXCEPT !.keys = @ \ {k}] \in Closers
         /\ \A s \in Tasks : [closer EXCEPT !.opens = @ \ {s}] \in Closers
  BY DEF SessionTypeOK, Idle, Closers

(* Marking the entry of a key closed.                                      *)
LEMMA CloseKeyEffect ==
  ASSUME SessionTypeOK, NEW k \in Keys, NEW rest \in Closers, CloseKey(k, rest)
  PROVE  /\ SessionTypeOK'
         /\ closer'.keys = rest.keys /\ closer'.opens = rest.opens
         /\ closer'.mode = rest.mode /\ closer'.run = rest.run
         /\ sessions' = sessions /\ watched' = watched
         /\ \/ ~HasLive(k) /\ state' = state /\ closer'.busy = NoTask
            \/ HasLive(k) /\ closer'.busy = sessions[k]
               /\ state' = [state EXCEPT ![sessions[k]] = "closing"]
<1>1. CASE HasLive(k)
  <2>1. PICK s \in Tasks : s = sessions[k] BY <1>1 DEF HasLive, SessionTypeOK
  <2>2. state' = [state EXCEPT ![s] = "closing"] /\ closer' = [rest EXCEPT !.busy = s]
    BY <1>1, <2>1 DEF CloseKey
  <2>3. state' \in [Tasks -> States] BY <2>2 DEF SessionTypeOK, States
  <2>4. closer' \in Closers BY <2>2 DEF Closers
  <2>5. UNCHANGED <<watched, sessions>> BY DEF CloseKey
  <2>6. QED BY <1>1, <2>1, <2>2, <2>3, <2>4, <2>5 DEF SessionTypeOK, Closers
<1>2. CASE ~HasLive(k)
  BY <1>2 DEF CloseKey, SessionTypeOK, Closers
<1>3. QED BY <1>1, <1>2

(* The closer keeps the types of the session map.                          *)
LEMMA CloserTyped ==
  ASSUME TypeOK, CloserStep
  PROVE  SessionTypeOK'
<1>0. SessionTypeOK BY DEF TypeOK
<1>1. ASSUME NEW k \in Keys, CloseNextKey(k) PROVE SessionTypeOK'
  BY <1>0, <1>1, ClosersTyped, CloseKeyEffect DEF CloseNextKey
<1>2. CASE ClosedKey
  <2>1. PICK s \in Tasks : s = closer.busy
    BY <1>0, <1>2 DEF ClosedKey, SessionTypeOK, Closers
  <2>2. state' \in [Tasks -> States] BY <1>0, <1>2, <2>1 DEF ClosedKey, SessionTypeOK, States
  <2>3. sessions' \in [Keys -> Tasks \cup {NoTask}] BY <1>0, <1>2 DEF ClosedKey, SessionTypeOK
  <2>4. closer' \in Closers BY <1>0, <1>2 DEF ClosedKey, SessionTypeOK, Closers
  <2>5. QED BY <1>0, <1>2, <2>2, <2>3, <2>4 DEF ClosedKey, SessionTypeOK
<1>3. CASE CollectOpens BY <1>0, <1>3 DEF CollectOpens, SessionTypeOK, Closers
<1>4. ASSUME NEW s \in Tasks, AwaitOpen(s) PROVE SessionTypeOK'
  <2>1. PICK rest \in Closers : rest = [closer EXCEPT !.opens = @ \ {s}] BY <1>0, ClosersTyped
  <2>2. CASE CloseKey(keyOf[s], rest)
    BY <1>0, <2>2, CloseKeyEffect, SessionConstants
  <2>3. CASE closer' = rest /\ UNCHANGED <<state, watched, sessions>>
    BY <1>0, <2>3 DEF SessionTypeOK
  <2>4. QED BY <1>4, <2>1, <2>2, <2>3 DEF AwaitOpen
<1>5. QED BY <1>1, <1>2, <1>3, <1>4 DEF CloserStep

(* An open settles for the session and for every task that waits for it.   *)
LEMMA OpensTyped ==
  ASSUME TypeOK, NEW s \in Tasks, SessionOpens(s)
  PROVE  SessionTypeOK' /\ pc' \in [Tasks -> Stages]
         /\ \A t \in Tasks : \/ pc'[t] = pc[t] /\ t \notin Waiting(s)
                             \/ t \in Waiting(s) /\ pc'[t] \in {"view", "act"}
<1>1. SessionTypeOK'
  <2>1. keyOf[s] \in Keys BY SessionConstants
  <2>2. PICK awaited \in BOOLEAN : OpenSucceeds(s, awaited) BY DEF SessionOpens
  <2>3. QED BY <2>1, <2>2 DEF TypeOK, SessionTypeOK, OpenSucceeds, States
<1>2. CASE Waiting(s) = {} /\ UNCHANGED pc BY <1>1, <1>2 DEF TypeOK
<1>3. ASSUME NEW first \in Waiting(s),
             pc' = [t \in Tasks |-> IF t = first THEN "view"
                                    ELSE IF t \in Waiting(s) THEN "act" ELSE pc[t]]
      PROVE  /\ pc' \in [Tasks -> Stages]
             /\ \A t \in Tasks : \/ pc'[t] = pc[t] /\ t \notin Waiting(s)
                                 \/ t \in Waiting(s) /\ pc'[t] \in {"view", "act"}
  BY <1>3 DEF TypeOK, Stages
<1>4. QED BY <1>1, <1>2, <1>3 DEF SessionOpens

(* An opening that is rejected fails every task that waits for it, and no  *)
(* other.                                                                  *)
LEMMA RejectsTyped ==
  ASSUME TypeOK, NEW s \in Tasks, OpenRejects(s)
  PROVE  /\ SessionTypeOK' /\ pc' \in [Tasks -> Stages]
         /\ result' \in [Tasks -> Results \cup {NoResult}]
         /\ using' \in [Tasks -> Tasks \cup {NoTask}]
         /\ \A t \in Tasks :
              \/ t \notin Waiting(s) /\ pc'[t] = pc[t] /\ result'[t] = result[t]
                 /\ using'[t] = using[t]
              \/ t \in Waiting(s) /\ pc'[t] = "shot" /\ result'[t].status = "executed"
<1>1. SessionTypeOK' BY DEF TypeOK, SessionTypeOK, OpenRejects, OpenFails, States
<1>2. [status |-> "executed", class |-> "transient"] \in Results BY DEF Results, Classes
<1>3. QED BY <1>1, <1>2 DEF OpenRejects, TypeOK, Stages

(* The types hold at the start.                                            *)
LEMMA TypeInit == ASSUME Init PROVE TypeOK
<1>1. Idle \in Closers BY DEF Idle, Closers
<1>2. SessionTypeOK BY <1>1 DEF Init, SessionInit, SessionTypeOK, States
<1>3. kind \in [Tasks -> Kinds] BY DEF Init
<1>4. orders \in [Runs -> 0 .. MaxOrders] BY WorkerConstants DEF Init
<1>5. QED BY <1>2, <1>3, <1>4 DEF Init, TypeOK, Phases, Stages, NoResult, Results

(* Every step keeps the types.                                             *)
LEMMA TypeStep == ASSUME TypeOK, [Next]_vars PROVE TypeOK'
<1> USE DEF TypeOK
<1>1. ASSUME NEW t \in Tasks, Claim(t) PROVE TypeOK'
  BY <1>1 DEF Claim, Goto, sessionVars, SessionTypeOK, Stages, Phases
<1>2. ASSUME NEW t \in Tasks, TaskStep(t) PROVE TypeOK'
  <2>1. OneTask(t) /\ Route(t) /\ SessionTypeOK' BY <1>2, TaskEffect
  <2>2. result'[t].status = "executed" <=> pc'[t] = "shot"
    <3>1. CASE pc[t] = "preds" /\ kind[t] = "browser" /\ GetSession(t) /\ result'[t] = result[t]
      BY <3>1, GetSessionEffect
    <3>2. CASE ~(pc[t] = "preds" /\ kind[t] = "browser" /\ GetSession(t)
                 /\ result'[t] = result[t])
      BY <2>1, <3>2 DEF Route, Canceled
    <3>3. QED BY <3>1, <3>2
  <2>3. kind' \in [Tasks -> Kinds] /\ published' \subseteq Tasks /\ acked' \subseteq Tasks
    BY <2>1 DEF OneTask
  <2>4. QED BY <2>1, <2>2, <2>3 DEF OneTask, loopVars
<1>3. ASSUME NEW s \in Tasks, SessionOpens(s) PROVE TypeOK'
  <2>1. UNCHANGED <<loopVars, using, result, published, acked, kind>> BY <1>3 DEF SessionOpens
  <2>2. QED BY <1>3, <2>1, OpensTyped DEF Waiting, loopVars
<1>4. ASSUME NEW s \in Tasks, OpenRejects(s) PROVE TypeOK'
  <2>1. UNCHANGED <<loopVars, kind, published, acked>> BY <1>4 DEF OpenRejects
  <2>2. QED BY <1>4, <2>1, RejectsTyped DEF loopVars
<1>5. ASSUME NEW r \in Runs, ApplyCancel(r) PROVE TypeOK'
  <2>1. orders' \in [Runs -> 0 .. MaxOrders] /\ listening' \in BOOLEAN
    BY <1>5, WorkerConstants DEF ApplyCancel, ReadOrder
  <2>2. SessionTypeOK'
    <3>1. CASE UNCHANGED sessionVars BY <3>1 DEF sessionVars, SessionTypeOK
    <3>2. CASE BeginCancel(r)
      BY <3>2 DEF BeginCancel, SessionTypeOK, Closers, Idle
    <3>3. QED BY <1>5, <3>1, <3>2 DEF ApplyCancel
  <2>3. QED BY <1>5, <2>1, <2>2 DEF ApplyCancel, taskVars
<1>6. CASE MoveCloser
  BY <1>6, CloserTyped DEF MoveCloser, loopVars, taskVars
<1>7. CASE CloserReturns
  <2>1. SessionTypeOK' BY <1>7, ClosersTyped DEF CloserReturns, CloserDone, SessionTypeOK
  <2>2. QED BY <1>7, <2>1 DEF CloserReturns, taskVars, Phases
<1>8. CASE Stop BY <1>8 DEF Stop, taskVars, sessionVars, SessionTypeOK, Phases
<1>9. CASE LoopEnds
  <2>1. CASE ReadLoopEnds BY <2>1 DEF ReadLoopEnds, taskVars, sessionVars, SessionTypeOK
  <2>2. CASE ControlLoopEnds BY <2>2 DEF ControlLoopEnds, taskVars, sessionVars, SessionTypeOK
  <2>3. CASE Drain BY <2>3 DEF Drain, taskVars, sessionVars, SessionTypeOK, Phases
  <2>4. CASE CloseSessions
    <3>1. SessionTypeOK'
      BY <2>4 DEF CloseSessions, BeginCloseAll, SessionTypeOK, Closers, Idle
    <3>2. QED BY <2>4, <3>1 DEF CloseSessions, taskVars, Phases
  <2>5. QED BY <1>9, <2>1, <2>2, <2>3, <2>4 DEF LoopEnds
<1>10. CASE UNCHANGED vars BY <1>10 DEF vars, taskVars, loopVars, sessionVars, SessionTypeOK
<1>11. QED BY <1>1, <1>2, <1>3, <1>4, <1>5, <1>6, <1>7, <1>8, <1>9, <1>10, NextCases

(* The types, for every set of tasks, runs and keys.                       *)
THEOREM TypeCorrect == Spec => []TypeOK
  BY TypeInit, TypeStep, PTL DEF Spec
-----------------------------------------------------------------------------
(* DurableHandoff.                                                         *)

(* Nothing is answered before the task ran; what reaches the ack is an     *)
(* envelope without an answer, the answer of a task that never ran, or a   *)
(* published one; a task is acked last.                                    *)
HandsOff(t) ==
  /\ pc[t] \in {"queued", "decode", "acquire", "synthetic", "load", "preds", "opening",
                "view", "act"} => result[t] = NoResult
  /\ pc[t] = "publish_canceled" => result[t] = Canceled
  /\ pc[t] = "ack" => result[t] \in {NoResult, Canceled} \/ t \in published
  /\ t \in acked => /\ pc[t] = "done"
                    /\ result[t] \in {NoResult, Canceled} \/ t \in published

Handoffs == \A t \in Tasks : HandsOff(t)

(* A task that does not move keeps what it has handed off.                 *)
LEMMA HandsOffKept ==
  ASSUME NEW t \in Tasks, HandsOff(t), pc'[t] = pc[t], result'[t] = result[t],
         published \subseteq published', t \in acked' => t \in acked
  PROVE  HandsOff(t)'
  BY DEF HandsOff

(* Every step keeps the order of publishing and acknowledging.             *)
LEMMA HandoffStep == ASSUME TypeOK, Handoffs, [Next]_vars PROVE Handoffs'
<1>1. ASSUME NEW t \in Tasks, Claim(t) PROVE Handoffs'
  <2>1. HandsOff(t)' BY <1>1 DEF Claim, Goto, TypeOK, Handoffs, HandsOff
  <2>2. ASSUME NEW u \in Tasks \ {t} PROVE HandsOff(u)'
    BY <1>1, HandsOffKept DEF Claim, Goto, TypeOK, Handoffs
  <2>3. QED BY <2>1, <2>2 DEF Handoffs
<1>2. ASSUME NEW t \in Tasks, TaskStep(t) PROVE Handoffs'
  <2>1. OneTask(t) /\ Route(t) BY <1>2, TaskEffect
  <2>2. ASSUME NEW u \in Tasks \ {t} PROVE HandsOff(u)'
    BY <2>1, HandsOffKept DEF OneTask, Handoffs
  <2>3. HandsOff(t) /\ published \subseteq published' /\ acked' \subseteq acked \cup {t}
    BY <2>1 DEF Handoffs, OneTask
  <2>4. t \in acked => pc[t] = "done" BY <2>3 DEF HandsOff
  <2>5. HandsOff(t)'
    <3>1. CASE pc[t] = "preds" /\ kind[t] = "browser" /\ GetSession(t) /\ result'[t] = result[t]
      <4>1. pc'[t] \in {"opening", "view", "act"} BY <3>1, GetSessionEffect
      <4>2. acked' = acked BY <1>2, <3>1 DEF TaskStep, Decode, Acquire, RunSynthetic, LoadVersion,
              LoadPredecessors, LiveViewReady, Act, Capture, Publish, Ack
      <4>3. QED BY <2>3, <2>4, <3>1, <4>1, <4>2 DEF HandsOff
    <3>2. CASE ~(pc[t] = "preds" /\ kind[t] = "browser" /\ GetSession(t)
                 /\ result'[t] = result[t])
      <4>1. pc[t] # "ack" => acked' = acked
        BY <1>2 DEF TaskStep, Decode, Acquire, RunSynthetic, LoadVersion,
           LoadPredecessors, LiveViewReady, Act, Capture, Publish, Ack
      <4>2. QED BY <2>1, <2>3, <2>4, <3>2, <4>1 DEF HandsOff, Route
    <3>3. QED BY <3>1, <3>2
  <2>6. QED BY <2>2, <2>5 DEF Handoffs
<1>3. ASSUME NEW s \in Tasks, SessionOpens(s) PROVE Handoffs'
  <2>1. UNCHANGED <<result, published, acked>> BY <1>3 DEF SessionOpens
  <2>2. ASSUME NEW t \in Tasks PROVE HandsOff(t)'
    BY <1>3, <2>1, OpensTyped DEF Waiting, Handoffs, HandsOff
  <2>3. QED BY <2>2 DEF Handoffs
<1>4. ASSUME NEW s \in Tasks, OpenRejects(s) PROVE Handoffs'
  <2>1. UNCHANGED <<published, acked>> BY <1>4 DEF OpenRejects
  <2>2. ASSUME NEW t \in Tasks PROVE HandsOff(t)'
    BY <1>4, <2>1, RejectsTyped DEF Waiting, Handoffs, HandsOff
  <2>3. QED BY <2>2 DEF Handoffs
<1>5. ASSUME UNCHANGED taskVars PROVE Handoffs'
  BY <1>5 DEF taskVars, Handoffs, HandsOff
<1>6. ASSUME NEW r \in Runs, ApplyCancel(r) PROVE UNCHANGED taskVars BY <1>6 DEF ApplyCancel
<1>7. MoveCloser \/ CloserReturns \/ Stop \/ LoopEnds \/ UNCHANGED vars => UNCHANGED taskVars
  BY DEF MoveCloser, CloserReturns, Stop, LoopEnds, ReadLoopEnds, ControlLoopEnds, Drain,
         CloseSessions, vars
<1>8. QED BY <1>1, <1>2, <1>3, <1>4, <1>5, <1>6, <1>7, NextCases

(* The durable handoff rule of worker.ts: whatever opens, fails, is        *)
(* canceled or shut down, an executed task is acked only after its result  *)
(* is on the result stream.                                                *)
THEOREM AckedIsPublished == Spec => []DurableHandoff
<1>1. Init => Handoffs BY DEF Init, Handoffs, HandsOff
<1>2. TypeOK /\ Handoffs => DurableHandoff BY DEF TypeOK, Handoffs, HandsOff, DurableHandoff
<1>3. QED BY <1>1, <1>2, HandoffStep, TypeCorrect, PTL DEF Spec
-----------------------------------------------------------------------------
(* SessionExclusive.                                                       *)

(* The sessions of a key are being closed, or have been.                   *)
Closed(k) == phase \in {"closing", "stopped"} \/ KeyCanceled(k)

Early == {"queued", "decode", "acquire", "synthetic", "load", "preds"}

(* The map files a session under its own key.                              *)
Filed == \A k \in Keys : sessions[k] # NoTask => keyOf[sessions[k]] = k

(* A task opens nothing before it asks for a session; one that waits does  *)
(* so for an open in flight of its own key.                                *)
Asks(t) ==
  /\ pc[t] \in Early => state[t] = "none"
  /\ pc[t] = "opening" => /\ using[t] \in Tasks /\ keyOf[using[t]] = keyOf[t]
                          /\ state[using[t]] = "opening"

Asking == \A t \in Tasks : Asks(t)

(* What the closer has in hand, or has still to do, belongs to a canceled  *)
(* run or to the shutdown.                                                 *)
ClosesItsOwn ==
  /\ closer.busy # NoTask => state[closer.busy] = "closing" /\ Closed(keyOf[closer.busy])
  /\ \A k \in closer.keys : Closed(k)
  /\ closer.run \in Runs => closer.run \in canceled

OneSession(k) ==
  \A s, u \in Tasks : /\ keyOf[s] = k /\ keyOf[u] = k
                      /\ state[s] \in {"opening", "live"} /\ state[u] \in {"opening", "live"}
                      => s = u

InTheMap(k) == \A s \in Tasks : keyOf[s] = k /\ state[s] = "live" => sessions[k] = s

WorksInIt(k, t) ==
  keyOf[t] = k /\ kind[t] = "browser" /\ pc[t] \in {"view", "act"}
    => HasLive(k) /\ using[t] = sessions[k]

Exclusive(k) == OneSession(k) /\ InTheMap(k) /\ \A t \in Tasks : WorksInIt(k, t)

SessionInv ==
  /\ Filed /\ Asking /\ ClosesItsOwn
  /\ \A k \in Keys : ~Closed(k) => Exclusive(k)

(* The invariant says what SessionExclusive asks.                          *)
LEMMA SessionsExclusive == ASSUME SessionInv PROVE SessionExclusive
  BY DEF SessionInv, Exclusive, OneSession, InTheMap, WorksInIt, Closed, SessionExclusive

(* No session is open at the start.                                        *)
LEMMA SessionInvInit == ASSUME Init PROVE SessionInv
<1>1. \A t \in Tasks : state[t] = "none" /\ pc[t] = "queued" BY DEF Init, SessionInit
<1>2. \A k \in Keys : sessions[k] = NoTask BY DEF Init, SessionInit
<1>3. closer.busy = NoTask /\ closer.keys = {} /\ closer.run = NoRun
  BY DEF Init, SessionInit, Idle
<1>4. QED BY <1>1, <1>2, <1>3, SessionConstants DEF SessionInv, Filed, Asking, Asks, ClosesItsOwn,
       Exclusive, OneSession, InTheMap, WorksInIt

(* Once the sessions of a key are being closed, they stay so.              *)
LEMMA ClosedForGood ==
  ASSUME [Next]_vars, NEW k, Closed(k)
  PROVE  Closed(k)'
<1>1. canceled \subseteq canceled'
      /\ (phase \in {"closing", "stopped"} => phase' \in {"closing", "stopped"})
  <2>1. ASSUME UNCHANGED loopVars PROVE <1>1 BY <2>1 DEF loopVars
  <2>2. ASSUME NEW t \in Tasks, Claim(t) PROVE <1>1 BY <2>2 DEF Claim
  <2>3. ASSUME NEW t \in Tasks, TaskStep(t) \/ SessionOpens(t) \/ OpenRejects(t)
        PROVE  UNCHANGED loopVars
    BY <2>3 DEF TaskStep, Decode, Acquire, RunSynthetic, LoadVersion, LoadPredecessors,
       LiveViewReady, Act, Capture, Publish, Ack, SessionOpens, OpenRejects
  <2>4. ASSUME NEW r \in Runs, ApplyCancel(r) PROVE <1>1 BY <2>4 DEF ApplyCancel
  <2>5. CASE MoveCloser \/ UNCHANGED vars BY <2>1, <2>5 DEF MoveCloser, vars
  <2>6. CASE CloserReturns BY <2>6 DEF CloserReturns
  <2>7. CASE Stop \/ LoopEnds
    BY <2>7 DEF Stop, LoopEnds, ReadLoopEnds, ControlLoopEnds, Drain, CloseSessions
  <2>8. QED BY <2>1, <2>2, <2>3, <2>4, <2>5, <2>6, <2>7, NextCases
<1>2. QED BY <1>1 DEF Closed, KeyCanceled

(* What holds of a key as long as neither its sessions nor the tasks that  *)
(* work in them change.                                                    *)
LEMMA QuietKeeps ==
  ASSUME TypeOK, SessionInv, [Next]_vars, UNCHANGED <<state, sessions, kind>>,
         \A t \in Tasks : Asks(t)',
         \A t \in Tasks : pc'[t] \in {"view", "act"} /\ kind[t] = "browser"
           => \/ pc[t] \in {"view", "act"} /\ using'[t] = using[t]
              \/ HasLive(keyOf[t]) /\ using'[t] = sessions[keyOf[t]],
         ClosesItsOwn'
  PROVE  SessionInv'
<1>1. Filed' BY DEF SessionInv, Filed
<1>2. Asking' BY DEF Asking
<1>3. ASSUME NEW k \in Keys, ~Closed(k)' PROVE Exclusive(k)'
  <2>1. Exclusive(k) BY <1>3, ClosedForGood DEF SessionInv
  <2>2. ASSUME NEW t \in Tasks PROVE WorksInIt(k, t)'
    BY <2>1 DEF Exclusive, WorksInIt, HasLive
  <2>3. QED BY <2>1, <2>2 DEF Exclusive, OneSession, InTheMap
<1>4. QED BY <1>1, <1>2, <1>3 DEF SessionInv

(* A step that leaves the closer alone, and the session it has in hand.    *)
LEMMA CloserKept ==
  ASSUME TypeOK, SessionInv, [Next]_vars, closer' = closer,
         \A s \in Tasks : state[s] = "closing" => state'[s] = "closing",
         canceled \subseteq canceled'
  PROVE  ClosesItsOwn'
<1>1. closer.busy \in Tasks \cup {NoTask} BY DEF TypeOK, SessionTypeOK, Closers
<1>2. QED BY <1>1, ClosedForGood DEF SessionInv, ClosesItsOwn

(* A task's own steps keep one session to a key.                           *)
LEMMA TaskSessions ==
  ASSUME TypeOK, SessionInv, Next, NEW t \in Tasks, TaskStep(t)
  PROVE  SessionInv'
<1>1. OneTask(t) /\ Route(t) /\ Keeps(t) BY TaskEffect
<1>2. canceled' = canceled /\ kind' = kind BY <1>1 DEF OneTask, loopVars
<1>3. Asks(t) /\ \A u \in Tasks : Asks(u) BY DEF SessionInv, Asking
<1>4. CASE /\ UNCHANGED sessionVars /\ (using' = using \/ pc[t] = "act")
           /\ ~(pc[t] = "preds" /\ kind[t] = "browser" /\ GetSession(t))
  <2>1. ClosesItsOwn' BY <1>2, <1>4, CloserKept DEF sessionVars
  <2>2. ASSUME NEW u \in Tasks PROVE Asks(u)'
    <3>1. CASE u = t BY <1>1, <1>3, <1>4, <3>1 DEF Asks, Route, Early, sessionVars
    <3>2. CASE u # t BY <1>1, <1>3, <1>4, <3>2 DEF Asks, OneTask, sessionVars
    <3>3. QED BY <3>1, <3>2
  <2>3. ASSUME NEW u \in Tasks, pc'[u] \in {"view", "act"} /\ kind[u] = "browser"
        PROVE  pc[u] \in {"view", "act"} /\ using'[u] = using[u]
    <3>1. CASE u = t BY <1>1, <1>4, <2>3, <3>1 DEF Route
    <3>2. CASE u # t BY <1>1, <2>3, <3>2 DEF OneTask
    <3>3. QED BY <3>1, <3>2
  <2>4. QED BY <1>2, <1>4, <2>1, <2>2, <2>3, QuietKeeps DEF sessionVars
<1>5. CASE pc[t] = "preds" /\ kind[t] = "browser" /\ GetSession(t)
  <2>0. keyOf[t] \in Keys BY SessionConstants
  <2>1. CASE HasLive(keyOf[t]) /\ EnterSession(t, sessions[keyOf[t]])
    <3>1. PICK s \in Tasks : s = sessions[keyOf[t]] BY <2>0, <2>1 DEF HasLive, TypeOK, SessionTypeOK
    <3>2. /\ using' = [using EXCEPT ![t] = s] /\ pc'[t] \in {"view", "act"}
          /\ state' = state /\ sessions' = sessions /\ closer' = closer
      BY <2>1, <3>1, EnterEffect
    <3>3. using'[t] = sessions[keyOf[t]] BY <3>1, <3>2 DEF TypeOK
    <3>4. ClosesItsOwn' BY <1>2, <3>2, CloserKept
    <3>5. ASSUME NEW u \in Tasks PROVE Asks(u)'
      <4>1. CASE u = t BY <3>2, <4>1 DEF Asks, Early
      <4>2. CASE u # t BY <1>1, <1>3, <3>2, <4>2 DEF Asks, OneTask
      <4>3. QED BY <4>1, <4>2
    <3>6. ASSUME NEW u \in Tasks, pc'[u] \in {"view", "act"} /\ kind[u] = "browser"
          PROVE  \/ pc[u] \in {"view", "act"} /\ using'[u] = using[u]
                 \/ HasLive(keyOf[u]) /\ using'[u] = sessions[keyOf[u]]
      <4>1. CASE u = t BY <2>1, <3>3, <4>1
      <4>2. CASE u # t BY <1>1, <3>6, <4>2 DEF OneTask
      <4>3. QED BY <4>1, <4>2
    <3>7. QED BY <1>2, <3>2, <3>4, <3>5, <3>6, QuietKeeps
  <2>2. CASE ~HasLive(keyOf[t]) /\ Goto(t, "opening")
             /\ \E s \in Opening(keyOf[t]) : /\ using' = [using EXCEPT ![t] = s]
                                             /\ UNCHANGED sessionVars
    <3>1. PICK s \in Opening(keyOf[t]) : /\ using' = [using EXCEPT ![t] = s]
                                         /\ UNCHANGED sessionVars
      BY <2>2
    <3>2. s \in Tasks /\ state[s] = "opening" /\ keyOf[s] = keyOf[t] BY DEF Opening
    <3>3. pc'[t] = "opening" BY <2>2 DEF Goto, TypeOK
    <3>4. using'[t] = s BY <3>1 DEF TypeOK
    <3>5. state' = state /\ sessions' = sessions /\ closer' = closer BY <3>1 DEF sessionVars
    <3>6. ClosesItsOwn' BY <1>2, <3>5, CloserKept
    <3>7. ASSUME NEW u \in Tasks PROVE Asks(u)'
      <4>1. CASE u = t BY <3>2, <3>3, <3>4, <3>5, <4>1 DEF Asks, Early
      <4>2. CASE u # t BY <1>1, <1>3, <3>5, <4>2 DEF Asks, OneTask
      <4>3. QED BY <4>1, <4>2
    <3>8. ASSUME NEW u \in Tasks, pc'[u] \in {"view", "act"} /\ kind[u] = "browser"
          PROVE  pc[u] \in {"view", "act"} /\ using'[u] = using[u]
      <4>1. u # t BY <3>3, <3>8
      <4>2. QED BY <1>1, <3>8, <4>1 DEF OneTask
    <3>9. QED BY <1>2, <3>5, <3>6, <3>7, <3>8, QuietKeeps
  <2>3. CASE ~HasLive(keyOf[t]) /\ Goto(t, "opening") /\ Opening(keyOf[t]) = {}
             /\ using' = [using EXCEPT ![t] = t] /\ StartOpen(t)
    <3>1. pc'[t] = "opening" /\ using'[t] = t BY <2>3 DEF Goto, TypeOK
    <3>2. /\ state'[t] = "opening" /\ \A u \in Tasks \ {t} : state'[u] = state[u]
          /\ sessions' = sessions /\ closer' = closer
      BY <2>3 DEF StartOpen, TypeOK, SessionTypeOK
    <3>3. state[t] = "none" BY <1>3, <1>5 DEF Asks, Early
    <3>4. ClosesItsOwn' BY <1>2, <3>2, <3>3, CloserKept
    <3>5. ASSUME NEW u \in Tasks PROVE Asks(u)'
      <4>1. CASE u = t BY <3>1, <3>2, <4>1 DEF Asks, Early
      <4>2. CASE u # t
        <5>1. pc'[u] = pc[u] /\ using'[u] = using[u] /\ state'[u] = state[u]
          BY <1>1, <3>2, <4>2 DEF OneTask
        <5>2. ASSUME pc[u] = "opening" PROVE state'[using[u]] = "opening"
          BY <1>3, <3>2, <5>2 DEF Asks
        <5>3. QED BY <1>3, <5>1, <5>2 DEF Asks
      <4>3. QED BY <4>1, <4>2
    <3>6. Filed' BY <3>2 DEF SessionInv, Filed
    <3>7. ASSUME NEW k \in Keys, ~Closed(k)' PROVE Exclusive(k)'
      <4>1. Exclusive(k) BY <3>7, ClosedForGood DEF SessionInv
      <4>2. sessions[k] \in Tasks \cup {NoTask} BY DEF TypeOK, SessionTypeOK
      <4>3. \A s \in Tasks : keyOf[s] = keyOf[t] /\ keyOf[t] = k => state[s] \notin {"opening", "live"}
        BY <2>3, <4>1, <4>2, SessionConstants DEF Exclusive, InTheMap, HasLive, Opening
      <4>4. OneSession(k)' BY <3>2, <4>1, <4>3 DEF Exclusive, OneSession
      <4>5. InTheMap(k)' BY <3>2, <4>1 DEF Exclusive, InTheMap
      <4>6. ASSUME NEW u \in Tasks PROVE WorksInIt(k, u)'
        <5>1. CASE u = t BY <3>1, <5>1 DEF WorksInIt
        <5>2. CASE u # t
          <6>1. pc'[u] = pc[u] /\ using'[u] = using[u] BY <1>1, <5>2 DEF OneTask
          <6>2. HasLive(k) => HasLive(k)' BY <3>2, <3>3, <4>2 DEF HasLive
          <6>3. WorksInIt(k, u) BY <4>1 DEF Exclusive
          <6>4. QED BY <1>2, <3>2, <6>1, <6>2, <6>3 DEF WorksInIt
        <5>3. QED BY <5>1, <5>2
      <4>7. QED BY <4>4, <4>5, <4>6 DEF Exclusive
    <3>8. QED BY <3>4, <3>5, <3>6, <3>7 DEF SessionInv, Asking
  <2>4. QED BY <1>5, <2>1, <2>2, <2>3 DEF GetSession
<1>6. QED BY <1>1, <1>4, <1>5 DEF Keeps
(* The open of s succeeds: it was the only session of its key.             *)
LEMMA OpensSessions ==
  ASSUME TypeOK, SessionInv, Next, NEW s \in Tasks, SessionOpens(s)
  PROVE  SessionInv'
<1>1. /\ state[s] = "opening" /\ state' = [state EXCEPT ![s] = "live"]
      /\ sessions' = [sessions EXCEPT ![keyOf[s]] = s] /\ closer' = closer
      /\ UNCHANGED <<loopVars, using, result, published, acked, kind>>
  BY DEF SessionOpens, OpenSucceeds
<1>2. keyOf[s] \in Keys BY SessionConstants
<1>3. /\ state'[s] = "live" /\ \A u \in Tasks \ {s} : state'[u] = state[u]
      /\ sessions'[keyOf[s]] = s /\ \A k \in Keys \ {keyOf[s]} : sessions'[k] = sessions[k]
  BY <1>1, <1>2 DEF TypeOK, SessionTypeOK
<1>4. canceled' = canceled /\ kind' = kind /\ using' = using BY <1>1 DEF loopVars
<1>5. ClosesItsOwn' BY <1>1, <1>3, <1>4, CloserKept
<1>6. Filed' BY <1>3 DEF SessionInv, Filed
<1>7. ASSUME NEW t \in Tasks PROVE Asks(t)'
  <2>1. Asks(t) BY DEF SessionInv, Asking
  <2>2. CASE pc'[t] = pc[t] /\ t \notin Waiting(s)
    <3>1. state[t] = "none" => state'[t] = "none" BY <1>1, <1>3
    <3>2. pc[t] = "opening" => using[t] # s BY <2>2 DEF Waiting
    <3>3. QED BY <1>3, <1>4, <2>1, <2>2, <3>1, <3>2 DEF Asks
  <2>3. CASE t \in Waiting(s) /\ pc'[t] \in {"view", "act"} BY <2>3 DEF Asks, Early
  <2>4. QED BY <2>2, <2>3, OpensTyped
<1>8. ASSUME NEW k \in Keys, ~Closed(k)' PROVE Exclusive(k)'
  <2>1. Exclusive(k) BY <1>8, ClosedForGood DEF SessionInv
  <2>2. CASE k = keyOf[s]
    <3>1. \A u \in Tasks \ {s} : keyOf[u] = k => state[u] \notin {"opening", "live"}
      BY <1>1, <2>1, <2>2 DEF Exclusive, OneSession
    <3>2. ~HasLive(k)
      BY <1>1, <3>1 DEF HasLive, SessionInv, Filed, TypeOK, SessionTypeOK
    <3>3. HasLive(k)' BY <1>3, <2>2, SessionConstants DEF HasLive
    <3>4. ASSUME NEW t \in Tasks PROVE WorksInIt(k, t)'
      <4>1. WorksInIt(k, t) BY <2>1 DEF Exclusive
      <4>2. CASE pc'[t] = pc[t] BY <1>4, <3>2, <4>1, <4>2 DEF WorksInIt
      <4>3. CASE t \in Waiting(s) BY <1>3, <1>4, <2>2, <3>3, <4>3 DEF WorksInIt, Waiting
      <4>4. QED BY <4>2, <4>3, OpensTyped
    <3>5. OneSession(k)' /\ InTheMap(k)' BY <1>3, <2>2, <3>1 DEF OneSession, InTheMap
    <3>6. QED BY <3>4, <3>5 DEF Exclusive
  <2>3. CASE k # keyOf[s]
    <3>1. OneSession(k)' /\ InTheMap(k)'
      BY <1>3, <2>1, <2>3 DEF Exclusive, OneSession, InTheMap
    <3>2. HasLive(k) => HasLive(k)'
      BY <1>3, <2>3 DEF HasLive, TypeOK, SessionTypeOK
    <3>3. ASSUME NEW t \in Tasks PROVE WorksInIt(k, t)'
      <4>1. WorksInIt(k, t) BY <2>1 DEF Exclusive
      <4>2. CASE pc'[t] = pc[t] BY <1>3, <1>4, <2>3, <3>2, <4>1, <4>2 DEF WorksInIt
      <4>3. CASE t \in Waiting(s)
        <5>1. keyOf[t] = keyOf[s] BY <4>3 DEF Waiting, SessionInv, Asking, Asks
        <5>2. QED BY <2>3, <5>1 DEF WorksInIt
      <4>4. QED BY <4>2, <4>3, OpensTyped
    <3>4. QED BY <3>1, <3>3 DEF Exclusive
  <2>4. QED BY <2>2, <2>3
<1>9. QED BY <1>5, <1>6, <1>7, <1>8 DEF SessionInv, Asking

(* A session that is no longer live or opening, in a key whose live        *)
(* session it was not: nobody worked in it.                                *)
LEMMA RejectsSessions ==
  ASSUME TypeOK, SessionInv, Next, NEW s \in Tasks, OpenRejects(s)
  PROVE  SessionInv'
<1>1. /\ state[s] = "opening" /\ state' = [state EXCEPT ![s] = "failed"]
      /\ sessions' = sessions /\ closer' = closer
      /\ UNCHANGED <<loopVars, kind, published, acked>>
  BY DEF OpenRejects, OpenFails
<1>2. state'[s] = "failed" /\ \A u \in Tasks \ {s} : state'[u] = state[u]
  BY <1>1 DEF TypeOK, SessionTypeOK
<1>3. canceled' = canceled /\ kind' = kind BY <1>1 DEF loopVars
<1>4. ClosesItsOwn' BY <1>1, <1>2, <1>3, CloserKept
<1>5. Filed' BY <1>1 DEF SessionInv, Filed
<1>6. ASSUME NEW t \in Tasks PROVE Asks(t)'
  <2>1. Asks(t) BY DEF SessionInv, Asking
  <2>2. CASE t \notin Waiting(s)
    <3>1. pc'[t] = pc[t] /\ using'[t] = using[t] BY <2>2, RejectsTyped
    <3>2. pc[t] = "opening" => using[t] # s BY <2>2 DEF Waiting
    <3>3. QED BY <1>1, <1>2, <2>1, <3>1, <3>2 DEF Asks
  <2>3. CASE t \in Waiting(s)
    <3>1. pc'[t] = "shot" BY <2>3, RejectsTyped
    <3>2. QED BY <3>1 DEF Asks, Early
  <2>4. QED BY <2>2, <2>3
<1>7. ASSUME NEW k \in Keys, ~Closed(k)' PROVE Exclusive(k)'
  <2>1. Exclusive(k) BY <1>7, ClosedForGood DEF SessionInv
  <2>2. HasLive(k) => HasLive(k)' BY <1>1, <1>2 DEF HasLive, TypeOK, SessionTypeOK
  <2>3. ASSUME NEW t \in Tasks PROVE WorksInIt(k, t)'
    <3>1. WorksInIt(k, t) BY <2>1 DEF Exclusive
    <3>2. \/ pc'[t] = pc[t] /\ using'[t] = using[t]
          \/ pc'[t] = "shot"
      BY RejectsTyped
    <3>3. QED BY <1>1, <1>3, <2>2, <3>1, <3>2 DEF WorksInIt
  <2>4. QED BY <1>1, <1>2, <2>1, <2>3 DEF Exclusive, OneSession, InTheMap
<1>8. QED BY <1>4, <1>5, <1>6, <1>7 DEF SessionInv, Asking

(* A session of a key that is closed anyway stops being opening or live.   *)
LEMMA ClosingKeeps ==
  ASSUME TypeOK, SessionInv, [Next]_vars, NEW s \in Tasks, Closed(keyOf[s]),
         state[s] \in {"live", "closing"},
         \A u \in Tasks \ {s} : state'[u] = state[u], state'[s] \in {"closing", "gone"},
         \A k \in Keys \ {keyOf[s]} : sessions'[k] = sessions[k],
         sessions'[keyOf[s]] \in {sessions[keyOf[s]], NoTask},
         UNCHANGED <<pc, using, kind>>, ClosesItsOwn'
  PROVE  SessionInv'
<1>1. Filed' BY DEF SessionInv, Filed
<1>2. ASSUME NEW t \in Tasks PROVE Asks(t)'
  <2>1. Asks(t) BY DEF SessionInv, Asking
  <2>2. QED BY <2>1 DEF Asks
<1>3. ASSUME NEW k \in Keys, ~Closed(k)' PROVE Exclusive(k)'
  <2>1. Exclusive(k) BY <1>3, ClosedForGood DEF SessionInv
  <2>2. k # keyOf[s] BY <1>3, ClosedForGood
  <2>3. sessions'[k] = sessions[k] BY <2>2
  <2>4. HasLive(k) => HasLive(k)'
    BY <2>2, <2>3 DEF HasLive, SessionInv, Filed, TypeOK, SessionTypeOK
  <2>5. ASSUME NEW t \in Tasks PROVE WorksInIt(k, t)' BY <2>1, <2>3, <2>4 DEF Exclusive, WorksInIt
  <2>6. QED BY <2>1, <2>2, <2>3, <2>5 DEF Exclusive, OneSession, InTheMap
<1>4. QED BY <1>1, <1>2, <1>3 DEF SessionInv, Asking

(* Nothing moves but the closer.                                           *)
LEMMA OnlyCloser ==
  ASSUME TypeOK, SessionInv, [Next]_vars, UNCHANGED <<state, sessions, pc, using, kind>>,
         ClosesItsOwn'
  PROVE  SessionInv'
<1>1. \A t \in Tasks : Asks(t)' BY DEF SessionInv, Asking, Asks
<1>2. QED BY <1>1, QuietKeeps

(* The closer marks the entry of k closed.                                 *)
LEMMA CloseKeyKeeps ==
  ASSUME TypeOK, SessionInv, [Next]_vars, NEW k \in Keys, Closed(k), NEW rest \in Closers,
         CloseKey(k, rest), rest.keys \subseteq closer.keys, rest.run = closer.run,
         UNCHANGED <<pc, using, kind, canceled>>
  PROVE  SessionInv'
<1>0. SessionTypeOK BY DEF TypeOK
<1>1. /\ closer'.keys = rest.keys /\ closer'.run = rest.run /\ sessions' = sessions
      /\ \/ ~HasLive(k) /\ state' = state /\ closer'.busy = NoTask
         \/ HasLive(k) /\ closer'.busy = sessions[k]
            /\ state' = [state EXCEPT ![sessions[k]] = "closing"]
  BY <1>0, CloseKeyEffect
<1>2. CASE ~HasLive(k) /\ state' = state /\ closer'.busy = NoTask
  <2>1. ClosesItsOwn' BY <1>1, <1>2, ClosedForGood DEF SessionInv, ClosesItsOwn
  <2>2. QED BY <1>1, <1>2, <2>1, OnlyCloser
<1>3. CASE HasLive(k) /\ closer'.busy = sessions[k]
           /\ state' = [state EXCEPT ![sessions[k]] = "closing"]
  <2>1. PICK s \in Tasks : s = sessions[k] BY <1>0, <1>3 DEF HasLive, SessionTypeOK
  <2>2. keyOf[s] = k /\ state[s] = "live"
    BY <1>3, <2>1, SessionConstants DEF SessionInv, Filed, HasLive
  <2>3. state'[s] = "closing" /\ \A u \in Tasks \ {s} : state'[u] = state[u]
    BY <1>0, <1>3, <2>1 DEF SessionTypeOK
  <2>4. ClosesItsOwn'
    <3>1. Closed(k)' BY ClosedForGood
    <3>2. QED BY <1>1, <1>3, <2>1, <2>2, <2>3, <3>1, ClosedForGood DEF SessionInv, ClosesItsOwn
  <2>5. QED BY <1>1, <2>2, <2>3, <2>4, ClosingKeeps
<1>4. QED BY <1>1, <1>2, <1>3

(* The closer closes a session before its key is free for another.         *)
LEMMA CloserSessions ==
  ASSUME TypeOK, SessionInv, Next, MoveCloser
  PROVE  SessionInv'
<1>0. SessionTypeOK /\ closer \in Closers BY DEF TypeOK, SessionTypeOK
<1>1. UNCHANGED <<pc, using, kind, canceled>> BY DEF MoveCloser, taskVars, loopVars
<1>2. ClosesItsOwn BY DEF SessionInv
<1>3. ASSUME NEW k \in Keys, CloseNextKey(k) PROVE SessionInv'
  <2>1. PICK rest \in Closers : rest = [closer EXCEPT !.keys = @ \ {k}]
    BY <1>0, ClosersTyped
  <2>2. rest.keys \subseteq closer.keys /\ rest.run = closer.run BY <1>0, <2>1 DEF Closers
  <2>3. Closed(k) BY <1>2, <1>3 DEF CloseNextKey, ClosesItsOwn
  <2>4. CloseKey(k, rest) BY <1>3, <2>1 DEF CloseNextKey
  <2>5. QED BY <1>1, <2>2, <2>3, <2>4, CloseKeyKeeps
<1>4. CASE ClosedKey
  <2>1. PICK s \in Tasks : s = closer.busy BY <1>0, <1>4 DEF ClosedKey, Closers
  <2>2. state[s] = "closing" /\ Closed(keyOf[s])
    BY <1>2, <2>1, SessionConstants DEF ClosesItsOwn
  <2>3. keyOf[s] \in Keys BY SessionConstants
  <2>4. /\ state'[s] = "gone" /\ \A u \in Tasks \ {s} : state'[u] = state[u]
        /\ sessions'[keyOf[s]] = NoTask
        /\ \A k \in Keys \ {keyOf[s]} : sessions'[k] = sessions[k]
    BY <1>0, <1>4, <2>1, <2>3 DEF ClosedKey, SessionTypeOK
  <2>5. closer'.busy = NoTask /\ closer'.keys = closer.keys /\ closer'.run = closer.run
    BY <1>0, <1>4 DEF ClosedKey, Closers
  <2>6. ClosesItsOwn' BY <1>1, <1>2, <2>5, ClosedForGood DEF ClosesItsOwn
  <2>7. QED BY <1>1, <2>2, <2>4, <2>6, ClosingKeeps
<1>5. CASE CollectOpens
  <2>1. closer'.busy = closer.busy /\ closer'.keys = closer.keys /\ closer'.run = closer.run
    BY <1>0, <1>5 DEF CollectOpens, Closers
  <2>2. UNCHANGED <<state, sessions>> BY <1>5 DEF CollectOpens
  <2>3. ClosesItsOwn' BY <1>1, <1>2, <2>1, <2>2, ClosedForGood DEF ClosesItsOwn
  <2>4. QED BY <1>1, <2>2, <2>3, OnlyCloser
<1>6. ASSUME NEW s \in Tasks, AwaitOpen(s) PROVE SessionInv'
  <2>1. PICK rest \in Closers : rest = [closer EXCEPT !.opens = @ \ {s}]
    BY <1>0, ClosersTyped
  <2>2. rest.keys = closer.keys /\ rest.run = closer.run /\ rest.busy = closer.busy
    BY <1>0, <2>1 DEF Closers
  <2>3. CASE runOf[s] = closer.run /\ CloseKey(keyOf[s], rest)
    <3>1. runOf[s] \in Runs /\ keyOf[s] \in Keys BY SessionConstants
    <3>2. Closed(keyOf[s]) BY <1>2, <2>3, <3>1 DEF ClosesItsOwn, Closed, KeyCanceled
    <3>3. QED BY <1>1, <2>2, <2>3, <3>1, <3>2, CloseKeyKeeps
  <2>4. CASE closer' = rest /\ UNCHANGED <<state, watched, sessions>>
    <3>1. ClosesItsOwn' BY <1>1, <1>2, <2>2, <2>4, ClosedForGood DEF ClosesItsOwn
    <3>2. QED BY <1>1, <2>4, <3>1, OnlyCloser
  <2>5. QED BY <1>6, <2>1, <2>3, <2>4 DEF AwaitOpen
<1>7. QED BY <1>3, <1>4, <1>5, <1>6 DEF MoveCloser, CloserStep

(* Every step keeps one session to a key.                                  *)
LEMMA SessionStep == ASSUME TypeOK, SessionInv, [Next]_vars PROVE SessionInv'
<1>0. ClosesItsOwn /\ \A t \in Tasks : Asks(t) BY DEF SessionInv, Asking
<1>1. ASSUME NEW t \in Tasks, Claim(t) PROVE SessionInv'
  <2>1. UNCHANGED <<state, sessions, closer, using, kind, canceled>> BY <1>1 DEF Claim, sessionVars
  <2>2. pc[t] = "queued" /\ pc' = [pc EXCEPT ![t] = "decode"] BY <1>1 DEF Claim, Goto
  <2>3. ClosesItsOwn' BY <2>1, CloserKept
  <2>4. ASSUME NEW u \in Tasks PROVE Asks(u)' BY <1>0, <2>1, <2>2 DEF Asks, Early, TypeOK
  <2>5. QED BY <2>1, <2>2, <2>3, <2>4, QuietKeeps DEF TypeOK
<1>2. ASSUME NEW r \in Runs, ApplyCancel(r) PROVE SessionInv'
  <2>1. UNCHANGED <<state, sessions, pc, using, kind>>
    BY <1>2 DEF ApplyCancel, BeginCancel, sessionVars, taskVars
  <2>2. canceled' = canceled \cup {r} BY <1>2 DEF ApplyCancel
  <2>3. CASE closer' = closer BY <2>1, <2>2, <2>3, CloserKept, OnlyCloser
  <2>4. CASE BeginCancel(r)
    <3>1. /\ closer'.busy = NoTask /\ closer'.run = r
          /\ closer'.keys = {k \in Keys : HasLive(k) /\ runOf[sessions[k]] = r}
      BY <2>4 DEF BeginCancel, Idle
    <3>2. ASSUME NEW k \in closer'.keys PROVE Closed(k)'
      <4>1. k \in Keys /\ HasLive(k) /\ runOf[sessions[k]] = r BY <3>1
      <4>2. PICK s \in Tasks : s = sessions[k] BY <4>1 DEF HasLive, TypeOK, SessionTypeOK
      <4>3. keyOf[s] = k BY <4>1, <4>2 DEF HasLive, SessionInv, Filed
      <4>4. QED BY <2>2, <4>1, <4>2, <4>3 DEF Closed, KeyCanceled
    <3>3. ClosesItsOwn' BY <2>2, <3>1, <3>2 DEF ClosesItsOwn
    <3>4. QED BY <2>1, <3>3, OnlyCloser
  <2>5. QED BY <1>2, <2>3, <2>4 DEF ApplyCancel, sessionVars
<1>3. CASE CloserReturns
  <2>1. UNCHANGED <<state, sessions, pc, using, kind, canceled>> /\ closer' = Idle
    BY <1>3 DEF CloserReturns, CloserDone, taskVars
  <2>2. ClosesItsOwn' BY <2>1, SessionConstants DEF ClosesItsOwn, Idle
  <2>3. QED BY <2>1, <2>2, OnlyCloser
<1>4. CASE Stop \/ ReadLoopEnds \/ ControlLoopEnds \/ Drain \/ UNCHANGED vars
  <2>1. UNCHANGED <<state, sessions, closer, pc, using, kind, canceled>>
    BY <1>4 DEF Stop, ReadLoopEnds, ControlLoopEnds, Drain, vars, sessionVars, taskVars, loopVars
  <2>2. ClosesItsOwn' BY <2>1, CloserKept
  <2>3. QED BY <2>1, <2>2, OnlyCloser
<1>5. CASE CloseSessions
  <2>1. /\ UNCHANGED <<state, sessions, pc, using, kind, canceled>> /\ phase' = "closing"
        /\ closer'.busy = NoTask /\ closer'.run = NoRun
    BY <1>5 DEF CloseSessions, BeginCloseAll, Idle, taskVars
  <2>2. ClosesItsOwn' BY <2>1, SessionConstants DEF ClosesItsOwn, Closed
  <2>3. QED BY <2>1, <2>2, OnlyCloser
<1>6. QED BY <1>1, <1>2, <1>3, <1>4, <1>5, NextCases, TaskSessions, OpensSessions,
              RejectsSessions, CloserSessions DEF LoopEnds

(* One session per affinity key (browser-session-manager.ts:6): whatever   *)
(* opens together, fails or is claimed late, a key of no canceled run has  *)
(* at most one session until the worker closes down, and every task at     *)
(* work in the browser works with it.                                      *)
THEOREM OneSessionPerKey == Spec => []SessionExclusive
  BY SessionInvInit, SessionStep, SessionsExclusive, TypeCorrect, PTL DEF Spec

=============================================================================
