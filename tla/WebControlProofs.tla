-------------------------- MODULE WebControlProofs --------------------------
(***************************************************************************)
(* Proofs, for every set of graphs, plans and requests and any number of   *)
(* edits and faults, of what MCWebControl checks with two requests: the    *)
(* types, that a run executes an approved graph (RunsApprovedGraph), that  *)
(* a cancellation reaches the engine that owns the run (StopReachesOwner)  *)
(* and that the results of a run open once (PopupOnce).                    *)
(***************************************************************************)
EXTENDS WebControl, TLAPS

RequestStep(r) ==
  \/ Press(r) \/ RunAgain(r) \/ ColleagueRuns(r) \/ Save(r) \/ Ensure(r) \/ ReadLatest(r)
  \/ InsertVersion(r) \/ Reread(r) \/ InsertRow(r) \/ Submit(r) \/ Trigger(r) \/ Record(r)

EngineStep(r) == EvoStarts(r) \/ LegacyStarts(r) \/ LegacyRetries(r) \/ Ends(r)

(* What the requests, the engines and the deletion touch between them.     *)
controlVars == <<storeVars, req, job, ran>>

(* The steps, by who takes them.                                           *)
LEMMA NextCases ==
  ASSUME Next
  PROVE  \/ \E r \in Runs : RequestStep(r) \/ EngineStep(r) \/ Realtime(r)
         \/ PlannerStep \/ StopStep \/ Poll
  BY DEF Next, RunStep, RequestStep, EngineStep

-----------------------------------------------------------------------------
(* Types.                                                                  *)

Tabs == [view : {"planner", "canvas"}, attempt : 0 .. MaxAttempts,
         plan : Graphs \cup {NoGraph}]

Types ==
  /\ versions \in [Stores -> SUBSET [number : Nat, graph : Graphs]]
  /\ rows \in [Stores -> [Runs -> RowStatus]]
  /\ req \in [Runs -> Requests]
  /\ job \in [Runs -> JobStatus]
  /\ ran \in [Runs -> Graphs \cup {NoGraph}]
  /\ saved \in Graphs \cup {NoGraph}
  /\ present \in [Stores -> BOOLEAN]
  /\ canvas \in Graphs
  /\ shown \in [Runs -> Shown]
  /\ tab \in Tabs

(* The versions a request reads are those of one of the stores.            *)
LEMMA StoreOfRequest == ASSUME NEW e PROVE StoreOf(e) \in Stores
  BY DEF StoreOf, Stores

(* The highest number of a set of versions is a number.                    *)
LEMMA HighestIsNat ==
  ASSUME NEW S \in SUBSET [number : Nat, graph : Graphs]
  PROVE  HighestIn(S) \subseteq Nat
  BY DEF HighestIn

(* A step of request r changes its own entry and nobody else's.            *)
Alone(r) == req' \in [Runs -> Requests] /\ \A q \in Runs \ {r} : req'[q] = req[q]

(* A request that goes on keeps its graph, engine and version.             *)
LEMMA GotoEffect ==
  ASSUME Types, NEW r \in Runs, NEW stage \in Stages, Goto(r, stage)
  PROVE  /\ Alone(r)
         /\ req'[r].pc = stage /\ req'[r].graph = req[r].graph
         /\ req'[r].engine = req[r].engine /\ req'[r].version = req[r].version
<1>1. req[r] \in Requests /\ FromAt(r, stage) \in {"button", "elsewhere"}
  BY DEF Types, FromAt, Requests
<1>2. [req[r] EXCEPT !.pc = stage, !.from = FromAt(r, stage)] \in Requests
  BY <1>1 DEF Requests
<1>3. req' = [req EXCEPT ![r] = [req[r] EXCEPT !.pc = stage, !.from = FromAt(r, stage)]]
  BY DEF Goto, Types
<1> QED
  BY <1>1, <1>2, <1>3 DEF Alone, Types, Requests

(* A request that learns its version keeps its graph and engine.           *)
LEMMA VersionedEffect ==
  ASSUME Types, NEW r \in Runs, NEW stage \in Stages, NEW n \in Nat, Versioned(r, stage, n)
  PROVE  /\ Alone(r)
         /\ req'[r].pc = stage /\ req'[r].graph = req[r].graph
         /\ req'[r].engine = req[r].engine /\ req'[r].version = n
<1> DEFINE x == [req[r] EXCEPT !.pc = stage, !.from = FromAt(r, stage), !.version = n,
                               !.candidate = 0, !.tries = 0]
<1>1. req[r] \in Requests /\ FromAt(r, stage) \in {"button", "elsewhere"}
      /\ 0 \in 0 .. MaxVersionRetries
  BY WebConstants DEF Types, FromAt, Requests
<1>2. x \in Requests
  BY <1>1 DEF Requests
<1>3. req' = [req EXCEPT ![r] = x]
  BY DEF Versioned, Types
<1>4. x.pc = stage /\ x.graph = req[r].graph /\ x.engine = req[r].engine /\ x.version = n
  BY <1>1 DEF Requests
<1> HIDE DEF x
<1> QED
  BY <1>2, <1>3, <1>4 DEF Alone, Types

(* A request is submitted with the canvas as it is, valid and allowed.     *)
LEMMA SubmittedEffect ==
  ASSUME Types, NEW r \in Runs, NEW from \in {"button", "elsewhere"}, Submitted(r, from)
  PROVE  /\ Alone(r) /\ req[r].pc = "idle" /\ ValidateGraph(canvas)
         /\ \/ req'[r].pc = "save" /\ MayRun(canvas)
            \/ req'[r].pc = "failed"
         /\ req'[r].graph = canvas /\ req'[r].engine = req[r].engine
         /\ req'[r].version = req[r].version
         /\ UNCHANGED <<canvas, tab, storeVars, engineVars, stop, consoleVars>>
<1>1. PICK stage \in {"save", "failed"}, f \in {"button", "elsewhere"} :
        /\ req' = [req EXCEPT ![r].pc = stage, ![r].from = f, ![r].graph = canvas]
        /\ stage = "save" => MayRun(canvas)
  BY Zenon DEF Submitted
<1> DEFINE x == [req[r] EXCEPT !.pc = stage, !.from = f, !.graph = canvas]
<1>2. req[r] \in Requests
  BY DEF Types
<1>3. x \in Requests
  BY <1>2 DEF Requests, Types, Stages
<1>4. req' = [req EXCEPT ![r] = x]
  BY <1>1 DEF Types
<1>5. /\ x.pc = stage /\ x.graph = canvas /\ x.engine = req[r].engine
      /\ x.version = req[r].version
  BY <1>2 DEF Requests
<1> HIDE DEF x
<1>6. Alone(r) /\ req'[r] = x
  BY <1>3, <1>4 DEF Alone, Types
<1> QED
  BY <1>1, <1>5, <1>6 DEF Submitted

(* A save fails or sends the request to the engine it has chosen.          *)
LEMMA SaveEffect ==
  ASSUME Types, NEW r \in Runs, Save(r)
  PROVE  /\ Alone(r) /\ req[r].pc = "save" /\ req'[r].graph = req[r].graph
         /\ \/ req'[r].pc = "failed" /\ req'[r].engine = req[r].engine
            \/ req'[r].pc = "ensure" /\ req'[r].engine = "evo"
            \/ req'[r].pc = "latest" /\ req'[r].engine = "legacy"
<1>1. CASE Fails(r)
  BY <1>1, GotoEffect DEF Fails, Stages, Save, At
<1>2. ASSUME NEW e \in Engines,
             req' = [req EXCEPT ![r].pc = IF e = "evo" THEN "ensure" ELSE "latest",
                                ![r].engine = e]
      PROVE  /\ Alone(r) /\ req'[r].graph = req[r].graph
             /\ \/ req'[r].pc = "ensure" /\ req'[r].engine = "evo"
                \/ req'[r].pc = "latest" /\ req'[r].engine = "legacy"
  <2> DEFINE x == [req[r] EXCEPT !.pc = IF e = "evo" THEN "ensure" ELSE "latest", !.engine = e]
  <2>1. req[r] \in Requests
    BY DEF Types
  <2>2. x \in Requests
    BY <2>1, WebConstants DEF Requests, Stages
  <2>3. req' = [req EXCEPT ![r] = x]
    BY <1>2 DEF Types
  <2>4. /\ x.graph = req[r].graph /\ x.engine = e
        /\ x.pc = IF e = "evo" THEN "ensure" ELSE "latest"
    BY <2>1 DEF Requests
  <2> HIDE DEF x
  <2>5. Alone(r) /\ req'[r] = x
    BY <2>2, <2>3 DEF Alone, Types
  <2> QED
    BY <2>4, <2>5, WebConstants
<1> QED
  BY <1>1, <1>2 DEF Save, At

(* createWorkflowVersion either has a version of its own graph or none.    *)
LEMMA ReadLatestEffect ==
  ASSUME Types, NEW r \in Runs, ReadLatest(r)
  PROVE  /\ Alone(r) /\ req[r].pc = "latest"
         /\ req'[r].graph = req[r].graph /\ req'[r].engine = req[r].engine
         /\ \/ req'[r].pc = "insert"
            \/ req'[r].pc = (IF req[r].engine = "evo" THEN "failed" ELSE "trigger")
            \/ /\ req'[r].pc = (IF req[r].engine = "evo" THEN "row" ELSE "trigger")
               /\ [number |-> req'[r].version, graph |-> req[r].graph] \in VersionsFor(r)
<1>1. req[r] \in Requests /\ VersionsFor(r) \subseteq [number : Nat, graph : Graphs]
  BY StoreOfRequest DEF Types, VersionsFor
<1>2. CASE NoVersion(r)
  BY <1>2, VersionedEffect DEF NoVersion, Stages, ReadLatest, At
<1>3. ASSUME NEW v \in VersionsFor(r), v.graph = req[r].graph, HasVersion(r, v.number)
      PROVE  /\ Alone(r) /\ req'[r].graph = req[r].graph /\ req'[r].engine = req[r].engine
             /\ req'[r].pc = (IF req[r].engine = "evo" THEN "row" ELSE "trigger")
             /\ [number |-> req'[r].version, graph |-> req[r].graph] \in VersionsFor(r)
  <2>1. v = [number |-> v.number, graph |-> v.graph] /\ v.number \in Nat
    BY <1>1
  <2>2. /\ Alone(r) /\ req'[r].graph = req[r].graph /\ req'[r].engine = req[r].engine
        /\ req'[r].pc = (IF req[r].engine = "evo" THEN "row" ELSE "trigger")
        /\ req'[r].version = v.number
    BY <1>3, <2>1, VersionedEffect DEF HasVersion, Stages
  <2> QED
    BY <1>3, <2>1, <2>2
<1>4. ASSUME NEW n \in Nat,
             req' = [req EXCEPT ![r].pc = "insert", ![r].candidate = n]
      PROVE  /\ Alone(r) /\ req'[r].graph = req[r].graph /\ req'[r].engine = req[r].engine
             /\ req'[r].pc = "insert"
  <2> DEFINE x == [req[r] EXCEPT !.pc = "insert", !.candidate = n]
  <2>1. x \in Requests /\ x.graph = req[r].graph /\ x.engine = req[r].engine /\ x.pc = "insert"
    BY <1>1 DEF Requests, Stages
  <2>2. req' = [req EXCEPT ![r] = x]
    BY <1>4 DEF Types
  <2> HIDE DEF x
  <2> QED
    BY <2>1, <2>2 DEF Alone, Types
<1>5. HighestIn(VersionsFor(r)) \subseteq Nat
  BY <1>1, HighestIsNat
<1> QED
  BY <1>2, <1>3, <1>4, <1>5 DEF ReadLatest, Reusable, At

(* A reread of the latest version goes on to insert, or gives up.          *)
LEMMA RereadEffect ==
  ASSUME Types, NEW r \in Runs, Reread(r)
  PROVE  /\ Alone(r) /\ req[r].pc = "reread"
         /\ req'[r].graph = req[r].graph /\ req'[r].engine = req[r].engine
         /\ \/ req'[r].pc = "insert"
            \/ req'[r].pc = (IF req[r].engine = "evo" THEN "failed" ELSE "trigger")
<1>1. /\ req[r] \in Requests /\ req[r].candidate \in Nat /\ req[r].tries \in 0 .. MaxVersionRetries
      /\ VersionsFor(r) \subseteq [number : Nat, graph : Graphs]
  BY StoreOfRequest DEF Types, VersionsFor, Requests
<1>2. CASE NoVersion(r)
  BY <1>2, VersionedEffect DEF NoVersion, Stages, Reread, At
<1>3. ASSUME NEW n \in Nat, req[r].tries + 1 < MaxVersionRetries,
             req' = [req EXCEPT ![r].pc = "insert", ![r].candidate = n, ![r].tries = @ + 1]
      PROVE  /\ Alone(r) /\ req'[r].graph = req[r].graph /\ req'[r].engine = req[r].engine
             /\ req'[r].pc = "insert"
  <2> DEFINE x == [req[r] EXCEPT !.pc = "insert", !.candidate = n, !.tries = req[r].tries + 1]
  <2>1. req[r].tries + 1 \in 0 .. MaxVersionRetries
    BY <1>1, <1>3, WebConstants
  <2>2. x \in Requests /\ x.graph = req[r].graph /\ x.engine = req[r].engine /\ x.pc = "insert"
    BY <1>1, <2>1 DEF Requests, Stages
  <2>3. req' = [req EXCEPT ![r] = x]
    BY <1>1, <1>3 DEF Types, Requests
  <2> HIDE DEF x
  <2> QED
    BY <2>2, <2>3 DEF Alone, Types
<1>4. HighestIn(VersionsFor(r)) \subseteq Nat
  BY <1>1, HighestIsNat
<1>5. ASSUME NEW highest \in HighestIn(VersionsFor(r))
      PROVE  (IF highest > req[r].candidate THEN highest ELSE req[r].candidate) + 1 \in Nat
  BY <1>1, <1>4
<1> QED
  BY <1>2, <1>3, <1>5 DEF Reread, At

Store(r) == StoreOf(req[r].engine)

Own(r) == [number |-> req[r].candidate, graph |-> req[r].graph]

Inserted(r) ==
  /\ versions' = [versions EXCEPT ![Store(r)] = @ \cup {Own(r)}]
  /\ \A v \in versions[Store(r)] : v.number # req[r].candidate

(* A version is inserted, found taken, or given up.                        *)
LEMMA InsertVersionEffect ==
  ASSUME Types, NEW r \in Runs, InsertVersion(r)
  PROVE  /\ Alone(r) /\ req[r].pc = "insert"
         /\ req'[r].graph = req[r].graph /\ req'[r].engine = req[r].engine
         /\ versions' = versions \/ Inserted(r)
         /\ \/ req'[r].pc = "reread"
            \/ req'[r].pc = (IF req[r].engine = "evo" THEN "failed" ELSE "trigger")
            \/ /\ req'[r].pc = (IF req[r].engine = "evo" THEN "row" ELSE "trigger")
               /\ req'[r].version = req[r].candidate /\ Inserted(r)
         /\ UNCHANGED versionFrame
<1>1. req[r].pc = "insert" /\ req[r].candidate \in Nat
  BY DEF InsertVersion, At, Types, Requests
<1>2. CASE InsertClashes(r)
  <2>1. Alone(r) /\ req'[r].pc = "reread" /\ req'[r].graph = req[r].graph
        /\ req'[r].engine = req[r].engine
    BY <1>2, GotoEffect DEF InsertClashes, Stages
  <2> QED
    BY <1>1, <1>2, <2>1 DEF InsertClashes
<1>3. CASE ~ InsertClashes(r)
  <2> DEFINE made(o) == TakesEffect(o) /\ present[Store(r)]
  <2>1. /\ UNCHANGED versionFrame
        /\ \A v \in versions[Store(r)] : v.number # req[r].candidate
    BY <1>3 DEF InsertVersion, Taken, VersionsFor, Store
  <2>2. \E o \in Outcomes :
          /\ versions' = IF made(o) THEN [versions EXCEPT ![Store(r)] = @ \cup {Own(r)}]
                         ELSE versions
          /\ IF made(o) /\ o = "ok" THEN HasVersion(r, req[r].candidate) ELSE NoVersion(r)
    BY <1>3, Zenon DEF InsertVersion, Store, Own
  <2>3. \/ NoVersion(r) /\ versions' = versions
        \/ NoVersion(r) /\ Inserted(r)
        \/ HasVersion(r, req[r].candidate) /\ Inserted(r)
    BY <2>1, <2>2 DEF Inserted
  <2>4. CASE NoVersion(r)
    <3>1. /\ Alone(r) /\ req'[r].graph = req[r].graph /\ req'[r].engine = req[r].engine
          /\ req'[r].pc = (IF req[r].engine = "evo" THEN "failed" ELSE "trigger")
      BY <2>4, VersionedEffect DEF NoVersion, Stages
    <3> QED
      BY <1>1, <2>1, <2>3, <3>1
  <2>5. CASE HasVersion(r, req[r].candidate) /\ Inserted(r)
    <3>1. /\ Alone(r) /\ req'[r].graph = req[r].graph /\ req'[r].engine = req[r].engine
          /\ req'[r].pc = (IF req[r].engine = "evo" THEN "row" ELSE "trigger")
          /\ req'[r].version = req[r].candidate
      BY <1>1, <2>5, VersionedEffect DEF HasVersion, Stages
    <3> QED
      BY <1>1, <2>1, <2>5, <3>1
  <2> QED
    BY <2>3, <2>4, <2>5
<1> QED
  BY <1>2, <1>3

-----------------------------------------------------------------------------
(* The inductive invariant.                                                *)

(* Somebody pressed Run on this very graph, and it passed.                 *)
Approved(g) ==
  /\ ValidateGraph(g) /\ MayRun(g)
  /\ \E q \in Runs : req[q].pc # "idle" /\ req[q].graph = g

Named(r) == [number |-> req[r].version, graph |-> req[r].graph]

(* The engine is chosen once and only the Evo engine is handed a version,  *)
(* which is the request's own.                                             *)
Placed(r) ==
  /\ req[r].pc \in {"idle", "save"} => req[r].engine = "none"
  /\ req[r].pc \in {"ensure", "row", "submit"} => req[r].engine = "evo"
  /\ req[r].pc \in {"trigger", "record"} => req[r].engine = "legacy"
  /\ req[r].pc \in {"latest", "insert", "reread"} => req[r].engine # "none"
  /\ req[r].pc = "save" \/ req[r].engine # "none" =>
       req[r].graph \in Graphs /\ ValidateGraph(req[r].graph) /\ MayRun(req[r].graph)
  /\ rows["phase2"][r] # "none" => req[r].engine = "evo"

Owned(r) ==
  /\ job[r] # "none" => req[r].pc \in {"record", "done", "failed"} /\ req[r].engine # "none"
  /\ req[r].engine = "evo" /\ (req[r].pc \in {"row", "submit"} \/ job[r] # "none") =>
       Named(r) \in versions["phase2"]
  /\ req[r].engine = "evo" /\ job[r] # "none" => EngineAccepts(req[r].graph)
  /\ ran[r] # NoGraph =>
       /\ job[r] # "none" /\ Approved(ran[r]) /\ EngineAccepts(ran[r])
       /\ req[r].engine = "evo" => ran[r] = req[r].graph

NumbersUnique ==
  \A s \in Stores : \A v, w \in versions[s] : v.number = w.number => v = w

Control ==
  /\ Types
  /\ \A r \in Runs : Placed(r) /\ Owned(r)
  /\ NumbersUnique
  /\ saved # NoGraph => Approved(saved)

(* An approved graph stays approved: a request keeps its graph.            *)
LEMMA ApprovedStays ==
  ASSUME Types, NEW r \in Runs, Alone(r), req'[r].pc # "idle",
         req[r].pc = "idle" \/ req'[r].graph = req[r].graph,
         NEW g, Approved(g)
  PROVE  Approved(g)'
<1>1. PICK q \in Runs : req[q].pc # "idle" /\ req[q].graph = g
  BY DEF Approved
<1>2. req'[q].pc # "idle" /\ req'[q].graph = g
  BY <1>1 DEF Alone
<1> QED
  BY <1>2 DEF Approved

(* A step of one request leaves what is known of the others alone.         *)
LEMMA OthersKeep ==
  ASSUME Control, Types', NEW r \in Runs, Alone(r), req'[r].pc # "idle",
         req[r].pc = "idle" \/ req'[r].graph = req[r].graph,
         versions["phase2"] \subseteq versions'["phase2"], UNCHANGED ran,
         \A q \in Runs \ {r} : job'[q] = job[q] /\ rows'["phase2"][q] = rows["phase2"][q],
         Placed(r)', Owned(r)', NumbersUnique',
         saved' = saved \/ Approved(saved)'
  PROVE  Control'
<1>1. ASSUME NEW q \in Runs \ {r}
      PROVE  Placed(q)' /\ Owned(q)'
  <2>1. Placed(q) /\ Owned(q) /\ req'[q] = req[q]
    BY DEF Control, Alone
  <2>2. ran[q] # NoGraph => Approved(ran[q])'
    BY <2>1, ApprovedStays DEF Owned, Control
  <2>3. job'[q] = job[q] /\ ran'[q] = ran[q] /\ rows'["phase2"][q] = rows["phase2"][q]
    OBVIOUS
  <2>4. Placed(q)'
    BY <2>1, <2>3 DEF Placed
  <2>5. Named(q)' = Named(q)
    BY <2>1 DEF Named
  <2>6. Owned(q)'
    BY <2>1, <2>2, <2>3, <2>5 DEF Owned
  <2> QED
    BY <2>4, <2>6
<1>2. (saved # NoGraph => Approved(saved))'
  <2>1. CASE saved' = saved
    <3>1. saved # NoGraph => Approved(saved)
      BY DEF Control
    <3>2. \A g : Approved(g) => Approved(g)'
      BY ApprovedStays DEF Control
    <3> QED
      BY <2>1, <3>1, <3>2 DEF Approved
  <2> QED
    BY <2>1
<1> QED
  BY <1>1, <1>2 DEF Control

(* What the steps of a request that only touch its entry have to show.     *)
LEMMA EntryOnly ==
  ASSUME Control, NEW r \in Runs, Alone(r), req'[r].pc # "idle",
         req[r].pc = "idle" \/ req'[r].graph = req[r].graph,
         UNCHANGED <<saved, versions, rows, job, ran, canvas, shown>>,
         present' \in [Stores -> BOOLEAN], tab' = tab, Placed(r)', Owned(r)'
  PROVE  Control'
<1>1. Types'
  BY DEF Control, Types, Alone
<1> QED
  BY <1>1, OthersKeep DEF Control, NumbersUnique

(* A submission keeps every run on its approved graph.                     *)
LEMMA PressControl ==
  ASSUME Control, NEW r \in Runs, NEW from \in {"button", "elsewhere"}, Submitted(r, from)
  PROVE  Control'
<1>1. /\ Alone(r) /\ req[r].pc = "idle" /\ ValidateGraph(canvas)
      /\ (req'[r].pc = "save" /\ MayRun(canvas)) \/ req'[r].pc = "failed"
      /\ req'[r].graph = canvas /\ req'[r].engine = req[r].engine
      /\ UNCHANGED <<canvas, tab, storeVars, engineVars, stop, consoleVars>>
  BY SubmittedEffect DEF Control
<1>2. req[r].engine = "none" /\ job[r] = "none" /\ ran[r] = NoGraph
      /\ ~ (rows["phase2"][r] # "none")
  BY <1>1 DEF Control, Placed, Owned
<1>3. canvas \in Graphs
  BY DEF Control, Types
<1>4. UNCHANGED <<saved, versions, rows, job, ran, canvas, shown, present, tab>>
  BY <1>1 DEF storeVars, engineVars, consoleVars
<1>5. Placed(r)' /\ Owned(r)'
  BY <1>1, <1>2, <1>3, <1>4 DEF Placed, Owned
<1>6. present' \in [Stores -> BOOLEAN]
  BY <1>4 DEF Control, Types
<1> QED
  BY <1>1, <1>4, <1>5, <1>6, EntryOnly

(* A save keeps every run on its approved graph.                           *)
LEMMA SaveControl ==
  ASSUME Control, NEW r \in Runs, Save(r)
  PROVE  Control'
<1>1. /\ Alone(r) /\ req[r].pc = "save" /\ req'[r].graph = req[r].graph
      /\ \/ req'[r].pc = "failed" /\ req'[r].engine = req[r].engine
         \/ req'[r].pc = "ensure" /\ req'[r].engine = "evo"
         \/ req'[r].pc = "latest" /\ req'[r].engine = "legacy"
  BY SaveEffect DEF Control
<1>2. UNCHANGED <<present, versions, rows, job, canvas, tab, ran, shown>>
  BY DEF Save, runFrame, consoleVars
<1>3. saved' = saved \/ saved' = req[r].graph
  BY Zenon DEF Save, SaveWorkflowGraph
<1>4. /\ req[r].engine = "none" /\ job[r] = "none" /\ ran[r] = NoGraph
      /\ ~ (rows["phase2"][r] # "none") /\ req[r].graph \in Graphs
      /\ ValidateGraph(req[r].graph) /\ MayRun(req[r].graph)
  BY <1>1 DEF Control, Placed, Owned
<1>5. Placed(r)' /\ Owned(r)'
  BY <1>1, <1>2, <1>4 DEF Placed, Owned
<1>6. Types'
  BY <1>1, <1>2, <1>3, <1>4 DEF Control, Types, Alone
<1>7. Approved(req[r].graph)'
  BY <1>1, <1>4, ApprovedStays DEF Approved, Control
<1>8. saved' = saved \/ Approved(saved)'
  BY <1>3, <1>1, <1>4 DEF Approved
<1> QED
  BY <1>1, <1>2, <1>5, <1>6, <1>8, OthersKeep DEF Control, NumbersUnique

(* Reusing or creating a version keeps every run on its approved graph.    *)
LEMMA EnsureControl ==
  ASSUME Control, NEW r \in Runs, Ensure(r)
  PROVE  Control'
<1>1. PICK stage \in {"latest", "failed"} : Goto(r, stage)
  BY Zenon DEF Ensure
<1>2. /\ Alone(r) /\ req[r].pc = "ensure" /\ req'[r].pc = stage
      /\ req'[r].graph = req[r].graph /\ req'[r].engine = req[r].engine
  BY <1>1, GotoEffect DEF Control, Stages, Ensure, At
<1>3. UNCHANGED <<saved, versions, rows, job, ran, canvas, shown, tab>>
  BY DEF Ensure, runFrame, consoleVars
<1>4. present' \in [Stores -> BOOLEAN]
  BY DEF Ensure, Control, Types
<1>5. Placed(r) /\ Owned(r) /\ (ran[r] # NoGraph => Approved(ran[r]))
  BY DEF Control, Owned
<1>6. Placed(r)' /\ Owned(r)'
  BY <1>2, <1>3, <1>5 DEF Placed, Owned
<1> QED
  BY <1>2, <1>3, <1>4, <1>6, EntryOnly

(* Reading the latest version keeps every run on its approved graph.       *)
LEMMA ReadLatestControl ==
  ASSUME Control, NEW r \in Runs, ReadLatest(r)
  PROVE  Control'
<1>1. /\ Alone(r) /\ req[r].pc = "latest"
      /\ req'[r].graph = req[r].graph /\ req'[r].engine = req[r].engine
      /\ \/ req'[r].pc = "insert"
         \/ req'[r].pc = (IF req[r].engine = "evo" THEN "failed" ELSE "trigger")
         \/ /\ req'[r].pc = (IF req[r].engine = "evo" THEN "row" ELSE "trigger")
            /\ [number |-> req'[r].version, graph |-> req[r].graph] \in VersionsFor(r)
  BY ReadLatestEffect DEF Control
<1>2. UNCHANGED <<saved, versions, rows, job, ran, canvas, shown, present, tab>>
  BY DEF ReadLatest, versionFrame, runFrame, consoleVars
<1>3. Placed(r) /\ Owned(r) /\ req[r].engine \in {"none", "legacy", "evo"}
  BY DEF Control, Types, Requests
<1>4. Placed(r)'
  BY <1>1, <1>2, <1>3 DEF Placed
<1>5. req'[r].pc = "row" => Named(r)' \in versions'["phase2"]
  BY <1>1, <1>2, <1>3 DEF Named, VersionsFor, StoreOf
<1>6. job[r] = "none" /\ ran[r] = NoGraph
  BY <1>1, <1>3 DEF Owned
<1>7. Owned(r)'
  BY <1>1, <1>2, <1>3, <1>5, <1>6 DEF Owned
<1>8. present' \in [Stores -> BOOLEAN]
  BY <1>2 DEF Control, Types
<1> QED
  BY <1>1, <1>2, <1>4, <1>7, <1>8, EntryOnly

(* A reread after a conflict keeps every run on its approved graph.        *)
LEMMA RereadControl ==
  ASSUME Control, NEW r \in Runs, Reread(r)
  PROVE  Control'
<1>1. /\ Alone(r) /\ req[r].pc = "reread"
      /\ req'[r].graph = req[r].graph /\ req'[r].engine = req[r].engine
      /\ \/ req'[r].pc = "insert"
         \/ req'[r].pc = (IF req[r].engine = "evo" THEN "failed" ELSE "trigger")
  BY RereadEffect DEF Control
<1>2. UNCHANGED <<saved, versions, rows, job, ran, canvas, shown, present, tab>>
  BY DEF Reread, versionFrame, runFrame, consoleVars
<1>3. Placed(r) /\ Owned(r) /\ req[r].engine \in {"none", "legacy", "evo"}
  BY DEF Control, Types, Requests
<1>4. Placed(r)'
  BY <1>1, <1>2, <1>3 DEF Placed
<1>5. job[r] = "none" /\ ran[r] = NoGraph
  BY <1>1, <1>3 DEF Owned
<1>6. Owned(r)'
  BY <1>1, <1>2, <1>3, <1>5 DEF Owned
<1>7. present' \in [Stores -> BOOLEAN]
  BY <1>2 DEF Control, Types
<1> QED
  BY <1>1, <1>2, <1>4, <1>6, <1>7, EntryOnly

(* The unique key: an insertion that succeeds takes a number nobody has.   *)
LEMMA InsertVersionControl ==
  ASSUME Control, NEW r \in Runs, InsertVersion(r)
  PROVE  Control'
<1>1. /\ Alone(r) /\ req[r].pc = "insert"
      /\ req'[r].graph = req[r].graph /\ req'[r].engine = req[r].engine
      /\ versions' = versions \/ Inserted(r)
      /\ \/ req'[r].pc = "reread"
         \/ req'[r].pc = (IF req[r].engine = "evo" THEN "failed" ELSE "trigger")
         \/ /\ req'[r].pc = (IF req[r].engine = "evo" THEN "row" ELSE "trigger")
            /\ req'[r].version = req[r].candidate /\ Inserted(r)
      /\ UNCHANGED versionFrame
  BY InsertVersionEffect DEF Control
<1>2. UNCHANGED <<saved, rows, job, ran, canvas, shown, present, tab>>
  BY <1>1 DEF versionFrame, runFrame, consoleVars
<1>3. Placed(r) /\ Owned(r) /\ req[r].engine \in {"none", "legacy", "evo"}
      /\ req[r].candidate \in Nat
  BY DEF Control, Types, Requests
<1>4. Store(r) \in Stores /\ versions \in [Stores -> SUBSET [number : Nat, graph : Graphs]]
      /\ Own(r) \in [number : Nat, graph : Graphs]
      /\ Own(r).number = req[r].candidate
  BY <1>1, <1>3, StoreOfRequest DEF Control, Types, Placed, Store, Own
<1>5. /\ versions' \in [Stores -> SUBSET [number : Nat, graph : Graphs]]
      /\ \A s \in Stores : versions[s] \subseteq versions'[s]
      /\ Inserted(r) => Own(r) \in versions'[Store(r)]
  <2>1. CASE versions' = versions /\ ~ Inserted(r)
    BY <1>4, <2>1
  <2>2. CASE Inserted(r)
    BY <1>4, <2>2 DEF Inserted
  <2> QED
    BY <1>1, <2>1, <2>2
<1>6. NumbersUnique'
  <2> SUFFICES ASSUME NEW s \in Stores, NEW v \in versions'[s], NEW w \in versions'[s],
                      v.number = w.number
               PROVE  v = w
    BY DEF NumbersUnique
  <2>1. CASE v \in versions[s] /\ w \in versions[s]
    BY <2>1 DEF Control, NumbersUnique
  <2>2. CASE ~ (v \in versions[s] /\ w \in versions[s])
    <3>1. Inserted(r) /\ s = Store(r) /\ versions'[s] = versions[s] \cup {Own(r)}
      BY <1>1, <1>4, <2>2 DEF Inserted
    <3> QED
      BY <1>4, <2>2, <3>1 DEF Inserted
  <2> QED
    BY <2>1, <2>2
<1>7. Placed(r)'
  BY <1>1, <1>2, <1>3 DEF Placed
<1>8. req'[r].pc = "row" => Named(r)' \in versions'["phase2"]
  BY <1>1, <1>3, <1>5 DEF Named, Own, Store, StoreOf
<1>9. job[r] = "none" /\ ran[r] = NoGraph
  BY <1>1, <1>3 DEF Owned
<1>10. Owned(r)'
  BY <1>1, <1>2, <1>3, <1>8, <1>9 DEF Owned
<1>11. Types'
  BY <1>1, <1>2, <1>5 DEF Control, Types, Alone
<1> QED
  BY <1>1, <1>2, <1>5, <1>6, <1>7, <1>10, <1>11, OthersKeep DEF Control, Stores

(* Inserting the run row keeps every run on its approved graph.            *)
LEMMA InsertRowControl ==
  ASSUME Control, NEW r \in Runs, InsertRow(r)
  PROVE  Control'
<1>1. PICK stage \in {"submit", "failed"} : Goto(r, stage)
  BY Zenon DEF InsertRow
<1>2. /\ Alone(r) /\ req[r].pc = "row" /\ req'[r].pc = stage
      /\ req'[r].graph = req[r].graph /\ req'[r].engine = req[r].engine
      /\ req'[r].version = req[r].version
  BY <1>1, GotoEffect DEF Control, Stages, InsertRow, At
<1>3. /\ UNCHANGED <<saved, versions, job, ran, canvas, shown, tab, present>>
      /\ rows' = rows \/ rows' = [rows EXCEPT !["phase2"][r] = "queued"]
  BY Zenon DEF InsertRow, runFrame, consoleVars
<1>4. /\ rows' \in [Stores -> [Runs -> RowStatus]]
      /\ \A q \in Runs \ {r} : rows'["phase2"][q] = rows["phase2"][q]
  BY <1>3 DEF Control, Types, Stores, RowStatus
<1>5. Placed(r) /\ Owned(r)
  BY DEF Control
<1>6. req[r].engine = "evo" /\ job[r] = "none" /\ ran[r] = NoGraph
  BY <1>2, <1>5 DEF Placed, Owned
<1>7. Placed(r)' /\ Owned(r)'
  BY <1>2, <1>3, <1>5, <1>6 DEF Placed, Owned, Named
<1>8. Types'
  BY <1>2, <1>3, <1>4 DEF Control, Types, Alone
<1> QED
  BY <1>2, <1>3, <1>4, <1>7, <1>8, OthersKeep DEF Control, NumbersUnique

(* Trigger and Submit give the run to its engine.                          *)
LEMMA HandedOver ==
  ASSUME Control, NEW r \in Runs, NEW stage \in {"record", "done", "failed"}, Goto(r, stage),
         req[r].pc = "submit" \/ (req[r].pc = "trigger" /\ stage # "done"),
         \/ job' = job
         \/ /\ job' = [job EXCEPT ![r] = "queued"]
            /\ req[r].pc = "submit" => EngineAccepts(req[r].graph),
         req[r].pc = "submit" => stage # "record",
         UNCHANGED <<saved, versions, rows, ran, canvas, shown, tab, present>>
  PROVE  Control'
<1>1. /\ Alone(r) /\ req'[r].pc = stage
      /\ req'[r].graph = req[r].graph /\ req'[r].engine = req[r].engine
      /\ req'[r].version = req[r].version
  BY GotoEffect DEF Control, Stages
<1>2. /\ job' \in [Runs -> JobStatus]
      /\ \A q \in Runs \ {r} : job'[q] = job[q]
  BY DEF Control, Types, JobStatus, RowStatus
<1>3. Placed(r) /\ Owned(r)
  BY DEF Control
<1>4. req[r].engine = (IF req[r].pc = "submit" THEN "evo" ELSE "legacy")
      /\ job[r] = "none" /\ ran[r] = NoGraph
  BY <1>3 DEF Placed, Owned
<1>5. Placed(r)'
  BY <1>1, <1>3, <1>4 DEF Placed
<1>6. Named(r)' = Named(r)
  BY <1>1 DEF Named
<1>7. job'[r] # "none" /\ req[r].pc = "submit" => EngineAccepts(req[r].graph)
  BY <1>4 DEF Control, Types
<1>8. Owned(r)'
  BY <1>1, <1>3, <1>4, <1>6, <1>7 DEF Owned
<1>9. Types'
  BY <1>1, <1>2 DEF Control, Types, Alone
<1> QED
  BY <1>1, <1>2, <1>5, <1>8, <1>9, OthersKeep DEF Control, NumbersUnique

(* A submission to the engine keeps every run on its approved graph.       *)
LEMMA SubmitControl ==
  ASSUME Control, NEW r \in Runs, Submit(r)
  PROVE  Control'
<1>1. /\ req[r].pc = "submit"
      /\ UNCHANGED <<saved, versions, rows, ran, canvas, shown, tab, present>>
  BY DEF Submit, At, runFrame, consoleVars
<1>2. \/ job' = job
      \/ job' = [job EXCEPT ![r] = "queued"] /\ EngineAccepts(req[r].graph)
  BY Zenon DEF Submit, Accepted
<1>3. PICK stage \in {"done", "failed"} : Goto(r, stage)
  BY Zenon DEF Submit
<1> QED
  BY <1>1, <1>2, <1>3, HandedOver

(* A trigger of the older engine keeps every run on its approved graph.    *)
LEMMA TriggerControl ==
  ASSUME Control, NEW r \in Runs, Trigger(r)
  PROVE  Control'
<1>1. /\ req[r].pc = "trigger"
      /\ UNCHANGED <<saved, versions, rows, ran, canvas, shown, tab, present>>
  BY DEF Trigger, At, runFrame, consoleVars
<1>2. job' = job \/ job' = [job EXCEPT ![r] = "queued"]
  BY Zenon DEF Trigger
<1>3. PICK stage \in {"record", "failed"} : Goto(r, stage)
  BY Zenon DEF Trigger
<1> QED
  BY <1>1, <1>2, <1>3, HandedOver

(* Recording the older engine's run keeps every run on its approved graph. *)
LEMMA RecordControl ==
  ASSUME Control, NEW r \in Runs, Record(r)
  PROVE  Control'
<1>1. /\ Alone(r) /\ req[r].pc = "record" /\ req'[r].pc = "done"
      /\ req'[r].graph = req[r].graph /\ req'[r].engine = req[r].engine
      /\ req'[r].version = req[r].version
  BY GotoEffect DEF Control, Stages, Record, At
<1>2. /\ UNCHANGED <<saved, versions, job, ran, canvas, shown, tab, present>>
      /\ rows' = rows \/ rows' = [rows EXCEPT !["neon"][r] = "queued"]
  BY Zenon DEF Record, runFrame, consoleVars
<1>3. /\ rows' \in [Stores -> [Runs -> RowStatus]]
      /\ rows'["phase2"] = rows["phase2"]
  BY <1>2 DEF Control, Types, Stores, RowStatus
<1>4. Placed(r) /\ Owned(r) /\ (ran[r] # NoGraph => Approved(ran[r]))
  BY DEF Control, Owned
<1>5. Placed(r)'
  BY <1>1, <1>3, <1>4 DEF Placed
<1>6. ran[r] # NoGraph => Approved(ran[r])'
  BY <1>1, <1>2, <1>4, ApprovedStays DEF Control
<1>7. Owned(r)'
  BY <1>1, <1>2, <1>4, <1>5, <1>6 DEF Owned, Placed
<1>8. Types'
  BY <1>1, <1>2, <1>3 DEF Control, Types, Alone
<1> QED
  BY <1>1, <1>2, <1>3, <1>5, <1>7, <1>8, OthersKeep DEF Control, NumbersUnique

(* Every step of a request keeps every run on its approved graph.          *)
LEMMA RequestControl ==
  ASSUME Control, NEW r \in Runs, RequestStep(r)
  PROVE  Control'
<1>1. CASE Press(r) \/ RunAgain(r) \/ ColleagueRuns(r)
  BY <1>1, PressControl DEF Press, RunAgain, ColleagueRuns
<1>2. CASE Save(r) \/ Ensure(r) \/ ReadLatest(r) \/ InsertVersion(r) \/ Reread(r)
  BY <1>2, SaveControl, EnsureControl, ReadLatestControl, InsertVersionControl, RereadControl
<1>3. CASE InsertRow(r) \/ Submit(r) \/ Trigger(r) \/ Record(r)
  BY <1>3, InsertRowControl, SubmitControl, TriggerControl, RecordControl
<1> QED
  BY <1>1, <1>2, <1>3 DEF RequestStep

(* An engine moves a run it was given, and a step that starts it sets the  *)
(* graph it executes.                                                      *)
LEMMA EngineMoves ==
  ASSUME Control, NEW r \in Runs, job[r] # "none", NEW st \in JobStatus \ {"none"}, Becomes(r, st),
         req[r].engine = "evo" => st \in RowStatus,
         UNCHANGED engineFrame,
         NEW g, g # NoGraph =>
           /\ g \in Graphs /\ Approved(g) /\ EngineAccepts(g)
           /\ req[r].engine = "evo" => g = req[r].graph,
         ran' = IF g = NoGraph THEN ran ELSE [ran EXCEPT ![r] = g]
  PROVE  Control'
<1>1. UNCHANGED <<canvas, tab, present, saved, versions, req, shown>>
  BY DEF engineFrame, consoleVars
<1>2. job' = [job EXCEPT ![r] = st] /\ job' \in [Runs -> JobStatus]
  BY DEF Becomes, Control, Types
<1>3. /\ rows' = rows \/ (req[r].engine = "evo" /\ rows' = [rows EXCEPT !["phase2"][r] = st])
      /\ rows' \in [Stores -> [Runs -> RowStatus]]
  BY DEF Becomes, OwnerOf, Control, Types, Stores
<1>4. ran' \in [Runs -> Graphs \cup {NoGraph}]
  BY DEF Control, Types
<1>5. Types'
  BY <1>1, <1>2, <1>3, <1>4 DEF Control, Types
<1>6. \A h : Approved(h) => Approved(h)'
  BY <1>1 DEF Approved
<1>7. ASSUME NEW q \in Runs
      PROVE  Placed(q)' /\ Owned(q)'
  <2>1. Placed(q) /\ Owned(q)
    BY DEF Control
  <2>2. rows'["phase2"][q] = rows["phase2"][q] \/ (q = r /\ req[q].engine = "evo")
    BY <1>3 DEF Control, Types, Stores
  <2>3. Placed(q)'
    BY <1>1, <2>1, <2>2 DEF Placed
  <2>4. Named(q)' = Named(q) /\ (job'[q] # "none" <=> job[q] # "none")
    BY <1>1, <1>2 DEF Named, Control, Types
  <2>5. \/ ran'[q] = ran[q]
        \/ q = r /\ ran'[q] = g /\ g # NoGraph
    BY <1>4 DEF Control, Types
  <2>6. ran'[q] # NoGraph =>
          /\ Approved(ran[q])' /\ EngineAccepts(ran'[q])
          /\ req[q].engine = "evo" => ran'[q] = req[q].graph
    <3>1. CASE ran'[q] = ran[q]
      BY <1>6, <2>1, <3>1 DEF Owned, Approved
    <3>2. CASE q = r /\ ran'[q] = g /\ g # NoGraph
      BY <1>6, <3>2 DEF Approved
    <3> QED
      BY <2>5, <3>1, <3>2
  <2>7. ran'[q] # NoGraph => job'[q] # "none"
    BY <2>1, <2>4, <2>5 DEF Owned
  <2>8. Owned(q)'
    BY <1>1, <2>1, <2>4, <2>6, <2>7 DEF Owned
  <2> QED
    BY <2>3, <2>8
<1>8. NumbersUnique' /\ (saved # NoGraph => Approved(saved))'
  BY <1>1 DEF Control, NumbersUnique, Approved
<1> QED
  BY <1>5, <1>7, <1>8 DEF Control

(* The engines, which read a graph once, keep every run on its approved    *)
(* graph.                                                                  *)
LEMMA EngineControl ==
  ASSUME Control, NEW r \in Runs, EngineStep(r)
  PROVE  Control'
<1>1. Owned(r) /\ saved \in Graphs \cup {NoGraph}
      /\ (saved # NoGraph => Approved(saved))
  BY DEF Control, Types
<1>2. {"queued", "running", "finished", "canceled"} \subseteq RowStatus \ {"none"}
      /\ {"queued", "running", "finished", "canceled", "retrying"} \subseteq JobStatus \ {"none"}
  BY DEF RowStatus, JobStatus
<1>3. CASE EvoStarts(r)
  <2>1. PICK v \in versions["phase2"] :
          v.number = req[r].version /\ ran' = [ran EXCEPT ![r] = v.graph]
    BY <1>3 DEF EvoStarts
  <2>2. job[r] # "none" /\ req[r].engine = "evo" /\ Becomes(r, "running")
        /\ UNCHANGED engineFrame
    BY <1>3 DEF EvoStarts, OwnerOf
  <2>3. /\ v \in [number : Nat, graph : Graphs] /\ Named(r) \in versions["phase2"]
        /\ Placed(r) /\ EngineAccepts(req[r].graph) /\ req[r].pc # "idle"
    BY <1>1, <2>1, <2>2 DEF Control, Types, Stores, Owned
  <2>4. v = Named(r)
    BY <2>1, <2>3 DEF Control, NumbersUnique, Named, Stores
  <2>5. v.graph = req[r].graph /\ v.graph \in Graphs /\ v.graph # NoGraph
    BY <2>3, <2>4, WebConstants DEF Named
  <2>6. Approved(v.graph)
    BY <2>2, <2>3, <2>5 DEF Placed, Approved
  <2> QED
    BY <1>1, <1>2, <2>1, <2>2, <2>3, <2>5, <2>6, EngineMoves
<1>4. CASE LegacyStarts(r)
  <2>1. job[r] # "none" /\ req[r].engine = "legacy" /\ UNCHANGED engineFrame
    BY <1>4 DEF LegacyStarts, OwnerOf
  <2>2. CASE /\ saved # NoGraph /\ EngineAccepts(saved)
             /\ Becomes(r, "running") /\ ran' = [ran EXCEPT ![r] = saved]
    BY <1>1, <1>2, <2>1, <2>2, EngineMoves
  <2>3. CASE Becomes(r, "finished") /\ UNCHANGED ran
    BY <1>1, <1>2, <2>1, <2>3, EngineMoves
  <2> QED
    BY <1>4, <2>2, <2>3 DEF LegacyStarts
<1>5. CASE LegacyRetries(r)
  <2>1. job[r] # "none" /\ req[r].engine = "legacy" /\ UNCHANGED <<engineFrame, ran>>
        /\ Becomes(r, "retrying")
    BY <1>5 DEF LegacyRetries, OwnerOf
  <2> QED
    BY <1>1, <1>2, <2>1, EngineMoves
<1>6. CASE Ends(r)
  <2>1. PICK st \in {"finished", "canceled"} : job[r] # "none" /\ Becomes(r, st)
    BY <1>6 DEF Ends, Unfinished
  <2>2. UNCHANGED <<ran, engineFrame>>
    BY <1>6 DEF Ends
  <2> QED
    BY <1>2, <2>1, <2>2, EngineMoves
<1> QED
  BY <1>3, <1>4, <1>5, <1>6 DEF EngineStep

(* Nothing else moves a request or an engine; deleting the workflow only   *)
(* takes the saved graph away.                                             *)
LEMMA OthersControl ==
  ASSUME Control,
         UNCHANGED <<versions, rows, req, job, ran>>, saved' \in {saved, NoGraph},
         present' \in [Stores -> BOOLEAN], canvas' \in Graphs,
         shown' \in [Runs -> Shown], tab' \in Tabs
  PROVE  Control'
<1>1. Types'
  BY DEF Control, Types
<1>2. \A g : Approved(g) => Approved(g)'
  BY DEF Approved
<1>3. ASSUME NEW q \in Runs
      PROVE  Placed(q)' /\ Owned(q)'
  <2>1. Placed(q) /\ Owned(q) /\ Named(q)' = Named(q)
    BY DEF Control, Named
  <2>2. ran[q] # NoGraph => Approved(ran[q])'
    BY <1>2, <2>1 DEF Owned, Approved
  <2> QED
    BY <2>1, <2>2 DEF Placed, Owned
<1>4. NumbersUnique' /\ (saved # NoGraph => Approved(saved))'
  BY <1>2 DEF Control, NumbersUnique, Approved
<1> QED
  BY <1>1, <1>3, <1>4 DEF Control

(* Planning, editing and deleting keep every run on its approved graph.    *)
LEMMA PlannerControl ==
  ASSUME Control, PlannerStep
  PROVE  Control'
<1>1. /\ tab \in Tabs /\ canvas \in Graphs /\ present \in [Stores -> BOOLEAN]
      /\ shown \in [Runs -> Shown] /\ saved \in Graphs \cup {NoGraph}
  BY DEF Control, Types
<1>2. /\ UNCHANGED <<versions, rows, req, job, ran, shown>>
      /\ saved' \in {saved, NoGraph}
  BY DEF PlannerStep, Generate, ProviderFails, ProviderAnswers, ApplyPlan, BuildManually,
         EditCanvas, DeleteWorkflow, plannerFrame, storeVars, engineVars, consoleVars
<1>3. CASE Generate \/ ProviderFails
  <2>1. tab' \in Tabs
    BY <1>1, <1>3, WebConstants DEF Generate, ProviderFails, Tabs
  <2>2. UNCHANGED <<canvas, present>>
    BY <1>3 DEF Generate, ProviderFails, plannerFrame, storeVars
  <2> QED
    BY <1>1, <1>2, <2>1, <2>2, OthersControl
<1>4. CASE ProviderAnswers
  <2>1. PICK g \in Graphs \cup {NoGraph} : tab' = [tab EXCEPT !.attempt = 0, !.plan = g]
    BY <1>4, WebConstants, Zenon DEF ProviderAnswers, Generated
  <2>2. tab' \in Tabs
    <3>1. 0 \in 0 .. MaxAttempts
      BY WebConstants
    <3>2. [tab EXCEPT !.attempt = 0, !.plan = g] \in Tabs
      BY <1>1, <3>1 DEF Tabs
    <3> QED
      BY <2>1, <3>2
  <2>3. UNCHANGED <<canvas, present>>
    BY <1>4 DEF ProviderAnswers, plannerFrame, storeVars
  <2> QED
    BY <1>1, <1>2, <2>2, <2>3, OthersControl
<1>5. CASE ApplyPlan
  <2>1. tab' \in Tabs /\ canvas' \in Graphs
    BY <1>1, <1>5 DEF ApplyPlan, Tabs
  <2>2. UNCHANGED present
    BY <1>5 DEF ApplyPlan, plannerFrame, storeVars
  <2> QED
    BY <1>1, <1>2, <2>1, <2>2, OthersControl
<1>6. CASE BuildManually
  <2>1. tab' \in Tabs /\ UNCHANGED <<canvas, present>>
    BY <1>1, <1>6 DEF BuildManually, Tabs, plannerFrame, storeVars
  <2> QED
    BY <1>1, <1>2, <2>1, OthersControl
<1>7. CASE EditCanvas
  <2>1. canvas' \in Graphs /\ UNCHANGED <<tab, present>>
    BY <1>7 DEF EditCanvas, plannerFrame, storeVars
  <2> QED
    BY <1>1, <1>2, <2>1, OthersControl
<1>8. CASE DeleteWorkflow
  <2>1. present' \in [Stores -> BOOLEAN] /\ UNCHANGED <<tab, canvas>>
    BY <1>1, <1>8 DEF DeleteWorkflow, Deletable
  <2> QED
    BY <1>1, <1>2, <2>1, OthersControl
<1> QED
  BY <1>3, <1>4, <1>5, <1>6, <1>7, <1>8 DEF PlannerStep

(* Polling, hearing of a run and stopping it keep every run on its         *)
(* approved graph.                                                         *)
LEMMA ConsoleControl ==
  ASSUME Control, Poll \/ StopStep \/ \E r \in Runs : Realtime(r)
  PROVE  Control'
<1>1. /\ tab \in Tabs /\ canvas \in Graphs /\ present \in [Stores -> BOOLEAN]
      /\ shown \in [Runs -> Shown]
  BY DEF Control, Types
<1>2. UNCHANGED <<versions, rows, req, job, ran, saved, present, canvas, tab>>
  BY DEF Poll, Realtime, consoleFrame, StopStep, PressStop, LookPhase2, LookNeon, Send, stopFrame,
         storeVars, engineVars
<1>3. CASE Poll
  <2>1. PICK o \in {"ok", "refused"} :
          shown' = [r \in Runs |-> EvoList(r, o)]
    BY <1>3 DEF Poll
  <2>2. \A r \in Runs : ListedEvo(r, o) \in Shown
    BY DEF ListedEvo, EvoEntry, Shown
  <2>3. shown' \in [Runs -> Shown]
    BY <1>1, <2>1, <2>2 DEF EvoList, Shown
  <2> QED
    BY <1>1, <1>2, <2>3, OthersControl
<1>4. CASE StopStep
  <2>1. UNCHANGED shown
    BY <1>4 DEF StopStep, PressStop, LookPhase2, LookNeon, Send, stopFrame, consoleVars
  <2> QED
    BY <1>1, <1>2, <2>1, OthersControl
<1>5. CASE \E r \in Runs : Realtime(r)
  <2>1. PICK r \in Runs : shown' = [shown EXCEPT ![r] = LegacyEntry(r)]
    BY <1>5 DEF Realtime
  <2>2. LegacyEntry(r) \in Shown
    BY DEF LegacyEntry, Shown
  <2>3. shown' \in [Runs -> Shown]
    BY <1>1, <2>1, <2>2
  <2> QED
    BY <1>1, <1>2, <2>3, OthersControl
<1> QED
  BY <1>3, <1>4, <1>5

(* Control holds in every reachable state.                                 *)
THEOREM ControlHolds == Spec => []Control
<1>1. Init => Control
  <2> SUFFICES ASSUME Init PROVE Control
    OBVIOUS
  <2>1. Fresh \in Requests
    BY WebConstants DEF Fresh, Requests, Stages
  <2>2. Types
    BY <2>1, WebConstants
    DEF Init, Types, Tabs, Stores, RowStatus, JobStatus, Shown
  <2>3. ASSUME NEW r \in Runs
        PROVE  Placed(r) /\ Owned(r)
    BY DEF Init, Fresh, Placed, Owned, Stores
  <2>4. NumbersUnique /\ saved = NoGraph
    BY DEF Init, NumbersUnique
  <2> QED
    BY <2>2, <2>3, <2>4 DEF Control
<1>2. Control /\ [Next]_vars => Control'
  <2> SUFFICES ASSUME Control, [Next]_vars PROVE Control'
    OBVIOUS
  <2>1. CASE UNCHANGED vars
    <3>1. UNCHANGED <<versions, rows, req, job, ran, saved, present, canvas, shown, tab>>
      BY <2>1 DEF vars, storeVars, engineVars, consoleVars
    <3> QED
      BY <3>1, OthersControl DEF Control, Types
  <2>2. CASE Next
    BY <2>2, NextCases, RequestControl, EngineControl, PlannerControl, ConsoleControl
  <2> QED
    BY <2>1, <2>2
<1> QED
  BY <1>1, <1>2, PTL DEF Spec

(* Whatever is written beside it and whatever the canvas becomes, a run    *)
(* executes a graph somebody approved, an Evo run its own.                 *)
THEOREM ApprovedGraphsRun == Spec => []RunsApprovedGraph
<1>1. Control => RunsApprovedGraph
  BY DEF Control, Owned, Approved, RunsApprovedGraph, OwnerOf
<1> QED
  BY <1>1, ControlHolds, PTL

-----------------------------------------------------------------------------
(* Stop.                                                                   *)

(* What the console shows exists: a legacy run, or an Evo run on record.   *)
Known(r) == req[r].engine = "legacy" \/ rows["phase2"][r] # "none"

StopTyped ==
  stop \in [pc : {"idle", "phase2", "neon", "send"}, run : Runs \cup {NoRun},
            engine : {"none", "legacy", "evo"}, blind : BOOLEAN]

StopInv ==
  /\ StopTyped
  /\ \A r \in Runs : shown[r] # "absent" => Known(r)
  /\ stop.pc # "idle" => stop.run \in Runs /\ Known(stop.run)
  /\ stop.pc = "neon" /\ ~ stop.blind => req[stop.run].engine = "legacy"
  /\ stop.pc = "send" /\ ~ stop.blind => stop.engine = req[stop.run].engine

(* Of the steps of a request only Save gives it an engine, and no step     *)
(* takes a row back.                                                       *)
LEMMA RequestKeeps ==
  ASSUME Types, NEW r \in Runs, RequestStep(r)
  PROVE  /\ Alone(r) /\ (req[r].pc # "save" => req'[r].engine = req[r].engine)
         /\ \A q \in Runs : rows["phase2"][q] # "none" => rows'["phase2"][q] # "none"
         /\ UNCHANGED <<shown, stop>>
<1> USE DEF storeVars, engineVars, consoleVars
<1>1. CASE Press(r) \/ RunAgain(r) \/ ColleagueRuns(r)
  <2>1. PICK from \in {"button", "elsewhere"} : Submitted(r, from)
    BY <1>1 DEF Press, RunAgain, ColleagueRuns
  <2> QED
    BY <2>1, SubmittedEffect
<1>2. CASE Save(r)
  BY <1>2, SaveEffect DEF Save, runFrame
<1>3. CASE ReadLatest(r) \/ InsertVersion(r) \/ Reread(r)
  <2>1. Alone(r) /\ req'[r].engine = req[r].engine
    BY <1>3, ReadLatestEffect, InsertVersionEffect, RereadEffect
  <2>2. UNCHANGED <<rows, shown, stop>>
    BY <1>3, InsertVersionEffect DEF ReadLatest, Reread, versionFrame, runFrame
  <2> QED
    BY <2>1, <2>2
<1>4. CASE Ensure(r) \/ InsertRow(r) \/ Submit(r) \/ Trigger(r) \/ Record(r)
  <2>1. PICK stage \in Stages : Goto(r, stage)
    BY <1>4, Zenon DEF Ensure, InsertRow, Submit, Trigger, Record, Stages
  <2>2. Alone(r) /\ req'[r].engine = req[r].engine
    BY <2>1, GotoEffect
  <2>3. UNCHANGED <<shown, stop>>
    BY <1>4 DEF Ensure, InsertRow, Submit, Trigger, Record, runFrame
  <2>4. \/ rows' = rows
        \/ rows' = [rows EXCEPT !["phase2"][r] = "queued"]
        \/ rows' = [rows EXCEPT !["neon"][r] = "queued"]
    BY <1>4, Zenon DEF Ensure, InsertRow, Submit, Trigger, Record
  <2>5. \A q \in Runs : rows["phase2"][q] # "none" => rows'["phase2"][q] # "none"
    BY <2>4 DEF Types, Stores
  <2> QED
    BY <2>2, <2>3, <2>5
<1> QED
  BY <1>1, <1>2, <1>3, <1>4 DEF RequestStep

(* Nor does a step of an engine.                                           *)
LEMMA EngineKeeps ==
  ASSUME Types, NEW r \in Runs, EngineStep(r)
  PROVE  /\ UNCHANGED <<req, shown, stop>>
         /\ \A q \in Runs : rows["phase2"][q] # "none" => rows'["phase2"][q] # "none"
<1>1. UNCHANGED <<req, shown, stop>>
  BY DEF EngineStep, EvoStarts, LegacyStarts, LegacyRetries, Ends, engineFrame, consoleVars
<1>2. PICK st \in JobStatus \ {"none"} : Becomes(r, st)
  BY DEF EngineStep, EvoStarts, LegacyStarts, LegacyRetries, Ends, JobStatus, RowStatus
<1>3. rows' = rows \/ rows' = [rows EXCEPT !["phase2"][r] = st]
  BY <1>2 DEF Becomes
<1>4. \A q \in Runs : rows["phase2"][q] # "none" => rows'["phase2"][q] # "none"
  BY <1>3 DEF Types, Stores
<1> QED
  BY <1>1, <1>4

(* A run that is known stays known, to the engine it has.                  *)
LEMMA KnownStays ==
  ASSUME Control, NEW r \in Runs, Known(r), NEW q \in Runs, RequestStep(q) \/ EngineStep(q)
  PROVE  Known(r)' /\ req'[r].engine = req[r].engine
<1>1. req[r].engine # "none" /\ req[r].pc # "save"
  BY DEF Control, Placed, Known
<1>2. CASE RequestStep(q)
  <2>1. req'[r].engine = req[r].engine
    BY <1>1, <1>2, RequestKeeps DEF Control, Alone
  <2> QED
    BY <1>2, <2>1, RequestKeeps DEF Control, Known
<1>3. CASE EngineStep(q)
  BY <1>3, EngineKeeps DEF Control, Known
<1> QED
  BY <1>2, <1>3

(* The Phase-2 lookup, when it answers, separates the engines: Evo runs    *)
(* have a row before the console can show them, legacy runs never do.      *)
LEMMA StopStepKeeps ==
  ASSUME Control, StopInv, StopStep
  PROVE  StopInv'
<1>1. UNCHANGED <<req, rows, shown>>
  BY DEF StopStep, PressStop, LookPhase2, LookNeon, Send, stopFrame, storeVars, consoleVars
<1>2. \A r \in Runs : Known(r)' <=> Known(r)
  BY <1>1 DEF Known
<1>3. \A r \in Runs : rows["phase2"][r] # "none" => req[r].engine = "evo"
  BY DEF Control, Placed
<1>4. CASE PressStop
  <2>1. PICK r \in Runs : shown[r] = "live" /\ stop' = [Idle EXCEPT !.pc = "phase2", !.run = r]
    BY <1>4 DEF PressStop, Newest, Live
  <2>2. StopTyped' /\ stop'.pc = "phase2" /\ stop'.run = r
    BY <2>1 DEF StopTyped, Idle
  <2> QED
    BY <1>1, <1>2, <2>1, <2>2 DEF StopInv
<1>5. CASE LookPhase2
  <2>1. stop.pc = "phase2" /\ stop.run \in Runs /\ Known(stop.run)
    BY <1>5 DEF LookPhase2, StopInv
  <2>2. \/ /\ RowExists("phase2", stop.run)
           /\ stop' = [stop EXCEPT !.pc = "send", !.engine = "evo"]
        \/ /\ ~ RowExists("phase2", stop.run)
           /\ stop' = [stop EXCEPT !.pc = "neon", !.blind = FALSE]
        \/ stop' = [stop EXCEPT !.pc = "neon", !.blind = TRUE]
    BY <1>5 DEF LookPhase2
  <2>3. StopTyped' /\ stop'.run = stop.run
    BY <2>2 DEF StopInv, StopTyped
  <2> QED
    BY <1>1, <1>2, <1>3, <2>1, <2>2, <2>3 DEF StopInv, StopTyped, RowExists, Known
<1>6. CASE LookNeon
  <2>1. stop.pc = "neon" /\ stop' = [stop EXCEPT !.pc = "send", !.engine = "legacy"]
    BY <1>6 DEF LookNeon
  <2> QED
    BY <1>1, <1>2, <2>1 DEF StopInv, StopTyped
<1>7. CASE Send
  <2>1. stop' = Idle
    BY <1>7 DEF Send
  <2> QED
    BY <1>1, <1>2, <2>1 DEF StopInv, StopTyped, Idle
<1> QED
  BY <1>4, <1>5, <1>6, <1>7 DEF StopStep

(* Every step keeps a stop bound for the engine that owns the run.         *)
LEMMA StopInvStep ==
  ASSUME Control, StopInv, [Next]_vars
  PROVE  StopInv'
<1>1. ASSUME NEW q \in Runs, RequestStep(q) \/ EngineStep(q)
      PROVE  StopInv'
  <2>1. UNCHANGED <<shown, stop>>
    BY <1>1, RequestKeeps, EngineKeeps DEF Control
  <2>2. \A r \in Runs : Known(r) => Known(r)' /\ req'[r].engine = req[r].engine
    BY <1>1, KnownStays
  <2> QED
    BY <2>1, <2>2 DEF StopInv, StopTyped
<1>2. ASSUME UNCHANGED <<req, rows, stop>>,
             shown' = shown \/ \A r \in Runs : shown'[r] # "absent" => Known(r)
      PROVE  StopInv'
  BY <1>2 DEF StopInv, StopTyped, Known
<1>3. CASE \E r \in Runs : Realtime(r)
  <2>1. PICK r \in Runs : Realtime(r)
    BY <1>3
  <2>2. /\ UNCHANGED <<req, rows, stop>> /\ req[r].engine = "legacy"
        /\ shown' = [shown EXCEPT ![r] = LegacyEntry(r)]
    BY <2>1 DEF Realtime, consoleFrame, storeVars, OwnerOf
  <2>3. \A q \in Runs : shown'[q] # "absent" => Known(q)
    BY <2>2 DEF Control, Types, StopInv, Known
  <2> QED
    BY <1>2, <2>2, <2>3
<1>4. CASE Poll
  <2>1. PICK o \in {"ok", "refused"} :
          shown' = [r \in Runs |-> EvoList(r, o)]
    BY <1>4 DEF Poll
  <2>2. \A q \in Runs : shown'[q] # "absent" => Known(q)
    BY <2>1 DEF StopInv, EvoList, ListedEvo, EvoEntry, Known
  <2>3. UNCHANGED <<req, rows, stop>>
    BY <1>4 DEF Poll, consoleFrame, storeVars
  <2> QED
    BY <1>2, <2>2, <2>3
<1>5. CASE PlannerStep \/ UNCHANGED vars
  <2>1. UNCHANGED <<req, rows, stop, shown>>
    BY <1>5
    DEF PlannerStep, Generate, ProviderFails, ProviderAnswers, ApplyPlan, BuildManually, EditCanvas,
        DeleteWorkflow, plannerFrame, vars, storeVars, consoleVars
  <2> QED
    BY <1>2, <2>1
<1> QED
  BY <1>1, <1>3, <1>4, <1>5, StopStepKeeps, NextCases

(* A cancellation goes to the engine that owns the run, unless the lookup  *)
(* of the Phase-2 store failed.                                            *)
THEOREM StopFindsTheOwner == Spec => []StopReachesOwner
<1>1. Init => StopInv
  BY DEF Init, Idle, StopInv, StopTyped
<1>2. Control /\ StopInv /\ [Next]_vars => StopInv'
  BY StopInvStep
<1>3. StopInv => StopReachesOwner
  BY DEF StopInv, StopReachesOwner, OwnerOf
<1> QED
  BY <1>1, <1>2, <1>3, ControlHolds, PTL DEF Spec
-----------------------------------------------------------------------------
(* The results popup.                                                      *)

Ended == {"finished", "canceled"}

(* The run has ended, and what the console reads of it says so.            *)
Over(r) ==
  /\ job[r] \in Ended
  /\ \/ req[r].engine = "evo" /\ rows["phase2"][r] \in Ended
     \/ req[r].engine = "legacy"

(* An Evo run row that says the run ended is right.                        *)
RowsTrue == \A r \in Runs : rows["phase2"][r] \in Ended => job[r] \in Ended

PopupTyped ==
  popup \in [run : Runs \cup {NoRun}, terminalOnFirstSight : BOOLEAN,
             notified : Runs \cup {NoRun}, opened : [Runs -> Nat]]

(* What the console remembers of a run whose results have opened keeps     *)
(* them from opening again while it is the newest; when it becomes the     *)
(* newest again it is seen as ended at first sight.                        *)
Remembered(r) ==
  /\ popup.opened[r] <= 1
  /\ popup.opened[r] = 1 => /\ Over(r) /\ shown[r] \in {"absent", "ended"}
                            /\ popup.run = r => popup.notified = r \/ popup.terminalOnFirstSight

PopupInv ==
  /\ PopupTyped /\ RowsTrue
  /\ \A r \in Runs : /\ shown[r] = "ended" => Over(r)
                     /\ Remembered(r)

(* A run that is over is one the console can know of.                      *)
LEMMA EndedKnown == ASSUME NEW r \in Runs, Over(r) PROVE Known(r)
  BY DEF Over, Known, Ended

(* A request that writes a row or hands a run to an engine has no job yet. *)
LEMMA RequestJobs ==
  ASSUME Control, NEW r \in Runs, RequestStep(r)
  PROVE  \/ job' = job /\ rows' = rows
         \/ /\ job[r] = "none" /\ rows'["phase2"][r] \in {rows["phase2"][r], "queued"}
            /\ \A q \in Runs \ {r} : /\ job'[q] = job[q]
                                     /\ rows'["phase2"][q] = rows["phase2"][q]
         \/ job' = job /\ \A q \in Runs : rows'["phase2"][q] = rows["phase2"][q]
<1> USE DEF storeVars, engineVars
<1>0. Types /\ Owned(r) /\ "phase2" \in Stores BY DEF Control, Stores
<1>1. CASE Press(r) \/ RunAgain(r) \/ ColleagueRuns(r)
  BY <1>1 DEF Press, RunAgain, ColleagueRuns, Submitted
<1>2. CASE Save(r) \/ Ensure(r) BY <1>2 DEF Save, Ensure
<1>3. CASE ReadLatest(r) \/ InsertVersion(r) \/ Reread(r)
  BY <1>3, InsertVersionEffect DEF Control, ReadLatest, Reread, versionFrame
<1>4. CASE InsertRow(r)
  <2>1. job[r] = "none" BY <1>0, <1>4 DEF InsertRow, At, Owned
  <2>2. job' = job /\ (rows' = rows \/ rows' = [rows EXCEPT !["phase2"][r] = "queued"])
    BY <1>4, Zenon DEF InsertRow
  <2>3. QED BY <1>0, <2>1, <2>2 DEF Types
<1>5. CASE Submit(r) \/ Trigger(r)
  <2>1. job[r] = "none" BY <1>0, <1>5 DEF Submit, Trigger, At, Owned
  <2>2. rows' = rows /\ (job' = job \/ job' = [job EXCEPT ![r] = "queued"])
    BY <1>5, Zenon DEF Submit, Trigger
  <2>3. QED BY <1>0, <2>1, <2>2 DEF Types
<1>6. CASE Record(r)
  <2>1. job' = job /\ (rows' = rows \/ rows' = [rows EXCEPT !["neon"][r] = "queued"])
    BY <1>6, Zenon DEF Record
  <2>2. QED BY <1>0, <2>1 DEF Types, Stores
<1>7. QED BY <1>1, <1>2, <1>3, <1>4, <1>5, <1>6 DEF RequestStep

(* An engine moves a run that has not ended, and the row of an Evo run     *)
(* with it.                                                                *)
LEMMA EngineJobs ==
  ASSUME Control, NEW r \in Runs, EngineStep(r)
  PROVE  /\ job[r] \notin Ended
         /\ \A q \in Runs \ {r} : /\ job'[q] = job[q]
                                  /\ rows'["phase2"][q] = rows["phase2"][q]
         /\ rows'["phase2"][r] \in {rows["phase2"][r], job'[r]}
<1>1. job[r] \notin Ended
  BY DEF EngineStep, EvoStarts, LegacyStarts, LegacyRetries, Ends, Unfinished, Ended
<1>2. PICK st \in JobStatus \ {"none"} : Becomes(r, st)
  BY DEF EngineStep, EvoStarts, LegacyStarts, LegacyRetries, Ends, JobStatus, RowStatus
<1>3. job' = [job EXCEPT ![r] = st]
      /\ (rows' = rows \/ rows' = [rows EXCEPT !["phase2"][r] = st])
  BY <1>2 DEF Becomes
<1>4. QED BY <1>1, <1>3 DEF Control, Types, Stores

(* A run that is over stays over.                                          *)
LEMMA OverStays ==
  ASSUME Control, NEW r \in Runs, Over(r), NEW q \in Runs, RequestStep(q) \/ EngineStep(q)
  PROVE  Over(r)'
<1>1. req'[r].engine = req[r].engine BY EndedKnown, KnownStays
<1>2. job[r] \in Ended /\ job[r] # "none" BY DEF Over, Ended
<1>3. job'[r] = job[r] /\ rows'["phase2"][r] = rows["phase2"][r]
  <2>1. CASE RequestStep(q) BY <1>2, <2>1, RequestJobs
  <2>2. CASE EngineStep(q) BY <1>2, <2>2, EngineJobs
  <2>3. QED BY <2>1, <2>2
<1>4. QED BY <1>1, <1>3 DEF Over

(* Requests and engines write no row that says more than the run has done. *)
LEMMA RowsStayTrue ==
  ASSUME Control, RowsTrue, NEW q \in Runs, RequestStep(q) \/ EngineStep(q)
  PROVE  RowsTrue'
<1>1. ASSUME NEW r \in Runs, rows'["phase2"][r] \in Ended PROVE job'[r] \in Ended
  <2>1. CASE RequestStep(q)
    <3>1. rows["phase2"][r] \in Ended => job[r] \in Ended BY DEF RowsTrue
    <3>2. \/ job'[r] = job[r] /\ rows'["phase2"][r] = rows["phase2"][r]
          \/ job[r] = "none" /\ rows'["phase2"][r] \in {rows["phase2"][r], "queued"}
      BY <2>1, RequestJobs
    <3>3. QED BY <1>1, <3>1, <3>2 DEF Ended
  <2>2. CASE EngineStep(q) BY <1>1, <2>2, EngineJobs DEF RowsTrue, Ended
  <2>3. QED BY <2>1, <2>2
<1>2. QED BY <1>1 DEF RowsTrue

(* What the effect of the console makes of a list, for the newest entry.   *)
LEMMA NotifyEffect ==
  ASSUME PopupTyped, NEW latest \in Runs, NEW list \in [Runs -> Shown],
         popup' = Notify(popup, latest, list)
  PROVE  /\ PopupTyped'
         /\ popup'.run = latest
         /\ \A r \in Runs \ {latest} : popup'.opened[r] = popup.opened[r]
         /\ popup.run # latest /\ list[latest] = "ended" =>
              popup'.terminalOnFirstSight /\ popup'.opened = popup.opened
         /\ popup.run = latest => popup'.terminalOnFirstSight = popup.terminalOnFirstSight
         /\ \/ popup'.opened = popup.opened /\ popup'.notified = popup.notified
            \/ /\ popup'.opened[latest] = popup.opened[latest] + 1 /\ list[latest] = "ended"
               /\ popup'.notified = latest /\ popup.notified # latest
               /\ popup.run = latest /\ ~ popup.terminalOnFirstSight
<1> DEFINE seen == IF popup.run = latest THEN popup
                   ELSE [popup EXCEPT !.run = latest,
                                      !.terminalOnFirstSight = list[latest] = "ended"]
           opens == ~ seen.terminalOnFirstSight /\ list[latest] = "ended"
                    /\ seen.notified # latest
           open  == [seen EXCEPT !.notified = latest, !.opened[latest] = @ + 1]
<1>1. popup' = IF opens THEN open ELSE seen BY DEF Notify
<1>2. /\ seen.run = latest /\ seen.notified = popup.notified /\ seen.opened = popup.opened
      /\ popup.run = latest => seen = popup
      /\ popup.run # latest => seen.terminalOnFirstSight = (list[latest] = "ended")
      /\ seen \in [run : Runs \cup {NoRun}, terminalOnFirstSight : BOOLEAN,
                   notified : Runs \cup {NoRun}, opened : [Runs -> Nat]]
  BY DEF PopupTyped
<1> HIDE DEF seen
<1>3. CASE opens
  <2>1. popup.run = latest /\ seen = popup BY <1>2, <1>3
  <2>2. popup' = [popup EXCEPT !.notified = latest, !.opened[latest] = @ + 1]
    BY <1>1, <1>3, <2>1
  <2>3. popup'.opened = [popup.opened EXCEPT ![latest] = @ + 1] /\ popup'.run = popup.run
        /\ popup'.notified = latest
        /\ popup'.terminalOnFirstSight = popup.terminalOnFirstSight
    BY <2>2 DEF PopupTyped
  <2>4. popup.opened \in [Runs -> Nat] BY DEF PopupTyped
  <2>5. popup'.opened \in [Runs -> Nat] BY <2>3, <2>4
  <2>6. PopupTyped' BY <2>2, <2>5 DEF PopupTyped
  <2>7. QED BY <1>3, <2>1, <2>3, <2>4, <2>6
<1>4. CASE ~ opens
  <2>1. popup' = seen BY <1>1, <1>4
  <2>2. PopupTyped' BY <1>2, <2>1 DEF PopupTyped
  <2>3. QED BY <1>2, <2>1, <2>2
<1>5. QED BY <1>3, <1>4

(* The popup after the console has rendered a list that shows runs as      *)
(* ended only when they are, and those whose results opened as nothing     *)
(* else.                                                                   *)
LEMMA RendersKeeps ==
  ASSUME PopupInv, NEW view, shown' \in [Runs -> Shown], Renders(view, shown'),
         UNCHANGED <<job, rows, req>>,
         \A r \in Runs : shown'[r] = "ended" => Over(r),
         \A r \in Runs : Over(r) /\ shown[r] \in {"absent", "ended"}
           => shown'[r] \in {"absent", "ended"}
  PROVE  PopupInv'
<1>0. PopupTyped /\ RowsTrue' /\ \A r \in Runs : Over(r)' <=> Over(r)
  BY DEF PopupInv, RowsTrue, Over
<1>1. CASE popup' = popup
  BY <1>0, <1>1 DEF PopupInv, PopupTyped, Remembered
<1>2. CASE LatestRun(shown') # {} /\ popup' = Notify(popup, CHOOSE r \in LatestRun(shown') : TRUE, shown')
  <2>1. PICK latest : latest = CHOOSE r \in LatestRun(shown') : TRUE OBVIOUS
  <2>2. latest \in Runs /\ shown'[latest] # "absent"
    <3>1. latest \in LatestRun(shown') BY <1>2, <2>1
    <3>2. QED BY <3>1 DEF LatestRun, Newest
  <2>3. PICK list \in [Runs -> Shown] : list = shown' OBVIOUS
  <2>4. popup' = Notify(popup, latest, list) BY <1>2, <2>1, <2>3
  <2>5. /\ PopupTyped'
        /\ popup'.run = latest
        /\ \A r \in Runs \ {latest} : popup'.opened[r] = popup.opened[r]
        /\ popup.run # latest /\ list[latest] = "ended" =>
             popup'.terminalOnFirstSight /\ popup'.opened = popup.opened
        /\ popup.run = latest => popup'.terminalOnFirstSight = popup.terminalOnFirstSight
        /\ \/ popup'.opened = popup.opened /\ popup'.notified = popup.notified
           \/ /\ popup'.opened[latest] = popup.opened[latest] + 1 /\ list[latest] = "ended"
              /\ popup'.notified = latest /\ popup.notified # latest
              /\ popup.run = latest /\ ~ popup.terminalOnFirstSight
    BY <1>0, <2>2, <2>4, NotifyEffect
  <2>6. ASSUME NEW r \in Runs PROVE Remembered(r)'
    <3>1. Remembered(r) /\ popup.opened[r] \in Nat BY <1>0 DEF PopupInv, PopupTyped
    <3>2. CASE r # latest
      BY <1>0, <2>5, <3>1, <3>2 DEF Remembered
    <3>3. CASE r = latest /\ popup'.opened = popup.opened /\ popup'.notified = popup.notified
      <4>1. popup.opened[r] = 1 => Over(r) /\ shown'[r] = "ended"
        BY <2>2, <3>1, <3>3 DEF Remembered
      <4>2. popup.opened[r] = 1 => popup'.notified = r \/ popup'.terminalOnFirstSight
        BY <2>3, <2>5, <3>1, <3>3, <4>1 DEF Remembered
      <4>3. QED BY <1>0, <3>1, <3>3, <4>1, <4>2 DEF Remembered
    <3>4. CASE r = latest /\ popup'.opened[latest] = popup.opened[latest] + 1
               /\ list[latest] = "ended" /\ popup'.notified = latest
               /\ popup.notified # latest /\ popup.run = latest
               /\ ~ popup.terminalOnFirstSight
      <4>1. popup.opened[r] = 0 BY <3>1, <3>4 DEF Remembered
      <4>2. QED BY <1>0, <2>3, <3>4, <4>1 DEF Remembered
    <3>5. QED BY <2>5, <3>2, <3>3, <3>4
  <2>7. QED BY <1>0, <2>5, <2>6 DEF PopupInv
<1>3. QED BY <1>1, <1>2 DEF Renders

(* Every step keeps the popup for runs that are over and not shown before. *)
LEMMA PopupStep ==
  ASSUME Control, PopupInv, [Next]_vars
  PROVE  PopupInv'
<1>0. shown \in [Runs -> Shown] BY DEF Control, Types
<1>1. ASSUME NEW q \in Runs, RequestStep(q) \/ EngineStep(q) PROVE PopupInv'
  <2>1. UNCHANGED <<shown, popup>>
    BY <1>1 DEF RequestStep, Press, RunAgain, ColleagueRuns, Submitted, Save, Ensure, ReadLatest,
       InsertVersion, InsertClashes, Reread, InsertRow, Submit, Trigger, Record, versionFrame,
       runFrame, EngineStep, EvoStarts, LegacyStarts, LegacyRetries, Ends, engineFrame, consoleVars
  <2>2. RowsTrue' BY <1>1, RowsStayTrue DEF PopupInv
  <2>3. \A r \in Runs : Over(r) => Over(r)' BY <1>1, OverStays
  <2>4. QED BY <2>1, <2>2, <2>3 DEF PopupInv, PopupTyped, Remembered
<1>2. CASE UNCHANGED <<shown, popup, job, rows, req>>
  BY <1>2 DEF PopupInv, PopupTyped, RowsTrue, Remembered, Over
<1>3. CASE StopStep \/ Generate \/ ProviderFails \/ ProviderAnswers \/ EditCanvas
           \/ DeleteWorkflow \/ UNCHANGED vars
  <2>1. UNCHANGED <<shown, popup, job, rows, req>>
    BY <1>3 DEF StopStep, PressStop, LookPhase2, LookNeon, Send, stopFrame, Generate, ProviderFails,
       ProviderAnswers, EditCanvas, DeleteWorkflow, plannerFrame, storeVars, engineVars, consoleVars,
       vars
  <2>2. QED BY <1>2, <2>1
<1>4. CASE ApplyPlan \/ BuildManually
  <2>1. Renders("canvas", shown) /\ UNCHANGED <<shown, job, rows, req>>
    BY <1>4 DEF ApplyPlan, BuildManually, plannerFrame, storeVars, engineVars
  <2>2. Renders("canvas", shown') /\ shown' \in [Runs -> Shown]
    BY <1>0, <2>1
  <2>3. QED BY <2>1, <2>2, RendersKeeps DEF PopupInv
<1>5. CASE Poll
  <2>1. PICK o \in {"ok", "refused"} :
          shown' = [r \in Runs |-> EvoList(r, o)] /\ Renders(tab.view, shown')
    BY <1>5 DEF Poll
  <2>2. UNCHANGED <<job, rows, req>> BY <1>5 DEF Poll, consoleFrame, storeVars, engineVars
  <2>3. shown' \in [Runs -> Shown]
    <3>1. ASSUME NEW r \in Runs PROVE EvoList(r, o) \in Shown
      BY <1>0 DEF EvoList, ListedEvo, EvoEntry, Shown
    <3>2. QED BY <2>1, <3>1
  <2>4. ASSUME NEW r \in Runs
        PROVE  /\ shown'[r] = "ended" => Over(r)
               /\ Over(r) /\ shown[r] \in {"absent", "ended"} => shown'[r] \in {"absent", "ended"}
    <3>1. shown'[r] = EvoList(r, o) BY <2>1
    <3>2. rows["phase2"][r] \in RowStatus BY DEF Control, Types, Stores
    <3>3. CASE req[r].engine = "evo"
      <4>1. EvoEntry(r) = "ended" <=> rows["phase2"][r] \in Ended
        BY <3>2 DEF EvoEntry, RowStatus, Ended
      <4>2. QED BY <3>1, <3>3, <4>1 DEF EvoList, ListedEvo, OwnerOf, Over, PopupInv, RowsTrue
    <3>4. CASE req[r].engine # "evo"
      BY <3>1, <3>4 DEF EvoList, OwnerOf, PopupInv
    <3>5. QED BY <3>3, <3>4
  <2>5. QED BY <2>1, <2>2, <2>3, <2>4, RendersKeeps
<1>6. ASSUME NEW q \in Runs, Realtime(q) PROVE PopupInv'
  <2>1. /\ req[q].engine = "legacy" /\ shown' = [shown EXCEPT ![q] = LegacyEntry(q)]
        /\ Renders(tab.view, shown') /\ UNCHANGED <<job, rows, req>>
    BY <1>6 DEF Realtime, OwnerOf, consoleFrame, storeVars, engineVars
  <2>2. LegacyEntry(q) \in Shown BY DEF LegacyEntry, Shown
  <2>3. shown' \in [Runs -> Shown] BY <1>0, <2>1, <2>2
  <2>4. LegacyEntry(q) = "ended" <=> job[q] \in Ended
    BY DEF LegacyEntry, Ended
  <2>5. ASSUME NEW r \in Runs
        PROVE  /\ shown'[r] = "ended" => Over(r)
               /\ Over(r) /\ shown[r] \in {"absent", "ended"} => shown'[r] \in {"absent", "ended"}
    BY <1>0, <2>1, <2>4 DEF Over, PopupInv
  <2>6. QED BY <2>1, <2>3, <2>5, RendersKeeps
<1>7. QED BY <1>1, <1>3, <1>4, <1>5, <1>6, NextCases DEF PlannerStep

(* "Each run only ever auto-opens the popup once", and only once the run   *)
(* has ended, however the lists of the console shrink, grow and change     *)
(* order (console-panel.tsx).                                              *)
THEOREM PopupOpensOnce == Spec => []PopupOnce
<1>1. Init => PopupInv
  BY DEF Init, PopupInv, PopupTyped, RowsTrue, Remembered, Stores, Ended
<1>2. Control /\ PopupInv /\ [Next]_vars => PopupInv'
  BY PopupStep
<1>3. PopupInv => PopupOnce
  BY DEF PopupInv, Remembered, Over, Ended, PopupOnce
<1> QED
  BY <1>1, <1>2, <1>3, ControlHolds, PTL DEF Spec

-----------------------------------------------------------------------------
(* All the types together.                                                 *)

Rest ==
  /\ born \in Seq(Runs) /\ asked \subseteq Runs
  /\ edits \in 0 .. MaxEdits /\ faults \in 0 .. MaxFaults

(* Edits and faults keep within the bounds of the model.                   *)
LEMMA Bounded ==
  ASSUME Rest
  PROVE  /\ edits < MaxEdits /\ edits' = edits + 1 => edits' \in 0 .. MaxEdits
         /\ (\E o \in Outcomes : Charge(o)) => faults' \in 0 .. MaxFaults
<1>1. edits < MaxEdits => edits + 1 \in 0 .. MaxEdits
  BY WebConstants DEF Rest
<1>2. faults < MaxFaults => faults + 1 \in 0 .. MaxFaults
  BY WebConstants DEF Rest
<1> QED
  BY <1>1, <1>2 DEF Charge, Rest

(* Only a run that gets its row or its job enters the order of creation,   *)
(* and an engine is only asked to cancel the run somebody stopped.         *)
LEMMA RestStep ==
  ASSUME Rest, StopInv, [Next]_vars
  PROVE  Rest'
<1>1. ASSUME NEW r \in Runs, RequestStep(r)
      PROVE  Rest'
  <2>1. asked' = asked /\ edits' = edits
    BY <1>1 DEF RequestStep, Press, RunAgain, ColleagueRuns, Submitted, Save, Ensure, ReadLatest,
       InsertVersion, InsertClashes, Reread, InsertRow, Submit, Trigger, Record, versionFrame,
       runFrame, engineVars
  <2>2. born' \in {born, Append(born, r)}
    BY <1>1 DEF RequestStep, Press, RunAgain, ColleagueRuns, Submitted, Save, Ensure, ReadLatest,
       InsertVersion, InsertClashes, Reread, InsertRow, Submit, Trigger, Record, versionFrame,
       runFrame
  <2>3. faults' = faults \/ \E o \in Outcomes : Charge(o)
    BY <1>1 DEF RequestStep, Press, RunAgain, ColleagueRuns, Submitted, Save, Ensure, ReadLatest,
       InsertVersion, InsertClashes, Reread, InsertRow, Submit, Trigger, Record, versionFrame,
       Outcomes
  <2>4. born' \in Seq(Runs)
    BY <2>2 DEF Rest
  <2> QED
    BY <2>1, <2>3, <2>4, Bounded DEF Rest
<1>2. ASSUME NEW r \in Runs, EngineStep(r)
      PROVE  Rest'
  <2>1. asked' \subseteq asked /\ UNCHANGED <<born, edits, faults>>
    BY <1>2 DEF EngineStep, EvoStarts, LegacyStarts, LegacyRetries, Ends, engineFrame
  <2> QED
    BY <2>1 DEF Rest
<1>3. CASE StopStep
  <2>1. UNCHANGED <<born, edits>> /\ asked' \subseteq asked \cup {stop.run}
    BY <1>3 DEF StopStep, PressStop, LookPhase2, LookNeon, Send, stopFrame
  <2>2. asked' # asked => stop.run \in Runs
    BY <1>3 DEF StopStep, PressStop, LookPhase2, LookNeon, Send, StopInv
  <2>3. faults' = faults \/ \E o \in Outcomes : Charge(o)
    BY <1>3 DEF StopStep, PressStop, LookPhase2, LookNeon, Send, Outcomes
  <2> QED
    BY <2>1, <2>2, <2>3, Bounded DEF Rest
<1>4. CASE PlannerStep
  <2>1. UNCHANGED <<born, asked, faults>>
    BY <1>4 DEF PlannerStep, Generate, ProviderFails, ProviderAnswers, ApplyPlan, BuildManually,
       EditCanvas, DeleteWorkflow, plannerFrame, engineVars
  <2>2. edits' = edits \/ (edits < MaxEdits /\ edits' = edits + 1)
    BY <1>4 DEF PlannerStep, Generate, ProviderFails, ProviderAnswers, ApplyPlan, BuildManually,
       EditCanvas, DeleteWorkflow
  <2> QED
    BY <2>1, <2>2, Bounded DEF Rest
<1>5. CASE Poll \/ \E r \in Runs : Realtime(r)
  <2>1. UNCHANGED <<born, asked, edits>>
    BY <1>5 DEF Poll, Realtime, consoleFrame, engineVars
  <2>2. faults' = faults \/ \E o \in Outcomes : Charge(o)
    BY <1>5 DEF Poll, Realtime, Outcomes
  <2> QED
    BY <2>1, <2>2, Bounded DEF Rest
<1>6. CASE UNCHANGED vars
  BY <1>6 DEF vars, engineVars, Rest
<1> QED
  BY <1>1, <1>2, <1>3, <1>4, <1>5, <1>6, NextCases

(* The variables hold what they stand for, whatever fails and whoever else *)
(* edits and runs the workflow.                                            *)
THEOREM TypeCorrect == Spec => []TypeOK
<1>1. Init => StopInv /\ PopupInv /\ Rest
  BY WebConstants
  DEF Init, Idle, StopInv, StopTyped, PopupInv, PopupTyped, RowsTrue, Remembered, Stores, Ended, Rest
<1>2. Control /\ StopInv /\ PopupInv /\ Rest /\ [Next]_vars => StopInv' /\ PopupInv' /\ Rest'
  BY StopInvStep, PopupStep, RestStep
<1>3. Control /\ StopInv /\ PopupInv /\ Rest => TypeOK
  BY DEF TypeOK, Control, Types, Tabs, StopInv, StopTyped, PopupInv, PopupTyped, Rest
<1> QED
  BY <1>1, <1>2, <1>3, ControlHolds, PTL DEF Spec

=============================================================================
