----------------------------- MODULE WebControl -----------------------------
(***************************************************************************)
(* The web application's control of one workflow: the planner and the      *)
(* canvas, the Run and Stop actions, the immutable versions and run rows   *)
(* they write, the two engines they call, and the run console of one open  *)
(* tab.  Other members of the organization run and edit the same workflow. *)
(* Every call of a store or an engine is a step of its own and may fail    *)
(* before or after it took effect.                                         *)
(***************************************************************************)
EXTENDS Naturals, Sequences, FiniteSets

CONSTANTS
  Runs,               \* run requests, each the run it may become
  Mine,               \* those pressed in this tab
  Graphs,             \* [nodes: ids -> types, edges: pairs of ids]
  Blank,              \* the canvas of a new workflow
  NoGraph,            \* the graph column before the first Run
  Plans,              \* what the provider may answer: graphs, or NoGraph (cannot build)
  Pro,                \* the organization has the Pro plan
  Engines,            \* what EXECUTION_ENGINE may say when a request reads it
  MaxVersionRetries, MaxAttempts,   \* of the code
  MaxEdits, MaxFaults               \* bounds of the model

ASSUME WebConstants ==
  /\ Mine \subseteq Runs /\ IsFiniteSet(Runs)
  /\ Blank \in Graphs /\ NoGraph \notin Graphs
  /\ Plans \subseteq Graphs \cup {NoGraph}
  /\ Pro \in BOOLEAN
  /\ Engines \subseteq {"legacy", "evo"}
  /\ MaxVersionRetries \in Nat \ {0} /\ MaxAttempts \in Nat \ {0}
  /\ MaxEdits \in Nat /\ MaxFaults \in Nat

VARIABLES
  canvas,    \* the Liveblocks document every tab renders
  tab,       \* this tab: its view, the planner's attempt and the plan it holds
  present,   \* present[s]: store s has the workflows row
  saved,     \* the graph column of the Neon row
  versions,  \* versions[s]: the workflow_versions rows of store s
  rows,      \* rows[s][r]: the status of the workflow_runs row of r
  req,       \* runWorkflowAction of each request
  job,       \* what the engine that owns the run makes of it
  ran,       \* the graph its nodes execute
  born,      \* the runs in the order of their createdAt
  stop,      \* cancelWorkflowRunAction of this tab
  asked,     \* runs whose engine was told to cancel
  shown,     \* each run in the console list of this tab
  popup,     \* runTrackingRef, and how often each run's results opened
  edits, faults

storeVars   == <<present, saved, versions, rows>>
engineVars  == <<job, ran, asked>>
consoleVars == <<shown, popup>>
vars == <<canvas, tab, storeVars, req, engineVars, born, stop, consoleVars, edits, faults>>

-----------------------------------------------------------------------------
(* Graphs.                                                                 *)

Ids(g) == DOMAIN g.nodes

Triggers(g) == {n \in Ids(g) : g.nodes[n] = "start"}

Closed(g) == \A e \in g.edges : {e[1], e[2]} \subseteq Ids(g)

\* toposort consumes the edges: every set of their ends has one no edge of the set enters.
Acyclic(edges) ==
  \A S \in SUBSET UNION {{e[1], e[2]} : e \in edges} :
    S # {} => \E n \in S : \A e \in edges : ~(e[1] \in S /\ e[2] = n)

\* validateGraph finds no problem. Edges to nodes that are gone pass.
ValidateGraph(g) ==
  Cardinality(Triggers(g)) = 1 /\ g.edges # {} /\ Acyclic(g.edges)

\* Dag::build and toposort.array also refuse an edge to an unknown node.
EngineAccepts(g) == Closed(g) /\ Acyclic(g.edges)

\* generateWorkflowPlan's rules for a buildable plan.
PlanIsSound(g) ==
  /\ Cardinality(Triggers(g)) = 1
  /\ Closed(g)
  /\ Cardinality(Ids(g)) > 1 => g.edges # {}
  /\ Acyclic(g.edges)

CanConvert(p) == p # NoGraph /\ PlanIsSound(p) /\ ValidateGraph(p)

MayRun(g) == Pro \/ \A n \in Ids(g) : g.nodes[n] # "agent"

-----------------------------------------------------------------------------
(* State.                                                                  *)

Stores == {"neon", "phase2"}

StoreOf(engine) == IF engine = "evo" THEN "phase2" ELSE "neon"

Stages == {"idle", "save", "ensure", "latest", "insert", "reread", "row", "submit",
           "trigger", "record", "done", "failed"}

RowStatus == {"none", "queued", "running", "finished", "canceled"}   \* succeeded or failed

\* A legacy run that crashed for good looks like one that is never tried again.
JobStatus == RowStatus \cup {"retrying"}

Requests ==
  [pc : Stages, from : {"button", "elsewhere"}, graph : Graphs \cup {NoGraph}, engine : {"none", "legacy", "evo"},
   candidate : Nat, tries : 0 .. MaxVersionRetries, version : Nat]

Fresh == [pc |-> "idle", from |-> "elsewhere", graph |-> NoGraph, engine |-> "none",
          candidate |-> 0, tries |-> 0, version |-> 0]

NoRun == "no run"

Idle == [pc |-> "idle", run |-> NoRun, engine |-> "none", blind |-> FALSE]

Shown == {"absent", "live", "ended", "other"}

TypeOK ==
  /\ canvas \in Graphs
  /\ tab \in [view : {"planner", "canvas"}, attempt : 0 .. MaxAttempts,
              plan : Graphs \cup {NoGraph}]
  /\ present \in [Stores -> BOOLEAN]
  /\ saved \in Graphs \cup {NoGraph}
  /\ versions \in [Stores -> SUBSET [number : Nat, graph : Graphs]]
  /\ rows \in [Stores -> [Runs -> RowStatus]]
  /\ req \in [Runs -> Requests]
  /\ job \in [Runs -> JobStatus]
  /\ ran \in [Runs -> Graphs \cup {NoGraph}]
  /\ born \in Seq(Runs)
  /\ stop \in [pc : {"idle", "phase2", "neon", "send"}, run : Runs \cup {NoRun},
               engine : {"none", "legacy", "evo"}, blind : BOOLEAN]
  /\ asked \subseteq Runs
  /\ shown \in [Runs -> Shown]
  /\ popup \in [run : Runs \cup {NoRun}, terminalOnFirstSight : BOOLEAN,
                notified : Runs \cup {NoRun}, opened : [Runs -> Nat]]
  /\ edits \in 0 .. MaxEdits /\ faults \in 0 .. MaxFaults

Init ==
  /\ canvas = Blank
  /\ tab \in [view : {"planner", "canvas"}, attempt : {0}, plan : {NoGraph}]
  /\ present = [s \in Stores |-> s = "neon"]
  /\ saved = NoGraph
  /\ versions = [s \in Stores |-> {}]
  /\ rows = [s \in Stores |-> [r \in Runs |-> "none"]]
  /\ req = [r \in Runs |-> Fresh]
  /\ job = [r \in Runs |-> "none"]
  /\ ran = [r \in Runs |-> NoGraph]
  /\ born = <<>>
  /\ stop = Idle /\ asked = {}
  /\ shown = [r \in Runs |-> "absent"]
  /\ popup = [run |-> NoRun, terminalOnFirstSight |-> FALSE, notified |-> NoRun,
              opened |-> [r \in Runs |-> 0]]
  /\ edits = 0 /\ faults = 0

\* How a call goes: it takes effect and answers, its answer is lost, or it fails.
Outcomes == {"ok", "lost", "refused"}

TakesEffect(o) == o # "refused"

Charge(o) ==
  IF o = "ok" THEN UNCHANGED faults ELSE faults < MaxFaults /\ faults' = faults + 1

-----------------------------------------------------------------------------
(* The list of the console, newest first, and the results popup.           *)

Position(r) == CHOOSE i \in 1 .. Len(born) : born[i] = r

Newest(S) == {r \in S : \A q \in S : Position(q) <= Position(r)}

NotifyAgain(p, latest, list) ==   \* slip: notifiedRunId is not consulted
  LET seen == IF p.run = latest THEN p
              ELSE [p EXCEPT !.run = latest, !.terminalOnFirstSight = list[latest] = "ended"]
  IN  IF ~ seen.terminalOnFirstSight /\ list[latest] = "ended"
      THEN [seen EXCEPT !.notified = latest, !.opened[latest] = @ + 1] ELSE seen

\* The effect of ConsolePanel on the newest entry of a new list.
Notify(p, latest, list) ==
  LET seen == IF p.run = latest THEN p
              ELSE [p EXCEPT !.run = latest, !.terminalOnFirstSight = list[latest] = "ended"]
  IN  IF ~ seen.terminalOnFirstSight /\ list[latest] = "ended" /\ seen.notified # latest
      THEN [seen EXCEPT !.notified = latest, !.opened[latest] = @ + 1] ELSE seen

\* runs[0] of the merged list, if there is one.
LatestRun(list) == Newest({r \in Runs : list[r] # "absent"})

\* It runs in the canvas view, when it mounts and after every change of the list.
Renders(view, list) ==
  popup' = IF view = "planner" \/ LatestRun(list) = {} THEN popup
           ELSE Notify(popup, CHOOSE r \in LatestRun(list) : TRUE, list)

-----------------------------------------------------------------------------
(* The planner and the canvas.                                             *)

plannerFrame == <<storeVars, req, engineVars, born, stop, shown, faults>>

Planning == tab.view = "planner" /\ tab.plan = NoGraph

Generate ==
  /\ Planning /\ tab.attempt = 0
  /\ tab' = [tab EXCEPT !.attempt = 1]
  /\ UNCHANGED <<canvas, popup, edits, plannerFrame>>

\* A retryable failure backs off and calls again; the last one, and any other, gives up.
ProviderFails ==
  /\ Planning /\ tab.attempt > 0
  /\ \E retryable \in BOOLEAN :
       tab' = [tab EXCEPT !.attempt =
                 IF retryable /\ tab.attempt < MaxAttempts THEN tab.attempt + 1 ELSE 0]
  /\ UNCHANGED <<canvas, popup, edits, plannerFrame>>

\* handleGenerate: what it keeps of an answer, to apply it once the room's storage is loaded.
Generated(p) == IF CanConvert(p) THEN p ELSE NoGraph

\* The plan is validated and converted; the tab then awaits the room's storage.
ProviderAnswers ==
  /\ Planning /\ tab.attempt > 0
  /\ \E p \in Plans :
       tab' = [tab EXCEPT !.attempt = 0, !.plan = Generated(p)]
  /\ UNCHANGED <<canvas, popup, edits, plannerFrame>>

\* applyWorkflowGraph clears the room's flow, whatever it holds by now.
ApplyPlan ==
  /\ tab.view = "planner" /\ tab.plan # NoGraph
  /\ canvas' = tab.plan
  /\ tab' = [tab EXCEPT !.view = "canvas", !.plan = NoGraph]
  /\ Renders("canvas", shown)
  /\ UNCHANGED <<edits, plannerFrame>>

BuildManually ==
  /\ Planning /\ tab.attempt = 0
  /\ tab' = [tab EXCEPT !.view = "canvas"]
  /\ Renders("canvas", shown)
  /\ UNCHANGED <<canvas, edits, plannerFrame>>

\* What a burst of edits of any members makes of the shared document: the palette
\* adds nodes, an agent node too while the plan of the organization is not loaded;
\* the inspector writes values; React Flow connects, moves and deletes.
EditCanvas ==
  /\ edits < MaxEdits /\ edits' = edits + 1
  /\ \E g \in Graphs \ {canvas} : canvas' = g
  /\ UNCHANGED <<tab, popup, plannerFrame>>

-----------------------------------------------------------------------------
(* runWorkflowAction.                                                      *)

\* validateGraph in the browser, then the Pro gate of the action.
Submitted(r, from) ==
  /\ req[r].pc = "idle" /\ ValidateGraph(canvas)
  /\ req' = [req EXCEPT ![r].pc = IF MayRun(canvas) THEN "save" ELSE "failed",
                        ![r].from = IF MayRun(canvas) THEN from ELSE "elsewhere",
                        ![r].graph = canvas]
  /\ UNCHANGED <<canvas, tab, storeVars, engineVars, born, stop, consoleVars, edits, faults>>

Live == {r \in Runs : shown[r] = "live"}

\* isPending of RunButton, which serves Run and Stop.
ButtonPending ==
  stop.pc # "idle" \/ \E r \in Runs : req[r].from = "button"

Press(r) ==
  /\ r \in Mine /\ tab.view = "canvas"
  /\ Live = {} /\ ~ ButtonPending
  /\ Submitted(r, "button")

\* Offered beside the results of any run that is not live; looks at no other run.
RunAgain(r) ==
  /\ r \in Mine /\ tab.view = "canvas"
  /\ \E q \in Runs : shown[q] \in {"ended", "other"}
  /\ Submitted(r, "elsewhere")

ColleagueRuns(r) == r \in Runs \ Mine /\ Submitted(r, "elsewhere")

runFrame == <<canvas, tab, stop, asked, ran, consoleVars, edits>>

At(r, stage) == req[r].pc = stage

\* The transition of the button lasts as long as the action.
FromAt(r, stage) == IF stage \in {"done", "failed"} THEN "elsewhere" ELSE req[r].from

Goto(r, stage) ==
  req' = [req EXCEPT ![r].pc = stage, ![r].from = FromAt(r, stage)]

Fails(r) == Goto(r, "failed")

\* saveWorkflowGraph validates once more and throws, or updates the row if there is one.
SaveWorkflowGraph(r, o) ==
  saved' = IF TakesEffect(o) /\ ValidateGraph(req[r].graph) /\ present["neon"]
           THEN req[r].graph ELSE saved

\* The graph is saved; then the engine flag is read.
Save(r) ==
  /\ At(r, "save")
  /\ \E o \in Outcomes, e \in Engines :
       /\ Charge(o)
       /\ SaveWorkflowGraph(r, o)
       /\ IF o # "ok" \/ ~ ValidateGraph(req[r].graph) THEN Fails(r)
          ELSE req' = [req EXCEPT ![r].pc = IF e = "evo" THEN "ensure" ELSE "latest",
                                  ![r].engine = e]
  /\ UNCHANGED <<present, versions, rows, job, born, runFrame>>

\* getWorkflow and ensurePhase2Workflow (evo).
Ensure(r) ==
  /\ At(r, "ensure")
  /\ \E o \in Outcomes :
       /\ Charge(o)
       /\ present' = IF TakesEffect(o) THEN [present EXCEPT !["phase2"] = TRUE] ELSE present
       /\ Goto(r, IF o = "ok" THEN "latest" ELSE "failed")
  /\ UNCHANGED <<saved, versions, rows, job, born, runFrame>>

VersionsFor(r) == versions[StoreOf(req[r].engine)]

IsNewest(v, S) == v \in S /\ \A w \in S : w.number <= v.number

\* The highest number of S as a singleton; 0 when there is none.
HighestIn(S) == IF S = {} THEN {0} ELSE {v.number : v \in {w \in S : IsNewest(w, S)}}

\* createWorkflowVersion returns a version, or throws.
Versioned(r, stage, number) ==
  req' = [req EXCEPT ![r].pc = stage, ![r].from = FromAt(r, stage),
                     ![r].version = number, ![r].candidate = 0, ![r].tries = 0]

HasVersion(r, number) ==
  Versioned(r, IF req[r].engine = "evo" THEN "row" ELSE "trigger", number)

\* Evo fails closed; the legacy run goes on without a version.
NoVersion(r) == Versioned(r, IF req[r].engine = "evo" THEN "failed" ELSE "trigger", 0)

versionFrame == <<saved, present, rows, job, born, runFrame>>

\* The newest version, if it holds this graph: the canonical hashes are equal.
Reusable(r) == {v \in VersionsFor(r) : IsNewest(v, VersionsFor(r)) /\ v.graph = req[r].graph}

\* The newest version is reused or the next number is tried.
ReadLatest(r) ==
  /\ At(r, "latest")
  /\ \E o \in {"ok", "refused"} :
       /\ Charge(o)
       /\ IF o # "ok" THEN NoVersion(r)
          ELSE \/ \E v \in Reusable(r) : HasVersion(r, v.number)
               \/ /\ Reusable(r) = {}
                  /\ \E highest \in HighestIn(VersionsFor(r)) :
                       req' = [req EXCEPT ![r].pc = "insert", ![r].candidate = highest + 1]
  /\ UNCHANGED <<versions, versionFrame>>

Taken(r) == \E v \in VersionsFor(r) : v.number = req[r].candidate

TakesTheWinner(r) ==   \* slip: settles for the version that has the number
  Taken(r) /\ HasVersion(r, req[r].candidate) /\ UNCHANGED <<versions, faults, versionFrame>>

\* The number is taken: unique violation, the winner's maximum is read next.
InsertClashes(r) ==
  /\ Taken(r)
  /\ Goto(r, "reread")
  /\ UNCHANGED <<versions, faults, versionFrame>>

InsertVersion(r) ==
  /\ At(r, "insert")
  /\ \/ InsertClashes(r)
     \/ /\ ~ Taken(r)
        /\ \E o \in Outcomes :
             LET store == StoreOf(req[r].engine)
                 made  == TakesEffect(o) /\ present[store]   \* else the foreign key fails
             IN  /\ Charge(o)
                 /\ versions' =
                      IF made
                      THEN [versions EXCEPT ![store] =
                              @ \cup {[number |-> req[r].candidate, graph |-> req[r].graph]}]
                      ELSE versions
                 /\ IF made /\ o = "ok" THEN HasVersion(r, req[r].candidate) ELSE NoVersion(r)
        /\ UNCHANGED versionFrame

Reread(r) ==
  /\ At(r, "reread")
  /\ \E o \in {"ok", "refused"}, highest \in HighestIn(VersionsFor(r)) :
       LET next == (IF highest > req[r].candidate THEN highest ELSE req[r].candidate) + 1
       IN  /\ Charge(o)
           /\ IF o = "ok" /\ req[r].tries + 1 < MaxVersionRetries
              THEN req' = [req EXCEPT ![r].pc = "insert", ![r].candidate = next,
                                      ![r].tries = @ + 1]
              ELSE NoVersion(r)
  /\ UNCHANGED <<versions, versionFrame>>

\* createWorkflowRunRecord before the submission (evo).
InsertRow(r) ==
  /\ At(r, "row")
  /\ \E o \in Outcomes :
       /\ Charge(o)
       /\ IF TakesEffect(o)
          THEN rows' = [rows EXCEPT !["phase2"][r] = "queued"] /\ born' = Append(born, r)
          ELSE UNCHANGED <<rows, born>>
       /\ Goto(r, IF o = "ok" THEN "submit" ELSE "failed")
  /\ UNCHANGED <<saved, present, versions, job, runFrame>>

\* EvoEngineAdapter.startRun: SubmitRun arrives and the engine's Dag takes the graph.
Accepted(r, o) == TakesEffect(o) /\ EngineAccepts(req[r].graph)

\* A submission that fails leaves the row as it is.
Submit(r) ==
  /\ At(r, "submit")
  /\ \E o \in Outcomes :
       /\ Charge(o)
       /\ job' = IF Accepted(r, o) THEN [job EXCEPT ![r] = "queued"] ELSE job
       /\ Goto(r, IF o = "ok" /\ Accepted(r, o) THEN "done" ELSE "failed")
  /\ UNCHANGED <<saved, present, versions, rows, born, runFrame>>

\* LegacyEngineAdapter.startRun sends the workflow's id, not the graph.
Trigger(r) ==
  /\ At(r, "trigger")
  /\ \E o \in Outcomes :
       /\ Charge(o)
       /\ IF TakesEffect(o)
          THEN job' = [job EXCEPT ![r] = "queued"] /\ born' = Append(born, r)
          ELSE UNCHANGED <<job, born>>
       /\ Goto(r, IF o = "ok" THEN "record" ELSE "failed")
  /\ UNCHANGED <<saved, present, versions, rows, runFrame>>

\* Best effort: the legacy row is written after the trigger, or not at all.
Record(r) ==
  /\ At(r, "record")
  /\ \E o \in Outcomes :
       /\ Charge(o)
       /\ rows' = IF TakesEffect(o) /\ present["neon"]
                  THEN [rows EXCEPT !["neon"][r] = "queued"] ELSE rows
  /\ Goto(r, "done")
  /\ UNCHANGED <<saved, present, versions, job, born, runFrame>>

\* Rows that refer to the workflow keep Postgres from deleting it.
Deletable ==
  present["neon"] /\ versions["neon"] = {} /\ \A r \in Runs : rows["neon"][r] = "none"

\* deleteWorkflowAction, chosen by a member.
DeleteWorkflow ==
  /\ edits < MaxEdits /\ edits' = edits + 1
  /\ Deletable
  /\ present' = [present EXCEPT !["neon"] = FALSE]
  /\ saved' = NoGraph
  /\ UNCHANGED <<canvas, tab, versions, rows, req, engineVars, born, stop, consoleVars,
                 faults>>

-----------------------------------------------------------------------------
(* The engines.                                                            *)

engineFrame == <<canvas, tab, present, saved, versions, req, born, stop, consoleVars, edits,
                 faults>>

OwnerOf(r) == req[r].engine

\* The Evo engine writes every status it reaches to the run row.
Becomes(r, status) ==
  /\ job' = [job EXCEPT ![r] = status]
  /\ rows' = IF OwnerOf(r) = "evo" THEN [rows EXCEPT !["phase2"][r] = status] ELSE rows

\* The workers read the node values from the version the run names.
EvoStarts(r) ==
  /\ OwnerOf(r) = "evo" /\ job[r] = "queued"
  /\ \E v \in versions["phase2"] :
       v.number = req[r].version /\ ran' = [ran EXCEPT ![r] = v.graph]
  /\ Becomes(r, "running")
  /\ UNCHANGED <<asked, engineFrame>>

\* Each attempt loads the graph saved by now; toposort.array throws on an unknown node.
LegacyStarts(r) ==
  /\ OwnerOf(r) = "legacy" /\ job[r] \in {"queued", "retrying"}
  /\ IF saved # NoGraph /\ EngineAccepts(saved)
     THEN Becomes(r, "running") /\ ran' = [ran EXCEPT ![r] = saved]
     ELSE Becomes(r, "finished") /\ UNCHANGED ran
  /\ UNCHANGED <<asked, engineFrame>>

\* Trigger.dev tries a failed legacy attempt again, from the start.
LegacyRetries(r) ==
  /\ OwnerOf(r) = "legacy" /\ job[r] = "running"
  /\ Becomes(r, "retrying")
  /\ UNCHANGED <<ran, asked, engineFrame>>

Unfinished == {"queued", "running", "retrying"}

Ends(r) ==
  /\ \/ job[r] = "running" /\ Becomes(r, "finished")
     \/ job[r] \in Unfinished /\ r \in asked /\ Becomes(r, "canceled")
  /\ asked' = asked \ {r}
  /\ UNCHANGED <<ran, engineFrame>>

-----------------------------------------------------------------------------
(* cancelWorkflowRunAction.                                                *)

stopFrame == <<canvas, tab, storeVars, req, job, ran, born, consoleVars, edits>>

\* The Stop button holds the newest live run of the list.
PressStop ==
  /\ tab.view = "canvas" /\ ~ ButtonPending
  /\ \E r \in Newest(Live) : stop' = [Idle EXCEPT !.pc = "phase2", !.run = r]
  /\ UNCHANGED <<asked, faults, stopFrame>>

RowExists(store, r) == rows[store][r] # "none"

LookWithConfigured ==   \* slip: a run without a row goes to the configured engine
  /\ stop.pc = "phase2"
  /\ \E e \in Engines :
       stop' = [stop EXCEPT !.pc = "send", !.engine = IF RowExists("phase2", stop.run) THEN "evo"
                                                      ELSE e]
  /\ UNCHANGED <<asked, faults, stopFrame>>

\* resolveRunEngine asks the Phase-2 store first; a store that fails is skipped.
LookPhase2 ==
  /\ stop.pc = "phase2"
  /\ \E o \in {"ok", "refused"} :
       /\ Charge(o)
       /\ stop' = IF o = "ok" /\ RowExists("phase2", stop.run)
                  THEN [stop EXCEPT !.pc = "send", !.engine = "evo"]
                  ELSE [stop EXCEPT !.pc = "neon", !.blind = o # "ok"]
  /\ UNCHANGED <<asked, stopFrame>>

\* Neon holds legacy rows only; without one the run is taken for a legacy run.
LookNeon ==
  /\ stop.pc = "neon"
  /\ stop' = [stop EXCEPT !.pc = "send", !.engine = "legacy"]
  /\ UNCHANGED <<asked, faults, stopFrame>>

\* cancelRun of the adapter: an engine that does not know the run answers with an error.
CancelArrives(r, engine, o) ==
  TakesEffect(o) /\ engine = OwnerOf(r) /\ job[r] \in Unfinished

Send ==
  /\ stop.pc = "send"
  /\ \E o \in Outcomes :
       /\ Charge(o)
       /\ asked' = IF CancelArrives(stop.run, stop.engine, o)
                   THEN asked \cup {stop.run} ELSE asked
  /\ stop' = Idle
  /\ UNCHANGED stopFrame

-----------------------------------------------------------------------------
(* The console.                                                            *)

EvoEntry(r) ==
  CASE rows["phase2"][r] = "none"                   -> "absent"
    [] rows["phase2"][r] \in {"queued", "running"}  -> "live"
    [] OTHER                                        -> "ended"

LegacyEntry(r) ==
  CASE job[r] = "none"                                -> "absent"
    [] job[r] \in {"queued", "running"}               -> "live"
    [] job[r] \in {"finished", "canceled"} -> "ended"
    [] OTHER                                          -> "other"

consoleFrame == <<canvas, tab, storeVars, req, engineVars, born, stop, edits>>

\* listEvoRunsForWorkflow answers what the store holds, or nothing when it fails.
ListedEvo(r, o) == IF o = "ok" THEN EvoEntry(r) ELSE "absent"

\* listEvoRunsAction, and the entries the console makes of its answer.
EvoList(r, o) == IF OwnerOf(r) = "evo" THEN ListedEvo(r, o) ELSE shown[r]

\* The provider's polling replaces its list of Evo runs by the answer.
Poll ==
  /\ \E o \in {"ok", "refused"} :
       /\ Charge(o)
       /\ shown' = [r \in Runs |-> EvoList(r, o)]
       /\ Renders(tab.view, shown')
  /\ UNCHANGED consoleFrame

\* The realtime subscription delivers a change of a legacy run, the latest if there were several.
Realtime(r) ==
  /\ OwnerOf(r) = "legacy" /\ LegacyEntry(r) \notin {"absent", shown[r]}
  /\ shown' = [shown EXCEPT ![r] = LegacyEntry(r)]
  /\ Renders(tab.view, shown')
  /\ UNCHANGED <<faults, consoleFrame>>

-----------------------------------------------------------------------------

RunStep(r) ==
  \/ Press(r) \/ RunAgain(r) \/ ColleagueRuns(r)
  \/ Save(r) \/ Ensure(r) \/ ReadLatest(r) \/ InsertVersion(r) \/ Reread(r)
  \/ InsertRow(r) \/ Submit(r) \/ Trigger(r) \/ Record(r)
  \/ EvoStarts(r) \/ LegacyStarts(r) \/ LegacyRetries(r) \/ Ends(r)
  \/ Realtime(r)

PlannerStep ==
  \/ Generate \/ ProviderFails \/ ProviderAnswers \/ ApplyPlan \/ BuildManually
  \/ EditCanvas \/ DeleteWorkflow

StopStep == PressStop \/ LookPhase2 \/ LookNeon \/ Send

Next == (\E r \in Runs : RunStep(r)) \/ PlannerStep \/ StopStep \/ Poll

Spec == Init /\ [][Next]_vars

-----------------------------------------------------------------------------
(* Properties.                                                             *)

\* A run executes a graph somebody approved: an Evo run the very graph of its own request, by
\* way of the version it names, whatever versions are written beside it and whatever the canvas
\* becomes; a legacy run the graph of some request, its own or another's, since each of its attempts
\* loads what was saved last.
RunsApprovedGraph ==
  \A r \in Runs : ran[r] # NoGraph =>
    /\ ValidateGraph(ran[r]) /\ MayRun(ran[r]) /\ EngineAccepts(ran[r])
    /\ OwnerOf(r) = "evo" => ran[r] = req[r].graph
    /\ \E q \in Runs : req[q].graph = ran[r]

\* A cancellation goes to the engine that owns the run, whichever engine new runs are given and
\* however late or incomplete the run rows are, unless the Phase-2 store failed the lookup
\* (resolveRunEngine).
StopReachesOwner ==
  stop.pc = "send" /\ ~ stop.blind => stop.engine = OwnerOf(stop.run)

\* "Each run only ever auto-opens the popup once", and none opens by itself for a run that had
\* not ended, however lists shrink, grow and change order (console-panel.tsx).
PopupOnce ==
  \A r \in Runs : /\ popup.opened[r] <= 1
                  /\ popup.opened[r] = 1 => job[r] \in {"finished", "canceled"}

=============================================================================
