--------------------------- MODULE EventFeedProofs ---------------------------
(***************************************************************************)
(* Proofs, for every set of nodes and any number of retries and faults, of *)
(* what MCEventFeed checks on a run of one node: the types, that a view    *)
(* which says the run is over is right (TerminalIsTrue, SnapshotIsWhole),  *)
(* that what it shows as decided is never taken back (DecidedStepsStay),   *)
(* and that a view which has caught up shows the whole stream (CaughtUp).  *)
(***************************************************************************)
EXTENDS EventFeed, FiniteSetTheorems, WellFoundedInduction, SequenceTheorems, TLAPS

-----------------------------------------------------------------------------
(* The order of a finite set of ids.                                       *)

(* A set of natural numbers that is not empty has a least element.         *)
LEMMA Least ==
  ASSUME NEW S \in SUBSET Nat, S # {}
  PROVE  \E m \in S : \A n \in S : m <= n
<1> DEFINE R == {ss \in Nat \X Nat : ss[1] < ss[2]}
<1>1. IsWellFoundedOn(R, Nat) BY NatLessThanWellFounded DEF OpToRel
<1> HIDE DEF R
<1>2. PICK m \in S : \A n \in S : <<n, m>> \notin R BY <1>1, WFMin, Zenon
<1>3. ASSUME NEW n \in S PROVE m <= n
  <2>1. n \in Nat /\ m \in Nat OBVIOUS
  <2>2. n < m => <<n, m>> \in R BY <2>1 DEF R
  <2>3. QED BY <1>2, <2>1, <2>2
<1>4. QED BY <1>3

(* Every rank up to the size of the set is somebody's: the least rank that *)
(* nobody had would follow one that somebody has.                          *)
LEMMA EveryRank ==
  ASSUME NEW S \in SUBSET Nat, IsFiniteSet(S), NEW k \in 1 .. Cardinality(S)
  PROVE  \E i \in S : Cardinality({j \in S : j <= i}) = k
<1> DEFINE Below(i) == {j \in S : j <= i}
           Bare == {r \in 1 .. Cardinality(S) : \A i \in S : Cardinality(Below(i)) # r}
<1>1. \A i \in S : IsFiniteSet(Below(i)) /\ Cardinality(Below(i)) \in Nat
  BY FS_Subset, FS_CardinalityType
<1>2. Cardinality(S) \in Nat BY FS_CardinalityType
<1>3. SUFFICES ASSUME Bare # {} PROVE FALSE OBVIOUS
<1>4. Bare \in SUBSET Nat OBVIOUS
<1>5. PICK r \in Bare : \A q \in Bare : r <= q BY <1>3, <1>4, Least
<1>6. r \in 1 .. Cardinality(S) /\ r \in Nat /\ \A i \in S : Cardinality(Below(i)) # r BY <1>2
<1>7. CASE r = 1
  <2>1. S # {} BY <1>6, <1>2, FS_EmptySet
  <2>2. PICK m \in S : \A n \in S : m <= n BY <2>1, Least
  <2>3. Below(m) = {m}
    <3>1. \A n \in S : n \in Nat OBVIOUS
    <3>2. ASSUME NEW n \in Below(m) PROVE n = m BY <2>2, <3>1
    <3>3. m \in Below(m) BY <3>1
    <3>4. QED BY <3>2, <3>3
  <2>4. Cardinality(Below(m)) = 1 BY <2>3, FS_Singleton
  <2>5. QED BY <1>6, <1>7, <2>4
<1>8. CASE r # 1
  <2>1. r - 1 \in 1 .. Cardinality(S) /\ r - 1 \notin Bare BY <1>2, <1>5, <1>6, <1>8
  <2>2. PICK i \in S : Cardinality(Below(i)) = r - 1 BY <2>1
  <2>3. S \ Below(i) # {}
    <3>1. SUFFICES ASSUME S \ Below(i) = {} PROVE FALSE OBVIOUS
    <3>2. Below(i) = S BY <3>1
    <3>3. Cardinality(S) = r - 1 BY <2>2, <3>2
    <3>4. QED BY <1>2, <1>6, <3>3
  <2>4. S \ Below(i) \in SUBSET Nat OBVIOUS
  <2>5. PICK m \in S \ Below(i) : \A n \in S \ Below(i) : m <= n BY <2>3, <2>4, Least
  <2>6. Below(m) = Below(i) \cup {m} /\ m \notin Below(i)
    <3>0. \A n \in S : n \in Nat OBVIOUS
    <3>1. m \in S /\ ~ (m <= i) BY <2>5
    <3>2. ASSUME NEW n \in Below(m) PROVE n \in Below(i) \cup {m}
      <4>1. n \in S /\ n <= m BY <3>2
      <4>2. n \in S \ Below(i) => m <= n BY <2>5
      <4>3. QED BY <3>0, <3>1, <4>1, <4>2
    <3>3. ASSUME NEW n \in Below(i) \cup {m} PROVE n \in Below(m)
      BY <3>0, <3>1, <3>3
    <3>4. Below(m) = Below(i) \cup {m} BY <3>2, <3>3
    <3>5. QED BY <3>1, <3>4
  <2>7. Cardinality(Below(m)) = (r - 1) + 1
    <3>1. IsFiniteSet(Below(i)) BY <1>1
    <3> HIDE DEF Below
    <3>2. Cardinality(Below(i) \cup {m}) = Cardinality(Below(i)) + 1 BY <2>6, <3>1, FS_AddElement
    <3>3. QED BY <2>2, <2>6, <3>2
  <2>8. QED BY <1>6, <2>5, <2>7
<1>9. QED BY <1>7, <1>8

(* The k-th id is one of the set, and they come in their order.            *)
LEMMA NthInOrder ==
  ASSUME NEW S \in SUBSET Nat, IsFiniteSet(S)
  PROVE  /\ Cardinality(S) \in Nat
         /\ \A k \in 1 .. Cardinality(S) : Nth(S, k) \in S
         /\ \A k, l \in 1 .. Cardinality(S) : k < l => Nth(S, k) < Nth(S, l)
         /\ S # {} => Cardinality(S) # 0
         /\ \A i \in S : \E k \in 1 .. Cardinality(S) : Nth(S, k) = i
<1> DEFINE Below(i) == {j \in S : j <= i}
           card == Cardinality(S)
<1>1. card \in Nat /\ (S # {} => card # 0) BY FS_CardinalityType, FS_EmptySet
<1>2. \A i \in S : IsFiniteSet(Below(i)) /\ Cardinality(Below(i)) \in Nat
                   /\ Cardinality(Below(i)) <= card
  BY FS_Subset, FS_CardinalityType
<1>3. ASSUME NEW k \in 1 .. card PROVE Nth(S, k) \in S /\ Cardinality(Below(Nth(S, k))) = k
  BY EveryRank DEF Nth
<1>4. ASSUME NEW i \in S, NEW j \in S, i < j
      PROVE  Cardinality(Below(i)) < Cardinality(Below(j))
  <2>0. \A n \in S : n \in Nat OBVIOUS
  <2>1. Below(i) \in SUBSET Below(j)
    <3>1. ASSUME NEW n \in Below(i) PROVE n \in Below(j)
      <4>1. n \in S /\ n <= i BY <3>1
      <4>2. n <= j BY <1>4, <2>0, <4>1
      <4>3. QED BY <4>1, <4>2
    <3>2. QED BY <3>1
  <2>2. j \in Below(j) /\ j \notin Below(i) BY <1>4, <2>0
  <2>3. Cardinality(Below(i)) <= Cardinality(Below(j))
        /\ Cardinality(Below(i)) # Cardinality(Below(j))
    BY <1>2, <2>1, <2>2, FS_Subset
  <2>4. QED BY <1>2, <2>3
<1>5. ASSUME NEW k \in 1 .. card, NEW l \in 1 .. card, k < l PROVE Nth(S, k) < Nth(S, l)
  <2>0. Nth(S, k) \in S /\ Nth(S, l) \in S BY <1>3
  <2>1. Nth(S, k) \in S /\ Nth(S, l) \in S /\ Nth(S, k) \in Nat /\ Nth(S, l) \in Nat BY <2>0
  <2>2. Cardinality(Below(Nth(S, k))) = k /\ Cardinality(Below(Nth(S, l))) = l /\ k # l
    BY <1>1, <1>3, <1>5
  <2> HIDE DEF Below
  <2>3. CASE Nth(S, l) < Nth(S, k)
    <3>1. Cardinality(Below(Nth(S, l))) < Cardinality(Below(Nth(S, k))) BY <1>4, <2>1, <2>3
    <3>2. l < k BY <2>2, <3>1
    <3>3. QED BY <1>1, <1>5, <3>2
  <2>4. Nth(S, k) # Nth(S, l) BY <2>2
  <2>5. QED BY <2>1, <2>3, <2>4
<1>6. ASSUME NEW i \in S PROVE \E k \in 1 .. card : Nth(S, k) = i
  <2> DEFINE k == Cardinality(Below(i))
  <2>1. k \in Nat /\ k <= card BY <1>2
  <2>2. i \in Below(i) OBVIOUS
  <2>3. k # 0 BY <1>2, <2>2, FS_EmptySet
  <2>4. k \in 1 .. card BY <1>1, <2>1, <2>3
  <2>5. Nth(S, k) \in S /\ Cardinality(Below(Nth(S, k))) = k BY <1>3, <2>4
  <2> HIDE DEF k
  <2>6. Nth(S, k) = i
    <3>1. Nth(S, k) \in Nat /\ i \in Nat BY <2>5
    <3>2. Cardinality(Below(Nth(S, k))) = Cardinality(Below(i)) BY <2>5 DEF k
    <3>3. ~ (i < Nth(S, k)) /\ ~ (Nth(S, k) < i)
      <4>1. Cardinality(Below(i)) \in Nat BY <1>2
      <4>2. i < Nth(S, k) => Cardinality(Below(i)) < Cardinality(Below(Nth(S, k)))
        BY <1>4, <2>5
      <4>3. Nth(S, k) < i => Cardinality(Below(Nth(S, k))) < Cardinality(Below(i))
        BY <1>4, <2>5
      <4>4. QED BY <3>2, <4>1, <4>2, <4>3
    <3>4. QED BY <3>1, <3>3
  <2>7. QED BY <2>4, <2>6
<1>7. QED BY <1>1, <1>3, <1>5, <1>6
-----------------------------------------------------------------------------
(* Types.                                                                  *)

Entries == [event : Events, ours : BOOLEAN]

EventFrames == [kind : {"run-event"}, event : Events, id : Nat]

Frames == EventFrames \cup [kind : {"snapshot"}, view : Views]

Conns == [phase : {"none", "replay", "snapshot", "nodes", "tail", "ended"},
          from : Nat, cursor : Nat, seen : RunRows]

Clients == [mode : {"connecting", "open", "closed", "refused"}, lastId : Nat,
            received : BOOLEAN, terminal : BOOLEAN, fold : Views,
            snapshot : Views \cup {NoView}]

RowTypes ==
  /\ runRow \in RunRows /\ nodeRow \in [Nodes -> NodeRows] /\ doomed \subseteq Nodes
  /\ outcome \in {"none", "canceled", "timeout", "stopped"}
  /\ unsent \in Events \cup {NoEvent}
  /\ stream \in Seq(Entries)

FeedTypes ==
  /\ conn \in Conns /\ wire \in Seq(Frames) /\ client \in Clients
  /\ conn.from <= conn.cursor /\ conn.cursor <= Len(stream) /\ client.lastId <= conn.cursor
  /\ \A i \in DOMAIN wire : wire[i].kind = "run-event" => wire[i].id <= conn.cursor

Budgeted == budget \in [retries : Nat, faults : Nat]

Types == RowTypes /\ FeedTypes /\ Budgeted

(* The types used here, which give sequences and records whole, imply      *)
(* TypeOK.                                                                 *)
LEMMA TypesMean == ASSUME Types PROVE TypeOK
<1>1. ASSUME NEW i \in DOMAIN stream
      PROVE  stream[i].event \in Events /\ stream[i].ours \in BOOLEAN
  <2>1. stream[i] \in Entries BY DEF Types, RowTypes
  <2>2. QED BY <2>1 DEF Entries
<1>2. ASSUME NEW i \in DOMAIN wire PROVE Frame(wire[i])
  <2>1. wire[i] \in Frames BY DEF Types, FeedTypes
  <2>2. CASE wire[i] \in EventFrames
    BY <2>2 DEF Types, FeedTypes, RowTypes, Conns, EventFrames, Frame
  <2>3. CASE wire[i] \in [kind : {"snapshot"}, view : Views] BY <2>3 DEF Frame
  <2>4. QED BY <2>1, <2>2, <2>3 DEF Frames
<1>3. QED
  BY <1>1, <1>2 DEF Types, RowTypes, FeedTypes, Budgeted, Conns, Clients, TypeOK

(* What Event builds is an event.                                          *)
LEMMA EventTyped ==
  ASSUME NEW n \in Nodes \cup {NoNode},
         NEW detail \in {"", "succeeded", "failed", "canceled", "timeout", "stopped"},
         NEW kind \in {"run_started", "node_dispatched", "node_succeeded", "node_failed",
                       "node_canceled", "node_retry_scheduled", "node_lease_expired",
                       "node_dead_lettered", "run_finished", "browser_session_opened"}
  PROVE  Event(kind, n, detail) \in Events
  BY DEF Event, Events

(* A fault or a retry is spent from a budget that has one left.            *)
LEMMA SpendTyped ==
  ASSUME Budgeted, Spend("retries") \/ Spend("faults")
  PROVE  Budgeted'
  BY DEF Budgeted, Spend

-----------------------------------------------------------------------------
(* The run: rows first, then their events.                                 *)

(* The rows that an event decides a step by.                               *)
Decided == {"succeeded", "failed", "dead_lettered"}

(* What an event says of a node or of the run is what the row says.        *)
Honest(e) ==
  /\ e.kind = "run_finished" => runRow \in TerminalRuns /\ FinishStatus(e.detail) = runRow
  /\ \A n \in Nodes : e.node = n =>
       /\ e.kind = "node_succeeded" => nodeRow[n] = "succeeded"
       /\ e.kind \in {"node_failed", "node_dead_lettered"}
            => nodeRow[n] \in {"failed", "dead_lettered"}

NothingYet == runRow = "queued" => /\ unsent = NoEvent /\ doomed = {}
                                   /\ \A n \in Nodes : nodeRow[n] = "none"

AllSettled == runRow \in TerminalRuns => /\ doomed = {}
                                         /\ \A n \in Nodes : nodeRow[n] \in TerminalNodes

(* A node is run only after those it follows; so a failure dooms no node   *)
(* that has run.                                                           *)
Gated == \A n \in Nodes : \A m \in Later[n] :
           nodeRow[m] \in {"none", "blocked", "canceled"} \/ nodeRow[n] = "succeeded"

DoomedOpen == \A n \in doomed : nodeRow[n] \notin Decided

StreamHonest ==
  /\ Honest(unsent) /\ (unsent.kind = "run_started" => runRow = "running")
  /\ \A i \in DOMAIN stream : stream[i].ours => Honest(stream[i].event)

(* The run does not start after it has ended.                              *)
StreamOrdered ==
  \A i, j \in DOMAIN stream :
    i < j /\ stream[i].ours /\ stream[j].ours /\ stream[i].event.kind = "run_finished"
      => stream[j].event.kind # "run_started"

RowInv == NothingYet /\ AllSettled /\ Gated /\ DoomedOpen /\ StreamHonest /\ StreamOrdered

(* What is decided stays.                                                  *)
RowsAdvance ==
  /\ runRow \in TerminalRuns => runRow' = runRow
  /\ \A n \in Nodes : nodeRow[n] \in Decided => nodeRow'[n] = nodeRow[n]

(* What is true of an event stays so as the rows advance.                  *)
LEMMA HonestStays == ASSUME NEW e, Honest(e), RowsAdvance PROVE Honest(e)'
  BY DEF Honest, RowsAdvance, Decided

(* Where the stream is not written, it stays honest and ordered.           *)
LEMMA StreamKept ==
  ASSUME RowInv, RowsAdvance, stream' = stream, Honest(unsent)',
         unsent'.kind = "run_started" => runRow' = "running"
  PROVE  StreamHonest' /\ StreamOrdered'
<1>1. ASSUME NEW i \in DOMAIN stream, stream[i].ours PROVE Honest(stream[i].event)'
  <2>1. Honest(stream[i].event) BY <1>1 DEF RowInv, StreamHonest
  <2>2. PICK e : e = stream[i].event OBVIOUS
  <2>3. Honest(e)' BY <2>1, <2>2, HonestStays
  <2>4. stream'[i].event = e BY <2>2
  <2>5. QED BY <2>2, <2>3
<1>2. QED BY <1>1 DEF RowInv, StreamHonest, StreamOrdered

(* A step of the run that writes the row of one node that has not been     *)
(* decided, or none.                                                       *)
LEMMA NodeWritten ==
  ASSUME RowTypes, RowInv, Idle, NEW n \in Nodes, NEW row \in NodeRows, NEW kind,
         WriteNode(n, row, kind), runRow = "running", runRow' = "running",
         nodeRow[n] \notin Decided,
         nodeRow[n] = "canceled" => row = "canceled",
         row \in {"none", "blocked", "canceled"}
           \/ nodeRow[n] \notin {"none", "blocked", "canceled"} \/ Unblocked(n),
         kind \in {"", "node_dispatched", "node_succeeded", "node_failed", "node_canceled",
                   "node_retry_scheduled", "node_lease_expired", "node_dead_lettered"},
         kind = "node_succeeded" => row = "succeeded",
         kind \in {"node_failed", "node_dead_lettered"} => row \in {"failed", "dead_lettered"},
         doomed' \subseteq Nodes, \A m \in doomed' : nodeRow'[m] \notin Decided,
         outcome' \in {"none", "canceled", "timeout", "stopped"}
  PROVE  RowTypes' /\ RowInv' /\ RowsAdvance
<1>1. nodeRow' = [nodeRow EXCEPT ![n] = row] /\ nodeRow' \in [Nodes -> NodeRows]
      /\ nodeRow'[n] = row /\ \A m \in Nodes \ {n} : nodeRow'[m] = nodeRow[m]
  BY DEF WriteNode, RowTypes
<1>2. stream' = stream BY DEF WriteNode, Feedless
<1>3. \/ unsent' = NoEvent /\ kind = ""
      \/ unsent' = Event(kind, n, "") /\ kind # ""
  BY DEF WriteNode
<1>4. unsent' \in Events \cup {NoEvent} BY <1>3, EventTyped
<1>5. RowTypes' BY <1>1, <1>2, <1>4 DEF RowTypes, RunRows
<1>6. RowsAdvance BY <1>1 DEF RowsAdvance, TerminalRuns
<1>7. Honest(unsent)' /\ unsent'.kind # "run_started"
  <2>1. CASE unsent' = NoEvent
    BY <2>1, FeedConstants DEF NoEvent, Event, Honest
  <2>2. CASE unsent' = Event(kind, n, "")
    BY <1>1, <2>2 DEF Event, Honest
  <2>3. QED BY <1>3, <2>1, <2>2
<1>8. StreamHonest' /\ StreamOrdered' BY <1>2, <1>6, <1>7, StreamKept
<1>9. Gated'
  <2>1. ASSUME NEW q \in Nodes, NEW m \in Later[q]
        PROVE  nodeRow'[m] \in {"none", "blocked", "canceled"} \/ nodeRow'[q] = "succeeded"
    <3>1. m \in Nodes BY FeedConstants
    <3>2. nodeRow[m] \in {"none", "blocked", "canceled"} \/ nodeRow[q] = "succeeded"
      BY DEF RowInv, Gated
    <3>3. nodeRow[q] = "succeeded" => nodeRow'[q] = "succeeded"
      BY <1>6 DEF RowsAdvance, Decided
    <3>4. CASE m = n
      <4>1. Unblocked(n) => nodeRow[q] = "succeeded" BY <3>4 DEF Unblocked
      <4>2. QED BY <1>1, <3>2, <3>3, <3>4, <4>1
    <3>5. CASE m # n BY <1>1, <3>1, <3>2, <3>3, <3>5
    <3>6. QED BY <3>4, <3>5
  <2>2. QED BY <2>1 DEF Gated
<1>10. NothingYet' /\ AllSettled' /\ DoomedOpen'
  BY DEF NothingYet, AllSettled, TerminalRuns, DoomedOpen
<1>11. QED BY <1>5, <1>6, <1>8, <1>9, <1>10 DEF RowInv

(* Every step of the run keeps the rows and the stream sound and takes     *)
(* back nothing decided.                                                   *)
LEMMA LoopStep ==
  ASSUME RowTypes, RowInv, Loop
  PROVE  RowTypes' /\ RowInv' /\ RowsAdvance
<1>1. CASE CreateRows
  <2>1. /\ runRow = "queued" /\ unsent = NoEvent /\ doomed = {}
        /\ \A n \in Nodes : nodeRow[n] = "none"
    BY <1>1 DEF CreateRows, RowInv, NothingYet
  <2>2. /\ runRow' = "running" /\ nodeRow' = [n \in Nodes |-> "blocked"]
        /\ unsent' = Event("run_started", NoNode, "")
        /\ UNCHANGED <<doomed, outcome, stream>>
    BY <1>1 DEF CreateRows, Feedless
  <2>3. unsent' \in Events BY <2>2, EventTyped
  <2>4. RowTypes' BY <2>2, <2>3 DEF RowTypes, RunRows, NodeRows
  <2>5. RowsAdvance BY <2>1 DEF RowsAdvance, TerminalRuns, Decided
  <2>6. Honest(unsent)' BY <2>2, FeedConstants DEF Honest, Event
  <2>7. StreamHonest' /\ StreamOrdered' BY <2>2, <2>5, <2>6, StreamKept DEF Event
  <2>8. NothingYet' /\ AllSettled' /\ DoomedOpen'
    BY <2>1, <2>2 DEF NothingYet, AllSettled, TerminalRuns, DoomedOpen
  <2>9. Gated' BY <2>2, FeedConstants DEF Gated
  <2>10. QED BY <2>4, <2>5, <2>7, <2>8, <2>9 DEF RowInv
<1>2. CASE CancelRun
  <2>1. /\ UNCHANGED <<runRow, nodeRow, unsent, stream>> /\ runRow = "running"
        /\ outcome' \in Outcomes
        /\ doomed' = {n \in Nodes : nodeRow[n] \notin TerminalNodes}
    BY <1>2 DEF CancelRun, Feedless, Working
  <2>2. RowTypes' BY <2>1, FeedConstants DEF RowTypes
  <2>3. RowsAdvance BY <2>1 DEF RowsAdvance
  <2>4. Honest(unsent)' /\ (unsent'.kind = "run_started" => runRow' = "running")
    BY <2>1 DEF RowInv, StreamHonest, Honest
  <2>5. StreamHonest' /\ StreamOrdered' BY <2>1, <2>3, <2>4, StreamKept
  <2>6. NothingYet' /\ AllSettled' /\ DoomedOpen' /\ Gated'
    BY <2>1 DEF RowInv, NothingYet, AllSettled, TerminalRuns, DoomedOpen, TerminalNodes, Decided, Gated
  <2>7. QED BY <2>2, <2>3, <2>5, <2>6 DEF RowInv
<1>3. CASE FinishRun
  <2> DEFINE status == IF outcome # "none" THEN "canceled"
                       ELSE IF \A n \in Nodes : nodeRow[n] = "succeeded" THEN "succeeded" ELSE "failed"
             detail == IF outcome # "none" THEN outcome ELSE status
  <2>1. /\ runRow = "running" /\ doomed = {} /\ \A n \in Nodes : nodeRow[n] \in TerminalNodes
        /\ runRow' = status /\ unsent' = Event("run_finished", NoNode, detail)
        /\ UNCHANGED <<nodeRow, doomed, outcome, stream>>
    BY <1>3 DEF FinishRun, Feedless
  <2>2. status \in TerminalRuns /\ FinishStatus(detail) = status
        /\ detail \in {"succeeded", "failed", "canceled", "timeout", "stopped"}
    BY DEF RowTypes, TerminalRuns, FinishStatus
  <2> HIDE DEF status, detail
  <2>3. unsent' \in Events BY <2>1, <2>2, EventTyped
  <2>4. RowTypes' BY <2>1, <2>2, <2>3 DEF RowTypes, RunRows, TerminalRuns
  <2>5. RowsAdvance BY <2>1 DEF RowsAdvance, TerminalRuns
  <2>6. Honest(unsent)' BY <2>1, <2>2, FeedConstants DEF Honest, Event
  <2>7. StreamHonest' /\ StreamOrdered' BY <2>1, <2>5, <2>6, StreamKept DEF Event
  <2>8. NothingYet' /\ AllSettled' /\ DoomedOpen' /\ Gated'
    BY <2>1, <2>2 DEF RowInv, NothingYet, AllSettled, TerminalRuns, DoomedOpen, Gated
  <2>9. QED BY <2>4, <2>5, <2>7, <2>8 DEF RowInv
<1>4. ASSUME NEW e \in Events, NEW ours \in BOOLEAN, Append1(e, ours), unsent' \in {unsent, NoEvent},
             UNCHANGED runVars, ours => Honest(e),
             ours /\ e.kind = "run_started" => runRow = "running"
      PROVE  RowTypes' /\ RowInv' /\ RowsAdvance
  <2> DEFINE entry == [event |-> e, ours |-> ours]
  <2>1. entry \in Entries /\ stream' = Append(stream, entry) BY <1>4 DEF Entries, Append1
  <2>2. /\ UNCHANGED <<runRow, nodeRow, doomed, outcome>> BY <1>4 DEF runVars
  <2>3. RowTypes' BY <1>4, <2>1, <2>2 DEF RowTypes
  <2>4. RowsAdvance BY <2>2 DEF RowsAdvance
  <2>5. \A x : Honest(x)' <=> Honest(x) BY <2>2 DEF Honest
  <2>6. /\ DOMAIN stream' = 1 .. Len(stream) + 1 /\ Len(stream) \in Nat
        /\ stream'[Len(stream) + 1].event = e /\ stream'[Len(stream) + 1].ours = ours
        /\ \A i \in 1 .. Len(stream) : stream'[i] = stream[i]
        /\ DOMAIN stream = 1 .. Len(stream)
    BY <2>1 DEF RowTypes
  <2>7. Honest(NoEvent) BY FeedConstants DEF NoEvent, Event, Honest
  <2>8. Honest(unsent)' /\ (unsent'.kind = "run_started" => runRow' = "running")
    <3>1. CASE unsent' = unsent BY <2>2, <3>1 DEF Honest, RowInv, StreamHonest
    <3>2. CASE unsent' = NoEvent BY <2>2, <2>7, <3>2 DEF Honest, NoEvent, Event
    <3>3. QED BY <1>4, <3>1, <3>2
  <2>9. ASSUME NEW i \in DOMAIN stream', stream'[i].ours PROVE Honest(stream[i].event)'
    <3>1. PICK x : x = stream'[i].event OBVIOUS
    <3>2. CASE i \in 1 .. Len(stream)
      <4>1. Honest(stream[i].event) BY <2>6, <2>9, <3>2 DEF RowInv, StreamHonest
      <4>2. x = stream[i].event BY <2>6, <3>1, <3>2
      <4>3. Honest(x)' BY <2>5, <4>1, <4>2
      <4>4. QED BY <3>1, <4>3
    <3>3. CASE i = Len(stream) + 1
      <4>1. Honest(e) BY <1>4, <2>6, <2>9, <3>3
      <4>2. x = e BY <2>6, <3>1, <3>3
      <4>3. Honest(x)' BY <2>5, <4>1, <4>2
      <4>4. QED BY <3>1, <4>3
    <3>4. QED BY <2>6, <3>2, <3>3
  <2>10. StreamHonest' BY <2>8, <2>9 DEF StreamHonest
  <2>11. StreamOrdered'
    <3>1. ASSUME NEW i \in DOMAIN stream', NEW j \in DOMAIN stream', i < j, stream'[i].ours,
                 stream'[j].ours, stream'[i].event.kind = "run_finished",
                 stream'[j].event.kind = "run_started"
          PROVE  FALSE
      <4>1. i \in 1 .. Len(stream) BY <2>6, <3>1
      <4>2. CASE j \in 1 .. Len(stream) BY <2>6, <3>1, <4>1, <4>2 DEF RowInv, StreamOrdered
      <4>3. CASE j = Len(stream) + 1
        <5>1. Honest(stream[i].event) BY <2>6, <3>1, <4>1 DEF RowInv, StreamHonest
        <5>2. runRow \in TerminalRuns BY <2>6, <3>1, <4>1, <5>1 DEF Honest
        <5>3. runRow = "running" BY <1>4, <2>6, <3>1, <4>3
        <5>4. QED BY <5>2, <5>3 DEF TerminalRuns
      <4>4. QED BY <2>6, <4>2, <4>3
    <3>2. QED BY <3>1 DEF StreamOrdered
  <2>12. NothingYet' /\ AllSettled' /\ DoomedOpen' /\ Gated'
    BY <1>4, <2>2 DEF RowInv, NothingYet, AllSettled, DoomedOpen, Gated
  <2>13. QED BY <2>3, <2>4, <2>10, <2>11, <2>12 DEF RowInv
<1>5. CASE Publish
  <2>1. unsent \in Events /\ unsent' = NoEvent /\ UNCHANGED runVars
    BY <1>5 DEF Publish, Idle, RowTypes
  <2>2. Honest(unsent) /\ (unsent.kind = "run_started" => runRow = "running")
    BY DEF RowInv, StreamHonest
  <2>3. CASE Append1(unsent, TRUE) BY <1>4, <2>1, <2>2, <2>3
  <2>4. CASE UNCHANGED stream
    <3>1. UNCHANGED <<runRow, nodeRow, doomed, outcome>> BY <2>1 DEF runVars
    <3>2. RowTypes' /\ RowsAdvance BY <2>1, <2>4, <3>1 DEF RowTypes, RowsAdvance
    <3>3. Honest(unsent)' /\ unsent'.kind # "run_started"
      BY <2>1, FeedConstants DEF NoEvent, Event, Honest
    <3>4. StreamHonest' /\ StreamOrdered' BY <2>4, <3>2, <3>3, StreamKept
    <3>5. NothingYet' /\ AllSettled' /\ DoomedOpen' /\ Gated'
      BY <2>1, <3>1 DEF RowInv, NothingYet, AllSettled, DoomedOpen, Gated
    <3>6. QED BY <3>2, <3>4, <3>5 DEF RowInv
  <2>5. QED BY <1>5, <2>3, <2>4 DEF Publish
<1>6. CASE Noise
  <2>1. UNCHANGED <<unsent>> /\ UNCHANGED runVars BY <1>6 DEF Noise
  <2>2. CASE Append1(Event("run_started", NoNode, ""), FALSE)
    <3>1. PICK e \in Events : e = Event("run_started", NoNode, "") BY EventTyped
    <3>2. Append1(e, FALSE) BY <2>2, <3>1
    <3>3. QED BY <1>4, <2>1, <3>2
  <2>3. CASE Append1(Event("browser_session_opened", NoNode, ""), TRUE)
    <3>1. PICK e \in Events : e = Event("browser_session_opened", NoNode, "") BY EventTyped
    <3>2. Append1(e, TRUE) BY <2>3, <3>1
    <3>3. Honest(e) /\ e.kind # "run_started" BY <3>1, FeedConstants DEF Event, Honest
    <3>4. QED BY <1>4, <2>1, <3>2, <3>3
  <2>4. QED BY <1>6, <2>2, <2>3 DEF Noise
<1>7. ASSUME NEW n \in Nodes,
             Dispatch(n) \/ Succeed(n) \/ Retry(n) \/ BackoffElapses(n)
      PROVE  RowTypes' /\ RowInv' /\ RowsAdvance
  <2>1. Idle /\ runRow = "running" /\ doomed = {} /\ UNCHANGED <<runRow, doomed, outcome>>
    BY <1>7 DEF Dispatch, Succeed, Retry, BackoffElapses, Working
  <2>2. outcome' \in {"none", "canceled", "timeout", "stopped"} BY <2>1 DEF RowTypes
  <2>3. CASE Dispatch(n)
    BY <2>1, <2>2, <2>3, NodeWritten DEF Dispatch, NodeRows, Decided
  <2>4. CASE Succeed(n)
    BY <2>1, <2>2, <2>4, NodeWritten DEF Succeed, NodeRows, Decided
  <2>5. CASE Retry(n)
    <3>1. PICK row \in {"retry_wait", "ready"}, kind \in {"node_retry_scheduled", "node_lease_expired"} :
            WriteNode(n, row, kind)
      BY <2>5 DEF Retry
    <3>2. nodeRow[n] = "running" BY <2>5 DEF Retry
    <3>3. QED BY <2>1, <2>2, <3>1, <3>2, NodeWritten DEF NodeRows, Decided
  <2>6. CASE BackoffElapses(n)
    BY <2>1, <2>2, <2>6, NodeWritten DEF BackoffElapses, NodeRows, Decided
  <2>7. QED BY <1>7, <2>3, <2>4, <2>5, <2>6
<1>8. ASSUME NEW n \in Nodes, FailNode(n) PROVE RowTypes' /\ RowInv' /\ RowsAdvance
  <2>1. /\ Idle /\ runRow = "running" /\ UNCHANGED <<runRow, outcome>> /\ nodeRow[n] = "running"
        /\ doomed' = Later[n]
    BY <1>8 DEF FailNode, Working
  <2>2. PICK row \in {"failed", "dead_lettered"}, kind \in {"node_failed", "node_dead_lettered"} :
          WriteNode(n, row, kind)
    BY <1>8 DEF FailNode
  <2>3. Later[n] \subseteq Nodes BY FeedConstants
  <2>4. ASSUME NEW m \in Later[n] PROVE nodeRow'[m] \notin Decided
    <3>1. nodeRow[m] \in {"none", "blocked", "canceled"} BY <2>1 DEF RowInv, Gated
    <3>2. m # n BY <2>1, <3>1
    <3>3. nodeRow'[m] = nodeRow[m] BY <2>2, <2>3, <3>2 DEF WriteNode, RowTypes
    <3>4. QED BY <3>1, <3>3 DEF Decided
  <2>5. outcome' \in {"none", "canceled", "timeout", "stopped"} BY <2>1 DEF RowTypes
  <2>6. QED BY <2>1, <2>2, <2>3, <2>4, <2>5, NodeWritten DEF NodeRows, Decided
<1>9. ASSUME NEW n \in Nodes, PersistCanceled(n) PROVE RowTypes' /\ RowInv' /\ RowsAdvance
  <2>1. /\ Idle /\ n \in doomed /\ UNCHANGED <<runRow, outcome>> /\ doomed' = doomed \ {n}
        /\ WriteNode(n, "canceled", "node_canceled")
    BY <1>9 DEF PersistCanceled
  <2>2. runRow = "running"
    BY <2>1 DEF RowTypes, RunRows, RowInv, NothingYet, AllSettled, TerminalRuns
  <2>3. nodeRow[n] \notin Decided BY <2>1 DEF RowInv, DoomedOpen
  <2>4. doomed' \subseteq Nodes BY <2>1 DEF RowTypes
  <2>5. ASSUME NEW m \in doomed' PROVE nodeRow'[m] \notin Decided
    <3>1. nodeRow'[m] = nodeRow[m] BY <2>1, <2>4 DEF WriteNode, RowTypes
    <3>2. QED BY <2>1, <3>1 DEF RowInv, DoomedOpen
  <2>6. outcome' \in {"none", "canceled", "timeout", "stopped"} BY <2>1 DEF RowTypes
  <2>7. QED BY <2>1, <2>2, <2>3, <2>4, <2>5, <2>6, NodeWritten DEF NodeRows
<1>10. QED BY <1>1, <1>2, <1>3, <1>5, <1>6, <1>7, <1>8, <1>9 DEF Loop
-----------------------------------------------------------------------------
(* The view model.                                                         *)

(* A step shown as decided is so in the rows.                              *)
StepTrue(n, step) ==
  /\ step = "done" => nodeRow[n] = "succeeded"
  /\ step = "failed" => nodeRow[n] \in {"failed", "dead_lettered"}

FoldOf(view) ==
  /\ \A n \in Nodes : StepTrue(n, view.steps[n])
  /\ IsTerminal(view) => view.status = runRow

SnapshotTrue(view) ==
  IsTerminal(view) => /\ view.status = runRow
                      /\ \A n \in Nodes : view.steps[n] \in {"done", "failed", "canceled"}

(* One turn of the reducer: a run event writes the status, a node event    *)
(* the step of its node.                                                   *)
LEMMA ReduceEffect ==
  ASSUME NEW view \in Views, NEW e \in Events
  PROVE  /\ Reduce(view, e) \in Views
         /\ \A n \in Nodes : Reduce(view, e).steps[n] =
              IF e.node = n /\ e.kind \notin {"run_started", "run_finished"}
              THEN StepAfter(e.kind, view.steps[n]) ELSE view.steps[n]
         /\ Reduce(view, e).status = CASE e.kind = "run_started" -> "running"
                                       [] e.kind = "run_finished" -> FinishStatus(e.detail)
                                       [] OTHER -> view.status
<1>1. view.steps \in [Nodes -> Steps] /\ view.status \in RunRows /\ e.node \in Nodes \cup {NoNode}
  BY DEF Views, Events
<1>2. NoNode \notin Nodes BY FeedConstants
<1>3. CASE e.kind = "run_started"
  <2>1. Reduce(view, e) = [view EXCEPT !.status = "running"] BY <1>3 DEF Reduce
  <2>2. Reduce(view, e).steps = view.steps /\ Reduce(view, e).status = "running"
    BY <2>1 DEF Views
  <2>3. Reduce(view, e) \in Views BY <1>1, <2>1 DEF Views, RunRows
  <2>4. QED BY <1>3, <2>2, <2>3
<1>4. CASE e.kind = "run_finished"
  <2>1. FinishStatus(e.detail) \in RunRows BY DEF FinishStatus, RunRows
  <2>2. Reduce(view, e) = [view EXCEPT !.status = FinishStatus(e.detail)] BY <1>4 DEF Reduce
  <2>3. Reduce(view, e).steps = view.steps /\ Reduce(view, e).status = FinishStatus(e.detail)
    BY <2>2 DEF Views
  <2>4. Reduce(view, e) \in Views BY <1>1, <2>1, <2>2 DEF Views
  <2>5. QED BY <1>4, <2>3, <2>4
<1>5. CASE e.kind \notin {"run_started", "run_finished"} /\ e.node # NoNode
  <2>1. PICK n \in Nodes : n = e.node BY <1>1, <1>5
  <2>2. StepAfter(e.kind, view.steps[n]) \in Steps BY <1>1 DEF StepAfter, Steps
  <2>3. Reduce(view, e) = [view EXCEPT !.steps[n] = StepAfter(e.kind, @)]
    BY <1>5, <2>1 DEF Reduce
  <2>4. Reduce(view, e).steps = [view.steps EXCEPT ![n] = StepAfter(e.kind, @)]
        /\ Reduce(view, e).status = view.status
    BY <2>3 DEF Views
  <2>5. Reduce(view, e).steps \in [Nodes -> Steps] BY <1>1, <2>2, <2>4
  <2>6. Reduce(view, e) \in Views BY <2>3, <2>5 DEF Views
  <2>7. QED BY <1>1, <1>5, <2>1, <2>4, <2>6
<1>6. CASE e.kind \notin {"run_started", "run_finished"} /\ e.node = NoNode
  BY <1>2, <1>6 DEF Reduce
<1>7. QED BY <1>3, <1>4, <1>5, <1>6

(* An honest event keeps a true fold true, and takes back nothing that is  *)
(* decided; only the start of a run would take back its end.               *)
LEMMA ReduceHonest ==
  ASSUME NEW view \in Views, NEW e \in Events, Honest(e), FoldOf(view)
  PROVE  /\ FoldOf(Reduce(view, e))
         /\ \A n \in Nodes : view.steps[n] \in {"done", "failed"}
              => Reduce(view, e).steps[n] = view.steps[n]
         /\ IsTerminal(view) /\ e.kind # "run_started"
              => Reduce(view, e).status = view.status
         /\ IsTerminal(Reduce(view, e)) => IsTerminal(view) \/ e.kind = "run_finished"
<1> DEFINE after == Reduce(view, e)
<1>1. ASSUME NEW n \in Nodes
      PROVE  /\ StepTrue(n, after.steps[n])
             /\ view.steps[n] \in {"done", "failed"} => after.steps[n] = view.steps[n]
  <2>1. StepTrue(n, view.steps[n]) BY DEF FoldOf
  <2>2. CASE after.steps[n] = view.steps[n] BY <2>1, <2>2
  <2>3. CASE e.node = n /\ after.steps[n] = StepAfter(e.kind, view.steps[n])
    <3>1. /\ e.kind = "node_succeeded" => nodeRow[n] = "succeeded"
          /\ e.kind \in {"node_failed", "node_dead_lettered"}
               => nodeRow[n] \in {"failed", "dead_lettered"}
      BY <2>3 DEF Honest
    <3>2. QED BY <2>1, <2>3, <3>1 DEF StepAfter, StepTrue, Ensured
  <2>4. QED BY <2>2, <2>3, ReduceEffect
<1>2. IsTerminal(after) => after.status = runRow
  BY ReduceEffect DEF IsTerminal, TerminalRuns, Honest, FoldOf
<1>3. IsTerminal(view) /\ e.kind # "run_started" => after.status = view.status
  BY ReduceEffect DEF IsTerminal, Honest, FoldOf
<1>4. IsTerminal(after) => IsTerminal(view) \/ e.kind = "run_finished"
  BY ReduceEffect DEF IsTerminal, TerminalRuns
<1>5. QED BY <1>1, <1>2, <1>3, <1>4 DEF FoldOf

(* The ids of the run's entries after some entry.                          *)
LEMMA OursFinite ==
  ASSUME RowTypes, NEW from \in Nat
  PROVE  OursAfter(from) \in SUBSET Nat /\ IsFiniteSet(OursAfter(from))
<1>1. Len(stream) \in Nat BY DEF RowTypes
<1>2. OursAfter(from) \in SUBSET Nat BY <1>1 DEF OursAfter
<1>3. IsFiniteSet(from + 1 .. Len(stream)) BY <1>1, FS_Interval
<1>4. OursAfter(from) \in SUBSET (from + 1 .. Len(stream)) BY DEF OursAfter
<1>5. QED BY <1>2, <1>3, <1>4, FS_Subset

(* The frames of a replay are the run's entries of the stream, in order.   *)
LEMMA ReplayedFrames ==
  ASSUME RowTypes, NEW from \in Nat
  PROVE  /\ Replayed(from) \in Seq(EventFrames)
         /\ Len(Replayed(from)) = Cardinality(OursAfter(from))
         /\ \A k \in DOMAIN Replayed(from) :
              LET i == Nth(OursAfter(from), k)
              IN  /\ i \in DOMAIN stream /\ stream[i].ours
                  /\ Replayed(from)[k].kind = "run-event"
                  /\ Replayed(from)[k].event = stream[i].event /\ Replayed(from)[k].id = i
         /\ \A k, l \in DOMAIN Replayed(from) :
              k < l => Nth(OursAfter(from), k) < Nth(OursAfter(from), l)
<1> DEFINE ids == OursAfter(from)
<1>1. Len(stream) \in Nat /\ DOMAIN stream = 1 .. Len(stream) BY DEF RowTypes
<1>2. ids \in SUBSET Nat BY OursFinite
<1>3. IsFiniteSet(ids) BY OursFinite
<1>4. /\ Cardinality(ids) \in Nat
      /\ \A k \in 1 .. Cardinality(ids) : Nth(ids, k) \in ids
      /\ \A k, l \in 1 .. Cardinality(ids) : k < l => Nth(ids, k) < Nth(ids, l)
  BY <1>2, <1>3, NthInOrder
<1>5. Replayed(from) = [k \in 1 .. Cardinality(ids) |->
                          EventFrame(stream[Nth(ids, k)].event, Nth(ids, k))]
  BY DEF Replayed
<1>6. \A i \in ids : i \in DOMAIN stream /\ i \in Nat /\ stream[i].ours
  BY <1>1 DEF OursAfter
<1> HIDE DEF ids
<1>7. ASSUME NEW k \in 1 .. Cardinality(ids)
      PROVE  EventFrame(stream[Nth(ids, k)].event, Nth(ids, k)) \in EventFrames
  <2>1. PICK i \in ids : i = Nth(ids, k) BY <1>4
  <2>2. i \in DOMAIN stream /\ i \in Nat BY <1>6
  <2>3. stream[i] \in Entries BY <2>2 DEF RowTypes
  <2>4. stream[i].event \in Events BY <2>3 DEF Entries
  <2>5. QED BY <2>1, <2>2, <2>4 DEF EventFrame, EventFrames
<1>8. Replayed(from) \in Seq(EventFrames)
  <2>1. Replayed(from) \in [1 .. Cardinality(ids) -> EventFrames] BY <1>5, <1>7
  <2>2. QED BY <1>4, <2>1, SeqDef
<1>9. Len(Replayed(from)) = Cardinality(ids) /\ DOMAIN Replayed(from) = 1 .. Cardinality(ids)
  <2>1. DOMAIN Replayed(from) = 1 .. Cardinality(ids) BY <1>5
  <2>2. QED BY <1>4, <1>8, <2>1, LenProperties
<1>10. ASSUME NEW k \in DOMAIN Replayed(from)
       PROVE  LET i == Nth(ids, k)
              IN  /\ i \in DOMAIN stream /\ stream[i].ours
                  /\ Replayed(from)[k].kind = "run-event"
                  /\ Replayed(from)[k].event = stream[i].event /\ Replayed(from)[k].id = i
  <2>1. k \in 1 .. Cardinality(ids) BY <1>9
  <2>2. Nth(ids, k) \in ids BY <1>4, <2>1
  <2>3. Replayed(from)[k] = EventFrame(stream[Nth(ids, k)].event, Nth(ids, k)) BY <1>5, <2>1
  <2>4. QED BY <1>6, <2>2, <2>3 DEF EventFrame
<1>11. QED BY <1>4, <1>8, <1>9, <1>10 DEF ids
-----------------------------------------------------------------------------
(* The connection and the browser.                                         *)

FrameTrue(f) ==
  /\ f.kind = "run-event" => Honest(f.event)
  /\ f.kind = "snapshot" => SnapshotTrue(f.view)

WireTrue == \A i \in DOMAIN wire : FrameTrue(wire[i])

SeenTrue == conn.seen \in TerminalRuns => conn.seen = runRow

Starting(f)  == f.kind = "run-event" /\ f.event.kind = "run_started"
Finishing(f) == f.kind = "run-event" /\ f.event.kind = "run_finished"

(* What is sent starts no run that it has shown ended.                     *)
WireOrdered == \A i, j \in DOMAIN wire : i < j /\ Finishing(wire[i]) => ~ Starting(wire[j])

(* The route sends nothing after the end of the run.                       *)
EndSent == (\E i \in DOMAIN wire : Finishing(wire[i])) => conn.phase = "ended"

(* A browser that shows the run as over will not connect again, and is not *)
(* sent a start any more.                                                  *)
Over ==
  IsTerminal(client.fold) =>
    /\ client.terminal /\ client.mode # "connecting" /\ conn.phase \in {"ended", "none"}
    /\ \A i \in DOMAIN wire : ~ Starting(wire[i])

Quiet == client.mode # "open" => wire = <<>> /\ conn.phase = "none"

FeedInv ==
  /\ WireTrue /\ FoldOf(client.fold) /\ SnapshotTrue(client.snapshot) /\ SeenTrue
  /\ WireOrdered /\ EndSent /\ Over /\ Quiet

(* What is true of the rows stays true as they advance.                    *)
LEMMA ViewsStay ==
  ASSUME NEW v, RowsAdvance
  PROVE  /\ FoldOf(v) => FoldOf(v)'
         /\ SnapshotTrue(v) => SnapshotTrue(v)'
<1>1. \A n \in Nodes : \A step : StepTrue(n, step) => StepTrue(n, step)'
  BY DEF StepTrue, RowsAdvance, Decided
<1>2. IsTerminal(v) <=> IsTerminal(v)' BY DEF IsTerminal
<1>3. IsTerminal(v) /\ v.status = runRow => runRow' = runRow BY DEF IsTerminal, RowsAdvance
<1>4. QED BY <1>1, <1>2, <1>3 DEF FoldOf, SnapshotTrue

(* A frame that is true of the rows stays so as they advance.              *)
LEMMA FrameStays == ASSUME NEW f, FrameTrue(f), RowsAdvance PROVE FrameTrue(f)'
<1>1. PICK e : e = f.event OBVIOUS
<1>2. PICK v : v = f.view OBVIOUS
<1>3. Honest(e) => Honest(e)' BY HonestStays
<1>4. SnapshotTrue(v) => SnapshotTrue(v)' BY ViewsStay
<1>5. QED BY <1>1, <1>2, <1>3, <1>4 DEF FrameTrue

(* A step of the run leaves the connection and the browser as they are.    *)
LEMMA LoopLeavesFeed ==
  ASSUME RowTypes, Budgeted, Loop
  PROVE  Budgeted' /\ UNCHANGED <<conn, wire, client>> /\ Len(stream) <= Len(stream')
<1>1. ASSUME NEW e, NEW ours, Append1(e, ours)
      PROVE  Len(stream) <= Len(stream')
  BY <1>1 DEF Append1, RowTypes
<1>2. Len(stream) \in Nat BY DEF RowTypes
<1>3. CASE CreateRows \/ CancelRun \/ FinishRun
  <2>1. Feedless BY <1>3 DEF CreateRows, CancelRun, FinishRun
  <2>2. UNCHANGED budget BY <1>3 DEF CreateRows, CancelRun, FinishRun
  <2>3. QED BY <1>2, <2>1, <2>2 DEF Feedless, Budgeted
<1>4. CASE Publish \/ Noise
  <2>1. Budgeted' BY <1>4, SpendTyped DEF Publish, Noise, Budgeted
  <2>2. UNCHANGED <<conn, wire, client>> BY <1>4 DEF Publish, Noise
  <2>3. stream' = stream \/ \E e, ours : Append1(e, ours)
    <3>1. CASE Publish BY <3>1 DEF Publish
    <3>2. CASE Noise BY <3>2 DEF Noise
    <3>3. QED BY <1>4, <3>1, <3>2
  <2>4. Len(stream) <= Len(stream') BY <1>1, <1>2, <2>3
  <2>5. QED BY <2>1, <2>2, <2>4
<1>5. ASSUME NEW n \in Nodes,
             \/ Dispatch(n) \/ Succeed(n) \/ FailNode(n) \/ Retry(n)
             \/ BackoffElapses(n) \/ PersistCanceled(n)
      PROVE  Budgeted' /\ UNCHANGED <<conn, wire, client>> /\ Len(stream) <= Len(stream')
  <2>1. Feedless
    BY <1>5 DEF Dispatch, Succeed, FailNode, Retry, BackoffElapses, PersistCanceled, WriteNode
  <2>2. Budgeted'
    BY <1>5, SpendTyped
       DEF Dispatch, Succeed, FailNode, Retry, BackoffElapses, PersistCanceled, Budgeted
  <2>3. QED BY <1>2, <2>1, <2>2 DEF Feedless
<1>6. QED BY <1>3, <1>4, <1>5 DEF Loop

(* A step of the run keeps what the connection and the browser hold.       *)
LEMMA LoopKeepsFeed ==
  ASSUME RowTypes, RowTypes', FeedTypes, FeedInv, RowsAdvance, UNCHANGED <<conn, wire, client>>,
         Len(stream) <= Len(stream')
  PROVE  FeedTypes' /\ FeedInv'
<1>1. FeedTypes'
  <2>1. Len(stream) \in Nat /\ Len(stream') \in Nat /\ conn.cursor \in Nat
    BY DEF RowTypes, FeedTypes, Conns
  <2>2. conn'.cursor <= Len(stream') BY <2>1 DEF FeedTypes
  <2>3. QED BY <2>2 DEF FeedTypes
<1>2. WireTrue'
  <2>1. ASSUME NEW i \in DOMAIN wire' PROVE FrameTrue(wire[i])'
    <3>1. PICK f : f = wire[i] OBVIOUS
    <3>2. FrameTrue(f)' BY <3>1, FrameStays DEF FeedInv, WireTrue
    <3>3. wire'[i] = f BY <3>1
    <3>4. QED BY <3>1, <3>2
  <2>2. QED BY <2>1 DEF WireTrue
<1>3. FoldOf(client.fold)' /\ SnapshotTrue(client.snapshot)'
  <2>1. PICK v : v = client.fold OBVIOUS
  <2>2. PICK s : s = client.snapshot OBVIOUS
  <2>3. FoldOf(v)' /\ SnapshotTrue(s)' BY <2>1, <2>2, ViewsStay DEF FeedInv
  <2>4. QED BY <2>1, <2>2, <2>3
<1>4. SeenTrue' BY DEF FeedInv, SeenTrue, RowsAdvance
<1>5. WireOrdered' /\ EndSent' BY DEF FeedInv, WireOrdered, EndSent, Starting, Finishing
<1>6. Over' /\ Quiet' BY DEF FeedInv, Over, Quiet, IsTerminal, Starting
<1>7. QED BY <1>1, <1>2, <1>3, <1>4, <1>5, <1>6 DEF FeedInv
(* The route and the browser write no row and no event.                    *)
LEMMA RowsStand ==
  ASSUME RowTypes, RowInv, UNCHANGED serverVars
  PROVE  RowTypes' /\ RowInv' /\ RowsAdvance /\ stream' = stream
<1>1. UNCHANGED <<runRow, nodeRow, doomed, outcome, unsent, stream>> BY DEF serverVars, runVars
<1>2. RowTypes' /\ RowsAdvance BY <1>1 DEF RowTypes, RowsAdvance
<1>3. Honest(unsent)' /\ (unsent'.kind = "run_started" => runRow' = "running")
  BY <1>1 DEF RowInv, StreamHonest, Honest
<1>4. StreamHonest' /\ StreamOrdered' BY <1>1, <1>2, <1>3, StreamKept
<1>5. NothingYet' /\ AllSettled' /\ DoomedOpen' /\ Gated'
  BY <1>1 DEF RowInv, NothingYet, AllSettled, DoomedOpen, Gated
<1>6. QED BY <1>1, <1>2, <1>4, <1>5 DEF RowInv

(* The route sends true frames, in an order that starts nothing it has     *)
(* ended, and stops at the end of the run.                                 *)
LEMMA RouteSends ==
  ASSUME RowTypes, RowInv, FeedTypes, FeedInv, UNCHANGED serverVars, client' = client,
         NEW sent \in Seq(Frames), wire' = wire \o sent,
         \A i \in DOMAIN sent : FrameTrue(sent[i]),
         \A i, j \in DOMAIN sent : i < j /\ Finishing(sent[i]) => ~ Starting(sent[j]),
         conn.phase \notin {"ended", "none"}, conn' \in Conns, conn'.phase # "none",
         (\E i \in DOMAIN sent : Finishing(sent[i])) => conn'.phase = "ended",
         conn'.seen \in TerminalRuns => conn'.seen = runRow,
         conn'.from <= conn'.cursor, conn'.cursor <= Len(stream), conn.cursor <= conn'.cursor,
         \A i \in DOMAIN sent : sent[i].kind = "run-event" => sent[i].id <= conn'.cursor
  PROVE  FeedTypes' /\ FeedInv'
<1>1. RowsAdvance /\ stream' = stream /\ runRow' = runRow
  BY RowsStand DEF serverVars, runVars
<1>2. wire \in Seq(Frames) BY DEF FeedTypes
<1> DEFINE n == Len(wire)
<1>3. /\ wire' \in Seq(Frames) /\ n \in Nat /\ Len(sent) \in Nat
      /\ DOMAIN wire = 1 .. n /\ DOMAIN sent = 1 .. Len(sent)
      /\ DOMAIN wire' = 1 .. n + Len(sent)
      /\ \A i \in 1 .. n : wire'[i] = wire[i]
      /\ \A i \in n + 1 .. n + Len(sent) : i - n \in DOMAIN sent /\ wire'[i] = sent[i - n]
  BY <1>2, ConcatProperties, LenProperties
<1>4. conn.cursor \in Nat /\ conn'.cursor \in Nat /\ client.lastId \in Nat
  BY DEF FeedTypes, Conns, Clients
<1>5. ~ IsTerminal(client.fold) /\ \A i \in DOMAIN wire : ~ Finishing(wire[i])
  BY DEF FeedInv, Over, EndSent
<1>6. FeedTypes'
  <2>1. ASSUME NEW i \in DOMAIN wire', wire'[i].kind = "run-event"
        PROVE  wire'[i].id <= conn'.cursor
    <3>1. CASE i \in 1 .. n
      <4>1. wire[i] \in Frames /\ wire[i].kind = "run-event" BY <1>2, <1>3, <2>1, <3>1
      <4>2. wire[i].id \in Nat BY <4>1 DEF Frames, EventFrames
      <4>3. wire[i].id <= conn.cursor BY <1>3, <3>1, <4>1 DEF FeedTypes
      <4>4. QED BY <1>3, <1>4, <3>1, <4>2, <4>3
    <3>2. CASE i \in n + 1 .. n + Len(sent) BY <1>3, <2>1, <3>2
    <3>3. QED BY <1>3, <3>1, <3>2
  <2>2. client'.lastId <= conn'.cursor BY <1>4 DEF FeedTypes
  <2>3. QED BY <1>1, <1>3, <2>1, <2>2 DEF FeedTypes
<1>7. WireTrue'
  <2>1. ASSUME NEW i \in DOMAIN wire' PROVE FrameTrue(wire[i])'
    <3>1. PICK f : f = wire'[i] OBVIOUS
    <3>2. FrameTrue(f)
      <4>1. CASE i \in 1 .. n BY <1>3, <3>1, <4>1 DEF FeedInv, WireTrue
      <4>2. CASE i \in n + 1 .. n + Len(sent) BY <1>3, <3>1, <4>2
      <4>3. QED BY <1>3, <4>1, <4>2
    <3>3. FrameTrue(f)' BY <1>1, <3>2, FrameStays
    <3>4. QED BY <3>1, <3>3
  <2>2. QED BY <2>1 DEF WireTrue
<1>8. FoldOf(client.fold)' /\ SnapshotTrue(client.snapshot)'
  <2>1. PICK v : v = client.fold OBVIOUS
  <2>2. PICK s : s = client.snapshot OBVIOUS
  <2>3. FoldOf(v)' /\ SnapshotTrue(s)' BY <1>1, <2>1, <2>2, ViewsStay DEF FeedInv
  <2>4. QED BY <2>1, <2>2, <2>3
<1>9. SeenTrue' BY <1>1 DEF SeenTrue
<1>10. ASSUME NEW i \in DOMAIN wire', Finishing(wire'[i])
       PROVE  i \in n + 1 .. n + Len(sent) /\ Finishing(sent[i - n]) /\ i - n \in DOMAIN sent
  <2>1. i \notin 1 .. n BY <1>3, <1>5, <1>10
  <2>2. i \in n + 1 .. n + Len(sent) BY <1>3, <2>1
  <2>3. QED BY <1>3, <1>10, <2>2
<1>11. WireOrdered'
  <2>1. ASSUME NEW i \in DOMAIN wire', NEW j \in DOMAIN wire', i < j, Finishing(wire'[i])
        PROVE  ~ Starting(wire'[j])
    <3>1. i \in n + 1 .. n + Len(sent) /\ Finishing(sent[i - n]) /\ i - n \in DOMAIN sent
      BY <1>10, <2>1
    <3>2. j \in n + 1 .. n + Len(sent) BY <1>3, <2>1, <3>1
    <3>3. j - n \in DOMAIN sent /\ wire'[j] = sent[j - n] /\ i - n < j - n
      BY <1>3, <2>1, <3>1, <3>2
    <3>4. QED BY <3>1, <3>3
  <2>2. QED BY <2>1 DEF WireOrdered, Starting, Finishing
<1>12. EndSent' BY <1>10 DEF EndSent, Finishing
<1>13. client.mode = "open" BY DEF FeedInv, Quiet
<1>14. Over' /\ Quiet' BY <1>5, <1>13 DEF Over, Quiet, IsTerminal
<1>15. QED BY <1>6, <1>7, <1>8, <1>9, <1>11, <1>12, <1>14 DEF FeedInv
(* A replay sends the run's entries in order; nothing of it is ended before *)
(* it starts.                                                              *)
LEMMA ReplayStep ==
  ASSUME RowTypes, RowInv, FeedTypes, FeedInv, Replay
  PROVE  FeedTypes' /\ FeedInv'
<1>1. conn \in Conns /\ conn.from \in Nat /\ Len(stream) \in Nat
  BY DEF FeedTypes, Conns, RowTypes
<1>2. PICK sent : sent = Replayed(conn.from) OBVIOUS
<1>3. /\ conn.phase = "replay" /\ wire' = wire \o sent
      /\ conn' = [conn EXCEPT !.cursor = Len(stream),
                              !.phase = IF sent = <<>> THEN "snapshot"
                                        ELSE IF SawTerminal(sent) THEN "ended" ELSE "tail"]
      /\ UNCHANGED serverVars /\ client' = client
  BY <1>2 DEF Replay, Serverless
<1> DEFINE Id(k) == Nth(OursAfter(conn.from), k)
<1>4. /\ sent \in Seq(EventFrames)
      /\ \A k \in DOMAIN sent : /\ Id(k) \in DOMAIN stream /\ stream[Id(k)].ours
                                /\ sent[k].kind = "run-event"
                                /\ sent[k].event = stream[Id(k)].event /\ sent[k].id = Id(k)
      /\ \A k, l \in DOMAIN sent : k < l => Id(k) < Id(l)
  BY <1>1, <1>2, ReplayedFrames
<1> HIDE DEF Id
<1>5. sent \in Seq(Frames)
  <2>1. EventFrames \subseteq Frames BY DEF Frames
  <2>2. Len(sent) \in Nat /\ sent \in [1 .. Len(sent) -> EventFrames] BY <1>4
  <2>3. sent \in [1 .. Len(sent) -> Frames] BY <2>1, <2>2
  <2>4. QED BY <2>2, <2>3, SeqDef
<1>6. ASSUME NEW k \in DOMAIN sent PROVE FrameTrue(sent[k]) /\ sent[k].id <= Len(stream)
  <2>1. Id(k) \in DOMAIN stream /\ stream[Id(k)].ours /\ sent[k].kind = "run-event"
        /\ sent[k].event = stream[Id(k)].event /\ sent[k].id = Id(k)
    BY <1>4
  <2>2. Honest(sent[k].event) BY <2>1 DEF RowInv, StreamHonest
  <2>3. DOMAIN stream = 1 .. Len(stream) BY DEF RowTypes
  <2>4. QED BY <1>1, <2>1, <2>2, <2>3 DEF FrameTrue
<1>7. ASSUME NEW k \in DOMAIN sent, NEW l \in DOMAIN sent, k < l, Finishing(sent[k])
      PROVE  ~ Starting(sent[l])
  <2>1. Id(k) \in DOMAIN stream /\ Id(l) \in DOMAIN stream /\ Id(k) < Id(l) BY <1>4, <1>7
  <2>2. stream[Id(k)].ours /\ stream[Id(l)].ours /\ stream[Id(k)].event.kind = "run_finished"
        /\ sent[l].event = stream[Id(l)].event
    BY <1>4, <1>7 DEF Finishing
  <2>3. QED BY <2>1, <2>2 DEF RowInv, StreamOrdered, Starting
<1>8. (\E k \in DOMAIN sent : Finishing(sent[k])) => conn'.phase = "ended"
  <2>1. ASSUME NEW k \in DOMAIN sent, Finishing(sent[k]) PROVE conn'.phase = "ended"
    <3>1. SawTerminal(sent) BY <2>1 DEF SawTerminal, Finishing
    <3>2. sent # <<>> BY <1>4, <2>1
    <3>3. QED BY <1>1, <1>3, <3>1, <3>2 DEF Conns
  <2>2. QED BY <2>1
<1>9. /\ conn' \in Conns /\ conn'.phase # "none" /\ conn'.seen = conn.seen
      /\ conn'.from = conn.from /\ conn'.cursor = Len(stream)
  BY <1>1, <1>3 DEF Conns
<1>10. conn'.seen \in TerminalRuns => conn'.seen = runRow BY <1>9 DEF FeedInv, SeenTrue
<1>11. conn'.from <= conn'.cursor /\ conn.cursor <= conn'.cursor
  BY <1>1, <1>9 DEF FeedTypes, Conns
<1>12. conn'.cursor <= Len(stream) BY <1>1, <1>9
<1>13. QED BY <1>3, <1>5, <1>6, <1>7, <1>8, <1>9, <1>10, <1>11, <1>12, RouteSends

(* Nothing is sent when the run row is read, nor when the route gives up.  *)
LEMMA SilentStep ==
  ASSUME RowTypes, RowInv, FeedTypes, FeedInv, SnapshotRun \/ GiveUp
  PROVE  FeedTypes' /\ FeedInv'
<1>1. conn \in Conns /\ wire \in Seq(Frames) /\ runRow \in RunRows BY DEF FeedTypes, RowTypes
<1>2. UNCHANGED serverVars /\ client' = client /\ wire' = wire
  BY DEF SnapshotRun, GiveUp, Serverless
<1>3. PICK sent \in Seq(Frames) : sent = <<>> BY EmptySeq
<1>4. wire' = wire \o sent /\ DOMAIN sent = {} BY <1>1, <1>2, <1>3, ConcatEmptySeq
<1>5. /\ conn.phase \notin {"ended", "none"} /\ conn' \in Conns /\ conn'.phase # "none"
      /\ conn'.seen \in {conn.seen, runRow} /\ conn'.from = conn.from /\ conn'.cursor = conn.cursor
  BY <1>1 DEF SnapshotRun, GiveUp, Conns
<1>6. conn'.seen \in TerminalRuns => conn'.seen = runRow BY <1>5 DEF FeedInv, SeenTrue
<1>7. /\ conn'.from <= conn'.cursor /\ conn'.cursor <= Len(stream) /\ conn.cursor <= conn'.cursor
  BY <1>1, <1>5 DEF FeedTypes, Conns
<1>8. QED BY <1>2, <1>4, <1>5, <1>6, <1>7, RouteSends

(* The snapshot is put together from a run row read earlier and the node   *)
(* rows of now: when that row was terminal, every node had settled.        *)
LEMMA SnapshotStep ==
  ASSUME RowTypes, RowInv, FeedTypes, FeedInv, SnapshotNodes
  PROVE  FeedTypes' /\ FeedInv'
<1>1. conn \in Conns /\ wire \in Seq(Frames) /\ Len(stream) \in Nat
  BY DEF FeedTypes, RowTypes
<1>2. /\ conn.phase = "nodes" /\ UNCHANGED serverVars /\ client' = client
      /\ wire' = Append(wire, SnapshotFrame(Snapshot))
      /\ conn' = [conn EXCEPT !.seen = "queued", !.cursor = TailFrom(conn),
                              !.phase = IF IsTerminal(Snapshot) THEN "ended" ELSE "tail"]
  BY DEF SnapshotNodes, Serverless
<1>3. Snapshot \in Views
  <2>1. \A n \in Nodes : StepOfRow(nodeRow[n]) \in Steps BY DEF StepOfRow, Steps
  <2>2. conn.seen \in RunRows BY <1>1 DEF Conns
  <2>3. QED BY <2>1, <2>2 DEF Snapshot, SnapshotOf, Views
<1>4. SnapshotTrue(Snapshot)
  <2>1. Snapshot.status = conn.seen
        /\ \A n \in Nodes : Snapshot.steps[n] = StepOfRow(nodeRow[n])
    BY DEF Snapshot, SnapshotOf
  <2>2. SUFFICES ASSUME IsTerminal(Snapshot)
                 PROVE  /\ Snapshot.status = runRow
                        /\ \A n \in Nodes : Snapshot.steps[n] \in {"done", "failed", "canceled"}
    BY DEF SnapshotTrue
  <2>3. conn.seen = runRow /\ runRow \in TerminalRuns
    BY <2>1, <2>2 DEF IsTerminal, FeedInv, SeenTrue
  <2>4. \A n \in Nodes : nodeRow[n] \in TerminalNodes BY <2>3 DEF RowInv, AllSettled
  <2>5. \A n \in Nodes : StepOfRow(nodeRow[n]) \in {"done", "failed", "canceled"}
    BY <2>4 DEF StepOfRow, TerminalNodes
  <2>6. QED BY <2>1, <2>3, <2>5
<1>5. PICK f : f = SnapshotFrame(Snapshot) OBVIOUS
<1>6. f \in Frames /\ FrameTrue(f) /\ f.kind = "snapshot"
  <2>1. f.kind = "snapshot" /\ f.view = Snapshot BY <1>5 DEF SnapshotFrame
  <2>2. f \in [kind : {"snapshot"}, view : Views] BY <1>3, <1>5 DEF SnapshotFrame
  <2>3. FrameTrue(f) BY <1>4, <2>1 DEF FrameTrue
  <2>4. QED BY <2>1, <2>2, <2>3 DEF Frames
<1>7. PICK sent \in Seq(Frames) : sent = <<f>>
  <2>1. <<f>> \in Seq(Frames) BY <1>6
  <2>2. QED BY <2>1
<1>8. wire' = wire \o sent /\ DOMAIN sent = {1} /\ sent[1] = f
  BY <1>1, <1>2, <1>5, <1>6, <1>7, AppendIsConcat
<1>9. /\ conn' \in Conns /\ conn'.phase # "none" /\ conn'.seen = "queued"
      /\ conn'.from = conn.from /\ conn'.cursor = conn.cursor
  BY <1>1, <1>2 DEF Conns, TailFrom, RunRows
<1>10. /\ conn'.from <= conn'.cursor /\ conn'.cursor <= Len(stream)
       /\ conn.cursor <= conn'.cursor
  BY <1>1, <1>9 DEF FeedTypes, Conns
<1>11. conn'.seen \notin TerminalRuns BY <1>9 DEF TerminalRuns
<1>12. \A i \in DOMAIN sent : ~ Finishing(sent[i]) /\ FrameTrue(sent[i])
                              /\ sent[i].kind # "run-event"
  BY <1>6, <1>8 DEF Finishing
<1>13. QED BY <1>2, <1>8, <1>9, <1>10, <1>11, <1>12, RouteSends

(* The tail sends one entry of the stream, or passes over one of another   *)
(* run.                                                                    *)
LEMMA TailStep ==
  ASSUME RowTypes, RowInv, FeedTypes, FeedInv, TailEntry
  PROVE  FeedTypes' /\ FeedInv'
<1>1. conn \in Conns /\ wire \in Seq(Frames) /\ Len(stream) \in Nat /\ conn.cursor \in Nat
  BY DEF FeedTypes, RowTypes, Conns
<1>2. PICK entry : entry = stream[conn.cursor + 1] OBVIOUS
<1>3. /\ conn.phase = "tail" /\ conn.cursor < Len(stream) /\ UNCHANGED serverVars
      /\ client' = client
      /\ wire' = IF entry.ours THEN Append(wire, EventFrame(entry.event, 0)) ELSE wire
      /\ conn' = [conn EXCEPT !.cursor = @ + 1,
                              !.phase = IF entry.ours /\ entry.event.kind = "run_finished"
                                        THEN "ended" ELSE @]
  BY <1>2 DEF TailEntry, Serverless
<1>4. conn.cursor + 1 \in DOMAIN stream BY <1>1, <1>3 DEF RowTypes
<1>5. entry \in Entries /\ (entry.ours => Honest(entry.event))
  BY <1>2, <1>4 DEF RowTypes, RowInv, StreamHonest
<1>6. /\ conn' \in Conns /\ conn'.phase # "none" /\ conn'.seen = conn.seen
      /\ conn'.from = conn.from /\ conn'.cursor = conn.cursor + 1
      /\ (entry.ours /\ entry.event.kind = "run_finished") => conn'.phase = "ended"
  <2> DEFINE c == [conn EXCEPT !.cursor = @ + 1]
             d == [c EXCEPT !.phase = "ended"]
  <2>1. c \in Conns /\ c.seen = conn.seen /\ c.from = conn.from /\ c.cursor = conn.cursor + 1
        /\ c.phase = "tail"
    BY <1>1, <1>3 DEF Conns
  <2> HIDE DEF c
  <2>2. d \in Conns /\ d.seen = conn.seen /\ d.from = conn.from /\ d.cursor = conn.cursor + 1
        /\ d.phase = "ended"
    BY <2>1 DEF Conns
  <2>3. CASE entry.ours /\ entry.event.kind = "run_finished"
    <3>1. conn' = d BY <1>1, <1>3, <2>3 DEF Conns, c
    <3>2. QED BY <2>2, <3>1
  <2>4. CASE ~ (entry.ours /\ entry.event.kind = "run_finished")
    <3>1. conn' = c BY <1>1, <1>3, <2>4 DEF Conns, c
    <3>2. QED BY <2>1, <2>4, <3>1
  <2>5. QED BY <2>3, <2>4
<1>7. /\ conn'.from <= conn'.cursor /\ conn'.cursor <= Len(stream)
      /\ conn.cursor <= conn'.cursor
  BY <1>1, <1>3, <1>6 DEF FeedTypes, Conns
<1>8. conn'.seen \in TerminalRuns => conn'.seen = runRow BY <1>6 DEF FeedInv, SeenTrue
<1>9. CASE entry.ours
  <2>1. PICK f : f = EventFrame(entry.event, 0) OBVIOUS
  <2>2. /\ f \in Frames /\ FrameTrue(f) /\ f.id = 0
        /\ Finishing(f) <=> entry.event.kind = "run_finished"
    <3>1. entry.event \in Events BY <1>5 DEF Entries
    <3>2. f.kind = "run-event" /\ f.event = entry.event /\ f.id = 0 BY <2>1 DEF EventFrame
    <3>3. f \in EventFrames BY <2>1, <3>1 DEF EventFrame, EventFrames
    <3>4. FrameTrue(f) BY <1>5, <1>9, <3>2 DEF FrameTrue
    <3>5. Finishing(f) <=> entry.event.kind = "run_finished" BY <3>2 DEF Finishing
    <3>6. QED BY <3>2, <3>3, <3>4, <3>5 DEF Frames
  <2>3. PICK sent \in Seq(Frames) : sent = <<f>>
    <3>1. <<f>> \in Seq(Frames) BY <2>2
    <3>2. QED BY <3>1
  <2>4. wire' = wire \o sent /\ DOMAIN sent = {1} /\ sent[1] = f
    BY <1>1, <1>3, <1>9, <2>1, <2>2, <2>3, AppendIsConcat
  <2>5. /\ \A i \in DOMAIN sent : FrameTrue(sent[i])
        /\ \A i, j \in DOMAIN sent : i < j /\ Finishing(sent[i]) => ~ Starting(sent[j])
        /\ (\E i \in DOMAIN sent : Finishing(sent[i])) => conn'.phase = "ended"
        /\ \A i \in DOMAIN sent : sent[i].kind = "run-event" => sent[i].id <= conn'.cursor
    BY <1>1, <1>6, <1>9, <2>2, <2>4
  <2>6. conn.phase \notin {"ended", "none"} BY <1>3
  <2>7. QED BY <1>3, <1>6, <1>7, <1>8, <2>4, <2>5, <2>6, RouteSends
<1>10. CASE ~ entry.ours
  <2>1. PICK sent \in Seq(Frames) : sent = <<>> BY EmptySeq
  <2>2. wire' = wire \o sent /\ DOMAIN sent = {} BY <1>1, <1>3, <1>10, <2>1, ConcatEmptySeq
  <2>3. conn.phase \notin {"ended", "none"} BY <1>3
  <2>4. QED BY <1>3, <1>6, <1>7, <1>8, <2>2, <2>3, RouteSends
<1>11. QED BY <1>9, <1>10
(* A browser that connects, or is refused, has nothing on its way to it    *)
(* and has not seen the run end.                                           *)
LEMMA ConnectStep ==
  ASSUME RowTypes, RowInv, FeedTypes, FeedInv, Connect \/ Refuse
  PROVE  FeedTypes' /\ FeedInv' /\ client'.fold = client.fold
<1>1. /\ client \in Clients /\ conn \in Conns /\ client.lastId \in Nat /\ Len(stream) \in Nat
      /\ conn.cursor \in Nat /\ client.lastId <= conn.cursor /\ conn.cursor <= Len(stream)
  BY DEF FeedTypes, Clients, Conns, RowTypes
<1>2. client.mode = "connecting" /\ UNCHANGED serverVars /\ wire' = wire
  BY DEF Connect, Refuse, Serverless
<1>3. wire = <<>> /\ conn.phase = "none" /\ ~ IsTerminal(client.fold)
  BY <1>2 DEF FeedInv, Quiet, Over
<1>4. /\ client' \in Clients /\ client'.lastId = client.lastId /\ client'.fold = client.fold
      /\ client'.snapshot = client.snapshot
  BY <1>1 DEF Connect, Refuse, Clients
<1>5. /\ conn' \in Conns /\ conn'.from <= conn'.cursor /\ conn'.cursor <= Len(stream)
      /\ client'.lastId <= conn'.cursor /\ conn'.seen \in {conn.seen, "queued"}
      /\ client'.mode = "open" \/ conn'.phase = "none"
  <2>1. CASE Connect
    <3>1. conn' = [phase |-> "replay", from |-> client.lastId, cursor |-> client.lastId,
                   seen |-> "queued"] /\ client'.mode = "open"
      BY <1>1, <2>1 DEF Connect, Disconnected, Clients
    <3>2. conn' \in Conns BY <1>1, <3>1 DEF Conns, RunRows
    <3>3. /\ conn'.from = client.lastId /\ conn'.cursor = client.lastId /\ conn'.seen = "queued"
      BY <3>1
    <3>4. QED BY <1>1, <1>4, <3>1, <3>2, <3>3
  <2>2. CASE Refuse
    <3>1. conn' = conn BY <2>2 DEF Refuse
    <3>2. QED BY <1>1, <1>3, <1>4, <3>1 DEF FeedTypes
  <2>3. QED BY <2>1, <2>2
<1>6. RowsAdvance /\ stream' = stream /\ runRow' = runRow
  BY <1>2, RowsStand DEF serverVars, runVars
<1>7. DOMAIN wire' = {} /\ wire' \in Seq(Frames) BY <1>2, <1>3 DEF FeedTypes
<1>8. FeedTypes' BY <1>4, <1>5, <1>6, <1>7 DEF FeedTypes
<1>9. FoldOf(client.fold)' /\ SnapshotTrue(client.snapshot)'
  <2>1. PICK v : v = client.fold OBVIOUS
  <2>2. PICK s : s = client.snapshot OBVIOUS
  <2>3. FoldOf(v)' /\ SnapshotTrue(s)' BY <1>6, <2>1, <2>2, ViewsStay DEF FeedInv
  <2>4. QED BY <1>4, <2>1, <2>2, <2>3
<1>10. SeenTrue' BY <1>5, <1>6 DEF FeedInv, SeenTrue, TerminalRuns
<1>11. WireTrue' /\ WireOrdered' /\ EndSent' BY <1>7 DEF WireTrue, WireOrdered, EndSent
<1>12. ~ IsTerminal(client'.fold) BY <1>3, <1>4
<1>13. Over' BY <1>12 DEF Over, IsTerminal
<1>14. Quiet' BY <1>2, <1>3, <1>5 DEF Quiet
<1>15. QED BY <1>4, <1>8, <1>9, <1>10, <1>11, <1>13, <1>14 DEF FeedInv

(* A connection that ends, or breaks, leaves nothing on its way; a browser *)
(* that shows the run as over closes for good.                             *)
LEMMA HangUpStep ==
  ASSUME RowTypes, RowInv, FeedTypes, FeedInv, HangUp
  PROVE  FeedTypes' /\ FeedInv' /\ client'.fold = client.fold
<1>1. /\ client \in Clients /\ client.lastId \in Nat /\ Len(stream) \in Nat
      /\ conn.cursor \in Nat /\ client.lastId <= conn.cursor /\ conn.cursor <= Len(stream)
  BY DEF FeedTypes, Clients, Conns, RowTypes
<1>2. /\ client' = [client EXCEPT !.mode = IF client.terminal THEN "closed" ELSE "connecting"]
      /\ conn' = [phase |-> "none", from |-> client.lastId, cursor |-> client.lastId,
                  seen |-> "queued"]
      /\ wire' = <<>> /\ UNCHANGED serverVars
  BY DEF HangUp, OnError, Disconnected, Serverless
<1>3. /\ client' \in Clients /\ client'.lastId = client.lastId /\ client'.fold = client.fold
      /\ client'.snapshot = client.snapshot /\ client'.terminal = client.terminal
      /\ client.terminal => client'.mode = "closed"
  BY <1>1, <1>2 DEF Clients
<1>4. /\ conn' \in Conns /\ conn'.from = client.lastId /\ conn'.cursor = client.lastId
      /\ conn'.seen = "queued" /\ conn'.phase = "none"
  BY <1>1, <1>2 DEF Conns, RunRows
<1>5. RowsAdvance /\ stream' = stream BY <1>2, RowsStand DEF serverVars, runVars
<1>6. DOMAIN wire' = {} /\ wire' \in Seq(Frames) BY <1>2, EmptySeq
<1>7. FeedTypes' BY <1>1, <1>3, <1>4, <1>5, <1>6 DEF FeedTypes
<1>8. FoldOf(client.fold)' /\ SnapshotTrue(client.snapshot)'
  <2>1. PICK v : v = client.fold OBVIOUS
  <2>2. PICK s : s = client.snapshot OBVIOUS
  <2>3. FoldOf(v)' /\ SnapshotTrue(s)' BY <1>5, <2>1, <2>2, ViewsStay DEF FeedInv
  <2>4. QED BY <1>3, <2>1, <2>2, <2>3
<1>9. SeenTrue' BY <1>4 DEF SeenTrue, TerminalRuns
<1>10. WireTrue' /\ WireOrdered' /\ EndSent' BY <1>6 DEF WireTrue, WireOrdered, EndSent
<1>11. Over'
  <2>1. IsTerminal(client'.fold) => client.terminal BY <1>3 DEF FeedInv, Over, IsTerminal
  <2>2. QED BY <1>3, <1>4, <1>6, <2>1 DEF Over, IsTerminal
<1>12. Quiet' BY <1>2, <1>4 DEF Quiet
<1>13. QED BY <1>3, <1>7, <1>8, <1>9, <1>10, <1>11, <1>12 DEF FeedInv

(* The browser takes the first frame: it comes to show nothing false and   *)
(* takes back nothing that it showed as decided.                           *)
LEMMA DeliverStep ==
  ASSUME RowTypes, RowInv, FeedTypes, FeedInv, Deliver
  PROVE  /\ FeedTypes' /\ FeedInv'
         /\ \A n \in Nodes : client.fold.steps[n] \in {"done", "failed"}
              => client'.fold.steps[n] = client.fold.steps[n]
         /\ IsTerminal(client.fold) => client'.fold.status = client.fold.status
<1>1. client \in Clients /\ wire \in Seq(Frames) /\ conn.cursor \in Nat /\ client.fold \in Views
  BY DEF FeedTypes, Clients, Conns
<1>2. PICK f : f = Head(wire) OBVIOUS
<1>3. /\ client.mode = "open" /\ wire # <<>> /\ wire' = Tail(wire) /\ conn' = conn
      /\ client' = IF f.kind = "snapshot" THEN OnSnapshot(client, f) ELSE OnRunEvent(client, f)
      /\ UNCHANGED serverVars
  BY <1>2 DEF Deliver, Serverless
<1>4. /\ wire' \in Seq(Frames) /\ Len(wire) \in Nat /\ DOMAIN wire = 1 .. Len(wire)
      /\ 1 \in DOMAIN wire /\ wire[1] = f /\ f \in Frames
      /\ DOMAIN wire' = 1 .. Len(wire) - 1
      /\ \A i \in DOMAIN wire' : i + 1 \in DOMAIN wire /\ wire'[i] = wire[i + 1]
  BY <1>1, <1>2, <1>3
<1>5. RowsAdvance /\ stream' = stream /\ runRow' = runRow
  BY <1>3, RowsStand DEF serverVars, runVars
<1>6. FrameTrue(f) /\ (f.kind = "run-event" => f.id <= conn.cursor)
  BY <1>4 DEF FeedInv, WireTrue, FeedTypes
<1>7. WireTrue'
  <2>1. ASSUME NEW i \in DOMAIN wire' PROVE FrameTrue(wire[i])'
    <3>1. PICK g : g = wire'[i] OBVIOUS
    <3>2. g = wire[i + 1] /\ i + 1 \in DOMAIN wire BY <1>4, <3>1
    <3>3. FrameTrue(g) BY <3>2 DEF FeedInv, WireTrue
    <3>4. FrameTrue(g)' BY <1>5, <3>3, FrameStays
    <3>5. QED BY <3>1, <3>4
  <2>2. QED BY <2>1 DEF WireTrue
<1>8. WireOrdered'
  <2>1. ASSUME NEW i \in DOMAIN wire', NEW j \in DOMAIN wire', i < j, Finishing(wire'[i])
        PROVE  ~ Starting(wire'[j])
    <3>1. /\ i + 1 \in DOMAIN wire /\ j + 1 \in DOMAIN wire /\ i + 1 < j + 1
          /\ wire'[i] = wire[i + 1] /\ wire'[j] = wire[j + 1]
      BY <1>4, <2>1
    <3>2. QED BY <2>1, <3>1 DEF FeedInv, WireOrdered
  <2>2. QED BY <2>1 DEF WireOrdered, Starting, Finishing
<1>9. (\E i \in DOMAIN wire : Finishing(wire[i])) => conn.phase = "ended"
  BY DEF FeedInv, EndSent
<1>10. EndSent' BY <1>3, <1>4, <1>9 DEF EndSent, Finishing
<1>11. SeenTrue' BY <1>3, <1>5 DEF FeedInv, SeenTrue
<1>12. CASE f.kind = "snapshot"
  <2>1. f.view \in Views BY <1>4, <1>12 DEF Frames, EventFrames
  <2>2. client' = [client EXCEPT !.snapshot = f.view, !.terminal = @ \/ IsTerminal(f.view)]
    BY <1>3, <1>12 DEF OnSnapshot
  <2>3. client.terminal \in BOOLEAN /\ IsTerminal(f.view) \in BOOLEAN
    BY <1>1 DEF Clients, IsTerminal
  <2>4. (client.terminal \/ IsTerminal(f.view)) \in BOOLEAN OBVIOUS
  <2>5. /\ client' \in Clients /\ client'.fold = client.fold /\ client'.snapshot = f.view
        /\ client'.lastId = client.lastId /\ client'.mode = client.mode
    BY <1>1, <2>1, <2>2, <2>4 DEF Clients
  <2>6. client.terminal => client'.terminal BY <1>1, <2>2 DEF Clients
  <2>7. FeedTypes'
    <3>1. ASSUME NEW i \in DOMAIN wire', wire'[i].kind = "run-event"
          PROVE  wire'[i].id <= conn.cursor
      BY <1>4, <3>1 DEF FeedTypes
    <3>2. QED BY <1>3, <1>4, <1>5, <2>5, <3>1 DEF FeedTypes
  <2>8. FoldOf(client.fold)' /\ SnapshotTrue(client.snapshot)'
    <3>1. PICK v : v = client.fold OBVIOUS
    <3>2. PICK s : s = f.view OBVIOUS
    <3>3. SnapshotTrue(s) BY <1>6, <1>12, <3>2 DEF FrameTrue
    <3>4. FoldOf(v)' /\ SnapshotTrue(s)' BY <1>5, <3>1, <3>3, ViewsStay DEF FeedInv
    <3>5. QED BY <2>5, <3>1, <3>2, <3>4
  <2>9. Over'
    <3>1. ASSUME IsTerminal(client.fold), NEW i \in DOMAIN wire' PROVE ~ Starting(wire'[i])
      BY <1>4, <3>1 DEF FeedInv, Over
    <3>2. IsTerminal(client.fold) =>
            client.terminal /\ client.mode # "connecting" /\ conn.phase \in {"ended", "none"}
      BY DEF FeedInv, Over
    <3>3. QED BY <1>3, <2>5, <2>6, <3>1, <3>2 DEF Over, IsTerminal, Starting
  <2>10. Quiet' BY <1>3, <2>5 DEF Quiet
  <2>11. QED BY <1>7, <1>8, <1>10, <1>11, <2>5, <2>7, <2>8, <2>9, <2>10 DEF FeedInv
<1>13. CASE f.kind # "snapshot"
  <2>1. f \in EventFrames /\ f.kind = "run-event" /\ f.event \in Events /\ f.id \in Nat
    BY <1>4, <1>13 DEF Frames, EventFrames
  <2>2. PICK e \in Events : e = f.event BY <2>1
  <2>3. Honest(e) /\ f.id <= conn.cursor BY <1>6, <2>1, <2>2 DEF FrameTrue
  <2>4. client' = [client EXCEPT !.fold = Reduce(@, e), !.received = TRUE,
                                 !.lastId = IF f.id > 0 THEN f.id ELSE @,
                                 !.terminal = @ \/ e.kind = "run_finished"]
    BY <1>3, <1>13, <2>2 DEF OnRunEvent
  <2>5. FoldOf(client.fold) BY DEF FeedInv
  <2>6. /\ Reduce(client.fold, e) \in Views /\ FoldOf(Reduce(client.fold, e))
        /\ \A n \in Nodes : client.fold.steps[n] \in {"done", "failed"}
             => Reduce(client.fold, e).steps[n] = client.fold.steps[n]
        /\ IsTerminal(client.fold) /\ e.kind # "run_started"
             => Reduce(client.fold, e).status = client.fold.status
        /\ IsTerminal(Reduce(client.fold, e)) => IsTerminal(client.fold) \/ e.kind = "run_finished"
    BY <1>1, <2>3, <2>5, ReduceEffect, ReduceHonest
  <2>7. client.lastId \in Nat /\ client.lastId <= conn.cursor BY <1>1 DEF Clients, FeedTypes
  <2>8. /\ client' \in Clients /\ client'.fold = Reduce(client.fold, e)
        /\ client'.snapshot = client.snapshot /\ client'.mode = client.mode
        /\ client'.lastId \in {client.lastId, f.id}
    BY <1>1, <2>1, <2>4, <2>6 DEF Clients
  <2>9. client'.terminal = (client.terminal \/ e.kind = "run_finished") BY <1>1, <2>4 DEF Clients
  <2>10. FeedTypes'
    <3>1. ASSUME NEW i \in DOMAIN wire', wire'[i].kind = "run-event"
          PROVE  wire'[i].id <= conn.cursor
      BY <1>4, <3>1 DEF FeedTypes
    <3>2. client'.lastId <= conn.cursor BY <2>3, <2>7, <2>8
    <3>3. QED BY <1>3, <1>4, <1>5, <2>8, <3>1, <3>2 DEF FeedTypes
  <2>11. FoldOf(client.fold)' /\ SnapshotTrue(client.snapshot)'
    <3>1. PICK v : v = Reduce(client.fold, e) OBVIOUS
    <3>2. PICK s : s = client.snapshot OBVIOUS
    <3>3. FoldOf(v)' /\ SnapshotTrue(s)' BY <1>5, <2>6, <3>1, <3>2, ViewsStay DEF FeedInv
    <3>4. QED BY <2>8, <3>1, <3>2, <3>3
  <2>12. IsTerminal(client.fold) =>
           /\ client.terminal /\ client.mode # "connecting" /\ conn.phase \in {"ended", "none"}
           /\ \A i \in DOMAIN wire : ~ Starting(wire[i])
    BY DEF FeedInv, Over
  <2>13. IsTerminal(client.fold) => e.kind # "run_started"
    BY <1>4, <2>1, <2>2, <2>12 DEF Starting
  <2>14. Over'
    <3>1. SUFFICES ASSUME IsTerminal(Reduce(client.fold, e))
                   PROVE  /\ client'.terminal /\ client'.mode # "connecting"
                          /\ conn'.phase \in {"ended", "none"}
                          /\ \A i \in DOMAIN wire' : ~ Starting(wire'[i])
      BY <2>8 DEF Over, IsTerminal, Starting
    <3>2. CASE IsTerminal(client.fold)
      <4>1. \A i \in DOMAIN wire' : ~ Starting(wire'[i]) BY <1>4, <2>12, <3>2
      <4>2. QED BY <1>3, <2>8, <2>9, <2>12, <3>2, <4>1
    <3>3. CASE e.kind = "run_finished"
      <4>1. Finishing(f) BY <2>1, <2>2, <3>3 DEF Finishing
      <4>2. conn.phase = "ended" BY <1>4, <1>9, <4>1
      <4>3. ASSUME NEW i \in DOMAIN wire' PROVE ~ Starting(wire'[i])
        <5>1. i + 1 \in DOMAIN wire /\ 1 < i + 1 /\ wire'[i] = wire[i + 1] BY <1>4
        <5>2. QED BY <1>4, <4>1, <5>1 DEF FeedInv, WireOrdered
      <4>4. QED BY <1>3, <2>8, <2>9, <3>3, <4>2, <4>3
    <3>4. QED BY <2>6, <3>1, <3>2, <3>3
  <2>15. Quiet' BY <1>3, <2>8 DEF Quiet
  <2>16. /\ \A n \in Nodes : client.fold.steps[n] \in {"done", "failed"}
              => client'.fold.steps[n] = client.fold.steps[n]
         /\ IsTerminal(client.fold) => client'.fold.status = client.fold.status
    BY <2>6, <2>8, <2>13
  <2>17. QED
    BY <1>7, <1>8, <1>10, <1>11, <2>10, <2>11, <2>14, <2>15, <2>16 DEF FeedInv
<1>14. QED BY <1>12, <1>13
-----------------------------------------------------------------------------
(* What the stream tells of a node or of the run.                          *)

(* The kinds that say that a node runs, or will again, or has failed.      *)
Begins == {"node_dispatched", "node_retry_scheduled"}
Fails  == {"node_failed", "node_dead_lettered"}

(* The node of any event.                                                  *)
Anyone == Nodes \cup {NoNode}

(* Entry i says one of these kinds of one of these nodes.                  *)
Says(i, kinds, ns) ==
  stream[i].ours /\ stream[i].event.kind \in kinds /\ stream[i].event.node \in ns

(* An entry up to p says so; some entry does.                              *)
Told(p, kinds, ns) == \E i \in DOMAIN stream : i <= p /\ Says(i, kinds, ns)
Ever(kinds, ns)    == \E i \in DOMAIN stream : Says(i, kinds, ns)

(* A node said to be canceled is so in the rows; one that is said to begin *)
(* is not when that is written.  So the stream, which is written by one    *)
(* loop, says of no node that it begins after it has said it canceled.     *)
CancelTrue(e) == e.kind = "node_canceled" => \A n \in Nodes : e.node = n => nodeRow[n] = "canceled"
BeginTrue(e)  == e.kind \in Begins => \A n \in Nodes : e.node = n => nodeRow[n] # "canceled"

CancelLast ==
  \A i, j \in DOMAIN stream : \A n \in Nodes :
    i < j /\ Says(i, {"node_canceled"}, {n}) => ~ Says(j, Begins, {n})

CancelInv ==
  /\ CancelTrue(unsent) /\ BeginTrue(unsent)
  /\ \A i \in DOMAIN stream : stream[i].ours => CancelTrue(stream[i].event)
  /\ CancelLast

(* A row that is canceled stays so.                                        *)
CanceledStay == \A n \in Nodes : nodeRow[n] = "canceled" => nodeRow'[n] = "canceled"

(* Where the stream is not written, only the next event counts.            *)
LEMMA CancelKept ==
  ASSUME CancelInv, CanceledStay, stream' = stream, CancelTrue(unsent)', BeginTrue(unsent)'
  PROVE  CancelInv'
<1>1. ASSUME NEW i \in DOMAIN stream', stream'[i].ours PROVE CancelTrue(stream[i].event)'
  <2>1. PICK e : e = stream[i].event OBVIOUS
  <2>2. CancelTrue(e) BY <1>1, <2>1 DEF CancelInv
  <2>3. CancelTrue(e)' BY <2>2 DEF CancelTrue, CanceledStay
  <2>4. QED BY <2>1, <2>3
<1>2. CancelLast' BY DEF CancelInv, CancelLast, Says
<1>3. QED BY <1>1, <1>2 DEF CancelInv

(* The row of one node is written.                                         *)
LEMMA CancelWritten ==
  ASSUME RowTypes, CancelInv, NEW n \in Nodes, NEW row \in NodeRows, NEW kind,
         WriteNode(n, row, kind), nodeRow[n] = "canceled" => row = "canceled",
         kind = "node_canceled" => row = "canceled", kind \in Begins => row # "canceled"
  PROVE  CancelInv'
<1>1. nodeRow'[n] = row /\ \A m \in Nodes \ {n} : nodeRow'[m] = nodeRow[m]
  BY DEF WriteNode, RowTypes
<1>2. stream' = stream /\ unsent' \in {NoEvent, Event(kind, n, "")} BY DEF WriteNode, Feedless
<1>3. CancelTrue(unsent)' /\ BeginTrue(unsent)'
  <2>1. CASE unsent' = NoEvent BY <2>1 DEF CancelTrue, BeginTrue, Begins, NoEvent, Event
  <2>2. CASE unsent' = Event(kind, n, "")
    BY <1>1, <2>2 DEF CancelTrue, BeginTrue, Begins, Event
  <2>3. QED BY <1>2, <2>1, <2>2
<1>4. CanceledStay BY <1>1 DEF CanceledStay
<1>5. QED BY <1>2, <1>3, <1>4, CancelKept

(* An entry is added to the stream: another run's, or one that is true.    *)
LEMMA CancelAppended ==
  ASSUME RowTypes, CancelInv, NEW e \in Events, NEW ours \in BOOLEAN, Append1(e, ours),
         UNCHANGED runVars, unsent' \in {unsent, NoEvent},
         ours => CancelTrue(e) /\ BeginTrue(e)
  PROVE  CancelInv'
<1>1. nodeRow' = nodeRow BY DEF runVars
<1>2. /\ DOMAIN stream' = 1 .. Len(stream) + 1 /\ Len(stream) \in Nat
      /\ DOMAIN stream = 1 .. Len(stream)
      /\ stream'[Len(stream) + 1] = [event |-> e, ours |-> ours]
      /\ \A i \in DOMAIN stream : stream'[i] = stream[i]
  BY DEF RowTypes, Append1
<1>3. CancelTrue(unsent)' /\ BeginTrue(unsent)'
  <2>1. CASE unsent' = NoEvent BY <2>1 DEF CancelTrue, BeginTrue, Begins, NoEvent, Event
  <2>2. CASE unsent' = unsent BY <1>1, <2>2 DEF CancelInv, CancelTrue, BeginTrue
  <2>3. QED BY <2>1, <2>2
<1>4. ASSUME NEW i \in DOMAIN stream', stream'[i].ours PROVE CancelTrue(stream[i].event)'
  <2>1. PICK x : x = stream'[i].event OBVIOUS
  <2>2. CancelTrue(x)
    <3>1. CASE i \in DOMAIN stream BY <1>2, <1>4, <2>1, <3>1 DEF CancelInv
    <3>2. CASE i = Len(stream) + 1 BY <1>2, <1>4, <2>1, <3>2
    <3>3. QED BY <1>2, <3>1, <3>2
  <2>3. CancelTrue(x)' BY <1>1, <2>2 DEF CancelTrue
  <2>4. QED BY <2>1, <2>3
<1>5. ASSUME NEW i \in DOMAIN stream', NEW j \in DOMAIN stream', NEW n \in Nodes, i < j,
             Says(i, {"node_canceled"}, {n})', Says(j, Begins, {n})'
      PROVE  FALSE
  <2>1. i \in DOMAIN stream /\ Says(i, {"node_canceled"}, {n}) BY <1>2, <1>5 DEF Says
  <2>2. CASE j \in DOMAIN stream
    <3>1. Says(j, Begins, {n}) BY <1>2, <1>5, <2>2 DEF Says
    <3>2. QED BY <1>5, <2>1, <2>2, <3>1 DEF CancelInv, CancelLast
  <2>3. CASE j = Len(stream) + 1
    <3>1. nodeRow[n] = "canceled" BY <2>1 DEF CancelInv, CancelTrue, Says
    <3>2. ours /\ e.kind \in Begins /\ e.node = n BY <1>2, <1>5, <2>3 DEF Says
    <3>3. QED BY <3>1, <3>2 DEF BeginTrue
  <2>4. QED BY <1>2, <2>2, <2>3
<1>6. CancelLast' BY <1>5 DEF CancelLast
<1>7. QED BY <1>3, <1>4, <1>6 DEF CancelInv

(* Every step of the run keeps the cancellations last.                     *)
LEMMA CancelStep == ASSUME RowTypes, RowInv, CancelInv, Loop PROVE CancelInv'
<1>1. CASE CreateRows
  <2>1. \A n \in Nodes : nodeRow[n] = "none" BY <1>1 DEF CreateRows, RowInv, NothingYet
  <2>2. unsent' = Event("run_started", NoNode, "") /\ stream' = stream
    BY <1>1 DEF CreateRows, Feedless
  <2>3. QED BY <2>1, <2>2, CancelKept
             DEF CanceledStay, CancelTrue, BeginTrue, Begins, Event
<1>2. CASE CancelRun
  BY <1>2, CancelKept DEF CancelRun, Feedless, CanceledStay, CancelInv, CancelTrue, BeginTrue
<1>3. CASE FinishRun
  <2>1. PICK detail : unsent' = Event("run_finished", NoNode, detail) BY <1>3 DEF FinishRun
  <2>2. nodeRow' = nodeRow /\ stream' = stream BY <1>3 DEF FinishRun, Feedless
  <2>3. QED BY <2>1, <2>2, CancelKept
             DEF CanceledStay, CancelTrue, BeginTrue, Begins, Event
<1>4. CASE Publish
  <2>1. unsent \in Events /\ unsent' = NoEvent /\ UNCHANGED runVars
    BY <1>4 DEF Publish, Idle, RowTypes
  <2>2. CancelTrue(unsent) /\ BeginTrue(unsent) BY DEF CancelInv
  <2>3. CASE Append1(unsent, TRUE) BY <2>1, <2>2, <2>3, CancelAppended
  <2>4. CASE UNCHANGED stream
    BY <2>1, <2>4, CancelKept
       DEF runVars, CanceledStay, CancelTrue, BeginTrue, Begins, NoEvent, Event
  <2>5. QED BY <1>4, <2>3, <2>4 DEF Publish
<1>5. CASE Noise
  <2>1. unsent' = unsent /\ UNCHANGED runVars BY <1>5 DEF Noise
  <2>2. PICK e \in Events, ours \in BOOLEAN :
          Append1(e, ours) /\ e.kind \in {"run_started", "browser_session_opened"}
    <3>1. Event("run_started", NoNode, "") \in Events
          /\ Event("browser_session_opened", NoNode, "") \in Events
      BY EventTyped
    <3>2. Event("run_started", NoNode, "").kind = "run_started"
          /\ Event("browser_session_opened", NoNode, "").kind = "browser_session_opened"
      BY DEF Event
    <3>3. QED BY <1>5, <3>1, <3>2 DEF Noise
  <2>3. CancelTrue(e) /\ BeginTrue(e) BY <2>2 DEF CancelTrue, BeginTrue, Begins
  <2>4. QED BY <2>1, <2>2, <2>3, CancelAppended
<1>6. ASSUME NEW n \in Nodes,
             \/ Dispatch(n) \/ Succeed(n) \/ FailNode(n) \/ Retry(n)
             \/ BackoffElapses(n) \/ PersistCanceled(n)
      PROVE  CancelInv'
  <2>1. \E row \in NodeRows : \E kind :
          /\ WriteNode(n, row, kind)
          /\ nodeRow[n] = "canceled" => row = "canceled"
          /\ kind = "node_canceled" => row = "canceled"
          /\ kind \in Begins => row # "canceled"
    <3>1. CASE Dispatch(n) BY <3>1 DEF Dispatch, NodeRows, Begins
    <3>2. CASE Succeed(n) BY <3>2 DEF Succeed, NodeRows, Begins
    <3>3. CASE FailNode(n) BY <3>3 DEF FailNode, NodeRows, Begins
    <3>4. CASE Retry(n) BY <3>4 DEF Retry, NodeRows, Begins
    <3>5. CASE BackoffElapses(n) BY <3>5 DEF BackoffElapses, NodeRows, Begins
    <3>6. CASE PersistCanceled(n) BY <3>6 DEF PersistCanceled, NodeRows, Begins
    <3>7. QED BY <1>6, <3>1, <3>2, <3>3, <3>4, <3>5, <3>6
  <2>2. QED BY <2>1, CancelWritten
<1>7. QED BY <1>1, <1>2, <1>3, <1>4, <1>5, <1>6 DEF Loop
-----------------------------------------------------------------------------
(* A view that has seen the stream up to some entry.                       *)

(* What the first p entries tell of the node shows in its step, and what   *)
(* the step shows some entry tells.  A view that is replayed goes back to  *)
(* an earlier p: what it shows from later entries it does not lose, except *)
(* a cancellation, which is told again.                                    *)
StepSeen(n, step, p) ==
  /\ step # "pending"
  /\ Told(p, {"node_succeeded"}, {n}) => step = "done"
  /\ Told(p, Fails, {n}) => step = "failed"
  /\ Told(p, {"node_canceled"}, {n}) => step = "canceled"
  /\ Told(p, Begins, {n}) => step # "absent"
  /\ step = "done" => Ever({"node_succeeded"}, {n})
  /\ step = "failed" => Ever(Fails, {n})
  /\ step = "canceled" => Ever({"node_canceled"}, {n})
  /\ step = "running" => Ever(Begins, {n})

RunSeen(status, p) ==
  /\ Told(p, {"run_finished"}, Anyone) => status = runRow
  /\ Told(p, {"run_started"}, Anyone) => status # "queued"
  /\ status \in TerminalRuns => Ever({"run_finished"}, Anyone)
  /\ status = "running" => Ever({"run_started"}, Anyone)

Seen(view, p) == RunSeen(view.status, p) /\ \A n \in Nodes : StepSeen(n, view.steps[n], p)

(* None of the run's entries lies after q and before r.                    *)
Gap(q, r) == \A i \in DOMAIN stream : q < i /\ i < r => ~ stream[i].ours

(* A node is said to succeed, to fail or to be canceled, and only one of   *)
(* them.                                                                   *)
LEMMA OneFate ==
  ASSUME RowInv, CancelInv, NEW n \in Nodes
  PROVE  /\ ~ (Ever({"node_succeeded"}, {n}) /\ Ever(Fails, {n}))
         /\ ~ (Ever({"node_succeeded"}, {n}) /\ Ever({"node_canceled"}, {n}))
         /\ ~ (Ever(Fails, {n}) /\ Ever({"node_canceled"}, {n}))
<1>1. ASSUME Ever({"node_succeeded"}, {n}) PROVE nodeRow[n] = "succeeded"
  BY <1>1 DEF Ever, Says, RowInv, StreamHonest, Honest
<1>2. ASSUME Ever(Fails, {n}) PROVE nodeRow[n] \in {"failed", "dead_lettered"}
  BY <1>2 DEF Ever, Says, Fails, RowInv, StreamHonest, Honest
<1>3. ASSUME Ever({"node_canceled"}, {n}) PROVE nodeRow[n] = "canceled"
  BY <1>3 DEF Ever, Says, CancelInv, CancelTrue
<1>4. QED BY <1>1, <1>2, <1>3

(* What is told up to p is told, and told up to any later p.               *)
LEMMA ToldMore ==
  ASSUME RowTypes, NEW q \in Int, NEW p \in Int, q <= p, NEW kinds, NEW ns, Told(q, kinds, ns)
  PROVE  Told(p, kinds, ns) /\ Ever(kinds, ns)
<1>1. PICK i \in DOMAIN stream : i <= q /\ Says(i, kinds, ns) BY DEF Told
<1>2. i \in Int BY DEF RowTypes
<1>3. i <= p BY <1>1, <1>2
<1>4. QED BY <1>1, <1>3 DEF Told, Ever

(* Past a gap, only the entry at its end tells anything more.              *)
LEMMA ToldNext ==
  ASSUME RowTypes, NEW q \in Nat, NEW r \in Nat, q < r, Gap(q, r), NEW kinds, NEW ns,
         Told(r, kinds, ns)
  PROVE  Told(q, kinds, ns) \/ (r \in DOMAIN stream /\ Says(r, kinds, ns))
<1>1. PICK i \in DOMAIN stream : i <= r /\ Says(i, kinds, ns) BY DEF Told
<1>2. i \in Int BY DEF RowTypes
<1>3. ~ (q < i /\ i < r) BY <1>1 DEF Gap, Says
<1>4. i <= q \/ i = r BY <1>1, <1>2, <1>3
<1>5. QED BY <1>1, <1>4 DEF Told

(* A view that goes back to an earlier entry has seen what comes before.   *)
LEMMA SeenBack ==
  ASSUME RowTypes, NEW q \in Nat, NEW p \in Nat, q <= p, NEW view, Seen(view, p)
  PROVE  Seen(view, q)
<1>1. \A kinds, ns : Told(q, kinds, ns) => Told(p, kinds, ns) BY ToldMore
<1>2. RunSeen(view.status, q) BY <1>1 DEF Seen, RunSeen
<1>3. ASSUME NEW n \in Nodes PROVE StepSeen(n, view.steps[n], q)
  <2>1. StepSeen(n, view.steps[n], p) BY DEF Seen
  <2>2. QED BY <1>1, <2>1 DEF StepSeen
<1>4. QED BY <1>2, <1>3 DEF Seen

(* Entries of other runs add nothing.                                      *)
LEMMA SeenPast ==
  ASSUME RowTypes, NEW q \in Nat, NEW p \in Nat, q <= p, NEW view, Seen(view, q),
         \A i \in DOMAIN stream : q < i /\ i <= p => ~ stream[i].ours
  PROVE  Seen(view, p)
<1>1. ASSUME NEW kinds, NEW ns, Told(p, kinds, ns) PROVE Told(q, kinds, ns)
  <2>1. PICK i \in DOMAIN stream : i <= p /\ Says(i, kinds, ns) BY <1>1 DEF Told
  <2>2. i \in Int BY DEF RowTypes
  <2>3. i <= q BY <2>1, <2>2 DEF Says
  <2>4. QED BY <2>1, <2>3 DEF Told
<1>2. RunSeen(view.status, p) BY <1>1 DEF Seen, RunSeen
<1>3. ASSUME NEW n \in Nodes PROVE StepSeen(n, view.steps[n], p)
  <2>1. StepSeen(n, view.steps[n], q) BY DEF Seen
  <2>2. QED BY <1>1, <2>1 DEF StepSeen
<1>4. QED BY <1>2, <1>3 DEF Seen

(* The run's next entry, reduced into the view.                            *)
LEMMA SeenTaken ==
  ASSUME RowTypes, RowInv, CancelInv, NEW q \in Nat, NEW r \in DOMAIN stream, q < r, Gap(q, r),
         stream[r].ours, NEW view \in Views, Seen(view, q)
  PROVE  Reduce(view, stream[r].event) \in Views /\ Seen(Reduce(view, stream[r].event), r)
<1> DEFINE e == stream[r].event
           after == Reduce(view, e)
<1>1. r \in Nat /\ e \in Events
  <2>1. stream[r] \in Entries /\ r \in Nat BY DEF RowTypes
  <2>2. QED BY <2>1 DEF Entries
<1>2. e.node \in Anyone BY <1>1 DEF Events, Anyone
<1>3. \A kinds, ns : Told(r, kinds, ns) => Told(q, kinds, ns) \/ Says(r, kinds, ns)
  BY <1>1, ToldNext
<1>4. \A kinds, ns : Told(r, kinds, ns) => Ever(kinds, ns) BY <1>1, ToldMore
<1>5. \A kinds, ns : Says(r, kinds, ns) <=> e.kind \in kinds /\ e.node \in ns BY DEF Says
<1>6. \A kinds, ns : Says(r, kinds, ns) => Ever(kinds, ns) BY DEF Ever
<1>7. /\ after \in Views
      /\ \A n \in Nodes : after.steps[n] =
           IF e.node = n /\ e.kind \notin {"run_started", "run_finished"}
           THEN StepAfter(e.kind, view.steps[n]) ELSE view.steps[n]
      /\ after.status = CASE e.kind = "run_started" -> "running"
                          [] e.kind = "run_finished" -> FinishStatus(e.detail)
                          [] OTHER -> view.status
  BY <1>1, ReduceEffect
<1>8. ASSUME NEW n \in Nodes PROVE StepSeen(n, after.steps[n], r)
  <2>1. StepSeen(n, view.steps[n], q) BY DEF Seen
  <2>2. view.steps[n] \in Steps BY DEF Views
  <2>3. /\ ~ (Ever({"node_succeeded"}, {n}) /\ Ever(Fails, {n}))
        /\ ~ (Ever({"node_succeeded"}, {n}) /\ Ever({"node_canceled"}, {n}))
        /\ ~ (Ever(Fails, {n}) /\ Ever({"node_canceled"}, {n}))
    BY OneFate
  <2>4. Told(q, {"node_canceled"}, {n}) => ~ Says(r, Begins, {n})
    <3>1. ASSUME NEW i \in DOMAIN stream, i <= q, Says(i, {"node_canceled"}, {n})
          PROVE  ~ Says(r, Begins, {n})
      <4>1. i \in Nat BY DEF RowTypes
      <4>2. i < r BY <1>1, <3>1, <4>1
      <4>3. QED BY <3>1, <4>2 DEF CancelInv, CancelLast
    <3>2. QED BY <3>1 DEF Told
  <2> HIDE DEF e, after
  <2>5. CASE e.node = n /\ e.kind \notin {"run_started", "run_finished"}
    <3>1. after.steps[n] = StepAfter(e.kind, view.steps[n]) BY <1>7, <2>5
    <3>2. CASE e.kind = "node_succeeded"
      BY <1>3, <1>4, <1>5, <1>6, <2>1, <2>3, <2>5, <3>1, <3>2 DEF StepSeen, StepAfter, Fails, Begins
    <3>3. CASE e.kind \in Fails
      BY <1>3, <1>4, <1>5, <1>6, <2>1, <2>3, <2>5, <3>1, <3>3 DEF StepSeen, StepAfter, Fails, Begins
    <3>4. CASE e.kind = "node_canceled"
      BY <1>3, <1>4, <1>5, <1>6, <2>1, <2>3, <2>5, <3>1, <3>4 DEF StepSeen, StepAfter, Fails, Begins
    <3>5. CASE e.kind \in Begins
      BY <1>3, <1>4, <1>5, <1>6, <2>1, <2>2, <2>3, <2>4, <2>5, <3>1, <3>5
         DEF StepSeen, StepAfter, Ensured, Fails, Begins, Steps
    <3>6. CASE e.kind \notin {"node_succeeded", "node_canceled"} \cup Fails \cup Begins
      <4>1. after.steps[n] = view.steps[n] BY <3>1, <3>6 DEF StepAfter, Fails, Begins
      <4>2. QED BY <1>3, <1>5, <2>1, <3>6, <4>1 DEF StepSeen
    <3>7. QED BY <3>2, <3>3, <3>4, <3>5, <3>6
  <2>6. CASE ~ (e.node = n /\ e.kind \notin {"run_started", "run_finished"})
    <3>1. after.steps[n] = view.steps[n] BY <1>7, <2>6
    <3>2. \A kinds : "run_started" \notin kinds /\ "run_finished" \notin kinds
                       => ~ Says(r, kinds, {n})
      BY <1>5, <2>6
    <3>3. QED BY <1>3, <2>1, <3>1, <3>2 DEF StepSeen, Fails, Begins
  <2>7. QED BY <2>5, <2>6
<1>9. RunSeen(after.status, r)
  <2>1. RunSeen(view.status, q) BY DEF Seen
  <2>2. e.kind = "run_finished" => runRow \in TerminalRuns /\ FinishStatus(e.detail) = runRow
    BY DEF RowInv, StreamHonest, Honest
  <2>3. Told(q, {"run_finished"}, Anyone) => e.kind # "run_started"
    <3>1. ASSUME NEW i \in DOMAIN stream, i <= q, Says(i, {"run_finished"}, Anyone)
          PROVE  e.kind # "run_started"
      <4>1. i \in Nat BY DEF RowTypes
      <4>2. i < r BY <1>1, <3>1, <4>1
      <4>3. QED BY <3>1, <4>2 DEF RowInv, StreamOrdered, Says
    <3>2. QED BY <3>1 DEF Told
  <2> HIDE DEF e, after
  <2>4. CASE e.kind = "run_started"
    BY <1>2, <1>3, <1>5, <1>6, <1>7, <2>1, <2>3, <2>4 DEF RunSeen, TerminalRuns
  <2>5. CASE e.kind = "run_finished"
    BY <1>2, <1>3, <1>5, <1>6, <1>7, <2>1, <2>2, <2>5 DEF RunSeen, TerminalRuns
  <2>6. CASE e.kind \notin {"run_started", "run_finished"}
    BY <1>3, <1>5, <1>7, <2>1, <2>6 DEF RunSeen
  <2>7. QED BY <2>4, <2>5, <2>6
<1>10. QED BY <1>7, <1>8, <1>9 DEF Seen

(* Two views that have seen the whole stream are the same.                 *)
LEMMA SeenWhole ==
  ASSUME RowTypes, RowInv, CancelInv, NEW v \in Views, NEW w \in Views,
         Seen(v, Len(stream)), Seen(w, Len(stream))
  PROVE  v = w
<1>1. \A kinds, ns : Ever(kinds, ns) => Told(Len(stream), kinds, ns)
  BY DEF RowTypes, Ever, Told
<1>2. ASSUME NEW n \in Nodes PROVE v.steps[n] = w.steps[n]
  <2>1. StepSeen(n, v.steps[n], Len(stream)) /\ StepSeen(n, w.steps[n], Len(stream)) BY DEF Seen
  <2>2. v.steps[n] \in Steps /\ w.steps[n] \in Steps BY DEF Views
  <2>3. QED BY <1>1, <2>1, <2>2 DEF StepSeen, Steps
<1>3. v.status = w.status
  <2>1. RunSeen(v.status, Len(stream)) /\ RunSeen(w.status, Len(stream)) BY DEF Seen
  <2>2. v.status \in RunRows /\ w.status \in RunRows BY DEF Views
  <2>3. QED BY <1>1, <2>1, <2>2 DEF RunSeen, RunRows, TerminalRuns
<1>4. v.steps = w.steps BY <1>2 DEF Views
<1>5. QED BY <1>3, <1>4 DEF Views

(* Before the first entry there is nothing to show.                        *)
LEMMA BlankSeen == ASSUME RowTypes PROVE BlankView \in Views /\ Seen(BlankView, 0)
<1>1. BlankView \in Views BY DEF BlankView, Views, RunRows, Steps
<1>2. \A kinds, ns : ~ Told(0, kinds, ns) BY DEF RowTypes, Told
<1>3. QED BY <1>1, <1>2 DEF BlankView, Seen, StepSeen, RunSeen, TerminalRuns
-----------------------------------------------------------------------------
(* The fold of the stream, which FoldUpTo defines by recursion: it exists, *)
(* and has seen the stream.                                                *)

(* The k-th turn of the fold, from the turns before it.                    *)
Turn(f, k) == IF k = 0 THEN BlankView
              ELSE IF stream[k].ours THEN Reduce(f[k - 1], stream[k].event) ELSE f[k - 1]

(* Any number of turns can be taken: the least number that could not would *)
(* be one more than a number that can.                                     *)
LEMMA TurnsTaken ==
  ASSUME RowTypes, NEW m \in 0 .. Len(stream)
  PROVE  \E f : DOMAIN f = 0 .. m /\ \A k \in 0 .. m : f[k] = Turn(f, k)
<1> DEFINE Some(l) == \E f : DOMAIN f = 0 .. l /\ \A k \in 0 .. l : f[k] = Turn(f, k)
           Bad == {l \in 0 .. Len(stream) : ~ Some(l)}
<1>1. Len(stream) \in Nat BY DEF RowTypes
<1>2. SUFFICES ASSUME Bad # {} PROVE FALSE OBVIOUS
<1>3. Bad \in SUBSET Nat BY <1>1
<1>4. PICK l \in Bad : \A j \in Bad : l <= j BY <1>2, <1>3, Least
<1>5. l \in 0 .. Len(stream) /\ l \in Nat /\ ~ Some(l) BY <1>1, <1>4
<1>6. CASE l = 0
  <2>1. PICK f : f = [k \in 0 .. 0 |-> BlankView] OBVIOUS
  <2>2. DOMAIN f = 0 .. 0 /\ \A k \in 0 .. 0 : f[k] = Turn(f, k) BY <2>1 DEF Turn
  <2>3. QED BY <1>5, <1>6, <2>2
<1>7. CASE l # 0
  <2>1. l - 1 \in 0 .. Len(stream) /\ l - 1 \notin Bad BY <1>1, <1>4, <1>5, <1>7
  <2>2. PICK f : DOMAIN f = 0 .. l - 1 /\ \A k \in 0 .. l - 1 : f[k] = Turn(f, k) BY <2>1
  <2>3. PICK g : g = [k \in 0 .. l |-> IF k = l THEN Turn(f, l) ELSE f[k]] OBVIOUS
  <2>4. ASSUME NEW k \in 0 .. l PROVE g[k] = Turn(g, k)
    <3>1. k # 0 => k - 1 \in 0 .. l - 1 /\ k - 1 \in 0 .. l /\ k - 1 # l BY <1>5
    <3>2. k # 0 => g[k - 1] = f[k - 1] BY <2>3, <3>1
    <3>3. Turn(g, k) = Turn(f, k) BY <3>2 DEF Turn
    <3>4. CASE k = l BY <2>3, <3>3, <3>4
    <3>5. CASE k # l
      <4>1. k \in 0 .. l - 1 BY <1>5, <3>5
      <4>2. g[k] = f[k] BY <2>3, <3>5
      <4>3. QED BY <2>2, <3>3, <4>1, <4>2
    <3>6. QED BY <3>4, <3>5
  <2>5. DOMAIN g = 0 .. l BY <2>3
  <2>6. QED BY <1>5, <2>4, <2>5
<1>8. QED BY <1>6, <1>7

(* So FoldUpTo is what its definition says.                                *)
LEMMA FoldIsTurns ==
  ASSUME RowTypes
  PROVE  \A k \in 0 .. Len(stream) : FoldUpTo[k] = Turn(FoldUpTo, k)
<1> DEFINE Def(f) == f = [k \in 0 .. Len(stream) |->
                            IF k = 0 THEN BlankView
                            ELSE IF stream[k].ours THEN Reduce(f[k - 1], stream[k].event)
                                 ELSE f[k - 1]]
<1>1. Len(stream) \in 0 .. Len(stream) BY DEF RowTypes
<1>2. PICK f : /\ DOMAIN f = 0 .. Len(stream)
               /\ \A k \in 0 .. Len(stream) : f[k] = Turn(f, k)
  BY <1>1, TurnsTaken
<1>3. PICK g : g = [k \in 0 .. Len(stream) |-> f[k]] OBVIOUS
<1>4. \A k \in 0 .. Len(stream) : g[k] = Turn(g, k)
  <2>1. ASSUME NEW k \in 0 .. Len(stream) PROVE g[k] = Turn(g, k)
    <3>1. k # 0 => k - 1 \in 0 .. Len(stream) BY <1>1
    <3>2. k # 0 => g[k - 1] = f[k - 1] BY <1>3, <3>1
    <3>3. Turn(g, k) = Turn(f, k) BY <3>2 DEF Turn
    <3>4. QED BY <1>2, <1>3, <3>3
  <2>2. QED BY <2>1
<1>5. Def(g) BY <1>3, <1>4 DEF Turn
<1>6. FoldUpTo = CHOOSE h : Def(h) BY DEF FoldUpTo
<1> HIDE DEF Def
<1>7. Def(FoldUpTo) BY <1>5, <1>6, Zenon
<1>8. QED BY <1>7 DEF Def, Turn

(* Each turn has seen the stream up to its entry; the whole fold, all of   *)
(* it.                                                                     *)
LEMMA FoldSeen ==
  ASSUME RowTypes, RowInv, CancelInv
  PROVE  FoldOfStream \in Views /\ Seen(FoldOfStream, Len(stream))
<1> DEFINE Fine(k) == FoldUpTo[k] \in Views /\ Seen(FoldUpTo[k], k)
           Bad == {k \in 0 .. Len(stream) : ~ Fine(k)}
<1>1. Len(stream) \in Nat /\ DOMAIN stream = 1 .. Len(stream) BY DEF RowTypes
<1>2. Bad = {}
  <2>1. SUFFICES ASSUME Bad # {} PROVE FALSE OBVIOUS
  <2>2. Bad \in SUBSET Nat BY <1>1
  <2>3. PICK l \in Bad : \A j \in Bad : l <= j BY <2>1, <2>2, Least
  <2>4. l \in 0 .. Len(stream) /\ l \in Nat /\ ~ Fine(l) BY <1>1, <2>3
  <2>5. FoldUpTo[l] = Turn(FoldUpTo, l) BY <2>4, FoldIsTurns
  <2>6. CASE l = 0 BY <2>4, <2>5, <2>6, BlankSeen DEF Turn
  <2>7. CASE l # 0
    <3>1. l - 1 \in 0 .. Len(stream) /\ l - 1 \notin Bad /\ l \in DOMAIN stream
      BY <1>1, <2>3, <2>4, <2>7
    <3>2. PICK view \in Views : view = FoldUpTo[l - 1] /\ Seen(view, l - 1) BY <3>1
    <3>3. l - 1 \in Nat /\ l - 1 < l BY <2>4, <3>1
    <3>4. CASE stream[l].ours
      <4>1. Gap(l - 1, l) BY <1>1, <2>4 DEF Gap
      <4>2. Reduce(view, stream[l].event) \in Views
            /\ Seen(Reduce(view, stream[l].event), l)
        BY <3>1, <3>2, <3>3, <3>4, <4>1, SeenTaken
      <4>3. FoldUpTo[l] = Reduce(view, stream[l].event) BY <2>5, <2>7, <3>2, <3>4 DEF Turn
      <4>4. QED BY <2>4, <4>2, <4>3
    <3>5. CASE ~ stream[l].ours
      <4>1. FoldUpTo[l] = view BY <2>5, <2>7, <3>2, <3>5 DEF Turn
      <4>2. \A i \in DOMAIN stream : l - 1 < i /\ i <= l => ~ stream[i].ours
        BY <1>1, <2>4, <3>5
      <4>3. Seen(view, l) BY <2>4, <3>2, <3>3, <4>2, SeenPast
      <4>4. QED BY <2>4, <4>1, <4>3
    <3>6. QED BY <3>4, <3>5
  <2>8. QED BY <2>6, <2>7
<1>3. Len(stream) \in 0 .. Len(stream) BY <1>1
<1>4. Fine(Len(stream)) BY <1>2, <1>3
<1>5. QED BY <1>4 DEF FoldOfStream
-----------------------------------------------------------------------------
(* The browser follows the stream.                                         *)

(* A frame takes the browser from entry q to entry r: the run's next one.  *)
Carries(f, q, r) ==
  IF f.kind = "snapshot" THEN r = q
  ELSE q < r /\ r \in DOMAIN stream /\ stream[r].ours /\ stream[r].event = f.event
       /\ f.id \in {0, r} /\ Gap(q, r)

(* A browser that has come to entry q has all that the route has passed.   *)
Caught(q) == \A i \in DOMAIN stream : q < i /\ i <= conn.cursor => ~ stream[i].ours

(* at[0] is the entry the browser has come to, at[k] the one it will have  *)
(* come to with the k-th frame; the route has sent everything up to its    *)
(* cursor.  A reconnect resumes at or before at[0].                        *)
Follows(at) ==
  /\ client.lastId <= at[0] /\ Seen(client.fold, at[0])
  /\ \A k \in DOMAIN wire : Carries(wire[k], at[k - 1], at[k])
  /\ Caught(at[Len(wire)])

Following == \E at \in [0 .. Len(wire) -> 0 .. conn.cursor] : Follows(at)

(* Nothing has been sent before the replay.                                *)
Unsent ==
  conn.phase \in {"none", "replay"} =>
    wire = <<>> /\ conn.from = conn.cursor /\ client.lastId = conn.from

FollowInv == Following /\ Unsent

(* The stream is added to at its end.                                      *)
Grown == Len(stream) <= Len(stream') /\ \A i \in DOMAIN stream : stream'[i] = stream[i]

(* What a view has seen it has seen when the stream has grown and the rows *)
(* have advanced.                                                          *)
LEMMA SeenGrown ==
  ASSUME RowTypes, RowTypes', RowInv, RowsAdvance, Grown, NEW view, NEW p \in 0 .. Len(stream),
         Seen(view, p)
  PROVE  Seen(view, p)'
<1>1. /\ DOMAIN stream = 1 .. Len(stream) /\ DOMAIN stream' = 1 .. Len(stream')
      /\ Len(stream) \in Nat /\ Len(stream') \in Nat /\ Len(stream) <= Len(stream')
      /\ \A i \in DOMAIN stream : i \in DOMAIN stream' /\ stream'[i] = stream[i]
  BY DEF RowTypes, Grown
<1>2. \A kinds, ns : Told(p, kinds, ns)' => Told(p, kinds, ns)
  <2>1. ASSUME NEW kinds, NEW ns, NEW i \in DOMAIN stream', i <= p, Says(i, kinds, ns)'
        PROVE  Told(p, kinds, ns)
    <3>1. i \in DOMAIN stream BY <1>1, <2>1
    <3>2. Says(i, kinds, ns) BY <1>1, <2>1, <3>1 DEF Says
    <3>3. QED BY <2>1, <3>1, <3>2 DEF Told
  <2>2. QED BY <2>1 DEF Told
<1>3. \A kinds, ns : Ever(kinds, ns) => Ever(kinds, ns)'
  <2>1. ASSUME NEW kinds, NEW ns, NEW i \in DOMAIN stream, Says(i, kinds, ns)
        PROVE  Ever(kinds, ns)'
    <3>1. i \in DOMAIN stream' /\ Says(i, kinds, ns)' BY <1>1, <2>1 DEF Says
    <3>2. QED BY <3>1 DEF Ever
  <2>2. QED BY <2>1 DEF Ever
<1>4. Told(p, {"run_finished"}, Anyone) => runRow' = runRow
  <2>1. Told(p, {"run_finished"}, Anyone) => runRow \in TerminalRuns
    BY DEF Told, Says, RowInv, StreamHonest, Honest
  <2>2. QED BY <2>1 DEF RowsAdvance
<1>5. RunSeen(view.status, p)'
  <2>1. RunSeen(view.status, p) BY DEF Seen
  <2>2. Anyone' = Anyone BY DEF Anyone
  <2>3. QED BY <1>2, <1>3, <1>4, <2>1, <2>2 DEF RunSeen
<1>6. ASSUME NEW n \in Nodes PROVE StepSeen(n, view.steps[n], p)'
  <2>1. StepSeen(n, view.steps[n], p) BY DEF Seen
  <2>2. Fails' = Fails /\ Begins' = Begins BY DEF Fails, Begins
  <2>3. QED BY <1>2, <1>3, <2>1, <2>2 DEF StepSeen
<1>7. QED BY <1>5, <1>6 DEF Seen

(* A frame carries the browser as far when the stream has grown.           *)
LEMMA CarriesGrown ==
  ASSUME RowTypes, RowTypes', Grown, NEW f, NEW q, NEW r, Carries(f, q, r)
  PROVE  Carries(f, q, r)'
<1>1. /\ DOMAIN stream = 1 .. Len(stream) /\ DOMAIN stream' = 1 .. Len(stream')
      /\ Len(stream) \in Nat /\ Len(stream') \in Nat /\ Len(stream) <= Len(stream')
      /\ \A i \in DOMAIN stream : i \in DOMAIN stream' /\ stream'[i] = stream[i]
  BY DEF RowTypes, Grown
<1>2. CASE f.kind = "snapshot" BY <1>2 DEF Carries
<1>3. CASE f.kind # "snapshot"
  <2>1. q < r /\ r \in DOMAIN stream /\ stream[r].ours /\ stream[r].event = f.event
        /\ f.id \in {0, r} /\ Gap(q, r)
    BY <1>3 DEF Carries
  <2>2. r \in DOMAIN stream' /\ stream'[r] = stream[r] BY <1>1, <2>1
  <2>3. ASSUME NEW i \in DOMAIN stream', q < i, i < r PROVE ~ stream'[i].ours
    <3>1. i \in DOMAIN stream /\ stream'[i] = stream[i] BY <1>1, <2>1, <2>3
    <3>2. QED BY <2>1, <2>3, <3>1 DEF Gap
  <2>4. Gap(q, r)' BY <2>3 DEF Gap
  <2>5. QED BY <2>1, <2>2, <2>4 DEF Carries
<1>4. QED BY <1>2, <1>3

(* A step of the run that leaves the connection as it is leaves the        *)
(* browser where it was in the stream.                                     *)
LEMMA FollowKept ==
  ASSUME RowTypes, RowTypes', RowInv, FeedTypes, RowsAdvance, Grown, FollowInv,
         wire' = wire, conn' = conn, client' = client
  PROVE  FollowInv'
<1>1. /\ DOMAIN stream = 1 .. Len(stream) /\ DOMAIN stream' = 1 .. Len(stream')
      /\ Len(stream) \in Nat /\ Len(stream') \in Nat /\ Len(stream) <= Len(stream')
      /\ \A i \in DOMAIN stream : i \in DOMAIN stream' /\ stream'[i] = stream[i]
  BY DEF RowTypes, Grown
<1>2. conn.cursor \in Nat /\ conn.cursor <= Len(stream) /\ wire \in Seq(Frames)
  BY DEF FeedTypes, Conns
<1>3. PICK at \in [0 .. Len(wire) -> 0 .. conn.cursor] : Follows(at) BY DEF FollowInv, Following
<1>4. ASSUME NEW k \in DOMAIN wire PROVE Carries(wire[k], at[k - 1], at[k])'
  <2>1. PICK f : f = wire[k] OBVIOUS
  <2>2. Carries(f, at[k - 1], at[k]) BY <1>3, <2>1 DEF Follows
  <2>3. Carries(f, at[k - 1], at[k])' BY <2>2, CarriesGrown
  <2>4. QED BY <2>1, <2>3
<1>5. 0 \in 0 .. Len(wire) /\ Len(wire) \in 0 .. Len(wire) BY <1>2
<1>6. at[0] \in 0 .. Len(stream) BY <1>1, <1>2, <1>3, <1>5
<1>7. Seen(client.fold, at[0])'
  <2>1. PICK v : v = client.fold OBVIOUS
  <2>2. Seen(v, at[0]) BY <1>3, <2>1 DEF Follows
  <2>3. Seen(v, at[0])' BY <1>6, <2>2, SeenGrown
  <2>4. QED BY <2>1, <2>3
<1>8. ASSUME NEW i \in DOMAIN stream', at[Len(wire)] < i, i <= conn.cursor
      PROVE  ~ stream'[i].ours
  <2>1. i \in DOMAIN stream /\ stream'[i] = stream[i] BY <1>1, <1>2, <1>8
  <2>2. QED BY <1>3, <1>8, <2>1 DEF Follows, Caught
<1>9. Follows(at)' BY <1>3, <1>4, <1>7, <1>8 DEF Follows, Caught
<1>10. Following' BY <1>9 DEF Following
<1>11. QED BY <1>10 DEF FollowInv, Unsent

(* The run writes to the stream at its end only.                           *)
LEMMA LoopGrows == ASSUME RowTypes, Loop PROVE Grown
<1>1. ASSUME NEW e, NEW ours, Append1(e, ours) PROVE Grown
  BY <1>1 DEF Append1, RowTypes, Grown
<1>2. ASSUME stream' = stream PROVE Grown BY <1>2 DEF RowTypes, Grown
<1>3. stream' = stream \/ \E e, ours : Append1(e, ours)
  <2>1. CASE Publish BY <2>1 DEF Publish
  <2>2. CASE Noise BY <2>2 DEF Noise
  <2>3. CASE CreateRows \/ CancelRun \/ FinishRun
    BY <2>3 DEF CreateRows, CancelRun, FinishRun, Feedless
  <2>4. ASSUME NEW n \in Nodes,
               \/ Dispatch(n) \/ Succeed(n) \/ FailNode(n) \/ Retry(n)
               \/ BackoffElapses(n) \/ PersistCanceled(n)
        PROVE  stream' = stream
    BY <2>4 DEF Dispatch, Succeed, FailNode, Retry, BackoffElapses, PersistCanceled,
                WriteNode, Feedless
  <2>5. QED BY <2>1, <2>2, <2>3, <2>4 DEF Loop
<1>4. QED BY <1>1, <1>2, <1>3

(* The route and the browser leave the stream, and what was seen of it.    *)
LEMMA SeenStands ==
  ASSUME RowTypes, RowInv, UNCHANGED serverVars
  PROVE  /\ stream' = stream
         /\ \A view, p : Seen(view, p) => Seen(view, p)'
         /\ \A f, q, r : Carries(f, q, r) => Carries(f, q, r)'
<1>1. stream' = stream /\ runRow' = runRow BY DEF serverVars, runVars
<1>2. \A kinds, ns : /\ Told(0, kinds, ns)' <=> Told(0, kinds, ns)
                     /\ Ever(kinds, ns) <=> Ever(kinds, ns)'
  BY <1>1 DEF Told, Ever, Says
<1>3. \A p, kinds, ns : Told(p, kinds, ns) <=> Told(p, kinds, ns)' BY <1>1 DEF Told, Says
<1>4. ASSUME NEW view, NEW p, Seen(view, p) PROVE Seen(view, p)'
  <2>1. RunSeen(view.status, p)'
    BY <1>1, <1>2, <1>3, <1>4 DEF Seen, RunSeen, Anyone
  <2>2. ASSUME NEW n \in Nodes PROVE StepSeen(n, view.steps[n], p)'
    <3>1. StepSeen(n, view.steps[n], p) BY <1>4 DEF Seen
    <3>2. QED BY <1>2, <1>3, <3>1 DEF StepSeen, Fails, Begins
  <2>3. QED BY <2>1, <2>2 DEF Seen
<1>5. ASSUME NEW f, NEW q, NEW r, Carries(f, q, r) PROVE Carries(f, q, r)'
  BY <1>1, <1>5 DEF Carries, Gap
<1>6. QED BY <1>1, <1>4, <1>5

(* Nothing is sent, or taken; the route may have passed another run's      *)
(* entry.                                                                  *)
LEMMA FollowSilent ==
  ASSUME RowTypes, RowInv, FeedTypes, FollowInv, UNCHANGED serverVars, wire' = wire,
         client'.lastId = client.lastId, client'.fold = client.fold,
         conn.cursor <= conn'.cursor, conn'.cursor \in Nat,
         \A q \in 0 .. conn.cursor : Caught(q) => Caught(q)',
         Unsent'
  PROVE  FollowInv'
<1>1. conn.cursor \in Nat /\ wire \in Seq(Frames) BY DEF FeedTypes, Conns
<1>2. PICK at \in [0 .. Len(wire) -> 0 .. conn.cursor] : Follows(at) BY DEF FollowInv, Following
<1>3. /\ \A view, p : Seen(view, p) => Seen(view, p)'
      /\ \A f, q, r : Carries(f, q, r) => Carries(f, q, r)'
  BY SeenStands
<1>4. ASSUME NEW k \in DOMAIN wire' PROVE Carries(wire[k], at[k - 1], at[k])'
  <2>1. PICK f : f = wire[k] OBVIOUS
  <2>2. Carries(f, at[k - 1], at[k]) BY <1>2, <1>4, <2>1 DEF Follows
  <2>3. Carries(f, at[k - 1], at[k])' BY <1>3, <2>2
  <2>4. QED BY <2>1, <2>3
<1>5. Seen(client.fold, at[0])'
  <2>1. PICK v : v = client.fold OBVIOUS
  <2>2. Seen(v, at[0])' BY <1>2, <1>3, <2>1 DEF Follows
  <2>3. QED BY <2>1, <2>2
<1>6. Caught(at[Len(wire)])'
  <2>1. PICK q \in 0 .. conn.cursor : q = at[Len(wire)] /\ Caught(q) BY <1>1, <1>2 DEF Follows
  <2>2. Caught(q)' BY <2>1
  <2>3. QED BY <2>1, <2>2
<1>7. Follows(at)' BY <1>2, <1>4, <1>5, <1>6 DEF Follows
<1>8. at \in [0 .. Len(wire') -> 0 .. conn'.cursor] BY <1>1
<1>9. QED BY <1>7, <1>8 DEF FollowInv, Following

(* One more frame is sent, which carries a browser that has everything to  *)
(* where it has everything again.                                          *)
LEMMA FollowSent ==
  ASSUME RowTypes, RowInv, FeedTypes, FollowInv, UNCHANGED serverVars,
         client' = client, NEW f, f \in Frames, wire' = Append(wire, f),
         conn.cursor <= conn'.cursor, conn'.cursor \in Nat,
         \A q \in 0 .. conn.cursor :
           Caught(q) => \E r \in 0 .. conn'.cursor : Carries(f, q, r) /\ Caught(r)',
         Unsent'
  PROVE  FollowInv'
<1>1. conn.cursor \in Nat /\ wire \in Seq(Frames) BY DEF FeedTypes, Conns
<1>2. PICK at \in [0 .. Len(wire) -> 0 .. conn.cursor] : Follows(at) BY DEF FollowInv, Following
<1>3. /\ \A view, p : Seen(view, p) => Seen(view, p)'
      /\ \A g, q, r : Carries(g, q, r) => Carries(g, q, r)'
  BY SeenStands
<1>4. PICK q \in 0 .. conn.cursor : q = at[Len(wire)] /\ Caught(q) BY <1>1, <1>2 DEF Follows
<1>5. PICK r \in 0 .. conn'.cursor : Carries(f, q, r) /\ Caught(r)' BY <1>4
<1>6. /\ DOMAIN wire = 1 .. Len(wire) /\ Len(wire) \in Nat
      /\ DOMAIN wire' = 1 .. Len(wire) + 1 /\ Len(wire') = Len(wire) + 1
      /\ wire'[Len(wire) + 1] = f
      /\ \A k \in DOMAIN wire : wire'[k] = wire[k]
  BY <1>1
<1>7. PICK to : to = [k \in 0 .. Len(wire) + 1 |-> IF k = Len(wire) + 1 THEN r ELSE at[k]]
  OBVIOUS
<1>8. to \in [0 .. Len(wire') -> 0 .. conn'.cursor] BY <1>1, <1>2, <1>5, <1>6, <1>7
<1>9. ASSUME NEW k \in DOMAIN wire' PROVE Carries(wire[k], to[k - 1], to[k])'
  <2>1. CASE k = Len(wire) + 1
    <3>0. k - 1 = Len(wire) /\ k \in 0 .. Len(wire) + 1 /\ k - 1 \in 0 .. Len(wire) + 1
          /\ k - 1 # Len(wire) + 1
      <4>1. PICK l \in Nat : l = Len(wire) BY <1>6
      <4>2. k = l + 1 BY <2>1, <4>1
      <4>3. k - 1 = l BY <4>1, <4>2
      <4>4. QED BY <4>1, <4>2, <4>3
    <3>1. to[k] = r /\ to[k - 1] = q BY <1>4, <1>7, <2>1, <3>0
    <3>2. Carries(f, q, r)' BY <1>3, <1>5
    <3>3. QED BY <1>6, <2>1, <3>1, <3>2
  <2>2. CASE k \in DOMAIN wire
    <3>1. PICK g : g = wire[k] OBVIOUS
    <3>2. to[k] = at[k] /\ to[k - 1] = at[k - 1] BY <1>6, <1>7, <2>2
    <3>3. Carries(g, at[k - 1], at[k]) BY <1>2, <2>2, <3>1 DEF Follows
    <3>4. Carries(g, at[k - 1], at[k])' BY <1>3, <3>3
    <3>5. wire'[k] = g BY <1>6, <2>2, <3>1
    <3>6. QED BY <3>2, <3>4, <3>5
  <2>3. QED BY <1>6, <2>1, <2>2
<1>10. to[0] = at[0] /\ to[Len(wire')] = r BY <1>6, <1>7
<1>11. Seen(client.fold, to[0])'
  <2>1. PICK v : v = client.fold OBVIOUS
  <2>2. Seen(v, at[0])' BY <1>2, <1>3, <2>1 DEF Follows
  <2>3. QED BY <1>10, <2>1, <2>2
<1>12. Caught(to[Len(wire)])' BY <1>5, <1>10
<1>13. client'.lastId <= to[0] BY <1>2, <1>10 DEF Follows
<1>14. Follows(to)' BY <1>9, <1>11, <1>12, <1>13 DEF Follows
<1>15. QED BY <1>8, <1>14 DEF FollowInv, Following

(* A replay sends what the run has in the stream after the entry that the  *)
(* browser resumes from.                                                   *)
LEMMA FollowReplay ==
  ASSUME RowTypes, RowInv, FeedTypes, FollowInv, Replay
  PROVE  FollowInv'
<1>1. /\ conn \in Conns /\ conn.from \in Nat /\ conn.cursor \in Nat /\ Len(stream) \in Nat
      /\ DOMAIN stream = 1 .. Len(stream) /\ conn.cursor <= Len(stream) /\ wire \in Seq(Frames)
  BY DEF FeedTypes, Conns, RowTypes
<1>2. PICK sent : sent = Replayed(conn.from) OBVIOUS
<1>3. /\ conn.phase = "replay" /\ wire' = wire \o sent /\ client' = client
      /\ UNCHANGED serverVars /\ conn'.cursor = Len(stream)
      /\ conn'.phase \in {"snapshot", "ended", "tail"}
  BY <1>1, <1>2 DEF Replay, Serverless, Conns
<1>4. wire = <<>> /\ conn.from = conn.cursor /\ client.lastId = conn.from
  BY <1>3 DEF FollowInv, Unsent
<1> DEFINE ids == OursAfter(conn.from)
           Id(k) == Nth(ids, k)
<1>5. /\ sent \in Seq(EventFrames) /\ Len(sent) = Cardinality(ids)
      /\ \A k \in DOMAIN sent : /\ Id(k) \in DOMAIN stream /\ stream[Id(k)].ours
                                /\ sent[k].kind = "run-event"
                                /\ sent[k].event = stream[Id(k)].event /\ sent[k].id = Id(k)
      /\ \A k, l \in DOMAIN sent : k < l => Id(k) < Id(l)
  BY <1>1, <1>2, ReplayedFrames
<1>6. ids \in SUBSET Nat /\ IsFiniteSet(ids) BY <1>1, OursFinite
<1>7. /\ \A k \in 1 .. Cardinality(ids) : Nth(ids, k) \in ids
      /\ \A i \in ids : \E k \in 1 .. Cardinality(ids) : Nth(ids, k) = i
  BY <1>6, NthInOrder
<1>8. DOMAIN sent = 1 .. Len(sent) /\ Len(sent) \in Nat BY <1>5
<1>9. \A i \in DOMAIN stream : conn.from < i /\ stream[i].ours => \E k \in DOMAIN sent : Id(k) = i
  <2>1. ASSUME NEW i \in DOMAIN stream, conn.from < i, stream[i].ours PROVE i \in ids
    BY <1>1, <2>1 DEF OursAfter
  <2>2. QED BY <1>5, <1>7, <1>8, <2>1
<1>10. \A k \in DOMAIN sent : Id(k) > conn.from /\ Id(k) \in Nat /\ Id(k) <= Len(stream)
  <2>1. \A i \in ids : i > conn.from /\ i \in Nat /\ i <= Len(stream) BY <1>1 DEF OursAfter
  <2>2. QED BY <1>5, <1>7, <1>8, <2>1
<1> HIDE DEF Id, ids
<1>11. PICK at \in [0 .. Len(wire) -> 0 .. conn.cursor] : Follows(at) BY DEF FollowInv, Following
<1>12. Seen(client.fold, conn.from)
  <2>1. at[0] \in 0 .. conn.cursor /\ client.lastId <= at[0] BY <1>1, <1>4, <1>11 DEF Follows
  <2>2. at[0] = conn.from BY <1>1, <1>4, <2>1
  <2>3. QED BY <1>11, <2>2 DEF Follows
<1>13. wire' = sent
  <2>1. sent \in Seq(EventFrames) BY <1>5
  <2>2. QED BY <1>3, <1>4, <2>1, ConcatEmptySeq
<1>14. PICK to : to = [k \in 0 .. Len(sent) |-> IF k = 0 THEN conn.from ELSE Id(k)] OBVIOUS
<1>15. to \in [0 .. Len(wire') -> 0 .. conn'.cursor]
  <2>1. \A k \in 0 .. Len(sent) : to[k] \in 0 .. Len(stream)
    BY <1>1, <1>4, <1>8, <1>10, <1>14
  <2>2. QED BY <1>3, <1>13, <1>14, <2>1
<1>16. stream' = stream /\ \A view, p : Seen(view, p) => Seen(view, p)' BY <1>3, SeenStands
<1>17. ASSUME NEW k \in DOMAIN wire' PROVE Carries(wire[k], to[k - 1], to[k])'
  <2>1. k \in DOMAIN sent /\ k \in 1 .. Len(sent) /\ to[k] = Id(k)
    BY <1>8, <1>13, <1>14, <1>17
  <2>2. to[k - 1] = (IF k = 1 THEN conn.from ELSE Id(k - 1)) /\ (k # 1 => k - 1 \in DOMAIN sent)
    BY <1>8, <1>14, <2>1
  <2>3. to[k - 1] < to[k] /\ conn.from <= to[k - 1]
    <3>1. k # 1 => Id(k - 1) < Id(k) BY <1>5, <2>1, <2>2
    <3>2. QED BY <1>1, <1>10, <2>1, <2>2, <3>1
  <2>4. ASSUME NEW i \in DOMAIN stream, to[k - 1] < i, i < to[k], stream[i].ours PROVE FALSE
    <3>1. i \in Nat /\ to[k - 1] \in Nat BY <1>1, <1>10, <2>1, <2>2
    <3>2. conn.from < i BY <1>1, <2>3, <2>4, <3>1
    <3>3. PICK l \in DOMAIN sent : Id(l) = i BY <1>9, <2>4, <3>2
    <3>4. l < k
      <4>1. ~ (k < l) /\ k # l
        <5>1. k < l => Id(k) < Id(l) BY <1>5, <2>1
        <5>2. Id(k) \in Nat /\ Id(l) \in Nat BY <1>10, <2>1
        <5>3. QED BY <2>1, <2>4, <3>3, <5>1, <5>2
      <4>2. QED BY <1>8, <2>1, <4>1
    <3>5. k # 1 /\ ~ (l < k - 1)
      <4>1. k # 1 BY <1>8, <2>1, <3>4
      <4>2. l < k - 1 => Id(l) < Id(k - 1) BY <1>5, <2>2, <4>1
      <4>3. Id(k - 1) \in Nat BY <1>10, <2>2, <4>1
      <4>4. QED BY <2>2, <2>4, <3>1, <3>3, <4>1, <4>2, <4>3
    <3>6. l = k - 1 BY <1>8, <2>1, <3>4, <3>5
    <3>7. QED BY <2>2, <2>4, <3>1, <3>3, <3>5, <3>6
  <2>5. Gap(to[k - 1], to[k])' BY <1>16, <2>4 DEF Gap
  <2>6. sent[k].kind = "run-event" /\ Id(k) \in DOMAIN stream /\ stream[Id(k)].ours
        /\ sent[k].event = stream[Id(k)].event /\ sent[k].id = Id(k)
    BY <1>5, <2>1
  <2>7. QED BY <1>13, <1>16, <2>1, <2>3, <2>5, <2>6 DEF Carries
<1>18. Seen(client.fold, to[0])'
  <2>1. PICK v : v = client.fold OBVIOUS
  <2>2. to[0] = conn.from BY <1>8, <1>14
  <2>3. Seen(v, conn.from)' BY <1>12, <1>16, <2>1
  <2>4. client'.fold = v BY <1>3, <2>1
  <2>5. PICK p : p = to[0] OBVIOUS
  <2>6. PICK c : c = conn.from OBVIOUS
  <2>7. Seen(v, c) BY <1>12, <2>1, <2>6
  <2>8. Seen(v, c)' BY <1>16, <2>7
  <2>9. QED BY <2>2, <2>4, <2>6, <2>8
<1>19. Caught(to[Len(wire)])'
  <2>1. ASSUME NEW i \in DOMAIN stream', to[Len(wire')] < i, i <= conn'.cursor, stream'[i].ours
        PROVE  FALSE
    <3>1. i \in DOMAIN stream /\ stream[i].ours /\ i \in Nat BY <1>1, <1>16, <2>1
    <3>2. to[Len(sent)] \in Nat /\ conn.from <= to[Len(sent)]
      BY <1>1, <1>8, <1>10, <1>14
    <3>3. conn.from < i BY <1>1, <1>13, <2>1, <3>1, <3>2
    <3>4. PICK l \in DOMAIN sent : Id(l) = i BY <1>9, <3>1, <3>3
    <3>5. Len(sent) \in DOMAIN sent /\ to[Len(sent)] = Id(Len(sent)) BY <1>8, <1>14, <3>4
    <3>6. l < Len(sent) => Id(l) < Id(Len(sent)) BY <1>5, <3>5
    <3>7. l = Len(sent) \/ l < Len(sent) BY <1>8
    <3>8. QED BY <1>13, <2>1, <3>1, <3>2, <3>4, <3>5, <3>6, <3>7
  <2>2. QED BY <2>1 DEF Caught
<1>20. client'.lastId <= to[0] BY <1>1, <1>3, <1>4, <1>8, <1>14
<1>21. Follows(to)' BY <1>17, <1>18, <1>19, <1>20 DEF Follows
<1>22. Unsent' BY <1>3 DEF Unsent
<1>23. QED BY <1>15, <1>21, <1>22 DEF FollowInv, Following

(* The other steps of the route.                                           *)
LEMMA FollowRoute ==
  ASSUME RowTypes, RowInv, FeedTypes, FollowInv,
         SnapshotRun \/ SnapshotNodes \/ TailEntry \/ GiveUp
  PROVE  FollowInv'
<1>1. /\ conn \in Conns /\ conn.cursor \in Nat /\ Len(stream) \in Nat /\ wire \in Seq(Frames)
      /\ DOMAIN stream = 1 .. Len(stream) /\ conn.cursor <= Len(stream)
  BY DEF FeedTypes, Conns, RowTypes
<1>2. UNCHANGED serverVars /\ client' = client
  BY DEF SnapshotRun, SnapshotNodes, TailEntry, GiveUp, Serverless
<1>3. stream' = stream BY <1>2 DEF serverVars
<1>4. CASE SnapshotRun \/ GiveUp
  <2>1. wire' = wire /\ conn'.cursor = conn.cursor /\ conn'.phase \in {"nodes", "ended"}
    BY <1>1, <1>4 DEF SnapshotRun, GiveUp, Conns
  <2>2. Unsent' BY <2>1 DEF Unsent
  <2>3. \A q \in 0 .. conn.cursor : Caught(q) => Caught(q)' BY <1>3, <2>1 DEF Caught
  <2>4. conn.cursor <= conn'.cursor /\ conn'.cursor \in Nat BY <1>1, <2>1
  <2>5. QED BY <1>2, <2>1, <2>2, <2>3, <2>4, FollowSilent
<1>5. CASE SnapshotNodes
  <2>1. PICK f : f = SnapshotFrame(Snapshot) OBVIOUS
  <2>2. wire' = Append(wire, f) /\ conn'.cursor = conn.cursor /\ conn'.phase \in {"ended", "tail"}
    BY <1>1, <1>5, <2>1 DEF SnapshotNodes, Conns, TailFrom
  <2>3. f.kind = "snapshot" BY <2>1 DEF SnapshotFrame
  <2>4. f \in Frames
    <3>1. \A n \in Nodes : StepOfRow(nodeRow[n]) \in Steps BY DEF StepOfRow, Steps
    <3>2. conn.seen \in RunRows BY <1>1 DEF Conns
    <3>3. Snapshot \in Views BY <3>1, <3>2 DEF Snapshot, SnapshotOf, Views
    <3>4. QED BY <2>1, <3>3 DEF SnapshotFrame, Frames
  <2>5. ASSUME NEW q \in 0 .. conn.cursor, Caught(q)
        PROVE  \E r \in 0 .. conn'.cursor : Carries(f, q, r) /\ Caught(r)'
    <3>1. Carries(f, q, q) BY <2>3 DEF Carries
    <3>2. Caught(q)' BY <1>3, <2>2, <2>5 DEF Caught
    <3>3. QED BY <2>2, <3>1, <3>2
  <2>6. Unsent' BY <2>2 DEF Unsent
  <2>7. conn.cursor <= conn'.cursor /\ conn'.cursor \in Nat BY <1>1, <2>2
  <2>8. QED BY <1>2, <2>2, <2>4, <2>5, <2>6, <2>7, FollowSent
<1>6. CASE TailEntry
  <2>1. PICK c : c = conn.cursor + 1 OBVIOUS
  <2>2. c \in DOMAIN stream /\ c \in Nat /\ conn.cursor < c
    BY <1>1, <1>6, <2>1 DEF TailEntry
  <2>3. /\ wire' = IF stream[c].ours THEN Append(wire, EventFrame(stream[c].event, 0)) ELSE wire
        /\ conn'.cursor = c /\ conn'.phase \in {"ended", "tail"}
    BY <1>1, <1>6, <2>1 DEF TailEntry, Conns
  <2>4. Unsent' BY <2>3 DEF Unsent
  <2>5. conn.cursor <= conn'.cursor /\ conn'.cursor \in Nat BY <1>1, <2>2, <2>3
  <2>6. CASE stream[c].ours
    <3>1. PICK f : f = EventFrame(stream[c].event, 0) OBVIOUS
    <3>2. f.kind = "run-event" /\ f.event = stream[c].event /\ f.id = 0
      BY <3>1 DEF EventFrame
    <3>3. f \in Frames
      <4>1. stream[c] \in Entries BY <2>2 DEF RowTypes
      <4>2. stream[c].event \in Events BY <4>1 DEF Entries
      <4>3. QED BY <3>1, <4>2 DEF EventFrame, EventFrames, Frames
    <3>4. ASSUME NEW q \in 0 .. conn.cursor, Caught(q)
          PROVE  \E r \in 0 .. conn'.cursor : Carries(f, q, r) /\ Caught(r)'
      <4>1. q < c /\ q \in Nat BY <1>1, <2>2
      <4>2. ASSUME NEW i \in DOMAIN stream, q < i, i < c PROVE ~ stream[i].ours
        <5>1. i <= conn.cursor BY <1>1, <2>1, <4>2
        <5>2. QED BY <3>4, <4>2, <5>1 DEF Caught
      <4>3. Gap(q, c) BY <4>2 DEF Gap
      <4>4. Carries(f, q, c) BY <2>2, <2>6, <3>2, <4>1, <4>3 DEF Carries
      <4>5. Caught(c)' BY <1>1, <1>3, <2>2, <2>3 DEF Caught
      <4>6. QED BY <2>2, <2>3, <4>4, <4>5
    <3>5. wire' = Append(wire, f) BY <2>3, <2>6, <3>1
    <3>6. QED BY <1>2, <2>4, <2>5, <3>3, <3>4, <3>5, FollowSent
  <2>7. CASE ~ stream[c].ours
    <3>1. ASSUME NEW q \in 0 .. conn.cursor, Caught(q) PROVE Caught(q)'
      <4>1. ASSUME NEW i \in DOMAIN stream, q < i, i <= c PROVE ~ stream[i].ours
        <5>1. i <= conn.cursor \/ i = c BY <1>1, <2>1, <4>1
        <5>2. QED BY <2>7, <3>1, <4>1, <5>1 DEF Caught
      <4>2. QED BY <1>3, <2>3, <4>1 DEF Caught
    <3>2. wire' = wire BY <2>3, <2>7
    <3>3. QED BY <1>2, <2>4, <2>5, <3>1, <3>2, FollowSilent
  <2>8. QED BY <2>6, <2>7
<1>7. QED BY <1>4, <1>5, <1>6

(* A browser connects with the id of the last frame that had one, or is    *)
(* refused.                                                                *)
LEMMA FollowConnect ==
  ASSUME RowTypes, RowInv, FeedTypes, FeedInv, FollowInv, Connect \/ Refuse
  PROVE  FollowInv'
<1>1. /\ client \in Clients /\ conn \in Conns /\ conn.cursor \in Nat /\ client.lastId \in Nat
  BY DEF FeedTypes, Clients, Conns
<1>2. client.mode = "connecting" /\ UNCHANGED serverVars /\ wire' = wire
  BY DEF Connect, Refuse, Serverless
<1>3. wire = <<>> /\ conn.from = conn.cursor /\ client.lastId = conn.from
  BY <1>2 DEF FeedInv, Quiet, FollowInv, Unsent
<1>4. client'.lastId = client.lastId /\ client'.fold = client.fold
  BY <1>1 DEF Connect, Refuse, Clients
<1>5. conn'.from = conn.from /\ conn'.cursor = conn.cursor
  BY <1>1, <1>3 DEF Connect, Refuse, Disconnected, Clients
<1>6. Unsent' BY <1>2, <1>3, <1>4, <1>5 DEF Unsent
<1>7. stream' = stream BY <1>2 DEF serverVars
<1>8. \A q \in 0 .. conn.cursor : Caught(q) => Caught(q)' BY <1>5, <1>7 DEF Caught
<1>9. QED BY <1>1, <1>2, <1>4, <1>5, <1>6, <1>8, FollowSilent

(* A connection that ends takes the browser back to the last frame that    *)
(* had an id: what was on its way will be sent again.                      *)
LEMMA FollowHangUp ==
  ASSUME RowTypes, RowInv, FeedTypes, FollowInv, HangUp
  PROVE  FollowInv'
<1>1. client \in Clients /\ client.lastId \in Nat /\ conn.cursor \in Nat /\ wire \in Seq(Frames)
  BY DEF FeedTypes, Clients, Conns
<1>2. /\ client'.lastId = client.lastId /\ client'.fold = client.fold
      /\ conn'.from = client.lastId /\ conn'.cursor = client.lastId
      /\ wire' = <<>> /\ UNCHANGED serverVars
  BY <1>1 DEF HangUp, OnError, Disconnected, Clients, Serverless
<1>3. PICK at \in [0 .. Len(wire) -> 0 .. conn.cursor] : Follows(at) BY DEF FollowInv, Following
<1>4. PICK p \in Nat : p = at[0] BY <1>1, <1>3
<1>5. PICK v : v = client.fold OBVIOUS
<1>6. PICK l \in Nat : l = client.lastId BY <1>1
<1>7. l <= p /\ Seen(v, p) BY <1>3, <1>4, <1>5, <1>6 DEF Follows
<1>8. Seen(v, l) BY <1>7, SeenBack
<1>9. Seen(v, l)' BY <1>2, <1>8, SeenStands
<1>10. PICK to : to = [k \in 0 .. 0 |-> l] OBVIOUS
<1>11. to[0] = l /\ Len(wire') = 0 /\ DOMAIN wire' = {} BY <1>2, <1>10
<1>12. Seen(client.fold, to[0])'
  <2>1. client'.fold = v /\ to[0] = l BY <1>2, <1>5, <1>11
  <2>2. QED BY <1>9, <2>1
<1>13. Caught(to[Len(wire)])'
  <2>1. to[Len(wire')] = l /\ conn'.cursor = l BY <1>2, <1>6, <1>11
  <2>2. \A i \in DOMAIN stream' : ~ (l < i /\ i <= l)
    <3>1. \A i \in DOMAIN stream : i \in Nat BY DEF RowTypes
    <3>2. stream' = stream BY <1>2 DEF serverVars
    <3>3. QED BY <3>1, <3>2
  <2>3. QED BY <2>1, <2>2 DEF Caught
<1>14. client'.lastId <= to[0] BY <1>2, <1>6, <1>11
<1>15. Follows(to)' BY <1>11, <1>12, <1>13, <1>14 DEF Follows
<1>16. to \in [0 .. Len(wire') -> 0 .. conn'.cursor] BY <1>2, <1>6, <1>10, <1>11
<1>17. Unsent' BY <1>2 DEF Unsent
<1>18. QED BY <1>15, <1>16, <1>17 DEF FollowInv, Following

(* The browser takes the first frame.                                      *)
LEMMA FollowDeliver ==
  ASSUME RowTypes, RowInv, CancelInv, FeedTypes, FeedInv, FollowInv, Deliver
  PROVE  FollowInv'
<1>1. client \in Clients /\ wire \in Seq(Frames) /\ conn.cursor \in Nat /\ client.fold \in Views
      /\ client.lastId \in Nat
  BY DEF FeedTypes, Clients, Conns
<1>2. PICK f : f = Head(wire) OBVIOUS
<1>3. /\ wire # <<>> /\ wire' = Tail(wire) /\ conn' = conn /\ UNCHANGED serverVars
      /\ client' = IF f.kind = "snapshot" THEN OnSnapshot(client, f) ELSE OnRunEvent(client, f)
  BY <1>2 DEF Deliver, Serverless
<1>4. /\ Len(wire) \in Nat /\ DOMAIN wire = 1 .. Len(wire) /\ 1 \in DOMAIN wire /\ wire[1] = f
      /\ f \in Frames /\ Len(wire') = Len(wire) - 1 /\ Len(wire') \in Nat
      /\ DOMAIN wire' = 1 .. Len(wire')
      /\ \A k \in DOMAIN wire' : k + 1 \in DOMAIN wire /\ wire'[k] = wire[k + 1]
  BY <1>1, <1>2, <1>3
<1>5. PICK at \in [0 .. Len(wire) -> 0 .. conn.cursor] : Follows(at) BY DEF FollowInv, Following
<1>6. stream' = stream /\ (\A view, p : Seen(view, p) => Seen(view, p)')
      /\ \A g, q, r : Carries(g, q, r) => Carries(g, q, r)'
  BY <1>3, SeenStands
<1>7. PICK q \in Nat : q = at[0] BY <1>1, <1>4, <1>5
<1>8. PICK r \in Nat : r = at[1] BY <1>1, <1>4, <1>5
<1>9. client.lastId <= q /\ Seen(client.fold, q) /\ Carries(f, q, r)
  BY <1>4, <1>5, <1>7, <1>8 DEF Follows
<1>10. client'.lastId <= r /\ Seen(client'.fold, r)
  <2>1. CASE f.kind = "snapshot"
    <3>1. client'.lastId = client.lastId /\ client'.fold = client.fold
      BY <1>1, <1>3, <2>1 DEF OnSnapshot, Clients
    <3>2. r = q BY <1>9, <2>1 DEF Carries
    <3>3. QED BY <1>9, <3>1, <3>2
  <2>2. CASE f.kind # "snapshot"
    <3>1. q < r /\ r \in DOMAIN stream /\ stream[r].ours /\ stream[r].event = f.event
          /\ f.id \in {0, r} /\ Gap(q, r)
      BY <1>9, <2>2 DEF Carries
    <3>2. client'.fold = Reduce(client.fold, f.event)
          /\ client'.lastId = IF f.id > 0 THEN f.id ELSE client.lastId
      BY <1>1, <1>3, <2>2 DEF OnRunEvent, Clients
    <3>3. PICK v \in Views : v = client.fold BY <1>1
    <3>4. Seen(Reduce(v, stream[r].event), r)
      BY <1>9, <3>1, <3>3, SeenTaken
    <3>5. client'.lastId <= r BY <1>1, <1>9, <3>1, <3>2
    <3>6. QED BY <3>1, <3>2, <3>3, <3>4, <3>5
  <2>3. QED BY <2>1, <2>2
<1>11. PICK to : to = [k \in 0 .. Len(wire) - 1 |-> at[k + 1]] OBVIOUS
<1>12. \A k \in 0 .. Len(wire) - 1 : k + 1 \in 0 .. Len(wire) /\ to[k] = at[k + 1]
  BY <1>4, <1>11
<1>13. to \in [0 .. Len(wire') -> 0 .. conn'.cursor] BY <1>3, <1>4, <1>5, <1>11, <1>12
<1>14. to[0] = r /\ to[Len(wire')] = at[Len(wire)] BY <1>4, <1>8, <1>12
<1>15. ASSUME NEW k \in DOMAIN wire' PROVE Carries(wire[k], to[k - 1], to[k])'
  <2>1. PICK g : g = wire[k + 1] OBVIOUS
  <2>2. k + 1 \in DOMAIN wire /\ wire'[k] = g /\ k + 1 - 1 = k BY <1>4, <1>15, <2>1
  <2>3. Carries(g, at[k], at[k + 1])
    <3>1. PICK l \in DOMAIN wire : l = k + 1 BY <2>2
    <3>2. Carries(wire[l], at[l - 1], at[l]) BY <1>5 DEF Follows
    <3>3. l - 1 = k /\ wire[l] = g BY <2>1, <2>2, <3>1
    <3>4. QED BY <3>1, <3>2, <3>3
  <2>4. k \in 0 .. Len(wire) - 1 /\ k - 1 \in 0 .. Len(wire) - 1 /\ k - 1 + 1 = k
    BY <1>4, <1>15
  <2>5. to[k] = at[k + 1] /\ to[k - 1] = at[k] BY <1>12, <2>4
  <2>6. Carries(g, at[k], at[k + 1])' BY <1>6, <2>3
  <2>7. QED BY <2>2, <2>5, <2>6
<1>16. Seen(client.fold, to[0])'
  <2>1. PICK v : v = client'.fold OBVIOUS
  <2>2. Seen(v, r)' BY <1>6, <1>10, <2>1
  <2>3. to[0] = r BY <1>14
  <2>4. QED BY <2>1, <2>2, <2>3
<1>17. Caught(to[Len(wire)])'
  <2>1. Caught(at[Len(wire)]) BY <1>5 DEF Follows
  <2>2. QED BY <1>3, <1>6, <1>14, <2>1 DEF Caught
<1>18. Follows(to)' BY <1>10, <1>14, <1>15, <1>16, <1>17 DEF Follows
<1>19. Unsent' BY <1>3 DEF FollowInv, Unsent
<1>20. QED BY <1>13, <1>18, <1>19 DEF FollowInv, Following

(* Nothing is on its way to a browser that has caught up, so it has come   *)
(* to the end of the stream, and shows what all of it says.                *)
LEMMA FollowMeans ==
  ASSUME RowTypes, RowInv, CancelInv, FeedTypes, FollowInv,
         conn.cursor = Len(stream), wire = <<>>
  PROVE  client.fold = FoldOfStream
<1>1. client \in Clients /\ client.fold \in Views /\ Len(stream) \in Nat
  BY DEF FeedTypes, Clients, RowTypes
<1>2. Len(wire) = 0 OBVIOUS
<1>3. PICK at \in [0 .. 0 -> 0 .. Len(stream)] : Follows(at) BY <1>2 DEF FollowInv, Following
<1>4. PICK p \in Nat : p = at[0] /\ p <= Len(stream) BY <1>1, <1>3
<1>5. Seen(client.fold, p) /\ Caught(p) BY <1>2, <1>3, <1>4 DEF Follows
<1>6. Seen(client.fold, Len(stream)) BY <1>1, <1>4, <1>5, SeenPast DEF Caught
<1>7. QED BY <1>1, <1>6, FoldSeen, SeenWhole
-----------------------------------------------------------------------------
(* The inductive invariant and the theorems.                               *)

IInv == Types /\ RowInv /\ CancelInv /\ FeedInv /\ FollowInv

(* The run has not begun, nothing is sent and nothing is shown.            *)
LEMMA IInvInit == ASSUME Init PROVE IInv
<1>1. /\ runRow = "queued" /\ nodeRow = [n \in Nodes |-> "none"] /\ doomed = {}
      /\ outcome = "none" /\ unsent = NoEvent /\ stream = <<>>
      /\ budget = [retries |-> MaxRetries, faults |-> MaxFaults]
      /\ conn = [phase |-> "none", from |-> 0, cursor |-> 0, seen |-> "queued"]
      /\ wire = <<>>
      /\ client = [mode |-> "connecting", lastId |-> 0, received |-> FALSE, terminal |-> FALSE,
                   fold |-> BlankView, snapshot |-> NoView]
  BY DEF Init
<1>2. stream \in Seq(Entries) /\ Len(stream) = 0 /\ DOMAIN stream = {}
      /\ wire \in Seq(Frames) /\ DOMAIN wire = {}
  BY <1>1, EmptySeq
<1>3. RowTypes BY <1>1, <1>2 DEF RowTypes, RunRows, NodeRows
<1>4. Honest(unsent) /\ unsent.kind # "run_started"
  BY <1>1, FeedConstants DEF NoEvent, Event, Honest
<1>5. RowInv
  <2>1. StreamHonest /\ StreamOrdered BY <1>2, <1>4 DEF StreamHonest, StreamOrdered
  <2>2. NothingYet /\ AllSettled /\ DoomedOpen
    BY <1>1 DEF NothingYet, AllSettled, TerminalRuns, DoomedOpen
  <2>3. Gated BY <1>1, FeedConstants DEF Gated
  <2>4. QED BY <2>1, <2>2, <2>3 DEF RowInv
<1>6. BlankView \in Views BY DEF BlankView, Views, RunRows, Steps
<1>7. Budgeted BY <1>1, FeedConstants DEF Budgeted
<1>8. FeedTypes
  <2>1. conn \in Conns /\ conn.from = 0 /\ conn.cursor = 0 BY <1>1 DEF Conns, RunRows
  <2>2. client \in Clients /\ client.lastId = 0 BY <1>1, <1>6 DEF Clients
  <2>3. QED BY <1>2, <2>1, <2>2 DEF FeedTypes
<1>9. FeedInv
  <2>1. FoldOf(BlankView) BY DEF FoldOf, BlankView, StepTrue, IsTerminal, TerminalRuns
  <2>2. ~ IsTerminal(BlankView) /\ ~ IsTerminal(NoView)
    BY DEF BlankView, NoView, IsTerminal, TerminalRuns
  <2>3. client.fold = BlankView /\ client.snapshot = NoView /\ conn.seen = "queued"
        /\ conn.phase = "none"
    BY <1>1
  <2>4. FoldOf(client.fold) /\ SnapshotTrue(client.snapshot) /\ SeenTrue /\ Over
    BY <2>1, <2>2, <2>3 DEF SnapshotTrue, SeenTrue, TerminalRuns, Over
  <2>5. WireTrue /\ WireOrdered /\ EndSent BY <1>2 DEF WireTrue, WireOrdered, EndSent
  <2>6. Quiet BY <1>1 DEF Quiet
  <2>7. QED BY <2>4, <2>5, <2>6 DEF FeedInv
<1>10. CancelInv
  <2>1. CancelTrue(unsent) /\ BeginTrue(unsent)
    BY <1>1 DEF CancelTrue, BeginTrue, Begins, NoEvent, Event
  <2>2. QED BY <1>2, <2>1 DEF CancelInv, CancelLast
<1>11. FollowInv
  <2>1. PICK at : at = [k \in 0 .. 0 |-> 0] OBVIOUS
  <2>2. at[0] = 0 /\ Len(wire) = 0 /\ conn.cursor = 0 /\ conn.from = 0 /\ client.lastId = 0
        /\ client.fold = BlankView
    BY <1>1, <2>1
  <2>3. Seen(BlankView, 0) BY <1>3, BlankSeen
  <2>4. Caught(at[Len(wire)]) BY <1>2 DEF Caught
  <2>5. Follows(at) BY <1>2, <2>2, <2>3, <2>4 DEF Follows
  <2>6. Following BY <2>1, <2>2, <2>5 DEF Following
  <2>7. QED BY <1>1, <2>2, <2>6 DEF FollowInv, Unsent
<1>12. QED BY <1>3, <1>5, <1>7, <1>8, <1>9, <1>10, <1>11 DEF IInv, Types

(* Only the run, a route that gives up, a refusal and a break are counted. *)
LEMMA FeedBudget == ASSUME Budgeted, Feed PROVE Budgeted'
<1>1. budget' = budget \/ Spend("faults")
  BY DEF Feed, Connect, Refuse, Replay, SnapshotRun, SnapshotNodes, TailEntry, GiveUp,
         Deliver, StreamEnds, Drop
<1>2. QED BY <1>1, SpendTyped DEF Budgeted

(* What the view shows as decided is not taken back in any step.           *)
NothingTakenBack ==
  /\ \A n \in Nodes : client.fold.steps[n] \in {"done", "failed"}
       => client'.fold.steps[n] = client.fold.steps[n]
  /\ IsTerminal(client.fold) => client'.fold.status = client.fold.status

(* Every step, of the run, the route or the browser, keeps the invariant.  *)
LEMMA IInvStep == ASSUME IInv, [Next]_vars PROVE IInv' /\ NothingTakenBack
<1>1. RowTypes /\ FeedTypes /\ Budgeted /\ RowInv /\ CancelInv /\ FeedInv /\ FollowInv
  BY DEF IInv, Types
<1>2. CASE Loop
  <2>1. RowTypes' /\ RowInv' /\ RowsAdvance BY <1>1, <1>2, LoopStep
  <2>2. Budgeted' /\ UNCHANGED <<conn, wire, client>> /\ Len(stream) <= Len(stream')
    BY <1>1, <1>2, LoopLeavesFeed
  <2>3. FeedTypes' /\ FeedInv' BY <1>1, <2>1, <2>2, LoopKeepsFeed
  <2>4. CancelInv' BY <1>1, <1>2, CancelStep
  <2>5. FollowInv' BY <1>1, <1>2, <2>1, <2>2, LoopGrows, FollowKept
  <2>6. NothingTakenBack BY <2>2 DEF NothingTakenBack
  <2>7. QED BY <2>1, <2>2, <2>3, <2>4, <2>5, <2>6 DEF IInv, Types
<1>3. ASSUME UNCHANGED serverVars PROVE RowTypes' /\ RowInv' /\ CancelInv'
  <2>1. RowTypes' /\ RowInv' BY <1>1, <1>3, RowsStand
  <2>2. nodeRow' = nodeRow /\ unsent' = unsent /\ stream' = stream
    BY <1>3 DEF serverVars, runVars
  <2>3. CancelInv'
    BY <1>1, <2>2 DEF CancelInv, CancelTrue, BeginTrue, CancelLast, Says
  <2>4. QED BY <2>1, <2>3
<1>4. CASE Feed
  <2>1. UNCHANGED serverVars
    BY <1>4 DEF Feed, Connect, Refuse, Replay, SnapshotRun, SnapshotNodes, TailEntry, GiveUp,
                Deliver, StreamEnds, Drop, HangUp, Serverless
  <2>2. Budgeted' BY <1>1, <1>4, FeedBudget
  <2>3. SUFFICES FeedTypes' /\ FeedInv' /\ FollowInv' /\ NothingTakenBack
    BY <1>3, <2>1, <2>2 DEF IInv, Types
  <2>4. CASE Replay \/ SnapshotRun \/ GiveUp \/ SnapshotNodes \/ TailEntry
    <3>1. FeedTypes' /\ FeedInv'
      BY <1>1, <2>4, ReplayStep, SilentStep, SnapshotStep, TailStep
    <3>2. FollowInv' BY <1>1, <2>4, FollowReplay, FollowRoute
    <3>3. client' = client BY <2>4 DEF Replay, SnapshotRun, GiveUp, SnapshotNodes, TailEntry
    <3>4. QED BY <3>1, <3>2, <3>3 DEF NothingTakenBack
  <2>5. CASE Connect \/ Refuse
    BY <1>1, <2>5, ConnectStep, FollowConnect DEF NothingTakenBack
  <2>6. CASE Deliver
    BY <1>1, <2>6, DeliverStep, FollowDeliver DEF NothingTakenBack
  <2>7. CASE StreamEnds \/ Drop
    <3>1. HangUp BY <2>7 DEF StreamEnds, Drop
    <3>2. QED BY <1>1, <3>1, HangUpStep, FollowHangUp DEF NothingTakenBack
  <2>8. QED BY <1>4, <2>4, <2>5, <2>6, <2>7 DEF Feed
<1>5. CASE UNCHANGED vars
  <2>1. UNCHANGED serverVars /\ UNCHANGED <<budget, conn, wire, client>> BY <1>5 DEF vars
  <2>2. RowTypes' /\ RowInv' /\ RowsAdvance /\ stream' = stream BY <1>1, <2>1, RowsStand
  <2>3. Len(stream) <= Len(stream') /\ Grown BY <2>2 DEF RowTypes, Grown
  <2>4. FeedTypes' /\ FeedInv' BY <1>1, <2>1, <2>2, <2>3, LoopKeepsFeed
  <2>5. FollowInv' BY <1>1, <2>1, <2>2, <2>3, FollowKept
  <2>6. Budgeted' /\ NothingTakenBack BY <1>1, <2>1 DEF Budgeted, NothingTakenBack
  <2>7. QED BY <1>3, <2>1, <2>4, <2>5, <2>6 DEF IInv, Types
<1>6. QED BY <1>2, <1>4, <1>5 DEF Next

(* The invariant holds in every reachable state.                           *)
LEMMA Invariance == Spec => []IInv
<1>1. Init => IInv BY IInvInit
<1>2. IInv /\ [Next]_vars => IInv' BY IInvStep
<1>3. QED BY <1>1, <1>2, PTL DEF Spec

(* The rows, the stream, what the route has read, what is on its way and   *)
(* what the browser holds have their types; among them, the browser never  *)
(* resumes from an entry that the route has not passed.                    *)
THEOREM TypeCorrect == Spec => []TypeOK
<1>1. IInv => TypeOK BY TypesMean DEF IInv
<1>2. QED BY <1>1, Invariance, PTL

(* CaughtUp: a viewer to whom the route has sent all of the stream, and    *)
(* whom it has reached, shows the fold of the whole stream, wherever the   *)
(* connections broke and whatever was replayed a second time.              *)
THEOREM CaughtUpShowsAll == Spec => []CaughtUp
<1>1. ASSUME IInv PROVE CaughtUp
  BY <1>1, FollowMeans DEF IInv, Types, CaughtUp
<1>2. QED BY <1>1, Invariance, PTL

(* TerminalIsTrue: whether it is folded from events or put together from   *)
(* two reads, a view that says the run is over says how its row says it    *)
(* ended, however many connections break and events are lost.              *)
THEOREM TerminalViewIsTrue == Spec => []TerminalIsTrue
<1>1. IInv => TerminalIsTrue
  BY DEF IInv, FeedInv, TerminalIsTrue, View, FoldOf, SnapshotTrue
<1>2. QED BY <1>1, Invariance, PTL

(* SnapshotIsWhole: a snapshot that says the run is over shows every step  *)
(* decided, though the run row is read before the node rows.               *)
THEOREM TerminalSnapshotIsWhole == Spec => []SnapshotIsWhole
<1>1. ASSUME IInv PROVE SnapshotIsWhole
  <2>1. SnapshotTrue(client.snapshot) /\ WireTrue BY <1>1 DEF IInv, FeedInv
  <2>2. ASSUME NEW f \in ToSet(wire), f.kind = "snapshot" PROVE SnapshotTrue(f.view)
    <3>1. PICK i \in DOMAIN wire : f = wire[i] BY <2>2 DEF ToSet
    <3>2. QED BY <2>1, <2>2, <3>1 DEF WireTrue, FrameTrue
  <2>3. ASSUME NEW v \in {client.snapshot} \cup {f.view : f \in {f \in ToSet(wire) : f.kind = "snapshot"}}
        PROVE  SnapshotTrue(v)
    BY <2>1, <2>2
  <2>4. QED BY <2>3 DEF SnapshotIsWhole, SnapshotTrue
<1>2. QED BY <1>1, Invariance, PTL

(* DecidedStepsStay: a step that the view shows done or failed, and a run  *)
(* that it shows as over, are shown so for ever, whatever is replayed.     *)
THEOREM DecidedForGood == Spec => DecidedStepsStay
<1>1. IInv /\ [Next]_vars =>
        [client.received =>
           /\ \A n \in Nodes : client.fold.steps[n] \in {"done", "failed"} =>
                client'.fold.steps[n] = client.fold.steps[n]
           /\ IsTerminal(client.fold) => client'.fold.status = client.fold.status]_vars
  BY IInvStep DEF NothingTakenBack
<1>2. QED BY <1>1, Invariance, PTL DEF Spec, DecidedStepsStay
=============================================================================
