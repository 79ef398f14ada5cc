--------------------------- MODULE BrowserSessions ---------------------------
(***************************************************************************)
(* The browser sessions of one worker process                              *)
(* (worker/src/browser-session-manager.ts, with the callbacks main.ts      *)
(* gives it): a map from affinity keys to sessions, opened on first use,   *)
(* shared by the tasks of a key, closed by a cancellation or a shutdown.   *)
(* JavaScript runs the code between two awaits without interruption, so an *)
(* operator here is such a piece of code.  A session is named after the    *)
(* task that opened it: a task opens at most one.                          *)
(***************************************************************************)
EXTENDS Naturals, FiniteSets

CONSTANTS
  Tasks,      \* the task envelopes this worker may receive
  Runs,
  Keys,       \* affinity keys
  runOf,      \* the run of each task
  keyOf,      \* affinityKeyFor: the envelope's key, or "run:<runId>"
  NoTask, NoRun

ASSUME SessionConstants ==
  /\ runOf \in [Tasks -> Runs]
  /\ keyOf \in [Tasks -> Keys]
  /\ NoTask \notin Tasks
  /\ NoRun \notin Runs

VARIABLES
  state,      \* of the session each task opened
  watched,    \* liveViewWaited: a task has taken on the wait for the live view
  sessions,   \* the map: affinity key -> session
  closer      \* closeAllForRun or closeAll; the worker never runs two at once

sessionVars == <<state, watched, sessions, closer>>

States == {"none", "opening", "failed", "live", "closing", "gone"}

Closers == [mode : {"idle", "cancel", "opens", "shutdown"}, run : Runs \cup {NoRun},
            keys : SUBSET Keys, opens : SUBSET Tasks, busy : Tasks \cup {NoTask}]

Idle == [mode |-> "idle", run |-> NoRun, keys |-> {}, opens |-> {}, busy |-> NoTask]

SessionTypeOK ==
  /\ state \in [Tasks -> States]
  /\ watched \in [Tasks -> BOOLEAN]
  /\ sessions \in [Keys -> Tasks \cup {NoTask}]
  /\ closer \in Closers

SessionInit ==
  /\ state = [t \in Tasks |-> "none"]
  /\ watched = [t \in Tasks |-> FALSE]
  /\ sessions = [k \in Keys |-> NoTask]
  /\ closer = Idle

\* The entry of a key is an open session: present and not marked closed.
HasLive(k) == sessions[k] # NoTask /\ state[sessions[k]] = "live"

\* The open in flight for a key, which later callers share (`opening`).
Opening(k) == {s \in Tasks : state[s] = "opening" /\ keyOf[s] = k}

-----------------------------------------------------------------------------
(* Opening *)

StartOpen(t) ==
  /\ state' = [state EXCEPT ![t] = "opening"]
  /\ UNCHANGED <<watched, sessions, closer>>

\* The factory has returned; the session enters the map whatever is there.
\* Some task that waits for it takes on the live-view wait at once.
OpenSucceeds(s, awaited) ==
  /\ state[s] = "opening"
  /\ state' = [state EXCEPT ![s] = "live"]
  /\ sessions' = [sessions EXCEPT ![keyOf[s]] = s]
  /\ watched' = [watched EXCEPT ![s] = awaited]
  /\ UNCHANGED closer

OpenFails(s) ==
  /\ state[s] = "opening"
  /\ state' = [state EXCEPT ![s] = "failed"]
  /\ UNCHANGED <<watched, sessions, closer>>

Watch(s) ==
  /\ watched' = [watched EXCEPT ![s] = TRUE]
  /\ UNCHANGED <<state, sessions, closer>>

-----------------------------------------------------------------------------
(* Closing *)

\* closeAllForRun: first the sessions of the run that are in the map now.
BeginCancel(r) ==
  /\ closer' = [Idle EXCEPT !.mode = "cancel", !.run = r,
                            !.keys = {k \in Keys : HasLive(k) /\ runOf[sessions[k]] = r}]
  /\ UNCHANGED <<state, watched, sessions>>

BeginCloseAll ==
  /\ closer' = [Idle EXCEPT !.mode = "shutdown",
                            !.keys = {k \in Keys : sessions[k] # NoTask}]
  /\ UNCHANGED <<state, watched, sessions>>

\* closeKey up to its first await: the entry of the key is marked closed.
CloseKey(k, rest) ==
  /\ state' = IF HasLive(k) THEN [state EXCEPT ![sessions[k]] = "closing"] ELSE state
  /\ closer' = [rest EXCEPT !.busy = IF HasLive(k) THEN sessions[k] ELSE NoTask]
  /\ UNCHANGED <<watched, sessions>>

CloseNextKey(k) ==
  /\ closer.busy = NoTask
  /\ k \in closer.keys
  /\ CloseKey(k, [closer EXCEPT !.keys = @ \ {k}])

\* The rest of closeKey, once the screenshot and the close have settled: the
\* entry of the key is deleted, whichever session it is by now.
ClosedKey ==
  /\ closer.busy # NoTask
  /\ state' = [state EXCEPT ![closer.busy] = "gone"]
  /\ sessions' = [sessions EXCEPT ![keyOf[closer.busy]] = NoTask]
  /\ closer' = [closer EXCEPT !.busy = NoTask]
  /\ UNCHANGED watched

\* closeAllForRun, second part: the opens in flight at this point.
CollectOpens ==
  /\ closer.mode = "cancel" /\ closer.keys = {} /\ closer.busy = NoTask
  /\ closer' = [closer EXCEPT !.mode = "opens", !.opens = {s \in Tasks : state[s] = "opening"}]
  /\ UNCHANGED <<state, watched, sessions>>

AwaitOpen(s) ==
  /\ closer.busy = NoTask
  /\ s \in closer.opens
  /\ state[s] # "opening"
  /\ LET rest == [closer EXCEPT !.opens = @ \ {s}]
     IN  IF state[s] = "live" /\ runOf[s] = closer.run
         THEN CloseKey(keyOf[s], rest)
         ELSE closer' = rest /\ UNCHANGED <<state, watched, sessions>>

CloserDone ==
  /\ closer.mode \in {"opens", "shutdown"}
  /\ closer.keys = {} /\ closer.opens = {} /\ closer.busy = NoTask
  /\ closer' = Idle
  /\ UNCHANGED <<state, watched, sessions>>

CloserStep ==
  \/ \E k \in Keys : CloseNextKey(k)
  \/ ClosedKey
  \/ CollectOpens
  \/ \E s \in Tasks : AwaitOpen(s)

=============================================================================
