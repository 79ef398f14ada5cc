--------------------------- MODULE MCConcurrentRun ---------------------------
(***************************************************************************)
(* ConcurrentRun with two workers. Join: two browser nodes that compete    *)
(* for the session, a node that joins them and one beside them. Pair: two  *)
(* nodes without an edge, enough for a wakeup to be lost.                  *)
(***************************************************************************)
EXTENDS ConcurrentRun, TLC

CONSTANTS a, b, c, d, w1, w2

Join == {a, b, c, d}

JoinPreds == (a :> {}) @@ (b :> {}) @@ (c :> {a, b}) @@ (d :> {a})

JoinBrowserNodes == {a, b}

Pair == {a, b}

PairPreds == (a :> {}) @@ (b :> {})

TwoWorkers == {w1, w2}

=============================================================================
