-------------------------- MODULE MCDistributedRun --------------------------
(***************************************************************************)
(* Two instances of DistributedRun. Join: two browser nodes that compete   *)
(* for the run's affinity slot, and a node that joins them. Chain: one     *)
(* browser node and its successor, small enough for more mishaps, for      *)
(* deaths at every point and for liveness.                                 *)
(***************************************************************************)
EXTENDS DistributedRun, TLC

CONSTANTS a, b, c

Join == {a, b, c}

JoinPreds == (a :> {}) @@ (b :> {}) @@ (c :> {a, b})

JoinRetryMax == (a :> 2) @@ (b :> 1) @@ (c :> 1)

JoinBrowserNodes == {a, b}

Chain == {a, b}

ChainPreds == (a :> {}) @@ (b :> {a})

ChainRetryMax == (a :> 2) @@ (b :> 1)

ChainBrowserNodes == {a}

=============================================================================
