-------------------------- MODULE MCSchedulerState --------------------------
(***************************************************************************)
(* SchedulerState on a graph with a join and a tail: a and b both feed c,  *)
(* c feeds d, b feeds d too. It has two roots, a node with two             *)
(* predecessors, a node that a failing b reaches along two paths, and a    *)
(* chain of three.                                                         *)
(***************************************************************************)
EXTENDS SchedulerState, TLC

CONSTANTS a, b, c, d

MCNodes == {a, b, c, d}

MCPreds == (a :> {}) @@ (b :> {}) @@ (c :> {a, b}) @@ (d :> {b, c})

=============================================================================
