---------------------------- MODULE MCTaskWorker ----------------------------
(***************************************************************************)
(* One run with two task envelopes under its browser key: one of a node    *)
(* that drives the browser, and one that may be anything the worker can    *)
(* receive, also a task without a browser or one that does not decode.     *)
(***************************************************************************)
EXTENDS TaskWorker, TLC

CONSTANTS t1, t2, r1, k1

MCTasks == {t1, t2}

MCRunOf == (t1 :> r1) @@ (t2 :> r1)

MCKeyOf == (t1 :> k1) @@ (t2 :> k1)

MCKindsOf == (t1 :> {"browser"}) @@ (t2 :> Kinds)

=============================================================================
