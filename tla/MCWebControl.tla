---------------------------- MODULE MCWebControl ----------------------------
(***************************************************************************)
(* Two requests, one of this tab and one of a colleague, over four graphs: *)
(* the new canvas, one anybody may run, one with an agent node, and one    *)
(* left with an edge to a node a concurrent edit removed.                  *)
(***************************************************************************)
EXTENDS WebControl, TLC

Empty   == [nodes |-> "start" :> "start", edges |-> {}]
Plain   == [nodes |-> ("start" :> "start") @@ ("a" :> "act"), edges |-> {<<"start", "a">>}]
Agentic == [nodes |-> ("start" :> "start") @@ ("a" :> "agent"), edges |-> {<<"start", "a">>}]
Dangles == [nodes |-> "start" :> "start", edges |-> {<<"start", "a">>}]

AllGraphs == {Empty, Plain, Agentic, Dangles}
AllPlans == {Empty, Plain, NoGraph}

=============================================================================
