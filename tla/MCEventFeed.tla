---------------------------- MODULE MCEventFeed ----------------------------
(***************************************************************************)
(* The event feed of a run of two nodes, the second of which follows the   *)
(* first, or of a run of one node.                                         *)
(***************************************************************************)
EXTENDS EventFeed

CONSTANTS a, b

Chain == {a, b}
ChainLater == [n \in Chain |-> IF n = a THEN {b} ELSE {}]
Single == {a}
SingleLater == [n \in Single |-> {}]

=============================================================================
