---------------------------- MODULE MCLegacyTask ----------------------------
(* A start trigger, a browser node and an e-mail node, tried at most three times. *)
EXTENDS LegacyTask

ThreeNodes == <<"start", "browser", "plain">>

=============================================================================
