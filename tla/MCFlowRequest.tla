--------------------------- MODULE MCFlowRequest ---------------------------
(* Instances of the flow requests for TLC. *)
EXTENDS FlowRequest

TwoApps == {"a1", "a2"}
OneApp  == {"a1"}
=============================================================================
