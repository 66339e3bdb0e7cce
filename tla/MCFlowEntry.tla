------------------------------ MODULE MCFlowEntry ------------------------------
(* Small instances of FlowEntry. *)
EXTENDS FlowEntry

================================================================================
