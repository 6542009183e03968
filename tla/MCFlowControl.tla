----------------------------- MODULE MCFlowControl -----------------------------
(* FlowControl on small instances; the constants are set in the .cfg files. *)
EXTENDS FlowControl
================================================================================
