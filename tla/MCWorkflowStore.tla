--------------------------- MODULE MCWorkflowStore ---------------------------
(***************************************************************************)
(* WorkflowStore for TLC: one investigation with two findings (whose       *)
(* requests meet on the investigation's row) and one without any.          *)
(***************************************************************************)
EXTENDS WorkflowStore, TLC

CONSTANTS a1, a2, i1, i2

MCInvOf == (a1 :> i1) @@ (a2 :> i1)
=============================================================================
