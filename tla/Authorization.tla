--------------------------- MODULE Authorization ---------------------------
(***************************************************************************)
(* Actions and tool approvals on the one file of confirmations: either     *)
(* side may answer, expire or retry a question of the other.               *)
(***************************************************************************)
EXTENDS ActionRuntime, ToolApproval

vars == <<confVars, actionVars, approvalVars>>

Init == ConfInit /\ ActionInit /\ ApprovalInit

Next ==
    \/ ConfStep /\ UNCHANGED <<actionVars, approvalVars>>
    \/ ActionStep /\ UNCHANGED approvalVars
    \/ ApprovalStep /\ UNCHANGED actionVars

Spec == Init /\ [][Next]_vars

TypeOK == ConfTypeOK /\ ActionTypeOK /\ ApprovalTypeOK
=============================================================================
