----------------------------- MODULE Evolution -----------------------------
(***************************************************************************)
(* OriginAgent/evolution: modules and state branches.  A branch needs the  *)
(* MODULE_VERIFIED event of its artifact; an artifact with an active branch*)
(* is not activated.  The two sides use different locks.                   *)
(***************************************************************************)
EXTENDS ModuleActivation, StateBranch

vars == <<activationVars, branchVars>>

\* _has_active_state_branch
Branched(d) == \E b \in Branches : branch[b].status = "active" /\ d \in branch[b].of

Init == ActivationInit /\ BranchInit

Next ==
    \/ ActivationStep(Branched) /\ UNCHANGED branchVars
    \/ BranchStep(verified) /\ UNCHANGED activationVars

Spec == Init /\ [][Next]_vars

TypeOK == ActivationTypeOK /\ BranchTypeOK
=============================================================================
