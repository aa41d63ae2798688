------------------------- MODULE MCTurnCheckpoint -------------------------
(***************************************************************************)
(* TurnCheckpoint on a small instance: the cfg files give the bounds.      *)
(***************************************************************************)
EXTENDS TurnCheckpoint

\* Any two of the faults, failed saves and follow-ups that the bounds allow, and
\* two tool calls that were executed, in one turn or two.
Focus == /\ used.faults + used.saveFails + used.followUps <= 2
         /\ Cardinality(execd) <= 2
=============================================================================
