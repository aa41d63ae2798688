-------------------------- MODULE EvolutionProofs --------------------------
(***************************************************************************)
(* TLAPS proofs about Evolution: the activation of modules and the         *)
(* branches of the fact store, for every set of artifacts, targets, facts  *)
(* and branches and every number of interruptions.                         *)
(***************************************************************************)
EXTENDS Evolution, TLAPS

-----------------------------------------------------------------------------
(* Modules: where an operation is, and what it has written *)

\* Who holds the activation lock works on a digest.
OpShape ==
    /\ site \in [Targets -> [state : SiteStates, holds : Digests \cup {NoDigest}]]
    /\ meta \in [Digests -> Statuses]
    /\ ledger \in [Digests -> Statuses]
    /\ op \in [at : Points, d : Digests \cup {NoDigest}]
    /\ op.at = "idle" => op.d = NoDigest
    /\ op.at # "idle" => op.d \in Digests
    /\ verified \subseteq Digests
    /\ interruptions \in Nat
    /\ byHand \in Nat

\* What the operation has read in, or written to, activation.json.
OpStatus ==
    /\ op.at \in {"recorded", "undoing", "deactivated", "undone", "undo_failed"}
         => meta[op.d] = "active"
    /\ op.at \in {"copying", "copied", "enabled"} => meta[op.d] # "active"
    /\ op.at = "cleaned" => meta[op.d] = "rolled_back"
    /\ op.at \in {"dirty", "torn_down", "tearing"} => meta[op.d] = "dirty_rollback"

\* The ledger is behind, or ahead of, activation.json only at the points
\* between the two writes of an operation.
BetweenWrites == {"recorded", "cleaned", "dirty", "torn_down", "tearing"}

LedgerInv ==
    /\ \A d \in Digests \ torn :
          (op.d = d /\ op.at \in BetweenWrites) \/ ledger[d] = meta[d]
    /\ op.at = "torn_down" => ledger[op.d] = "rolled_back"
    /\ op.at = "tearing" => ledger[op.d] = "dirty_rollback"

ActivationInv == OpShape /\ OpStatus /\ LedgerInv

\* The state of the target while it is copied, enabled or undone: nothing but
\* the operation's own version is, or says it is, active there.
Here(d) == Target[d] = Target[op.d]
Backed(d) == meta[d] = "active" <=> Is(d).state = "active" /\ Is(d).holds = d
NoneActiveHere(S) == \A d \in Digests \ S : Here(d) => meta[d] # "active"

SiteInv ==
    /\ \A d \in Digests :
          \/ /\ op.at \in {"copied", "enabled", "deactivated", "undone", "undo_failed"}
             /\ Here(d)
          \/ Backed(d)
    /\ op.at = "copying" => site[Target[op.d]].state = "absent"
    /\ op.at = "copied" => /\ site[Target[op.d]].state = "proposed"
                           /\ site[Target[op.d]].holds = op.d
                           /\ NoneActiveHere({})
    /\ op.at = "enabled" => /\ site[Target[op.d]].state = "active"
                            /\ site[Target[op.d]].holds = op.d
                            /\ NoneActiveHere({})
    /\ op.at \in {"deactivated", "undone", "undo_failed"} =>
          /\ site[Target[op.d]].state # "active"
          /\ NoneActiveHere({op.d})

BackedInv == interruptions = 0 /\ byHand = 0 => SiteInv

-----------------------------------------------------------------------------
(* ActivationInv is inductive *)

LEMMA ActivationInitially == ActivationInit => ActivationInv /\ BackedInv
  <1> SUFFICES ASSUME ActivationInit PROVE ActivationInv /\ BackedInv
    OBVIOUS
  <1>1. OpShape
    BY ActivationAssumption
    DEF ActivationInit, OpShape, Idle, Empty, SiteStates, Statuses, Points
  <1>2. OpStatus /\ LedgerInv
    BY DEF ActivationInit, OpStatus, LedgerInv, Idle
  <1>3. \A d \in Digests : Backed(d)
    <2>1. \A d \in Digests : Target[d] \in Targets
      BY DEF Targets
    <2> QED BY <2>1 DEF ActivationInit, Backed, Is, Empty
  <1>4. SiteInv
    BY <1>3 DEF ActivationInit, SiteInv, Idle
  <1> QED BY <1>1, <1>2, <1>4 DEF ActivationInv, BackedInv

\* The shape of the state, action by action.
LEMMA OpShapeStep ==
    ASSUME OpShape, ActivationStep(Branched)
    PROVE  OpShape'
  <1> USE DEF OpShape, SiteStates, Statuses, Points, Idle, Empty
  <1>t. \A d \in Digests : Target[d] \in Targets
    BY DEF Targets
  <1>1. ASSUME NEW d \in Digests, StageChecks(d) \/ StageEnds(d) \/ Verify(d)
        PROVE  OpShape'
    BY <1>1 DEF StageChecks, StageEnds, Verify
  <1>2. ASSUME NEW d \in Digests,
               AlreadyActive(d) \/ LogActive(d) \/ AlreadyRolledBack(d) \/ LogUndo(d)
        PROVE  OpShape'
    BY <1>2 DEF AlreadyActive, LogActive, AlreadyRolledBack, LogUndo, Log, workVars
  <1>3. ASSUME NEW d \in Digests, ActivateBegins(d, Branched(d)) \/ RollbackBegins(d)
        PROVE  OpShape'
    BY <1>3 DEF ActivateBegins, RollbackBegins, Goto, workVars
  <1>4. ASSUME NEW d \in Digests, Copy(d) PROVE OpShape'
    BY <1>4, <1>t DEF Copy, Put, Goto, workVars
  <1>5. ASSUME NEW d \in Digests, Enable(d) PROVE OpShape'
    BY <1>5, <1>t DEF Enable, Put, SetState, Goto, workVars
  <1>6. ASSUME NEW d \in Digests, RecordActive(d) PROVE OpShape'
    BY <1>6 DEF RecordActive, Record, Goto, workVars
  <1>7. ASSUME NEW d \in Digests, Undo(d) PROVE OpShape'
    BY <1>7, <1>t DEF Undo, SetState, Goto, workVars
  <1>8. ASSUME NEW d \in Digests, Uninstall(d) PROVE OpShape'
    BY <1>8, <1>t DEF Uninstall, Put, Goto, workVars
  <1>9. ASSUME NEW d \in Digests, RecordUndo(d) PROVE OpShape'
    BY <1>9 DEF RecordUndo, Record, Goto, workVars
  <1>10. ASSUME NEW d \in Digests, TeardownLogs(d) PROVE OpShape'
    BY <1>10 DEF TeardownLogs, Goto, workVars
  <1>11. ASSUME NEW d \in Digests, TeardownRecords(d) PROVE OpShape'
    BY <1>11 DEF TeardownRecords, Record, workVars
  <1>12. ASSUME NEW d \in Digests, ForceClean(d) PROVE OpShape'
    BY <1>12 DEF ForceClean, Record, Goto, workVars
  <1>13. ASSUME NEW t \in Targets, ChangeByHand(t) PROVE OpShape'
    BY <1>13 DEF ChangeByHand
  <1>14. ASSUME Interrupted PROVE OpShape'
    BY <1>14 DEF Interrupted
  <1> QED
    BY <1>1, <1>2, <1>3, <1>4, <1>5, <1>6, <1>7, <1>8, <1>9, <1>10, <1>11, <1>12,
       <1>13, <1>14
    DEF ActivationStep

\* Every action finds activation.json and the ledger as OpStatus and LedgerInv
\* say, and leaves them so.
LEMMA LedgerStep ==
    ASSUME ActivationInv, OpShape', ActivationStep(Branched)
    PROVE  OpStatus' /\ LedgerInv'
  <1> USE DEF ActivationInv, OpShape, OpStatus, LedgerInv, BetweenWrites, Idle
  <1>1. ASSUME NEW d \in Digests, StageChecks(d) \/ StageEnds(d) \/ Verify(d)
        PROVE  OpStatus' /\ LedgerInv'
    BY <1>1 DEF StageChecks, StageEnds, Verify
  <1>2. ASSUME NEW d \in Digests,
               AlreadyActive(d) \/ LogActive(d) \/ AlreadyRolledBack(d) \/ LogUndo(d)
        PROVE  OpStatus' /\ LedgerInv'
    BY <1>2 DEF AlreadyActive, LogActive, AlreadyRolledBack, LogUndo, Log, At
  <1>3. ASSUME NEW d \in Digests, ActivateBegins(d, Branched(d)) \/ RollbackBegins(d)
        PROVE  OpStatus' /\ LedgerInv'
    BY <1>3 DEF ActivateBegins, RollbackBegins, Goto
  <1>4. ASSUME NEW d \in Digests, Copy(d) \/ Enable(d)
        PROVE  OpStatus' /\ LedgerInv'
    BY <1>4 DEF Copy, Enable, Goto, At
  <1>5. ASSUME NEW d \in Digests, RecordActive(d) PROVE OpStatus' /\ LedgerInv'
    BY <1>5 DEF RecordActive, Record, Goto, At
  <1>6. ASSUME NEW d \in Digests, Undo(d) \/ Uninstall(d)
        PROVE  OpStatus' /\ LedgerInv'
    BY <1>6 DEF Undo, Uninstall, Goto, At
  <1>7. ASSUME NEW d \in Digests, RecordUndo(d) PROVE OpStatus' /\ LedgerInv'
    BY <1>7 DEF RecordUndo, Record, Goto, At
  <1>8. ASSUME NEW d \in Digests, TeardownLogs(d) PROVE OpStatus' /\ LedgerInv'
    BY <1>8 DEF TeardownLogs, Goto
  <1>9. ASSUME NEW d \in Digests, TeardownRecords(d) PROVE OpStatus' /\ LedgerInv'
    BY <1>9 DEF TeardownRecords, Record, At
  <1>10. ASSUME NEW d \in Digests, ForceClean(d) PROVE OpStatus' /\ LedgerInv'
    BY <1>10 DEF ForceClean, Record, Goto
  <1>11. ASSUME NEW t \in Targets, ChangeByHand(t) PROVE OpStatus' /\ LedgerInv'
    BY <1>11 DEF ChangeByHand
  <1>12. ASSUME Interrupted PROVE OpStatus' /\ LedgerInv'
    BY <1>12 DEF Interrupted
  <1> QED
    BY <1>1, <1>2, <1>3, <1>4, <1>5, <1>6, <1>7, <1>8, <1>9, <1>10, <1>11, <1>12
    DEF ActivationStep

\* As long as no operation was interrupted and nobody interfered, the target
\* is as the operation under way left it.
LEMMA SiteStep ==
    ASSUME ActivationInv, SiteInv, ActivationInv',
           interruptions' = 0, byHand' = 0, ActivationStep(Branched)
    PROVE  SiteInv'
  <1>t. \A d \in Digests : Target[d] \in Targets
    BY DEF Targets
  <1>o. OpShape /\ OpStatus
    BY DEF ActivationInv
  <1> DEFINE Same == UNCHANGED <<site, meta>>
  <1>1. ASSUME Same, UNCHANGED op PROVE SiteInv'
    BY <1>1 DEF SiteInv, Backed, Here, Is, NoneActiveHere
  <1>2. ASSUME Same, op' = Idle,
               op.at \in {"idle", "copying", "recorded", "cleaned", "dirty",
                          "torn_down", "tearing"}
        PROVE  SiteInv'
    BY <1>2, <1>o DEF SiteInv, Backed, Here, Is, Idle
  <1>3. ASSUME NEW d \in Digests, StageChecks(d) \/ StageEnds(d) \/ Verify(d)
        PROVE  SiteInv'
    BY <1>1, <1>3 DEF StageChecks, StageEnds, Verify
  <1>4. ASSUME NEW d \in Digests,
               AlreadyActive(d) \/ LogActive(d) \/ AlreadyRolledBack(d) \/ LogUndo(d)
        PROVE  SiteInv'
    BY <1>2, <1>4
    DEF AlreadyActive, LogActive, AlreadyRolledBack, LogUndo, Log, At, Idle
  <1>5. ASSUME NEW d \in Digests, ActivateBegins(d, Branched(d)) \/ RollbackBegins(d)
        PROVE  SiteInv'
    BY <1>5, <1>o
    DEF ActivateBegins, RollbackBegins, Goto, SiteInv, Backed, Here, Is, Idle
  <1>6. ASSUME NEW d \in Digests, Copy(d) PROVE SiteInv'
    <2>1. op.at = "copying" /\ op.d = d /\ UNCHANGED meta
      BY <1>6 DEF Copy, At
    <2>2. site[Target[d]].state = "absent" /\ \A e \in Digests : Backed(e)
      BY <2>1 DEF SiteInv
    <2>3. \A e \in Digests : Target[e] = Target[d] => meta[e] # "active"
      BY <2>2 DEF Backed, Is
    <2>4. CASE UNCHANGED site /\ op' = Idle
      BY <2>1, <2>4, <1>2
    <2>5. CASE Put(d, [state |-> "proposed", holds |-> d])
      <3>1. /\ site'[Target[d]].state = "proposed" /\ site'[Target[d]].holds = d
            /\ \A e \in Digests : Target[e] # Target[d] => Is(e)' = Is(e)
        BY <2>5, <1>o, <1>t DEF Put, Is, OpShape
      <3>2. \A e \in Digests : Backed(e)'
        BY <3>1, <2>1, <2>2, <2>3 DEF Backed, Is
      <3>3. op' = Idle \/ op' = [at |-> "copied", d |-> d]
        BY <1>6 DEF Copy, Goto
      <3> QED BY <3>1, <3>2, <3>3, <2>1, <2>3 DEF SiteInv, Idle, NoneActiveHere, Here
    <2> QED BY <1>6, <2>4, <2>5 DEF Copy
  <1>7. ASSUME NEW d \in Digests, Enable(d) PROVE SiteInv'
    <2>1. op.at = "copied" /\ op.d = d /\ UNCHANGED meta
      BY <1>7 DEF Enable, At
    <2>2. /\ site[Target[d]].state = "proposed" /\ site[Target[d]].holds = d
          /\ \A e \in Digests : Target[e] = Target[d] => meta[e] # "active"
          /\ \A e \in Digests : Target[e] = Target[d] \/ Backed(e)
      BY <2>1 DEF SiteInv, Here, NoneActiveHere
    <2>3. \A e \in Digests : Target[e] # Target[d] => Is(e)' = Is(e)
      BY <1>7, <1>o, <1>t DEF Enable, Put, SetState, Is, OpShape
    <2>4. CASE Is(d).state = "proposed" /\ SetState(d, "active") /\ Goto("enabled", d)
      <3>1. site'[Target[d]].state = "active" /\ site'[Target[d]].holds = d
        BY <2>2, <2>4, <1>o, <1>t DEF SetState, Is, OpShape
      <3>2. op' = [at |-> "enabled", d |-> d]
        BY <2>4 DEF Goto
      <3> QED BY <3>1, <3>2, <2>1, <2>2, <2>3 DEF SiteInv, Backed, Here, NoneActiveHere
    <2>5. CASE op' = Idle /\ (\/ Put(d, Empty)
                             \/ SetState(d, "deprecated")
                             \/ UNCHANGED site)
      <3>1. site'[Target[d]].state # "active"
        BY <2>2, <2>5, <1>o, <1>t DEF Put, SetState, Empty, OpShape
      <3>2. \A e \in Digests : Backed(e)'
        BY <3>1, <2>1, <2>2, <2>3 DEF Backed, Is
      <3> QED BY <3>2, <2>5 DEF SiteInv, Idle
    <2> QED BY <1>7, <2>4, <2>5 DEF Enable
  <1>8. ASSUME NEW d \in Digests, RecordActive(d) PROVE SiteInv'
    <2>1. /\ op.at = "enabled" /\ op.d = d /\ UNCHANGED site
          /\ op' = [at |-> "recorded", d |-> d]
          /\ meta' = [meta EXCEPT ![d] = "active"]
      BY <1>8 DEF RecordActive, At, Goto, Record
    <2>2. /\ site[Target[d]].state = "active" /\ site[Target[d]].holds = d
          /\ \A e \in Digests : Target[e] = Target[d] => meta[e] # "active"
          /\ \A e \in Digests : Target[e] = Target[d] \/ Backed(e)
      BY <2>1 DEF SiteInv, Here, NoneActiveHere
    <2>3. \A e \in Digests : Backed(e)'
      BY <2>1, <2>2, <1>o DEF Backed, Is, OpShape
    <2> QED BY <2>1, <2>3 DEF SiteInv
  <1>9. ASSUME NEW d \in Digests, Undo(d) PROVE SiteInv'
    <2>1. op.at = "undoing" /\ op.d = d /\ UNCHANGED meta /\ meta[d] = "active"
      BY <1>9, <1>o DEF Undo, At, OpStatus
    <2>2. /\ site[Target[d]].state = "active" /\ site[Target[d]].holds = d
          /\ \A e \in Digests : Backed(e)
      BY <2>1 DEF SiteInv, Backed, Is
    <2>3. \A e \in Digests : Target[e] # Target[d] => Is(e)' = Is(e)
      BY <1>9, <1>o, <1>t DEF Undo, SetState, Is, OpShape
    <2>4. \A e \in Digests \ {d} : Target[e] = Target[d] => meta[e] # "active"
      BY <2>2 DEF Backed, Is
    <2>5. /\ site'[Target[d]].state # "active"
          /\ op'.at \in {"undone", "deactivated"} /\ op'.d = d
      BY <2>2, <1>9, <1>o, <1>t DEF Undo, SetState, Goto, Is, OpShape
    <2> QED BY <2>1, <2>2, <2>3, <2>4, <2>5
            DEF SiteInv, Backed, Here, NoneActiveHere
  <1>10. ASSUME NEW d \in Digests, Uninstall(d) PROVE SiteInv'
    <2>1. op.at = "deactivated" /\ op.d = d /\ UNCHANGED meta
      BY <1>10 DEF Uninstall, At
    <2>2. /\ site[Target[d]].state # "active"
          /\ \A e \in Digests \ {d} : Target[e] = Target[d] => meta[e] # "active"
          /\ \A e \in Digests : Target[e] = Target[d] \/ Backed(e)
      BY <2>1 DEF SiteInv, Here, NoneActiveHere
    <2>3. \A e \in Digests : Target[e] # Target[d] => Is(e)' = Is(e)
      BY <1>10, <1>o, <1>t DEF Uninstall, Put, Is, OpShape
    <2>4. /\ site'[Target[d]].state # "active"
          /\ op'.at \in {"undone", "undo_failed"} /\ op'.d = d
      BY <2>2, <1>10, <1>o, <1>t DEF Uninstall, Put, Goto, Empty, OpShape
    <2> QED BY <2>1, <2>2, <2>3, <2>4 DEF SiteInv, Backed, Here, NoneActiveHere
  <1>11. ASSUME NEW d \in Digests, RecordUndo(d) PROVE SiteInv'
    <2>1. /\ op.at \in {"undone", "undo_failed"} /\ op.d = d /\ UNCHANGED site
          /\ op'.at \in {"cleaned", "dirty"}
          /\ \A e \in Digests \ {d} : meta'[e] = meta[e]
          /\ meta'[d] # "active"
      BY <1>11, <1>o DEF RecordUndo, At, Goto, Record, OpShape
    <2>2. /\ site[Target[d]].state # "active"
          /\ \A e \in Digests \ {d} : Target[e] = Target[d] => meta[e] # "active"
          /\ \A e \in Digests : Target[e] = Target[d] \/ Backed(e)
      BY <2>1 DEF SiteInv, Here, NoneActiveHere
    <2>3. \A e \in Digests : Backed(e)'
      BY <2>1, <2>2 DEF Backed, Is
    <2> QED BY <2>1, <2>3 DEF SiteInv
  <1>12. ASSUME NEW d \in Digests, TeardownLogs(d) PROVE SiteInv'
    BY <1>12, <1>o DEF TeardownLogs, Goto, Idle, SiteInv, Backed, Is, Here
  <1>13. ASSUME NEW d \in Digests, TeardownRecords(d) \/ ForceClean(d)
         PROVE  SiteInv'
    <2>1. /\ op.at \in {"idle", "torn_down", "tearing"}
          /\ op'.at \in {"idle", "cleaned"}
          /\ UNCHANGED site
          /\ \A e \in Digests \ {d} : meta'[e] = meta[e]
          /\ meta[d] = "dirty_rollback" /\ meta'[d] # "active"
      BY <1>13, <1>o
      DEF TeardownRecords, ForceClean, At, Goto, Record, Idle, OpShape, OpStatus
    <2>2. \A e \in Digests : Backed(e)
      BY <2>1 DEF SiteInv
    <2>3. \A e \in Digests : Backed(e)'
      BY <2>1, <2>2 DEF Backed, Is
    <2> QED BY <2>1, <2>3 DEF SiteInv
  <1>14. ASSUME NEW t \in Targets, ChangeByHand(t) PROVE FALSE
    BY <1>14, <1>o DEF ChangeByHand, OpShape
  <1>15. ASSUME Interrupted PROVE FALSE
    BY <1>15, <1>o DEF Interrupted, OpShape
  <1> QED
    BY <1>3, <1>4, <1>5, <1>6, <1>7, <1>8, <1>9, <1>10, <1>11, <1>12, <1>13,
       <1>14, <1>15
    DEF ActivationStep

\* The two counters of disturbances only grow.
LEMMA DisturbancesGrow ==
    ASSUME OpShape, ActivationStep(Branched), interruptions' = 0, byHand' = 0
    PROVE  interruptions = 0 /\ byHand = 0
  <1>1. ASSUME NEW d \in Digests, StageChecks(d) \/ StageEnds(d) \/ Verify(d)
        PROVE  interruptions' = interruptions /\ byHand' = byHand
    BY <1>1 DEF StageChecks, StageEnds, Verify
  <1>2. ASSUME UNCHANGED workVars
        PROVE  interruptions' = interruptions /\ byHand' = byHand
    BY <1>2 DEF workVars
  <1>3. ASSUME NEW t \in Targets, ChangeByHand(t) PROVE FALSE
    BY <1>3 DEF ChangeByHand, OpShape
  <1>4. ASSUME Interrupted PROVE FALSE
    BY <1>4 DEF Interrupted, OpShape
  <1>5. \/ interruptions' = interruptions /\ byHand' = byHand
        \/ UNCHANGED workVars
    BY <1>1, <1>3, <1>4
    DEF ActivationStep, AlreadyActive, ActivateBegins, Copy, Enable, RecordActive,
        LogActive, AlreadyRolledBack, RollbackBegins, Undo, Uninstall, RecordUndo,
        LogUndo, TeardownLogs, TeardownRecords, ForceClean
  <1> QED BY <1>2, <1>5

LEMMA ActivationInvariant == Spec => [](ActivationInv /\ BackedInv)
  <1>1. Init => ActivationInv /\ BackedInv
    BY ActivationInitially DEF Init
  <1>2. ActivationInv /\ BackedInv /\ [Next]_vars => (ActivationInv /\ BackedInv)'
    <2> SUFFICES ASSUME ActivationInv, BackedInv, [Next]_vars
                 PROVE  (ActivationInv /\ BackedInv)'
      OBVIOUS
    <2>1. CASE ActivationStep(Branched)
      <3>1. ActivationInv'
        BY <2>1, OpShapeStep, LedgerStep DEF ActivationInv
      <3>2. ASSUME interruptions' = 0, byHand' = 0 PROVE SiteInv'
        <4>1. SiteInv
          BY <2>1, <3>2, DisturbancesGrow DEF BackedInv, ActivationInv
        <4> QED BY <2>1, <3>1, <3>2, <4>1, SiteStep
      <3> QED BY <3>1, <3>2 DEF BackedInv
    <2>2. CASE UNCHANGED activationVars
      BY <2>2 DEF activationVars, ActivationInv, OpShape, OpStatus, LedgerInv,
         BackedInv, SiteInv, Backed, Is, Here, NoneActiveHere
    <2> QED BY <2>1, <2>2 DEF Next, vars
  <1> QED BY <1>1, <1>2, PTL DEF Spec

\* activation.json and the ledger, written one after the other in either
\* order, agree between operations on every version whose last operation was
\* not interrupted.
THEOREM LedgerFollows == Spec => []LedgerAgrees
  <1>1. ActivationInv => LedgerAgrees
    BY DEF ActivationInv, LedgerInv, LedgerAgrees, Idle, BetweenWrites
  <1> QED BY <1>1, ActivationInvariant, PTL

\* Without interruptions and manual changes, activation.json says active
\* exactly for the version enabled in the workspace: every partial failure of
\* activate and rollback is undone or recorded.
THEOREM ActiveBacked == Spec => []ActiveIsBacked
  <1>1. ASSUME OpShape, NEW d \in Digests
        PROVE  Is(d) = [state |-> "active", holds |-> d]
                 <=> Is(d).state = "active" /\ Is(d).holds = d
    <2>1. Is(d) \in [state : SiteStates, holds : Digests \cup {NoDigest}]
      BY <1>1 DEF OpShape, Is, Targets
    <2> QED BY <2>1
  <1>2. ActivationInv /\ BackedInv => ActiveIsBacked
    BY <1>1 DEF ActivationInv, BackedInv, SiteInv, ActiveIsBacked, Backed, Idle
  <1> QED BY <1>2, ActivationInvariant, PTL

-----------------------------------------------------------------------------
(* Branches of the fact store *)

\* A later version of a fact: it incorporates at least the same updates, and a
\* deprecation is final.
Grows(v, w) == v.by \subseteq w.by /\ (v.deprecated => w.deprecated)

BranchRecord ==
    [status : {"none", "active", "merged", "discarded"}, of : SUBSET Digests,
     base : [Facts -> Version], overlay : [Facts -> Version], tombs : SUBSET Facts]

BranchShape ==
    /\ stable \in [Facts -> Version]
    /\ branch \in [Branches -> BranchRecord]
    /\ merging \in [who : SUBSET Branches, left : SUBSET Facts]
    /\ updates \in 0..MaxUpdates

\* A branch is based on a version stable once had, its own versions go on from
\* there, and what it deletes exists.
WellBased(b) ==
    \A f \in Facts :
        /\ branch[b].status = "active" => Grows(branch[b].base[f], stable[f])
        /\ branch[b].status = "active" /\ Exists(branch[b].overlay[f])
             => Grows(branch[b].base[f], branch[b].overlay[f])
        /\ f \in branch[b].tombs => Exists(stable[f])

\* What of the branch has arrived in the fact store.
Arrived(b, f) ==
    /\ branch[b].overlay[f].by \subseteq stable[f].by
    /\ f \in branch[b].tombs => stable[f].deprecated

\* The merge under way: what it has yet to write goes on from stable, what it
\* has written is there.
MergeInv ==
    \A b \in Branches : merging.who = {b} =>
        \A f \in Facts :
            /\ f \in merging.left /\ Exists(branch[b].overlay[f])
                 => Grows(stable[f], branch[b].overlay[f])
            /\ f \notin merging.left => Arrived(b, f)

\* A merge that is over is there.
MergedInv ==
    \A b \in Branches : branch[b].status = "merged" => \A f \in Facts : Arrived(b, f)

BranchInv ==
    /\ BranchShape
    /\ \A b \in Branches : WellBased(b)
    /\ MergeInv
    /\ MergedInv

\* Grows is a preorder, and what has arrived stays as stable grows.
LEMMA GrowsFacts ==
    /\ \A v : Grows(v, v)
    /\ \A u, v, w : Grows(u, v) /\ Grows(v, w) => Grows(u, w)
    /\ \A u, v : Grows(u, v) /\ Exists(u) => Exists(v)
  BY DEF Grows, Exists

\* An update makes a later version.
LEMMA UpdateGrows ==
    ASSUME BranchShape, updates < MaxUpdates, NEW v \in Version
    PROVE  /\ Updated(v) \in Version
           /\ Grows(v, Updated(v))
           /\ updates + 1 \in 0..MaxUpdates
  <1>1. updates \in Nat /\ updates + 1 \in 0..MaxUpdates
    BY BranchAssumption DEF BranchShape
  <1>2. v.by \in SUBSET (0..MaxUpdates) /\ v.deprecated \in BOOLEAN
    BY DEF Version
  <1>3. Updated(v).by = v.by \cup {updates + 1} /\ Updated(v).deprecated = v.deprecated
    BY DEF Updated, Version
  <1>4. Updated(v) \in Version
    BY <1>1, <1>2 DEF Updated, Version
  <1> QED BY <1>1, <1>3, <1>4 DEF Grows

LEMMA BranchInitially == BranchInit => BranchInv
  <1> SUFFICES ASSUME BranchInit PROVE BranchInv
    OBVIOUS
  <1>1. {Absent, [by |-> {0}, deprecated |-> FALSE]} \subseteq Version
    BY BranchAssumption DEF Absent, Version
  <1>2. BranchShape
    <2>1. [f \in Facts |-> Absent] \in [Facts -> Version]
      BY <1>1
    <2>2. Unborn \in BranchRecord
      BY <2>1 DEF Unborn, BranchRecord
    <2>3. stable \in [Facts -> Version]
      BY <1>1 DEF BranchInit
    <2>4. NotMerging \in [who : SUBSET Branches, left : SUBSET Facts]
      BY DEF NotMerging
    <2> QED BY <2>2, <2>3, <2>4, BranchAssumption DEF BranchInit, BranchShape
  <1>3. \A b \in Branches : branch[b].status = "none" /\ branch[b].tombs = {}
    BY DEF BranchInit, Unborn
  <1> QED BY <1>2, <1>3
          DEF BranchInv, WellBased, MergeInv, MergedInv, BranchInit, NotMerging

\* A step that only changes stable, for the better.
LEMMA GrowingStep ==
    ASSUME BranchInv, BranchShape', UNCHANGED branch,
           \A f \in Facts : Grows(stable[f], stable'[f])
    PROVE  (\A b \in Branches : WellBased(b)') /\ MergedInv'
  <1>1. ASSUME NEW b \in Branches PROVE WellBased(b)'
    <2>1. WellBased(b)
      BY DEF BranchInv
    <2> QED BY <2>1, GrowsFacts DEF WellBased
  <1>2. MergedInv'
    <2>1. MergedInv
      BY DEF BranchInv
    <2> QED BY <2>1 DEF MergedInv, Arrived, Grows
  <1> QED BY <1>1, <1>2

\* The fact store's own writers.
LEMMA StableWriter ==
    ASSUME BranchInv, NEW f \in Facts, StableUpsert(f) \/ StableDeprecate(f)
    PROVE  BranchInv' /\ \A g \in Facts : Grows(stable[g], stable'[g])
  <1>0. BranchShape /\ stable \in [Facts -> Version] /\ stable[f] \in Version
    BY DEF BranchInv, BranchShape
  <1>1. /\ UNCHANGED <<branch, merging>> /\ merging = NotMerging
        /\ stable' \in [Facts -> Version] /\ updates' \in 0..MaxUpdates
        /\ \A g \in Facts : Grows(stable[g], stable'[g])
    <2>1. CASE StableUpsert(f)
      BY <2>1, <1>0, UpdateGrows, GrowsFacts DEF StableUpsert, CanUpdate, Unlocked
    <2>2. CASE StableDeprecate(f)
      <3>1. stable'[f].deprecated = TRUE /\ stable'[f].by = stable[f].by
            /\ stable' \in [Facts -> Version]
            /\ \A g \in Facts \ {f} : stable'[g] = stable[g]
        BY <2>2, <1>0 DEF StableDeprecate, Version
      <3> QED BY <2>2, <3>1, <1>0 DEF StableDeprecate, Unlocked, Grows, BranchShape
    <2> QED BY <2>1, <2>2
  <1>2. BranchShape'
    BY <1>0, <1>1 DEF BranchShape
  <1>3. MergeInv'
    BY <1>1 DEF MergeInv, NotMerging
  <1> QED BY <1>1, <1>2, <1>3, GrowingStep DEF BranchInv

\* An operation of a branch that is, or becomes, active.
LEMMA BranchWriter ==
    ASSUME BranchInv, verified \subseteq Digests, NEW b \in Branches,
           \/ \E d \in verified : CreateBranch(b, d)
           \/ \E f \in Facts : UpsertFact(b, f) \/ DeprecateFact(b, f)
           \/ DiscardBranch(b)
    PROVE  BranchInv' /\ UNCHANGED stable
  <1>0. /\ BranchShape /\ WellBased(b) /\ branch[b].overlay \in [Facts -> Version]
        /\ branch[b].tombs \subseteq Facts
        /\ stable \in [Facts -> Version]
    BY DEF BranchInv, BranchShape, BranchRecord
  <1>1. UNCHANGED <<stable, merging>> /\ merging = NotMerging
    BY DEF CreateBranch, UpsertFact, DeprecateFact, DiscardBranch, Active, Unlocked
  <1>2. \A c \in Branches \ {b} : branch'[c] = branch[c]
    BY <1>0 DEF CreateBranch, UpsertFact, DeprecateFact, DiscardBranch, BranchShape, BranchRecord
  <1>3. ASSUME BranchShape', WellBased(b)', branch'[b].status # "merged"
        PROVE  BranchInv'
    <2>1. ASSUME NEW c \in Branches PROVE WellBased(c)'
      <3>1. CASE c = b
        BY <1>3, <3>1
      <3>2. CASE c # b
        BY <1>1, <1>2, <3>2 DEF BranchInv, WellBased
      <3> QED BY <3>1, <3>2
    <2>2. MergeInv'
      BY <1>1 DEF MergeInv, NotMerging
    <2>3. MergedInv'
      BY <1>1, <1>2, <1>3 DEF BranchInv, MergedInv, Arrived
    <2> QED BY <1>3, <2>1, <2>2, <2>3 DEF BranchInv
  <1>4. ASSUME NEW d \in verified, CreateBranch(b, d) PROVE BranchInv'
    <2>1. /\ branch'[b] = [Unborn EXCEPT !.status = "active", !.of = {d}, !.base = stable]
          /\ branch' = [branch EXCEPT ![b] = branch'[b]]
          /\ updates' = updates
      BY <1>0, <1>4 DEF CreateBranch, BranchShape
    <2>2. Absent \in Version
      BY DEF Absent, Version
    <2>3. /\ branch'[b].status = "active" /\ branch'[b].of = {d}
          /\ branch'[b].base = stable /\ branch'[b].tombs = {}
          /\ branch'[b].overlay = [f \in Facts |-> Absent]
      BY <2>1 DEF Unborn
    <2>4. branch'[b] \in BranchRecord
      <3>1. [f \in Facts |-> Absent] \in [Facts -> Version]
        BY <2>2
      <3>2. branch'[b] = [status |-> "active", of |-> {d}, base |-> stable,
                          overlay |-> [f \in Facts |-> Absent], tombs |-> {}]
        BY <2>1 DEF Unborn
      <3> QED BY <3>1, <3>2, <1>0 DEF BranchRecord
    <2>5. BranchShape'
      <3>1. branch' \in [Branches -> BranchRecord]
        BY <2>1, <2>4, <1>0 DEF BranchShape
      <3> QED BY <3>1, <2>1, <1>0, <1>1 DEF BranchShape
    <2>6. WellBased(b)'
      BY <2>3, <1>1, GrowsFacts DEF WellBased, Exists, Absent
    <2> QED BY <2>3, <2>5, <2>6, <1>3
  <1>5. ASSUME NEW f \in Facts, UpsertFact(b, f) PROVE BranchInv'
    <2> DEFINE v == Composed(b, f)
    <2>1. /\ v \in Version
          /\ v = IF Exists(branch[b].overlay[f]) THEN branch[b].overlay[f] ELSE stable[f]
      BY <1>0, <1>5 DEF UpsertFact, Composed
    <2>2. /\ branch[b].status = "active" /\ updates < MaxUpdates
          /\ branch' = [branch EXCEPT ![b].overlay[f] = Updated(v)]
          /\ updates' = updates + 1
      BY <1>5 DEF UpsertFact, CanUpdate, Active
    <2>3. Updated(v) \in Version /\ Grows(v, Updated(v)) /\ updates' \in 0..MaxUpdates
      BY <2>1, <2>2, <1>0, UpdateGrows
    <2> HIDE DEF v
    <2>4. /\ branch'[b].status = "active" /\ branch'[b].base = branch[b].base
          /\ branch'[b].tombs = branch[b].tombs
          /\ branch'[b].overlay = [branch[b].overlay EXCEPT ![f] = Updated(v)]
          /\ BranchShape'
      BY <2>2, <2>3, <1>0, <1>1 DEF BranchShape, BranchRecord
    <2>5. Grows(branch[b].base[f], v)
      BY <2>1, <2>2, <1>0 DEF WellBased
    <2>6. Grows(branch[b].base[f], Updated(v))
      BY <2>3, <2>5, GrowsFacts
    <2>7. WellBased(b)'
      BY <2>2, <2>4, <2>6, <1>0, <1>1 DEF WellBased
    <2> QED BY <2>4, <2>7, <1>3
  <1>6. ASSUME NEW f \in Facts, DeprecateFact(b, f) PROVE BranchInv'
    <2>1. branch[b].status = "active" /\ updates' = updates
      BY <1>6 DEF DeprecateFact, Active
    <2>2. CASE /\ Exists(branch[b].overlay[f])
               /\ branch' = [branch EXCEPT ![b].overlay[f].deprecated = TRUE]
      <3> DEFINE w == [branch[b].overlay[f] EXCEPT !.deprecated = TRUE]
      <3>1. w \in Version /\ w.deprecated = TRUE /\ w.by = branch[b].overlay[f].by
        BY <1>0 DEF Version
      <3>2. branch' = [branch EXCEPT ![b].overlay[f] = w]
        BY <2>2
      <3> HIDE DEF w
      <3>3. /\ branch'[b].status = "active" /\ branch'[b].base = branch[b].base
            /\ branch'[b].tombs = branch[b].tombs
            /\ branch'[b].overlay = [branch[b].overlay EXCEPT ![f] = w]
            /\ BranchShape'
        BY <3>1, <3>2, <2>1, <1>0, <1>1 DEF BranchShape, BranchRecord
      <3>4. Grows(branch[b].base[f], w)
        BY <3>1, <2>1, <2>2, <1>0 DEF WellBased, Grows
      <3>5. WellBased(b)'
        BY <3>3, <3>4, <2>1, <1>0, <1>1 DEF WellBased
      <3> QED BY <3>3, <3>5, <1>3
    <2>3. CASE /\ Exists(stable[f])
               /\ branch' = [branch EXCEPT ![b].tombs = @ \cup {f}]
      <3>1. /\ branch'[b].status = "active" /\ branch'[b].base = branch[b].base
            /\ branch'[b].tombs = branch[b].tombs \cup {f}
            /\ branch'[b].overlay = branch[b].overlay
            /\ BranchShape'
        BY <2>1, <2>3, <1>0, <1>1 DEF BranchShape, BranchRecord
      <3>2. WellBased(b)'
        BY <3>1, <2>1, <2>3, <1>0, <1>1 DEF WellBased
      <3> QED BY <3>1, <3>2, <1>3
    <2> QED BY <1>6, <2>2, <2>3 DEF DeprecateFact
  <1>7. CASE DiscardBranch(b)
    <2>1. /\ branch'[b].status = "discarded" /\ branch'[b].tombs = branch[b].tombs
          /\ BranchShape'
      BY <1>7, <1>0, <1>1 DEF DiscardBranch, BranchShape, BranchRecord
    <2>2. WellBased(b)'
      BY <2>1, <1>0, <1>1 DEF WellBased
    <2> QED BY <2>1, <2>2, <1>1, <1>3
  <1> QED BY <1>1, <1>4, <1>5, <1>6, <1>7

\* A merge starts only when no conflict is found: then every version it has
\* to write goes on from what stable holds.
LEMMA MergeStarts ==
    ASSUME BranchInv, NEW b \in Branches, MergeBegins(b)
    PROVE  BranchInv' /\ UNCHANGED stable
  <1>0. /\ BranchShape /\ WellBased(b) /\ branch[b].tombs \subseteq Facts
        /\ branch[b].overlay \in [Facts -> Version]
    BY DEF BranchInv, BranchShape, BranchRecord
  <1>1. /\ UNCHANGED <<stable, branch, updates>> /\ branch[b].status = "active"
        /\ Conflicts(b) = {}
        /\ merging' = [who |-> {b},
                       left |-> {f \in Facts : Exists(branch[b].overlay[f])}
                                \cup branch[b].tombs]
    BY DEF MergeBegins, Active
  <1>2. BranchShape'
    BY <1>0, <1>1 DEF BranchShape
  <1>3. MergeInv'
    <2> SUFFICES ASSUME NEW f \in Facts
                 PROVE  /\ f \in merging'.left /\ Exists(branch[b].overlay[f])
                             => Grows(stable[f], branch[b].overlay[f])
                        /\ f \notin merging'.left => Arrived(b, f)
      BY <1>1 DEF MergeInv, Arrived
    <2>1. ASSUME Exists(branch[b].overlay[f])
          PROVE  Grows(stable[f], branch[b].overlay[f])
      <3>1. stable[f] = branch[b].base[f] \/ stable[f] = branch[b].overlay[f]
        BY <1>1, <2>1 DEF Conflicts
      <3> QED BY <3>1, <2>1, <1>0, <1>1, GrowsFacts DEF WellBased
    <2>2. ASSUME f \notin merging'.left PROVE Arrived(b, f)
      BY <2>2, <1>1 DEF Arrived, Exists
    <2> QED BY <2>1, <2>2
  <1>4. \A c \in Branches : WellBased(c)'
    BY <1>1 DEF BranchInv, WellBased
  <1>5. MergedInv'
    BY <1>1 DEF BranchInv, MergedInv, Arrived
  <1> QED BY <1>1, <1>2, <1>3, <1>4, <1>5 DEF BranchInv

\* The write of a merge makes stable grow, and what it writes has arrived.
LEMMA MergeGoesOn ==
    ASSUME BranchInv, NEW b \in Branches, MergeWrites(b)
    PROVE  BranchInv' /\ \A g \in Facts : Grows(stable[g], stable'[g])
  <1>0. /\ BranchShape /\ WellBased(b) /\ stable \in [Facts -> Version]
        /\ branch[b].overlay \in [Facts -> Version]
        /\ merging \in [who : SUBSET Branches, left : SUBSET Facts]
    BY DEF BranchInv, BranchShape, BranchRecord
  <1>1. /\ merging.who = {b}
        /\ stable' = [f \in Facts |-> IF f \in merging.left THEN Merged(b, f)
                                                            ELSE stable[f]]
        /\ merging'.who = {b} /\ merging'.left = {}
        /\ merging' \in [who : SUBSET Branches, left : SUBSET Facts]
        /\ UNCHANGED <<branch, updates>>
    BY <1>0 DEF MergeWrites
  <1>2. ASSUME NEW f \in Facts
        PROVE  /\ stable'[f] \in Version
               /\ Grows(stable[f], stable'[f])
               /\ Arrived(b, f)'
    <2>1. CASE f \in merging.left
      <3> DEFINE v == IF Exists(branch[b].overlay[f]) THEN branch[b].overlay[f]
                                                      ELSE stable[f]
                 w == IF f \in branch[b].tombs /\ Exists(v)
                        THEN [v EXCEPT !.deprecated = TRUE] ELSE v
      <3>1. stable'[f] = w
        BY <1>1, <2>1 DEF Merged
      <3>2. Grows(stable[f], v) /\ v \in Version
        BY <1>0, <1>1, <2>1, GrowsFacts DEF BranchInv, MergeInv
      <3>3. branch[b].overlay[f].by \subseteq v.by
        BY <3>2 DEF Exists
      <3>4. f \in branch[b].tombs => Exists(v)
        BY <1>0, <3>2, GrowsFacts DEF WellBased
      <3> HIDE DEF v
      <3>5. /\ w \in Version /\ w.by = v.by
            /\ v.deprecated => w.deprecated
            /\ f \in branch[b].tombs => w.deprecated
        BY <3>2, <3>4 DEF Version
      <3> HIDE DEF w
      <3>6. Grows(stable[f], w)
        BY <3>2, <3>5 DEF Grows
      <3> QED BY <1>1, <3>1, <3>3, <3>5, <3>6 DEF Arrived
    <2>2. CASE f \notin merging.left
      <3>1. stable'[f] = stable[f]
        BY <1>1, <2>2
      <3>2. Arrived(b, f)
        BY <1>1, <2>2 DEF BranchInv, MergeInv
      <3> QED BY <1>0, <1>1, <3>1, <3>2, GrowsFacts DEF Arrived
    <2> QED BY <2>1, <2>2
  <1>3. BranchShape'
    BY <1>0, <1>1, <1>2 DEF BranchShape
  <1>4. MergeInv'
    BY <1>1, <1>2 DEF MergeInv
  <1> QED BY <1>1, <1>2, <1>3, <1>4, GrowingStep DEF BranchInv

LEMMA MergeEnds ==
    ASSUME BranchInv, (\E b \in Branches : MergeRecorded(b)) \/ MergeDies
    PROVE  BranchInv' /\ UNCHANGED stable
  <1>0. BranchShape
    BY DEF BranchInv
  <1>1. UNCHANGED <<stable, updates>> /\ merging' = NotMerging
    BY DEF MergeRecorded, MergeDies
  <1>2. MergeInv'
    BY <1>1 DEF MergeInv, NotMerging
  <1>3. NotMerging \in [who : SUBSET Branches, left : SUBSET Facts]
    BY DEF NotMerging
  <1>4. ASSUME NEW b \in Branches, MergeRecorded(b) PROVE BranchInv'
    <2>1. /\ merging.who = {b} /\ merging.left = {}
          /\ branch' = [branch EXCEPT ![b].status = "merged"]
      BY <1>4 DEF MergeRecorded
    <2>2. /\ branch'[b].status = "merged" /\ branch'[b].tombs = branch[b].tombs
          /\ branch'[b].overlay = branch[b].overlay
          /\ \A c \in Branches \ {b} : branch'[c] = branch[c]
          /\ branch' \in [Branches -> BranchRecord]
      <3>1. branch \in [Branches -> BranchRecord] /\ branch[b] \in BranchRecord
        BY <1>0 DEF BranchShape
      <3>2. /\ branch'[b] = [branch[b] EXCEPT !.status = "merged"]
            /\ \A c \in Branches \ {b} : branch'[c] = branch[c]
            /\ branch' = [branch EXCEPT ![b] = branch'[b]]
        BY <3>1, <2>1
      <3>3. /\ branch'[b] \in BranchRecord
            /\ branch'[b].status = "merged" /\ branch'[b].tombs = branch[b].tombs
            /\ branch'[b].overlay = branch[b].overlay
        BY <3>1, <3>2 DEF BranchRecord
      <3> QED BY <3>1, <3>2, <3>3
    <2>3. BranchShape'
      BY <2>2, <1>0, <1>1, <1>3 DEF BranchShape
    <2>4. ASSUME NEW c \in Branches PROVE WellBased(c)'
      <3>1. WellBased(c)
        BY DEF BranchInv
      <3>2. CASE c = b
        BY <3>1, <3>2, <2>2, <1>1 DEF WellBased
      <3>3. CASE c # b
        BY <3>1, <3>3, <2>2, <1>1 DEF WellBased
      <3> QED BY <3>2, <3>3
    <2>5. \A f \in Facts : Arrived(b, f)
      BY <2>1 DEF BranchInv, MergeInv
    <2>6. MergedInv'
      BY <2>2, <2>5, <1>1 DEF BranchInv, MergedInv, Arrived
    <2> QED BY <2>3, <2>4, <2>6, <1>2 DEF BranchInv
  <1>5. CASE MergeDies
    <2>1. UNCHANGED branch
      BY <1>5 DEF MergeDies
    <2>2. BranchShape' /\ MergedInv' /\ \A c \in Branches : WellBased(c)'
      BY <2>1, <1>0, <1>1, <1>3 DEF BranchInv, BranchShape, MergedInv, Arrived, WellBased
    <2> QED BY <2>2, <1>1, <1>2 DEF BranchInv
  <1> QED BY <1>1, <1>4, <1>5

LEMMA BranchesStep ==
    ASSUME BranchInv, verified \subseteq Digests, BranchStep(verified)
    PROVE  BranchInv' /\ \A f \in Facts : Grows(stable[f], stable'[f])
  <1>1. ASSUME UNCHANGED stable PROVE \A f \in Facts : Grows(stable[f], stable'[f])
    BY <1>1, GrowsFacts
  <1> QED
    BY <1>1, StableWriter, BranchWriter, MergeStarts, MergeGoesOn, MergeEnds
    DEF BranchStep

\* Every step of the composition, the module's side included.
LEMMA EvolutionStep ==
    ASSUME BranchInv, verified \subseteq Digests, [Next]_vars
    PROVE  BranchInv' /\ \A f \in Facts : Grows(stable[f], stable'[f])
  <1>1. CASE BranchStep(verified)
    BY <1>1, BranchesStep
  <1>2. CASE UNCHANGED branchVars
    <2>1. UNCHANGED <<stable, branch, merging, updates>>
      BY <1>2 DEF branchVars
    <2>2. BranchShape' /\ MergeInv' /\ MergedInv' /\ \A b \in Branches : WellBased(b)'
      BY <2>1
      DEF BranchInv, BranchShape, MergeInv, MergedInv, Arrived, WellBased
    <2> QED BY <2>1, <2>2, GrowsFacts DEF BranchInv
  <1> QED BY <1>1, <1>2 DEF Next, vars

LEMMA BranchInvariant == Spec => []BranchInv
  <1>1. Init => BranchInv
    BY BranchInitially DEF Init
  <1>2. ActivationInv /\ BranchInv /\ [Next]_vars => BranchInv'
    BY EvolutionStep DEF ActivationInv, OpShape
  <1> QED BY <1>1, <1>2, ActivationInvariant, PTL DEF Spec

\* A branch whose branch.json says merged has all its versions and deletions
\* in the fact store, wherever earlier merges died and whatever came after.
THEOREM MergeIsComplete == Spec => []MergedIsThere
  <1>1. BranchInv => MergedIsThere
    BY DEF BranchInv, MergedInv, Arrived, MergedIsThere
  <1> QED BY <1>1, BranchInvariant, PTL

\* No interleaving of writers, branches, conflicts, half merges and repeated
\* merges takes an update out of a fact or revives a deprecated one.
THEOREM MergeLosesNothing == Spec => NoUpdateLost
  <1>1. ActivationInv /\ BranchInv /\ [Next]_vars
          => [\A f \in Facts : /\ stable[f].by \subseteq stable'[f].by
                               /\ stable[f].deprecated => stable'[f].deprecated]_stable
    BY EvolutionStep DEF ActivationInv, OpShape, Grows
  <1> QED BY <1>1, ActivationInvariant, BranchInvariant, PTL DEF Spec, NoUpdateLost
=============================================================================
