-------------------------- MODULE ModuleActivation --------------------------
(***************************************************************************)
(* OriginAgent/evolution/{manager,activation,recovery}.py: staging,        *)
(* verification, activation, rollback and recovery of evolution modules.   *)
(*                                                                         *)
(* Activation, rollback and recovery hold .evolution_activation.lock; stage*)
(* and verify hold .evolution_manager.lock.  Each is a sequence of writes  *)
(* to different places (workspace, activation.json, ledger), and an        *)
(* exception that escapes, or a crash, may stop it between any two.  The   *)
(* target of a module is a directory named after its module_id, whichever  *)
(* version (digest) it holds.                                              *)
(***************************************************************************)
EXTENDS Naturals, FiniteSets

CONSTANTS
    Digests,          \* artifact digests
    Target,           \* [Digests -> Targets]: skills/<id> or domain_packs/<id>
    Skills,           \* the targets that are skills; the others are packs
    NoDigest,
    MaxInterruptions, \* bound: operations stopped half way
    MaxByHand         \* bound: changes of the workspace made by hand

Targets == {Target[d] : d \in Digests}

ASSUME ActivationAssumption ==
    /\ NoDigest \notin Digests
    /\ Skills \subseteq Targets
    /\ MaxInterruptions \in Nat /\ MaxByHand \in Nat

VARIABLES
    staged,     \* digests with a valid staging directory
    verified,   \* digests with a MODULE_VERIFIED event
    site,       \* [Targets -> what the workspace holds there]
    meta,       \* [Digests -> status of activation.json]
    ledger,     \* [Digests -> what its last lifecycle event in the ledger says]
    op,         \* the holder of the activation lock: where it is, and on what
    staging,    \* the digest whose stage() passed the dirty check
    torn,       \* history: digests whose last operation was interrupted
    interruptions, byHand

activationVars == <<staged, verified, site, meta, ledger, op, staging, torn,
                    interruptions, byHand>>
workVars == <<staged, verified, staging, interruptions, byHand>>

Statuses   == {"none", "active", "rolled_back", "dirty_rollback"}
SiteStates == {"absent", "proposed", "active", "deprecated"}
Idle       == [at |-> "idle", d |-> NoDigest]
Empty      == [state |-> "absent", holds |-> NoDigest]
Points     == {"idle", "copying", "copied", "enabled", "recorded", "undoing",
               "deactivated", "undone", "undo_failed", "dirty", "torn_down",
               "tearing", "cleaning", "cleaned"}

ActivationTypeOK ==
    /\ staged \subseteq Digests
    /\ verified \subseteq Digests
    /\ site \in [Targets -> [state : SiteStates, holds : Digests \cup {NoDigest}]]
    /\ meta \in [Digests -> Statuses]
    /\ ledger \in [Digests -> Statuses]
    /\ op \in [at : Points, d : Digests \cup {NoDigest}]
    /\ staging \in Digests \cup {NoDigest}
    /\ torn \subseteq Digests
    /\ interruptions \in 0..MaxInterruptions
    /\ byHand \in 0..MaxByHand

ActivationInit ==
    /\ staged = {}
    /\ verified = {}
    /\ site = [t \in Targets |-> Empty]
    /\ meta = [d \in Digests |-> "none"]
    /\ ledger = [d \in Digests |-> "none"]
    /\ op = Idle
    /\ staging = NoDigest
    /\ torn = {}
    /\ interruptions = 0
    /\ byHand = 0

Is(d)       == site[Target[d]]
Put(d, s)   == site' = [site EXCEPT ![Target[d]] = s]
SetState(d, s) == site' = [site EXCEPT ![Target[d]].state = s]
At(p, d)    == op = [at |-> p, d |-> d]
Goto(p, d)  == op' = [at |-> p, d |-> d]
Record(d, s) == meta' = [meta EXCEPT ![d] = s]

\* The last event of an operation: the ledger has its outcome, nothing is torn.
Log(d, s) ==
    /\ ledger' = [ledger EXCEPT ![d] = s]
    /\ torn' = torn \ {d}
    /\ op' = Idle

-----------------------------------------------------------------------------
(* stage and verify, under the manager's lock *)

\* A module with a dirty rollback is refused.
StageChecks(d) ==
    /\ staging = NoDigest
    /\ \A e \in Digests : Target[e] = Target[d] => meta[e] # "dirty_rollback"
    /\ staging' = d
    /\ UNCHANGED <<staged, verified, site, meta, ledger, op, torn,
                   interruptions, byHand>>

\* The artifact is copied aside and renamed (or the copy fails).
StageEnds(d) ==
    /\ staging = d
    /\ staging' = NoDigest
    /\ staged' \in {staged, staged \cup {d}}
    /\ UNCHANGED <<verified, site, meta, ledger, op, torn, interruptions, byHand>>

Verify(d) ==
    /\ staging = NoDigest
    /\ d \in staged
    /\ verified' = verified \cup {d}
    /\ UNCHANGED <<staged, site, meta, ledger, op, staging, torn,
                   interruptions, byHand>>

-----------------------------------------------------------------------------
(* activate *)

\* activation.json says active: only the event is logged again.
AlreadyActive(d) ==
    /\ op = Idle
    /\ meta[d] = "active"
    /\ Log(d, "active")
    /\ UNCHANGED <<workVars, site, meta>>

\* Mutant: the target is not looked at before the copy.
ActivateBeginsOver(d, branched) ==
    /\ op = Idle
    /\ meta[d] # "active"
    /\ d \in staged \cap verified
    /\ ~branched
    /\ Goto("copying", d)
    /\ UNCHANGED <<workVars, site, meta, ledger, torn>>

\* Every check passed: staged, verified, no active state branch, and nothing
\* at the target.  A failed check only logs MODULE_FAILED.
ActivateBegins(d, branched) ==
    /\ op = Idle
    /\ meta[d] # "active"
    /\ d \in staged \cap verified
    /\ ~branched
    /\ Is(d).state = "absent"
    /\ Goto("copying", d)
    /\ UNCHANGED <<workVars, site, meta, ledger, torn>>

\* The copy is renamed to the target, or it fails and is removed; install()
\* of a pack can also fail after the rename, and leaves the directory.
Copy(d) ==
    /\ At("copying", d)
    /\ \/ /\ Put(d, [state |-> "proposed", holds |-> d])
          /\ Goto("copied", d)
       \/ op' = Idle /\ UNCHANGED site
       \/ /\ Target[d] \notin Skills
          /\ Put(d, [state |-> "proposed", holds |-> d])
          /\ op' = Idle
    /\ UNCHANGED <<workVars, meta, ledger, torn>>

\* The skill's verify and activate transitions, or the pack's set_active.  A
\* failure undoes what it can: a skill not verified is deleted, one not
\* activated is deprecated, a pack is uninstalled (if that works).
Enable(d) ==
    /\ At("copied", d)
    /\ \/ Is(d).state = "proposed" /\ SetState(d, "active") /\ Goto("enabled", d)
       \/ Put(d, Empty) /\ op' = Idle
       \/ /\ Target[d] \in Skills /\ Is(d).state = "proposed"
          /\ SetState(d, "deprecated") /\ op' = Idle
       \/ UNCHANGED site /\ op' = Idle
    /\ UNCHANGED <<workVars, meta, ledger, torn>>

RecordActive(d) ==
    /\ At("enabled", d)
    /\ Record(d, "active")
    /\ Goto("recorded", d)
    /\ UNCHANGED <<workVars, site, ledger, torn>>

LogActive(d) ==
    /\ At("recorded", d)
    /\ Log(d, "active")
    /\ UNCHANGED <<workVars, site, meta>>

-----------------------------------------------------------------------------
(* rollback *)

\* Mutant: a repeated rollback returns without logging its event.
AlreadyRolledBackQuietly(d) ==
    /\ op = Idle
    /\ meta[d] = "rolled_back"
    /\ torn' = torn \ {d}
    /\ UNCHANGED <<workVars, site, meta, ledger, op>>

AlreadyRolledBack(d) ==
    /\ op = Idle
    /\ meta[d] = "rolled_back"
    /\ Log(d, "rolled_back")
    /\ UNCHANGED <<workVars, site, meta>>

\* Any other status than active only logs a failure.
RollbackBegins(d) ==
    /\ op = Idle
    /\ meta[d] = "active"
    /\ Goto("undoing", d)
    /\ UNCHANGED <<workVars, site, meta, ledger, torn>>

\* The skill is deprecated and its files stay; the pack is deactivated.  A
\* target that is gone fails.  Neither looks at which version is there.
Undo(d) ==
    /\ At("undoing", d)
    /\ IF Is(d).state = "absent"
       THEN Goto("undo_failed", d) /\ UNCHANGED site
       ELSE IF Target[d] \in Skills
       THEN SetState(d, "deprecated") /\ Goto("undone", d)
       ELSE SetState(d, "proposed") /\ Goto("deactivated", d)
    /\ UNCHANGED <<workVars, meta, ledger, torn>>

\* A pack that cannot be moved away stays, and makes the rollback dirty; so does
\* one that is gone when its uninstall event cannot be appended.
Uninstall(d) ==
    /\ At("deactivated", d)
    /\ \/ Is(d).state # "absent" /\ Put(d, Empty) /\ Goto("undone", d)
       \/ Goto("undo_failed", d) /\ (UNCHANGED site \/ Put(d, Empty))
    /\ UNCHANGED <<workVars, meta, ledger, torn>>

RecordUndo(d) ==
    /\ \/ At("undone", d) /\ Record(d, "rolled_back") /\ Goto("cleaned", d)
       \/ At("undo_failed", d) /\ Record(d, "dirty_rollback") /\ Goto("dirty", d)
    /\ UNCHANGED <<workVars, site, ledger, torn>>

LogUndo(d) ==
    /\ \/ At("cleaned", d) /\ Log(d, "rolled_back")
       \/ At("dirty", d) /\ Log(d, "dirty_rollback")
    /\ UNCHANGED <<workVars, site, meta>>

-----------------------------------------------------------------------------
(* recovery: it records what the operator says, and cleans nothing *)

\* record_teardown: its outcome goes to the ledger first.
TeardownLogs(d) ==
    /\ op = Idle
    /\ meta[d] = "dirty_rollback"
    /\ \/ ledger' = [ledger EXCEPT ![d] = "rolled_back"] /\ Goto("torn_down", d)
       \/ ledger' = [ledger EXCEPT ![d] = "dirty_rollback"] /\ Goto("tearing", d)
    /\ UNCHANGED <<workVars, site, meta, torn>>

TeardownRecords(d) ==
    /\ \/ At("torn_down", d) /\ Record(d, "rolled_back")
       \/ At("tearing", d) /\ Record(d, "dirty_rollback")
    /\ torn' = torn \ {d}
    /\ op' = Idle
    /\ UNCHANGED <<workVars, site, ledger>>

ForceClean(d) ==
    /\ op = Idle
    /\ meta[d] = "dirty_rollback"
    /\ Record(d, "rolled_back")
    /\ Goto("cleaned", d)
    /\ UNCHANGED <<workVars, site, ledger, torn>>

-----------------------------------------------------------------------------
(* The environment *)

\* A crash, or an exception that leaves the operation: the lock is released,
\* what was written stays.
Interrupted ==
    /\ op # Idle
    /\ interruptions < MaxInterruptions
    /\ interruptions' = interruptions + 1
    /\ torn' = torn \cup {op.d}
    /\ op' = Idle
    /\ UNCHANGED <<staged, verified, site, meta, ledger, staging, byHand>>

\* Somebody deprecates a skill or uninstalls a pack with the other commands.
ChangeByHand(t) ==
    /\ byHand < MaxByHand
    /\ byHand' = byHand + 1
    /\ site[t].state # "absent"
    /\ site' = [site EXCEPT ![t] = IF t \in Skills
                                   THEN [@ EXCEPT !.state = "deprecated"] ELSE Empty]
    /\ UNCHANGED <<staged, verified, meta, ledger, op, staging, torn, interruptions>>

ActivationStep(Branched(_)) ==
    \/ \E d \in Digests :
          \/ StageChecks(d) \/ StageEnds(d) \/ Verify(d)
          \/ AlreadyActive(d) \/ ActivateBegins(d, Branched(d))
          \/ Copy(d) \/ Enable(d) \/ RecordActive(d) \/ LogActive(d)
          \/ AlreadyRolledBack(d) \/ RollbackBegins(d) \/ Undo(d) \/ Uninstall(d)
          \/ RecordUndo(d) \/ LogUndo(d)
          \/ TeardownLogs(d) \/ TeardownRecords(d) \/ ForceClean(d)
    \/ \E t \in Targets : ChangeByHand(t)
    \/ Interrupted

-----------------------------------------------------------------------------
(* Properties *)

\* Partial failures are undone or recorded: between operations, as long as
\* none was interrupted and nobody changed the workspace by hand,
\* activation.json says active exactly for the version that is enabled in the
\* workspace - so at most one version of a module is active.
ActiveIsBacked ==
    op = Idle /\ interruptions = 0 /\ byHand = 0 =>
        \A d \in Digests :
            meta[d] = "active" <=> Is(d) = [state |-> "active", holds |-> d]

\* The ledger and activation.json are written one after the other, in either
\* order.  Between operations they agree on every version but those whose last
\* operation was interrupted; calling activate or rollback again, or recording
\* the teardown again, makes them agree there too.
LedgerAgrees ==
    op = Idle => \A d \in Digests \ torn : ledger[d] = meta[d]
=============================================================================
