---------------------------- MODULE StateBranch ----------------------------
(***************************************************************************)
(* OriginAgent/evolution/state_branch.py: branches of the fact store.      *)
(*                                                                         *)
(* A branch remembers the hash of every stable fact at its creation, keeps *)
(* its own versions in an overlay and its deletions as tombstones, and is  *)
(* merged back when nothing it touches has changed underneath it.  All     *)
(* operations, the fact store's own too, run under memory/.lock.           *)
(*                                                                         *)
(* A version of a fact is the set of updates it incorporates and whether   *)
(* it is deprecated; two versions have the same hash iff they are equal    *)
(* (every write stamps updated_at).  A new fact gets a random id, so the   *)
(* creators of one fact never meet.                                        *)
(***************************************************************************)
EXTENDS Naturals, FiniteSets

CONSTANTS
    Facts,          \* fact ids
    Branches,       \* branch ids
    Artifacts,      \* artifact digests a branch can belong to
    MaxUpdates,     \* bound: updates of facts, on stable and on branches
    MaxMergeFaults  \* bound: merges that die or fail half way

ASSUME BranchAssumption == MaxUpdates \in Nat /\ MaxMergeFaults \in Nat

VARIABLES
    stable,    \* [Facts -> Version]: the fact store
    branch,    \* [Branches -> record]: branch.json, overlay and tombstones
    merging,   \* the merge holding the lock: its branch and the facts to write
    updates,   \* updates so far; the next one is updates + 1
    mergeFaults

branchVars == <<stable, branch, merging, updates, mergeFaults>>

Version == [by : SUBSET (0..MaxUpdates), deprecated : BOOLEAN]
Absent  == [by |-> {}, deprecated |-> FALSE]
Exists(v) == v.by # {}

Unborn == [status |-> "none", of |-> {}, base |-> [f \in Facts |-> Absent],
           overlay |-> [f \in Facts |-> Absent], tombs |-> {}]
NotMerging == [who |-> {}, left |-> {}]

BranchTypeOK ==
    /\ stable \in [Facts -> Version]
    /\ \A b \in Branches :
          /\ branch[b].status \in {"none", "active", "merged", "discarded"}
          /\ branch[b].of \subseteq Artifacts /\ Cardinality(branch[b].of) <= 1
          /\ branch[b].base \in [Facts -> Version]
          /\ branch[b].overlay \in [Facts -> Version]
          /\ branch[b].tombs \subseteq Facts
    /\ merging.who \subseteq Branches /\ merging.left \subseteq Facts
    /\ updates \in 0..MaxUpdates
    /\ mergeFaults \in 0..MaxMergeFaults

\* Any mix of facts that exist and facts still to be created.
BranchInit ==
    /\ stable \in [Facts -> {Absent, [by |-> {0}, deprecated |-> FALSE]}]
    /\ branch = [b \in Branches |-> Unborn]
    /\ merging = NotMerging
    /\ updates = 0
    /\ mergeFaults = 0

Unlocked == merging = NotMerging
Active(b) == Unlocked /\ branch[b].status = "active"

\* What the branch shows: the stable facts it has not deleted, under its own.
Composed(b, f) ==
    IF Exists(branch[b].overlay[f]) THEN branch[b].overlay[f]
    ELSE IF f \in branch[b].tombs THEN Absent ELSE stable[f]

\* Nobody has created f yet: its id is still to be drawn.
Undrawn(f) ==
    /\ ~Exists(stable[f])
    /\ \A b \in Branches : ~Exists(branch[b].overlay[f])

\* The version an upsert makes of v: only a live fact is reinforced.
Updated(v) == [v EXCEPT !.by = @ \cup {updates + 1}]

CanUpdate(v, f) ==
    /\ updates < MaxUpdates
    /\ IF Exists(v) THEN ~v.deprecated ELSE Undrawn(f)

-----------------------------------------------------------------------------
(* The fact store's own writers *)

StableUpsert(f) ==
    /\ Unlocked
    /\ CanUpdate(stable[f], f)
    /\ stable' = [stable EXCEPT ![f] = Updated(@)]
    /\ updates' = updates + 1
    /\ UNCHANGED <<branch, merging, mergeFaults>>

StableDeprecate(f) ==
    /\ Unlocked
    /\ Exists(stable[f]) /\ ~stable[f].deprecated
    /\ stable' = [stable EXCEPT ![f].deprecated = TRUE]
    /\ UNCHANGED <<branch, merging, updates, mergeFaults>>

-----------------------------------------------------------------------------
(* The operations of a branch *)

CreateBranch(b, d) ==
    /\ Unlocked
    /\ branch[b] = Unborn
    /\ branch' = [branch EXCEPT ![b] = [Unborn EXCEPT !.status = "active",
                                          !.of = {d}, !.base = stable]]
    /\ UNCHANGED <<stable, merging, updates, mergeFaults>>

UpsertFact(b, f) ==
    /\ Active(b)
    /\ f \notin branch[b].tombs
    /\ CanUpdate(Composed(b, f), f)
    /\ branch' = [branch EXCEPT ![b].overlay[f] = Updated(Composed(b, f))]
    /\ updates' = updates + 1
    /\ UNCHANGED <<stable, merging, mergeFaults>>

\* A fact of the overlay is deprecated there; a stable one gets a tombstone.
DeprecateFact(b, f) ==
    /\ Active(b)
    /\ \/ /\ Exists(branch[b].overlay[f])
          /\ branch' = [branch EXCEPT ![b].overlay[f].deprecated = TRUE]
       \/ /\ ~Exists(branch[b].overlay[f])
          /\ Exists(stable[f])
          /\ branch' = [branch EXCEPT ![b].tombs = @ \cup {f}]
    /\ UNCHANGED <<stable, merging, updates, mergeFaults>>

DiscardBranch(b) ==
    /\ Active(b)
    /\ branch' = [branch EXCEPT ![b].status = "discarded"]
    /\ UNCHANGED <<stable, merging, updates, mergeFaults>>

\* Mutant: only a fact the branch created can collide.
ConflictsOnNewOnly(b) ==
    {f \in Facts : /\ Exists(branch[b].overlay[f])
                   /\ ~Exists(branch[b].base[f])
                   /\ stable[f] \notin {Absent, branch[b].overlay[f]}}

\* _preview_unlocked: a fact of the overlay conflicts when stable is neither
\* the base version (nothing, for a new fact) nor already the branch's; a
\* tombstone, when stable left the base version and is not deprecated anyway.
Conflicts(b) ==
    {f \in Facts :
        LET v == branch[b].overlay[f]
            changed == stable[f] # branch[b].base[f]
        IN  \/ Exists(v) /\ changed /\ stable[f] # v
            \/ f \in branch[b].tombs /\ changed /\ ~stable[f].deprecated}

\* A merge that meets a conflict only logs it.
MergeBegins(b) ==
    /\ Active(b)
    /\ Conflicts(b) = {}
    /\ merging' = [who |-> {b},
                   left |-> {f \in Facts : Exists(branch[b].overlay[f])}
                            \cup branch[b].tombs]
    /\ UNCHANGED <<stable, branch, updates, mergeFaults>>

\* _apply_merge: the branch's version, or a tombstone on what there is.
Merged(b, f) ==
    LET v == IF Exists(branch[b].overlay[f]) THEN branch[b].overlay[f] ELSE stable[f]
    IN  IF f \in branch[b].tombs /\ Exists(v) THEN [v EXCEPT !.deprecated = TRUE] ELSE v

\* _write_records_unlocked: facts.jsonl is replaced in one atomic write.
MergeWrites(b) ==
    /\ merging.who = {b} /\ merging.left # {}
    /\ stable' = [f \in Facts |-> IF f \in merging.left THEN Merged(b, f) ELSE stable[f]]
    /\ merging' = [merging EXCEPT !.left = {}]
    /\ UNCHANGED <<branch, updates, mergeFaults>>

\* Mutant: branch.json is written before the facts.
MergeRecordedEarly(b) ==
    /\ merging.who = {b} /\ branch[b].status = "active"
    /\ branch' = [branch EXCEPT ![b].status = "merged"]
    /\ merging' = IF merging.left = {} THEN NotMerging ELSE merging
    /\ UNCHANGED <<stable, updates, mergeFaults>>

\* All facts and MEMORY.md are written: branch.json says merged.
MergeRecorded(b) ==
    /\ merging.who = {b} /\ merging.left = {}
    /\ branch' = [branch EXCEPT ![b].status = "merged"]
    /\ merging' = NotMerging
    /\ UNCHANGED <<stable, updates, mergeFaults>>

\* The process dies, or a write raises and the merge returns "failed".
MergeDies ==
    /\ ~Unlocked
    /\ mergeFaults < MaxMergeFaults
    /\ mergeFaults' = mergeFaults + 1
    /\ merging' = NotMerging
    /\ UNCHANGED <<stable, branch, updates>>

BranchStep(Verified) ==
    \/ \E f \in Facts : StableUpsert(f) \/ StableDeprecate(f)
    \/ \E b \in Branches :
          \/ \E d \in Verified : CreateBranch(b, d)
          \/ \E f \in Facts : UpsertFact(b, f) \/ DeprecateFact(b, f)
          \/ DiscardBranch(b)
          \/ MergeBegins(b)
          \/ MergeWrites(b)
          \/ MergeRecorded(b)
    \/ MergeDies

-----------------------------------------------------------------------------
(* Properties *)

\* The conflict rules of _preview_unlocked lose no update: what a writer of
\* the fact store, or an earlier merge, put into a fact stays in it, whatever
\* is merged afterwards, half merges and repeated merges included, and a
\* deprecated fact does not come back.
NoUpdateLost ==
    [][\A f \in Facts : /\ stable[f].by \subseteq stable'[f].by
                        /\ stable[f].deprecated => stable'[f].deprecated]_stable

\* merge_branch writes the facts before branch.json: a branch that says
\* merged has all its versions and deletions in the fact store, wherever a
\* merge was interrupted; in between it stays active and can be merged again.
MergedIsThere ==
    \A b \in Branches : branch[b].status = "merged" =>
        \A f \in Facts :
            /\ branch[b].overlay[f].by \subseteq stable[f].by
            /\ f \in branch[b].tombs /\ Exists(stable[f]) => stable[f].deprecated
=============================================================================
