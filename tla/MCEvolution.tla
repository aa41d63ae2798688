---------------------------- MODULE MCEvolution ----------------------------
EXTENDS Evolution, TLC

CONSTANTS s1, p1, p2, b1, b2, f1

\* One skill, and two versions of one domain pack.
MCTarget == (s1 :> "skill") @@ (p1 :> "pack") @@ (p2 :> "pack")

Untouched(S) == S \cap (staged \cup verified \cup {staging}) = {}
FactsUntouched == updates = 0 /\ \A b \in Branches : branch[b] = Unborn

\* The versions of a pack, with interruptions and manual changes, or the skill
\* with its branches of the fact store.
Focus ==
    \/ Untouched({s1}) /\ FactsUntouched /\ stable[f1] = Absent
    \/ Untouched({p1, p2}) /\ interruptions = 0 /\ byHand = 0
=============================================================================
