-------------------------- MODULE MCAuthorization --------------------------
EXTENDS Authorization, TLC

CONSTANTS p1, p2, i1, i2, i3, k1, r1, s1, ana, bo

MCIntentKey == (i1 :> k1) @@ (i2 :> k1) @@ (i3 :> NoKey)
MCReqSession == (r1 :> s1)
MCReqTool == (r1 :> "exec")
MCOwner == s1 :> ana

\* The third command, a parallel one, and the second question are not explored
\* together.
Focus == stage[i3] = "new" \/ conf[2].status = "none"
=============================================================================
