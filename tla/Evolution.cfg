SPECIFICATION Spec
CONSTANTS
  s1 = s1
  p1 = p1
  p2 = p2
  Digests = {s1, p1, p2}
  Artifacts = {s1, p1, p2}
  Target <- MCTarget
  Skills = {"skill"}
  NoDigest = NoDigest
  MaxInterruptions = 1
  MaxByHand = 1
  Facts = {f1}
  f1 = f1
  Branches = {b1, b2}
  b1 = b1
  b2 = b2
  MaxUpdates = 3
  MaxMergeFaults = 1
CONSTRAINT Focus
INVARIANTS ActiveIsBacked LedgerAgrees MergedIsThere
PROPERTY NoUpdateLost
CHECK_DEADLOCK FALSE
