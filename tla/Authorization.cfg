SPECIFICATION Spec
CONSTANTS
  MaxConfs = 2
  p1 = p1
  p2 = p2
  i1 = i1
  i2 = i2
  i3 = i3
  k1 = k1
  r1 = r1
  s1 = s1
  ana = ana
  bo = bo
  Subjects = {i1, i2, i3, r1}
  Keys = {k1, r1}
  NoKey = NoKey
  Actors = {ana, bo}
  Nobody = Nobody
  AskTTL = 1
  RetryLimit = 1
  MaxClock = 1
  MaxFaults = 1
  Procs = {p1, p2}
  Motor = {p1}
  Intents = {i1, i2, i3}
  IntentKey <- MCIntentKey
  Parallel = {i2, i3}
  MaxParallel = 2
  Requests = {r1}
  ReqSession <- MCReqSession
  ReqTool <- MCReqTool
  Sessions = {s1}
  Tools = {"exec", "message"}
  NoTool = "none"
  HighRisk = {"exec"}
  Owner <- MCOwner
  ShortTTL = 1
  LongTTL = 2
CONSTRAINT Focus
INVARIANTS KeysAccurate ConfirmationSpentOnce MotorBound PowerFromApproval ApprovedUsable
CHECK_DEADLOCK FALSE
