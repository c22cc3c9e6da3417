SPECIFICATION SystemSpec
CONSTANTS
  me = me
  known = known
  unknown = unknown
  p1 = p1
  r1 = r1
  User = {me}
  Self = me
  Attr <- GroupsOnly
  Item <- WheelOnly
  DefaultGroup = {}
  App = {known, unknown}
  KnownApp = {known}
  Field <- SizeOnly
  EvalField = {}
  Value = {1}
  Setting <- LiveOnly
  KnownSetting <- LiveOnly
  Proc = {p1}
  Edits <- GoodAndBad
  Guards = {FALSE}
  HandEdits = {}
  Faults = {"interrupt"}
  TicksPerSecond = 2
  MaxTime = 3
  InitialContents <- OneFile
  NoFile = NoFile
  Reader = {r1}
  ReadsText = FALSE
  Torn = Torn
  NoAnswer = NoAnswer
  MaxReads = 2
INVARIANTS SystemTypeOK NeverStale NeverTorn PendingIsTold
CHECK_DEADLOCK FALSE
