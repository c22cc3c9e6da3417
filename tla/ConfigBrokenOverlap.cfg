SPECIFICATION Spec
CONSTANTS
  me = me
  friend = friend
  guest = guest
  known = known
  unknown = unknown
  p1 = p1
  p2 = p2
  User = {me, friend, guest}
  Self = me
  Attr <- SomeAttrs
  Item <- SomeItems
  DefaultGroup = {"video"}
  App = {known, unknown}
  KnownApp = {known}
  Field <- SomeFields
  EvalField <- FontOnly
  Value = {1, 2}
  Setting <- SomeSettings
  KnownSetting <- LiveOnly
  Proc = {p1, p2}
  Edits <- BadAndGood
  Guards = {FALSE}
  HandEdits = {}
  Faults = {}
  TicksPerSecond = 1
  MaxTime = 0
  InitialContents <- OneAdmin
  NoFile = NoFile
INVARIANT NeverLeftBroken
