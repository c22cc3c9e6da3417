SPECIFICATION Spec
CONSTANTS
  me = me
  friend = friend
  guest = guest
  known = known
  unknown = unknown
  p1 = p1
  p2 = p2
  User = {me, friend, guest}
  Self = me
  Attr <- SomeAttrs
  Item <- SomeItems
  DefaultGroup = {"video"}
  App = {known, unknown}
  KnownApp = {known}
  Field <- SomeFields
  EvalField <- FontOnly
  Value = {1, 2}
  Setting <- SomeSettings
  KnownSetting <- LiveOnly
  Proc = {p1, p2}
  Edits <- UserEdits
  Guards = {FALSE}
  HandEdits <- ToggleBack
  Faults = {"interrupt", "copy"}
  TicksPerSecond = 1
  MaxTime = 0
  InitialContents <- TwoAdmins
  NoFile = NoFile
SYMMETRY Symmetric
INVARIANTS SelfStays
CHECK_DEADLOCK FALSE
