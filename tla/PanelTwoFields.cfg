SPECIFICATION Spec
CONSTANTS
  Key <- Controls
  SlotOf <- Control
  Package <- Packages
  Value = {0, 1}
  Blank = Blank
  NoEdit = NoEdit
  Users <- TwoFields
INVARIANT NothingLost
