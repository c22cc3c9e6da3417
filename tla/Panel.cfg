SPECIFICATION FairSpec
CONSTANTS
  Key <- Controls
  SlotOf <- Control
  Package <- Packages
  Value = {0, 1}
  Blank = Blank
  NoEdit = NoEdit
  Users <- PatientOrSettings
INVARIANTS TypeOK ShownIsStored NothingLost
PROPERTY LoadingEnds
