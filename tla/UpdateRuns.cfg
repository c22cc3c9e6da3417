SPECIFICATION Spec
CONSTANTS
  timer = timer
  manual = manual
  Mine = Mine
  NoRebuild = NoRebuild
  Runner = {timer, manual}
  Parts <- TimerPluginsOnly
  Plugin = {"wakatime"}
  MaxRev = 1
  Apply = "switch"
  Faults = {"network", "build", "kill", "checker", "activation"}
  Edits = {"lock", "module", "rebuild"}
  Meanwhile = FALSE
INVARIANTS TypeOK HalfOnlyIfCut
PROPERTIES FailureChangesNothing InstalledIsRepo YourLockStays
