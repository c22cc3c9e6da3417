SPECIFICATION CommittingSpec
CONSTANTS
  timer = timer
  manual = manual
  Mine = Mine
  NoRebuild = NoRebuild
  Runner = {timer}
  Parts <- Both
  Plugin = {"wakatime"}
  MaxRev = 2
  Apply = "boot"
  Faults = {}
  Edits = {"rebuild"}
  Meanwhile = FALSE
PROPERTY KeepsCurrent
