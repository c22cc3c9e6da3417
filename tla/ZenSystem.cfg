SPECIFICATION FairSpec
CONSTANTS
  Half = Half
  None = None
  Own = Own
  github = github
  other = other
  Host = {github, other}
  Themed = {github}
  q1 = q1
  q2 = q2
  Process = {q1, q2}
  Home <- SomeShared
  Workspaces = TRUE
  Page = {1, 2}
  Window = {1, 2}
  Script <- Files
  Module <- Modules
  Background = {"helper"}
  OnlyOnce = {"own"}
  Clash <- SameNames
  Within <- PartOf
  Scenarios <- AllScenarios
INVARIANTS TypeOK PageWhole OneBoost ClassicOnce
PROPERTIES UserCssKept ChromeFollows CssFollows OursTinted OnlyWished ModulesStart
CHECK_DEADLOCK FALSE
