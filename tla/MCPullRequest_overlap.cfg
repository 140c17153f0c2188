\* Late handlers, passes of Tick and AutoMergePR against the clean-up job, with failing
\* calls and pushes, on a pull request that was opened and labelled before.
\* Between webhooks the system is idle: no deadlock check.
CONSTANTS
  MaxSha = 2
  MaxEvents = 4
  BlockLabels = {}
  MessageLabels = {}
  AutoMerge = "merge"
  InOrder = FALSE
  Jobs = {"CleanOutdatedPRs", "Tick"}
  Failures = {"GitHub", "MySQL", "Clean"}
SPECIFICATION LabeledFairSpec
INVARIANTS CLADecided RowFollowsGitHub
PROPERTIES ClosedIsRecorded
CHECK_DEADLOCK FALSE
