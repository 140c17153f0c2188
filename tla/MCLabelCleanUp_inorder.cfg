\* Pushes, labels, closings, merges and reopenings beside AutoMergePR and clean-ups with
\* failing calls.  Webhooks are handled one at a time, the clean-ups that they start are
\* not.
\* Between webhooks the system is idle: no deadlock check.
CONSTANTS
  MaxSha = 2
  MaxEvents = 6
  MaxOthers = 5
  OtherActions = {"reopened", "labeled", "unlabeled", "closed", "synchronize", "update_branch"}
  BlockLabels = {"block"}
  MessageLabels = {}
  AutoMerge = "merge"
  CleanUp = {"block"}
  CallsFail = TRUE
  InOrder = TRUE
  Jobs = {}
  Failures = {}
SPECIFICATION CleanUpSpec
INVARIANTS TypeOK RowFollowsGitHub HeadHasBlockStatus ClosedLosesLabels
PROPERTIES MergesVerifiedHead
CHECK_DEADLOCK FALSE
