\* A label with a message is put on.
CONSTANTS
  MaxSha = 1
  MaxEvents = 2
  BlockLabels = {"block"}
  MessageLabels = {"message"}
  AutoMerge = "merge"
  InOrder = TRUE
  Jobs = {}
  Failures = {}
SPECIFICATION Spec
INVARIANTS LabelIsAnswered
CHECK_DEADLOCK FALSE
