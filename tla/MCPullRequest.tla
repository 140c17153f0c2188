--------------------------- MODULE MCPullRequest ----------------------------
(* Instances of PullRequest for TLC.  The labels are strings: an event that *)
(* is not about a label carries "".                                         *)
EXTENDS PullRequest

\* A state in which the webhooks of an opened pull request and of the label that merges
\* it have been handled, its author has not signed yet, and its build has passed: what
\* races from here on are the webhooks after these two.
LabeledInit ==
  LET opened == [sha |-> 1, state |-> "open", labels |-> {}, milestone |-> 0]
      labeled == [opened EXCEPT !.labels = {AutoMerge}]
      webhook == [action |-> "opened", label |-> "", sha |-> 1, state |-> "open",
                  milestone |-> 0]
  IN  /\ head = 1 /\ state = "open" /\ labels = {AutoMerge} /\ milestone = 0
      /\ signed = FALSE
      /\ blocked = [s \in Shas |-> IF s = 1 THEN "success" ELSE "none"]
      /\ cla = [s \in Shas |-> IF s = 1 THEN "error" ELSE "none"]
      /\ ci = [s \in Shas |-> IF s = 1 THEN "success" ELSE "pending"]
      /\ messages = {}
      /\ inbox = <<webhook, [webhook EXCEPT !.action = "labeled", !.label = AutoMerge]>>
      /\ hpc = [h \in Handlers |-> IF h <= 2 THEN "done" ELSE "new"]
      /\ seen = [h \in Handlers |-> CASE h = 1 -> opened [] h = 2 -> labeled
                                      [] OTHER -> NoRow]
      /\ verdict = [h \in Handlers |-> IF h = 1 THEN "error" ELSE "none"]
      /\ row = labeled /\ writer = 2
      /\ mpc = "idle" /\ mergeSha = 1 /\ verified = {}
      /\ kpc = "idle" /\ stale = NoRow

LabeledFairSpec == LabeledInit /\ [][Next]_vars /\ Fairness
=============================================================================
