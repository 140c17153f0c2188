---------------------------- MODULE PullRequest -----------------------------
(***************************************************************************)
(* One pull request, seen by GitHub, by the webhook server and by the jobs *)
(* of the job server.                                                      *)
(*                                                                         *)
(* What happens to the pull request on GitHub sends a webhook, kept in     *)
(* inbox; the handler of each delivery (pullRequestEventHandler,           *)
(* prFromIssueHandler, the comment commands /check-cla and /update-branch) *)
(* runs in a goroutine of its own, and each call to GitHub or to the       *)
(* database is a step of it.  The database keeps one row for the pull      *)
(* request, which every handler overwrites as a whole.  Three cron jobs of *)
(* the job server use that row: AutoMergePR and CleanOutdatedPRs start     *)
(* from it, and Tick lists the open pull requests on GitHub and goes       *)
(* through the handler's steps for each; its pass over this pull request   *)
(* has a place in inbox, with what the listing said of it.                 *)
(*                                                                         *)
(* Combined build status and check runs fetched for the row, the welcome   *)
(* message, greeter, translations and log review are left out.             *)
(***************************************************************************)
EXTENDS Integers, Sequences

CONSTANTS
  MaxSha,        \* bound: how many commits the head goes through
  MaxEvents,     \* bound: how many webhooks GitHub sends and passes Tick makes
  BlockLabels,   \* Config.BlockPRMergeLabels
  MessageLabels, \* labels with a message in Config.PrLabels
  AutoMerge,     \* Config.AutoPRMergeLabel, "" when there is none
  InOrder,       \* TRUE: one webhook at a time, in the order of the events
  Jobs,          \* which of CleanOutdatedPRs and Tick run
  Failures       \* the calls that may fail

ASSUME BoundsAssumption == MaxSha \in Nat \ {0} /\ MaxEvents \in Nat \ {0}
\* Tick is not in the order of the webhooks.
ASSUME SwitchAssumption ==
  /\ Jobs \subseteq {"CleanOutdatedPRs", "Tick"}
  /\ InOrder \in BOOLEAN /\ (InOrder => "Tick" \notin Jobs)
\* "CLA": the list of signatures and the status about it; "Clean": every call of
\* the clean-up job; "GitHub" and "MySQL": the other calls to them.
ASSUME FailuresAssumption == Failures \subseteq {"GitHub", "MySQL", "CLA", "Clean"}

Labels == BlockLabels \cup MessageLabels \cup ({AutoMerge} \ {""})
Shas == 1..MaxSha
Handlers == 1..MaxEvents
Milestones == 0..1   \* 0: no milestone

VARIABLES
  head, state, labels, milestone, \* GitHub: the pull request
  signed,                         \* the author is on the CLA list
  blocked, cla, ci,               \* GitHub: statuses of each commit
  messages,                       \* labels whose message was posted
  inbox,                          \* webhooks sent, in order
  hpc, seen, verdict,             \* each handler: its point, its pr, its CLA result
  row,                            \* the row of the pull request in PullRequests
  writer,                         \* history: the handler that wrote it last, or 0
  mpc, mergeSha, verified,        \* AutoMergePR, and what it found in order
  kpc, stale                      \* CleanOutdatedPRs and the row it works on

pull == <<head, state, labels, milestone>>
statuses == <<blocked, cla, ci>>
handler == <<hpc, seen, verdict>>
table == <<row, writer>>
merger == <<mpc, mergeSha, verified>>
cleaner == <<kpc, stale>>
vars == <<pull, signed, statuses, messages, inbox, handler, table, merger, cleaner>>

NoRow == [state |-> "none"]
Rows == [sha : Shas, state : {"open", "closed"}, labels : SUBSET Labels,
         milestone : Milestones]
Commands == {"check_cla", "update_branch"}
Actions == {"opened", "reopened", "synchronize", "labeled", "unlabeled", "closed",
            "milestoned", "tick"} \cup Commands
HandlerPoints == {"new", "list", "save", "claPending", "claRead", "claWrite", "block",
                  "label", "update", "changes", "resave", "merge", "done"}

Event(action, label) ==
  [action |-> action, label |-> label, sha |-> head', state |-> state',
   milestone |-> milestone']

Init ==
  /\ head = 1 /\ state = "open" /\ labels = {} /\ milestone = 0
  /\ signed \in BOOLEAN
  /\ blocked = [s \in Shas |-> "none"]
  /\ cla = [s \in Shas |-> "none"]
  /\ ci = [s \in Shas |-> "pending"]
  /\ messages = {}
  /\ inbox = <<[action |-> "opened", label |-> "", sha |-> 1, state |-> "open",
                milestone |-> 0]>>
  /\ hpc = [h \in Handlers |-> "new"]
  /\ seen = [h \in Handlers |-> NoRow]
  /\ verdict = [h \in Handlers |-> "none"]
  /\ row = NoRow /\ writer = 0
  /\ mpc = "idle" /\ mergeSha = 1 /\ verified = {}
  /\ kpc = "idle" /\ stale = NoRow

-----------------------------------------------------------------------------
(* GitHub and its users.                                                    *)

Notify(action, label) ==
  /\ Len(inbox) < MaxEvents
  /\ inbox' = Append(inbox, Event(action, label))
  /\ UNCHANGED <<signed, messages, handler, table, merger, cleaner>>

PushCommit ==
  /\ state = "open" /\ head < MaxSha
  /\ head' = head + 1
  /\ UNCHANGED <<state, labels, milestone, statuses>>
  /\ Notify("synchronize", "")

AddLabel(l) ==
  /\ l \notin labels
  /\ labels' = labels \cup {l}
  /\ UNCHANGED <<head, state, milestone, statuses>>
  /\ Notify("labeled", l)

RemoveLabel(l) ==
  /\ l \in labels
  /\ labels' = labels \ {l}
  /\ UNCHANGED <<head, state, milestone, statuses>>
  /\ Notify("unlabeled", l)

ClosePull ==
  /\ state = "open"
  /\ state' = "closed"
  /\ UNCHANGED <<head, labels, milestone, statuses>>
  /\ Notify("closed", "")

Reopen ==
  /\ state = "closed"
  /\ state' = "open"
  /\ UNCHANGED <<head, labels, milestone, statuses>>
  /\ Notify("reopened", "")

SetMilestone ==
  /\ milestone = 0
  /\ milestone' = 1
  /\ UNCHANGED <<head, state, labels, statuses>>
  /\ Notify("milestoned", "")

Comment(command) ==
  /\ UNCHANGED <<pull, statuses>>
  /\ Notify(command, "")

SignCLA ==
  /\ ~signed
  /\ signed' = TRUE
  /\ UNCHANGED <<pull, statuses, messages, inbox, handler, table, merger, cleaner>>

BuildPasses ==
  /\ ci[head] = "pending"
  /\ ci' = [ci EXCEPT ![head] = "success"]
  /\ UNCHANGED <<pull, signed, blocked, cla, messages, inbox, handler, table, merger,
                 cleaner>>

GitHubUsers ==
  \/ PushCommit \/ ClosePull \/ Reopen \/ SetMilestone \/ SignCLA \/ BuildPasses
  \/ \E command \in Commands : Comment(command)
  \/ \E l \in Labels : AddLabel(l) \/ RemoveLabel(l)

-----------------------------------------------------------------------------
(* The webhook handlers.                                                    *)

Go(h, point) == hpc' = [hpc EXCEPT ![h] = point]
At(h, point) == h \in DOMAIN inbox /\ hpc[h] = point
InTurn(h) == InOrder => \A g \in 1..(h - 1) : hpc[g] = "done"

\* What Save writes: every column but the milestone's, which keeps what it had.
Saved(pr) == [pr EXCEPT !.milestone = IF row = NoRow THEN 0 ELSE row.milestone]
Save(pr, h) == row' = Saved(pr) /\ writer' = h

\* Where pullRequestEventHandler goes after it has the pull request.
Dispatch(action) ==
  CASE action \in {"opened", "reopened", "synchronize"} -> "claPending"
    [] action \in {"labeled", "unlabeled"} -> "label"
    [] action = "check_cla" -> "claPending"
    [] action = "update_branch" -> "update"
    [] OTHER -> "changes"

\* A pull request that has a row is taken from there.
MutantFetch(h) ==
  /\ At(h, "new") /\ InTurn(h) /\ inbox[h].action \notin {"milestoned"} \cup Commands
  /\ seen' = [seen EXCEPT ![h] =
       IF row # NoRow THEN row
       ELSE [sha |-> inbox[h].sha, state |-> inbox[h].state, labels |-> {},
             milestone |-> inbox[h].milestone]]
  /\ Go(h, "save")
  /\ UNCHANGED <<pull, signed, statuses, messages, inbox, verdict, table, merger,
                 cleaner>>

\* GetPullRequestFromGithub up to Save: commit and state come from the payload, or
\* for Tick from the listing,
\* the labels from GitHub now, except for a new pull request.
Fetch(h) ==
  LET ev == inbox[h]
  IN  /\ At(h, "new") /\ InTurn(h) /\ ev.action \notin {"milestoned"} \cup Commands
      /\ seen' = [seen EXCEPT ![h] =
           [sha |-> ev.sha, state |-> ev.state, milestone |-> ev.milestone,
            labels |-> IF ev.action = "opened" THEN {} ELSE labels]]
      /\ Go(h, "save")
      /\ UNCHANGED <<pull, signed, statuses, messages, inbox, verdict, table, merger,
                     cleaner>>

\* For a comment, the pull request is read from GitHub (getPRFromIssueCommentEvent)
\* before its labels are.
GetPull(h) ==
  /\ At(h, "new") /\ InTurn(h) /\ inbox[h].action \in Commands
  /\ seen' = [seen EXCEPT ![h] =
       [sha |-> head, state |-> state, milestone |-> milestone, labels |-> {}]]
  /\ Go(h, "list")
  /\ UNCHANGED <<pull, signed, statuses, messages, inbox, verdict, table, merger,
                 cleaner>>

ListLabels(h) ==
  /\ At(h, "list")
  /\ seen' = [seen EXCEPT ![h].labels = labels]
  /\ Go(h, "save")
  /\ UNCHANGED <<pull, signed, statuses, messages, inbox, verdict, table, merger,
                 cleaner>>

\* Listing the labels or saving fails: the handler answers with an error.
GiveUp(h) ==
  /\ \/ "GitHub" \in Failures /\ (At(h, "new") \/ At(h, "list"))
     \/ "MySQL" \in Failures /\ At(h, "save")
  /\ InTurn(h)
  /\ Go(h, "done")
  /\ UNCHANGED <<pull, signed, statuses, messages, inbox, seen, verdict, table, merger,
                 cleaner>>

\* GetPullRequestFromGithub saves before anybody looks at the old row.
SavePR(h) ==
  /\ At(h, "save")
  /\ Save(seen[h], h)
  /\ Go(h, Dispatch(inbox[h].action))
  /\ UNCHANGED <<pull, signed, statuses, messages, inbox, seen, verdict, merger, cleaner>>

\* handleCheckCLA for a closed pull request does nothing.
AfterCLA(h) == IF inbox[h].action = "check_cla" THEN "done" ELSE "block"

SkipCLA(h) ==
  /\ At(h, "claPending") /\ seen[h].state = "closed"
  /\ Go(h, AfterCLA(h))
  /\ UNCHANGED <<pull, signed, statuses, messages, inbox, seen, verdict, table, merger,
                 cleaner>>

\* createCLAPendingStatus; an error is only logged.
CLAPending(h) ==
  /\ At(h, "claPending") /\ seen[h].state = "open"
  /\ \/ cla' = [cla EXCEPT ![seen[h].sha] = "pending"]
     \/ "CLA" \in Failures /\ UNCHANGED cla
  /\ Go(h, "claRead")
  /\ UNCHANGED <<pull, signed, blocked, ci, messages, inbox, seen, verdict, table, merger,
                 cleaner>>

\* An author who has not signed is taken for one who is being checked.
MutantCLARead(h) ==
  /\ At(h, "claRead")
  /\ verdict' = [verdict EXCEPT ![h] = IF signed THEN "success" ELSE "pending"]
  /\ Go(h, "claWrite")
  /\ UNCHANGED <<pull, signed, statuses, messages, inbox, seen, table, merger, cleaner>>

\* getCSV and isNameInCLAList.
CLARead(h) ==
  /\ At(h, "claRead")
  /\ \/ /\ verdict' = [verdict EXCEPT ![h] = IF signed THEN "success" ELSE "error"]
        /\ Go(h, "claWrite")
     \/ /\ "CLA" \in Failures
        /\ Go(h, AfterCLA(h))
        /\ UNCHANGED verdict
  /\ UNCHANGED <<pull, signed, statuses, messages, inbox, seen, table, merger, cleaner>>

\* Only a missing signature is written.
MutantCLAWrite(h) ==
  /\ At(h, "claWrite")
  /\ cla' = [cla EXCEPT ![seen[h].sha] =
               IF verdict[h] = "error" THEN "error" ELSE @]
  /\ Go(h, AfterCLA(h))
  /\ UNCHANGED <<pull, signed, blocked, ci, messages, inbox, seen, verdict, table, merger,
                 cleaner>>

CLAWrite(h) ==
  /\ At(h, "claWrite")
  /\ \/ cla' = [cla EXCEPT ![seen[h].sha] = verdict[h]]
     \/ "CLA" \in Failures /\ UNCHANGED cla
  /\ Go(h, AfterCLA(h))
  /\ UNCHANGED <<pull, signed, blocked, ci, messages, inbox, seen, verdict, table, merger,
                 cleaner>>

\* blockPRMerge and unblockPRMerge: nothing for a closed pull request.
CreateBlockStatus(h, value) ==
  \/ /\ seen[h].state = "open"
     /\ blocked' = [blocked EXCEPT ![seen[h].sha] = value]
  \/ /\ seen[h].state = "closed" \/ "GitHub" \in Failures
     /\ UNCHANGED blocked

\* Only blocked pull requests get a status.
MutantSetBlockStatus(h) ==
  /\ At(h, "block")
  /\ IF seen[h].labels \cap BlockLabels # {}
     THEN CreateBlockStatus(h, "pending") ELSE UNCHANGED blocked
  /\ Go(h, "changes")
  /\ UNCHANGED <<pull, signed, cla, ci, messages, inbox, seen, verdict, table, merger,
                 cleaner>>

\* setBlockStatusForPR.
SetBlockStatus(h) ==
  /\ At(h, "block")
  /\ CreateBlockStatus(h, IF seen[h].labels \cap BlockLabels # {}
                          THEN "pending" ELSE "success")
  /\ Go(h, "changes")
  /\ UNCHANGED <<pull, signed, cla, ci, messages, inbox, seen, verdict, table, merger,
                 cleaner>>

\* The cases labeled and unlabeled: a blocking label, put on or taken off,
\* unblocks the merge.
LabelChanged(h) ==
  /\ At(h, "label")
  /\ IF inbox[h].label \in BlockLabels
     THEN CreateBlockStatus(h, "success") ELSE UNCHANGED blocked
  /\ Go(h, "changes")
  /\ UNCHANGED <<pull, signed, cla, ci, messages, inbox, seen, verdict, table, merger,
                 cleaner>>

\* checkPullRequestForChanges up to its Save: the first label that is not in the
\* old row gets its message (handlePRLabeled posts it once, under commentLock).
CheckForChanges(h) ==
  LET new == seen[h].labels \ row.labels
  IN  /\ At(h, "changes")
      /\ IF new = {} THEN UNCHANGED messages
         ELSE \E l \in new : \/ messages' = messages \cup ({l} \cap MessageLabels)
                             \/ "GitHub" \in Failures /\ UNCHANGED messages
      /\ Go(h, IF seen[h] = row THEN "done" ELSE "resave")
      /\ UNCHANGED <<pull, signed, statuses, inbox, seen, verdict, table, merger,
                     cleaner>>

\* ... and its Save.
SaveChanges(h) ==
  /\ At(h, "resave")
  /\ \/ Save(seen[h], h)
     \/ "MySQL" \in Failures /\ UNCHANGED table
  /\ Go(h, "done")
  /\ UNCHANGED <<pull, signed, statuses, messages, inbox, seen, verdict, merger, cleaner>>

\* prFromIssueHandler reads the row and puts the milestone into it ...
PRFromIssue(h) ==
  /\ At(h, "new") /\ InTurn(h) /\ inbox[h].action = "milestoned"
  /\ IF row = NoRow
     THEN /\ Go(h, "done")
          /\ UNCHANGED seen
     ELSE /\ seen' = [seen EXCEPT ![h] = [row EXCEPT !.milestone = inbox[h].milestone]]
          /\ Go(h, "merge")
  /\ UNCHANGED <<pull, signed, statuses, messages, inbox, verdict, table, merger,
                 cleaner>>

\* ... and saves it.
SaveMilestone(h) ==
  /\ At(h, "merge")
  /\ \/ Save(seen[h], h)
     \/ "MySQL" \in Failures /\ UNCHANGED table
  /\ Go(h, "done")
  /\ UNCHANGED <<pull, signed, statuses, messages, inbox, seen, verdict, merger, cleaner>>

\* handleUpdateBranch refuses a commenter who may not, and a fork whose owner does
\* not let us; or GitHub refuses a head that is no longer the one of the request.
UpdateRefused(h) ==
  /\ At(h, "update")
  /\ Go(h, "done")
  /\ UNCHANGED <<pull, signed, statuses, messages, inbox, seen, verdict, table, merger,
                 cleaner>>

\* GitHub merges the base branch into the head named in the request, and sends the
\* event of a push.
UpdateBranch(h) ==
  /\ At(h, "update")
  /\ state = "open" /\ head = seen[h].sha /\ head < MaxSha
  /\ head' = head + 1
  /\ Go(h, "done")
  /\ Len(inbox) < MaxEvents
  /\ UNCHANGED <<state, labels, milestone, signed, statuses, messages, seen, verdict,
                 table, merger, cleaner>>
  /\ inbox' = Append(inbox, Event("synchronize", ""))

Handle(h) ==
  \/ Fetch(h) \/ GetPull(h) \/ ListLabels(h) \/ GiveUp(h) \/ SavePR(h)
  \/ SkipCLA(h) \/ CLAPending(h) \/ CLARead(h) \/ CLAWrite(h) \/ SetBlockStatus(h)
  \/ LabelChanged(h) \/ CheckForChanges(h) \/ SaveChanges(h)
  \/ PRFromIssue(h) \/ SaveMilestone(h) \/ UpdateRefused(h) \/ UpdateBranch(h)

\* Tick lists the pull request, which is open; the rest of its pass are the steps
\* of a handler.
TickLists ==
  /\ "Tick" \in Jobs
  /\ state = "open"
  /\ UNCHANGED <<pull, statuses>>
  /\ Notify("tick", "")

-----------------------------------------------------------------------------
(* AutoMergePR.                                                             *)

MergerUnchanged == UNCHANGED <<signed, statuses, messages, handler, table, cleaner>>

\* ListOpen and hasAutoMerge work on the row.
MergeList ==
  /\ mpc = "idle"
  /\ row # NoRow /\ row.state = "open" /\ AutoMerge \in row.labels
  /\ mpc' = "get"
  /\ UNCHANGED <<pull, inbox, mergeSha, verified>>
  /\ MergerUnchanged

\* The pull request as GitHub has it: closed, or not mergeable, ends the pass.
MergeGet(clean) ==
  /\ mpc = "get"
  /\ mergeSha' = head
  /\ mpc' = IF state = "open" /\ clean THEN "status" ELSE "idle"
  /\ UNCHANGED <<pull, inbox, verified>>
  /\ MergerUnchanged

CombinedSuccess(sha) ==
  ci[sha] = "success" /\ cla[sha] \in {"none", "success"} /\ blocked[sha] # "pending"

\* The combined status of the head just read.
MergeStatus ==
  /\ mpc = "status"
  /\ mpc' = IF CombinedSuccess(mergeSha) THEN "reviewers" ELSE "idle"
  /\ verified' = IF CombinedSuccess(mergeSha) THEN verified \cup {mergeSha} ELSE verified
  /\ UNCHANGED <<pull, inbox, mergeSha>>
  /\ MergerUnchanged

\* Requested reviewers that have not reviewed yet end the pass.
MergeReviewers(pendingReviewers) ==
  /\ mpc = "reviewers"
  /\ mpc' = IF pendingReviewers THEN "idle" ELSE "merge"
  /\ UNCHANGED <<pull, inbox, mergeSha, verified>>
  /\ MergerUnchanged

\* A merge request that names no commit.
MutantGitHubMerges ==
  /\ mpc = "merge"
  /\ state = "open"
  /\ state' = "closed"
  /\ mpc' = "idle"
  /\ UNCHANGED <<head, labels, milestone, mergeSha, verified, signed, statuses, messages,
                 handler, table, cleaner>>
  /\ Len(inbox) < MaxEvents
  /\ inbox' = Append(inbox, Event("closed", ""))

\* GitHub merges an open pull request if its head is the commit named in the
\* request; it then sends the closed event.
GitHubMerges ==
  /\ mpc = "merge"
  /\ state = "open" /\ head = mergeSha
  /\ state' = "closed"
  /\ mpc' = "idle"
  /\ UNCHANGED <<head, labels, milestone, mergeSha, verified, signed, statuses, messages,
                 handler, table, cleaner>>
  /\ Len(inbox) < MaxEvents
  /\ inbox' = Append(inbox, Event("closed", ""))

\* GitHub refuses; the job comments and goes on.
MergeRefused ==
  /\ mpc = "merge"
  /\ state = "closed" \/ head # mergeSha \/ "GitHub" \in Failures
  /\ mpc' = "idle"
  /\ UNCHANGED <<pull, inbox, mergeSha, verified>>
  /\ MergerUnchanged

Merger ==
  \/ MergeList \/ MergeStatus \/ GitHubMerges \/ MergeRefused
  \/ \E clean \in BOOLEAN : MergeGet(clean)
  \/ \E pendingReviewers \in BOOLEAN : MergeReviewers(pendingReviewers)

-----------------------------------------------------------------------------
(* CleanOutdatedPRs.                                                        *)

CleanerUnchanged == UNCHANGED <<pull, signed, statuses, messages, inbox, handler, merger>>

CleanList ==
  /\ "CleanOutdatedPRs" \in Jobs
  /\ kpc = "idle"
  /\ row # NoRow /\ row.state = "open"
  /\ stale' = row
  /\ kpc' = "get"
  /\ UNCHANGED table
  /\ CleanerUnchanged

\* An open pull request is left alone.
CleanGet ==
  /\ kpc = "get"
  /\ \/ /\ state = "closed"
        /\ stale' = [stale EXCEPT !.state = "closed"]
        /\ kpc' = "save"
     \/ /\ state = "open"
        /\ kpc' = "idle"
        /\ UNCHANGED stale
  /\ UNCHANGED table
  /\ CleanerUnchanged

\* The new state stays in memory.
MutantCleanSave ==
  /\ kpc = "save"
  /\ kpc' = "idle"
  /\ UNCHANGED <<table, stale>>
  /\ CleanerUnchanged

CleanSave ==
  /\ kpc = "save"
  /\ Save(stale, 0)
  /\ kpc' = "idle"
  /\ UNCHANGED stale
  /\ CleanerUnchanged

\* An error or a rate limit leaves the row as it is, until the next pass.
CleanFails ==
  /\ "Clean" \in Failures
  /\ kpc \in {"get", "save"}
  /\ kpc' = "idle"
  /\ UNCHANGED <<table, stale>>
  /\ CleanerUnchanged

Cleaner == CleanList \/ CleanGet \/ CleanSave \/ CleanFails

-----------------------------------------------------------------------------
Next ==
  \/ GitHubUsers
  \/ \E h \in Handlers : Handle(h)
  \/ TickLists
  \/ Merger
  \/ Cleaner

\* The handlers run; the clean-up job runs again and again, and a call it makes
\* again and again does not fail for ever.
Fairness ==
  /\ \A h \in Handlers : WF_vars(Handle(h))
  /\ WF_vars(Cleaner) /\ SF_vars(CleanGet) /\ SF_vars(CleanSave)

Spec == Init /\ [][Next]_vars
FairSpec == Spec /\ Fairness

-----------------------------------------------------------------------------
(* Properties.                                                              *)

\* Every variable keeps its type.
TypeOK ==
  /\ head \in Shas /\ state \in {"open", "closed"} /\ labels \subseteq Labels
  /\ milestone \in Milestones /\ signed \in BOOLEAN
  /\ blocked \in [Shas -> {"none", "pending", "success"}]
  /\ cla \in [Shas -> {"none", "pending", "success", "error"}]
  /\ ci \in [Shas -> {"pending", "success"}]
  /\ messages \subseteq MessageLabels
  /\ inbox \in Seq([action : Actions, label : Labels \cup {""}, sha : Shas,
                    state : {"open", "closed"}, milestone : Milestones])
  /\ Len(inbox) <= MaxEvents
  /\ hpc \in [Handlers -> HandlerPoints]
  /\ seen \in [Handlers -> Rows \cup {NoRow}]
  /\ verdict \in [Handlers -> {"none", "success", "error"}]
  /\ row \in Rows \cup {NoRow} /\ writer \in {0} \cup Handlers
  /\ mpc \in {"idle", "get", "status", "reviewers", "merge"}
  /\ mergeSha \in Shas /\ verified \subseteq Shas
  /\ kpc \in {"idle", "get", "save"} /\ stale \in Rows \cup {NoRow}

Quiet == \A h \in DOMAIN inbox : hpc[h] = "done"

\* AutoMergePR merges only a head whose combined status it saw succeed, though
\* commits may be pushed between each two of its calls (the SHA option of the
\* merge request).
MergesVerifiedHead ==
  [][state = "open" /\ state' = "closed" /\ mpc = "merge" /\ mpc' = "idle"
       => head \in verified]_vars

\* The pull request has not changed on GitHub since webhook h was sent, or since Tick
\* listed it for h.
Changing == {"opened", "reopened", "synchronize", "labeled", "unlabeled", "closed"}
Newest(h) ==
  /\ h \in DOMAIN inbox /\ inbox[h].action # "milestoned"
  /\ \A g \in DOMAIN inbox : g > h => inbox[g].action \notin Changing

\* In whatever order handlers, passes of Tick and the clean-up job read and write, and
\* whichever of their calls fail: from when the newest state of the pull request was
\* saved until somebody else writes the row, it has the commit, state and labels that
\* GitHub has.  Only a handler that is late or copies the row, or the clean-up job, can
\* spoil it (GetPullRequestFromGithub, checkPullRequestForChanges, Save).
RowFollowsGitHub ==
  writer # 0 /\ Newest(writer) =>
    row.sha = head /\ row.labels = labels /\ row.state = state

\* Every head that is waiting to be merged has a merge/blocked status once its
\* webhooks are handled: a pull request never waits for a status that nobody
\* will set (setBlockStatusForPR on opened, reopened and synchronize).
HeadHasBlockStatus == Quiet /\ state = "open" => blocked[head] # "none"

\* However checks of the CLA overlap, on events and on /check-cla, none leaves
\* a status "pending" behind when the CLA list could be read (handleCheckCLA).
CLADecided == Quiet => \A s \in Shas : cla[s] # "pending"

\* The database does not keep a closed pull request open for ever: handlers of
\* late webhooks and passes of Tick that listed it before it was closed may reopen
\* the row, CleanOutdatedPRs closes it again.
ClosedIsRecorded == <>[](state = "closed") => <>[](row = NoRow \/ row.state = "closed")

\* A label with a message in the configuration gets its message posted.
LabelIsAnswered == Quiet /\ state = "open" => labels \cap MessageLabels \subseteq messages
=============================================================================
