-------------------------- MODULE PullRequestProofs --------------------------
(* Theorems about PullRequest, for any number of commits, webhooks and labels, *)
(* with CleanUpLabels beside it or without.                                    *)
EXTENDS LabelCleanUp, TLAPS

USE DEF pull, statuses, handler, table, merger, cleaner, At, Go, Save

Events == [action : Actions, label : Labels \cup {""}, sha : Shas,
           state : {"open", "closed"}, milestone : Milestones]

\* A webhook is sent, or Tick lists the pull request.
Sends(action, label) ==
  Len(inbox) < MaxEvents /\ inbox' = Append(inbox, Event(action, label))

-----------------------------------------------------------------------------
(* Types.                                                                   *)

\* What GitHub has, and what it sends.
GitHubOK ==
  /\ head \in Shas /\ state \in {"open", "closed"} /\ labels \subseteq Labels
  /\ milestone \in Milestones
  /\ inbox \in Seq(Events) /\ Len(inbox) <= MaxEvents

StatusOK ==
  /\ blocked \in [Shas -> {"none", "pending", "success"}]
  /\ cla \in [Shas -> {"none", "pending", "success", "error"}]
  /\ ci \in [Shas -> {"pending", "success"}]
  /\ signed \in BOOLEAN /\ messages \subseteq MessageLabels

\* A handler that is at work has a webhook and a pull request.
HandlersOK ==
  /\ hpc \in [Handlers -> HandlerPoints]
  /\ seen \in [Handlers -> Rows \cup {NoRow}]
  /\ verdict \in [Handlers -> {"none", "success", "error"}]
  /\ \A h \in Handlers :
       /\ hpc[h] # "new" => h \in DOMAIN inbox
       /\ hpc[h] \notin {"new", "done"} => seen[h] \in Rows

RowOK == row \in Rows \cup {NoRow} /\ writer \in {0} \cup Handlers

MergerOK ==
  /\ mpc \in {"idle", "get", "status", "reviewers", "merge"}
  /\ mergeSha \in Shas /\ verified \subseteq Shas

CleanerOK ==
  /\ kpc \in {"idle", "get", "save"} /\ stale \in Rows \cup {NoRow}
  /\ kpc \in {"get", "save"} => stale \in Rows

TypeInv == GitHubOK /\ StatusOK /\ HandlersOK /\ RowOK /\ MergerOK /\ CleanerOK

LEMMA TypeInvType == TypeInv => TypeOK
  BY DEF TypeInv, GitHubOK, StatusOK, HandlersOK, RowOK, MergerOK, CleanerOK, TypeOK, Events

LEMMA SavedType ==
  ASSUME RowOK, NEW pr \in Rows
  PROVE  /\ Saved(pr) \in Rows
         /\ Saved(pr).sha = pr.sha /\ Saved(pr).state = pr.state
         /\ Saved(pr).labels = pr.labels
<1>1. (IF row = NoRow THEN 0 ELSE row.milestone) \in Milestones
  BY DEF RowOK, Rows, Milestones
<1> QED
  BY <1>1 DEF Saved, Rows

LEMMA AppendType ==
  ASSUME inbox \in Seq(Events), NEW event \in Events, inbox' = Append(inbox, event),
         Len(inbox) < MaxEvents
  PROVE  /\ inbox' \in Seq(Events) /\ Len(inbox') <= MaxEvents
         /\ Len(inbox) \in Nat /\ Len(inbox') = Len(inbox) + 1
         /\ DOMAIN inbox = 1..Len(inbox) /\ DOMAIN inbox' = 1..(Len(inbox) + 1)
         /\ DOMAIN inbox \subseteq DOMAIN inbox' /\ DOMAIN inbox' \subseteq Handlers
         /\ \A h \in DOMAIN inbox : inbox'[h] = inbox[h]
         /\ inbox'[Len(inbox) + 1] = event
<1>1. MaxEvents \in Nat
  BY BoundsAssumption
<1>2. Len(inbox) \in Nat /\ Len(inbox') = Len(inbox) + 1
  OBVIOUS
<1>3. DOMAIN inbox = 1..Len(inbox) /\ DOMAIN inbox' = 1..(Len(inbox) + 1)
  BY <1>2
<1>6. DOMAIN inbox \subseteq DOMAIN inbox'
  BY <1>2, <1>3
<1>4. inbox' \in Seq(Events) /\ inbox'[Len(inbox) + 1] = event
      /\ \A h \in DOMAIN inbox : inbox'[h] = inbox[h]
  BY <1>2, <1>3
<1>5. Len(inbox') <= MaxEvents /\ 1..(Len(inbox) + 1) \subseteq Handlers
  BY <1>1, <1>2 DEF Handlers
<1> QED
  BY <1>2, <1>3, <1>4, <1>5, <1>6

\* What is sent along with a change of the pull request on GitHub.
Changes(action, label) ==
  /\ action \in Actions \ {"opened"} /\ label \in Labels \cup {""}
  /\ Sends(action, label)
  /\ action \notin Changing => UNCHANGED <<head, state, labels>>
  /\ head' # head => head' = head + 1 /\ action = "synchronize" /\ state' = "open"
  /\ head' \in Shas /\ state' \in {"open", "closed"} /\ labels' \subseteq Labels
  /\ milestone' \in Milestones

\* The same, about the event itself.
Sent(event) ==
  /\ event \in Events /\ event.action # "opened"
  /\ Len(inbox) < MaxEvents /\ inbox' = Append(inbox, event)
  /\ event.sha = head' /\ event.state = state'
  /\ event.action \notin Changing => UNCHANGED <<head, state, labels>>
  /\ head' # head =>
       head' = head + 1 /\ event.action = "synchronize" /\ state' = "open"
  /\ head' \in Shas /\ state' \in {"open", "closed"} /\ labels' \subseteq Labels
  /\ milestone' \in Milestones

LEMMA ChangesSent ==
  ASSUME NEW action, NEW label, Changes(action, label)
  PROVE  \E event \in Events : Sent(event)
<1>1. Event(action, label) \in Events
  BY DEF Changes, Event, Events
<1>2. PICK event \in Events : event = Event(action, label)
  BY <1>1
<1>3. /\ event.action = action /\ event.sha = head' /\ event.state = state'
  BY <1>2 DEF Event
<1> QED
  BY <1>2, <1>3 DEF Changes, Sends, Sent

LEMMA SentType ==
  ASSUME GitHubOK, NEW event, Sent(event)
  PROVE  /\ GitHubOK'
         /\ Len(inbox) \in Nat /\ Len(inbox') = Len(inbox) + 1
         /\ DOMAIN inbox = 1..Len(inbox) /\ DOMAIN inbox' = 1..(Len(inbox) + 1)
         /\ DOMAIN inbox \subseteq DOMAIN inbox' /\ DOMAIN inbox' \subseteq Handlers
         /\ \A h \in DOMAIN inbox : inbox'[h] = inbox[h]
         /\ inbox'[Len(inbox) + 1] = event
BY AppendType DEF Sent, GitHubOK

\* What GitHub, its users and Tick's listing do.
LEMMA UserStep ==
  ASSUME GitHubOK, StatusOK, GitHubUsers \/ TickLists
  PROVE  \/ /\ \E event \in Events : Sent(event)
            /\ UNCHANGED <<statuses, signed, messages, handler, table, merger, cleaner>>
         \/ /\ signed' \in BOOLEAN /\ ci' \in [Shas -> {"pending", "success"}]
            /\ UNCHANGED <<pull, blocked, cla, messages, inbox, handler, table, merger,
                           cleaner>>
<1> DEFINE Others == UNCHANGED <<statuses, signed, messages, handler, table, merger, cleaner>>
<1>0. /\ head \in Shas /\ state \in {"open", "closed"} /\ labels \subseteq Labels
      /\ milestone \in Milestones /\ signed \in BOOLEAN
      /\ ci \in [Shas -> {"pending", "success"}]
  BY DEF GitHubOK, StatusOK
<1> USE DEF Notify, Sends, Actions, Commands, Changing
<1>1. ASSUME PushCommit
      PROVE  Changes("synchronize", "") /\ Others
  <2>1. head' = head + 1 /\ head < MaxSha
    BY <1>1 DEF PushCommit
  <2>2. head' \in Shas
    BY <1>0, <2>1, BoundsAssumption DEF Shas
  <2> QED
    BY <1>0, <1>1, <2>2 DEF PushCommit, Changes
<1>2. ASSUME ClosePull
      PROVE  Changes("closed", "") /\ Others
  BY <1>0, <1>2 DEF ClosePull, Changes
<1>3. ASSUME Reopen
      PROVE  Changes("reopened", "") /\ Others
  BY <1>0, <1>3 DEF Reopen, Changes
<1>4. ASSUME SetMilestone
      PROVE  Changes("milestoned", "") /\ Others
  <2>1. milestone' = 1
    BY <1>4 DEF SetMilestone
  <2>2. milestone' \in Milestones
    BY <2>1 DEF Milestones
  <2> QED
    BY <1>0, <1>4, <2>2 DEF SetMilestone, Changes
<1>5. ASSUME SignCLA \/ BuildPasses
      PROVE  /\ signed' \in BOOLEAN /\ ci' \in [Shas -> {"pending", "success"}]
             /\ UNCHANGED <<pull, blocked, cla, messages, inbox, handler, table, merger,
                            cleaner>>
  BY <1>0, <1>5 DEF SignCLA, BuildPasses
<1>6. ASSUME NEW command \in Commands, Comment(command)
      PROVE  Changes(command, "") /\ Others
  BY <1>0, <1>6 DEF Comment, Changes
<1>7. ASSUME NEW l \in Labels, AddLabel(l)
      PROVE  Changes("labeled", l) /\ Others
  BY <1>0, <1>7 DEF AddLabel, Changes
<1>8. ASSUME NEW l \in Labels, RemoveLabel(l)
      PROVE  Changes("unlabeled", l) /\ Others
  BY <1>0, <1>8 DEF RemoveLabel, Changes
<1>9. ASSUME TickLists
      PROVE  Changes("tick", "") /\ Others
  BY <1>0, <1>9 DEF TickLists, Changes
<1> HIDE DEF Notify, Sends, Others, Commands, Actions, Changing
<1>10. (\E action, label : Changes(action, label) /\ Others) \/ SignCLA \/ BuildPasses
  BY <1>1, <1>2, <1>3, <1>4, <1>6, <1>7, <1>8, <1>9 DEF GitHubUsers
<1> QED
  BY <1>5, <1>10, ChangesSent DEF Others

LEMMA HandlersKept ==
  ASSUME HandlersOK, NEW h \in Handlers, h \in DOMAIN inbox,
         NEW point \in HandlerPoints \ {"new"},
         hpc' = [hpc EXCEPT ![h] = point],
         \/ UNCHANGED seen /\ (seen[h] \in Rows \/ point = "done")
         \/ \E pr \in Rows : seen' = [seen EXCEPT ![h] = pr],
         \/ UNCHANGED verdict
         \/ \E v \in {"success", "error"} : verdict' = [verdict EXCEPT ![h] = v],
         UNCHANGED inbox
  PROVE  HandlersOK' /\ \A g \in Handlers \ {h} : hpc'[g] = hpc[g] /\ seen'[g] = seen[g]
<1>1. verdict' \in [Handlers -> {"none", "success", "error"}]
  BY DEF HandlersOK
<1>2. seen' \in [Handlers -> Rows \cup {NoRow}]
  BY DEF HandlersOK
<1>3. hpc' \in [Handlers -> HandlerPoints] /\ hpc'[h] = point
      /\ \A g \in Handlers \ {h} : hpc'[g] = hpc[g] /\ seen'[g] = seen[g]
  BY DEF HandlersOK
<1>4. seen'[h] \in Rows \/ point = "done"
  BY DEF HandlersOK
<1> QED
  BY <1>1, <1>2, <1>3, <1>4 DEF HandlersOK

\* What the handlers write to GitHub and to the database has its type.
LEMMA BlockStatusType ==
  ASSUME StatusOK, NEW h \in Handlers, seen[h] \in Rows,
         NEW value \in {"pending", "success"}, CreateBlockStatus(h, value)
  PROVE  blocked' \in [Shas -> {"none", "pending", "success"}]
<1>1. seen[h].sha \in Shas
  BY DEF Rows
<1> QED
  BY <1>1 DEF CreateBlockStatus, StatusOK

\* /update-branch and a merge send what they do, as a user's change does.
LEMMA UpdateBranchSends ==
  ASSUME GitHubOK, NEW h \in Handlers, UpdateBranch(h)
  PROVE  \E event \in Events : Sent(event)
<1>1. head' = head + 1 /\ head < MaxSha /\ UNCHANGED <<state, labels, milestone>>
      /\ state = "open"
  BY DEF UpdateBranch
<1>2. head' \in Shas
  <2>1. head \in Shas
    BY DEF GitHubOK
  <2> QED
    BY <1>1, <2>1, BoundsAssumption DEF Shas
<1>3. Changes("synchronize", "")
  BY <1>1, <1>2 DEF UpdateBranch, Sends, Changes, Changing, GitHubOK, Actions
<1> QED
  BY <1>3, ChangesSent

LEMMA GitHubMergesSends ==
  ASSUME GitHubOK, GitHubMerges
  PROVE  \E event \in Events : Sent(event)
<1>1. Changes("closed", "")
  BY DEF GitHubMerges, Sends, Changes, Changing, GitHubOK, Actions
<1> QED
  BY <1>1, ChangesSent

LEMMA HandleType ==
  ASSUME TypeInv, NEW h \in Handlers, Handle(h)
  PROVE  TypeInv'
<1> USE DEF TypeInv, HandlerPoints
<1>0. ASSUME h \in DOMAIN inbox
      PROVE  inbox[h] \in Events
  BY <1>0 DEF GitHubOK
<1>1. CASE Fetch(h)
  <2>1. PICK ls \in SUBSET Labels :
          seen' = [seen EXCEPT ![h] =
            [sha |-> inbox[h].sha, state |-> inbox[h].state, labels |-> ls,
             milestone |-> inbox[h].milestone]]
    BY <1>1 DEF Fetch, GitHubOK
  <2>2. [sha |-> inbox[h].sha, state |-> inbox[h].state, labels |-> ls,
         milestone |-> inbox[h].milestone] \in Rows
    BY <1>0, <1>1 DEF Fetch, Events, Rows
  <2>3. HandlersOK'
    BY <1>1, <2>1, <2>2, HandlersKept DEF Fetch
  <2> QED
    BY <1>1, <2>3 DEF Fetch, GitHubOK, StatusOK, RowOK, MergerOK, CleanerOK
<1>2. CASE GetPull(h)
  <2>1. [sha |-> head, state |-> state, milestone |-> milestone, labels |-> {}] \in Rows
    BY DEF GitHubOK, Rows
  <2>2. HandlersOK'
    BY <1>2, <2>1, HandlersKept DEF GetPull
  <2> QED
    BY <1>2, <2>2 DEF GetPull, GitHubOK, StatusOK, RowOK, MergerOK, CleanerOK
<1>3. CASE ListLabels(h)
  <2>1. seen[h] \in Rows /\ seen \in [Handlers -> Rows \cup {NoRow}]
    BY <1>3 DEF ListLabels, HandlersOK
  <2>2. [seen[h] EXCEPT !.labels = labels] \in Rows
    BY <2>1 DEF GitHubOK, Rows
  <2>3. seen' = [seen EXCEPT ![h] = [seen[h] EXCEPT !.labels = labels]]
    BY <1>3, <2>1 DEF ListLabels
  <2>4. HandlersOK'
    BY <1>3, <2>2, <2>3, HandlersKept DEF ListLabels
  <2> QED
    BY <1>3, <2>4 DEF ListLabels, GitHubOK, StatusOK, RowOK, MergerOK, CleanerOK
<1>4. CASE GiveUp(h)
  <2>1. HandlersOK'
    BY <1>4, HandlersKept DEF GiveUp
  <2> QED
    BY <1>4, <2>1 DEF GiveUp, GitHubOK, StatusOK, RowOK, MergerOK, CleanerOK
<1>5. CASE SavePR(h)
  <2>1. seen[h] \in Rows
    BY <1>5 DEF SavePR, HandlersOK
  <2>2. Dispatch(inbox[h].action) \in HandlerPoints \ {"new"}
    BY DEF Dispatch
  <2>3. HandlersOK'
    BY <1>5, <2>1, <2>2, HandlersKept DEF SavePR
  <2>4. RowOK'
    BY <1>5, <2>1, SavedType DEF SavePR, RowOK
  <2> QED
    BY <1>5, <2>3, <2>4 DEF SavePR, GitHubOK, StatusOK, MergerOK, CleanerOK
<1>6. CASE SkipCLA(h)
  <2>1. seen[h] \in Rows /\ AfterCLA(h) \in {"block", "done"}
    BY <1>6 DEF SkipCLA, HandlersOK, AfterCLA
  <2>2. HandlersOK'
    BY <1>6, <2>1, HandlersKept DEF SkipCLA
  <2> QED
    BY <1>6, <2>2 DEF SkipCLA, GitHubOK, StatusOK, RowOK, MergerOK, CleanerOK
<1>7. CASE CLAPending(h)
  <2>1. seen[h] \in Rows /\ seen[h].sha \in Shas
    BY <1>7 DEF CLAPending, HandlersOK, Rows
  <2>2. HandlersOK'
    BY <1>7, <2>1, HandlersKept DEF CLAPending
  <2> QED
    BY <1>7, <2>1, <2>2 DEF CLAPending, GitHubOK, StatusOK, RowOK, MergerOK, CleanerOK
<1>8. CASE CLARead(h)
  <2>1. seen[h] \in Rows /\ AfterCLA(h) \in {"block", "done"}
    BY <1>8 DEF CLARead, HandlersOK, AfterCLA
  <2>2. PICK v \in {"success", "error"} :
          \/ verdict' = [verdict EXCEPT ![h] = v] /\ hpc' = [hpc EXCEPT ![h] = "claWrite"]
          \/ UNCHANGED verdict /\ hpc' = [hpc EXCEPT ![h] = AfterCLA(h)]
    BY <1>8 DEF CLARead
  <2>3. HandlersOK'
    BY <1>8, <2>1, <2>2, HandlersKept DEF CLARead
  <2> QED
    BY <1>8, <2>3 DEF CLARead, GitHubOK, StatusOK, RowOK, MergerOK, CleanerOK
<1>9. CASE CLAWrite(h)
  <2>1. seen[h] \in Rows /\ seen[h].sha \in Shas /\ AfterCLA(h) \in {"block", "done"}
        /\ verdict[h] \in {"none", "success", "error"}
    BY <1>9 DEF CLAWrite, HandlersOK, Rows, AfterCLA
  <2>2. HandlersOK'
    BY <1>9, <2>1, HandlersKept DEF CLAWrite
  <2> QED
    BY <1>9, <2>1, <2>2 DEF CLAWrite, GitHubOK, StatusOK, RowOK, MergerOK, CleanerOK
<1>10. CASE SetBlockStatus(h)
  <2>1. seen[h] \in Rows
    BY <1>10 DEF SetBlockStatus, HandlersOK
  <2>2. HandlersOK'
    BY <1>10, <2>1, HandlersKept DEF SetBlockStatus
  <2>3. blocked' \in [Shas -> {"none", "pending", "success"}]
    BY <1>10, <2>1, BlockStatusType DEF SetBlockStatus
  <2> QED
    BY <1>10, <2>2, <2>3 DEF SetBlockStatus, GitHubOK, StatusOK, RowOK, MergerOK, CleanerOK
<1>11. CASE LabelChanged(h)
  <2>1. seen[h] \in Rows
    BY <1>11 DEF LabelChanged, HandlersOK
  <2>2. HandlersOK'
    BY <1>11, <2>1, HandlersKept DEF LabelChanged
  <2>3. blocked' \in [Shas -> {"none", "pending", "success"}]
    BY <1>11, <2>1, BlockStatusType DEF LabelChanged, StatusOK
  <2> QED
    BY <1>11, <2>2, <2>3 DEF LabelChanged, GitHubOK, StatusOK, RowOK, MergerOK, CleanerOK
<1>12. CASE CheckForChanges(h)
  <2>1. seen[h] \in Rows
    BY <1>12 DEF CheckForChanges, HandlersOK
  <2>2. HandlersOK'
    BY <1>12, <2>1, HandlersKept DEF CheckForChanges
  <2>3. messages' \subseteq MessageLabels
    BY <1>12 DEF CheckForChanges, StatusOK
  <2> QED
    BY <1>12, <2>2, <2>3 DEF CheckForChanges, GitHubOK, StatusOK, RowOK, MergerOK, CleanerOK
<1>13. CASE SaveChanges(h)
  <2>1. seen[h] \in Rows
    BY <1>13 DEF SaveChanges, HandlersOK
  <2>2. HandlersOK' /\ RowOK'
    BY <1>13, <2>1, HandlersKept, SavedType DEF SaveChanges, RowOK
  <2> QED
    BY <1>13, <2>2 DEF SaveChanges, GitHubOK, StatusOK, MergerOK, CleanerOK
<1>14. CASE PRFromIssue(h)
  <2>1. HandlersOK'
    <3>1. CASE row = NoRow
      BY <1>14, <3>1, HandlersKept DEF PRFromIssue
    <3>2. CASE row # NoRow
      <4>1. row \in Rows /\ inbox[h].milestone \in Milestones
        BY <1>0, <1>14, <3>2 DEF PRFromIssue, RowOK, Events
      <4>2. [row EXCEPT !.milestone = inbox[h].milestone] \in Rows
        BY <4>1 DEF Rows
      <4> QED
        BY <1>14, <3>2, <4>2, HandlersKept DEF PRFromIssue
    <3> QED
      BY <3>1, <3>2
  <2> QED
    BY <1>14, <2>1 DEF PRFromIssue, GitHubOK, StatusOK, RowOK, MergerOK, CleanerOK
<1>15. CASE SaveMilestone(h)
  <2>1. seen[h] \in Rows
    BY <1>15 DEF SaveMilestone, HandlersOK
  <2>2. HandlersOK' /\ RowOK'
    BY <1>15, <2>1, HandlersKept, SavedType DEF SaveMilestone, RowOK
  <2> QED
    BY <1>15, <2>2 DEF SaveMilestone, GitHubOK, StatusOK, MergerOK, CleanerOK
<1>16. CASE UpdateRefused(h)
  <2>1. HandlersOK'
    BY <1>16, HandlersKept DEF UpdateRefused
  <2> QED
    BY <1>16, <2>1 DEF UpdateRefused, GitHubOK, StatusOK, RowOK, MergerOK, CleanerOK
<1>17. CASE UpdateBranch(h)
  <2>1. GitHubOK' /\ DOMAIN inbox \subseteq DOMAIN inbox'
    BY <1>17, UpdateBranchSends, SentType
  <2>2. HandlersOK'
    BY <1>17, <2>1 DEF UpdateBranch, HandlersOK
  <2> QED
    BY <1>17, <2>1, <2>2 DEF UpdateBranch, StatusOK, RowOK, MergerOK, CleanerOK
<1> QED
  BY <1>1, <1>2, <1>3, <1>4, <1>5, <1>6, <1>7, <1>8, <1>9, <1>10, <1>11, <1>12, <1>13,
     <1>14, <1>15, <1>16, <1>17 DEF Handle

LEMMA MergerType ==
  ASSUME TypeInv, Merger
  PROVE  TypeInv'
<1> USE DEF TypeInv
<1>1. CASE GitHubMerges
  <2>1. GitHubOK' /\ DOMAIN inbox \subseteq DOMAIN inbox'
    BY <1>1, GitHubMergesSends, SentType
  <2> QED
    BY <1>1, <2>1 DEF GitHubMerges, StatusOK, HandlersOK, RowOK, MergerOK, CleanerOK
<1>2. CASE MergeList \/ MergeStatus \/ MergeRefused \/ (\E clean \in BOOLEAN : MergeGet(clean))
           \/ (\E pendingReviewers \in BOOLEAN : MergeReviewers(pendingReviewers))
  <2>1. MergerOK'
    BY <1>2 DEF MergeList, MergeStatus, MergeRefused, MergeGet, MergeReviewers, MergerOK,
                GitHubOK
  <2>2. UNCHANGED <<pull, inbox, signed, statuses, messages, handler, table, cleaner>>
    BY <1>2 DEF MergeList, MergeStatus, MergeRefused, MergeGet, MergeReviewers,
                MergerUnchanged
  <2> QED
    BY <2>1, <2>2 DEF GitHubOK, StatusOK, HandlersOK, RowOK, CleanerOK
<1> QED
  BY <1>1, <1>2 DEF Merger

LEMMA CleanerType ==
  ASSUME TypeInv, Cleaner
  PROVE  TypeInv'
<1> USE DEF TypeInv
<1>1. UNCHANGED <<pull, signed, statuses, messages, inbox, handler, merger>>
  BY DEF Cleaner, CleanList, CleanGet, CleanSave, CleanFails, CleanerUnchanged
<1>2. RowOK' /\ CleanerOK'
  <2>1. CASE CleanList
    BY <2>1 DEF CleanList, RowOK, CleanerOK
  <2>2. CASE CleanGet
    BY <2>2 DEF CleanGet, RowOK, CleanerOK, Rows
  <2>3. CASE CleanSave
    BY <2>3, SavedType DEF CleanSave, RowOK, CleanerOK
  <2>4. CASE CleanFails
    BY <2>4 DEF CleanFails, RowOK, CleanerOK
  <2> QED
    BY <2>1, <2>2, <2>3, <2>4 DEF Cleaner
<1> QED
  BY <1>1, <1>2 DEF GitHubOK, StatusOK, HandlersOK, MergerOK

LEMMA UserType ==
  ASSUME TypeInv, GitHubUsers \/ TickLists
  PROVE  TypeInv'
<1> USE DEF TypeInv
<1>1. CASE /\ signed' \in BOOLEAN /\ ci' \in [Shas -> {"pending", "success"}]
           /\ UNCHANGED <<pull, blocked, cla, messages, inbox, handler, table, merger,
                          cleaner>>
  BY <1>1 DEF GitHubOK, StatusOK, HandlersOK, RowOK, MergerOK, CleanerOK
<1>2. ASSUME NEW event \in Events, Sent(event),
             UNCHANGED <<statuses, signed, messages, handler, table, merger, cleaner>>
      PROVE  TypeInv'
  <2>1. GitHubOK' /\ DOMAIN inbox \subseteq DOMAIN inbox'
    BY <1>2, SentType
  <2> QED
    BY <1>2, <2>1 DEF StatusOK, HandlersOK, RowOK, MergerOK, CleanerOK
<1> QED
  BY <1>1, <1>2, UserStep

LEMMA TypeInvHolds == Spec => []TypeInv
<1>1. Init => TypeInv
  <2> SUFFICES ASSUME Init PROVE TypeInv
    OBVIOUS
  <2>0. 1 \in Shas /\ MaxEvents \in Nat /\ 1 <= MaxEvents /\ 0 \in Milestones
    BY BoundsAssumption DEF Shas, Milestones
  <2>1. GitHubOK
    <3>1. PICK opened \in Events : inbox = <<opened>>
      <4>1. [action |-> "opened", label |-> "", sha |-> 1, state |-> "open",
             milestone |-> 0] \in Events
        BY <2>0 DEF Events, Actions
      <4> QED
        BY <4>1 DEF Init
    <3>2. inbox \in Seq(Events) /\ Len(inbox) <= MaxEvents
      BY <2>0, <3>1
    <3> QED
      BY <2>0, <3>2 DEF Init, GitHubOK
  <2>2. HandlersOK /\ StatusOK /\ RowOK /\ CleanerOK
    BY DEF Init, HandlersOK, StatusOK, RowOK, CleanerOK, HandlerPoints
  <2>3. MergerOK
    BY <2>0 DEF Init, MergerOK
  <2> QED
    BY <2>1, <2>2, <2>3 DEF TypeInv
<1>2. TypeInv /\ [Next]_vars => TypeInv'
  <2> SUFFICES ASSUME TypeInv, [Next]_vars PROVE TypeInv'
    OBVIOUS
  <2>1. CASE UNCHANGED vars
    BY <2>1 DEF vars, TypeInv, GitHubOK, StatusOK, HandlersOK, RowOK, MergerOK, CleanerOK
  <2> QED
    BY <2>1, UserType, HandleType, MergerType, CleanerType DEF Next
<1> QED
  BY <1>1, <1>2, PTL DEF Spec

\* Every variable has its type, for any labels and any number of commits and
\* webhooks.
THEOREM TypeCorrect == Spec => []TypeOK
  BY TypeInvHolds, TypeInvType, PTL

-----------------------------------------------------------------------------
(* What steps leave alone.                                                  *)

\* A handler's step is about that handler.
LEMMA HandleFrame ==
  ASSUME TypeInv, NEW h \in Handlers, Handle(h)
  PROVE  /\ h \in DOMAIN inbox /\ hpc[h] # "done" /\ hpc'[h] # "new"
         /\ \A g \in Handlers \ {h} : hpc'[g] = hpc[g] /\ seen'[g] = seen[g]
         /\ UNCHANGED <<merger, cleaner>>
         /\ UpdateBranch(h) \/ UNCHANGED <<pull, inbox>>
<1>1. hpc \in [Handlers -> HandlerPoints] /\ seen \in [Handlers -> Rows \cup {NoRow}]
  BY DEF TypeInv, HandlersOK
<1>2. Dispatch(inbox[h].action) # "new" /\ AfterCLA(h) # "new"
  BY DEF Dispatch, AfterCLA
<1> QED
  BY <1>1, <1>2
  DEF Handle, Fetch, GetPull, ListLabels, GiveUp, SavePR, SkipCLA, CLAPending,
      CLARead, CLAWrite, SetBlockStatus, LabelChanged, CheckForChanges,
      SaveChanges, PRFromIssue, SaveMilestone, UpdateRefused, UpdateBranch

\* Only handlers change the statuses that the bot writes, and themselves.
LEMMA OtherStep ==
  ASSUME TypeInv, [Next]_vars
  PROVE  (\E h \in Handlers : Handle(h)) \/ UNCHANGED <<blocked, cla, handler>>
<1>1. CASE Merger
  BY <1>1 DEF Merger, MergeList, MergeGet, MergeStatus, MergeReviewers, GitHubMerges,
              MergeRefused, MergerUnchanged
<1>2. CASE Cleaner
  BY <1>2 DEF Cleaner, CleanList, CleanGet, CleanSave, CleanFails, CleanerUnchanged
<1>3. CASE GitHubUsers \/ TickLists
  BY <1>3, UserStep DEF TypeInv
<1>4. CASE UNCHANGED vars
  BY <1>4 DEF vars
<1> QED
  BY <1>1, <1>2, <1>3, <1>4 DEF Next

-----------------------------------------------------------------------------
(* AutoMergePR.                                                             *)

\* The job has seen the combined status of the commit it is about to merge.
MergeInv == mpc \in {"reviewers", "merge"} => mergeSha \in verified

\* AutoMergePR merges no head but one whose combined status it saw succeed,
\* whatever is pushed between its calls (auto_merge.go:58-137).
THEOREM OnlyVerifiedMerges == Spec => MergesVerifiedHead
<1> DEFINE A == state = "open" /\ state' = "closed" /\ mpc = "merge" /\ mpc' = "idle"
                  => head \in verified
<1>1. Init => MergeInv
  BY DEF Init, MergeInv
<1>2. TypeInv /\ MergeInv /\ [Next]_vars => MergeInv' /\ [A]_vars
  <2> SUFFICES ASSUME TypeInv, MergeInv, [Next]_vars
               PROVE  MergeInv' /\ A
    OBVIOUS
  <2>1. CASE Merger
    BY <2>1 DEF Merger, MergeList, MergeGet, MergeStatus, MergeReviewers, GitHubMerges,
                MergeRefused, MergerUnchanged, MergeInv
  <2>2. CASE UNCHANGED merger
    BY <2>2 DEF MergeInv
  <2>3. ASSUME NEW h \in Handlers, Handle(h)
        PROVE  UNCHANGED merger
    BY <2>3 DEF Handle, Fetch, GetPull, ListLabels, GiveUp, SavePR, SkipCLA, CLAPending,
                CLARead, CLAWrite, SetBlockStatus, LabelChanged, CheckForChanges,
                SaveChanges, PRFromIssue, SaveMilestone, UpdateRefused, UpdateBranch
  <2>4. CASE Cleaner
    BY <2>2, <2>4 DEF Cleaner, CleanList, CleanGet, CleanSave, CleanFails, CleanerUnchanged
  <2>5. CASE GitHubUsers \/ TickLists
    BY <2>2, <2>5, UserStep DEF TypeInv
  <2>6. CASE UNCHANGED vars
    BY <2>2, <2>6 DEF vars
  <2> QED
    BY <2>1, <2>2, <2>3, <2>4, <2>5, <2>6 DEF Next
<1> QED
  BY <1>1, <1>2, TypeInvHolds, PTL DEF Spec, MergesVerifiedHead

-----------------------------------------------------------------------------
(* The CLA status.                                                          *)

\* A status that is pending has a check under way.
Checking(h, s) == hpc[h] \in {"claRead", "claWrite"} /\ seen[h].sha = s
CLAInv == \A s \in Shas : cla[s] = "pending" => \E h \in Handlers : Checking(h, s)

\* Checks overlap in any number and order; if the CLA list can be read none leaves a
\* commit pending (cla.go:19-116).
THEOREM CLASettled ==
  ASSUME "CLA" \notin Failures
  PROVE  Spec => []CLADecided
<1>1. Init => CLAInv
  BY DEF Init, CLAInv
<1>2. TypeInv /\ CLAInv /\ [Next]_vars => CLAInv'
  <2> SUFFICES ASSUME TypeInv, CLAInv, [Next]_vars
               PROVE  CLAInv'
    OBVIOUS
  <2>1. ASSUME NEW h \in Handlers, Handle(h)
        PROVE  CLAInv'
    <3>1. /\ \A g \in Handlers \ {h} : hpc'[g] = hpc[g] /\ seen'[g] = seen[g]
          /\ hpc \in [Handlers -> HandlerPoints]
          /\ cla \in [Shas -> {"none", "pending", "success", "error"}]
          /\ verdict[h] \in {"none", "success", "error"}
      BY <2>1, HandleFrame DEF TypeInv, HandlersOK, StatusOK
    <3>2. CASE hpc[h] \notin {"claRead", "claWrite"} /\ UNCHANGED cla
      BY <3>1, <3>2 DEF CLAInv, Checking
    <3>3. CASE CLAPending(h)
      BY <3>1, <3>3 DEF CLAPending, CLAInv, Checking
    <3>4. CASE CLARead(h)
      BY <3>1, <3>4 DEF CLARead, CLAInv, Checking
    <3>5. CASE CLAWrite(h)
      BY <3>1, <3>5 DEF CLAWrite, CLAInv, Checking
    <3> QED
      BY <2>1, <3>2, <3>3, <3>4, <3>5
      DEF Handle, Fetch, GetPull, ListLabels, GiveUp, SavePR, SkipCLA, SetBlockStatus,
          LabelChanged, CheckForChanges, SaveChanges, PRFromIssue, SaveMilestone,
          UpdateRefused, UpdateBranch
  <2>2. CASE UNCHANGED <<cla, handler>>
    BY <2>2 DEF CLAInv, Checking
  <2> QED
    BY <2>1, <2>2, OtherStep
<1>3. TypeInv /\ CLAInv => CLADecided
  BY DEF TypeInv, HandlersOK, CLAInv, Checking, CLADecided, Quiet
<1> QED
  BY <1>1, <1>2, <1>3, TypeInvHolds, PTL DEF Spec

-----------------------------------------------------------------------------
(* The status merge/blocked.                                                *)

\* The handler of the event that brought commit s has the status before it.
Waiting(h, s) ==
  /\ h \in DOMAIN inbox
  /\ inbox[h].action \in {"opened", "synchronize"}
  /\ inbox[h].sha = s /\ inbox[h].state = "open"
  /\ hpc[h] \in {"new", "save", "claPending", "claRead", "claWrite", "block"}
  /\ hpc[h] # "new" => seen[h].sha = s /\ seen[h].state = "open"

BlockInv ==
  \A s \in 1..head : blocked[s] # "none" \/ \E h \in Handlers : Waiting(h, s)

\* A status is overwritten and never removed.
LEMMA BlockedStays ==
  ASSUME TypeInv, NEW h \in Handlers, Handle(h), NEW s \in Shas, blocked[s] # "none"
  PROVE  blocked'[s] # "none"
<1>1. blocked \in [Shas -> {"none", "pending", "success"}]
  BY DEF TypeInv, StatusOK
<1>2. ASSUME NEW value \in {"pending", "success"}, CreateBlockStatus(h, value)
      PROVE  blocked'[s] # "none"
  BY <1>1, <1>2 DEF CreateBlockStatus
<1> QED
  BY <1>1, <1>2
  DEF Handle, Fetch, GetPull, ListLabels, GiveUp, SavePR, SkipCLA, CLAPending,
      CLARead, CLAWrite, SetBlockStatus, LabelChanged, CheckForChanges,
      SaveChanges, PRFromIssue, SaveMilestone, UpdateRefused, UpdateBranch

\* A handler that waits goes on waiting until it writes the status.
LEMMA WaitingStep ==
  ASSUME TypeInv, {"GitHub", "MySQL"} \cap Failures = {},
         NEW h \in Handlers, Handle(h), ~UpdateBranch(h), NEW s \in Shas, Waiting(h, s)
  PROVE  Waiting(h, s)' \/ blocked'[s] # "none"
<1>1. /\ hpc \in [Handlers -> HandlerPoints] /\ seen \in [Handlers -> Rows \cup {NoRow}]
      /\ blocked \in [Shas -> {"none", "pending", "success"}]
      /\ inbox' = inbox /\ h \in DOMAIN inbox
      /\ inbox[h].action \in {"opened", "synchronize"}
      /\ inbox[h].sha = s /\ inbox[h].state = "open"
  BY HandleFrame DEF TypeInv, HandlersOK, StatusOK, Waiting
<1>2. Dispatch(inbox[h].action) = "claPending" /\ AfterCLA(h) = "block"
  BY <1>1 DEF Dispatch, AfterCLA
<1>3. CASE Fetch(h)
  BY <1>1, <1>3 DEF Fetch, Waiting
<1>4. CASE SavePR(h)
  BY <1>1, <1>2, <1>4 DEF SavePR, Waiting
<1>5. CASE CLAPending(h) \/ SkipCLA(h)
  BY <1>1, <1>2, <1>5 DEF CLAPending, SkipCLA, Waiting
<1>6. CASE CLARead(h)
  BY <1>1, <1>2, <1>6 DEF CLARead, Waiting
<1>7. CASE CLAWrite(h)
  BY <1>1, <1>2, <1>7 DEF CLAWrite, Waiting
<1>8. CASE SetBlockStatus(h)
  <2>1. seen[h].sha = s /\ seen[h].state = "open"
    BY <1>8 DEF SetBlockStatus, Waiting
  <2>2. \E value \in {"pending", "success"} : CreateBlockStatus(h, value)
    BY <1>8 DEF SetBlockStatus
  <2> QED
    BY <1>1, <2>1, <2>2 DEF CreateBlockStatus
<1>9. ~GiveUp(h)
  BY DEF GiveUp
<1> QED
  BY <1>1, <1>3, <1>4, <1>5, <1>6, <1>7, <1>8, <1>9
  DEF Handle, GetPull, ListLabels, LabelChanged, CheckForChanges, SaveChanges,
      PRFromIssue, SaveMilestone, UpdateRefused, Waiting, Commands

\* A change on GitHub adds its event and leaves the waiting handlers as they are; a
\* commit comes with a handler of its own.
LEMMA WaitingSent ==
  ASSUME TypeInv, BlockInv, UNCHANGED <<blocked, seen>>,
         NEW event \in Events, Sent(event),
         \A h \in Handlers : hpc'[h] = hpc[h] \/ hpc[h] = "update"
  PROVE  BlockInv'
<1>0. /\ event.sha = head' /\ event.state = state' /\ head' \in Shas
      /\ head' # head =>
           head' = head + 1 /\ event.action = "synchronize" /\ state' = "open"
  BY DEF Sent
<1>1. /\ Len(inbox) \in Nat
      /\ DOMAIN inbox = 1..Len(inbox) /\ DOMAIN inbox' = 1..(Len(inbox) + 1)
      /\ DOMAIN inbox \subseteq DOMAIN inbox' /\ DOMAIN inbox' \subseteq Handlers
      /\ \A h \in DOMAIN inbox : inbox'[h] = inbox[h]
      /\ inbox'[Len(inbox) + 1] = event
  BY SentType DEF TypeInv
<1>2. ASSUME NEW s \in 1..head, NEW h \in Handlers, Waiting(h, s)
      PROVE  Waiting(h, s)'
  BY <1>1, <1>2 DEF Waiting
<1>3. ASSUME event.action = "synchronize", state' = "open", NEW n, n = Len(inbox) + 1,
             NEW s \in Shas, s = head'
      PROVE  n \in Handlers /\ Waiting(n, s)'
  <2>1. n \in Handlers /\ n \in DOMAIN inbox' /\ n \notin DOMAIN inbox
    BY <1>1, <1>3
  <2>2. hpc[n] = "new"
    BY <2>1 DEF TypeInv, HandlersOK
  <2>3. hpc'[n] = "new"
    BY <2>1, <2>2
  <2> QED
    BY <1>0, <1>1, <1>3, <2>1, <2>3 DEF Waiting
<1>4. head \in Nat /\ head' \in Nat
  <2>1. head \in 1..MaxSha /\ head' \in 1..MaxSha
    BY <1>0 DEF TypeInv, GitHubOK, Shas
  <2> QED
    BY <2>1
<1>5. ASSUME NEW s \in 1..head'
      PROVE  blocked'[s] # "none" \/ \E h \in Handlers : Waiting(h, s)'
  <2>1. CASE s \in 1..head
    BY <1>2, <2>1 DEF BlockInv
  <2>2. CASE s \notin 1..head
    <3>1. head' # head /\ s = head'
      <4>1. head' = head \/ head' = head + 1
        BY <1>0
      <4> QED
        BY <1>4, <2>2, <4>1
    <3>2. PICK n : n = Len(inbox) + 1
      OBVIOUS
    <3>3. n \in Handlers /\ Waiting(n, s)'
      BY <1>0, <1>3, <3>1, <3>2
    <3> QED
      BY <3>3
  <2> QED
    BY <2>1, <2>2
<1> QED
  BY <1>5 DEF BlockInv, Waiting

\* Every head that can be merged gets its status merge/blocked, for webhooks in any
\* order and any overlap, if GitHub and the database answer
\* (pull_request_handler.go:83, 128, 481-491).
THEOREM EveryHeadHasStatus ==
  ASSUME {"GitHub", "MySQL"} \cap Failures = {}
  PROVE  Spec => []HeadHasBlockStatus
<1>1. Init => BlockInv
  <2> SUFFICES ASSUME Init PROVE BlockInv
    OBVIOUS
  <2>1. 1 \in Handlers
    BY BoundsAssumption DEF Handlers
  <2>2. PICK opened :
          opened = [action |-> "opened", label |-> "", sha |-> 1, state |-> "open",
                    milestone |-> 0]
    OBVIOUS
  <2>3. inbox = <<opened>> /\ opened.action = "opened" /\ opened.sha = 1
        /\ opened.state = "open"
    BY <2>2 DEF Init
  <2>4. hpc[1] = "new" /\ head = 1
    BY <2>1 DEF Init
  <2>5. Waiting(1, 1)
    BY <2>3, <2>4 DEF Waiting
  <2> QED
    BY <2>1, <2>4, <2>5 DEF BlockInv
<1>2. TypeInv /\ BlockInv /\ [Next]_vars => BlockInv'
  <2> SUFFICES ASSUME TypeInv, BlockInv, [Next]_vars
               PROVE  BlockInv'
    OBVIOUS
  <2>0. 1..head \subseteq Shas
    BY BoundsAssumption DEF TypeInv, GitHubOK, Shas
  <2>1. ASSUME NEW h \in Handlers, Handle(h), ~UpdateBranch(h)
        PROVE  BlockInv'
    <3>1. /\ UNCHANGED <<pull, inbox>>
          /\ \A g \in Handlers \ {h} : hpc'[g] = hpc[g] /\ seen'[g] = seen[g]
      BY <2>1, HandleFrame
    <3>2. ASSUME NEW s \in 1..head
          PROVE  blocked'[s] # "none" \/ \E g \in Handlers : Waiting(g, s)'
      <4>1. CASE blocked[s] # "none"
        BY <2>0, <2>1, <4>1, BlockedStays
      <4>2. ASSUME NEW g \in Handlers, Waiting(g, s)
            PROVE  blocked'[s] # "none" \/ Waiting(g, s)'
        <5>1. CASE g = h
          BY <2>0, <2>1, <4>2, <5>1, WaitingStep
        <5>2. CASE g # h
          BY <3>1, <4>2, <5>2 DEF Waiting
        <5> QED
          BY <5>1, <5>2
      <4> QED
        BY <4>1, <4>2 DEF BlockInv
    <3> QED
      BY <3>1, <3>2 DEF BlockInv, Waiting
  <2>2. ASSUME NEW h \in Handlers, UpdateBranch(h)
        PROVE  BlockInv'
    <3>1. UNCHANGED <<blocked, seen>>
          /\ \A g \in Handlers : hpc'[g] = hpc[g] \/ hpc[g] = "update"
      BY <2>2 DEF UpdateBranch, TypeInv, HandlersOK
    <3> QED
      BY <2>2, <3>1, UpdateBranchSends, WaitingSent DEF TypeInv
  <2>3. CASE GitHubUsers \/ TickLists \/ Merger \/ Cleaner
    <3>1. UNCHANGED <<blocked, handler>>
      BY <2>3, UserStep DEF TypeInv, Merger, MergeList, MergeGet, MergeStatus,
          MergeReviewers, GitHubMerges, MergeRefused, MergerUnchanged, Cleaner, CleanList,
          CleanGet, CleanSave, CleanFails, CleanerUnchanged
    <3>2. \/ \E event \in Events : Sent(event)
          \/ UNCHANGED <<head, inbox>>
      <4>1. CASE GitHubUsers \/ TickLists
        BY <4>1, UserStep DEF TypeInv
      <4>2. CASE GitHubMerges
        BY <4>2, GitHubMergesSends DEF TypeInv
      <4>3. CASE Merger /\ ~GitHubMerges
        BY <4>3 DEF Merger, MergeList, MergeGet, MergeStatus, MergeReviewers, MergeRefused
      <4>4. CASE Cleaner
        BY <4>4 DEF Cleaner, CleanList, CleanGet, CleanSave, CleanFails, CleanerUnchanged
      <4> QED
        BY <2>3, <4>1, <4>2, <4>3, <4>4
    <3>3. CASE \E event \in Events : Sent(event)
      BY <3>1, <3>3, WaitingSent
    <3>4. CASE UNCHANGED <<head, inbox>>
      BY <3>1, <3>4 DEF BlockInv, Waiting
    <3> QED
      BY <3>2, <3>3, <3>4
  <2>4. CASE UNCHANGED vars
    BY <2>4 DEF vars, BlockInv, Waiting
  <2> QED
    BY <2>1, <2>2, <2>3, <2>4 DEF Next
<1>3. TypeInv /\ BlockInv => HeadHasBlockStatus
  <2> SUFFICES ASSUME TypeInv, BlockInv, Quiet PROVE blocked[head] # "none"
    BY DEF HeadHasBlockStatus
  <2>1. head \in 1..head
    BY BoundsAssumption DEF TypeInv, GitHubOK, Shas
  <2>2. \A h \in Handlers : ~Waiting(h, head)
    BY DEF Waiting, Quiet
  <2> QED
    BY <2>1, <2>2 DEF BlockInv
<1> QED
  BY <1>1, <1>2, <1>3, TypeInvHolds, PTL DEF Spec

-----------------------------------------------------------------------------
(* The row.                                                                 *)

\* What the handler of the newest webhook reads, and what it has written if nobody
\* wrote after it, is how GitHub has the pull request.
Current(h) ==
  /\ inbox[h].sha = head /\ inbox[h].state = state
  /\ inbox[h].action = "opened" => labels = {}
  /\ hpc[h] \notin {"new", "done"} =>
       /\ seen[h].sha = head /\ seen[h].state = state
       /\ hpc[h] # "list" => seen[h].labels = labels
  /\ writer = h => row.sha = head /\ row.state = state /\ row.labels = labels

RowInv ==
  /\ \A h \in Handlers : hpc[h] = "merge" => inbox[h].action = "milestoned"
  /\ \A h \in Handlers : writer = h => hpc[h] # "new"
  /\ \A h \in Handlers : Newest(h) => Current(h)

\* A handler that writes the row writes what it has seen.
LEMMA RowStep ==
  ASSUME TypeInv, NEW h \in Handlers, Handle(h)
  PROVE  \/ UNCHANGED table
         \/ /\ hpc[h] \in {"save", "resave", "merge"} /\ UNCHANGED seen /\ writer' = h
            /\ row'.sha = seen[h].sha /\ row'.state = seen[h].state
            /\ row'.labels = seen[h].labels
<1>1. CASE SavePR(h) \/ SaveChanges(h) \/ SaveMilestone(h)
  <2>1. seen[h] \in Rows /\ RowOK
    BY <1>1 DEF TypeInv, HandlersOK, SavePR, SaveChanges, SaveMilestone
  <2> QED
    BY <1>1, <2>1, SavedType DEF SavePR, SaveChanges, SaveMilestone
<1> QED
  BY <1>1 DEF Handle, Fetch, GetPull, ListLabels, GiveUp, SkipCLA, CLAPending,
      CLARead, CLAWrite, SetBlockStatus, LabelChanged, CheckForChanges, PRFromIssue,
      UpdateRefused, UpdateBranch

\* What the handler of the newest webhook has read stays what GitHub has.
LEMMA SeenStep ==
  ASSUME TypeInv, RowInv, NEW h \in Handlers, Handle(h), ~UpdateBranch(h), Newest(h),
         hpc'[h] # "done"
  PROVE  /\ seen'[h].sha = head /\ seen'[h].state = state
         /\ hpc'[h] # "list" => seen'[h].labels = labels
<1>1. /\ hpc \in [Handlers -> HandlerPoints] /\ seen \in [Handlers -> Rows \cup {NoRow}]
      /\ hpc[h] \notin {"new", "done"} => seen[h] \in Rows
  BY DEF TypeInv, HandlersOK
<1>2. /\ Current(h) /\ inbox[h].action # "milestoned" /\ hpc[h] # "merge"
  BY DEF RowInv, Newest
<1>3. CASE Fetch(h) \/ GetPull(h)
  <2>1. CASE Fetch(h)
    <3>1. /\ seen'[h].sha = inbox[h].sha /\ seen'[h].state = inbox[h].state
          /\ seen'[h].labels = IF inbox[h].action = "opened" THEN {} ELSE labels
      BY <1>1, <2>1 DEF Fetch
    <3> QED
      BY <1>2, <3>1 DEF Current
  <2>2. CASE GetPull(h)
    <3>1. hpc'[h] = "list" /\ seen'[h].sha = head /\ seen'[h].state = state
      BY <1>1, <2>2 DEF GetPull
    <3> QED
      BY <3>1
  <2> QED
    BY <1>3, <2>1, <2>2
<1>4. CASE ListLabels(h)
  <2>1. seen[h] \in Rows /\ seen[h].sha = head /\ seen[h].state = state
    BY <1>1, <1>2, <1>4 DEF ListLabels, Current
  <2>2. seen'[h] = [seen[h] EXCEPT !.labels = labels]
    BY <1>1, <1>4 DEF ListLabels
  <2> QED
    BY <2>1, <2>2 DEF Rows
<1>5. CASE UNCHANGED seen /\ hpc[h] \notin {"new", "list", "done"}
  BY <1>2, <1>5 DEF Current
<1>6. ~GiveUp(h) /\ ~PRFromIssue(h)
  BY <1>1, <1>2 DEF GiveUp, PRFromIssue
<1> QED
  BY <1>3, <1>4, <1>5, <1>6
  DEF Handle, SavePR, SkipCLA, CLAPending, CLARead, CLAWrite, SetBlockStatus,
      LabelChanged, CheckForChanges, SaveChanges, SaveMilestone, UpdateRefused

\* Whichever handler goes on, in whatever order: it writes the row in the name of no
\* other.
LEMMA RowKept ==
  ASSUME TypeInv, RowInv, NEW h \in Handlers, Handle(h), ~UpdateBranch(h)
  PROVE  RowInv'
<1>1. /\ UNCHANGED <<pull, inbox>> /\ hpc[h] # "done" /\ hpc'[h] # "new"
      /\ \A k \in Handlers \ {h} : hpc'[k] = hpc[k] /\ seen'[k] = seen[k]
  BY HandleFrame
<1>2. hpc'[h] = "merge" => inbox[h].action = "milestoned"
  <2>1. Dispatch(inbox[h].action) # "merge" /\ AfterCLA(h) # "merge"
    BY DEF Dispatch, AfterCLA
  <2> QED
    BY <2>1
    DEF TypeInv, HandlersOK, Handle, Fetch, GetPull, ListLabels, GiveUp, SavePR, SkipCLA,
        CLAPending, CLARead, CLAWrite, SetBlockStatus, LabelChanged, CheckForChanges,
        SaveChanges, PRFromIssue, SaveMilestone, UpdateRefused
<1>3. ASSUME NEW k \in Handlers, Newest(k)
      PROVE  Current(k)'
  <2>1. Current(k)
    BY <1>3 DEF RowInv
  <2>2. hpc'[k] \notin {"new", "done"} =>
          /\ seen'[k].sha = head /\ seen'[k].state = state
          /\ hpc'[k] # "list" => seen'[k].labels = labels
    <3>1. CASE k = h
      BY <1>3, <3>1, SeenStep
    <3>2. CASE k # h
      BY <1>1, <2>1, <3>2 DEF Current
    <3> QED
      BY <3>1, <3>2
  <2>3. writer' = k => row'.sha = head /\ row'.state = state /\ row'.labels = labels
    <3>1. CASE UNCHANGED table
      BY <2>1, <3>1 DEF Current
    <3>2. CASE /\ hpc[h] \in {"save", "resave", "merge"} /\ writer' = h
               /\ row'.sha = seen[h].sha /\ row'.state = seen[h].state
               /\ row'.labels = seen[h].labels
      <4>1. k = h => hpc[k] # "merge"
        BY <1>3 DEF RowInv, Newest
      <4> QED
        BY <2>1, <3>2, <4>1 DEF Current
    <3> QED
      BY <3>1, <3>2, RowStep
  <2> QED
    BY <1>1, <2>1, <2>2, <2>3 DEF Current
<1>4. \A k \in Handlers : Newest(k)' <=> Newest(k)
  BY <1>1 DEF Newest
<1>5. \A k \in Handlers : writer' = k => hpc'[k] # "new"
  BY <1>1, RowStep DEF RowInv
<1> QED
  BY <1>1, <1>2, <1>3, <1>4, <1>5 DEF RowInv

\* A change on GitHub sends a webhook that is then the newest; another webhook is as
\* new as the newest so far.
LEMMA RowSent ==
  ASSUME TypeInv, RowInv, UNCHANGED <<seen, table>>,
         NEW event \in Events, Sent(event),
         \A h \in Handlers : hpc'[h] = hpc[h] \/ (hpc[h] = "update" /\ hpc'[h] = "done")
  PROVE  RowInv'
<1>0. /\ event.sha = head' /\ event.state = state' /\ event.action # "opened"
      /\ event.action \notin Changing => UNCHANGED <<head, state, labels>>
  BY DEF Sent
<1>1. /\ Len(inbox) \in Nat
      /\ DOMAIN inbox = 1..Len(inbox) /\ DOMAIN inbox' = 1..(Len(inbox) + 1)
      /\ DOMAIN inbox \subseteq DOMAIN inbox' /\ DOMAIN inbox' \subseteq Handlers
      /\ \A h \in DOMAIN inbox : inbox'[h] = inbox[h]
      /\ inbox'[Len(inbox) + 1] = event
  BY SentType DEF TypeInv
<1>2. PICK n : n = Len(inbox) + 1
  OBVIOUS
<1>3. /\ n \in Handlers /\ n \in DOMAIN inbox' /\ n \notin DOMAIN inbox
      /\ inbox'[n] = event
      /\ \A h \in DOMAIN inbox' : h = n \/ (h \in DOMAIN inbox /\ n > h)
  BY <1>1, <1>2
<1>4. hpc[n] = "new" /\ hpc'[n] = "new" /\ writer # n
  BY <1>3 DEF TypeInv, HandlersOK, RowInv
<1>5. ASSUME NEW h \in Handlers, Newest(h)'
      PROVE  Current(h)'
  <2>1. CASE h = n
    BY <1>0, <1>3, <1>4, <2>1 DEF Current
  <2>2. CASE h # n
    <3>1. h \in DOMAIN inbox /\ n > h /\ inbox'[h] = inbox[h]
      BY <1>1, <1>3, <1>5, <2>2 DEF Newest
    <3>2. event.action \notin Changing
      BY <1>3, <1>5, <3>1 DEF Newest
    <3>3. Newest(h)
      BY <1>1, <1>5, <3>1 DEF Newest
    <3>4. Current(h) /\ UNCHANGED <<head, state, labels>>
      BY <1>0, <3>2, <3>3 DEF RowInv
    <3> QED
      BY <3>1, <3>4 DEF Current
  <2> QED
    BY <2>1, <2>2
<1>6. ASSUME NEW h \in Handlers
      PROVE  /\ hpc'[h] = "merge" => inbox'[h].action = "milestoned"
             /\ writer' = h => hpc'[h] # "new"
  <2>1. hpc[h] # "new" => h \in DOMAIN inbox /\ inbox'[h] = inbox[h]
    BY <1>1 DEF TypeInv, HandlersOK
  <2> QED
    BY <2>1 DEF RowInv
<1> QED
  BY <1>5, <1>6 DEF RowInv

\* In whatever order the webhooks are handled, beside every job and whatever fails: the
\* row has what GitHub has from when the newest state was saved until somebody else
\* writes it (github.go:30-97, pull_request_handler.go:236-244).
THEOREM RowFollows == Spec => []RowFollowsGitHub
<1>1. Init => RowInv
  <2> SUFFICES ASSUME Init PROVE RowInv
    OBVIOUS
  <2>1. PICK opened :
          opened = [action |-> "opened", label |-> "", sha |-> 1, state |-> "open",
                    milestone |-> 0]
    OBVIOUS
  <2>2. inbox = <<opened>> /\ opened.action = "opened" /\ opened.sha = 1
        /\ opened.state = "open"
    BY <2>1 DEF Init
  <2>3. inbox[1] = opened /\ DOMAIN inbox = {1}
    BY <2>2
  <2>4. head = 1 /\ state = "open" /\ labels = {} /\ writer = 0
    BY DEF Init
  <2>5. \A h \in Handlers : hpc[h] = "new"
    BY DEF Init
  <2>6. \A h \in Handlers : h # 0
    BY DEF Handlers
  <2> QED
    BY <2>2, <2>3, <2>4, <2>5, <2>6 DEF RowInv, Newest, Current
<1>2. TypeInv /\ RowInv /\ [Next]_vars => RowInv'
  <2> SUFFICES ASSUME TypeInv, RowInv, [Next]_vars
               PROVE  RowInv'
    OBVIOUS
  <2>1. ASSUME NEW h \in Handlers, UpdateBranch(h)
        PROVE  RowInv'
    <3>1. UNCHANGED <<seen, table>>
          /\ \A g \in Handlers : hpc'[g] = hpc[g] \/ (hpc[g] = "update" /\ hpc'[g] = "done")
      BY <2>1 DEF UpdateBranch, TypeInv, HandlersOK
    <3> QED
      BY <2>1, <3>1, UpdateBranchSends, RowSent DEF TypeInv
  <2>2. CASE GitHubUsers \/ TickLists \/ Merger
    <3>1. UNCHANGED <<hpc, seen, table>>
      BY <2>2, UserStep DEF TypeInv, Merger, MergeList, MergeGet, MergeStatus,
          MergeReviewers, GitHubMerges, MergeRefused, MergerUnchanged
    <3>2. \/ \E event \in Events : Sent(event)
          \/ UNCHANGED <<head, state, labels, inbox>>
      <4>1. CASE GitHubUsers \/ TickLists
        BY <4>1, UserStep DEF TypeInv
      <4>2. CASE GitHubMerges
        BY <4>2, GitHubMergesSends DEF TypeInv
      <4>3. CASE Merger /\ ~GitHubMerges
        BY <4>3 DEF Merger, MergeList, MergeGet, MergeStatus, MergeReviewers, MergeRefused
      <4> QED
        BY <2>2, <4>1, <4>2, <4>3
    <3>3. CASE \E event \in Events : Sent(event)
      BY <3>1, <3>3, RowSent
    <3>4. CASE UNCHANGED <<head, state, labels, inbox>>
      BY <3>1, <3>4 DEF RowInv, Newest, Current
    <3> QED
      BY <3>2, <3>3, <3>4
  <2>3. CASE Cleaner
    <3>1. UNCHANGED <<pull, inbox, hpc, seen>> /\ (UNCHANGED table \/ writer' = 0)
      BY <2>3 DEF Cleaner, CleanList, CleanGet, CleanSave, CleanFails, CleanerUnchanged
    <3>2. 0 \notin Handlers
      BY DEF Handlers
    <3> QED
      BY <3>1, <3>2 DEF RowInv, Newest, Current
  <2>4. CASE UNCHANGED vars
    BY <2>4 DEF vars, RowInv, Newest, Current
  <2> QED
    BY <2>1, <2>2, <2>3, <2>4, RowKept DEF Next
<1>3. TypeInv /\ RowInv => RowFollowsGitHub
  BY DEF TypeInv, RowOK, RowInv, Current, RowFollowsGitHub
<1> QED
  BY <1>1, <1>2, <1>3, TypeInvHolds, PTL DEF Spec

-----------------------------------------------------------------------------
(* CleanUpLabels.                                                           *)

\* To GitHub and to the handlers CleanUpLabels is a user who takes labels off.
LEMMA CleanUpRemoveStep ==
  ASSUME NEW h \in Handlers, NEW l \in CleanUp, CleanUpRemove(h, l)
  PROVE  [Next]_vars
  BY CleanUpAssumption DEF CleanUpRemove, GitHubUsers, Next

\* Every theorem above holds beside CleanUpLabels, for any labels to clean up and any
\* number of clean-ups at once (pull_request_handler.go:415-443).
THEOREM CleanUpIsAUser == CleanUpSpec => Spec
<1>1. CleanUpInit => Init
  BY DEF CleanUpInit
<1>2. [CleanUpNext]_cleanUpVars => [Next]_vars
  BY CleanUpRemoveStep
  DEF CleanUpNext, PullRequestStep, CleanUpLabels, CleanUpList, cleanUpVars
<1> QED
  BY <1>1, <1>2, PTL DEF CleanUpSpec, Spec

\* The handler of a closed webhook has not started its clean-up yet.
Pending(h) ==
  h \in DOMAIN inbox /\ inbox[h].action = "closed" /\ hpc[h] \in {"new", "save"}

\* A label to clean up has somebody who will take it off.
CleanInv ==
  /\ listing \subseteq Handlers
  /\ todo \in [Handlers -> SUBSET CleanUp]
  /\ excused \in BOOLEAN
  /\ state = "closed" /\ ~excused =>
       \A l \in labels \cap CleanUp :
          \E h \in Handlers : Pending(h) \/ h \in listing \/ l \in todo[h]

\* Who closes the pull request sends a webhook that nobody handles yet.
LEMMA ClosingSends ==
  ASSUME TypeInv, Next, state = "open", state' = "closed"
  PROVE  \E h \in Handlers : Pending(h)'
<1> USE DEF MergerUnchanged, CleanerUnchanged
<1>1. ~ \E h \in Handlers : Handle(h)
  BY HandleFrame DEF UpdateBranch
<1>2. ~Cleaner
  BY DEF Cleaner, CleanList, CleanGet, CleanSave, CleanFails
<1>3. ClosePull \/ GitHubMerges
  BY <1>1, <1>2
  DEF Next, GitHubUsers, PushCommit, Reopen, SetMilestone, SignCLA, BuildPasses, Comment,
      AddLabel, RemoveLabel, TickLists, Merger, MergeList, MergeGet, MergeStatus,
      MergeReviewers, MergeRefused
<1>4. /\ hpc' = hpc /\ Len(inbox) < MaxEvents
      /\ inbox' = Append(inbox, Event("closed", ""))
      /\ UNCHANGED <<head, milestone>>
  BY <1>3 DEF ClosePull, GitHubMerges, Notify
<1>5. Event("closed", "") \in Events
  BY <1>4 DEF Event, Events, Actions, TypeInv, GitHubOK
<1>6. /\ Len(inbox) + 1 \in DOMAIN inbox' /\ Len(inbox) + 1 \in Handlers
      /\ inbox'[Len(inbox) + 1].action = "closed" /\ Len(inbox) + 1 \notin DOMAIN inbox
  <2>1. Event("closed", "").action = "closed"
    BY DEF Event
  <2>2. /\ inbox \in Seq(Events) /\ Len(inbox) \in Nat /\ DOMAIN inbox = 1..Len(inbox)
        /\ DOMAIN inbox' = 1..(Len(inbox) + 1) /\ DOMAIN inbox' \subseteq Handlers
        /\ inbox'[Len(inbox) + 1] = Event("closed", "")
    BY <1>4, <1>5, AppendType DEF TypeInv, GitHubOK
  <2>3. Len(inbox) + 1 \in 1..(Len(inbox) + 1) /\ Len(inbox) + 1 \notin 1..Len(inbox)
    <3>1. \A n \in Nat : n + 1 \in 1..(n + 1) /\ n + 1 \notin 1..n
      OBVIOUS
    <3> QED
      BY <2>2, <3>1, Zenon
  <2>4. Len(inbox) + 1 \in DOMAIN inbox' /\ Len(inbox) + 1 \notin DOMAIN inbox
    BY <2>2, <2>3, Zenon
  <2> QED
    BY <2>1, <2>2, <2>4, Zenon
<1>7. hpc[Len(inbox) + 1] = "new"
  BY <1>6 DEF TypeInv, HandlersOK
<1> QED
  BY <1>4, <1>6, <1>7 DEF Pending

\* A webhook stays, and its handler starts the clean-up, gives up, or is still about to.
LEMMA PendingStep ==
  ASSUME TypeInv, [Next]_vars, NEW h \in Handlers, Pending(h)
  PROVE  Pending(h)' \/ h \in CloseHandlers({"save"}, "changes")
           \/ h \in CloseHandlers({"new", "save"}, "done")
<1>1. h \in DOMAIN inbox' /\ inbox'[h] = inbox[h]
  <2>1. (\E event \in Events : Sent(event)) \/ UNCHANGED inbox
    <3>1. CASE GitHubUsers \/ TickLists
      BY <3>1, UserStep DEF TypeInv
    <3>2. CASE \E g \in Handlers : Handle(g)
      BY <3>2, HandleFrame, UpdateBranchSends DEF TypeInv
    <3>3. CASE Merger
      BY <3>3, GitHubMergesSends
      DEF TypeInv, Merger, MergeList, MergeGet, MergeStatus, MergeReviewers, MergeRefused
    <3>4. CASE Cleaner \/ UNCHANGED vars
      BY <3>4 DEF Cleaner, CleanList, CleanGet, CleanSave, CleanFails, CleanerUnchanged, vars
    <3> QED
      BY <3>1, <3>2, <3>3, <3>4 DEF Next
  <2> QED
    BY <2>1, AppendType DEF Sent, Pending, TypeInv, GitHubOK
<1>2. CASE hpc'[h] = hpc[h]
  BY <1>1, <1>2 DEF Pending
<1>3. CASE Handle(h)
  <2>1. hpc'[h] \in {"save", "changes", "done"} /\ (hpc'[h] = "changes" => hpc[h] = "save")
    BY <1>3 DEF TypeInv, HandlersOK, Pending, Handle, Fetch, GetPull, ListLabels, GiveUp,
      SavePR, SkipCLA, CLAPending, CLARead, CLAWrite, SetBlockStatus, LabelChanged,
      CheckForChanges, SaveChanges, PRFromIssue, SaveMilestone, UpdateRefused,
      UpdateBranch, Dispatch, Commands
  <2> QED
    BY <1>1, <2>1 DEF Pending, CloseHandlers
<1>4. CASE \E g \in Handlers \ {h} : Handle(g)
  BY <1>2, <1>4, HandleFrame
<1>5. CASE ~ \E g \in Handlers : Handle(g)
  BY <1>2, <1>5, OtherStep
<1> QED
  BY <1>3, <1>4, <1>5

LEMMA CleanInductive ==
  ASSUME TypeInv, CleanInv, [CleanUpNext]_cleanUpVars
  PROVE  CleanInv'
<1> USE DEF CleanInv
<1>1. CASE PullRequestStep
  <2>1. Next /\ todo' = todo /\ listing' = listing \cup CloseHandlers({"save"}, "changes")
    BY <1>1 DEF PullRequestStep
  <2>2. listing' \subseteq Handlers /\ excused' \in BOOLEAN
    <3>1. CloseHandlers({"save"}, "changes") \subseteq DOMAIN inbox
      BY DEF CloseHandlers
    <3>2. DOMAIN inbox \subseteq Handlers
      BY BoundsAssumption DEF TypeInv, GitHubOK, Handlers
    <3> QED
      BY <1>1, <2>1, <3>1, <3>2 DEF PullRequestStep
  <2>3. ASSUME state' = "closed", ~excused', NEW l \in labels' \cap CleanUp
        PROVE  \E h \in Handlers : Pending(h)' \/ h \in listing' \/ l \in todo'[h]
    <3>1. CASE state = "open"
      BY <2>1, <2>3, <3>1, ClosingSends
    <3>2. CASE state # "open"
      <4>1. /\ state = "closed" /\ ~excused /\ l \in labels
            /\ CloseHandlers({"new", "save"}, "done") = {}
        BY <1>1, <2>3, <3>2 DEF PullRequestStep, TypeInv, GitHubOK
      <4>2. PICK h \in Handlers : Pending(h) \/ h \in listing \/ l \in todo[h]
        BY <2>3, <4>1
      <4> QED
        BY <2>1, <4>1, <4>2, PendingStep
    <3> QED
      BY <3>1, <3>2
  <2> QED
    BY <2>1, <2>2, <2>3
<1>2. ASSUME NEW h \in Handlers, CleanUpList(h)
      PROVE  CleanInv'
  <2>1. /\ listing' \subseteq Handlers /\ todo' \in [Handlers -> SUBSET CleanUp]
        /\ excused' \in BOOLEAN
        /\ UNCHANGED <<state, labels, inbox, hpc>>
    BY <1>2 DEF CleanUpList, CallFails, vars
  <2>2. CASE CallFails
    BY <2>1, <2>2 DEF CallFails
  <2>3. CASE todo' = [todo EXCEPT ![h] = labels \cap CleanUp] /\ UNCHANGED excused
    <3>1. ASSUME NEW l \in labels \cap CleanUp
          PROVE  l \in todo'[h]
      BY <2>3
    <3> QED
      BY <2>1, <2>3, <3>1
  <2> QED
    BY <1>2, <2>2, <2>3 DEF CleanUpList
<1>3. ASSUME NEW h \in Handlers, NEW l \in CleanUp, CleanUpRemove(h, l)
      PROVE  CleanInv'
  <2>1. /\ todo' = [todo EXCEPT ![h] = @ \ {l}] /\ listing' = listing
        /\ state' = state /\ labels' \subseteq labels
        /\ \/ l \notin labels' /\ UNCHANGED excused
           \/ CallFails
    BY <1>3 DEF CleanUpRemove, RemoveLabel, vars
  <2>2. CASE CallFails
    BY <2>1, <2>2 DEF CallFails
  <2>3. CASE l \notin labels' /\ UNCHANGED excused
    <3>1. hpc' = hpc
      BY <1>3 DEF CleanUpRemove, RemoveLabel, Notify, vars
    <3>2. ASSUME NEW g \in Handlers, Pending(g)
          PROVE  Pending(g)'
      BY <1>3, <3>1, <3>2, CleanUpRemoveStep, PendingStep DEF CloseHandlers
    <3>3. ASSUME NEW k \in labels' \cap CleanUp, NEW g \in Handlers, k \in todo[g]
          PROVE  k \in todo'[g]
      BY <2>1, <2>3, <3>3
    <3>4. ASSUME state' = "closed", ~excused', NEW k \in labels' \cap CleanUp
          PROVE  \E g \in Handlers : Pending(g)' \/ g \in listing' \/ k \in todo'[g]
      BY <2>1, <2>3, <3>2, <3>3, <3>4
    <3> QED
      BY <2>1, <2>3, <3>4
  <2> QED
    BY <2>1, <2>2, <2>3
<1>4. CASE UNCHANGED cleanUpVars
  BY <1>4 DEF cleanUpVars, cleanUp, vars, Pending
<1> HIDE DEF CleanInv
<1> QED
  BY <1>1, <1>2, <1>3, <1>4 DEF CleanUpNext, CleanUpLabels

\* A closed pull request is rid of the labels to clean up once everything is handled,
\* in whatever order webhooks and any number of clean-ups are, unless a call failed or
\* the label came afterwards (pull_request_handler.go:130-132, 415-443).
THEOREM ClosedIsCleaned == CleanUpSpec => []ClosedLosesLabels
<1>1. CleanUpInit => CleanInv
  BY DEF CleanUpInit, Init, CleanInv
<1>2. TypeInv /\ CleanInv /\ [CleanUpNext]_cleanUpVars => CleanInv'
  BY CleanInductive
<1>3. CleanInv => ClosedLosesLabels
  BY DEF CleanInv, ClosedLosesLabels, Quiet, Pending
<1> QED
  BY <1>1, <1>2, <1>3, CleanUpIsAUser, TypeInvHolds, PTL DEF CleanUpSpec
=============================================================================
