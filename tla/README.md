# Mattermod in TLA+

Mattermod is the GitHub bot of the Mattermost organisation: a web server that reacts to GitHub's
webhooks, a job server that runs cron jobs over the pull requests in a MySQL database, and a few
tools. This directory holds TLA+ specifications of the parts of it that keep state across calls to
GitHub and the database, their TLC configurations, and proofs.

Paths are relative to the repository (`server/`, `store/`, `hack/`, `cmd/`, `model/`).

## Contents

| module | what it is | code |
| --- | --- | --- |
| `CherryPick` | the cherry-pick pipeline: deliveries, channel, worker, Stop, restarts | `server/cherry_pick.go`, `hack/cherry-pick.sh`, `server/server.go` |
| `CherryPickService` | what the pipeline promises, without channel or goroutines | |
| `PickScript` | what the script is to those who see only GitHub, without its commands | |
| `CherryPickRefinement` | the mappings from `CherryPick` to these two | |
| `CherryPickProofs` | proofs about `CherryPick` | |
| `CherryPickRefinementProofs` | the proofs that it implements `CherryPickService` and `PickScript` | |
| `LocalClone` | the clone that cherry picks are made in: `cloneRepo`, the script, killed processes | `server/cherry_pick.go`, `hack/cherry-pick.sh` |
| `LocalCloneProofs` | proofs about `LocalClone` | |
| `PullRequest` | one pull request: GitHub, webhook handlers, the row, AutoMergePR, CleanOutdatedPRs, Tick, /update-branch | `server/pull_request_handler.go`, `github.go`, `cla.go`, `block_pr_merge.go`, `auto_merge.go`, `pr_from_issue_handler.go`, `update_branch.go`, `store/sql_pull_request_store.go` |
| `LabelCleanUp` | `CleanUpLabels` beside `PullRequest` | `server/pull_request_handler.go`, `server/github.go` |
| `PullRequestProofs` | proofs about `PullRequest`, with `LabelCleanUp` beside it or without | |
| `Issues` | one issue and its label messages: deliveries, ticks, `commentLock` | `server/issue_handler.go`, `store/sql_issue_store.go` |
| `IssuesProofs` | proofs about `Issues` | |
| `SQLMutex` | the database mutex | `store/sql_lock_store.go` |
| `MutexService` | what the mutex promises, without rows and expiries | |
| `SQLMutexProofs` | proofs about `SQLMutex` | |
| `Listing` | loops over the pages of a listing: `Tick`, `RefreshMembers` | `server/server.go`, `server/github.go` |
| `ListingProofs` | proofs about `Listing` | |
| `PRActivity` | `CheckPRActivity` beside `Listing` | `server/pull_request_handler.go`, `cmd/jobserver/main.go` |
| `PRActivityProofs` | proofs about `PRActivity` | |
| `MCCherryPick`, `MCLocalClone`, `MCPullRequest`, `MCLabelCleanUp`, `MCIssues`, `MCSQLMutex`, `MCJobServer` | instances for TLC | |

`tlc -config MCCherryPick_live.cfg MCCherryPick` runs one configuration, `tlapm
CherryPickProofs.tla` checks the proofs of one module. `PROJECT.json` lists the runs, the mutants
that show each property can fail, the source lines of each definition, the hazards, the findings and
the theorems.

## Inventory

| component | state | operations | correct when | status |
| --- | --- | --- | --- | --- |
| Cherry-pick pipeline | channel `cherryPickRequests` (20 places), two signal channels; on GitHub branches, pull requests, labels | `handleCherryPick`, `checkIfNeedCherryPick`, `listenCherryPickRequests`, `doCherryPick`, `finishCherryPickRequests` | no request dropped, served twice or told a falsehood; one cherry pick per branch; an approval not lost; Stop ends | modelled but for the wording of versions |
| Local clone | a folder on a volume: branches, commits, working tree, `index.lock` | `cloneRepo`, `cherry-pick.sh`, `do_cleanup`, `returnToMaster` | a pull request holds the pick it was opened for; the clone heals after a kill | modelled |
| Pull request handlers | one row per pull request; commit statuses and comments on GitHub | `pullRequestEventHandler`, `checkPullRequestForChanges`, `prFromIssueHandler`, `handleCheckCLA`, `blockPRMerge`, `unblockPRMerge` | the row follows GitHub as long as its newest writer does; no head waits for a status nobody sets | modelled but for build columns, welcome and clean-up |
| `AutoMergePR` | none of its own; the rows | list, get, status, reviewers, merge | merges only what it verified | modelled |
| `CleanOutdatedPRs` | the rows it listed | list, get, save | a closed pull request is closed in the database in the end | modelled |
| Database mutex | one row of `db_lock` per key; refresher goroutine | `Lock`, `Unlock`, `tryLock`, `releaseLock`, `refreshLock` | at most one holder | modelled but for connections and sharing of one `Mutex` |
| Issue handlers | one row per issue, `commentLock` in each process | `issueEventHandler`, `checkIssueForChanges`, `handleIssueLabeled` | a process posts each message once; the row hides no unanswered label; every handler ends | modelled |
| `Tick` | the page it is at | listing of GitHub, then the steps of a handler | misses nothing while nothing leaves the listing; ends | modelled, in `Listing`, `PullRequest` and `Issues` |
| Organisation members | `OrgMembers` in memory | `RefreshMembers`, `IsOrgMember` | a failed refresh loses no member | modelled |
| Stale pull requests and label clean-up | labels and comments on GitHub | `CheckPRActivity`, `CleanUpLabels` | tells a stale pull request so at most once for each time it is left alone; takes labels off what is closed | modelled |
| Comment commands | none | `/update-branch`, `/check-cla`, `/cherry-pick`, `/autoassign` | act on the commit they were asked about | modelled but for `/autoassign` |
| Community messages, log review, translations | none | calls on an opened pull request | | not modelled: no state is read again |
| HTTP middleware, GitHub client, metrics, webhook output, configuration, migrations | none that the rest reads | | | not modelled: input, output and third-party code |

How they interact. A webhook is handled in an HTTP goroutine (`withRecovery` catches its panics); a
merged pull request starts one more goroutine for its cherry pick, which nobody recovers. Handlers
share the channel with one worker goroutine; with each other and with the jobs of the job server, a
process of its own, they share the rows and what is on GitHub. No lock protects a row between
reading and writing it: the database mutex, built for that, has no caller (`Store.Mutex()` is not
used anywhere at this commit). It is modelled because it is finished code whose whole purpose is
concurrency.

What is hard here: two consumers of one channel during Stop, a channel that is closed under its
senders, work that survives a crash only on GitHub, whole-row writes of overlapping handlers and
jobs, decisions taken on a commit that may be replaced meanwhile, a working tree that survives the process
that was killed in it, listings that change while they are paged through, and a lease whose owner
may be late or dead. `PROJECT.json` lists these as hazards with their lines.

## CherryPick

State. `pc[d]` is where the handler of delivery `d` is and `call[d]` what it asks for; `queue` is
the content of `s.cherryPickRequests`; `worker` and `job` are the loop of `listenCherryPickRequests`
and its request; `main` is the main goroutine from serving to the end of `main()`, and `draining`
the request in the cancellation loop of `finishCherryPickRequests`. Whether the two channels are
closed follows from `main` (`StopChanClosed`, `RequestsClosed`). `labels`, `branches` and `picks`
are on GitHub and survive the process. `accepted`, `fate` and `told` are histories that the
properties need: the order of acceptance, what became of each request, and the comments posted for
it. Each of `picks` records whether the script heard that it was opened.

Actions. `HandleCherryPick` and `CheckIfNeedCherryPick` are the two producers up to the channel,
`CheckStop` and `Send` their two selects, `SendOnClosed` the panic of a send on a closed channel
(recovered for a command, fatal for a merge), `Answer` the comment. The worker runs `Receive`,
`Prepare` (merge commit, configuration, clone), `Push` and `MakePR` (the script), `GetAssignee` or
its panic, the three label calls in order with their early returns, `Finish` and `Report`.
`CloseStopChan`, `CloseRequests`, the select (`SelectTimeout`, `SelectStopped`), `DrainTake`,
`DrainCancel`, `DrainEnd` and `Exit` are Stop. `ServeFails` is the `os.Exit` of a failing listener.
`Restart` is the deployment, `Approve` a user. Every call to GitHub may fail, and a push or a
`hub pull-request` may be reported as failed though it arrived: then the branch, or the cherry pick,
is there, and the pull request is told that it failed. `NoticesAreTrue` makes exactly that
exception: who was told of a failure has no cherry pick that the script heard of. `CommentsFail`
chooses whether posting a comment may fail.

A branch is named after the pull request's own branch and the release branch (`BranchOf`), so two
pull requests whose branches have the same name collide, as they do in the script. Nothing in the
repository deletes a branch; a person who does so on GitHub could ask for a second cherry pick, and
the model leaves that out.

| run | instance | shows |
| --- | --- | --- |
| `pick_live` | 3 deliveries (2 commands, 1 merge) of 1 pull request, 2 places, 1 restart, panics; fairness | `TypeOK`, `Accounting`, `ServedInOrder`, `NoticesAreTrue`, `OnePickPerTarget`, `ApprovalNotLost`, `OrderlyExitDrains`, `ImplementsService`, `ImplementsScript`, `AcceptedIsSettled`, `StopEnds` |
| `pick_closing` | 1 delivery | violates `ClosingIsNoPanic`, see Findings |

Bounds. Three deliveries and two places let two requests queue behind each other while the worker
holds a third, let the channel be full, be emptied by worker and cancellation loop at once, and be
refused to the third delivery. They let the same pull request be asked for three times, at once or
before and after a restart. Comments do not fail in `pick_live`, where that would only make
`told` smaller; they may fail in `pick_closing` and in the proofs, which have any numbers and any
`CommentsFail`. Deadlock is checked; `Terminated` is the one place where the system may stop.

Fairness (`pick_live`). Goroutines that can run do run and the calls they make return: weak fairness
for the worker and for Stop, and for nobody else. A handler that has started may stay where it is
for ever, and webhooks, signals, approvals, restarts and a failing listener get no fairness. The
properties are of the form []<>: again and again nothing that was accepted is outstanding, and again
and again main serves or has ended. Calls to GitHub have timeouts in their contexts. The script has
none: `runCherryPick` uses `exec.Command` without the context, so that "the script ends" is an
assumption about git and the network, not about this code; the hazard list says so.

## CherryPickService

A request is new, scheduled, and then done, failed, canceled or lost; the service is open, closing,
ended or crashed. It accepts only while open, settles each request once, cancels only while closing,
loses at most one request at an orderly end and any number in a crash. `CherryPickRefinement` maps
`fate` and `accepted` to the status and `main` to the phase; the service closes when the request
channel does (`cherry_pick.go:62`), since a handler past the first select may still be accepted
until then.

## PickScript

A request's branch is pushed unless it is there already; the request may then be proposed or be
given up, and is not looked at again. Two modules implement it at two grains. In `CherryPick` the
script is two steps of the worker, between which the process may end; `CherryPickRefinement` maps
the worker at `makePR` to the one open request. In `LocalClone` it is every git command, of any
number of processes, killed anywhere, of which GitHub sees the push and the pull request only. What
follows from `PickScript` alone is stated there: at most one request of a branch is under way or
proposed (`OnePerBranch`), and a request that did not get its pull request right after its push, or
found its branch taken, never gets one (`TakenForGood`): the state that an error between push and
pull request leaves behind. What is *in* the pull request is not its matter; that is
`ProposedIsThePick`.

## LocalClone

State. `pc[p]`, `job[p]` and `starting[p]` are the point of process `p`, the number of its request and
`STARTINGBRANCH` of its script. The disk is `clone` (absent, unfinished, ready), `head` and `local`
(the branch checked out and those that jobs made), `commits` of each branch, `tree`, and `lock`, a
`.git/index.lock` left behind. `pushed`, `remote` and `proposed` are on GitHub. `asked`, `settled`
and `refused` are histories. A branch made by the script has a name of its own (`NEWBRANCHUNIQ`), so
it is the number of the job; the remote branch is not unique (`BranchOf`).

Actions. `Take` looks at the folder and nothing else. `CloneBegin` to `AddRemote` are `cloneRepo`
with each of its early returns; `ScriptStart` to `MakePR` the script, a step for each git command,
where `errexit` ends it at the first that fails; `Abort`, `Restore` and `Delete` the trap
`do_cleanup`, whose failures are ignored; `ReturnToMaster` what `doCherryPick` runs after it. git
refuses what git refuses: a checkout or a commit while `index.lock` is there, a branch over a tree
with conflicts, deleting the branch that is checked out, a push over a branch that exists, a pull
request without commits. `Kill` ends a process anywhere, with its script.

| run | instance | shows |
| --- | --- | --- |
| `clone_worker` | 1 process, 4 jobs for 3 requests, 2 of them from branches of one name, 2 kills | `TypeOK`, `ProposedIsThePick`, `DirtyOncePerKill`, `RestsClean`, `ImplementsScript` |
| `clone_rolling` | 2 processes on one volume, 2 jobs, no kill | violates `ProposedIsThePick`, see Findings |

Bounds. Two kills let the script that cleans up after a kill be killed itself; four jobs are the two
killed, the one that is refused and one that works. `MaxJobs` ends the run, so the configurations
say `CHECK_DEADLOCK FALSE`. A clone whose `cloneRepo` failed half way stays unusable for ever, as in
the code; `ConfiguredGlobally` is TRUE in the runs, as production mounts a gitconfig.

`RestsClean` and `DirtyOncePerKill` except a left `index.lock`: nothing in the code removes it.

## PullRequest

State. GitHub: `head`, `state`, `labels`, `milestone`, the three statuses of each commit
(`merge/blocked` as `blocked`, `cla/mattermost` as `cla`, the build as `ci`), and the label
`messages` posted. `inbox` is the list of webhooks sent; handler `h` works on the `h`-th, stands at
`hpc[h]`, and holds the pull request it read in `seen[h]`. `row` is the row in the table
PullRequests, and `writer` a history: the handler that wrote it last, or 0 when the clean-up job did.
`mpc`, `mergeSha` and `verified` belong to AutoMergePR, `kpc` and `stale` to
CleanOutdatedPRs.

Actions. A handler takes the commit and the state from the payload and the labels from GitHub
(`Fetch`; `GetPull` and `ListLabels` for a comment), saves the row (`SavePR`) *before* anybody looks
at the old one, and then goes where `pullRequestEventHandler` sends it: the CLA check (`CLAPending`,
`CLARead`, `CLAWrite`, or `SkipCLA` when closed), `SetBlockStatus`, `LabelChanged`, and
`CheckForChanges` with its second save. `Saved` is what the SQL statement writes: every column but
the milestone's. `PRFromIssue` and `SaveMilestone` are the handler of issue events. `UpdateBranch`
and `UpdateRefused` are /update-branch after the pull request has been read and saved: GitHub moves
the head if it is still the one of the request, and sends the webhook of a push. A comment carries
one command. `TickLists` is the listing of `Tick`: the pass over this pull request gets a place in
`inbox` with what the listing said, which may be old by the time it is saved, and then takes the
steps of a handler without an action of its own. AutoMergePR is
five steps, one per call, and GitHub merges only if the head is the commit the request names.
CleanOutdatedPRs lists, gets and saves the row it listed.

`InOrder` chooses between webhooks handled one by one and webhooks that overlap and overtake each
other, which GitHub and one goroutine per request both allow. `Jobs` names which of CleanOutdatedPRs and
Tick run, `Failures` the calls that may fail.

| run | instance | shows |
| --- | --- | --- |
| `pull_overlap` | 2 commits, 2 overlapping webhooks, commands or passes of Tick after 2 that are handled, AutoMergePR, clean-up job, failing calls to GitHub and MySQL; fairness | `CLADecided`, `RowFollowsGitHub`, `ClosedIsRecorded` |
| `pull_message` | 2 webhooks | violates `LabelIsAnswered`, see Findings |

`pull_inorder`, below with `LabelCleanUp`, is the run of webhooks in order. It starts with the
opening of the pull request and checks `TypeOK`, `RowFollowsGitHub`, `HeadHasBlockStatus` and
`MergesVerifiedHead`.

Bounds. Two commits are what a stale commit needs. `pull_overlap` starts where the webhooks of the
opening and of the label that merges have been handled (`LabeledInit` in `MCPullRequest`), with an
author who has not signed yet; the two that follow race each other, the jobs, and pushes between
each two of their calls. A closing and a reopening, a push and a check asked for in a comment before
the author signs, or a merge and a pass of Tick that listed the pull request before it, fit into
two. What races with the opening itself, and more than two at once, is left to the proofs of
`CLADecided` and `RowFollowsGitHub`; `ClosedIsRecorded`, a liveness property, is checked for these
races only. Once the webhooks are used up and handled the system is idle, so the
configurations say `CHECK_DEADLOCK FALSE`.

`RowFollowsGitHub` is about the last writer, in whatever order handlers and jobs run and whatever
fails: when the row was written last by a handler whose webhook, or whose listing of Tick, had the
newest state of the pull request (`Newest`), it has the commit, labels and state that GitHub has.
So only a handler that is late, one that copies the row to write a milestone, or the clean-up job
can spoil it, and they do: nothing locks the row between reading and writing it. For the state,
`ClosedIsRecorded` says what is left then: the clean-up job closes the row of a pull request that
stays closed. A spoilt commit or a spoilt label stays until the next webhook or the next pass of
Tick.

Fairness (`pull_overlap`). Handlers run to their end. The clean-up job is a cron job, so it comes back
(weak fairness of `Cleaner`), and a call that it makes again and again does not fail for ever
(strong fairness of `CleanGet` and `CleanSave`). AutoMergePR and the users get none.

## LabelCleanUp

The handler of a `closed` webhook starts `CleanUpLabels` in a goroutine with a context of its own,
which lists the labels once and takes off those of `IssueLabelsToCleanUp`, each in a goroutine.

State, beside that of `PullRequest`. `listing` is the set of handlers whose clean-up has not listed
yet, `todo[h]` the labels that the clean-up of handler `h` still has to take off. `excused` is a
history: since the pull request was closed last, somebody labelled it or a call of its clean-up
failed.

Actions. A `PullRequestStep` is a step of `PullRequest`; when the handler of a `closed` webhook has
saved the row it starts the clean-up (`CloseHandlers`). `CleanUpList` and `CleanUpRemove` are its
calls, which may fail and are not repeated. What is taken off sends an `unlabeled` webhook, which
`PullRequest` handles.

| run | instance | shows |
| --- | --- | --- |
| `pull_inorder` | 2 commits, 2 labels, 6 webhooks in order, of which 5 are not the doing of a clean-up, AutoMergePR, failing calls of the clean-ups | `TypeOK`, `RowFollowsGitHub`, `HeadHasBlockStatus`, `MergesVerifiedHead`, `ClosedLosesLabels` |

Once webhooks and clean-ups are done with, a closed pull request is rid of the label, unless it was
put on afterwards or a call failed.

Bounds. `OtherActions` and `MaxOthers` say which webhooks there are that are not the doing of a
clean-up, and how many; the rest of `MaxEvents` is for those that are. Five, with the
opening, let a pull request be labelled, closed, reopened and closed again, with calls of the first
clean-up left to do; or be labelled for merging, labelled, pushed to between two calls of AutoMergePR
and merged with the label on. A label put on again after a clean-up is left to the proof. Webhooks are handled in order and their calls do not fail, which lets more of them fit in;
clean-ups are not bound by the order, and their calls fail. The theorems have webhooks that overtake
each other, failing calls where the statement allows them, and any number of labels.

A pull request that was reopened before its clean-up ran loses the labels, too. Nothing in the
repository says that it should not.

## Listing and PRActivity

State. `items` is what GitHub has; a pull request is listed as an issue, too. `loop` says which loop
runs (the pull requests or the issues of Tick, the members of `RefreshMembers`), `offset` the
position its next page starts at, `got` what it has found, `expired` whether its deadline has
passed. `members` is `OrgMembers`. `stayed`, `removed` and `promised` are histories: who was listed
all the time since the loop began, whether something has left the listing since, and who was a
member all through the last refresh that succeeded. In `PRActivity`, `marked` and `quiet` are the
stale label and whether nothing was done for `DaysUntilStale` days, `apc` is where `CheckPRActivity`
stands. Three are histories since it was last left alone for so long: `nags` counts the comments of
`CheckPRActivity`, `staled` says whether a pass has added the label, `lost` whether a comment has
failed.

Actions. GitHub numbers pages, so a page is a range of ranks in the listing as it is now (`Page`,
`LastPage`); `Appear` and `Vanish` move items between pages. `TickPage` works on a page that has one
after it; `TickLastPage` leaves the loop *before* working on the page; `TickFails` is the `continue`
without delay, which is all that is left once the context has `expired`. `MembersPage`,
`MembersLastPage` and `RefreshFails` are `getMembers` and what `RefreshMembers` makes of it; its test
for `nil` is dead code, since `getMembers` returns a list that may be empty but not nil.
`ActivityBegin` to `ActivityComment`, or
`ActivityCommentFails`, are `CheckPRActivity` for one pull request, a step for each
call; that a label or a comment is an update of the pull request is how GitHub has it. Tick and
`RefreshMembers` share nothing, so that one loop at a time stands for both; `CheckPRActivity` and
`RefreshMembers` share `OrgMembers` and interleave.

| run | instance | shows |
| --- | --- | --- |
| `jobs` | 3 items, 1 on a page, 2 of them pull requests, member 2 the author; fairness | `TypeOK`, `NothingMissed`, `MembersComplete`, `NagsOncePerPeriod`, `LoopsEnd` |

Bounds. Pages of one item and three items make three pages, so that an item may move over a page
boundary before, at and after the page being read. The proofs hold for any items and page size.

Fairness. The loops go on asking; GitHub does not fail a listing for ever (strong fairness of
`TickPage` and `TickLastPage`), which `expired` switches off; a refresh ends with an answer or an
error (weak fairness). Nothing is asked of users or of `CheckPRActivity`.

`NothingMissed` does not say that Tick sees every item: it never sees the last page. `LoopsEnd` does
not say that Tick ends: when its context expires before the loop is through, it spins. Both are in
Findings below, and the first is why the comment at `server/server.go:253` ("Update PR even if
there is no label change") is not true of the pull requests of the last page.

`NagsOncePerPeriod` says at most once, and exactly when it is not once. A pass that has marked the
pull request has told it, or its comment failed. A failed comment is made up for in the same period
only if the label was there before: adding a new label is an update itself, so that after a failure
the pull request looks active, and is marked and not told.

`MembersComplete` is what `CheckPRActivity` may rely on when it asks for the author
(`pull_request_handler.go:314`). It asks once: an author who becomes known between that line and the
label at `:350` is marked all the same, and when the first refresh of a process fails, `OrgMembers`
is empty and the pull requests of members are marked as stale. No property excludes either, and the
hazard list has both.

## Issues

State. GitHub has the issue's `state` and `labels`, the webhooks `sent`, and `posts[l][s]`, how often
server `s` has posted the message of label `l`. `row` is the row in the table Issues. A thread is the
goroutine of a delivery in the webhook server or of a tick in the job server; `pc[t]`, `seen[t]`,
`todo[t]` and `current[t]` are its point, the issue it read, the labels left to handle and the one it
holds the lock for; `lock[s]` is the `commentLock` of server `s`. `silent` and `refused` are
histories: labels present when the row was created, and labels whose comment failed.

Actions. `ReceiveEvent` and `TickList` are the two ways in; `GetIssueFromGithub`, `GetRow`,
`CreateRow`, then per new label `Lock`, `GetComments`, `Post`, then `EndCompare` and `SaveRow`.
`Unlock` is the deferred one. Every call may fail, each with its own consequence: a failed listing
of the comments ends the handler without a save, a failed comment is only logged. `Idle` is the one
place where nothing happens, so that goroutines waiting for each other would be a deadlock.

| run | instance | shows |
| --- | --- | --- |
| `issue_overlap` | 2 labels, 2 deliveries, 2 ticks, all calls may fail | `TypeOK`, `OncePerServer`, `RowIsAnswered`, `LockInUse`, `HandlersEnd` |

Bounds. Two goroutines in each process contend for its lock while those of the other post and save;
two labels let a handler give up half way. The proofs hold for any numbers.

Fairness. Goroutines run and their calls return; weak fairness of a goroutine is enough for the lock,
since finitely many ask for it, and Go's `sync.Mutex` starves nobody. `LockInUse` is the safety part of
`HandlersEnd`: whoever waits for the lock waits for a goroutine on its way to Unlock.

`OncePerServer` is all the code promises: `commentLock` lives in one process, so the webhook server
and the job server together may post a message twice.

## SQLMutex

State. `row` is `ExpireAt` of the row (0: no row), `now` the clock, `pc[c]` where client `c` is,
`at[c]` the time its attempt began, its ticker fires next or its Unlock began, `expiry[c]` what its
refresher has read. Three are histories: `since` is when the attempt began that the row is from,
`lapsed` records whether a row has expired since the mutex was last at rest (`AtRest`: no row, no
owner, and nobody about to take a row over; `Settle` resets it), `faults` counts faults.

Actions. `TryLock`, `Insert`, `Select`, `Update` are one attempt of Lock: the INSERT, and after its
failure the SELECT, which locks nothing, the test for expiry, and the UPDATE, which finds the row by
its key alone. `RefreshSelect` and `RefreshUpdate` are the refresher: it reads the expiry and adds a
TTL to *that*. `Unlock` and `Delete` are Unlock. `Crash`, `DeleteFails` and `RefreshFails` are
faults, as many as `MaxFaults`. `Tick` advances the clock unless a live client would be later than
`MaxDelay` with a step that is due.

| run | instance | shows |
| --- | --- | --- |
| `mutex_faults` | 3 clients, TTL 7, refresh every 3, delay 1, clock to 18, one fault of any kind | `TypeOK`, `ExclusiveUntilLapse`, `FaultFreeRefreshed`, `ImplementsService` |
| `mutex_race` | 3 clients, one crash, clock to 12 | violates `MutualExclusion`, see Findings |
| `mutex_expiry` | 2 clients, no fault, clock to 12 | violates `ExpiresUnlessRefreshed`, see Findings |

The code has a TTL of 15 s and a refresh interval of 7.5 s: 7 and 3 with a delay of 1 keep the
proportion and the assumption `RefreshInterval + 3 * MaxDelay < TTL` (`TimesAssumption`). The code
stores whole seconds and rounds down; what that takes from a row is part of `MaxDelay`. A clock to
18 covers several refreshes, a crash, the expiry of the row and a take-over after it; the clock
stops there, so the configurations say `CHECK_DEADLOCK FALSE`. `Select` takes the row when it has
expired for the attempt's own reading of the clock, as `releaseLock` does.

`ExclusiveUntilLapse` excuses two holders only while the expiry of some row is not over and done
with. That row need not be one of theirs: in `mutex_race` it is that of the client that crashed.
When the last of them has unlocked, the mutex is exclusive again until another row expires.

`ExpiresUnlessRefreshed` is the comment at `store/sql_lock_store.go:35`: at no time does a row have
more than a TTL to go. A refresh adds the TTL to the old expiry, and so it has: `mutex_expiry`. What
holds instead is the theorem `ExpiryBounded` about `ExpiryRunsAhead`: with each refresh interval the
expiry gains a TTL, and no more, so that the row of a client that dies after a time `t` expires
within `TTL + t * TTL / RefreshInterval` of its attempt, about `2 t` with the code's times.

`MutexService` is the lease without row and clock: a client takes a free mutex and gives it up; an
owner that fails leaves it neither owned nor free; then, and only then, it may lapse, after which
nothing is promised of who owns it, until it is free and has no owners, when it may be in order again
(`MayRecover`). The mapping: the owners are `Owners`, free is a table without the row, faulty a fault
that has happened.

## Findings

1. **A delivery that races Stop panics** (`pick_closing`, `server/cherry_pick.go:110`). The check of
   the stop channel and the send are two selects; between them Stop closes both channels. The send
   then panics; for a merged pull request nobody recovers, and the process dies with its queue.
2. **Two processes pick in one clone** (`clone_rolling`, `hack/cherry-pick.sh:168`). The deployment
   is updated with RollingUpdate, and the clone is on a volume that the old and the new pod mount.
   The pick of one is committed to the branch that the other has checked out.
3. **Label messages are never posted** (`pull_message`, `server/github.go:92`). The row is saved
   with the new labels before the handler compares them with the row.
4. **Two waiters take over one expired row** (`mutex_race`, `store/sql_lock_store.go:147`). Both
   read the expiry, both update, both return from Lock.
5. **A lock outlives its owner by more than its TTL** (`mutex_expiry`, `store/sql_lock_store.go:190`).
   The comment at `:35` says "tTL is the interval after which a locked mutex will expire unless
   refreshed". A refresh sets the expiry to the old one plus a TTL, every half TTL, so that the row
   of a client that held the mutex for long, and died, blocks the others for about as long again.

More that the models contain and no run states, because one call, or one line, shows each of them:

- `rand.Intn(n - 1)` panics when the pull request of an outside contributor has one review or none
  (`server/cherry_pick.go:276`, `GetAssigneePanics`), which ends the process after the cherry pick
  was opened.
- On `labeled` with a blocking label the handler calls `unblockPRMerge`
  (`server/pull_request_handler.go:100`, `LabelChanged`): merge/blocked becomes success, though
  `server/block_pr_merge.go:23` has the words for the other.
- `Save` writes neither `MilestoneNumber` nor `MilestoneTitle` (`store/sql_pull_request_store.go:29`,
  `Saved`), so what `prFromIssueHandler` merges into the row is lost.
- `AutoMergePR` reads its label from the row (`server/auto_merge.go:32`, `MergeList`): a label taken
  off a moment ago still merges.
- Tick leaves its loops before it works on the last page, or the only one (`server/server.go:207`,
  `:244`), and goes on asking without a pause when a listing fails, for ever once its context has
  expired (`:205`), while the comment at `:196` says "We sleep in between requests".
- When an item leaves a listing while it is paged through, the first item of the next page is
  missed until the next pass.
- `git config KEY` exits with 1 when the key is not set, so that `cloneRepo` returns the error
  instead of setting it (`server/cherry_pick.go:357`, `:367`, `:378`; the comments at `:358` and
  `:368` say what was meant). The folder is there by then, and every later request works in a clone
  without `upstream` and fails. Production mounts a gitconfig.
- A git that is killed with `index.lock` held leaves a clone that no later script can use.

## Proofs

`CherryPickProofs` proves, for any deliveries, pull requests, release branches, branch names,
channel capacity, reviews and number of restarts, from the named ASSUMEs of `CherryPick` alone:

- `TypeCorrect`: `Spec => []TypeOK`; the channel never holds more than its buffer.
- `RequestsAccountedFor`: `Spec => []Accounting`. Accounting alone is not inductive: that `Send`
  appends a request not yet known needs `AcceptedOnce` and `AcceptedPastSend` (who is past the send
  has been accepted, once), that settling a request leaves nobody else holding it needs
  `OnlyAccepted`, and that an ending process leaves nothing unsettled needs `ControlPoints` (worker,
  main and the requests they hold go together). `IndInv` is the conjunction. Two lemmas,
  `TakeAccounting` and `SettleAccounting`, serve both consumers.
- `InOrder`: `Spec => []ServedInOrder`. It is inductive with `IndInv`: when a request is settled,
  `Accounting` has everything accepted before it settled or held, and its holder holds nothing else.
- `OrderlyExit`: `Spec => OrderlyExitDrains`, from `IndInv`: at `Exit` the queue is empty and
  `draining` is nobody's, so by `Accounting` an outstanding request is the worker's.
- `AtMostOnePick` and `ApprovalKept`: from `PickProtocol`, what holds while the worker is between
  the push and the end of a cherry pick: a cherry pick has its branch, and a worker about to open a
  pull request has pushed the branch and found no cherry pick for it.
- `NoticesHold`: `Spec => []NoticesAreTrue`. `ToldInv`: a comment says what has been decided for good
  (on the channel or ended, failed, canceled). `PickFate`: whose cherry pick was opened and heard of
  is done, lost with the process, or still with the worker; one that was opened with its answer lost
  belongs to a request that failed, was lost or is with the worker at that point. So nobody told of a
  failure has one that the script heard of. Both rest on `HeldIsUnsettled`: who is held by the worker
  or by the cancellation loop is not settled.

`CherryPickRefinementProofs` proves `Implements`: `Spec => ImplementsService`, every step of the
pipeline being a step of `CherryPickService` or none. `Send` is `Accept` because `Control` says that
who is at the send has not been accepted; `Finish` and `Report` are `Settle`, and `DrainCancel` is
`Cancel`, by `HeldIsUnsettled`; a panic that nobody recovers is `Crash`; `Exit` is `End`, which loses
one request at most, because `Accounting` leaves the worker's as the only one. `ServicePromise` says
what that gives, from `ServiceSpec` alone: a request is decided once, and lost only in the step in
which the service ends, which for an orderly end is one request. `ImplementsPickScript` is
`Spec => ImplementsScript`: `Push` is `Push` and `MakePR` is `Propose` or `GiveUp`; a process that
ends in between is `GiveUp`; everybody else leaves the worker's request as it is, because a delivery
that has been accepted does not call again (`WorkerRequest`).

`IssuesProofs` proves, for any labels, webhooks and ticks:

- `TypeCorrect`.
- `PostedOnce`: `Spec => []OncePerServer`. It needs `LockHeld`: who is between Lock and Unlock is the
  lock's holder, and a message about to be posted has not been posted by this server.
- `RowAnswered`: `Spec => []RowIsAnswered`. It needs `SeenIsHandled`: whatever a goroutine is going to
  save is handled but for the labels it still has to do, and handled labels stay handled.
- `NoOrphanedLock`: `Spec => []LockInUse`, with the same invariant.

`SQLMutexProofs` proves, for any clients, faults and times that keep `TimesAssumption`:

- `TypeCorrect`.
- `Exclusion`: `Spec => []ExclusiveUntilLapse`: whatever crashes and fails, two clients hold the
  mutex only if a row has expired since it was last at rest. The strengthening is `OwnedUntilLapse`:
  until then an owner has a row, there is one owner, its refresher has read the row as it is, and
  nobody is about to take it over. At rest, where `lapsed` is reset, all that holds for want of
  owners.
- `FaultFreeExclusion`: `Spec => [](FaultFreeRefreshed /\ (faults = 0 => MutualExclusion))`: without
  a fault no row expires under its owner. `Attempts` bounds the age of an attempt, so that a row
  inserted late is still good beyond the first, late refresh and a late unlock: this is where
  `RefreshInterval + 3 * MaxDelay < TTL` comes from.
- `ExpiryBounded`: `Spec => []ExpiryRunsAhead`, which no run states, since `mutex_expiry` shows what it
  bounds. `ExpiryFollowsTicker` ties the expiry to the ticker
  of the owner, which has fired once for each refresh and never early.
- `Implements`: `Spec => ImplementsService`. Reads, failed INSERTs and refreshes are stutters. An
  attempt takes the mutex when it is free or has lapsed, by `OwnedUntilLapse`; a row expires only
  after a fault, by `FaultFreeRefreshed`. `ServiceIsExclusive` is what `MutexService` promises, from
  its specification alone: one owner while the mutex has not lapsed, and no lapse before a fault.

`PullRequestProofs` proves, for any labels, commits, webhooks, jobs and failing calls:

- `TypeCorrect`. `TypeInv` adds to the types that a handler past its reading has a pull request, the
  row has one once anybody has saved, and both jobs hold one while they work.
- `OnlyVerifiedMerges`: `Spec => MergesVerifiedHead`. `MergeInv`: from the status check on, the
  commit to merge is verified; GitHub compares it with the head.
- `CLASettled`: `Spec => []CLADecided` when the calls about the CLA do not fail. `CLAInv`: a commit
  with a pending status has a handler between `CLAPending` and `CLAWrite` that will decide it, and
  deciding is never undone by more than another handler that will decide in turn.
- `EveryHeadHasStatus`: `Spec => []HeadHasBlockStatus` when calls to GitHub and MySQL do not fail,
  with webhooks in any order, Tick and /update-branch. `BlockInv`: every commit there has been has
  the status, or the webhook of its coming is not handled to that point yet (`Waiting`).
- `RowFollows`: `Spec => []RowFollowsGitHub`, for webhooks in any order, all jobs and any failing
  calls. `RowInv`: whoever is about to write has read in his own name: a handler whose webhook is the
  newest has seen what GitHub has (`Current`), and the row has what its last writer saw. GitHub
  changes only with a webhook, which makes every handler before it older than the newest.
- `CleanUpIsAUser`: `CleanUpSpec => Spec`. A clean-up does nothing to the rest that a user does not,
  so that the theorems above hold beside it.
- `ClosedIsCleaned`: `CleanUpSpec => []ClosedLosesLabels`, for any order of webhooks. `CleanInv`: a
  label to clean up on a closed pull request has somebody who will take it off: the handler of a
  closing that has not been there yet (`Pending`), a clean-up that has still to list, or one that
  has listed it. `ClosingSends` gives every closing such a handler.

`LocalCloneProofs` proves, for any requests, jobs and kills:

- `TypeCorrect`, for any processes.
- `PickIsFaithful`, `HealsOnce` and `CleanAtRest` for one process at a time (`Alone`), which is what
  a deployment that does not overlap gives; with two, `clone_rolling` refutes the first. The
  invariants: `PickInv` (a script about to pick has its own branch checked out, without picks; one
  about to push has its pick there and nothing else; one about to open a pull request has it on
  GitHub), `BranchInv` (the branch a script returns to exists and is not its own, which is gone after
  the cleanup), `TreeInv` (the tree is clean wherever a script relies on it, and after its cleanup),
  `DirtyInv` (a dirty tree that nobody is cleaning up is owed to a kill that has cost no request
  yet), `HeadInv` (without kills a script starts from master and returns to it) and, for the branches
  left behind, `CountInv`.
- `Implements`: `Spec => ImplementsScript`, for any number of processes in one clone: `OpenInv` keeps
  the requests between push and pull request apart, one for each process and of different branches.
  `TakenBranchesStay` derives `OnePerBranch` and `TakenForGood` from `PickScript` alone.

`ListingProofs` proves, for any items and page size:

- `TypeCorrect`.
- `NoGap`: `Spec => []NothingMissed`. While nothing leaves, ranks only grow (`RankGrows`, from the
  cardinality of subsets), so that an item at or past the next page stays there.
- `MembersKept`: `Spec => []MembersComplete`, from `NoGap`'s invariant for the loop over the members.

`PRActivityProofs` proves, for any members, author and page size:

- `NaggedOnce`: `JobSpec => []NagsOncePerPeriod`. `NagInv` is `AtMostOne` (a pull request that is
  quiet, or that a pass has found quiet, was not told since, for the comment would have been an
  update) and `Owed` (one that a pass has marked is being told, has been told, or has lost its
  comment; and if it is quiet still, it has the label).

Every invariant, action property and refinement of a passing run is proved. Only model-checked are
the liveness properties, `AcceptedIsSettled`, `StopEnds`, `ClosedIsRecorded`, `HandlersEnd` and
`LoopsEnd`: liveness under fairness is out of the prover's reach, as is ENABLED. Their safety parts
are proved where they have one that says something: `Accounting` and `ServicePromise` for the
settling of requests, `LockInUse` for the handlers of issues.

## Not modelled

The names of releases taken from milestones and commands; reviewers, assignees and milestones set on
the cherry pick; combined status and check runs stored in the row; the welcome message, greeter,
translations and log review of a new pull request; `/autoassign`; several commands in one comment;
connections of the pool and several goroutines sharing one `Mutex`; the torn read of `OrgMembers`;
rate limits, which end a call like any other error. HTTP middleware, GitHub client, metrics,
Mattermost webhook, configuration and migrations are input, output and third-party code without
state that the rest reads.

## Plan

What is left, the most important first.

1. What AutoMergePR, the handlers and the clean-up job promise about one pull request, as an abstract
   specification that `PullRequest` implements.
2. Several goroutines that share one `Mutex` of the database, with the connections they take from
   the pool.
