----------------------------- MODULE CherryPick -----------------------------
(***************************************************************************)
(* The cherry-pick pipeline of the webhook server (server/cherry_pick.go). *)
(*                                                                         *)
(* Producers are webhook deliveries: a "/cherry-pick" comment runs         *)
(* handleCherryPick in the HTTP handler, a merged pull request starts      *)
(* checkIfNeedCherryPick in a goroutine of its own.  Both put requests on  *)
(* a buffered Go channel.  One worker goroutine (listenCherryPickRequests) *)
(* takes them and runs doCherryPick.  On a signal, Stop closes the two     *)
(* channels, waits five seconds, and cancels what is still queued.         *)
(*                                                                         *)
(* The channel states follow from where the main goroutine is: see         *)
(* StopChanClosed and RequestsClosed.  GitHub is the labels of the merged  *)
(* pull requests, the branches pushed to the remote and the pull requests  *)
(* opened from them.                                                       *)
(***************************************************************************)
EXTENDS Integers, Sequences

CONSTANTS
  Deliveries,     \* webhook deliveries that may ask for a cherry pick
  Commands,       \* those that are comments; the others are merged pull requests
  PRs,            \* pull requests
  Versions,       \* release branches
  Ref,            \* the name of each pull request's own branch
  Capacity,       \* buffer size of the request channel (20 in the code)
  MaxRestarts,    \* bound: how often the process is started again
  MemberAuthored, \* the pull requests whose author is an organisation member
  Reviews,        \* how many reviews each pull request has
  CommentsFail,   \* whether posting a comment may fail
  NoJob           \* nobody's request

ASSUME CapacityAssumption == Capacity \in Nat \ {0}
ASSUME RestartsAssumption == MaxRestarts \in Nat
ASSUME NoJobAssumption == NoJob \notin Deliveries
ASSUME ReviewsAssumption == Reviews \in [PRs -> Nat]
ASSUME CommentsAssumption == Commands \subseteq Deliveries /\ CommentsFail \in BOOLEAN

VARIABLES
  call,      \* what each delivery asks for
  pc,        \* where each delivery's handler is
  queue,     \* contents of s.cherryPickRequests
  worker,    \* where listenCherryPickRequests is
  job,       \* the request it works on
  main,      \* where the main goroutine is: serving, Stop, or gone
  draining,  \* the request the cancellation loop of Stop holds
  accepted,  \* history: every request put on the channel, in order
  fate,      \* history: what became of each accepted request
  told,      \* comments posted on the pull request for each delivery
  labels,    \* GitHub: cherry-pick labels of each pull request
  branches,  \* GitHub: the branches pushed, see BranchOf
  picks,     \* GitHub: cherry-pick pull requests opened, and whether the script heard so
  restarts   \* how often the process was started again

asked == <<call, pc>>
github == <<labels, branches, picks>>
vars == <<call, pc, queue, worker, job, main, draining, accepted, fate, told,
          labels, branches, picks, restarts>>

Calls == [pr : PRs, version : Versions]
NoCall == [pr |-> "none"]
Notices == {"scheduled", "tooMany", "error", "canceled"}
Fates == {"none", "done", "failed", "canceled", "lost"}
HandlerPoints == {"idle", "check", "send", "scheduled", "tooMany", "ended"}
WorkerPoints == {"receive", "prepare", "push", "makePR", "assignee", "labelNew",
                 "addDone", "removeApproved", "finish", "report", "exited", "gone"}
MainPoints == {"serving", "closing", "selecting", "draining", "shutdown",
               "exited", "crashed"}

\* Whether the process runs, accepts webhooks, and has closed its channels.
Up == main \notin {"exited", "crashed"}
Serving == main \in {"serving", "closing", "selecting", "draining"}
StopChanClosed == main # "serving"
RequestsClosed == main \notin {"serving", "closing"}

Elems(s) == {s[i] : i \in 1..Len(s)}

\* The branch that a cherry pick is pushed to is named after the branch of the
\* pull request and the release branch.
BranchOf(p, v) == <<Ref[p], v>>
Branches == {BranchOf(p, v) : p \in PRs, v \in Versions}

\* Accepted requests that are not settled yet.
Outstanding == {d \in Elems(accepted) : fate[d] = "none"}

Init ==
  /\ call = [d \in Deliveries |-> NoCall]
  /\ pc = [d \in Deliveries |-> "idle"]
  /\ queue = <<>>
  /\ worker = "receive"
  /\ job = NoJob
  /\ main = "serving"
  /\ draining = NoJob
  /\ accepted = <<>>
  /\ fate = [d \in Deliveries |-> "none"]
  /\ told = [d \in Deliveries |-> {}]
  /\ labels \in [PRs -> {{}, {"Approved"}}]
  /\ branches = {}
  /\ picks = {}
  /\ restarts = 0

-----------------------------------------------------------------------------
(* The process ends, orderly or by a panic nobody recovers: what it had in  *)
(* memory is gone, handlers and all.                                        *)
EndProcess(how) ==
  /\ main' = how
  /\ queue' = <<>>
  /\ worker' = "gone"
  /\ job' = NoJob
  /\ draining' = NoJob
  /\ pc' = [d \in Deliveries |-> IF pc[d] = "idle" THEN "idle" ELSE "ended"]
  /\ fate' = [d \in Deliveries |-> IF d \in Outstanding THEN "lost" ELSE fate[d]]

\* sendGitHubComment: an error is logged and nothing else happens.
Comment(d, notice) ==
  \/ told' = [told EXCEPT ![d] = @ \cup {notice}]
  \/ CommentsFail /\ UNCHANGED told

-----------------------------------------------------------------------------
(* Producers.                                                               *)

\* handleCherryPick up to the channel: a commenter without permission gets a
\* comment about it; a command on a pull request that is not merged, or one
\* that names no version, is ignored.
HandleCherryPick(d, p, v, commenter, merged, args) ==
  /\ Serving
  /\ d \in Commands /\ pc[d] = "idle"
  /\ call' = [call EXCEPT ![d] = [pr |-> p, version |-> v]]
  /\ pc' = [pc EXCEPT ![d] =
              IF commenter = "member" /\ merged /\ args >= 2 THEN "check" ELSE "ended"]
  /\ UNCHANGED <<queue, worker, job, main, draining, accepted, fate, told,
                 github, restarts>>

\* checkIfNeedCherryPick up to the channel: it needs a merged pull request with
\* a milestone, lists the labels (which may fail) and goes on if the pull
\* request is approved.
CheckIfNeedCherryPick(d, p, v, merged, hasMilestone, listed) ==
  /\ Serving
  /\ d \notin Commands /\ pc[d] = "idle"
  /\ call' = [call EXCEPT ![d] = [pr |-> p, version |-> v]]
  /\ pc' = [pc EXCEPT ![d] =
              IF merged /\ hasMilestone /\ listed /\ "Approved" \in labels[p]
              THEN "check" ELSE "ended"]
  /\ UNCHANGED <<queue, worker, job, main, draining, accepted, fate, told,
                 github, restarts>>

\* The first select of both producers: is the server closing?
CheckStop(d) ==
  /\ Up
  /\ pc[d] = "check"
  /\ pc' = [pc EXCEPT ![d] = IF StopChanClosed THEN "ended" ELSE "send"]
  /\ UNCHANGED <<call, queue, worker, job, main, draining, accepted, fate, told,
                 github, restarts>>

\* A send that also succeeds on a full or a closed channel.
MutantSend(d) ==
  /\ Up
  /\ pc[d] = "send"
  /\ queue' = Append(queue, d)
  /\ accepted' = Append(accepted, d)
  /\ pc' = [pc EXCEPT ![d] = "scheduled"]
  /\ UNCHANGED <<call, worker, job, main, draining, fate, told, github, restarts>>

\* The second select: a send that does not block.
Send(d) ==
  /\ Up
  /\ pc[d] = "send"
  /\ ~RequestsClosed
  /\ IF Len(queue) < Capacity
     THEN /\ queue' = Append(queue, d)
          /\ accepted' = Append(accepted, d)
          /\ pc' = [pc EXCEPT ![d] = "scheduled"]
     ELSE /\ pc' = [pc EXCEPT ![d] = "tooMany"]
          /\ UNCHANGED <<queue, accepted>>
  /\ UNCHANGED <<call, worker, job, main, draining, fate, told, github, restarts>>

\* A send on the closed channel panics.  withRecovery catches it in an HTTP
\* handler; in the goroutine of checkIfNeedCherryPick it ends the process.
SendOnClosed(d) ==
  /\ Up
  /\ pc[d] = "send"
  /\ RequestsClosed
  /\ IF d \in Commands
     THEN /\ pc' = [pc EXCEPT ![d] = "ended"]
          /\ UNCHANGED <<queue, worker, job, main, draining, fate>>
     ELSE EndProcess("crashed")
  /\ UNCHANGED <<call, accepted, told, github, restarts>>

\* The comment that answers the delivery.
Answer(d) ==
  /\ Up
  /\ pc[d] \in {"scheduled", "tooMany"}
  /\ Comment(d, pc[d])
  /\ pc' = [pc EXCEPT ![d] = "ended"]
  /\ UNCHANGED <<call, queue, worker, job, main, draining, accepted, fate, github,
                 restarts>>

-----------------------------------------------------------------------------
(* The worker.                                                              *)

WorkerUnchanged == UNCHANGED <<call, pc, main, draining, accepted, restarts>>

\* Once the server is closing, what is received is thrown away.
MutantReceive ==
  /\ Up
  /\ worker = "receive"
  /\ queue # <<>>
  /\ queue' = Tail(queue)
  /\ IF StopChanClosed
     THEN UNCHANGED <<job, worker>>
     ELSE job' = Head(queue) /\ worker' = "prepare"
  /\ UNCHANGED <<fate, told, github>>
  /\ WorkerUnchanged

\* One iteration of the range loop starts.
Receive ==
  /\ Up
  /\ worker = "receive"
  /\ queue # <<>>
  /\ job' = Head(queue)
  /\ queue' = Tail(queue)
  /\ worker' = "prepare"
  /\ UNCHANGED <<fate, told, github>>
  /\ WorkerUnchanged

\* The range loop ends when the channel is closed and drained; the deferred
\* function closes cherryPickStoppedChan.
StopListening ==
  /\ Up
  /\ worker = "receive"
  /\ RequestsClosed
  /\ queue = <<>>
  /\ worker' = "exited"
  /\ UNCHANGED <<queue, job, fate, told, github>>
  /\ WorkerUnchanged

\* doCherryPick up to the script: the merge commit, the configuration, the
\* clone of the repository.
Prepare ==
  /\ Up
  /\ worker = "prepare"
  /\ worker' \in {"push", "report"}
  /\ UNCHANGED <<queue, job, fate, told, github>>
  /\ WorkerUnchanged

Target == BranchOf(call[job].pr, call[job].version)

\* A forced push: overwrites the branch of an earlier cherry pick.
MutantPush ==
  /\ Up
  /\ worker = "push"
  /\ \/ /\ branches' = branches \cup {Target}
        /\ worker' \in {"makePR", "report"}
     \/ /\ worker' = "report"
        /\ UNCHANGED branches
  /\ UNCHANGED <<queue, job, fate, told, labels, picks>>
  /\ WorkerUnchanged

\* cherry-pick.sh up to its git push, which is without force: it fails when the
\* branch is there already, and may fail for a conflict or the network, which may
\* also lose the answer to a push that arrived.  Nobody deletes branches here.
Push ==
  /\ Up
  /\ worker = "push"
  /\ \/ /\ Target \notin branches
        /\ branches' = branches \cup {Target}
        /\ worker' \in {"makePR", "report"}
     \/ /\ worker' = "report"
        /\ UNCHANGED branches
  /\ UNCHANGED <<queue, job, fate, told, labels, picks>>
  /\ WorkerUnchanged

\* The pull request that the worker is about to open.
NewPick(heard) ==
  [pr |-> call[job].pr, version |-> call[job].version, by |-> job, heard |-> heard]

\* cherry-pick.sh opens the pull request, its last command: hub fails before GitHub
\* has it, or after, when the answer is lost.
MakePR ==
  /\ Up
  /\ worker = "makePR"
  /\ \/ /\ picks' = picks \cup {NewPick(TRUE)}
        /\ worker' = "assignee"
     \/ /\ picks' \in {picks, picks \cup {NewPick(FALSE)}}
        /\ worker' = "report"
  /\ UNCHANGED <<queue, job, fate, told, labels, branches>>
  /\ WorkerUnchanged

\* rand.Intn(n - 1) panics when n - 1 is not positive.
IntnPanics(n) == n - 1 <= 0

\* getAssignee when it returns: the author is a member, listing the reviews
\* failed, or there are enough reviews to choose from.  addMilestone follows
\* and ignores its errors.
GetAssignee(listed) ==
  /\ Up
  /\ worker = "assignee"
  /\ \/ call[job].pr \in MemberAuthored
     \/ ~listed
     \/ ~IntnPanics(Reviews[call[job].pr])
  /\ worker' = "labelNew"
  /\ UNCHANGED <<queue, job, fate, told, github>>
  /\ WorkerUnchanged

\* getAssignee when rand.Intn panics; the worker goroutine has no recover.
GetAssigneePanics ==
  /\ Up
  /\ worker = "assignee"
  /\ call[job].pr \notin MemberAuthored
  /\ IntnPanics(Reviews[call[job].pr])
  /\ EndProcess("crashed")
  /\ UNCHANGED <<call, accepted, told, github, restarts>>

\* updateCherryPickLabels, first call: label the new pull request.
LabelNew ==
  /\ Up
  /\ worker = "labelNew"
  /\ worker' \in {"addDone", "finish"}
  /\ UNCHANGED <<queue, job, fate, told, github>>
  /\ WorkerUnchanged

\* A failed call does not end updateCherryPickLabels.
MutantAddDone ==
  /\ Up
  /\ worker = "addDone"
  /\ \/ /\ labels' = [labels EXCEPT ![call[job].pr] = @ \cup {"Done"}]
        /\ worker' = "removeApproved"
     \/ /\ worker' = "removeApproved"
        /\ UNCHANGED labels
  /\ UNCHANGED <<queue, job, fate, told, branches, picks>>
  /\ WorkerUnchanged

\* updateCherryPickLabels, second call: CherryPick/Done on the original.
AddDone ==
  /\ Up
  /\ worker = "addDone"
  /\ \/ /\ labels' = [labels EXCEPT ![call[job].pr] = @ \cup {"Done"}]
        /\ worker' = "removeApproved"
     \/ /\ worker' = "finish"
        /\ UNCHANGED labels
  /\ UNCHANGED <<queue, job, fate, told, branches, picks>>
  /\ WorkerUnchanged

\* updateCherryPickLabels, third call: CherryPick/Approved goes.
RemoveApproved ==
  /\ Up
  /\ worker = "removeApproved"
  /\ \/ labels' = [labels EXCEPT ![call[job].pr] = @ \ {"Approved"}]
     \/ UNCHANGED labels
  /\ worker' = "finish"
  /\ UNCHANGED <<queue, job, fate, told, branches, picks>>
  /\ WorkerUnchanged

\* The worker serves one request only.
MutantFinish ==
  /\ Up
  /\ worker = "finish"
  /\ fate' = [fate EXCEPT ![job] = "done"]
  /\ job' = NoJob
  /\ worker' = "exited"
  /\ UNCHANGED <<queue, told, github>>
  /\ WorkerUnchanged

\* addReviewers, addAssignee and returnToMaster ignore their errors.
Finish ==
  /\ Up
  /\ worker = "finish"
  /\ fate' = [fate EXCEPT ![job] = "done"]
  /\ job' = NoJob
  /\ worker' = "receive"
  /\ UNCHANGED <<queue, told, github>>
  /\ WorkerUnchanged

\* The comment about a failed cherry pick, and the next iteration.
Report ==
  /\ Up
  /\ worker = "report"
  /\ Comment(job, "error")
  /\ fate' = [fate EXCEPT ![job] = "failed"]
  /\ job' = NoJob
  /\ worker' = "receive"
  /\ UNCHANGED <<queue, github>>
  /\ WorkerUnchanged

-----------------------------------------------------------------------------
(* Stop, run by the main goroutine.                                         *)

MainUnchanged ==
  UNCHANGED <<call, pc, worker, job, accepted, github, restarts>>

\* A signal arrived: finishCherryPickRequests closes cherryPickStopChan.
CloseStopChan ==
  /\ main = "serving"
  /\ main' = "closing"
  /\ UNCHANGED <<queue, draining, fate, told>>
  /\ MainUnchanged

\* ... and cherryPickRequests.
CloseRequests ==
  /\ main = "closing"
  /\ main' = "selecting"
  /\ UNCHANGED <<queue, draining, fate, told>>
  /\ MainUnchanged

\* ListenAndServe returns with an error: os.Exit.
ServeFails ==
  /\ Serving
  /\ EndProcess("crashed")
  /\ UNCHANGED <<call, accepted, told, github, restarts>>

\* The select: five seconds pass, or the worker has stopped.
SelectTimeout ==
  /\ main = "selecting"
  /\ main' = "draining"
  /\ UNCHANGED <<queue, draining, fate, told>>
  /\ MainUnchanged

SelectStopped ==
  /\ main = "selecting"
  /\ worker = "exited"
  /\ main' = "shutdown"
  /\ UNCHANGED <<queue, draining, fate, told>>
  /\ MainUnchanged

\* Reads the oldest request and leaves it on the channel.
MutantDrainTake ==
  /\ main = "draining"
  /\ draining = NoJob
  /\ queue # <<>>
  /\ draining' = Head(queue)
  /\ UNCHANGED <<main, queue, fate, told>>
  /\ MainUnchanged

\* The cancellation loop takes a request, competing with the worker ...
DrainTake ==
  /\ main = "draining"
  /\ draining = NoJob
  /\ queue # <<>>
  /\ draining' = Head(queue)
  /\ queue' = Tail(queue)
  /\ UNCHANGED <<main, fate, told>>
  /\ MainUnchanged

\* The loop does not get past its first request.
MutantDrainCancel ==
  /\ main = "draining"
  /\ draining # NoJob
  /\ Comment(draining, "canceled")
  /\ fate' = [fate EXCEPT ![draining] = "canceled"]
  /\ UNCHANGED <<main, queue, draining>>
  /\ MainUnchanged

\* ... and comments on it.
DrainCancel ==
  /\ main = "draining"
  /\ draining # NoJob
  /\ Comment(draining, "canceled")
  /\ fate' = [fate EXCEPT ![draining] = "canceled"]
  /\ draining' = NoJob
  /\ UNCHANGED <<main, queue>>
  /\ MainUnchanged

\* The loop may end with requests still on the channel.
MutantDrainEnd ==
  /\ main = "draining"
  /\ draining = NoJob
  /\ main' = "shutdown"
  /\ UNCHANGED <<queue, draining, fate, told>>
  /\ MainUnchanged

\* The loop ends when the closed channel is empty.
DrainEnd ==
  /\ main = "draining"
  /\ draining = NoJob
  /\ queue = <<>>
  /\ main' = "shutdown"
  /\ UNCHANGED <<queue, draining, fate, told>>
  /\ MainUnchanged

\* http.Server.Shutdown returns (all handlers done, or 30 seconds passed) and
\* main returns; nobody waits for the goroutines.
Exit ==
  /\ main = "shutdown"
  /\ EndProcess("exited")
  /\ UNCHANGED <<call, accepted, told, github, restarts>>

-----------------------------------------------------------------------------
(* The environment.                                                         *)

\* The deployment starts the process again, with nothing in memory.
Restart ==
  /\ ~Up
  /\ restarts < MaxRestarts
  /\ restarts' = restarts + 1
  /\ main' = "serving"
  /\ worker' = "receive"
  /\ UNCHANGED <<call, pc, queue, job, draining, accepted, fate, told, github>>

\* Somebody approves a pull request (again).
Approve(p) ==
  /\ "Approved" \notin labels[p]
  /\ labels' = [labels EXCEPT ![p] = @ \cup {"Approved"}]
  /\ UNCHANGED <<call, pc, queue, worker, job, main, draining, accepted, fate,
                 told, branches, picks, restarts>>

\* Nothing is left to happen once the last process has ended.
Terminated ==
  /\ ~Up
  /\ restarts = MaxRestarts
  /\ UNCHANGED vars

Producer(d) == CheckStop(d) \/ Send(d) \/ SendOnClosed(d) \/ Answer(d)

Worker ==
  \/ Receive \/ StopListening \/ Prepare \/ Push \/ MakePR
  \/ \E listed \in BOOLEAN : GetAssignee(listed)
  \/ GetAssigneePanics \/ LabelNew \/ AddDone \/ RemoveApproved
  \/ Finish \/ Report

Stop ==
  \/ CloseRequests \/ SelectTimeout \/ SelectStopped \/ DrainTake \/ DrainCancel
  \/ DrainEnd \/ Exit

Arrive ==
  \E d \in Deliveries, p \in PRs, v \in Versions :
    \/ \E commenter \in {"member", "blocked", "outsider"},
          merged \in BOOLEAN, args \in 1..2 :
         HandleCherryPick(d, p, v, commenter, merged, args)
    \/ \E merged, hasMilestone, listed \in BOOLEAN :
         CheckIfNeedCherryPick(d, p, v, merged, hasMilestone, listed)

Next ==
  \/ Arrive
  \/ \E d \in Deliveries : Producer(d)
  \/ Worker
  \/ CloseStopChan \/ ServeFails
  \/ Stop
  \/ Restart
  \/ \E p \in PRs : Approve(p)
  \/ Terminated

\* The worker and Stop run when they can, and the calls they make return; nothing is
\* asked of the handlers, and webhooks, signals, approvals, restarts and a failing
\* listener may never come.
Fairness ==
  /\ WF_vars(Worker)
  /\ WF_vars(Stop)

Spec == Init /\ [][Next]_vars
FairSpec == Spec /\ Fairness

-----------------------------------------------------------------------------
(* Properties.                                                              *)

\* Every variable keeps its type; the channel never exceeds its buffer.
TypeOK ==
  /\ call \in [Deliveries -> Calls \cup {NoCall}]
  /\ pc \in [Deliveries -> HandlerPoints]
  /\ queue \in Seq(Deliveries)
  /\ Len(queue) <= Capacity
  /\ worker \in WorkerPoints
  /\ job \in Deliveries \cup {NoJob}
  /\ main \in MainPoints
  /\ draining \in Deliveries \cup {NoJob}
  /\ accepted \in Seq(Deliveries)
  /\ fate \in [Deliveries -> Fates]
  /\ told \in [Deliveries -> SUBSET Notices]
  /\ labels \in [PRs -> SUBSET {"Approved", "Done"}]
  /\ branches \subseteq Branches
  /\ picks \subseteq [pr : PRs, version : Versions, by : Deliveries, heard : BOOLEAN]
  /\ restarts \in 0..MaxRestarts

\* The channel is a FIFO shared by two consumers, and no request is dropped or
\* served twice on the way: what is queued is the end of the acceptance order
\* and untouched, and everything accepted earlier is with the worker, with the
\* cancellation loop, or settled -- in exactly one of the three places
\* (listenCherryPickRequests against finishCherryPickRequests).
Accounting ==
  LET taken == Len(accepted) - Len(queue)
  IN  /\ taken >= 0
      /\ \A i \in 1..Len(queue) : queue[i] = accepted[taken + i]
      /\ \A i \in 1..Len(accepted) :
           /\ i > taken => /\ accepted[i] \notin {job, draining}
                          /\ fate[accepted[i]] = "none"
           /\ i <= taken => (fate[accepted[i]] = "none"
                              <=> accepted[i] \in {job, draining})
      /\ job = draining => job = NoJob

\* Accounting is inductive only together with how the control points relate to
\* the data: who has called, who has been accepted, who holds a request.
Busy == WorkerPoints \ {"receive", "exited", "gone"}

CallsKnown == \A d \in Deliveries : pc[d] # "idle" => call[d] \in Calls

AcceptedPastSend ==
  \A i \in 1..Len(accepted) : pc[accepted[i]] \in {"scheduled", "ended"}

AcceptedOnce ==
  \A i, j \in 1..Len(accepted) : accepted[i] = accepted[j] => i = j

OnlyAccepted ==
  \A d \in Deliveries :
    fate[d] # "none" \/ d \in {job, draining} => d \in Elems(accepted)

ControlPoints ==
  /\ worker \in Busy <=> job # NoJob
  /\ draining # NoJob => main = "draining"
  /\ worker = "exited" => RequestsClosed /\ queue = <<>>
  /\ worker = "gone" <=> ~Up
  /\ main = "shutdown" \/ ~Up => queue = <<>>

Control ==
  CallsKnown /\ AcceptedPastSend /\ AcceptedOnce /\ OnlyAccepted /\ ControlPoints

IndInv == TypeOK /\ Accounting /\ Control

\* Two goroutines receive from the channel while Stop drains it.  Neither gets
\* ahead of the order of acceptance, except past a request that is in the hands
\* of the other: a picked or failed one leaves only a request about to be
\* canceled behind it, a canceled one only the request the worker is busy with
\* (listenCherryPickRequests against finishCherryPickRequests).
ServedInOrder ==
  \A i, j \in 1..Len(accepted) :
    i < j =>
      /\ fate[accepted[j]] \in {"done", "failed"}
           => fate[accepted[i]] # "none" \/ accepted[i] = draining
      /\ fate[accepted[j]] = "canceled"
           => fate[accepted[i]] # "none" \/ accepted[i] = job

\* What a pull request is told is true, as far as the server can know: it is told
\* that there are too many requests only if its request was not accepted, that its
\* request was canceled only if no cherry pick came of it, and that it failed only
\* if none came of it or GitHub's answer about it was lost (hub failed after GitHub
\* had opened the pull request, cherry-pick.sh:79).  A request that is done has a
\* cherry pick.
NoticesAreTrue ==
  \A d \in Deliveries :
    /\ "tooMany" \in told[d] => d \notin Elems(accepted)
    /\ "scheduled" \in told[d] => d \in Elems(accepted)
    /\ "canceled" \in told[d] => \A x \in picks : x.by # d
    /\ "error" \in told[d] => \A x \in picks : x.by = d => ~x.heard
    /\ fate[d] = "done" => \E x \in picks : x.by = d /\ x.heard
    /\ ~({"error", "canceled"} \subseteq told[d])

\* However often a merge event or a command is delivered, and across restarts,
\* one pull request gets at most one cherry pick per release branch: the push
\* to a branch with a fixed name is what makes it so (cherry-pick.sh).
OnePickPerTarget ==
  \A x, y \in picks : x.pr = y.pr /\ x.version = y.version => x = y

\* The bot never leaves a pull request without its approval and without a
\* cherry pick: CherryPick/Approved goes away only from a pull request that
\* has CherryPick/Done and a cherry pick (updateCherryPickLabels, the order of
\* the calls and the early returns).
ApprovalNotLost ==
  [][\A p \in PRs :
       "Approved" \in labels[p] /\ "Approved" \notin labels'[p]
         => "Done" \in labels'[p] /\ \E x \in picks : x.pr = p]_vars

\* The two properties above rest on what holds while the worker is between the
\* push and the end of a cherry pick.
Picked == {"assignee", "labelNew", "addDone", "removeApproved", "finish"}

PickProtocol ==
  /\ \A x \in picks : BranchOf(x.pr, x.version) \in branches
  /\ worker = "makePR" => /\ Target \in branches
                         /\ \A x \in picks : BranchOf(x.pr, x.version) # Target
  /\ worker \in Picked => NewPick(TRUE) \in picks
  /\ worker = "removeApproved" => "Done" \in labels[call[job].pr]

\* Stop ends with nothing left on the channel and nothing in the hands of the
\* cancellation loop: an orderly exit can lose only the request the worker is
\* busy with (finishCherryPickRequests).
OrderlyExitDrains ==
  [][main' = "exited" /\ main # "exited"
       => \A d \in Outstanding : d = job]_vars

\* Every accepted request is settled in the end: picked, reported as failed,
\* canceled, or lost with its process; there is always a time when none is left.
AcceptedIsSettled == []<>(Outstanding = {})

\* Stop ends, whatever the worker and the handlers do: there is always a time when the
\* process is not in the middle of it (finishCherryPickRequests, Stop).
StopEnds == []<>(main = "serving" \/ ~Up)

\* A delivery that meets the closing server is refused without a panic: the
\* test "should ignore when server is closing" expects an error.
ClosingIsNoPanic == [][\A d \in Deliveries : ~SendOnClosed(d)]_vars
=============================================================================
