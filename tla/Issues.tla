------------------------------- MODULE Issues -------------------------------
(***************************************************************************)
(* One issue and the messages its labels are answered with.                *)
(*                                                                         *)
(* Two servers look at the issue (issueEventHandler and Tick end in the    *)
(* same checkIssueForChanges): the webhook server, with a goroutine per    *)
(* delivery, and the job server, with a goroutine per tick.  Each compares *)
(* the labels on GitHub with those in the row of the table Issues, posts   *)
(* the message of every new one unless it is there already, and saves the  *)
(* row.  commentLock, one per process, makes looking for the message and   *)
(* posting it one thing.                                                   *)
(*                                                                         *)
(* Every label here has a message of its own in Config.IssueLabels.        *)
(***************************************************************************)
EXTENDS Integers, Sequences

CONSTANTS
  Labels,
  MaxEvents,  \* bound: how many webhooks GitHub sends
  Ticks,      \* the goroutines of Tick that get to see the issue
  NoThread,   \* nobody holds the lock
  NoLabel     \* a goroutine without the lock has no label

Webhooks == 1..MaxEvents
Threads == Webhooks \cup Ticks
Servers == {"web", "job"}
ServerOf(t) == IF t \in Webhooks THEN "web" ELSE "job"

ASSUME BoundAssumption == MaxEvents \in Nat
ASSUME ThreadsAssumption == Webhooks \cap Ticks = {} /\ NoThread \notin Threads
ASSUME LabelsAssumption == NoLabel \notin Labels

VARIABLES
  state, labels, \* GitHub: the issue
  posts,         \* GitHub: how often each server has posted each message
  sent,          \* webhooks sent: the state in their payloads
  row,           \* the row of the issue in Issues
  pc, seen, todo, \* each goroutine: its point, its issue, new labels left to do
  current,       \* ... and the label it holds the lock for
  lock,          \* holder of the commentLock of each server
  silent,        \* history: labels that were there when the row was created
  refused        \* history: labels whose message could not be posted

github == <<state, labels, sent>>
histories == <<silent, refused>>
vars == <<github, posts, row, pc, seen, todo, current, lock, histories>>

States == {"open", "closed"}
Issue == [state : States, labels : SUBSET Labels]
NoRow == [state |-> "none"]
Points == {"new", "fetch", "get", "create", "compare", "list", "post", "save", "done"}
Locked == {"list", "post"}

Init ==
  /\ state = "open"
  /\ labels \in SUBSET Labels
  /\ posts = [l \in Labels |-> [s \in Servers |-> 0]]
  /\ sent = <<"open">>
  /\ row = NoRow
  /\ pc = [t \in Threads |-> "new"]
  /\ seen = [t \in Threads |-> [state |-> "open", labels |-> {}]]
  /\ todo = [t \in Threads |-> {}]
  /\ current = [t \in Threads |-> NoLabel]
  /\ lock = [s \in Servers |-> NoThread]
  /\ silent = {} /\ refused = {}

Go(t, point) == pc' = [pc EXCEPT ![t] = point]

-----------------------------------------------------------------------------
(* GitHub and its users.                                                    *)

Notify ==
  /\ Len(sent) < MaxEvents
  /\ sent' = Append(sent, state')
  /\ UNCHANGED <<posts, row, pc, seen, todo, current, lock, histories>>

AddLabel(l) ==
  /\ l \notin labels /\ labels' = labels \cup {l}
  /\ UNCHANGED state
  /\ Notify

RemoveLabel(l) ==
  /\ l \in labels /\ labels' = labels \ {l}
  /\ UNCHANGED state
  /\ Notify

CloseOrReopen ==
  /\ state' \in States \ {state}
  /\ UNCHANGED labels
  /\ Notify

-----------------------------------------------------------------------------
(* From GitHub to the row.                                                  *)

\* A delivery: the state is the payload's.
ReceiveEvent(h) ==
  /\ h \in DOMAIN sent /\ pc[h] = "new"
  /\ seen' = [seen EXCEPT ![h].state = sent[h]]
  /\ Go(h, "fetch")
  /\ UNCHANGED <<github, posts, row, todo, current, lock, histories>>

\* The state is left out of what is listed.
MutantTickList(t) ==
  /\ pc[t] = "new"
  /\ state = "open"
  /\ seen' = [seen EXCEPT ![t].state = ""]
  /\ Go(t, "fetch")
  /\ UNCHANGED <<github, posts, row, todo, current, lock, histories>>

\* A tick lists the open issues.
TickList(t) ==
  /\ pc[t] = "new"
  /\ state = "open"
  /\ seen' = [seen EXCEPT ![t].state = "open"]
  /\ Go(t, "fetch")
  /\ UNCHANGED <<github, posts, row, todo, current, lock, histories>>

\* GetIssueFromGithub lists the labels; an error ends the work on the issue.
GetIssueFromGithub(t) ==
  /\ pc[t] = "fetch"
  /\ \/ /\ seen' = [seen EXCEPT ![t].labels = labels]
        /\ Go(t, "get")
     \/ /\ Go(t, "done")
        /\ UNCHANGED seen
  /\ UNCHANGED <<github, posts, row, todo, current, lock, histories>>

\* checkIssueForChanges reads the old row; an error ends the work on the issue.
GetRow(t) ==
  /\ pc[t] = "get"
  /\ \/ row = NoRow /\ Go(t, "create") /\ UNCHANGED todo
     \/ /\ row # NoRow
        /\ todo' = [todo EXCEPT ![t] = seen[t].labels \ row.labels]
        /\ Go(t, IF seen[t].labels \subseteq row.labels /\ seen[t].state = row.state
                 THEN "done" ELSE "compare")
     \/ Go(t, "done") /\ UNCHANGED todo
  /\ UNCHANGED <<github, posts, row, seen, current, lock, histories>>

\* An issue without a row is saved, and none of its labels is answered.
CreateRow(t) ==
  /\ pc[t] = "create"
  /\ \/ row' = seen[t] /\ silent' = silent \cup seen[t].labels
     \/ UNCHANGED <<row, silent>>
  /\ Go(t, "done")
  /\ UNCHANGED <<github, posts, seen, todo, current, lock, refused>>

-----------------------------------------------------------------------------
(* handleIssueLabeled, for one new label after the other.                   *)

\* The lock is taken whoever holds it.
MutantLock(t, l) ==
  /\ pc[t] = "compare" /\ l \in todo[t]
  /\ lock' = [lock EXCEPT ![ServerOf(t)] = t]
  /\ current' = [current EXCEPT ![t] = l]
  /\ Go(t, "list")
  /\ UNCHANGED <<github, posts, row, seen, todo, histories>>

Lock(t, l) ==
  /\ pc[t] = "compare" /\ l \in todo[t]
  /\ lock[ServerOf(t)] = NoThread
  /\ lock' = [lock EXCEPT ![ServerOf(t)] = t]
  /\ current' = [current EXCEPT ![t] = l]
  /\ Go(t, "list")
  /\ UNCHANGED <<github, posts, row, seen, todo, histories>>

\* The Unlock is not deferred, and an early return forgets it.
MutantUnlock(t, point) ==
  /\ lock' = [lock EXCEPT ![ServerOf(t)] = IF point = "done" THEN @ ELSE NoThread]
  /\ current' = [current EXCEPT ![t] = NoLabel]
  /\ todo' = [todo EXCEPT ![t] = @ \ {current[t]}]
  /\ Go(t, point)

\* The deferred Unlock; the label is handled, or the handler gives up.
Unlock(t, point) ==
  /\ lock' = [lock EXCEPT ![ServerOf(t)] = NoThread]
  /\ current' = [current EXCEPT ![t] = NoLabel]
  /\ todo' = [todo EXCEPT ![t] = @ \ {current[t]}]
  /\ Go(t, point)

Answered(l) == \E s \in Servers : posts[l][s] > 0

\* An error is logged, and the label taken for handled.
MutantGetComments(t) ==
  /\ pc[t] = "list"
  /\ \/ /\ ~Answered(current[t])
        /\ Go(t, "post")
        /\ UNCHANGED <<todo, current, lock>>
     \/ Unlock(t, "compare")
  /\ UNCHANGED <<github, posts, row, seen, histories>>

\* The comments are listed; an error leaves the row as it is.
GetComments(t) ==
  /\ pc[t] = "list"
  /\ \/ /\ ~Answered(current[t])
        /\ Go(t, "post")
        /\ UNCHANGED <<todo, current, lock>>
     \/ /\ Answered(current[t])
        /\ Unlock(t, "compare")
     \/ Unlock(t, "done")
  /\ UNCHANGED <<github, posts, row, seen, histories>>

\* sendGitHubComment: an error is only logged, and the label taken for handled.
Post(t) ==
  /\ pc[t] = "post"
  /\ \/ /\ posts' = [posts EXCEPT ![current[t]][ServerOf(t)] = @ + 1]
        /\ UNCHANGED refused
     \/ /\ refused' = refused \cup {current[t]}
        /\ UNCHANGED posts
  /\ Unlock(t, "compare")
  /\ UNCHANGED <<github, row, seen, silent>>

\* All new labels are handled.
EndCompare(t) ==
  /\ pc[t] = "compare" /\ todo[t] = {}
  /\ Go(t, "save")
  /\ UNCHANGED <<github, posts, row, seen, todo, current, lock, histories>>

SaveRow(t) ==
  /\ pc[t] = "save"
  /\ row' = seen[t] \/ UNCHANGED row
  /\ Go(t, "done")
  /\ UNCHANGED <<github, posts, seen, todo, current, lock, histories>>

CheckIssueForChanges(t) ==
  \/ GetIssueFromGithub(t) \/ GetRow(t) \/ CreateRow(t)
  \/ (\E l \in Labels : Lock(t, l)) \/ GetComments(t) \/ Post(t)
  \/ EndCompare(t) \/ SaveRow(t)

-----------------------------------------------------------------------------
\* Nothing is going on: only the next webhook or tick can change that.
Idle == (\A t \in Threads : pc[t] \in {"new", "done"}) /\ UNCHANGED vars

Next ==
  \/ \E l \in Labels : AddLabel(l) \/ RemoveLabel(l)
  \/ CloseOrReopen
  \/ \E h \in Webhooks : ReceiveEvent(h)
  \/ \E t \in Ticks : TickList(t)
  \/ \E t \in Threads : CheckIssueForChanges(t)
  \/ Idle

\* The goroutines run, and the calls they make return.
Fairness == \A t \in Threads : WF_vars(CheckIssueForChanges(t))

Spec == Init /\ [][Next]_vars
FairSpec == Spec /\ Fairness

-----------------------------------------------------------------------------
(* Properties.                                                              *)

\* Every variable keeps its type.
TypeOK ==
  /\ state \in States /\ labels \subseteq Labels /\ sent \in Seq(States)
  /\ posts \in [Labels -> [Servers -> Nat]]
  /\ row \in Issue \cup {NoRow}
  /\ pc \in [Threads -> Points]
  /\ seen \in [Threads -> Issue]
  /\ todo \in [Threads -> SUBSET Labels]
  /\ current \in [Threads -> Labels \cup {NoLabel}]
  /\ lock \in [Servers -> Threads \cup {NoThread}]
  /\ silent \subseteq Labels /\ refused \subseteq Labels

\* However deliveries and ticks overlap, no server posts a message twice ("must
\* be sure the comment is created before we let another request test"); that is
\* all commentLock can do, as each process has its own.
OncePerServer == \A l \in Labels, s \in Servers : posts[l][s] <= 1

\* A label gets into the row only after its message was posted, or could not be
\* posted, or when the row is created: the row never hides a label from the
\* comparison that nobody has answered, though goroutines overwrite each
\* other's rows and give up half way (checkIssueForChanges, the early return).
RowIsAnswered ==
  row # NoRow => \A l \in row.labels : Answered(l) \/ l \in silent \cup refused

\* Every goroutine comes to its end, whoever else wants the lock and however
\* calls fail (the deferred Unlock).
HandlersEnd == \A t \in Threads : (pc[t] = "fetch") ~> (pc[t] = "done")

\* Nobody keeps the lock but a goroutine of its server that is on its way to Unlock
\* (issue_handler.go:103): whoever waits for the lock waits for one that goes on.
LockInUse ==
  \A s \in Servers :
    lock[s] # NoThread => pc[lock[s]] \in Locked /\ ServerOf(lock[s]) = s

\* The lock is held by the goroutine that is between its Lock and its Unlock, and
\* a message about to be posted is not there yet, as far as the server knows.
LockHeld ==
  \A t \in Threads :
    /\ pc[t] \in Locked => lock[ServerOf(t)] = t
    /\ pc[t] \in Locked => current[t] \in Labels
    /\ pc[t] = "post" => posts[current[t]][ServerOf(t)] = 0

\* What a goroutine will save is answered but for the labels still to do.
Handled(l) == Answered(l) \/ l \in silent \cup refused

SeenIsHandled ==
  \A t \in Threads :
    pc[t] \in {"compare", "save"} \cup Locked =>
      /\ pc[t] = "save" => todo[t] = {}
      /\ \A l \in seen[t].labels \ todo[t] : Handled(l)

IndInv == TypeOK /\ OncePerServer /\ RowIsAnswered /\ LockHeld /\ SeenIsHandled
=============================================================================
