----------------------------- MODULE LocalClone -----------------------------
(***************************************************************************)
(* The local clone that cherry picks are made in: doCherryPick with        *)
(* cloneRepo and returnToMaster (server/cherry_pick.go), and every git     *)
(* command of hack/cherry-pick.sh.                                         *)
(*                                                                         *)
(* The clone is on a volume (deploy/overlays/prod/pvc.yaml) and outlives   *)
(* the process: what a killed script leaves there is what the next one     *)
(* starts from.  A process works on one request at a time, the order in    *)
(* which requests reach it is the subject of CherryPick.  Processes share  *)
(* the volume while a rolling update runs the old and the new one.         *)
(***************************************************************************)
EXTENDS Integers, Sequences, FiniteSets

CONSTANTS
  Processes,          \* mattermod processes that mount the volume
  Requests,           \* cherry picks asked for
  BranchOf,           \* the remote branch of each request, see NEWBRANCH
  ConfiguredGlobally, \* git finds name, e-mail and rename limit outside the clone
  MaxJobs,            \* bound: requests taken, repeated ones included
  MaxKills            \* bound: processes killed

ASSUME MaxJobsAssumption == MaxJobs \in Nat
ASSUME MaxKillsAssumption == MaxKills \in Nat
ASSUME ConfiguredAssumption == ConfiguredGlobally \in BOOLEAN

VARIABLES
  pc,       \* where each process is
  job,      \* number of the request it works on
  starting, \* STARTINGBRANCH of its script
  asked,    \* history: the request behind each job
  clone,    \* disk: the folder of the clone
  head,     \* disk: the branch that is checked out
  local,    \* disk: the branches that jobs created, besides master
  commits,  \* disk: the picks committed to each branch
  tree,     \* disk: the working tree
  lock,     \* disk: .git/index.lock was left behind
  pushed,   \* GitHub: remote branches of cherry picks
  remote,   \* GitHub: the picks each of them holds
  proposed, \* GitHub: pull requests opened
  kills,    \* processes killed so far
  settled,  \* history: a job has run to its end since the last kill
  refused   \* history: scripts that found a dirty tree

process == <<pc, job, starting>>
disk == <<clone, head, local, commits, tree, lock>>
github == <<pushed, remote, proposed>>
vars == <<process, asked, disk, github, kills, settled, refused>>

Jobs == 1..MaxJobs
Master == 0
LocalBranches == {Master} \cup Jobs
Branches == {BranchOf[r] : r \in Requests}
Request(p) == asked[job[p]]

CloneSteps == {"clone", "cloning", "configure", "addRemote"}
ScriptSteps == {"start", "status", "update", "create", "pick", "push", "makePR",
                "abort", "restore", "delete"}

\* git takes .git/index.lock in these steps.
IndexSteps == {"create", "pick", "abort", "restore", "back"}

Init ==
  /\ pc = [p \in Processes |-> "idle"]
  /\ job = [p \in Processes |-> 0]
  /\ starting = [p \in Processes |-> Master]
  /\ asked = <<>>
  /\ clone = "absent"
  /\ head = Master
  /\ local = {}
  /\ commits = [b \in LocalBranches |-> {}]
  /\ tree = "clean"
  /\ lock = FALSE
  /\ pushed = {}
  /\ remote = [b \in Branches |-> {}]
  /\ proposed = {}
  /\ kills = 0
  /\ settled = TRUE
  /\ refused = 0

At(p, here) == pc[p] = here
Go(p, there) == pc' = [pc EXCEPT ![p] = there]

\* The job ends: its success or its error is reported.
EndJob(p) ==
  /\ pc' = [pc EXCEPT ![p] = "idle"]
  /\ job' = [job EXCEPT ![p] = 0]
  /\ settled' = TRUE

-----------------------------------------------------------------------------
(* cloneRepo.  The folder's existence is all that doCherryPick looks at.    *)

\* The job's number is not remembered.
MutantTake(p, r) ==
  /\ At(p, "idle")
  /\ Len(asked) < MaxJobs
  /\ asked' = Append(asked, r)
  /\ Go(p, IF clone = "absent" THEN "clone" ELSE "start")
  /\ UNCHANGED <<job, starting, disk, github, kills, settled, refused>>

\* The next request, and whether it finds the folder.
Take(p, r) ==
  /\ At(p, "idle")
  /\ Len(asked) < MaxJobs
  /\ asked' = Append(asked, r)
  /\ job' = [job EXCEPT ![p] = Len(asked) + 1]
  /\ Go(p, IF clone = "absent" THEN "clone" ELSE "start")
  /\ UNCHANGED <<starting, disk, github, kills, settled, refused>>

\* git clone makes the folder, and refuses one that has been made meanwhile.
CloneBegin(p) ==
  /\ At(p, "clone")
  /\ \/ /\ clone = "absent"
        /\ clone' = "unfinished"
        /\ Go(p, "cloning")
        /\ UNCHANGED <<job, settled>>
     \/ /\ clone # "absent"
        /\ EndJob(p)
        /\ UNCHANGED clone
  /\ UNCHANGED <<starting, asked, head, local, commits, tree, lock, github, kills,
                 refused>>

\* git clone succeeds; or fails and removes the folder; or is killed when the
\* job's context expires, and cannot.
CloneEnd(p) ==
  /\ At(p, "cloning")
  /\ \/ /\ Go(p, "configure")
        /\ UNCHANGED <<clone, job, settled>>
     \/ /\ clone' \in {"absent", "unfinished"}
        /\ EndJob(p)
  /\ UNCHANGED <<starting, asked, head, local, commits, tree, lock, github, kills,
                 refused>>

\* git config exits with 1 for a key that is not set, so that cloneRepo returns
\* the error before it sets the key.  The context may expire as well.
Configure(p) ==
  /\ At(p, "configure")
  /\ \/ /\ ConfiguredGlobally
        /\ Go(p, "addRemote")
        /\ UNCHANGED <<job, settled>>
     \/ EndJob(p)
  /\ UNCHANGED <<starting, asked, disk, github, kills, refused>>

AddRemote(p) ==
  /\ At(p, "addRemote")
  /\ \/ /\ clone' = "ready"
        /\ Go(p, "start")
        /\ UNCHANGED <<job, settled>>
     \/ /\ EndJob(p)
        /\ UNCHANGED clone
  /\ UNCHANGED <<starting, asked, head, local, commits, tree, lock, github, kills,
                 refused>>

-----------------------------------------------------------------------------
(* cherry-pick.sh.  errexit ends it at the first command that fails, and    *)
(* the trap do_cleanup runs in any case.                                    *)

\* Without the remote "upstream" the script ends here.
ScriptStart(p) ==
  /\ At(p, "start")
  /\ starting' = [starting EXCEPT ![p] = head]
  /\ Go(p, IF clone = "ready" THEN "status" ELSE "restore")
  /\ UNCHANGED <<job, asked, disk, github, kills, settled, refused>>

CheckStatus(p) ==
  /\ At(p, "status")
  /\ Go(p, IF tree = "clean" THEN "update" ELSE "restore")
  /\ refused' = IF tree = "clean" THEN refused ELSE refused + 1
  /\ UNCHANGED <<job, starting, asked, disk, github, kills, settled>>

\* GitHub cannot be reached, or the release branch does not exist.
UpdateRemotes(p) ==
  /\ At(p, "update")
  /\ \/ Go(p, "create")
     \/ Go(p, "restore")
  /\ UNCHANGED <<job, starting, asked, disk, github, kills, settled, refused>>

\* The script makes its branch from whatever is checked out.
MutantCreateBranch(p) ==
  /\ At(p, "create")
  /\ ~lock /\ tree = "clean"
  /\ local' = local \cup {job[p]}
  /\ commits' = [commits EXCEPT ![job[p]] = commits[head]]
  /\ head' = job[p]
  /\ Go(p, "pick")
  /\ UNCHANGED <<job, starting, asked, clone, tree, lock, github, kills, settled,
                 refused>>

\* git checkout -b NEWBRANCHUNIQ upstream/release: a new branch without picks.
CreateBranch(p) ==
  /\ At(p, "create")
  /\ \/ /\ ~lock /\ tree = "clean"
        /\ local' = local \cup {job[p]}
        /\ commits' = [commits EXCEPT ![job[p]] = {}]
        /\ head' = job[p]
        /\ Go(p, "pick")
     \/ /\ lock \/ tree # "clean"
        /\ Go(p, "restore")
        /\ UNCHANGED <<local, commits, head>>
  /\ UNCHANGED <<job, starting, asked, clone, tree, lock, github, kills, settled,
                 refused>>

\* git cherry-pick commits to the branch that is checked out.  It may conflict,
\* or fail before it changes anything.
Pick(p) ==
  /\ At(p, "pick")
  /\ \/ /\ ~lock /\ tree = "clean"
        /\ commits' = [commits EXCEPT ![head] = @ \cup {Request(p)}]
        /\ Go(p, "push")
        /\ UNCHANGED tree
     \/ /\ ~lock /\ tree = "clean"
        /\ tree' = "conflict"
        /\ Go(p, "abort")
        /\ UNCHANGED commits
     \/ /\ Go(p, "abort")
        /\ UNCHANGED <<tree, commits>>
  /\ UNCHANGED <<job, starting, asked, clone, head, local, lock, github, kills,
                 settled, refused>>

\* The push overwrites a branch that is there.
MutantPush(p) ==
  /\ At(p, "push")
  /\ \/ /\ pushed' = pushed \cup {BranchOf[Request(p)]}
        /\ remote' = [remote EXCEPT ![BranchOf[Request(p)]] = commits[job[p]]]
        /\ \/ Go(p, "makePR")
           \/ Go(p, "restore")
     \/ /\ Go(p, "restore")
        /\ UNCHANGED <<pushed, remote>>
  /\ UNCHANGED <<job, starting, asked, disk, proposed, kills, settled, refused>>

\* git push creates the remote branch and does not overwrite one.  A push that
\* arrives may still be reported as failed.
Push(p) ==
  /\ At(p, "push")
  /\ \/ /\ BranchOf[Request(p)] \notin pushed
        /\ pushed' = pushed \cup {BranchOf[Request(p)]}
        /\ remote' = [remote EXCEPT ![BranchOf[Request(p)]] = commits[job[p]]]
        /\ \/ Go(p, "makePR")
           \/ Go(p, "restore")
     \/ /\ Go(p, "restore")
        /\ UNCHANGED <<pushed, remote>>
  /\ UNCHANGED <<job, starting, asked, disk, proposed, kills, settled, refused>>

\* GitHub opens no pull request for a branch without commits of its own.
MakePR(p) ==
  /\ At(p, "makePR")
  /\ \/ /\ remote[BranchOf[Request(p)]] # {}
        /\ proposed' = proposed \cup {Request(p)}
     \/ UNCHANGED proposed
  /\ Go(p, "restore")
  /\ UNCHANGED <<job, starting, asked, disk, pushed, remote, kills, settled, refused>>

\* do_cleanup: git cherry-pick --abort, if gitcleanup is set.
Abort(p) ==
  /\ At(p, "abort")
  /\ tree' = IF lock THEN tree ELSE "clean"
  /\ Go(p, "restore")
  /\ UNCHANGED <<job, starting, asked, clone, head, local, commits, lock, github,
                 kills, settled, refused>>

\* git checkout without -f refuses a tree with conflicts.
MutantRestore(p) ==
  /\ At(p, "restore")
  /\ \/ /\ ~lock /\ tree = "clean" /\ starting[p] \in local \cup {Master}
        /\ head' = starting[p]
     \/ UNCHANGED head
  /\ Go(p, "delete")
  /\ UNCHANGED <<job, starting, asked, clone, local, commits, tree, lock, github,
                 kills, settled, refused>>

\* do_cleanup: git checkout -f STARTINGBRANCH, whose failure is ignored.
Restore(p) ==
  /\ At(p, "restore")
  /\ \/ /\ ~lock /\ starting[p] \in local \cup {Master}
        /\ head' = starting[p]
        /\ tree' = "clean"
     \/ /\ lock \/ starting[p] \notin local \cup {Master}
        /\ UNCHANGED <<head, tree>>
  /\ Go(p, "delete")
  /\ UNCHANGED <<job, starting, asked, clone, local, commits, lock, github, kills,
                 settled, refused>>

\* The cleanup deletes the branch while it is still checked out.
MutantDelete(p) ==
  /\ At(p, "delete")
  /\ Go(p, "back")
  /\ UNCHANGED <<job, starting, asked, disk, github, kills, settled, refused>>

\* do_cleanup: git branch -D cleanbranch refuses the branch checked out.
Delete(p) ==
  /\ At(p, "delete")
  /\ local' = local \ ({job[p]} \ {head})
  /\ Go(p, "back")
  /\ UNCHANGED <<job, starting, asked, clone, head, commits, tree, lock, github,
                 kills, settled, refused>>

\* returnToMaster runs git checkout master under the job's context, which may
\* have expired since: the script is not bound by it.
ReturnToMaster(p) ==
  /\ At(p, "back")
  /\ \/ /\ ~lock /\ tree = "clean"
        /\ head' = Master
     \/ UNCHANGED head
  /\ EndJob(p)
  /\ UNCHANGED <<starting, asked, clone, local, commits, tree, lock, github, kills,
                 refused>>

-----------------------------------------------------------------------------
(* A process is killed with its script and git, and another one takes its   *)
(* place.  git leaves index.lock if it held it.                             *)
Kill(p) ==
  /\ kills < MaxKills
  /\ ~At(p, "idle")
  /\ kills' = kills + 1
  /\ lock' \in {lock, lock \/ pc[p] \in IndexSteps}
  /\ pc' = [pc EXCEPT ![p] = "idle"]
  /\ job' = [job EXCEPT ![p] = 0]
  /\ settled' = FALSE
  /\ UNCHANGED <<starting, asked, clone, head, local, commits, tree, github, refused>>

CloneRepo(p) == CloneBegin(p) \/ CloneEnd(p) \/ Configure(p) \/ AddRemote(p)

CherryPickScript(p) ==
  \/ ScriptStart(p) \/ CheckStatus(p) \/ UpdateRemotes(p) \/ CreateBranch(p)
  \/ Pick(p) \/ Push(p) \/ MakePR(p)
  \/ Abort(p) \/ Restore(p) \/ Delete(p)

Next ==
  \E p \in Processes :
    \/ \E r \in Requests : Take(p, r)
    \/ CloneRepo(p)
    \/ CherryPickScript(p)
    \/ ReturnToMaster(p)
    \/ Kill(p)

Spec == Init /\ [][Next]_vars

-----------------------------------------------------------------------------
(* Every variable has its type.                                             *)
TypeOK ==
  /\ pc \in [Processes -> {"idle", "back"} \cup CloneSteps \cup ScriptSteps]
  /\ job \in [Processes -> Nat]
  /\ \A p \in Processes : pc[p] # "idle" => job[p] \in 1..Len(asked)
  /\ starting \in [Processes -> LocalBranches]
  /\ asked \in Seq(Requests) /\ Len(asked) <= MaxJobs
  /\ clone \in {"absent", "unfinished", "ready"}
  /\ head \in LocalBranches
  /\ local \subseteq Jobs
  /\ commits \in [LocalBranches -> SUBSET Requests]
  /\ tree \in {"clean", "conflict"}
  /\ lock \in BOOLEAN
  /\ pushed \subseteq Branches
  /\ remote \in [Branches -> SUBSET Requests]
  /\ proposed \subseteq Requests
  /\ kills \in 0..MaxKills
  /\ settled \in BOOLEAN
  /\ refused \in Nat

\* A pull request opened for a cherry pick brings the commit it was asked for
\* and no other onto the release branch, whatever branch and tree the scripts
\* before it left in the clone (cherry-pick.sh:111).
ProposedIsThePick ==
  \A r \in proposed : remote[BranchOf[r]] = {r}

\* The clone heals: a tree that a killed script left dirty costs one request
\* (cherry-pick.sh:122), whose cleanup clears it, unless git left its lock.
DirtyOncePerKill ==
  lock \/ refused <= kills

\* Between requests the tree is clean, and no branch is left but at most one for
\* each kill; without kills master is checked out.
RestsClean ==
  (settled /\ ~lock /\ \A p \in Processes : pc[p] = "idle") =>
     /\ tree = "clean"
     /\ Cardinality(local) <= kills
     /\ kills = 0 => head = Master

-----------------------------------------------------------------------------
\* The requests whose script is between its push and its pull request.
Open == {Request(p) : p \in {q \in Processes : At(q, "makePR")}}

Script == INSTANCE PickScript
            WITH BranchFor <- BranchOf, branches <- pushed, open <- Open

\* To GitHub every job is one of PickScript, wherever it fails or is killed and
\* whoever else uses the clone: it pushes a branch that is not there yet, and
\* proposes it next or never, also not when the request comes again
\* (cherry-pick.sh:203-204).
ImplementsScript == Script!ScriptSpec
=============================================================================
