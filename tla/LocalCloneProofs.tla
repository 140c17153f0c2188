-------------------------- MODULE LocalCloneProofs --------------------------
(* Theorems about LocalClone, for any requests and any number of kills.     *)
EXTENDS LocalClone, FiniteSetTheorems, TLAPS

USE DEF At, Go, EndJob, process, disk, github, Master, Jobs, LocalBranches,
        CloneSteps, ScriptSteps

\* Outside a rolling update one process mounts the volume.
Alone == \A p, q \in Processes : p = q

\* Whatever happens is a step of one process.
Step(p) ==
  \/ \E r \in Requests : Take(p, r)
  \/ CloneRepo(p)
  \/ CherryPickScript(p)
  \/ ReturnToMaster(p)
  \/ Kill(p)

LEMMA NextIsStep == Next <=> \E p \in Processes : Step(p)
  BY DEF Next, Step

\* The request of a process that works on one.
LEMMA RequestType ==
  ASSUME TypeOK, NEW p \in Processes, pc[p] # "idle"
  PROVE  job[p] \in 1..Len(asked) /\ job[p] \in Jobs /\ Request(p) \in Requests
         /\ BranchOf[Request(p)] \in Branches
<1>1. job[p] \in 1..Len(asked) /\ asked \in Seq(Requests) /\ Len(asked) <= MaxJobs
  BY DEF TypeOK
<1>2. Len(asked) \in Nat /\ job[p] \in Jobs
  BY <1>1, MaxJobsAssumption
<1>3. Request(p) \in Requests
  BY <1>1 DEF Request
<1> QED
  BY <1>1, <1>2, <1>3 DEF Branches

-----------------------------------------------------------------------------
(* Types.                                                                   *)

\* Where the processes are, and what they work on.
WorkOK ==
  /\ pc \in [Processes -> {"idle", "back"} \cup CloneSteps \cup ScriptSteps]
  /\ job \in [Processes -> Nat]
  /\ \A p \in Processes : pc[p] # "idle" => job[p] \in 1..Len(asked)

LEMMA EndJobType ==
  ASSUME WorkOK, NEW p \in Processes, EndJob(p), UNCHANGED asked
  PROVE  WorkOK' /\ settled' \in BOOLEAN
BY DEF WorkOK

LEMMA GoType ==
  ASSUME WorkOK, NEW p \in Processes, pc[p] # "idle",
         NEW there \in {"back"} \cup CloneSteps \cup ScriptSteps,
         Go(p, there), UNCHANGED <<job, asked>>
  PROVE  WorkOK'
BY DEF WorkOK

LEMMA TypeClone ==
  ASSUME TypeOK, NEW p \in Processes,
         (\E r \in Requests : Take(p, r)) \/ CloneRepo(p)
  PROVE  TypeOK'
<1>1. ASSUME NEW r \in Requests, Take(p, r)
      PROVE  TypeOK'
  <2>1. asked' \in Seq(Requests) /\ Len(asked') = Len(asked) + 1 /\ Len(asked) \in Nat
    BY <1>1 DEF Take, TypeOK
  <2> QED
    BY <1>1, <2>1, MaxJobsAssumption DEF Take, TypeOK
<1>2. ASSUME CloneRepo(p)
      PROVE  TypeOK'
  <2>1. WorkOK' /\ settled' \in BOOLEAN
    <3>1. WorkOK
      BY DEF TypeOK, WorkOK
    <3>2. \/ EndJob(p)
          \/ /\ \E there \in {"cloning", "configure", "addRemote", "start"} : Go(p, there)
             /\ UNCHANGED <<job, settled>>
      <4>1. CASE CloneBegin(p)
        BY <4>1 DEF CloneBegin
      <4>2. CASE CloneEnd(p)
        BY <4>2 DEF CloneEnd
      <4>3. CASE Configure(p)
        BY <4>3, ConfiguredAssumption DEF Configure
      <4>4. CASE AddRemote(p)
        BY <4>4 DEF AddRemote
      <4> QED
        BY <1>2, <4>1, <4>2, <4>3, <4>4 DEF CloneRepo
    <3>3. pc[p] # "idle" /\ asked' = asked
      BY <1>2 DEF CloneRepo, CloneBegin, CloneEnd, Configure, AddRemote
    <3> HIDE DEF EndJob, Go
    <3> QED
      BY <3>1, <3>2, <3>3, EndJobType, GoType DEF TypeOK
  <2>2. clone' \in {"absent", "unfinished", "ready"}
    BY <1>2 DEF CloneRepo, CloneBegin, CloneEnd, Configure, AddRemote, TypeOK
  <2>3. UNCHANGED <<starting, asked, head, local, commits, tree, lock, github, kills,
                    refused>>
    BY <1>2 DEF CloneRepo, CloneBegin, CloneEnd, Configure, AddRemote
  <2> QED
    BY <2>1, <2>2, <2>3 DEF TypeOK, WorkOK
<1> QED
  BY <1>1, <1>2

LEMMA TypeScript ==
  ASSUME TypeOK, NEW p \in Processes, CherryPickScript(p)
  PROVE  TypeOK'
<1>1. CASE ScriptStart(p)
  BY <1>1 DEF ScriptStart, TypeOK
<1>2. CASE CheckStatus(p)
  BY <1>2 DEF CheckStatus, TypeOK
<1>3. CASE UpdateRemotes(p)
  BY <1>3 DEF UpdateRemotes, TypeOK
<1>4. CASE CreateBranch(p)
  <2>1. job[p] \in Jobs /\ job[p] \in 1..Len(asked)
    BY <1>4, RequestType DEF CreateBranch
  <2>2. /\ local' \subseteq Jobs /\ head' \in LocalBranches
        /\ commits' \in [LocalBranches -> SUBSET Requests]
    <3>1. \/ UNCHANGED <<local, commits, head>>
          \/ /\ local' = local \cup {job[p]}
             /\ commits' = [commits EXCEPT ![job[p]] = {}]
             /\ head' = job[p]
      BY <1>4 DEF CreateBranch
    <3>2. local \subseteq Jobs /\ head \in LocalBranches
          /\ commits \in [LocalBranches -> SUBSET Requests]
      BY DEF TypeOK
    <3> QED
      BY <2>1, <3>1, <3>2
  <2>3. pc' \in [Processes -> {"idle", "back"} \cup CloneSteps \cup ScriptSteps]
        /\ \A q \in Processes : pc'[q] # "idle" => job[q] \in 1..Len(asked)
    BY <1>4, <2>1 DEF CreateBranch, TypeOK
  <2> QED
    BY <1>4, <2>2, <2>3 DEF CreateBranch, TypeOK
<1>5. CASE Pick(p)
  <2>1. Request(p) \in Requests
    BY <1>5, RequestType DEF Pick
  <2>2. commits \in [LocalBranches -> SUBSET Requests] /\ head \in LocalBranches
    BY DEF TypeOK
  <2>3. \/ UNCHANGED commits
        \/ commits' = [commits EXCEPT ![head] = @ \cup {Request(p)}]
    BY <1>5 DEF Pick
  <2>4. commits' \in [LocalBranches -> SUBSET Requests]
    BY <2>1, <2>2, <2>3
  <2>5. tree' \in {"clean", "conflict"}
    BY <1>5 DEF Pick, TypeOK
  <2>6. /\ pc[p] # "idle"
        /\ \E there \in {"push", "abort"} : pc' = [pc EXCEPT ![p] = there]
    BY <1>5 DEF Pick
  <2>7. /\ pc' \in [Processes -> {"idle", "back"} \cup CloneSteps \cup ScriptSteps]
        /\ \A q \in Processes : pc'[q] # "idle" => job[q] \in 1..Len(asked)
    BY <2>6 DEF TypeOK
  <2>8. UNCHANGED <<job, starting, asked, clone, head, local, lock, github, kills,
                    settled, refused>>
    BY <1>5 DEF Pick
  <2> QED
    BY <2>4, <2>5, <2>7, <2>8 DEF TypeOK
<1>6. CASE Push(p)
  <2>1. BranchOf[Request(p)] \in Branches /\ job[p] \in Jobs
    BY <1>6, RequestType DEF Push
  <2>2. pushed' \subseteq Branches /\ remote' \in [Branches -> SUBSET Requests]
    BY <1>6, <2>1 DEF Push, TypeOK
  <2>3. /\ pc[p] # "idle"
        /\ \E there \in {"makePR", "restore"} : pc' = [pc EXCEPT ![p] = there]
    BY <1>6 DEF Push
  <2>4. /\ pc' \in [Processes -> {"idle", "back"} \cup CloneSteps \cup ScriptSteps]
        /\ \A q \in Processes : pc'[q] # "idle" => job[q] \in 1..Len(asked)
    BY <2>3 DEF TypeOK
  <2>5. UNCHANGED <<job, starting, asked, disk, proposed, kills, settled, refused>>
    BY <1>6 DEF Push
  <2> QED
    BY <2>2, <2>4, <2>5 DEF TypeOK
<1>7. CASE MakePR(p)
  <2>1. Request(p) \in Requests
    BY <1>7, RequestType DEF MakePR
  <2> QED
    BY <1>7, <2>1 DEF MakePR, TypeOK
<1>8. CASE Abort(p)
  BY <1>8 DEF Abort, TypeOK
<1>9. CASE Restore(p)
  BY <1>9 DEF Restore, TypeOK
<1>10. CASE Delete(p)
  BY <1>10 DEF Delete, TypeOK
<1> QED
  BY <1>1, <1>2, <1>3, <1>4, <1>5, <1>6, <1>7, <1>8, <1>9, <1>10 DEF CherryPickScript

LEMMA TypeStep ==
  ASSUME TypeOK, [Next]_vars
  PROVE  TypeOK'
<1>1. ASSUME NEW p \in Processes, ReturnToMaster(p)
      PROVE  TypeOK'
  BY <1>1 DEF ReturnToMaster, TypeOK
<1>2. ASSUME NEW p \in Processes, Kill(p)
      PROVE  TypeOK'
  <2>1. kills' \in 0..MaxKills /\ settled' = FALSE
    BY <1>2, MaxKillsAssumption DEF Kill, TypeOK
  <2>3. lock' \in BOOLEAN
    <3>1. lock \in BOOLEAN /\ (lock \/ pc[p] \in IndexSteps) \in BOOLEAN
      BY DEF TypeOK
    <3> QED
      BY <1>2, <3>1 DEF Kill
  <2>2. /\ pc' \in [Processes -> {"idle", "back"} \cup CloneSteps \cup ScriptSteps]
        /\ job' \in [Processes -> Nat]
        /\ \A q \in Processes : pc'[q] # "idle" => job'[q] \in 1..Len(asked)
    BY <1>2 DEF Kill, TypeOK
  <2> QED
    BY <1>2, <2>1, <2>2, <2>3 DEF Kill, TypeOK
<1>3. CASE UNCHANGED vars
  BY <1>3 DEF vars, TypeOK
<1> QED
  BY <1>1, <1>2, <1>3, TypeClone, TypeScript, NextIsStep DEF Step

LEMMA TypeInit == Init => TypeOK
<1> SUFFICES ASSUME Init PROVE TypeOK
  OBVIOUS
<1>1. asked \in Seq(Requests) /\ Len(asked) = 0 /\ Len(asked) <= MaxJobs
  BY MaxJobsAssumption DEF Init
<1>2. pc = [p \in Processes |-> "idle"] /\ job = [p \in Processes |-> 0]
  BY DEF Init
<1>3. kills = 0 /\ 0 \in 0..MaxKills
  BY MaxKillsAssumption DEF Init
<1>4. \A p \in Processes : pc[p] # "idle" => job[p] \in 1..Len(asked)
  BY <1>2
<1>5. /\ pc \in [Processes -> {"idle", "back"} \cup CloneSteps \cup ScriptSteps]
      /\ job \in [Processes -> Nat]
  BY <1>2
<1> QED
  BY <1>1, <1>3, <1>4, <1>5 DEF Init, TypeOK

-----------------------------------------------------------------------------
(* What a pull request holds, while one process uses the clone.             *)

\* The branch that a script made is checked out until it has picked, and holds
\* nothing but its pick from then on; GitHub does not lose what was proposed.
PickInv ==
  /\ \A p \in Processes :
       /\ pc[p] = "pick" => head = job[p] /\ commits[job[p]] = {}
       /\ pc[p] = "push" => commits[job[p]] = {Request(p)}
       /\ pc[p] = "makePR" => /\ BranchOf[Request(p)] \in pushed
                              /\ remote[BranchOf[Request(p)]] = {Request(p)}
  /\ \A r \in proposed : BranchOf[r] \in pushed /\ remote[BranchOf[r]] = {r}

LEMMA PickStep ==
  ASSUME Alone, TypeOK, PickInv, [Next]_vars
  PROVE  PickInv'
<1>1. ASSUME NEW p \in Processes,
             pc'[p] \notin {"pick", "push", "makePR"}, UNCHANGED github
      PROVE  PickInv'
  BY <1>1 DEF PickInv, Alone
<1>2. ASSUME NEW p \in Processes,
             \/ \E r \in Requests : Take(p, r)
             \/ CloneRepo(p)
             \/ ScriptStart(p) \/ CheckStatus(p) \/ UpdateRemotes(p)
             \/ Abort(p) \/ Restore(p) \/ Delete(p) \/ ReturnToMaster(p) \/ Kill(p)
      PROVE  PickInv'
  <2>1. pc \in [Processes -> {"idle", "back"} \cup CloneSteps \cup ScriptSteps]
    BY DEF TypeOK
  <2>2. CASE \E r \in Requests : Take(p, r)
    BY <1>1, <2>1, <2>2 DEF Take
  <2>3. CASE CloneRepo(p)
    <3>1. pc'[p] \notin {"pick", "push", "makePR"} /\ UNCHANGED github
      <4>1. CASE CloneBegin(p)
        BY <2>1, <4>1 DEF CloneBegin
      <4>2. CASE CloneEnd(p)
        BY <2>1, <4>2 DEF CloneEnd
      <4>3. CASE Configure(p)
        BY <2>1, <4>3 DEF Configure
      <4>4. CASE AddRemote(p)
        BY <2>1, <4>4 DEF AddRemote
      <4> QED
        BY <2>3, <4>1, <4>2, <4>3, <4>4 DEF CloneRepo
    <3> QED
      BY <1>1, <3>1
  <2>4. CASE ScriptStart(p) \/ CheckStatus(p) \/ UpdateRemotes(p)
    BY <1>1, <2>1, <2>4 DEF ScriptStart, CheckStatus, UpdateRemotes
  <2>5. CASE Abort(p) \/ Restore(p) \/ Delete(p) \/ ReturnToMaster(p) \/ Kill(p)
    BY <1>1, <2>1, <2>5 DEF Abort, Restore, Delete, ReturnToMaster, Kill
  <2> QED
    BY <1>2, <2>2, <2>3, <2>4, <2>5
<1>3. ASSUME NEW p \in Processes, CreateBranch(p)
      PROVE  PickInv'
  <2>1. job[p] \in LocalBranches /\ commits \in [LocalBranches -> SUBSET Requests]
    BY <1>3, RequestType DEF CreateBranch, TypeOK
  <2>2. pc \in [Processes -> {"idle", "back"} \cup CloneSteps \cup ScriptSteps]
    BY DEF TypeOK
  <2>3. CASE pc'[p] = "restore"
    BY <1>1, <1>3, <2>3 DEF CreateBranch
  <2>4. CASE pc'[p] = "pick"
    BY <1>3, <2>1, <2>2, <2>4 DEF CreateBranch, PickInv, Alone
  <2> QED
    BY <1>3, <2>2, <2>3, <2>4 DEF CreateBranch
<1>4. ASSUME NEW p \in Processes, Pick(p)
      PROVE  PickInv'
  <2>1. job[p] \in LocalBranches /\ commits \in [LocalBranches -> SUBSET Requests]
    BY <1>4, RequestType DEF Pick, TypeOK
  <2>2. pc \in [Processes -> {"idle", "back"} \cup CloneSteps \cup ScriptSteps]
    BY DEF TypeOK
  <2>3. CASE pc'[p] = "abort"
    BY <1>1, <1>4, <2>3 DEF Pick
  <2>4. CASE pc'[p] = "push" /\ commits' = [commits EXCEPT ![head] = @ \cup {Request(p)}]
    <3>1. commits'[job[p]] = {Request(p)}
      BY <1>4, <2>1, <2>4 DEF Pick, PickInv
    <3>2. Request(p)' = Request(p) /\ job' = job
      BY <1>4 DEF Pick, Request
    <3> QED
      BY <1>4, <2>4, <3>1, <3>2 DEF Pick, PickInv, Alone
  <2> QED
    BY <1>4, <2>2, <2>3, <2>4 DEF Pick
<1>5. ASSUME NEW p \in Processes, Push(p)
      PROVE  PickInv'
  <2> DEFINE b == BranchOf[Request(p)]
  <2>1. pc \in [Processes -> {"idle", "back"} \cup CloneSteps \cup ScriptSteps]
        /\ remote \in [Branches -> SUBSET Requests] /\ b \in Branches
    BY <1>5, RequestType DEF Push, TypeOK
  <2>2. CASE UNCHANGED github
    <3>1. pc'[p] = "restore"
      BY <1>5, <2>1, <2>2 DEF Push
    <3> QED
      BY <1>1, <2>2, <3>1
  <2>3. CASE /\ b \notin pushed /\ pushed' = pushed \cup {b}
             /\ remote' = [remote EXCEPT ![b] = commits[job[p]]]
    <3>1. Request(p)' = Request(p)
      BY <1>5 DEF Push, Request
    <3>2. remote'[b] = {Request(p)}
      BY <1>5, <2>1, <2>3 DEF Push, PickInv
    <3>3. \A r \in proposed' : BranchOf[r] \in pushed' /\ remote'[BranchOf[r]] = {r}
      BY <1>5, <2>1, <2>3 DEF Push, PickInv, TypeOK, Branches
    <3>4. pc'[p] \in {"makePR", "restore"}
      BY <1>5, <2>1 DEF Push
    <3> QED
      BY <2>3, <3>1, <3>2, <3>3, <3>4 DEF PickInv, Alone
  <2> QED
    BY <1>5, <2>2, <2>3 DEF Push
<1>6. ASSUME NEW p \in Processes, MakePR(p)
      PROVE  PickInv'
  <2>1. pc'[p] = "restore" /\ UNCHANGED <<pushed, remote>>
    BY <1>6 DEF MakePR, TypeOK
  <2>2. proposed' \subseteq proposed \cup {Request(p)}
    BY <1>6 DEF MakePR
  <2>3. \A r \in proposed' : BranchOf[r] \in pushed' /\ remote'[BranchOf[r]] = {r}
    BY <1>6, <2>1, <2>2 DEF MakePR, PickInv
  <2> QED
    BY <2>1, <2>3 DEF PickInv, Alone
<1>7. CASE UNCHANGED vars
  BY <1>7 DEF vars, PickInv, Request
<1> QED
  BY <1>2, <1>3, <1>4, <1>5, <1>6, <1>7, NextIsStep DEF Step, CherryPickScript

\* Every variable of the clone and of the processes has its type, for any
\* number of processes.
THEOREM TypeCorrect == Spec => []TypeOK
<1> QED
  BY TypeInit, TypeStep, PTL DEF Spec

\* While one process uses the volume, a pull request opened for a cherry pick
\* brings exactly the commit asked for, however often the process is killed and
\* whatever earlier scripts left in the clone (cherry-pick.sh:161-204).
THEOREM PickIsFaithful ==
  ASSUME Alone
  PROVE  Spec => []ProposedIsThePick
<1>1. Init => PickInv
  BY DEF Init, PickInv
<1>2. TypeOK /\ PickInv /\ [Next]_vars => PickInv'
  BY PickStep
<1>3. PickInv => ProposedIsThePick
  BY DEF PickInv, ProposedIsThePick
<1> QED
  BY <1>1, <1>2, <1>3, TypeInit, TypeStep, PTL DEF Spec

-----------------------------------------------------------------------------
(* What is left in the clone, while one process uses it.                    *)

\* From its start to its cleanup a script knows the branch to return to, which
\* is not its own.
Underway == {"status", "update", "create", "pick", "push", "makePR", "abort", "restore"}

\* Before a script has made its branch, and while it has not disturbed the tree.
Before == CloneSteps \cup {"start", "status", "update", "create"}
Working == {"update", "create", "pick", "push", "makePR"}

BranchInv ==
  /\ local \subseteq 1..Len(asked)
  /\ head \in local \cup {Master}
  /\ \A p \in Processes :
       /\ pc[p] \in Underway =>
            starting[p] \in local \cup {Master} /\ starting[p] # job[p]
       /\ pc[p] \in Before => job[p] \notin local
       /\ ~lock /\ pc[p] = "delete" => head # job[p]
       /\ ~lock /\ pc[p] = "back" => job[p] \notin local

TreeInv ==
  /\ clone # "ready" => tree = "clean"
  /\ \A p \in Processes :
       /\ pc[p] \in CloneSteps => clone # "ready"
       /\ pc[p] \in Underway \ {"restore"} => clone = "ready"
       /\ pc[p] \in Working => tree = "clean"
       /\ ~lock /\ pc[p] \in {"delete", "back"} => tree = "clean"
       /\ ~lock /\ settled /\ pc[p] = "idle" => tree = "clean"

DirtyInv ==
  ~lock => /\ refused <= kills
           /\ (tree # "clean" /\ \A p \in Processes : pc[p] \notin {"abort", "restore"})
                 => refused < kills

HeadInv ==
  kills = 0 =>
    /\ ~lock
    /\ \A p \in Processes :
         /\ pc[p] \in Underway => starting[p] = Master
         /\ pc[p] \in {"idle", "delete", "back"} \cup Before => head = Master

LEMMA BranchStep ==
  ASSUME Alone, TypeOK, BranchInv, [Next]_vars
  PROVE  BranchInv'
<1>t. /\ pc \in [Processes -> {"idle", "back"} \cup CloneSteps \cup ScriptSteps]
      /\ job \in [Processes -> Nat] /\ Len(asked) \in Nat /\ asked \in Seq(Requests)
      /\ starting \in [Processes -> LocalBranches] /\ lock \in BOOLEAN
  BY DEF TypeOK
<1> USE DEF BranchInv, Alone, Underway, Before
<1>1. ASSUME NEW p \in Processes, NEW r \in Requests, Take(p, r)
      PROVE  BranchInv'
  <2>1. Len(asked') = Len(asked) + 1 /\ Len(asked) + 1 \notin local
    BY <1>1, <1>t DEF Take
  <2>2. local' \subseteq 1..Len(asked') /\ head' \in local' \cup {Master}
    BY <1>1, <1>t, <2>1 DEF Take
  <2>3. job'[p] \notin local' /\ pc'[p] \in {"clone", "start"}
    BY <1>1, <1>t, <2>1 DEF Take
  <2> QED
    BY <2>2, <2>3
<1>2. ASSUME NEW p \in Processes, CloneRepo(p)
      PROVE  BranchInv'
  <2>1. UNCHANGED <<starting, asked, head, local, lock>> /\ pc[p] \in CloneSteps
    BY <1>2 DEF CloneRepo, CloneBegin, CloneEnd, Configure, AddRemote
  <2>2. pc'[p] = "idle" \/ (pc'[p] \in {"cloning", "configure", "addRemote", "start"}
                             /\ job'[p] = job[p])
    BY <1>2, <1>t, ConfiguredAssumption
       DEF CloneRepo, CloneBegin, CloneEnd, Configure, AddRemote
  <2> QED
    BY <2>1, <2>2
<1>3. ASSUME NEW p \in Processes,
             ScriptStart(p) \/ CheckStatus(p) \/ UpdateRemotes(p)
      PROVE  BranchInv'
  <2>1. UNCHANGED <<job, asked, head, local, lock>>
    BY <1>3 DEF ScriptStart, CheckStatus, UpdateRemotes
  <2>2. head # job[p]
    BY <1>3, <1>t, RequestType DEF ScriptStart, CheckStatus, UpdateRemotes
  <2>3. CASE ScriptStart(p)
    <3>1. starting'[p] = head /\ pc'[p] \in {"status", "restore"} /\ pc[p] = "start"
      BY <1>t, <2>3 DEF ScriptStart
    <3> QED
      BY <2>1, <2>2, <3>1, <1>t
  <2>4. CASE CheckStatus(p) \/ UpdateRemotes(p)
    <3>1. starting' = starting /\ pc'[p] \in {"update", "create", "restore"}
          /\ pc[p] \in {"status", "update"}
      BY <1>t, <2>4 DEF CheckStatus, UpdateRemotes
    <3> QED
      BY <2>1, <3>1, <1>t
  <2> QED
    BY <1>3, <2>3, <2>4
<1>4. ASSUME NEW p \in Processes, CreateBranch(p)
      PROVE  BranchInv'
  <2>1. UNCHANGED <<job, asked, starting, lock>> /\ pc[p] = "create"
    BY <1>4 DEF CreateBranch
  <2>2. job[p] \in 1..Len(asked)
    BY <1>4, RequestType DEF CreateBranch
  <2>3. \/ pc'[p] = "pick" /\ local' = local \cup {job[p]} /\ head' = job[p]
        \/ pc'[p] = "restore" /\ local' = local /\ head' = head
    BY <1>4, <1>t DEF CreateBranch
  <2> QED
    BY <2>1, <2>2, <2>3, <1>t
<1>5. ASSUME NEW p \in Processes, Pick(p) \/ Push(p) \/ MakePR(p) \/ Abort(p)
      PROVE  BranchInv'
  <2>1. UNCHANGED <<job, asked, starting, lock, head, local>>
    BY <1>5 DEF Pick, Push, MakePR, Abort
  <2>2. pc'[p] \in {"push", "abort", "makePR", "restore"} /\ pc[p] \in Underway
    BY <1>5, <1>t DEF Pick, Push, MakePR, Abort
  <2> QED
    BY <2>1, <2>2, <1>t
<1>6. ASSUME NEW p \in Processes, Restore(p)
      PROVE  BranchInv'
  <2>1. UNCHANGED <<job, asked, starting, lock, local>> /\ pc'[p] = "delete"
        /\ pc[p] = "restore"
    BY <1>6, <1>t DEF Restore
  <2>2. head' = starting[p] \/ (head' = head /\ (lock \/ starting[p] \notin local \cup {Master}))
    BY <1>6 DEF Restore
  <2> QED
    BY <2>1, <2>2, <1>t
<1>7. ASSUME NEW p \in Processes, Delete(p)
      PROVE  BranchInv'
  <2>1. UNCHANGED <<job, asked, starting, lock, head>> /\ pc'[p] = "back"
        /\ pc[p] = "delete" /\ local' = local \ ({job[p]} \ {head})
    BY <1>7, <1>t DEF Delete
  <2> QED
    BY <2>1, <1>t
<1>8. ASSUME NEW p \in Processes, ReturnToMaster(p) \/ Kill(p)
      PROVE  BranchInv'
  <2>1. UNCHANGED <<asked, local>> /\ pc'[p] = "idle" /\ head' \in {head, Master}
    BY <1>8, <1>t DEF ReturnToMaster, Kill
  <2> QED
    BY <2>1, <1>t
<1>9. CASE UNCHANGED vars
  BY <1>9 DEF vars
<1> HIDE DEF BranchInv
<1> QED
  BY <1>1, <1>2, <1>3, <1>4, <1>5, <1>6, <1>7, <1>8, <1>9, NextIsStep
     DEF Step, CherryPickScript

LEMMA TreeStep ==
  ASSUME Alone, TypeOK, BranchInv, TreeInv, [Next]_vars
  PROVE  TreeInv'
<1>t. /\ pc \in [Processes -> {"idle", "back"} \cup CloneSteps \cup ScriptSteps]
      /\ lock \in BOOLEAN /\ tree \in {"clean", "conflict"}
      /\ clone \in {"absent", "unfinished", "ready"}
  BY DEF TypeOK
<1> USE DEF TreeInv, Alone, Underway, Working
<1>1. ASSUME NEW p \in Processes, NEW r \in Requests, Take(p, r)
      PROVE  TreeInv'
  BY <1>1, <1>t DEF Take
<1>2. ASSUME NEW p \in Processes, CloneRepo(p)
      PROVE  TreeInv'
  <2>1. UNCHANGED <<tree, lock>> /\ clone # "ready" /\ pc[p] \in CloneSteps
    BY <1>2 DEF CloneRepo, CloneBegin, CloneEnd, Configure, AddRemote
  <2>2. \/ pc'[p] \in {"cloning", "configure", "addRemote", "idle"} /\ clone' # "ready"
        \/ pc'[p] = "start"
    BY <1>2, <1>t, <2>1, ConfiguredAssumption
       DEF CloneRepo, CloneBegin, CloneEnd, Configure, AddRemote
  <2> QED
    BY <2>1, <2>2
<1>3. ASSUME NEW p \in Processes,
             ScriptStart(p) \/ CheckStatus(p) \/ UpdateRemotes(p)
      PROVE  TreeInv'
  BY <1>3, <1>t DEF ScriptStart, CheckStatus, UpdateRemotes
<1>4. ASSUME NEW p \in Processes, CreateBranch(p)
      PROVE  TreeInv'
  BY <1>4, <1>t DEF CreateBranch
<1>5. ASSUME NEW p \in Processes, Pick(p)
      PROVE  TreeInv'
  BY <1>5, <1>t DEF Pick
<1>6. ASSUME NEW p \in Processes, Push(p) \/ MakePR(p)
      PROVE  TreeInv'
  BY <1>6, <1>t DEF Push, MakePR
<1>7. ASSUME NEW p \in Processes, Abort(p)
      PROVE  TreeInv'
  BY <1>7, <1>t DEF Abort
<1>8. ASSUME NEW p \in Processes, Restore(p)
      PROVE  TreeInv'
  <2>1. starting[p] \in local \cup {Master}
    BY <1>8 DEF Restore, BranchInv
  <2> QED
    BY <1>8, <1>t, <2>1 DEF Restore
<1>9. ASSUME NEW p \in Processes, Delete(p) \/ ReturnToMaster(p) \/ Kill(p)
      PROVE  TreeInv'
  <2>1. UNCHANGED <<clone, tree>> /\ pc'[p] \in {"idle", "back"} /\ (lock => lock')
    BY <1>9, <1>t DEF Delete, ReturnToMaster, Kill
  <2>2. \/ settled' = FALSE /\ pc'[p] = "idle"
        \/ pc[p] \in {"delete", "back"} /\ lock' = lock
    BY <1>9, <1>t DEF Delete, ReturnToMaster, Kill
  <2> QED
    BY <2>1, <2>2, <1>t
<1>10. CASE UNCHANGED vars
  BY <1>10 DEF vars
<1> HIDE DEF TreeInv
<1> QED
  BY <1>1, <1>2, <1>3, <1>4, <1>5, <1>6, <1>7, <1>8, <1>9, <1>10, NextIsStep
     DEF Step, CherryPickScript

LEMMA DirtyStep ==
  ASSUME Alone, TypeOK, BranchInv, TreeInv, DirtyInv, [Next]_vars
  PROVE  DirtyInv'
<1>t. /\ pc \in [Processes -> {"idle", "back"} \cup CloneSteps \cup ScriptSteps]
      /\ lock \in BOOLEAN /\ tree \in {"clean", "conflict"}
      /\ refused \in Nat /\ kills \in Nat
  BY DEF TypeOK
<1> USE DEF DirtyInv, Alone
<1>1. ASSUME NEW p \in Processes, UNCHANGED <<tree, lock, refused, kills>>,
             pc[p] \notin {"abort", "restore"}
      PROVE  DirtyInv'
  BY <1>1, <1>t
<1>2. ASSUME NEW p \in Processes, NEW r \in Requests, Take(p, r)
      PROVE  DirtyInv'
  BY <1>1, <1>2 DEF Take
<1>3. ASSUME NEW p \in Processes, CloneRepo(p)
      PROVE  DirtyInv'
  <2>1. UNCHANGED <<tree, lock, refused, kills>> /\ pc[p] \in CloneSteps
    BY <1>3 DEF CloneRepo, CloneBegin, CloneEnd, Configure, AddRemote
  <2> QED
    BY <1>1, <2>1
<1>4. ASSUME NEW p \in Processes,
             ScriptStart(p) \/ UpdateRemotes(p) \/ CreateBranch(p) \/ Push(p)
               \/ MakePR(p) \/ Delete(p) \/ ReturnToMaster(p)
      PROVE  DirtyInv'
  BY <1>1, <1>4 DEF ScriptStart, UpdateRemotes, CreateBranch, Push, MakePR, Delete,
                    ReturnToMaster
<1>5. ASSUME NEW p \in Processes, CheckStatus(p)
      PROVE  DirtyInv'
  <2>1. UNCHANGED <<tree, lock, kills>> /\ pc[p] = "status"
    BY <1>5 DEF CheckStatus
  <2>2. \/ tree = "clean" /\ refused' = refused
        \/ tree # "clean" /\ refused' = refused + 1 /\ pc'[p] = "restore"
    BY <1>5, <1>t DEF CheckStatus
  <2> QED
    BY <2>1, <2>2, <1>t
<1>6. ASSUME NEW p \in Processes, Pick(p)
      PROVE  DirtyInv'
  BY <1>6, <1>t DEF Pick, TreeInv, Working
<1>7. ASSUME NEW p \in Processes, Abort(p) \/ Restore(p)
      PROVE  DirtyInv'
  <2>1. UNCHANGED <<lock, refused, kills>>
    BY <1>7 DEF Abort, Restore
  <2>2. ~lock => tree' = "clean"
    BY <1>7 DEF Abort, Restore, BranchInv, Underway
  <2> QED
    BY <2>1, <2>2, <1>t
<1>8. ASSUME NEW p \in Processes, Kill(p)
      PROVE  DirtyInv'
  <2>1. kills' = kills + 1 /\ UNCHANGED refused /\ (lock => lock')
    BY <1>8, <1>t DEF Kill
  <2>2. ~lock' => refused' <= kills' /\ refused' < kills'
    <3> SUFFICES ASSUME ~lock' PROVE refused <= kills + 1 /\ refused < kills + 1
      BY <2>1
    <3>1. refused <= kills
      BY <2>1
    <3> QED
      BY <3>1, <1>t
  <2> QED
    BY <2>2
<1>9. CASE UNCHANGED vars
  BY <1>9 DEF vars
<1> HIDE DEF DirtyInv
<1> QED
  BY <1>2, <1>3, <1>4, <1>5, <1>6, <1>7, <1>8, <1>9, NextIsStep
     DEF Step, CherryPickScript

LEMMA HeadStep ==
  ASSUME Alone, TypeOK, BranchInv, TreeInv, HeadInv, [Next]_vars
  PROVE  HeadInv'
<1>t. /\ pc \in [Processes -> {"idle", "back"} \cup CloneSteps \cup ScriptSteps]
      /\ lock \in BOOLEAN /\ starting \in [Processes -> LocalBranches] /\ kills \in Nat
  BY DEF TypeOK
<1> USE DEF HeadInv, Alone, Underway, Before
<1>1. ASSUME NEW p \in Processes, NEW r \in Requests, Take(p, r)
      PROVE  HeadInv'
  BY <1>1, <1>t DEF Take
<1>2. ASSUME NEW p \in Processes, CloneRepo(p)
      PROVE  HeadInv'
  <2>1. UNCHANGED <<kills, lock, starting, head>> /\ pc[p] \in CloneSteps
    BY <1>2 DEF CloneRepo, CloneBegin, CloneEnd, Configure, AddRemote
  <2>2. pc'[p] \in {"cloning", "configure", "addRemote", "idle", "start"}
    BY <1>2, <1>t, ConfiguredAssumption
       DEF CloneRepo, CloneBegin, CloneEnd, Configure, AddRemote
  <2> QED
    BY <2>1, <2>2
<1>3. ASSUME NEW p \in Processes,
             ScriptStart(p) \/ CheckStatus(p) \/ UpdateRemotes(p)
      PROVE  HeadInv'
  BY <1>3, <1>t DEF ScriptStart, CheckStatus, UpdateRemotes
<1>4. ASSUME NEW p \in Processes,
             CreateBranch(p) \/ Pick(p) \/ Push(p) \/ MakePR(p) \/ Abort(p)
      PROVE  HeadInv'
  <2>1. UNCHANGED <<kills, lock, starting>> /\ pc[p] \in Underway
    BY <1>4 DEF CreateBranch, Pick, Push, MakePR, Abort
  <2>2. pc'[p] \in Underway \ {"status", "update", "create"}
    BY <1>4, <1>t DEF CreateBranch, Pick, Push, MakePR, Abort
  <2> QED
    BY <2>1, <2>2, <1>t
<1>5. ASSUME NEW p \in Processes, Restore(p)
      PROVE  HeadInv'
  BY <1>5, <1>t DEF Restore
<1>6. ASSUME NEW p \in Processes, Delete(p) \/ ReturnToMaster(p)
      PROVE  HeadInv'
  BY <1>6, <1>t DEF Delete, ReturnToMaster
<1>7. ASSUME NEW p \in Processes, Kill(p)
      PROVE  HeadInv'
  BY <1>7, <1>t DEF Kill
<1>8. CASE UNCHANGED vars
  BY <1>8 DEF vars
<1> HIDE DEF HeadInv
<1> QED
  BY <1>1, <1>2, <1>3, <1>4, <1>5, <1>6, <1>7, <1>8, NextIsStep
     DEF Step, CherryPickScript

-----------------------------------------------------------------------------
(* How many branches are left behind.                                       *)

\* Apart from the branch of the script that runs, one for each kill.
CountInv ==
  /\ IsFiniteSet(local)
  /\ ~lock => /\ \A p \in Processes :
                   pc[p] # "idle" => Cardinality(local \ {job[p]}) <= kills
              /\ (\A p \in Processes : pc[p] = "idle") => Cardinality(local) <= kills

\* Taking one branch away takes one off, at most.
LEMMA LessOne ==
  ASSUME NEW S, IsFiniteSet(S), NEW x
  PROVE  /\ Cardinality(S) \in Nat /\ Cardinality(S \ {x}) \in Nat
         /\ Cardinality(S) <= Cardinality(S \ {x}) + 1
         /\ Cardinality(S \ {x}) <= Cardinality(S)
BY FS_CardinalityType, FS_RemoveElement, FS_Subset

LEMMA CountStep ==
  ASSUME Alone, TypeOK, BranchInv, CountInv, [Next]_vars
  PROVE  CountInv'
<1>t. /\ pc \in [Processes -> {"idle", "back"} \cup CloneSteps \cup ScriptSteps]
      /\ job \in [Processes -> Nat] /\ lock \in BOOLEAN /\ kills \in Nat
      /\ Len(asked) \in Nat /\ asked \in Seq(Requests)
  BY DEF TypeOK
<1> USE DEF CountInv, Alone
<1>1. ASSUME NEW p \in Processes, UNCHANGED <<job, lock, kills>>,
             pc[p] # "idle", pc'[p] # "idle",
             local' \ {job[p]} \subseteq local \ {job[p]}
      PROVE  CountInv'
  <2>1. IsFiniteSet(local' \ {job[p]}) /\ IsFiniteSet(local \ {job[p]})
        /\ Cardinality(local' \ {job[p]}) <= Cardinality(local \ {job[p]})
    BY <1>1, FS_Subset
  <2>2. local' \subseteq (local' \ {job[p]}) \cup {job[p]}
    OBVIOUS
  <2>3. IsFiniteSet(local')
    BY <2>1, <2>2, FS_Singleton, FS_Union, FS_Subset
  <2>4. Cardinality(local' \ {job[p]}) \in Nat /\ Cardinality(local \ {job[p]}) \in Nat
    BY <2>1, FS_CardinalityType
  <2>5. ~lock => Cardinality(local' \ {job[p]}) <= kills
    <3> SUFFICES ASSUME ~lock PROVE Cardinality(local' \ {job[p]}) <= kills
      OBVIOUS
    <3>1. Cardinality(local \ {job[p]}) <= kills
      BY <1>1
    <3> QED
      BY <1>t, <2>1, <2>4, <3>1
  <2>6. \A q \in Processes : q = p
    OBVIOUS
  <2> QED
    BY <1>1, <2>3, <2>5, <2>6
<1>2. ASSUME NEW p \in Processes, UNCHANGED <<local, lock, kills>>,
             pc[p] # "idle", pc'[p] = "idle", ~lock => job[p] \notin local
      PROVE  CountInv'
  <2>1. ~lock => local \ {job[p]} = local
    BY <1>2
  <2> QED
    BY <1>2, <1>t, <2>1
<1>3. ASSUME NEW p \in Processes, NEW r \in Requests, Take(p, r)
      PROVE  CountInv'
  <2>1. UNCHANGED <<local, lock, kills>> /\ pc[p] = "idle"
    BY <1>3 DEF Take
  <2>2. Cardinality(local \ {job'[p]}) <= Cardinality(local)
        /\ Cardinality(local \ {job'[p]}) \in Nat /\ Cardinality(local) \in Nat
    BY LessOne
  <2>3. ~lock => Cardinality(local) <= kills
    BY <2>1
  <2>4. pc'[p] # "idle"
    BY <1>3, <1>t DEF Take
  <2>5. ~lock => Cardinality(local \ {job'[p]}) <= kills
    <3> SUFFICES ASSUME ~lock PROVE Cardinality(local \ {job'[p]}) <= kills
      OBVIOUS
    <3> QED
      BY <1>t, <2>2, <2>3
  <2>6. \A q \in Processes : q = p
    OBVIOUS
  <2> QED
    BY <2>1, <2>4, <2>5, <2>6
<1>4. ASSUME NEW p \in Processes, CloneRepo(p)
      PROVE  CountInv'
  <2>1. UNCHANGED <<local, lock, kills>> /\ pc[p] \in CloneSteps
    BY <1>4 DEF CloneRepo, CloneBegin, CloneEnd, Configure, AddRemote
  <2>2. \/ pc'[p] = "idle"
        \/ job' = job /\ pc'[p] # "idle"
    BY <1>4, <1>t, ConfiguredAssumption
       DEF CloneRepo, CloneBegin, CloneEnd, Configure, AddRemote
  <2>3. job[p] \notin local
    BY <2>1 DEF BranchInv, Before
  <2> QED
    BY <1>1, <1>2, <2>1, <2>2, <2>3
<1>5. ASSUME NEW p \in Processes, CherryPickScript(p)
      PROVE  CountInv'
  <2>1. UNCHANGED <<job, lock, kills>> /\ pc[p] # "idle" /\ pc'[p] # "idle"
    BY <1>5, <1>t DEF CherryPickScript, ScriptStart, CheckStatus, UpdateRemotes,
                      CreateBranch, Pick, Push, MakePR, Abort, Restore, Delete
  <2>2. local' \ {job[p]} \subseteq local \ {job[p]}
    BY <1>5 DEF CherryPickScript, ScriptStart, CheckStatus, UpdateRemotes,
                CreateBranch, Pick, Push, MakePR, Abort, Restore, Delete
  <2> QED
    BY <1>1, <2>1, <2>2
<1>6. ASSUME NEW p \in Processes, ReturnToMaster(p)
      PROVE  CountInv'
  <2>1. UNCHANGED <<local, lock, kills>> /\ pc[p] = "back" /\ pc'[p] = "idle"
    BY <1>6, <1>t DEF ReturnToMaster
  <2> QED
    BY <1>2, <2>1 DEF BranchInv
<1>7. ASSUME NEW p \in Processes, Kill(p)
      PROVE  CountInv'
  <2>1. local' = local /\ kills' = kills + 1 /\ pc[p] # "idle" /\ pc'[p] = "idle"
    BY <1>7, <1>t DEF Kill
  <2>2. ~lock' => ~lock
    BY <1>7 DEF Kill
  <2>3. /\ Cardinality(local) \in Nat /\ Cardinality(local \ {job[p]}) \in Nat
        /\ Cardinality(local) <= Cardinality(local \ {job[p]}) + 1
    BY LessOne
  <2>4. ~lock => Cardinality(local \ {job[p]}) <= kills
    BY <2>1
  <2>5. ~lock => Cardinality(local) <= kills + 1
    <3> SUFFICES ASSUME ~lock PROVE Cardinality(local) <= kills + 1
      OBVIOUS
    <3> QED
      BY <2>3, <2>4, <1>t
  <2> QED
    BY <2>1, <2>2, <2>5
<1>8. CASE UNCHANGED vars
  BY <1>8 DEF vars
<1> HIDE DEF CountInv
<1> QED
  BY <1>3, <1>4, <1>5, <1>6, <1>7, <1>8, NextIsStep DEF Step

\* The strengthening that keeps the clone healthy.
HealthInv == BranchInv /\ TreeInv /\ DirtyInv /\ HeadInv /\ CountInv

LEMMA Healthy ==
  ASSUME Alone
  PROVE  Spec => [](TypeOK /\ HealthInv)
<1>1. Init => HealthInv
  <2> SUFFICES ASSUME Init PROVE HealthInv
    OBVIOUS
  <2>1. Cardinality(local) = 0 /\ IsFiniteSet(local) /\ local = {} /\ head = Master
        /\ tree = "clean" /\ refused = 0 /\ kills = 0 /\ ~lock
    BY FS_EmptySet DEF Init
  <2>2. \A p \in Processes : pc[p] = "idle"
    BY DEF Init
  <2> QED
    BY <2>1, <2>2 DEF HealthInv, BranchInv, TreeInv, DirtyInv, HeadInv, CountInv,
                      Underway, Before, Working
<1>2. TypeOK /\ HealthInv /\ [Next]_vars => HealthInv'
  BY BranchStep, TreeStep, DirtyStep, HeadStep, CountStep DEF HealthInv
<1> QED
  BY <1>1, <1>2, TypeInit, TypeStep, PTL DEF Spec

\* While one process uses the volume, a dirty tree costs one request for each
\* kill, unless git has left its lock (cherry-pick.sh:33-52, 122-125).
THEOREM HealsOnce ==
  ASSUME Alone
  PROVE  Spec => []DirtyOncePerKill
<1>1. TypeOK /\ HealthInv => DirtyOncePerKill
  BY DEF HealthInv, DirtyInv, DirtyOncePerKill, TypeOK
<1> QED
  BY <1>1, Healthy, PTL

\* While one process uses the volume, the clone is as it was between requests,
\* but for a branch for each kill (cherry-pick.sh:33-52, cherry_pick.go:231-252).
THEOREM CleanAtRest ==
  ASSUME Alone, Processes # {}
  PROVE  Spec => []RestsClean
<1>1. TypeOK /\ HealthInv => RestsClean
  <2> SUFFICES ASSUME TypeOK, HealthInv, settled, ~lock,
                      \A p \in Processes : pc[p] = "idle"
               PROVE  /\ tree = "clean"
                      /\ Cardinality(local) <= kills
                      /\ kills = 0 => head = Master
    BY DEF RestsClean
  <2>1. PICK p \in Processes : pc[p] = "idle"
    OBVIOUS
  <2> QED
    BY <2>1 DEF HealthInv, TreeInv, HeadInv, CountInv
<1> QED
  BY <1>1, Healthy, PTL

-----------------------------------------------------------------------------
(* The refinement of PickScript, for any number of processes.               *)

\* Who is about to open a pull request has pushed the branch, and nobody else has.
OpenInv ==
  /\ \A p \in Processes : pc[p] = "makePR" => BranchOf[Request(p)] \in pushed
  /\ \A p, q \in Processes :
       /\ pc[p] = "makePR" /\ pc[q] = "makePR"
       /\ BranchOf[Request(p)] = BranchOf[Request(q)]
       => p = q

\* A step of one process leaves the others where they are, with their requests.
LEMMA OthersStay ==
  ASSUME TypeOK, NEW p \in Processes, Step(p), NEW q \in Processes, q # p
  PROVE  pc'[q] = pc[q] /\ (pc[q] = "makePR" => Request(q)' = Request(q))
<1>0. /\ pc \in [Processes -> {"idle", "back"} \cup CloneSteps \cup ScriptSteps]
      /\ job \in [Processes -> Nat] /\ asked \in Seq(Requests)
      /\ pc[q] = "makePR" => job[q] \in 1..Len(asked)
  BY DEF TypeOK
<1>1. /\ pc'[q] = pc[q] /\ job'[q] = job[q]
      /\ asked' = asked \/ \E r \in Requests : asked' = Append(asked, r)
  <2>1. CASE \E r \in Requests : Take(p, r)
    BY <1>0, <2>1 DEF Take
  <2>2. CASE CloneRepo(p)
    <3>1. CASE CloneBegin(p) \/ CloneEnd(p)
      BY <1>0, <3>1 DEF CloneBegin, CloneEnd
    <3>2. CASE Configure(p) \/ AddRemote(p)
      BY <1>0, <3>2 DEF Configure, AddRemote
    <3> QED BY <2>2, <3>1, <3>2 DEF CloneRepo
  <2>3. CASE CherryPickScript(p)
    <3>1. CASE ScriptStart(p) \/ CheckStatus(p) \/ UpdateRemotes(p) \/ CreateBranch(p)
      BY <1>0, <3>1 DEF ScriptStart, CheckStatus, UpdateRemotes, CreateBranch
    <3>2. CASE Pick(p) \/ Push(p) \/ MakePR(p)
      BY <1>0, <3>2 DEF Pick, Push, MakePR
    <3>3. CASE Abort(p) \/ Restore(p) \/ Delete(p)
      BY <1>0, <3>3 DEF Abort, Restore, Delete
    <3> QED BY <2>3, <3>1, <3>2, <3>3 DEF CherryPickScript
  <2>4. CASE ReturnToMaster(p) \/ Kill(p)
    BY <1>0, <2>4 DEF ReturnToMaster, Kill
  <2> QED BY <2>1, <2>2, <2>3, <2>4 DEF Step
<1>2. CASE asked' = asked
  BY <1>1, <1>2 DEF Request
<1>3. ASSUME NEW r \in Requests, asked' = Append(asked, r), pc[q] = "makePR"
      PROVE  Request(q)' = Request(q)
  <2>1. asked'[job[q]] = asked[job[q]]
    BY <1>0, <1>3
  <2> QED BY <1>1, <2>1 DEF Request
<1> QED BY <1>1, <1>2, <1>3

\* What is open but for process p.
OpenBut(p) == {Request(q) : q \in {u \in Processes : u # p /\ pc[u] = "makePR"}}

LEMMA OpenSplit ==
  ASSUME TypeOK, NEW p \in Processes, Step(p)
  PROVE  /\ OpenBut(p)' = OpenBut(p)
         /\ Open = OpenBut(p) \cup (IF pc[p] = "makePR" THEN {Request(p)} ELSE {})
         /\ Open' = OpenBut(p) \cup (IF pc'[p] = "makePR" THEN {Request(p)'} ELSE {})
<1>1. OpenBut(p)' = OpenBut(p)
  BY OthersStay DEF OpenBut
<1> QED BY <1>1 DEF Open, OpenBut

\* A process that has not pushed, or has pushed and is about to open the pull
\* request, has no open request but its own.
LEMMA OpenOwn ==
  ASSUME OpenInv, NEW p \in Processes,
         BranchOf[Request(p)] \notin pushed \/ pc[p] = "makePR"
  PROVE  Request(p) \notin OpenBut(p)
BY DEF OpenInv, OpenBut

\* Before the push and after the pull request, a job changes nothing on GitHub.
LEMMA UnseenStep ==
  ASSUME TypeOK, NEW p \in Processes,
         \/ \E r \in Requests : Take(p, r)
         \/ CloneRepo(p)
         \/ ScriptStart(p) \/ CheckStatus(p) \/ UpdateRemotes(p) \/ CreateBranch(p)
         \/ Pick(p) \/ Abort(p) \/ Restore(p) \/ Delete(p) \/ ReturnToMaster(p)
  PROVE  /\ UNCHANGED <<pushed, proposed>>
         /\ pc[p] # "makePR" /\ pc'[p] # "makePR"
<1>1. pc \in [Processes -> {"idle", "back"} \cup CloneSteps \cup ScriptSteps]
  BY DEF TypeOK
<1>2. CASE (\E r \in Requests : Take(p, r)) \/ CloneRepo(p)
  BY <1>1, <1>2 DEF Take, CloneRepo, CloneBegin, CloneEnd, Configure, AddRemote
<1>3. CASE ScriptStart(p) \/ CheckStatus(p) \/ UpdateRemotes(p) \/ CreateBranch(p)
  BY <1>1, <1>3 DEF ScriptStart, CheckStatus, UpdateRemotes, CreateBranch
<1>4. CASE Pick(p) \/ Abort(p) \/ Restore(p) \/ Delete(p) \/ ReturnToMaster(p)
  BY <1>1, <1>4 DEF Pick, Abort, Restore, Delete, ReturnToMaster
<1> QED BY <1>2, <1>3, <1>4

LEMMA PushSeen ==
  ASSUME TypeOK, OpenInv, NEW p \in Processes, Push(p)
  PROVE  OpenInv' /\ (Script!Push(Request(p)) \/ UNCHANGED Script!view)
<1> DEFINE r == Request(p)
<1>1. /\ r \in Requests /\ Request(p)' = r /\ pc[p] = "push"
      /\ pc \in [Processes -> {"idle", "back"} \cup CloneSteps \cup ScriptSteps]
  BY RequestType DEF Push, Request, TypeOK
<1>2. Step(p)
  BY DEF Step, CherryPickScript
<1>3. \A q \in Processes :
        q # p => pc'[q] = pc[q] /\ (pc[q] = "makePR" => Request(q)' = Request(q))
  BY <1>2, OthersStay
<1>4. /\ OpenBut(p)' = OpenBut(p) /\ Open = OpenBut(p)
      /\ Open' = OpenBut(p) \cup (IF pc'[p] = "makePR" THEN {r} ELSE {})
  BY <1>1, <1>2, OpenSplit
<1>5. CASE UNCHANGED pushed /\ pc'[p] = "restore"
  <2>1. OpenInv'
    BY <1>3, <1>5 DEF OpenInv
  <2> QED BY <1>4, <1>5, <2>1 DEF Push, Script!view
<1>6. CASE BranchOf[r] \notin pushed /\ pushed' = pushed \cup {BranchOf[r]}
  <2>1. OpenInv'
    <3>1. \A q \in Processes :
            q # p /\ pc[q] = "makePR" => BranchOf[Request(q)] # BranchOf[r]
      BY <1>6 DEF OpenInv
    <3> QED BY <1>1, <1>3, <1>6, <3>1 DEF OpenInv
  <2>2. Script!Push(r)
    BY <1>4, <1>6 DEF Push, Script!Push
  <2> QED BY <2>1, <2>2
<1> QED BY <1>1, <1>5, <1>6 DEF Push

LEMMA EndSeen ==
  ASSUME TypeOK, OpenInv, NEW p \in Processes, MakePR(p) \/ Kill(p)
  PROVE  /\ OpenInv'
         /\ \/ UNCHANGED Script!view
            \/ /\ pc[p] = "makePR"
               /\ Script!Propose(Request(p)) \/ Script!GiveUp(Request(p))
<1> DEFINE r == Request(p)
<1>1. pc \in [Processes -> {"idle", "back"} \cup CloneSteps \cup ScriptSteps]
  BY DEF TypeOK
<1>2. Step(p)
  BY DEF Step, CherryPickScript
<1>3. \A q \in Processes :
        q # p => pc'[q] = pc[q] /\ (pc[q] = "makePR" => Request(q)' = Request(q))
  BY <1>2, OthersStay
<1>4. /\ pc'[p] # "makePR" /\ UNCHANGED pushed
      /\ \/ proposed' = proposed
         \/ pc[p] = "makePR" /\ proposed' = proposed \cup {r}
  BY <1>1 DEF MakePR, Kill
<1>5. Open' = OpenBut(p) /\ Open = OpenBut(p) \cup (IF pc[p] = "makePR" THEN {r} ELSE {})
  BY <1>2, <1>4, OpenSplit
<1>6. OpenInv'
  BY <1>3, <1>4 DEF OpenInv
<1>7. CASE pc[p] = "makePR"
  <2>1. Open' = Open \ {r} /\ r \in Open
    BY <1>5, <1>7, OpenOwn
  <2>2. Script!Propose(r) \/ Script!GiveUp(r)
    BY <1>4, <2>1 DEF Script!Propose, Script!GiveUp
  <2> QED BY <1>6, <1>7, <2>2
<1>8. CASE pc[p] # "makePR"
  BY <1>4, <1>5, <1>6, <1>8 DEF Script!view
<1> QED BY <1>7, <1>8

LEMMA ScriptStep ==
  ASSUME TypeOK, OpenInv, [Next]_vars
  PROVE  OpenInv' /\ [Script!ScriptNext]_Script!view
<1>1. ASSUME NEW p \in Processes,
             \/ \E r \in Requests : Take(p, r)
             \/ CloneRepo(p)
             \/ ScriptStart(p) \/ CheckStatus(p) \/ UpdateRemotes(p) \/ CreateBranch(p)
             \/ Pick(p) \/ Abort(p) \/ Restore(p) \/ Delete(p) \/ ReturnToMaster(p)
      PROVE  OpenInv' /\ UNCHANGED Script!view
  <2>1. Step(p)
    BY <1>1 DEF Step, CherryPickScript
  <2>2. UNCHANGED <<pushed, proposed>> /\ pc[p] # "makePR" /\ pc'[p] # "makePR"
    BY <1>1, UnseenStep
  <2>3. OpenInv'
    BY <2>1, <2>2, OthersStay DEF OpenInv
  <2>4. Open' = Open
    BY <2>1, <2>2, OpenSplit
  <2> QED BY <2>2, <2>3, <2>4 DEF Script!view
<1>2. ASSUME NEW p \in Processes, Push(p)
      PROVE  OpenInv' /\ [Script!ScriptNext]_Script!view
  <2>1. Request(p) \in Requests
    BY <1>2, RequestType DEF Push
  <2> QED BY <1>2, <2>1, PushSeen DEF Script!ScriptNext
<1>3. ASSUME NEW p \in Processes, MakePR(p) \/ Kill(p)
      PROVE  OpenInv' /\ [Script!ScriptNext]_Script!view
  <2>1. pc[p] = "makePR" => Request(p) \in Requests
    BY RequestType
  <2> QED BY <1>3, <2>1, EndSeen DEF Script!ScriptNext
<1>4. CASE UNCHANGED vars
  BY <1>4 DEF vars, OpenInv, Open, Request, Script!view
<1> QED
  BY <1>1, <1>2, <1>3, <1>4, NextIsStep DEF Step, CherryPickScript

\* To GitHub the jobs of any number of processes, killed anywhere, implement
\* PickScript.
THEOREM Implements == Spec => ImplementsScript
<1>1. Init => OpenInv /\ Script!ScriptInit
  BY DEF Init, OpenInv, Open, Script!ScriptInit
<1>2. TypeOK /\ OpenInv /\ [Next]_vars => OpenInv' /\ [Script!ScriptNext]_Script!view
  BY ScriptStep
<1> QED
  BY <1>1, <1>2, TypeInit, TypeStep, PTL DEF Spec, ImplementsScript, Script!ScriptSpec

\* What PickScript means: at most one request of a branch is under way or proposed,
\* and one that did not get its pull request right after its push, or found its
\* branch taken, never gets one.
THEOREM TakenBranchesStay ==
  Script!ScriptSpec => []Script!OnePerBranch /\ Script!TakenForGood
<1> DEFINE SInv == Open \subseteq Requests /\ Script!OnePerBranch
<1>1. Script!ScriptInit => SInv
  BY DEF Script!ScriptInit, Script!OnePerBranch
<1>2. SInv /\ [Script!ScriptNext]_Script!view => SInv'
  <2> SUFFICES ASSUME SInv, [Script!ScriptNext]_Script!view
               PROVE  SInv'
    OBVIOUS
  <2>1. ASSUME NEW r \in Requests, Script!Push(r)
        PROVE  SInv'
    BY <2>1 DEF Script!Push, Script!OnePerBranch
  <2>2. ASSUME NEW r \in Requests, Script!Propose(r) \/ Script!GiveUp(r)
        PROVE  SInv'
    BY <2>2 DEF Script!Propose, Script!GiveUp, Script!OnePerBranch
  <2>3. CASE UNCHANGED Script!view
    BY <2>3 DEF Script!view, Script!OnePerBranch
  <2> QED
    BY <2>1, <2>2, <2>3 DEF Script!ScriptNext
<1>3. SInv /\ [Script!ScriptNext]_Script!view =>
        [\A r \in Requests :
           BranchOf[r] \in pushed =>
             /\ BranchOf[r] \in pushed'
             /\ r \notin Open =>
                  r \notin Open' /\ (r \in proposed' <=> r \in proposed)]_Script!view
  <2> SUFFICES ASSUME SInv, Script!ScriptNext, NEW r \in Requests, BranchOf[r] \in pushed
               PROVE  /\ BranchOf[r] \in pushed'
                      /\ r \notin Open =>
                           r \notin Open' /\ (r \in proposed' <=> r \in proposed)
    OBVIOUS
  <2>1. PICK s \in Requests : Script!Push(s) \/ Script!Propose(s) \/ Script!GiveUp(s)
    BY DEF Script!ScriptNext
  <2> QED
    BY <2>1 DEF Script!Push, Script!Propose, Script!GiveUp
<1>4. SInv => Script!OnePerBranch
  OBVIOUS
<1> QED
  BY <1>1, <1>2, <1>3, <1>4, PTL DEF Script!ScriptSpec, Script!TakenForGood
=============================================================================
