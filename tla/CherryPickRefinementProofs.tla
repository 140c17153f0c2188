--------------------- MODULE CherryPickRefinementProofs ---------------------
(***************************************************************************)
(* CherryPick implements CherryPickService and PickScript, for any         *)
(* deliveries, channel capacity and number of restarts.                    *)
(*                                                                         *)
(* Each lemma maps steps of the pipeline to one action of the service or   *)
(* to none.  What they need beyond the steps is IndInv: who is accepted    *)
(* has passed the channel, who holds a request holds one that is not       *)
(* settled, and Stop ends with an empty channel.                           *)
(***************************************************************************)
EXTENDS CherryPickProofs

\* The service as the steps of the pipeline move it.
ServiceState == <<ServiceStatus, ServicePhase>>

LEMMA InitMapped == Init => Service!ServiceInit
<1> SUFFICES ASSUME Init PROVE Service!ServiceInit
  OBVIOUS
<1>1. Elems(accepted) = {} /\ \A d \in Deliveries : fate[d] = "none"
  BY DEF Init, Elems
<1>2. ServiceStatus = [d \in Deliveries |-> "new"]
  BY <1>1 DEF ServiceStatus, StatusOf
<1>3. ServicePhase = "open"
  BY DEF Init, ServicePhase, Up, RequestsClosed
<1> QED
  BY <1>2, <1>3 DEF Service!ServiceInit

\* The phases that main stands for.
LEMMA PhaseOf ==
  ASSUME TypeOK
  PROVE  /\ main \in {"serving", "closing"} => ServicePhase = "open"
         /\ main \in {"selecting", "draining", "shutdown"} => ServicePhase = "closing"
         /\ main = "exited" => ServicePhase = "ended"
         /\ main = "crashed" => ServicePhase = "crashed"
BY DEF TypeOK, MainPoints, ServicePhase, Up, RequestsClosed

\* The service is where it was.
LEMMA Stutter ==
  ASSUME UNCHANGED <<fate, accepted>>, ServicePhase' = ServicePhase
  PROVE  UNCHANGED ServiceState
BY DEF ServiceState, ServiceStatus, StatusOf, Elems

\* A request of the pipeline is scheduled while it is not settled.
LEMMA ScheduledIsOutstanding ==
  ASSUME TypeOK
  PROVE  /\ Service!Scheduled = Outstanding
         /\ \A d \in Deliveries : ServiceStatus[d] = "scheduled" <=> d \in Outstanding
<1>1. Elems(accepted) \subseteq Deliveries
  BY DEF TypeOK, Elems
<1>2. \A d \in Deliveries : fate[d] # "scheduled"
  BY DEF TypeOK, Fates
<1>3. \A d \in Deliveries : ServiceStatus[d] = "scheduled" <=> d \in Outstanding
  BY <1>2 DEF ServiceStatus, StatusOf, Outstanding
<1> QED
  BY <1>1, <1>3 DEF Service!Scheduled, Outstanding

\* The channel takes a request.
LEMMA SendMapped ==
  ASSUME IndInv, NEW d \in Deliveries, Send(d), ~UNCHANGED accepted
  PROVE  Service!Accept(d)
<1>1. /\ accepted' = Append(accepted, d) /\ pc[d] = "send"
      /\ UNCHANGED <<fate, main>> /\ Up /\ ~RequestsClosed
  BY DEF Send
<1>2. accepted \in Seq(Deliveries) /\ fate \in [Deliveries -> Fates]
  BY DEF IndInv, TypeOK
<1>3. Elems(accepted') = Elems(accepted) \cup {d}
  BY <1>1, <1>2 DEF Elems
<1>4. d \notin Elems(accepted) /\ fate[d] = "none"
  BY <1>1 DEF IndInv, Control, AcceptedPastSend, OnlyAccepted, Elems
<1>5. ServiceStatus[d] = "new"
  BY <1>4 DEF ServiceStatus, StatusOf
<1>6. ServiceStatus' = [ServiceStatus EXCEPT ![d] = "scheduled"]
  BY <1>1, <1>3, <1>4 DEF ServiceStatus, StatusOf
<1>7. ServicePhase = "open" /\ ServicePhase' = ServicePhase
  BY <1>1 DEF ServicePhase, Up, RequestsClosed
<1> QED
  BY <1>5, <1>6, <1>7 DEF Service!Accept

\* The holder of a request settles it.
LEMMA SettleMapped ==
  ASSUME IndInv, NEW d \in {job, draining}, d # NoJob,
         NEW outcome \in {"done", "failed", "canceled"},
         fate' = [fate EXCEPT ![d] = outcome], UNCHANGED <<accepted, main>>
  PROVE  /\ d \in Deliveries /\ ServiceStatus[d] = "scheduled"
         /\ ServiceStatus' = [ServiceStatus EXCEPT ![d] = outcome]
         /\ ServicePhase' = ServicePhase
<1>1. d \in Deliveries /\ fate[d] = "none" /\ d \in Outstanding
  BY HeldIsUnsettled
<1>2. fate \in [Deliveries -> Fates]
  BY DEF IndInv, TypeOK
<1>3. ServiceStatus[d] = "scheduled"
  BY <1>1, ScheduledIsOutstanding DEF IndInv
<1>4. ServiceStatus' = [ServiceStatus EXCEPT ![d] = outcome]
  BY <1>1, <1>2 DEF ServiceStatus, StatusOf, Elems
<1> QED
  BY <1>1, <1>3, <1>4 DEF ServicePhase, Up, RequestsClosed

\* The end of the process loses what is scheduled and nothing else.
LEMMA EndMapped ==
  ASSUME IndInv, NEW how \in {"exited", "crashed"}, EndProcess(how), UNCHANGED accepted
  PROVE  /\ Service!LoseAll
         /\ ServicePhase' = IF how = "exited" THEN "ended" ELSE "crashed"
<1>1. fate \in [Deliveries -> Fates]
  BY DEF IndInv, TypeOK
<1>2. \A d \in Deliveries : ServiceStatus[d] = "scheduled" <=> d \in Outstanding
  BY ScheduledIsOutstanding DEF IndInv
<1>3. ASSUME NEW d \in Deliveries
      PROVE  StatusOf(d)' = IF ServiceStatus[d] = "scheduled" THEN "lost"
                            ELSE ServiceStatus[d]
  <2>1. CASE d \in Outstanding
    BY <1>1, <1>2, <2>1 DEF EndProcess, StatusOf
  <2>2. CASE d \notin Outstanding
    <3>1. fate'[d] = fate[d] /\ Elems(accepted)' = Elems(accepted)
      BY <1>1, <2>2 DEF EndProcess, Elems
    <3> QED
      BY <1>2, <2>2, <3>1 DEF StatusOf, ServiceStatus
  <2> QED
    BY <2>1, <2>2
<1>4. Service!LoseAll
  BY <1>3 DEF Service!LoseAll, ServiceStatus
<1>5. ServicePhase' = IF how = "exited" THEN "ended" ELSE "crashed"
  BY DEF EndProcess, ServicePhase, Up
<1> QED
  BY <1>4, <1>5

\* A crash, whatever its cause.
LEMMA CrashMapped ==
  ASSUME IndInv, Up, EndProcess("crashed"), UNCHANGED accepted
  PROVE  Service!Crash
<1>1. Service!LoseAll /\ ServicePhase' = "crashed"
  BY EndMapped
<1>2. ServicePhase \in {"open", "closing"}
  BY PhaseOf DEF IndInv, TypeOK, MainPoints, Up
<1> QED
  BY <1>1, <1>2 DEF Service!Crash, Service!Running

\* An orderly exit leaves nobody's request but the worker's.
LEMMA ExitMapped ==
  ASSUME IndInv, Exit
  PROVE  Service!End
<1>1. main = "shutdown" /\ main' = "exited" /\ EndProcess("exited") /\ UNCHANGED accepted
  BY DEF Exit, EndProcess
<1>2. Service!LoseAll /\ ServicePhase' = "ended"
  BY <1>1, EndMapped
<1>3. ServicePhase = "closing"
  BY <1>1, PhaseOf DEF IndInv
<1>4. \A d \in Outstanding : d = job
  <2>1. queue = <<>> /\ draining = NoJob
    BY <1>1 DEF IndInv, Control, ControlPoints
  <2>2. Len(queue) = 0 /\ Len(accepted) \in Nat
        /\ \A i \in 1..Len(accepted) : accepted[i] # NoJob
    BY <2>1, NoJobAssumption DEF IndInv, TypeOK
  <2> QED
    BY <2>1, <2>2 DEF IndInv, Accounting, Outstanding, Elems
<1>5. \A d, e \in Service!Scheduled : d = e
  BY <1>4, ScheduledIsOutstanding DEF IndInv
<1> QED
  BY <1>2, <1>3, <1>5 DEF Service!End

\* The steps of the handlers.
LEMMA ProducerMapped ==
  ASSUME IndInv, NEW d \in Deliveries, Producer(d)
  PROVE  [Service!ServiceNext]_ServiceState
<1>1. CASE UNCHANGED <<fate, accepted, main>>
  BY <1>1, Stutter DEF ServicePhase, Up, RequestsClosed
<1>2. CASE Send(d)
  <2>1. CASE UNCHANGED accepted
    BY <1>1, <1>2, <2>1 DEF Send
  <2>2. CASE ~UNCHANGED accepted
    BY <1>2, <2>2, SendMapped DEF Service!ServiceNext
  <2> QED
    BY <2>1, <2>2
<1>3. CASE SendOnClosed(d)
  <2>1. CASE EndProcess("crashed")
    BY <1>3, <2>1, CrashMapped DEF SendOnClosed, Service!ServiceNext
  <2> QED
    BY <1>1, <1>3, <2>1 DEF SendOnClosed
<1> QED
  BY <1>1, <1>2, <1>3 DEF Producer, CheckStop, Answer

\* The steps of the worker.
LEMMA WorkerMapped ==
  ASSUME IndInv, Worker
  PROVE  [Service!ServiceNext]_ServiceState
<1> USE DEF WorkerUnchanged
<1>1. CASE UNCHANGED <<fate, accepted, main>>
  BY <1>1, Stutter DEF ServicePhase, Up, RequestsClosed
<1>2. CASE Finish \/ Report
  <2>1. job # NoJob /\ Up
    BY <1>2 DEF IndInv, Control, ControlPoints, Busy, WorkerPoints, Finish, Report
  <2>2. PICK outcome \in {"done", "failed"} : fate' = [fate EXCEPT ![job] = outcome]
    BY <1>2 DEF Finish, Report
  <2>3. /\ job \in Deliveries /\ ServiceStatus[job] = "scheduled"
        /\ ServiceStatus' = [ServiceStatus EXCEPT ![job] = outcome]
        /\ ServicePhase' = ServicePhase
    BY <1>2, <2>1, <2>2, SettleMapped DEF Finish, Report
  <2>4. ServicePhase \in {"open", "closing"}
    BY <2>1, PhaseOf DEF IndInv, TypeOK, MainPoints, Up
  <2>5. Service!Settle(job)
    BY <2>3, <2>4 DEF Service!Settle, Service!Running
  <2> QED
    BY <2>3, <2>5 DEF Service!ServiceNext
<1>3. CASE GetAssigneePanics
  BY <1>3, CrashMapped DEF GetAssigneePanics, Service!ServiceNext
<1> QED
  BY <1>1, <1>2, <1>3 DEF Worker, Receive, StopListening, Prepare, Push, MakePR,
     GetAssignee, LabelNew, AddDone, RemoveApproved

\* The steps of Stop, and a listener that fails.
LEMMA StopMapped ==
  ASSUME IndInv, CloseStopChan \/ ServeFails \/ Stop
  PROVE  [Service!ServiceNext]_ServiceState
<1> USE DEF MainUnchanged
<1>1. CASE CloseStopChan
  BY <1>1, Stutter DEF CloseStopChan, ServicePhase, Up, RequestsClosed
<1>2. CASE ServeFails
  <2>1. Up
    BY <1>2 DEF ServeFails, Serving, Up
  <2> QED
    BY <1>2, <2>1, CrashMapped DEF ServeFails, Service!ServiceNext
<1>3. CASE CloseRequests
  <2>1. ServicePhase = "open" /\ ServicePhase' = "closing"
    BY <1>3 DEF CloseRequests, ServicePhase, Up, RequestsClosed
  <2>2. ServiceStatus' = ServiceStatus
    BY <1>3 DEF CloseRequests, ServiceStatus, StatusOf, Elems
  <2> QED
    BY <2>1, <2>2 DEF Service!Close, Service!ServiceNext
<1>4. CASE SelectTimeout \/ SelectStopped \/ DrainTake \/ DrainEnd
  <2>1. UNCHANGED <<fate, accepted>>
    BY <1>4 DEF SelectTimeout, SelectStopped, DrainTake, DrainEnd
  <2>2. main \in {"selecting", "draining"} /\ main' \in {"selecting", "draining", "shutdown"}
    BY <1>4 DEF SelectTimeout, SelectStopped, DrainTake, DrainEnd
  <2>3. ServicePhase' = ServicePhase
    BY <2>2 DEF ServicePhase, Up, RequestsClosed
  <2> QED
    BY <2>1, <2>3, Stutter
<1>5. CASE DrainCancel
  <2>1. /\ draining # NoJob /\ main = "draining"
        /\ fate' = [fate EXCEPT ![draining] = "canceled"] /\ UNCHANGED <<accepted, main>>
    BY <1>5 DEF DrainCancel
  <2>2. /\ draining \in Deliveries /\ ServiceStatus[draining] = "scheduled"
        /\ ServiceStatus' = [ServiceStatus EXCEPT ![draining] = "canceled"]
        /\ ServicePhase' = ServicePhase
    BY <2>1, SettleMapped
  <2>3. ServicePhase = "closing"
    BY <2>1, PhaseOf DEF IndInv
  <2>4. Service!Cancel(draining)
    BY <2>2, <2>3 DEF Service!Cancel
  <2> QED
    BY <2>2, <2>4 DEF Service!ServiceNext
<1>6. CASE Exit
  BY <1>6, ExitMapped DEF Service!ServiceNext
<1> QED
  BY <1>1, <1>2, <1>3, <1>4, <1>5, <1>6 DEF Stop

LEMMA NextMapped ==
  ASSUME IndInv, [Next]_vars
  PROVE  [Service!ServiceNext]_ServiceState
<1>1. CASE UNCHANGED <<fate, accepted, main>>
  BY <1>1, Stutter DEF ServicePhase, Up, RequestsClosed
<1>2. CASE Arrive
  BY <1>1, <1>2 DEF Arrive, HandleCherryPick, CheckIfNeedCherryPick
<1>3. CASE Restart
  <2>1. ServicePhase \in {"ended", "crashed"} /\ ServicePhase' = "open"
    BY <1>3 DEF Restart, ServicePhase, Up, RequestsClosed
  <2>2. ServiceStatus' = ServiceStatus
    BY <1>3 DEF Restart, ServiceStatus, StatusOf, Elems
  <2> QED
    BY <2>1, <2>2 DEF Service!Reopen, Service!Running, Service!ServiceNext
<1>4. CASE Terminated \/ UNCHANGED vars \/ \E p \in PRs : Approve(p)
  BY <1>1, <1>4 DEF Terminated, vars, Approve
<1> QED
  BY <1>2, <1>3, <1>4, ProducerMapped, WorkerMapped, StopMapped DEF Next

\* The pipeline keeps the promise of the service: a request is accepted once and only
\* before Stop closes the channel, is settled once and for good, and an orderly end
\* loses at most one (cherry_pick.go:38-122).
THEOREM Implements == Spec => ImplementsService
<1>1. IndInv /\ [Next]_vars => [Service!ServiceNext]_<<ServiceStatus, ServicePhase>>
  BY NextMapped DEF ServiceState
<1> QED
  BY Inductive, InitMapped, <1>1, PTL DEF Spec, ImplementsService, Service!ServiceSpec

\* What the service promises: a request is decided once, and lost only with the
\* process, an orderly end losing at most one.  With Implements, the pipeline
\* keeps this (cherry_pick.go:38-80).
THEOREM ServicePromise ==
  Service!ServiceSpec => Service!SettledForGood /\ Service!LossEndsService
<1> DEFINE Next1 == [Service!ServiceNext]_<<ServiceStatus, ServicePhase>>
<1>1. ASSUME Next1, NEW d \in Deliveries, ServiceStatus[d] \notin {"new", "scheduled"}
      PROVE  ServiceStatus'[d] = ServiceStatus[d]
  <2>1. CASE UNCHANGED ServiceStatus
    BY <2>1
  <2>2. ASSUME NEW e \in Deliveries,
               Service!Accept(e) \/ Service!Settle(e) \/ Service!Cancel(e)
        PROVE  ServiceStatus'[d] = ServiceStatus[d]
    BY <1>1, <2>2 DEF Service!Accept, Service!Settle, Service!Cancel, ServiceStatus
  <2>3. CASE Service!LoseAll
    BY <1>1, <2>3 DEF Service!LoseAll
  <2> QED
    BY <1>1, <2>1, <2>2, <2>3 DEF Service!ServiceNext, Service!Close, Service!End,
       Service!Crash, Service!Reopen
<1>2. ASSUME Next1, NEW d \in Service!Scheduled, NEW e \in Service!Scheduled,
             ServiceStatus'[d] = "lost"
      PROVE  /\ ServiceStatus'[e] = "lost" /\ ~Service!Running'
             /\ ServicePhase' = "ended" => d = e
  <2>0. /\ d \in Deliveries /\ e \in Deliveries
        /\ ServiceStatus[d] = "scheduled" /\ ServiceStatus[e] = "scheduled"
    BY <1>2 DEF Service!Scheduled
  <2>1. ~UNCHANGED ServiceStatus
    BY <1>2, <2>0
  <2>2. ASSUME NEW f \in Deliveries,
               Service!Accept(f) \/ Service!Settle(f) \/ Service!Cancel(f)
        PROVE  FALSE
    BY <1>2, <2>0, <2>2 DEF Service!Accept, Service!Settle, Service!Cancel, ServiceStatus
  <2>3. Service!End \/ Service!Crash
    BY <1>2, <2>1, <2>2 DEF Service!ServiceNext, Service!Close, Service!Reopen
  <2> QED
    BY <1>2, <2>0, <2>3 DEF Service!End, Service!Crash, Service!LoseAll, Service!Running
<1>3. Next1 =>
        [\A d \in Deliveries :
           ServiceStatus[d] \notin {"new", "scheduled"} =>
             ServiceStatus'[d] = ServiceStatus[d]]_<<ServiceStatus, ServicePhase>>
  BY <1>1
<1>4. Next1 =>
        [\A d, e \in Service!Scheduled :
           ServiceStatus'[d] = "lost" =>
             ServiceStatus'[e] = "lost" /\ ~Service!Running'
             /\ (ServicePhase' = "ended" => d = e)]_<<ServiceStatus, ServicePhase>>
  BY <1>2
<1> QED
  BY <1>3, <1>4, PTL DEF Service!ServiceSpec, Service!SettledForGood,
     Service!LossEndsService

-----------------------------------------------------------------------------
(* The script on GitHub.                                                    *)

\* A worker that is busy works on a request that was accepted, whose call is known
\* and does not change any more.
LEMMA WorkerRequest ==
  ASSUME IndInv, worker \in {"push", "makePR"}
  PROVE  /\ job \in Deliveries /\ pc[job] \in {"scheduled", "ended"}
         /\ Request(job) \in Requests
         /\ [r \in Requests |-> BranchOf(r.pr, r.version)][Request(job)] = Target
<1>1. job \in Deliveries /\ job \in Elems(accepted)
  BY DEF IndInv, TypeOK, Control, ControlPoints, OnlyAccepted, Busy, WorkerPoints
<1>2. pc[job] \in {"scheduled", "ended"}
  BY <1>1 DEF IndInv, Control, AcceptedPastSend, Elems
<1>3. call[job] \in Calls
  BY <1>1, <1>2 DEF IndInv, Control, CallsKnown
<1>4. Request(job) \in Requests
  BY <1>1, <1>3 DEF Calls, Requests, Request
<1>5. Request(job).pr = call[job].pr /\ Request(job).version = call[job].version
  BY DEF Request
<1>6. [r \in Requests |-> BranchOf(r.pr, r.version)][Request(job)] = Target
  BY <1>4, <1>5 DEF Target
<1> QED
  BY <1>1, <1>2, <1>4, <1>6

\* What leaves GitHub and the worker alone, or happens between two scripts, is not seen.
LEMMA ScriptFrame ==
  ASSUME UNCHANGED <<branches, picks>>,
         \/ worker # "makePR" /\ worker' # "makePR"
         \/ UNCHANGED <<worker, job>> /\ Request(job)' = Request(job)
  PROVE  UNCHANGED Script!view
BY DEF Open, Proposed, Script!view

\* A script ends, or its process.
LEMMA ScriptGivenUp ==
  ASSUME IndInv, UNCHANGED <<branches, picks>>, worker' # "makePR"
  PROVE  [Script!ScriptNext]_Script!view
<1>1. CASE worker = "makePR"
  <2>1. Open = {Request(job)} /\ Open' = {} /\ Request(job) \in Requests
    BY <1>1, WorkerRequest DEF Open
  <2>2. Script!GiveUp(Request(job))
    BY <2>1 DEF Script!GiveUp, Proposed
  <2> QED
    BY <2>1, <2>2 DEF Script!ScriptNext
<1>2. CASE worker # "makePR"
  BY <1>2, ScriptFrame
<1> QED
  BY <1>1, <1>2

\* The push goes through only if the branch is new; the answer may be lost.
LEMMA ScriptPush ==
  ASSUME IndInv, Push
  PROVE  [Script!ScriptNext]_Script!view
<1> USE DEF Push, WorkerUnchanged
<1>1. CASE UNCHANGED branches /\ worker' # "makePR"
  BY <1>1, ScriptGivenUp
<1>2. CASE Target \notin branches /\ branches' = branches \cup {Target}
  <2>1. worker = "push" /\ worker' \in {"makePR", "report"} /\ UNCHANGED <<call, job, picks>>
    BY <1>2
  <2>2. Open = {} /\ Open' \in {{}, {Request(job)}} /\ Proposed' = Proposed
    BY <2>1 DEF Open, Request, Proposed
  <2>3. Script!Push(Request(job))
    BY <1>2, <2>1, <2>2, WorkerRequest DEF Script!Push
  <2> QED
    BY <2>1, <2>3, WorkerRequest DEF Script!ScriptNext
<1> QED
  BY <1>1, <1>2

\* The pull request is opened, whether the script hears of it or not, or is not.
LEMMA ScriptMakePR ==
  ASSUME IndInv, MakePR
  PROVE  [Script!ScriptNext]_Script!view
<1> USE DEF MakePR, WorkerUnchanged
<1>1. CASE worker' = "report" /\ UNCHANGED picks
  BY <1>1, ScriptGivenUp
<1>2. ASSUME NEW heard \in BOOLEAN, picks' = picks \cup {NewPick(heard)}
      PROVE  [Script!ScriptNext]_Script!view
  <2>1. worker = "makePR" /\ worker' # "makePR" /\ UNCHANGED branches
    BY <1>2
  <2>2. Open = {Request(job)} /\ Open' = {}
    BY <2>1 DEF Open
  <2>3. [pr |-> NewPick(heard).pr, version |-> NewPick(heard).version,
         by |-> NewPick(heard).by] = Request(job)
    BY DEF NewPick, Request
  <2>4. Proposed' = Proposed \cup {Request(job)}
    BY <1>2, <2>3 DEF Proposed
  <2>5. Script!Propose(Request(job))
    BY <2>1, <2>2, <2>4 DEF Script!Propose
  <2> QED
    BY <2>1, <2>5, WorkerRequest DEF Script!ScriptNext
<1> QED
  BY <1>1, <1>2

LEMMA ScriptMapped ==
  ASSUME IndInv, [Next]_vars
  PROVE  [Script!ScriptNext]_Script!view
<1> USE DEF github
<1>1. ASSUME NEW how, EndProcess(how), UNCHANGED github
      PROVE  [Script!ScriptNext]_Script!view
  BY <1>1, ScriptGivenUp DEF EndProcess
<1>2. CASE UNCHANGED <<call, worker, job, branches, picks>>
  BY <1>2, ScriptFrame DEF Request
<1>3. CASE Arrive
  <2>1. PICK d \in Deliveries :
          /\ pc[d] = "idle" /\ UNCHANGED <<worker, job, branches, picks>>
          /\ \A e \in Deliveries : e # d => call'[e] = call[e]
    <3>1. \A d \in Deliveries : \A c : call' = [call EXCEPT ![d] = c] =>
             \A e \in Deliveries : e # d => call'[e] = call[e]
      BY DEF IndInv, TypeOK
    <3> QED
      BY <1>3, <3>1 DEF Arrive, HandleCherryPick, CheckIfNeedCherryPick
  <2>2. CASE worker = "makePR"
    <3>1. call'[job] = call[job]
      BY <2>1, <2>2, WorkerRequest
    <3> QED
      BY <2>1, <3>1, ScriptFrame DEF Request
  <2>3. CASE worker # "makePR"
    BY <2>1, <2>3, ScriptFrame
  <2> QED
    BY <2>2, <2>3
<1>4. CASE \E d \in Deliveries : Producer(d)
  BY <1>1, <1>2, <1>4 DEF Producer, CheckStop, Send, SendOnClosed, Answer
<1>5. CASE Worker
  <2>1. CASE \/ Receive \/ StopListening \/ Prepare \/ LabelNew \/ AddDone
             \/ RemoveApproved \/ Finish \/ Report
             \/ \E listed \in BOOLEAN : GetAssignee(listed)
    BY <2>1, ScriptGivenUp DEF Receive, StopListening, Prepare, LabelNew, AddDone,
       RemoveApproved, Finish, Report, GetAssignee
  <2> QED
    BY <1>1, <1>5, <2>1, ScriptPush, ScriptMakePR DEF Worker, GetAssigneePanics
<1>6. CASE CloseStopChan \/ ServeFails \/ Stop
  BY <1>1, <1>2, <1>6 DEF CloseStopChan, ServeFails, Stop, CloseRequests, SelectTimeout,
     SelectStopped, DrainTake, DrainCancel, DrainEnd, Exit, MainUnchanged
<1>7. CASE Restart
  BY <1>7, ScriptGivenUp DEF Restart
<1>8. CASE Terminated \/ UNCHANGED vars \/ \E p \in PRs : Approve(p)
  BY <1>2, <1>8 DEF Terminated, vars, Approve
<1> QED
  BY <1>3, <1>4, <1>5, <1>6, <1>7, <1>8 DEF Next

\* On GitHub the pipeline does what PickScript says, for any number of deliveries,
\* Stop and crashes and restarts included: only a request that pushed a new branch
\* opens its pull request, right after or never (doCherryPick,
\* hack/cherry-pick.sh:203-204).
THEOREM ImplementsPickScript == Spec => ImplementsScript
<1>1. Init => Script!ScriptInit
  BY DEF Init, Open, Proposed, Script!ScriptInit
<1>2. IndInv /\ [Next]_vars => [Script!ScriptNext]_Script!view
  BY ScriptMapped
<1> QED
  BY Inductive, <1>1, <1>2, PTL DEF Spec, ImplementsScript, Script!ScriptSpec
=============================================================================
