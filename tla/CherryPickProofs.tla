-------------------------- MODULE CherryPickProofs --------------------------
(***************************************************************************)
(* Proofs about CherryPick, for any deliveries, pull requests, versions,   *)
(* channel capacity and number of restarts.                                *)
(*                                                                         *)
(* IndInv = TypeOK /\ Accounting /\ Control is inductive.  Accounting      *)
(* alone is not: that a request is in one place needs that nobody is       *)
(* accepted twice (Control relates the order of acceptance to the program  *)
(* counters of the handlers) and that the worker and the cancellation loop *)
(* hold a request exactly at certain control points.                       *)
(***************************************************************************)
EXTENDS CherryPickRefinement, TLAPS

USE CapacityAssumption, RestartsAssumption, NoJobAssumption, ReviewsAssumption

\* Nothing of what Accounting is about changes.
LEMMA AccountingFrame ==
  ASSUME Accounting, UNCHANGED <<queue, accepted, job, draining, fate>>
  PROVE  Accounting'
BY DEF Accounting

\* A handler moves on and is not at the channel.
LEMMA HandlerFrame ==
  ASSUME TypeOK, AcceptedPastSend, AcceptedOnce, OnlyAccepted, NEW d \in Deliveries,
         NEW point \in HandlerPoints, pc' = [pc EXCEPT ![d] = point],
         pc[d] \in {"scheduled", "ended"} => point \in {"scheduled", "ended"},
         UNCHANGED <<accepted, job, draining, fate>>
  PROVE  AcceptedPastSend' /\ AcceptedOnce' /\ OnlyAccepted'
<1>1. AcceptedPastSend'
  BY DEF TypeOK, AcceptedPastSend
<1>2. AcceptedOnce'
  BY DEF AcceptedOnce
<1>3. OnlyAccepted'
  BY DEF OnlyAccepted
<1> QED
  BY <1>1, <1>2, <1>3

\* A comment leaves the notices well typed.
LEMMA CommentType ==
  ASSUME TypeOK, NEW d \in Deliveries, NEW notice \in Notices, Comment(d, notice)
  PROVE  told' \in [Deliveries -> SUBSET Notices]
BY DEF TypeOK, Comment

\* Init establishes the inductive invariant.
LEMMA InitInv == Init => IndInv
<1> SUFFICES ASSUME Init PROVE IndInv
  OBVIOUS
<1>1. TypeOK
  BY SMT DEF Init, TypeOK, HandlerPoints, WorkerPoints, MainPoints, Fates
<1>2. Accounting
  BY DEF Init, Accounting
<1>3. CallsKnown /\ AcceptedPastSend /\ AcceptedOnce /\ OnlyAccepted
  BY DEF Init, CallsKnown, AcceptedPastSend, AcceptedOnce, OnlyAccepted
<1>4. ControlPoints
  BY DEF Init, ControlPoints, Busy, WorkerPoints, RequestsClosed, Up
<1> QED
  BY <1>1, <1>2, <1>3, <1>4 DEF IndInv, Control

\* The process ends, orderly or not.
LEMMA EndProcessInv ==
  ASSUME IndInv, NEW how \in {"exited", "crashed"}, EndProcess(how),
         UNCHANGED <<call, accepted, told, github, restarts>>
  PROVE  IndInv'
<1> USE DEF EndProcess, github
<1>1. TypeOK'
  BY DEF IndInv, TypeOK, HandlerPoints, WorkerPoints, MainPoints, Fates
<1>2. \A i \in 1..Len(accepted) : accepted[i] \in Deliveries /\ fate'[accepted[i]] # "none"
  BY DEF IndInv, TypeOK, Outstanding, Elems
<1>3. Accounting'
  BY <1>2 DEF IndInv, TypeOK, Accounting
<1>4. CallsKnown'
  BY DEF IndInv, TypeOK, Control, CallsKnown
<1>5. AcceptedPastSend'
  BY DEF IndInv, TypeOK, Control, AcceptedPastSend
<1>6. AcceptedOnce'
  BY DEF IndInv, Control, AcceptedOnce
<1>7. OnlyAccepted'
  BY DEF IndInv, TypeOK, Control, OnlyAccepted, Outstanding
<1>8. ControlPoints'
  BY DEF ControlPoints, Busy, WorkerPoints, RequestsClosed, Up
<1> QED
  BY <1>1, <1>3, <1>4, <1>5, <1>6, <1>7, <1>8 DEF IndInv, Control

-----------------------------------------------------------------------------
(* The steps of a delivery's handler.                                       *)

\* A /cherry-pick command arrives: the delivery is new, so nobody accepted it.
LEMMA HandleCherryPickInv ==
  ASSUME IndInv, NEW d \in Deliveries, NEW p \in PRs, NEW v \in Versions,
         NEW commenter, NEW merged, NEW args,
         HandleCherryPick(d, p, v, commenter, merged, args)
  PROVE  IndInv'
<1> USE DEF github, HandleCherryPick
<1>0. PICK point \in {"check", "ended"} : pc' = [pc EXCEPT ![d] = point]
  OBVIOUS
<1>1. [pr |-> p, version |-> v] \in Calls
  BY DEF Calls
<1>2. TypeOK'
  BY <1>0, <1>1 DEF IndInv, TypeOK, HandlerPoints
<1>3. Accounting'
  BY AccountingFrame DEF IndInv
<1>4. CallsKnown'
  BY <1>0, <1>1 DEF IndInv, TypeOK, Control, CallsKnown
<1>5. AcceptedPastSend' /\ AcceptedOnce' /\ OnlyAccepted'
  BY <1>0, HandlerFrame DEF IndInv, Control, HandlerPoints
<1>6. ControlPoints'
  BY DEF IndInv, Control, ControlPoints, RequestsClosed, Up
<1> QED
  BY <1>2, <1>3, <1>4, <1>5, <1>6 DEF IndInv, Control

\* A merged pull request arrives.
LEMMA CheckIfNeedCherryPickInv ==
  ASSUME IndInv, NEW d \in Deliveries, NEW p \in PRs, NEW v \in Versions,
         NEW merged, NEW hasMilestone, NEW listed,
         CheckIfNeedCherryPick(d, p, v, merged, hasMilestone, listed)
  PROVE  IndInv'
<1> USE DEF github, CheckIfNeedCherryPick
<1>0. PICK point \in {"check", "ended"} : pc' = [pc EXCEPT ![d] = point]
  OBVIOUS
<1>1. [pr |-> p, version |-> v] \in Calls
  BY DEF Calls
<1>2. TypeOK'
  BY <1>0, <1>1 DEF IndInv, TypeOK, HandlerPoints
<1>3. Accounting'
  BY AccountingFrame DEF IndInv
<1>4. CallsKnown'
  BY <1>0, <1>1 DEF IndInv, TypeOK, Control, CallsKnown
<1>5. AcceptedPastSend' /\ AcceptedOnce' /\ OnlyAccepted'
  BY <1>0, HandlerFrame DEF IndInv, Control, HandlerPoints
<1>6. ControlPoints'
  BY DEF IndInv, Control, ControlPoints, RequestsClosed, Up
<1> QED
  BY <1>2, <1>3, <1>4, <1>5, <1>6 DEF IndInv, Control

\* The handler looks at the stop channel, or answers the delivery.
LEMMA CheckOrAnswerInv ==
  ASSUME IndInv, NEW d \in Deliveries, CheckStop(d) \/ Answer(d)
  PROVE  IndInv'
<1> USE DEF github, CheckStop, Answer
<1>0. PICK point \in {"send", "ended"} : pc' = [pc EXCEPT ![d] = point]
  OBVIOUS
<1>1. told' \in [Deliveries -> SUBSET Notices]
  BY CommentType DEF IndInv, TypeOK, Notices
<1>2. TypeOK'
  BY <1>0, <1>1 DEF IndInv, TypeOK, HandlerPoints
<1>3. Accounting'
  BY AccountingFrame DEF IndInv
<1>4. CallsKnown'
  BY <1>0 DEF IndInv, TypeOK, Control, CallsKnown
<1>5. AcceptedPastSend' /\ AcceptedOnce' /\ OnlyAccepted'
  BY <1>0, HandlerFrame DEF IndInv, Control, HandlerPoints
<1>6. ControlPoints'
  BY DEF IndInv, Control, ControlPoints, RequestsClosed, Up
<1> QED
  BY <1>2, <1>3, <1>4, <1>5, <1>6 DEF IndInv, Control

\* A send that finds the channel open and not full.
LEMMA AcceptInv ==
  ASSUME IndInv, NEW d \in Deliveries, Send(d), Len(queue) < Capacity
  PROVE  IndInv'
<1> USE DEF github, Send
<1>1. /\ accepted \in Seq(Deliveries) /\ queue \in Seq(Deliveries)
      /\ Len(accepted) \in Nat /\ Len(queue) \in Nat
      /\ accepted' = Append(accepted, d)
      /\ queue' = Append(queue, d)
  BY DEF IndInv, TypeOK
<1>2. /\ Len(accepted') = Len(accepted) + 1
      /\ \A i \in 1..Len(accepted) : accepted'[i] = accepted[i]
      /\ accepted'[Len(accepted) + 1] = d
      /\ accepted' \in Seq(Deliveries)
  BY <1>1
<1>3. /\ Len(queue') = Len(queue) + 1
      /\ \A i \in 1..Len(queue) : queue'[i] = queue[i]
      /\ queue'[Len(queue) + 1] = d
      /\ queue' \in Seq(Deliveries)
  BY <1>1
<1>4. \A i \in 1..Len(accepted) : accepted[i] # d
  BY DEF IndInv, Control, AcceptedPastSend
<1>5. fate[d] = "none" /\ d \notin {job, draining}
  BY <1>4 DEF IndInv, Control, OnlyAccepted, Elems
<1>6. TypeOK'
  <2>1. TypeOK
    BY DEF IndInv
  <2>2. pc' = [pc EXCEPT ![d] = "scheduled"]
    OBVIOUS
  <2>3. pc' \in [Deliveries -> HandlerPoints]
    BY <2>1, <2>2 DEF TypeOK, HandlerPoints
  <2>4. Len(queue') <= Capacity
    BY <1>1, <1>3, CapacityAssumption
  <2> QED
    BY <1>2, <1>3, <2>1, <2>3, <2>4 DEF TypeOK
<1>7. Accounting'
  <2> DEFINE t == Len(accepted) - Len(queue)
  <2>1. t >= 0 /\ t \in Int /\ Len(accepted') - Len(queue') = t
    BY <1>1, <1>2, <1>3 DEF IndInv, Accounting
  <2>2. ASSUME NEW i \in 1..Len(queue')
        PROVE  queue'[i] = accepted'[t + i]
    <3>1. CASE i \in 1..Len(queue)
      <4>1. t + i \in 1..Len(accepted)
        BY <1>1, <2>1, <3>1
      <4>2. queue[i] = accepted[t + i]
        BY <3>1 DEF IndInv, Accounting
      <4> QED
        BY <1>2, <1>3, <3>1, <4>1, <4>2
    <3>2. CASE i = Len(queue) + 1
      <4>1. t + i = Len(accepted) + 1
        BY <1>1, <3>2
      <4> QED
        BY <1>2, <1>3, <3>2, <4>1
    <3>3. i \in 1..Len(queue) \/ i = Len(queue) + 1
      BY <1>1, <1>3
    <3> QED
      BY <3>1, <3>2, <3>3
  <2>3. ASSUME NEW i \in 1..Len(accepted')
        PROVE  /\ i > t => /\ accepted'[i] \notin {job, draining}
                           /\ fate[accepted'[i]] = "none"
               /\ i <= t => (fate[accepted'[i]] = "none"
                               <=> accepted'[i] \in {job, draining})
    <3>1. CASE i \in 1..Len(accepted)
      BY <1>1, <1>2, <2>1, <3>1 DEF IndInv, Accounting
    <3>2. CASE i = Len(accepted) + 1
      BY <1>1, <1>2, <1>5, <2>1, <3>2
    <3> QED
      BY <1>1, <1>2, <3>1, <3>2
  <2>4. job = draining => job = NoJob
    BY DEF IndInv, Accounting
  <2> QED
    BY <2>1, <2>2, <2>3, <2>4 DEF Accounting
<1>8. AcceptedPastSend'
  BY <1>1, <1>2, <1>4 DEF IndInv, TypeOK, Control, AcceptedPastSend
<1>9. AcceptedOnce'
  BY <1>1, <1>2, <1>4 DEF IndInv, Control, AcceptedOnce
<1>10. OnlyAccepted'
  <2>1. Elems(accepted) \subseteq Elems(accepted')
    BY <1>1, <1>2 DEF Elems
  <2> QED
    BY <2>1 DEF IndInv, Control, OnlyAccepted
<1>11. CallsKnown'
  BY DEF IndInv, TypeOK, Control, CallsKnown
<1>12. ControlPoints'
  BY DEF IndInv, Control, ControlPoints, RequestsClosed, Up
<1> QED
  BY <1>6, <1>7, <1>8, <1>9, <1>10, <1>11, <1>12 DEF IndInv, Control

\* A send that finds the channel full, or closed under an HTTP handler.
LEMMA RefuseInv ==
  ASSUME IndInv, NEW d \in Deliveries,
         \/ Send(d) /\ ~(Len(queue) < Capacity)
         \/ SendOnClosed(d) /\ d \in Commands
  PROVE  IndInv'
<1> USE DEF github, Send, SendOnClosed
<1>0. PICK point \in {"tooMany", "ended"} : pc' = [pc EXCEPT ![d] = point]
  OBVIOUS
<1>2. TypeOK'
  BY <1>0 DEF IndInv, TypeOK, HandlerPoints
<1>3. Accounting'
  BY AccountingFrame DEF IndInv
<1>4. CallsKnown'
  BY <1>0 DEF IndInv, TypeOK, Control, CallsKnown
<1>5. AcceptedPastSend' /\ AcceptedOnce' /\ OnlyAccepted'
  BY <1>0, HandlerFrame DEF IndInv, Control, HandlerPoints
<1>6. ControlPoints'
  BY DEF IndInv, Control, ControlPoints, RequestsClosed, Up
<1> QED
  BY <1>2, <1>3, <1>4, <1>5, <1>6 DEF IndInv, Control

\* The steps of a producer at the channel.
LEMMA ProducerInv ==
  ASSUME IndInv, NEW d \in Deliveries, Producer(d)
  PROVE  IndInv'
<1>1. CASE CheckStop(d) \/ Answer(d)
  BY <1>1, CheckOrAnswerInv
<1>2. CASE Send(d)
  BY <1>2, AcceptInv, RefuseInv
<1>3. CASE SendOnClosed(d)
  BY <1>3, RefuseInv, EndProcessInv DEF SendOnClosed
<1> QED
  BY <1>1, <1>2, <1>3 DEF Producer

-----------------------------------------------------------------------------
(* The worker and Stop.                                                     *)

\* Either consumer takes the head of the channel.
LEMMA TakeAccounting ==
  ASSUME TypeOK, Accounting, AcceptedOnce, queue # <<>>, queue' = Tail(queue),
         UNCHANGED <<accepted, fate>>,
         \/ job = NoJob /\ job' = Head(queue) /\ draining' = draining
         \/ draining = NoJob /\ draining' = Head(queue) /\ job' = job
  PROVE  Accounting' /\ Head(queue) \in Elems(accepted)
<1> DEFINE t == Len(accepted) - Len(queue)
<1>1. /\ queue \in Seq(Deliveries) /\ accepted \in Seq(Deliveries)
      /\ Len(queue) \in Nat /\ Len(accepted) \in Nat /\ Len(queue) > 0
      /\ Head(queue) = queue[1] /\ Head(queue) \in Deliveries
      /\ Len(queue') = Len(queue) - 1
      /\ \A i \in 1..(Len(queue) - 1) : queue'[i] = queue[i + 1]
  BY DEF TypeOK
<1>2. t \in Nat /\ Len(accepted') - Len(queue') = t + 1
  BY <1>1 DEF Accounting
<1>3. Head(queue) = accepted[t + 1] /\ t + 1 \in 1..Len(accepted)
  BY <1>1, <1>2 DEF Accounting
<1>4. \A i \in 1..Len(queue') : queue'[i] = accepted'[(t + 1) + i]
  BY <1>1, <1>2 DEF Accounting
<1>5. Head(queue) \notin {job, draining}
  BY <1>2, <1>3 DEF Accounting
<1>6. ASSUME NEW i \in 1..Len(accepted')
      PROVE  /\ i > t + 1 => /\ accepted'[i] \notin {job', draining'}
                             /\ fate'[accepted'[i]] = "none"
             /\ i <= t + 1 => (fate'[accepted'[i]] = "none"
                                 <=> accepted'[i] \in {job', draining'})
  <2>1. accepted[i] \in Deliveries /\ accepted[i] # NoJob
    BY <1>1
  <2>2. CASE i = t + 1
    BY <1>2, <1>3, <2>1, <2>2 DEF Accounting
  <2>3. CASE i # t + 1
    <3>1. accepted[i] # Head(queue)
      BY <1>3, <2>3 DEF AcceptedOnce
    <3> QED
      BY <1>1, <1>2, <2>1, <2>3, <3>1 DEF Accounting
  <2> QED
    BY <2>2, <2>3
<1>7. job' = draining' => job' = NoJob
  BY <1>1, <1>5 DEF Accounting
<1>8. Accounting'
  BY <1>2, <1>4, <1>6, <1>7 DEF Accounting
<1>9. Head(queue) \in Elems(accepted)
  BY <1>3 DEF Elems
<1> QED
  BY <1>8, <1>9

\* Either consumer settles the request it holds.
LEMMA SettleAccounting ==
  ASSUME TypeOK, Accounting, NEW outcome \in Fates \ {"none"},
         UNCHANGED <<queue, accepted>>,
         \/ /\ job # NoJob /\ fate' = [fate EXCEPT ![job] = outcome]
            /\ job' = NoJob /\ draining' = draining
         \/ /\ draining # NoJob /\ fate' = [fate EXCEPT ![draining] = outcome]
            /\ draining' = NoJob /\ job' = job
  PROVE  Accounting'
<1> DEFINE t == Len(accepted) - Len(queue)
<1>1. ASSUME NEW i \in 1..Len(accepted')
      PROVE  /\ i > t => /\ accepted'[i] \notin {job', draining'}
                         /\ fate'[accepted'[i]] = "none"
             /\ i <= t => (fate'[accepted'[i]] = "none"
                             <=> accepted'[i] \in {job', draining'})
  <2>1. accepted[i] \in Deliveries /\ accepted[i] # NoJob
    BY DEF TypeOK
  <2>2. fate \in [Deliveries -> Fates]
    BY DEF TypeOK
  <2>3. /\ i > t => accepted[i] \notin {job, draining} /\ fate[accepted[i]] = "none"
        /\ i <= t => (fate[accepted[i]] = "none" <=> accepted[i] \in {job, draining})
        /\ job = draining => job = NoJob
    BY DEF Accounting
  <2>4. CASE /\ job # NoJob /\ fate' = [fate EXCEPT ![job] = outcome]
             /\ job' = NoJob /\ draining' = draining
    BY <2>1, <2>2, <2>3, <2>4
  <2>5. CASE /\ draining # NoJob /\ fate' = [fate EXCEPT ![draining] = outcome]
             /\ draining' = NoJob /\ job' = job
    BY <2>1, <2>2, <2>3, <2>5
  <2> QED
    BY <2>4, <2>5
<1>2. job' = draining' => job' = NoJob
  BY DEF Accounting
<1> QED
  BY <1>1, <1>2 DEF Accounting

\* The worker takes a request.
LEMMA ReceiveInv == ASSUME IndInv, Receive PROVE IndInv'
<1> USE DEF Receive, WorkerUnchanged, github
<1>1. job = NoJob
  BY DEF IndInv, Control, ControlPoints, Busy
<1>2. Accounting' /\ Head(queue) \in Elems(accepted)
  BY <1>1, TakeAccounting DEF IndInv, Control
<1>3. Head(queue) \in Deliveries /\ Tail(queue) \in Seq(Deliveries)
      /\ Len(Tail(queue)) = Len(queue) - 1 /\ Len(queue) \in Nat
  BY DEF IndInv, TypeOK
<1>4. TypeOK'
  BY <1>3 DEF IndInv, TypeOK, WorkerPoints
<1>5. CallsKnown' /\ AcceptedPastSend' /\ AcceptedOnce'
  BY DEF IndInv, Control, CallsKnown, AcceptedPastSend, AcceptedOnce
<1>6. OnlyAccepted'
  BY <1>2 DEF IndInv, Control, OnlyAccepted
<1>7. ControlPoints'
  BY <1>3 DEF IndInv, Control, ControlPoints, Busy, WorkerPoints, RequestsClosed, Up
<1> QED
  BY <1>2, <1>4, <1>5, <1>6, <1>7 DEF IndInv, Control

\* The worker is done with a request, well or badly.
LEMMA SettleInv == ASSUME IndInv, Finish \/ Report PROVE IndInv'
<1> USE DEF Finish, Report, WorkerUnchanged, github
<1>1. job \in Deliveries /\ job # NoJob
  BY DEF IndInv, TypeOK, Control, ControlPoints, Busy, WorkerPoints
<1>2. PICK outcome \in Fates \ {"none"} : fate' = [fate EXCEPT ![job] = outcome]
  BY DEF Fates
<1>3. Accounting'
  BY <1>1, <1>2, SettleAccounting DEF IndInv
<1>4. told' \in [Deliveries -> SUBSET Notices]
  BY <1>1, CommentType DEF IndInv, TypeOK, Notices
<1>5. TypeOK'
  BY <1>2, <1>4 DEF IndInv, TypeOK, WorkerPoints
<1>6. CallsKnown' /\ AcceptedPastSend' /\ AcceptedOnce'
  BY DEF IndInv, Control, CallsKnown, AcceptedPastSend, AcceptedOnce
<1>7. OnlyAccepted'
  BY <1>1, <1>2 DEF IndInv, TypeOK, Control, OnlyAccepted
<1>8. ControlPoints'
  BY DEF IndInv, Control, ControlPoints, Busy, WorkerPoints, RequestsClosed, Up
<1> QED
  BY <1>3, <1>5, <1>6, <1>7, <1>8 DEF IndInv, Control

\* The steps in between touch only GitHub and the worker's program counter.
LEMMA WorkInv ==
  ASSUME IndInv,
         \/ StopListening \/ Prepare \/ Push \/ MakePR
         \/ \E listed : GetAssignee(listed)
         \/ LabelNew \/ AddDone \/ RemoveApproved
  PROVE  IndInv'
<1> USE DEF StopListening, Prepare, Push, MakePR, GetAssignee, LabelNew, AddDone,
            RemoveApproved, WorkerUnchanged, github, Target
<1>1. worker # "receive" => job \in Deliveries /\ call[job] \in Calls
  <2>1. worker # "receive" => job \in Deliveries /\ job \in Elems(accepted)
    BY DEF IndInv, TypeOK, Control, ControlPoints, OnlyAccepted, Busy, WorkerPoints
  <2> QED
    BY <2>1 DEF IndInv, Control, CallsKnown, AcceptedPastSend, Elems
<1>2. TypeOK'
  <2>1. CASE StopListening \/ Prepare \/ (\E listed : GetAssignee(listed)) \/ LabelNew
    BY <2>1 DEF IndInv, TypeOK, WorkerPoints
  <2>2. CASE Push
    <3>1. BranchOf(call[job].pr, call[job].version) \in Branches
      BY <1>1, <2>2 DEF Calls, Branches
    <3>2. branches' \subseteq Branches
      BY <2>2, <3>1 DEF IndInv, TypeOK
    <3> QED
      BY <2>2, <3>2 DEF IndInv, TypeOK, WorkerPoints
  <2>3. CASE MakePR
    <3>1. \A heard \in BOOLEAN : NewPick(heard) \in
            [pr : PRs, version : Versions, by : Deliveries, heard : BOOLEAN]
      BY <1>1, <2>3 DEF NewPick, Calls
    <3>2. \E heard \in BOOLEAN : picks' \in {picks, picks \cup {NewPick(heard)}}
      BY <2>3
    <3>3. picks' \subseteq [pr : PRs, version : Versions, by : Deliveries, heard : BOOLEAN]
      BY <3>1, <3>2 DEF IndInv, TypeOK
    <3> QED
      BY <2>3, <3>3 DEF IndInv, TypeOK, WorkerPoints
  <2>4. CASE AddDone
    <3>1. labels' \in [PRs -> SUBSET {"Approved", "Done"}]
      <4>1. call[job].pr \in PRs
        BY <1>1, <2>4 DEF Calls
      <4>2. labels[call[job].pr] \cup {"Done"} \in SUBSET {"Approved", "Done"}
        BY <4>1 DEF IndInv, TypeOK
      <4> QED
        BY <2>4, <4>1, <4>2 DEF IndInv, TypeOK
    <3>2. worker' \in WorkerPoints /\ UNCHANGED <<branches, picks, told, fate>>
      BY <2>4 DEF WorkerPoints
    <3> QED
      BY <2>4, <3>1, <3>2 DEF IndInv, TypeOK
  <2>5. CASE RemoveApproved
    <3>1. labels' \in [PRs -> SUBSET {"Approved", "Done"}]
      <4>1. call[job].pr \in PRs
        BY <1>1, <2>5 DEF Calls
      <4>2. labels[call[job].pr] \ {"Approved"} \in SUBSET {"Approved", "Done"}
        BY <4>1 DEF IndInv, TypeOK
      <4> QED
        BY <2>5, <4>1, <4>2 DEF IndInv, TypeOK
    <3> QED
      BY <2>5, <3>1 DEF IndInv, TypeOK, WorkerPoints
  <2> QED
    BY <2>1, <2>2, <2>3, <2>4, <2>5
<1>3. Accounting'
  BY AccountingFrame DEF IndInv
<1>4. CallsKnown' /\ AcceptedPastSend' /\ AcceptedOnce' /\ OnlyAccepted'
  BY DEF IndInv, Control, CallsKnown, AcceptedPastSend, AcceptedOnce, OnlyAccepted
<1>5. ControlPoints'
  BY DEF IndInv, Control, ControlPoints, Busy, WorkerPoints, RequestsClosed, Up
<1> QED
  BY <1>2, <1>3, <1>4, <1>5 DEF IndInv, Control

\* The steps of the worker.
LEMMA WorkerInv == ASSUME IndInv, Worker PROVE IndInv'
<1>1. CASE GetAssigneePanics
  BY <1>1, EndProcessInv DEF GetAssigneePanics
<1> QED
  BY <1>1, ReceiveInv, SettleInv, WorkInv DEF Worker

\* Stop closes the channels, waits, and is done with the cancellation loop.
LEMMA StopPointInv ==
  ASSUME IndInv,
         CloseStopChan \/ CloseRequests \/ SelectTimeout \/ SelectStopped \/ DrainEnd
  PROVE  IndInv'
<1> USE DEF CloseStopChan, CloseRequests, SelectTimeout, SelectStopped, DrainEnd,
            MainUnchanged, github
<1>1. TypeOK'
  BY DEF IndInv, TypeOK, MainPoints
<1>2. Accounting'
  BY AccountingFrame DEF IndInv
<1>3. CallsKnown' /\ AcceptedPastSend' /\ AcceptedOnce' /\ OnlyAccepted'
  BY DEF IndInv, Control, CallsKnown, AcceptedPastSend, AcceptedOnce, OnlyAccepted
<1>4. ControlPoints'
  BY DEF IndInv, Control, ControlPoints, Busy, WorkerPoints, RequestsClosed, Up
<1> QED
  BY <1>1, <1>2, <1>3, <1>4 DEF IndInv, Control

\* The cancellation loop takes the head of the channel.
LEMMA DrainTakeInv == ASSUME IndInv, DrainTake PROVE IndInv'
<1> USE DEF DrainTake, MainUnchanged, github
<1>1. Accounting' /\ Head(queue) \in Elems(accepted)
  BY TakeAccounting DEF IndInv, Control
<1>2. Head(queue) \in Deliveries /\ Tail(queue) \in Seq(Deliveries)
      /\ Len(Tail(queue)) = Len(queue) - 1 /\ Len(queue) \in Nat
  BY DEF IndInv, TypeOK
<1>3. TypeOK'
  BY <1>2 DEF IndInv, TypeOK
<1>4. CallsKnown' /\ AcceptedPastSend' /\ AcceptedOnce'
  BY DEF IndInv, Control, CallsKnown, AcceptedPastSend, AcceptedOnce
<1>5. OnlyAccepted'
  BY <1>1 DEF IndInv, Control, OnlyAccepted
<1>6. ControlPoints'
  BY DEF IndInv, Control, ControlPoints, Busy, WorkerPoints, RequestsClosed, Up
<1> QED
  BY <1>1, <1>3, <1>4, <1>5, <1>6 DEF IndInv, Control

\* The cancellation loop settles its request.
LEMMA DrainCancelInv == ASSUME IndInv, DrainCancel PROVE IndInv'
<1> USE DEF DrainCancel, MainUnchanged, github
<1>1. draining \in Deliveries /\ draining # NoJob
  BY DEF IndInv, TypeOK
<1>2. "canceled" \in Fates \ {"none"} /\ "canceled" \in Notices
  BY DEF Fates, Notices
<1>3. Accounting'
  BY <1>1, <1>2, SettleAccounting DEF IndInv
<1>4. told' \in [Deliveries -> SUBSET Notices]
  BY <1>1, <1>2, CommentType DEF IndInv
<1>5. TypeOK'
  BY <1>2, <1>4 DEF IndInv, TypeOK
<1>6. CallsKnown' /\ AcceptedPastSend' /\ AcceptedOnce'
  BY DEF IndInv, Control, CallsKnown, AcceptedPastSend, AcceptedOnce
<1>7. OnlyAccepted'
  BY <1>1 DEF IndInv, TypeOK, Control, OnlyAccepted
<1>8. ControlPoints'
  BY DEF IndInv, Control, ControlPoints, Busy, WorkerPoints, RequestsClosed, Up
<1> QED
  BY <1>3, <1>5, <1>6, <1>7, <1>8 DEF IndInv, Control

\* A new process, or a new approval.
LEMMA EnvironmentInv ==
  ASSUME IndInv, Restart \/ \E p \in PRs : Approve(p)
  PROVE  IndInv'
<1> USE DEF Restart, Approve, github
<1>1. TypeOK'
  <2>1. CASE Restart
    BY <2>1 DEF IndInv, TypeOK, MainPoints, WorkerPoints
  <2>2. ASSUME NEW p \in PRs, Approve(p) PROVE TypeOK'
    <3>1. labels[p] \cup {"Approved"} \in SUBSET {"Approved", "Done"}
      BY DEF IndInv, TypeOK
    <3>2. labels' \in [PRs -> SUBSET {"Approved", "Done"}]
      BY <2>2, <3>1 DEF IndInv, TypeOK
    <3> QED
      BY <2>2, <3>2 DEF IndInv, TypeOK
  <2> QED
    BY <2>1, <2>2
<1>2. Accounting'
  BY AccountingFrame DEF IndInv
<1>3. CallsKnown' /\ AcceptedPastSend' /\ AcceptedOnce' /\ OnlyAccepted'
  BY DEF IndInv, Control, CallsKnown, AcceptedPastSend, AcceptedOnce, OnlyAccepted
<1>4. ControlPoints'
  BY DEF IndInv, Control, ControlPoints, Busy, WorkerPoints, RequestsClosed, Up
<1> QED
  BY <1>1, <1>2, <1>3, <1>4 DEF IndInv, Control

\* Nothing changes.
LEMMA StutterInv == ASSUME IndInv, UNCHANGED vars PROVE IndInv'
<1>1. TypeOK'
  BY DEF IndInv, TypeOK, vars
<1>2. Accounting'
  BY AccountingFrame DEF IndInv, vars
<1>3. CallsKnown' /\ AcceptedPastSend' /\ AcceptedOnce' /\ OnlyAccepted'
  BY DEF IndInv, Control, CallsKnown, AcceptedPastSend, AcceptedOnce, OnlyAccepted, vars
<1>4. ControlPoints'
  BY DEF IndInv, Control, ControlPoints, RequestsClosed, Up, vars
<1> QED
  BY <1>1, <1>2, <1>3, <1>4 DEF IndInv, Control

\* Every step keeps the inductive invariant.
LEMMA NextInv == IndInv /\ [Next]_vars => IndInv'
<1> SUFFICES ASSUME IndInv, [Next]_vars PROVE IndInv'
  OBVIOUS
<1>1. CASE Arrive
  BY <1>1, HandleCherryPickInv, CheckIfNeedCherryPickInv DEF Arrive
<1>2. CASE \E d \in Deliveries : Producer(d)
  BY <1>2, ProducerInv
<1>3. CASE Worker
  BY <1>3, WorkerInv
<1>4. CASE CloseStopChan
  BY <1>4, StopPointInv
<1>5. CASE Stop
  <2>1. CASE Exit
    BY <2>1, EndProcessInv DEF Exit
  <2> QED
    BY <1>5, <2>1, StopPointInv, DrainTakeInv, DrainCancelInv DEF Stop
<1>6. CASE Restart \/ \E p \in PRs : Approve(p)
  BY <1>6, EnvironmentInv
<1>7. CASE Terminated \/ UNCHANGED vars
  BY <1>7, StutterInv DEF Terminated
<1>8. CASE ServeFails
  BY <1>8, EndProcessInv DEF ServeFails
<1> QED
  BY <1>1, <1>2, <1>3, <1>4, <1>5, <1>6, <1>7, <1>8 DEF Next

\* The whole inductive invariant holds in every reachable state.
THEOREM Inductive == Spec => []IndInv
<1>1. IndInv /\ [Next]_vars => IndInv'
  BY NextInv
<1> QED
  BY InitInv, <1>1, PTL DEF Spec

\* Type correctness: in particular the channel never holds more than Capacity
\* requests.
THEOREM TypeCorrect == Spec => []TypeOK
<1>1. IndInv => TypeOK
  BY DEF IndInv
<1> QED
  BY Inductive, <1>1, PTL

\* No request is dropped or served twice between the producers, the worker and
\* the cancellation loop of Stop, and the channel is a FIFO for both.
THEOREM RequestsAccountedFor == Spec => []Accounting
<1>1. IndInv => Accounting
  BY DEF IndInv
<1> QED
  BY Inductive, <1>1, PTL

-----------------------------------------------------------------------------
(* The order of service.                                                    *)

\* Whoever takes a request had none.
LEMMA OrderFrame ==
  ASSUME TypeOK, ServedInOrder, UNCHANGED <<accepted, fate>>,
         job' = job \/ job = NoJob, draining' = draining \/ draining = NoJob
  PROVE  ServedInOrder'
<1>1. \A i \in 1..Len(accepted) : accepted[i] # NoJob
  BY DEF TypeOK
<1> QED
  BY <1>1 DEF ServedInOrder

\* A request that is accepted is not settled.
LEMMA OrderAccept ==
  ASSUME IndInv, ServedInOrder, NEW d \in Deliveries, accepted' = Append(accepted, d),
         pc[d] = "send", UNCHANGED <<fate, job, draining>>
  PROVE  ServedInOrder'
<1>1. /\ Len(accepted) \in Nat /\ Len(accepted') = Len(accepted) + 1
      /\ \A i \in 1..Len(accepted) : accepted'[i] = accepted[i]
      /\ accepted'[Len(accepted) + 1] = d
  BY DEF IndInv, TypeOK
<1>2. fate[d] = "none"
  <2>1. d \notin Elems(accepted)
    BY DEF IndInv, Control, AcceptedPastSend, Elems
  <2> QED
    BY <2>1 DEF IndInv, Control, OnlyAccepted
<1>3. ASSUME NEW i \in 1..Len(accepted'), NEW j \in 1..Len(accepted'), i < j,
             fate[accepted'[j]] # "none"
      PROVE  /\ i \in 1..Len(accepted) /\ j \in 1..Len(accepted)
             /\ accepted'[i] = accepted[i] /\ accepted'[j] = accepted[j]
  BY <1>1, <1>2, <1>3
<1> QED
  BY <1>3 DEF ServedInOrder

\* The worker settles its request: everything accepted before is settled or with the
\* cancellation loop, for the worker has only one request.
LEMMA OrderSettle ==
  ASSUME IndInv, ServedInOrder, job # NoJob, NEW outcome \in {"done", "failed"},
         fate' = [fate EXCEPT ![job] = outcome], job' = NoJob,
         UNCHANGED <<accepted, queue, draining>>
  PROVE  ServedInOrder'
<1>1. job \in Deliveries /\ fate \in [Deliveries -> Fates]
  BY DEF IndInv, TypeOK
<1>2. ASSUME NEW i \in 1..Len(accepted), NEW j \in 1..Len(accepted), i < j,
             fate[accepted[j]] # "none" \/ accepted[j] = job
      PROVE  fate[accepted[i]] # "none" \/ accepted[i] \in {job, draining}
  <2> DEFINE taken == Len(accepted) - Len(queue)
  <2>1. Len(accepted) \in Nat /\ Len(queue) \in Nat
    BY DEF IndInv, TypeOK
  <2>2. j <= taken
    BY <1>2, <2>1 DEF IndInv, Accounting
  <2>3. i <= taken
    BY <1>2, <2>1, <2>2
  <2> QED
    BY <2>3 DEF IndInv, Accounting
<1>3. \A i \in 1..Len(accepted) :
        /\ accepted[i] \in Deliveries
        /\ fate'[accepted[i]] = IF accepted[i] = job THEN outcome ELSE fate[accepted[i]]
  BY <1>1 DEF IndInv, TypeOK
<1>4. ASSUME NEW i \in 1..Len(accepted), NEW j \in 1..Len(accepted), i < j
      PROVE  /\ fate'[accepted[j]] \in {"done", "failed"}
                  => fate'[accepted[i]] # "none" \/ accepted[i] = draining
             /\ fate'[accepted[j]] = "canceled"
                  => fate'[accepted[i]] # "none" \/ accepted[i] = job'
  <2>1. CASE accepted[i] = job
    BY <1>3, <2>1
  <2>2. CASE accepted[i] # job /\ accepted[j] = job
    BY <1>2, <1>3, <1>4, <2>2
  <2>3. CASE accepted[i] # job /\ accepted[j] # job
    BY <1>3, <1>4, <2>3 DEF ServedInOrder
  <2> QED
    BY <2>1, <2>2, <2>3
<1> QED
  BY <1>4 DEF ServedInOrder

\* So does the cancellation loop.
LEMMA OrderCancel ==
  ASSUME IndInv, ServedInOrder, DrainCancel
  PROVE  ServedInOrder'
<1> USE DEF DrainCancel, MainUnchanged
<1>1. draining \in Deliveries /\ draining # NoJob /\ fate \in [Deliveries -> Fates]
  BY DEF IndInv, TypeOK
<1>2. ASSUME NEW i \in 1..Len(accepted), NEW j \in 1..Len(accepted), i < j,
             accepted[j] = draining
      PROVE  fate[accepted[i]] # "none" \/ accepted[i] \in {job, draining}
  <2> DEFINE taken == Len(accepted) - Len(queue)
  <2>1. Len(accepted) \in Nat /\ Len(queue) \in Nat
    BY DEF IndInv, TypeOK
  <2>2. j <= taken
    BY <1>2, <2>1 DEF IndInv, Accounting
  <2>3. i <= taken
    BY <1>2, <2>1, <2>2
  <2> QED
    BY <2>3 DEF IndInv, Accounting
<1>3. \A i \in 1..Len(accepted) :
        /\ accepted[i] \in Deliveries
        /\ fate'[accepted[i]] =
             IF accepted[i] = draining THEN "canceled" ELSE fate[accepted[i]]
  BY <1>1 DEF IndInv, TypeOK
<1>4. ASSUME NEW i \in 1..Len(accepted), NEW j \in 1..Len(accepted), i < j
      PROVE  /\ fate'[accepted[j]] \in {"done", "failed"}
                  => fate'[accepted[i]] # "none" \/ accepted[i] = draining'
             /\ fate'[accepted[j]] = "canceled"
                  => fate'[accepted[i]] # "none" \/ accepted[i] = job
  <2>1. CASE accepted[i] = draining
    BY <1>3, <2>1
  <2>2. CASE accepted[i] # draining /\ accepted[j] = draining
    BY <1>2, <1>3, <1>4, <2>2
  <2>3. CASE accepted[i] # draining /\ accepted[j] # draining
    BY <1>3, <1>4, <2>3 DEF ServedInOrder
  <2> QED
    BY <2>1, <2>2, <2>3
<1> QED
  BY <1>4 DEF ServedInOrder

\* A process that ends leaves nothing unsettled.
LEMMA OrderEnd ==
  ASSUME IndInv, NEW how, EndProcess(how), UNCHANGED accepted
  PROVE  ServedInOrder'
<1>1. \A i \in 1..Len(accepted) : fate'[accepted[i]] # "none"
  BY DEF IndInv, TypeOK, EndProcess, Outstanding, Elems
<1> QED
  BY <1>1 DEF ServedInOrder

LEMMA OrderNext ==
  ASSUME IndInv, ServedInOrder, [Next]_vars
  PROVE  ServedInOrder'
<1>0. TypeOK
  BY DEF IndInv
<1>1. CASE Arrive
  BY <1>0, <1>1, OrderFrame DEF Arrive, HandleCherryPick, CheckIfNeedCherryPick
<1>2. ASSUME NEW d \in Deliveries, Producer(d)
      PROVE  ServedInOrder'
  <2>1. CASE UNCHANGED <<accepted, fate, job, draining>>
    BY <1>0, <2>1, OrderFrame
  <2>2. CASE Send(d)
    BY <2>1, <2>2, OrderAccept DEF Send
  <2>3. CASE SendOnClosed(d)
    BY <2>1, <2>3, OrderEnd DEF SendOnClosed
  <2> QED
    BY <1>2, <2>1, <2>2, <2>3 DEF Producer, CheckStop, Answer
<1>3. CASE Worker
  <2> USE DEF WorkerUnchanged
  <2>1. job # NoJob <=> worker \in Busy
    BY DEF IndInv, Control, ControlPoints
  <2>2. CASE Receive
    BY <1>0, <2>1, <2>2, OrderFrame DEF Receive, Busy
  <2>3. CASE Finish \/ Report
    <3>1. job # NoJob
      BY <2>1, <2>3 DEF Finish, Report, Busy, WorkerPoints
    <3>2. \E outcome \in {"done", "failed"} : fate' = [fate EXCEPT ![job] = outcome]
      BY <2>3 DEF Finish, Report
    <3> QED
      BY <2>3, <3>1, <3>2, OrderSettle DEF Finish, Report
  <2>4. CASE GetAssigneePanics
    BY <2>4, OrderEnd DEF GetAssigneePanics
  <2>5. CASE UNCHANGED <<accepted, fate, job, draining>>
    BY <1>0, <2>5, OrderFrame
  <2> QED
    BY <1>3, <2>2, <2>3, <2>4, <2>5 DEF Worker, StopListening, Prepare, Push, MakePR,
       GetAssignee, LabelNew, AddDone, RemoveApproved
<1>4. CASE CloseStopChan \/ ServeFails \/ Stop
  <2> USE DEF MainUnchanged
  <2>1. CASE CloseStopChan \/ CloseRequests \/ SelectTimeout \/ SelectStopped \/ DrainEnd
             \/ DrainTake
    BY <1>0, <2>1, OrderFrame DEF CloseStopChan, CloseRequests, SelectTimeout,
       SelectStopped, DrainEnd, DrainTake
  <2>2. CASE ServeFails \/ Exit
    BY <2>2, OrderEnd DEF ServeFails, Exit
  <2> QED
    BY <1>4, <2>1, <2>2, OrderCancel DEF Stop
<1>5. CASE Restart \/ Terminated \/ UNCHANGED vars \/ \E p \in PRs : Approve(p)
  BY <1>0, <1>5, OrderFrame DEF Restart, Terminated, vars, Approve
<1> QED
  BY <1>1, <1>2, <1>3, <1>4, <1>5 DEF Next

\* While the worker and Stop's cancellation loop empty the channel between them,
\* neither overtakes a request that is not in the hands of the other
\* (cherry_pick.go:38-80).
THEOREM InOrder == Spec => []ServedInOrder
<1>1. Init => ServedInOrder
  BY DEF Init, ServedInOrder
<1>2. IndInv /\ ServedInOrder /\ [Next]_vars => ServedInOrder'
  BY OrderNext
<1> QED
  BY Inductive, <1>1, <1>2, PTL DEF Spec

-----------------------------------------------------------------------------
(* Action properties and the protocol on GitHub.                            *)

\* Only Exit ends the process in an orderly way.
LEMMA ExitOnly ==
  ASSUME [Next]_vars, main' = "exited", main # "exited"
  PROVE  main = "shutdown"
<1>1. CASE Arrive
  BY <1>1 DEF Arrive, HandleCherryPick, CheckIfNeedCherryPick
<1>2. CASE \E d \in Deliveries : Producer(d)
  BY <1>2 DEF Producer, CheckStop, Send, SendOnClosed, Answer, EndProcess
<1>3. CASE Worker
  BY <1>3 DEF Worker, Receive, StopListening, Prepare, Push, MakePR, GetAssignee,
     GetAssigneePanics, EndProcess, LabelNew, AddDone, RemoveApproved, Finish,
     Report, WorkerUnchanged
<1>4. CASE CloseStopChan \/ ServeFails \/ Stop
  BY <1>4 DEF CloseStopChan, ServeFails, EndProcess, Stop, CloseRequests, SelectTimeout,
     SelectStopped, DrainTake, DrainCancel, DrainEnd, Exit
<1>5. CASE Restart \/ \E p \in PRs : Approve(p)
  BY <1>5 DEF Restart, Approve
<1>6. CASE Terminated \/ UNCHANGED vars
  BY <1>6 DEF Terminated, vars
<1> QED
  BY <1>1, <1>2, <1>3, <1>4, <1>5, <1>6 DEF Next

\* An orderly Stop settles everything but the request the worker is busy with.
THEOREM OrderlyExit == Spec => OrderlyExitDrains
<1>1. ASSUME IndInv, [Next]_vars, main' = "exited", main # "exited"
      PROVE  \A d \in Outstanding : d = job
  <2>1. main = "shutdown"
    BY <1>1, ExitOnly
  <2>2. queue = <<>> /\ draining = NoJob
    BY <1>1, <2>1 DEF IndInv, Control, ControlPoints
  <2>3. \A i \in 1..Len(accepted) :
          fate[accepted[i]] = "none" => accepted[i] = job
    <3>1. Len(queue) = 0 /\ Len(accepted) \in Nat
      BY <1>1, <2>2 DEF IndInv, TypeOK
    <3>2. \A i \in 1..Len(accepted) : accepted[i] # NoJob
      BY <1>1 DEF IndInv, TypeOK
    <3> QED
      BY <1>1, <2>2, <3>1, <3>2 DEF IndInv, Accounting
  <2> QED
    BY <2>3 DEF Outstanding, Elems
<1>2. IndInv /\ [Next]_vars
        => [main' = "exited" /\ main # "exited" => \A d \in Outstanding : d = job]_vars
  BY <1>1
<1> QED
  BY Inductive, <1>2, PTL DEF Spec, OrderlyExitDrains

\* A step that leaves the worker, its request and GitHub alone keeps the
\* protocol, whoever else calls.
LEMMA ProtocolFrame ==
  ASSUME IndInv, PickProtocol, OnePickPerTarget, NEW d \in Deliveries,
         \A e \in Deliveries : e # d => call'[e] = call[e],
         call' = call \/ pc[d] \in {"idle", "check", "send"},
         UNCHANGED <<worker, job, github>>
  PROVE  PickProtocol' /\ OnePickPerTarget'
<1>1. worker \in Busy => job \in Deliveries /\ call'[job] = call[job]
  <2>1. worker \in Busy => job \in Deliveries /\ job \in Elems(accepted)
    BY DEF IndInv, TypeOK, Control, ControlPoints, OnlyAccepted
  <2>2. worker \in Busy => pc[job] \in {"scheduled", "ended"}
    BY <2>1 DEF IndInv, Control, AcceptedPastSend, Elems
  <2> QED
    BY <2>1, <2>2
<1>2. PickProtocol'
  BY <1>1 DEF PickProtocol, Target, NewPick, Picked, Busy, WorkerPoints, github
<1>3. OnePickPerTarget'
  BY DEF OnePickPerTarget, github
<1> QED
  BY <1>2, <1>3

\* A worker that stands at none of the protocol's points keeps it.
LEMMA ProtocolIdle ==
  ASSUME PickProtocol, OnePickPerTarget, worker' \notin Picked \cup {"makePR"},
         branches \subseteq branches', UNCHANGED picks
  PROVE  PickProtocol' /\ OnePickPerTarget'
BY DEF PickProtocol, OnePickPerTarget, Picked

\* The worker's steps from the push on.
LEMMA ProtocolWorker ==
  ASSUME IndInv, PickProtocol, OnePickPerTarget, Worker
  PROVE  PickProtocol' /\ OnePickPerTarget'
<1> USE DEF WorkerUnchanged, github
<1>1. CASE Receive \/ StopListening \/ Prepare \/ Finish \/ Report \/ GetAssigneePanics
  BY <1>1, ProtocolIdle DEF Receive, StopListening, Prepare, Finish, Report,
     GetAssigneePanics, EndProcess, Picked
<1>2. CASE Push
  <2>1. \A x \in picks : BranchOf(x.pr, x.version) \in branches'
    BY <1>2 DEF Push, PickProtocol
  <2>2. worker' = "makePR" => /\ Target' \in branches'
                            /\ \A x \in picks' : BranchOf(x.pr, x.version) # Target'
    BY <1>2 DEF Push, PickProtocol, Target
  <2>3. worker' \notin Picked /\ worker' # "removeApproved"
    BY <1>2 DEF Push, Picked
  <2>4. OnePickPerTarget'
    BY <1>2 DEF Push, OnePickPerTarget
  <2> QED
    BY <1>2, <2>1, <2>2, <2>3, <2>4 DEF Push, PickProtocol
<1>3. CASE MakePR
  <2>1. CASE worker' = "report" /\ UNCHANGED picks
    BY <1>3, <2>1, ProtocolIdle DEF MakePR, Picked
  <2>2. ASSUME NEW heard \in BOOLEAN, picks' = picks \cup {NewPick(heard)},
               worker' = IF heard THEN "assignee" ELSE "report"
        PROVE  PickProtocol' /\ OnePickPerTarget'
    <3> DEFINE new == NewPick(heard)
    <3>0. /\ BranchOf(new.pr, new.version) = Target
          /\ new \in picks' /\ \A x \in picks' : x \in picks \/ x = new
          /\ UNCHANGED <<call, job, branches>> /\ worker = "makePR"
      BY <1>3, <2>2 DEF MakePR, Target, NewPick
    <3>1. worker' \in Picked => NewPick(TRUE)' \in picks'
      BY <2>2, <3>0 DEF NewPick, Picked
    <3> HIDE DEF new
    <3>2. \A x \in picks' : BranchOf(x.pr, x.version) \in branches'
      BY <3>0 DEF PickProtocol
    <3>3. OnePickPerTarget'
      BY <3>0 DEF PickProtocol, OnePickPerTarget
    <3> QED
      BY <2>2, <3>1, <3>2, <3>3 DEF PickProtocol
  <2>3. \/ worker' = "report" /\ UNCHANGED picks
        \/ \E heard \in BOOLEAN : /\ picks' = picks \cup {NewPick(heard)}
                                  /\ worker' = IF heard THEN "assignee" ELSE "report"
    BY <1>3 DEF MakePR
  <2> QED
    BY <2>1, <2>2, <2>3
<1>4. CASE \/ \E listed \in BOOLEAN : GetAssignee(listed)
          \/ LabelNew \/ AddDone \/ RemoveApproved
  <2>1. worker \in Picked /\ worker' \in Picked /\ UNCHANGED <<call, job, branches, picks>>
    BY <1>4 DEF GetAssignee, LabelNew, AddDone, RemoveApproved, Picked
  <2>2. worker' = "removeApproved" => "Done" \in labels'[call'[job'].pr]
    <3>1. ASSUME AddDone, worker' = "removeApproved"
          PROVE  "Done" \in labels'[call'[job'].pr]
      <4>1. job \in Deliveries /\ job \in Elems(accepted)
        BY <3>1 DEF AddDone, IndInv, TypeOK, Control, ControlPoints, OnlyAccepted,
           Busy, WorkerPoints
      <4>2. call[job] \in Calls
        BY <4>1 DEF IndInv, Control, CallsKnown, AcceptedPastSend, Elems
      <4>3. call[job].pr \in PRs
        BY <4>2 DEF Calls
      <4> QED
        BY <3>1, <4>3 DEF AddDone, IndInv, TypeOK
    <3> QED
      BY <1>4, <3>1 DEF GetAssignee, LabelNew, RemoveApproved
  <2>3. OnePickPerTarget'
    BY <2>1 DEF OnePickPerTarget
  <2> QED
    BY <2>1, <2>2, <2>3 DEF PickProtocol, NewPick, Picked
<1> QED
  BY <1>1, <1>2, <1>3, <1>4 DEF Worker

\* Every step keeps the protocol.
LEMMA ProtocolNext ==
  ASSUME IndInv, PickProtocol, OnePickPerTarget, [Next]_vars
  PROVE  PickProtocol' /\ OnePickPerTarget'
<1>1. CASE Arrive
  <2>1. PICK d \in Deliveries :
          /\ pc[d] = "idle"
          /\ \A e \in Deliveries : e # d => call'[e] = call[e]
          /\ UNCHANGED <<worker, job, github>>
    BY <1>1 DEF Arrive, HandleCherryPick, CheckIfNeedCherryPick, IndInv, TypeOK
  <2> QED
    BY <2>1, ProtocolFrame
<1>2. CASE \E d \in Deliveries : Producer(d)
  <2>1. PICK d \in Deliveries : Producer(d)
    BY <1>2
  <2>2. CASE UNCHANGED <<call, worker, job, github>>
    BY <2>2, ProtocolFrame
  <2>3. CASE EndProcess("crashed") /\ UNCHANGED github
    BY <2>3, ProtocolIdle DEF EndProcess, Picked, github
  <2> QED
    BY <2>1, <2>2, <2>3 DEF Producer, CheckStop, Send, SendOnClosed, Answer
<1>3. CASE Worker
  BY <1>3, ProtocolWorker
<1>4. CASE CloseStopChan \/ ServeFails \/ Stop \/ Terminated \/ UNCHANGED vars
  <2>1. CASE Exit \/ ServeFails
    BY <2>1, ProtocolIdle DEF Exit, ServeFails, EndProcess, Picked, github
  <2>2. CASE UNCHANGED <<call, worker, job, github>>
    BY <2>2 DEF PickProtocol, OnePickPerTarget, Target, NewPick, github
  <2> QED
    BY <1>4, <2>1, <2>2 DEF CloseStopChan, Stop, CloseRequests, SelectTimeout,
       SelectStopped, DrainTake, DrainCancel, DrainEnd, MainUnchanged, Terminated,
       vars, github
<1>5. CASE Restart
  BY <1>5, ProtocolIdle DEF Restart, Picked, github
<1>6. ASSUME NEW p \in PRs, Approve(p) PROVE PickProtocol' /\ OnePickPerTarget'
  <2>1. \A q \in PRs : "Done" \in labels[q] => "Done" \in labels'[q]
    BY <1>6 DEF Approve, IndInv, TypeOK
  <2>2. worker = "removeApproved" => call[job].pr \in PRs
    <3>1. worker = "removeApproved" => job \in Deliveries /\ job \in Elems(accepted)
      BY DEF IndInv, TypeOK, Control, ControlPoints, OnlyAccepted, Busy, WorkerPoints
    <3>2. worker = "removeApproved" => call[job] \in Calls
      BY <3>1 DEF IndInv, Control, CallsKnown, AcceptedPastSend, Elems
    <3> QED
      BY <3>2 DEF Calls
  <2> QED
    BY <1>6, <2>1, <2>2 DEF Approve, PickProtocol, OnePickPerTarget, Target, NewPick
<1> QED
  BY <1>1, <1>2, <1>3, <1>4, <1>5, <1>6 DEF Next

\* The protocol holds in every reachable state.
LEMMA Protocol == Spec => [](IndInv /\ PickProtocol /\ OnePickPerTarget)
<1>1. Init => PickProtocol /\ OnePickPerTarget
  BY DEF Init, PickProtocol, OnePickPerTarget, Picked
<1>2. IndInv /\ PickProtocol /\ OnePickPerTarget /\ [Next]_vars
        => PickProtocol' /\ OnePickPerTarget'
  BY ProtocolNext
<1> QED
  BY Inductive, <1>1, <1>2, PTL DEF Spec

\* However many deliveries ask for it, in however many lives of the process, a
\* pull request gets at most one cherry pick per release branch.
THEOREM AtMostOnePick == Spec => []OnePickPerTarget
BY Protocol, PTL

\* The bot takes an approval away only from a pull request that is marked done
\* and has a cherry pick.
THEOREM ApprovalKept == Spec => ApprovalNotLost
<1> DEFINE Kept == \A p \in PRs :
             "Approved" \in labels[p] /\ "Approved" \notin labels'[p]
               => "Done" \in labels'[p] /\ \E x \in picks : x.pr = p
<1>1. ASSUME IndInv, PickProtocol, [Next]_vars
      PROVE  [Kept]_vars
  <2>1. CASE UNCHANGED labels
    BY <2>1
  <2>2. ASSUME NEW p \in PRs, Approve(p) PROVE Kept
    BY <1>1, <2>2 DEF Approve, IndInv, TypeOK
  <2>3. ASSUME AddDone, ~UNCHANGED labels PROVE Kept
    <3>1. labels' = [labels EXCEPT ![call[job].pr] = @ \cup {"Done"}]
      BY <2>3 DEF AddDone
    <3> QED
      BY <1>1, <3>1 DEF IndInv, TypeOK
  <2>4. ASSUME RemoveApproved, ~UNCHANGED labels PROVE Kept
    <3>1. labels' = [labels EXCEPT ![call[job].pr] = @ \ {"Approved"}]
      BY <2>4 DEF RemoveApproved
    <3>2. "Done" \in labels[call[job].pr] /\ \E x \in picks : x.pr = call[job].pr
      BY <1>1, <2>4 DEF RemoveApproved, PickProtocol, Picked, NewPick
    <3> QED
      BY <1>1, <3>1, <3>2 DEF IndInv, TypeOK
  <2>5. CASE Arrive
    BY <2>1, <2>5 DEF Arrive, HandleCherryPick, CheckIfNeedCherryPick, github
  <2>6. CASE \E d \in Deliveries : Producer(d)
    BY <2>1, <2>6 DEF Producer, CheckStop, Send, SendOnClosed, Answer, github
  <2>7. CASE Worker
    BY <2>1, <2>3, <2>4, <2>7 DEF Worker, Receive, StopListening, Prepare, Push,
       MakePR, GetAssignee, GetAssigneePanics, LabelNew, Finish, Report, github
  <2>8. CASE CloseStopChan \/ ServeFails \/ Stop \/ Restart \/ Terminated \/ UNCHANGED vars
    BY <2>1, <2>8 DEF CloseStopChan, ServeFails, Stop, CloseRequests, SelectTimeout,
       SelectStopped, DrainTake, DrainCancel, DrainEnd, Exit, MainUnchanged, Restart,
       Terminated, vars, github
  <2> QED
    BY <1>1, <2>2, <2>5, <2>6, <2>7, <2>8 DEF Next
<1>2. IndInv /\ PickProtocol /\ [Next]_vars => [Kept]_vars
  BY <1>1
<1> QED
  BY Protocol, <1>2, PTL DEF Spec, ApprovalNotLost

-----------------------------------------------------------------------------
(* The notices.                                                             *)

\* What has been told, or is about to be, was decided for good.
ToldInv ==
  \A d \in Deliveries :
    /\ "tooMany" \in told[d] => pc[d] = "ended" /\ d \notin Elems(accepted)
    /\ pc[d] = "scheduled" \/ "scheduled" \in told[d] => d \in Elems(accepted)
    /\ "error" \in told[d] => fate[d] = "failed"
    /\ "canceled" \in told[d] => fate[d] = "canceled"

\* Whose cherry pick was opened is done or lost, or with the worker; unless hub's
\* answer was lost, then it has failed or is about to.  Who is done has one.
PickFate ==
  /\ \A x \in picks :
       IF x.heard
       THEN fate[x.by] \in {"done", "lost"} \/ (x.by = job /\ worker \in Picked)
       ELSE fate[x.by] \in {"failed", "lost"} \/ (x.by = job /\ worker = "report")
  /\ \A d \in Deliveries : fate[d] = "done" => \E x \in picks : x.by = d /\ x.heard

\* A request that somebody holds is not settled.
LEMMA HeldIsUnsettled ==
  ASSUME IndInv, NEW d \in {job, draining}, d # NoJob
  PROVE  d \in Deliveries /\ fate[d] = "none" /\ d \in Outstanding
<1>1. d \in Deliveries /\ d \in Elems(accepted)
  BY DEF IndInv, TypeOK, Control, OnlyAccepted
<1>2. PICK i \in 1..Len(accepted) : accepted[i] = d
  BY <1>1 DEF Elems
<1>3. fate[d] = "none"
  <2>1. Len(accepted) \in Nat /\ Len(queue) \in Nat
    BY DEF IndInv, TypeOK
  <2> QED
    BY <1>2, <2>1 DEF IndInv, Accounting
<1> QED
  BY <1>1, <1>3 DEF Outstanding

\* A step keeps the notices true if it posts none, accepts nothing, and settles
\* only what was not settled.
LEMMA ToldFrame ==
  ASSUME ToldInv, UNCHANGED <<told, accepted>>,
         \A d \in Deliveries : fate'[d] = fate[d] \/ fate[d] = "none",
         \A d \in Deliveries : pc[d] = "ended" => pc'[d] = "ended",
         \A d \in Deliveries : pc'[d] = "scheduled" => pc[d] = "scheduled"
  PROVE  ToldInv'
BY DEF ToldInv, Elems

\* The end of the process is such a step.
LEMMA ToldEnd ==
  ASSUME IndInv, ToldInv, NEW how, EndProcess(how), UNCHANGED <<told, accepted>>
  PROVE  ToldInv'
<1>1. \A d \in Deliveries : fate'[d] = fate[d] \/ fate[d] = "none"
  BY DEF EndProcess, Outstanding
<1>2. \A d \in Deliveries : pc'[d] = IF pc[d] = "idle" THEN "idle" ELSE "ended"
  BY DEF EndProcess
<1> QED
  BY <1>1, <1>2, ToldFrame

\* A request is accepted, or refused, whose delivery was told nothing yet.
LEMMA ToldSend ==
  ASSUME IndInv, ToldInv, NEW d \in Deliveries, Send(d)
  PROVE  ToldInv'
<1>1. pc \in [Deliveries -> HandlerPoints] /\ accepted \in Seq(Deliveries)
  BY DEF IndInv, TypeOK
<1>2. CASE UNCHANGED accepted
  BY <1>1, <1>2, ToldFrame DEF Send
<1>3. CASE accepted' = Append(accepted, d)
  <2>1. Elems(accepted') = Elems(accepted) \cup {d}
    BY <1>1, <1>3 DEF Elems
  <2>2. pc' = [pc EXCEPT ![d] = "scheduled"] /\ UNCHANGED <<told, fate>> /\ pc[d] = "send"
    <3>1. accepted' # accepted
      BY <1>1, <1>3
    <3> QED
      BY <3>1 DEF Send
  <2> QED
    BY <1>1, <2>1, <2>2 DEF ToldInv
<1> QED
  BY <1>2, <1>3 DEF Send

\* The answer says what became of the request at the channel.
LEMMA ToldAnswer ==
  ASSUME IndInv, ToldInv, NEW d \in Deliveries, Answer(d)
  PROVE  ToldInv'
<1>1. /\ pc \in [Deliveries -> HandlerPoints] /\ told \in [Deliveries -> SUBSET Notices]
      /\ pc[d] \in {"scheduled", "tooMany"}
      /\ pc' = [pc EXCEPT ![d] = "ended"] /\ UNCHANGED <<accepted, fate>>
  BY DEF IndInv, TypeOK, Answer
<1>2. pc[d] = "tooMany" => d \notin Elems(accepted)
  BY DEF IndInv, Control, AcceptedPastSend, Elems
<1>3. told' = told \/ told' = [told EXCEPT ![d] = @ \cup {pc[d]}]
  BY DEF Answer, Comment
<1> QED
  BY <1>1, <1>2, <1>3 DEF ToldInv

\* A request is settled by its holder, who says so or not.
LEMMA ToldSettle ==
  ASSUME IndInv, ToldInv, NEW d \in {job, draining}, d # NoJob,
         NEW result \in {<<"error", "failed">>, <<"canceled", "canceled">>},
         Comment(d, result[1]), fate' = [fate EXCEPT ![d] = result[2]],
         UNCHANGED <<pc, accepted>>
  PROVE  ToldInv'
<1>1. d \in Deliveries /\ fate[d] = "none"
  BY HeldIsUnsettled
<1>2. told' = told \/ told' = [told EXCEPT ![d] = @ \cup {result[1]}]
  BY DEF Comment
<1>3. told \in [Deliveries -> SUBSET Notices] /\ fate \in [Deliveries -> Fates]
  BY DEF IndInv, TypeOK
<1>4. \A e \in Deliveries \ {d} : told'[e] = told[e] /\ fate'[e] = fate[e]
  BY <1>1, <1>2, <1>3
<1>5. /\ fate'[d] = result[2]
      /\ "error" \notin told[d] /\ "canceled" \notin told[d]
      /\ told'[d] = told[d] \/ told'[d] = told[d] \cup {result[1]}
  BY <1>1, <1>2, <1>3 DEF ToldInv
<1> QED
  BY <1>1, <1>4, <1>5 DEF ToldInv

LEMMA ToldNext ==
  ASSUME IndInv, ToldInv, [Next]_vars
  PROVE  ToldInv'
<1> USE DEF github, WorkerUnchanged, MainUnchanged
<1>t. pc \in [Deliveries -> HandlerPoints] /\ fate \in [Deliveries -> Fates]
  BY DEF IndInv, TypeOK
<1>1. CASE Arrive
  <2>1. PICK d \in Deliveries, point \in {"check", "ended"} :
          /\ pc[d] = "idle" /\ pc' = [pc EXCEPT ![d] = point]
          /\ UNCHANGED <<told, accepted, fate>>
    BY <1>1 DEF Arrive, HandleCherryPick, CheckIfNeedCherryPick
  <2> QED
    BY <1>t, <2>1, ToldFrame
<1>2. ASSUME NEW d \in Deliveries, Producer(d)
      PROVE  ToldInv'
  <2>1. CASE CheckStop(d)
    BY <1>t, <2>1, ToldFrame DEF CheckStop
  <2>2. CASE SendOnClosed(d)
    <3>1. CASE EndProcess("crashed")
      BY <2>2, <3>1, ToldEnd DEF SendOnClosed
    <3>2. CASE pc' = [pc EXCEPT ![d] = "ended"] /\ UNCHANGED fate
      BY <1>t, <2>2, <3>2, ToldFrame DEF SendOnClosed
    <3> QED
      BY <2>2, <3>1, <3>2 DEF SendOnClosed
  <2> QED
    BY <1>2, <2>1, <2>2, ToldSend, ToldAnswer DEF Producer
<1>3. CASE Worker
  <2>1. worker \in Busy => job # NoJob
    BY DEF IndInv, Control, ControlPoints
  <2>2. CASE Finish
    <3>1. job \in Deliveries /\ fate[job] = "none"
      BY <2>1, <2>2, HeldIsUnsettled DEF Finish, Busy, WorkerPoints
    <3>2. \A d \in Deliveries : fate'[d] = fate[d] \/ fate[d] = "none"
      BY <1>t, <2>2, <3>1 DEF Finish
    <3> QED
      BY <2>2, <3>2, ToldFrame DEF Finish
  <2>3. CASE Report
    <3>1. job # NoJob
      BY <2>1, <2>3 DEF Report, Busy, WorkerPoints
    <3>2. Comment(job, "error") /\ fate' = [fate EXCEPT ![job] = "failed"]
      BY <2>3 DEF Report
    <3>3. UNCHANGED <<pc, accepted>>
      BY <2>3 DEF Report
    <3>4. PICK result \in {<<"error", "failed">>, <<"canceled", "canceled">>} :
            result = <<"error", "failed">>
      OBVIOUS
    <3> QED
      BY <3>1, <3>2, <3>3, <3>4, ToldSettle
  <2>4. CASE GetAssigneePanics
    BY <2>4, ToldEnd DEF GetAssigneePanics
  <2>5. CASE UNCHANGED <<pc, told, accepted, fate>>
    BY <2>5, ToldFrame
  <2> QED
    BY <1>3, <2>2, <2>3, <2>4, <2>5 DEF Worker, Receive, StopListening, Prepare, Push,
       MakePR, GetAssignee, LabelNew, AddDone, RemoveApproved
<1>4. CASE ServeFails \/ Exit
  BY <1>4, ToldEnd DEF ServeFails, Exit
<1>5. CASE DrainCancel
  <2>1. Comment(draining, "canceled") /\ fate' = [fate EXCEPT ![draining] = "canceled"]
    BY <1>5 DEF DrainCancel
  <2>2. draining # NoJob /\ UNCHANGED <<pc, accepted>>
    BY <1>5 DEF DrainCancel
  <2>3. PICK result \in {<<"error", "failed">>, <<"canceled", "canceled">>} :
          result = <<"canceled", "canceled">>
    OBVIOUS
  <2> QED
    BY <2>1, <2>2, <2>3, ToldSettle
<1>6. CASE UNCHANGED <<pc, told, accepted, fate>>
  BY <1>6, ToldFrame
<1> QED
  BY <1>1, <1>2, <1>3, <1>4, <1>5, <1>6 DEF Next, CloseStopChan, Stop, CloseRequests,
     SelectTimeout, SelectStopped, DrainTake, DrainEnd, Restart, Approve, Terminated, vars

\* A cherry pick is reported as failed only if the script did not hear of it, and is
\* never canceled.
LEMMA PickFateNext ==
  ASSUME IndInv, PickProtocol, PickFate, [Next]_vars
  PROVE  PickFate'
<1> USE DEF github, WorkerUnchanged, MainUnchanged
<1>t. /\ fate \in [Deliveries -> Fates] /\ \A x \in picks : x.by \in Deliveries
      /\ job \in Deliveries \cup {NoJob}
  BY DEF IndInv, TypeOK
<1>1. ASSUME NEW how, EndProcess(how), UNCHANGED picks
      PROVE  PickFate'
  <2>1. ASSUME NEW x \in picks
        PROVE  fate'[x.by] \in {IF x.heard THEN "done" ELSE "failed", "lost"}
    <3>1. CASE fate[x.by] \in {IF x.heard THEN "done" ELSE "failed", "lost"}
      BY <1>1, <1>t, <3>1 DEF EndProcess, Outstanding
    <3>2. CASE x.by = job
      <4>1. x.by \in Outstanding
        BY <1>t, <3>2, HeldIsUnsettled, NoJobAssumption
      <4> QED
        BY <1>1, <1>t, <4>1 DEF EndProcess
    <3> QED
      BY <2>1, <3>1, <3>2 DEF PickFate
  <2>2. \A d \in Deliveries : fate'[d] = "done" => fate[d] = "done"
    BY <1>1 DEF EndProcess
  <2> QED
    BY <1>1, <2>1, <2>2 DEF PickFate
<1>2. CASE /\ UNCHANGED <<picks, fate, job>>
           /\ worker \in Picked => worker' \in Picked
           /\ worker = "report" => worker' = "report"
  BY <1>2 DEF PickFate
<1>3. CASE MakePR
  <2>1. worker \notin Picked \cup {"report"} /\ UNCHANGED <<fate, job>>
    BY <1>3 DEF MakePR, Picked
  <2>2. ASSUME NEW x \in picks', x \notin picks
        PROVE  x.by = job /\ worker' = IF x.heard THEN "assignee" ELSE "report"
    BY <1>3, <2>2 DEF MakePR, NewPick
  <2>3. picks \subseteq picks'
    BY <1>3 DEF MakePR
  <2> QED
    BY <2>1, <2>2, <2>3 DEF PickFate, Picked
<1>4. ASSUME NEW d \in {job, draining}, d # NoJob, NEW how \in Fates,
             fate' = [fate EXCEPT ![d] = how], UNCHANGED picks,
             d = job /\ worker \in Picked => how = "done",
             d = job /\ worker = "report" => how = "failed",
             how = "done" => \E x \in picks : x.by = d /\ x.heard,
             d # job => UNCHANGED <<job, worker>>
      PROVE  PickFate'
  <2>1. d \in Deliveries /\ fate[d] = "none"
    BY <1>4, HeldIsUnsettled
  <2>2. ASSUME NEW x \in picks
        PROVE  IF x.heard
               THEN fate'[x.by] \in {"done", "lost"} \/ (x.by = job' /\ worker' \in Picked)
               ELSE fate'[x.by] \in {"failed", "lost"} \/ (x.by = job' /\ worker' = "report")
    BY <1>4, <1>t, <2>1, <2>2 DEF PickFate
  <2>3. \A e \in Deliveries : fate'[e] = "done" => \E x \in picks : x.by = e /\ x.heard
    BY <1>4, <1>t, <2>1 DEF PickFate
  <2> QED
    BY <1>4, <2>2, <2>3 DEF PickFate
<1>5. CASE Finish \/ Report
  <2>1. job # NoJob
    BY <1>5 DEF IndInv, Control, ControlPoints, Busy, WorkerPoints, Finish, Report
  <2>2. CASE Finish
    <3>1. NewPick(TRUE) \in picks
      BY <2>2 DEF Finish, PickProtocol, Picked
    <3>2. \E x \in picks : x.by = job /\ x.heard
      BY <3>1 DEF NewPick
    <3>3. "done" \in Fates /\ fate' = [fate EXCEPT ![job] = "done"] /\ UNCHANGED picks
          /\ worker = "finish"
      BY <2>2 DEF Finish, Fates
    <3> QED
      BY <1>4, <2>1, <3>2, <3>3
  <2>3. CASE Report
    <3>1. "failed" \in Fates /\ fate' = [fate EXCEPT ![job] = "failed"] /\ UNCHANGED picks
          /\ worker = "report" /\ worker \notin Picked
      BY <2>3 DEF Report, Fates, Picked
    <3> QED
      BY <1>4, <2>1, <3>1
  <2> QED
    BY <1>5, <2>2, <2>3
<1>6. CASE DrainCancel
  <2>1. draining # NoJob /\ draining # job
    BY <1>6 DEF IndInv, Accounting, DrainCancel
  <2> QED
    BY <1>4, <1>6, <2>1 DEF DrainCancel, Fates
<1>7. CASE Restart
  <2>1. worker = "gone"
    BY <1>7 DEF IndInv, Control, ControlPoints, Restart
  <2> QED
    BY <1>2, <1>7, <2>1 DEF Restart, Picked
<1>8. CASE Worker
  <2>1. CASE GetAssigneePanics
    BY <1>1, <2>1 DEF GetAssigneePanics
  <2>2. CASE Receive
    <3>1. job = NoJob /\ worker \notin Picked \cup {"report"}
      BY <2>2 DEF IndInv, Control, ControlPoints, Busy, WorkerPoints, Receive, Picked
    <3> QED
      BY <2>2, <3>1 DEF Receive, PickFate
  <2>3. CASE StopListening \/ Prepare \/ Push \/ (\E listed \in BOOLEAN : GetAssignee(listed))
    BY <1>2, <2>3 DEF StopListening, Prepare, Push, GetAssignee, Picked
  <2>4. CASE LabelNew \/ AddDone \/ RemoveApproved
    BY <1>2, <2>4 DEF LabelNew, AddDone, RemoveApproved, Picked
  <2> QED
    BY <1>3, <1>5, <1>8, <2>1, <2>2, <2>3, <2>4 DEF Worker
<1>9. CASE Arrive \/ \E d \in Deliveries : Producer(d)
  BY <1>1, <1>2, <1>9 DEF Arrive, HandleCherryPick, CheckIfNeedCherryPick, Producer,
     CheckStop, Send, SendOnClosed, Answer
<1> QED
  BY <1>1, <1>2, <1>6, <1>7, <1>8, <1>9 DEF Next, CloseStopChan, ServeFails, Stop,
     CloseRequests, SelectTimeout, SelectStopped, DrainTake, DrainEnd, Exit, Approve,
     Terminated, vars

\* What a pull request is told about its cherry pick is true, and stays true: through
\* a full channel, Stop and its cancellations, panics and restarts, comments that fail
\* and answers that are lost, on which alone a notice of failure can be mistaken.
THEOREM NoticesHold == Spec => []NoticesAreTrue
<1>1. Init => ToldInv /\ PickFate
  BY DEF Init, ToldInv, PickFate
<1>2. IndInv /\ PickProtocol /\ ToldInv /\ PickFate /\ [Next]_vars => ToldInv' /\ PickFate'
  BY ToldNext, PickFateNext
<1>3. IndInv /\ ToldInv /\ PickFate => NoticesAreTrue
  <2> SUFFICES ASSUME IndInv, ToldInv, PickFate, NEW d \in Deliveries
               PROVE  /\ "tooMany" \in told[d] => d \notin Elems(accepted)
                      /\ "scheduled" \in told[d] => d \in Elems(accepted)
                      /\ "canceled" \in told[d] => \A x \in picks : x.by # d
                      /\ "error" \in told[d] => \A x \in picks : x.by = d => ~x.heard
                      /\ fate[d] = "done" => \E x \in picks : x.by = d /\ x.heard
                      /\ ~({"error", "canceled"} \subseteq told[d])
    BY Zenon DEF NoticesAreTrue
  <2>1. ASSUME NEW x \in picks, x.by = d
        PROVE  fate[d] \in {"none", "lost", IF x.heard THEN "done" ELSE "failed"}
    <3>1. x.by = job => fate[d] = "none"
      BY <2>1, HeldIsUnsettled, NoJobAssumption DEF IndInv, TypeOK
    <3> QED
      BY <2>1, <3>1 DEF PickFate
  <2>2. /\ "error" \in told[d] => fate[d] = "failed"
        /\ "canceled" \in told[d] => fate[d] = "canceled"
    BY DEF ToldInv
  <2>3. /\ "canceled" \in told[d] => \A x \in picks : x.by # d
        /\ "error" \in told[d] => \A x \in picks : x.by = d => ~x.heard
    BY <2>1, <2>2
  <2>4. ~({"error", "canceled"} \subseteq told[d])
    BY <2>2
  <2>5. /\ "tooMany" \in told[d] => d \notin Elems(accepted)
        /\ "scheduled" \in told[d] => d \in Elems(accepted)
    BY DEF ToldInv
  <2>6. fate[d] = "done" => \E x \in picks : x.by = d /\ x.heard
    BY DEF PickFate
  <2> QED
    BY <2>3, <2>4, <2>5, <2>6, Zenon
<1> QED
  BY Protocol, <1>1, <1>2, <1>3, PTL DEF Spec
=============================================================================
