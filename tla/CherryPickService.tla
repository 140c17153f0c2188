------------------------- MODULE CherryPickService --------------------------
(***************************************************************************)
(* What the cherry-pick pipeline promises, without channel, worker or      *)
(* handlers: a request is scheduled once, only while the service is open,  *)
(* and gets one final status.  Only an ending process loses requests: an   *)
(* orderly end loses at most one, a crash may lose them all.               *)
(***************************************************************************)
CONSTANT Deliveries

VARIABLES
  status,  \* of each request
  phase    \* of the service

Statuses == {"new", "scheduled", "done", "failed", "canceled", "lost"}
Phases == {"open", "closing", "ended", "crashed"}
Running == phase \in {"open", "closing"}

ServiceInit ==
  /\ status = [d \in Deliveries |-> "new"]
  /\ phase = "open"

Scheduled == {d \in Deliveries : status[d] = "scheduled"}

Accept(d) ==
  /\ phase = "open"
  /\ status[d] = "new"
  /\ status' = [status EXCEPT ![d] = "scheduled"]
  /\ UNCHANGED phase

Settle(d) ==
  /\ Running
  /\ status[d] = "scheduled"
  /\ \E outcome \in {"done", "failed"} :
       status' = [status EXCEPT ![d] = outcome]
  /\ UNCHANGED phase

Cancel(d) ==
  /\ phase = "closing"
  /\ status[d] = "scheduled"
  /\ status' = [status EXCEPT ![d] = "canceled"]
  /\ UNCHANGED phase

Close ==
  /\ phase = "open"
  /\ phase' = "closing"
  /\ UNCHANGED status

LoseAll ==
  status' = [d \in Deliveries |-> IF status[d] = "scheduled" THEN "lost" ELSE status[d]]

End ==
  /\ phase = "closing"
  /\ \A d, e \in Scheduled : d = e
  /\ LoseAll
  /\ phase' = "ended"

Crash ==
  /\ Running
  /\ LoseAll
  /\ phase' = "crashed"

Reopen ==
  /\ ~Running
  /\ phase' = "open"
  /\ UNCHANGED status

ServiceNext ==
  \/ \E d \in Deliveries : Accept(d) \/ Settle(d) \/ Cancel(d)
  \/ Close \/ End \/ Crash \/ Reopen

ServiceSpec == ServiceInit /\ [][ServiceNext]_<<status, phase>>

\* What becomes of a request is decided once.
SettledForGood ==
  [][\A d \in Deliveries :
       status[d] \notin {"new", "scheduled"} => status'[d] = status[d]]_<<status, phase>>

\* A request is lost only in the step in which the service ends, with all that are
\* still scheduled; an orderly end has at most one of them.
LossEndsService ==
  [][\A d, e \in Scheduled :
       status'[d] = "lost" =>
         status'[e] = "lost" /\ ~Running' /\ (phase' = "ended" => d = e)]_<<status, phase>>
=============================================================================
