---------------------------- MODULE LabelCleanUp -----------------------------
(***************************************************************************)
(* CleanUpLabels (server/pull_request_handler.go) beside PullRequest.  The *)
(* handler of a "closed" webhook starts it in a goroutine with a context   *)
(* of its own.  It lists the labels once and takes off, in a goroutine     *)
(* each, those that the configuration names, whatever happens to the pull  *)
(* request meanwhile.  Every label taken off sends a webhook.              *)
(***************************************************************************)
EXTENDS PullRequest

CONSTANTS
  CleanUp,      \* Config.IssueLabelsToCleanUp
  CallsFail,    \* whether the calls of a clean-up may fail
  OtherActions, \* bound: which webhooks and passes of Tick not of its doing there are
  MaxOthers     \* bound: and how many

ASSUME CleanUpAssumption == CleanUp \subseteq Labels /\ CallsFail \in BOOLEAN
ASSUME OthersAssumption == MaxOthers \in 1..MaxEvents /\ OtherActions \subseteq Actions

VARIABLES
  listing,  \* the handlers whose CleanUpLabels has not listed the labels yet
  todo,     \* the labels that the CleanUpLabels of each handler has to take off
  excused   \* history: since it was closed last, a label was put on, the handler of a
            \* closing gave up, or a call of a clean-up failed

cleanUp == <<listing, todo, excused>>
cleanUpVars == <<vars, cleanUp>>

CleanUpInit ==
  /\ Init
  /\ listing = {}
  /\ todo = [h \in Handlers |-> {}]
  /\ excused = FALSE

\* The handlers of closed webhooks that go from one point to another.
CloseHandlers(from, to) ==
  {h \in DOMAIN inbox : inbox[h].action = "closed" /\ hpc[h] \in from /\ hpc'[h] = to}

\* A step of PullRequest.  The handler of a closed webhook starts CleanUpLabels when
\* it has saved the pull request, unless it gives up before.
PullRequestStep ==
  /\ Next
  /\ inbox' # inbox =>
       Len(inbox) < MaxOthers /\ inbox'[Len(inbox')].action \in OtherActions
  /\ listing' = listing \cup CloseHandlers({"save"}, "changes")
  /\ excused' = (/\ state' = "closed"
                 /\ \/ excused \/ ~(labels' \subseteq labels)
                    \/ CloseHandlers({"new", "save"}, "done") # {})
  /\ UNCHANGED todo

CallFails == CallsFail /\ excused' = (state = "closed")

\* It runs with the context of the handler, which ends with the handler.
MutantCleanUpList(h) ==
  /\ h \in listing
  /\ listing' = listing \ {h}
  /\ todo' = [todo EXCEPT ![h] = IF hpc[h] = "done" THEN {} ELSE labels \cap CleanUp]
  /\ UNCHANGED <<vars, excused>>

\* The listing; when it fails, that is all.
CleanUpList(h) ==
  /\ h \in listing
  /\ listing' = listing \ {h}
  /\ \/ todo' = [todo EXCEPT ![h] = labels \cap CleanUp] /\ UNCHANGED excused
     \/ CallFails /\ UNCHANGED todo
  /\ UNCHANGED vars

\* removeLabel: an error, as for a label that is gone, is only logged.
CleanUpRemove(h, l) ==
  /\ l \in todo[h]
  /\ todo' = [todo EXCEPT ![h] = @ \ {l}]
  /\ \/ RemoveLabel(l) /\ UNCHANGED excused
     \/ l \notin labels /\ UNCHANGED <<vars, excused>>
     \/ CallFails /\ UNCHANGED vars
  /\ UNCHANGED listing

CleanUpLabels(h) == CleanUpList(h) \/ \E l \in CleanUp : CleanUpRemove(h, l)

CleanUpNext ==
  \/ PullRequestStep
  \/ \E h \in Handlers : CleanUpLabels(h)

CleanUpSpec == CleanUpInit /\ [][CleanUpNext]_cleanUpVars

-----------------------------------------------------------------------------
\* Once webhooks and clean-ups are done with, a closed pull request does not have
\* the labels that the configuration names, however it was closed, reopened and
\* labelled before, and however the clean-ups of several closings overlap; only a
\* label put on while it was closed, or one for which a call failed, may stay
\* (pull_request_handler.go:130-132, 415-443).
ClosedLosesLabels ==
  /\ Quiet /\ listing = {} /\ \A h \in Handlers : todo[h] = {}
  /\ state = "closed" /\ ~excused
  => labels \cap CleanUp = {}
=============================================================================
