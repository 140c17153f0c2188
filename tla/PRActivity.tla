----------------------------- MODULE PRActivity ------------------------------
(***************************************************************************)
(* The job CheckPRActivity (server/pull_request_handler.go) for one pull   *)
(* request, in the job server beside Tick and RefreshMembers (Listing).    *)
(* The cron library runs every job in a goroutine of its own, and the jobs *)
(* share OrgMembers.                                                       *)
(*                                                                         *)
(* Time is abstracted to whether the pull request has not been updated for *)
(* DaysUntilStale days.  Everything done to it is an update: a comment, a  *)
(* new label, closing it.                                                  *)
(***************************************************************************)
EXTENDS Listing

CONSTANT Author  \* who opened the pull request

VARIABLES
  marked,  \* GitHub: the pull request has the stale label
  quiet,   \* GitHub: no update for DaysUntilStale days
  apc,     \* where CheckPRActivity is
  nags,    \* history: stale comments posted since it was last quiet for so long
  staled,  \* history: whether a pass has added the label since then
  lost     \* history: whether a comment has failed since then

histories == <<nags, staled, lost>>
activityVars == <<marked, quiet, apc, histories>>
jobVars == <<vars, activityVars>>

JobInit ==
  /\ Init
  /\ marked = FALSE
  /\ quiet = FALSE
  /\ apc = "idle"
  /\ nags = 0
  /\ staled = FALSE
  /\ lost = FALSE

IsOrgMember == Author \in members

-----------------------------------------------------------------------------
(* GitHub and its users.                                                    *)

\* Somebody comments, pushes, closes, reopens or changes the labels.
Update ==
  /\ marked' \in BOOLEAN
  /\ quiet' = FALSE
  /\ UNCHANGED <<apc, histories>>

\* Days pass without an update; a pass of the job takes minutes.
DaysPass ==
  /\ ~quiet /\ apc = "idle"
  /\ quiet' = TRUE
  /\ nags' = 0 /\ staled' = FALSE /\ lost' = FALSE
  /\ UNCHANGED <<marked, apc>>

-----------------------------------------------------------------------------
(* CheckPRActivity, for a pull request whose row is open.                   *)

ActivityBegin ==
  /\ apc = "idle"
  /\ apc' = "get"
  /\ UNCHANGED <<marked, quiet, histories>>

\* The time of the last update is not looked at.
MutantActivityGet(closed) ==
  /\ apc = "get"
  /\ apc' = IF ~closed /\ ~IsOrgMember THEN "labels" ELSE "idle"
  /\ UNCHANGED <<marked, quiet, histories>>

\* Nothing is done if GitHub has it closed, if it is by a member, or was updated.
ActivityGet(closed) ==
  /\ apc = "get"
  /\ apc' = IF ~closed /\ ~IsOrgMember /\ quiet THEN "labels" ELSE "idle"
  /\ UNCHANGED <<marked, quiet, histories>>

ActivityLabels(exempt) ==
  /\ apc = "labels"
  /\ apc' = IF exempt THEN "idle" ELSE "mark"
  /\ UNCHANGED <<marked, quiet, histories>>

\* To add a label that is there is no update.
ActivityMark ==
  /\ apc = "mark"
  /\ marked' = TRUE
  /\ quiet' = (quiet /\ marked)
  /\ staled' = TRUE
  /\ apc' = "comment"
  /\ UNCHANGED <<nags, lost>>

ActivityComment ==
  /\ apc = "comment"
  /\ nags' = nags + 1
  /\ quiet' = FALSE
  /\ apc' = "idle"
  /\ UNCHANGED <<marked, staled, lost>>

\* The comment fails, which is only logged.
ActivityCommentFails ==
  /\ apc = "comment"
  /\ lost' = TRUE
  /\ apc' = "idle"
  /\ UNCHANGED <<marked, quiet, nags, staled>>

\* Another call fails: on to the next pull request.
ActivityFails ==
  /\ apc \notin {"idle", "comment"}
  /\ apc' = "idle"
  /\ UNCHANGED <<marked, quiet, histories>>

CheckPRActivity ==
  \/ ActivityBegin
  \/ \E closed \in BOOLEAN : ActivityGet(closed)
  \/ \E exempt \in BOOLEAN : ActivityLabels(exempt)
  \/ ActivityMark \/ ActivityComment \/ ActivityCommentFails \/ ActivityFails

JobNext ==
  \/ Next /\ UNCHANGED activityVars
  \/ (Update \/ DaysPass \/ CheckPRActivity) /\ UNCHANGED vars

JobSpec == JobInit /\ [][JobNext]_jobVars

\* As FairSpec; nothing is asked of CheckPRActivity.
JobFairSpec ==
  /\ JobSpec
  /\ SF_vars(TickPage \/ TickLastPage)
  /\ WF_vars(MembersPage \/ MembersLastPage \/ RefreshFails)

-----------------------------------------------------------------------------
\* However often the job runs, and whatever is done to the pull request meanwhile: for
\* each time that it is left alone for days it is told at most once that it is stale;
\* and when a pass that has marked it is over, it has been told, unless a comment
\* failed.  A failed comment is made up for in this period only if the stale label had
\* been there before (pull_request_handler.go:318-366).
NagsOncePerPeriod ==
  /\ nags <= 1
  /\ nags = 1 => staled
  /\ staled /\ apc = "idle" => nags = 1 \/ lost
  /\ staled /\ apc = "idle" /\ quiet => nags = 0 /\ lost /\ marked
=============================================================================
