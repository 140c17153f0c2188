----------------------------- MODULE PickScript -----------------------------
(***************************************************************************)
(* What cherry-pick.sh is to those who only see GitHub: a request's branch *)
(* is pushed unless it is there already; then its pull request is opened,  *)
(* or is given up for good.  CherryPick, where the script is two steps,    *)
(* and LocalClone, where it is every git command, both implement this.     *)
(***************************************************************************)
CONSTANTS Requests, BranchFor

VARIABLES
  branches, \* the branches that were pushed
  open,     \* the requests that have been pushed and may still be proposed
  proposed  \* the requests with a pull request

view == <<branches, open, proposed>>

ScriptInit == branches = {} /\ open = {} /\ proposed = {}

\* Also a push that is reported as failed may have arrived.
Push(r) ==
  /\ BranchFor[r] \notin branches
  /\ branches' = branches \cup {BranchFor[r]}
  /\ open' \in {open, open \cup {r}}
  /\ UNCHANGED proposed

Propose(r) ==
  /\ r \in open
  /\ open' = open \ {r}
  /\ proposed' = proposed \cup {r}
  /\ UNCHANGED branches

GiveUp(r) ==
  /\ r \in open
  /\ open' = open \ {r}
  /\ UNCHANGED <<branches, proposed>>

ScriptNext == \E r \in Requests : Push(r) \/ Propose(r) \/ GiveUp(r)

ScriptSpec == ScriptInit /\ [][ScriptNext]_view

-----------------------------------------------------------------------------
\* What follows: of the requests for one branch at most one is under way or
\* proposed; and one whose branch is taken and that is not under way itself will
\* never be proposed.
OnePerBranch ==
  \A r \in open \cup proposed :
    /\ BranchFor[r] \in branches
    /\ \A s \in open \cup proposed : BranchFor[r] = BranchFor[s] => r = s

TakenForGood ==
  [][\A r \in Requests :
       BranchFor[r] \in branches =>
         /\ BranchFor[r] \in branches'
         /\ r \notin open => r \notin open' /\ (r \in proposed' <=> r \in proposed)]_view
=============================================================================
