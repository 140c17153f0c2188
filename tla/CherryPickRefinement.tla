------------------------ MODULE CherryPickRefinement ------------------------
(* The pipeline of CherryPick implements the promise of CherryPickService,  *)
(* and its worker that of PickScript.                                       *)
EXTENDS CherryPick

StatusOf(d) ==
  IF fate[d] # "none" THEN fate[d]
  ELSE IF d \in Elems(accepted) THEN "scheduled" ELSE "new"

ServiceStatus == [d \in Deliveries |-> StatusOf(d)]

ServicePhase ==
  CASE main = "exited" -> "ended"
    [] main = "crashed" -> "crashed"
    [] Up -> IF RequestsClosed THEN "closing" ELSE "open"

Service == INSTANCE CherryPickService
             WITH status <- ServiceStatus, phase <- ServicePhase

\* What the worker's script does on GitHub.
Requests == [pr : PRs, version : Versions, by : Deliveries]
Request(d) == [pr |-> call[d].pr, version |-> call[d].version, by |-> d]
Open == IF worker = "makePR" THEN {Request(job)} ELSE {}
Proposed == {[pr |-> x.pr, version |-> x.version, by |-> x.by] : x \in picks}

Script == INSTANCE PickScript
            WITH BranchFor <- [r \in Requests |-> BranchOf(r.pr, r.version)],
                 open <- Open, proposed <- Proposed

\* Every behaviour of the pipeline is one of the service: requests are accepted
\* only before Stop closes the channel, each is settled once and for good, and
\* an orderly Stop loses at most one of them (cherry_pick.go as a whole).
ImplementsService == Service!ServiceSpec

\* On GitHub, too, whatever the channel, Stop and crashes do: a branch is pushed
\* once, only the request that pushed it may open its pull request, and one given
\* up between the two, by an error or an ending process, is not taken up again
\* (doCherryPick, hack/cherry-pick.sh:203-204).
ImplementsScript == Script!ScriptSpec
=============================================================================
