------------------------------- MODULE Listing -------------------------------
(***************************************************************************)
(* The loops that page through a listing of GitHub while the listing       *)
(* changes: Tick's two loops over the open pull requests and issues of a   *)
(* repository (server/server.go), and the loop of getMembers, which        *)
(* getComments and getFiles share (server/github.go), with RefreshMembers. *)
(*                                                                         *)
(* GitHub numbers pages, so that a page is a range of positions: when an   *)
(* item leaves the listing, those after it move towards the pages read     *)
(* before.  What is done with an item of a page is the subject of          *)
(* PullRequest and Issues.                                                 *)
(***************************************************************************)
EXTENDS Integers, FiniteSets

CONSTANTS
  Items,   \* what may be listed, in the order of the listing
  Pulls,   \* the items that are pull requests
  PerPage  \* items on a page

ASSUME ItemsAssumption == Items \subseteq Int /\ IsFiniteSet(Items)
ASSUME PullsAssumption == Pulls \subseteq Items
ASSUME PerPageAssumption == PerPage \in Nat \ {0}

VARIABLES
  items,     \* GitHub: the items there are
  loop,      \* the loop that runs
  offset,    \* position of the page it asks for next
  got,       \* what it has found so far
  expired,   \* its context's deadline has passed
  members,   \* OrgMembers
  stayed,    \* history: items listed since the loop began
  removed,   \* history: an item has left the listing since then
  promised   \* history: who must be in OrgMembers

scan == <<loop, offset, got, expired>>
history == <<stayed, removed>>
vars == <<items, scan, members, history, promised>>

Loops == {"idle", "pulls", "issues", "members"}
Ticking == loop \in {"pulls", "issues"}

\* GitHub lists a pull request as an issue, too.
Listed(l) == IF l = "pulls" THEN items \cap Pulls ELSE items

\* How many of a listing come before x.
Rank(x, listing) == Cardinality({y \in listing : y < x})

\* The page that starts at offset, and whether there is none after it.
Page ==
  {x \in Listed(loop) : Rank(x, Listed(loop)) \in offset..(offset + PerPage - 1)}
LastPage == \A x \in Listed(loop) : Rank(x, Listed(loop)) < offset + PerPage

Init ==
  /\ items \in SUBSET Items
  /\ loop = "idle"
  /\ offset = 0
  /\ got = {}
  /\ expired = FALSE
  /\ members = {}
  /\ stayed = {}
  /\ removed = FALSE
  /\ promised = {}

\* A loop begins with the first page.
Begin(l) ==
  /\ loop' = l
  /\ offset' = 0
  /\ got' = {}
  /\ stayed' = Listed(l)
  /\ removed' = FALSE

\* A loop ends and forgets everything.
End ==
  /\ loop' = "idle"
  /\ offset' = 0
  /\ got' = {}
  /\ expired' = FALSE
  /\ stayed' = {}
  /\ removed' = FALSE

-----------------------------------------------------------------------------
(* GitHub.                                                                  *)

\* An issue or pull request is opened or reopened, a member joins.
Appear(x) ==
  /\ x \notin items
  /\ items' = items \cup {x}
  /\ UNCHANGED <<scan, members, history, promised>>

\* It is closed, or the member leaves.
Vanish(x) ==
  /\ x \in items
  /\ items' = items \ {x}
  /\ stayed' = stayed \ {x}
  /\ removed' = (removed \/ (loop # "idle" /\ x \in Listed(loop)))
  /\ UNCHANGED <<scan, members, promised>>

Expire ==
  /\ loop # "idle" /\ ~expired
  /\ expired' = TRUE
  /\ UNCHANGED <<items, loop, offset, got, members, history, promised>>

-----------------------------------------------------------------------------
(* Tick, on one repository: the pull requests, then the issues.             *)

TickBegin ==
  /\ loop = "idle"
  /\ Begin("pulls")
  /\ UNCHANGED <<items, expired, members, promised>>

\* Tick goes on with the same page.
MutantTickPage ==
  /\ Ticking /\ ~expired /\ ~LastPage
  /\ got' = got \cup (IF loop = "pulls" THEN Page ELSE Page \ Pulls)
  /\ UNCHANGED <<items, loop, offset, expired, members, history, promised>>

\* A page with one after it is worked on; pull requests among the issues are not.
TickPage ==
  /\ Ticking /\ ~expired /\ ~LastPage
  /\ got' = got \cup (IF loop = "pulls" THEN Page ELSE Page \ Pulls)
  /\ offset' = offset + PerPage
  /\ UNCHANGED <<items, loop, expired, members, history, promised>>

\* The issues go on with the findings of the pull requests.
MutantTickLastPage ==
  /\ Ticking /\ ~expired /\ LastPage
  /\ IF loop = "pulls"
     THEN Begin("issues") /\ UNCHANGED expired
     ELSE loop' = "done" /\ UNCHANGED <<offset, got, history, expired>>
  /\ UNCHANGED <<items, members, promised>>

\* The loop is left before it works on the last page.
TickLastPage ==
  /\ Ticking /\ ~expired /\ LastPage
  /\ \/ /\ loop = "pulls"
        /\ Begin("issues")
        /\ UNCHANGED expired
     \/ /\ loop = "issues"
        /\ End
  /\ UNCHANGED <<items, members, promised>>

\* Tick goes on to the next page when a call fails.
MutantTickFails ==
  /\ Ticking
  /\ offset' = offset + PerPage
  /\ UNCHANGED <<items, loop, got, expired, members, history, promised>>

\* An error, which an expired context always gives: the loop asks again.
TickFails ==
  /\ Ticking
  /\ UNCHANGED vars

-----------------------------------------------------------------------------
(* RefreshMembers and getMembers.                                           *)

RefreshBegin ==
  /\ loop = "idle"
  /\ Begin("members")
  /\ UNCHANGED <<items, expired, members, promised>>

MembersPage ==
  /\ loop = "members" /\ ~expired /\ ~LastPage
  /\ got' = got \cup Page
  /\ offset' = offset + PerPage
  /\ UNCHANGED <<items, loop, expired, members, history, promised>>

\* An empty list replaces the members, too: getMembers never returns nil.
MembersLastPage ==
  /\ loop = "members" /\ ~expired /\ LastPage
  /\ members' = got \cup Page
  /\ promised' = IF removed THEN {} ELSE stayed
  /\ End
  /\ UNCHANGED items

\* What was found before the error replaces the members.
MutantRefreshFails ==
  /\ loop = "members"
  /\ members' = got
  /\ End
  /\ UNCHANGED <<items, promised>>

\* An error or another status than 200: the old members stay.
RefreshFails ==
  /\ loop = "members"
  /\ End
  /\ UNCHANGED <<items, members, promised>>

-----------------------------------------------------------------------------
Tick == TickBegin \/ TickPage \/ TickLastPage \/ TickFails
RefreshMembers == RefreshBegin \/ MembersPage \/ MembersLastPage \/ RefreshFails

Next ==
  \/ \E x \in Items : Appear(x) \/ Vanish(x)
  \/ Expire
  \/ Tick
  \/ RefreshMembers

Spec == Init /\ [][Next]_vars

\* The loops go on asking, and GitHub does not fail for ever.
FairSpec ==
  /\ Spec
  /\ SF_vars(TickPage \/ TickLastPage)
  /\ WF_vars(MembersPage \/ MembersLastPage \/ RefreshFails)

-----------------------------------------------------------------------------
(* Every variable has its type.                                             *)
TypeOK ==
  /\ items \subseteq Items
  /\ loop \in Loops
  /\ offset \in Nat
  /\ got \subseteq Items
  /\ expired \in BOOLEAN
  /\ members \subseteq Items
  /\ stayed \subseteq Items
  /\ removed \in BOOLEAN
  /\ promised \subseteq Items

\* What the loop has left behind it is worked on: as long as nothing leaves the
\* listing, an item that has been there since the loop began is found, or is on
\* a page to come, whatever is added and however often a page is asked for
\* (server.go:200-228, 237-268; github.go:221-234).  Tick's last page is never
\* among those worked on.
NothingMissed ==
  (loop # "idle" /\ ~removed) =>
     \A x \in stayed \ (IF loop = "issues" THEN Pulls ELSE {}) :
        x \in got \/ Rank(x, Listed(loop)) >= offset

\* A refresh that fails half way, or meets a listing that grows, never takes a
\* member out of OrgMembers who was one all the time (server.go:134-150).
MembersComplete == promised \subseteq members

\* Tick comes to its end unless its context expires first (server.go:200-206),
\* and a refresh comes to its end in any case.
LoopsEnd ==
  /\ Ticking ~> (~Ticking \/ expired)
  /\ (loop = "members") ~> (loop # "members")
=============================================================================
