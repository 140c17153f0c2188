---------------------------- MODULE ListingProofs ----------------------------
(* Theorems about Listing, for any listing and any size of a page.          *)
EXTENDS Listing, FiniteSetTheorems, TLAPS

USE DEF Loops, Ticking

\* How many items come before x is a number.
LEMMA RankType ==
  ASSUME NEW S \in SUBSET Items, NEW x \in Items
  PROVE  Rank(x, S) \in Nat
<1>1. IsFiniteSet({y \in S : y < x})
  BY ItemsAssumption, FS_Subset
<1> QED
  BY <1>1, FS_CardinalityType DEF Rank

\* An item never moves to the front of a listing that only grows.
LEMMA RankGrows ==
  ASSUME NEW S \in SUBSET Items, NEW T \in SUBSET Items, S \subseteq T,
         NEW x \in Items
  PROVE  Rank(x, S) <= Rank(x, T)
<1>1. IsFiniteSet({y \in T : y < x})
  BY ItemsAssumption, FS_Subset
<1>2. {y \in S : y < x} \subseteq {y \in T : y < x}
  OBVIOUS
<1> QED
  BY <1>1, <1>2, FS_Subset DEF Rank

-----------------------------------------------------------------------------
\* What stayed is still listed, in the listing that the loop reads.
StillListed == loop # "idle" => stayed \subseteq Listed(loop)

IInv == TypeOK /\ StillListed /\ NothingMissed /\ MembersComplete

\* Every loop begins with nothing missed.
LEMMA BeginLemma ==
  ASSUME TypeOK, NEW l \in Loops \ {"idle"}, Begin(l), UNCHANGED items
  PROVE  /\ loop' \in Loops /\ offset' \in Nat /\ got' \subseteq Items
         /\ stayed' \subseteq Items /\ removed' \in BOOLEAN
         /\ StillListed' /\ NothingMissed'
<1>1. items \subseteq Items /\ Listed(l) \subseteq Items /\ Listed(l)' = Listed(l)
  BY DEF TypeOK, Listed
<1>2. offset' = 0 /\ loop' = l /\ stayed' = Listed(l) /\ got' = {} /\ removed' = FALSE
  BY DEF Begin
<1>3. StillListed'
  BY <1>1, <1>2 DEF StillListed, Listed
<1>4. ASSUME NEW x \in Listed(l)
      PROVE  Rank(x, Listed(loop))' >= 0
  <2>1. Rank(x, Listed(l)) \in Nat
    BY <1>1, RankType
  <2> QED
    BY <2>1, <1>1, <1>2 DEF Rank, Listed
<1>5. NothingMissed'
  BY <1>2, <1>4 DEF NothingMissed
<1> QED
  BY <1>1, <1>2, <1>3, <1>5

\* A page that is worked on leaves nothing of it behind.
LEMMA PageLemma ==
  ASSUME TypeOK, StillListed, NothingMissed, loop # "idle", ~removed,
         NEW x \in stayed \ (IF loop = "issues" THEN Pulls ELSE {}), x \notin got
  PROVE  x \in Page \/ Rank(x, Listed(loop)) >= offset + PerPage
<1>1. x \in Listed(loop) /\ x \in Items /\ Listed(loop) \subseteq Items
  BY DEF StillListed, TypeOK, Listed
<1>2. Rank(x, Listed(loop)) \in Nat
  BY <1>1, RankType
<1>3. Rank(x, Listed(loop)) >= offset
  BY DEF NothingMissed
<1> QED
  BY <1>1, <1>2, <1>3, PerPageAssumption DEF Page, TypeOK

LEMMA Inductive ==
  ASSUME IInv, [Next]_vars
  PROVE  IInv'
<1> USE DEF IInv
<1>1. ASSUME NEW x \in Items, Appear(x)
      PROVE  IInv'
  <2>1. TypeOK'
    BY <1>1 DEF Appear, TypeOK, scan, history
  <2>2. Listed(loop) \subseteq Listed(loop)' /\ Listed(loop)' \subseteq Items
        /\ Listed(loop) \subseteq Items
    BY <1>1 DEF Appear, Listed, TypeOK, scan
  <2>3. StillListed'
    BY <1>1, <2>2 DEF Appear, StillListed, scan, history
  <2>4. ASSUME NEW y \in Items
        PROVE  Rank(y, Listed(loop)') \in Nat /\ Rank(y, Listed(loop)) \in Nat
               /\ Rank(y, Listed(loop)) <= Rank(y, Listed(loop)')
    BY <2>2, RankGrows, RankType
  <2>5. NothingMissed'
    <3> SUFFICES ASSUME (loop # "idle" /\ ~removed)',
                        NEW y \in (stayed \ (IF loop = "issues" THEN Pulls ELSE {}))',
                        y \notin got'
                 PROVE  Rank(y, Listed(loop)') >= offset'
      BY DEF NothingMissed, Rank
    <3>1. loop' = loop /\ got' = got /\ offset' = offset /\ stayed' = stayed /\ removed' = removed
      BY <1>1 DEF Appear, scan, history
    <3>2. y \in Items
      BY <3>1 DEF TypeOK
    <3>3. Rank(y, Listed(loop)) >= offset
      BY <3>1 DEF NothingMissed
    <3> QED
      BY <2>4, <3>1, <3>2, <3>3 DEF TypeOK
  <2>6. MembersComplete'
    BY <1>1 DEF Appear, MembersComplete
  <2> QED
    BY <2>1, <2>3, <2>5, <2>6
<1>2. ASSUME NEW x \in Items, Vanish(x)
      PROVE  IInv'
  <2>1. TypeOK'
    BY <1>2 DEF Vanish, TypeOK, scan
  <2>2. StillListed'
    BY <1>2 DEF Vanish, StillListed, Listed, scan
  <2>3. CASE loop = "idle" \/ x \in Listed(loop)
    BY <1>2, <2>1, <2>2, <2>3 DEF Vanish, NothingMissed, MembersComplete, scan
  <2>4. CASE loop # "idle" /\ x \notin Listed(loop)
    <3>1. Listed(loop)' = Listed(loop)
      BY <1>2, <2>4 DEF Vanish, Listed, scan
    <3>2. NothingMissed'
      BY <1>2, <3>1 DEF Vanish, NothingMissed, scan, Rank
    <3> QED
      BY <1>2, <2>1, <2>2, <3>2 DEF Vanish, MembersComplete
  <2> QED
    BY <2>3, <2>4
<1>3. CASE Expire
  BY <1>3 DEF Expire, TypeOK, StillListed, NothingMissed, MembersComplete, Listed,
              Rank, history
<1>4. CASE TickBegin
  BY <1>4, BeginLemma DEF TickBegin, TypeOK, MembersComplete
<1>5. ASSUME TickPage \/ MembersPage
      PROVE  IInv'
  <2>1. offset' = offset + PerPage /\ loop' = loop /\ items' = items /\ stayed' = stayed
        /\ removed' = removed /\ loop # "idle" /\ members' = members
        /\ promised' = promised /\ expired' = expired
        /\ got' = got \cup (IF loop = "issues" THEN Page \ Pulls ELSE Page)
    BY <1>5 DEF TickPage, MembersPage, history
  <2>2. Page \subseteq Items
    BY DEF Page, Listed, TypeOK
  <2>3. TypeOK'
    BY <2>1, <2>2, PerPageAssumption DEF TypeOK
  <2>4. Listed(loop)' = Listed(loop)
    BY <2>1 DEF Listed
  <2>5. NothingMissed'
    <3> SUFFICES ASSUME ~removed,
                        NEW x \in stayed \ (IF loop = "issues" THEN Pulls ELSE {}),
                        x \notin got'
                 PROVE  Rank(x, Listed(loop)') >= offset'
      BY <2>1 DEF NothingMissed, Rank
    <3>1. x \notin got /\ x \notin Page
      BY <2>1
    <3> QED
      BY <2>1, <2>4, <3>1, PageLemma
  <2> QED
    BY <2>1, <2>3, <2>4, <2>5 DEF StillListed, MembersComplete
<1>6. CASE TickLastPage
  <2>1. CASE loop = "pulls" /\ Begin("issues")
    BY <1>6, <2>1, BeginLemma DEF TickLastPage, TypeOK, MembersComplete
  <2>2. CASE loop = "issues" /\ End
    BY <1>6, <2>2 DEF TickLastPage, End, TypeOK, StillListed, NothingMissed, MembersComplete
  <2> QED
    BY <1>6, <2>1, <2>2 DEF TickLastPage
<1>7. CASE UNCHANGED vars
  BY <1>7 DEF vars, scan, history, TypeOK, StillListed, NothingMissed, MembersComplete,
              Listed, Rank
<1>8. CASE RefreshBegin
  BY <1>8, BeginLemma DEF RefreshBegin, TypeOK, MembersComplete
<1>9. CASE MembersLastPage
  <2>1. Page \subseteq Items
    BY DEF Page, Listed, TypeOK
  <2>2. ~removed => stayed \subseteq got \cup Page
    <3> SUFFICES ASSUME ~removed, NEW x \in stayed, x \notin got
                 PROVE  x \in Page
      OBVIOUS
    <3>1. x \in Listed(loop) /\ x \in Items /\ Listed(loop) \subseteq Items
      BY <1>9 DEF MembersLastPage, StillListed, TypeOK, Listed
    <3>2. Rank(x, Listed(loop)) \in Nat /\ Rank(x, Listed(loop)) < offset + PerPage
      BY <1>9, <3>1, RankType DEF MembersLastPage, LastPage
    <3>3. x \in Page \/ Rank(x, Listed(loop)) >= offset + PerPage
      BY <1>9, PageLemma DEF MembersLastPage
    <3> QED
      BY <3>2, <3>3, PerPageAssumption DEF TypeOK
  <2>3. MembersComplete'
    BY <1>9, <2>2 DEF MembersLastPage, MembersComplete
  <2> QED
    BY <1>9, <2>1, <2>3 DEF MembersLastPage, End, TypeOK, StillListed, NothingMissed
<1>10. CASE RefreshFails
  BY <1>10 DEF RefreshFails, End, TypeOK, StillListed, NothingMissed, MembersComplete
<1>11. CASE Tick
  BY <1>4, <1>5, <1>6, <1>7, <1>11 DEF Tick, TickFails
<1>12. CASE RefreshMembers
  BY <1>5, <1>8, <1>9, <1>10, <1>12 DEF RefreshMembers
<1> HIDE DEF IInv
<1> QED
  BY <1>1, <1>2, <1>3, <1>7, <1>11, <1>12 DEF Next

LEMMA InvariantHolds == Spec => []IInv
<1>1. Init => IInv
  <2> SUFFICES ASSUME Init PROVE IInv
    OBVIOUS
  <2>1. loop = "idle" /\ promised = {} /\ TypeOK
    BY DEF Init, TypeOK
  <2> QED
    BY <2>1 DEF IInv, StillListed, NothingMissed, MembersComplete
<1>2. IInv /\ [Next]_vars => IInv'
  BY Inductive
<1> QED
  BY <1>1, <1>2, PTL DEF Spec

-----------------------------------------------------------------------------
\* Every variable of the loops has its type.
THEOREM TypeCorrect == Spec => []TypeOK
  BY InvariantHolds, PTL DEF IInv

\* A listing that only grows is worked through without a gap, for any listing and
\* any size of a page, however often calls fail: the pages of Tick
\* (server.go:200-228, 237-268) but its last, and those of getMembers.
THEOREM NoGap == Spec => []NothingMissed
  BY InvariantHolds, PTL DEF IInv

\* Whoever was a member during the whole of the last refresh that succeeded, and
\* saw nobody leave, is in OrgMembers (server.go:134-150).
THEOREM MembersKept == Spec => []MembersComplete
  BY InvariantHolds, PTL DEF IInv
=============================================================================
