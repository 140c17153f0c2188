--------------------------- MODULE SQLMutexProofs ---------------------------
(***************************************************************************)
(* Proofs about SQLMutex, for any clients and any times that keep          *)
(* TimesAssumption: the mutex excludes, whatever fails, but from the time  *)
(* a row expires to the time the mutex is at rest again, and without a     *)
(* fault no row ever expires.                                              *)
(***************************************************************************)
EXTENDS SQLMutex, TLAPS

\* Init establishes the invariant: there is no row and nobody is attempting.
LEMMA InitInv == Init => IndInv
<1> SUFFICES ASSUME Init PROVE IndInv
  OBVIOUS
<1>1. ~lapsed /\ lapsed \in BOOLEAN
  BY Zenon DEF Init
<1>2. TypeOK
  BY <1>1 DEF Init, TypeOK, Points, NoRow
<1>3. Attempts /\ Ownership
  BY DEF Init, Attempts, Ownership, Owner, Locked, Holding, Attempting, NoRow
<1>4. Refreshed
  BY <1>1 DEF Init, Refreshed, Owner, Locked, Holding, NoRow
<1> QED BY <1>2, <1>3, <1>4 DEF IndInv, OwnedUntilLapse, FaultFreeRefreshed

\* What comes to rest forgets what expired, and is in order.
LEMMA SettleFacts ==
  ASSUME Settle
  PROVE  /\ lapsed' \in BOOLEAN /\ (~lapsed => ~lapsed')
         /\ ~lapsed' => ~lapsed \/ AtRest'
BY Zenon DEF Settle

\* Lock: an attempt, its INSERT and its SELECT.
LEMMA AttemptInv ==
  ASSUME IndInv, NEW c \in Clients, TryLock(c) \/ Insert(c) \/ Select(c)
  PROVE  IndInv'
<1> USE TimesAssumption
<1> USE DEF IndInv, TypeOK, Attempts, OwnedUntilLapse, Ownership, FaultFreeRefreshed,
            Refreshed, Owner, Locked, Holding, Attempting, Points, NoRow
<1>1. CASE TryLock(c)
  BY <1>1 DEF TryLock, Go
<1>2. CASE Insert(c)
  BY <1>2 DEF Insert, Go, Acquired
<1>3. CASE Select(c)
  BY <1>3 DEF Select, Go, Rest
<1> QED BY <1>1, <1>2, <1>3

\* Lock: the UPDATE that takes an expired row over.
LEMMA UpdateInv ==
  ASSUME IndInv, NEW c \in Clients, Update(c)
  PROVE  IndInv'
BY TimesAssumption
   DEF IndInv, TypeOK, Attempts, OwnedUntilLapse, Ownership, FaultFreeRefreshed, Refreshed,
       Owner, Locked, Holding, Attempting, Points, NoRow, Update, Go, Acquired

\* The refresher: its SELECT and its UPDATE.
LEMMA RefreshInv ==
  ASSUME IndInv, NEW c \in Clients, RefreshSelect(c) \/ RefreshUpdate(c)
  PROVE  IndInv'
<1> USE TimesAssumption
<1> USE DEF IndInv, TypeOK, Attempts, OwnedUntilLapse, Ownership, FaultFreeRefreshed,
            Refreshed, Owner, Locked, Holding, Attempting, Points, NoRow
<1>1. CASE RefreshSelect(c)
  BY <1>1 DEF RefreshSelect, Go, Rest
<1>2. CASE RefreshUpdate(c)
  BY <1>2 DEF RefreshUpdate, Go
<1> QED BY <1>1, <1>2

\* Unlock: stopping the refresher, and the DELETE.
LEMMA UnlockInv ==
  ASSUME IndInv, NEW c \in Clients, Unlock(c) \/ Delete(c)
  PROVE  IndInv'
<1> USE TimesAssumption
<1> USE DEF IndInv, TypeOK, Attempts, OwnedUntilLapse, Ownership, FaultFreeRefreshed,
            Refreshed, Owner, Locked, Holding, Attempting, Points, NoRow
<1>1. CASE Unlock(c)
  BY <1>1 DEF Unlock, Go
<1>2. CASE Delete(c)
  BY <1>2, SettleFacts DEF Delete, Go, Rest, AtRest
<1> QED BY <1>1, <1>2

\* A fault: the row keeps its expiry, and from here on faults # 0.
LEMMA FaultInv ==
  ASSUME IndInv, NEW c \in Clients, Crash(c) \/ DeleteFails(c) \/ RefreshFails(c)
  PROVE  IndInv'
<1> USE TimesAssumption
<1> USE DEF IndInv, TypeOK, Attempts, OwnedUntilLapse, Ownership, FaultFreeRefreshed,
            Refreshed, Owner, Locked, Holding, Attempting, Points, NoRow, Fault, Go, Rest
<1>1. CASE Crash(c)
  BY <1>1, SettleFacts DEF Crash, AtRest
<1>2. CASE DeleteFails(c)
  BY <1>2, SettleFacts DEF DeleteFails, AtRest
<1>3. CASE RefreshFails(c)
  BY <1>3 DEF RefreshFails
<1> QED BY <1>1, <1>2, <1>3

\* Time: without a fault the owner of the row is not later than MaxDelay, and
\* the row is good for longer.
LEMMA TickInv ==
  ASSUME IndInv, Tick
  PROVE  IndInv'
<1> USE TimesAssumption
<1> USE DEF IndInv, TypeOK, Attempts, OwnedUntilLapse, Ownership, FaultFreeRefreshed,
            Refreshed, Owner, Locked, Holding, Attempting, Points, NoRow, Tick
<1>1. TypeOK'
  OBVIOUS
<1>2. Attempts'
  OBVIOUS
<1>3. OwnedUntilLapse'
  <2>1. ~lapsed' => ~lapsed /\ (row # NoRow => ~(now + 1 >= row))
    BY Zenon DEF Tick
  <2>2. ASSUME ~lapsed' PROVE Ownership'
    BY <2>1, <2>2
  <2> QED BY <2>2
<1>4. FaultFreeRefreshed'
  OBVIOUS
<1> QED BY <1>1, <1>2, <1>3, <1>4

\* IndInv is an invariant of the mutex.
THEOREM Inductive == Spec => []IndInv
<1>1. IndInv /\ [Next]_vars => IndInv'
  <2> SUFFICES ASSUME IndInv, [Next]_vars PROVE IndInv'
    OBVIOUS
  <2>1. ASSUME NEW c \in Clients, Step(c) PROVE IndInv'
    BY <2>1, AttemptInv, UpdateInv, RefreshInv, UnlockInv DEF Step
  <2>2. ASSUME NEW c \in Clients, Crash(c) \/ DeleteFails(c) \/ RefreshFails(c)
        PROVE  IndInv'
    BY <2>2, FaultInv
  <2>3. CASE Tick
    BY <2>3, TickInv
  <2>4. CASE UNCHANGED vars
    BY <2>4 DEF vars, IndInv, TypeOK, Attempts, OwnedUntilLapse, Ownership,
                FaultFreeRefreshed, Refreshed, Owner, Locked
  <2> QED BY <2>1, <2>2, <2>3, <2>4 DEF Next
<1> QED BY InitInv, <1>1, PTL DEF Spec

\* Every variable keeps its type.
THEOREM TypeCorrect == Spec => []TypeOK
<1>1. IndInv => TypeOK
  BY DEF IndInv
<1> QED BY Inductive, <1>1, PTL

\* Whatever crashes and fails, and however often: two clients have the mutex
\* only if some row has expired since the mutex was last at rest.
THEOREM Exclusion == Spec => []ExclusiveUntilLapse
<1>1. IndInv => ExclusiveUntilLapse
  BY DEF IndInv, OwnedUntilLapse, Ownership, ExclusiveUntilLapse, MutualExclusion, Owner
<1> QED BY Inductive, <1>1, PTL

\* Without a fault no row expires under its owner, so that MutualExclusion holds.
THEOREM FaultFreeExclusion ==
  Spec => [](FaultFreeRefreshed /\ (faults = 0 => MutualExclusion))
<1>1. IndInv => FaultFreeRefreshed /\ (faults = 0 => MutualExclusion)
  BY DEF IndInv, OwnedUntilLapse, Ownership, FaultFreeRefreshed, Refreshed,
         MutualExclusion, Owner
<1> QED BY Inductive, <1>1, PTL

-----------------------------------------------------------------------------
(* The expiry.  IndInv is used and not extended: it says that the row is    *)
(* what the refresher has read, and that a takeover means a lapse.          *)

\* A product grows with its second factor.
LEMMA ProductGrows ==
  ASSUME NEW k \in Nat, NEW m \in Int, NEW n \in Int, m <= n
  PROVE  k * m <= k * n
<1>1. n - m \in Nat
  OBVIOUS
<1>2. k * (n - m) >= 0
  BY <1>1
<1>3. k * (n - m) = k * n - k * m
  OBVIOUS
<1> QED BY <1>2, <1>3

\* A row that has just been taken: nothing is ahead of the clock.
LEMMA FreshRow ==
  ASSUME TypeOK, NEW c \in Clients, at[c] <= now, row' = at[c] + TTL, since' = at[c],
         now' = now
  PROVE  RefreshInterval * (row' - since' - TTL) <= TTL * (now' - since')
<1>1. at[c] \in Int /\ now \in Int /\ TTL \in Nat /\ RefreshInterval \in Nat
  BY TimesAssumption DEF TypeOK
<1>2. row' - since' - TTL = 0
  BY <1>1
<1>3. RefreshInterval * 0 = 0 /\ TTL * 0 = 0
  BY <1>1
<1>4. TTL * 0 <= TTL * (now - at[c])
  BY <1>1, ProductGrows
<1> QED BY <1>2, <1>3, <1>4

LEMMA ExpiryInit == Init => ExpiryInv
BY DEF Init, ExpiryInv, ExpiryRunsAhead, ExpiryFollowsTicker, Refreshes, Holding, NoRow

\* What the steps need of the types.
LEMMA Types ==
  ASSUME TypeOK
  PROVE  /\ now \in Int /\ row \in Int /\ since \in Int /\ TTL \in Nat
         /\ RefreshInterval \in Nat
         /\ \A c \in Clients : at[c] \in Int /\ expiry[c] \in Int
BY TimesAssumption DEF TypeOK

\* The INSERT makes a row when there is none, and none of the other clients holds.
LEMMA ExpiryInsert ==
  ASSUME IndInv, ExpiryInv, NEW c \in Clients, Insert(c)
  PROVE  ExpiryInv'
<1>1. TypeOK /\ at[c] <= now
  BY DEF IndInv, Attempts, Attempting, Insert
<1>2. CASE row # NoRow
  BY <1>1, <1>2 DEF ExpiryInv, ExpiryRunsAhead, ExpiryFollowsTicker, Refreshes, Insert, Go,
                    TypeOK, Holding
<1>3. CASE row = NoRow /\ ~lapsed
  <2>1. /\ row' = at[c] + TTL /\ since' = at[c] /\ now' = now
        /\ pc' = [pc EXCEPT ![c] = "held"] /\ at' = [at EXCEPT ![c] = now + RefreshInterval]
    BY <1>3 DEF Insert, Acquired, Go
  <2>2. RefreshInterval * (row' - since' - TTL) <= TTL * (now' - since')
    BY <1>1, <2>1, FreshRow
  <2>3. ASSUME NEW d \in Clients, d # c PROVE pc'[d] \notin Holding
    BY <1>3, <2>1, <2>3 DEF IndInv, OwnedUntilLapse, Ownership, Owner, Locked, TypeOK
  <2>4. at'[c] - RefreshInterval = now
    BY <1>1, <2>1, Types DEF TypeOK
  <2>5. Refreshes(c)'
    BY <1>1, <2>1, <2>2, <2>4, Types DEF Refreshes, TypeOK
  <2> QED
    BY <1>1, <2>1, <2>2, <2>3, <2>5 DEF ExpiryInv, ExpiryRunsAhead, ExpiryFollowsTicker, Refreshes
<1>4. CASE lapsed
  BY <1>1, <1>4 DEF ExpiryInv, ExpiryRunsAhead, ExpiryFollowsTicker, Insert
<1> QED BY <1>2, <1>3, <1>4 DEF IndInv, TypeOK

\* The UPDATE of a refresh: the ticker fires, and the expiry moves on.
LEMMA ExpiryRefresh ==
  ASSUME IndInv, ExpiryInv, NEW c \in Clients, RefreshUpdate(c), ~lapsed
  PROVE  ExpiryInv'
<1>1. TypeOK /\ pc[c] = "refresh" /\ row # NoRow /\ expiry[c] = row
  BY DEF IndInv, OwnedUntilLapse, Ownership, Owner, Locked, Holding, RefreshUpdate
<1>2. /\ row' = row + TTL /\ since' = since /\ now' = now
      /\ pc' = [pc EXCEPT ![c] = "held"] /\ at' = [at EXCEPT ![c] = at[c] + RefreshInterval]
  BY <1>1 DEF RefreshUpdate, Go
<1>3. /\ at[c] <= now
      /\ RefreshInterval * (row - since - TTL) <= TTL * (at[c] - RefreshInterval - since)
  BY <1>1 DEF ExpiryInv, ExpiryFollowsTicker, Refreshes, Holding
<1>4. RefreshInterval * (row' - since' - TTL)
        = RefreshInterval * (row - since - TTL) + RefreshInterval * TTL
  BY <1>1, <1>2, Types
<1>5. TTL * (at[c] - since) = TTL * (at[c] - RefreshInterval - since) + RefreshInterval * TTL
  BY <1>1, Types
<1>6. RefreshInterval * (row' - since' - TTL) <= TTL * (at[c] - since)
  <2> DEFINE a == RefreshInterval * (row - since - TTL)
             b == TTL * (at[c] - RefreshInterval - since)
             k == RefreshInterval * TTL
  <2>1. a \in Int /\ b \in Int /\ k \in Int /\ a <= b
    BY <1>1, <1>3, Types
  <2> QED BY <1>4, <1>5, <2>1
<1>7. TTL * (at[c] - since) <= TTL * (now - since)
  BY <1>1, <1>3, Types, ProductGrows
<1>8. ExpiryRunsAhead'
  <2>1. RefreshInterval * (row' - since' - TTL) <= TTL * (now' - since')
    <3> DEFINE a == RefreshInterval * (row' - since' - TTL)
               b == TTL * (at[c] - since)
               k == TTL * (now - since)
    <3>1. a \in Int /\ b \in Int /\ k \in Int
      BY <1>1, <1>2, Types
    <3>2. a <= b /\ b <= k
      BY <1>6, <1>7
    <3>3. a <= k
      BY <3>1, <3>2
    <3> QED BY <3>3, <1>2
  <2> QED BY <2>1 DEF ExpiryRunsAhead
<1>9. Refreshes(c)'
  <2>1. at'[c] - RefreshInterval = at[c]
    BY <1>1, <1>2, Types DEF TypeOK
  <2> QED BY <1>1, <1>2, <1>3, <1>6, <2>1 DEF Refreshes, TypeOK
<1>10. ASSUME NEW d \in Clients, d # c PROVE Refreshes(d)'
  <2>1. pc'[d] \notin Holding
    BY <1>1, <1>2, <1>10 DEF IndInv, OwnedUntilLapse, Ownership, Owner, Locked, Holding, TypeOK
  <2> QED BY <2>1 DEF Refreshes
<1> QED
  BY <1>2, <1>8, <1>9, <1>10 DEF ExpiryInv, ExpiryFollowsTicker

\* Time: the bound moves on with the clock.
LEMMA ExpiryTick ==
  ASSUME IndInv, ExpiryInv, Tick
  PROVE  ExpiryInv'
<1>1. TypeOK /\ now' = now + 1 /\ UNCHANGED <<row, since, pc, at>> /\ (~lapsed' => ~lapsed)
  BY Zenon DEF Tick, IndInv
<1>2. ASSUME ~lapsed', (row # NoRow)' PROVE ExpiryRunsAhead'
  <2>1. RefreshInterval * (row - since - TTL) <= TTL * (now - since)
    BY <1>1, <1>2 DEF ExpiryInv, ExpiryRunsAhead
  <2>2. TTL * (now - since) <= TTL * (now + 1 - since)
    BY <1>1, Types, ProductGrows
  <2> DEFINE a == RefreshInterval * (row - since - TTL)
             b == TTL * (now - since)
             k == TTL * (now + 1 - since)
  <2>3. a \in Int /\ b \in Int /\ k \in Int
    BY <1>1, Types
  <2>4. a <= b /\ b <= k
    BY <2>1, <2>2
  <2>5. a <= k
    BY <2>3, <2>4
  <2>6. k = TTL * (now' - since') /\ a = RefreshInterval * (row' - since' - TTL)
    <3>1. now' - since' = now + 1 - since /\ row' - since' - TTL = row - since - TTL
      BY <1>1, Types
    <3> QED BY <3>1
  <2>7. RefreshInterval * (row' - since' - TTL) <= TTL * (now' - since')
    BY <2>5, <2>6
  <2> QED BY <2>7 DEF ExpiryRunsAhead
<1>3. ASSUME ~lapsed' PROVE ExpiryFollowsTicker'
  BY <1>1, <1>3, Types DEF ExpiryInv, ExpiryFollowsTicker, Refreshes
<1>4. since' <= now'
  BY <1>1, Types DEF ExpiryInv, ExpiryFollowsTicker
<1> QED BY <1>2, <1>3, <1>4 DEF ExpiryInv, ExpiryRunsAhead, ExpiryFollowsTicker

\* The steps that leave the row alone, delete it, or need a lapse.
LEMMA ExpiryOther ==
  ASSUME IndInv, ExpiryInv, NEW c \in Clients,
         \/ TryLock(c) \/ Select(c) \/ Update(c) \/ RefreshSelect(c) \/ Unlock(c) \/ Delete(c)
         \/ Crash(c) \/ DeleteFails(c) \/ RefreshFails(c)
  PROVE  ExpiryInv'
<1> USE DEF ExpiryInv, ExpiryRunsAhead, ExpiryFollowsTicker, Refreshes, Holding, Go, Rest
<1>0. TypeOK /\ (~lapsed => Ownership)
  BY DEF IndInv, OwnedUntilLapse
<1>a. pc[c] = "update" => at[c] <= now
  BY DEF IndInv, Attempts, Attempting
<1>1. CASE TryLock(c)
  BY <1>0, <1>1 DEF TryLock, TypeOK
<1>2. CASE Select(c)
  BY <1>0, <1>2 DEF Select, TypeOK
<1>3. CASE Update(c)
  BY <1>0, <1>a, <1>3 DEF Update, Ownership
<1>4. CASE RefreshSelect(c)
  BY <1>0, <1>4 DEF RefreshSelect, TypeOK
<1>5. CASE Unlock(c)
  BY <1>0, <1>5 DEF Unlock, TypeOK
<1>6. CASE Delete(c)
  BY <1>0, <1>6, SettleFacts DEF Delete, TypeOK, Ownership, AtRest, Owner, Locked
<1>7. CASE Crash(c)
  BY <1>0, <1>7, SettleFacts DEF Crash, TypeOK, AtRest, Owner, Locked
<1>8. CASE DeleteFails(c)
  BY <1>0, <1>8, SettleFacts DEF DeleteFails, TypeOK, AtRest, Owner, Locked
<1>9. CASE RefreshFails(c)
  BY <1>0, <1>9 DEF RefreshFails, TypeOK
<1> QED BY <1>1, <1>2, <1>3, <1>4, <1>5, <1>6, <1>7, <1>8, <1>9

\* Until a row expires, its expiry is ahead by no more than the refreshes make it.
THEOREM ExpiryBounded == Spec => []ExpiryRunsAhead
<1>1. IndInv /\ ExpiryInv /\ [Next]_vars => ExpiryInv'
  <2> SUFFICES ASSUME IndInv, ExpiryInv, [Next]_vars PROVE ExpiryInv'
    OBVIOUS
  <2>1. ASSUME NEW c \in Clients, Step(c) PROVE ExpiryInv'
    <3>1. CASE RefreshUpdate(c) /\ lapsed
      BY <3>1 DEF RefreshUpdate, ExpiryInv, ExpiryRunsAhead, ExpiryFollowsTicker
    <3> QED BY <2>1, <3>1, ExpiryInsert, ExpiryRefresh, ExpiryOther DEF Step
  <2>2. ASSUME NEW c \in Clients, Crash(c) \/ DeleteFails(c) \/ RefreshFails(c)
        PROVE  ExpiryInv'
    BY <2>2, ExpiryOther
  <2>3. CASE Tick
    BY <2>3, ExpiryTick
  <2>4. CASE UNCHANGED vars
    BY <2>4 DEF vars, ExpiryInv, ExpiryRunsAhead, ExpiryFollowsTicker, Refreshes
  <2> QED BY <2>1, <2>2, <2>3, <2>4 DEF Next
<1>2. ExpiryInv => ExpiryRunsAhead
  BY DEF ExpiryInv
<1> QED BY Inductive, ExpiryInit, <1>1, <1>2, PTL DEF Spec

-----------------------------------------------------------------------------
(* The refinement: every step is one of MutexService or changes nothing     *)
(* there.                                                                   *)

\* What a step does to the owners.
LEMMA OwnersOfPc ==
  ASSUME TypeOK, NEW c \in Clients, NEW point \in Points, pc' = [pc EXCEPT ![c] = point]
  PROVE  /\ \A d \in Clients : d # c => (Owner(d)' <=> Owner(d))
         /\ Owner(c)' <=> point \in Holding \cup {"unrefreshed", "delete"}
BY DEF TypeOK, Owner, Locked

\* The attempt that succeeds acquires; until then nothing changes.
LEMMA AttemptRefines ==
  ASSUME IndInv, NEW c \in Clients,
         TryLock(c) \/ Insert(c) \/ Select(c) \/ Update(c)
  PROVE  Service!Acquire(c) \/ UNCHANGED <<Owners, row = NoRow, faults > 0, lapsed>>
<1>0. TypeOK /\ ~Owner(c)
  BY DEF IndInv, TypeOK, Owner, Locked, Holding, TryLock, Insert, Select, Update
<1>1. ASSUME NEW point \in {"idle"} \cup Attempting, pc' = [pc EXCEPT ![c] = point]
      PROVE  Owners' = Owners
  BY <1>0, <1>1, OwnersOfPc DEF Owners, Points, Attempting, Holding
<1>2. ASSUME pc' = [pc EXCEPT ![c] = "held"]
      PROVE  Owners' = Owners \cup {c}
  BY <1>0, <1>2, OwnersOfPc DEF Owners, Points, Holding
<1>3. CASE TryLock(c)
  BY <1>1, <1>3 DEF TryLock, Go, Attempting
<1>4. CASE Insert(c) /\ row # NoRow
  BY <1>1, <1>4 DEF Insert, Go, Attempting
<1>5. CASE Select(c)
  BY <1>1, <1>5 DEF Select, Go, Rest, Attempting
<1>6. CASE Insert(c) /\ row = NoRow
  <2>1. row' # NoRow
    BY <1>0, <1>6, TimesAssumption DEF Insert, NoRow, TypeOK
  <2> QED BY <1>0, <1>2, <1>6, <2>1 DEF Insert, Acquired, Go, Owners, Service!Acquire
<1>7. CASE Update(c)
  <2>1. lapsed
    BY <1>7 DEF IndInv, TypeOK, OwnedUntilLapse, Ownership, Update
  <2> QED BY <1>0, <1>2, <1>7, <2>1 DEF Update, Acquired, Go, Owners, Service!Acquire
<1> QED BY <1>3, <1>4, <1>5, <1>6, <1>7

\* The refresher keeps the mutex, and the row if there is one; Unlock releases it
\* with the DELETE.
LEMMA OwnerRefines ==
  ASSUME IndInv, NEW c \in Clients,
         RefreshSelect(c) \/ RefreshUpdate(c) \/ Unlock(c) \/ Delete(c)
  PROVE  Service!Release(c) \/ UNCHANGED <<Owners, row = NoRow, faults > 0, lapsed>>
<1>0. TypeOK /\ Owner(c)
  BY DEF IndInv, TypeOK, Owner, Locked, Holding, RefreshSelect, RefreshUpdate, Unlock, Delete
<1>1. ASSUME NEW point \in Holding \cup {"unrefreshed", "delete"},
             pc' = [pc EXCEPT ![c] = point]
      PROVE  Owners' = Owners
  BY <1>0, <1>1, OwnersOfPc DEF Owners, Points
<1>2. CASE RefreshSelect(c)
  BY <1>1, <1>2 DEF RefreshSelect, Go, Rest, Holding
<1>3. CASE RefreshUpdate(c)
  <2>1. (row' = NoRow) = (row = NoRow)
    BY <1>0, <1>3, TimesAssumption DEF RefreshUpdate, NoRow, TypeOK
  <2> QED BY <1>1, <1>3, <2>1 DEF RefreshUpdate, Go, Holding
<1>4. CASE Unlock(c)
  BY <1>1, <1>4 DEF Unlock, Go
<1>5. CASE Delete(c)
  <2>1. pc' = [pc EXCEPT ![c] = "idle"]
    BY <1>5 DEF Delete, Rest, Go
  <2>2. \A d \in Clients : Owner(d)' <=> (Owner(d) /\ d # c)
    BY <1>0, <2>1 DEF TypeOK, Owner, Locked, Holding
  <2>3. Owners' = Owners \ {c}
    BY <2>2 DEF Owners
  <2>4. Service!MayRecover
    <3>1. AtRest' => row' = NoRow /\ Owners' = {}
      BY DEF AtRest, Owners
    <3>2. lapsed' = lapsed \/ (lapsed' = FALSE /\ AtRest')
      BY <1>0, <1>5, Zenon DEF Delete, Settle, TypeOK
    <3> QED BY <3>1, <3>2 DEF Service!MayRecover
  <2> QED BY <1>0, <1>5, <2>3, <2>4 DEF Owners, Delete, Service!Release
<1> QED BY <1>2, <1>3, <1>4, <1>5

\* A fault leaves the row, and the owner or nobody knows that it is there.
LEMMA FaultRefines ==
  ASSUME IndInv, NEW c \in Clients, Crash(c) \/ DeleteFails(c) \/ RefreshFails(c)
  PROVE  Service!Fail(c)
<1>0. TypeOK /\ Owner(c) /\ (faults > 0)' /\ UNCHANGED row
  BY DEF IndInv, TypeOK, Owner, Locked, Holding, Crash, DeleteFails, RefreshFails, Fault
<1>1. \E point \in {"idle", "crashed", "unrefreshed"} : pc' = [pc EXCEPT ![c] = point]
  BY DEF Crash, DeleteFails, RefreshFails, Go, Rest
<1>2. Owners'
        \in {Owners, Owners \ {c}}
  BY <1>0, <1>1, OwnersOfPc DEF Owners, Points, Holding
<1>3. Service!MayRecover
  <2>1. AtRest' => row' = NoRow /\ Owners' = {}
    BY DEF AtRest, Owners
  <2>2. lapsed' = lapsed \/ (lapsed' = FALSE /\ AtRest')
    BY <1>0, Zenon DEF Crash, DeleteFails, RefreshFails, Settle, TypeOK
  <2> QED BY <2>1, <2>2 DEF Service!MayRecover
<1> QED BY <1>0, <1>2, <1>3 DEF Owners, Service!Fail

\* Time: a row expires only after a fault.
LEMMA TickRefines ==
  ASSUME IndInv, IndInv', Tick
  PROVE  Service!Lapse \/ UNCHANGED <<Owners, row = NoRow, faults > 0, lapsed>>
<1>1. UNCHANGED <<row, pc, faults>> /\ (lapsed' = (lapsed \/ (row # NoRow /\ now + 1 >= row)))
  BY DEF Tick
<1>2. Owners' = Owners
  BY <1>1 DEF Owners, Owner, Locked
<1>3. CASE ~lapsed /\ row # NoRow /\ now + 1 >= row
  <2>1. lapsed' = TRUE
    BY <1>1, <1>3
  <2>2. faults' \in Nat /\ faults' # 0
    BY <2>1 DEF IndInv, TypeOK, FaultFreeRefreshed, Refreshed
  <2>3. faults > 0
    BY <1>1, <2>2
  <2> QED BY <1>1, <1>2, <1>3, <2>1, <2>3 DEF Service!Lapse
<1>4. CASE lapsed \/ ~(row # NoRow /\ now + 1 >= row)
  <2>1. lapsed' = lapsed
    BY <1>1, <1>4 DEF IndInv, TypeOK
  <2> QED BY <1>1, <1>2, <2>1
<1> QED BY <1>3, <1>4

\* The mutex implements MutexService.
THEOREM Implements == Spec => ImplementsService
<1>1. Init => Service!MutexInit
  BY DEF Init, Service!MutexInit, Owners, Owner, Locked, Holding, NoRow
<1>2. IndInv /\ IndInv' /\ [Next]_vars
        => [Service!MutexNext]_<<Owners, row = NoRow, faults > 0, lapsed>>
  <2> SUFFICES ASSUME IndInv, IndInv', [Next]_vars
               PROVE  \/ Service!MutexNext
                      \/ UNCHANGED <<Owners, row = NoRow, faults > 0, lapsed>>
    OBVIOUS
  <2>1. ASSUME NEW c \in Clients, Step(c)
        PROVE  \/ Service!MutexNext
               \/ UNCHANGED <<Owners, row = NoRow, faults > 0, lapsed>>
    BY <2>1, AttemptRefines, OwnerRefines DEF Step, Service!MutexNext
  <2>2. ASSUME NEW c \in Clients, Crash(c) \/ DeleteFails(c) \/ RefreshFails(c)
        PROVE  Service!MutexNext
    BY <2>2, FaultRefines DEF Service!MutexNext
  <2>3. CASE Tick
    BY <2>3, TickRefines DEF Service!MutexNext
  <2>4. CASE UNCHANGED vars
    BY <2>4 DEF vars, Owners, Owner, Locked
  <2> QED BY <2>1, <2>2, <2>3, <2>4 DEF Next
<1> QED BY Inductive, <1>1, <1>2, PTL DEF Spec, ImplementsService, Service!MutexSpec

\* What the service promises follows from its specification alone: one owner unless
\* the mutex has lapsed, and no lapse before a fault.
THEOREM ServiceIsExclusive == Service!MutexSpec => []Service!Exclusive
<1>1. Service!MutexInit => Service!Exclusive
  BY DEF Service!MutexInit, Service!Exclusive
<1>2. /\ Service!Exclusive
      /\ [Service!MutexNext]_<<Owners, row = NoRow, faults > 0, lapsed>>
      => Service!Exclusive'
  <2> SUFFICES ASSUME Service!Exclusive,
                      [Service!MutexNext]_<<Owners, row = NoRow, faults > 0, lapsed>>
               PROVE  Service!Exclusive'
    OBVIOUS
  <2>1. ASSUME NEW c \in Clients, Service!Acquire(c) PROVE Service!Exclusive'
    BY <2>1 DEF Service!Acquire, Service!Exclusive
  <2>2. ASSUME NEW c \in Clients, Service!Release(c) PROVE Service!Exclusive'
    BY <2>2 DEF Service!Release, Service!MayRecover, Service!Exclusive
  <2>3. ASSUME NEW c \in Clients, Service!Fail(c) PROVE Service!Exclusive'
    BY <2>3 DEF Service!Fail, Service!MayRecover, Service!Exclusive
  <2>4. CASE Service!Lapse
    BY <2>4 DEF Service!Lapse, Service!Exclusive
  <2>5. CASE UNCHANGED <<Owners, row = NoRow, faults > 0, lapsed>>
    BY <2>5 DEF Service!Exclusive
  <2> QED BY <2>1, <2>2, <2>3, <2>4, <2>5 DEF Service!MutexNext
<1> QED BY <1>1, <1>2, PTL DEF Service!MutexSpec
=============================================================================
