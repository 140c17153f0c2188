------------------------------ MODULE SQLMutex ------------------------------
(***************************************************************************)
(* The database mutex of store/sql_lock_store.go: a row of db_lock with an *)
(* expiry, inserted to lock, refreshed by the holder, overwritten by a     *)
(* client that finds it expired, deleted to unlock.                        *)
(*                                                                         *)
(* Each client has a Mutex of its own on the same key.  Every SQL          *)
(* statement that other clients can see is a step.  The clock is global;   *)
(* MaxDelay bounds how late a client that is not faulty is with a step     *)
(* that is due, and Tick keeps that bound.                                 *)
(***************************************************************************)
EXTENDS Integers

CONSTANTS
  Clients,
  TTL,              \* tTL
  RefreshInterval,  \* refreshInterval
  MaxDelay,         \* how long an attempt, a refresh or an unlock may take
  MaxTime,          \* bound on the clock
  Faults,           \* the faults that may happen
  MaxFaults         \* bound: how many of them

ASSUME TimesAssumption ==
  /\ TTL \in Nat /\ RefreshInterval \in Nat /\ MaxDelay \in Nat
  /\ RefreshInterval + 3 * MaxDelay < TTL
ASSUME BoundsAssumption == MaxTime \in Nat /\ MaxFaults \in Nat
ASSUME FaultsAssumption == Faults \subseteq {"crash", "delete", "refresh"}

VARIABLES
  now,      \* the clock
  row,      \* ExpireAt of the row, NoRow when there is none
  pc,       \* where each client is
  at,       \* when its attempt began, its ticker fires next or Unlock began
  expiry,   \* the expiry its refresher has read
  since,    \* when the attempt began that the row is from (history)
  lapsed,   \* whether a row has expired since the mutex was last at rest (history)
  faults    \* how many faults happened

vars == <<now, row, pc, at, expiry, since, lapsed, faults>>

NoRow == 0
Attempting == {"insert", "select", "update"}
Holding == {"held", "refresh"}
Points ==
  {"idle"} \cup Attempting \cup Holding \cup {"unrefreshed", "delete", "crashed"}

Init ==
  /\ now = 0
  /\ row = NoRow
  /\ pc = [c \in Clients |-> "idle"]
  /\ at = [c \in Clients |-> 0]
  /\ expiry = [c \in Clients |-> 0]
  /\ since = 0
  /\ lapsed = FALSE
  /\ faults = 0

\* Client c is at a point, with a step that is due at a time.
Go(c, point, time) ==
  /\ pc' = [pc EXCEPT ![c] = point]
  /\ at' = [at EXCEPT ![c] = time]

\* Client c is at a point where nothing is due.
Rest(c, point) == Go(c, point, 0)

\* Lock has returned to the client and it has not called Unlock.
Locked(c) == pc[c] \in Holding \cup {"unrefreshed"}

\* A client that has the mutex, or is about to delete its row.
Owner(c) == Locked(c) \/ pc[c] = "delete"
Owners == {c \in Clients : Owner(c)}

\* There is no row, nobody has the mutex and nobody is about to take one over.
AtRest == row = NoRow /\ \A c \in Clients : ~Owner(c) /\ pc[c] # "update"

\* What expired is forgotten when the mutex comes to rest.
Settle == lapsed' = (lapsed /\ ~AtRest')

-----------------------------------------------------------------------------
(* Lock.                                                                    *)

\* An attempt begins: tryLock reads the clock.  Lock comes back here after
\* every failed attempt; it may as well give up when its context is done.
TryLock(c) ==
  /\ pc[c] = "idle"
  /\ Go(c, "insert", now)
  /\ UNCHANGED <<now, row, expiry, since, lapsed, faults>>

\* Lock returns and the refresher starts its ticker.
Acquired(c) == Go(c, "held", now + RefreshInterval)

\* The INSERT overwrites a row that is there.
MutantInsert(c) ==
  /\ pc[c] = "insert"
  /\ row' = at[c] + TTL
  /\ since' = at[c]
  /\ Acquired(c)
  /\ UNCHANGED <<now, expiry, lapsed, faults>>

\* INSERT and COMMIT; the primary key makes the INSERT fail when there is a row.
Insert(c) ==
  /\ pc[c] = "insert"
  /\ \/ /\ row = NoRow
        /\ row' = at[c] + TTL
        /\ since' = at[c]
        /\ Acquired(c)
     \/ /\ row # NoRow
        /\ Go(c, "select", at[c])
        /\ UNCHANGED <<row, since>>
  /\ UNCHANGED <<now, expiry, lapsed, faults>>

\* The test for expiry is the wrong way round.
MutantSelect(c) ==
  /\ pc[c] = "select"
  /\ IF row = NoRow \/ at[c] > row
     THEN Rest(c, "idle")
     ELSE Go(c, "update", at[c])
  /\ UNCHANGED <<now, row, expiry, since, lapsed, faults>>

\* releaseLock: the SELECT, which locks nothing, and the test for expiry.
Select(c) ==
  /\ pc[c] = "select"
  /\ IF row = NoRow \/ at[c] < row
     THEN Rest(c, "idle")
     ELSE Go(c, "update", at[c])
  /\ UNCHANGED <<now, row, expiry, since, lapsed, faults>>

\* releaseLock: the UPDATE and COMMIT.  It finds the row by its key alone, and
\* succeeds also when there is no such row any more.
Update(c) ==
  /\ pc[c] = "update"
  /\ row' = IF row = NoRow THEN NoRow ELSE at[c] + TTL
  /\ since' = at[c]
  /\ Acquired(c)
  /\ UNCHANGED <<now, expiry, lapsed, faults>>

-----------------------------------------------------------------------------
(* The refresher of a holder.                                               *)

\* The error of getExpireAt is dropped, and its -1 used.
MutantRefreshSelect(c) ==
  /\ pc[c] = "held" /\ now >= at[c]
  /\ expiry' = [expiry EXCEPT ![c] = IF row = NoRow THEN -1 ELSE row]
  /\ Go(c, "refresh", at[c])
  /\ UNCHANGED <<now, row, since, lapsed, faults>>

\* refreshLock: the SELECT.  Without a row it fails and the refresher ends.
RefreshSelect(c) ==
  /\ pc[c] = "held" /\ now >= at[c]
  /\ \/ /\ row # NoRow
        /\ expiry' = [expiry EXCEPT ![c] = row]
        /\ Go(c, "refresh", at[c])
     \/ /\ row = NoRow
        /\ Rest(c, "unrefreshed")
        /\ UNCHANGED expiry
  /\ UNCHANGED <<now, row, since, lapsed, faults>>

\* The refresh writes back the expiry it has read.
MutantRefreshUpdate(c) ==
  /\ pc[c] = "refresh"
  /\ row' = IF row = NoRow THEN NoRow ELSE expiry[c]
  /\ expiry' = [expiry EXCEPT ![c] = 0]
  /\ Go(c, "held", at[c] + RefreshInterval)
  /\ UNCHANGED <<now, since, lapsed, faults>>

\* refreshLock: the UPDATE adds tTL to the expiry it has read.  The ticker keeps
\* its period whatever the refresh took.
RefreshUpdate(c) ==
  /\ pc[c] = "refresh"
  /\ row' = IF row = NoRow THEN NoRow ELSE expiry[c] + TTL
  /\ expiry' = [expiry EXCEPT ![c] = 0]
  /\ Go(c, "held", at[c] + RefreshInterval)
  /\ UNCHANGED <<now, since, lapsed, faults>>

-----------------------------------------------------------------------------
(* Unlock.                                                                  *)

\* Unlock stops the refresher and waits until it has finished a refresh.
Unlock(c) ==
  /\ pc[c] \in {"held", "unrefreshed"}
  /\ Go(c, "delete", now)
  /\ UNCHANGED <<now, row, expiry, since, lapsed, faults>>

\* The DELETE finds the row by its key alone.
Delete(c) ==
  /\ pc[c] = "delete"
  /\ row' = NoRow
  /\ Rest(c, "idle")
  /\ Settle
  /\ UNCHANGED <<now, expiry, since, faults>>

-----------------------------------------------------------------------------
(* Faults and time.                                                         *)

Fault(f) == f \in Faults /\ faults < MaxFaults /\ faults' = faults + 1

\* The process of a client dies; its row stays.
Crash(c) ==
  /\ Fault("crash")
  /\ pc[c] \in Holding \cup {"delete"}
  /\ Rest(c, "crashed")
  /\ expiry' = [expiry EXCEPT ![c] = 0]
  /\ UNCHANGED <<now, row, since>>
  /\ Settle

\* The DELETE fails; Unlock returns the error.
DeleteFails(c) ==
  /\ Fault("delete")
  /\ pc[c] = "delete"
  /\ Rest(c, "idle")
  /\ UNCHANGED <<now, row, expiry, since>>
  /\ Settle

\* A refresh fails, because the context of Lock is done or the database is not
\* there: the refresher ends and nobody is told.
RefreshFails(c) ==
  /\ Fault("refresh")
  /\ \/ pc[c] = "held" /\ now >= at[c]
     \/ pc[c] = "refresh"
  /\ Rest(c, "unrefreshed")
  /\ expiry' = [expiry EXCEPT ![c] = 0]
  /\ UNCHANGED <<now, row, since, lapsed>>

\* Time passes, but nobody is later than MaxDelay with a step that is due.
Tick ==
  /\ now < MaxTime
  /\ \A c \in Clients :
       pc[c] \in Attempting \cup Holding \cup {"delete"} => now < at[c] + MaxDelay
  /\ now' = now + 1
  /\ lapsed' = (lapsed \/ (row # NoRow /\ now + 1 >= row))
  /\ UNCHANGED <<row, pc, at, expiry, since, faults>>

Step(c) ==
  \/ TryLock(c) \/ Insert(c) \/ Select(c) \/ Update(c)
  \/ RefreshSelect(c) \/ RefreshUpdate(c) \/ Unlock(c) \/ Delete(c)

Next ==
  \/ \E c \in Clients : Step(c)
  \/ \E c \in Clients : Crash(c) \/ DeleteFails(c) \/ RefreshFails(c)
  \/ Tick

Spec == Init /\ [][Next]_vars

-----------------------------------------------------------------------------
(* Properties.                                                              *)

\* Every variable keeps its type.
TypeOK ==
  /\ now \in Nat /\ row \in Nat /\ since \in Nat /\ faults \in Nat
  /\ lapsed \in BOOLEAN
  /\ pc \in [Clients -> Points]
  /\ at \in [Clients -> Nat]
  /\ expiry \in [Clients -> Nat]

\* "The calling goroutine blocks until the mutex can be locked": at most one
\* client has the mutex.
MutualExclusion == \A c, d \in Clients : Locked(c) /\ Locked(d) => c = d

\* Whatever crashes and fails, two clients have the mutex only if a row, of whichever
\* client, has expired since the mutex was last at rest; once the last of them has
\* unlocked and nobody is about to take it over, one at a time has it again.
ExclusiveUntilLapse == ~lapsed => MutualExclusion

\* "tTL is the interval after which a locked mutex will expire unless refreshed": at
\* no time does the row have more than tTL to go.
ExpiresUnlessRefreshed == row <= now + TTL

\* An attempt is at most MaxDelay old.
Attempts ==
  \A c \in Clients : pc[c] \in Attempting => at[c] <= now /\ now <= at[c] + MaxDelay

\* While no row has expired: a row is good, it is there while somebody owns it, there
\* is one owner, its refresher has read the row as it is, and nobody is about to
\* take the row over.
Ownership ==
  /\ row # NoRow => now < row
  /\ \A c \in Clients :
       /\ Owner(c) => row # NoRow
       /\ pc[c] # "update"
       /\ pc[c] = "refresh" => expiry[c] = row
  /\ \A c, d \in Clients : Owner(c) /\ Owner(d) => c = d

OwnedUntilLapse == ~lapsed => Ownership

\* Without a fault a row never expires under its owner: it is good beyond the
\* next refresh and an unlock, both late.
Refreshed ==
  /\ ~lapsed
  /\ row # NoRow => \E c \in Clients : Owner(c)
  /\ \A c \in Clients :
       /\ pc[c] # "unrefreshed"
       /\ Owner(c) => now <= at[c] + MaxDelay
       /\ pc[c] \in Holding => row > at[c] + 2 * MaxDelay
       /\ pc[c] = "delete" => row > at[c] + MaxDelay

FaultFreeRefreshed == faults = 0 => Refreshed

\* What holds instead.  A refresh adds tTL to the expiry that is there, not to the
\* clock (sql_lock_store.go:190): for each refreshInterval that the row has been there
\* its expiry moves on by tTL.  That is all, whatever fails: when its owner dies
\* after a time t, the row expires within tTL + t * tTL / refreshInterval of the
\* attempt it is from.
ExpiryRunsAhead ==
  ~lapsed /\ row # NoRow =>
    RefreshInterval * (row - since - TTL) <= TTL * (now - since)

\* The ticker of a holder has fired once for each refresh.
Refreshes(c) ==
  pc[c] \in Holding =>
    /\ at[c] - RefreshInterval <= now
    /\ pc[c] = "refresh" => at[c] <= now
    /\ RefreshInterval * (row - since - TTL) <= TTL * (at[c] - RefreshInterval - since)

ExpiryFollowsTicker == since <= now /\ (~lapsed => \A c \in Clients : Refreshes(c))

\* The inductive invariant of the mutex, and the one about its expiry.
IndInv == TypeOK /\ Attempts /\ OwnedUntilLapse /\ FaultFreeRefreshed
ExpiryInv == ExpiryRunsAhead /\ ExpiryFollowsTicker

-----------------------------------------------------------------------------
Service == INSTANCE MutexService
             WITH owners <- Owners,
                  free   <- row = NoRow,
                  faulty <- faults > 0

\* Every behaviour of the mutex is one of the service: it is taken only when it is
\* free, released by its owner, and once something has failed and only then it may
\* be taken from the owner, until all is at rest again (sql_lock_store.go as a whole).
ImplementsService == Service!MutexSpec
=============================================================================
