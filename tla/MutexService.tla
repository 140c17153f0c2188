---------------------------- MODULE MutexService ----------------------------
(***************************************************************************)
(* What the database mutex promises, without row, expiries or statements:  *)
(* a client takes it when it is free and keeps it until it releases it.    *)
(* An owner that fails leaves the mutex neither owned nor free, or goes on *)
(* as if nothing had happened; then, and only then, the mutex may lapse,   *)
(* and nothing is promised of who owns it until all have released it.      *)
(***************************************************************************)
CONSTANT Clients

VARIABLES
  owners,  \* the clients that own the mutex
  free,    \* nobody owns it, and nobody has failed who did
  faulty,  \* something has failed
  lapsed   \* the mutex has been given up for lost, and is not in order again

MutexInit == owners = {} /\ free = TRUE /\ faulty = FALSE /\ lapsed = FALSE

\* A mutex that is free, and that nobody owns, may be in order again.
MayRecover == lapsed' = lapsed \/ (lapsed' = FALSE /\ free' /\ owners' = {})

Acquire(c) ==
  /\ c \notin owners
  /\ free \/ lapsed
  /\ owners' = owners \cup {c}
  /\ ~lapsed => ~free'
  /\ UNCHANGED <<faulty, lapsed>>

Release(c) ==
  /\ c \in owners
  /\ owners' = owners \ {c}
  /\ free' = TRUE
  /\ MayRecover
  /\ UNCHANGED faulty

\* The mutex stays taken, whether or not its owner knows.
Fail(c) ==
  /\ c \in owners
  /\ faulty' = TRUE
  /\ owners' \in {owners, owners \ {c}}
  /\ UNCHANGED free
  /\ MayRecover

Lapse ==
  /\ faulty /\ ~free
  /\ lapsed' = TRUE
  /\ UNCHANGED <<owners, free, faulty>>

MutexNext ==
  \/ \E c \in Clients : Acquire(c) \/ Release(c) \/ Fail(c)
  \/ Lapse

MutexSpec == MutexInit /\ [][MutexNext]_<<owners, free, faulty, lapsed>>

-----------------------------------------------------------------------------
\* What follows: unless it has lapsed the mutex has one owner and is not free while it
\* has one; and it does not lapse before something fails.
Exclusive ==
  /\ ~lapsed => /\ \A c, d \in owners : c = d
                /\ free => owners = {}
  /\ lapsed => faulty
=============================================================================
