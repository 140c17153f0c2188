---------------------------- MODULE IssuesProofs ----------------------------
(***************************************************************************)
(* Proofs about Issues, for any labels, webhooks and ticks: no server      *)
(* posts a message twice, and the row hides no label that nobody has       *)
(* answered.                                                               *)
(***************************************************************************)
EXTENDS Issues, TLAPS

\* What the invariant says of the row and of what goroutines are about to save
\* depends on posts and histories that only grow.
LEMMA HandledGrows ==
  ASSUME NEW l \in Labels, Handled(l), TypeOK, TypeOK',
         \A m \in Labels, s \in Servers : posts[m][s] <= posts'[m][s],
         silent \subseteq silent', refused \subseteq refused'
  PROVE  Handled(l)'
BY DEF Handled, Answered, TypeOK

\* Init establishes the invariant: there is no row and nobody has the lock.
LEMMA InitInv == Init => IndInv
BY ThreadsAssumption, LabelsAssumption
   DEF Init, IndInv, TypeOK, OncePerServer, RowIsAnswered, LockHeld, SeenIsHandled, Locked,
       Issue, States, NoRow, Points, Servers

\* Users and webhooks leave the servers alone.
LEMMA GitHubInv ==
  ASSUME IndInv, (\E l \in Labels : AddLabel(l) \/ RemoveLabel(l)) \/ CloseOrReopen
  PROVE  IndInv'
<1> USE DEF IndInv, TypeOK, OncePerServer, RowIsAnswered, LockHeld, SeenIsHandled, Handled,
            Answered, Notify, histories
<1>1. ASSUME NEW l \in Labels, AddLabel(l) PROVE IndInv'
  BY <1>1 DEF AddLabel
<1>2. ASSUME NEW l \in Labels, RemoveLabel(l) PROVE IndInv'
  BY <1>2 DEF RemoveLabel
<1>3. CASE CloseOrReopen
  BY <1>3 DEF CloseOrReopen
<1> QED BY <1>1, <1>2, <1>3

\* A goroutine learns the state of its issue.
LEMMA SeenType ==
  ASSUME TypeOK, NEW t \in Threads, NEW st \in States,
         seen' = [seen EXCEPT ![t].state = st]
  PROVE  seen' \in [Threads -> Issue]
<1>1. seen \in [Threads -> Issue]
  BY DEF TypeOK
<1>2. seen' = [seen EXCEPT ![t] = [seen[t] EXCEPT !.state = st]]
  OBVIOUS
<1>3. [seen[t] EXCEPT !.state = st] \in Issue
  BY <1>1 DEF Issue
<1> QED BY <1>1, <1>2, <1>3

\* Up to the row: a goroutine that holds nothing and has nothing to save yet.
LEMMA FetchInv ==
  ASSUME IndInv, NEW t \in Threads,
         \/ t \in Webhooks /\ ReceiveEvent(t)
         \/ TickList(t) \/ GetIssueFromGithub(t)
  PROVE  IndInv'
<1> USE DEF IndInv, TypeOK, OncePerServer, RowIsAnswered, LockHeld, SeenIsHandled, Handled,
            Answered, Go, github, histories, Locked, Points, Issue, States
<1>1. CASE t \in Webhooks /\ ReceiveEvent(t)
  <2>1. sent[t] \in States
    BY <1>1 DEF ReceiveEvent
  <2>2. seen' \in [Threads -> Issue] /\ pc' \in [Threads -> Points]
    <3>1. TypeOK /\ seen' = [seen EXCEPT ![t].state = sent[t]]
      BY <1>1 DEF ReceiveEvent
    <3>2. pc \in [Threads -> Points] /\ pc' = [pc EXCEPT ![t] = "fetch"]
      BY <1>1 DEF ReceiveEvent
    <3>3. seen' \in [Threads -> Issue]
      BY <2>1, <3>1, SeenType
    <3> QED BY <3>2, <3>3
  <2>3. pc' = [pc EXCEPT ![t] = "fetch"]
    BY <1>1 DEF ReceiveEvent
  <2>4. \A u \in Threads : u # t => pc'[u] = pc[u] /\ seen'[u] = seen[u]
    BY <1>1 DEF ReceiveEvent
  <2>5. LockHeld'
    BY <1>1, <2>3, <2>4 DEF ReceiveEvent
  <2>6. SeenIsHandled'
    BY <1>1, <2>3, <2>4 DEF ReceiveEvent
  <2> QED BY <1>1, <2>2, <2>5, <2>6 DEF ReceiveEvent
<1>2. CASE TickList(t)
  <2>1. seen' \in [Threads -> Issue] /\ pc' \in [Threads -> Points]
    <3>1. TypeOK /\ seen' = [seen EXCEPT ![t].state = "open"]
      BY <1>2 DEF TickList
    <3>2. pc \in [Threads -> Points] /\ pc' = [pc EXCEPT ![t] = "fetch"]
      BY <1>2 DEF TickList
    <3>3. seen' \in [Threads -> Issue]
      BY <3>1, SeenType
    <3> QED BY <3>2, <3>3
  <2>2. pc' = [pc EXCEPT ![t] = "fetch"]
    BY <1>2 DEF TickList
  <2>3. \A u \in Threads : u # t => pc'[u] = pc[u] /\ seen'[u] = seen[u]
    BY <1>2 DEF TickList
  <2>4. LockHeld'
    BY <1>2, <2>2, <2>3 DEF TickList
  <2>5. SeenIsHandled'
    BY <1>2, <2>2, <2>3 DEF TickList
  <2> QED BY <1>2, <2>1, <2>4, <2>5 DEF TickList
<1>3. CASE GetIssueFromGithub(t)
  <2>1. CASE seen' = [seen EXCEPT ![t].labels = labels] /\ Go(t, "get")
    <3>1. seen' \in [Threads -> Issue]
      BY <2>1
    <3> QED BY <1>3, <2>1, <3>1 DEF GetIssueFromGithub
  <2>2. CASE Go(t, "done") /\ UNCHANGED seen
    BY <1>3, <2>2 DEF GetIssueFromGithub
  <2> QED BY <1>3, <2>1, <2>2 DEF GetIssueFromGithub
<1> QED BY <1>1, <1>2, <1>3

\* The old row is read: the labels that are not in it are still to do, and those
\* that are in it are handled.
LEMMA GetRowInv ==
  ASSUME IndInv, NEW t \in Threads, GetRow(t)
  PROVE  IndInv'
<1> USE DEF IndInv, Go, github, histories, GetRow
<1>1. TypeOK'
  <2>1. todo' \in [Threads -> SUBSET Labels]
    BY DEF TypeOK, Issue
  <2> QED BY <2>1 DEF TypeOK, Points
<1>2. OncePerServer' /\ RowIsAnswered'
  BY DEF OncePerServer, RowIsAnswered, Answered
<1>3. LockHeld'
  BY DEF TypeOK, LockHeld, Locked
<1>4. ASSUME NEW l PROVE Handled(l)' = Handled(l)
  BY DEF Handled, Answered
<1>5. ASSUME row # NoRow, todo' = [todo EXCEPT ![t] = seen[t].labels \ row.labels],
             NEW l \in seen[t].labels \ todo'[t]
      PROVE  Handled(l)
  BY <1>5 DEF TypeOK, RowIsAnswered, Handled
<1>6. SeenIsHandled'
  BY <1>4, <1>5 DEF TypeOK, SeenIsHandled, Locked
<1> QED BY <1>1, <1>2, <1>3, <1>6

\* The row is written, with labels that are silent or handled.
LEMMA SaveInv ==
  ASSUME IndInv, NEW t \in Threads, CreateRow(t) \/ EndCompare(t) \/ SaveRow(t)
  PROVE  IndInv'
<1> USE DEF IndInv, TypeOK, OncePerServer, RowIsAnswered, LockHeld, SeenIsHandled, Handled,
            Answered, Go, github, histories, Locked, Points, Issue, States
<1>1. CASE CreateRow(t)
  BY <1>1 DEF CreateRow
<1>2. CASE EndCompare(t)
  BY <1>2 DEF EndCompare
<1>3. CASE SaveRow(t)
  <2> USE <1>3 DEF SaveRow
  <2>1. TypeOK' /\ OncePerServer'
    OBVIOUS
  <2>2. LockHeld' /\ SeenIsHandled'
    OBVIOUS
  <2>3. RowIsAnswered'
    OBVIOUS
  <2> QED BY <2>1, <2>2, <2>3
<1> QED BY <1>1, <1>2, <1>3

\* The lock is taken: it was free, so nobody of this server was between Lock and
\* Unlock.
LEMMA LockInv ==
  ASSUME IndInv, NEW t \in Threads, NEW l \in Labels, Lock(t, l)
  PROVE  IndInv'
BY ThreadsAssumption
   DEF IndInv, TypeOK, OncePerServer, RowIsAnswered, LockHeld, SeenIsHandled, Handled,
       Answered, Go, github, histories, Locked, Points, Lock, ServerOf, Servers

\* The comments are listed: the message is not there, or the label is handled.
LEMMA GetCommentsInv ==
  ASSUME IndInv, NEW t \in Threads, GetComments(t)
  PROVE  IndInv'
<1> USE DEF IndInv, Go, github, histories, GetComments
<1>1. ServerOf(t) \in Servers /\ (pc[t] \in Locked => lock[ServerOf(t)] = t)
  BY DEF ServerOf, Servers, LockHeld
<1>2. ASSUME NEW l PROVE Handled(l)' = Handled(l) /\ (Answered(l) => Handled(l))
  BY DEF Handled, Answered
<1>3. OncePerServer' /\ RowIsAnswered'
  BY DEF OncePerServer, RowIsAnswered, Answered
<1>4. CASE ~Answered(current[t]) /\ Go(t, "post") /\ UNCHANGED <<todo, current, lock>>
  <2>1. TypeOK'
    BY <1>4 DEF TypeOK, Points
  <2>2. posts[current[t]][ServerOf(t)] = 0
    BY <1>1, <1>4 DEF TypeOK, LockHeld, Locked, Answered
  <2>3. LockHeld'
    BY <1>1, <1>4, <2>2 DEF TypeOK, LockHeld, Locked
  <2>4. SeenIsHandled'
    BY <1>2, <1>4 DEF TypeOK, SeenIsHandled, Locked
  <2> QED BY <1>3, <2>1, <2>3, <2>4
<1>5. CASE Answered(current[t]) /\ Unlock(t, "compare")
  <2>1. TypeOK'
    BY <1>5 DEF TypeOK, Points, Unlock
  <2>2. LockHeld'
    BY <1>1, <1>5 DEF TypeOK, LockHeld, Locked, Unlock
  <2>3. SeenIsHandled'
    BY <1>2, <1>5 DEF TypeOK, SeenIsHandled, Locked, Unlock
  <2> QED BY <1>3, <2>1, <2>2, <2>3
<1>6. CASE Unlock(t, "done")
  <2>1. TypeOK'
    BY <1>6 DEF TypeOK, Points, Unlock
  <2>2. LockHeld'
    BY <1>1, <1>6 DEF TypeOK, LockHeld, Locked, Unlock
  <2>3. SeenIsHandled'
    BY <1>2, <1>6 DEF TypeOK, SeenIsHandled, Locked, Unlock
  <2> QED BY <1>3, <2>1, <2>2, <2>3
<1> QED BY <1>4, <1>5, <1>6

\* The message is posted, or not: either way its label is handled.
LEMMA PostInv ==
  ASSUME IndInv, NEW t \in Threads, Post(t)
  PROVE  IndInv'
<1> USE DEF IndInv, Go, github, histories, Post, Unlock
<1> DEFINE srv == ServerOf(t)
<1> DEFINE mine == current[t]
<1>1. /\ srv \in Servers /\ lock[srv] = t /\ mine \in Labels /\ posts[mine][srv] = 0
  BY DEF ServerOf, Servers, LockHeld, Locked
<1>2. /\ posts' \in [Labels -> [Servers -> Nat]]
      /\ \A m \in Labels, s \in Servers :
           IF m = mine /\ s = srv THEN posts'[m][s] <= 1 ELSE posts'[m][s] = posts[m][s]
      /\ posts'[mine][srv] = 1 \/ mine \in refused'
  <2>1. CASE posts' = [posts EXCEPT ![mine][srv] = @ + 1]
    <3> HIDE DEF srv, mine
    <3>1. posts \in [Labels -> [Servers -> Nat]]
      BY DEF TypeOK
    <3> QED BY <1>1, <2>1, <3>1
  <2>2. CASE refused' = refused \cup {mine} /\ UNCHANGED posts
    <3> HIDE DEF srv, mine
    <3> QED BY <1>1, <2>2 DEF TypeOK
  <2> QED BY <2>1, <2>2
<1>3. pc[t] = "post" /\ pc' = [pc EXCEPT ![t] = "compare"]
  OBVIOUS
<1>4. /\ lock' = [lock EXCEPT ![srv] = NoThread]
      /\ current' = [current EXCEPT ![t] = NoLabel]
      /\ todo' = [todo EXCEPT ![t] = @ \ {mine}]
  OBVIOUS
<1>5. refused' \subseteq Labels /\ refused \subseteq refused' /\ silent' = silent
  BY <1>1 DEF TypeOK
<1>6. UNCHANGED <<state, labels, sent, row, seen>>
  OBVIOUS
<1> HIDE DEF srv, mine, IndInv, Post, Unlock
<1>7. TypeOK /\ OncePerServer /\ RowIsAnswered /\ LockHeld /\ SeenIsHandled
  BY DEF IndInv
<1>8. TypeOK'
  BY <1>1, <1>2, <1>3, <1>4, <1>5, <1>6, <1>7 DEF TypeOK, Points
<1>9. OncePerServer'
  BY <1>2, <1>7 DEF OncePerServer
<1>10. LockHeld'
  <2>1. ASSUME NEW u \in Threads, u # t, pc[u] \in Locked
        PROVE  ServerOf(u) # srv
    BY <1>1, <1>7, <2>1 DEF LockHeld
  <2>2. ASSUME NEW u \in Threads
        PROVE  ServerOf(u) \in Servers
    BY DEF ServerOf, Servers
  <2>3. ASSUME NEW u \in Threads, pc'[u] \in Locked
        PROVE  u # t /\ pc'[u] = pc[u] /\ current'[u] = current[u]
    BY <1>3, <1>4, <1>7, <2>3 DEF TypeOK, Locked
  <2> QED
    BY <1>2, <1>4, <1>7, <2>1, <2>2, <2>3 DEF TypeOK, LockHeld, Locked
<1>11. ASSUME NEW l \in Labels, Handled(l) PROVE Handled(l)'
  <2>1. ASSUME NEW m \in Labels, NEW s \in Servers PROVE posts[m][s] <= posts'[m][s]
    <3>1. posts[m][s] \in Nat /\ posts'[m][s] \in Nat
      BY <1>2, <1>7 DEF TypeOK
    <3> QED BY <1>1, <1>2, <3>1
  <2> QED BY <1>5, <1>7, <1>8, <1>11, <2>1, HandledGrows
<1>12. ASSUME NEW l \in Labels, l = mine PROVE Handled(l)'
  <2>1. posts'[l][srv] = 1 \/ l \in refused'
    BY <1>2, <1>12
  <2> QED BY <1>1, <2>1 DEF Handled, Answered
<1>13. RowIsAnswered'
  BY <1>6, <1>7, <1>11 DEF TypeOK, Issue, RowIsAnswered, Handled
<1>14. SeenIsHandled'
  <2>1. ASSUME NEW u \in Threads, pc'[u] \in {"compare", "save"} \cup Locked,
               NEW l \in seen'[u].labels \ todo'[u]
        PROVE  Handled(l)'
    <3>1. l \in Labels /\ (l \in seen[u].labels \ todo[u] \/ l = mine)
      BY <1>4, <1>6, <1>7, <2>1 DEF TypeOK, Issue
    <3>2. pc[u] \in {"compare", "save"} \cup Locked
      BY <1>3, <1>7, <2>1 DEF TypeOK, Locked
    <3> QED BY <1>7, <1>11, <1>12, <3>1, <3>2 DEF SeenIsHandled
  <2>2. ASSUME NEW u \in Threads, pc'[u] = "save" PROVE todo'[u] = {}
    BY <1>3, <1>4, <1>7, <2>2 DEF TypeOK, SeenIsHandled
  <2> QED BY <2>1, <2>2 DEF SeenIsHandled
<1> QED BY <1>8, <1>9, <1>10, <1>13, <1>14 DEF IndInv

\* IndInv is an invariant of the servers.
THEOREM Inductive == Spec => []IndInv
<1>1. IndInv /\ [Next]_vars => IndInv'
  <2> SUFFICES ASSUME IndInv, [Next]_vars PROVE IndInv'
    OBVIOUS
  <2>1. CASE (\E l \in Labels : AddLabel(l) \/ RemoveLabel(l)) \/ CloseOrReopen
    BY <2>1, GitHubInv
  <2>2. ASSUME NEW h \in Webhooks, ReceiveEvent(h) PROVE IndInv'
    BY <2>2, FetchInv DEF Threads
  <2>3. ASSUME NEW t \in Ticks, TickList(t) PROVE IndInv'
    BY <2>3, FetchInv DEF Threads
  <2>4. ASSUME NEW t \in Threads, CheckIssueForChanges(t) PROVE IndInv'
    BY <2>4, FetchInv, GetRowInv, SaveInv, LockInv, GetCommentsInv, PostInv
       DEF CheckIssueForChanges
  <2>5. CASE UNCHANGED vars
    BY <2>5 DEF vars, github, histories, IndInv, TypeOK, OncePerServer, RowIsAnswered,
                LockHeld, SeenIsHandled, Handled, Answered
  <2> QED BY <2>1, <2>2, <2>3, <2>4, <2>5 DEF Next, Idle
<1> QED BY InitInv, <1>1, PTL DEF Spec

\* Every variable keeps its type.
THEOREM TypeCorrect == Spec => []TypeOK
<1>1. IndInv => TypeOK
  BY DEF IndInv
<1> QED BY Inductive, <1>1, PTL

\* No server posts a message twice, however many deliveries and ticks overlap.
THEOREM PostedOnce == Spec => []OncePerServer
<1>1. IndInv => OncePerServer
  BY DEF IndInv
<1> QED BY Inductive, <1>1, PTL

\* A label in the row has been answered, was refused, or was there when the row
\* was created.
THEOREM RowAnswered == Spec => []RowIsAnswered
<1>1. IndInv => RowIsAnswered
  BY DEF IndInv
<1> QED BY Inductive, <1>1, PTL

-----------------------------------------------------------------------------
(* Progress: nothing is waited for that does not go on.                     *)

\* A step of a goroutine that has no lock and takes none.
LEMMA LockUntouched ==
  ASSUME TypeOK, LockInUse, NEW t \in Threads, pc[t] \notin Locked,
         NEW point \in Points \ Locked, pc' = [pc EXCEPT ![t] = point],
         UNCHANGED lock
  PROVE  LockInUse'
BY DEF TypeOK, LockInUse

\* The holder of the lock unlocks it.
LEMMA UnlockProgress ==
  ASSUME TypeOK, LockHeld, LockInUse, NEW t \in Threads, pc[t] \in Locked,
         NEW point \in Points \ Locked, Unlock(t, point)
  PROVE  LockInUse'
<1>1. lock' = [lock EXCEPT ![ServerOf(t)] = NoThread] /\ pc' = [pc EXCEPT ![t] = point]
  BY DEF Unlock, Go
<1>2. ServerOf(t) \in Servers
  BY DEF ServerOf, Servers
<1>3. ASSUME NEW s \in Servers, lock'[s] # NoThread
      PROVE  lock'[s] = lock[s] /\ lock[s] # t
  BY <1>1, <1>2, <1>3 DEF TypeOK, LockInUse
<1> QED BY <1>1, <1>3 DEF TypeOK, LockInUse

LEMMA ProgressStep ==
  ASSUME IndInv, LockInUse, [Next]_vars
  PROVE  LockInUse'
<1>0. TypeOK /\ LockHeld
  BY DEF IndInv
<1> USE DEF Go, github, histories, Points, Locked
<1>1. CASE \/ \E l \in Labels : AddLabel(l) \/ RemoveLabel(l)
           \/ CloseOrReopen \/ UNCHANGED vars
  BY <1>1 DEF AddLabel, RemoveLabel, CloseOrReopen, Notify, vars, LockInUse
<1>2. ASSUME NEW t \in Threads, (t \in Webhooks /\ ReceiveEvent(t)) \/ TickList(t)
      PROVE  LockInUse'
  BY <1>0, <1>2, LockUntouched DEF ReceiveEvent, TickList
<1>3. ASSUME NEW t \in Threads, CheckIssueForChanges(t)
      PROVE  LockInUse'
  <2>1. CASE GetIssueFromGithub(t)
    BY <1>0, <2>1, LockUntouched DEF GetIssueFromGithub
  <2>2. CASE GetRow(t)
    <3>1. \E point \in {"create", "done", "compare"} : pc' = [pc EXCEPT ![t] = point]
      BY <2>2 DEF GetRow
    <3> QED BY <1>0, <2>2, <3>1, LockUntouched DEF GetRow
  <2>3. CASE CreateRow(t) \/ EndCompare(t) \/ SaveRow(t)
    BY <1>0, <2>3, LockUntouched DEF CreateRow, EndCompare, SaveRow
  <2>4. ASSUME NEW l \in Labels, Lock(t, l)
        PROVE  LockInUse'
    BY <1>0, <2>4 DEF Lock, TypeOK, LockInUse, ServerOf, Servers
  <2>5. CASE GetComments(t)
    <3>1. CASE Unlock(t, "compare") \/ Unlock(t, "done")
      BY <1>0, <2>5, <3>1, UnlockProgress DEF GetComments
    <3>2. CASE Go(t, "post") /\ UNCHANGED <<todo, current, lock>>
      BY <1>0, <2>5, <3>2 DEF GetComments, TypeOK, LockInUse
    <3> QED BY <2>5, <3>1, <3>2 DEF GetComments
  <2>6. CASE Post(t)
    BY <1>0, <2>6, UnlockProgress DEF Post
  <2> QED BY <1>3, <2>1, <2>2, <2>3, <2>4, <2>5, <2>6 DEF CheckIssueForChanges
<1> QED BY <1>1, <1>2, <1>3 DEF Next, Idle, Threads

\* Whoever waits for the lock waits for a goroutine that is on its way to Unlock.
THEOREM NoOrphanedLock == Spec => []LockInUse
<1>1. Init => LockInUse
  BY DEF Init, LockInUse, Locked, Servers
<1>2. IndInv /\ LockInUse /\ [Next]_vars => LockInUse'
  BY ProgressStep
<1> QED BY Inductive, <1>1, <1>2, PTL DEF Spec
=============================================================================
