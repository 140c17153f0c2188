-------------------------- MODULE PRActivityProofs --------------------------
(***************************************************************************)
(* Theorems about the job CheckPRActivity beside the jobs of Listing, for  *)
(* any members, any author and any size of a page.                         *)
(***************************************************************************)
EXTENDS PRActivity, TLAPS

\* A pass that is past the check of the dates has found no update, and what was
\* posted since then would have been one.
Nagging == apc \in {"labels", "mark", "comment"}
AtMostOne ==
  /\ nags \in {0, 1}
  /\ quiet => nags = 0
  /\ Nagging => nags = 0

\* What a pass that has marked the pull request owes it, and what tells that it has
\* not been updated since.
Owed ==
  /\ nags = 1 \/ apc = "comment" => staled
  /\ staled /\ apc # "comment" => nags = 1 \/ lost
  /\ staled /\ quiet => marked

NagInv == AtMostOne /\ Owed

LEMMA NagInductive ==
  ASSUME NagInv, [JobNext]_jobVars
  PROVE  NagInv'
<1> USE DEF NagInv, AtMostOne, Owed, Nagging, histories
<1>1. CASE Update
  BY <1>1 DEF Update
<1>2. CASE DaysPass
  BY <1>2 DEF DaysPass
<1>3. CASE ActivityBegin
  BY <1>3 DEF ActivityBegin
<1>4. ASSUME NEW closed \in BOOLEAN, ActivityGet(closed)
      PROVE  NagInv'
  BY <1>4 DEF ActivityGet
<1>5. ASSUME NEW exempt \in BOOLEAN, ActivityLabels(exempt)
      PROVE  NagInv'
  BY <1>5 DEF ActivityLabels
<1>6. CASE ActivityMark
  BY <1>6 DEF ActivityMark
<1>7. CASE ActivityComment
  BY <1>7 DEF ActivityComment
<1>8. CASE ActivityCommentFails
  BY <1>8 DEF ActivityCommentFails
<1>9. CASE ActivityFails
  BY <1>9 DEF ActivityFails
<1>10. CASE UNCHANGED activityVars
  BY <1>10 DEF activityVars
<1> HIDE DEF NagInv, AtMostOne, Owed, Nagging, histories
<1> QED
  BY <1>1, <1>2, <1>3, <1>4, <1>5, <1>6, <1>7, <1>8, <1>9, <1>10
  DEF JobNext, CheckPRActivity, jobVars

-----------------------------------------------------------------------------
\* For each time that it is left alone a pull request is told at most once that it is
\* stale, whatever runs, fails or updates it meanwhile; and when a pass has marked it,
\* it has been told, or the comment of a pass failed (pull_request_handler.go:318-366).
THEOREM NaggedOnce == JobSpec => []NagsOncePerPeriod
<1>1. JobInit => NagInv
  BY DEF JobInit, NagInv, AtMostOne, Owed, Nagging
<1>2. NagInv /\ [JobNext]_jobVars => NagInv'
  BY NagInductive
<1>3. NagInv => NagsOncePerPeriod
  BY DEF NagInv, AtMostOne, Owed, NagsOncePerPeriod
<1> QED
  BY <1>1, <1>2, <1>3, PTL DEF JobSpec
=============================================================================
