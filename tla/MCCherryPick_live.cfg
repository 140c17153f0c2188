\* Three deliveries of one pull request for a release branch, two commands and its merge,
\* and a channel with two places, with crashes and one restart; fair goroutines, and no
\* symmetry, which is not sound for liveness.
CONSTANTS
  p1 = p1
  p2 = p2
  Deliveries = {d1, d2, d3}
  Commands = {d1, d2}
  PRs = {p1}
  Versions = {v1}
  Capacity = 2
  MaxRestarts = 1
  MemberAuthored = {}
  CommentsFail = FALSE
  NoJob = NoJob
  Reviews <- MCReviews
  Ref <- MCRef
SPECIFICATION FairSpec
INVARIANTS TypeOK Accounting ServedInOrder NoticesAreTrue OnePickPerTarget
PROPERTIES ApprovalNotLost OrderlyExitDrains ImplementsService ImplementsScript AcceptedIsSettled StopEnds
