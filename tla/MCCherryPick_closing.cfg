\* A delivery races Stop.
CONSTANTS
  p1 = p1
  p2 = p2
  Deliveries = {d1}
  Commands = {}
  PRs = {p2}
  Versions = {v1}
  Capacity = 1
  MaxRestarts = 0
  MemberAuthored = {}
  CommentsFail = TRUE
  NoJob = NoJob
  Reviews <- MCReviews
  Ref <- MCRef
SPECIFICATION Spec
PROPERTIES ClosingIsNoPanic
