\* Three items, one on a page; member 2 opened the pull request.
CONSTANTS
  Items = {1, 2, 3}
  Pulls = {1, 3}
  PerPage = 1
  Author = 2
SPECIFICATION JobFairSpec
INVARIANTS TypeOK NothingMissed MembersComplete NagsOncePerPeriod
PROPERTY LoopsEnd
