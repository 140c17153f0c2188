\* One process, killed at any point of its scripts.
CONSTANTS
  r1 = r1
  r2 = r2
  r3 = r3
  Processes = {w}
  Requests = {r1, r2, r3}
  BranchOf <- MCBranchOf
  ConfiguredGlobally = TRUE
  MaxJobs = 4
  MaxKills = 2
SPECIFICATION Spec
INVARIANTS TypeOK ProposedIsThePick DirtyOncePerKill RestsClean
PROPERTIES ImplementsScript
\* MaxJobs ends the run.
CHECK_DEADLOCK FALSE
