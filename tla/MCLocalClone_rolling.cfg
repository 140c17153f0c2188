\* A rolling update: two processes share the volume.
CONSTANTS
  r1 = r1
  r2 = r2
  r3 = r3
  Processes = {old, new}
  Requests = {r1, r2}
  BranchOf <- MCBranchOf
  ConfiguredGlobally = TRUE
  MaxJobs = 2
  MaxKills = 0
SPECIFICATION Spec
INVARIANTS ProposedIsThePick
CHECK_DEADLOCK FALSE
