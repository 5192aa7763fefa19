CONSTANTS
  Procs = {p1, p2}
  Lifecycles = {l1}
  Branches = {b1}
  NoProc = NoProc
  NoLife = NoLife
  NoBranch = NoBranch
  MaxAttempts = 1
  MaxCrashes = 2
  MaxMeddles = 2
  Outside = {"commit", "commit_in_claim", "detach", "create_branch", "add_fails", "bind_fails", "bootstrap_fails"}
SPECIFICATION LiveSpec
PROPERTIES CreationEnds LandedWorkIsRetired
