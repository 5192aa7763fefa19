CONSTANTS
  Procs = {p1, p2}
  Lifecycles = {l1}
  Branches = {b1}
  NoProc = NoProc
  NoLife = NoLife
  NoBranch = NoBranch
  MaxAttempts = 1
  MaxCrashes = 1
  MaxMeddles = 1
  Outside = {"commit_in_claim", "bootstrap_fails"}
SPECIFICATION Spec
INVARIANT NoHeadlessCheckout
