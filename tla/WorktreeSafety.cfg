CONSTANTS
  Procs = {p1, p2}
  Lifecycles = {l1, l2}
  Branches = {b1}
  NoProc = NoProc
  NoLife = NoLife
  NoBranch = NoBranch
  MaxAttempts = 2
  MaxCrashes = 1
  MaxMeddles = 2
  Outside = {"commit", "dirty", "remove_tree", "add_tree", "delete_branch", "create_branch", "add_fails", "bind_fails", "move_fails", "lock_busy", "preserve", "bootstrap_fails"}
SPECIFICATION Spec
SYMMETRY Symmetry
INVARIANTS TypeOK ResidueIsReceipted NoHeadlessCheckout
PROPERTIES CreatorKeepsItsReceipt HandedOverIsNeverRolledBack NoCommittedWorkLost LateOwnerKeepsBranch RollbackRemovesOnlyItsOwn
