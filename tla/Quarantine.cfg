SPECIFICATION LiveSpec
CONSTANTS
  Threads = {t1, t2}
  Transactions = {x1, x2, x3, x4}
  MaxWrites = 2
  MaxFaults = 2
  MaxUninstalls = 1
INVARIANTS TypeOK NoHazardIsLoaded
PROPERTIES NothingIsDestroyed RefusedWithCause InstallConverges
