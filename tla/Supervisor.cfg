CONSTANTS
  Schedules = {1, 2}
  Receipts = {1, 2, 3}
  MaxChanges = 2
  MaxFaults = 1
SPECIFICATION LiveSpec
INVARIANT TypeOK
PROPERTIES ExitIsTrue WorkIsReached
