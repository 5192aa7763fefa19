SPECIFICATION LiveSpec
CONSTANTS
  Sessions = {s1, s2}
  Wakers = {shared, codex}
  Shared = shared
  None = none
  MaxVersion = 2
  MaxErrands = 1
  MaxFaults = 2
INVARIANTS TypeOK RecoverableWhileOpen LegacyGoesLast
PROPERTIES AtomicCutover ReportIsTrue PendingIsDecided
