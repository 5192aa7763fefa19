CONSTANTS
  Sessions = {s1, s2}
  Claude = {s1}
  Quiet = 1
  Lease = 2
  Grace = 3
  Backoff = 1
  MaxHostAttempts = 2
  MaxEvaluations = 2
  Outside = {}
  MaxTurns = 2
  MaxAge = 2
  MaxDelay = 0
  MaxCrashes = 1
SPECIFICATION Spec
INVARIANT ContinuedOnce
