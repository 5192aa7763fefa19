CONSTANTS
  Sessions = {s1, s2}
  Claude = {}
  Quiet = 0
  Lease = 1
  Grace = 1
  Backoff = 1
  MaxHostAttempts = 1
  MaxEvaluations = 1
  Outside = {}
  MaxTurns = 2
  MaxAge = 0
  MaxDelay = 0
  MaxCrashes = 1
SPECIFICATION Spec
SYMMETRY Symmetry
INVARIANT NoTurnIsMissed
