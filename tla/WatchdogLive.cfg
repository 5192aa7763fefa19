CONSTANTS
  Sessions = {s1}
  Claude = {s1}
  Quiet = 1
  Lease = 2
  Grace = 2
  Backoff = 1
  MaxHostAttempts = 2
  MaxEvaluations = 1
  Outside = {"open", "home"}
  MaxTurns = 2
  MaxAge = 1
  MaxDelay = 0
  MaxCrashes = 1
SPECIFICATION LiveSpec
PROPERTY TurnIsDecided
