CONSTANTS
  Sessions = {s1}
  Claude = {s1}
  Quiet = 1
  Lease = 2
  Grace = 3
  Backoff = 1
  MaxHostAttempts = 2
  MaxEvaluations = 2
  Outside = {"touch", "open", "home"}
  MaxTurns = 2
  MaxAge = 2
  MaxDelay = 1
  MaxCrashes = 2
SPECIFICATION Spec
INVARIANTS TypeOK LaunchesAreBounded OnlyLateLaunchesRepeat BaselineIsLeftAlone NoTurnIsMissed
