CONSTANTS
  Ids = {i1, i2}
  Prompts = {t1, t2}
  Bridges = {h1, h2}
  NoOne = NoOne
  Waker = waker
  MaxWait = 2
  MaxAge = 1
  MaxCrashes = 1
SPECIFICATION LiveSpec
INVARIANTS TypeOK CancelledStaysCancelled LaunchesOncePerCrash
PROPERTIES OnlyLaunchedWakesArePruned DueWakeIsServed
