\* Two keys; scans up to more than the debounce time apart; the timer wraps.
SPECIFICATION FairSpec
CONSTANTS
  a = a
  b = b
  Keys = {a, b}
  Builds <- AllBuilds
  DEBOUNCE = 2
  CounterMax = 2
  TimerMod = 6
  MaxGap = 3
INVARIANTS TypeOK
PROPERTIES DeferStable EagerQuiet EagerPrompt ReleaseIsStable ReportsChanges Settles
