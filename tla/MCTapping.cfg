\* Three keys, a buffer of three records, a tapping term of three ticks.
SPECIFICATION FairSpec
CONSTANTS
  a = a
  b = b
  c = c
  Keys = {a, b, c}
  Setups <- OneDecisionAtATime
  TAPPING_TERM = 3
  QUICK_TAP_TERM = 2
  WAITING_BUFFER_SIZE = 4
  TapCountMax = 2
  TimerMod = 6
  MaxLag = 1
  NoKey = NoKey
INVARIANTS TypeOK NoStuckKeys WaitsForTapping
PROPERTIES ReleaseMatchesPress PressOrder EveryPressIsDecided
