\* HOLD_ON_OTHER_KEY_PRESS with a second tap-hold key.
SPECIFICATION Spec
CONSTANTS
  a = a
  b = b
  c = c
  Keys = {a, b, c}
  Setups <- TwoTapKeys
  TAPPING_TERM = 3
  QUICK_TAP_TERM = 2
  WAITING_BUFFER_SIZE = 4
  TapCountMax = 2
  TimerMod = 6
  MaxLag = 1
  NoKey = NoKey
INVARIANT NothingStaysOn
