\* Four combos that share a key, of two and three keys, one for taps only and
\* one for holds only; a plain key and the toggle key; a timer that wraps.
CONSTANTS
  Keys = {"a", "b", "c", "d", "x", "t"}
  ToggleKeys = {"t"}
  ComboKeys <- MCComboKeys
  MustHold = {3}
  MustTap = {2}
  StrictTimer = FALSE
  COMBO_TERM = 1
  COMBO_HOLD_TERM = 2
  COMBO_KEY_BUFFER_LENGTH = 4
  COMBO_BUFFER_LENGTH = 4
  TimerRange = 4
SPECIFICATION Spec
INVARIANTS TypeOK NoStuckCombo NoLostPress
PROPERTIES PressIsDecided
