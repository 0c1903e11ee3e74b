\* Three combos of two keys, the first apart from the others.
CONSTANTS
  Keys = {"a", "b", "c", "d", "e"}
  ToggleKeys = {}
  ComboKeys <- ApartComboKeys
  MustHold = {}
  MustTap = {}
  StrictTimer = FALSE
  COMBO_TERM = 1
  COMBO_HOLD_TERM = 2
  COMBO_KEY_BUFFER_LENGTH = 6
  COMBO_BUFFER_LENGTH = 4
  TimerRange = 4
SPECIFICATION Spec
INVARIANTS NoLostPress
