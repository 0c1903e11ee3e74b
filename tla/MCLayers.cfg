\* Four keys, five layers, every kind of key.
CONSTANTS
  Keys = {"a", "b", "c", "d"}
  MAX_LAYER = 5
  Keymap <- MCKeymap
  TAPPING_TOGGLE = 2
  ONESHOT_TIMEOUT = 1
  LAYER_LOCK_IDLE_TIMEOUT = 1
  TriLower = 1
  TriUpper = 2
  TriAdjust = 3
  MaxTap = 2
SPECIFICATION Spec
INVARIANTS TypeOK NoStuckKeys
PROPERTIES LocksHold HandsOffEndsLayers
