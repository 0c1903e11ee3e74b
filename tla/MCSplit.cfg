\* Two attempts, two errors to a disconnection, and a checksum that does not
\* tell two of the matrices apart.
CONSTANTS
  Matrix = {0, 1, 2, 3}
  SlaveMatrix = {0, 1, 2}
  CRC <- MCCRC
  Leds = {0, 1}
  Retries = 2
  SPLIT_MAX_CONNECTION_ERRORS = 2
  SPLIT_CONNECTION_CHECK_TIMEOUT = 1
  FORCED_SYNC_THROTTLE_MS = 1
  ErrorCap = 2
SPECIFICATION Spec
INVARIANTS TypeOK DisconnectedIsReleased OnlyRealKeys
PROPERTIES Converges
