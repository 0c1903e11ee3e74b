\* One unlock may fail.
CONSTANTS
  WriteSize = 8
  LogicalSize = 7
  LogSlots = 4
  FirstSector = 4
  ByteRadix = 3
  Opt64Limit = 2
  WordLimit = 4
  WriteSet <- Writes7
  Faults = {"unlock"}
  MaxFaults = 1
  MaxLosses = 0
  NoChecksum = NoChecksum
SPECIFICATION Spec
INVARIANTS SuccessMeansStored
