\* 2-byte writes, power loss between the words of one entry.
CONSTANTS
  WriteSize = 2
  LogicalSize = 4
  LogSlots = 5
  FirstSector = 5
  ByteRadix = 2
  Opt64Limit = 2
  WordLimit = 4
  WriteSet <- Writes4
  Faults = {}
  MaxFaults = 0
  MaxLosses = 1
  NoChecksum = NoChecksum
SPECIFICATION Spec
INVARIANTS LossIsLocal
