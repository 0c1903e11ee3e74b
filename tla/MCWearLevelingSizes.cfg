\* 4-byte and 2-byte writes, four logical bytes, addresses 2 and 3 beyond the
\* byte entries of the 2-byte format.
CONSTANTS
  WriteSize = 4
  LogicalSize = 4
  LogSlots = 5
  FirstSector = 5
  ByteRadix = 2
  Opt64Limit = 2
  WordLimit = 4
  WriteSet <- Writes4
  Faults = {}
  MaxFaults = 0
  MaxLosses = 2
  NoChecksum = NoChecksum
SPECIFICATION SizesSpec
INVARIANTS SizesTypeOK WritesInBounds LockDiscipline SizesWritesErasedSlots SizesReadsInBounds SizesDurable SizesConsolidationLossIsClean WideLossIsLocal
