\* 8-byte writes with a driver that may fail everything but erasing, against
\* the abstract EEPROM.
CONSTANTS
  WriteSize = 8
  LogicalSize = 7
  LogSlots = 4
  FirstSector = 4
  ByteRadix = 3
  Opt64Limit = 2
  WordLimit = 4
  WriteSet <- Writes7
  Faults = {"init", "read", "unlock", "write", "lock"}
  MaxFaults = 2
  MaxLosses = 2
  NoChecksum = NoChecksum
SPECIFICATION Spec
PROPERTIES ImplementsEeprom
