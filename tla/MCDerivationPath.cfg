CONSTANTS
  HARDENED <- MCHardened
  Prefix <- MCPrefix
  Text <- MCText
  NotANumber = NotANumber
  None = None
SPECIFICATION Spec
INVARIANTS TypeOK ShownNamesSlot
PROPERTIES MarkedIsHardened
CHECK_DEADLOCK FALSE
