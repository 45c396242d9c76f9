CONSTANTS
  HARDENED <- MCHardened
  Prefix <- MCPrefix
  Text <- MCText
  NotANumber = NotANumber
  None = None
SPECIFICATION Spec
PROPERTIES DocShownIsTyped
CHECK_DEADLOCK FALSE
