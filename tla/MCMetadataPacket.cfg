CONSTANTS
  Byte <- MCByte
  IndexRange = 41
  HASH_SIZE = 2
  MAX_HASHES = 21
  MAX_LENGTH = 40
  MAX_STRING = 2
  MAX_ARGS = 2
  MAX_ITEMS = 3
  MAX_ARRAY_LENGTH = 3
  JSMN_STRING = 3
  Packet <- MCPacket
  Script <- MCScript
  Template <- MCTemplate
  NoTemplate = NoTemplate
SPECIFICATION Spec
CHECK_DEADLOCK FALSE
INVARIANTS AcceptedIsListed GeneratedIsReadBack
