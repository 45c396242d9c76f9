CONSTANTS
  Payload <- MCPayload
  Fits <- MCFits
  HashList <- MCHashList
  WordsOf <- MCWordsOf
  Digest <- MCDigest
  ZeroDigest <- MCZero
  Sha256 <- MCSha256
  MerkleTreeRoot <- MCRoot
  Levels <- MCLevels
  TreeNode <- MCTreeNode
  Script <- MCScript
  Covers <- MCCovers
  NoMetadata = "none"
  SlotIdx = {0}
  MainSlot = 0
  Path <- MCPath
  BadPath = "badpath"
  NoPath = "nopath"
  Account <- MCAccount
  NoAccount = "zero"
  Piece <- ClientPiece
  TxCapacity = 3
  Tx <- MCTx
  ScriptOf <- MCScriptOf
  AccountsIn <- MCAccountsIn
  Renders <- MCRenders
  Printable = {"text"}
  ShowLength = 1
  FactorySlots <- EmptyTable
  TooShort = TooShort
  PubkeyInput <- ClientKeys
  SignInput <- ClientKeys
  ChunkInput <- ClientChunks
  MetaInput <- ClientMeta
  SlotInput <- ClientSlotIn
  Caller <- OneCaller
  Nobody = "nobody"
  Request <- OneRequest
  ChunkSize = 1
  PathBytes = "path"
  ScriptHash <- ClientHash
  merkleIndex <- ClientIndex
  Unreadable = "unreadable"
  Missing = Missing
  BadAccount = "badaccount"
  Versions = {"supported", "old"}
SPECIFICATION ClientSpec
INVARIANTS ClientTypeOK SignatureIsOfTheCall ReviewIsOfTheCall
PROPERTIES SingleCommandsHonest
