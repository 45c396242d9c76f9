CONSTANTS
  Payload <- MCPayload
  Fits <- MCFits
  HashList <- MCHashList
  WordsOf <- MCWordsOf
  Digest <- MCDigest
  ZeroDigest <- MCZero
  Sha256 <- MCSha256
  MerkleTreeRoot <- MCRoot
  Levels <- MCLevels
  TreeNode <- MCTreeNode
  Script <- MCScript
  Covers <- MCCovers
  NoMetadata = "none"
  SlotIdx = {0}
  MainSlot = 0
  Path <- MCPath
  BadPath = "badpath"
  NoPath = "nopath"
  Account <- MCAccount
  NoAccount = "zero"
  Piece <- MCPiece
  TxCapacity = 2
  Tx <- MCTx
  ScriptOf <- MCScriptOf
  AccountsIn <- MCAccountsIn
  Renders <- MCRenders
  Printable = {"a"}
  ShowLength = 1
  FactorySlots <- SignSlots
  TooShort = TooShort
  PubkeyInput <- SignKeys
  SignInput <- SignKeys
  ChunkInput <- SignChunks
  MetaInput <- SignMeta
  SlotInput <- None
SPECIFICATION Spec
VIEW WithoutReply
INVARIANTS TypeOK ReviewAnswersCommand AddressReviewConsistent MetadataShownIsPublished BlindOnlyExpert
PROPERTIES ReviewIsStable SignsOnlyReviewed MetadataStoreRefined
