CONSTANTS
  Payload <- MCPayload
  Fits <- MCFits
  HashList <- MCHashList
  WordsOf <- MCWordsOf
  Digest <- MCDigest
  ZeroDigest <- MCZero
  Sha256 <- MCSha256
  MerkleTreeRoot <- MCRoot
  Levels <- MCLevels
  TreeNode <- MCTreeNode
  Script <- MCScript
  Covers <- MCCovers
  NoMetadata = "none"
  SlotIdx = {0, 1}
  MainSlot = 0
  Path <- MCPath
  BadPath = "badpath"
  NoPath = "nopath"
  Account <- MCAccount
  NoAccount = "zero"
  Piece <- MCPiece
  TxCapacity = 2
  Tx <- MCTx
  ScriptOf <- MCScriptOf
  AccountsIn <- MCAccountsIn
  Renders <- MCRenders
  Printable = {"text"}
  ShowLength = 1
  FactorySlots <- SlotSlots
  TooShort = TooShort
  PubkeyInput <- SlotKeys
  SignInput <- SlotKeys
  ChunkInput <- SlotChunks
  MetaInput <- None
  SlotInput <- SlotInputs
SPECIFICATION FairSpec
INVARIANTS WarningsCurrent SlotReviewComplete
PROPERTIES SlotChangesAsShown EveryCommandAnswered
