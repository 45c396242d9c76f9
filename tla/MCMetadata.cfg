CONSTANTS
  Payload <- MCPayload
  Fits <- MCFits
  HashList <- MCHashList
  WordsOf <- MCWordsOf
  Digest <- MCDigest
  ZeroDigest = "00000000"
  Sha256 <- MCSha256
  MerkleTreeRoot <- MCRoot
  Levels <- MCLevels
  TreeNode <- MCTreeNode
  Script <- MCScript
  Covers <- MCCovers
  NoMetadata <- MCNoMetadata
  Copies <- MCCopies
  Generated <- MCGenerated
  Templates <- MCTemplates
  Foreign <- MCForeign
  Contended <- MCContended
  Nothing = "nothing"
  TestnetTemplates <- TestnetManifest
  MainnetTemplates <- MainnetManifest
  Arity = 7
  MERKLE_TREE_DEPTH <- MCLevels
  Hash <- HashOf
  emptyTopLevelBranchSHA <- EmptyBranchSHA
SPECIFICATION SessionSpec
INVARIANTS TypeOK AcceptedIsPublished ProofClimbsTree ListedIsAccepted CopyIsCurrent EveryTemplateListed
