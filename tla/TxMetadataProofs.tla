-------------------------- MODULE TxMetadataProofs --------------------------
(***************************************************************************)
(* TxMetadata's invariants, for every tree, every set of payloads and      *)
(* every number of levels.                                                 *)
(***************************************************************************)
EXTENDS TxMetadata, TLAPS

(* The inductive invariant.                                                *)
IInv == TypeOK /\ ProofClimbsTree

LEMMA InitIInv == Init => IInv
BY LevelsAssumption, Sha256Assumption DEF Init, IInv, TypeOK, ProofClimbsTree

(* Storing a packet begins a proof at height 0, whose nodes are leaves.    *)
LEMMA StoreIInv ==
  ASSUME IInv, NEW p \in Payload, Storable(p), storeTxMetadata(p)
  PROVE  IInv'
<1>1. TypeOK'
  BY LevelsAssumption, Sha256Assumption DEF IInv, TypeOK, storeTxMetadata
<1>2. ProofClimbsTree'
  <2>1. TreeNode[0] \subseteq Payload
    BY LevelsAssumption, TreeAssumption DEF IsTree
  <2>2. level' - 1 = 0 /\ hash' = Sha256[p] /\ metadata' = p
    BY DEF storeTxMetadata
  <2>3. \A q \in TreeNode[0] : Sha256[p] = Sha256[q] => p \in TreeNode[0]
    BY <2>1, Sha256Assumption
  <2>4. QED
    BY <2>2, <2>3 DEF ProofClimbsTree
<1>3. QED
  BY <1>1, <1>2 DEF IInv

(* A proof step that lands on a tree node of height k came from a digest   *)
(* in that node's list, so from a tree node of height k - 1.               *)
LEMMA ExtendIInv ==
  ASSUME IInv, NEW p \in Payload, ExtendsProof(p),
         validateStoredTxMetadataMerkleTreeLevel(p)
  PROVE  IInv'
<1>1. TypeOK'
  BY LevelsAssumption, Sha256Assumption
     DEF IInv, TypeOK, ExtendsProof, validateStoredTxMetadataMerkleTreeLevel
<1>2. ProofClimbsTree'
  <2>1. SUFFICES ASSUME NEW q \in TreeNode[level], Sha256[p] = Sha256[q]
                 PROVE  metadata \in TreeNode[0]
    BY LevelsAssumption
       DEF ProofClimbsTree, ExtendsProof, validateStoredTxMetadataMerkleTreeLevel
  <2>2. level \in 1..Levels /\ TreeNode[level] \subseteq Payload
    BY LevelsAssumption, TreeAssumption DEF ExtendsProof, IsTree
  <2>3. p \in TreeNode[level] \cap HashList
    BY <2>1, <2>2, Sha256Assumption DEF ExtendsProof
  <2>4. PICK r \in Payload : hash = Sha256[r]
    BY <2>2 DEF IInv, ProofClimbsTree
  <2>5. r \in TreeNode[level-1]
    BY <2>2, <2>3, <2>4, TreeAssumption DEF ExtendsProof, IsTree
  <2>6. QED
    BY <2>2, <2>4, <2>5 DEF IInv, ProofClimbsTree
<1>3. QED
  BY <1>1, <1>2 DEF IInv

LEMMA NextIInv == IInv /\ [Next]_vars => IInv'
<1> SUFFICES ASSUME IInv, [Next]_vars PROVE IInv'
  OBVIOUS
<1>1. ASSUME initStoredTxMetadata PROVE IInv'
  BY <1>1, LevelsAssumption, Sha256Assumption
     DEF IInv, TypeOK, ProofClimbsTree, initStoredTxMetadata
<1>2. ASSUME NEW p \in Payload, MetadataChunk(p) PROVE IInv'
  BY <1>1, <1>2, StoreIInv DEF MetadataChunk
<1>3. ASSUME NEW p \in Payload, ProofChunk(p) PROVE IInv'
  BY <1>1, <1>3, ExtendIInv DEF ProofChunk
<1>4. CASE UNCHANGED vars
  BY <1>4 DEF IInv, TypeOK, ProofClimbsTree, vars
<1>5. QED
  BY <1>1, <1>2, <1>3, <1>4 DEF Next, InitChunk

(* The level counter, the packet and the digest keep their types.          *)
THEOREM TypeCorrect == Spec => []TypeOK
<1>1. IInv => TypeOK
  BY DEF IInv
<1>2. QED
  BY <1>1, InitIInv, NextIInv, PTL DEF Spec

(* If the digest is that of a tree node at the height the level counter    *)
(* claims, the proof began at a leaf.                                      *)
THEOREM ProofClimbs == Spec => []ProofClimbsTree
<1>1. IInv => ProofClimbsTree
  BY DEF IInv
<1>2. QED
  BY <1>1, InitIInv, NextIInv, PTL DEF Spec

(* A packet the parser accepts is a leaf of the published tree.            *)
THEOREM Accepted == Spec => []AcceptedIsPublished
<1>1. IInv => AcceptedIsPublished
  <2>1. SUFFICES ASSUME IInv, level = Levels + 1, hash = MerkleTreeRoot
                 PROVE  metadata \in TreeNode[0]
    BY DEF AcceptedIsPublished, parseTxMetadata
  <2>2. PICK p \in Payload : hash = Sha256[p]
    BY <2>1, LevelsAssumption DEF IInv, ProofClimbsTree
  <2>3. p \in TreeNode[Levels]
    BY <2>1, <2>2, TreeAssumption DEF IsTree
  <2>4. level > 0 /\ level - 1 = Levels
    BY <2>1, LevelsAssumption
  <2>5. QED
    BY <2>1, <2>2, <2>3, <2>4 DEF IInv, ProofClimbsTree
<1>2. QED
  BY <1>1, InitIInv, NextIInv, PTL DEF Spec
=============================================================================
