----------------------------- MODULE TxMetadata -----------------------------
(***************************************************************************)
(* The metadata store of the device (src/src/tx_metadata.c).               *)
(*                                                                         *)
(* A host that wants a transaction displayed with names and argument types *)
(* sends a metadata packet and then a Merkle proof that the packet is one  *)
(* of the packets whose tree root is compiled into the app: Levels lists   *)
(* of digests, each holding the digest computed last.  The transaction     *)
(* parser uses the packet only when the proof has ended at the root.       *)
(*                                                                         *)
(* Packets and hash lists are both payloads, byte strings that SHA-256     *)
(* does not tell apart: a list of seven digests fits the packet buffer.    *)
(***************************************************************************)
EXTENDS Naturals

CONSTANTS
  Payload,     (* byte strings a host may send as a packet or as a list    *)
  Fits,        (* those no longer than the packet buffer                   *)
  HashList,    (* those whose length is a multiple of the digest size      *)
  WordsOf,     (* the digests a hash list is made of                       *)
  Digest,      (* SHA-256 digests                                          *)
  ZeroDigest,  (* the digest field after explicit_bzero                    *)
  Sha256,      (* payload -> digest                                        *)
  MerkleTreeRoot,
  Levels,      (* METADATA_MERKLE_TREE_LEVELS                              *)
  TreeNode,    (* height -> payloads of the published tree; 0: its leaves  *)
  Script,      (* script hashes                                            *)
  Covers,      (* script hashes a payload lists, {} if it is no metadata   *)
  NoMetadata   (* the packet buffer after explicit_bzero                   *)

(***************************************************************************)
(* SHA-256 has no collisions among the payloads, nobody can send a payload *)
(* that hashes to zeros, and the tree is what                              *)
(* transaction_metadata/tree/index.js builds: a node above the leaves is   *)
(* the list of the digests of nodes one height below, and the root digest  *)
(* is that of the node on top.                                             *)
(***************************************************************************)
ASSUME LevelsAssumption == Levels \in Nat \ {0}

ASSUME Sha256Assumption ==
  /\ Sha256 \in [Payload -> Digest \ {ZeroDigest}]
  /\ ZeroDigest \in Digest
  /\ \A p, q \in Payload : Sha256[p] = Sha256[q] => p = q

ASSUME PayloadAssumption ==
  /\ Fits \subseteq Payload
  /\ HashList \subseteq Payload
  /\ WordsOf \in [HashList -> SUBSET Digest]
  /\ NoMetadata \notin Payload
  /\ Covers \in [Payload \cup {NoMetadata} -> SUBSET Script]

(* What nodes at the heights of a tree are: the root's digest is that of a *)
(* node on top, and a list names the digests of nodes one below.           *)
IsTree(nodes) ==
  /\ nodes \in [0..Levels -> SUBSET Payload]
  /\ \A k \in 1..Levels : \A p \in nodes[k] \cap HashList :
       \A q \in Payload : Sha256[q] \in WordsOf[p] => q \in nodes[k-1]
  /\ \A p \in Payload : Sha256[p] = MerkleTreeRoot => p \in nodes[Levels]

ASSUME TreeAssumption == IsTree(TreeNode)

VARIABLES
  metadata,   (* txMetadataState.buffer and .metadataLength                *)
  level,      (* txMetadataState.metadataMerkleTreeValidationLevel         *)
  hash        (* txMetadataState.metadataMerkleTreeValidationHash          *)

vars == <<metadata, level, hash>>

TypeOK ==
  /\ metadata \in Payload \cup {NoMetadata}
  /\ level \in 0..Levels+1
  /\ hash \in Digest

Init ==
  /\ metadata = NoMetadata
  /\ level = 0
  /\ hash = ZeroDigest

-----------------------------------------------------------------------------
initStoredTxMetadata ==
  /\ metadata' = NoMetadata
  /\ level' = 0
  /\ hash' = ZeroDigest

Storable(p) == p \in Fits /\ level = 0

storeTxMetadata(p) ==
  /\ metadata' = p
  /\ hash' = Sha256[p]
  /\ level' = 1

(* Mutants: no upper bound on the level, no search for the current digest. *)
ExtendsProof_AnyLevel(p) ==
  /\ level >= 1
  /\ p \in HashList
  /\ hash \in WordsOf[p]

ExtendsProof_NoSearch(p) ==
  /\ level \in 1..Levels
  /\ p \in HashList

ExtendsProof(p) ==
  /\ level \in 1..Levels
  /\ p \in HashList
  /\ hash \in WordsOf[p]

validateStoredTxMetadataMerkleTreeLevel(p) ==
  /\ hash' = Sha256[p]
  /\ level' = level + 1
  /\ UNCHANGED metadata

(* Mutant: the root digest is enough, however few levels were climbed.     *)
parseTxMetadata_AnyLevel(script) ==
  /\ hash = MerkleTreeRoot
  /\ script \in Covers[metadata]

(* parseTxMetadata succeeds for a transaction with this script.            *)
parseTxMetadata(script) ==
  /\ level = Levels + 1
  /\ hash = MerkleTreeRoot
  /\ script \in Covers[metadata]

-----------------------------------------------------------------------------
(* The chunks of a signing session that reach the store: on any error      *)
(* process_chunk wipes it.                                                 *)
MetadataChunk(p) ==
  \/ Storable(p)  /\ storeTxMetadata(p)
  \/ ~Storable(p) /\ initStoredTxMetadata

ProofChunk(p) ==
  \/ ExtendsProof(p)  /\ validateStoredTxMetadataMerkleTreeLevel(p)
  \/ ~ExtendsProof(p) /\ initStoredTxMetadata

InitChunk == initStoredTxMetadata

Next ==
  \/ InitChunk
  \/ \E p \in Payload : MetadataChunk(p) \/ ProofChunk(p)

Spec == Init /\ [][Next]_vars

-----------------------------------------------------------------------------
(* A packet that the parser accepts is a leaf of the published tree, and   *)
(* not, say, an interior node sent as a packet with a shorter proof.       *)
AcceptedIsPublished ==
  \A s \in Script : parseTxMetadata(s) => metadata \in TreeNode[0]

(* Once a proof has begun the digest is that of a payload, and whenever    *)
(* that payload is a tree node at the height the level counter claims, the *)
(* proof began at a leaf: the inductive reason for AcceptedIsPublished.    *)
ProofClimbsTree ==
  level > 0 =>
    /\ \E p \in Payload : hash = Sha256[p]
    /\ \A p \in TreeNode[level-1] : hash = Sha256[p] => metadata \in TreeNode[0]
=============================================================================
