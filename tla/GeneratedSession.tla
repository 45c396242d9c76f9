-------------------------- MODULE GeneratedSession --------------------------
(***************************************************************************)
(* The metadata of a sign call with the files that tree/index.js makes: the*)
(* client looks its script up in the generated tree and index, and the     *)
(* device reads the payloads of that tree.                                 *)
(***************************************************************************)
EXTENDS MetadataSession, MetadataTree

ASSUME TreeSizeAssumption ==
  /\ Arity \in Nat \ {0, 1}
  /\ MERKLE_TREE_DEPTH \in Nat \ {0}

(* The contents of the nodes, cut ones too, from the leaves up.            *)
GeneratedNodes ==
  [k \in 0..MERKLE_TREE_DEPTH |->
     LET nodes == Level[k] IN {Content(nodes[j]) : j \in DOMAIN nodes}]

(* The content of a node of height k, below the root, without packets.     *)
EmptyContent[k \in 0..MERKLE_TREE_DEPTH-1] ==
  IF k = 0 THEN EmptyPacket
  ELSE <<"list", [i \in 1..Arity |-> Hash(EmptyContent[k-1])]>>

-----------------------------------------------------------------------------
(* The premises of the theorems about generated files.                     *)

(* The leaves suffice: the generator fills up the rest of them.            *)
ManifestsFit ==
  /\ TestnetTemplates \in Seq(Templates)
  /\ MainnetTemplates \in Seq(Templates)
  /\ Len(TestnetTemplates) <= Below[MERKLE_TREE_DEPTH]

(* The client was built with the generator's files, the device with their  *)
(* root, and the digest by which the generator knows a branch without      *)
(* packets is the digest of one.                                           *)
FilesAreGenerated ==
  /\ \A c \in DOMAIN Copies : /\ Copies[c].tree = merkleTree
                              /\ Copies[c].index = merkleIndex
  /\ Levels = MERKLE_TREE_DEPTH
  /\ MerkleTreeRoot = merkleTree.hash
  /\ emptyTopLevelBranchSHA = Hash(EmptyContent[MERKLE_TREE_DEPTH - 1])

(* The device reads what the generator wrote: the digest of a payload is   *)
(* the one in the tree, a packet fits and lists its scripts, and a list is *)
(* made of its digests.                                                    *)
PayloadsAreRead ==
  /\ \A k \in 0..MERKLE_TREE_DEPTH : \A p \in GeneratedNodes[k] :
       p \in Payload /\ Sha256[p] = Hash(p)
  /\ \A k \in 0..MERKLE_TREE_DEPTH-1 :
       EmptyContent[k] \in Payload /\ Sha256[EmptyContent[k]] = Hash(EmptyContent[k])
  /\ \A p \in GeneratedNodes[0] : p \in Fits /\ Covers[p] = Scripts(p)
  /\ \A k \in 1..MERKLE_TREE_DEPTH : \A p \in GeneratedNodes[k] :
       p \in HashList /\ WordsOf[p] = {p[2][i] : i \in DOMAIN p[2]}

Generation == ManifestsFit /\ FilesAreGenerated /\ PayloadsAreRead

(* What readManifest asserts of the manifests, that an id stands once in   *)
(* each, and that no two ids have a script in common.                      *)
OneOfEachId(templates) ==
  \A i, j \in DOMAIN templates : templates[i].id = templates[j].id => i = j

Ids(templates) == {templates[i].id : i \in DOMAIN templates}

ManifestsMatch ==
  /\ Templates = {TestnetTemplates[i] : i \in DOMAIN TestnetTemplates}
                   \cup {MainnetTemplates[i] : i \in DOMAIN MainnetTemplates}
  /\ \A t \in Templates : t.id \in Int /\ t.arguments \in Seq(STRING)
  /\ OneOfEachId(TestnetTemplates) /\ OneOfEachId(MainnetTemplates)
  /\ Ids(TestnetTemplates) = Ids(MainnetTemplates)
  /\ \A t, u \in Templates :
       /\ t.id = u.id => Len(t.arguments) = Len(u.arguments)
       /\ t.script = u.script => t.id = u.id

-----------------------------------------------------------------------------
(* What the device displays is the packet of a pair of templates, for a    *)
(* script of theirs: neither a packet that fills the tree up, nor one that *)
(* nobody has listed.                                                      *)
AcceptedIsTemplate ==
  \A s \in Script : parseTxMetadata(s) =>
    \E i \in DOMAIN txMetadata : metadata = txMetadata[i] /\ s \in Scripts(metadata)

(* It is the packet of the template with that script, paired with the one  *)
(* of the same id on the other network.                                    *)
AcceptedIsItsTemplate ==
  \A t \in Templates : parseTxMetadata(t.script) =>
    \E i \in DOMAIN TestnetTemplates, j \in DOMAIN MainnetTemplates :
      /\ TestnetTemplates[i].id = t.id
      /\ MainnetTemplates[j].id = t.id
      /\ metadata = templateToPacket(TestnetTemplates[i], MainnetTemplates[j])
=============================================================================
