---------------------------- MODULE MetadataTree ----------------------------
(***************************************************************************)
(* The generator of the metadata tree (transaction_metadata/tree/index.js):*)
(* two manifests, one template of each to a packet, packets to leaves, and *)
(* Depth times Arity nodes to one, with an index from the scripts of the   *)
(* packets to the way from the root to their leaf.                         *)
(*                                                                         *)
(* Left out: labels and names, with the check that a packet is no longer   *)
(* than 255 bytes, and the types for which processArg has no kind.         *)
(***************************************************************************)
EXTENDS MerkleNodes, Integers, FiniteSets, TLC

CONSTANTS
  TestnetTemplates, MainnetTemplates,   (* as they stand in the manifests  *)
  Arity,
  MERKLE_TREE_DEPTH,
  Hash(_),                              (* of the content of a node        *)
  emptyTopLevelBranchSHA

-----------------------------------------------------------------------------
(* The same sequence, as a value that TLC computes only once.              *)
AsTuple(seq) == seq \o <<>>

(* Mutant: the manifests are taken in the order of the files.              *)
Sorted_Not(templates) == templates

(* How many templates come before number k: equal ids keep their order.    *)
Before(templates, k) ==
  Cardinality({j \in DOMAIN templates :
                 \/ templates[j].id < templates[k].id
                 \/ templates[j].id = templates[k].id /\ j < k})

Sorted(templates) ==
  AsTuple([i \in DOMAIN templates |->
             templates[CHOOSE k \in DOMAIN templates : Before(templates, k) = i - 1]])

(* enumToType, for arguments that are UInt8.                               *)
enumToType == "UInt8 hash" :> 5 @@ "UInt8 signature" :> 6 @@ "UInt8 role" :> 7

OptionalTypes == {"UInt32?", "UInt64?", "UFix64?", "String?", "Address?"}
ArrayTypes    == {"[String]", "[Address]", "[UFix64]", "[UInt64]"}

(* The kind that processArg gives to an argument.                          *)
ArgumentKind(a) ==
  CASE a = "String"             -> 4
    [] a \in DOMAIN enumToType  -> enumToType[a]
    [] a \in OptionalTypes      -> 2
    [] a \in ArrayTypes         -> 3
    [] OTHER                    -> 1

(* templatesToMetadata: the arguments are those of the mainnet template.   *)
templateToPacket(testnet, mainnet) ==
  Packet(testnet.script, mainnet.script,
         [i \in DOMAIN mainnet.arguments |-> ArgumentKind(mainnet.arguments[i])])

(* readManifest.  console.assert only prints: manifests whose templates do *)
(* not match are paired all the same.                                      *)
txMetadata ==
  LET testnet == Sorted(TestnetTemplates)
      mainnet == Sorted(MainnetTemplates)
  IN  AsTuple([i \in DOMAIN testnet |-> templateToPacket(testnet[i], mainnet[i])])

-----------------------------------------------------------------------------
(* The number of leaves below a node of height k.                          *)
Below[k \in 0..MERKLE_TREE_DEPTH] == IF k = 0 THEN 1 ELSE Arity * Below[k-1]

Leaves ==
  LET packets == txMetadata
      packet  == [i \in 1 .. Below[MERKLE_TREE_DEPTH] |->
                    IF i <= Len(packets) THEN packets[i] ELSE EmptyPacket]
  IN  AsTuple([i \in DOMAIN packet |-> Leaf(Hash(packet[i]), packet[i])])

processMerkleTreeLevel(children) ==
  Node(Hash(<<"list", [i \in DOMAIN children |-> children[i].hash]>>), children)

splitToTuples(nodes) ==
  [j \in 1 .. Len(nodes) \div Arity |-> SubSeq(nodes, (j-1) * Arity + 1, j * Arity)]

Level[k \in 0..MERKLE_TREE_DEPTH] ==
  IF k = 0 THEN Leaves
  ELSE LET tuples == splitToTuples(Level[k-1])
       IN  AsTuple([j \in DOMAIN tuples |-> processMerkleTreeLevel(tuples[j])])

fullTree == Level[MERKLE_TREE_DEPTH][1]

(* Way(i): from the root to leaf number i, counting from zero.             *)
Way(i) ==
  [k \in 1..MERKLE_TREE_DEPTH |-> ((i - 1) \div Below[MERKLE_TREE_DEPTH - k]) % Arity]

(* A script listed twice keeps its last leaf.                              *)
merkleIndex ==
  LET packets  == txMetadata
      Lists(s) == {i \in DOMAIN packets : s \in Scripts(packets[i])}
  IN  [s \in UNION {Scripts(packets[i]) : i \in DOMAIN packets} |->
         Way(CHOOSE i \in Lists(s) : \A j \in Lists(s) : j <= i)]

(* A top branch without packets is printed without its children.           *)
Pruned(branch) ==
  IF branch.hash = emptyTopLevelBranchSHA
  THEN [branch EXCEPT !.children = [j \in DOMAIN @ |-> Cut]]
  ELSE branch

merkleTree == [fullTree EXCEPT !.children = [i \in DOMAIN @ |-> Pruned(@[i])]]
=============================================================================
