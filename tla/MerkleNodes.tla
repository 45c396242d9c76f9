---------------------------- MODULE MerkleNodes ----------------------------
(***************************************************************************)
(* Nodes of the metadata tree as transaction_metadata/tree/index.js builds *)
(* and prints them: { hash, children }, where the only child of a leaf is  *)
(* a packet.  A digest or a script hash is its first eight hex digits,     *)
(* which no two of them share; of a packet the scripts it lists and the    *)
(* kinds of its arguments are kept.                                        *)
(***************************************************************************)
EXTENDS Naturals, Sequences

Packet(testnet, mainnet, kinds) == <<"packet", <<testnet, mainnet>>, kinds>>

(* The empty strings that fill the tree up.                                *)
EmptyPacket == <<"packet", <<>>, <<>>>>

Node(hash, children) == [hash |-> hash, children |-> children]
Leaf(hash, packet)   == Node(hash, <<packet>>)
EmptyLeaf            == Leaf("e3b0c442", EmptyPacket)

(* The string "Empty branch" in the place of a node.                       *)
Cut == Node("Empty branch", <<>>)

Scripts(packet) == {packet[2][i] : i \in DOMAIN packet[2]}

Hashes(node) == [i \in DOMAIN node.children |-> node.children[i].hash]

IsLeaf(node) == Len(node.children) = 1

(* What the digest of a node is taken of, and what a client sends of it.   *)
Content(node) == IF IsLeaf(node) THEN node.children[1] ELSE <<"list", Hashes(node)>>
=============================================================================
