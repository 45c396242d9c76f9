------------------------- MODULE MCMetadataSession -------------------------
(***************************************************************************)
(* The real files: the client's copy, the two the generator writes, the    *)
(* manifests and the root of tx_metadata.c.  SHA-256 is taken from the     *)
(* client's copy; the assumptions of TxMetadata say that what it gives is  *)
(* a function without collisions.  Other callers send the payloads on the  *)
(* way of one packet, in any order, and some that are not of the tree: a   *)
(* forged packet, a list with its digest and the root's among genuine      *)
(* ones, and a packet that is too long.  Lists may pass for packets.       *)
(***************************************************************************)
EXTENDS GeneratedSession, Manifests

Client == INSTANCE ClientTree
Js     == INSTANCE PublishedTree
Mjs    == INSTANCE PublishedModule

MCLevels == 4
MCRoot   == "735cf1a2"
MCCopies == [client |-> [tree |-> Client!merkleTree, index |-> Client!merkleIndex],
             js     |-> [tree |-> Js!merkleTree, index |-> Js!merkleIndex],
             mjs    |-> [tree |-> Mjs!merkleTree, index |-> Mjs!merkleIndex]]

(* The nodes of the client's tree at a height; of a branch that was cut    *)
(* only its digest is left, that of seven empty branches.                  *)
IsCut(n) == n.children[1] = Cut
NodesAt[k \in 0..MCLevels] ==
  IF k = MCLevels THEN {Client!merkleTree}
  ELSE {n \in UNION {{m.children[i] : i \in DOMAIN m.children} : m \in NodesAt[k+1]} :
          ~IsCut(n)}
Nodes == UNION {NodesAt[k] : k \in 0..MCLevels}
EmptyBranchList == <<"list", Hashes(Node("", Client!EmptyBranches \o <<Client!EmptyBranches[1]>>))>>
EmptyBranchSHA  == "94a4bf5f"

MCTreeNode == [k \in 0..MCLevels |-> {Content(n) : n \in NodesAt[k]}
                                       \cup (IF k = 3 THEN {EmptyBranchList} ELSE {})]

ForgedScript == "f0f0f0f0"
ForgedPacket == Packet(ForgedScript, ForgedScript, <<>>)
ForgedList   == <<"list", <<"f1", "c43cfe54", "fdc9ed4c", MCRoot>>>>
LongPacket   == <<"long", <<>>, <<>>>>
ForgedSHA    == ForgedPacket :> "f1" @@ ForgedList :> "f2" @@ LongPacket :> "f3"
OneWay       == MetadataOf(Client!merkleTree, Client!merkleIndex["c4a7efd8"])
MCForeign    == {OneWay[i] : i \in DOMAIN OneWay} \cup DOMAIN ForgedSHA
OtherPacket  == {OneWay[1]}
MCContended  == {"c4a7efd8", "1c9d1210", "2cb2cd64"}

MCPayload  == UNION {MCTreeNode[k] : k \in 0..MCLevels} \cup DOMAIN ForgedSHA
MCFits     == MCPayload \ {LongPacket}
MCHashList == {p \in MCPayload : p[1] = "list"} \cup {EmptyPacket}
MCWordsOf  == [p \in MCHashList |-> IF p = EmptyPacket THEN {} ELSE {p[2][i] : i \in DOMAIN p[2]}]
MCSha256   == [p \in MCPayload |->
                 IF p = EmptyBranchList THEN EmptyBranchSHA
                 ELSE IF p \in DOMAIN ForgedSHA THEN ForgedSHA[p]
                 ELSE (CHOOSE n \in Nodes : Content(n) = p).hash]
MCDigest   == {MCSha256[p] : p \in MCPayload} \cup {"00000000"}
MCScript   == {ForgedScript} \cup {TestnetManifest[i].script : i \in DOMAIN TestnetManifest}
                \cup {MainnetManifest[i].script : i \in DOMAIN MainnetManifest}
MCNoMetadata == <<"none", <<>>, <<>>>>
MCCovers   == [p \in MCPayload \cup {MCNoMetadata} |->
                 CASE p[1] = "packet" -> Scripts(p)
                   [] p[1] = "list"   -> {ForgedScript}
                   [] OTHER           -> {}]

(* The digest of what is no payload is that of none of them.               *)
HashOf(p) == IF p \in MCPayload THEN MCSha256[p] ELSE "unknown"

MCGenerated == [tree |-> merkleTree, index |-> merkleIndex]
MCTemplates == {TestnetManifest[i] : i \in DOMAIN TestnetManifest}
                 \cup {MainnetManifest[i] : i \in DOMAIN MainnetManifest}

(* The premises of what is proved of generated files hold of the real ones.*)
ASSUME (\A c \in DOMAIN Copies : Copies[c] = Generated) => Generation /\ ManifestsMatch
=============================================================================
