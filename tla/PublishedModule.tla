------------------------- MODULE PublishedModule --------------------------
(***************************************************************************)
(* The tree and its index in transaction_metadata/txMerkleTree.mjs, which the *)
(* generator writes for the test vectors.                                  *)
(***************************************************************************)
EXTENDS MerkleNodes, TLC

FirstGroup ==
  Node("fdc9ed4c", <<
    Leaf("c43cfe54", Packet("c4a7efd8", "c4a7efd8", <<4, 6, 5, 1>>)),
    Leaf("85992afd", Packet("1c9d1210", "1c9d1210", <<4, 6, 5, 1>>)),
    Leaf("b5b81e2d", Packet("6c7ab728", "6c7ab728", <<1>>)),
    Leaf("eb684028", Packet("3ccbbfeb", "0246076f", <<1, 4>>)),
    Leaf("8f69d764", Packet("c9b9a615", "6e5b8c83", <<1, 1, 4, 4>>)),
    Leaf("b022a370", Packet("0adc1ebe", "d8f826a4", <<1, 1, 1, 4>>)),
    Leaf("1daeeae3", Packet("54fae25b", "a25e07de", <<1, 4>>))>>)

SecondGroup ==
  Node("a70ead9e", <<
    Leaf("89a752fa", Packet("db051802", "2cb2cd64", <<1, 1, 4, 4>>)),
    Leaf("b25b557e", Packet("e4b837ce", "91fd4533", <<1, 1, 1, 4>>)),
    Leaf("bad7c225", Packet("861784e7", "69f30dec", <<>>)),
    Leaf("b32d0691", Packet("e093df9c", "0a41e53a", <<4, 1>>)),
    Leaf("a43b931d", Packet("deb5f758", "3b0b2bbc", <<4, 7, 4, 4, 4, 1, 4, 6, 5>>)),
    Leaf("a2cac123", Packet("4c1ad615", "f0a6cedb", <<4, 4, 6, 5>>)),
    Leaf("df6227d6", Packet("2d59f2c2", "f26c058a", <<4, 2, 1>>))>>)

ThirdGroup ==
  Node("32412631", <<
    Leaf("67ac47bc", Packet("cf2b0395", "4c065893", <<4, 2, 1>>)),
    Leaf("9971a763", Packet("4395faf2", "c989e8b3", <<4, 2, 1>>)),
    Leaf("35ae4ac7", Packet("0b1721f2", "fe6adb75", <<4, 2, 1>>)),
    Leaf("0d5445e0", Packet("c84843e3", "1c8256fb", <<4>>)),
    Leaf("44c44658", Packet("5a07ca4c", "fbd8ebbf", <<4, 2, 1>>)),
    Leaf("44d62313", Packet("01fd4ea8", "c2484f17", <<4, 2, 1>>)),
    Leaf("bb8882bd", Packet("7e216d96", "a0fad319", <<4, 2>>))>>)

FourthGroup ==
  Node("f2070a3b", <<
    Leaf("1db501d2", Packet("a39eedbe", "3578c7f3", <<4, 1>>)),
    Leaf("acb03d0e", Packet("135df830", "8c7b8460", <<4, 1, 1>>)),
    Leaf("33fe26f9", Packet("fdd40862", "e12b16ef", <<4, 1>>)),
    Leaf("9d766664", Packet("3a68789d", "68d24560", <<4, 4>>)),
    Leaf("9e8bff81", Packet("094798e9", "4a830e6f", <<1>>)),
    Leaf("a1a73556", Packet("17ffcd60", "038382a9", <<1>>)),
    EmptyLeaf>>)

EmptyGroups == [i \in 1..3 |-> Node("63981575", [j \in 1..7 |-> EmptyLeaf])]

EmptyBranches ==
  [i \in 1..6 |-> Node("88bd4870", [j \in 1..7 |-> EmptyGroups[1]])]

CutBranches == [i \in 1..6 |-> Node("94a4bf5f", [j \in 1..7 |-> Cut])]

merkleTree ==
  LET groups   == Node("fcdc17a0", <<FirstGroup, SecondGroup, ThirdGroup, FourthGroup>> \o EmptyGroups)
      branches == Node("1558ab4c", <<groups>> \o EmptyBranches)
  IN  Node("735cf1a2", <<branches>> \o CutBranches)

FirstEntries ==
  "c4a7efd8" :> <<0, 0, 0, 0>> @@ "1c9d1210" :> <<0, 0, 0, 1>> @@
  "6c7ab728" :> <<0, 0, 0, 2>> @@ "3ccbbfeb" :> <<0, 0, 0, 3>> @@
  "0246076f" :> <<0, 0, 0, 3>> @@ "c9b9a615" :> <<0, 0, 0, 4>> @@
  "6e5b8c83" :> <<0, 0, 0, 4>> @@ "0adc1ebe" :> <<0, 0, 0, 5>> @@
  "d8f826a4" :> <<0, 0, 0, 5>> @@ "54fae25b" :> <<0, 0, 0, 6>> @@
  "a25e07de" :> <<0, 0, 0, 6>>

SecondEntries ==
  "db051802" :> <<0, 0, 1, 0>> @@ "2cb2cd64" :> <<0, 0, 1, 0>> @@
  "e4b837ce" :> <<0, 0, 1, 1>> @@ "91fd4533" :> <<0, 0, 1, 1>> @@
  "861784e7" :> <<0, 0, 1, 2>> @@ "69f30dec" :> <<0, 0, 1, 2>> @@
  "e093df9c" :> <<0, 0, 1, 3>> @@ "0a41e53a" :> <<0, 0, 1, 3>> @@
  "deb5f758" :> <<0, 0, 1, 4>> @@ "3b0b2bbc" :> <<0, 0, 1, 4>> @@
  "4c1ad615" :> <<0, 0, 1, 5>> @@ "f0a6cedb" :> <<0, 0, 1, 5>> @@
  "2d59f2c2" :> <<0, 0, 1, 6>> @@ "f26c058a" :> <<0, 0, 1, 6>>

ThirdEntries ==
  "cf2b0395" :> <<0, 0, 2, 0>> @@ "4c065893" :> <<0, 0, 2, 0>> @@
  "4395faf2" :> <<0, 0, 2, 1>> @@ "c989e8b3" :> <<0, 0, 2, 1>> @@
  "0b1721f2" :> <<0, 0, 2, 2>> @@ "fe6adb75" :> <<0, 0, 2, 2>> @@
  "c84843e3" :> <<0, 0, 2, 3>> @@ "1c8256fb" :> <<0, 0, 2, 3>> @@
  "5a07ca4c" :> <<0, 0, 2, 4>> @@ "fbd8ebbf" :> <<0, 0, 2, 4>> @@
  "01fd4ea8" :> <<0, 0, 2, 5>> @@ "c2484f17" :> <<0, 0, 2, 5>> @@
  "7e216d96" :> <<0, 0, 2, 6>> @@ "a0fad319" :> <<0, 0, 2, 6>>

FourthEntries ==
  "a39eedbe" :> <<0, 0, 3, 0>> @@ "3578c7f3" :> <<0, 0, 3, 0>> @@
  "135df830" :> <<0, 0, 3, 1>> @@ "8c7b8460" :> <<0, 0, 3, 1>> @@
  "fdd40862" :> <<0, 0, 3, 2>> @@ "e12b16ef" :> <<0, 0, 3, 2>> @@
  "3a68789d" :> <<0, 0, 3, 3>> @@ "68d24560" :> <<0, 0, 3, 3>> @@
  "094798e9" :> <<0, 0, 3, 4>> @@ "4a830e6f" :> <<0, 0, 3, 4>> @@
  "17ffcd60" :> <<0, 0, 3, 5>> @@ "038382a9" :> <<0, 0, 3, 5>>

merkleIndex == FirstEntries @@ SecondEntries @@ ThirdEntries @@ FourthEntries
=============================================================================
