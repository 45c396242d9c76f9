----------------------------- MODULE Manifests -----------------------------
(***************************************************************************)
(* The transaction templates of transaction_metadata/manifest.testnet.json *)
(* and manifest.mainnet.json, in the order of the files.  An id is a       *)
(* number that sorts as the id does (FA.01 is 101, FT.01 201, NFT.01 301,  *)
(* SCO.01 401, TH.01 501); an argument is its type, with a word for the    *)
(* label where the type is UInt8 and the label names a built-in enum.      *)
(***************************************************************************)

Template(id, script, arguments) == [id |-> id, script |-> script, arguments |-> arguments]

TestnetManifest == <<
  Template(101, "c4a7efd8", <<"String", "UInt8 signature", "UInt8 hash", "UFix64">>),
  Template(102, "1c9d1210", <<"String", "UInt8 signature", "UInt8 hash", "UFix64">>),
  Template(103, "6c7ab728", <<"Int">>),
  Template(201, "3ccbbfeb", <<"Address", "String">>),
  Template(202, "c9b9a615", <<"UFix64", "Address", "String", "String">>),
  Template(203, "0adc1ebe", <<"UFix64", "Address", "Address", "String">>),
  Template(301, "54fae25b", <<"Address", "String">>),
  Template(302, "db051802", <<"Address", "UInt64", "String", "String">>),
  Template(303, "e4b837ce", <<"Address", "UInt64", "Address", "String">>),
  Template(501, "094798e9", <<"UFix64">>),
  Template(502, "17ffcd60", <<"UFix64">>),
  Template(401, "861784e7", <<>>),
  Template(402, "e093df9c", <<"String", "UFix64">>),
  Template(403, "deb5f758", <<"String", "UInt8 role", "String", "String",
    "String", "UFix64", "String", "UInt8 signature", "UInt8 hash">>),
  Template(404, "4c1ad615", <<"String", "String", "UInt8 signature", "UInt8 hash">>),
  Template(405, "2d59f2c2", <<"String", "UInt32?", "UFix64">>),
  Template(406, "cf2b0395", <<"String", "UInt32?", "UFix64">>),
  Template(407, "4395faf2", <<"String", "UInt32?", "UFix64">>),
  Template(408, "0b1721f2", <<"String", "UInt32?", "UFix64">>),
  Template(409, "c84843e3", <<"String">>),
  Template(410, "5a07ca4c", <<"String", "UInt32?", "UFix64">>),
  Template(411, "01fd4ea8", <<"String", "UInt32?", "UFix64">>),
  Template(412, "7e216d96", <<"String", "UInt32?">>),
  Template(413, "a39eedbe", <<"String", "Address">>),
  Template(414, "135df830", <<"String", "UInt32", "Address">>),
  Template(415, "fdd40862", <<"String", "UFix64">>),
  Template(416, "3a68789d", <<"String", "String">>)>>

MainnetManifest == <<
  Template(101, "c4a7efd8", <<"String", "UInt8 signature", "UInt8 hash", "UFix64">>),
  Template(102, "1c9d1210", <<"String", "UInt8 signature", "UInt8 hash", "UFix64">>),
  Template(103, "6c7ab728", <<"Int">>),
  Template(201, "0246076f", <<"Address", "String">>),
  Template(202, "6e5b8c83", <<"UFix64", "Address", "String", "String">>),
  Template(203, "d8f826a4", <<"UFix64", "Address", "Address", "String">>),
  Template(301, "a25e07de", <<"Address", "String">>),
  Template(302, "2cb2cd64", <<"Address", "UInt64", "String", "String">>),
  Template(303, "91fd4533", <<"Address", "UInt64", "Address", "String">>),
  Template(501, "4a830e6f", <<"UFix64">>),
  Template(502, "038382a9", <<"UFix64">>),
  Template(401, "69f30dec", <<>>),
  Template(402, "0a41e53a", <<"String", "UFix64">>),
  Template(403, "3b0b2bbc", <<"String", "UInt8 role", "String", "String",
    "String", "UFix64", "String", "UInt8 signature", "UInt8 hash">>),
  Template(404, "f0a6cedb", <<"String", "String", "UInt8 signature", "UInt8 hash">>),
  Template(405, "f26c058a", <<"String", "UInt32?", "UFix64">>),
  Template(406, "4c065893", <<"String", "UInt32?", "UFix64">>),
  Template(407, "c989e8b3", <<"String", "UInt32?", "UFix64">>),
  Template(408, "fe6adb75", <<"String", "UInt32?", "UFix64">>),
  Template(409, "1c8256fb", <<"String">>),
  Template(410, "fbd8ebbf", <<"String", "UInt32?", "UFix64">>),
  Template(411, "c2484f17", <<"String", "UInt32?", "UFix64">>),
  Template(412, "a0fad319", <<"String", "UInt32?">>),
  Template(413, "3578c7f3", <<"String", "Address">>),
  Template(414, "8c7b8460", <<"String", "UInt32", "Address">>),
  Template(415, "e12b16ef", <<"String", "UFix64">>),
  Template(416, "68d24560", <<"String", "String">>)>>

=============================================================================
