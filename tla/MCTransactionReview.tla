------------------------ MODULE MCTransactionReview ------------------------
(***************************************************************************)
(* Transactions of a transfer, of a list of keys and of nested structs,    *)
(* well-typed and not, on an index of five bits: up to 14 screens can be   *)
(* counted.  Besides them the reviews of up to two items of up to two      *)
(* pages, items without pages among them.                                  *)
(***************************************************************************)
EXTENDS TransactionReview

MCWidth ==
  [text \in {"type", "value", "id", "String", "UFix64", "UInt8", "Array", "Optional", "Struct",
             "Address", "null", "1", "9", "0x2", "12.5", "hi", "0xa1"} |-> 1]
  @@ [text \in {"SHA2 256", "SHA2 384", "block", "gas", "seq", "path", "a1", "a2",
                "<Value too long>"} |-> 9]
  @@ ("" :> 0 @@ "script" :> 33 @@ "long text" :> 91)

(* Documents.                                                              *)
Str(text)      == [kind |-> "STRING", text |-> text]
Prim(text)     == [kind |-> "PRIMITIVE", text |-> text]
Arr(parts)     == [kind |-> "ARRAY", parts |-> parts]
Obj(parts)     == [kind |-> "OBJECT", parts |-> parts]
Typed(type, v) == Obj(<<Str("type"), Str(type), Str("value"), v>>)
Turned(type, v) == Obj(<<Str("value"), v, Str("type"), Str(type)>>)
Some(v)        == Typed("Optional", v)
None           == Typed("Optional", Prim("null"))
Amount(text)   == Typed("UFix64", Str(text))
Keys(parts)    == Typed("Array", Arr(parts))
Key(text)      == Typed("Address", Str(text))
Struct(parts)  == Typed("Struct", Obj(<<Str("id"), Str("hi"), Str("value"), Arr(parts)>>))

(* Packets.                                                                *)
D(argument, title, index, type, kind) ==
  [argument |-> argument, title |-> title, index |-> index, type |-> type, kind |-> kind]
Transfer == [txName |-> "transfer",
             arguments |-> <<D("OPTIONAL", "memo", 2, "String", "STRING"),
                             D("NORMAL", "amount", 1, "UFix64", "STRING")>>]
KeyList  == [txName |-> "keys",
             arguments |-> <<D("ARRAY", "key", 1, "Address", "STRING") @@ [min |-> 1, max |-> 3],
                             D("ENUM", "hash", 2, "UInt8", "STRING")
                               @@ [names |-> 1 :> "SHA2 256" @@ 2 :> "SHA2 384"]>>]
Structs  == [txName |-> "structs",
             arguments |-> <<D("ARRAY", "struct", 1, "Struct", "OBJECT") @@ [min |-> 0, max |-> 4]>>]

Tx(packet, arguments, authorizers) ==
  [script |-> "script", packet |-> packet, arguments |-> arguments, authorizers |-> authorizers,
   referenceBlockId |-> "block", proposer |-> "a1", payer |-> "a1"]

MCContent ==
  [ paid        |-> Tx(Transfer, <<Amount("12.5"), None>>, <<"a1">>),
    paidTurned  |-> Tx(Transfer, <<Turned("UFix64", Str("12.5")), Some(Turned("String", Str("hi")))>>,
                       <<"a1">>),
    paidEmpty   |-> Tx(Transfer, <<Amount(""), Some(Typed("String", Str("")))>>, <<"a1">>),
    paidWrong   |-> Tx(Transfer, <<Typed("UInt8", Str("1")), None>>, <<"a1">>),
    paidPlain   |-> Tx(Transfer, <<Amount("12.5"), Typed("String", Str("hi"))>>, <<"a1">>),
    paidLong    |-> Tx(Transfer, <<Amount("long text"), None>>, <<"a1">>),
    paidHalf    |-> Tx(Transfer, <<Amount("12.5")>>, <<"a1">>),
    paidNumber  |-> Tx(Transfer, <<Typed("UFix64", Prim("1")), Some(Prim("1"))>>, <<"a1">>),
    keys        |-> Tx(KeyList, <<Keys(<<Key("0xa1"), Turned("Address", Str("hi")), Key("")>>),
                                  Typed("UInt8", Str("0x2"))>>, <<>>),
    keysNone    |-> Tx(KeyList, <<Keys(<<>>), Typed("UInt8", Str("1"))>>, <<"a1">>),
    keysUnknown |-> Tx(KeyList, <<Keys(<<Key("0xa1")>>), Typed("UInt8", Str("9"))>>, <<"a1">>),
    keysMany    |-> Tx(KeyList, <<Keys(<<Key("0xa1"), Key("0xa1"), Key("0xa1")>>),
                                  Typed("UInt8", Str("1"))>>, <<"a1", "a2">>),
    structs     |-> Tx(Structs, <<Keys(<<Struct(<<>>), Struct(<<Struct(<<Key("1")>>), Str("hi")>>)>>)>>,
                       <<"a2">>),
    structsNone |-> Tx(Structs, <<Keys(<<>>)>>, <<"a2">>),
    structsMixed |-> Tx(Structs, <<Keys(<<Struct(<<Key("1")>>), Key("1")>>)>>, <<"a2">>),
    structsDeep |-> Tx(Structs, <<Keys(<<Struct(<<Struct(<<Struct(<<Key("1")>>)>>)>>),
                                        Struct(<<>>)>>)>>, <<"a2">>),
    unlisted    |-> Tx(NoPacket, <<Struct(<<Key("1")>>), Amount(""), Prim("1")>>, <<"a1">>),
    blind       |-> Tx(NoPacket, <<Struct(<<Key("1")>>), Amount("")>>, <<>>),
    foreign     |-> [Tx(NoPacket, <<>>, <<>>) EXCEPT !.payer = "a2"],
    badSigner   |-> Tx(Transfer, <<Amount("12.5"), None>>, <<"a1", Wrong>>),
    badBlock    |-> [Tx(NoPacket, <<>>, <<>>) EXCEPT !.referenceBlockId = Wrong] ]

MCChainOf == "a1" :> "Mainnet"
MCNumber  == "1" :> 1 @@ "9" :> 9 @@ "0x2" :> 2

V(show_address, used) == [show_address |-> show_address, addressUsedInTx |-> used]
MCVerdict == {V("NONE", FALSE), V("YES", TRUE), V("YES_HASH_MISMATCH", FALSE)}

(* Reviews of other commands.                                              *)
MCItem  == [pages : 0..2, checked : {FALSE}] \cup [pages : {0}, checked : {TRUE}]
MCOther == UNION {[1..n -> MCItem] : n \in 0..2}

MCReviews == MCOther \cup Range(itemsOf)
=============================================================================
