------------------------------ MODULE MCFlowApp ------------------------------
(***************************************************************************)
(* Small instances of FlowApp.  The tree has one level: two packets and    *)
(* their list.  The transaction "a" is a prefix of "ab": a buffer that     *)
(* missed its last chunk parses, but as another transaction.               *)
(***************************************************************************)
EXTENDS FlowApp

MCPayload  == {"m1", "m2", "top", "forged", "flist", "long"}
MCFits     == MCPayload \ {"long"}
MCSha256   == [p \in MCPayload |-> <<p>>]
MCZero     == <<"zero">>
MCDigest   == {MCSha256[p] : p \in MCPayload} \cup {MCZero}
MCHashList == {"top", "flist"}
MCWordsOf  == [p \in MCHashList |-> IF p = "top" THEN {<<"m1">>, <<"m2">>} ELSE {<<"forged">>}]
MCRoot     == <<"top">>
MCLevels   == 1
MCTreeNode == [k \in 0..1 |-> IF k = 0 THEN {"m1", "m2"} ELSE {"top"}]
MCScript   == {"s1", "s2"}
MCCovers   == [p \in MCPayload \cup {"none"} |->
                 CASE p \in {"m1", "forged"} -> {"s1"}
                   [] p = "m2"               -> {"s2"}
                   [] OTHER                  -> {}]

MCPath     == {"p0", "p1"}
MCAccount  == {"zero", "acct"}
MCPiece    == {"a", "b", "text"}
MCTx       == {<<"a">>, <<"a", "b">>}
MCScriptOf == [t \in MCTx |-> IF Len(t) = 1 THEN "s1" ELSE "s2"]
MCAccountsIn == [t \in MCTx |-> IF Len(t) = 1 THEN {"acct"} ELSE {}]
(* The arguments of "ab" do not fit what m2 says: with it nothing renders. *)
MCRenders  == [t \in MCTx |-> (MCPayload \cup {"none"}) \ (IF Len(t) = 2 THEN {"m2"} ELSE {})]

Opt(c, h)      == [curve |-> c, hash |-> h]
Acct(a, p, o)  == [account |-> a, path |-> p, options |-> o]
K2 == Opt("secp256k1", "sha2_256")
K3 == Opt("secp256k1", "sha3_256")
R2 == Opt("secp256r1", "sha2_256")
UU == Opt("unknown", "unknown")
EmptySlot == Acct("zero", "nopath", UU)
Chunk(x)  == <<x>>

(* Keys, addresses, messages and transactions, with a packet or without.   *)
(* The bytes "a" are a transaction, and printable, so a message as well.   *)
SignSlots  == {[i \in {0} |-> EmptySlot], [i \in {0} |-> Acct("acct", "p0", K2)],
               [i \in {0} |-> Acct("acct", "p0", UU)]}
SignKeys   == {[path |-> "p0", options |-> K2], [path |-> "p0", options |-> K3],
               [path |-> "p1", options |-> R2], [path |-> "p0", options |-> UU],
               [path |-> "badpath", options |-> K2], TooShort}
SignChunks == {Chunk("a"), Chunk("b"), <<>>}
SignMeta   == {"m1", "m2", "top", "forged", "long"}
None       == {}

(* No step reads the answer of the step before, and no invariant does: two *)
(* states that differ in nothing else have the same future.                *)
WithoutReply == <<flashVars, slotVars, keyVars, sessionVars, txVars, addrVars, pubkeyVars, uiVars>>

(* Two slots, set, changed and deleted, and the reviews that read them.    *)
SlotSlots  == {[i \in {0, 1} |-> EmptySlot]}
SlotKeys   == {[path |-> "p0", options |-> K2]}
SlotInputs == {[idx |-> i, slot |-> t] :
                 i \in {0, 1, 2},
                 t \in {EmptySlot, Acct("acct", "p0", K2), Acct("zero", "p0", K3),
                        Acct("acct", "badpath", K2)}}
SlotChunks == {Chunk("a"), <<>>}
=============================================================================
