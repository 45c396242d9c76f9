----------------------------- MODULE MCJsClient -----------------------------
(***************************************************************************)
(* Small instances of JsClient over the device of MCFlowApp: a message of  *)
(* two pieces and an empty one, scripts in the index and not, two callers. *)
(***************************************************************************)
EXTENDS JsClient, MCFlowApp

ClientPiece == MCPiece \cup {"path"}
ClientMeta  == {"m1", "m2", "top"}
ClientIndex == [h \in {"h1", "h2"} |-> <<IF h = "h1" THEN "m1" ELSE "m2", "top">>]
ClientHash  == {"h1", "h2", "h9"}

K(p, o)       == [path |-> p, options |-> o]
Sign(k, m, e) == [op |-> "sign", key |-> k, message |-> m, extra |-> e]
Addr(op, k)   == [op |-> op, key |-> k]
Set(i, a, k)  == [op |-> "setSlot", idx |-> i, account |-> a, key |-> k]

(* What the device may get from these.                                     *)
ClientKeys   == {K(p, o) : p \in {"p0", "p1", "badpath"}, o \in {K2, K3}}
ClientChunks == {<<x>> : x \in ClientPiece} \cup {<<x, y>> : x, y \in ClientPiece}
ClientSlotIn == {[idx |-> 0, slot |-> Acct("acct", p, o)] : p \in {"p0", "p1"}, o \in {K2, K3, UU}}
                  \cup {[idx |-> 0, slot |-> EmptySlot]}

(* One caller: sign calls of each kind, for scripts in the index and not, *)
(* an empty message, paths and arguments that the device or the client     *)
(* refuses, and the other operations.                                      *)
SignRequests ==
  {Sign(K("p0", K2), <<"a", "b">>, "arbitrary"), Sign(K("p1", K3), <<"a">>, "h1"),
   Sign(K("p0", K2), <<"a">>, "h9"), Sign(K("p1", K2), <<"text", "text">>, "Sign message"),
   Sign(K("p1", K2), <<>>, "Sign message"),
   Sign(K("badpath", K2), <<"a">>, "h2"), Sign(K("unreadable", K2), <<"a">>, "h1")}
OtherRequests ==
  {Addr("getAddress", K("p1", K2)), Addr("getAddress", K("badpath", K2)),
   Addr("showAddress", K("p1", K2)), Addr("showAddress", K("p0", Missing)),
   Set(0, "acct", K("p1", K2)), Set(0, "badaccount", K("p1", K2)),
   [op |-> "getSlot", idx |-> 0]}
OneRequest == SignRequests \cup OtherRequests
OneCaller  == {"c1"}
EmptyTable == {[i \in {0} |-> EmptySlot]}

(* Two callers of one client: what one asks for differs in path, options   *)
(* or kind from what the other does.                                       *)
TwoRequests ==
  {Sign(K("p0", K2), <<"text">>, "Sign message"), Set(0, "acct", K("p0", K2)),
   Addr("showAddress", K("p1", K3)), [op |-> "getSlot", idx |-> 0]}
TwoCallers  == {"c1", "c2"}

(* As WithoutReply: a call keeps what it needs of an answer when it comes, *)
(* and every step that is assumed to be fair changes more than the answer. *)
CallsWithoutReply == <<WithoutReply, clientVars>>

(* What the proofs ask of the paths and of what is signed.                 *)
ASSUME MCPaths == PathIsNoContent
=============================================================================
