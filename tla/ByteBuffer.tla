----------------------------- MODULE ByteBuffer -----------------------------
(***************************************************************************)
(* What the app expects of the buffer a transaction is collected in: the   *)
(* bytes appended since the last reset, in order, up to Capacity; a chunk  *)
(* that does not fit is refused whole and the caller told so.              *)
(***************************************************************************)
EXTENDS Naturals, Sequences

CONSTANTS Byte, Capacity, Chunks

VARIABLES
  contents,  (* what a reader of the buffer sees                           *)
  added      (* what the last append returned                              *)

vars == <<contents, added>>

Empty == contents' = <<>>

(* Mutant: what is already there is not counted.                           *)
HasRoom_ThisChunk(data) == Len(data) <= Capacity

HasRoom(data) == Len(contents) + Len(data) <= Capacity

Append1(data) ==
  \/ /\ HasRoom(data)
     /\ contents' = contents \o data
     /\ added' = Len(data)
  \/ /\ ~HasRoom(data)
     /\ added' = 0
     /\ UNCHANGED contents

Init == contents = <<>> /\ added = 0

Next ==
  \/ Empty /\ added' \in {added, 0}
  \/ \E data \in Chunks : Append1(data)

Spec == Init /\ [][Next]_vars
=============================================================================
