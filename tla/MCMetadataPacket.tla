-------------------------- MODULE MCMetadataPacket --------------------------
(***************************************************************************)
(* Hashes of two bytes and byteIdx of 41 values, so that the 20th hash of a*)
(* packet wraps before its end and the 21st begins at the count, as the    *)
(* eighth and ninth lie in the code.  Packets that did not come from the   *)
(* generator: every one of up to six small bytes, and sparse ones of every *)
(* length.  Templates up to and beyond each limit of the device: strings   *)
(* of 0 to 3 bytes where 2 are allowed, 0 to 3 arguments of which 2 are.   *)
(***************************************************************************)
EXTENDS MetadataPacket

Lengths(S, n) == UNION {[1..k -> S] : k \in 0..n}

MCByte   == 0..21
Sparse(n, k, i, j) == <<n>> \o [p \in 1..k |-> IF p = i \/ p = j THEN 1 ELSE 0]
MCPacket == Lengths(0..3, 6)
              \cup {Sparse(n, k, i, j) : n \in {1, 2, 20, 21}, k \in 6..39, i, j \in {0, 1, 2, 4, 5, 6, 38, 39}}
MCScript == {<<0, 0>>, <<0, 1>>, <<1, 0>>, <<1, 1>>, <<21, 0>>, <<21, 1>>}

Hashes    == {<<h, g>> : h, g \in {<<0, 1>>, <<1, 1>>}}
Text(n)   == [i \in 1..n |-> 9]
Arguments == [kind : Kind \ Typed, label : {Text(0), Text(2), Text(3)}, type : {<<>>}]
               \cup [kind : Typed, label : {Text(2), Text(3)}, type : {Text(1), Text(3)}]
MCTemplate ==
  [hashes : Hashes, name : {Text(n) : n \in {0, 2, 3}}, arguments : Lengths(Arguments, 2)]
    \cup [hashes : {<<<<0, 1>>, <<1, 1>>>>}, name : {Text(1)},
          arguments : {<<a, a, b>> : a, b \in Arguments}]
=============================================================================
