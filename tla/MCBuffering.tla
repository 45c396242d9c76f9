---------------------------- MODULE MCBuffering ----------------------------
(* RAM of 2 bytes, flash of 5, chunks of 0 to 3 bytes: chunks that fit     *)
(* the RAM, that overflow it, that fit the flash only without the RAM's    *)
(* bytes, and that fit nowhere once some bytes are there.                  *)
EXTENDS Buffering

MCByte == {"a", "b"}
MCChunks == {<<>>, <<"a">>, <<"b">>, <<"a", "b">>, <<"b", "b", "a">>}
=============================================================================
