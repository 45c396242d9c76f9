------------------------------ MODULE Buffering ------------------------------
(***************************************************************************)
(* The transaction buffer (deps/ledger-zxlib/src/buffering.c behind the    *)
(* wrappers of src/src/common/tx.c): a small buffer in RAM and a larger    *)
(* one in flash.  When a chunk no longer fits the RAM, what was collected  *)
(* there is copied to flash and collection goes on there.                  *)
(*                                                                         *)
(* A buffer is the sequence of the bytes below its pos: nothing reads      *)
(* those above.  Flash keeps its bytes over a power loss, but pos and      *)
(* in_use live in RAM and app_main sets both up again.                     *)
(***************************************************************************)
EXTENDS Naturals, Sequences

CONSTANTS
  Byte,
  RamSize,    (* 0 on Nano S, 8192 elsewhere                               *)
  FlashSize,  (* 8192 on Nano S, 16384 elsewhere                           *)
  Chunks      (* the payloads a host may send                              *)

ASSUME SizeAssumption ==
  /\ RamSize \in Nat
  /\ FlashSize \in Nat
  /\ RamSize <= FlashSize
  /\ Chunks \subseteq Seq(Byte)

VARIABLES
  ram,      (* [data, in_use]                                              *)
  flash,    (* [data, in_use]                                              *)
  added     (* result of the last buffering_append                         *)

vars == <<ram, flash, added>>

Buffer(size) == [data : {s \in Seq(Byte) : Len(s) <= size}, in_use : BOOLEAN]

TypeOK ==
  /\ ram \in Buffer(RamSize)
  /\ flash \in Buffer(FlashSize)
  /\ added \in Nat

-----------------------------------------------------------------------------
Fresh(inUse) == [data |-> <<>>, in_use |-> inUse]

Init ==
  /\ ram = Fresh(TRUE)
  /\ flash = Fresh(FALSE)
  /\ added = 0

buffering_reset ==
  /\ ram' = Fresh(TRUE)
  /\ flash' = Fresh(FALSE)
  /\ UNCHANGED added

(* Power loss and start-up: app_main calls buffering_init.                 *)
Restart ==
  /\ ram' = Fresh(TRUE)
  /\ flash' = Fresh(FALSE)
  /\ added' = 0

FitsRam(data)  == Len(ram.data) + Len(data) <= RamSize

AppendRam(data) ==
  /\ ram.in_use
  /\ FitsRam(data)
  /\ ram' = [ram EXCEPT !.data = @ \o data]
  /\ added' = Len(data)
  /\ UNCHANGED flash

(* The appends to flash, of all the chunks given, each if it fits.         *)
(* Mutant: the room check counts the chunk as one byte.                    *)
FitsFlash_OneByte(buf, data) == Len(buf) < FlashSize

FitsFlash(buf, data) == Len(buf) + Len(data) <= FlashSize

FlashAppend(buf, data) == IF FitsFlash(buf, data) THEN buf \o data ELSE buf

FlashAdded(buf, data) == IF FitsFlash(buf, data) THEN Len(data) ELSE 0

(* Mutant: the bytes already in RAM are not copied.                        *)
Migrate_NoCopy(data) ==
  /\ ram.in_use
  /\ ~FitsRam(data)
  /\ ram' = Fresh(FALSE)
  /\ flash' = [data |-> FlashAppend(flash.data, data), in_use |-> TRUE]
  /\ added' = FlashAdded(flash.data, data)

(* The RAM is full: copy it to flash, then append the chunk there.  RAM is *)
(* given up even if the chunk does not fit the flash either.               *)
Migrate(data) ==
  LET copied == FlashAppend(flash.data, ram.data)
  IN  /\ ram.in_use
      /\ ~FitsRam(data)
      /\ ram' = Fresh(FALSE)
      /\ flash' = [data |-> FlashAppend(copied, data), in_use |-> TRUE]
      /\ added' = FlashAdded(copied, data)

AppendFlash(data) ==
  /\ ~ram.in_use
  /\ flash' = [flash EXCEPT !.data = FlashAppend(@, data)]
  /\ added' = FlashAdded(flash.data, data)
  /\ UNCHANGED ram

buffering_append(data) == AppendRam(data) \/ Migrate(data) \/ AppendFlash(data)

Next ==
  \/ buffering_reset
  \/ Restart
  \/ \E data \in Chunks : buffering_append(data)

Spec == Init /\ [][Next]_vars

-----------------------------------------------------------------------------
(* buffering_get_buffer: what tx_parse and the signing callbacks read.     *)
buffering_get_buffer == IF ram.in_use THEN ram.data ELSE flash.data

(* Exactly one buffer is in use, and the flash is empty until the RAM has  *)
(* been given up: a migration never appends to an older session's bytes.   *)
OneBufferInUse ==
  /\ ram.in_use <=> ~flash.in_use
  /\ ram.in_use => flash.data = <<>>

(* The pair behaves like one append-only buffer of the flash's size: the   *)
(* migration loses, repeats and reorders nothing, and a refused chunk      *)
(* leaves the bytes collected so far.                                      *)
Abstract == INSTANCE ByteBuffer
              WITH contents <- buffering_get_buffer, Capacity <- FlashSize
ImplementsByteBuffer == Abstract!Spec
=============================================================================
