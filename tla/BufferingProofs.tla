--------------------------- MODULE BufferingProofs ---------------------------
(***************************************************************************)
(* The two-tier buffer implements the append-only buffer, for every pair   *)
(* of sizes with RamSize <= FlashSize and every set of chunks.             *)
(***************************************************************************)
EXTENDS Buffering, TLAPS

IInv == TypeOK /\ OneBufferInUse

LEMMA ConcatFacts ==
  ASSUME NEW s \in Seq(Byte), NEW t \in Seq(Byte)
  PROVE  s \o t \in Seq(Byte) /\ Len(s \o t) = Len(s) + Len(t) /\ Len(s) \in Nat
OBVIOUS

LEMMA EmptyConcat ==
  ASSUME NEW s \in Seq(Byte)
  PROVE  <<>> \o s = s /\ s \o <<>> = s
OBVIOUS

LEMMA InitIInv == Init => IInv
BY SizeAssumption DEF Init, IInv, TypeOK, OneBufferInUse, Buffer, Fresh

LEMMA EmptySeq == <<>> \in Seq(Byte) /\ Len(<<>>) = 0
OBVIOUS

LEMMA FreshType ==
  ASSUME NEW size \in Nat, NEW b \in BOOLEAN
  PROVE  Fresh(b) \in Buffer(size) /\ Fresh(b).data = <<>> /\ Fresh(b).in_use = b
BY EmptySeq DEF Fresh, Buffer

LEMMA ResetIInv ==
  ASSUME IInv, buffering_reset \/ Restart PROVE IInv'
<1>1. added' \in Nat
  <2>1. added' = added \/ added' = 0
    BY Zenon DEF buffering_reset, Restart
  <2>2. QED
    BY <2>1 DEF IInv, TypeOK
<1>2. ram' = Fresh(TRUE) /\ flash' = Fresh(FALSE)
  BY DEF buffering_reset, Restart
<1>3. QED
  BY <1>1, <1>2, FreshType, SizeAssumption DEF IInv, TypeOK, OneBufferInUse

(* An append to flash keeps to its size.                                   *)
LEMMA FlashAppendType ==
  ASSUME NEW buf \in Seq(Byte), Len(buf) <= FlashSize, NEW data \in Seq(Byte)
  PROVE  /\ FlashAppend(buf, data) \in Seq(Byte)
         /\ Len(FlashAppend(buf, data)) <= FlashSize
         /\ FlashAdded(buf, data) \in Nat
BY ConcatFacts, SizeAssumption DEF FlashAppend, FlashAdded, FitsFlash

LEMMA BufferFields ==
  ASSUME IInv
  PROVE  /\ ram.data \in Seq(Byte) /\ Len(ram.data) <= RamSize
         /\ flash.data \in Seq(Byte) /\ Len(flash.data) <= FlashSize
         /\ ram.in_use \in BOOLEAN /\ flash.in_use \in BOOLEAN
BY DEF IInv, TypeOK, Buffer

LEMMA AppendRamIInv ==
  ASSUME IInv, NEW data \in Chunks, AppendRam(data) PROVE IInv'
<1>1. data \in Seq(Byte)
  BY SizeAssumption
<1>2. ram' = [data |-> ram.data \o data, in_use |-> ram.in_use]
  BY DEF AppendRam, IInv, TypeOK, Buffer
<1>3. ram' \in Buffer(RamSize)
  BY <1>1, <1>2, BufferFields, ConcatFacts, SizeAssumption DEF AppendRam, FitsRam, Buffer
<1>4. QED
  BY <1>1, <1>2, <1>3, ConcatFacts DEF AppendRam, IInv, TypeOK, OneBufferInUse

LEMMA MigrateIInv ==
  ASSUME IInv, NEW data \in Chunks, Migrate(data) PROVE IInv'
<1> DEFINE copied == FlashAppend(flash.data, ram.data)
<1>1. data \in Seq(Byte)
  BY SizeAssumption
<1>2. copied \in Seq(Byte) /\ Len(copied) <= FlashSize
  BY BufferFields, FlashAppendType
<1>3. /\ FlashAppend(copied, data) \in Seq(Byte)
      /\ Len(FlashAppend(copied, data)) <= FlashSize
      /\ FlashAdded(copied, data) \in Nat
  BY <1>1, <1>2, FlashAppendType
<1>4. /\ ram' = Fresh(FALSE)
      /\ flash' = [data |-> FlashAppend(copied, data), in_use |-> TRUE]
      /\ added' = FlashAdded(copied, data)
  BY DEF Migrate
<1>5. flash' \in Buffer(FlashSize)
  BY <1>3, <1>4 DEF Buffer
<1> HIDE DEF copied
<1>6. QED
  BY <1>3, <1>4, <1>5, FreshType, SizeAssumption DEF IInv, TypeOK, OneBufferInUse

LEMMA AppendFlashIInv ==
  ASSUME IInv, NEW data \in Chunks, AppendFlash(data) PROVE IInv'
<1>1. data \in Seq(Byte)
  BY SizeAssumption
<1>2. flash' = [data |-> FlashAppend(flash.data, data), in_use |-> flash.in_use]
  BY DEF AppendFlash, IInv, TypeOK, Buffer
<1>3. flash' \in Buffer(FlashSize) /\ added' \in Nat
  <2>1. /\ flash.data \in Seq(Byte) /\ Len(flash.data) <= FlashSize
        /\ flash.in_use \in BOOLEAN
    BY BufferFields
  <2>2. /\ FlashAppend(flash.data, data) \in Seq(Byte)
        /\ Len(FlashAppend(flash.data, data)) <= FlashSize
        /\ FlashAdded(flash.data, data) \in Nat
    BY <1>1, <2>1, FlashAppendType
  <2>3. flash' \in Buffer(FlashSize)
    BY <1>2, <2>1, <2>2 DEF Buffer
  <2>4. added' = FlashAdded(flash.data, data)
    BY DEF AppendFlash
  <2>5. QED
    BY <2>2, <2>3, <2>4
<1>4. QED
  BY <1>2, <1>3 DEF AppendFlash, IInv, TypeOK, OneBufferInUse

LEMMA NextIInv == IInv /\ [Next]_vars => IInv'
<1> SUFFICES ASSUME IInv, [Next]_vars PROVE IInv'
  OBVIOUS
<1>1. CASE UNCHANGED vars
  BY <1>1 DEF vars, IInv, TypeOK, OneBufferInUse
<1>2. QED
  BY <1>1, ResetIInv, AppendRamIInv, MigrateIInv, AppendFlashIInv
     DEF Next, buffering_append

(* Both positions stay within their buffers and one buffer is in use.      *)
THEOREM BuffersSound == Spec => [](TypeOK /\ OneBufferInUse)
BY InitIInv, NextIInv, PTL DEF Spec, IInv

-----------------------------------------------------------------------------
(* The steps, read through the refinement mapping.                         *)
LEMMA AppendRamMaps ==
  ASSUME IInv, NEW data \in Chunks, AppendRam(data)
  PROVE  Abstract!Append1(data)
<1>1. data \in Seq(Byte)
  BY SizeAssumption
<1>2. ram'.data = ram.data \o data /\ ram'.in_use = ram.in_use /\ ram.in_use
  BY DEF AppendRam, IInv, TypeOK, Buffer
<1>3. Len(ram.data) + Len(data) <= FlashSize
  BY <1>1, BufferFields, ConcatFacts, SizeAssumption DEF AppendRam, FitsRam
<1>4. QED
  BY <1>2, <1>3
     DEF Abstract!Append1, Abstract!HasRoom, buffering_get_buffer, AppendRam

LEMMA MigrateMaps ==
  ASSUME IInv, NEW data \in Chunks, Migrate(data)
  PROVE  Abstract!Append1(data)
<1>1. data \in Seq(Byte)
  BY SizeAssumption
<1>2. flash.data = <<>> /\ ram.in_use
  BY DEF Migrate, IInv, OneBufferInUse
<1>3. FlashAppend(flash.data, ram.data) = ram.data
  BY <1>2, BufferFields, EmptyConcat, EmptySeq, SizeAssumption
     DEF FlashAppend, FitsFlash
<1>4. /\ ram'.in_use = FALSE
      /\ flash'.data = FlashAppend(ram.data, data)
      /\ added' = FlashAdded(ram.data, data)
  BY <1>3 DEF Migrate, Fresh
<1>5. QED
  BY <1>2, <1>4 DEF Abstract!Append1, Abstract!HasRoom, buffering_get_buffer,
       FlashAppend, FlashAdded, FitsFlash

LEMMA AppendFlashMaps ==
  ASSUME IInv, NEW data \in Chunks, AppendFlash(data)
  PROVE  Abstract!Append1(data)
<1>1. /\ ram.in_use = FALSE /\ ram' = ram
      /\ flash'.data = FlashAppend(flash.data, data)
      /\ added' = FlashAdded(flash.data, data)
  BY BufferFields DEF AppendFlash, IInv, TypeOK, Buffer
<1>2. QED
  BY <1>1 DEF Abstract!Append1, Abstract!HasRoom, buffering_get_buffer,
       FlashAppend, FlashAdded, FitsFlash

(* Every behaviour of the two-tier buffer is one of the append-only buffer. *)
THEOREM Refinement == Spec => ImplementsByteBuffer
<1>1. Init => Abstract!Init
  BY DEF Init, Abstract!Init, buffering_get_buffer, Fresh
<1>2. IInv /\ [Next]_vars => [Abstract!Next]_(Abstract!vars)
  <2> SUFFICES ASSUME IInv, [Next]_vars PROVE [Abstract!Next]_(Abstract!vars)
    OBVIOUS
  <2>1. ASSUME buffering_reset \/ Restart PROVE Abstract!Next
    BY <2>1 DEF buffering_reset, Restart, Abstract!Next, Abstract!Empty,
         buffering_get_buffer, Fresh
  <2>2. CASE UNCHANGED vars
    BY <2>2 DEF vars, Abstract!vars, buffering_get_buffer
  <2>3. ASSUME NEW data \in Chunks, buffering_append(data) PROVE Abstract!Next
    BY <2>3, AppendRamMaps, MigrateMaps, AppendFlashMaps
       DEF buffering_append, Abstract!Next
  <2>4. QED
    BY <2>1, <2>2, <2>3 DEF Next
<1>3. QED
  BY <1>1, <1>2, InitIInv, NextIInv, PTL
     DEF Spec, ImplementsByteBuffer, Abstract!Spec
=============================================================================
