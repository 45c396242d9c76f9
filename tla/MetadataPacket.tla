--------------------------- MODULE MetadataPacket ---------------------------
(***************************************************************************)
(* A metadata packet as bytes: how transaction_metadata/tree/index.js      *)
(* writes the packet of a template and how src/src/tx_metadata.c reads one.*)
(* Positions in a packet count from 0, as in C.                            *)
(***************************************************************************)
EXTENDS Naturals, Sequences

CONSTANTS
  Byte,        (* values of a byte, among them the numbers below           *)
  IndexRange,  (* 256: the width of byteIdx                                *)
  HASH_SIZE,   (* METADATA_HASH_SIZE                                       *)
  MAX_HASHES,  (* MAX_METADATA_NUMBER_OF_HASHES                            *)
  MAX_LENGTH,  (* MAX_METADATA_LENGTH, also the generator's limit          *)
  MAX_STRING,  (* MAX_METADATA_STRING_LENGTH                               *)
  MAX_ARGS,    (* PARSER_MAX_ARGCOUNT                                      *)
  MAX_ITEMS,   (* MAX_METADATA_MAX_ARRAY_ITEMS                             *)
  MAX_ARRAY_LENGTH,  (* what the generator writes for each array           *)
  JSMN_STRING,
  Packet,      (* byte strings that did not come from the generator        *)
  Template,    (* templates given to the generator                         *)
  NoTemplate,
  Script       (* script hashes                                            *)

ASSUME PacketAssumption ==
  /\ HASH_SIZE \in Nat \ {0}
  /\ MAX_LENGTH \in Nat /\ IndexRange \in Nat /\ MAX_LENGTH < IndexRange
  /\ Byte \subseteq Nat
  /\ Packet \subseteq {p \in Seq(Byte) : Len(p) <= MAX_LENGTH}
  /\ Script \subseteq [1..HASH_SIZE -> Byte]
  /\ MAX_HASHES \in Nat /\ MAX_STRING \in Nat /\ MAX_ARGS \in Nat /\ MAX_ITEMS \in Nat
  /\ MAX_ARRAY_LENGTH \in Nat /\ JSMN_STRING \in Nat

(* The kinds of arguments; string, enums (hash algorithm, signature        *)
(* algorithm, node role) and three whose type is part of the packet.       *)
ARRAY == 3
Typed == {1, 2, ARRAY}
Kind  == 1..7

(* The label and the type of an argument hold no 0, nor does a name.       *)
Label    == Seq(Byte \ {0})
Argument == [kind : Kind \ Typed, label : Label, type : {<<>>}]
              \cup [kind : Typed, label : Label, type : Label]

(* The two hashes fit the device, which takes the arrays as they are       *)
(* written.                                                                *)
ASSUME TemplateAssumption ==
  /\ \A t \in Template : /\ t.hashes[1] \in [1..HASH_SIZE -> Byte]
                         /\ t.hashes[2] \in [1..HASH_SIZE -> Byte]
                         /\ t.name \in Label
                         /\ t.arguments \in Seq(Argument)
  /\ MAX_HASHES >= 2
  /\ MAX_ARRAY_LENGTH <= MAX_ITEMS

VARIABLES
  template, (* what the packet was generated from, or NoTemplate           *)
  packet,   (* the packet in the store                                     *)
  script,   (* the script of the transaction                               *)
  result    (* "none", or what parseTxMetadata returned                    *)

vars == <<template, packet, script, result>>

-----------------------------------------------------------------------------
(* The generator.  A template lists two hashes, a name and arguments with  *)
(* kind, label and type; an array that is optional throws (the constant of *)
(* its kind is not defined).                                               *)
processArg(a, idx) ==
  <<a.kind>> \o (IF a.kind = ARRAY THEN <<0, MAX_ARRAY_LENGTH>> ELSE <<>>)
    \o a.label \o <<0, idx>>
    \o (IF a.kind \in Typed THEN a.type \o <<0, JSMN_STRING>> ELSE <<>>)

(* The arguments of a template up to each of them.                         *)
processedArgs(t) ==
  LET upTo[i \in 0..Len(t.arguments)] ==
        IF i = 0 THEN <<>> ELSE upTo[i-1] \o processArg(t.arguments[i], i - 1)
  IN  upTo

templatesToMetadata(t) ==
  <<2>> \o t.hashes[1] \o t.hashes[2] \o t.name \o <<0, Len(t.arguments)>>
    \o processedArgs(t)[Len(t.arguments)]

(* uint8_to_buff throws on what is no byte.                                *)
ASSUME GeneratorAssumption ==
  \A t \in Template : templatesToMetadata(t) \in Seq(Byte)

-----------------------------------------------------------------------------
(* The reader.  A position past the end stands for an error: every read    *)
(* there is one, and nothing moves back.                                   *)
At(b, p) == b[p + 1]
Fail(b)  == Len(b) + 1

READ_CHAR(b, p) == IF p < Len(b) THEN p + 1 ELSE Fail(b)

(* Where a string that begins at p may have its 0.                         *)
Ends(b, p) ==
  {e \in p .. Len(b)-1 : /\ At(b, e) = 0
                         /\ e <= p + MAX_STRING
                         /\ \A q \in p .. e-1 : At(b, q) # 0}

READ_STRING(b, p) == IF Ends(b, p) = {} THEN Fail(b) ELSE (CHOOSE e \in Ends(b, p) : TRUE) + 1

READ_SKIP(p, count) == p + count

ReadArrayBounds(b, p) ==
  IF p + 1 < Len(b) /\ At(b, p) <= At(b, p+1) /\ At(b, p+1) <= MAX_ITEMS
  THEN p + 2 ELSE Fail(b)

(* Mutant: the type is not read of an optional argument.                   *)
ReadArgument_NoOptional(b, p) ==
  IF p >= Len(b) \/ At(b, p) \notin Kind THEN Fail(b)
  ELSE LET kind  == At(b, p)
           label == IF kind = ARRAY THEN ReadArrayBounds(b, p + 1) ELSE p + 1
           index == READ_STRING(b, label)
           type  == READ_CHAR(b, index)
       IN  IF kind \in {1, ARRAY} THEN READ_CHAR(b, READ_STRING(b, type)) ELSE type

ReadArgument(b, p) ==
  IF p >= Len(b) \/ At(b, p) \notin Kind THEN Fail(b)
  ELSE LET kind  == At(b, p)
           label == IF kind = ARRAY THEN ReadArrayBounds(b, p + 1) ELSE p + 1
           index == READ_STRING(b, label)
           type  == READ_CHAR(b, index)
       IN  IF kind \in Typed THEN READ_CHAR(b, READ_STRING(b, type)) ELSE type

(* _validateScriptHash.  The loop over a hash ends at its first wrong byte *)
(* or, with an error for the whole packet, at the first one past the end.  *)
byteIdx(i, j) == (1 + i * HASH_SIZE + (j - 1)) % IndexRange

Wrong(b, s, i) ==
  {j \in 1..HASH_SIZE : byteIdx(i, j) >= Len(b) \/ At(b, byteIdx(i, j)) # s[j]}

Overruns(b, s, i) ==
  \E j \in Wrong(b, s, i) : byteIdx(i, j) >= Len(b) /\ \A k \in Wrong(b, s, i) : j <= k

(* Mutant: the loop runs once too often.                                   *)
_validateScriptHash_OneMore(b, s) ==
  \E i \in 0 .. At(b, 0) :
    /\ Wrong(b, s, i) = {}
    /\ \A k \in 0 .. i-1 : ~Overruns(b, s, k)

_validateScriptHash(b, s) ==
  \E i \in 0 .. At(b, 0) - 1 :
    /\ Wrong(b, s, i) = {}
    /\ \A k \in 0 .. i-1 : ~Overruns(b, s, k)

(* The positions after the hashes, after the name, and after each of the   *)
(* arguments.                                                              *)
AfterHashes(b) == READ_SKIP(1, At(b, 0) * HASH_SIZE)
AfterName(b)   == READ_STRING(b, AfterHashes(b))
AfterArguments(b) ==
  LET after[i \in 0..At(b, AfterName(b))] ==
        IF i = 0 THEN AfterName(b) + 1 ELSE ReadArgument(b, after[i-1])
  IN  after

ParsedArgument(b, p) ==
  LET kind   == At(b, p)
      label  == IF kind = ARRAY THEN p + 3 ELSE p + 1
      type   == READ_STRING(b, label) + 1
      text(q) == SubSeq(b, q + 1, READ_STRING(b, q) - 1)
  IN  [kind |-> kind, label |-> text(label),
       type |-> IF kind \in Typed THEN text(type) ELSE <<>>]

ParsedName(b)      == SubSeq(b, AfterHashes(b) + 1, AfterName(b) - 1)
ParsedArguments(b) ==
  [i \in 1..At(b, AfterName(b)) |-> ParsedArgument(b, AfterArguments(b)[i-1])]

parseTxMetadataInternal(b, s) ==
  /\ Len(b) > 0
  /\ At(b, 0) <= MAX_HASHES
  /\ _validateScriptHash(b, s)
  /\ AfterName(b) < Len(b)
  /\ At(b, AfterName(b)) <= MAX_ARGS
  /\ AfterArguments(b)[At(b, AfterName(b))] = Len(b)

-----------------------------------------------------------------------------
Init ==
  /\ \/ /\ template \in Template
        /\ Len(templatesToMetadata(template)) <= MAX_LENGTH
        /\ packet = templatesToMetadata(template)
     \/ /\ template = NoTemplate
        /\ packet \in Packet
  /\ script \in Script
  /\ result = "none"

parseTxMetadata ==
  /\ result' = IF parseTxMetadataInternal(packet, script) THEN "ok" ELSE "error"
  /\ UNCHANGED <<template, packet, script>>

Spec == Init /\ [][parseTxMetadata]_vars

-----------------------------------------------------------------------------
(* A packet is accepted only for a script it lists, at the place of one of *)
(* its hashes: byteIdx wraps in the eighth hash (tx_metadata.c:38), but so *)
(* many hashes leave no room for the rest of the packet.                   *)
AcceptedIsListed ==
  result = "ok" =>
    \E i \in 0 .. At(packet, 0) - 1 : \A j \in 1..HASH_SIZE :
      /\ i * HASH_SIZE + j < Len(packet)
      /\ At(packet, i * HASH_SIZE + j) = script[j]

(* What the device makes room for; the generator only looks at the length  *)
(* of the whole packet.                                                    *)
Readable(t) ==
  /\ Len(t.name) <= MAX_STRING
  /\ Len(t.arguments) <= MAX_ARGS
  /\ \A i \in DOMAIN t.arguments : /\ Len(t.arguments[i].label) <= MAX_STRING
                                   /\ Len(t.arguments[i].type) <= MAX_STRING

(* A packet from the generator is accepted for exactly its two scripts,    *)
(* when it is within the limits of the device, and gives back the name and *)
(* arguments of its template; otherwise it is refused, never misread.      *)
GeneratedIsReadBack ==
  template # NoTemplate /\ result # "none" =>
    /\ result = "ok" <=> Readable(template) /\ script \in {template.hashes[1], template.hashes[2]}
    /\ result = "ok" => /\ ParsedName(packet) = template.name
                        /\ ParsedArguments(packet) = template.arguments
=============================================================================
