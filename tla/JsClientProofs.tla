--------------------------- MODULE JsClientProofs ---------------------------
(***************************************************************************)
(* A client's history is a history of the device, and every answer reaches *)
(* the call it belongs to, for every set of callers and requests.  What    *)
(* signing promises over several commands holds of one caller at a time.   *)
(***************************************************************************)
EXTENDS JsClient, FlowAppProofs, SequenceTheorems

(* The handlers that a command runs are those of HostCommand.              *)
LEMMA HandleIsCommand ==
  ASSUME NEW command, DeviceTakes(command), Handle(command)
  PROVE  HostCommand
<1>1. CASE command.type = "INIT" /\ SignInit(command.key)
  BY <1>1 DEF DeviceTakes, HostCommand
<1>2. CASE command.type = "ADD" /\ SignAdd(command.data)
  BY <1>2 DEF DeviceTakes, HostCommand
<1>3. CASE command.type = "LAST" /\ SignLast(command.data)
  BY <1>3 DEF DeviceTakes, HostCommand
<1>4. CASE command.type = "MESSAGE_LAST" /\ SignMessage(command.data)
  BY <1>4 DEF DeviceTakes, HostCommand
<1>5. CASE command.type = "TX_METADATA" /\ SignMetadata(command.payload)
  BY <1>5 DEF DeviceTakes, HostCommand
<1>6. CASE command.type = "MERKLE_TREE" /\ SignProof(command.payload, FALSE)
  BY <1>6 DEF DeviceTakes, HostCommand
<1>7. CASE command.type = "MERKLE_TREE_LAST" /\ SignProof(command.payload, TRUE)
  BY <1>7 DEF DeviceTakes, HostCommand
<1>8. CASE command.type = "getAddress" /\ handleGetPubkey(command.request.key, FALSE)
  BY <1>8 DEF DeviceTakes, HostCommand
<1>9. CASE command.type = "showAddress" /\ handleGetPubkey(command.request.key, TRUE)
  BY <1>9 DEF DeviceTakes, HostCommand
<1>10. CASE command.type = "getSlot" /\ handleGetSlot(command.request.idx)
  BY <1>10 DEF DeviceTakes, HostCommand
<1>11. CASE /\ command.type = "setSlot"
            /\ handleSetSlot(command.request.idx, SlotOf(command.request))
  <2> DEFINE a == [idx |-> command.request.idx, slot |-> SlotOf(command.request)]
  <2>1. a \in SlotInput
    BY <1>11 DEF DeviceTakes
  <2>2. handleSetSlot(a.idx, a.slot)
    BY <1>11
  <2> HIDE DEF a
  <2>3. QED
    BY <2>1, <2>2 DEF HostCommand
<1>12. CASE \E sw \in {"OK", "REFUSED"} : OtherCommand(sw)
  BY <1>12 DEF HostCommand
<1>13. QED
  BY <1>1, <1>2, <1>3, <1>4, <1>5, <1>6, <1>7, <1>8, <1>9, <1>10, <1>11, <1>12 DEF Handle

-----------------------------------------------------------------------------
(* The commands of a call.                                                 *)
Middle == [type : {"INIT"}, key : [path : Path \cup {BadPath, Unreadable},
                                   options : Options \cup {Missing}]]
            \cup [type : {"ADD"}, data : Seq(Piece)]
            \cup [type : {"TX_METADATA", "MERKLE_TREE"}, payload : Payload]
Final  == [type : {"LAST", "MESSAGE_LAST"}, data : Seq(Piece)]
            \cup [type : {"MERKLE_TREE_LAST"}, payload : Payload]

LastType(r) == CASE r.extra = "Sign message" -> "MESSAGE_LAST"
                 [] r.extra = "arbitrary"    -> "LAST"
                 [] OTHER                    -> "MERKLE_TREE_LAST"

(* A sequence whose elements are middle ones but for the last.             *)
EndsOnly(chunks, type) ==
  /\ chunks \in Seq(Middle \cup Final)
  /\ Len(chunks) > 0
  /\ \A i \in 1..Len(chunks) - 1 : chunks[i] \in Middle
  /\ chunks[Len(chunks)] \in Final
  /\ chunks[Len(chunks)].type = type

LEMMA Constants ==
  /\ ChunkSize \in Nat \ {0}
  /\ PathBytes \in Piece
  /\ \A h \in DOMAIN merkleIndex : merkleIndex[h] \in Seq(Payload) /\ Len(merkleIndex[h]) > 1
BY ZenonT(20), ClientAssumption

LEMMA PieceCount ==
  ASSUME NEW message \in Seq(Piece)
  PROVE  \E n \in Nat : Pieces(message) = 1..n
<1> DEFINE n == (Len(message) + ChunkSize - 1) \div ChunkSize
<1>1. Len(message) \in Nat /\ ChunkSize \in Nat \ {0}
  BY Constants
<1>2. n \in Nat
  BY <1>1
<1>3. Pieces(message) = 1..n
  BY DEF Pieces
<1> HIDE DEF n
<1>4. QED
  BY <1>2, <1>3

LEMMA PieceType ==
  ASSUME NEW message \in Seq(Piece), NEW i \in Pieces(message)
  PROVE  Piecewise(message)[i] \in Seq(Piece)
<1> DEFINE n == (Len(message) + ChunkSize - 1) \div ChunkSize
           from == (i-1) * ChunkSize + 1
           to == IF i * ChunkSize < Len(message) THEN i * ChunkSize ELSE Len(message)
<1>1. Len(message) \in Nat /\ ChunkSize \in Nat \ {0}
  BY Constants
<1>2. i \in Nat /\ i >= 1
  BY <1>1 DEF Pieces
<1>3. (i-1) * ChunkSize \in Nat /\ i * ChunkSize \in Nat
  BY <1>1, <1>2
<1>4. from \in Nat /\ from >= 1 /\ to \in Nat /\ to <= Len(message)
  BY <1>1, <1>3
<1>5. Piecewise(message)[i] = SubSeq(message, from, to)
  BY DEF Piecewise
<1> HIDE DEF from, to
<1>6. SubSeq(message, from, to) \in Seq(Piece)
  BY <1>4
<1>7. QED
  BY <1>5, <1>6

LEMMA BasicChunks ==
  ASSUME NEW key \in [path : Path \cup {BadPath, Unreadable}, options : Options \cup {Missing}],
         NEW message \in Seq(Piece)
  PROVE  /\ prepareBasicChunks(key, message) \in Seq(Middle)
         /\ Len(prepareBasicChunks(key, message)) > 0
         /\ \A i \in 1..Len(prepareBasicChunks(key, message)) :
              prepareBasicChunks(key, message)[i].type \in {"INIT", "ADD"}
<1> DEFINE head == <<[type |-> "INIT", key |-> key]>>
           tail == [i \in Pieces(message) |-> [type |-> "ADD", data |-> Piecewise(message)[i]]]
<1>1. head \in Seq(Middle) /\ Len(head) = 1
  <2>1. [type |-> "INIT", key |-> key] \in Middle
    BY DEF Middle
  <2>2. QED
    BY <2>1
<1>2. PICK n \in Nat : Pieces(message) = 1..n
  BY PieceCount
<1>3. \A i \in 1..n : [type |-> "ADD", data |-> Piecewise(message)[i]] \in Middle
  BY <1>2, PieceType DEF Middle
<1>4. tail \in [1..n -> Middle]
  BY <1>2, <1>3
<1>5. tail \in Seq(Middle) /\ Len(tail) = n
  <2> HIDE DEF tail
  <2>1. QED
    BY <1>4
<1>6. prepareBasicChunks(key, message) = head \o tail
  BY DEF prepareBasicChunks
<1> HIDE DEF head, tail
<1>7. head \o tail \in Seq(Middle) /\ Len(head \o tail) = Len(head) + Len(tail)
  BY <1>1, <1>5, ConcatProperties
<1>8. n \in Nat
  OBVIOUS
<1>9. \A i \in 1..Len(head \o tail) : (head \o tail)[i].type \in {"INIT", "ADD"}
  <2>1. head[1].type = "INIT"
    BY DEF head
  <2>2. \A i \in 1..n : tail[i].type = "ADD"
    BY <1>2 DEF tail
  <2>3. \A i \in 1..Len(head) + Len(tail) :
          (head \o tail)[i] = IF i <= Len(head) THEN head[i] ELSE tail[i - Len(head)]
    <3> HIDE DEF Middle
    <3>1. head \in Seq(Middle) /\ tail \in Seq(Middle)
      BY <1>1, <1>5
    <3>2. QED
      BY <3>1, ConcatProperties
  <2>4. QED
    BY <1>1, <1>5, <1>7, <1>8, <2>1, <2>2, <2>3
<1>10. QED
  BY <1>1, <1>5, <1>6, <1>7, <1>8, <1>9

LEMMA EndedChunks ==
  ASSUME NEW chunks \in Seq(Middle), Len(chunks) > 0,
         \A i \in 1..Len(chunks) : chunks[i].type \in {"INIT", "ADD"},
         NEW type \in {"LAST", "MESSAGE_LAST"}
  PROVE  EndsOnly(EndWith(chunks, type), type)
<1> DEFINE n == Len(chunks)
           end == [type |-> type,
                   data |-> IF chunks[n].type = "INIT" THEN <<PathBytes>> ELSE chunks[n].data]
<1>1. n \in Nat /\ n \in 1..n /\ chunks[n] \in Middle
  OBVIOUS
<1>2. <<PathBytes>> \in Seq(Piece)
  BY Constants
<1>3. chunks[n].type = "ADD" => chunks[n].data \in Seq(Piece)
  BY <1>1 DEF Middle
<1>4. end \in Final /\ end.type = type
  BY <1>1, <1>2, <1>3 DEF Final
<1>5. EndWith(chunks, type) = [chunks EXCEPT ![n] = end]
  BY DEF EndWith
<1> HIDE DEF end
<1>6. [chunks EXCEPT ![n] = end] \in Seq(Middle \cup Final)
  BY <1>1, <1>4
<1>7. Len([chunks EXCEPT ![n] = end]) = n
  BY <1>1
<1>8. QED
  BY <1>1, <1>4, <1>5, <1>6, <1>7 DEF EndsOnly

LEMMA ProofChunks ==
  ASSUME NEW h \in DOMAIN merkleIndex
  PROVE  EndsOnly(MetadataChunks(h), "MERKLE_TREE_LAST")
<1> DEFINE proof == merkleIndex[h]
           n == Len(proof)
           TypeOf(i) == CASE i = 1 -> "TX_METADATA" [] i = n -> "MERKLE_TREE_LAST"
                          [] OTHER -> "MERKLE_TREE"
           chunk(i) == [type |-> TypeOf(i), payload |-> proof[i]]
<1>1. proof \in Seq(Payload) /\ n \in Nat /\ n > 1
  BY Constants
<1>2. \A i \in 1..n : proof[i] \in Payload
  BY <1>1
<1>3. \A i \in 1..n-1 : chunk(i) \in Middle
  <2> TAKE i \in 1..n-1
  <2>1. TypeOf(i) \in {"TX_METADATA", "MERKLE_TREE"}
    BY <1>1
  <2>2. proof[i] \in Payload
    BY <1>1, <1>2
  <2>3. QED
    BY <2>1, <2>2 DEF Middle
<1>4. chunk(n) \in Final /\ chunk(n).type = "MERKLE_TREE_LAST"
  <2>1. TypeOf(n) = "MERKLE_TREE_LAST"
    BY <1>1
  <2>2. proof[n] \in Payload
    BY <1>1, <1>2
  <2>3. QED
    BY <2>1, <2>2 DEF Final
<1>5. MetadataChunks(h) = [i \in 1..n |-> chunk(i)]
  BY DEF MetadataChunks
<1> HIDE DEF chunk, proof, n
<1>6. n \in Nat /\ n > 1
  BY <1>1
<1>7. \A i \in 1..n : i = n \/ i \in 1..n-1
  BY <1>6
<1>8. [i \in 1..n |-> chunk(i)] \in [1..n -> Middle \cup Final]
  BY <1>3, <1>4, <1>7
<1>9. MetadataChunks(h) \in Seq(Middle \cup Final) /\ Len(MetadataChunks(h)) = n
  BY <1>5, <1>6, <1>8
<1>10. \A i \in 1..n : MetadataChunks(h)[i] = chunk(i)
  BY <1>5
<1>11. QED
  BY <1>3, <1>4, <1>6, <1>9, <1>10 DEF EndsOnly

LEMMA Joined ==
  ASSUME NEW front \in Seq(Middle), NEW back, NEW type, EndsOnly(back, type)
  PROVE  EndsOnly(front \o back, type)
<1> DEFINE n == Len(front)  m == Len(back)  all == front \o back
<1>1. front \in Seq(Middle \cup Final) /\ back \in Seq(Middle \cup Final)
  BY DEF EndsOnly
<1>2. n \in Nat /\ m \in Nat /\ m > 0
  BY <1>1 DEF EndsOnly
<1>3. /\ all \in Seq(Middle \cup Final)
      /\ Len(all) = n + m
      /\ \A i \in 1..n + m : all[i] = IF i <= n THEN front[i] ELSE back[i - n]
  BY <1>1, ConcatProperties
<1>4. \A i \in 1..n : front[i] \in Middle
  OBVIOUS
<1>5. \A i \in 1..m - 1 : back[i] \in Middle
  BY DEF EndsOnly
<1>6. back[m] \in Final /\ back[m].type = type
  BY DEF EndsOnly
<1> HIDE DEF n, m, all
<1>7. \A i \in 1..n + m - 1 : all[i] \in Middle
  BY <1>2, <1>3, <1>4, <1>5
<1>8. all[n + m] = back[m]
  BY <1>2, <1>3
<1>9. QED
  BY <1>2, <1>3, <1>6, <1>7, <1>8 DEF EndsOnly, all

LEMMA SignType == ASSUME NEW r \in Request, r.op = "sign" PROVE r \in SignRequest
<1>1. Request \subseteq SignRequest \cup AddressRequest \cup SlotRequest \cup InfoRequest
  BY ZenonT(20), ClientAssumption
<1>2. QED
  BY <1>1 DEF AddressRequest, SlotRequest, InfoRequest

(* A sign call that sends anything sends what leads up to a review, and    *)
(* last what opens it.                                                     *)
LEMMA SignCommands ==
  ASSUME NEW r \in Request, r.op = "sign", Sendable(r), signGetChunks(r) # <<>>
  PROVE  EndsOnly(Commands(r), LastType(r))
<1> DEFINE basic == prepareBasicChunks(r.key, r.message)
<1>1. r \in SignRequest
  BY SignType
<1>2. /\ basic \in Seq(Middle)
      /\ Len(basic) > 0
      /\ \A i \in 1..Len(basic) : basic[i].type \in {"INIT", "ADD"}
  BY <1>1, BasicChunks DEF SignRequest
<1>3. Commands(r) = signGetChunks(r)
  BY DEF Commands
<1> HIDE DEF basic
<1>4. CASE r.extra = "Sign message"
  BY <1>2, <1>3, <1>4, EndedChunks DEF signGetChunks, LastType, basic
<1>5. CASE r.extra = "arbitrary"
  <2>1. signGetChunks(r) = EndWith(basic, "LAST")
    BY <1>5 DEF signGetChunks, basic
  <2>2. QED
    BY <1>2, <1>3, <1>5, <2>1, EndedChunks DEF LastType
<1>6. CASE r.extra \in ScriptHash
  <2>1. "Sign message" \notin ScriptHash /\ "arbitrary" \notin ScriptHash
    BY ZenonT(20), ClientAssumption
  <2>2. r.extra \in DOMAIN merkleIndex
    BY <1>6, <2>1 DEF signGetChunks
  <2>3. signGetChunks(r) = basic \o MetadataChunks(r.extra)
    BY <1>6, <2>1, <2>2 DEF signGetChunks, basic
  <2>4. LastType(r) = "MERKLE_TREE_LAST"
    BY <1>6, <2>1 DEF LastType
  <2>5. QED
    BY <1>2, <1>3, <2>2, <2>3, <2>4, ProofChunks, Joined
<1>7. r.extra # Missing
  BY DEF Sendable
<1>8. QED
  BY <1>1, <1>4, <1>5, <1>6, <1>7 DEF SignRequest

-----------------------------------------------------------------------------
(* A call on its way sends what is next of its commands.                   *)
Live(k) == k.phase \in {"ready", "sent"}

Sound(k) ==
  Live(k) =>
    /\ k.request \in Request
    /\ Begin(k.request).phase = "ready"
    /\ k.next = 0 => k.request.op = "sign" /\ k.phase = "ready"
    /\ k.next > 0 => /\ Sendable(k.request)
                     /\ Commands(k.request) # <<>>
                     /\ k.next <= Len(Commands(k.request))

SignsKind(r, data) == data.tag = "signature" /\ data.domain = Kind(r)

Honest(k) ==
  k.phase = "settled" /\ k.request.op = "sign" /\ k.result.code = "OK"
    => SignsKind(k.request, k.result.data)

(* A step of a call that ends it or gets it ready for the next command.    *)
Continues(k) == k \in Call /\ Sound(k) /\ k.phase \in {"ready", "settled"} /\ Honest(k)

LEMMA CommandCount ==
  ASSUME NEW r \in Request, Sendable(r), Commands(r) # <<>>
  PROVE  Len(Commands(r)) \in Nat /\ Len(Commands(r)) > 0
<1>1. CASE r.op = "sign"
  <2>1. EndsOnly(Commands(r), LastType(r))
    BY <1>1, SignCommands DEF Commands
  <2>2. Commands(r) \in Seq(Middle \cup Final) /\ Len(Commands(r)) > 0
    BY <2>1 DEF EndsOnly
  <2>3. QED
    BY <2>2
<1>2. CASE r.op # "sign"
  <2>1. Commands(r) = <<[type |-> r.op, request |-> r]>>
    BY <1>2 DEF Commands
  <2>2. QED
    BY <2>1
<1>3. QED
  BY <1>1, <1>2

LEMMA FailedResult ==
  ASSUME NEW code \in {"0", "4", "thrown"}
  PROVE  Failed(code) \in Result /\ Failed(code).code # "OK"
BY DEF Failed, Result, Data

LEMMA LinkResult == LinkError \in Result /\ LinkError.code # "OK"
BY DEF LinkError, Result, Data

LEMMA NoCallType == NoCall \in Call
<1>1. NoCall.result \in Result
  BY DEF NoCall, Result, Data
<1>2. QED
  BY <1>1 DEF NoCall, Call

LEMMA SettledCall ==
  ASSUME NEW k \in Call, NEW result \in Result
  PROVE  /\ Settled(k, result) \in Call
         /\ Settled(k, result).phase = "settled"
         /\ Settled(k, result).request = k.request
         /\ Settled(k, result).result = result
BY DEF Settled, Call

LEMMA SettledWell ==
  ASSUME NEW k \in Call, NEW result \in Result,
         k.request.op = "sign" /\ result.code = "OK" => SignsKind(k.request, result.data)
  PROVE  Continues(Settled(k, result))
BY SettledCall DEF Continues, Sound, Live, Honest

LEMMA BeginContinues ==
  ASSUME NEW r \in Request
  PROVE  Continues(Begin(r))
<1> DEFINE k == [NoCall EXCEPT !.phase = "ready", !.request = r,
                               !.next = IF r.op = "sign" THEN 0 ELSE 1]
<1>1. k \in Call /\ k.phase = "ready" /\ k.request = r /\ k.next = (IF r.op = "sign" THEN 0 ELSE 1)
  BY NoCallType DEF Call, NoCall
<1>2. Begin(r) = IF IndexRefused(r) THEN Settled(k, Failed("0"))
                 ELSE IF OptionsRefused(r) \/ PathRefused(r) THEN Settled(k, Failed("thrown"))
                 ELSE IF AccountRefused(r) THEN Settled(k, Failed("0"))
                 ELSE k
  BY DEF Begin
<1> HIDE DEF k
<1>3. \A code \in {"0", "thrown"} : Failed(code) \in Result /\ Failed(code).code # "OK"
  BY FailedResult
<1>4. CASE Begin(r) # k
  BY <1>1, <1>2, <1>3, <1>4, SettledWell
<1>5. CASE Begin(r) = k
  <2>1. Begin(k.request).phase = "ready"
    BY <1>1, <1>5
  <2>2. k.next > 0 => Sendable(r) /\ Commands(r) # <<>> /\ k.next <= Len(Commands(r))
    <3>1. SUFFICES ASSUME k.next > 0 PROVE Sendable(r) /\ Commands(r) # <<>> /\ k.next <= Len(Commands(r))
      OBVIOUS
    <3>2. r.op # "sign"
      BY <1>1, <3>1
    <3>3. Commands(r) = <<[type |-> r.op, request |-> r]>>
      BY <3>2 DEF Commands
    <3>4. QED
      BY <1>1, <2>1, <3>2, <3>3 DEF Sendable
  <2>3. QED
    BY <1>1, <1>5, <2>1, <2>2 DEF Continues, Sound, Honest
<1>6. QED
  BY <1>4, <1>5

LEMMA VersionContinues ==
  ASSUME NEW k \in Call, Sound(k), k.phase = "ready", k.next = 0
  PROVE  Continues(AfterVersion(k))
<1> DEFINE r == k.request
           next == [k EXCEPT !.phase = "ready", !.next = 1]
<1>1. r \in Request /\ Begin(r).phase = "ready" /\ r.op = "sign"
  BY DEF Sound, Live
<1>2. CASE r.key.path = Unreadable \/ r.extra = Missing
  <2>1. Failed("thrown") \in Result /\ Failed("thrown").code # "OK"
    BY FailedResult
  <2>2. QED
    BY <1>2, <2>1, SettledWell DEF AfterVersion
<1>3. CASE ~(r.key.path = Unreadable \/ r.extra = Missing) /\ signGetChunks(r) = <<>>
  <2>1. LinkError \in Result /\ LinkError.code # "OK"
    BY LinkResult
  <2>2. AfterVersion(k) = Settled(k, LinkError)
    BY <1>3 DEF AfterVersion
  <2>3. QED
    BY <2>1, <2>2, SettledWell
<1>4. CASE ~(r.key.path = Unreadable \/ r.extra = Missing) /\ signGetChunks(r) # <<>>
  <2>1. AfterVersion(k) = next
    BY <1>4 DEF AfterVersion
  <2>2. Sendable(r)
    BY <1>1, <1>4 DEF Sendable
  <2>3. Commands(r) # <<>>
    BY <1>1, <1>4 DEF Commands
  <2>4. Len(Commands(r)) \in Nat /\ 1 <= Len(Commands(r))
    BY <1>1, <2>2, <2>3, CommandCount
  <2>5. next \in Call /\ next.phase = "ready" /\ next.request = r /\ next.next = 1
    BY DEF Call
  <2> HIDE DEF next, r
  <2>6. QED
    BY <1>1, <2>1, <2>2, <2>3, <2>4, <2>5 DEF Continues, Sound, Honest
<1>5. QED
  BY <1>2, <1>3, <1>4

LEMMA ReceiveContinues ==
  ASSUME NEW k \in Call, Sound(k), Live(k), NEW answer \in Result,
         k.request.op = "sign" /\ k.next > 0 /\ IsLast(k) /\ answer.code = "OK"
           => SignsKind(k.request, answer.data)
  PROVE  Continues(Receive(k, answer))
<1> DEFINE r == k.request
           next == [k EXCEPT !.phase = "ready", !.next = @ + 1]
<1>1. CASE k.next = 0
  BY <1>1, VersionContinues DEF Receive, Sound
<1>2. CASE k.next # 0 /\ answer.code = "OK" /\ ~IsLast(k)
  <2>1. Receive(k, answer) = next
    BY <1>2 DEF Receive
  <2>2. /\ k.next \in Nat /\ k.next > 0 /\ r \in Request /\ Begin(r).phase = "ready"
        /\ Sendable(r) /\ Commands(r) # <<>>
    BY <1>2 DEF Sound, Call
  <2>3. k.next + 1 <= Len(Commands(r))
    BY <1>2, <2>2, CommandCount DEF IsLast
  <2>4. next \in Call /\ next.phase = "ready" /\ next.request = r /\ next.next = k.next + 1
    <3>1. k.next + 1 \in Nat
      BY <2>2
    <3>2. next = [k EXCEPT !.phase = "ready", !.next = k.next + 1]
      BY DEF Call
    <3>3. QED
      BY <3>1, <3>2 DEF Call
  <2> HIDE DEF next, r
  <2>5. QED
    BY <2>1, <2>2, <2>3, <2>4 DEF Continues, Sound, Honest
<1>3. CASE k.next # 0 /\ ~(answer.code = "OK" /\ ~IsLast(k))
  <2>1. Receive(k, answer) = Settled(k, answer)
    BY <1>3 DEF Receive
  <2>2. k.next > 0
    BY <1>3 DEF Call
  <2>3. QED
    BY <1>3, <2>1, <2>2, SettledWell
<1>4. QED
  BY <1>1, <1>2, <1>3

LEMMA FailureContinues ==
  ASSUME NEW k \in Call, Sound(k), Live(k)
  PROVE  Continues(Receive(k, LinkError))
BY LinkResult, ReceiveContinues

LEMMA LostCall ==
  ASSUME NEW k \in Call, Sound(k)
  PROVE  LET j == [k EXCEPT !.lost = TRUE]
         IN  /\ j \in Call /\ Sound(j)
             /\ j.phase = k.phase /\ j.request = k.request /\ j.result = k.result
<1> DEFINE j == [k EXCEPT !.lost = TRUE]
<1>1. /\ j \in Call /\ j.phase = k.phase /\ j.request = k.request
      /\ j.result = k.result /\ j.next = k.next
  BY DEF Call
<1> HIDE DEF j
<1>2. Sound(j)
  BY <1>1 DEF Sound, Live
<1>3. QED
  BY <1>1, <1>2 DEF j

LEMMA CutCall ==
  ASSUME NEW k \in Call, Sound(k), Honest(k)
  PROVE  /\ Cut(k) \in Call /\ Sound(Cut(k)) /\ Honest(Cut(k))
         /\ Cut(k).phase # "sent"
<1> DEFINE j == [k EXCEPT !.lost = TRUE]
<1>1. j \in Call /\ Sound(j) /\ j.phase = k.phase /\ j.request = k.request /\ j.result = k.result
  BY LostCall
<1> HIDE DEF j
<1>2. CASE k.phase = "sent"
  <2>1. Cut(k) = Receive(j, LinkError)
    BY <1>2 DEF Cut, j
  <2>2. QED
    BY <1>1, <1>2, <2>1, FailureContinues DEF Continues, Live
<1>3. CASE k.phase = "ready"
  <2>1. Cut(k) = j
    BY <1>3 DEF Cut, j
  <2>2. QED
    BY <1>1, <1>3, <2>1 DEF Honest
<1>4. CASE k.phase \notin {"ready", "sent"}
  BY <1>4 DEF Cut
<1>5. QED
  BY <1>2, <1>3, <1>4

-----------------------------------------------------------------------------
(* What the device does with a command.                                    *)
Callback(type) == IF type = "MESSAGE_LAST" THEN "app_sign_message" ELSE "app_sign"

LEMMA MiddleChunk ==
  ASSUME NEW command \in Middle, Handle(command)
  PROVE  pending' = NoCommand
<1>1. CASE command.type = "INIT"
  <2>1. SignInit(command.key)
    BY <1>1 DEF Handle
  <2>2. QED
    BY <2>1 DEF SignInit, NotFinished, uiVars
<1>2. CASE command.type = "ADD"
  <2>1. SignAdd(command.data)
    BY <1>2 DEF Handle
  <2>2. QED
    BY <2>1 DEF SignAdd, TxChunkRefused, NotFinished, uiVars
<1>3. CASE command.type = "TX_METADATA"
  <2>1. SignMetadata(command.payload)
    BY <1>3 DEF Handle
  <2>2. QED
    BY <2>1 DEF SignMetadata, NotFinished, uiVars
<1>4. CASE command.type = "MERKLE_TREE"
  <2>1. SignProof(command.payload, FALSE)
    BY <1>4 DEF Handle
  <2>2. QED
    BY <2>1 DEF SignProof, RefuseProof, NotFinished, uiVars
<1>5. QED
  BY <1>1, <1>2, <1>3, <1>4 DEF Middle

Ends(accept) ==
  \/ pending' = NoCommand /\ reply'.sw # "OK"
  \/ pending' = "SIGN" /\ view'.screen = "review" /\ view'.accept = accept

LEMMA ReviewEnds ==
  ASSUME NEW withMetadata, pending = NoCommand, ReviewTx(withMetadata)
  PROVE  Ends("app_sign")
BY DEF ReviewTx, AwaitUser, view_review_show, Respond, Ends, uiVars, NoCommand

LEMMA RefusedEnds ==
  ASSUME NEW data, NEW accept, pending = NoCommand, TxChunkRefused(data)
  PROVE  Ends(accept)
BY DEF TxChunkRefused, NotFinished, Respond, Ends, uiVars

LEMMA FinalChunk ==
  ASSUME NEW command \in Final, Handle(command)
  PROVE  Ends(Callback(command.type))
<1>1. CASE command.type = "LAST"
  <2>1. SignLast(command.data)
    BY <1>1 DEF Handle
  <2>2. QED
    BY <1>1, <2>1, ReviewEnds, RefusedEnds DEF SignLast, Callback
<1>2. CASE command.type = "MERKLE_TREE_LAST"
  <2>1. SignProof(command.payload, TRUE)
    BY <1>2 DEF Handle
  <2>2. ReviewTx(TRUE) \/ RefuseProof
    BY <2>1 DEF SignProof
  <2>3. pending = NoCommand
    BY <2>1 DEF SignProof
  <2>4. CASE RefuseProof
    BY <2>3, <2>4 DEF RefuseProof, NotFinished, Respond, Ends, uiVars
  <2>5. QED
    BY <1>2, <2>2, <2>3, <2>4, ReviewEnds DEF Callback
<1>3. CASE command.type = "MESSAGE_LAST"
  <2>1. SignMessage(command.data)
    BY <1>3 DEF Handle
  <2>2. \/ TxChunkRefused(command.data)
        \/ AwaitUser("SIGN", "app_sign_message", "TXN")
        \/ Respond("SIGN", "DATA_INVALID") /\ UNCHANGED uiVars
    BY <2>1 DEF SignMessage
  <2>3. pending = NoCommand
    BY <2>1 DEF SignMessage
  <2>4. Callback(command.type) = "app_sign_message"
    BY <1>3 DEF Callback
  <2>5. QED
    BY <2>2, <2>3, <2>4, RefusedEnds
    DEF AwaitUser, view_review_show, Respond, Ends, uiVars
<1>4. QED
  BY <1>1, <1>2, <1>3 DEF Final

LEMMA SingleCommand ==
  ASSUME NEW r \in Request, r.op # "sign", Handle([type |-> r.op, request |-> r])
  PROVE  pending' = NoCommand \/ pending' = OwedBy([request |-> r])
<1> DEFINE command == [type |-> r.op, request |-> r]
<1>1. r.op \in {"getAddress", "showAddress", "getSlot", "setSlot",
                "getVersion", "appInfo", "slotStatus"}
  <2>1. Request \subseteq SignRequest \cup AddressRequest \cup SlotRequest \cup InfoRequest
    BY ZenonT(20), ClientAssumption
  <2>2. QED
    BY <2>1 DEF SignRequest, AddressRequest, SlotRequest, InfoRequest
<1>2. command.type = r.op /\ command.request = r
  OBVIOUS
<1> HIDE DEF command
<1>3. CASE r.op \in {"getAddress", "showAddress"}
  <2>1. \/ r.op = "getAddress" /\ handleGetPubkey(r.key, FALSE)
        \/ r.op = "showAddress" /\ handleGetPubkey(r.key, TRUE)
    BY <1>2, <1>3 DEF Handle, command
  <2>2. QED
    BY <2>1 DEF handleGetPubkey, AwaitUser, uiVars, OwedBy
<1>4. CASE r.op = "getSlot"
  <2>1. handleGetSlot(r.idx)
    BY <1>2, <1>4 DEF Handle, command
  <2>2. QED
    BY <2>1 DEF handleGetSlot, uiVars
<1>5. CASE r.op = "setSlot"
  <2>1. handleSetSlot(r.idx, SlotOf(r))
    BY <1>2, <1>5 DEF Handle, command
  <2>2. QED
    BY <1>5, <2>1 DEF handleSetSlot, AwaitUser, uiVars, OwedBy
<1>6. CASE r.op \in {"getVersion", "appInfo", "slotStatus"}
  <2>1. \E sw \in {"OK", "REFUSED"} : OtherCommand(sw)
    BY <1>2, <1>6 DEF Handle, command
  <2>2. QED
    BY <2>1 DEF OtherCommand, uiVars
<1>7. QED
  BY <1>1, <1>3, <1>4, <1>5, <1>6

(* The user's decision.                                                    *)
LEMMA Decision ==
  ASSUME TypeOK, UserAnswer
  PROVE  /\ pending' \in {NoCommand, pending}
         /\ pending' # NoCommand => view'.screen = "error" /\ view'.accept = view.accept
<1>1. ASSUME view_error_show
      PROVE  pending' = pending /\ view'.screen = "error" /\ view'.accept = view.accept
  <2>1. view \in Views
    BY DEF TypeOK, Views
  <2>2. QED
    BY <1>1, <2>1 DEF view_error_show, Views
<1>2. QED
  BY <1>1 DEF UserAnswer, h_approve, h_reject, h_error_accept

LEMMA Signature ==
  ASSUME NEW accept \in {"app_sign", "app_sign_message"}, ReviewOf(accept), UserAnswer,
         reply'.sw = "OK"
  PROVE  /\ reply'.data.tag = "signature"
         /\ reply'.data.domain = IF accept = "app_sign" THEN "transaction" ELSE "message"
         /\ reply'.to = pending
<1>1. h_approve
  BY DEF UserAnswer, h_reject, view_error_show, h_error_accept, Respond, Silent
<1>2. QED
  BY <1>1 DEF h_approve, ReviewOf, app_sign, app_sign_message, crypto_sign, Respond

-----------------------------------------------------------------------------
(* Every answer has its type.                                              *)
Reply == [to : {NoCommand, "GET_PUBKEY", "INIT", "ADD", "SIGN", "METADATA", "PROOF", "SLOT_GET",
                "SLOT_SET", "OTHER"},
          sw : Codes \cup {"none"},
          data : {NoData} \cup [tag : {"pubkey"}, key : Key]
                   \cup [tag : {"signature"}, domain : {"transaction", "message"},
                         blob : Seq(Piece), path : Path \cup {BadPath, NoPath},
                         options : Options]]

LEMMA AnswerType ==
  ASSUME TypeOK', reply' \in Reply
  PROVE  Answer' \in Result
<1>1. tmp_slot' \in Store!Slot
  BY DEF TypeOK, Store!TypeOK
<1>2. reply'.sw \in Codes \cup {"none"} /\ reply'.data \in Data
  BY DEF Reply, Data
<1>3. [tag |-> "slot", slot |-> tmp_slot'] \in Data
  BY <1>1 DEF Data
<1>4. QED
  BY <1>2, <1>3 DEF Answer, Result

LEMMA Responded ==
  ASSUME NEW command \in {"GET_PUBKEY", "INIT", "ADD", "SIGN", "METADATA", "PROOF", "SLOT_GET",
                           "SLOT_SET", "OTHER", NoCommand},
         NEW sw \in Codes, Respond(command, sw)
  PROVE  reply' \in Reply
BY DEF Respond, Reply

LEMMA SilentReply == Silent \in Reply
BY DEF Silent, Reply

LEMMA Awaited ==
  ASSUME NEW command, NEW accept, NEW type, AwaitUser(command, accept, type)
  PROVE  reply' \in Reply
BY SilentReply DEF AwaitUser

LEMMA SignReply ==
  ASSUME NEW data, TxChunkRefused(data)
  PROVE  reply' \in Reply
BY Responded DEF TxChunkRefused, Codes

LEMMA ReviewReply ==
  ASSUME NEW withMetadata, ReviewTx(withMetadata)
  PROVE  reply' \in Reply
BY Responded, Awaited DEF ReviewTx, Codes

LEMMA PubkeyReply ==
  ASSUME TypeOK', NEW key, NEW confirm, handleGetPubkey(key, confirm)
  PROVE  reply' \in Reply
<1>1. pubkey_to_display' \in Key
  BY DEF TypeOK
<1>2. PathError(key) \in Codes
  BY DEF PathError, Codes
<1>3. \/ Respond("GET_PUBKEY", PathError(key))
      \/ Respond("GET_PUBKEY", "UNKNOWN")
      \/ AwaitUser("GET_PUBKEY", "app_reply_address", "ADDRESS")
      \/ reply' = [to |-> "GET_PUBKEY", sw |-> "OK",
                   data |-> [tag |-> "pubkey", key |-> pubkey_to_display']]
  BY DEF handleGetPubkey
<1>4. CASE reply' = [to |-> "GET_PUBKEY", sw |-> "OK",
                     data |-> [tag |-> "pubkey", key |-> pubkey_to_display']]
  BY <1>1, <1>4 DEF Reply, Codes
<1>5. QED
  BY <1>2, <1>3, <1>4, Responded, Awaited DEF Codes

LEMMA HostReply ==
  ASSUME TypeOK', HostCommand
  PROVE  reply' \in Reply
<1>1. ASSUME NEW key, SignInit(key) PROVE reply' \in Reply
  <2>1. PathError(key) \in Codes
    BY DEF PathError, Codes
  <2>2. QED
    BY <1>1, <2>1, Responded DEF SignInit, Codes
<1>2. ASSUME NEW data, SignAdd(data) PROVE reply' \in Reply
  BY <1>2, SignReply, Responded DEF SignAdd, Codes
<1>3. ASSUME NEW data, SignLast(data) PROVE reply' \in Reply
  BY <1>3, SignReply, ReviewReply DEF SignLast
<1>4. ASSUME NEW data, SignMessage(data) PROVE reply' \in Reply
  BY <1>4, SignReply, Responded, Awaited DEF SignMessage, Codes
<1>5. ASSUME NEW p, SignMetadata(p) PROVE reply' \in Reply
  <2>1. (IF Meta!Storable(p) THEN "OK" ELSE "DATA_INVALID") \in Codes
    BY DEF Codes
  <2>2. QED
    BY <1>5, <2>1, Responded DEF SignMetadata
<1>6. ASSUME NEW p, NEW last, SignProof(p, last) PROVE reply' \in Reply
  BY <1>6, ReviewReply, Responded DEF SignProof, RefuseProof, Codes
<1>7. ASSUME NEW i, handleGetSlot(i) PROVE reply' \in Reply
  <2>1. (IF Store!slot_is_empty(slots[i]) THEN "EMPTY_BUFFER" ELSE "OK") \in Codes
    BY DEF Codes
  <2>2. QED
    BY <1>7, <2>1, Responded DEF handleGetSlot
<1>8. ASSUME NEW i, NEW slot, handleSetSlot(i, slot) PROVE reply' \in Reply
  BY <1>8, Responded, Awaited DEF handleSetSlot, Codes
<1>9. ASSUME NEW sw \in {"OK", "REFUSED"}, OtherCommand(sw) PROVE reply' \in Reply
  BY <1>9, Responded DEF OtherCommand, Codes
<1>10. QED
  BY <1>1, <1>2, <1>3, <1>4, <1>5, <1>6, <1>7, <1>8, <1>9, PubkeyReply DEF HostCommand

LEMMA UserReply ==
  ASSUME TypeOK, UserAnswer
  PROVE  reply' \in Reply
<1>1. pending \in {"GET_PUBKEY", "SIGN", "SLOT_SET", NoCommand}
  BY DEF TypeOK
<1>2. ASSUME NEW domain \in {"transaction", "message"}, crypto_sign(domain)
      PROVE  reply' \in Reply
  <2>1. txBuffer \in Seq(Piece) /\ hdPath \in Path \cup {BadPath, NoPath}
          /\ cryptoOptions \in Options
    BY DEF TypeOK
  <2>2. CASE CanSign
    <3>1. [tag |-> "signature", domain |-> domain, blob |-> txBuffer, path |-> hdPath,
           options |-> cryptoOptions]
            \in [tag : {"signature"}, domain : {"transaction", "message"},
                 blob : Seq(Piece), path : Path \cup {BadPath, NoPath}, options : Options]
      BY <2>1
    <3>2. QED
      BY <1>1, <1>2, <2>2, <3>1 DEF crypto_sign, Reply, Codes
  <2>3. CASE ~CanSign
    BY <1>1, <1>2, <2>3, Responded DEF crypto_sign, Codes
  <2>4. QED
    BY <2>2, <2>3
<1>3. ASSUME app_reply_address PROVE reply' \in Reply
  <2>1. pubkey_to_display \in Key
    BY DEF TypeOK
  <2>2. QED
    BY <1>1, <1>3, <2>1 DEF app_reply_address, Reply, Codes
<1>4. CASE h_approve
  <2>1. app_slot_setSlot => reply' \in Reply
    BY <1>1, Responded DEF app_slot_setSlot, Codes
  <2>2. QED
    BY <1>2, <1>3, <1>4, <2>1, SilentReply
    DEF h_approve, app_sign, app_sign_message, menuaddr_return
<1>5. CASE h_reject
  BY <1>1, <1>5, Responded, SilentReply DEF h_reject, Codes
<1>6. CASE view_error_show
  BY <1>6, SilentReply DEF view_error_show
<1>7. CASE h_error_accept
  BY <1>1, <1>7, Responded DEF h_error_accept, Codes
<1>8. QED
  BY <1>4, <1>5, <1>6, <1>7 DEF UserAnswer

-----------------------------------------------------------------------------
(* The inductive invariant: every call on its way has got past its checks  *)
(* and has a command to send, a settled one reports what it may, and the   *)
(* device is at what the transport waits for.                              *)
Calls ==
  /\ call \in [Caller -> Call]
  /\ exchange \in Caller \cup {Nobody}
  /\ \A c \in Caller : Sound(call[c]) /\ Honest(call[c])

(* A sign call waits only for its last chunk, at the review of its kind.   *)
Waiting ==
  exchange # Nobody /\ call[exchange].request.op = "sign" =>
    /\ IsLast(call[exchange])
    /\ ReviewOf(Callback(LastType(call[exchange].request)))

ClientInv == Calls /\ ExchangeMatchesDevice /\ Waiting

DeviceInv == IInv /\ Meta!TypeOK

LEMMA NobodyCalls == Nobody \notin Caller
BY ZenonT(20), ClientAssumption

LEMMA ReadySends ==
  ASSUME Calls, NEW c \in Caller, call[c].phase = "ready", call[c].next > 0
  PROVE  LET k == call[c]  r == k.request
         IN  /\ r \in Request /\ Sendable(r) /\ Commands(r) # <<>>
             /\ k.next \in 1..Len(Commands(r))
             /\ DeviceTakes(Commands(r)[k.next])
<1> DEFINE k == call[c]  r == k.request
<1>1. k \in Call /\ Sound(k)
  BY DEF Calls
<1>2. r \in Request /\ Sendable(r) /\ Commands(r) # <<>> /\ k.next <= Len(Commands(r))
  BY <1>1 DEF Sound, Live
<1>3. k.next \in Nat
  BY <1>1 DEF Call
<1>4. Len(Commands(r)) \in Nat
  BY <1>2, CommandCount
<1>5. DOMAIN Commands(r) = 1..Len(Commands(r))
  <2>1. CASE r.op = "sign"
    <3>1. EndsOnly(Commands(r), LastType(r))
      BY <1>2, <2>1, SignCommands DEF Commands
    <3>2. Commands(r) \in Seq(Middle \cup Final)
      BY <3>1 DEF EndsOnly
    <3>3. QED
      BY <3>2
  <2>2. CASE r.op # "sign"
    <3>1. Commands(r) = <<[type |-> r.op, request |-> r]>>
      BY <2>2 DEF Commands
    <3>2. QED
      BY <3>1
  <2>3. QED
    BY <2>1, <2>2
<1>6. k.next \in DOMAIN Commands(r)
  BY <1>2, <1>3, <1>4, <1>5
<1>7. DeviceTakes(Commands(r)[k.next])
  BY ZenonT(20), <1>2, <1>6, DeviceAssumption
<1>8. QED
  BY <1>2, <1>3, <1>4, <1>7

(* A client's step is a step of the device or leaves it alone.             *)
LEMMA ClientStep ==
  ASSUME Calls, [ClientNext]_allVars
  PROVE  [Next]_vars
<1>1. ASSUME NEW c \in Caller, NEW r \in Request, Start(c, r) PROVE UNCHANGED vars
  BY <1>1 DEF Start
<1>2. ASSUME NEW c \in Caller, QueryVersion(c) PROVE HostCommand
  BY <1>2 DEF QueryVersion, HostCommand
<1>3. ASSUME NEW c \in Caller, Send(c) PROVE HostCommand
  BY <1>3, ReadySends, HandleIsCommand DEF Send, CanSend
<1>4. ASSUME NEW c \in Caller, SendFails(c) \/ Abandon(c) PROVE UNCHANGED vars
  BY <1>4 DEF SendFails, Abandon
<1>5. CASE Decide \/ Disconnect \/ AtDevice
  BY <1>5 DEF Decide, Disconnect, AtDevice, Next
<1>6. CASE UNCHANGED allVars
  BY <1>6 DEF allVars
<1>7. QED
  BY <1>1, <1>2, <1>3, <1>4, <1>5, <1>6 DEF ClientNext, Proceed, Next

LEMMA StoreTypeKept == Meta!TypeOK /\ [Next]_vars => Meta!TypeOK'
<1> SUFFICES ASSUME Meta!TypeOK, [Meta!Next]_(Meta!vars) PROVE Meta!TypeOK'
  BY StoreStep
<1>1. /\ Levels \in Nat /\ Levels > 0
      /\ ZeroDigest \in Digest
      /\ Sha256 \in [Payload -> Digest]
  BY StoreAssumption DEF Meta!LevelsAssumption, Meta!Sha256Assumption
<1>2. ASSUME Meta!initStoredTxMetadata PROVE Meta!TypeOK'
  BY <1>1, <1>2 DEF Meta!TypeOK, Meta!initStoredTxMetadata
<1>3. ASSUME NEW p \in Payload, Meta!MetadataChunk(p) PROVE Meta!TypeOK'
  BY <1>1, <1>2, <1>3 DEF Meta!TypeOK, Meta!MetadataChunk, Meta!storeTxMetadata
<1>4. ASSUME NEW p \in Payload, Meta!ProofChunk(p) PROVE Meta!TypeOK'
  BY <1>1, <1>2, <1>4
     DEF Meta!TypeOK, Meta!ProofChunk, Meta!ExtendsProof,
         Meta!validateStoredTxMetadataMerkleTreeLevel
<1>5. CASE UNCHANGED Meta!vars
  BY <1>5 DEF Meta!TypeOK, Meta!vars
<1>6. QED
  BY <1>2, <1>3, <1>4, <1>5 DEF Meta!Next, Meta!InitChunk

LEMMA DeviceKept == DeviceInv /\ [Next]_vars => DeviceInv'
BY StoreTypeKept, NextIInv DEF DeviceInv

-----------------------------------------------------------------------------
(* Each step of the client.                                                *)
LEMMA CallReplaced ==
  ASSUME Calls, NEW c \in Caller, NEW k \in Call, Sound(k), Honest(k),
         call' = [call EXCEPT ![c] = k], exchange' \in {exchange, c, Nobody}
  PROVE  Calls'
BY DEF Calls

(* A call that was not waiting is not waiting now, and the device was not  *)
(* answered.                                                               *)
LEMMA StillMatched ==
  ASSUME ClientInv, NEW c \in Caller, NEW k, Continues(k), call[c].phase # "sent",
         call' = [call EXCEPT ![c] = k], UNCHANGED <<exchange, pending, view>>
  PROVE  ClientInv'
<1>1. Calls'
  BY CallReplaced DEF ClientInv, Continues
<1>2. call \in [Caller -> Call] /\ exchange \in Caller \cup {Nobody}
  BY DEF ClientInv, Calls
<1>3. exchange # c
  BY DEF ClientInv, ExchangeMatchesDevice
<1>4. call'[c].phase # "sent"
  BY <1>2 DEF Continues
<1>5. exchange' # Nobody => call'[exchange'] = call[exchange]
  BY <1>2, <1>3
<1>6. ExchangeMatchesDevice'
  BY <1>2, <1>3, <1>4, <1>5 DEF ClientInv, ExchangeMatchesDevice
<1>7. Waiting'
  BY <1>5 DEF ClientInv, Waiting, IsLast, ReviewOf
<1>8. QED
  BY <1>1, <1>6, <1>7 DEF ClientInv

LEMMA InvStart ==
  ASSUME ClientInv, NEW c \in Caller, NEW r \in Request, Start(c, r)
  PROVE  ClientInv'
BY StillMatched, BeginContinues DEF Start, vars, uiVars

LEMMA InvSendFails ==
  ASSUME ClientInv, NEW c \in Caller, SendFails(c)
  PROVE  ClientInv'
<1>1. call[c] \in Call /\ Sound(call[c]) /\ Live(call[c])
  BY DEF ClientInv, Calls, SendFails, Live
<1>2. Continues(Receive(call[c], LinkError))
  BY <1>1, FailureContinues
<1>3. call' = [call EXCEPT ![c] = Receive(call[c], LinkError)]
  BY DEF SendFails, ClientInv, Calls
<1>4. QED
  BY <1>2, <1>3, StillMatched DEF SendFails, vars, uiVars

LEMMA InvAbandon ==
  ASSUME ClientInv, NEW c \in Caller, Abandon(c)
  PROVE  ClientInv'
<1>1. Sound(NoCall) /\ Honest(NoCall) /\ NoCall.phase # "sent"
  BY DEF NoCall, Sound, Honest, Live
<1>2. call' = [call EXCEPT ![c] = NoCall] /\ call[c].phase = "ready"
        /\ UNCHANGED <<exchange, pending, view>>
  BY DEF Abandon, vars, uiVars
<1>3. Calls'
  BY <1>1, <1>2, NoCallType, CallReplaced DEF ClientInv
<1>4. call \in [Caller -> Call] /\ exchange \in Caller \cup {Nobody} /\ exchange # c
  BY <1>2 DEF ClientInv, Calls, ExchangeMatchesDevice
<1>5. exchange' # Nobody => call'[exchange'] = call[exchange]
  BY <1>2, <1>4
<1>6. ExchangeMatchesDevice'
  BY <1>1, <1>2, <1>4, <1>5 DEF ClientInv, ExchangeMatchesDevice
<1>7. Waiting'
  BY <1>2, <1>5 DEF ClientInv, Waiting, IsLast, ReviewOf
<1>8. QED
  BY <1>3, <1>6, <1>7 DEF ClientInv

LEMMA InvQueryVersion ==
  ASSUME ClientInv, NEW c \in Caller, QueryVersion(c)
  PROVE  ClientInv'
<1>1. call[c] \in Call /\ Sound(call[c]) /\ call[c].phase = "ready" /\ call[c].next = 0
  BY DEF ClientInv, Calls, QueryVersion, CanSend
<1>2. Continues(AfterVersion(call[c]))
  BY <1>1, VersionContinues
<1>3. Continues(Settled(call[c], Failed("4")))
  BY <1>1, FailedResult, SettledWell
<1>4. UNCHANGED <<exchange, pending, view>>
  BY DEF QueryVersion, OtherCommand, uiVars
<1>5. PICK k \in {AfterVersion(call[c]), Settled(call[c], Failed("4"))} :
        call' = [call EXCEPT ![c] = k]
  BY DEF QueryVersion, ClientInv, Calls
<1>6. QED
  BY <1>1, <1>2, <1>3, <1>4, <1>5, StillMatched

LEMMA InvAtDevice ==
  ASSUME ClientInv, AtDevice
  PROVE  ClientInv'
<1>1. pending = NoCommand /\ UNCHANGED <<pending, call, exchange>>
  BY DEF AtDevice, Menu, handleMenuShowAddress, h_expert_toggle, MenuIdle, uiVars, clientVars
<1>2. exchange = Nobody
  BY <1>1 DEF ClientInv, ExchangeMatchesDevice
<1>3. QED
  BY <1>1, <1>2 DEF ClientInv, Calls, ExchangeMatchesDevice, Waiting

(* Nobody waits, and the device owes nothing.                              *)
LEMMA NobodyWaits ==
  ASSUME Calls', exchange' = Nobody, pending' = NoCommand,
         \A c \in Caller : call'[c].phase # "sent"
  PROVE  ClientInv'
BY NobodyCalls DEF ClientInv, ExchangeMatchesDevice, Waiting

LEMMA InvDisconnect ==
  ASSUME ClientInv, Disconnect
  PROVE  ClientInv'
<1>1. pending' = NoCommand
  BY DEF Disconnect, UsbReset, Restart
<1>2. \A c \in Caller : /\ Cut(call[c]) \in Call /\ Sound(Cut(call[c]))
                        /\ Honest(Cut(call[c])) /\ Cut(call[c]).phase # "sent"
  BY CutCall DEF ClientInv, Calls
<1>3. call' = [c \in Caller |-> Cut(call[c])] /\ exchange' = Nobody
  BY DEF Disconnect
<1>4. \A c \in Caller : call'[c] = Cut(call[c])
  BY <1>3
<1>5. Calls'
  BY <1>2, <1>3, <1>4 DEF Calls
<1>6. QED
  BY <1>1, <1>2, <1>3, <1>4, <1>5, NobodyWaits

(* The user's decision reaches the call that waits for it.                 *)
LEMMA InvDecide ==
  ASSUME ClientInv, TypeOK, TypeOK', Decide
  PROVE  ClientInv'
<1>1. UserAnswer
  BY DEF Decide
<1>2. /\ pending' \in {NoCommand, pending}
      /\ pending' # NoCommand => view'.screen = "error" /\ view'.accept = view.accept
  BY <1>1, Decision
<1>3. CASE exchange # Nobody /\ pending' = NoCommand
  <2> DEFINE k == call[exchange]  r == k.request  new == Receive(k, Answer')
  <2>1. exchange \in Caller /\ k \in Call /\ Sound(k) /\ k.phase = "sent"
          /\ pending = OwedBy(k)
    BY <1>3 DEF ClientInv, Calls, ExchangeMatchesDevice
  <2>2. call' = [call EXCEPT ![exchange] = new] /\ exchange' = Nobody
    BY <1>3, <2>1 DEF Decide, ClientInv, Calls
  <2>3. Answer' \in Result
    BY <1>1, UserReply, AnswerType
  <2>4. ASSUME r.op = "sign", Answer'.code = "OK" PROVE SignsKind(r, Answer'.data)
    <3> DEFINE accept == Callback(LastType(r))
    <3>1. reply'.sw = "OK"
      BY <2>4 DEF Answer
    <3>2. accept \in {"app_sign", "app_sign_message"} /\ ReviewOf(accept)
      BY <1>3, <2>4 DEF ClientInv, Waiting, Callback
    <3>3. reply'.data.tag = "signature"
            /\ reply'.data.domain = (IF accept = "app_sign" THEN "transaction" ELSE "message")
            /\ reply'.to = pending
      BY <1>1, <3>1, <3>2, Signature
    <3>4. accept = (IF IsMessage(r) THEN "app_sign_message" ELSE "app_sign")
      BY DEF Callback, LastType, IsMessage
    <3>5. pending = "SIGN"
      BY <2>1, <2>4 DEF OwedBy
    <3>6. Answer'.data = reply'.data
      BY <3>3, <3>5 DEF Answer
    <3>7. QED
      BY <3>3, <3>4, <3>6 DEF SignsKind, Kind
  <2>5. Continues(new)
    BY <2>1, <2>3, <2>4, ReceiveContinues DEF Live
  <2> HIDE DEF new, k
  <2>6. Calls'
    BY <2>1, <2>2, <2>5, CallReplaced DEF ClientInv, Continues
  <2>7. \A c \in Caller : call'[c].phase # "sent"
    BY <2>1, <2>2, <2>5 DEF ClientInv, Calls, ExchangeMatchesDevice, Continues
  <2>8. QED
    BY <1>3, <2>2, <2>6, <2>7, NobodyWaits
<1>4. CASE exchange # Nobody /\ pending' # NoCommand
  <2>1. UNCHANGED <<call, exchange, pending>>
    BY <1>2, <1>4 DEF Decide, clientVars
  <2>2. \A accept : ReviewOf(accept) => ReviewOf(accept)'
    BY <1>2, <1>4 DEF ReviewOf
  <2>3. QED
    BY <2>1, <2>2 DEF ClientInv, Calls, ExchangeMatchesDevice, Waiting, IsLast
<1>5. CASE exchange = Nobody
  <2>1. UNCHANGED <<call, exchange, pending>>
    BY <1>2, <1>5 DEF Decide, clientVars, ClientInv, ExchangeMatchesDevice
  <2>2. QED
    BY <1>5, <2>1 DEF ClientInv, Calls, ExchangeMatchesDevice, Waiting
<1>6. QED
  BY <1>3, <1>4, <1>5

(* What a command leaves the device waiting for is what its call waits for.*)
LEMMA Owing ==
  ASSUME Calls, NEW c \in Caller, Send(c), pending' # NoCommand
  PROVE  LET k == call[c]
         IN  /\ pending' = OwedBy(k)
             /\ k.request.op = "sign" =>
                  /\ IsLast(k)
                  /\ view'.screen # "idle" /\ view'.accept = Callback(LastType(k.request))
<1> DEFINE k == call[c]  r == k.request  n == Len(Commands(r))  command == Commands(r)[k.next]
<1>1. /\ r \in Request /\ Sendable(r) /\ Commands(r) # <<>>
      /\ k.next \in 1..n /\ Handle(command)
  BY ReadySends DEF Send, CanSend
<1>2. n \in Nat
  BY <1>1, CommandCount
<1>3. CASE r.op # "sign"
  <2>1. command = [type |-> r.op, request |-> r]
    <3>1. Commands(r) = <<[type |-> r.op, request |-> r]>>
      BY <1>3 DEF Commands
    <3>2. QED
      BY <1>1, <3>1
  <2>2. pending' = OwedBy([request |-> r])
    BY <1>1, <1>3, <2>1, SingleCommand
  <2>3. QED
    BY <1>3, <2>2 DEF OwedBy
<1>4. CASE r.op = "sign"
  <2>1. EndsOnly(Commands(r), LastType(r))
    BY <1>1, <1>4, SignCommands DEF Commands
  <2>2. k.next = n
    <3>1. SUFFICES ASSUME k.next # n PROVE FALSE
      OBVIOUS
    <3>2. command \in Middle
      BY <1>1, <1>2, <2>1, <3>1 DEF EndsOnly
    <3>3. QED
      BY <1>1, <3>2, MiddleChunk
  <2>3. command \in Final /\ command.type = LastType(r)
    BY <2>1, <2>2 DEF EndsOnly
  <2>4. Ends(Callback(LastType(r)))
    BY <1>1, <2>3, FinalChunk
  <2>5. pending' = "SIGN" /\ view'.screen = "review" /\ view'.accept = Callback(LastType(r))
    BY <2>4 DEF Ends
  <2>6. IsLast(k)
    BY <1>2, <2>2 DEF IsLast
  <2>7. QED
    BY <1>4, <2>5, <2>6 DEF OwedBy
<1>5. QED
  BY <1>3, <1>4

LEMMA NothingSigned ==
  ASSUME Calls, NEW c \in Caller, Send(c), pending' = NoCommand,
         call[c].request.op = "sign", IsLast(call[c])
  PROVE  Answer'.code # "OK"
<1> DEFINE k == call[c]  r == k.request  n == Len(Commands(r))  command == Commands(r)[k.next]
<1>1. /\ r \in Request /\ Sendable(r) /\ Commands(r) # <<>>
      /\ k.next \in 1..n /\ Handle(command)
  BY ReadySends DEF Send, CanSend
<1>2. EndsOnly(Commands(r), LastType(r))
  BY <1>1, SignCommands DEF Commands
<1>3. k.next = n
  BY <1>1, CommandCount DEF IsLast
<1>4. command \in Final
  BY <1>2, <1>3 DEF EndsOnly
<1>5. Ends(Callback(command.type))
  BY <1>1, <1>4, FinalChunk
<1>6. QED
  BY <1>5 DEF Ends, Answer, NoCommand

LEMMA InvSend ==
  ASSUME ClientInv, TypeOK', NEW c \in Caller, Send(c)
  PROVE  ClientInv'
<1> DEFINE k == call[c]  new == Receive(k, Answer')  sent == [k EXCEPT !.phase = "sent"]
<1>1. k \in Call /\ Sound(k) /\ k.phase = "ready" /\ k.next > 0 /\ k.next \in Nat
        /\ exchange = Nobody /\ call \in [Caller -> Call]
  BY DEF ClientInv, Calls, Send, CanSend, Call
<1>2. HostCommand
  BY ReadySends, HandleIsCommand DEF Send, CanSend, ClientInv
<1>3. Answer' \in Result
  BY <1>2, HostReply, AnswerType
<1>4. CASE pending' = NoCommand
  <2>1. call' = [call EXCEPT ![c] = new] /\ exchange' = exchange
    BY <1>1, <1>4 DEF Send
  <2>2. Continues(new)
    <3>1. k.request.op = "sign" /\ IsLast(k) => Answer'.code # "OK"
      BY <1>4, NothingSigned DEF ClientInv
    <3>2. QED
      BY <1>1, <1>3, <3>1, ReceiveContinues DEF Live
  <2> HIDE DEF new, k
  <2>3. Calls'
    BY <1>1, <2>1, <2>2, CallReplaced DEF ClientInv, Continues
  <2>4. \A d \in Caller : call'[d].phase # "sent"
    BY <1>1, <2>1, <2>2, NobodyCalls DEF ClientInv, ExchangeMatchesDevice, Continues
  <2>5. QED
    BY <1>1, <1>4, <2>1, <2>3, <2>4, NobodyWaits
<1>5. CASE pending' # NoCommand
  <2>1. call' = [call EXCEPT ![c] = sent] /\ exchange' = c
    BY <1>1, <1>5 DEF Send
  <2>2. sent \in Call /\ sent.phase = "sent" /\ sent.request = k.request /\ sent.next = k.next
    BY <1>1 DEF Call
  <2>3. /\ pending' = OwedBy(k)
        /\ k.request.op = "sign" =>
             /\ IsLast(k)
             /\ view'.screen # "idle" /\ view'.accept = Callback(LastType(k.request))
    BY <1>5, Owing DEF ClientInv
  <2> HIDE DEF sent, k
  <2>4. Sound(sent) /\ Honest(sent)
    BY <1>1, <2>2 DEF Sound, Live, Honest
  <2>5. Calls'
    BY <2>1, <2>2, <2>4, CallReplaced DEF ClientInv
  <2>6. call'[c] = sent /\ \A d \in Caller \ {c} : call'[d] = call[d]
    BY <1>1, <2>1
  <2>7. pending' = OwedBy(sent)
    BY <2>2, <2>3 DEF OwedBy
  <2>8. \A d \in Caller \ {c} : call[d].phase # "sent"
    BY <1>1, NobodyCalls DEF ClientInv, ExchangeMatchesDevice
  <2>9. ExchangeMatchesDevice'
    BY <1>5, <2>1, <2>2, <2>6, <2>7, <2>8, NobodyCalls DEF ExchangeMatchesDevice
  <2>10. Waiting'
    <3>1. IsLast(k) => IsLast(sent)
      BY <2>2 DEF IsLast
    <3>2. QED
      BY <2>1, <2>2, <2>3, <2>6, <3>1 DEF Waiting, IsLast, ReviewOf
  <2>11. QED
    BY <2>5, <2>9, <2>10 DEF ClientInv
<1>6. QED
  BY <1>4, <1>5

-----------------------------------------------------------------------------
LEMMA ClientKept ==
  ASSUME ClientInv, DeviceInv, [ClientNext]_allVars
  PROVE  ClientInv' /\ DeviceInv' /\ [Next]_vars
<1>1. [Next]_vars
  BY ClientStep DEF ClientInv
<1>2. DeviceInv'
  BY <1>1, DeviceKept
<1>3. TypeOK /\ TypeOK'
  BY <1>2 DEF DeviceInv, IInv
<1>4. ASSUME ClientNext PROVE ClientInv'
  <2>1. ASSUME NEW c \in Caller, NEW r \in Request, Start(c, r) PROVE ClientInv'
    BY <2>1, InvStart
  <2>2. ASSUME NEW c \in Caller, QueryVersion(c) PROVE ClientInv'
    BY <2>2, InvQueryVersion
  <2>3. ASSUME NEW c \in Caller, Send(c) PROVE ClientInv'
    BY <1>3, <2>3, InvSend
  <2>4. ASSUME NEW c \in Caller, SendFails(c) \/ Abandon(c) PROVE ClientInv'
    BY <2>4, InvSendFails, InvAbandon
  <2>5. ASSUME Decide \/ Disconnect \/ AtDevice PROVE ClientInv'
    BY <1>3, <2>5, InvDecide, InvDisconnect, InvAtDevice
  <2>6. QED
    BY <1>4, <2>1, <2>2, <2>3, <2>4, <2>5 DEF ClientNext, Proceed
<1>5. ASSUME UNCHANGED allVars PROVE ClientInv'
  <2>1. UNCHANGED <<call, exchange, pending, view>>
    BY <1>5 DEF allVars, clientVars, vars, uiVars
  <2>2. QED
    BY <2>1 DEF ClientInv, Calls, ExchangeMatchesDevice, Waiting, IsLast, ReviewOf
<1>6. QED
  BY <1>1, <1>2, <1>4, <1>5

LEMMA ClientBegins == ClientInit => ClientInv /\ DeviceInv
<1> SUFFICES ASSUME ClientInit PROVE ClientInv /\ DeviceInv
  OBVIOUS
<1>1. Meta!TypeOK
  <2>1. Levels \in Nat /\ Levels > 0 /\ ZeroDigest \in Digest
    BY StoreAssumption DEF Meta!LevelsAssumption, Meta!Sha256Assumption
  <2>2. QED
    BY <2>1 DEF ClientInit, Init, Meta!Init, Meta!TypeOK
<1>2. DeviceInv
  BY <1>1, InitIInv DEF DeviceInv, ClientInit
<1>3. Sound(NoCall) /\ Honest(NoCall) /\ NoCall.phase # "sent"
  BY DEF NoCall, Sound, Honest, Live
<1>4. Calls
  BY <1>3, NoCallType DEF Calls, ClientInit
<1>5. ExchangeMatchesDevice /\ Waiting
  BY <1>3, NobodyCalls DEF ClientInit, Init, ExchangeMatchesDevice, Waiting
<1>6. QED
  BY <1>2, <1>4, <1>5 DEF ClientInv

LEMMA ClientInvariant == ClientSpec => [](ClientInv /\ DeviceInv)
BY ClientBegins, ClientKept, PTL DEF ClientSpec

(* A client, with however many callers, does to the device only what any   *)
(* host may do: the device's own theorems hold under it.                   *)
THEOREM ClientUsesDevice == ClientSpec => Spec
<1>1. ClientInit => Init
  BY DEF ClientInit
<1>2. ClientInv /\ DeviceInv /\ [ClientNext]_allVars => [Next]_vars
  BY ClientKept
<1>3. QED
  BY <1>1, <1>2, ClientInvariant, PTL DEF ClientSpec, Spec

(* A call on its way is at one of its commands, and every result has its   *)
(* type.                                                                   *)
THEOREM ClientTypeCorrect == ClientSpec => []ClientTypeOK
<1>1. ClientInv => ClientTypeOK
  BY DEF ClientInv, Calls, ClientTypeOK, Sound, Live
<1>2. QED
  BY <1>1, ClientInvariant, PTL

(* The device owes an answer exactly while a call waits for it, and it is  *)
(* the answer to the command that call has sent.                           *)
THEOREM AnswersReachTheirCall == ClientSpec => []ExchangeMatchesDevice
<1>1. ClientInv => ExchangeMatchesDevice
  BY DEF ClientInv
<1>2. QED
  BY <1>1, ClientInvariant, PTL

(* A sign call that reports success brings a signature of its kind.        *)
THEOREM SuccessSigned == ClientSpec => []SuccessIsSigned
<1>1. ClientInv => SuccessIsSigned
  BY DEF ClientInv, Calls, SuccessIsSigned, Succeeded, Honest, SignsKind
<1>2. QED
  BY <1>1, ClientInvariant, PTL

-----------------------------------------------------------------------------
(* The calls of one command.  While one waits, the device shows what it    *)
(* asked for.                                                              *)
PubkeyOf(r) == [path |-> r.key.path, curve |-> r.key.options.curve]

ShowsAddress(r) ==
  r.op = "showAddress" /\ ReviewOf("app_reply_address") /\ pubkey_to_display = PubkeyOf(r)

ShowsSlot(r) ==
  r.op = "setSlot" /\ ReviewOf("app_slot_setSlot") /\ tmp_slotIdx = r.idx /\ tmp_slot = SlotOf(r)

SingleWaiting ==
  exchange # Nobody /\ call[exchange].request.op # "sign" =>
    ShowsAddress(call[exchange].request) \/ ShowsSlot(call[exchange].request)

LEMMA SingleIsSent ==
  ASSUME Calls, NEW c \in Caller, Send(c), call[c].request.op # "sign"
  PROVE  LET r == call[c].request
         IN  /\ r \in Request /\ Sendable(r) /\ IsLast(call[c])
             /\ Handle([type |-> r.op, request |-> r])
<1> DEFINE k == call[c]  r == k.request
<1>1. /\ r \in Request /\ Sendable(r)
      /\ k.next \in 1..Len(Commands(r)) /\ Handle(Commands(r)[k.next])
  BY ReadySends DEF Send, CanSend
<1>2. Commands(r) = <<[type |-> r.op, request |-> r]>>
  BY DEF Commands
<1>3. k.next = 1 /\ Len(Commands(r)) = 1
  BY <1>1, <1>2
<1>4. QED
  BY <1>1, <1>2, <1>3 DEF IsLast

LEMMA SingleHandlers ==
  ASSUME NEW r \in Request, r.op # "sign", Handle([type |-> r.op, request |-> r])
  PROVE  \/ r.op = "getAddress" /\ handleGetPubkey(r.key, FALSE)
         \/ r.op = "showAddress" /\ handleGetPubkey(r.key, TRUE)
         \/ r.op = "getSlot" /\ handleGetSlot(r.idx)
         \/ r.op = "setSlot" /\ handleSetSlot(r.idx, SlotOf(r))
         \/ /\ r.op \in {"getVersion", "appInfo", "slotStatus"}
            /\ \E sw \in {"OK", "REFUSED"} : OtherCommand(sw)
<1> DEFINE command == [type |-> r.op, request |-> r]
<1>1. r.op \in {"getAddress", "showAddress", "getSlot", "setSlot",
                "getVersion", "appInfo", "slotStatus"}
  <2>1. Request \subseteq SignRequest \cup AddressRequest \cup SlotRequest \cup InfoRequest
    BY ZenonT(20), ClientAssumption
  <2>2. QED
    BY <2>1 DEF SignRequest, AddressRequest, SlotRequest, InfoRequest
<1>2. command.type = r.op /\ command.request = r
  OBVIOUS
<1> HIDE DEF command
<1>3. QED
  BY <1>1, <1>2 DEF Handle, command

(* A command of one that leaves the device waiting shows what it asked for.*)
LEMMA SingleOpens ==
  ASSUME Calls, NEW c \in Caller, Send(c), pending' # NoCommand, call[c].request.op # "sign"
  PROVE  LET r == call[c].request
         IN  /\ view'.screen = "review"
             /\ \/ /\ r.op = "showAddress" /\ view'.accept = "app_reply_address"
                   /\ pubkey_to_display' = PubkeyOf(r)
                \/ /\ r.op = "setSlot" /\ view'.accept = "app_slot_setSlot"
                   /\ tmp_slotIdx' = r.idx /\ tmp_slot' = SlotOf(r)
<1> DEFINE r == call[c].request
<1>1. r \in Request /\ r.op # "sign" /\ Handle([type |-> r.op, request |-> r])
  BY SingleIsSent
<1> HIDE DEF r
<1>2. CASE handleGetPubkey(r.key, FALSE)
  BY <1>2 DEF handleGetPubkey, uiVars
<1>3. CASE r.op = "showAddress" /\ handleGetPubkey(r.key, TRUE)
  <2>1. AwaitUser("GET_PUBKEY", "app_reply_address", "ADDRESS") /\ Derives(r.key.options)
          /\ crypto_extractPublicKey(r.key.path, r.key.options)
    BY <1>3 DEF handleGetPubkey, uiVars
  <2>2. QED
    BY <1>3, <2>1 DEF AwaitUser, view_review_show, crypto_extractPublicKey, PubkeyOf, r
<1>4. CASE handleGetSlot(r.idx)
  BY <1>4 DEF handleGetSlot, uiVars
<1>5. CASE r.op = "setSlot" /\ handleSetSlot(r.idx, SlotOf(r))
  <2>1. /\ AwaitUser("SLOT_SET", "app_slot_setSlot", "TXN")
        /\ Store!slot_parseSlot(r.idx, SlotOf(r)) /\ Store!slot_parseOK(r.idx, SlotOf(r))
    BY <1>5 DEF handleSetSlot, uiVars
  <2>2. tmp_slotIdx' = r.idx /\ tmp_slot' = SlotOf(r)
    BY <2>1 DEF Store!slot_parseSlot, Store!slot_parseOK
  <2>3. QED
    BY <1>5, <2>1, <2>2 DEF AwaitUser, view_review_show, r
<1>6. CASE \E sw \in {"OK", "REFUSED"} : OtherCommand(sw)
  BY <1>6 DEF OtherCommand, uiVars
<1>7. QED
  BY <1>1, <1>2, <1>3, <1>4, <1>5, <1>6, SingleHandlers

LEMMA SingleKept ==
  ASSUME ClientInv, TypeOK, SingleWaiting, [ClientNext]_allVars
  PROVE  SingleWaiting'
<1>1. call \in [Caller -> Call] /\ exchange \in Caller \cup {Nobody}
        /\ \A c \in Caller : call[c].phase = "sent" <=> exchange = c
  BY DEF ClientInv, Calls, ExchangeMatchesDevice
<1>2. ASSUME UNCHANGED <<view, pubkey_to_display, tmp_slotIdx, tmp_slot, exchange>>,
             exchange # Nobody => call'[exchange] = call[exchange]
      PROVE  SingleWaiting'
  BY <1>2 DEF SingleWaiting, ShowsAddress, ShowsSlot, ReviewOf
<1>3. ASSUME exchange' = Nobody PROVE SingleWaiting'
  BY <1>3 DEF SingleWaiting
<1>4. ASSUME NEW c \in Caller, NEW k, call' = [call EXCEPT ![c] = k], call[c].phase # "sent"
      PROVE  exchange # Nobody => call'[exchange] = call[exchange]
  BY <1>1, <1>4
<1>5. ASSUME NEW c \in Caller, NEW r \in Request, Start(c, r) PROVE SingleWaiting'
  BY <1>2, <1>4, <1>5 DEF Start, vars, uiVars, pubkeyVars, slotVars
<1>6. ASSUME NEW c \in Caller, QueryVersion(c) PROVE SingleWaiting'
  BY <1>3, <1>6 DEF QueryVersion, CanSend
<1>7. ASSUME NEW c \in Caller, Send(c) PROVE SingleWaiting'
  <2>1. CASE pending' = NoCommand
    BY <1>3, <1>7, <2>1, <1>1, NobodyCalls DEF Send, CanSend
  <2>2. CASE pending' # NoCommand
    <3>1. exchange' = c /\ call'[c].request = call[c].request
      BY <1>1, <1>7, <2>2 DEF Send, Call
    <3>2. QED
      BY <1>7, <2>2, <3>1, SingleOpens
         DEF ClientInv, SingleWaiting, ShowsAddress, ShowsSlot, ReviewOf
  <2>3. QED
    BY <2>1, <2>2
<1>8. ASSUME NEW c \in Caller, SendFails(c) PROVE SingleWaiting'
  <2>1. PICK k : call' = [call EXCEPT ![c] = k]
    BY <1>8 DEF SendFails
  <2>2. QED
    BY <1>2, <1>4, <1>8, <2>1 DEF SendFails, vars, uiVars, pubkeyVars, slotVars
<1>9. ASSUME NEW c \in Caller, Abandon(c) PROVE SingleWaiting'
  BY <1>2, <1>4, <1>9 DEF Abandon, vars, uiVars, pubkeyVars, slotVars
<1>10. ASSUME Decide PROVE SingleWaiting'
  <2>1. CASE exchange' = Nobody
    BY <1>3, <2>1
  <2>2. CASE exchange' # Nobody
    <3>1. pending' # NoCommand /\ UserAnswer /\ UNCHANGED <<call, exchange>>
      BY <1>10, <2>2 DEF Decide, clientVars
    <3>2. view_error_show
      BY <3>1 DEF UserAnswer, h_approve, h_reject, h_error_accept
    <3>3. view'.screen = "error" /\ view'.accept = view.accept
      BY <3>1, Decision
    <3>4. UNCHANGED <<pubkey_to_display, tmp_slotIdx, tmp_slot>>
      BY <3>2 DEF view_error_show, pubkeyVars, slotVars
    <3>5. QED
      BY <3>1, <3>3, <3>4 DEF SingleWaiting, ShowsAddress, ShowsSlot, ReviewOf
  <2>3. QED
    BY <2>1, <2>2
<1>11. ASSUME Disconnect PROVE SingleWaiting'
  BY <1>3, <1>11 DEF Disconnect
<1>12. ASSUME AtDevice PROVE SingleWaiting'
  <2>1. pending = NoCommand /\ exchange' = exchange
    BY <1>12 DEF AtDevice, Menu, handleMenuShowAddress, h_expert_toggle, MenuIdle, clientVars
  <2>2. QED
    BY <1>3, <2>1 DEF ClientInv, ExchangeMatchesDevice
<1>13. ASSUME UNCHANGED allVars PROVE SingleWaiting'
  BY <1>2, <1>13 DEF allVars, clientVars, vars, uiVars, pubkeyVars, slotVars
<1>14. QED
  BY <1>5, <1>6, <1>7, <1>8, <1>9, <1>10, <1>11, <1>12, <1>13 DEF ClientNext, Proceed

(* What a call of one command reports is true.                             *)
Told(r, data) ==
  /\ r.op \in {"getAddress", "showAddress"} => data = [tag |-> "pubkey", key |-> PubkeyOf(r)]
  /\ r.op = "setSlot" => slots'[r.idx] = [account |-> r.account, path |-> r.key.path,
                                          options |-> r.key.options]
  /\ r.op = "getSlot" => data = [tag |-> "slot", slot |-> slots[r.idx]]

LEMMA LinkNeverSucceeds ==
  ASSUME NEW k \in Call, k.next > 0
  PROVE  Receive(k, LinkError).result.code # "OK" \/ Receive(k, LinkError).phase # "settled"
<1>1. Receive(k, LinkError) = Settled(k, LinkError)
  BY LinkResult DEF Receive, Call
<1>2. QED
  BY <1>1, LinkResult, SettledCall

LEMMA SendTells ==
  ASSUME Calls, NEW c \in Caller, Send(c), SettlesWell(c), call[c].request.op # "sign"
  PROVE  Told(call[c].request, call'[c].result.data)
<1> DEFINE r == call[c].request
<1>1. /\ r \in Request /\ IsLast(call[c]) /\ r.op # "sign"
      /\ Handle([type |-> r.op, request |-> r])
  BY SingleIsSent
<1>2. call[c] \in Call /\ call \in [Caller -> Call] /\ call[c].phase = "ready" /\ call[c].next > 0
  BY DEF Calls, Send, CanSend
<1>3. pending' = NoCommand /\ call' = [call EXCEPT ![c] = Settled(call[c], Answer')]
  <2>1. call'[c].phase = "settled"
    BY DEF SettlesWell
  <2>2. pending' = NoCommand
    BY <1>2, <2>1 DEF Send, Call
  <2>3. Receive(call[c], Answer') = Settled(call[c], Answer')
    BY <1>1, <1>2 DEF Receive, Call
  <2>4. QED
    BY <1>2, <2>2, <2>3 DEF Send
<1>4. call'[c].result = Answer'
  BY <1>2, <1>3 DEF Settled, Call
<1>5. Answer'.code = "OK" /\ call'[c].result.data = Answer'.data
  BY <1>4 DEF SettlesWell
<1>6. reply'.sw = "OK"
  BY <1>5 DEF Answer
<1> HIDE DEF r
<1>7. CASE \E confirm \in BOOLEAN : handleGetPubkey(r.key, confirm)
  <2>1. PathError(r.key) # "OK"
    BY DEF PathError
  <2>2. PICK confirm \in BOOLEAN : handleGetPubkey(r.key, confirm)
    BY <1>7
  <2>3. /\ crypto_extractPublicKey(r.key.path, r.key.options) /\ Derives(r.key.options)
        /\ reply' = [to |-> "GET_PUBKEY", sw |-> "OK",
                     data |-> [tag |-> "pubkey", key |-> pubkey_to_display']]
    BY <1>6, <2>1, <2>2 DEF handleGetPubkey, Respond, AwaitUser, Silent
  <2>4. Answer'.data = [tag |-> "pubkey", key |-> PubkeyOf(r)]
    BY <2>3 DEF Answer, crypto_extractPublicKey, PubkeyOf
  <2>5. r.op \notin {"getSlot", "setSlot"}
    <3>1. reply'.to = "GET_PUBKEY"
      BY <2>3
    <3>2. ~handleGetSlot(r.idx)
      BY <3>1 DEF handleGetSlot, Respond
    <3>3. ~handleSetSlot(r.idx, SlotOf(r))
      BY <3>1 DEF handleSetSlot, Respond, AwaitUser, Silent, NoCommand
    <3>4. QED
      BY <1>1, <3>2, <3>3, SingleHandlers
  <2>6. QED
    BY <1>5, <2>4, <2>5 DEF Told, r
<1>8. CASE r.op = "getSlot" /\ handleGetSlot(r.idx)
  <2>1. Store!slot_getSlot(r.idx) /\ ~Store!slot_is_empty(slots[r.idx]) /\ reply'.to = "SLOT_GET"
    BY <1>6, <1>8 DEF handleGetSlot, Respond
  <2>2. Answer'.data = [tag |-> "slot", slot |-> slots[r.idx]]
    BY <1>6, <2>1 DEF Answer, Store!slot_getSlot
  <2>3. QED
    BY <1>5, <1>8, <2>2 DEF Told, r
<1>9. CASE r.op = "setSlot" /\ handleSetSlot(r.idx, SlotOf(r))
  BY <1>6, <1>9 DEF handleSetSlot, Respond, AwaitUser, Silent
<1>10. CASE r.op \in {"getVersion", "appInfo", "slotStatus"}
  BY <1>10 DEF Told, r
<1>11. QED
  BY <1>1, <1>7, <1>8, <1>9, <1>10, SingleHandlers

LEMMA DecisionTells ==
  ASSUME ClientInv, TypeOK, ReviewAnswersCommand, SingleWaiting, Decide,
         NEW c \in Caller, SettlesWell(c), call[c].request.op # "sign"
  PROVE  Told(call[c].request, call'[c].result.data)
<1> DEFINE k == call[c]  r == k.request
<1>1. call \in [Caller -> Call] /\ exchange \in Caller \cup {Nobody}
        /\ \A d \in Caller : call[d].phase = "sent" <=> exchange = d
  BY DEF ClientInv, Calls, ExchangeMatchesDevice
<1>2. exchange = c /\ c # Nobody /\ pending' = NoCommand
        /\ call' = [call EXCEPT ![c] = Receive(k, Answer')]
  BY <1>1, NobodyCalls DEF Decide, SettlesWell, clientVars
<1>3. k \in Call /\ Sound(k) /\ k.phase = "sent" /\ k.next > 0 /\ r \in Request
  BY <1>1, <1>2 DEF ClientInv, Calls, Sound, Live, Call
<1>4. call'[c] = Settled(k, Answer')
  <2>1. call'[c].phase = "settled"
    BY DEF SettlesWell
  <2>2. Receive(k, Answer') = Settled(k, Answer')
    BY <1>1, <1>2, <1>3, <2>1 DEF Receive, Call
  <2>3. QED
    BY <1>1, <1>2, <2>2
<1>5. call'[c].result = Answer'
  BY <1>3, <1>4 DEF Settled, Call
<1>6. reply'.sw = "OK" /\ call'[c].result.data = Answer'.data
  BY <1>5 DEF SettlesWell, Answer
<1>7. h_approve
  BY <1>6 DEF Decide, UserAnswer, h_reject, view_error_show, h_error_accept, Respond, Silent
<1>8. ShowsAddress(r) \/ ShowsSlot(r)
  BY <1>2 DEF SingleWaiting
<1> HIDE DEF r
<1>9. CASE ShowsAddress(r)
  <2>1. reply' = [to |-> pending, sw |-> "OK",
                  data |-> [tag |-> "pubkey", key |-> pubkey_to_display]]
    BY <1>7, <1>9 DEF h_approve, ShowsAddress, ReviewOf, app_reply_address
  <2>2. pending = "GET_PUBKEY"
    BY <1>9 DEF ShowsAddress, ReviewAnswersCommand
  <2>3. Answer'.data = [tag |-> "pubkey", key |-> PubkeyOf(r)]
    BY <1>9, <2>1, <2>2 DEF Answer, ShowsAddress
  <2>4. QED
    BY <1>6, <1>9, <2>3 DEF Told, ShowsAddress, r
<1>10. CASE ShowsSlot(r)
  <2>1. Store!app_slot_setSlot
    BY <1>7, <1>10 DEF h_approve, ShowsSlot, ReviewOf, app_slot_setSlot
  <2>2. slots' = [slots EXCEPT ![r.idx] = SlotOf(r)]
    BY <1>10, <2>1 DEF ShowsSlot, Store!app_slot_setSlot
  <2>3. r.idx \in SlotIdx
    <3>1. Begin(r).phase = "ready"
      BY <1>3 DEF Sound, Live, r
    <3>2. ~IndexRefused(r)
      BY <3>1, SettledCall DEF Begin, Settled, NoCall
    <3>3. QED
      BY <1>10, <3>2 DEF IndexRefused, ShowsSlot
  <2>4. slots'[r.idx] = SlotOf(r)
    BY <2>2, <2>3 DEF TypeOK, Store!TypeOK
  <2>5. QED
    BY <1>10, <2>4 DEF Told, ShowsSlot, SlotOf, r
<1>11. QED
  BY <1>8, <1>9, <1>10

LEMMA EveryCallTells ==
  ASSUME ClientInv, DeviceInv, SingleWaiting, ClientNext, NEW c \in Caller, SettlesWell(c)
  PROVE  Told(call[c].request, call'[c].result.data)
<1> DEFINE k == call[c]
<1>1. SUFFICES ASSUME k.request.op # "sign" PROVE Told(k.request, call'[c].result.data)
  BY DEF Told
<1>2. call \in [Caller -> Call] /\ k \in Call /\ Sound(k)
  BY DEF ClientInv, Calls
<1>3. k.phase # "settled" /\ call'[c].phase = "settled" /\ call'[c].result.code = "OK"
  BY DEF SettlesWell
<1>4. Live(k) => k.next > 0
  BY <1>1, <1>2 DEF Sound, Call
<1>5. TypeOK /\ ReviewAnswersCommand
  BY DEF DeviceInv, IInv, Reviews
<1>6. ASSUME NEW d \in Caller, NEW j, call' = [call EXCEPT ![d] = j]
      PROVE  d = c /\ call'[c] = j
  BY <1>2, <1>3, <1>6
<1>7. ASSUME NEW d \in Caller, NEW r \in Request, Start(d, r) PROVE FALSE
  <2>1. call'[c] = Begin(r)
    BY <1>6, <1>7 DEF Start
  <2>2. Begin(r).result.code # "OK"
    BY FailedResult DEF Begin, Settled, NoCall
  <2>3. QED
    BY <1>3, <2>1, <2>2
<1>8. ASSUME NEW d \in Caller, QueryVersion(d) PROVE FALSE
  <2>1. d = c
    BY <1>2, <1>3, <1>8 DEF QueryVersion
  <2>2. QED
    BY <1>4, <1>8, <2>1 DEF QueryVersion, CanSend, Live
<1>9. ASSUME NEW d \in Caller, Send(d) PROVE Told(k.request, call'[c].result.data)
  <2>1. d = c
    BY <1>2, <1>3, <1>9 DEF Send
  <2>2. QED
    BY <1>1, <1>9, <2>1, SendTells DEF ClientInv
<1>10. ASSUME NEW d \in Caller, SendFails(d) PROVE FALSE
  <2>1. call' = [call EXCEPT ![d] = Receive(call[d], LinkError)] /\ call[d].phase = "ready"
    BY <1>2, <1>10 DEF SendFails
  <2>2. d = c /\ call'[c] = Receive(k, LinkError)
    BY <1>6, <2>1
  <2>3. QED
    BY <1>2, <1>3, <1>4, <2>1, <2>2, LinkNeverSucceeds DEF Live
<1>11. ASSUME NEW d \in Caller, Abandon(d) PROVE FALSE
  <2>1. call'[c] = NoCall
    BY <1>6, <1>11 DEF Abandon
  <2>2. QED
    BY <1>3, <2>1 DEF NoCall
<1>12. ASSUME Disconnect PROVE FALSE
  <2> DEFINE j == [k EXCEPT !.lost = TRUE]
  <2>1. call'[c] = Cut(k)
    BY <1>12 DEF Disconnect
  <2>2. j \in Call /\ j.next = k.next /\ j.phase = k.phase
    BY <1>2 DEF Call
  <2>3. CASE k.phase = "sent"
    <3>1. Cut(k) = Receive(j, LinkError)
      BY <2>3 DEF Cut
    <3> HIDE DEF j
    <3>2. QED
      BY <1>3, <1>4, <2>1, <2>2, <2>3, <3>1, LinkNeverSucceeds DEF Live
  <2>4. CASE k.phase # "sent"
    BY <1>3, <2>1, <2>2, <2>4 DEF Cut
  <2>5. QED
    BY <2>3, <2>4
<1>13. ASSUME Decide PROVE Told(k.request, call'[c].result.data)
  BY <1>1, <1>5, <1>13, DecisionTells
<1>14. ASSUME AtDevice PROVE FALSE
  BY <1>3, <1>14 DEF AtDevice, clientVars
<1>15. QED
  BY <1>7, <1>8, <1>9, <1>10, <1>11, <1>12, <1>13, <1>14 DEF ClientNext, Proceed

(* A key, a slot read and a slot written are those asked for, whatever the *)
(* other callers of the client do at the same time.                        *)
THEOREM SingleCommands == ClientSpec => SingleCommandsHonest
<1> DEFINE Tells(c) ==
      LET r == call[c].request  data == call[c]'.result.data
      IN  /\ r.op \in {"getAddress", "showAddress"} =>
               data = [tag |-> "pubkey", key |-> [path |-> r.key.path,
                                                 curve |-> r.key.options.curve]]
          /\ r.op = "setSlot" =>
               slots'[r.idx] = [account |-> r.account, path |-> r.key.path,
                                options |-> r.key.options]
          /\ r.op = "getSlot" => data = [tag |-> "slot", slot |-> slots[r.idx]]
<1>1. ClientInit => SingleWaiting
  BY DEF ClientInit, SingleWaiting
<1>2. ClientInv /\ DeviceInv /\ SingleWaiting /\ [ClientNext]_allVars => SingleWaiting'
  BY SingleKept DEF DeviceInv, IInv
<1>3. ClientInv /\ DeviceInv /\ SingleWaiting /\ [ClientNext]_allVars
        => [\A c \in Caller : SettlesWell(c) => Tells(c)]_allVars
  <2>1. SUFFICES ASSUME ClientInv, DeviceInv, SingleWaiting, ClientNext,
                        NEW c \in Caller, SettlesWell(c)
                 PROVE  Tells(c)
    OBVIOUS
  <2>2. Told(call[c].request, call'[c].result.data)
    BY <2>1, EveryCallTells
  <2>3. QED
    BY <2>2 DEF Told, PubkeyOf
<1>4. QED
  BY <1>1, <1>2, <1>3, ClientInvariant, PTL DEF ClientSpec, SingleCommandsHonest

-----------------------------------------------------------------------------
(* One caller at a time.                                                   *)
(* The first n pieces of a message.                                        *)
UpTo(message, n) ==
  SubSeq(message, 1, IF n * ChunkSize < Len(message) THEN n * ChunkSize ELSE Len(message))

PieceTotal(message) == (Len(message) + ChunkSize - 1) \div ChunkSize

LEMMA Rounding ==
  ASSUME NEW l \in Nat, NEW m \in Nat \ {0}
  PROVE  LET n == (l + m - 1) \div m
         IN  /\ n \in Nat
             /\ n * m >= l
             /\ \A i \in 1..n : (i - 1) * m < l
             /\ l = 0 <=> n = 0
<1> DEFINE n == (l + m - 1) \div m
<1>1. n \in Nat
  OBVIOUS
<1>2. n * m <= l + m - 1 /\ l + m - 1 < n * m + m
  OBVIOUS
<1> HIDE DEF n
<1>3. \A i \in 1..n : (i - 1) * m <= (n - 1) * m
  <2> TAKE i \in 1..n
  <2>1. n - i \in Nat /\ (n - i) * m >= 0
    BY <1>1
  <2>2. (n - 1) * m = (n - i) * m + (i - 1) * m
    BY <1>1
  <2>3. QED
    BY <1>1, <2>1, <2>2
<1>4. (n - 1) * m = n * m - m
  BY <1>1
<1>5. n * m \in Nat /\ n # 0 => n * m >= m
  BY <1>1
<1>6. QED
  BY <1>1, <1>2, <1>3, <1>4, <1>5 DEF n

LEMMA UpToTotal ==
  ASSUME NEW message \in Seq(Piece)
  PROVE  LET n == PieceTotal(message)
         IN  /\ n \in Nat
             /\ Pieces(message) = 1..n
             /\ n = 0 <=> message = <<>>
             /\ UpTo(message, 0) = <<>>
             /\ \A i \in Nat : i >= n => UpTo(message, i) = message
             /\ \A i \in 1..n : UpTo(message, i - 1) \o Piecewise(message)[i] = UpTo(message, i)
<1> DEFINE n == PieceTotal(message)  l == Len(message)
           To(i) == IF i * ChunkSize < l THEN i * ChunkSize ELSE l
<1>1. l \in Nat /\ ChunkSize \in Nat \ {0}
  BY Constants
<1>2. /\ n \in Nat
      /\ n * ChunkSize >= l
      /\ \A i \in 1..n : (i - 1) * ChunkSize < l
      /\ l = 0 <=> n = 0
  BY <1>1, Rounding DEF PieceTotal
<1>3. Pieces(message) = 1..n
  BY DEF Pieces, PieceTotal
<1>4. l = 0 <=> message = <<>>
  OBVIOUS
<1>5. UpTo(message, 0) = <<>>
  <2>1. To(0) = 0
    BY <1>1
  <2>2. UpTo(message, 0) = SubSeq(message, 1, To(0))
    BY DEF UpTo
  <2>3. QED
    BY <2>1, <2>2, SubSeqEmpty
<1>6. ASSUME NEW i \in Nat, i >= n PROVE UpTo(message, i) = message
  <2>1. i * ChunkSize >= l
    <3>1. (i - n) * ChunkSize >= 0
      BY <1>1, <1>2, <1>6
    <3>2. i * ChunkSize = (i - n) * ChunkSize + n * ChunkSize
      BY <1>1, <1>2
    <3>3. (i - n) * ChunkSize \in Int /\ n * ChunkSize \in Int
      BY <1>1, <1>2
    <3>4. QED
      BY <1>1, <1>2, <3>1, <3>2, <3>3
  <2>2. i * ChunkSize \in Int
    BY <1>1
  <2>3. UpTo(message, i) = SubSeq(message, 1, l)
    BY <1>1, <2>1, <2>2 DEF UpTo
  <2>4. QED
    BY <2>3, SubSeqFull
<1>7. ASSUME NEW i \in 1..n
      PROVE  UpTo(message, i - 1) \o Piecewise(message)[i] = UpTo(message, i)
  <2> DEFINE k == (i - 1) * ChunkSize
  <2>1. k \in Nat /\ k < l /\ i * ChunkSize = k + ChunkSize
    BY <1>1, <1>2
  <2>2. To(i) \in k..l
    BY <1>1, <2>1
  <2>3. UpTo(message, i - 1) = SubSeq(message, 1, k)
    BY <2>1 DEF UpTo
  <2>4. Piecewise(message)[i] = SubSeq(message, k + 1, To(i))
    BY <1>3 DEF Piecewise
  <2>5. UpTo(message, i) = SubSeq(message, 1, To(i))
    BY DEF UpTo
  <2> HIDE DEF k, To
  <2>6. k \in 1 - 1 .. Len(message) /\ To(i) \in k .. Len(message) /\ 1 \in 1 .. Len(message) + 1
    BY <1>1, <2>1, <2>2
  <2>7. SubSeq(message, 1, k) \o SubSeq(message, k + 1, To(i)) = SubSeq(message, 1, To(i))
    BY <2>6, ConcatAdjacentSubSeq
  <2>8. QED
    BY <2>3, <2>4, <2>5, <2>7
<1>8. QED
  BY <1>2, <1>3, <1>4, <1>5, <1>6, <1>7

(* What a sign call sends, command by command.                             *)
Basic(r, n) ==
  /\ Len(prepareBasicChunks(r.key, r.message)) = n + 1
  /\ prepareBasicChunks(r.key, r.message)[1] = [type |-> "INIT", key |-> r.key]
  /\ \A i \in 2..n + 1 : prepareBasicChunks(r.key, r.message)[i]
                           = [type |-> "ADD", data |-> Piecewise(r.message)[i - 1]]

LEMMA BasicCommands ==
  ASSUME NEW r \in SignRequest
  PROVE  Basic(r, PieceTotal(r.message))
<1> DEFINE n == PieceTotal(r.message)
           head == <<[type |-> "INIT", key |-> r.key]>>
           tail == [i \in 1..n |-> [type |-> "ADD", data |-> Piecewise(r.message)[i]]]
           T == {head[1]} \cup {tail[i] : i \in 1..n}
<1>1. n \in Nat /\ Pieces(r.message) = 1..n
  BY UpToTotal DEF SignRequest
<1> HIDE DEF n
<1>2. head \in Seq(T) /\ Len(head) = 1 /\ tail \in Seq(T) /\ Len(tail) = n
  BY <1>1
<1>3. prepareBasicChunks(r.key, r.message) = head \o tail
  BY <1>1 DEF prepareBasicChunks
<1>4. /\ Len(head \o tail) = 1 + n
      /\ \A i \in 1..1 + n :
           (head \o tail)[i] = IF i <= 1 THEN head[i] ELSE tail[i - 1]
  <2> HIDE DEF head, tail, T
  <2>1. /\ Len(head \o tail) = Len(head) + Len(tail)
        /\ \A i \in 1..Len(head) + Len(tail) :
             (head \o tail)[i] = IF i <= Len(head) THEN head[i] ELSE tail[i - Len(head)]
    BY <1>2, ConcatProperties
  <2>2. QED
    BY <1>2, <2>1
<1>5. \A i \in 2..n + 1 : tail[i - 1] = [type |-> "ADD", data |-> Piecewise(r.message)[i - 1]]
  BY <1>1
<1>6. head[1] = [type |-> "INIT", key |-> r.key]
  OBVIOUS
<1>7. (head \o tail)[1] = head[1]
  BY <1>1, <1>4
<1>8. \A i \in 2..n + 1 : (head \o tail)[i] = tail[i - 1]
  BY <1>1, <1>4
<1> HIDE DEF head, tail
<1>9. Len(head \o tail) = n + 1
  BY <1>1, <1>4
<1>10. \A i \in 2..n + 1 :
         (head \o tail)[i] = [type |-> "ADD", data |-> Piecewise(r.message)[i - 1]]
  BY <1>5, <1>8
<1>11. Basic(r, n)
  BY Zenon, <1>3, <1>6, <1>7, <1>9, <1>10 DEF Basic
<1>12. QED
  BY <1>11 DEF n

(* A message, or a transaction sent without a packet.                      *)
Plain(r) == r.extra \in {"Sign message", "arbitrary"}

(* The i-th command of a sign call, by its type.                           *)
Opens(r, i)     == i = 1 /\ Commands(r)[i] = [type |-> "INIT", key |-> r.key]
Adds(r, i)      == /\ i \in 2..PieceTotal(r.message) + 1
                   /\ Commands(r)[i] = [type |-> "ADD", data |-> Piecewise(r.message)[i - 1]]
Closes(r, i)    == /\ i = PieceTotal(r.message) + 1 /\ i > 1
                   /\ Plain(r)
                   /\ Commands(r)[i] = [type |-> LastType(r),
                                        data |-> Piecewise(r.message)[i - 1]]
Empty(r, i)     == /\ r.message = <<>> /\ i = 1
                   /\ Plain(r)
                   /\ Commands(r)[i] = [type |-> LastType(r), data |-> <<PathBytes>>]
Describes(r, i) == /\ i = PieceTotal(r.message) + 2
                   /\ r.extra \in DOMAIN merkleIndex
                   /\ Commands(r)[i] = [type |-> "TX_METADATA",
                                        payload |-> merkleIndex[r.extra][1]]
Proves(r, i)    == /\ i > PieceTotal(r.message) + 2
                   /\ r.extra \in DOMAIN merkleIndex
                   /\ Commands(r)[i].type \in {"MERKLE_TREE", "MERKLE_TREE_LAST"}

LEMMA EndedCommandAt ==
  ASSUME NEW r \in SignRequest, r.op = "sign", Plain(r),
         Commands(r) = EndWith(prepareBasicChunks(r.key, r.message), LastType(r)),
         NEW i \in 1..Len(Commands(r))
  PROVE  Opens(r, i) \/ Adds(r, i) \/ Closes(r, i) \/ Empty(r, i)
<1> DEFINE n == PieceTotal(r.message)
           basic == prepareBasicChunks(r.key, r.message)
           end == [type |-> LastType(r),
                   data |-> IF basic[n + 1].type = "INIT" THEN <<PathBytes>>
                            ELSE basic[n + 1].data]
<1>0. /\ Len(basic) = n + 1
      /\ basic[1] = [type |-> "INIT", key |-> r.key]
  BY BasicCommands DEF Basic
<1>1. \A j \in 2..n + 1 : basic[j] = [type |-> "ADD", data |-> Piecewise(r.message)[j - 1]]
  BY BasicCommands DEF Basic
<1>2. n \in Nat /\ (n = 0 <=> r.message = <<>>)
  BY UpToTotal DEF SignRequest
<1>3. basic \in Seq(Middle)
  BY BasicChunks DEF SignRequest
<1> HIDE DEF n, basic
<1>4. Commands(r) = [basic EXCEPT ![n + 1] = end]
  BY <1>0 DEF EndWith, basic
<1> HIDE DEF end
<1>5. DOMAIN basic = 1..n + 1
  BY <1>0, <1>3
<1>6. i \in 1..n + 1
  <2>1. Len(Commands(r)) = n + 1
    BY <1>2, <1>4, <1>5
  <2>2. QED
    BY <2>1
<1>7. Commands(r)[i] = IF i = n + 1 THEN end ELSE basic[i]
  BY <1>4, <1>5, <1>6
<1>8. CASE i # n + 1 /\ i = 1
  BY <1>0, <1>7, <1>8 DEF Opens
<1>9. CASE i # n + 1 /\ i # 1
  BY <1>1, <1>2, <1>6, <1>7, <1>9 DEF Adds, n
<1>10. CASE i = n + 1 /\ i = 1
  <2>1. r.message = <<>> /\ basic[n + 1].type = "INIT"
    BY <1>0, <1>2, <1>10
  <2>2. QED
    BY <1>7, <1>10, <2>1 DEF Empty, end
<1>11. CASE i = n + 1 /\ i # 1
  <2>1. basic[n + 1] = [type |-> "ADD", data |-> Piecewise(r.message)[i - 1]]
    BY <1>1, <1>2, <1>6, <1>11
  <2>2. i > 1
    BY <1>2, <1>6, <1>11
  <2>3. QED
    BY <1>7, <1>11, <2>1, <2>2 DEF Closes, end, n
<1>12. QED
  BY <1>8, <1>9, <1>10, <1>11

LEMMA ListedCommandAt ==
  ASSUME NEW r \in SignRequest, r.op = "sign", r.extra \in DOMAIN merkleIndex,
         Commands(r) = prepareBasicChunks(r.key, r.message) \o MetadataChunks(r.extra),
         NEW i \in 1..Len(Commands(r))
  PROVE  Opens(r, i) \/ Adds(r, i) \/ Describes(r, i) \/ Proves(r, i)
<1> DEFINE n == PieceTotal(r.message)
           basic == prepareBasicChunks(r.key, r.message)
           proof == merkleIndex[r.extra]
           m == Len(proof)
           back == MetadataChunks(r.extra)
<1>1. /\ Len(basic) = n + 1
      /\ basic[1] = [type |-> "INIT", key |-> r.key]
      /\ \A j \in 2..n + 1 : basic[j] = [type |-> "ADD", data |-> Piecewise(r.message)[j - 1]]
  BY BasicCommands DEF Basic
<1>2. n \in Nat
  BY UpToTotal DEF SignRequest
<1>3. basic \in Seq(Middle \cup Final)
  <2>1. basic \in Seq(Middle)
    BY BasicChunks DEF SignRequest
  <2> HIDE DEF basic
  <2>2. QED
    BY <2>1
<1>4. proof \in Seq(Payload) /\ m \in Nat /\ m > 1
  BY Constants
<1>5. back \in Seq(Middle \cup Final)
  BY ProofChunks DEF EndsOnly
<1>6. back = [j \in 1..m |-> [type |-> CASE j = 1 -> "TX_METADATA"
                                         [] j = m -> "MERKLE_TREE_LAST"
                                         [] OTHER -> "MERKLE_TREE",
                              payload |-> proof[j]]]
  BY DEF MetadataChunks
<1>7. Len(back) = m
  BY <1>4, <1>6
<1>8. back[1] = [type |-> "TX_METADATA", payload |-> proof[1]]
  BY <1>4, <1>6
<1>9. \A j \in 2..m : back[j].type \in {"MERKLE_TREE", "MERKLE_TREE_LAST"}
  BY <1>4, <1>6
<1> HIDE DEF n, basic, proof, m, back
<1>10. /\ Len(basic \o back) = Len(basic) + Len(back)
       /\ \A j \in 1..Len(basic) + Len(back) :
            (basic \o back)[j] = IF j <= Len(basic) THEN basic[j] ELSE back[j - Len(basic)]
  BY <1>3, <1>5, ConcatProperties
<1>11. Commands(r) = basic \o back
  BY DEF basic, back
<1>12. i \in 1..n + 1 + m /\ Commands(r)[i] = IF i <= n + 1 THEN basic[i] ELSE back[i - (n + 1)]
  BY <1>1, <1>2, <1>4, <1>7, <1>10, <1>11
<1>13. CASE i = 1
  BY <1>1, <1>2, <1>12, <1>13 DEF Opens
<1>14. CASE i \in 2..n + 1
  <2>1. i <= n + 1
    BY <1>14
  <2>2. Commands(r)[i] = basic[i]
    BY <1>12, <2>1
  <2>3. QED
    BY <1>1, <1>14, <2>2 DEF Adds, n
<1>15. CASE i = n + 2
  <2>0. i - (n + 1) = 1 /\ ~ (i <= n + 1)
    BY <1>2, <1>15
  <2>1. Commands(r)[i] = back[1]
    BY <1>12, <2>0
  <2>2. QED
    BY <1>8, <1>15, <2>1 DEF Describes, n, proof
<1>16. CASE i > n + 2
  <2>1. i - (n + 1) \in 2..m /\ Commands(r)[i] = back[i - (n + 1)]
    BY <1>2, <1>4, <1>12, <1>16
  <2>2. QED
    BY <1>9, <1>16, <2>1 DEF Proves, n
<1>17. QED
  BY <1>2, <1>12, <1>13, <1>14, <1>15, <1>16

LEMMA CommandAt ==
  ASSUME NEW r \in Request, r.op = "sign", Sendable(r), signGetChunks(r) # <<>>,
         NEW i \in 1..Len(Commands(r))
  PROVE  \/ Opens(r, i) \/ Adds(r, i) \/ Closes(r, i)
         \/ Empty(r, i) \/ Describes(r, i) \/ Proves(r, i)
<1>1. r \in SignRequest
  BY SignType
<1>2. Commands(r) = signGetChunks(r)
  BY DEF Commands
<1>3. "Sign message" \notin ScriptHash /\ "arbitrary" \notin ScriptHash
  BY ZenonT(20), ClientAssumption
<1>4. CASE Plain(r)
  <2>1. Commands(r) = EndWith(prepareBasicChunks(r.key, r.message), LastType(r))
    BY <1>2, <1>4 DEF signGetChunks, LastType, Plain
  <2>2. QED
    BY <1>1, <1>4, <2>1, EndedCommandAt
<1>5. CASE r.extra \in ScriptHash
  <2>1. r.extra \in DOMAIN merkleIndex
    BY <1>3, <1>5 DEF signGetChunks
  <2>2. Commands(r) = prepareBasicChunks(r.key, r.message) \o MetadataChunks(r.extra)
    BY <1>2, <1>3, <1>5, <2>1 DEF signGetChunks
  <2>3. QED
    BY <1>1, <2>1, <2>2, ListedCommandAt
<1>6. r.extra # Missing
  BY DEF Sendable
<1>7. QED
  BY <1>1, <1>4, <1>5, <1>6 DEF SignRequest, Plain

(* What the device holds when the first commands of a sign call, and no    *)
(* other ones, have been accepted.                                         *)
KeyLoaded(r) == [path |-> hdPath, options |-> cryptoOptions] \in {KeyOf(r), MainKey}

Delivered(r, done) ==
  /\ KeyLoaded(r)
  /\ txBuffer = UpTo(r.message, done - 1)
  /\ done > PieceTotal(r.message) + 1 => metadata = merkleIndex[r.extra][1]

(* The device has accepted the command, or opened its review.              *)
Taken == reply'.sw = "OK" \/ pending' # NoCommand

LEMMA OpeningDelivered ==
  ASSUME NEW r \in SignRequest, SignInit(r.key), Taken
  PROVE  Delivered(r, 1)' /\ UNCHANGED slots
<1>1. /\ pending' = NoCommand /\ txBuffer' = <<>> /\ slots' = slots
      /\ extractHDPathAndCryptoOptions(r.key)
  BY DEF SignInit, NotFinished, uiVars, flashVars
<1>2. PathAccepted(r.key)
  <2>1. PathError(r.key) # "OK"
    BY DEF PathError
  <2>2. QED
    BY <1>1, <2>1 DEF SignInit, Respond, Taken
<1>3. hdPath' = r.key.path /\ cryptoOptions' = r.key.options
  BY <1>1, <1>2 DEF extractHDPathAndCryptoOptions, PathAccepted
<1>4. KeyLoaded(r)'
  BY <1>3 DEF KeyLoaded, KeyOf
<1>5. PieceTotal(r.message) \in Nat /\ UpTo(r.message, 0) = <<>>
  BY UpToTotal DEF SignRequest
<1>6. txBuffer' = UpTo(r.message, 1 - 1)
  BY <1>1, <1>5
<1>7. ~ (1 > PieceTotal(r.message) + 1)
  BY <1>5
<1>8. QED
  BY <1>1, <1>4, <1>6, <1>7 DEF Delivered

LEMMA KeyStays ==
  ASSUME NEW r, KeyLoaded(r), UNCHANGED <<hdPath, cryptoOptions, slots>>
  PROVE  KeyLoaded(r)'
BY DEF KeyLoaded, MainKey

LEMMA PieceDelivered ==
  ASSUME NEW r \in SignRequest, NEW i \in 2..PieceTotal(r.message) + 1, Delivered(r, i - 1),
         txBuffer' = txBuffer \o Piecewise(r.message)[i - 1],
         UNCHANGED <<hdPath, cryptoOptions, slots>>
  PROVE  Delivered(r, i)'
<1> DEFINE n == PieceTotal(r.message)
<1>1. n \in Nat
  BY UpToTotal DEF SignRequest
<1>2. \A j \in 1..n :
        UpTo(r.message, j - 1) \o Piecewise(r.message)[j] = UpTo(r.message, j)
  BY UpToTotal DEF SignRequest
<1>3. txBuffer = UpTo(r.message, (i - 1) - 1)
  BY DEF Delivered
<1> HIDE DEF n
<1>4. i \in 2..n + 1
  BY DEF n
<1>5. i - 1 \in 1..n /\ ~ (i > n + 1)
  BY <1>1, <1>4
<1>6. txBuffer' = UpTo(r.message, i - 1)
  BY <1>2, <1>3, <1>5
<1>7. KeyLoaded(r)'
  BY KeyStays DEF Delivered
<1>8. QED
  BY <1>5, <1>6, <1>7 DEF Delivered, n

LEMMA RefusedChunk ==
  ASSUME NEW data, pending = NoCommand, TxChunkRefused(data)
  PROVE  ~Taken
BY DEF TxChunkRefused, Taken, Respond, NotFinished, uiVars

LEMMA ChunkAppended ==
  ASSUME NEW data, SignAdd(data) \/ SignLast(data) \/ SignMessage(data), Taken
  PROVE  /\ txBuffer' = txBuffer \o data
         /\ UNCHANGED <<hdPath, cryptoOptions, slots>>
<1>1. pending = NoCommand
  BY DEF SignAdd, SignLast, SignMessage
<1>2. ~TxChunkRefused(data)
  BY <1>1, RefusedChunk
<1>3. QED
  BY <1>2 DEF SignAdd, SignLast, SignMessage, flashVars, keyVars

LEMMA PacketDelivered ==
  ASSUME NEW r \in SignRequest, NEW i, i = PieceTotal(r.message) + 2, Delivered(r, i - 1),
         SignMetadata(merkleIndex[r.extra][1]), Taken
  PROVE  Delivered(r, i)' /\ UNCHANGED slots
<1> DEFINE p == merkleIndex[r.extra][1]  n == PieceTotal(r.message)
<1>1. /\ pending = NoCommand /\ pending' = pending
      /\ UNCHANGED <<hdPath, cryptoOptions, slots, txBuffer>>
      /\ Respond("METADATA", IF Meta!Storable(p) THEN "OK" ELSE "DATA_INVALID")
      /\ Meta!MetadataChunk(p)
  BY DEF SignMetadata, NotFinished, uiVars, flashVars, keyVars
<1>2. Meta!Storable(p)
  BY <1>1 DEF Respond, Taken
<1>3. metadata' = p
  BY <1>1, <1>2 DEF Meta!MetadataChunk, Meta!storeTxMetadata
<1>4. KeyLoaded(r)'
  BY <1>1, KeyStays DEF Delivered
<1>5. n \in Nat /\ \A j \in Nat : j >= n => UpTo(r.message, j) = r.message
  BY UpToTotal DEF SignRequest
<1>6. txBuffer = UpTo(r.message, (i - 1) - 1)
  BY DEF Delivered
<1>7. i = n + 2
  OBVIOUS
<1> HIDE DEF n
<1>8. (i - 1) - 1 = n /\ i - 1 = n + 1
  BY <1>5, <1>7
<1>9. txBuffer' = UpTo(r.message, i - 1)
  BY <1>1, <1>5, <1>6, <1>8
<1>10. QED
  BY <1>1, <1>3, <1>4, <1>9 DEF Delivered

LEMMA ProofDelivered ==
  ASSUME NEW r \in SignRequest, NEW i \in Nat, i > PieceTotal(r.message) + 2,
         Delivered(r, i - 1), NEW p, NEW last, SignProof(p, last), Taken
  PROVE  Delivered(r, i)' /\ UNCHANGED slots
<1> DEFINE n == PieceTotal(r.message)
<1>1. pending = NoCommand /\ UNCHANGED <<hdPath, cryptoOptions, slots, txBuffer>>
  BY DEF SignProof, flashVars, keyVars
<1>2. ~RefuseProof
  BY <1>1 DEF RefuseProof, Taken, Respond, NotFinished, uiVars
<1>3. metadata' = metadata
  BY <1>2 DEF SignProof, Meta!validateStoredTxMetadataMerkleTreeLevel
<1>4. KeyLoaded(r)'
  BY <1>1, KeyStays DEF Delivered
<1>5. n \in Nat /\ \A j \in Nat : j >= n => UpTo(r.message, j) = r.message
  BY UpToTotal DEF SignRequest
<1>6. /\ txBuffer = UpTo(r.message, (i - 1) - 1)
      /\ i - 1 > n + 1 => metadata = merkleIndex[r.extra][1]
  BY DEF Delivered
<1>7. i > n + 2
  OBVIOUS
<1> HIDE DEF n
<1>8. i - 1 > n + 1 /\ (i - 1) - 1 \in Nat /\ (i - 1) - 1 >= n /\ i - 1 \in Nat /\ i - 1 >= n
  BY <1>5, <1>7
<1>9. UpTo(r.message, i - 1) = UpTo(r.message, (i - 1) - 1)
  BY <1>5, <1>8
<1>10. QED
  BY <1>1, <1>3, <1>4, <1>6, <1>8, <1>9 DEF Delivered

LEMMA ReviewParses ==
  ASSUME NEW withMetadata \in BOOLEAN, pending = NoCommand, ReviewTx(withMetadata), Taken
  PROVE  /\ txBuffer' \in Tx
         /\ metadataInitialized' = withMetadata
<1>1. tx_parse(withMetadata)'
  <2>1. SUFFICES ASSUME ~tx_parse(withMetadata)' PROVE FALSE
    OBVIOUS
  <2>2. Respond("SIGN", "DATA_INVALID") /\ pending' = pending
    BY <2>1 DEF ReviewTx, uiVars
  <2>3. QED
    BY <2>2 DEF Respond, Taken
<1>2. txBuffer' \in Tx /\ SourceOK(withMetadata)'
  BY <1>1 DEF tx_parse
<1>3. metadataInitialized' = UsesPacket(withMetadata)'
  BY <1>2 DEF ReviewTx, SetMetadataInitialized
<1>4. QED
  BY <1>2, <1>3 DEF UsesPacket

(* Of an empty message the device holds no part, and what it is sent opens *)
(* no review.                                                              *)
LEMMA EmptyIsRefused ==
  ASSUME NEW r \in Request, r.op = "sign", r.message = <<>>, Plain(r), PathIsNoContent,
         txBuffer \in Seq(Piece),
         Handle([type |-> LastType(r), data |-> <<PathBytes>>])
  PROVE  ~Taken
<1> DEFINE data == <<PathBytes>>  command == [type |-> LastType(r), data |-> data]
<1>1. data \in Seq(Piece) /\ Len(data) = 1 /\ data[1] = PathBytes
  BY Constants
<1> HIDE DEF data
<1>2. Len(txBuffer) \in Nat /\ Len(txBuffer \o data) = Len(txBuffer) + 1
        /\ (txBuffer \o data)[Len(txBuffer) + 1] = PathBytes
  <2>1. /\ Len(txBuffer \o data) = Len(txBuffer) + Len(data)
        /\ \A i \in 1..Len(txBuffer) + Len(data) :
             (txBuffer \o data)[i] = IF i <= Len(txBuffer) THEN txBuffer[i]
                                     ELSE data[i - Len(txBuffer)]
    BY <1>1, ConcatProperties
  <2>2. Len(txBuffer) \in Nat
    OBVIOUS
  <2>3. Len(txBuffer) + 1 - Len(txBuffer) = 1
    BY <2>2
  <2>4. Len(txBuffer) + 1 \in 1..Len(txBuffer) + Len(data) /\ ~ (Len(txBuffer) + 1 <= Len(txBuffer))
    BY <1>1, <2>2
  <2>5. QED
    BY <1>1, <2>1, <2>2, <2>3, <2>4
<1>3. txBuffer \o data # <<>>
  BY <1>2
<1>4. command.type = LastType(r) /\ command.data = data
  OBVIOUS
<1>5. r.extra = "arbitrary" => LastType(r) = "LAST"
  BY DEF LastType
<1>6. r.extra # "arbitrary" => LastType(r) = "MESSAGE_LAST"
  BY DEF LastType, Plain
<1>7. Handle(command)
  BY DEF data
<1> HIDE DEF command
<1>8. SUFFICES ASSUME Taken PROVE FALSE
  OBVIOUS
<1>9. CASE r.extra = "arbitrary"
  <2>1. SignLast(data)
    BY <1>4, <1>5, <1>7, <1>9 DEF Handle
  <2>2. txBuffer' = txBuffer \o data /\ pending = NoCommand /\ ReviewTx(FALSE)
    BY <1>8, <2>1, ChunkAppended, RefusedChunk DEF SignLast
  <2>3. pending' # NoCommand \/ reply'.sw = "OK"
    BY <1>8 DEF Taken
  <2>4. txBuffer' \in Tx
    BY <1>8, <2>2, ReviewParses
  <2>5. txBuffer \o data \in Tx
    BY <2>2, <2>4
  <2>6. (txBuffer \o data)[Len(txBuffer \o data)] # PathBytes
    BY <1>3, <1>9, <2>5 DEF PathIsNoContent
  <2>7. QED
    BY <1>2, <2>6
<1>10. CASE r.extra # "arbitrary"
  <2>1. SignMessage(data)
    BY <1>4, <1>6, <1>7, <1>10 DEF Handle
  <2>2. txBuffer' = txBuffer \o data /\ pending = NoCommand
    BY <1>8, <2>1, ChunkAppended DEF SignMessage
  <2>3. message_parse(txBuffer')
    BY <1>8, <2>1, <2>2, RefusedChunk DEF SignMessage, Respond, uiVars, Taken
  <2>4. \A j \in 1..Len(txBuffer \o data) : (txBuffer \o data)[j] \in Printable
    BY <2>2, <2>3 DEF message_parse
  <2>5. Len(txBuffer) + 1 \in 1..Len(txBuffer \o data)
    BY <1>2
  <2>6. QED
    BY <1>2, <2>4, <2>5 DEF PathIsNoContent
<1>11. QED
  BY <1>9, <1>10

(* One command of a sign call.                                             *)
LEMMA CommandDelivered ==
  ASSUME NEW r \in Request, r.op = "sign", Sendable(r), signGetChunks(r) # <<>>,
         PathIsNoContent, txBuffer \in Seq(Piece),
         NEW i \in 1..Len(Commands(r)), i > 1 => Delivered(r, i - 1),
         Handle(Commands(r)[i]), Taken
  PROVE  Delivered(r, i)' /\ UNCHANGED slots
<1> DEFINE command == Commands(r)[i]
<1>1. r \in SignRequest /\ PieceTotal(r.message) \in Nat /\ i \in Nat
  <2>1. r \in SignRequest
    BY SignType
  <2>2. PieceTotal(r.message) \in Nat
    BY <2>1, UpToTotal DEF SignRequest
  <2>3. Len(Commands(r)) \in Nat
    BY CommandCount DEF Commands
  <2>4. QED
    BY <2>1, <2>2, <2>3
<1>2. Handle(command)
  OBVIOUS
<1>3. \/ Opens(r, i) \/ Adds(r, i) \/ Closes(r, i)
      \/ Empty(r, i) \/ Describes(r, i) \/ Proves(r, i)
  BY CommandAt
<1>4. CASE Opens(r, i)
  <2>1. i = 1 /\ command.type = "INIT" /\ command.key = r.key
    BY <1>4 DEF Opens
  <2> HIDE DEF command
  <2>2. SignInit(r.key)
    BY <1>2, <2>1 DEF Handle
  <2>3. QED
    BY <1>1, <2>1, <2>2, OpeningDelivered
<1>5. CASE Adds(r, i)
  <2>1. i \in 2..PieceTotal(r.message) + 1
          /\ command.type = "ADD" /\ command.data = Piecewise(r.message)[i - 1]
    BY <1>5 DEF Adds
  <2> HIDE DEF command
  <2>2. SignAdd(Piecewise(r.message)[i - 1])
    BY <1>2, <2>1 DEF Handle
  <2>3. i > 1
    BY <1>1, <2>1
  <2>4. QED
    BY <1>1, <2>1, <2>2, <2>3, ChunkAppended, PieceDelivered
<1>6. CASE Closes(r, i)
  <2>1. i = PieceTotal(r.message) + 1 /\ i > 1
          /\ command.type = LastType(r) /\ command.data = Piecewise(r.message)[i - 1]
    BY <1>6 DEF Closes
  <2>2. LastType(r) \in {"LAST", "MESSAGE_LAST"}
    BY <1>6 DEF Closes, Plain, LastType
  <2> HIDE DEF command
  <2>3. \/ SignLast(Piecewise(r.message)[i - 1])
        \/ SignMessage(Piecewise(r.message)[i - 1])
    BY <1>2, <2>1, <2>2 DEF Handle
  <2>4. i \in 2..PieceTotal(r.message) + 1
    BY <1>1, <2>1
  <2>5. QED
    BY <1>1, <2>1, <2>3, <2>4, ChunkAppended, PieceDelivered
<1>7. CASE Empty(r, i)
  BY <1>7, EmptyIsRefused DEF Empty
<1>8. CASE Describes(r, i)
  <2>1. i = PieceTotal(r.message) + 2
          /\ command.type = "TX_METADATA" /\ command.payload = merkleIndex[r.extra][1]
    BY <1>8 DEF Describes
  <2> HIDE DEF command
  <2>2. SignMetadata(merkleIndex[r.extra][1])
    BY <1>2, <2>1 DEF Handle
  <2>3. i > 1
    BY <1>1, <2>1
  <2>4. QED
    BY <1>1, <2>1, <2>2, <2>3, PacketDelivered
<1>9. CASE Proves(r, i)
  <2>1. i > PieceTotal(r.message) + 2
          /\ command.type \in {"MERKLE_TREE", "MERKLE_TREE_LAST"}
    BY <1>9 DEF Proves
  <2> HIDE DEF command
  <2>2. PICK p, last : SignProof(p, last)
    BY <1>2, <2>1 DEF Handle
  <2>3. i > 1
    BY <1>1, <2>1
  <2>4. QED
    BY <1>1, <2>1, <2>2, <2>3, ProofDelivered
<1>10. QED
  BY <1>3, <1>4, <1>5, <1>6, <1>7, <1>8, <1>9

(* What the user reads while a sign call waits.                            *)
Shown(r) ==
  /\ KeyLoaded(r)
  /\ txBuffer = r.message
  /\ view.accept = (IF IsMessage(r) THEN "app_sign_message" ELSE "app_sign")
  /\ ~IsMessage(r) => metadataInitialized = (r.extra \in ScriptHash)
  /\ r.extra \in ScriptHash => metadata = merkleIndex[r.extra][1]

LEMMA CommandShown ==
  ASSUME NEW r \in Request, r.op = "sign", Sendable(r), signGetChunks(r) # <<>>,
         PathIsNoContent, txBuffer \in Seq(Piece),
         NEW i \in 1..Len(Commands(r)), i > 1 => Delivered(r, i - 1), i = Len(Commands(r)),
         Handle(Commands(r)[i]), pending = NoCommand, pending' # NoCommand,
         view'.accept = Callback(LastType(r))
  PROVE  Shown(r)'
<1> DEFINE command == Commands(r)[i]
<1>1. r \in SignRequest
  BY SignType
<1>2. PieceTotal(r.message) \in Nat /\ i \in Nat
        /\ \A j \in Nat : j >= PieceTotal(r.message) => UpTo(r.message, j) = r.message
  <2>1. /\ PieceTotal(r.message) \in Nat
        /\ \A j \in Nat : j >= PieceTotal(r.message) => UpTo(r.message, j) = r.message
    BY <1>1, UpToTotal DEF SignRequest
  <2>2. Len(Commands(r)) \in Nat
    BY CommandCount DEF Commands
  <2>3. QED
    BY <2>1, <2>2
<1>3. Taken
  BY DEF Taken
<1>4. Delivered(r, i)'
  BY <1>3, CommandDelivered
<1>5. EndsOnly(Commands(r), LastType(r))
  BY SignCommands DEF Commands
<1>6. command \in Final /\ command.type = LastType(r)
  BY <1>5 DEF EndsOnly
<1>7. \/ Opens(r, i) \/ Adds(r, i) \/ Closes(r, i)
      \/ Empty(r, i) \/ Describes(r, i) \/ Proves(r, i)
  BY CommandAt
<1>8. LastType(r) \in {"LAST", "MESSAGE_LAST", "MERKLE_TREE_LAST"}
  BY DEF LastType
<1>9. (IsMessage(r) <=> LastType(r) = "MESSAGE_LAST") /\ ~(IsMessage(r) /\ r.extra \in ScriptHash)
  <2>1. "Sign message" \notin ScriptHash
    BY ZenonT(20), ClientAssumption
  <2>2. QED
    BY <2>1 DEF IsMessage, LastType
<1>10. view'.accept = (IF IsMessage(r) THEN "app_sign_message" ELSE "app_sign")
  BY <1>9 DEF Callback
<1>11. ~Empty(r, i)
  BY <1>3, EmptyIsRefused DEF Empty
<1>12. CASE Closes(r, i)
  <2>1. i = PieceTotal(r.message) + 1
    BY <1>12 DEF Closes
  <2>2. i - 1 \in Nat /\ i - 1 >= PieceTotal(r.message)
    BY <1>2, <2>1
  <2>3. KeyLoaded(r)' /\ txBuffer' = r.message
    BY <1>2, <1>4, <2>2 DEF Delivered
  <2>4. r.extra \notin ScriptHash
    <3>1. "Sign message" \notin ScriptHash /\ "arbitrary" \notin ScriptHash
      BY ZenonT(20), ClientAssumption
    <3>2. QED
      BY <1>12, <3>1 DEF Closes, Plain
  <2>5. ~IsMessage(r) => metadataInitialized' = FALSE
    <3>1. SUFFICES ASSUME ~IsMessage(r) PROVE metadataInitialized' = FALSE
      OBVIOUS
    <3>2. LastType(r) = "LAST"
      BY <1>9, <1>12, <3>1 DEF Closes, Plain, LastType, IsMessage
    <3>3. SignLast(command.data)
      BY <1>6, <3>2 DEF Handle
    <3>4. ~TxChunkRefused(command.data)
      BY <1>3, RefusedChunk
    <3> HIDE DEF command
    <3>5. ReviewTx(FALSE)
      BY <3>3, <3>4 DEF SignLast
    <3>6. QED
      BY <1>3, <3>5, ReviewParses
  <2>6. ~IsMessage(r) => metadataInitialized' = (r.extra \in ScriptHash)
    <3>1. (r.extra \in ScriptHash) = FALSE
      BY <2>4
    <3>2. QED
      BY Zenon, <2>5, <3>1
  <2>7. QED
    BY Zenon, <1>10, <2>3, <2>4, <2>6 DEF Shown
<1>13. CASE Proves(r, i)
  <2>1. i > PieceTotal(r.message) + 2 /\ r.extra \in DOMAIN merkleIndex
    BY <1>13 DEF Proves
  <2>2. i - 1 \in Nat /\ i - 1 >= PieceTotal(r.message) /\ i > PieceTotal(r.message) + 1
    BY <1>2, <2>1
  <2>3. KeyLoaded(r)' /\ txBuffer' = r.message /\ metadata' = merkleIndex[r.extra][1]
    BY <1>2, <1>4, <2>2 DEF Delivered
  <2>4. r.extra \in ScriptHash
    <3>1. DOMAIN merkleIndex \subseteq ScriptHash
      BY ZenonT(20), ClientAssumption
    <3>2. QED
      BY <2>1, <3>1
  <2>5. LastType(r) = "MERKLE_TREE_LAST"
    BY <1>6, <1>8, <1>13 DEF Proves
  <2>6. SignProof(command.payload, TRUE)
    BY <1>6, <2>5 DEF Handle
  <2> HIDE DEF command
  <2>7. ~RefuseProof
    BY DEF RefuseProof, NotFinished, uiVars
  <2>8. ReviewTx(TRUE)
    BY <2>6, <2>7 DEF SignProof
  <2>9. metadataInitialized' = TRUE
    BY <1>3, <2>8, ReviewParses
  <2>10. metadataInitialized' = (r.extra \in ScriptHash)
    BY <2>4, <2>9
  <2>11. QED
    BY <1>10, <2>3, <2>10 DEF Shown
<1>14. ~Opens(r, i) /\ ~Adds(r, i) /\ ~Describes(r, i)
  BY <1>6, <1>8 DEF Opens, Adds, Describes
<1>15. QED
  BY <1>7, <1>11, <1>12, <1>13, <1>14

(* The inductive invariant of the only caller's sign call: the device      *)
(* holds what the call has sent so far, shows all of it while the call     *)
(* waits, and the call then has the signature of it.                       *)
Progress(k) ==
  k.phase = "ready" /\ k.request.op = "sign" /\ ~k.lost /\ k.next > 1
    => Delivered(k.request, k.next - 1)

SignedFor(r, s) ==
  /\ s.blob = r.message
  /\ [path |-> s.path, options |-> s.options] \in {KeyOf(r), MainKey}

Session(k) ==
  /\ Progress(k)
  /\ k.phase = "sent" /\ k.request.op = "sign" => Shown(k.request)
  /\ k.phase = "settled" /\ k.request.op = "sign" /\ k.result.code = "OK"
       => SignedFor(k.request, k.result.data)

SessionInv == \A c \in Caller : Session(call[c])

(* A call that has nothing of its own in the device and no signature.      *)
Quiet(k) ==
  /\ k.phase # "sent"
  /\ k.phase = "ready" => k.lost \/ k.next <= 1
  /\ k.phase = "settled" => k.result.code # "OK" \/ k.request.op # "sign"

LEMMA FailureQuiet ==
  ASSUME NEW k \in Call, NEW result \in Result, result.code # "OK"
  PROVE  Quiet(Settled(k, result))
BY SettledCall DEF Quiet

LEMMA VersionQuiet ==
  ASSUME NEW k \in Call, k.request.op = "sign"
  PROVE  Quiet(AfterVersion(k))
<1> DEFINE next == [k EXCEPT !.phase = "ready", !.next = 1]
<1>1. next.phase = "ready" /\ next.next = 1
  BY DEF Call
<1>2. AfterVersion(k) \in {Settled(k, Failed("thrown")), Settled(k, LinkError), next}
  BY DEF AfterVersion
<1>3. \A result \in {Failed("thrown"), LinkError} : Quiet(Settled(k, result))
  BY FailedResult, LinkResult, FailureQuiet
<1> HIDE DEF next
<1>4. Quiet(next)
  BY <1>1 DEF Quiet
<1>5. QED
  BY <1>2, <1>3, <1>4

LEMMA LinkQuiet ==
  ASSUME NEW k \in Call, Sound(k), Live(k)
  PROVE  Quiet(Receive(k, LinkError))
<1>1. CASE k.next = 0
  BY <1>1, VersionQuiet DEF Receive, Sound
<1>2. CASE k.next # 0
  <2>1. Receive(k, LinkError) = Settled(k, LinkError)
    BY <1>2, LinkResult DEF Receive
  <2>2. QED
    BY <2>1, LinkResult, FailureQuiet
<1>3. QED
  BY <1>1, <1>2

LEMMA BeginQuiet == ASSUME NEW r \in Request PROVE Quiet(Begin(r))
<1> DEFINE k == [NoCall EXCEPT !.phase = "ready", !.request = r,
                               !.next = IF r.op = "sign" THEN 0 ELSE 1]
<1>1. k \in Call /\ k.phase = "ready" /\ k.next = (IF r.op = "sign" THEN 0 ELSE 1)
  BY NoCallType DEF Call, NoCall
<1>2. Begin(r) \in {Settled(k, Failed("0")), Settled(k, Failed("thrown")), k}
  BY DEF Begin
<1> HIDE DEF k
<1>3. \A code \in {"0", "thrown"} : Quiet(Settled(k, Failed(code)))
  BY <1>1, FailedResult, FailureQuiet
<1>4. QED
  BY <1>1, <1>2, <1>3 DEF Quiet

LEMMA CutQuiet ==
  ASSUME NEW k \in Call, Sound(k), Live(k)
  PROVE  Quiet(Cut(k))
<1> DEFINE j == [k EXCEPT !.lost = TRUE]
<1>1. j \in Call /\ Sound(j) /\ j.phase = k.phase /\ j.lost
  BY LostCall DEF Call
<1>2. CASE k.phase = "sent"
  <2>1. Cut(k) = Receive(j, LinkError)
    BY <1>2 DEF Cut
  <2> HIDE DEF j
  <2>2. QED
    BY <1>1, <1>2, <2>1, LinkQuiet DEF Live
<1>3. CASE k.phase = "ready"
  <2>1. Cut(k) = j
    BY <1>3 DEF Cut
  <2> HIDE DEF j
  <2>2. QED
    BY <1>1, <1>3, <2>1 DEF Quiet
<1>4. QED
  BY <1>2, <1>3 DEF Live

(* What the user and the menu leave alone.                                 *)
LEMMA SessionStays ==
  ASSUME NEW k, Session(k), UNCHANGED <<slots, txBuffer, metadata, metadataInitialized>>,
         UNCHANGED <<hdPath, cryptoOptions>>
           \/ [path |-> hdPath', options |-> cryptoOptions'] = MainKey,
         k.phase = "sent" => view'.accept = view.accept
  PROVE  Session(k)'
<1>1. MainKey' = MainKey
  BY DEF MainKey
<1>2. \A r : KeyLoaded(r) => KeyLoaded(r)'
  BY <1>1 DEF KeyLoaded
<1>3. \A r, n : Delivered(r, n) => Delivered(r, n)'
  BY <1>2 DEF Delivered
<1>4. Progress(k)'
  BY <1>3 DEF Session, Progress
<1>5. k.phase = "sent" => \A r : Shown(r) => Shown(r)'
  BY <1>2 DEF Shown
<1>6. \A r, s : SignedFor(r, s) => SignedFor(r, s)'
  BY <1>1 DEF SignedFor
<1>7. QED
  BY <1>4, <1>5, <1>6 DEF Session

LEMMA SlotsStay ==
  ASSUME TypeOK, ReviewAnswersCommand, pending # "SLOT_SET", UserAnswer \/ UsbReset \/ Restart
  PROVE  UNCHANGED slots
<1>1. ~ReviewOf("app_slot_setSlot")
  BY DEF ReviewAnswersCommand
<1>2. ~ (Reviewing /\ view.accept = "app_slot_setSlot")
  BY <1>1 DEF ReviewOf, Reviewing
<1>3. UserAnswer => UNCHANGED slots
  BY <1>2 DEF UserAnswer, h_approve, h_reject, view_error_show, h_error_accept, app_sign,
              app_sign_message, app_reply_address, menuaddr_return, flashVars
<1>4. QED
  BY <1>2, <1>3 DEF UsbReset, Restart, flashVars

LEMMA UserLeaves ==
  ASSUME UserAnswer
  PROVE  UNCHANGED <<txBuffer, metadata, metadataInitialized, hdPath, cryptoOptions>>
BY DEF UserAnswer, h_approve, h_reject, view_error_show, h_error_accept,
       sessionVars, metaVars, txVars, keyVars

LEMMA SessionSend ==
  ASSUME PathIsNoContent, ClientInv, DeviceInv, NEW c \in Caller, Session(call[c]), Send(c)
  PROVE  Session(call[c])'
<1>0. PICK k \in Call : k = call[c]
  BY DEF ClientInv, Calls
<1> DEFINE r == k.request  new == Receive(k, Answer')  sent == [k EXCEPT !.phase = "sent"]
<1>1. /\ call \in [Caller -> Call] /\ k \in Call /\ Sound(k)
      /\ k.phase = "ready" /\ k.next > 0 /\ k.next \in Nat /\ ~k.lost
  BY <1>0 DEF ClientInv, Calls, Send, CanSend, Call
<1>2. /\ r \in Request /\ Sendable(r) /\ Commands(r) # <<>>
      /\ k.next \in 1..Len(Commands(r)) /\ Handle(Commands(r)[k.next])
  BY <1>0, ReadySends DEF Send, CanSend, ClientInv
<1>3. pending = NoCommand /\ txBuffer \in Seq(Piece)
  BY <1>1 DEF ClientInv, ExchangeMatchesDevice, Send, CanSend, DeviceInv, IInv, TypeOK
<1>4. ASSUME r.op = "sign"
      PROVE  signGetChunks(r) # <<>> /\ (k.next > 1 => Delivered(r, k.next - 1))
  BY <1>0, <1>1, <1>2, <1>4 DEF Commands, Session, Progress
<1>5. CASE pending' = NoCommand
  <2>1. call'[c] = new
    BY <1>0, <1>1, <1>5 DEF Send
  <2>2. CASE r.op # "sign"
    <3>1. new.phase \in {"ready", "settled"} /\ new.request = r
      BY <1>1 DEF Receive, Settled, Call
    <3>2. QED
      BY <2>1, <2>2, <3>1 DEF Session, Progress
  <2>3. CASE r.op = "sign" /\ Answer'.code = "OK" /\ ~IsLast(k)
    <3>1. new = [k EXCEPT !.phase = "ready", !.next = k.next + 1]
      BY <1>1, <2>3 DEF Receive, Call
    <3>2. new.phase = "ready" /\ new.request = r /\ new.next = k.next + 1
      BY <1>1, <3>1 DEF Call
    <3>3. Taken
      BY <2>3 DEF Answer, Taken
    <3>4. Delivered(r, k.next)'
      BY <1>2, <1>3, <1>4, <2>3, <3>3, CommandDelivered
    <3>5. new.next - 1 = k.next
      BY <1>1, <3>2
    <3> HIDE DEF new
    <3>6. Progress(call[c])'
      BY <2>1, <3>2, <3>4, <3>5 DEF Progress
    <3>7. QED
      BY <2>1, <3>2, <3>6 DEF Session
  <2>4. CASE r.op = "sign" /\ ~ (Answer'.code = "OK" /\ ~IsLast(k))
    <3>1. new = Settled(k, Answer')
      BY <1>1, <2>4 DEF Receive
    <3>2. new.phase = "settled" /\ new.result = Answer'
      BY <1>1, <3>1 DEF Settled, Call
    <3>3. Answer'.code # "OK"
      BY <1>0, <1>5, <2>4, NothingSigned DEF ClientInv
    <3>4. QED
      BY <2>1, <3>2, <3>3 DEF Session, Progress
  <2>5. QED
    BY <2>2, <2>3, <2>4
<1>6. CASE pending' # NoCommand
  <2>1. call'[c] = sent
    BY <1>0, <1>1, <1>6 DEF Send
  <2>2. sent.phase = "sent" /\ sent.request = r
    BY <1>1 DEF Call
  <2>3. ASSUME r.op = "sign" PROVE Shown(r)'
    <3>1. IsLast(k) /\ view'.accept = Callback(LastType(r))
      BY <1>0, <1>6, <2>3, Owing DEF ClientInv
    <3>2. k.next = Len(Commands(r))
      BY <1>2, <3>1, CommandCount DEF IsLast
    <3>3. QED
      BY <1>2, <1>3, <1>4, <1>6, <2>3, <3>1, <3>2, CommandShown
  <2> HIDE DEF sent
  <2>4. QED
    BY <2>1, <2>2, <2>3 DEF Session, Progress
<1>7. QED
  BY <1>5, <1>6

LEMMA SessionDecide ==
  ASSUME ClientInv, DeviceInv, NEW c \in Caller, \A d \in Caller : d = c,
         Session(call[c]), Decide
  PROVE  Session(call[c])'
<1>0. PICK k \in Call : k = call[c]
  BY DEF ClientInv, Calls
<1> DEFINE r == k.request  new == Receive(k, Answer')
<1>1. /\ call \in [Caller -> Call] /\ k \in Call /\ Sound(k)
      /\ exchange \in {c, Nobody} /\ c # Nobody
      /\ k.phase = "sent" <=> exchange = c
      /\ pending = NoCommand <=> exchange = Nobody
  BY <1>0, NobodyCalls DEF ClientInv, Calls, ExchangeMatchesDevice
<1>2. TypeOK /\ ReviewAnswersCommand
  BY DEF DeviceInv, IInv, Reviews
<1>3. UserAnswer /\ UNCHANGED <<txBuffer, metadata, metadataInitialized, hdPath, cryptoOptions>>
  BY UserLeaves DEF Decide
<1>4. CASE exchange = Nobody
  <2>1. call'[c] = k /\ UNCHANGED slots
    BY <1>0, <1>1, <1>2, <1>3, <1>4, SlotsStay DEF Decide, clientVars, NoCommand
  <2>2. k.phase # "sent"
    BY <1>1, <1>4
  <2>3. Session(k)'
    BY <1>0, <1>3, <2>1, <2>2, SessionStays
  <2>4. QED
    BY <2>1, <2>3
<1>5. CASE exchange = c /\ pending' # NoCommand
  <2>1. call'[c] = k /\ view'.accept = view.accept
    BY <1>0, <1>1, <1>2, <1>3, <1>5, Decision DEF Decide, clientVars
  <2>2. UNCHANGED slots
    BY <1>3, <1>5 DEF UserAnswer, h_approve, h_reject, view_error_show, h_error_accept, flashVars
  <2>3. QED
    BY <1>0, <1>3, <2>1, <2>2, SessionStays
<1>6. CASE exchange = c /\ pending' = NoCommand
  <2>1. call'[c] = new /\ k.phase = "sent" /\ k.next # 0
    BY <1>0, <1>1, <1>6 DEF Decide, Sound, Live
  <2>2. CASE r.op # "sign"
    <3>1. new.phase \in {"ready", "settled"} /\ new.request = r
      BY <1>1, <2>1 DEF Receive, Settled, Call
    <3>2. QED
      BY <2>1, <2>2, <3>1 DEF Session, Progress
  <2>3. CASE r.op = "sign"
    <3>1. IsLast(k) /\ ReviewOf(Callback(LastType(r))) /\ pending = "SIGN"
      BY <1>0, <1>1, <1>6, <2>3 DEF ClientInv, Waiting, ExchangeMatchesDevice, OwedBy
    <3>2. PICK answer : answer = Answer'
      OBVIOUS
    <3>3. new = Settled(k, answer)
      BY <2>1, <3>1, <3>2 DEF Receive
    <3>4. new.phase = "settled" /\ new.result = answer /\ new.request = r
      BY <1>1, <3>3 DEF Settled, Call
    <3>5. ASSUME answer.code = "OK" PROVE SignedFor(r, answer.data)'
      <4>1. reply'.sw = "OK"
        BY <3>2, <3>5 DEF Answer
      <4>2. h_approve
        BY <1>3, <4>1 DEF UserAnswer, h_reject, view_error_show, h_error_accept, Respond, Silent
      <4>3. Callback(LastType(r)) \in {"app_sign", "app_sign_message"}
        BY DEF Callback
      <4>4. \E domain : crypto_sign(domain)
        BY <3>1, <4>2, <4>3 DEF h_approve, ReviewOf, app_sign, app_sign_message
      <4>5. /\ reply'.to = pending
            /\ reply'.data.blob = txBuffer /\ reply'.data.path = hdPath
            /\ reply'.data.options = cryptoOptions
        BY <4>1, <4>4 DEF crypto_sign, Respond
      <4>6. answer.data = reply'.data
        BY <3>1, <3>2, <4>5 DEF Answer
      <4>7. UNCHANGED slots
        BY <1>2, <1>3, <3>1, SlotsStay
      <4>8. MainKey' = MainKey
        BY <4>7 DEF MainKey
      <4>9. Shown(r)
        BY <1>0, <2>1, <2>3 DEF Session
      <4>10. QED
        BY <4>5, <4>6, <4>8, <4>9 DEF SignedFor, Shown, KeyLoaded
    <3> HIDE DEF new
    <3>6. QED
      BY <2>1, <3>4, <3>5 DEF Session, Progress
  <2>4. QED
    BY <2>2, <2>3
<1>7. QED
  BY <1>1, <1>4, <1>5, <1>6

LEMMA SessionCut ==
  ASSUME ClientInv, DeviceInv, NEW c \in Caller, \A d \in Caller : d = c,
         Session(call[c]), Disconnect
  PROVE  Session(call[c])'
<1>1. PICK k \in Call : k = call[c] /\ Sound(k)
  BY DEF ClientInv, Calls
<1>2. call'[c] = Cut(k)
  BY <1>1 DEF Disconnect
<1>3. CASE Live(k)
  <2>1. Quiet(Cut(k)) /\ Cut(k) \in Call
    BY <1>1, <1>3, CutQuiet, CutCall DEF ClientInv, Calls
  <2>2. PICK j \in Call : j = Cut(k)
    BY <2>1
  <2>3. Session(j)'
    BY <2>1, <2>2 DEF Quiet, Session, Progress, Call
  <2>4. QED
    BY <1>2, <2>2, <2>3
<1>4. CASE ~Live(k)
  <2>1. call'[c] = k
    BY <1>1, <1>2, <1>4 DEF Cut, Live
  <2>2. exchange = Nobody /\ pending = NoCommand
    <3>1. exchange # c
      BY <1>1, <1>4 DEF ClientInv, ExchangeMatchesDevice, Live
    <3>2. QED
      BY <3>1 DEF ClientInv, Calls, ExchangeMatchesDevice
  <2>3. UNCHANGED slots
    BY <2>2, SlotsStay DEF Disconnect, DeviceInv, IInv, Reviews, NoCommand
  <2>4. MainKey' = MainKey
    BY <2>3 DEF MainKey
  <2>5. Session(k)'
    BY <1>1, <1>4, <2>4 DEF Session, Progress, SignedFor, Live
  <2>6. QED
    BY <2>1, <2>5
<1>5. QED
  BY <1>3, <1>4

LEMMA SessionMenu ==
  ASSUME ClientInv, NEW c \in Caller, Session(call[c]), AtDevice
  PROVE  Session(call[c])'
<1>1. PICK k : k = call[c]
  OBVIOUS
<1>2. call'[c] = k
  BY <1>1 DEF AtDevice, clientVars
<1>3. /\ pending = NoCommand
      /\ UNCHANGED <<slots, txBuffer, metadata, metadataInitialized>>
      /\ \/ UNCHANGED <<hdPath, cryptoOptions>>
         \/ [path |-> hdPath', options |-> cryptoOptions'] = MainKey
  BY DEF AtDevice, Menu, handleMenuShowAddress, h_expert_toggle, MenuIdle, MainKey,
         flashVars, sessionVars, metaVars, txVars, keyVars
<1>4. k.phase # "sent"
  BY <1>1, <1>3, NobodyCalls DEF ClientInv, ExchangeMatchesDevice
<1>5. Session(k)'
  BY <1>1, <1>3, <1>4, SessionStays
<1>6. QED
  BY <1>2, <1>5

LEMMA SessionKept ==
  ASSUME PathIsNoContent, \A c, d \in Caller : c = d,
         ClientInv, DeviceInv, SessionInv, [ClientNext]_allVars
  PROVE  SessionInv'
<1> SUFFICES ASSUME NEW c \in Caller PROVE Session(call[c])'
  BY DEF SessionInv
<1>1. Session(call[c]) /\ \A d \in Caller : d = c
  BY DEF SessionInv
<1>2. PICK k \in Call : k = call[c] /\ Sound(k)
  BY DEF ClientInv, Calls
<1>3. call \in [Caller -> Call]
  BY DEF ClientInv, Calls
<1>4. ASSUME NEW j, Quiet(j), call'[c] = j PROVE Session(call[c])'
  <2>1. j \in Call
    BY <1>4, ClientKept DEF ClientInv, Calls
  <2>2. Session(j)'
    BY <1>4, <2>1 DEF Quiet, Session, Progress, Call
  <2>3. QED
    BY <1>4, <2>2
<1>5. ASSUME NEW d \in Caller, NEW r \in Request, Start(d, r) PROVE Session(call[c])'
  <2>1. call'[c] = Begin(r)
    BY <1>1, <1>3, <1>5 DEF Start
  <2>2. QED
    BY <1>4, <2>1, BeginQuiet
<1>6. ASSUME NEW d \in Caller, QueryVersion(d) PROVE Session(call[c])'
  <2>1. k.phase = "ready" /\ k.next = 0 /\ k.request.op = "sign"
    BY <1>1, <1>2, <1>6 DEF QueryVersion, CanSend, Sound, Live
  <2>2. call'[c] \in {AfterVersion(k), Settled(k, Failed("4"))}
    BY <1>1, <1>2, <1>3, <1>6 DEF QueryVersion
  <2>3. Quiet(AfterVersion(k)) /\ Quiet(Settled(k, Failed("4")))
    BY <2>1, VersionQuiet, FailedResult, FailureQuiet
  <2>4. QED
    BY <1>4, <2>2, <2>3
<1>7. ASSUME NEW d \in Caller, Send(d) PROVE Session(call[c])'
  BY <1>1, <1>7, SessionSend
<1>8. ASSUME NEW d \in Caller, SendFails(d) PROVE Session(call[c])'
  <2>1. k.phase = "ready" /\ call'[c] = Receive(k, LinkError)
    BY <1>1, <1>2, <1>3, <1>8 DEF SendFails
  <2>2. QED
    BY <1>2, <1>4, <2>1, LinkQuiet DEF Live
<1>9. ASSUME NEW d \in Caller, Abandon(d) PROVE Session(call[c])'
  <2>1. call'[c] = NoCall
    BY <1>1, <1>3, <1>9 DEF Abandon
  <2>2. Quiet(NoCall)
    BY DEF Quiet, NoCall
  <2>3. QED
    BY <1>4, <2>1, <2>2
<1>10. CASE UNCHANGED allVars
  <2>1. /\ UNCHANGED <<slots, txBuffer, metadata, metadataInitialized, hdPath, cryptoOptions>>
        /\ view' = view /\ call'[c] = k
    BY <1>2, <1>10 DEF allVars, clientVars, vars, flashVars, sessionVars, metaVars, txVars,
                       keyVars, uiVars
  <2>2. Session(k)'
    BY <1>1, <1>2, <2>1, SessionStays
  <2>3. QED
    BY <2>1, <2>2
<1>11. QED
  BY <1>1, <1>5, <1>6, <1>7, <1>8, <1>9, <1>10, SessionDecide, SessionCut, SessionMenu
     DEF ClientNext, Proceed

LEMMA SessionInvariant ==
  ASSUME PathIsNoContent, \A c, d \in Caller : c = d
  PROVE  ClientSpec => [](ClientInv /\ SessionInv)
<1>1. ClientInit => SessionInv
  BY DEF ClientInit, SessionInv, Session, Progress, NoCall
<1>2. ClientInv /\ DeviceInv /\ SessionInv /\ [ClientNext]_allVars => SessionInv'
  BY SessionKept
<1>3. QED
  BY <1>1, <1>2, ClientInvariant, PTL DEF ClientSpec

(* One caller at a time: a sign call that reports success has the          *)
(* signature of the message it was given, with the key it was given or the *)
(* main slot's.                                                            *)
THEOREM SignatureOfTheCall ==
  ASSUME PathIsNoContent, \A c, d \in Caller : c = d
  PROVE  ClientSpec => []SignatureIsOfTheCall
<1>1. SessionInv => SignatureIsOfTheCall
  BY DEF SessionInv, Session, SignedFor, SignatureIsOfTheCall, Succeeded
<1>2. QED
  BY <1>1, SessionInvariant, PTL

(* One caller at a time: the review that a sign call waits for is of the   *)
(* message, the kind and the packet the call is for.                       *)
THEOREM ReviewOfTheCall ==
  ASSUME PathIsNoContent, \A c, d \in Caller : c = d
  PROVE  ClientSpec => []ReviewIsOfTheCall
<1>1. ClientInv /\ SessionInv => ReviewIsOfTheCall
  <2> SUFFICES ASSUME ClientInv, SessionInv,
                      NEW c \in Caller, exchange = c, call[c].request.op = "sign"
               PROVE  Shown(call[c].request)
    BY DEF ReviewIsOfTheCall, Shown
  <2>1. call[c].phase = "sent"
    BY DEF ClientInv, ExchangeMatchesDevice
  <2>2. QED
    BY <2>1 DEF SessionInv, Session
<1>2. QED
  BY <1>1, SessionInvariant, PTL
=============================================================================
