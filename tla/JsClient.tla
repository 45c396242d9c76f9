------------------------------ MODULE JsClient ------------------------------
(***************************************************************************)
(* The JS client (js/src/index.js, signTransaction.js, common.js) over the *)
(* device of FlowApp.  A caller starts a call; the call checks its         *)
(* arguments, sends one command at a time through the transport and waits  *)
(* for each answer before the next; a sign call asks for the version first *)
(* and then sends its chunks until one is not answered by 0x9000.          *)
(*                                                                         *)
(* Nothing ties the chunks of a call together: between two of them another *)
(* caller's commands, the user's menu or a broken connection come in.  The *)
(* transport (@ledgerhq/hw-transport, external) carries one exchange at a  *)
(* time and refuses another, and fails for good once the device is gone.   *)
(***************************************************************************)
EXTENDS FlowApp

CONSTANTS
  Caller,       (* users of one client object: calls may overlap           *)
  Nobody,       (* the transport is free                                   *)
  Request,      (* what callers ask for                                    *)
  ChunkSize,    (* CHUNK_SIZE, in pieces                                   *)
  PathBytes,    (* the piece a serialized path is, sent as data            *)
  ScriptHash,   (* script hashes given to sign                             *)
  merkleIndex,  (* those listed in txMerkleTree.js -> packet and lists     *)
  Unreadable,   (* a path serializePath throws on                          *)
  Missing,      (* an argument left out                                    *)
  BadAccount,   (* an account that is no string of 16 hex digits           *)
  Versions      (* what compareVersion makes of the device's version       *)

SignRequest    == [op : {"sign"}, key : [path : Path \cup {BadPath, Unreadable},
                                         options : Options \cup {Missing}],
                   message : Seq(Piece),
                   extra : ScriptHash \cup {"Sign message", "arbitrary", Missing}]
AddressRequest == [op : {"getAddress", "showAddress"},
                   key : [path : Path \cup {BadPath, Unreadable},
                          options : Options \cup {Missing}]]
SlotRequest    == [op : {"getSlot"}, idx : Nat]
                    \cup [op : {"setSlot"}, idx : Nat, account : Account \cup {BadAccount},
                          key : [path : Path \cup {BadPath, NoPath, Unreadable},
                                 options : Options \cup {Missing}]]
InfoRequest    == [op : {"getVersion", "appInfo", "slotStatus"}]

ASSUME ClientAssumption ==
  /\ Nobody \notin Caller
  /\ Request \subseteq SignRequest \cup AddressRequest \cup SlotRequest \cup InfoRequest
  /\ ChunkSize \in Nat \ {0}
  /\ PathBytes \in Piece
  /\ DOMAIN merkleIndex \subseteq ScriptHash
  /\ \A h \in DOMAIN merkleIndex : merkleIndex[h] \in Seq(Payload) /\ Len(merkleIndex[h]) > 1
  /\ ScriptHash \cap {"Sign message", "arbitrary", Missing} = {}
  /\ Missing \notin Options
  /\ Unreadable \notin Path \cup {BadPath, NoPath}
  /\ BadAccount \notin Account
  /\ Versions \subseteq {"supported", "old"}

VARIABLES
  call,     (* caller -> its call: phase, request, the chunk to send next, *)
            (* whether its transport has lost the device, and the result   *)
  exchange  (* whose command the transport waits for, or Nobody            *)

clientVars == <<call, exchange>>
allVars    == <<vars, clientVars>>

NoCall == [phase |-> "idle", request |-> [op |-> "none"], next |-> 0, lost |-> FALSE,
           result |-> [code |-> "none", data |-> NoData]]

ClientInit ==
  /\ Init
  /\ call = [c \in Caller |-> NoCall]
  /\ exchange = Nobody

-----------------------------------------------------------------------------
(* The commands of a call.                                                 *)
Pieces(message) == 1 .. ((Len(message) + ChunkSize - 1) \div ChunkSize)

(* Mutant: every piece but the last holds the first of the next.           *)
Piecewise_Overlap(message) ==
  [i \in Pieces(message) |->
     SubSeq(message, (i-1) * ChunkSize + 1,
            IF i * ChunkSize < Len(message) THEN i * ChunkSize + 1 ELSE Len(message))]

Piecewise(message) ==
  [i \in Pieces(message) |->
     SubSeq(message, (i-1) * ChunkSize + 1,
            IF i * ChunkSize < Len(message) THEN i * ChunkSize ELSE Len(message))]

(* Mutant: no path is sent, that of the last session is taken as set.      *)
prepareBasicChunks_NoInit(key, message) ==
  [i \in Pieces(message) |-> [type |-> "ADD", data |-> Piecewise(message)[i]]]

prepareBasicChunks(key, message) ==
  <<[type |-> "INIT", key |-> key]>>
    \o [i \in Pieces(message) |-> [type |-> "ADD", data |-> Piecewise(message)[i]]]

(* The last chunk gets another type.  Of an empty message that is the one  *)
(* with the path, whose bytes then go out as data.                         *)
EndWith(chunks, type) ==
  [chunks EXCEPT ![Len(chunks)] =
     [type |-> type, data |-> IF @.type = "INIT" THEN <<PathBytes>> ELSE @.data]]

MetadataChunks(h) ==
  LET proof == merkleIndex[h]
  IN  [i \in 1..Len(proof) |->
         [type |-> CASE i = 1          -> "TX_METADATA"
                     [] i = Len(proof) -> "MERKLE_TREE_LAST"
                     [] OTHER          -> "MERKLE_TREE",
          payload |-> proof[i]]]

signGetChunks(r) ==
  LET basic == prepareBasicChunks(r.key, r.message)
  IN  CASE r.extra = "Sign message" -> EndWith(basic, "MESSAGE_LAST")
        [] r.extra = "arbitrary"    -> EndWith(basic, "LAST")
        [] r.extra \in ScriptHash \ DOMAIN merkleIndex -> <<>>
        [] OTHER                    -> basic \o MetadataChunks(r.extra)

Commands(r) ==
  IF r.op = "sign" THEN signGetChunks(r)
  ELSE <<[type |-> r.op, request |-> r]>>

(* Mutant: the crypto options are not sent along.                          *)
SlotOf_NoOptions(r) == [account |-> r.account, path |-> r.key.path, options |-> NoOptions]

SlotOf(r) == [account |-> r.account, path |-> r.key.path, options |-> r.key.options]

(* The handler that runs on the device.                                    *)
Handle(command) ==
  \/ command.type = "INIT"             /\ SignInit(command.key)
  \/ command.type = "ADD"              /\ SignAdd(command.data)
  \/ command.type = "LAST"             /\ SignLast(command.data)
  \/ command.type = "MESSAGE_LAST"     /\ SignMessage(command.data)
  \/ command.type = "TX_METADATA"      /\ SignMetadata(command.payload)
  \/ command.type = "MERKLE_TREE"      /\ SignProof(command.payload, FALSE)
  \/ command.type = "MERKLE_TREE_LAST" /\ SignProof(command.payload, TRUE)
  \/ command.type = "getAddress"       /\ handleGetPubkey(command.request.key, FALSE)
  \/ command.type = "showAddress"      /\ handleGetPubkey(command.request.key, TRUE)
  \/ command.type = "getSlot"          /\ handleGetSlot(command.request.idx)
  \/ /\ command.type = "setSlot"
     /\ handleSetSlot(command.request.idx, SlotOf(command.request))
  \/ /\ command.type \in {"getVersion", "appInfo", "slotStatus"}
     /\ \E sw \in {"OK", "REFUSED"} : OtherCommand(sw)

(* What the answer carries; that to INS_SLOT_GET is a copy of tmp_slot.    *)
Answer == [code |-> reply.sw,
           data |-> IF reply.to = "SLOT_GET" /\ reply.sw = "OK"
                    THEN [tag |-> "slot", slot |-> tmp_slot] ELSE reply.data]
LinkError == [code |-> "0xffff", data |-> NoData]
Failed(code) == [code |-> code, data |-> NoData]

-----------------------------------------------------------------------------
(* The steps of a call.                                                    *)
Settled(k, result) == [k EXCEPT !.phase = "settled", !.result = result]

(* What is refused before anything is sent: validateCryptoOptions and      *)
(* serializePath throw, the slot calls answer with returnCode 0.  A sign   *)
(* call serializes its path only after the version is known.               *)
IndexRefused(r)   == r.op \in {"getSlot", "setSlot"} /\ r.idx \notin SlotIdx
OptionsRefused(r) == r.op \in {"sign", "getAddress", "showAddress", "setSlot"}
                       /\ r.key.options = Missing
PathRefused(r)    == r.op \in {"getAddress", "showAddress", "setSlot"}
                       /\ r.key.path = Unreadable
AccountRefused(r) == r.op = "setSlot" /\ r.account = BadAccount

Begin(r) ==
  LET k == [NoCall EXCEPT !.phase = "ready", !.request = r,
                          !.next = IF r.op = "sign" THEN 0 ELSE 1]
  IN  IF IndexRefused(r) THEN Settled(k, Failed("0"))
      ELSE IF OptionsRefused(r) \/ PathRefused(r) THEN Settled(k, Failed("thrown"))
      ELSE IF AccountRefused(r) THEN Settled(k, Failed("0"))
      ELSE k

(* What a call that gets past its arguments sends is what the device may   *)
(* be sent.                                                                *)
Sendable(r) ==
  /\ Begin(r).phase = "ready"
  /\ r.op = "sign" => r.key.path # Unreadable /\ r.extra # Missing

DeviceTakes(command) ==
  CASE command.type = "INIT" -> command.key \in SignInput
    [] command.type \in {"ADD", "LAST", "MESSAGE_LAST"} -> command.data \in ChunkInput
    [] command.type \in {"TX_METADATA", "MERKLE_TREE", "MERKLE_TREE_LAST"} ->
         command.payload \in MetaInput
    [] command.type \in {"getAddress", "showAddress"} -> command.request.key \in PubkeyInput
    [] command.type = "getSlot" -> command.request.idx \in SlotIdx
    [] command.type = "setSlot" ->
         [idx |-> command.request.idx, slot |-> SlotOf(command.request)] \in SlotInput
    [] OTHER -> TRUE

ASSUME DeviceAssumption ==
  \A r \in Request : Sendable(r) =>
    \A i \in DOMAIN Commands(r) : DeviceTakes(Commands(r)[i])

(* After the version, whose query may itself have failed: the error is not *)
(* looked at.  Without chunks the loop does not run.                       *)
AfterVersion(k) ==
  LET r == k.request
  IN  IF r.key.path = Unreadable \/ r.extra = Missing THEN Settled(k, Failed("thrown"))
      ELSE IF signGetChunks(r) = <<>> THEN Settled(k, LinkError)
      ELSE [k EXCEPT !.phase = "ready", !.next = 1]

(* Mutants: the loop ends one chunk early, or one late.                    *)
IsLast_Early(k) == k.next + 1 >= Len(Commands(k.request))
IsLast_Late(k)  == k.next > Len(Commands(k.request))

IsLast(k) == k.next >= Len(Commands(k.request))

(* Mutant: a chunk that fails is sent again.                               *)
Receive_Retry(k, answer) ==
  IF k.next = 0 THEN AfterVersion(k)
  ELSE IF answer.code # "OK" THEN [k EXCEPT !.phase = "ready"]
  ELSE IF ~IsLast(k) THEN [k EXCEPT !.phase = "ready", !.next = @ + 1]
  ELSE Settled(k, answer)

Receive(k, answer) ==
  IF k.next = 0 THEN AfterVersion(k)
  ELSE IF answer.code = "OK" /\ ~IsLast(k) THEN [k EXCEPT !.phase = "ready", !.next = @ + 1]
  ELSE Settled(k, answer)

Start(c, r) ==
  /\ call[c].phase \in {"idle", "settled"}
  /\ call' = [call EXCEPT ![c] = Begin(r)]
  /\ UNCHANGED <<vars, exchange>>

CanSend(c) == call[c].phase = "ready" /\ ~call[c].lost /\ exchange = Nobody

(* getVersion before anything is signed, then compareVersion.              *)
QueryVersion(c) ==
  /\ CanSend(c)
  /\ call[c].next = 0
  /\ \/ \E sw \in {"OK", "REFUSED"} :
          /\ OtherCommand(sw)
          /\ call' = [call EXCEPT ![c] = AfterVersion(@)]
     \/ /\ "old" \in Versions
        /\ OtherCommand("OK")
        /\ call' = [call EXCEPT ![c] = Settled(@, Failed("4"))]
  /\ UNCHANGED exchange

(* The device answers at once or, when it opens a review, later.  An       *)
(* exchange that is answered at once is one step: that the transport is    *)
(* busy during it too, and would refuse another caller's command, is left  *)
(* out.                                                                    *)
Send(c) ==
  /\ CanSend(c)
  /\ call[c].next > 0
  /\ Handle(Commands(call[c].request)[call[c].next])
  /\ \/ /\ pending' = NoCommand
        /\ call' = [call EXCEPT ![c] = Receive(@, Answer')]
        /\ UNCHANGED exchange
     \/ /\ pending' # NoCommand
        /\ call' = [call EXCEPT ![c].phase = "sent"]
        /\ exchange' = c

(* The transport is busy or gone: transport.send rejects.                  *)
SendFails(c) ==
  /\ call[c].phase = "ready"
  /\ call[c].lost \/ exchange # Nobody
  /\ call' = [call EXCEPT ![c] = Receive(@, LinkError)]
  /\ UNCHANGED <<vars, exchange>>

(* The user's decision is the answer the exchange waits for.               *)
(* Mutant: it is taken for the answer to any call that is on its way.      *)
Decide_Any ==
  /\ UserAnswer
  /\ exchange' = IF pending' = NoCommand THEN Nobody ELSE exchange
  /\ \/ /\ exchange # Nobody /\ pending' = NoCommand
        /\ \E c \in Caller : /\ call[c].phase \in {"ready", "sent"}
                             /\ call' = [call EXCEPT ![c] = Receive(@, Answer')]
     \/ /\ exchange = Nobody \/ pending' # NoCommand
        /\ UNCHANGED call

Decide ==
  /\ UserAnswer
  /\ \/ /\ exchange # Nobody /\ pending' = NoCommand
        /\ call' = [call EXCEPT ![exchange] = Receive(@, Answer')]
        /\ exchange' = Nobody
     \/ /\ exchange = Nobody \/ pending' # NoCommand
        /\ UNCHANGED clientVars

(* The device is unplugged or restarted: the outstanding exchange rejects, *)
(* and so will every later one on the same transport.                      *)
(* Mutant: only later exchanges do.                                        *)
Cut_LaterOnly(k) == [k EXCEPT !.lost = (k.phase \in {"ready", "sent"})]

Cut(k) ==
  CASE k.phase = "sent"  -> Receive([k EXCEPT !.lost = TRUE], LinkError)
    [] k.phase = "ready" -> [k EXCEPT !.lost = TRUE]
    [] OTHER             -> k

Disconnect ==
  /\ UsbReset \/ Restart
  /\ call' = [c \in Caller |-> Cut(call[c])]
  /\ exchange' = Nobody

(* The page is left between two commands.                                  *)
Abandon(c) ==
  /\ call[c].phase = "ready"
  /\ call' = [call EXCEPT ![c] = NoCall]
  /\ UNCHANGED <<vars, exchange>>

AtDevice == Menu /\ UNCHANGED clientVars

Proceed(c) == QueryVersion(c) \/ Send(c) \/ SendFails(c)

ClientNext ==
  \/ \E c \in Caller :
       \/ \E r \in Request : Start(c, r)
       \/ Proceed(c)
       \/ Abandon(c)
  \/ Decide
  \/ Disconnect
  \/ AtDevice

ClientSpec == ClientInit /\ [][ClientNext]_allVars

(* The user goes on answering, and a resolved promise continues.           *)
ClientFairSpec ==
  /\ ClientSpec
  /\ WF_allVars(Decide)
  /\ \A c \in Caller : WF_allVars(Proceed(c))

-----------------------------------------------------------------------------
Data   == {NoData} \cup [tag : {"pubkey"}, key : Key] \cup [tag : {"slot"}, slot : Store!Slot]
            \cup [tag : {"signature"}, domain : {"transaction", "message"}, blob : Seq(Piece),
                  path : Path \cup {BadPath, NoPath}, options : Options]
Codes  == {"OK", "REFUSED", "WRONG_LENGTH", "DATA_INVALID", "UNKNOWN", "OUTPUT_BUFFER_TOO_SMALL",
           "EMPTY_BUFFER", "SIGN_VERIFY_ERROR", "COMMAND_NOT_ALLOWED"}
Result == [code : Codes \cup {"none", "0", "4", "thrown", "0xffff"}, data : Data]
Call   == [phase : {"idle", "ready", "sent", "settled"},
           request : Request \cup {NoCall.request}, next : Nat, lost : BOOLEAN, result : Result]

ClientTypeOK ==
  /\ call \in [Caller -> Call]
  /\ \A c \in Caller : call[c].phase \in {"ready", "sent"} =>
       /\ call[c].request \in Request
       /\ call[c].next > 0 => call[c].next <= Len(Commands(call[c].request))
  /\ exchange \in Caller \cup {Nobody}

(* The device owes an answer exactly while some call waits for it, and it  *)
(* is the command that call has sent: no answer goes to another caller,    *)
(* however the calls overlap and the link breaks.                          *)
OwedBy(k) == CASE k.request.op = "showAddress" -> "GET_PUBKEY"
               [] k.request.op = "setSlot"     -> "SLOT_SET"
               [] OTHER                        -> "SIGN"

ExchangeMatchesDevice ==
  /\ pending = NoCommand <=> exchange = Nobody
  /\ \A c \in Caller : call[c].phase = "sent" <=> exchange = c
  /\ exchange # Nobody => pending = OwedBy(call[exchange])

IsMessage(r) == r.extra = "Sign message"
Kind(r)      == IF IsMessage(r) THEN "message" ELSE "transaction"
Succeeded(c, ops) == /\ call[c].phase = "settled"
                     /\ call[c].request.op \in ops
                     /\ call[c].result.code = "OK"

(* A sign call that reports success brings a signature of its own kind,    *)
(* and never the empty answer to a chunk in the middle (index.js:203 takes *)
(* every chunk for the last).                                              *)
SuccessIsSigned ==
  \A c \in Caller : Succeeded(c, {"sign"}) =>
    /\ call[c].result.data.tag = "signature"
    /\ call[c].result.data.domain = Kind(call[c].request)

(* No path can stand for what is signed: its bytes are not printable, and  *)
(* unless nobody asks to sign an empty transaction none ends with them.    *)
PathIsNoContent ==
  /\ PathBytes \notin Printable
  /\ \A r \in Request : r.op = "sign" /\ r.message = <<>> /\ r.extra = "arbitrary" =>
       \A t \in Tx : t # <<>> => t[Len(t)] # PathBytes

(* With one caller, the signature is over the message that was given,      *)
(* whatever sessions were broken off before.  The key is the one asked for *)
(* unless the menu's address review came between the chunks: it sets the   *)
(* main slot's (handleMenuShowAddress).                                    *)
KeyOf(r) == [path |-> r.key.path, options |-> r.key.options]
MainKey  == [path |-> slots[MainSlot].path, options |-> slots[MainSlot].options]

SignatureIsOfTheCall ==
  \A c \in Caller : Succeeded(c, {"sign"}) =>
    LET r == call[c].request  s == call[c].result.data
    IN  /\ s.blob = r.message
        /\ [path |-> s.path, options |-> s.options] \in {KeyOf(r), MainKey}

(* With one caller, what the user reads while a sign call waits is what    *)
(* was asked for: the bytes, the kind, and the packet the index holds for  *)
(* the script, if it was one.                                              *)
ReviewIsOfTheCall ==
  \A c \in Caller : exchange = c /\ call[c].request.op = "sign" =>
    LET r == call[c].request
    IN  /\ txBuffer = r.message
        /\ view.accept = (IF IsMessage(r) THEN "app_sign_message" ELSE "app_sign")
        /\ ~IsMessage(r) => metadataInitialized = (r.extra \in ScriptHash)
        /\ r.extra \in ScriptHash => metadata = merkleIndex[r.extra][1]

(* The calls of one command are right whatever other callers of the client *)
(* send meanwhile: the key is that of the path asked for, a slot set is in *)
(* the table as asked when the call succeeds, a slot read is the one in    *)
(* the table.                                                              *)
SettlesWell(c) ==
  call[c].phase # "settled" /\ call[c]'.phase = "settled" /\ call[c]'.result.code = "OK"

SingleCommandsHonest ==
  [][\A c \in Caller : SettlesWell(c) =>
       LET r == call[c].request  data == call[c]'.result.data
       IN  /\ r.op \in {"getAddress", "showAddress"} =>
                data = [tag |-> "pubkey", key |-> [path |-> r.key.path,
                                                  curve |-> r.key.options.curve]]
           /\ r.op = "setSlot" =>
                slots'[r.idx] = [account |-> r.account, path |-> r.key.path,
                                 options |-> r.key.options]
           /\ r.op = "getSlot" => data = [tag |-> "slot", slot |-> slots[r.idx]]]_allVars

(* Every call comes to an end, in success or not, however calls overlap.   *)
EveryCallSettles ==
  \A c \in Caller :
    call[c].phase \in {"ready", "sent"} ~> call[c].phase \in {"settled", "idle"}

(* signTransaction.js:64 "If it is not there, we send the tx without       *)
(* metadata (arbitrary tx signing in expert mode)".                        *)
DocUnlistedIsSent ==
  [][\A c \in Caller :
       /\ QueryVersion(c)
       /\ call[c].request.extra \in ScriptHash \ DOMAIN merkleIndex
       /\ call[c].request.key.path # Unreadable
       /\ call[c]'.result.code # "4"
       => call[c]'.phase = "ready"]_allVars
=============================================================================
