------------------------------- MODULE FlowApp -------------------------------
(***************************************************************************)
(* The Flow app of the hardware wallet: the command handlers               *)
(* (apdu_handler.c, common/app_helper.c), the reviews they open and the    *)
(* callbacks that answer (common/actions.h, account.c, menu_handler.c,     *)
(* ledger-zxlib's view.c), over the metadata store (TxMetadata), the       *)
(* transaction buffer (ByteBuffer) and the account slots (Slots).          *)
(*                                                                         *)
(* Handlers run to completion, one at a time.  What interleaves is the     *)
(* host's commands, which may come in any order, the user's decisions, the *)
(* menu, a USB reset and a power loss; every handler works on the same     *)
(* global variables.  A review leaves its command unanswered: the device   *)
(* takes no other command until a callback answers it.  A review opened    *)
(* from the menu answers none, and commands do arrive under it.            *)
(***************************************************************************)
EXTENDS Naturals, Sequences

CONSTANTS
  Payload, Fits, HashList, WordsOf, Digest, ZeroDigest, Sha256,
  MerkleTreeRoot, Levels, TreeNode, Script, Covers, NoMetadata,
  SlotIdx, Path, BadPath, NoPath, Account, NoAccount,
  Piece,         (* what a chunk of a transaction or a message is made of  *)
  TxCapacity,    (* size of the transaction buffer                         *)
  Tx,            (* buffer contents that parser_parse accepts              *)
  ScriptOf,      (* transaction -> script hash                             *)
  AccountsIn,    (* transaction -> its proposer, payer and authorizers     *)
  Renders,       (* transaction -> packets (or none) it can be shown with  *)
  Printable,     (* pieces made of printable characters                    *)
  ShowLength,    (* MAX_MESSAGE_SHOW_LENGTH                                *)
  MainSlot,
  FactorySlots,  (* the slot tables an installed app may hold              *)
  TooShort,      (* a path argument of the wrong length                    *)
  PubkeyInput,   (* path arguments of INS_GET_PUBKEY                       *)
  SignInput,     (* path arguments of the first chunk of INS_SIGN          *)
  ChunkInput,    (* payloads of transaction and message chunks             *)
  MetaInput,     (* payloads of metadata and proof chunks                  *)
  SlotInput      (* [idx, slot] arguments of INS_SLOT_SET                  *)

Curve   == {"unknown", "secp256r1", "secp256k1"}
Hash    == {"unknown", "sha2_256", "sha3_256"}
Options == [curve : Curve, hash : Hash]

NoOptions == [curve |-> "unknown", hash |-> "unknown"]
NoKey     == [path |-> NoPath, curve |-> "unknown"]
Key       == [path : Path \cup {BadPath, NoPath}, curve : Curve]

ASSUME SessionAssumption ==
  /\ TxCapacity \in Nat
  /\ ShowLength \in Nat
  /\ Tx \subseteq Seq(Piece)
  /\ ScriptOf \in [Tx -> Script]
  /\ AccountsIn \in [Tx -> SUBSET Account]
  /\ ChunkInput \subseteq Seq(Piece)
  /\ MetaInput \subseteq Payload

ASSUME KeyAssumption ==
  /\ BadPath \notin Path \cup {NoPath}
  /\ NoPath \notin Path
  /\ NoAccount \in Account
  /\ MainSlot \in SlotIdx
  /\ FactorySlots \subseteq [SlotIdx -> [account : Account, path : Path \cup {NoPath},
                                         options : Options]]
  /\ PubkeyInput \cup SignInput
       \subseteq [path : Path \cup {BadPath}, options : Options] \cup {TooShort}
  /\ TooShort \notin [path : Path \cup {BadPath}, options : Options]
  /\ \A a \in SlotInput : a.slot \in [account : Account, path : Path \cup {BadPath, NoPath},
                                      options : Options]

VARIABLES
  expert,                            (* N_appmode.expert, in flash         *)
  slots,                             (* N_slot_store, in flash             *)
  tmp_slotIdx, tmp_slot, tmp_slotop,
  hdPath, cryptoOptions,
  txBuffer,                          (* what buffering_get_buffer holds    *)
  metadata, level, hash,             (* txMetadataState                    *)
  metadataInitialized,               (* of parser_tx_obj                   *)
  addressUsedInTx,
  show_address, address_to_display,
  hasPubkey, pubkey_to_display,
  view,     (* [screen, accept, type]: the screen, viewfuncAccept and      *)
            (* review_type                                                 *)
  pending,  (* the command the host waits on, or NoCommand                 *)
  reply     (* the answer the last step sent, if any                       *)

slotVars    == <<tmp_slotIdx, tmp_slot, tmp_slotop>>
flashVars   == <<expert, slots>>
keyVars     == <<hdPath, cryptoOptions>>
metaVars    == <<metadata, level, hash>>
sessionVars == <<txBuffer, metaVars>>
txVars      == <<metadataInitialized, addressUsedInTx>>
addrVars    == <<show_address, address_to_display>>
pubkeyVars  == <<hasPubkey, pubkey_to_display>>
uiVars      == <<view, pending>>
vars == <<flashVars, slotVars, keyVars, sessionVars, txVars, addrVars, pubkeyVars,
          uiVars, reply>>

Meta  == INSTANCE TxMetadata
Buf   == INSTANCE ByteBuffer
           WITH Byte <- Piece, Capacity <- TxCapacity, Chunks <- ChunkInput,
                contents <- txBuffer, added <- 0
Store == INSTANCE Slots

ASSUME StoreAssumption ==
  /\ Meta!LevelsAssumption
  /\ Meta!Sha256Assumption
  /\ Meta!PayloadAssumption
  /\ Meta!TreeAssumption

-----------------------------------------------------------------------------
NoCommand == "none"
Idle      == [screen |-> "idle", accept |-> "none", type |-> "none"]
NoData    == [tag |-> "none"]
Silent    == [to |-> NoCommand, sw |-> "none", data |-> NoData]

Respond(command, sw) == reply' = [to |-> command, sw |-> sw, data |-> NoData]

Init ==
  /\ expert \in BOOLEAN
  /\ slots \in FactorySlots
  /\ tmp_slotIdx = 0
  /\ tmp_slot = [account |-> NoAccount, path |-> NoPath, options |-> NoOptions]
  /\ tmp_slotop = "SLOT_OP_SET"
  /\ hdPath = NoPath
  /\ cryptoOptions = NoOptions
  /\ txBuffer = <<>>
  /\ Meta!Init
  /\ metadataInitialized = FALSE
  /\ addressUsedInTx = FALSE
  /\ show_address = "NONE"
  /\ address_to_display = NoAccount
  /\ hasPubkey = FALSE
  /\ pubkey_to_display = NoKey
  /\ view = Idle
  /\ pending = NoCommand
  /\ reply = Silent

-----------------------------------------------------------------------------
(* Reviews.  A handler that opens one sets IO_ASYNCH_REPLY: the command    *)
(* stays unanswered.                                                       *)
view_review_show(accept, type) ==
  view' = [screen |-> "review", accept |-> accept, type |-> type]

(* Mutant: the handler forgets the flag, and app_main answers at once.     *)
AwaitUser_NoFlag(command, accept, type) ==
  /\ view_review_show(accept, type)
  /\ pending' = NoCommand
  /\ Respond(command, "OK")

AwaitUser(command, accept, type) ==
  /\ view_review_show(accept, type)
  /\ pending' = command
  /\ reply' = Silent

-----------------------------------------------------------------------------
(* Paths and the main slot.                                                *)
PathAccepted(key) == key # TooShort /\ key.path # BadPath

extractHDPathAndCryptoOptions(key) ==
  /\ hdPath' = IF key = TooShort THEN hdPath ELSE key.path
  /\ cryptoOptions' = IF PathAccepted(key) THEN key.options ELSE cryptoOptions

PathError(key) == IF key = TooShort THEN "WRONG_LENGTH" ELSE "DATA_INVALID"

(* Mutant: the curve is not compared.                                      *)
SlotVerdict_NoCurve(path, options) ==
  LET main == slots[MainSlot]
  IN  IF Store!slot_is_empty(main) THEN "EMPTY_SLOT"
      ELSE IF main.path # path THEN "HDPATHS_NOT_EQUAL"
      ELSE IF main.options.hash # options.hash THEN "YES_HASH_MISMATCH"
      ELSE "YES"

(* What loadAddressFromSlot finds for a path given by the host.            *)
SlotVerdict(path, options) ==
  LET main == slots[MainSlot]
  IN  IF Store!slot_is_empty(main) THEN "EMPTY_SLOT"
      ELSE IF main.path # path \/ main.options.curve # options.curve
           THEN "HDPATHS_NOT_EQUAL"
      ELSE IF main.options.hash # options.hash THEN "YES_HASH_MISMATCH"
      ELSE "YES"

HasAddress(verdict) == verdict \in {"YES", "YES_HASH_MISMATCH"}

(* Mutant: a verdict found earlier is kept.                                *)
loadAddressCompareHdPathFromSlot_Once(path, options) ==
  /\ show_address' = IF show_address = "NONE" THEN SlotVerdict(path, options)
                     ELSE show_address
  /\ address_to_display' = IF HasAddress(show_address') THEN slots[MainSlot].account
                           ELSE address_to_display

loadAddressCompareHdPathFromSlot(path, options) ==
  /\ show_address' = SlotVerdict(path, options)
  /\ address_to_display' = IF HasAddress(show_address') THEN slots[MainSlot].account
                           ELSE address_to_display

(* crypto_extractPublicKey: the buffer is cleared even if the curve is     *)
(* not supported.                                                          *)
Derives(options) == options.curve # "unknown"

crypto_extractPublicKey(path, options) ==
  /\ hasPubkey' = Derives(options)
  /\ pubkey_to_display' = IF Derives(options)
                          THEN [path |-> path, curve |-> options.curve] ELSE NoKey

-----------------------------------------------------------------------------
(* INS_GET_PUBKEY, with P1 asking for a confirmation or not.               *)
handleGetPubkey(key, requireConfirmation) ==
  /\ pending = NoCommand
  /\ extractHDPathAndCryptoOptions(key)
  /\ \/ /\ ~PathAccepted(key)
        /\ hasPubkey' = FALSE
        /\ show_address' = "NONE"
        /\ Respond("GET_PUBKEY", PathError(key))
        /\ UNCHANGED <<pubkey_to_display, address_to_display, uiVars>>
     \/ /\ PathAccepted(key)
        /\ crypto_extractPublicKey(key.path, key.options)
        /\ \/ /\ ~Derives(key.options)
              /\ show_address' = "NONE"
              /\ Respond("GET_PUBKEY", "UNKNOWN")
              /\ UNCHANGED <<address_to_display, uiVars>>
           \/ /\ Derives(key.options)
              /\ ~requireConfirmation
              /\ show_address' = "NONE"
              /\ reply' = [to |-> "GET_PUBKEY", sw |-> "OK",
                           data |-> [tag |-> "pubkey", key |-> pubkey_to_display']]
              /\ UNCHANGED <<address_to_display, uiVars>>
           \/ /\ Derives(key.options)
              /\ requireConfirmation
              /\ loadAddressCompareHdPathFromSlot(key.path, key.options)
              /\ AwaitUser("GET_PUBKEY", "app_reply_address", "ADDRESS")
  /\ UNCHANGED <<flashVars, slotVars, sessionVars, txVars>>

-----------------------------------------------------------------------------
(* INS_SIGN, one action per payload type of process_chunk.                 *)
NotFinished == UNCHANGED <<txVars, addrVars, uiVars>>

(* Type 0x00: a path that is refused leaves the metadata store alone.      *)
SignInit(key) ==
  /\ pending = NoCommand
  /\ extractHDPathAndCryptoOptions(key)
  /\ txBuffer' = <<>>
  /\ \/ PathAccepted(key)  /\ Meta!initStoredTxMetadata /\ Respond("INIT", "OK")
     \/ ~PathAccepted(key) /\ UNCHANGED metaVars /\ Respond("INIT", PathError(key))
  /\ NotFinished
  /\ UNCHANGED <<flashVars, slotVars, pubkeyVars>>

TxChunkRefused(data) ==
  /\ ~Buf!HasRoom(data)
  /\ Respond("SIGN", "OUTPUT_BUFFER_TOO_SMALL")
  /\ NotFinished
  /\ UNCHANGED sessionVars

(* Type 0x01.                                                              *)
SignAdd(data) ==
  /\ pending = NoCommand
  /\ \/ TxChunkRefused(data)
     \/ /\ Buf!HasRoom(data)
        /\ txBuffer' = txBuffer \o data
        /\ Respond("ADD", "OK")
        /\ NotFinished
        /\ UNCHANGED metaVars
  /\ UNCHANGED <<flashVars, slotVars, keyVars, pubkeyVars>>

(* tx_parse: the transaction is parsed, then the packet unless the host    *)
(* sent none, which only the expert mode allows, then every item of the    *)
(* review is rendered once.                                                *)
(* Mutant: blind signing whatever the mode.                                *)
SourceOK_AnyMode(withMetadata) ==
  withMetadata => Meta!parseTxMetadata(ScriptOf[txBuffer])

SourceOK(withMetadata) ==
  IF withMetadata THEN Meta!parseTxMetadata(ScriptOf[txBuffer]) ELSE expert

UsesPacket(withMetadata) == withMetadata /\ SourceOK(withMetadata)

(* Mutant: the flag of the last transaction is not reset.                  *)
SetMetadataInitialized_Stale(withMetadata) ==
  metadataInitialized' =
    IF txBuffer' \in Tx /\ UsesPacket(withMetadata)' THEN TRUE ELSE metadataInitialized

SetMetadataInitialized(withMetadata) ==
  metadataInitialized' =
    IF txBuffer' \in Tx THEN UsesPacket(withMetadata)' ELSE metadataInitialized

tx_parse(withMetadata) ==
  /\ txBuffer \in Tx
  /\ SourceOK(withMetadata)
  /\ (IF withMetadata THEN metadata ELSE NoMetadata) \in Renders[txBuffer]

(* The end of handleSign for a transaction, on the buffer and the store    *)
(* that the chunk has left.                                                *)
ReviewTx(withMetadata) ==
  /\ SetMetadataInitialized(withMetadata)
  /\ \/ /\ tx_parse(withMetadata)'
        /\ loadAddressCompareHdPathFromSlot(hdPath, cryptoOptions)
        /\ addressUsedInTx' = (HasAddress(show_address')
                                 /\ address_to_display' \in AccountsIn[txBuffer'])
        /\ AwaitUser("SIGN", "app_sign", "TXN")
     \/ /\ ~tx_parse(withMetadata)'
        /\ Respond("SIGN", "DATA_INVALID")
        /\ UNCHANGED <<addressUsedInTx, addrVars, uiVars>>

(* Type 0x02.                                                              *)
SignLast(data) ==
  /\ pending = NoCommand
  /\ UNCHANGED <<flashVars, slotVars, keyVars, pubkeyVars>>
  /\ \/ TxChunkRefused(data) /\ UNCHANGED metadataInitialized
     \/ /\ Buf!HasRoom(data)
        /\ txBuffer' = txBuffer \o data
        /\ UNCHANGED metaVars
        /\ ReviewTx(FALSE)

(* Type 0x03.                                                              *)
SignMetadata(p) ==
  /\ pending = NoCommand
  /\ Meta!MetadataChunk(p)
  /\ Respond("METADATA", IF Meta!Storable(p) THEN "OK" ELSE "DATA_INVALID")
  /\ NotFinished
  /\ UNCHANGED <<flashVars, slotVars, keyVars, txBuffer, pubkeyVars>>

(* Types 0x04 and 0x05.                                                    *)
(* Mutant: a refused list takes the level back but keeps the packet.       *)
RefuseProof_KeepPacket ==
  /\ level' = 0
  /\ UNCHANGED <<metadata, hash>>
  /\ Respond("PROOF", "DATA_INVALID")
  /\ NotFinished

RefuseProof ==
  /\ Meta!initStoredTxMetadata
  /\ Respond("PROOF", "DATA_INVALID")
  /\ NotFinished

SignProof(p, last) ==
  /\ pending = NoCommand
  /\ UNCHANGED <<flashVars, slotVars, keyVars, txBuffer, pubkeyVars>>
  /\ \/ ~Meta!ExtendsProof(p) /\ RefuseProof
     \/ /\ Meta!ExtendsProof(p)
        /\ Meta!validateStoredTxMetadataMerkleTreeLevel(p)
        /\ \/ ~last /\ Respond("PROOF", "OK") /\ NotFinished
           \/ last  /\ ReviewTx(TRUE)

(* Type 0x10.  The path is shown with the message only in expert mode, as  *)
(* is a message too long for the screens, by its hash.                     *)
IsShort(message) == Len(message) <= ShowLength

message_parse(message) ==
  /\ \A i \in 1..Len(message) : message[i] \in Printable
  /\ IsShort(message) \/ expert

SignMessage(data) ==
  /\ pending = NoCommand
  /\ \/ TxChunkRefused(data)
     \/ /\ Buf!HasRoom(data)
        /\ txBuffer' = txBuffer \o data
        /\ \/ message_parse(txBuffer') /\ AwaitUser("SIGN", "app_sign_message", "TXN")
           \/ /\ ~message_parse(txBuffer')
              /\ Respond("SIGN", "DATA_INVALID")
              /\ UNCHANGED uiVars
        /\ UNCHANGED <<metaVars, txVars, addrVars>>
  /\ UNCHANGED <<flashVars, slotVars, keyVars, pubkeyVars>>

-----------------------------------------------------------------------------
(* The slot commands.                                                      *)
handleGetSlot(i) ==
  /\ pending = NoCommand
  /\ Store!slot_getSlot(i)
  /\ Respond("SLOT_GET", IF Store!slot_is_empty(slots[i]) THEN "EMPTY_BUFFER" ELSE "OK")
  /\ UNCHANGED <<expert, keyVars, sessionVars, txVars, addrVars, pubkeyVars, uiVars>>

handleSetSlot(i, slot) ==
  /\ pending = NoCommand
  /\ Store!slot_parseSlot(i, slot)
  /\ \/ Store!slot_parseOK(i, slot) /\ AwaitUser("SLOT_SET", "app_slot_setSlot", "TXN")
     \/ /\ ~Store!slot_parseOK(i, slot)
        /\ Respond("SLOT_SET", "DATA_INVALID")
        /\ UNCHANGED uiVars
  /\ UNCHANGED <<expert, keyVars, sessionVars, txVars, addrVars, pubkeyVars>>

(* Commands that only read, and those handleApdu or a length check refuses.*)
OtherCommand(sw) ==
  /\ pending = NoCommand
  /\ Respond("OTHER", sw)
  /\ UNCHANGED <<flashVars, slotVars, keyVars, sessionVars, txVars, addrVars,
                  pubkeyVars, uiVars>>

-----------------------------------------------------------------------------
(* The user's answer.  The callback sends the reply of the command that is *)
(* pending; the menu's callback sends none.                                *)
view_idle_show == view' = Idle

CanSign == cryptoOptions.curve # "unknown" /\ cryptoOptions.hash # "unknown"

crypto_sign(domain) ==
  IF CanSign
  THEN reply' = [to |-> pending, sw |-> "OK",
                 data |-> [tag |-> "signature", domain |-> domain, blob |-> txBuffer,
                           path |-> hdPath, options |-> cryptoOptions]]
  ELSE Respond(pending, "SIGN_VERIFY_ERROR")

app_sign         == crypto_sign("transaction") /\ UNCHANGED slots
(* Mutant: messages are signed under the tag of transactions.              *)
app_sign_message_TxTag == crypto_sign("transaction") /\ UNCHANGED slots

app_sign_message == crypto_sign("message") /\ UNCHANGED slots

(* The key was put into the reply by handleGetPubkey.                      *)
app_reply_address ==
  /\ reply' = [to |-> pending, sw |-> "OK",
               data |-> [tag |-> "pubkey", key |-> pubkey_to_display]]
  /\ UNCHANGED slots

app_slot_setSlot == Store!app_slot_setSlot /\ Respond(pending, "OK")

menuaddr_return == reply' = Silent /\ UNCHANGED slots

(* On these reviews some item cannot be rendered, and the error screen     *)
(* takes its place.  An empty message ends the review at its second item;  *)
(* an address review loses its verdict when a command clears it below.     *)
EmptyMessage == view.accept = "app_sign_message" /\ txBuffer = <<>> /\ ~expert
NoVerdict    == view.type = "ADDRESS" /\ show_address = "NONE"

Reviewing == view.screen = "review" /\ ~EmptyMessage

h_approve ==
  /\ Reviewing
  /\ view_idle_show
  /\ pending' = NoCommand
  /\ \/ view.accept = "app_sign"          /\ app_sign
     \/ view.accept = "app_sign_message"  /\ app_sign_message
     \/ view.accept = "app_reply_address" /\ app_reply_address
     \/ view.accept = "app_slot_setSlot"  /\ app_slot_setSlot
     \/ view.accept = "menuaddr_return"   /\ menuaddr_return
  /\ UNCHANGED <<expert, slotVars, keyVars, sessionVars, txVars, addrVars, pubkeyVars>>

h_reject ==
  /\ Reviewing
  /\ view_idle_show
  /\ pending' = NoCommand
  /\ IF view.type # "UI" THEN Respond(pending, "COMMAND_NOT_ALLOWED") ELSE reply' = Silent
  /\ UNCHANGED <<flashVars, slotVars, keyVars, sessionVars, txVars, addrVars, pubkeyVars>>

view_error_show ==
  /\ view.screen = "review"
  /\ EmptyMessage \/ NoVerdict
  /\ view' = [view EXCEPT !.screen = "error"]
  /\ reply' = Silent
  /\ UNCHANGED <<flashVars, slotVars, keyVars, sessionVars, txVars, addrVars, pubkeyVars,
                 pending>>

(* Mutant: the error screen is left without a reply.                       *)
h_error_accept_NoReply ==
  /\ view.screen = "error"
  /\ view_idle_show
  /\ reply' = Silent
  /\ UNCHANGED <<flashVars, slotVars, keyVars, sessionVars, txVars, addrVars, pubkeyVars,
                 pending>>

h_error_accept ==
  /\ view.screen = "error"
  /\ view_idle_show
  /\ pending' = NoCommand
  /\ Respond(pending, "DATA_INVALID")
  /\ UNCHANGED <<flashVars, slotVars, keyVars, sessionVars, txVars, addrVars, pubkeyVars>>

-----------------------------------------------------------------------------
(* The menu, reached from the idle screen.                                 *)
MenuIdle == view.screen = "idle" /\ pending = NoCommand

(* The main slot's path becomes the path of the app.                       *)
handleMenuShowAddress ==
  /\ MenuIdle
  /\ LET main == slots[MainSlot]
     IN  \/ /\ Store!slot_is_empty(main)
            /\ show_address' = "EMPTY_SLOT"
            /\ hasPubkey' = FALSE
            /\ UNCHANGED <<keyVars, address_to_display, pubkey_to_display>>
         \/ /\ ~Store!slot_is_empty(main)
            /\ show_address' = "YES"
            /\ address_to_display' = main.account
            /\ hdPath' = main.path
            /\ cryptoOptions' = main.options
            /\ crypto_extractPublicKey(main.path, main.options)
  /\ view_review_show("menuaddr_return", "ADDRESS")
  /\ reply' = Silent
  /\ UNCHANGED <<flashVars, slotVars, sessionVars, txVars, pending>>

h_expert_toggle ==
  /\ MenuIdle
  /\ expert' = ~expert
  /\ reply' = Silent
  /\ UNCHANGED <<slots, slotVars, keyVars, sessionVars, txVars, addrVars, pubkeyVars,
                 uiVars>>

-----------------------------------------------------------------------------
(* The cable is pulled during a review: io_event throws, app_main calls    *)
(* app_init.  The RAM keeps its contents.                                  *)
UsbReset ==
  /\ pending # NoCommand
  /\ view_idle_show
  /\ pending' = NoCommand
  /\ reply' = Silent
  /\ UNCHANGED <<flashVars, slotVars, keyVars, sessionVars, txVars, addrVars, pubkeyVars>>

(* Power is lost, or the app is left: all but the flash starts afresh.  A  *)
(* slot that was being accepted may or may not have been written.          *)
Restart ==
  /\ \/ UNCHANGED slots
     \/ Reviewing /\ view.accept = "app_slot_setSlot" /\ Store!app_slot_setSlot
  /\ UNCHANGED expert
  /\ tmp_slotIdx' = 0
  /\ tmp_slot' = [account |-> NoAccount, path |-> NoPath, options |-> NoOptions]
  /\ tmp_slotop' = "SLOT_OP_SET"
  /\ hdPath' = NoPath
  /\ cryptoOptions' = NoOptions
  /\ txBuffer' = <<>>
  /\ Meta!initStoredTxMetadata
  /\ metadataInitialized' = FALSE
  /\ addressUsedInTx' = FALSE
  /\ show_address' = "NONE"
  /\ address_to_display' = NoAccount
  /\ hasPubkey' = FALSE
  /\ pubkey_to_display' = NoKey
  /\ view_idle_show
  /\ pending' = NoCommand
  /\ reply' = Silent

-----------------------------------------------------------------------------
HostCommand ==
  \/ \E key \in PubkeyInput, confirm \in BOOLEAN : handleGetPubkey(key, confirm)
  \/ \E key \in SignInput : SignInit(key)
  \/ \E data \in ChunkInput : SignAdd(data) \/ SignLast(data) \/ SignMessage(data)
  \/ \E p \in MetaInput : SignMetadata(p) \/ \E last \in BOOLEAN : SignProof(p, last)
  \/ \E i \in SlotIdx : handleGetSlot(i)
  \/ \E a \in SlotInput : handleSetSlot(a.idx, a.slot)
  \/ \E sw \in {"OK", "REFUSED"} : OtherCommand(sw)

UserAnswer == h_approve \/ h_reject \/ view_error_show \/ h_error_accept

Menu == handleMenuShowAddress \/ h_expert_toggle

Next == HostCommand \/ UserAnswer \/ Menu \/ UsbReset \/ Restart

Spec == Init /\ [][Next]_vars

(* Nobody but the user ends a review: the app never times one out.         *)
FairSpec == Spec /\ WF_vars(UserAnswer)

-----------------------------------------------------------------------------
TypeOK ==
  /\ expert \in BOOLEAN
  /\ Store!TypeOK
  /\ hdPath \in Path \cup {BadPath, NoPath}
  /\ cryptoOptions \in Options
  /\ txBuffer \in Seq(Piece)
  /\ Len(txBuffer) <= TxCapacity
  /\ Meta!TypeOK
  /\ metadataInitialized \in BOOLEAN
  /\ addressUsedInTx \in BOOLEAN
  /\ show_address \in {"NONE", "YES", "YES_HASH_MISMATCH", "EMPTY_SLOT", "HDPATHS_NOT_EQUAL"}
  /\ address_to_display \in Account
  /\ hasPubkey \in BOOLEAN
  /\ pubkey_to_display \in Key
  /\ view \in [screen : {"idle", "review", "error"},
               accept : {"none", "app_sign", "app_sign_message", "app_reply_address",
                         "app_slot_setSlot", "menuaddr_return"},
               type : {"none", "TXN", "ADDRESS"}]
  /\ pending \in {NoCommand, "GET_PUBKEY", "SIGN", "SLOT_SET"}

ReviewOf(accept) == view.screen # "idle" /\ view.accept = accept

(* A command waits exactly while a review that answers it is on the screen *)
(* (AwaitUser, h_approve, h_reject, h_error_accept): none is forgotten,    *)
(* and no review outlives its command.                                     *)
ReviewAnswersCommand ==
  /\ pending = "SIGN" <=> ReviewOf("app_sign") \/ ReviewOf("app_sign_message")
  /\ pending = "GET_PUBKEY" <=> ReviewOf("app_reply_address")
  /\ pending = "SLOT_SET" <=> ReviewOf("app_slot_setSlot")

(* Names and types shown for a transaction come from a published packet    *)
(* for its very script, whatever packets and proofs came in before.        *)
MetadataShownIsPublished ==
  ReviewOf("app_sign") /\ metadataInitialized =>
    /\ metadata \in TreeNode[0]
    /\ ScriptOf[txBuffer] \in Covers[metadata]

(* What the screens cannot show in full is reviewed in expert mode only.   *)
BlindOnlyExpert ==
  /\ ReviewOf("app_sign") /\ ~metadataInitialized => expert
  /\ ReviewOf("app_sign_message") /\ ~IsShort(txBuffer) => expert

(* A transaction is shown without a warning exactly when the main slot, as *)
(* it is now, holds the signing key's path and algorithms and an account   *)
(* the transaction names.                                                  *)
WarningsCurrent ==
  ReviewOf("app_sign") =>
    ((show_address = "YES" /\ addressUsedInTx)
      <=> LET main == slots[MainSlot]
          IN  /\ ~Store!slot_is_empty(main)
              /\ main.path = hdPath
              /\ main.options = cryptoOptions
              /\ main.account \in AccountsIn[txBuffer])

(* The key, the path and the address a host asks the user to confirm       *)
(* belong together: an address shown with the key is the main slot's, and  *)
(* the slot names that key.                                                *)
AddressReviewConsistent ==
  ReviewOf("app_reply_address") =>
    /\ hasPubkey
    /\ pubkey_to_display = [path |-> hdPath, curve |-> cryptoOptions.curve]
    /\ HasAddress(show_address) =>
         /\ address_to_display = slots[MainSlot].account
         /\ slots[MainSlot].path = pubkey_to_display.path
         /\ slots[MainSlot].options.curve = pubkey_to_display.curve

(* slot_getItem leaves out the slot's old contents when it sets and the    *)
(* new ones when it deletes: what it leaves out is empty.                  *)
SlotReviewComplete ==
  ReviewOf("app_slot_setSlot") =>
    /\ tmp_slotop = "SLOT_OP_SET" <=> Store!slot_is_empty(slots[tmp_slotIdx])
    /\ tmp_slotop = "SLOT_UP_DELETE" => Store!slot_is_empty(tmp_slot)

(* What the items of a review are rendered from.                           *)
Displayed ==
  CASE view.accept = "app_sign" ->
         [tx |-> txBuffer, packet |-> IF metadataInitialized THEN metadata ELSE NoMetadata,
          path |-> hdPath, options |-> cryptoOptions,
          warnings |-> <<show_address, addressUsedInTx>>]
    [] view.accept = "app_sign_message" ->
         [message |-> txBuffer, path |-> hdPath, options |-> cryptoOptions]
    [] view.accept = "app_reply_address" ->
         [key |-> pubkey_to_display, path |-> hdPath, options |-> cryptoOptions,
          verdict |-> show_address, address |-> address_to_display]
    [] view.accept = "app_slot_setSlot" ->
         [op |-> tmp_slotop, idx |-> tmp_slotIdx, old |-> slots[tmp_slotIdx],
          new |-> tmp_slot]
    [] OTHER -> [tag |-> "menu"]

AnswersHost == view.screen # "idle" /\ view.accept # "menuaddr_return"

(* Items are rendered from the globals each time the user turns a page:    *)
(* none of them moves while the user reads.                                *)
ReviewIsStable ==
  [][AnswersHost /\ AnswersHost' => UNCHANGED <<Displayed, expert, view.accept>>]_vars

(* A signature answers a review of the signed bytes, of their own kind: a  *)
(* transaction that parses and is described by a published packet unless   *)
(* the user is an expert, or a printable message.                          *)
SignsOnlyReviewed ==
  [][reply'.data.tag = "signature" =>
       /\ pending = "SIGN" /\ pending' = NoCommand
       /\ reply'.data.path = hdPath /\ hdPath # NoPath
       /\ \/ /\ reply'.data.domain = "transaction"
             /\ ReviewOf("app_sign")
             /\ reply'.data.blob \in Tx
             /\ expert \/ \E m \in TreeNode[0] : ScriptOf[reply'.data.blob] \in Covers[m]
          \/ /\ reply'.data.domain = "message"
             /\ ReviewOf("app_sign_message")
             /\ \A i \in DOMAIN reply'.data.blob : reply'.data.blob[i] \in Printable]_vars

(* The slot table changes only as a review showed it, and an accepted      *)
(* command has changed it, a power loss around the write included.         *)
SlotChangesAsShown ==
  [][/\ slots' # slots => ReviewOf("app_slot_setSlot")
     /\ slots' # slots \/ (reply'.to = "SLOT_SET" /\ reply'.sw = "OK")
          => slots' = [slots EXCEPT ![tmp_slotIdx] = tmp_slot]]_vars

(* Every command is answered if the user keeps answering.                  *)
EveryCommandAnswered == pending # NoCommand ~> pending = NoCommand

(* Whatever the order of the commands, the store sees a legal history.     *)
MetadataStoreRefined == Meta!Spec
=============================================================================
