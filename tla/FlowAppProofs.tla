---------------------------- MODULE FlowAppProofs ----------------------------
(***************************************************************************)
(* Invariants of FlowApp for every tree, every slot table, every           *)
(* transaction and every buffer size.                                      *)
(***************************************************************************)
EXTENDS FlowApp, TLAPS

(* The theorems about the metadata store, for the store inside the app.    *)
Sub == INSTANCE TxMetadataProofs

-----------------------------------------------------------------------------
(* Every step of the app is a step of the store or leaves it alone.        *)
LEMMA StoreStep == [Next]_vars => [Meta!Next]_(Meta!vars)
<1> SUFFICES ASSUME [Next]_vars PROVE Meta!Next \/ UNCHANGED metaVars
  BY DEF Meta!vars, metaVars
<1>1. ASSUME NEW key, SignInit(key) PROVE Meta!Next \/ UNCHANGED metaVars
  BY <1>1 DEF SignInit, Meta!Next, Meta!InitChunk
<1>2. ASSUME NEW p \in MetaInput, SignMetadata(p) PROVE Meta!Next
  BY <1>2, SessionAssumption DEF SignMetadata, Meta!Next
<1>3. ASSUME NEW p \in MetaInput, NEW last \in BOOLEAN, SignProof(p, last) PROVE Meta!Next
  BY <1>3, SessionAssumption DEF SignProof, RefuseProof, Meta!Next, Meta!ProofChunk
<1>4. ASSUME NEW data, SignAdd(data) \/ SignLast(data) \/ SignMessage(data)
      PROVE  UNCHANGED metaVars
  BY <1>4 DEF SignAdd, SignLast, SignMessage, TxChunkRefused, sessionVars
<1>5. ASSUME NEW key, NEW confirm, handleGetPubkey(key, confirm) PROVE UNCHANGED metaVars
  BY <1>5 DEF handleGetPubkey, sessionVars
<1>6. ASSUME NEW i, handleGetSlot(i) PROVE UNCHANGED metaVars
  BY <1>6 DEF handleGetSlot, sessionVars
<1>7. ASSUME NEW a, handleSetSlot(a.idx, a.slot) PROVE UNCHANGED metaVars
  BY <1>7 DEF handleSetSlot, sessionVars
<1>8. ASSUME NEW sw, OtherCommand(sw) PROVE UNCHANGED metaVars
  BY <1>8 DEF OtherCommand, sessionVars
<1>9. CASE UserAnswer
  BY <1>9 DEF UserAnswer, h_approve, h_reject, view_error_show, h_error_accept, sessionVars
<1>10. CASE Menu
  BY <1>10 DEF Menu, handleMenuShowAddress, h_expert_toggle, sessionVars
<1>11. CASE UsbReset
  BY <1>11 DEF UsbReset, sessionVars
<1>12. CASE Restart
  BY <1>12 DEF Restart, Meta!Next, Meta!InitChunk
<1>13. CASE UNCHANGED vars
  BY <1>13 DEF vars, sessionVars
<1>14. CASE HostCommand
  BY <1>14, <1>1, <1>2, <1>3, <1>4, <1>5, <1>6, <1>7, <1>8 DEF HostCommand
<1>15. QED
  BY <1>9, <1>10, <1>11, <1>12, <1>13, <1>14 DEF Next

(* The app's metadata store is the store of TxMetadata.                    *)
THEOREM StoreRefinement == Spec => MetadataStoreRefined
<1>1. Init => Meta!Init
  BY DEF Init
<1>2. QED
  BY <1>1, StoreStep, PTL DEF Spec, MetadataStoreRefined, Meta!Spec

(* The store keeps its types, and accepts published packets only.          *)
StoreSound == Meta!TypeOK /\ Meta!AcceptedIsPublished

LEMMA StoreInvariant == Spec => []StoreSound
<1>1. Meta!Init => Sub!Init
  BY DEF Meta!Init, Sub!Init
<1>2. [Meta!Next]_(Meta!vars) => [Sub!Next]_(Sub!vars)
  BY DEF Meta!Next, Sub!Next, Meta!vars, Sub!vars, Meta!InitChunk, Sub!InitChunk,
     Meta!MetadataChunk, Sub!MetadataChunk, Meta!ProofChunk, Sub!ProofChunk,
     Meta!Storable, Sub!Storable, Meta!ExtendsProof, Sub!ExtendsProof,
     Meta!storeTxMetadata, Sub!storeTxMetadata,
     Meta!initStoredTxMetadata, Sub!initStoredTxMetadata,
     Meta!validateStoredTxMetadataMerkleTreeLevel,
     Sub!validateStoredTxMetadataMerkleTreeLevel
<1>3. Sub!TypeOK /\ Sub!AcceptedIsPublished => StoreSound
  BY DEF StoreSound, Meta!TypeOK, Sub!TypeOK, Meta!AcceptedIsPublished,
     Sub!AcceptedIsPublished, Meta!parseTxMetadata, Sub!parseTxMetadata
<1>4. Sub!LevelsAssumption /\ Sub!Sha256Assumption
        /\ Sub!PayloadAssumption /\ Sub!TreeAssumption
  BY StoreAssumption
     DEF Meta!LevelsAssumption, Meta!Sha256Assumption, Meta!PayloadAssumption,
         Meta!TreeAssumption, Meta!IsTree, Sub!LevelsAssumption, Sub!Sha256Assumption,
         Sub!PayloadAssumption, Sub!TreeAssumption, Sub!IsTree
<1>5. Sub!Spec => []Sub!TypeOK /\ []Sub!AcceptedIsPublished
  BY <1>4, Sub!TypeCorrect, Sub!Accepted
<1>6. QED
  BY <1>1, <1>2, <1>3, <1>4, <1>5, StoreRefinement, PTL
     DEF MetadataStoreRefined, Meta!Spec, Sub!Spec

-----------------------------------------------------------------------------
(***************************************************************************)
(* The inductive invariant: for each review what its handler has checked   *)
(* when it opened it, still true of the globals as they are.               *)
(***************************************************************************)
WarningsComputed ==
  LET main == slots[MainSlot]
  IN  /\ show_address = "YES" <=> /\ ~Store!slot_is_empty(main)
                                  /\ main.path = hdPath
                                  /\ main.options = cryptoOptions
      /\ HasAddress(show_address) => address_to_display = main.account
      /\ addressUsedInTx <=> /\ HasAddress(show_address)
                             /\ address_to_display \in AccountsIn[txBuffer]

TxReviewed ==
  ReviewOf("app_sign") =>
    /\ txBuffer \in Tx
    /\ SourceOK(metadataInitialized)
    /\ WarningsComputed

MessageReviewed == ReviewOf("app_sign_message") => message_parse(txBuffer)

SlotReviewed ==
  /\ ReviewOf("app_slot_setSlot") => tmp_slot \in Store!Stored
  /\ SlotReviewComplete

(* Only the menu opens a review without a command, and none opens a screen *)
(* without a callback.                                                     *)
ScreenHasCallback == view.screen # "idle" => view.accept # "none"

Reviews ==
  /\ ReviewAnswersCommand
  /\ ScreenHasCallback
  /\ TxReviewed
  /\ MessageReviewed
  /\ AddressReviewConsistent
  /\ SlotReviewed

(* A path is set before any key algorithm is.                              *)
PathSetFirst == hdPath = NoPath => cryptoOptions = NoOptions

IInv == TypeOK /\ PathSetFirst /\ Reviews

-----------------------------------------------------------------------------
(* What a look at the main slot finds.                                     *)
Verdicts == {"NONE", "YES", "YES_HASH_MISMATCH", "EMPTY_SLOT", "HDPATHS_NOT_EQUAL"}

LEMMA MainSlotType == TypeOK => slots[MainSlot] \in Store!Stored
BY KeyAssumption DEF TypeOK, Store!TypeOK

LEMMA VerdictMeaning ==
  ASSUME TypeOK, NEW path, NEW options \in Options
  PROVE  LET main == slots[MainSlot]
         IN  /\ SlotVerdict(path, options) \in Verdicts
             /\ SlotVerdict(path, options) = "YES" <=> /\ ~Store!slot_is_empty(main)
                                                       /\ main.path = path
                                                       /\ main.options = options
             /\ HasAddress(SlotVerdict(path, options)) =>
                  main.path = path /\ main.options.curve = options.curve
<1>1. slots[MainSlot].options \in Options
  BY MainSlotType DEF Store!Stored
<1>2. slots[MainSlot].options = options
        <=> /\ slots[MainSlot].options.curve = options.curve
            /\ slots[MainSlot].options.hash = options.hash
  BY <1>1 DEF Options
<1> DEFINE main    == slots[MainSlot]
           verdict == SlotVerdict(path, options)
<1>3. CASE Store!slot_is_empty(main)
  <2>1. verdict = "EMPTY_SLOT"
    BY <1>3 DEF SlotVerdict
  <2>2. QED
    BY <1>3, <2>1 DEF HasAddress, Verdicts
<1>4. CASE /\ ~Store!slot_is_empty(main)
           /\ main.path # path \/ main.options.curve # options.curve
  <2>1. verdict = "HDPATHS_NOT_EQUAL"
    BY <1>4 DEF SlotVerdict
  <2>2. QED
    BY <1>2, <1>4, <2>1 DEF HasAddress, Verdicts
<1>5. CASE /\ ~Store!slot_is_empty(main)
           /\ main.path = path /\ main.options.curve = options.curve
  <2>1. verdict = IF main.options.hash # options.hash THEN "YES_HASH_MISMATCH" ELSE "YES"
    BY <1>5 DEF SlotVerdict
  <2>2. QED
    BY <1>2, <1>5, <2>1 DEF HasAddress, Verdicts
<1>6. QED
  BY <1>3, <1>4, <1>5

LEMMA Loaded ==
  ASSUME TypeOK, NEW path, NEW options \in Options,
         loadAddressCompareHdPathFromSlot(path, options)
  PROVE  /\ show_address' \in Verdicts
         /\ address_to_display' \in Account
         /\ show_address' = SlotVerdict(path, options)
         /\ HasAddress(show_address') => address_to_display' = slots[MainSlot].account
<1>1. slots[MainSlot].account \in Account
  BY MainSlotType DEF Store!Stored
<1>2. address_to_display \in Account
  BY DEF TypeOK
<1>3. QED
  BY <1>1, <1>2, VerdictMeaning DEF loadAddressCompareHdPathFromSlot

-----------------------------------------------------------------------------
(* Types, and the path that is set before the key's algorithms.            *)
Frame == TypeOK /\ PathSetFirst

LEMMA InputType ==
  ASSUME NEW key \in PubkeyInput \cup SignInput
  PROVE  PathAccepted(key) => key.path \in Path /\ key.options \in Options
BY KeyAssumption DEF PathAccepted

LEMMA PathKept ==
  ASSUME Frame, NEW key \in PubkeyInput \cup SignInput,
         extractHDPathAndCryptoOptions(key)
  PROVE  /\ hdPath' \in Path \cup {BadPath, NoPath}
         /\ cryptoOptions' \in Options
         /\ PathSetFirst'
<1>1. CASE key = TooShort
  BY <1>1 DEF Frame, TypeOK, PathSetFirst, extractHDPathAndCryptoOptions, PathAccepted
<1>2. CASE key # TooShort
  <2>1. key.path \in Path \cup {BadPath} /\ key.options \in Options
    BY <1>2, KeyAssumption
  <2>2. hdPath' = key.path /\ cryptoOptions' \in Options
    BY <1>2, <2>1 DEF Frame, TypeOK, extractHDPathAndCryptoOptions
  <2>3. QED
    BY <2>1, <2>2, KeyAssumption DEF PathSetFirst
<1>3. QED
  BY <1>1, <1>2

LEMMA PubkeyType ==
  ASSUME NEW path \in Path \cup {NoPath}, NEW options \in Options,
         crypto_extractPublicKey(path, options)
  PROVE  hasPubkey' \in BOOLEAN /\ pubkey_to_display' \in Key
<1>1. options.curve \in Curve
  BY DEF Options
<1>2. [path |-> path, curve |-> options.curve] \in Key /\ NoKey \in Key
  BY <1>1 DEF Key, NoKey, Curve
<1>3. QED
  BY <1>2 DEF crypto_extractPublicKey, Derives

LEMMA FrameGetPubkey ==
  ASSUME Frame, NEW key \in PubkeyInput, NEW confirm, handleGetPubkey(key, confirm)
  PROVE  Frame'
<1> USE DEF handleGetPubkey
<1>1. UNCHANGED <<flashVars, slotVars, sessionVars, txVars>>
  OBVIOUS
<1>2. /\ hdPath' \in Path \cup {BadPath, NoPath}
      /\ cryptoOptions' \in Options
      /\ PathSetFirst'
  BY PathKept
<1>3. /\ show_address' \in Verdicts
      /\ address_to_display' \in Account
  BY InputType, Loaded DEF Frame, TypeOK, Verdicts
<1>4. hasPubkey' \in BOOLEAN /\ pubkey_to_display' \in Key
  BY InputType, PubkeyType DEF Frame, TypeOK
<1>5. /\ view' = view \/ view' = [screen |-> "review", accept |-> "app_reply_address",
                                  type |-> "ADDRESS"]
      /\ pending' \in {pending, "GET_PUBKEY"}
  BY DEF AwaitUser, view_review_show, uiVars
<1> HIDE DEF handleGetPubkey
<1>6. QED
  BY <1>1, <1>2, <1>3, <1>4, <1>5
     DEF Frame, TypeOK, Verdicts, Store!TypeOK, Meta!TypeOK, flashVars, slotVars,
         sessionVars, metaVars, txVars

Views == [screen : {"idle", "review", "error"},
          accept : {"none", "app_sign", "app_sign_message", "app_reply_address",
                    "app_slot_setSlot", "menuaddr_return"},
          type : {"none", "TXN", "ADDRESS"}]

Waits == {NoCommand, "GET_PUBKEY", "SIGN", "SLOT_SET"}

LEMMA Appended ==
  ASSUME TypeOK, NEW data \in ChunkInput, Buf!HasRoom(data), txBuffer' = txBuffer \o data
  PROVE  txBuffer' \in Seq(Piece) /\ Len(txBuffer') <= TxCapacity
<1>1. txBuffer \in Seq(Piece) /\ data \in Seq(Piece)
  BY SessionAssumption DEF TypeOK
<1>2. QED
  BY <1>1 DEF Buf!HasRoom

LEMMA ReviewTxTypes ==
  ASSUME TypeOK, NEW w \in BOOLEAN, ReviewTx(w)
  PROVE  /\ metadataInitialized' \in BOOLEAN
         /\ addressUsedInTx' \in BOOLEAN
         /\ show_address' \in Verdicts
         /\ address_to_display' \in Account
         /\ view' \in Views
         /\ pending' \in Waits
<1>1. metadataInitialized' \in BOOLEAN
  BY DEF TypeOK, ReviewTx, SetMetadataInitialized, UsesPacket
<1>2. CASE tx_parse(w)'
  <2>1. /\ loadAddressCompareHdPathFromSlot(hdPath, cryptoOptions)
        /\ addressUsedInTx' = (HasAddress(show_address')
                                 /\ address_to_display' \in AccountsIn[txBuffer'])
        /\ AwaitUser("SIGN", "app_sign", "TXN")
    BY <1>2 DEF ReviewTx
  <2>2. show_address' \in Verdicts /\ address_to_display' \in Account
    BY <2>1, Loaded DEF TypeOK
  <2>3. view' \in Views /\ pending' \in Waits
    BY <2>1 DEF AwaitUser, view_review_show, Views, Waits
  <2>4. addressUsedInTx' \in BOOLEAN
    BY <2>1
  <2>5. QED
    BY <1>1, <2>2, <2>3, <2>4
<1>3. CASE ~tx_parse(w)'
  <2>1. UNCHANGED <<addressUsedInTx, addrVars, uiVars>>
    BY <1>3 DEF ReviewTx
  <2>2. QED
    BY <1>1, <2>1 DEF TypeOK, Verdicts, Views, Waits, addrVars, uiVars
<1>4. QED
  BY <1>2, <1>3

(* What a step that handles a chunk of INS_SIGN leaves alone.              *)
SignFrame == UNCHANGED <<flashVars, slotVars, keyVars, pubkeyVars>>

LEMMA FrameSign ==
  ASSUME Frame, Meta!TypeOK', SignFrame,
         txBuffer' \in Seq(Piece), Len(txBuffer') <= TxCapacity,
         metadataInitialized' \in BOOLEAN, addressUsedInTx' \in BOOLEAN,
         show_address' \in Verdicts, address_to_display' \in Account,
         view' \in Views, pending' \in Waits
  PROVE  Frame'
BY DEF Frame, TypeOK, PathSetFirst, SignFrame, Verdicts, Views, Waits, Store!TypeOK,
       flashVars, slotVars, keyVars, pubkeyVars

LEMMA FrameUnfinished ==
  ASSUME Frame, Meta!TypeOK', SignFrame, NotFinished,
         txBuffer' \in Seq(Piece), Len(txBuffer') <= TxCapacity
  PROVE  Frame'
BY FrameSign DEF Frame, TypeOK, NotFinished, Verdicts, Views, Waits, txVars, addrVars,
                 uiVars

LEMMA FrameSignInit ==
  ASSUME Frame, Meta!TypeOK', NEW key \in SignInput, SignInit(key)
  PROVE  Frame'
<1>1. /\ hdPath' \in Path \cup {BadPath, NoPath}
      /\ cryptoOptions' \in Options
      /\ PathSetFirst'
  BY PathKept DEF SignInit
<1>2. txBuffer' = <<>> /\ Len(txBuffer') <= TxCapacity
  BY SessionAssumption DEF SignInit
<1>3. UNCHANGED <<flashVars, slotVars, pubkeyVars, txVars, addrVars, uiVars>>
  BY DEF SignInit, NotFinished
<1>4. QED
  BY <1>1, <1>2, <1>3
     DEF Frame, TypeOK, Store!TypeOK, flashVars, slotVars, pubkeyVars, txVars,
         addrVars, uiVars

LEMMA FrameRefused ==
  ASSUME Frame, Meta!TypeOK', SignFrame, NEW data, TxChunkRefused(data)
  PROVE  Frame'
BY FrameUnfinished DEF TxChunkRefused, sessionVars, Frame, TypeOK

LEMMA FrameSignAdd ==
  ASSUME Frame, Meta!TypeOK', NEW data \in ChunkInput, SignAdd(data)
  PROVE  Frame'
<1>1. SignFrame
  BY DEF SignAdd, SignFrame
<1>2. CASE TxChunkRefused(data)
  BY <1>1, <1>2, FrameRefused
<1>3. CASE Buf!HasRoom(data) /\ txBuffer' = txBuffer \o data /\ NotFinished
  BY <1>1, <1>3, Appended, FrameUnfinished DEF Frame
<1>4. QED
  BY <1>2, <1>3 DEF SignAdd

LEMMA FrameSignLast ==
  ASSUME Frame, Meta!TypeOK', NEW data \in ChunkInput, SignLast(data)
  PROVE  Frame'
<1>1. SignFrame
  BY DEF SignLast, SignFrame
<1>2. CASE TxChunkRefused(data)
  BY <1>1, <1>2, FrameRefused
<1>3. CASE Buf!HasRoom(data) /\ txBuffer' = txBuffer \o data /\ ReviewTx(FALSE)
  BY <1>1, <1>3, Appended, ReviewTxTypes, FrameSign DEF Frame
<1>4. QED
  BY <1>2, <1>3 DEF SignLast

LEMMA FrameSignMetadata ==
  ASSUME Frame, Meta!TypeOK', NEW p, SignMetadata(p)
  PROVE  Frame'
BY FrameUnfinished DEF SignMetadata, SignFrame, Frame, TypeOK

LEMMA FrameSignProof ==
  ASSUME Frame, Meta!TypeOK', NEW p, NEW last \in BOOLEAN, SignProof(p, last)
  PROVE  Frame'
<1>1. SignFrame /\ txBuffer' = txBuffer
  BY DEF SignProof, SignFrame
<1>2. CASE NotFinished
  BY <1>1, <1>2, FrameUnfinished DEF Frame, TypeOK
<1>3. CASE ReviewTx(TRUE)
  BY <1>1, <1>3, ReviewTxTypes, FrameSign DEF Frame, TypeOK
<1>4. QED
  BY <1>2, <1>3 DEF SignProof, RefuseProof

LEMMA FrameSignMessage ==
  ASSUME Frame, Meta!TypeOK', NEW data \in ChunkInput, SignMessage(data)
  PROVE  Frame'
<1>1. SignFrame
  BY DEF SignMessage, SignFrame
<1>2. CASE TxChunkRefused(data)
  BY <1>1, <1>2, FrameRefused
<1>3. CASE ~TxChunkRefused(data)
  <2>1. /\ Buf!HasRoom(data)
        /\ txBuffer' = txBuffer \o data
        /\ UNCHANGED <<txVars, addrVars>>
    BY <1>3 DEF SignMessage
  <2>2. view' \in Views /\ pending' \in Waits
    BY <1>3 DEF SignMessage, AwaitUser, view_review_show, uiVars, Frame, TypeOK,
                Views, Waits
  <2>3. QED
    BY <1>1, <2>1, <2>2, Appended, FrameSign DEF Frame, TypeOK, Verdicts, txVars, addrVars
<1>4. QED
  BY <1>2, <1>3

LEMMA FrameGetSlot ==
  ASSUME Frame, NEW i \in SlotIdx, handleGetSlot(i)
  PROVE  Frame'
<1>1. tmp_slot' \in Store!Slot
  BY DEF Frame, TypeOK, handleGetSlot, Store!slot_getSlot, Store!TypeOK, Store!Slot,
         Store!Stored
<1>2. UNCHANGED <<expert, slots, tmp_slotIdx, tmp_slotop, keyVars, sessionVars, txVars,
                  addrVars, pubkeyVars, uiVars>>
  BY DEF handleGetSlot, Store!slot_getSlot
<1>3. QED
  BY <1>1, <1>2
     DEF Frame, TypeOK, PathSetFirst, Store!TypeOK, Meta!TypeOK, keyVars, sessionVars,
         metaVars, txVars, addrVars, pubkeyVars, uiVars

LEMMA FrameSetSlot ==
  ASSUME Frame, NEW a \in SlotInput, handleSetSlot(a.idx, a.slot)
  PROVE  Frame'
<1>1. tmp_slot' \in Store!Slot
  BY KeyAssumption DEF Frame, TypeOK, handleSetSlot, Store!slot_parseSlot, Store!TypeOK,
                       Store!Slot
<1>2. tmp_slotop' \in {"SLOT_OP_SET", "SLOT_OP_UPDATE", "SLOT_UP_DELETE"}
  BY DEF Frame, TypeOK, handleSetSlot, Store!slot_parseSlot, Store!SlotOp, Store!TypeOK
<1>3. view' \in Views /\ pending' \in Waits
  BY DEF Frame, TypeOK, handleSetSlot, AwaitUser, view_review_show, uiVars, Views, Waits
<1>4. UNCHANGED <<expert, slots, keyVars, sessionVars, txVars, addrVars, pubkeyVars>>
  BY DEF handleSetSlot, Store!slot_parseSlot
<1>5. QED
  BY <1>1, <1>2, <1>3, <1>4
     DEF Frame, TypeOK, PathSetFirst, Store!TypeOK, Meta!TypeOK, Views, Waits, keyVars,
         sessionVars, metaVars, txVars, addrVars, pubkeyVars

(* The only write to flash is that of a slot an accepted review proposes.  *)
LEMMA SlotWritten ==
  ASSUME TypeOK, SlotReviewed, Reviewing, view.accept = "app_slot_setSlot",
         Store!app_slot_setSlot
  PROVE  slots' \in [SlotIdx -> Store!Stored]
<1>1. tmp_slot \in Store!Stored
  BY DEF SlotReviewed, Reviewing, ReviewOf
<1>2. QED
  BY <1>1 DEF TypeOK, Store!TypeOK, Store!app_slot_setSlot

LEMMA FrameApprove ==
  ASSUME Frame, SlotReviewed, h_approve
  PROVE  Frame'
<1>1. UNCHANGED <<expert, slotVars, keyVars, sessionVars, txVars, addrVars, pubkeyVars>>
  BY DEF h_approve
<1>2. view' \in Views /\ pending' \in Waits
  BY DEF h_approve, view_idle_show, Idle, Views, Waits
<1>3. slots' \in [SlotIdx -> Store!Stored]
  <2>1. CASE UNCHANGED slots
    BY <2>1 DEF Frame, TypeOK, Store!TypeOK
  <2>2. CASE Reviewing /\ view.accept = "app_slot_setSlot" /\ Store!app_slot_setSlot
    BY <2>2, SlotWritten DEF Frame
  <2>3. QED
    BY <2>1, <2>2 DEF h_approve, app_sign, app_sign_message, app_reply_address,
                      app_slot_setSlot, menuaddr_return
<1>4. QED
  BY <1>1, <1>2, <1>3
     DEF Frame, TypeOK, PathSetFirst, Store!TypeOK, Meta!TypeOK, Views, Waits, slotVars,
         keyVars, sessionVars, metaVars, txVars, addrVars, pubkeyVars

(* Answers that write nothing, and a USB reset.                            *)
LEMMA FrameScreenOnly ==
  ASSUME Frame, view' \in Views, pending' \in Waits,
         UNCHANGED <<flashVars, slotVars, keyVars, sessionVars, txVars, addrVars, pubkeyVars>>
  PROVE  Frame'
BY DEF Frame, TypeOK, PathSetFirst, Store!TypeOK, Meta!TypeOK, Views, Waits, flashVars,
       slotVars, keyVars, sessionVars, metaVars, txVars, addrVars, pubkeyVars

LEMMA FrameMenuAddress ==
  ASSUME Frame, handleMenuShowAddress
  PROVE  Frame'
<1> DEFINE main == slots[MainSlot]
<1>1. /\ main.account \in Account
      /\ main.path \in Path \cup {NoPath}
      /\ main.options \in Options
  BY MainSlotType DEF Frame, Store!Stored
<1>2. UNCHANGED <<flashVars, slotVars, sessionVars, txVars, pending>>
  BY DEF handleMenuShowAddress
<1>3. view' \in Views
  BY DEF handleMenuShowAddress, view_review_show, Views
<1>4. /\ show_address' \in Verdicts
      /\ address_to_display' \in Account
      /\ hdPath' \in Path \cup {BadPath, NoPath}
      /\ cryptoOptions' \in Options
      /\ hasPubkey' \in BOOLEAN
      /\ pubkey_to_display' \in Key
      /\ PathSetFirst'
  <2>1. CASE Store!slot_is_empty(main)
    BY <2>1 DEF handleMenuShowAddress, Frame, TypeOK, PathSetFirst, Verdicts, keyVars
  <2>2. CASE ~Store!slot_is_empty(main)
    <3>1. hasPubkey' \in BOOLEAN /\ pubkey_to_display' \in Key
      BY <1>1, <2>2, PubkeyType DEF handleMenuShowAddress
    <3>2. QED
      BY <1>1, <2>2, <3>1
         DEF handleMenuShowAddress, PathSetFirst, Verdicts, Store!slot_is_empty
  <2>3. QED
    BY <2>1, <2>2
<1>5. QED
  BY <1>2, <1>3, <1>4
     DEF Frame, TypeOK, Store!TypeOK, Meta!TypeOK, Views, Verdicts, flashVars, slotVars,
         sessionVars, metaVars, txVars

LEMMA FrameToggle ==
  ASSUME Frame, h_expert_toggle
  PROVE  Frame'
BY DEF Frame, TypeOK, PathSetFirst, h_expert_toggle, Store!TypeOK, Meta!TypeOK, slotVars,
       keyVars, sessionVars, metaVars, txVars, addrVars, pubkeyVars, uiVars

LEMMA InitialRAM ==
  /\ [account |-> NoAccount, path |-> NoPath, options |-> NoOptions] \in Store!Slot
  /\ NoOptions \in Options
  /\ NoKey \in Key
  /\ NoAccount \in Account
BY KeyAssumption DEF Store!Slot, NoOptions, Options, Curve, Hash, NoKey, Key

LEMMA FrameRestart ==
  ASSUME Frame, SlotReviewed, Meta!TypeOK', Restart
  PROVE  Frame'
<1>1. slots' \in [SlotIdx -> Store!Stored]
  BY SlotWritten DEF Restart, Frame, TypeOK, Store!TypeOK
<1>2. txBuffer' = <<>> /\ Len(txBuffer') <= TxCapacity
  BY SessionAssumption DEF Restart
<1>3. Store!TypeOK'
  BY <1>1, InitialRAM DEF Restart, Store!TypeOK
<1>4. view' \in Views /\ pending' \in Waits
  BY DEF Restart, view_idle_show, Idle, Views, Waits
<1>5. /\ expert' \in BOOLEAN
      /\ metadataInitialized' \in BOOLEAN
      /\ addressUsedInTx' \in BOOLEAN
      /\ hasPubkey' \in BOOLEAN
  BY DEF Frame, TypeOK, Restart
<1>6. /\ hdPath' = NoPath /\ cryptoOptions' = NoOptions
      /\ show_address' \in Verdicts
      /\ address_to_display' \in Account
      /\ pubkey_to_display' \in Key
  BY InitialRAM DEF Restart, Verdicts
<1>7. txBuffer' \in Seq(Piece)
  BY <1>2
<1>8. QED
  BY <1>2, <1>3, <1>4, <1>5, <1>6, <1>7, InitialRAM
     DEF Frame, TypeOK, PathSetFirst, Verdicts, Views, Waits

LEMMA NextFrame ==
  ASSUME Frame, SlotReviewed, Meta!TypeOK', [Next]_vars
  PROVE  Frame'
<1>1. CASE HostCommand
  <2>1. ASSUME NEW key \in PubkeyInput, NEW confirm \in BOOLEAN, handleGetPubkey(key, confirm)
        PROVE  Frame'
    BY <2>1, FrameGetPubkey
  <2>2. ASSUME NEW key \in SignInput, SignInit(key) PROVE Frame'
    BY <2>2, FrameSignInit
  <2>3. ASSUME NEW data \in ChunkInput, SignAdd(data) \/ SignLast(data) \/ SignMessage(data)
        PROVE  Frame'
    BY <2>3, FrameSignAdd, FrameSignLast, FrameSignMessage
  <2>4. ASSUME NEW p \in MetaInput, SignMetadata(p) PROVE Frame'
    BY <2>4, FrameSignMetadata
  <2>5. ASSUME NEW p \in MetaInput, NEW last \in BOOLEAN, SignProof(p, last) PROVE Frame'
    BY <2>5, FrameSignProof
  <2>6. ASSUME NEW i \in SlotIdx, handleGetSlot(i) PROVE Frame'
    BY <2>6, FrameGetSlot
  <2>7. ASSUME NEW a \in SlotInput, handleSetSlot(a.idx, a.slot) PROVE Frame'
    BY <2>7, FrameSetSlot
  <2>8. ASSUME NEW sw, OtherCommand(sw) PROVE Frame'
    BY <2>8, FrameScreenOnly DEF OtherCommand, Frame, TypeOK, Views, Waits, uiVars
  <2>9. QED
    BY <1>1, <2>1, <2>2, <2>3, <2>4, <2>5, <2>6, <2>7, <2>8 DEF HostCommand
<1>2. Idle \in Views /\ NoCommand \in Waits
  BY DEF Idle, Views, Waits
<1>3. CASE UserAnswer
  <2>1. CASE h_approve
    BY <2>1, FrameApprove
  <2>2. CASE h_reject \/ h_error_accept
    BY <1>2, <2>2, FrameScreenOnly DEF h_reject, h_error_accept, view_idle_show
  <2>3. CASE view_error_show
    BY <2>3, FrameScreenOnly DEF view_error_show, Frame, TypeOK, Views, Waits
  <2>4. QED
    BY <1>3, <2>1, <2>2, <2>3 DEF UserAnswer
<1>4. CASE Menu
  BY <1>4, FrameMenuAddress, FrameToggle DEF Menu
<1>5. CASE UsbReset
  BY <1>2, <1>5, FrameScreenOnly DEF UsbReset, view_idle_show
<1>6. CASE Restart
  BY <1>6, FrameRestart
<1>7. CASE UNCHANGED vars
  BY <1>7, FrameScreenOnly DEF vars, Frame, TypeOK, Views, Waits, uiVars
<1>8. QED
  BY <1>1, <1>3, <1>4, <1>5, <1>6, <1>7 DEF Next

-----------------------------------------------------------------------------
(* The reviews.  Nothing is claimed of the idle screen and the menu's.     *)
NoReview == view.screen = "idle" \/ view.accept = "menuaddr_return"

LEMMA NothingReviewed ==
  ASSUME pending' = NoCommand, NoReview'
  PROVE  Reviews'
BY DEF NoReview, NoCommand, Reviews, ReviewAnswersCommand, ScreenHasCallback, TxReviewed,
       MessageReviewed, AddressReviewConsistent, SlotReviewed, SlotReviewComplete, ReviewOf

(* A command is taken only when none waits, so under no other review.      *)
LEMMA CommandScreen ==
  ASSUME TypeOK, Reviews, pending = NoCommand
  PROVE  NoReview
BY DEF TypeOK, NoReview, NoCommand, Reviews, ReviewAnswersCommand, ScreenHasCallback,
       ReviewOf

LEMMA Answered ==
  ASSUME TypeOK, Reviews, pending = NoCommand, UNCHANGED uiVars
  PROVE  Reviews'
<1>1. pending' = NoCommand /\ NoReview'
  BY CommandScreen DEF uiVars, NoReview
<1>2. QED
  BY <1>1, NothingReviewed

LEMMA BackToIdle ==
  ASSUME view_idle_show, pending' = NoCommand
  PROVE  Reviews'
BY NothingReviewed DEF NoReview, view_idle_show, Idle

(* Opening a review leaves its own part of the invariant to be shown.      *)
LEMMA Opened ==
  ASSUME NEW accept, NEW command, NEW type,
         <<accept, command>> \in {<<"app_sign", "SIGN">>, <<"app_sign_message", "SIGN">>,
                                  <<"app_reply_address", "GET_PUBKEY">>,
                                  <<"app_slot_setSlot", "SLOT_SET">>},
         AwaitUser(command, accept, type),
         accept = "app_sign"          => TxReviewed',
         accept = "app_sign_message"  => MessageReviewed',
         accept = "app_reply_address" => AddressReviewConsistent',
         accept = "app_slot_setSlot"  => SlotReviewed'
  PROVE  Reviews'
<1>1. view' = [screen |-> "review", accept |-> accept, type |-> type] /\ pending' = command
  BY DEF AwaitUser, view_review_show
<1>2. view'.screen = "review" /\ view'.accept = accept
  BY <1>1
<1>3. ReviewAnswersCommand' /\ ScreenHasCallback'
  BY <1>1, <1>2 DEF ReviewAnswersCommand, ScreenHasCallback, ReviewOf
<1>4. TxReviewed' /\ MessageReviewed' /\ AddressReviewConsistent' /\ SlotReviewed'
  BY <1>2 DEF TxReviewed, MessageReviewed, AddressReviewConsistent, SlotReviewed,
              SlotReviewComplete, ReviewOf
<1>5. QED
  BY <1>3, <1>4 DEF Reviews

LEMMA ReviewsGetPubkey ==
  ASSUME IInv, NEW key \in PubkeyInput, NEW confirm, handleGetPubkey(key, confirm)
  PROVE  Reviews'
<1>1. pending = NoCommand
  BY DEF handleGetPubkey
<1>2. CASE UNCHANGED uiVars
  BY <1>1, <1>2, Answered DEF IInv
<1>3. CASE ~UNCHANGED uiVars
  <2>1. /\ PathAccepted(key)
        /\ Derives(key.options)
        /\ loadAddressCompareHdPathFromSlot(key.path, key.options)
        /\ AwaitUser("GET_PUBKEY", "app_reply_address", "ADDRESS")
        /\ hasPubkey'
        /\ pubkey_to_display' = [path |-> key.path, curve |-> key.options.curve]
        /\ hdPath' = key.path /\ cryptoOptions' = key.options
        /\ slots' = slots
    BY <1>3 DEF handleGetPubkey, extractHDPathAndCryptoOptions, crypto_extractPublicKey,
                PathAccepted, flashVars
  <2>2. /\ show_address' = SlotVerdict(key.path, key.options)
        /\ HasAddress(show_address') => address_to_display' = slots[MainSlot].account
    BY <2>1, InputType, Loaded DEF IInv
  <2>3. HasAddress(show_address') =>
          /\ slots[MainSlot].path = key.path
          /\ slots[MainSlot].options.curve = key.options.curve
    BY <2>1, <2>2, InputType, VerdictMeaning DEF IInv
  <2>4. AddressReviewConsistent'
    BY <2>1, <2>2, <2>3 DEF AddressReviewConsistent
  <2>5. QED
    BY <2>1, <2>4, Opened
<1>4. QED
  BY <1>2, <1>3

LEMMA ReviewsReviewTx ==
  ASSUME IInv, NEW w \in BOOLEAN, pending = NoCommand, ReviewTx(w),
         UNCHANGED <<flashVars, keyVars>>
  PROVE  Reviews'
<1>1. CASE UNCHANGED uiVars
  BY <1>1, Answered DEF IInv
<1>2. CASE tx_parse(w)'
  <2>1. /\ loadAddressCompareHdPathFromSlot(hdPath, cryptoOptions)
        /\ addressUsedInTx' = (HasAddress(show_address')
                                 /\ address_to_display' \in AccountsIn[txBuffer'])
        /\ AwaitUser("SIGN", "app_sign", "TXN")
    BY <1>2 DEF ReviewTx
  <2>2. UNCHANGED <<slots, hdPath, cryptoOptions>> /\ cryptoOptions \in Options
    BY DEF flashVars, keyVars, IInv, TypeOK
  <2>3. WarningsComputed'
    <3>1. /\ show_address' = SlotVerdict(hdPath, cryptoOptions)
          /\ HasAddress(show_address') => address_to_display' = slots[MainSlot].account
      BY <2>1, <2>2, Loaded DEF IInv
    <3>2. show_address' = "YES" <=> /\ ~Store!slot_is_empty(slots[MainSlot])
                                    /\ slots[MainSlot].path = hdPath
                                    /\ slots[MainSlot].options = cryptoOptions
      BY <2>2, <3>1, VerdictMeaning DEF IInv
    <3>3. addressUsedInTx' <=> /\ HasAddress(show_address')
                               /\ address_to_display' \in AccountsIn[txBuffer']
      BY <2>1
    <3>4. QED
      BY <2>2, <3>1, <3>2, <3>3 DEF WarningsComputed, Store!slot_is_empty, HasAddress
  <2>4. txBuffer' \in Tx /\ SourceOK(w)'
    BY <1>2 DEF tx_parse
  <2>5. metadataInitialized' = (w /\ SourceOK(w)')
    BY <2>4 DEF ReviewTx, SetMetadataInitialized, UsesPacket
  <2>6. SourceOK(metadataInitialized)'
    BY <2>4, <2>5 DEF SourceOK
  <2>7. TxReviewed'
    BY <2>3, <2>4, <2>6 DEF TxReviewed
  <2>8. QED
    BY <2>1, <2>7, Opened
<1>3. QED
  BY <1>1, <1>2 DEF ReviewTx

LEMMA ReviewsSignMessage ==
  ASSUME IInv, NEW data, SignMessage(data)
  PROVE  Reviews'
<1>1. pending = NoCommand
  BY DEF SignMessage
<1>2. CASE UNCHANGED uiVars
  BY <1>1, <1>2, Answered DEF IInv
<1>3. CASE message_parse(txBuffer') /\ AwaitUser("SIGN", "app_sign_message", "TXN")
  <2>1. expert' = expert
    BY DEF SignMessage, flashVars
  <2>2. MessageReviewed'
    BY <1>3, <2>1 DEF MessageReviewed, message_parse, IsShort
  <2>3. QED
    BY <1>3, <2>2, Opened
<1>4. QED
  BY <1>2, <1>3 DEF SignMessage, TxChunkRefused, NotFinished

LEMMA ReviewsSetSlot ==
  ASSUME IInv, NEW a \in SlotInput, handleSetSlot(a.idx, a.slot)
  PROVE  Reviews'
<1>1. pending = NoCommand
  BY DEF handleSetSlot
<1>2. CASE UNCHANGED uiVars
  BY <1>1, <1>2, Answered DEF IInv
<1>3. CASE /\ Store!slot_parseOK(a.idx, a.slot)
           /\ AwaitUser("SLOT_SET", "app_slot_setSlot", "TXN")
  <2>1. /\ tmp_slot' = a.slot
        /\ tmp_slotIdx' = a.idx
        /\ tmp_slotop' = Store!SlotOp(a.idx, a.slot)
        /\ slots' = slots
    BY <1>3 DEF handleSetSlot, Store!slot_parseSlot, Store!slot_parseOK
  <2>2. a.slot \in Store!Stored
    <3>1. a.slot \in Store!Slot /\ a.slot.path # BadPath
      BY <1>3, KeyAssumption DEF Store!slot_parseOK, Store!PathOK, Store!Slot
    <3>2. QED
      BY <3>1 DEF Store!Slot, Store!Stored
  <2>3. SlotReviewComplete'
    BY <2>1 DEF SlotReviewComplete, Store!SlotOp, Store!slot_is_empty
  <2>4. SlotReviewed'
    BY <2>1, <2>2, <2>3 DEF SlotReviewed, Store!Stored
  <2>5. QED
    BY <1>3, <2>4, Opened
<1>4. QED
  BY <1>2, <1>3 DEF handleSetSlot

(* A review stays what it was while nothing it is made from moves.         *)
LEMMA ReviewCarried ==
  ASSUME IInv,
         UNCHANGED <<flashVars, slotVars, keyVars, sessionVars, txVars, addrVars, pubkeyVars,
                     pending>>,
         view'.accept = view.accept,
         view'.screen # "idle" <=> view.screen # "idle"
  PROVE  Reviews'
<1>1. \A accept : ReviewOf(accept)' <=> ReviewOf(accept)
  BY DEF ReviewOf
<1>2. ReviewAnswersCommand' /\ ScreenHasCallback'
  BY <1>1 DEF IInv, Reviews, ReviewAnswersCommand, ScreenHasCallback
<1>3. TxReviewed'
  BY <1>1
     DEF IInv, Reviews, TxReviewed, SourceOK, Meta!parseTxMetadata, WarningsComputed,
         Store!slot_is_empty, HasAddress, flashVars, keyVars, sessionVars, metaVars, txVars,
         addrVars
<1>4. MessageReviewed'
  BY <1>1 DEF IInv, Reviews, MessageReviewed, message_parse, IsShort, flashVars,
                    sessionVars
<1>5. AddressReviewConsistent'
  BY <1>1 DEF IInv, Reviews, AddressReviewConsistent, HasAddress, flashVars, keyVars,
                    addrVars, pubkeyVars
<1>6. SlotReviewed'
  BY <1>1 DEF IInv, Reviews, SlotReviewed, SlotReviewComplete, Store!Stored,
                    Store!slot_is_empty, flashVars, slotVars
<1>7. QED
  BY <1>2, <1>3, <1>4, <1>5, <1>6 DEF Reviews

(* The error screen stands for the review it ends.                         *)
LEMMA ReviewsError ==
  ASSUME IInv, view_error_show
  PROVE  Reviews'
<1>1. view.screen = "review" /\ view'.screen = "error" /\ view'.accept = view.accept
  BY DEF view_error_show, IInv, TypeOK
<1>2. QED
  BY <1>1, ReviewCarried DEF view_error_show

LEMMA ReviewsSign ==
  ASSUME IInv, NEW data, SignAdd(data) \/ SignLast(data)
  PROVE  Reviews'
<1>1. pending = NoCommand /\ UNCHANGED <<flashVars, keyVars>>
  BY DEF SignAdd, SignLast
<1>2. UNCHANGED uiVars \/ ReviewTx(FALSE)
  BY DEF SignAdd, SignLast, TxChunkRefused, NotFinished
<1>3. QED
  BY <1>1, <1>2, Answered, ReviewsReviewTx DEF IInv

LEMMA ReviewsSignProof ==
  ASSUME IInv, NEW p, NEW last \in BOOLEAN, SignProof(p, last)
  PROVE  Reviews'
<1>1. pending = NoCommand /\ UNCHANGED <<flashVars, keyVars>>
  BY DEF SignProof
<1>2. UNCHANGED uiVars \/ ReviewTx(TRUE)
  BY DEF SignProof, RefuseProof, NotFinished
<1>3. QED
  BY <1>1, <1>2, Answered, ReviewsReviewTx DEF IInv

LEMMA ReviewsHost ==
  ASSUME IInv, HostCommand
  PROVE  Reviews'
<1>1. ASSUME NEW key \in PubkeyInput, NEW confirm, handleGetPubkey(key, confirm)
      PROVE  Reviews'
  BY <1>1, ReviewsGetPubkey
<1>2. ASSUME NEW key, SignInit(key) PROVE Reviews'
  BY <1>2, Answered DEF SignInit, NotFinished, IInv
<1>3. ASSUME NEW data, SignAdd(data) \/ SignLast(data) \/ SignMessage(data) PROVE Reviews'
  BY <1>3, ReviewsSign, ReviewsSignMessage
<1>4. ASSUME NEW p, SignMetadata(p) PROVE Reviews'
  BY <1>4, Answered DEF SignMetadata, NotFinished, IInv
<1>5. ASSUME NEW p, NEW last \in BOOLEAN, SignProof(p, last) PROVE Reviews'
  BY <1>5, ReviewsSignProof
<1>6. ASSUME NEW i, handleGetSlot(i) PROVE Reviews'
  BY <1>6, Answered DEF handleGetSlot, IInv
<1>7. ASSUME NEW a \in SlotInput, handleSetSlot(a.idx, a.slot) PROVE Reviews'
  BY <1>7, ReviewsSetSlot
<1>8. ASSUME NEW sw, OtherCommand(sw) PROVE Reviews'
  BY <1>8, Answered DEF OtherCommand, IInv
<1>9. QED
  BY <1>1, <1>2, <1>3, <1>4, <1>5, <1>6, <1>7, <1>8 DEF HostCommand

LEMMA NextReviews ==
  ASSUME IInv, [Next]_vars
  PROVE  Reviews'
<1>1. CASE HostCommand
  BY <1>1, ReviewsHost
<1>2. CASE h_approve \/ h_reject \/ h_error_accept \/ UsbReset \/ Restart
  <2>1. view_idle_show /\ pending' = NoCommand
    BY <1>2 DEF h_approve, h_reject, h_error_accept, UsbReset, Restart
  <2>2. QED
    BY <2>1, BackToIdle
<1>3. CASE view_error_show
  BY <1>3, ReviewsError
<1>4. CASE handleMenuShowAddress
  BY <1>4, NothingReviewed DEF handleMenuShowAddress, MenuIdle, view_review_show, NoReview
<1>5. CASE h_expert_toggle
  BY <1>5, Answered DEF h_expert_toggle, MenuIdle, IInv
<1>6. CASE UNCHANGED vars
  BY <1>6, ReviewCarried DEF vars, uiVars
<1>7. QED
  BY <1>1, <1>2, <1>3, <1>4, <1>5, <1>6 DEF Next, UserAnswer, Menu

-----------------------------------------------------------------------------
LEMMA InitIInv == Init /\ Meta!TypeOK => IInv
<1> SUFFICES ASSUME Init, Meta!TypeOK PROVE IInv
  OBVIOUS
<1>1. Store!TypeOK
  BY KeyAssumption, InitialRAM DEF Init, Store!TypeOK, Store!Stored
<1>2. txBuffer \in Seq(Piece) /\ Len(txBuffer) <= TxCapacity
  BY SessionAssumption DEF Init
<1>3. view \in Views /\ pending \in Waits
  BY DEF Init, Idle, Views, Waits
<1>4. TypeOK /\ PathSetFirst
  BY <1>1, <1>2, <1>3, InitialRAM DEF Init, TypeOK, PathSetFirst, Views, Waits
<1>5. Reviews
  BY DEF Init, Idle, NoCommand, Reviews, ReviewAnswersCommand, ScreenHasCallback,
         TxReviewed, MessageReviewed, AddressReviewConsistent, SlotReviewed,
         SlotReviewComplete, ReviewOf
<1>6. QED
  BY <1>4, <1>5 DEF IInv

LEMMA NextIInv == IInv /\ Meta!TypeOK' /\ [Next]_vars => IInv'
BY NextFrame, NextReviews DEF IInv, Frame, Reviews

LEMMA Invariant == Spec => [](IInv /\ StoreSound)
<1>1. StoreSound => Meta!TypeOK
  BY DEF StoreSound
<1>2. QED
  BY <1>1, InitIInv, NextIInv, StoreInvariant, PTL DEF Spec

(* Every variable keeps its type: no review is opened without its record,  *)
(* no slot is written with a path the app refuses.                         *)
THEOREM TypeCorrect == Spec => []TypeOK
<1>1. IInv => TypeOK
  BY DEF IInv
<1>2. QED
  BY <1>1, Invariant, PTL

(* A command waits exactly while a review that answers it is open.         *)
THEOREM CommandsAndReviews == Spec => []ReviewAnswersCommand
<1>1. IInv => ReviewAnswersCommand
  BY DEF IInv, Reviews
<1>2. QED
  BY <1>1, Invariant, PTL

(* What is shown with a transaction is a published packet for its script,  *)
(* whatever the host sent before and in whatever order.                    *)
THEOREM MetadataPublished == Spec => []MetadataShownIsPublished
<1>1. IInv /\ StoreSound => MetadataShownIsPublished
  <2> SUFFICES ASSUME IInv, StoreSound, ReviewOf("app_sign"), metadataInitialized
               PROVE  metadata \in TreeNode[0] /\ ScriptOf[txBuffer] \in Covers[metadata]
    BY DEF MetadataShownIsPublished
  <2>1. txBuffer \in Tx /\ Meta!parseTxMetadata(ScriptOf[txBuffer])
    BY DEF IInv, Reviews, TxReviewed, SourceOK
  <2>2. ScriptOf[txBuffer] \in Script
    BY <2>1, SessionAssumption
  <2>3. QED
    BY <2>1, <2>2 DEF StoreSound, Meta!AcceptedIsPublished, Meta!parseTxMetadata
<1>2. QED
  BY <1>1, Invariant, PTL

(* Blind signing needs the expert mode.                                    *)
THEOREM BlindSigning == Spec => []BlindOnlyExpert
<1>1. IInv => BlindOnlyExpert
  BY DEF IInv, Reviews, TxReviewed, MessageReviewed, BlindOnlyExpert, SourceOK, message_parse
<1>2. QED
  BY <1>1, Invariant, PTL

(* Warnings are those of the slot table, the key and the transaction as    *)
(* they are while the review is open.                                      *)
THEOREM Warnings == Spec => []WarningsCurrent
<1>1. IInv => WarningsCurrent
  BY DEF IInv, Reviews, TxReviewed, WarningsComputed, WarningsCurrent, HasAddress
<1>2. QED
  BY <1>1, Invariant, PTL

(* Path, key and address of an address review belong together.             *)
THEOREM AddressReview == Spec => []AddressReviewConsistent
<1>1. IInv => AddressReviewConsistent
  BY DEF IInv, Reviews
<1>2. QED
  BY <1>1, Invariant, PTL

(* A slot review leaves out nothing but what is empty.                     *)
THEOREM SlotReview == Spec => []SlotReviewComplete
<1>1. IInv => SlotReviewComplete
  BY DEF IInv, Reviews, SlotReviewed
<1>2. QED
  BY <1>1, Invariant, PTL

-----------------------------------------------------------------------------
(* Of all steps only the approval of a review of INS_SIGN can sign.        *)
LEMMA Unsigned ==
  ASSUME NEW command, NEW sw
  PROVE  /\ Respond(command, sw) => reply'.data.tag = "none"
         /\ reply' = Silent => reply'.data.tag = "none"
BY DEF Respond, Silent, NoData

LEMMA HostNeverSigns ==
  ASSUME HostCommand
  PROVE  reply'.data.tag # "signature"
<1>1. ASSUME NEW key, NEW confirm, handleGetPubkey(key, confirm)
      PROVE  reply'.data.tag # "signature"
  BY <1>1, Unsigned DEF handleGetPubkey, AwaitUser
<1>2. ASSUME NEW key, SignInit(key) PROVE reply'.data.tag # "signature"
  BY <1>2, Unsigned DEF SignInit
<1>3. ASSUME NEW w, ReviewTx(w) PROVE reply'.data.tag # "signature"
  BY <1>3, Unsigned DEF ReviewTx, AwaitUser
<1>4. ASSUME NEW data, SignAdd(data) \/ SignLast(data) \/ SignMessage(data)
      PROVE  reply'.data.tag # "signature"
  BY <1>3, <1>4, Unsigned DEF SignAdd, SignLast, SignMessage, TxChunkRefused, AwaitUser
<1>5. ASSUME NEW p, SignMetadata(p) PROVE reply'.data.tag # "signature"
  BY <1>5, Unsigned DEF SignMetadata
<1>6. ASSUME NEW p, NEW last, SignProof(p, last) PROVE reply'.data.tag # "signature"
  BY <1>3, <1>6, Unsigned DEF SignProof, RefuseProof
<1>7. ASSUME NEW i, handleGetSlot(i) PROVE reply'.data.tag # "signature"
  BY <1>7, Unsigned DEF handleGetSlot
<1>8. ASSUME NEW a, handleSetSlot(a.idx, a.slot) PROVE reply'.data.tag # "signature"
  BY <1>8, Unsigned DEF handleSetSlot, AwaitUser
<1>9. ASSUME NEW sw, OtherCommand(sw) PROVE reply'.data.tag # "signature"
  BY <1>9, Unsigned DEF OtherCommand
<1>10. QED
  BY <1>1, <1>2, <1>4, <1>5, <1>6, <1>7, <1>8, <1>9 DEF HostCommand

LEMMA SigningStep ==
  ASSUME Next, reply'.data.tag = "signature"
  PROVE  /\ Reviewing
         /\ pending' = NoCommand
         /\ \/ view.accept = "app_sign" /\ app_sign
            \/ view.accept = "app_sign_message" /\ app_sign_message
<1>1. h_approve
  BY HostNeverSigns, Unsigned
     DEF Next, UserAnswer, Menu, h_reject, view_error_show, h_error_accept,
         handleMenuShowAddress, h_expert_toggle, UsbReset, Restart
<1>2. ~app_reply_address /\ ~app_slot_setSlot /\ ~menuaddr_return
  BY Unsigned DEF app_reply_address, app_slot_setSlot, menuaddr_return
<1>3. QED
  BY <1>1, <1>2 DEF h_approve

(* A signature answers a review of the signed bytes, of their own kind.    *)
THEOREM SigningIsReviewed == Spec => SignsOnlyReviewed
<1> DEFINE Reviewed ==
      reply'.data.tag = "signature" =>
        /\ pending = "SIGN" /\ pending' = NoCommand
        /\ reply'.data.path = hdPath /\ hdPath # NoPath
        /\ \/ /\ reply'.data.domain = "transaction"
              /\ ReviewOf("app_sign")
              /\ reply'.data.blob \in Tx
              /\ expert \/ \E m \in TreeNode[0] : ScriptOf[reply'.data.blob] \in Covers[m]
           \/ /\ reply'.data.domain = "message"
              /\ ReviewOf("app_sign_message")
              /\ \A i \in DOMAIN reply'.data.blob : reply'.data.blob[i] \in Printable
<1>1. ASSUME IInv, StoreSound, Next PROVE Reviewed
  <2>1. SUFFICES ASSUME reply'.data.tag = "signature" PROVE Reviewed
    OBVIOUS
  <2>2. view.screen = "review"
    BY <1>1, <2>1, SigningStep DEF Reviewing
  <2>3. ASSUME NEW domain, crypto_sign(domain)
        PROVE  /\ reply'.data.domain = domain
               /\ reply'.data.blob = txBuffer
               /\ reply'.data.path = hdPath
               /\ hdPath # NoPath
    <3>1. CanSign
      BY <2>1, <2>3, Unsigned DEF crypto_sign
    <3>2. hdPath # NoPath
      BY <1>1, <3>1 DEF CanSign, IInv, PathSetFirst, NoOptions
    <3>3. QED
      BY <2>3, <3>1, <3>2 DEF crypto_sign
  <2>4. CASE view.accept = "app_sign" /\ app_sign
    <3>1. ReviewOf("app_sign")
      BY <2>2, <2>4 DEF ReviewOf
    <3>2. txBuffer \in Tx /\ SourceOK(metadataInitialized)
      BY <1>1, <3>1 DEF IInv, Reviews, TxReviewed
    <3>3. expert \/ \E m \in TreeNode[0] : ScriptOf[txBuffer] \in Covers[m]
      <4>1. ScriptOf[txBuffer] \in Script
        BY <3>2, SessionAssumption
      <4>2. QED
        BY <1>1, <3>2, <4>1
           DEF SourceOK, StoreSound, Meta!AcceptedIsPublished, Meta!parseTxMetadata
    <3>4. pending = "SIGN"
      BY <1>1, <3>1 DEF IInv, Reviews, ReviewAnswersCommand
    <3>5. crypto_sign("transaction") /\ pending' = NoCommand
      BY <1>1, <2>1, <2>4, SigningStep DEF app_sign
    <3>6. QED
      BY <2>3, <3>1, <3>2, <3>3, <3>4, <3>5
  <2>5. CASE view.accept = "app_sign_message" /\ app_sign_message
    <3>1. ReviewOf("app_sign_message")
      BY <2>2, <2>5 DEF ReviewOf
    <3>2. \A i \in DOMAIN txBuffer : txBuffer[i] \in Printable
      BY <1>1, <3>1 DEF IInv, TypeOK, Reviews, MessageReviewed, message_parse
    <3>3. pending = "SIGN"
      BY <1>1, <3>1 DEF IInv, Reviews, ReviewAnswersCommand
    <3>4. crypto_sign("message") /\ pending' = NoCommand
      BY <1>1, <2>1, <2>5, SigningStep DEF app_sign_message
    <3>5. QED
      BY <2>3, <3>1, <3>2, <3>3, <3>4
  <2>6. QED
    BY <1>1, <2>1, <2>4, <2>5, SigningStep
<1>2. IInv /\ StoreSound /\ [Next]_vars => [Reviewed]_vars
  BY <1>1
<1>3. QED
  BY <1>2, Invariant, PTL DEF Spec, SignsOnlyReviewed

-----------------------------------------------------------------------------
LEMMA ChunkReply ==
  ASSUME NEW sw, Respond("SIGN", sw) \/ Respond("ADD", sw) \/ Respond("PROOF", sw)
  PROVE  reply'.to # "SLOT_SET"
BY DEF Respond

(* A slot is written, or SET is acknowledged, by an approval of its review *)
(* or by a power loss during it.                                           *)
LEMMA HostSlotsSafe ==
  ASSUME HostCommand
  PROVE  slots' = slots /\ ~(reply'.to = "SLOT_SET" /\ reply'.sw = "OK")
<1>1. \A command, sw : Respond(command, sw) => reply'.to = command /\ reply'.sw = sw
  BY DEF Respond
<1>2. reply' = Silent => reply'.to # "SLOT_SET"
  BY DEF Silent, NoCommand
<1>3. ASSUME NEW key, NEW confirm, handleGetPubkey(key, confirm)
      PROVE  slots' = slots /\ reply'.to # "SLOT_SET"
  BY <1>1, <1>2, <1>3 DEF handleGetPubkey, AwaitUser, flashVars
<1>4. ASSUME NEW key, SignInit(key) PROVE slots' = slots /\ reply'.to # "SLOT_SET"
  BY <1>4 DEF SignInit, Respond, flashVars
<1>5. ASSUME NEW w, ReviewTx(w) PROVE reply'.to # "SLOT_SET"
  BY <1>1, <1>2, <1>5 DEF ReviewTx, AwaitUser
<1>6. ASSUME NEW data, SignAdd(data) \/ SignLast(data) \/ SignMessage(data)
      PROVE  slots' = slots /\ reply'.to # "SLOT_SET"
  <2>1. slots' = slots
    BY <1>6 DEF SignAdd, SignLast, SignMessage, flashVars
  <2>2. reply'.to # "SLOT_SET"
    BY <1>2, <1>5, <1>6, ChunkReply DEF SignAdd, SignLast, SignMessage, TxChunkRefused,
                                       AwaitUser
  <2>3. QED
    BY <2>1, <2>2
<1>7. ASSUME NEW p, SignMetadata(p) PROVE slots' = slots /\ reply'.to # "SLOT_SET"
  BY <1>1, <1>7 DEF SignMetadata, flashVars
<1>8. ASSUME NEW p, NEW last, SignProof(p, last)
      PROVE  slots' = slots /\ reply'.to # "SLOT_SET"
  <2>1. slots' = slots
    BY <1>8 DEF SignProof, flashVars
  <2>2. reply'.to # "SLOT_SET"
    BY <1>5, <1>8, ChunkReply DEF SignProof, RefuseProof
  <2>3. QED
    BY <2>1, <2>2
<1>9. ASSUME NEW i, handleGetSlot(i) PROVE slots' = slots /\ reply'.to # "SLOT_SET"
  BY <1>1, <1>9 DEF handleGetSlot, Store!slot_getSlot
<1>10. ASSUME NEW a, handleSetSlot(a.idx, a.slot)
       PROVE  slots' = slots /\ ~(reply'.to = "SLOT_SET" /\ reply'.sw = "OK")
  BY <1>1, <1>2, <1>10 DEF handleSetSlot, AwaitUser, Store!slot_parseSlot
<1>11. ASSUME NEW sw, OtherCommand(sw) PROVE slots' = slots /\ reply'.to # "SLOT_SET"
  BY <1>1, <1>11 DEF OtherCommand, flashVars
<1>12. QED
  BY <1>3, <1>4, <1>6, <1>7, <1>8, <1>9, <1>10, <1>11 DEF HostCommand

(* Slots change as a review showed, and an acknowledged change was made.   *)
THEOREM SlotsAsShown == Spec => SlotChangesAsShown
<1> DEFINE AsShown ==
      /\ slots' # slots => ReviewOf("app_slot_setSlot")
      /\ slots' # slots \/ (reply'.to = "SLOT_SET" /\ reply'.sw = "OK")
           => slots' = [slots EXCEPT ![tmp_slotIdx] = tmp_slot]
<1>1. ASSUME IInv, Next PROVE AsShown
  <2>1. \A sw : Respond(pending, sw) => reply'.to = pending /\ reply'.sw = sw
    BY DEF Respond
  <2>2. reply' = Silent => reply'.to # "SLOT_SET"
    BY DEF Silent, NoCommand
  <2>3. ASSUME Reviewing, view.accept = "app_slot_setSlot", Store!app_slot_setSlot
        PROVE  AsShown
    BY <2>3 DEF Reviewing, ReviewOf, Store!app_slot_setSlot
  <2>4. CASE HostCommand
    BY <2>4, HostSlotsSafe
  <2>5. CASE h_approve
    <3>1. CASE view.accept = "app_slot_setSlot"
      BY <2>3, <2>5, <3>1 DEF h_approve, app_slot_setSlot
    <3>2. CASE view.accept # "app_slot_setSlot"
      <4>1. pending # "SLOT_SET"
        BY <1>1, <3>2 DEF IInv, Reviews, ReviewAnswersCommand, ReviewOf
      <4>2. slots' = slots /\ reply'.to # "SLOT_SET"
        BY <2>1, <2>2, <2>5, <3>2, <4>1
           DEF h_approve, app_sign, app_sign_message, app_reply_address, menuaddr_return,
               crypto_sign
      <4>3. QED
        BY <4>2
    <3>3. QED
      BY <3>1, <3>2
  <2>6. CASE h_reject \/ view_error_show \/ h_error_accept
    BY <2>1, <2>2, <2>6 DEF h_reject, view_error_show, h_error_accept, flashVars
  <2>7. CASE Menu \/ UsbReset
    BY <2>2, <2>7 DEF Menu, handleMenuShowAddress, h_expert_toggle, UsbReset, flashVars
  <2>8. CASE Restart
    BY <2>2, <2>3, <2>8 DEF Restart
  <2>9. QED
    BY <1>1, <2>4, <2>5, <2>6, <2>7, <2>8 DEF Next, UserAnswer
<1>2. IInv /\ [Next]_vars => [AsShown]_vars
  BY <1>1
<1>3. QED
  BY <1>2, Invariant, PTL DEF Spec, SlotChangesAsShown

(* While a review that owes an answer is open, nothing it shows moves.     *)
THEOREM StableReviews == Spec => ReviewIsStable
<1> DEFINE Stable == AnswersHost /\ AnswersHost' => UNCHANGED <<Displayed, expert, view.accept>>
<1>1. ASSUME IInv, Next PROVE Stable
  <2> SUFFICES ASSUME AnswersHost, AnswersHost'
               PROVE  UNCHANGED <<Displayed, expert, view.accept>>
    OBVIOUS
  <2>1. pending # NoCommand /\ view.screen # "idle"
    BY <1>1 DEF AnswersHost, IInv, TypeOK, Reviews, ScreenHasCallback,
                ReviewAnswersCommand, ReviewOf, NoCommand
  <2>2. ~HostCommand
    BY <2>1 DEF HostCommand, handleGetPubkey, SignInit, SignAdd, SignLast, SignMessage,
                SignMetadata, SignProof, handleGetSlot, handleSetSlot, OtherCommand
  <2>3. ~Menu
    BY <2>1 DEF Menu, handleMenuShowAddress, h_expert_toggle, MenuIdle
  <2>4. ~view_idle_show
    BY DEF AnswersHost, view_idle_show, Idle
  <2>5. view_error_show
    BY <1>1, <2>2, <2>3, <2>4
       DEF Next, UserAnswer, h_approve, h_reject, h_error_accept, UsbReset, Restart
  <2>6. view'.accept = view.accept
    BY <1>1, <2>5 DEF view_error_show, IInv, TypeOK
  <2>7. QED
    BY <2>5, <2>6 DEF view_error_show, Displayed, flashVars, slotVars, keyVars, sessionVars,
                      metaVars, txVars, addrVars, pubkeyVars
<1>2. IInv /\ [Next]_vars => [Stable]_vars
  BY <1>1
<1>3. QED
  BY <1>2, Invariant, PTL DEF Spec, ReviewIsStable
=============================================================================
