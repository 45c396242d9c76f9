-------------------------------- MODULE Slots --------------------------------
(***************************************************************************)
(* The account slots (src/src/account.c): a table in flash of Flow         *)
(* accounts with the derivation path and the algorithms of their key.  The *)
(* host reads a slot freely and writes one through tmp_slot, a buffer that *)
(* holds what the user is asked to accept.                                 *)
(***************************************************************************)
CONSTANTS
  SlotIdx,   (* 0 .. SLOT_COUNT-1                                          *)
  Path,      (* derivation paths under the mainnet or the testnet prefix   *)
  BadPath,   (* one that is not                                            *)
  NoPath,    (* the path of zeros, the mark of an empty slot               *)
  Account,   (* account addresses                                          *)
  Options    (* signature and hash algorithms                              *)

VARIABLES
  slots,        (* N_slot_store, kept in flash                             *)
  tmp_slotIdx,
  tmp_slot,
  tmp_slotop

Slot   == [account : Account, path : Path \cup {BadPath, NoPath}, options : Options]
Stored == [account : Account, path : Path \cup {NoPath}, options : Options]

TypeOK ==
  /\ slots \in [SlotIdx -> Stored]
  /\ tmp_slot \in Slot
  /\ tmp_slotop \in {"SLOT_OP_SET", "SLOT_OP_UPDATE", "SLOT_UP_DELETE"}

slot_is_empty(slot) == slot.path = NoPath

-----------------------------------------------------------------------------
(* handleGetSlot: a slot that holds an account is read through tmp_slot.   *)
slot_getSlot(i) ==
  /\ tmp_slot' = IF slot_is_empty(slots[i]) THEN tmp_slot ELSE slots[i]
  /\ UNCHANGED <<slots, tmp_slotIdx, tmp_slotop>>

IndexOK(i)   == i \in SlotIdx
PathOK(slot) == slot.path # BadPath

(* Mutant: the operation is taken from the new slot alone.                 *)
SlotOp_NewSlotOnly(i, slot) ==
  IF slot_is_empty(slot) THEN "SLOT_UP_DELETE" ELSE "SLOT_OP_UPDATE"

SlotOp(i, slot) ==
  IF slot_is_empty(slots[i]) THEN "SLOT_OP_SET"
  ELSE IF slot_is_empty(slot) THEN "SLOT_UP_DELETE"
  ELSE "SLOT_OP_UPDATE"

(* What slot_parseSlot leaves behind, whether it fails or not.             *)
slot_parseSlot(i, slot) ==
  /\ tmp_slotIdx' = i
  /\ tmp_slot' = IF IndexOK(i) THEN slot ELSE tmp_slot
  /\ tmp_slotop' = IF IndexOK(i) /\ PathOK(slot) THEN SlotOp(i, slot) ELSE tmp_slotop
  /\ UNCHANGED slots

slot_parseOK(i, slot) == IndexOK(i) /\ PathOK(slot)

(* Mutant: an emptied slot is not written back.                            *)
app_slot_setSlot_NoDelete ==
  slots' = IF slot_is_empty(tmp_slot) THEN slots
           ELSE [slots EXCEPT ![tmp_slotIdx] = tmp_slot]

(* The write of app_slot_setSlot.                                          *)
app_slot_setSlot == slots' = [slots EXCEPT ![tmp_slotIdx] = tmp_slot]
=============================================================================
