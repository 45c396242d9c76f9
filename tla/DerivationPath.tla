--------------------------- MODULE DerivationPath ---------------------------
(***************************************************************************)
(* Derivation paths on their way through the client: a text is parsed to   *)
(* five 32-bit items (js/src/serializePath.js), stored in a slot if its    *)
(* prefix is right (account.c), read back and printed.  A printed path may *)
(* be typed in again.                                                      *)
(***************************************************************************)
EXTENDS Integers

CONSTANTS
  HARDENED,    (* 2^31 in the code                                         *)
  Prefix,      (* pairs of items that open a mainnet or testnet path       *)
  Text,        (* paths a caller may type                                  *)
  NotANumber,  (* what Number() makes of most texts                        *)
  None

ASSUME HardenedAssumption == HARDENED \in Nat /\ HARDENED >= 16 /\ HARDENED % 16 = 0

Depth == 1..5
Child == [number : Int \cup {NotANumber}, marked : BOOLEAN]
Item  == 0 .. 2 * HARDENED - 1

(* A text: does it start with m, and its children.  A child is what        *)
(* Number() reads in it: a hexadecimal text or one with an exponent is its *)
(* number, an empty one is 0.  Numbers with a fraction and infinities are  *)
(* left out.                                                               *)
ASSUME TextAssumption ==
  /\ NotANumber \notin Int
  /\ Text \subseteq [root : BOOLEAN, children : [Depth -> Child]]
  /\ Prefix \subseteq Item \X Item
  /\ None \notin [Depth -> Item] \cup [root : BOOLEAN, children : [Depth -> Child]]

VARIABLES
  text,   (* the path the caller has at hand                               *)
  slot,   (* the path of the slot, None if it is empty                     *)
  shown   (* the path getSlot has returned for this slot                   *)

vars == <<text, slot, shown>>

-----------------------------------------------------------------------------
(* Mutant: a child number may reach 2^31.                                  *)
ChildOK_OffByOne(c) == c.number # NotANumber /\ c.number <= HARDENED

(* serializePath.  A child number below zero passes, and writeUInt32LE     *)
(* refuses it only when no mark has lifted it above zero.                  *)
ChildOK(c) == c.number # NotANumber /\ c.number < HARDENED

ItemOf(c) == IF c.marked THEN HARDENED + c.number ELSE c.number

(* Mutant: the range of the number is not checked.                         *)
Serializable_NoRange(t) ==
  t.root /\ \A i \in Depth : t.children[i].number # NotANumber

Serializable(t) ==
  /\ t.root
  /\ \A i \in Depth : ChildOK(t.children[i]) /\ ItemOf(t.children[i]) >= 0

serializePath(t) == [i \in Depth |-> ItemOf(t.children[i])]

(* printBIP44Item compares with 0x8000000, a zero short of HARDENED.       *)
PrintedAsHardened == HARDENED \div 16

(* Mutant: the bit of the mark stays in the number.                        *)
printBIP44Item_NoMask(v) == [number |-> v, marked |-> v >= PrintedAsHardened]

printBIP44Item(v) ==
  [number |-> IF v >= HARDENED THEN v - HARDENED ELSE v,
   marked |-> v >= PrintedAsHardened]

printBIP44Path(p) == [root |-> TRUE, children |-> [i \in Depth |-> printBIP44Item(p[i])]]

-----------------------------------------------------------------------------
Init ==
  /\ text \in Text
  /\ slot = None
  /\ shown = None

(* setSlot, accepted by the user: slot_parseSlot looks at two items only.  *)
setSlot ==
  /\ Serializable(text)
  /\ LET p == serializePath(text)
     IN  \/ /\ <<p[1], p[2]>> \in Prefix
            /\ slot' = p
         \/ /\ <<p[1], p[2]>> = <<0, 0>>
            /\ slot' = None
  /\ shown' = None
  /\ UNCHANGED text

getSlot ==
  /\ slot # None
  /\ shown' = printBIP44Path(slot)
  /\ UNCHANGED <<text, slot>>

(* The caller goes on with the path as it was printed.                     *)
Retype ==
  /\ shown # None
  /\ text' = shown
  /\ UNCHANGED <<slot, shown>>

Next == setSlot \/ getSlot \/ Retype

Spec == Init /\ [][Next]_vars

-----------------------------------------------------------------------------
TypeOK ==
  /\ text \in [root : BOOLEAN, children : [Depth -> Child]]
  /\ slot \in [Depth -> Item] \cup {None}
  /\ shown \in [root : BOOLEAN, children : [Depth -> Child]] \cup {None}

(* Items the printer marks although they are not hardened.                 *)
Misprinted(v) == v \in PrintedAsHardened .. HARDENED - 1

(* What getSlot prints names the key the slot holds, when it is given to   *)
(* the client again, except where an item is misprinted.                   *)
ShownNamesSlot ==
  shown # None =>
    /\ Serializable(shown)
    /\ \A i \in Depth : ~Misprinted(slot[i]) => serializePath(shown)[i] = slot[i]

(* A stored item is hardened exactly where the text had a mark, as long as *)
(* no child is below zero: -1' is stored as the item 2^31 - 1.             *)
MarkedIsHardened ==
  [][slot' # slot /\ slot' # None =>
       \A i \in Depth : text.children[i].number >= 0 =>
         (slot'[i] >= HARDENED <=> text.children[i].marked)]_vars

(* js/test/test.js:86 reads back the path that the bytes of the slot name: *)
(* what is printed is what was typed.                                      *)
DocShownIsTyped ==
  [][getSlot => \A i \in Depth : shown'.children[i].marked <=> slot[i] >= HARDENED]_vars
=============================================================================
