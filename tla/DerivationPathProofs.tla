------------------------ MODULE DerivationPathProofs ------------------------
(***************************************************************************)
(* What is proved of derivation paths, for any width of an item.           *)
(***************************************************************************)
EXTENDS DerivationPath, TLAPS

ShownText == [root : BOOLEAN, children : [Depth -> Child]]

(* The printer's threshold lies at or below the bit of the mark.           *)
LEMMA Threshold == PrintedAsHardened \in Nat /\ PrintedAsHardened <= HARDENED
BY HardenedAssumption DEF PrintedAsHardened

(* What a text that passes the checks serializes to fits 32 bits.          *)
LEMMA SerializedItems ==
  ASSUME NEW t \in ShownText, Serializable(t)
  PROVE  /\ serializePath(t) \in [Depth -> Item]
         /\ \A i \in Depth : t.children[i].number >= 0 =>
              (serializePath(t)[i] >= HARDENED <=> t.children[i].marked)
<1>1. ASSUME NEW i \in Depth
      PROVE  /\ ItemOf(t.children[i]) \in Item
             /\ t.children[i].number >= 0 =>
                  (ItemOf(t.children[i]) >= HARDENED <=> t.children[i].marked)
  <2> DEFINE c == t.children[i]
  <2>1. c \in Child BY DEF ShownText
  <2>2. c.number \in Int /\ c.number < HARDENED /\ ItemOf(c) >= 0
    BY <2>1 DEF Child, Serializable, ChildOK
  <2>3. c.marked \in BOOLEAN BY <2>1 DEF Child
  <2> HIDE DEF c
  <2>4. CASE c.marked
    <3>1. ItemOf(c) = HARDENED + c.number BY <2>4 DEF ItemOf
    <3>2. ItemOf(c) \in Item BY <2>2, <3>1, HardenedAssumption DEF Item
    <3>3. c.number >= 0 => ItemOf(c) >= HARDENED BY <2>2, <3>1, HardenedAssumption
    <3> QED BY <2>4, <3>2, <3>3 DEF c
  <2>5. CASE ~c.marked
    <3>1. ItemOf(c) = c.number BY <2>5 DEF ItemOf
    <3>2. ItemOf(c) \in Item BY <2>2, <3>1, HardenedAssumption DEF Item
    <3>3. ~(ItemOf(c) >= HARDENED) BY <2>2, <3>1, HardenedAssumption
    <3> QED BY <2>5, <3>2, <3>3 DEF c
  <2> QED BY <2>3, <2>4, <2>5
<1> QED BY <1>1 DEF serializePath

(* A printed item is typed in as the item it came from, unless misprinted. *)
LEMMA PrintedItem ==
  ASSUME NEW v \in Item
  PROVE  /\ printBIP44Item(v) \in Child
         /\ printBIP44Item(v).number \in 0 .. HARDENED - 1
         /\ ~Misprinted(v) => ItemOf(printBIP44Item(v)) = v
         /\ ItemOf(printBIP44Item(v)) >= 0
<1> DEFINE c == printBIP44Item(v)
<1>1. v \in Int /\ v >= 0 /\ v < 2 * HARDENED BY HardenedAssumption DEF Item
<1>2. c.number = (IF v >= HARDENED THEN v - HARDENED ELSE v) BY DEF printBIP44Item
<1>3. c.marked = (v >= PrintedAsHardened) BY DEF printBIP44Item
<1>4. c.number \in 0 .. HARDENED - 1 BY <1>1, <1>2, HardenedAssumption
<1>5. c \in Child
  <2>1. c.number \in Int \cup {NotANumber} BY <1>4, HardenedAssumption
  <2>2. (v >= PrintedAsHardened) \in BOOLEAN BY <1>1, Threshold
  <2>3. c = [number |-> c.number, marked |-> c.marked] BY DEF printBIP44Item
  <2> HIDE DEF c
  <2> QED BY <1>3, <2>1, <2>2, <2>3 DEF Child
<1> HIDE DEF c
<1>6. CASE v >= HARDENED
  <2>1. c.marked
    <3>1. v >= PrintedAsHardened BY <1>1, <1>6, Threshold, HardenedAssumption
    <3> QED BY <1>3, <3>1
  <2>2. ItemOf(c) = v BY <1>1, <1>2, <1>6, <2>1, HardenedAssumption DEF ItemOf
  <2> QED BY <1>1, <1>4, <1>5, <2>2 DEF c
<1>7. CASE v < HARDENED /\ v >= PrintedAsHardened
  <2>1. c.marked BY <1>3, <1>7
  <2>2. ItemOf(c) = HARDENED + c.number BY <2>1 DEF ItemOf
  <2>3. ItemOf(c) >= 0 BY <1>4, <2>2, HardenedAssumption
  <2>4. Misprinted(v) BY <1>1, <1>7, Threshold, HardenedAssumption DEF Misprinted
  <2> QED BY <1>4, <1>5, <2>3, <2>4 DEF c
<1>8. CASE v < HARDENED /\ ~(v >= PrintedAsHardened)
  <2>1. ~c.marked BY <1>3, <1>8
  <2>2. ItemOf(c) = v BY <1>1, <1>2, <1>8, <2>1, HardenedAssumption DEF ItemOf
  <2> QED BY <1>1, <1>4, <1>5, <2>2 DEF c
<1> QED BY <1>1, <1>6, <1>7, <1>8, HardenedAssumption

-----------------------------------------------------------------------------
(* Types, and that shown is the print of the slot.                         *)
ShownIsPrinted ==
  /\ TypeOK
  /\ shown # None => slot # None /\ shown = printBIP44Path(slot)

LEMMA PathTypes ==
  ASSUME NEW p \in [Depth -> Item] PROVE printBIP44Path(p) \in ShownText
<1>1. [i \in Depth |-> printBIP44Item(p[i])] \in [Depth -> Child] BY PrintedItem
<1> QED BY <1>1 DEF printBIP44Path, ShownText

LEMMA PathsInductive == Spec => []ShownIsPrinted
<1>1. Init => ShownIsPrinted
  BY TextAssumption DEF Init, ShownIsPrinted, TypeOK
<1>2. ShownIsPrinted /\ [Next]_vars => ShownIsPrinted'
  <2> SUFFICES ASSUME ShownIsPrinted, [Next]_vars PROVE ShownIsPrinted' OBVIOUS
  <2>1. CASE setSlot
    <3>1. text \in ShownText BY DEF ShownIsPrinted, TypeOK, ShownText
    <3>2. serializePath(text) \in [Depth -> Item] BY <2>1, <3>1, SerializedItems DEF setSlot
    <3>3. slot' \in [Depth -> Item] \cup {None} BY <2>1, <3>2 DEF setSlot
    <3>4. shown' = None /\ text' = text BY <2>1 DEF setSlot
    <3> QED BY <3>3, <3>4 DEF ShownIsPrinted, TypeOK
  <2>2. CASE getSlot
    <3>1. slot \in [Depth -> Item] BY <2>2 DEF getSlot, ShownIsPrinted, TypeOK
    <3>2. printBIP44Path(slot) \in ShownText BY <3>1, PathTypes
    <3> QED BY <2>2, <3>2 DEF getSlot, ShownIsPrinted, TypeOK, ShownText
  <2>3. CASE Retype
    <3>1. shown \in ShownText BY <2>3 DEF Retype, ShownIsPrinted, TypeOK, ShownText
    <3> QED BY <2>3, <3>1 DEF Retype, ShownIsPrinted, TypeOK, ShownText
  <2>4. CASE UNCHANGED vars BY <2>4 DEF vars, ShownIsPrinted, TypeOK
  <2> QED BY <2>1, <2>2, <2>3, <2>4 DEF Next
<1> QED BY <1>1, <1>2, PTL DEF Spec

(* Whatever is typed, stored, printed and typed again, a slot holds 32-bit *)
(* items (serializePath.js, account.c).                                    *)
THEOREM PathTypeCorrect == Spec => []TypeOK
<1>1. ShownIsPrinted => TypeOK BY DEF ShownIsPrinted
<1> QED BY <1>1, PathsInductive, PTL

(* A printed path names the slot's key again (printBIP44Path against       *)
(* serializePath), except at items from 0x8000000 on that are not hardened.*)
THEOREM PrintedPathNamesSlot == Spec => []ShownNamesSlot
<1>1. ShownIsPrinted => ShownNamesSlot
  <2> SUFFICES ASSUME ShownIsPrinted, shown # None
               PROVE  /\ Serializable(shown)
                      /\ \A i \in Depth : ~Misprinted(slot[i]) => serializePath(shown)[i] = slot[i]
    BY DEF ShownNamesSlot
  <2>1. slot \in [Depth -> Item] /\ shown = printBIP44Path(slot)
    BY DEF ShownIsPrinted, TypeOK
  <2>2. shown.root /\ \A i \in Depth : shown.children[i] = printBIP44Item(slot[i])
    BY <2>1 DEF printBIP44Path
  <2>3. ASSUME NEW i \in Depth
        PROVE  /\ ChildOK(shown.children[i]) /\ ItemOf(shown.children[i]) >= 0
               /\ ~Misprinted(slot[i]) => ItemOf(shown.children[i]) = slot[i]
    <3>1. slot[i] \in Item BY <2>1
    <3>2. printBIP44Item(slot[i]).number \in 0 .. HARDENED - 1 BY <3>1, PrintedItem
    <3>3. ChildOK(printBIP44Item(slot[i]))
      <4>1. printBIP44Item(slot[i]).number \in Int BY <3>2, HardenedAssumption
      <4>2. printBIP44Item(slot[i]).number < HARDENED BY <3>2, HardenedAssumption
      <4> QED BY <4>1, <4>2, TextAssumption DEF ChildOK
    <3> QED BY <2>2, <3>1, <3>3, PrintedItem
  <2> QED BY <2>2, <2>3 DEF Serializable, serializePath
<1> QED BY <1>1, PathsInductive, PTL

(* A key is stored as hardened exactly where its text has a mark           *)
(* (serializePath.js:40), for children that are not negative.              *)
THEOREM MarksAreStored == Spec => MarkedIsHardened
<1> DEFINE A == slot' # slot /\ slot' # None =>
                  \A i \in Depth : text.children[i].number >= 0 =>
                    (slot'[i] >= HARDENED <=> text.children[i].marked)
<1>1. ShownIsPrinted /\ [Next]_vars => [A]_vars
  <2> SUFFICES ASSUME ShownIsPrinted, [Next]_vars, slot' # slot, slot' # None PROVE A
    BY DEF vars
  <2>1. setSlot BY DEF Next, getSlot, Retype, vars
  <2>2. slot' = serializePath(text) /\ Serializable(text) BY <2>1 DEF setSlot
  <2>3. text \in ShownText BY DEF ShownIsPrinted, TypeOK, ShownText
  <2> QED BY <2>2, <2>3, SerializedItems
<1> HIDE DEF A
<1>2. Spec => [][A]_vars BY <1>1, PathsInductive, PTL DEF Spec
<1> QED BY <1>2 DEF A, MarkedIsHardened
=============================================================================
