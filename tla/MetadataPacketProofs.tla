------------------------ MODULE MetadataPacketProofs ------------------------
(***************************************************************************)
(* For every size of hashes and packets and every limit: a packet that is  *)
(* accepted lists the script, although byteIdx wraps, and the packet of a  *)
(* template, whatever its name and its arguments, is read back as it was   *)
(* written or refused.  The arguments are gone through by induction.       *)
(***************************************************************************)
EXTENDS MetadataPacket, SequenceTheorems, WellFoundedInduction, TLAPS

(* A string that is read has begun inside the packet.                      *)
LEMMA StringInside ==
  ASSUME NEW b, NEW p \in Nat, Len(b) \in Nat, READ_STRING(b, p) < Len(b)
  PROVE  p < Len(b)
<1>1. Ends(b, p) # {} BY DEF READ_STRING, Fail
<1>2. PICK e \in p .. Len(b) - 1 : TRUE BY <1>1 DEF Ends
<1> QED BY <1>2

(* Before the end of the last of n hashes of h bytes is room for each byte *)
(* of each of them.                                                        *)
LEMMA HashOffset ==
  ASSUME NEW h \in Nat, NEW n \in Nat, NEW i \in 0..n-1, NEW j \in 1..h
  PROVE  i * h + j \in Nat /\ i * h + j <= n * h
<1>1. i \in Nat /\ n - 1 - i \in Nat /\ j \in Nat OBVIOUS
<1> DEFINE d == n - 1 - i
<1>2. n = i + 1 + d BY <1>1
<1>3. d \in Nat BY <1>1
<1> HIDE DEF d
<1>4. n * h = i * h + h + d * h BY <1>1, <1>2, <1>3
<1>5. i * h \in Nat /\ d * h \in Nat BY <1>1, <1>3
<1> QED BY <1>1, <1>4, <1>5

(* A packet that the parser takes lists the script.                        *)
LEMMA ParsedIsListed ==
  ASSUME NEW b \in Seq(Byte), Len(b) < IndexRange, NEW s,
         parseTxMetadataInternal(b, s)
  PROVE  \E i \in 0 .. At(b, 0) - 1 : \A j \in 1..HASH_SIZE :
           i * HASH_SIZE + j < Len(b) /\ At(b, i * HASH_SIZE + j) = s[j]
<1> DEFINE n == At(b, 0)
<1>1. Len(b) \in Nat /\ Len(b) > 0 /\ n \in Nat /\ HASH_SIZE \in Nat /\ IndexRange \in Nat
  <2>1. Len(b) \in Nat /\ Len(b) > 0 BY DEF parseTxMetadataInternal
  <2>2. b[1] \in Byte BY <2>1
  <2>3. At(b, 0) = b[1] BY DEF At
  <2> QED BY <2>1, <2>2, <2>3, PacketAssumption
<1>2. n * HASH_SIZE + 1 < Len(b)
  <2>1. n * HASH_SIZE \in Nat BY <1>1
  <2>2. AfterHashes(b) = n * HASH_SIZE + 1 /\ AfterHashes(b) \in Nat
    BY <2>1 DEF AfterHashes, READ_SKIP
  <2>3. READ_STRING(b, AfterHashes(b)) < Len(b)
    BY DEF parseTxMetadataInternal, AfterName
  <2> HIDE DEF n
  <2> QED BY <1>1, <2>2, <2>3, StringInside
<1>3. PICK i \in 0 .. n - 1 : Wrong(b, s, i) = {}
  BY DEF parseTxMetadataInternal, _validateScriptHash
<1>4. ASSUME NEW j \in 1..HASH_SIZE
      PROVE  i * HASH_SIZE + j < Len(b) /\ At(b, i * HASH_SIZE + j) = s[j]
  <2> HIDE DEF n
  <2>1. i * HASH_SIZE + j \in Nat /\ i * HASH_SIZE + j <= n * HASH_SIZE
    BY <1>1, HashOffset
  <2>2. i * HASH_SIZE \in Nat /\ n * HASH_SIZE \in Nat BY <1>1
  <2>3. i * HASH_SIZE + j < Len(b) BY <1>1, <1>2, <2>1, <2>2
  <2>4. byteIdx(i, j) = i * HASH_SIZE + j
    <3>1. 1 + i * HASH_SIZE + (j - 1) = i * HASH_SIZE + j BY <1>1, <2>2
    <3>2. i * HASH_SIZE + j < IndexRange BY <1>1, <2>1, <2>3
    <3> DEFINE m == i * HASH_SIZE + j
    <3>3. m \in Nat /\ m < IndexRange => m % IndexRange = m BY <1>1
    <3> QED BY <2>1, <3>1, <3>2, <3>3 DEF byteIdx
  <2>5. ~(byteIdx(i, j) >= Len(b) \/ At(b, byteIdx(i, j)) # s[j])
    BY <1>3 DEF Wrong
  <2> QED BY <2>3, <2>4, <2>5
<1> QED BY <1>3, <1>4

(* What a step leaves in result.                                           *)
ResultIsParsed ==
  /\ packet \in Seq(Byte)
  /\ Len(packet) < IndexRange
  /\ result = "ok" => parseTxMetadataInternal(packet, script)

(* The wrap of byteIdx (tx_metadata.c:38) never lets a packet pass for a   *)
(* script it does not list, whatever the sizes of hashes and packets.      *)
THEOREM PacketListsScript == Spec => []AcceptedIsListed
<1>1. Init => ResultIsParsed
  <2> SUFFICES ASSUME Init PROVE ResultIsParsed OBVIOUS
  <2>1. packet \in Seq(Byte) /\ Len(packet) <= MAX_LENGTH
    BY PacketAssumption, GeneratorAssumption DEF Init
  <2>2. Len(packet) \in Nat BY <2>1
  <2> QED BY <2>1, <2>2, PacketAssumption DEF Init, ResultIsParsed
<1>2. ResultIsParsed /\ [parseTxMetadata]_vars => ResultIsParsed'
  BY DEF ResultIsParsed, parseTxMetadata, vars
<1>3. ResultIsParsed => AcceptedIsListed
  BY ParsedIsListed DEF ResultIsParsed, AcceptedIsListed
<1> QED BY <1>1, <1>2, <1>3, PTL DEF Spec

-----------------------------------------------------------------------------
(* A set of naturals has a least element, and one that has 0 and, with     *)
(* each, the next has them all.                                            *)
LEMMA LeastNatural ==
  ASSUME NEW T, T \subseteq Nat, T # {}
  PROVE  \E x \in T : \A y \in T : x <= y
<1> DEFINE R == {ss \in Nat \X Nat : ss[1] < ss[2]}
<1>1. IsWellFoundedOn(R, Nat) BY NatLessThanWellFounded DEF OpToRel
<1>2. \A y, x \in Nat : y < x => <<y, x>> \in R OBVIOUS
<1> HIDE DEF R
<1>3. PICK x \in T : \A y \in T : ~ (<<y, x>> \in R) BY <1>1, WFMin
<1>4. \A y \in T : ~ (y < x) BY <1>2, <1>3
<1> QED BY <1>3, <1>4

LEMMA SetInduction ==
  ASSUME NEW T, 0 \in T, \A n \in Nat : n \in T => n + 1 \in T
  PROVE  Nat \subseteq T
<1> SUFFICES ASSUME ~(Nat \subseteq T) PROVE FALSE OBVIOUS
<1> DEFINE U == {n \in Nat : n \notin T}
<1>1. PICK x \in U : \A y \in U : x <= y BY LeastNatural
<1>2. x # 0 BY <1>1
<1>3. x - 1 \in Nat /\ x - 1 \notin U BY <1>1, <1>2
<1> QED BY <1>1, <1>3

(* There is a function on 0..n that begins with a and goes on with step.   *)
Iterates(f, n, a, step) ==
  f = [i \in 0..n |-> IF i = 0 THEN a ELSE step[<<f[i-1], i>>]]

LEMMA IterationExists ==
  ASSUME NEW S, NEW a \in S, NEW n \in Nat, NEW step \in [S \X (1..n) -> S]
  PROVE  \E f \in [0..n -> S] : Iterates(f, n, a, step)
<1> DEFINE Upto(k, f) == \A i \in 0..k : f[i] = IF i = 0 THEN a ELSE step[<<f[i-1], i>>]
           T == {k \in Nat : k <= n => \E f \in [0..k -> S] : Upto(k, f)}
<1>1. 0 \in T
  <2>1. [i \in 0..0 |-> a] \in [0..0 -> S] /\ Upto(0, [i \in 0..0 |-> a]) OBVIOUS
  <2> QED BY <2>1
<1>2. ASSUME NEW k \in Nat, k \in T PROVE k + 1 \in T
  <2> SUFFICES ASSUME k + 1 <= n PROVE \E f \in [0..k+1 -> S] : Upto(k + 1, f) OBVIOUS
  <2>1. PICK f \in [0..k -> S] : Upto(k, f) BY <1>2
  <2> DEFINE g == [i \in 0..k+1 |-> IF i <= k THEN f[i] ELSE step[<<f[k], k + 1>>]]
  <2>2. f[k] \in S /\ k + 1 \in 1..n BY <2>1
  <2>3. step[<<f[k], k + 1>>] \in S BY <2>2
  <2>4. g \in [0..k+1 -> S] BY <2>1, <2>3
  <2>5. Upto(k + 1, g)
    <3> SUFFICES ASSUME NEW i \in 0..k+1
                 PROVE  g[i] = IF i = 0 THEN a ELSE step[<<g[i-1], i>>]
      OBVIOUS
    <3>1. CASE i = 0
      <4>1. g[i] = f[0] BY <3>1
      <4>2. 0 \in 0..k OBVIOUS
      <4>3. f[0] = IF 0 = 0 THEN a ELSE step[<<f[0-1], 0>>] BY <2>1, <4>2, Zenon
      <4> QED BY <3>1, <4>1, <4>3
    <3>2. CASE i # 0 /\ i <= k
      <4>1. g[i] = f[i] /\ g[i-1] = f[i-1] BY <3>2
      <4>2. f[i] = step[<<f[i-1], i>>] BY <2>1, <3>2
      <4> QED BY <3>2, <4>1, <4>2
    <3>3. CASE i = k + 1
      <4>1. g[i] = step[<<f[k], k + 1>>] /\ g[i-1] = f[k] /\ i # 0 BY <3>3
      <4> HIDE DEF g
      <4>2. step[<<g[i-1], i>>] = step[<<f[k], k + 1>>] BY <3>3, <4>1
      <4> QED BY <4>1, <4>2
    <3> QED BY <3>1, <3>2, <3>3
  <2> QED BY <2>4, <2>5
<1>3. Nat \subseteq T BY <1>1, <1>2, SetInduction
<1>4. PICK f \in [0..n -> S] : Upto(n, f) BY <1>3
<1>5. f = [i \in 0..n |-> IF i = 0 THEN a ELSE step[<<f[i-1], i>>]] BY <1>4
<1> QED BY <1>5 DEF Iterates

-----------------------------------------------------------------------------
(* The bytes s are in b from position p on.                                *)
Holds(b, p, s) == p + Len(s) <= Len(b) /\ \A k \in 1..Len(s) : b[p + k] = s[k]

LEMMA HoldsConcat ==
  ASSUME NEW b \in Seq(Nat), NEW p \in Nat, NEW s \in Seq(Nat), NEW t \in Seq(Nat),
         Holds(b, p, s \o t)
  PROVE  Holds(b, p, s) /\ Holds(b, p + Len(s), t)
<1>1. Len(s) \in Nat /\ Len(t) \in Nat /\ Len(b) \in Nat /\ Len(s \o t) = Len(s) + Len(t)
  OBVIOUS
<1>2. ASSUME NEW k \in 1..Len(s) PROVE b[p + k] = s[k]
  <2>1. k \in 1..Len(s \o t) /\ (s \o t)[k] = s[k] BY <1>1
  <2> QED BY <2>1 DEF Holds
<1>3. ASSUME NEW k \in 1..Len(t) PROVE b[p + Len(s) + k] = t[k]
  <2>1. Len(s) + k \in 1..Len(s \o t) /\ (s \o t)[Len(s) + k] = t[k] BY <1>1
  <2>2. b[p + (Len(s) + k)] = t[k] BY <2>1 DEF Holds
  <2>3. p + (Len(s) + k) = p + Len(s) + k BY <1>1
  <2> QED BY <2>2, <2>3
<1>4. p + (Len(s) + Len(t)) <= Len(b) BY <1>1 DEF Holds
<1> QED BY <1>1, <1>2, <1>3, <1>4 DEF Holds

LEMMA Concatenated ==
  ASSUME NEW s \in Seq(Nat), NEW t \in Seq(Nat)
  PROVE  s \o t \in Seq(Nat) /\ Len(s \o t) = Len(s) + Len(t)
<1> QED OBVIOUS

LEMMA HoldsOne ==
  ASSUME NEW b \in Seq(Nat), NEW p \in Nat, NEW x, Holds(b, p, <<x>>)
  PROVE  p < Len(b) /\ At(b, p) = x
<1> QED BY DEF Holds, At

LEMMA HoldsTwo ==
  ASSUME NEW b \in Seq(Nat), NEW p \in Nat, NEW x, NEW y, Holds(b, p, <<x, y>>)
  PROVE  p + 1 < Len(b) /\ At(b, p) = x /\ At(b, p + 1) = y
<1>1. Len(<<x, y>>) = 2 /\ <<x, y>>[1] = x /\ <<x, y>>[2] = y OBVIOUS
<1>2. p + 2 <= Len(b) /\ b[p + 1] = x /\ b[p + 2] = y BY <1>1 DEF Holds
<1> QED BY <1>2 DEF At

LEMMA LabelBytes == Label \subseteq Seq(Nat) /\ \A s \in Label : \A k \in 1..Len(s) : s[k] # 0
<1> SUFFICES ASSUME NEW s \in Seq(Byte \ {0})
             PROVE  s \in Seq(Nat) /\ \A k \in 1..Len(s) : s[k] # 0
  BY DEF Label
<1>1. \A k \in 1..Len(s) : s[k] \in Byte \ {0} OBVIOUS
<1>2. Byte \ {0} \subseteq Nat BY PacketAssumption
<1>3. s \in Seq(Nat) BY <1>2, SeqMonotonic
<1> QED BY <1>1, <1>3

(* A text followed by a 0 is read whole, or not at all if it is too long.  *)
LEMMA StringRead ==
  ASSUME NEW b \in Seq(Nat), NEW p \in Nat, NEW s \in Label, Holds(b, p, s),
         p + Len(s) < Len(b), At(b, p + Len(s)) = 0
  PROVE  /\ READ_STRING(b, p) = IF Len(s) <= MAX_STRING THEN p + Len(s) + 1 ELSE Fail(b)
         /\ SubSeq(b, p + 1, p + Len(s)) = s
<1>1. /\ s \in Seq(Nat) /\ Len(s) \in Nat /\ Len(b) \in Nat /\ MAX_STRING \in Nat
      /\ \A k \in 1..Len(s) : s[k] # 0
  BY LabelBytes, PacketAssumption
<1> DEFINE z == p + Len(s)
<1>2. \A q \in p .. z-1 : At(b, q) # 0
  <2> SUFFICES ASSUME NEW q \in p .. z-1 PROVE At(b, q) # 0 OBVIOUS
  <2>1. q + 1 - p \in 1..Len(s) /\ p + (q + 1 - p) = q + 1 BY <1>1
  <2>2. b[q + 1] = s[q + 1 - p] BY <2>1 DEF Holds
  <2> QED BY <1>1, <2>1, <2>2 DEF At
<1>3. z \in Nat /\ z < Len(b) /\ At(b, z) = 0 /\ z >= p BY <1>1
<1>4. ASSUME NEW e \in Ends(b, p) PROVE e = z /\ Len(s) <= MAX_STRING
  <2>1. /\ e \in p .. Len(b)-1 /\ At(b, e) = 0 /\ e <= p + MAX_STRING
        /\ \A q \in p .. e-1 : At(b, q) # 0
    BY DEF Ends
  <2> HIDE DEF z
  <2>2. ~(e < z) BY <1>1, <1>2, <1>3, <2>1
  <2>3. ~(z < e) BY <1>1, <1>3, <2>1
  <2>4. e = z BY <1>3, <2>1, <2>2, <2>3
  <2> QED BY <1>1, <2>1, <2>4 DEF z
<1>5. Len(s) <= MAX_STRING => z \in Ends(b, p) BY <1>1, <1>2, <1>3 DEF Ends
<1>6. READ_STRING(b, p) = IF Len(s) <= MAX_STRING THEN z + 1 ELSE Fail(b)
  <2>1. CASE Len(s) <= MAX_STRING
    <3>1. Ends(b, p) = {z} BY <1>4, <1>5, <2>1
    <3>2. (CHOOSE e \in Ends(b, p) : TRUE) = z BY <3>1
    <3> QED BY <2>1, <3>1, <3>2 DEF READ_STRING
  <2>2. CASE ~(Len(s) <= MAX_STRING)
    <3>1. Ends(b, p) = {} BY <1>4, <2>2
    <3> QED BY <2>2, <3>1 DEF READ_STRING
  <2> QED BY <2>1, <2>2
<1>7. SubSeq(b, p + 1, p + Len(s)) = s
  <2> DEFINE c == SubSeq(b, p + 1, p + Len(s))
  <2>1. p + 1 \in 1..Len(b)+1 /\ p + Len(s) \in 0..Len(b) BY <1>1
  <2>2. c \in Seq(Nat) /\ Len(c) = Len(s) BY <1>1, <2>1
  <2>3. ASSUME NEW k \in 1..Len(s) PROVE c[k] = s[k]
    <3>1. c[k] = b[p + 1 + k - 1] BY <1>1, <2>1
    <3>2. p + 1 + k - 1 = p + k BY <1>1
    <3> QED BY <3>1, <3>2 DEF Holds
  <2> HIDE DEF c
  <2>4. c = s BY <1>1, <2>2, <2>3, SeqEqual
  <2> QED BY <2>4 DEF c
<1> QED BY <1>6, <1>7

(* Nothing is read past the end.                                           *)
LEMMA NothingPastEnd ==
  ASSUME NEW b, Len(b) \in Nat, NEW p \in Nat, p >= Len(b)
  PROVE  /\ READ_CHAR(b, p) = Fail(b) /\ READ_STRING(b, p) = Fail(b)
         /\ ReadArgument(b, p) = Fail(b)
<1>1. Ends(b, p) = {} BY DEF Ends
<1> QED BY <1>1 DEF READ_CHAR, READ_STRING, ReadArgument

-----------------------------------------------------------------------------
(* An argument of a template that the device has room for.                 *)
Fits(a) == Len(a.label) <= MAX_STRING /\ Len(a.type) <= MAX_STRING

(* What processArg writes before the label and behind the index.           *)
Bounds(a) == IF a.kind = ARRAY THEN <<0, MAX_ARRAY_LENGTH>> ELSE <<>>
TypeOf(a) == IF a.kind \in Typed THEN a.type \o <<0, JSMN_STRING>> ELSE <<>>

LEMMA ArgumentBytes ==
  ASSUME NEW a \in Argument, NEW idx \in Nat
  PROVE  /\ a.kind \in Kind /\ a.label \in Label /\ a.type \in Label
         /\ a.label \in Seq(Nat) /\ a.type \in Seq(Nat)
         /\ a.kind \notin Typed => a.type = <<>>
         /\ a = [kind |-> a.kind, label |-> a.label, type |-> a.type]
         /\ <<a.kind>> \in Seq(Nat) /\ Bounds(a) \in Seq(Nat) /\ TypeOf(a) \in Seq(Nat)
         /\ <<0, idx>> \in Seq(Nat)
         /\ processArg(a, idx) \in Seq(Nat)
         /\ processArg(a, idx) = <<a.kind>> \o Bounds(a) \o a.label \o <<0, idx>> \o TypeOf(a)
<1>1. <<>> \in Label BY DEF Label
<1>2. /\ a.kind \in Kind /\ a.label \in Label /\ a.type \in Label
      /\ a.kind \notin Typed => a.type = <<>>
      /\ a = [kind |-> a.kind, label |-> a.label, type |-> a.type]
  BY <1>1 DEF Argument, Kind, Typed, ARRAY
<1>3. a.label \in Seq(Nat) /\ a.type \in Seq(Nat) BY <1>2, LabelBytes
<1>4. <<a.kind>> \in Seq(Nat) BY <1>2 DEF Kind
<1>5. Bounds(a) \in Seq(Nat) BY PacketAssumption DEF Bounds
<1>6. TypeOf(a) \in Seq(Nat) BY <1>3, PacketAssumption DEF TypeOf
<1>7. processArg(a, idx) = <<a.kind>> \o Bounds(a) \o a.label \o <<0, idx>> \o TypeOf(a)
  BY DEF processArg, Bounds, TypeOf
<1>8. <<0, idx>> \in Seq(Nat) OBVIOUS
<1>9. processArg(a, idx) \in Seq(Nat) BY <1>3, <1>4, <1>5, <1>6, <1>7, <1>8
<1> QED BY <1>2, <1>3, <1>4, <1>5, <1>6, <1>7, <1>8, <1>9

(* Where the label of an argument at p begins, and where its 0 is.         *)
LabelAt(a, p)  == IF a.kind = ARRAY THEN p + 3 ELSE p + 1
LabelEnd(a, p) == LabelAt(a, p) + Len(a.label)

(* The parts of an argument, each behind the one before.                   *)
LEMMA ArgumentParts ==
  ASSUME NEW b \in Seq(Nat), NEW p \in Nat, NEW a \in Argument, NEW idx \in Nat,
         Holds(b, p, processArg(a, idx))
  PROVE  /\ LabelAt(a, p) \in Nat /\ LabelEnd(a, p) \in Nat
         /\ LabelEnd(a, p) = LabelAt(a, p) + Len(a.label)
         /\ Holds(b, p, <<a.kind>>)
         /\ Holds(b, p + 1, Bounds(a))
         /\ Holds(b, LabelAt(a, p), a.label)
         /\ Holds(b, LabelEnd(a, p), <<0, idx>>)
         /\ Holds(b, LabelEnd(a, p) + 2, TypeOf(a))
         /\ p + Len(processArg(a, idx)) = LabelEnd(a, p) + 2 + Len(TypeOf(a))
<1> DEFINE s1 == <<a.kind>>
           s2 == s1 \o Bounds(a)
           s3 == s2 \o a.label
           s4 == s3 \o <<0, idx>>
<1>1. /\ s1 \in Seq(Nat) /\ Bounds(a) \in Seq(Nat) /\ a.label \in Seq(Nat)
      /\ <<0, idx>> \in Seq(Nat) /\ TypeOf(a) \in Seq(Nat)
      /\ processArg(a, idx) = s4 \o TypeOf(a)
  BY ArgumentBytes
<1>2. s2 \in Seq(Nat) /\ Len(s2) = 1 + Len(Bounds(a)) BY <1>1
<1> HIDE DEF s1, s2
<1>3. s3 \in Seq(Nat) /\ Len(s3) = Len(s2) + Len(a.label) BY <1>1, <1>2, Concatenated
<1> HIDE DEF s3
<1>4. s4 \in Seq(Nat) /\ Len(s4) = Len(s3) + 2
  <2>1. Len(<<0, idx>>) = 2 OBVIOUS
  <2> QED BY <1>1, <1>3, <2>1, Concatenated
<1>5. p + Len(s2) = LabelAt(a, p) /\ LabelAt(a, p) \in Nat
  BY <1>2 DEF LabelAt, Bounds
<1> HIDE DEF s4
<1>6. Holds(b, p, s4) /\ Holds(b, p + Len(s4), TypeOf(a))
  BY <1>1, <1>4, HoldsConcat
<1>7. Holds(b, p, s3) /\ Holds(b, p + Len(s3), <<0, idx>>)
  BY <1>1, <1>3, <1>6, HoldsConcat DEF s4
<1>8. Holds(b, p, s2) /\ Holds(b, p + Len(s2), a.label)
  BY <1>1, <1>2, <1>7, HoldsConcat DEF s3
<1>9. Holds(b, p, s1) /\ Holds(b, p + Len(s1), Bounds(a))
  BY <1>1, <1>8, HoldsConcat DEF s2
<1>10. Len(s1) = 1 BY DEF s1
<1>11. Len(a.label) \in Nat /\ Len(TypeOf(a)) \in Nat /\ Len(s2) \in Nat BY <1>1, <1>2
<1>12. p + Len(s3) = LabelEnd(a, p) BY <1>3, <1>5, <1>11 DEF LabelEnd
<1>13. p + Len(s4) = LabelEnd(a, p) + 2 BY <1>3, <1>4, <1>11, <1>12
<1>14. Len(processArg(a, idx)) = Len(s4) + Len(TypeOf(a)) BY <1>1, <1>4, Concatenated
<1>15. p + Len(processArg(a, idx)) = LabelEnd(a, p) + 2 + Len(TypeOf(a))
  BY <1>3, <1>4, <1>11, <1>13, <1>14
<1>16. LabelEnd(a, p) \in Nat BY <1>5, <1>11 DEF LabelEnd
<1>17. Holds(b, p, <<a.kind>>) /\ Holds(b, p + 1, Bounds(a)) BY <1>9, <1>10 DEF s1
<1>18. Holds(b, LabelAt(a, p), a.label) BY <1>5, <1>8
<1>19. Holds(b, LabelEnd(a, p), <<0, idx>>) BY <1>7, <1>12
<1>20. Holds(b, LabelEnd(a, p) + 2, TypeOf(a)) BY <1>6, <1>13
<1> QED BY <1>5, <1>15, <1>16, <1>17, <1>18, <1>19, <1>20 DEF LabelEnd

(* An argument is read whole, or not at all if it does not fit.            *)
LEMMA ArgumentRead ==
  ASSUME NEW b \in Seq(Nat), NEW p \in Nat, NEW a \in Argument, NEW idx \in Nat,
         Holds(b, p, processArg(a, idx))
  PROVE  /\ ReadArgument(b, p) = IF Fits(a) THEN p + Len(processArg(a, idx)) ELSE Fail(b)
         /\ Fits(a) => ParsedArgument(b, p) = a
<1> DEFINE l == LabelAt(a, p)
           z == LabelEnd(a, p)
<1>1. /\ a.kind \in Kind /\ a.label \in Label /\ a.type \in Label
      /\ a.label \in Seq(Nat) /\ a.type \in Seq(Nat) /\ TypeOf(a) \in Seq(Nat)
      /\ a.kind \notin Typed => a.type = <<>>
      /\ a = [kind |-> a.kind, label |-> a.label, type |-> a.type]
  BY ArgumentBytes
<1>0. Len(a.label) \in Nat /\ Len(a.type) \in Nat /\ Len(b) \in Nat /\ MAX_STRING \in Nat
  <2>1. \A s \in Seq(Nat) : Len(s) \in Nat OBVIOUS
  <2>2. MAX_STRING \in Nat BY PacketAssumption
  <2> QED BY <1>1, <2>1, <2>2, Zenon
<1>2. /\ l \in Nat /\ z \in Nat /\ z = l + Len(a.label)
      /\ Holds(b, p, <<a.kind>>) /\ Holds(b, p + 1, Bounds(a)) /\ Holds(b, l, a.label)
      /\ Holds(b, z, <<0, idx>>) /\ Holds(b, z + 2, TypeOf(a))
      /\ p + Len(processArg(a, idx)) = z + 2 + Len(TypeOf(a))
  BY ArgumentParts
<1>3. p < Len(b) /\ At(b, p) = a.kind BY <1>2, HoldsOne
<1>4. (IF a.kind = ARRAY THEN ReadArrayBounds(b, p + 1) ELSE p + 1) = l
  <2>1. CASE a.kind = ARRAY
    <3>1. Holds(b, p + 1, <<0, MAX_ARRAY_LENGTH>>) BY <1>2, <2>1 DEF Bounds
    <3>2. /\ (p + 1) + 1 < Len(b) /\ At(b, p + 1) = 0
          /\ At(b, (p + 1) + 1) = MAX_ARRAY_LENGTH
      BY <3>1, HoldsTwo
    <3>3. ReadArrayBounds(b, p + 1) = p + 1 + 2
      BY <3>2, PacketAssumption, TemplateAssumption DEF ReadArrayBounds
    <3> QED BY <2>1, <3>3 DEF LabelAt
  <2>2. CASE a.kind # ARRAY BY <2>2 DEF LabelAt
  <2> QED BY <2>1, <2>2
<1>5. z + 1 < Len(b) /\ At(b, z) = 0 BY <1>2, HoldsTwo
<1> HIDE DEF l, z
<1>6. /\ READ_STRING(b, l) = IF Len(a.label) <= MAX_STRING THEN z + 1 ELSE Fail(b)
      /\ SubSeq(b, l + 1, z) = a.label
  <2>1. l + Len(a.label) < Len(b) /\ At(b, l + Len(a.label)) = 0 BY <1>0, <1>2, <1>5
  <2>2. /\ READ_STRING(b, l) = IF Len(a.label) <= MAX_STRING THEN l + Len(a.label) + 1 ELSE Fail(b)
        /\ SubSeq(b, l + 1, l + Len(a.label)) = a.label
    BY <1>1, <1>2, <2>1, StringRead
  <2> QED BY <1>2, <2>2
<1> DEFINE type == READ_CHAR(b, READ_STRING(b, l))
<1>7. ReadArgument(b, p) =
        IF a.kind \in Typed THEN READ_CHAR(b, READ_STRING(b, type)) ELSE type
  BY <1>1, <1>3, <1>4 DEF ReadArgument
<1>8. CASE ~(Len(a.label) <= MAX_STRING)
  <2>1. Fail(b) \in Nat /\ Fail(b) >= Len(b) BY <1>0 DEF Fail
  <2>2. READ_CHAR(b, Fail(b)) = Fail(b) /\ READ_STRING(b, Fail(b)) = Fail(b)
    BY <1>0, <2>1, NothingPastEnd
  <2>3. type = Fail(b) BY <1>6, <1>8, <2>2
  <2> QED BY <1>7, <1>8, <2>2, <2>3 DEF Fits
<1>9. CASE Len(a.label) <= MAX_STRING
  <2>1. READ_STRING(b, l) = z + 1 BY <1>6, <1>9
  <2>2. type = z + 2 BY <1>2, <1>5, <2>1 DEF READ_CHAR
  <2>5. READ_STRING(b, l) - 1 = z BY <1>2, <2>1
  <2> DEFINE y == z + 2
  <2>6. /\ y \in Nat /\ type = y /\ READ_STRING(b, l) + 1 = y /\ Holds(b, y, TypeOf(a))
        /\ p + Len(processArg(a, idx)) = y + Len(TypeOf(a))
    BY <1>2, <2>1, <2>2
  <2> HIDE DEF y
  <2> HIDE DEF type
  <2>3. CASE a.kind \notin Typed
    <3>1. Len(a.type) = 0 /\ Len(TypeOf(a)) = 0 BY <1>1, <2>3 DEF TypeOf
    <3>2. Fits(a) BY <1>0, <1>9, <3>1 DEF Fits
    <3>3. ReadArgument(b, p) = p + Len(processArg(a, idx)) BY <1>7, <2>3, <2>6, <3>1
    <3>4. ParsedArgument(b, p) = [kind |-> a.kind, label |-> a.label, type |-> <<>>]
      <4>1. SubSeq(b, l + 1, READ_STRING(b, l) - 1) = a.label BY <1>6, <2>5
      <4> QED BY <1>3, <2>3, <4>1 DEF ParsedArgument, LabelAt, l
    <3> QED BY <1>1, <2>3, <3>2, <3>3, <3>4
  <2>4. CASE a.kind \in Typed
    <3>1. TypeOf(a) = a.type \o <<0, JSMN_STRING>> BY <2>4 DEF TypeOf
    <3>2. <<0, JSMN_STRING>> \in Seq(Nat) /\ Len(TypeOf(a)) = Len(a.type) + 2
      BY <1>1, <3>1, PacketAssumption
    <3>3. Holds(b, y, a.type) /\ Holds(b, y + Len(a.type), <<0, JSMN_STRING>>)
      <4>1. Holds(b, y, a.type \o <<0, JSMN_STRING>>) BY <2>6, <3>1
      <4>2. a.type \in Seq(Nat) /\ y \in Nat BY <1>1, <2>6
      <4> QED BY <3>2, <4>1, <4>2, HoldsConcat
    <3>4. /\ y + Len(a.type) \in Nat /\ (y + Len(a.type)) + 1 < Len(b)
          /\ At(b, y + Len(a.type)) = 0
      <4>1. y + Len(a.type) \in Nat BY <1>0, <2>6
      <4> QED BY <3>3, <4>1, HoldsTwo
    <3>5. /\ READ_STRING(b, y) =
               IF Len(a.type) <= MAX_STRING THEN y + Len(a.type) + 1 ELSE Fail(b)
          /\ SubSeq(b, y + 1, y + Len(a.type)) = a.type
      <4>1. y + Len(a.type) < Len(b) BY <1>0, <3>4
      <4>2. /\ b \in Seq(Nat) /\ y \in Nat /\ a.type \in Label /\ Holds(b, y, a.type)
            /\ At(b, y + Len(a.type)) = 0
        BY <1>1, <2>6, <3>3, <3>4
      <4> QED BY <4>1, <4>2, StringRead, Zenon
    <3>6. CASE Len(a.type) <= MAX_STRING
      <4>1. Fits(a) BY <1>9, <3>6 DEF Fits
      <4>2. READ_STRING(b, y) = y + Len(a.type) + 1 BY <3>5, <3>6
      <4>3. READ_CHAR(b, READ_STRING(b, y)) = y + Len(a.type) + 1 + 1
        BY <1>0, <2>6, <3>4, <4>2 DEF READ_CHAR
      <4>4. ReadArgument(b, p) = p + Len(processArg(a, idx))
        BY <1>0, <1>7, <2>4, <2>6, <3>2, <4>3
      <4>5. SubSeq(b, l + 1, READ_STRING(b, l) - 1) = a.label BY <1>6, <2>5
      <4>7. SubSeq(b, y + 1, READ_STRING(b, y) - 1) = a.type
        BY <1>0, <2>6, <3>5, <4>2
      <4>8. ParsedArgument(b, p) = [kind |-> a.kind, label |-> a.label, type |-> a.type]
        BY <1>3, <2>4, <2>6, <4>5, <4>7 DEF ParsedArgument, LabelAt, l
      <4> QED BY <1>1, <4>1, <4>4, <4>8
    <3>7. CASE ~(Len(a.type) <= MAX_STRING)
      <4>1. READ_CHAR(b, Fail(b)) = Fail(b) BY <1>0, NothingPastEnd DEF Fail
      <4>2. READ_CHAR(b, READ_STRING(b, y)) = Fail(b) BY <3>5, <3>7, <4>1
      <4> QED BY <1>7, <2>4, <2>6, <3>7, <4>2 DEF Fits
    <3> QED BY <3>6, <3>7
  <2> QED BY <2>3, <2>4
<1> QED BY <1>8, <1>9

(* The arguments of a template, one after the other.                       *)
LEMMA ArgumentsWritten ==
  ASSUME NEW t \in Template
  PROVE  /\ Len(t.arguments) \in Nat
         /\ \A i \in 1..Len(t.arguments) : t.arguments[i] \in Argument
         /\ processedArgs(t) \in [0..Len(t.arguments) -> Seq(Nat)]
         /\ processedArgs(t)[0] = <<>>
         /\ \A i \in 1..Len(t.arguments) :
              processedArgs(t)[i] = processedArgs(t)[i-1] \o processArg(t.arguments[i], i - 1)
<1> DEFINE n == Len(t.arguments)
           arg(i) == processArg(t.arguments[i], i - 1)
           step == [x \in Seq(Nat) \X (1..n) |-> x[1] \o arg(x[2])]
           IsUpTo(f) == f = [i \in 0..n |-> IF i = 0 THEN <<>> ELSE f[i-1] \o arg(i)]
<1>1. n \in Nat /\ \A i \in 1..n : t.arguments[i] \in Argument
  BY TemplateAssumption
<1> HIDE DEF n
<1>2. \A i \in 1..n : arg(i) \in Seq(Nat)
  <2> SUFFICES ASSUME NEW i \in 1..n PROVE arg(i) \in Seq(Nat) OBVIOUS
  <2>1. t.arguments[i] \in Argument /\ i - 1 \in Nat BY <1>1
  <2> QED BY <2>1, ArgumentBytes
<1> HIDE DEF arg
<1>3. step \in [Seq(Nat) \X (1..n) -> Seq(Nat)]
  <2>1. ASSUME NEW x \in Seq(Nat) \X (1..n) PROVE x[1] \o arg(x[2]) \in Seq(Nat)
    BY <1>2
  <2> QED BY <2>1
<1>4. PICK f \in [0..n -> Seq(Nat)] : Iterates(f, n, <<>>, step)
  <2>1. <<>> \in Seq(Nat) OBVIOUS
  <2> HIDE DEF step
  <2> QED BY <1>1, <1>3, <2>1, IterationExists
<1>5. IsUpTo(f)
  <2>1. ASSUME NEW i \in 0..n, i # 0 PROVE step[<<f[i-1], i>>] = f[i-1] \o arg(i)
    <3>1. i \in 1..n /\ i - 1 \in 0..n BY <1>1, <2>1
    <3>2. f[i-1] \in Seq(Nat) BY <1>4, <3>1, Zenon
    <3> DEFINE x == <<f[i-1], i>>
    <3>3. x \in Seq(Nat) \X (1..n) /\ x[1] = f[i-1] /\ x[2] = i BY <3>1, <3>2
    <3> HIDE DEF x
    <3>4. step[x] = x[1] \o arg(x[2]) BY <3>3, Zenon
    <3>5. step[x] = f[i-1] \o arg(i) BY <3>3, <3>4, Zenon
    <3> QED BY <3>5, Zenon DEF x
  <2> HIDE DEF step
  <2> QED BY <1>4, <2>1 DEF Iterates
<1> HIDE DEF IsUpTo
<1>6. IsUpTo(CHOOSE g : IsUpTo(g)) BY <1>5
<1>7. processedArgs(t) = CHOOSE g : IsUpTo(g)
  BY DEF processedArgs, IsUpTo, arg, n
<1> DEFINE w == processedArgs(t)
<1>8. w = [i \in 0..n |-> IF i = 0 THEN <<>> ELSE w[i-1] \o arg(i)]
  BY <1>6, <1>7 DEF IsUpTo
<1> HIDE DEF w
<1>9. w[0] = <<>>
  <2>1. 0 \in 0..n BY <1>1
  <2> QED BY <1>8, <2>1
<1>10. ASSUME NEW i \in 1..n PROVE w[i] = w[i-1] \o arg(i)
  <2>1. i \in 0..n /\ i # 0 BY <1>1
  <2> QED BY <1>8, <2>1
<1>12. \A i \in 0..n : w[i] \in Seq(Nat)
  <2> DEFINE T == {i \in Nat : i <= n => w[i] \in Seq(Nat)}
  <2>1. 0 \in T
    <3>1. w[0] \in Seq(Nat) BY <1>9
    <3> QED BY <3>1
  <2>2. ASSUME NEW i \in Nat, i \in T PROVE i + 1 \in T
    <3> SUFFICES ASSUME i + 1 <= n PROVE w[i + 1] \in Seq(Nat) OBVIOUS
    <3>1. w[i] \in Seq(Nat) /\ i + 1 \in 1..n /\ (i + 1) - 1 = i BY <1>1, <2>2
    <3>2. w[i + 1] = w[i] \o arg(i + 1) BY <1>10, <3>1
    <3> QED BY <1>2, <3>1, <3>2
  <2>3. Nat \subseteq T
    <3> HIDE DEF T
    <3> QED BY <2>1, <2>2, SetInduction
  <2> QED BY <2>3
<1>11. w \in [0..n -> Seq(Nat)] BY <1>8, <1>12
<1> QED BY <1>1, <1>9, <1>10, <1>11 DEF w, n, arg

LEMMA ArgumentsHeld ==
  ASSUME NEW b \in Seq(Nat), NEW q \in Nat, NEW t \in Template,
         Holds(b, q, processedArgs(t)[Len(t.arguments)])
  PROVE  \A i \in 1..Len(t.arguments) :
           /\ Holds(b, q + Len(processedArgs(t)[i-1]), processArg(t.arguments[i], i - 1))
           /\ Len(processedArgs(t)[i-1]) \in Nat
           /\ Len(processedArgs(t)[i])
                = Len(processedArgs(t)[i-1]) + Len(processArg(t.arguments[i], i - 1))
<1> DEFINE n == Len(t.arguments)
           w == processedArgs(t)
           arg(i) == processArg(t.arguments[i], i - 1)
<1>1. /\ n \in Nat /\ w \in [0..n -> Seq(Nat)]
      /\ \A i \in 1..n : w[i] = w[i-1] \o arg(i)
  BY ArgumentsWritten
<1>2. ASSUME NEW i \in 1..n
      PROVE  /\ arg(i) \in Seq(Nat) /\ w[i-1] \in Seq(Nat) /\ w[i] = w[i-1] \o arg(i)
             /\ Len(w[i-1]) \in Nat /\ Len(w[i]) = Len(w[i-1]) + Len(arg(i))
  <2>0. t.arguments[i] \in Argument BY ArgumentsWritten
  <2>1. t.arguments[i] \in Argument /\ i - 1 \in Nat BY <1>1, <2>0
  <2>2. arg(i) \in Seq(Nat) BY <2>1, ArgumentBytes
  <2>3. w[i-1] \in Seq(Nat)
    <3>1. i - 1 \in 0..n BY <1>1
    <3> QED BY <1>1, <3>1
  <2> HIDE DEF arg, w
  <2>4. w[i] = w[i-1] \o arg(i) BY <1>1
  <2> QED BY <2>2, <2>3, <2>4, Concatenated
<1>3. Holds(b, q, w[n]) OBVIOUS
<1> HIDE DEF n, w, arg
<1>4. ASSUME NEW i \in 1..n, Holds(b, q, w[i])
      PROVE  Holds(b, q, w[i-1]) /\ Holds(b, q + Len(w[i-1]), arg(i))
  <2>1. Holds(b, q, w[i-1] \o arg(i)) BY <1>2, <1>4
  <2>2. w[i-1] \in Seq(Nat) /\ arg(i) \in Seq(Nat) BY <1>2
  <2> QED BY <2>1, <2>2, HoldsConcat, Zenon
<1>5. \A i \in 0..n : Holds(b, q, w[i])
  <2> DEFINE T == {k \in Nat : k <= n => Holds(b, q, w[n - k])}
  <2>1. 0 \in T
    <3>1. n - 0 = n BY <1>1
    <3> QED BY <1>3, <3>1
  <2>2. ASSUME NEW k \in Nat, k \in T PROVE k + 1 \in T
    <3> SUFFICES ASSUME k + 1 <= n PROVE Holds(b, q, w[n - (k + 1)]) OBVIOUS
    <3>1. Holds(b, q, w[n - k]) BY <1>1, <2>2
    <3>2. n - k \in 1..n /\ (n - k) - 1 = n - (k + 1) BY <1>1
    <3> QED BY <1>4, <3>1, <3>2
  <2>3. Nat \subseteq T
    <3> HIDE DEF T
    <3> QED BY <2>1, <2>2, SetInduction
  <2>4. ASSUME NEW i \in 0..n PROVE Holds(b, q, w[i])
    <3>1. n - i \in Nat /\ n - i <= n /\ n - (n - i) = i BY <1>1
    <3>2. n - i \in T BY <2>3, <3>1
    <3> QED BY <3>1, <3>2
  <2> QED BY <2>4
<1>6. ASSUME NEW i \in 1..n
      PROVE  /\ Holds(b, q + Len(w[i-1]), arg(i)) /\ Len(w[i-1]) \in Nat
             /\ Len(w[i]) = Len(w[i-1]) + Len(arg(i))
  <2>1. i \in 0..n BY <1>1
  <2> QED BY <1>2, <1>4, <1>5, <2>1
<1> QED BY <1>6 DEF n, w, arg

LEMMA ReadsGoOn ==
  ASSUME NEW b \in Seq(Nat), NEW p \in Nat
  PROVE  ReadArgument(b, p) \in Nat
<1>1. Len(b) \in Nat /\ Fail(b) \in Nat BY DEF Fail
<1>2. ASSUME NEW r \in Nat PROVE READ_CHAR(b, r) \in Nat BY <1>1 DEF READ_CHAR
<1>3. ASSUME NEW r \in Nat PROVE READ_STRING(b, r) \in Nat
  <2>1. CASE Ends(b, r) = {} BY <1>1, <2>1 DEF READ_STRING
  <2>2. CASE Ends(b, r) # {}
    <3>1. (CHOOSE e \in Ends(b, r) : TRUE) \in Ends(b, r) BY <2>2
    <3>2. \A e \in Ends(b, r) : e \in Nat BY <1>1 DEF Ends
    <3> QED BY <2>2, <3>1, <3>2 DEF READ_STRING
  <2> QED BY <2>1, <2>2
<1>4. ReadArrayBounds(b, p + 1) \in Nat BY <1>1 DEF ReadArrayBounds
<1> DEFINE label == IF At(b, p) = ARRAY THEN ReadArrayBounds(b, p + 1) ELSE p + 1
           type  == READ_CHAR(b, READ_STRING(b, label))
<1>5. label \in Nat BY <1>4
<1> HIDE DEF label
<1>6. type \in Nat BY <1>2, <1>3, <1>5
<1>7. READ_CHAR(b, READ_STRING(b, type)) \in Nat
  <2> HIDE DEF type
  <2> QED BY <1>2, <1>3, <1>6
<1>8. \/ ReadArgument(b, p) = Fail(b)
      \/ ReadArgument(b, p) = READ_CHAR(b, READ_STRING(b, type))
      \/ ReadArgument(b, p) = type
  BY DEF ReadArgument, label
<1> QED BY <1>1, <1>6, <1>7, <1>8

(* Where the reader is after each argument.                                *)
LEMMA ArgumentsFollow ==
  ASSUME NEW b \in Seq(Nat), AfterName(b) \in Nat, At(b, AfterName(b)) \in Nat
  PROVE  /\ AfterArguments(b)[0] = AfterName(b) + 1
         /\ \A i \in 1..At(b, AfterName(b)) :
              AfterArguments(b)[i] = ReadArgument(b, AfterArguments(b)[i-1])
<1> DEFINE n == At(b, AfterName(b))
           a == AfterName(b) + 1
           step == [x \in Nat \X (1..n) |-> ReadArgument(b, x[1])]
           IsAfter(f) == f = [i \in 0..n |-> IF i = 0 THEN a ELSE ReadArgument(b, f[i-1])]
<1>1. n \in Nat /\ a \in Nat OBVIOUS
<1> HIDE DEF n, a
<1>2. step \in [Nat \X (1..n) -> Nat] BY ReadsGoOn
<1>3. PICK f \in [0..n -> Nat] : Iterates(f, n, a, step)
  <2> HIDE DEF step
  <2> QED BY <1>1, <1>2, IterationExists
<1>4. IsAfter(f)
  <2>1. ASSUME NEW i \in 0..n, i # 0 PROVE step[<<f[i-1], i>>] = ReadArgument(b, f[i-1])
    <3>1. i \in 1..n /\ i - 1 \in 0..n BY <1>1, <2>1
    <3>2. <<f[i-1], i>> \in Nat \X (1..n) BY <1>3, <3>1
    <3> QED BY <3>2
  <2> HIDE DEF step
  <2> QED BY <1>3, <2>1 DEF Iterates
<1> HIDE DEF IsAfter
<1>5. IsAfter(CHOOSE g : IsAfter(g)) BY <1>4
<1>6. AfterArguments(b) = CHOOSE g : IsAfter(g)
  BY DEF AfterArguments, IsAfter, a, n
<1> DEFINE w == AfterArguments(b)
<1>7. w = [i \in 0..n |-> IF i = 0 THEN a ELSE ReadArgument(b, w[i-1])]
  BY <1>5, <1>6 DEF IsAfter
<1> HIDE DEF w
<1>8. w[0] = a
  <2>1. 0 \in 0..n BY <1>1
  <2> QED BY <1>7, <2>1
<1>9. ASSUME NEW i \in 1..n PROVE w[i] = ReadArgument(b, w[i-1])
  <2>1. i \in 0..n /\ i # 0 BY <1>1
  <2> QED BY <1>7, <2>1
<1> QED BY <1>8, <1>9 DEF w, a, n

LEMMA ArgumentsRead ==
  ASSUME NEW b \in Seq(Nat), NEW t \in Template,
         AfterName(b) \in Nat, At(b, AfterName(b)) = Len(t.arguments),
         Holds(b, AfterName(b) + 1, processedArgs(t)[Len(t.arguments)])
  PROVE  \A i \in 0..Len(t.arguments) :
           AfterArguments(b)[i] =
             IF \A k \in 1..i : Fits(t.arguments[k])
             THEN AfterName(b) + 1 + Len(processedArgs(t)[i]) ELSE Fail(b)
<1> DEFINE n == Len(t.arguments)
           q == AfterName(b) + 1
           w == processedArgs(t)
           arg(i) == processArg(t.arguments[i], i - 1)
           after == AfterArguments(b)
           Fitting(i) == \A k \in 1..i : Fits(t.arguments[k])
           Read(i) == after[i] = IF Fitting(i) THEN q + Len(w[i]) ELSE Fail(b)
           T == {i \in Nat : i <= n => Read(i)}
<1>1. n \in Nat /\ q \in Nat /\ w[0] = <<>> /\ Len(b) \in Nat
  <2>1. n \in Nat /\ w[0] = <<>> BY ArgumentsWritten
  <2> QED BY <2>1
<1>2. after[0] = q /\ \A i \in 1..n : after[i] = ReadArgument(b, after[i-1])
  BY ArgumentsFollow, <1>1
<1>3. ASSUME NEW i \in 1..n
      PROVE  /\ t.arguments[i] \in Argument /\ i - 1 \in Nat
             /\ Holds(b, q + Len(w[i-1]), arg(i)) /\ Len(w[i-1]) \in Nat
             /\ Len(w[i]) = Len(w[i-1]) + Len(arg(i)) /\ Len(arg(i)) \in Nat
  <2>0. t.arguments[i] \in Argument BY ArgumentsWritten
  <2>1. t.arguments[i] \in Argument /\ i - 1 \in Nat BY <1>1, <2>0
  <2>2. arg(i) \in Seq(Nat) BY <2>1, ArgumentBytes
  <2>3. /\ Holds(b, q + Len(w[i-1]), arg(i)) /\ Len(w[i-1]) \in Nat
        /\ Len(w[i]) = Len(w[i-1]) + Len(arg(i))
    <3>1. /\ b \in Seq(Nat) /\ q \in Nat /\ t \in Template /\ i \in 1..n
          /\ Holds(b, q, w[n])
      BY <1>1
    <3> QED BY <3>1, ArgumentsHeld, Zenon
  <2> QED BY <2>1, <2>2, <2>3
<1> HIDE DEF n, q, w, after
<1>4. 0 \in T
  <2>1. Fitting(0) /\ Len(w[0]) = 0 BY <1>1
  <2> QED BY <1>1, <1>2, <2>1
<1>5. ASSUME NEW j \in Nat, j \in T PROVE j + 1 \in T
  <2> SUFFICES ASSUME j + 1 <= n PROVE Read(j + 1) OBVIOUS
  <2> DEFINE i == j + 1
  <2>1. i \in 1..n /\ i - 1 = j BY <1>1
  <2>2. Read(j) BY <1>1, <1>5
  <2> HIDE DEF i
  <2>3. after[i] = ReadArgument(b, after[j]) BY <1>2, <2>1
  <2>4. /\ t.arguments[i] \in Argument /\ j \in Nat
        /\ Holds(b, q + Len(w[j]), arg(i)) /\ Len(w[j]) \in Nat
        /\ Len(w[i]) = Len(w[j]) + Len(arg(i)) /\ Len(arg(i)) \in Nat
    BY <1>3, <2>1
  <2>5. arg(i) = processArg(t.arguments[i], j) BY <2>1
  <2> HIDE DEF arg
  <2>6. Fitting(i) <=> Fitting(j) /\ Fits(t.arguments[i])
    <3>1. \A k \in 1..i : k \in 1..j \/ k = i BY <2>1
    <3>2. i \in 1..i /\ \A k \in 1..j : k \in 1..i BY <2>1
    <3> QED BY <3>1, <3>2
  <2>7. CASE Fitting(j)
    <3>1. after[j] = q + Len(w[j]) /\ q + Len(w[j]) \in Nat
      <4>1. after[j] = q + Len(w[j]) BY <2>2, <2>7, Zenon
      <4>2. q \in Nat /\ Len(w[j]) \in Nat BY <1>1, <2>4
      <4> HIDE DEF Fitting, q, w, after
      <4>3. q + Len(w[j]) \in Nat BY <4>2
      <4> QED BY <4>1, <4>3
    <3> HIDE DEF Fitting
    <3>2. after[i] = IF Fits(t.arguments[i]) THEN q + Len(w[j]) + Len(arg(i)) ELSE Fail(b)
      <4> DEFINE p == q + Len(w[j])
                 c == t.arguments[i]
      <4>1. p \in Nat /\ c \in Argument /\ Holds(b, p, processArg(c, j))
        BY <2>4, <2>5, <3>1
      <4>2. ReadArgument(b, p) = IF Fits(c) THEN p + Len(processArg(c, j)) ELSE Fail(b)
        <5> HIDE DEF p, c
        <5> QED BY <4>1, ArgumentRead
      <4> QED BY <2>3, <2>5, <3>1, <4>2
    <3>3. q + Len(w[j]) + Len(arg(i)) = q + Len(w[i]) BY <1>1, <2>4
    <3> QED BY <2>6, <2>7, <3>2, <3>3 DEF i
  <2>8. CASE ~Fitting(j)
    <3>1. after[j] = Fail(b) BY <2>2, <2>8
    <3>2. Fail(b) \in Nat /\ Fail(b) >= Len(b) BY <1>1 DEF Fail
    <3>3. after[i] = Fail(b) BY <1>1, <2>3, <3>1, <3>2, NothingPastEnd
    <3> HIDE DEF Fitting
    <3> QED BY <2>6, <2>8, <3>3 DEF i
  <2> QED BY <2>7, <2>8
<1>6. Nat \subseteq T
  <2> HIDE DEF T
  <2> QED BY <1>4, <1>5, SetInduction
<1>7. \A i \in 0..n : Read(i) BY <1>1, <1>6
<1> QED BY <1>7 DEF n, q, w, after

(* Where the name of a template begins in its packet, and where its 0 is.  *)
NameAt     == 1 + 2 * HASH_SIZE
NameEnd(t) == NameAt + Len(t.name)

LEMMA PacketParts ==
  ASSUME NEW t \in Template, NEW b, b = templatesToMetadata(t)
  PROVE  /\ b \in Seq(Nat) /\ NameAt \in Nat /\ NameEnd(t) \in Nat
         /\ At(b, 0) = 2
         /\ Holds(b, 1, t.hashes[1])
         /\ Holds(b, 1 + HASH_SIZE, t.hashes[2])
         /\ Holds(b, NameAt, t.name)
         /\ Holds(b, NameEnd(t), <<0, Len(t.arguments)>>)
         /\ Holds(b, NameEnd(t) + 2, processedArgs(t)[Len(t.arguments)])
         /\ Len(b) = NameEnd(t) + 2 + Len(processedArgs(t)[Len(t.arguments)])
<1> DEFINE n  == Len(t.arguments)
           w  == processedArgs(t)[n]
           s1 == <<2>> \o t.hashes[1]
           s2 == s1 \o t.hashes[2]
           s3 == s2 \o t.name
           s4 == s3 \o <<0, n>>
<1>1. n \in Nat /\ w \in Seq(Nat)
  <2>1. n \in Nat /\ processedArgs(t) \in [0..n -> Seq(Nat)] BY ArgumentsWritten
  <2> QED BY <2>1
<1>2. HASH_SIZE \in Nat /\ Byte \subseteq Nat BY PacketAssumption
<1>3. ASSUME NEW h \in [1..HASH_SIZE -> Byte] PROVE h \in Seq(Nat) /\ Len(h) = HASH_SIZE
  <2>1. h \in [1..HASH_SIZE -> Nat] BY <1>2
  <2> QED BY <1>2, <2>1
<1>4. /\ t.hashes[1] \in Seq(Nat) /\ Len(t.hashes[1]) = HASH_SIZE
      /\ t.hashes[2] \in Seq(Nat) /\ Len(t.hashes[2]) = HASH_SIZE
  BY <1>3, TemplateAssumption
<1>5. t.name \in Seq(Nat) /\ Len(t.name) \in Nat
  <2>1. t.name \in Label BY TemplateAssumption
  <2> QED BY <2>1, LabelBytes
<1>6. <<2>> \in Seq(Nat) /\ <<0, n>> \in Seq(Nat) /\ Len(<<2>>) = 1 /\ Len(<<0, n>>) = 2
  BY <1>1
<1>7. b = s4 \o w BY DEF templatesToMetadata
<1>8. s1 \in Seq(Nat) /\ Len(s1) = 1 + HASH_SIZE
  <2>1. s1 \in Seq(Nat) /\ Len(s1) = Len(<<2>>) + Len(t.hashes[1])
    BY <1>4, <1>6, Concatenated, Zenon
  <2> HIDE DEF s1
  <2> QED BY <1>4, <1>6, <2>1
<1> HIDE DEF s1, n, w
<1>9. s2 \in Seq(Nat) /\ Len(s2) = NameAt
  <2>1. s2 \in Seq(Nat) /\ Len(s2) = Len(s1) + HASH_SIZE BY <1>4, <1>8, Concatenated
  <2> QED BY <1>2, <1>8, <2>1 DEF NameAt
<1> HIDE DEF s2
<1>10. s3 \in Seq(Nat) /\ Len(s3) = NameEnd(t) BY <1>5, <1>9, Concatenated DEF NameEnd
<1> HIDE DEF s3
<1>11. s4 \in Seq(Nat) /\ Len(s4) = NameEnd(t) + 2 BY <1>6, <1>10, Concatenated
<1> HIDE DEF s4
<1>12. b \in Seq(Nat) /\ Len(b) = Len(s4) + Len(w) BY <1>1, <1>7, <1>11, Concatenated
<1>13. Holds(b, 0, s4 \o w)
  <2>1. Len(b) \in Nat /\ \A k \in 1..Len(b) : 0 + k = k BY <1>12
  <2>2. Holds(b, 0, b) BY <2>1 DEF Holds
  <2> QED BY <1>7, <2>2
<1>14. Holds(b, 0, s4) /\ Holds(b, 0 + Len(s4), w) BY <1>1, <1>11, <1>12, <1>13, HoldsConcat
<1>15. Holds(b, 0, s3) /\ Holds(b, 0 + Len(s3), <<0, n>>)
  BY <1>6, <1>10, <1>12, <1>14, HoldsConcat DEF s4
<1>16. Holds(b, 0, s2) /\ Holds(b, 0 + Len(s2), t.name)
  BY <1>5, <1>9, <1>12, <1>15, HoldsConcat DEF s3
<1>17. Holds(b, 0, s1) /\ Holds(b, 0 + Len(s1), t.hashes[2])
  BY <1>4, <1>8, <1>12, <1>16, HoldsConcat DEF s2
<1>18. Holds(b, 0, <<2>>) /\ Holds(b, 0 + Len(<<2>>), t.hashes[1])
  BY <1>4, <1>6, <1>12, <1>17, HoldsConcat DEF s1
<1>19. NameAt \in Nat /\ NameEnd(t) \in Nat
  <2>1. Len(s2) \in Nat /\ Len(s3) \in Nat BY <1>9, <1>10
  <2> QED BY <1>9, <1>10, <2>1
<1>20. At(b, 0) = 2 BY <1>12, <1>18, HoldsOne
<1>21. /\ 0 + Len(s4) = NameEnd(t) + 2 /\ 0 + Len(s3) = NameEnd(t) /\ 0 + Len(s2) = NameAt
       /\ 0 + Len(s1) = 1 + HASH_SIZE /\ 0 + Len(<<2>>) = 1
  BY <1>2, <1>6, <1>8, <1>9, <1>10, <1>11, <1>19
<1>22. Holds(b, 1, t.hashes[1]) BY <1>18, <1>21
<1>23. Holds(b, 1 + HASH_SIZE, t.hashes[2]) BY <1>17, <1>21
<1>24. Holds(b, NameAt, t.name) BY <1>16, <1>21
<1>25. Holds(b, NameEnd(t), <<0, n>>) BY <1>15, <1>21
<1>26. Holds(b, NameEnd(t) + 2, w) BY <1>14, <1>21
<1>27. Len(b) = NameEnd(t) + 2 + Len(w) BY <1>11, <1>12
<1> QED BY <1>12, <1>19, <1>20, <1>22, <1>23, <1>24, <1>25, <1>26, <1>27 DEF n, w

(* The hashes of a packet are compared byte by byte.                       *)
LEMMA HashesCompared ==
  ASSUME NEW t \in Template, NEW b, b = templatesToMetadata(t), Len(b) < IndexRange,
         NEW s \in Script
  PROVE  _validateScriptHash(b, s) <=> s \in {t.hashes[1], t.hashes[2]}
<1>1. /\ b \in Seq(Nat) /\ Len(b) \in Nat /\ At(b, 0) = 2
      /\ Holds(b, 1, t.hashes[1]) /\ Holds(b, 1 + HASH_SIZE, t.hashes[2])
  <2>1. b \in Seq(Nat) /\ At(b, 0) = 2 BY PacketParts
  <2>2. Holds(b, 1, t.hashes[1]) /\ Holds(b, 1 + HASH_SIZE, t.hashes[2]) BY PacketParts
  <2> QED BY <2>1, <2>2
<1> DEFINE h(i) == t.hashes[i + 1]
<1>2. HASH_SIZE \in Nat /\ IndexRange \in Nat /\ s \in [1..HASH_SIZE -> Byte]
  BY PacketAssumption
<1>3. ASSUME NEW i \in {0, 1}
      PROVE  /\ h(i) \in [1..HASH_SIZE -> Byte]
             /\ Holds(b, 1 + i * HASH_SIZE, h(i))
             /\ i * HASH_SIZE \in Nat
  <2>1. 0 * HASH_SIZE = 0 /\ 1 * HASH_SIZE = HASH_SIZE BY <1>2
  <2>2. h(i) \in [1..HASH_SIZE -> Byte] BY TemplateAssumption
  <2> QED BY <1>1, <1>2, <2>1, <2>2
<1> HIDE DEF h
<1>4. ASSUME NEW i \in {0, 1}, NEW j \in 1..HASH_SIZE
      PROVE  byteIdx(i, j) < Len(b) /\ At(b, byteIdx(i, j)) = h(i)[j]
  <2> DEFINE k == 1 + i * HASH_SIZE
  <2>1. k \in Nat BY <1>3
  <2>2. Len(h(i)) = HASH_SIZE BY <1>2, <1>3
  <2>3. k + HASH_SIZE <= Len(b) /\ b[k + j] = h(i)[j] BY <1>3, <2>2 DEF Holds
  <2> HIDE DEF k
  <2>4. /\ k + (j - 1) \in Nat /\ k + (j - 1) < Len(b) /\ (k + (j - 1)) + 1 = k + j
        /\ k + (j - 1) < IndexRange
    BY <1>1, <1>2, <2>1, <2>3
  <2>5. \A m \in Nat : m < IndexRange => m % IndexRange = m BY <1>2
  <2>6. byteIdx(i, j) = k + (j - 1) BY <2>4, <2>5 DEF byteIdx, k
  <2> QED BY <2>3, <2>4, <2>6 DEF At
<1>5. ASSUME NEW i \in {0, 1} PROVE Wrong(b, s, i) = {} <=> s = h(i)
  <2>1. Wrong(b, s, i) = {j \in 1..HASH_SIZE : h(i)[j] # s[j]}
    <3>1. \A j \in 1..HASH_SIZE : ~(byteIdx(i, j) >= Len(b))
      <4> SUFFICES ASSUME NEW j \in 1..HASH_SIZE PROVE ~(byteIdx(i, j) >= Len(b)) OBVIOUS
      <4>1. byteIdx(i, j) \in Nat BY <1>2, <1>3 DEF byteIdx
      <4> QED BY <1>1, <1>4, <4>1
    <3> QED BY <1>4, <3>1 DEF Wrong
  <2>2. Wrong(b, s, i) = {} <=> \A j \in 1..HASH_SIZE : h(i)[j] = s[j] BY <2>1
  <2>3. (\A j \in 1..HASH_SIZE : h(i)[j] = s[j]) <=> s = h(i) BY <1>2, <1>3
  <2> QED BY <2>2, <2>3
<1>6. ASSUME NEW i \in {0, 1} PROVE ~Overruns(b, s, i)
  <2> SUFFICES ASSUME NEW j \in Wrong(b, s, i) PROVE ~(byteIdx(i, j) >= Len(b))
    BY DEF Overruns
  <2>1. j \in 1..HASH_SIZE BY DEF Wrong
  <2>2. byteIdx(i, j) \in Nat BY <1>2, <1>3, <2>1 DEF byteIdx
  <2> QED BY <1>1, <1>4, <2>1, <2>2
<1>7. 0 .. At(b, 0) - 1 = {0, 1} BY <1>1
<1>8. \A i \in {0, 1} : 0 .. i-1 \subseteq {0, 1} OBVIOUS
<1>9. _validateScriptHash(b, s) <=> \E i \in {0, 1} : Wrong(b, s, i) = {}
  BY <1>6, <1>7, <1>8 DEF _validateScriptHash
<1>10. _validateScriptHash(b, s) <=> s = h(0) \/ s = h(1) BY <1>5, <1>9
<1> QED BY <1>10 DEF h

(* What the reader makes of the packet of a template.                      *)
LEMMA PacketRead ==
  ASSUME NEW t \in Template, NEW b, b = templatesToMetadata(t), Len(b) < IndexRange,
         NEW s \in Script
  PROVE  /\ parseTxMetadataInternal(b, s)
              <=> Readable(t) /\ s \in {t.hashes[1], t.hashes[2]}
         /\ parseTxMetadataInternal(b, s)
              => ParsedName(b) = t.name /\ ParsedArguments(b) = t.arguments
<1> DEFINE n == Len(t.arguments)
           w == processedArgs(t)
           q == NameEnd(t)
<1>1. /\ b \in Seq(Nat) /\ Len(b) \in Nat /\ At(b, 0) = 2
      /\ NameAt \in Nat /\ q \in Nat /\ q = NameAt + Len(t.name)
      /\ Holds(b, NameAt, t.name) /\ Holds(b, q, <<0, n>>) /\ Holds(b, q + 2, w[n])
      /\ Len(b) = q + 2 + Len(w[n])
  BY PacketParts DEF NameEnd
<1>2. n \in Nat /\ w \in [0..n -> Seq(Nat)] BY ArgumentsWritten
<1>3. t.name \in Label BY TemplateAssumption
<1>4. q + 1 < Len(b) /\ At(b, q) = 0 /\ At(b, q + 1) = n
  <2>1. b \in Seq(Nat) /\ q \in Nat /\ Holds(b, q, <<0, n>>) BY <1>1
  <2> QED BY <2>1, HoldsTwo, Zenon
<1>5. Len(t.name) \in Nat /\ MAX_STRING \in Nat BY <1>3, LabelBytes, PacketAssumption
<1>6. AfterHashes(b) = NameAt
  BY <1>1, PacketAssumption DEF AfterHashes, READ_SKIP, NameAt
<1>7. Readable(t) <=> /\ Len(t.name) <= MAX_STRING /\ n <= MAX_ARGS
                      /\ \A i \in 1..n : Fits(t.arguments[i])
  <2>1. DOMAIN t.arguments = 1..n
    <3>1. t.arguments \in Seq(Argument) BY TemplateAssumption
    <3> QED BY <3>1
  <2> QED BY <2>1 DEF Readable, Fits
<1> HIDE DEF q, n, w
<1>8. /\ AfterName(b) = IF Len(t.name) <= MAX_STRING THEN q + 1 ELSE Fail(b)
      /\ SubSeq(b, NameAt + 1, q) = t.name
  <2>0. q < Len(b) /\ q = NameAt + Len(t.name)
    <3>1. q \in Nat /\ Len(b) \in Nat /\ q = NameAt + Len(t.name) BY <1>1
    <3>2. q < Len(b) BY <1>4, <3>1
    <3> QED BY <3>1, <3>2
  <2>1. NameAt + Len(t.name) < Len(b) /\ At(b, NameAt + Len(t.name)) = 0 BY <1>4, <2>0
  <2>2. /\ READ_STRING(b, NameAt) =
             IF Len(t.name) <= MAX_STRING THEN NameAt + Len(t.name) + 1 ELSE Fail(b)
        /\ SubSeq(b, NameAt + 1, NameAt + Len(t.name)) = t.name
    BY <1>1, <1>3, <2>1, StringRead
  <2> QED BY <1>1, <1>6, <2>2 DEF AfterName
<1>9. CASE ~(Len(t.name) <= MAX_STRING)
  <2>1. AfterName(b) = Len(b) + 1 BY <1>8, <1>9 DEF Fail
  <2>2. Len(b) \in Nat BY <1>1
  <2>3. ~(AfterName(b) < Len(b)) BY <2>1, <2>2
  <2> QED BY <1>7, <1>9, <2>3 DEF parseTxMetadataInternal
<1>10. CASE Len(t.name) <= MAX_STRING
  <2>1. AfterName(b) = q + 1 /\ AfterName(b) \in Nat /\ AfterName(b) + 1 = q + 2
    BY <1>1, <1>8, <1>10
  <2>2. At(b, AfterName(b)) = n /\ AfterName(b) < Len(b) BY <1>4, <2>1
  <2>3. ASSUME NEW i \in 0..n
        PROVE  AfterArguments(b)[i] =
                 IF \A k \in 1..i : Fits(t.arguments[k]) THEN q + 2 + Len(w[i]) ELSE Fail(b)
    <3>1. Holds(b, AfterName(b) + 1, w[n]) BY <1>1, <2>1
    <3>2. AfterArguments(b)[i] =
            IF \A k \in 1..i : Fits(t.arguments[k])
            THEN AfterName(b) + 1 + Len(w[i]) ELSE Fail(b)
      BY <1>1, <2>1, <2>2, <3>1, ArgumentsRead DEF n, w
    <3> QED BY <2>1, <3>2
  <2>4. AfterArguments(b)[n] = Len(b) <=> \A k \in 1..n : Fits(t.arguments[k])
    <3>1. n \in 0..n /\ Len(b) # Fail(b) BY <1>1, <1>2 DEF Fail
    <3> QED BY <1>1, <2>3, <3>1
  <2>5. _validateScriptHash(b, s) <=> s \in {t.hashes[1], t.hashes[2]} BY HashesCompared
  <2>6. Len(b) > 0 /\ At(b, 0) <= MAX_HASHES
    <3>1. q \in Nat /\ Len(b) \in Nat /\ At(b, 0) = 2 BY <1>1
    <3>2. MAX_HASHES \in Nat /\ MAX_HASHES >= 2 BY TemplateAssumption, PacketAssumption
    <3> QED BY <1>4, <3>1, <3>2
  <2>7. parseTxMetadataInternal(b, s) <=> Readable(t) /\ s \in {t.hashes[1], t.hashes[2]}
    BY <1>7, <1>10, <2>2, <2>4, <2>5, <2>6 DEF parseTxMetadataInternal
  <2>8. ParsedName(b) = t.name
    <3>1. AfterName(b) - 1 = q BY <1>1, <2>1
    <3> QED BY <1>6, <1>8, <3>1 DEF ParsedName
  <2>9. ASSUME \A k \in 1..n : Fits(t.arguments[k])
        PROVE  ParsedArguments(b) = t.arguments
    <3>1. ASSUME NEW i \in 1..n
          PROVE  ParsedArgument(b, AfterArguments(b)[i-1]) = t.arguments[i]
      <4>1. i - 1 \in 0..n /\ i - 1 \in Nat /\ \A k \in 1..(i-1) : k \in 1..n BY <1>2
      <4>2. AfterArguments(b)[i-1] = q + 2 + Len(w[i-1])
        <5>1. \A k \in 1..(i-1) : Fits(t.arguments[k]) BY <2>9, <4>1
        <5> QED BY <2>3, <4>1, <5>1
      <4>3. t.arguments[i] \in Argument BY ArgumentsWritten DEF n
      <4>4. q + 2 \in Nat BY <1>1
      <4>5. Holds(b, q + 2 + Len(w[i-1]), processArg(t.arguments[i], i - 1)) /\ Len(w[i-1]) \in Nat
        BY <1>1, <4>4, ArgumentsHeld DEF n, w
      <4> DEFINE p == q + 2 + Len(w[i-1])
                 c == t.arguments[i]
      <4>6. p \in Nat /\ c \in Argument /\ Holds(b, p, processArg(c, i - 1)) /\ Fits(c)
        BY <2>9, <4>3, <4>4, <4>5
      <4>7. ParsedArgument(b, p) = c
        <5> HIDE DEF p, c
        <5> QED BY <1>1, <4>1, <4>6, ArgumentRead
      <4> QED BY <4>2, <4>7
    <3>2. ParsedArguments(b) = [i \in 1..n |-> t.arguments[i]]
      BY <2>2, <3>1 DEF ParsedArguments
    <3>3. t.arguments = [i \in 1..n |-> t.arguments[i]]
      <4>1. t.arguments \in Seq(Argument) BY TemplateAssumption
      <4> QED BY <4>1 DEF n
    <3> QED BY <3>2, <3>3
  <2> QED BY <1>7, <2>7, <2>8, <2>9
<1> QED BY <1>9, <1>10

(* What a run knows of a packet that the generator wrote.                  *)
Generated ==
  /\ template # NoTemplate =>
       /\ template \in Template
       /\ packet = templatesToMetadata(template)
       /\ Len(packet) < IndexRange
  /\ script \in Script
  /\ result # "none" =>
       result = IF parseTxMetadataInternal(packet, script) THEN "ok" ELSE "error"

(* The packet of a template is parsed for exactly its two scripts when it  *)
(* keeps the limits of the device, and then gives back the name and the    *)
(* arguments; no template is misread (templatesToMetadata and              *)
(* parseTxMetadataInternal).                                               *)
THEOREM PacketReadBack == Spec => []GeneratedIsReadBack
<1>1. Init => Generated
  <2> SUFFICES ASSUME Init PROVE Generated OBVIOUS
  <2>1. ASSUME template \in Template, Len(templatesToMetadata(template)) <= MAX_LENGTH
        PROVE  Len(templatesToMetadata(template)) < IndexRange
    <3>1. Len(templatesToMetadata(template)) \in Nat BY <2>1, GeneratorAssumption
    <3> QED BY <2>1, <3>1, PacketAssumption
  <2> QED BY <2>1 DEF Init, Generated
<1>2. Generated /\ [parseTxMetadata]_vars => Generated'
  BY DEF Generated, parseTxMetadata, vars
<1>3. Generated => GeneratedIsReadBack
  <2> SUFFICES ASSUME Generated, template # NoTemplate, result # "none"
               PROVE  /\ result = "ok"
                           <=> /\ Readable(template)
                               /\ script \in {template.hashes[1], template.hashes[2]}
                      /\ result = "ok" => /\ ParsedName(packet) = template.name
                                          /\ ParsedArguments(packet) = template.arguments
    BY DEF GeneratedIsReadBack
  <2>1. result = "ok" <=> parseTxMetadataInternal(packet, script) BY DEF Generated
  <2> QED BY <2>1, PacketRead DEF Generated
<1> QED BY <1>1, <1>2, <1>3, PTL DEF Spec
=============================================================================
