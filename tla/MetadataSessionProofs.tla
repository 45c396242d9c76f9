----------------------- MODULE MetadataSessionProofs -----------------------
(***************************************************************************)
(* What is proved of the metadata part of a sign call, for every tree.     *)
(*                                                                         *)
(*   1. A call with files that are consistent with the root.               *)
(*   2. Numbers, sequences and the recursive definitions.                  *)
(*   3. The levels of the generated tree and the ways to its leaves.       *)
(*   4. What the device and the client read of it: the generated files are *)
(*      consistent with the root, and what they make is a tree.            *)
(*   5. Manifests of the same ids, sorted, pair up.                        *)
(*   6. Calls with generated files.                                        *)
(***************************************************************************)
EXTENDS GeneratedSession, SequenceTheorems, FiniteSetTheorems, WellFoundedInduction, TLAPS

-----------------------------------------------------------------------------
(* 1. A call with consistent files.                                        *)

(* While it has been alone the call has got as far as it has sent, and the *)
(* store holds the packet and the digest of its last chunk: why            *)
(* ListedIsAccepted is inductive.                                          *)
AtChunk ==
  /\ good
  /\ level = sent
  /\ sent > 0 => /\ metadata = Chunks(copy, script)[1]
                 /\ hash = Sha256[Chunks(copy, script)[sent]]

InStep ==
  /\ copy \in DOMAIN Copies
  /\ sent \in 0..Levels+1
  /\ script # Nothing => script \in DOMAIN Copies[copy].index
  /\ script # Nothing /\ alone => AtChunk

(* A chunk of a consistent file is taken, if nobody has come between: it   *)
(* raises the level by one.                                                *)
LEMMA ChunkIsTaken ==
  ASSUME WellFormed, InStep, Send, alone
  PROVE  /\ good'
         /\ level' = sent + 1
         /\ metadata' = Chunks(copy, script)[1]
         /\ hash' = Sha256[Chunks(copy, script)[sent + 1]]
<1> DEFINE chunks == Chunks(copy, script)
<1>1. Levels \in Nat \ {0} BY LevelsAssumption
<1>2. copy \in DOMAIN Copies /\ script \in DOMAIN Copies[copy].index
  BY DEF InStep, Send
<1>3. sent \in 0..Levels BY <1>1 DEF InStep, Send
<1>4. /\ chunks[1] \in Fits
      /\ \A k \in 1..Levels : /\ chunks[k+1] \in HashList
                              /\ Sha256[chunks[k]] \in WordsOf[chunks[k+1]]
  BY <1>2 DEF WellFormed
<1>5. AtChunk BY DEF InStep, Send
<1> HIDE DEF chunks
<1>6. CASE sent = 0
  <2>1. MetadataChunk(chunks[1]) /\ good' = Storable(chunks[1])
    BY <1>6 DEF Send, chunks
  <2>2. Storable(chunks[1]) BY <1>4, <1>5, <1>6 DEF AtChunk, Storable
  <2> QED BY <1>6, <2>1, <2>2 DEF MetadataChunk, storeTxMetadata, chunks
<1>7. CASE sent # 0
  <2>1. sent \in 1..Levels BY <1>1, <1>3, <1>7
  <2>2. ProofChunk(chunks[sent+1]) /\ good' = ExtendsProof(chunks[sent+1])
    BY <1>7 DEF Send, chunks
  <2>3. level = sent /\ hash = Sha256[chunks[sent]] /\ metadata = chunks[1]
    BY <1>5, <2>1 DEF AtChunk, chunks
  <2>4. ExtendsProof(chunks[sent+1]) BY <1>4, <2>1, <2>3 DEF ExtendsProof
  <2> QED
    BY <2>2, <2>3, <2>4 DEF ProofChunk, validateStoredTxMetadataMerkleTreeLevel, chunks
<1> QED BY <1>6, <1>7

LEMMA SendInStep ==
  ASSUME WellFormed, InStep, Send
  PROVE  InStep'
<1>1. /\ Levels \in Nat
      /\ sent \in 0..Levels
      /\ sent' = sent + 1
      /\ copy' = copy /\ script' = script /\ alone' = alone
  BY LevelsAssumption DEF InStep, Send
<1>2. sent' \in 0..Levels+1 BY <1>1
<1>3. Chunks(copy, script)' = Chunks(copy, script) BY <1>1 DEF Chunks
<1>4. ASSUME alone PROVE AtChunk'
  BY <1>1, <1>3, <1>4, ChunkIsTaken DEF AtChunk
<1> QED BY <1>1, <1>2, <1>4 DEF InStep

LEMMA InStepInductive ==
  ASSUME WellFormed
  PROVE  SessionSpec => []InStep
<1>1. SessionInit => InStep
  BY LevelsAssumption DEF SessionInit, InStep
<1>2. InStep /\ [SessionNext]_<<vars, sessionVars>> => InStep'
  <2> SUFFICES ASSUME InStep, [SessionNext]_<<vars, sessionVars>> PROVE InStep'
    OBVIOUS
  <2>1. CASE Send BY <2>1, SendInStep
  <2>2. CASE OtherCaller BY <2>2 DEF InStep, OtherCaller
  <2>3. ASSUME NEW s \in Script, Sign(s) PROVE InStep'
    <3>1. AtChunk' BY <2>3 DEF AtChunk, Sign, InitChunk, initStoredTxMetadata
    <3> QED BY <2>3, <3>1, LevelsAssumption DEF InStep, Sign
  <2>4. CASE UNCHANGED <<vars, sessionVars>>
    <3>1. Chunks(copy, script)' = Chunks(copy, script)
      BY <2>4 DEF Chunks, sessionVars
    <3> QED BY <2>4, <3>1 DEF InStep, AtChunk, vars, sessionVars
  <2> QED BY <2>1, <2>2, <2>3, <2>4 DEF SessionNext
<1> QED BY <1>1, <1>2, PTL DEF SessionSpec

-----------------------------------------------------------------------------
(* A copy whose proofs end at the compiled root serves each of its scripts *)
(* in a call that is left alone: no chunk is refused and the packet is     *)
(* accepted for the transaction.                                           *)
THEOREM WellFormedIsAccepted ==
  ASSUME WellFormed
  PROVE  SessionSpec => []ListedIsAccepted
<1>1. InStep => ListedIsAccepted
  <2> SUFFICES ASSUME InStep, script # Nothing, alone
               PROVE  good /\ (sent = Levels + 1 => parseTxMetadata(script))
    BY DEF ListedIsAccepted
  <2>1. AtChunk BY DEF InStep
  <2>2. ASSUME sent = Levels + 1 PROVE parseTxMetadata(script)
    <3>1. Levels + 1 > 0 BY LevelsAssumption
    <3>2. /\ level = Levels + 1
          /\ metadata = Chunks(copy, script)[1]
          /\ hash = Sha256[Chunks(copy, script)[Levels + 1]]
      BY <2>1, <2>2, <3>1 DEF AtChunk
    <3>3. hash = MerkleTreeRoot /\ script \in Covers[metadata]
      BY <3>2 DEF InStep, WellFormed
    <3> QED BY <3>2, <3>3 DEF parseTxMetadata
  <2> QED BY <2>1, <2>2 DEF AtChunk
<1> QED BY <1>1, InStepInductive, PTL

(* The store that these callers drive takes only steps the specification   *)
(* of the store allows to any host: what is proved of TxMetadata.Spec,     *)
(* above all AcceptedIsPublished, holds of every session, disturbed or not.*)
THEOREM SessionUsesStore ==
  ASSUME WellFormed
  PROVE  SessionSpec => Spec
<1>1. SessionInit => Init BY DEF SessionInit
<1>2. InStep /\ [SessionNext]_<<vars, sessionVars>> => [Next]_vars
  <2> SUFFICES ASSUME InStep, [SessionNext]_<<vars, sessionVars>> PROVE [Next]_vars
    OBVIOUS
  <2>1. CASE Send
    <3>1. Levels \in Nat /\ script # Nothing /\ sent < Levels + 1 /\ sent \in 0..Levels+1
      BY <2>1, LevelsAssumption DEF Send, InStep
    <3>2. sent + 1 \in 1..Levels+1 BY <3>1
    <3>3. Chunks(copy, script)[sent + 1] \in Payload
      BY <3>1, <3>2 DEF InStep, WellFormed
    <3> QED BY <2>1, <3>3 DEF Send, Next
  <2>2. CASE OtherCaller BY <2>2, ForeignAssumption DEF OtherCaller, Next
  <2>3. ASSUME NEW s \in Script, Sign(s) PROVE Next BY <2>3 DEF Sign, Next
  <2>4. CASE UNCHANGED <<vars, sessionVars>> BY <2>4
  <2> QED BY <2>1, <2>2, <2>3, <2>4 DEF SessionNext
<1> QED BY <1>1, <1>2, InStepInductive, PTL DEF SessionSpec, Spec

-----------------------------------------------------------------------------
(* 2. Numbers, sequences and the recursive definitions.                    *)

(* A set of naturals has a least element, and one that has 0 and, with     *)
(* each, the next has them all.                                            *)
LEMMA LeastNatural ==
  ASSUME NEW T, T \subseteq Nat, T # {}
  PROVE  \E x \in T : \A y \in T : x <= y
<1> DEFINE R == {ss \in Nat \X Nat : ss[1] < ss[2]}
<1>1. IsWellFoundedOn(R, Nat) BY NatLessThanWellFounded DEF OpToRel
<1>2. \A y, x \in Nat : y < x => <<y, x>> \in R OBVIOUS
<1> HIDE DEF R
<1>3. PICK x \in T : \A y \in T : ~ (<<y, x>> \in R) BY <1>1, WFMin
<1>4. \A y \in T : ~ (y < x) BY <1>2, <1>3
<1> QED BY <1>3, <1>4

LEMMA SetInduction ==
  ASSUME NEW T, 0 \in T, \A n \in Nat : n \in T => n + 1 \in T
  PROVE  Nat \subseteq T
<1> SUFFICES ASSUME ~(Nat \subseteq T) PROVE FALSE OBVIOUS
<1> DEFINE U == {n \in Nat : n \notin T}
<1>1. PICK x \in U : \A y \in U : x <= y BY LeastNatural
<1>2. x # 0 BY <1>1
<1>3. x - 1 \in Nat /\ x - 1 \notin U BY <1>1, <1>2
<1> QED BY <1>1, <1>3

(* A bounded set of them has a greatest.                                   *)
LEMMA GreatestOf ==
  ASSUME NEW n \in Nat, NEW T, T \subseteq 1..n, T # {}
  PROVE  \E x \in T : \A y \in T : y <= x
<1> DEFINE U == {m \in Nat : n - m \in T}
<1>1. PICK z \in T : TRUE OBVIOUS
<1>2. n - z \in U BY <1>1
<1>3. PICK m \in U : \A y \in U : m <= y BY <1>2, LeastNatural
<1>4. ASSUME NEW y \in T PROVE y <= n - m
  <2>1. n - y \in U /\ y \in Nat OBVIOUS
  <2>2. m <= n - y BY <1>3, <2>1
  <2> QED BY <2>1, <2>2
<1> QED BY <1>3, <1>4

(* Up to a bound.                                                          *)
LEMMA UpTo ==
  ASSUME NEW n \in Nat, NEW T, 0 \in T, \A k \in 0..n-1 : k \in T => k + 1 \in T
  PROVE  0..n \subseteq T
<1> DEFINE U == {k \in Nat : k <= n => k \in T}
<1>1. 0 \in U OBVIOUS
<1>2. ASSUME NEW k \in Nat, k \in U PROVE k + 1 \in U
  <2> SUFFICES ASSUME k + 1 <= n PROVE k + 1 \in T OBVIOUS
  <2>1. k \in 0..n-1 /\ k \in T BY <1>2
  <2> QED BY <2>1
<1>3. Nat \subseteq U BY <1>1, <1>2, SetInduction
<1> QED BY <1>3

IsSequence(s) == \E S : s \in Seq(S)

(* AsTuple changes no sequence.                                            *)
LEMMA AsTupleIs ==
  ASSUME NEW n \in Nat, NEW f, f = [i \in 1..n |-> f[i]]
  PROVE  AsTuple(f) = f /\ Len(f) = n /\ IsSequence(f)
<1> DEFINE S == {f[i] : i \in 1..n}
<1>1. \A i \in 1..n : f[i] \in S OBVIOUS
<1> HIDE DEF S
<1>2. [i \in 1..n |-> f[i]] \in Seq(S) BY <1>1, IsASeq
<1>3. f \in Seq(S) BY <1>2
<1>4. Len([i \in 1..n |-> f[i]]) = n OBVIOUS
<1>5. f \o <<>> = f BY <1>3, ConcatEmptySeq
<1> QED BY <1>3, <1>4, <1>5 DEF AsTuple, IsSequence

LEMMA BelowDefined ==
  \A k \in 0..MERKLE_TREE_DEPTH : Below[k] = IF k = 0 THEN 1 ELSE Arity * Below[k-1]
<1> DEFINE D == MERKLE_TREE_DEPTH
           IsF(g) == g = [k \in 0..D |-> IF k = 0 THEN 1 ELSE Arity * g[k-1]]
           Upto(k, f) == f = [i \in 0..k |-> IF i = 0 THEN 1 ELSE Arity * f[i-1]]
           T == {k \in Nat : \E f : Upto(k, f)}
<1>0. D \in Nat BY TreeSizeAssumption
<1>1. 0 \in T
  <2> DEFINE g == [i \in 0..0 |-> 1]
  <2>1. Upto(0, g) OBVIOUS
  <2> QED BY <2>1
<1>2. ASSUME NEW k \in Nat, k \in T PROVE k + 1 \in T
  <2>1. PICK f : Upto(k, f) BY <1>2
  <2> DEFINE g == [i \in 0..k+1 |-> IF i <= k THEN f[i] ELSE Arity * f[k]]
  <2>2. ASSUME NEW i \in 0..k+1 PROVE g[i] = IF i = 0 THEN 1 ELSE Arity * g[i-1]
    <3>1. CASE i <= k
      <4>1. i \in 0..k /\ g[i] = f[i] BY <3>1
      <4>2. f[i] = IF i = 0 THEN 1 ELSE Arity * f[i-1] BY <2>1, <4>1
      <4>3. i # 0 => g[i-1] = f[i-1] BY <3>1
      <4> QED BY <4>1, <4>2, <4>3
    <3>2. CASE i = k + 1
      <4>1. g[i] = Arity * f[k] /\ g[i-1] = f[k] /\ i # 0 BY <3>2
      <4> HIDE DEF g
      <4> QED BY <4>1
    <3> QED BY <3>1, <3>2
  <2>3. g = [i \in 0..k+1 |-> g[i]] OBVIOUS
  <2>4. Upto(k + 1, g) BY <2>2, <2>3, Zenon
  <2> HIDE DEF g, Upto
  <2> QED BY <2>4
<1>3. D \in T BY <1>0, <1>1, <1>2, SetInduction
<1>4. \E g : IsF(g) BY <1>3
<1> HIDE DEF IsF
<1>5. IsF(CHOOSE g : IsF(g)) BY <1>4
<1>6. Below = CHOOSE g : IsF(g) BY DEF Below, IsF
<1>7. IsF(Below) BY <1>5, <1>6
<1> QED BY <1>7, Zenon DEF IsF

LEMMA BelowPositive == \A k \in 0..MERKLE_TREE_DEPTH : Below[k] \in Nat \ {0}
<1> DEFINE T == {k \in 0..MERKLE_TREE_DEPTH : Below[k] \in Nat \ {0}}
<1>0. MERKLE_TREE_DEPTH \in Nat /\ Arity \in Nat \ {0} BY TreeSizeAssumption
<1>1. 0 \in T BY <1>0, BelowDefined
<1>2. ASSUME NEW k \in 0..MERKLE_TREE_DEPTH-1, k \in T PROVE k + 1 \in T
  <2>1. k + 1 \in 0..MERKLE_TREE_DEPTH /\ k + 1 # 0 /\ (k + 1) - 1 = k BY <1>0
  <2>2. Below[k+1] = Arity * Below[k] BY <2>1, BelowDefined
  <2>3. Below[k] \in Nat \ {0} BY <1>2
  <2>4. \A a, b \in Nat \ {0} : a * b \in Nat \ {0} OBVIOUS
  <2> QED BY <1>0, <2>1, <2>2, <2>3, <2>4
<1> QED BY <1>0, <1>1, <1>2, UpTo

(* Quotients and remainders.                                               *)
LEMMA Quotient ==
  ASSUME NEW x \in Nat, NEW a \in Nat \ {0}
  PROVE  /\ x \div a \in Nat /\ x % a \in 0..a-1
         /\ x = a * (x \div a) + (x % a)
<1>1. x \div a \in Nat OBVIOUS
<1>2. x % a \in 0..a-1 OBVIOUS
<1>3. x = a * (x \div a) + (x % a) OBVIOUS
<1> QED BY <1>1, <1>2, <1>3

LEMMA QuotientIs ==
  ASSUME NEW a \in Nat \ {0}, NEW q \in Nat, NEW r \in 0..a-1
  PROVE  (a * q + r) \div a = q /\ (a * q + r) % a = r
<1> DEFINE x == a * q + r
<1>1. x \in Nat OBVIOUS
<1> HIDE DEF x
<1>2. PICK y \in Nat, s \in 0..a-1 : y = x \div a /\ s = x % a /\ x = a * y + s BY <1>1, Quotient
<1>3. a * q + r = a * y + s BY <1>2 DEF x
<1>4. ASSUME y < q PROVE FALSE
  <2>1. PICK d \in Nat : q = y + 1 + d BY <1>4
  <2>2. a * q = a * y + a + a * d /\ a * d >= 0 BY <2>1
  <2>3. a * y \in Nat /\ a * d \in Nat /\ a * q \in Nat OBVIOUS
  <2> QED BY <1>3, <2>2, <2>3
<1>5. ASSUME q < y PROVE FALSE
  <2>1. PICK d \in Nat : y = q + 1 + d BY <1>5
  <2>2. a * y = a * q + a + a * d /\ a * d >= 0 BY <2>1
  <2>3. a * y \in Nat /\ a * d \in Nat /\ a * q \in Nat OBVIOUS
  <2> QED BY <1>3, <2>2, <2>3
<1>6. y = q BY <1>4, <1>5
<1>7. a * q \in Nat /\ a * y = a * q BY <1>6
<1>8. s = r BY <1>3, <1>7
<1> QED BY <1>2, <1>6, <1>8 DEF x

(* Dividing by b and then by a is dividing by their product.               *)
LEMMA QuotientTwice ==
  ASSUME NEW x \in Nat, NEW a \in Nat \ {0}, NEW b \in Nat \ {0}
  PROVE  (x \div b) \div a = x \div (a * b)
<1>1. PICK q \in Nat, r \in 0..b-1 : q = x \div b /\ x = b * q + r BY Quotient
<1>2. PICK p \in Nat, s \in 0..a-1 : p = q \div a /\ q = a * p + s BY Quotient
<1>3. x = (a * b) * p + (b * s + r)
  <2>1. b * q = b * (a * p) + b * s BY <1>2
  <2>2. b * (a * p) = (a * b) * p OBVIOUS
  <2>3. b * q \in Nat /\ b * s \in Nat /\ (a * b) * p \in Nat OBVIOUS
  <2> QED BY <1>1, <2>1, <2>2, <2>3
<1>4. b * s + r \in 0..(a * b)-1
  <2>1. PICK d \in Nat : a = s + 1 + d OBVIOUS
  <2>2. a * b = b * s + b + b * d BY <2>1
  <2>3. b * s \in Nat /\ b * d \in Nat OBVIOUS
  <2> QED BY <2>2, <2>3
<1>5. a * b \in Nat \ {0} OBVIOUS
<1> DEFINE c == a * b
           t == b * s + r
<1>6. c \in Nat \ {0} /\ t \in 0..c-1 /\ x = c * p + t BY <1>3, <1>4, <1>5
<1> HIDE DEF c, t
<1>7. x \div c = p BY <1>6, QuotientIs
<1> QED BY <1>1, <1>2, <1>7 DEF c

-----------------------------------------------------------------------------
(* 3. The levels of the generated tree and the ways to its leaves.         *)
Over(nodes) ==
  AsTuple([j \in DOMAIN splitToTuples(nodes) |-> processMerkleTreeLevel(splitToTuples(nodes)[j])])

LEMMA LevelDefined ==
  \A k \in 0..MERKLE_TREE_DEPTH : Level[k] = IF k = 0 THEN Leaves ELSE Over(Level[k-1])
<1> DEFINE D == MERKLE_TREE_DEPTH
           IsF(g) == g = [k \in 0..D |-> IF k = 0 THEN Leaves ELSE Over(g[k-1])]
           Upto(k, f) == f = [i \in 0..k |-> IF i = 0 THEN Leaves ELSE Over(f[i-1])]
           T == {k \in Nat : \E f : Upto(k, f)}
<1>0. D \in Nat BY TreeSizeAssumption
<1>1. 0 \in T
  <2> DEFINE g == [i \in 0..0 |-> Leaves]
  <2>1. Upto(0, g) OBVIOUS
  <2> QED BY <2>1
<1>2. ASSUME NEW k \in Nat, k \in T PROVE k + 1 \in T
  <2>1. PICK f : Upto(k, f) BY <1>2
  <2> DEFINE g == [i \in 0..k+1 |-> IF i <= k THEN f[i] ELSE Over(f[k])]
  <2>2. ASSUME NEW i \in 0..k+1 PROVE g[i] = IF i = 0 THEN Leaves ELSE Over(g[i-1])
    <3>1. CASE i <= k
      <4>1. i \in 0..k /\ g[i] = f[i] BY <3>1
      <4>2. f[i] = IF i = 0 THEN Leaves ELSE Over(f[i-1]) BY <2>1, <4>1
      <4>3. i # 0 => g[i-1] = f[i-1] BY <3>1
      <4> QED BY <4>1, <4>2, <4>3
    <3>2. CASE i = k + 1
      <4>1. g[i] = Over(f[k]) /\ g[i-1] = f[k] /\ i # 0 BY <3>2
      <4> HIDE DEF g
      <4> QED BY <4>1
    <3> QED BY <3>1, <3>2
  <2>3. g = [i \in 0..k+1 |-> g[i]] OBVIOUS
  <2>4. Upto(k + 1, g) BY <2>2, <2>3, Zenon
  <2> HIDE DEF g, Upto
  <2> QED BY <2>4
<1>3. D \in T BY <1>0, <1>1, <1>2, SetInduction
<1>4. \E g : IsF(g) BY <1>3
<1> HIDE DEF IsF
<1>5. IsF(CHOOSE g : IsF(g)) BY <1>4
<1>6. Level = CHOOSE g : IsF(g) BY DEF Level, IsF, Over
<1>7. IsF(Level) BY <1>5, <1>6
<1> QED BY <1>7, Zenon DEF IsF

LEMMA EmptyContentDefined ==
  \A k \in 0..MERKLE_TREE_DEPTH-1 :
    EmptyContent[k] = IF k = 0 THEN EmptyPacket
                      ELSE <<"list", [i \in 1..Arity |-> Hash(EmptyContent[k-1])]>>
<1> DEFINE D == MERKLE_TREE_DEPTH - 1
           List(p) == <<"list", [i \in 1..Arity |-> Hash(p)]>>
           IsF(g) == g = [k \in 0..D |-> IF k = 0 THEN EmptyPacket ELSE List(g[k-1])]
           Upto(k, f) == f = [i \in 0..k |-> IF i = 0 THEN EmptyPacket ELSE List(f[i-1])]
           T == {k \in Nat : \E f : Upto(k, f)}
<1>0. D \in Nat BY TreeSizeAssumption
<1>6. EmptyContent = CHOOSE g : IsF(g) BY DEF EmptyContent
<1> HIDE DEF List
<1>1. 0 \in T
  <2> DEFINE g == [i \in 0..0 |-> EmptyPacket]
  <2>1. Upto(0, g) OBVIOUS
  <2> QED BY <2>1
<1>2. ASSUME NEW k \in Nat, k \in T PROVE k + 1 \in T
  <2>1. PICK f : Upto(k, f) BY <1>2
  <2> DEFINE g == [i \in 0..k+1 |-> IF i <= k THEN f[i] ELSE List(f[k])]
  <2>2. ASSUME NEW i \in 0..k+1 PROVE g[i] = IF i = 0 THEN EmptyPacket ELSE List(g[i-1])
    <3>1. CASE i <= k
      <4>1. i \in 0..k /\ g[i] = f[i] BY <3>1
      <4>2. f[i] = IF i = 0 THEN EmptyPacket ELSE List(f[i-1]) BY <2>1, <4>1
      <4>3. i # 0 => g[i-1] = f[i-1] BY <3>1
      <4> QED BY <4>1, <4>2, <4>3
    <3>2. CASE i = k + 1
      <4>1. g[i] = List(f[k]) /\ g[i-1] = f[k] /\ i # 0 BY <3>2
      <4> HIDE DEF g
      <4> QED BY <4>1
    <3> QED BY <3>1, <3>2
  <2>3. g = [i \in 0..k+1 |-> g[i]] OBVIOUS
  <2>4. Upto(k + 1, g) BY <2>2, <2>3, Zenon
  <2> HIDE DEF g, Upto
  <2> QED BY <2>4
<1>3. D \in T BY <1>0, <1>1, <1>2, SetInduction
<1>4. \E g : IsF(g) BY <1>3
<1> HIDE DEF IsF
<1>5. IsF(CHOOSE g : IsF(g)) BY <1>4
<1>7. IsF(EmptyContent) BY <1>5, <1>6
<1> QED BY <1>7, Zenon DEF IsF, List

(* The packets, one for each pair of templates.                            *)
LEMMA SortedIs ==
  ASSUME NEW S, NEW templates \in Seq(S)
  PROVE  /\ Sorted(templates) =
              [i \in 1..Len(templates) |->
                 templates[CHOOSE k \in DOMAIN templates : Before(templates, k) = i - 1]]
         /\ DOMAIN Sorted(templates) = 1..Len(templates)
<1> DEFINE f == [i \in 1..Len(templates) |->
                   templates[CHOOSE k \in DOMAIN templates : Before(templates, k) = i - 1]]
<1>1. Len(templates) \in Nat /\ DOMAIN templates = 1..Len(templates) OBVIOUS
<1>2. f = [i \in 1..Len(templates) |-> f[i]] OBVIOUS
<1>3. Sorted(templates) = AsTuple(f) BY <1>1 DEF Sorted
<1> HIDE DEF f
<1>4. Sorted(templates) = f BY <1>1, <1>2, <1>3, AsTupleIs
<1> QED BY <1>4 DEF f

LEMMA Packets ==
  ASSUME ManifestsFit
  PROVE  LET n == Len(TestnetTemplates)
         IN  /\ n \in Nat /\ n <= Below[MERKLE_TREE_DEPTH]
             /\ Len(txMetadata) = n /\ DOMAIN txMetadata = 1..n
             /\ \A i \in 1..n : txMetadata[i] = templateToPacket(Sorted(TestnetTemplates)[i],
                                                                 Sorted(MainnetTemplates)[i])
<1> DEFINE n == Len(TestnetTemplates)
           f == [i \in 1..n |-> templateToPacket(Sorted(TestnetTemplates)[i],
                                                 Sorted(MainnetTemplates)[i])]
<1>1. TestnetTemplates \in Seq(Templates) /\ n \in Nat /\ n <= Below[MERKLE_TREE_DEPTH]
  BY DEF ManifestsFit
<1>2. DOMAIN Sorted(TestnetTemplates) = 1..n BY <1>1, SortedIs
<1>3. txMetadata = AsTuple(f) BY <1>2 DEF txMetadata
<1>4. f = [i \in 1..n |-> f[i]] OBVIOUS
<1> HIDE DEF f
<1>5. txMetadata = f /\ Len(f) = n BY <1>1, <1>3, <1>4, AsTupleIs
<1> QED BY <1>1, <1>5 DEF f

PacketAt(i) == IF i <= Len(txMetadata) THEN txMetadata[i] ELSE EmptyPacket

LEMMA LeavesAre ==
  /\ Leaves = [i \in 1..Below[MERKLE_TREE_DEPTH] |-> Leaf(Hash(PacketAt(i)), PacketAt(i))]
  /\ Len(Leaves) = Below[MERKLE_TREE_DEPTH]
<1> DEFINE n == Below[MERKLE_TREE_DEPTH]
           f == [i \in 1..n |-> Leaf(Hash(PacketAt(i)), PacketAt(i))]
           packet == [i \in 1..n |-> PacketAt(i)]
<1>1. n \in Nat BY BelowPositive, TreeSizeAssumption
<1>2. Leaves = AsTuple([i \in DOMAIN packet |-> Leaf(Hash(packet[i]), packet[i])])
  BY DEF Leaves, PacketAt
<1>3. [i \in DOMAIN packet |-> Leaf(Hash(packet[i]), packet[i])] = f OBVIOUS
<1>4. f = [i \in 1..n |-> f[i]] OBVIOUS
<1> HIDE DEF f, n
<1>5. Leaves = f /\ Len(f) = n BY <1>1, <1>2, <1>3, <1>4, AsTupleIs
<1> QED BY <1>5 DEF f, n

(* Level k has a node for each Below[k] leaves.                            *)
LevelFull(k) ==
  /\ IsSequence(Level[k])
  /\ Len(Level[k]) = Below[MERKLE_TREE_DEPTH - k]

NodeOver(k, j) == processMerkleTreeLevel(SubSeq(Level[k-1], (j-1) * Arity + 1, j * Arity))

LEMMA LevelAbove ==
  ASSUME NEW k \in 1..MERKLE_TREE_DEPTH, LevelFull(k - 1)
  PROVE  /\ LevelFull(k)
         /\ \A j \in 1..Below[MERKLE_TREE_DEPTH - k] : Level[k][j] = NodeOver(k, j)
<1> DEFINE D == MERKLE_TREE_DEPTH
           m == Below[D-k]
           nodes == Level[k-1]
           f == [j \in 1..m |-> NodeOver(k, j)]
<1>1. D \in Nat /\ k - 1 \in 0..D /\ D - k \in 0..D /\ D - (k - 1) \in 0..D
      /\ D - (k - 1) # 0 /\ (D - (k - 1)) - 1 = D - k /\ k \in 0..D /\ k # 0
  BY TreeSizeAssumption
<1>2. Below[D-(k-1)] = Arity * m BY <1>1, BelowDefined
<1>3. m \in Nat /\ Arity \in Nat \ {0} BY <1>1, BelowPositive, TreeSizeAssumption
<1>4. Len(nodes) = Arity * m BY <1>2 DEF LevelFull
<1>5. (Arity * m) \div Arity = m
  <2>1. 0 \in 0..Arity-1 /\ Arity * m + 0 = Arity * m BY <1>3
  <2> QED BY <1>3, <2>1, QuotientIs
<1>6. splitToTuples(nodes) = [j \in 1..m |-> SubSeq(nodes, (j-1) * Arity + 1, j * Arity)]
  BY <1>4, <1>5 DEF splitToTuples
<1>7. Level[k] = Over(nodes) BY <1>1, LevelDefined
<1>8. Over(nodes) = AsTuple(f) BY <1>6 DEF Over, NodeOver
<1>9. f = [j \in 1..m |-> f[j]] OBVIOUS
<1> HIDE DEF f, m, nodes
<1>10. Level[k] = f /\ Len(f) = m /\ IsSequence(f)
  BY <1>3, <1>7, <1>8, <1>9, AsTupleIs
<1>11. LevelFull(k) BY <1>10 DEF LevelFull, m
<1>12. \A j \in 1..m : Level[k][j] = NodeOver(k, j) BY <1>10 DEF f
<1> QED BY <1>11, <1>12 DEF m

LEMMA LevelsFull == \A k \in 0..MERKLE_TREE_DEPTH : LevelFull(k)
<1> DEFINE D == MERKLE_TREE_DEPTH
           T == {k \in 0..D : LevelFull(k)}
<1>0. D \in Nat BY TreeSizeAssumption
<1>1. 0 \in T
  <2>1. Level[0] = Leaves /\ D - 0 = D BY <1>0, LevelDefined
  <2>2. Below[D] \in Nat BY <1>0, BelowPositive
  <2>3. Leaves = [i \in 1..Below[D] |-> Leaves[i]] BY LeavesAre
  <2>4. IsSequence(Leaves) BY <2>2, <2>3, AsTupleIs
  <2>5. LevelFull(0) BY <2>1, <2>4, LeavesAre DEF LevelFull
  <2> QED BY <1>0, <2>5
<1>2. ASSUME NEW k \in 0..D-1, k \in T PROVE k + 1 \in T
  <2>1. k + 1 \in 1..D /\ (k + 1) - 1 = k /\ k + 1 \in 0..D BY <1>0
  <2>2. LevelFull((k + 1) - 1) BY <1>2, <2>1
  <2>3. LevelFull(k + 1) BY <2>1, <2>2, LevelAbove
  <2> QED BY <2>1, <2>3
<1> QED BY <1>0, <1>1, <1>2, UpTo

LEMMA LevelDomain ==
  ASSUME NEW k \in 0..MERKLE_TREE_DEPTH
  PROVE  /\ Below[MERKLE_TREE_DEPTH - k] \in Nat \ {0}
         /\ DOMAIN Level[k] = 1..Below[MERKLE_TREE_DEPTH - k]
<1>1. MERKLE_TREE_DEPTH - k \in 0..MERKLE_TREE_DEPTH BY TreeSizeAssumption
<1>2. LevelFull(k) BY LevelsFull
<1>3. PICK S : Level[k] \in Seq(S) BY <1>2 DEF LevelFull, IsSequence
<1> QED BY <1>1, <1>2, <1>3, BelowPositive DEF LevelFull

(* The leaves.                                                             *)
LEMMA LeafNode ==
  ASSUME NEW j \in 1..Below[MERKLE_TREE_DEPTH]
  PROVE  /\ Content(Level[0][j]) = PacketAt(j)
         /\ Level[0][j].hash = Hash(PacketAt(j))
<1>1. Level[0] = Leaves BY LevelDefined, TreeSizeAssumption
<1>2. Level[0][j] = Leaf(Hash(PacketAt(j)), PacketAt(j)) BY <1>1, LeavesAre
<1> DEFINE p == PacketAt(j)
           n == Leaf(Hash(p), p)
<1> HIDE DEF p
<1>3. n.hash = Hash(p) /\ n.children = <<p>> BY DEF Leaf, Node
<1>4. Len(<<p>>) = 1 /\ <<p>>[1] = p OBVIOUS
<1>5. Content(n) = p BY <1>3, <1>4 DEF Content, IsLeaf
<1> QED BY <1>2, <1>3, <1>5 DEF p

(* The nodes above them, each over Arity nodes of the level below.         *)
Child(j, c) == (j - 1) * Arity + c

LEMMA ChildPlace ==
  ASSUME NEW n \in Nat, NEW j \in 1..n, NEW c \in 1..Arity
  PROVE  Child(j, c) \in 1..Arity * n
<1>1. Arity \in Nat BY TreeSizeAssumption
<1>2. PICK d \in Nat : n = j + d OBVIOUS
<1>3. Arity * n = (j - 1) * Arity + Arity + Arity * d BY <1>1, <1>2
<1>4. (j - 1) * Arity \in Nat /\ Arity * d \in Nat BY <1>1
<1> QED BY <1>1, <1>3, <1>4 DEF Child

LEMMA ListNode ==
  ASSUME NEW k \in 1..MERKLE_TREE_DEPTH, NEW j \in 1..Below[MERKLE_TREE_DEPTH - k]
  PROVE  LET n == Level[k][j]
         IN  /\ n = Node(n.hash, n.children)
             /\ n.children = [c \in 1..Arity |-> Level[k-1][Child(j, c)]]
             /\ Len(n.children) = Arity
             /\ \A c \in 1..Arity : Child(j, c) \in 1..Below[MERKLE_TREE_DEPTH - (k-1)]
             /\ Content(n) = <<"list", [c \in 1..Arity |-> Level[k-1][Child(j, c)].hash]>>
             /\ n.hash = Hash(Content(n))
<1> DEFINE D == MERKLE_TREE_DEPTH
           m == Below[D-k]
           nodes == Level[k-1]
           children == SubSeq(nodes, (j-1) * Arity + 1, j * Arity)
           n == processMerkleTreeLevel(children)
<1>1. D \in Nat /\ k - 1 \in 0..D /\ D - k \in 0..D /\ D - (k - 1) \in 0..D
      /\ D - (k - 1) # 0 /\ (D - (k - 1)) - 1 = D - k /\ k \in 0..D /\ k # 0
  BY TreeSizeAssumption
<1>2. Below[D-(k-1)] = Arity * m BY <1>1, BelowDefined
<1>3. m \in Nat /\ Arity \in Nat \ {0, 1} BY <1>1, BelowPositive, TreeSizeAssumption
<1>4. LevelFull(k - 1) BY <1>1, LevelsFull
<1>5. Level[k][j] = n BY <1>4, LevelAbove DEF NodeOver
<1>6. \A c \in 1..Arity : Child(j, c) \in 1..Arity * m BY <1>3, ChildPlace
<1>7. PICK S : nodes \in Seq(S) BY <1>4 DEF LevelFull, IsSequence
<1>8. Len(nodes) = Arity * m BY <1>2, <1>4 DEF LevelFull
<1>9. children = [c \in 1..Arity |-> nodes[Child(j, c)]] /\ Len(children) = Arity
  <2>1. Child(j, 1) \in 1..Arity * m /\ Child(j, Arity) \in 1..Arity * m BY <1>3, <1>6
  <2>2. (j - 1) * Arity + Arity = j * Arity BY <1>3
  <2> DEFINE a == (j - 1) * Arity + 1
             b == j * Arity
  <2>3. a \in 1..Len(nodes) /\ b \in a-1..Len(nodes) /\ b - a + 1 = Arity
    <3>1. (j - 1) * Arity \in Nat BY <1>3
    <3> QED BY <1>3, <1>8, <2>1, <2>2, <3>1 DEF Child
  <2>4. \A c \in 1..Arity : a + c - 1 = Child(j, c)
    <3> DEFINE x == (j - 1) * Arity
    <3>1. x \in Nat BY <1>3
    <3> HIDE DEF x
    <3>2. \A c \in 1..Arity : (x + 1) + c - 1 = x + c BY <1>3, <3>1
    <3> QED BY <3>2, Zenon DEF x, Child
  <2> HIDE DEF a, b, nodes
  <2>5. Len(SubSeq(nodes, a, b)) = Arity /\ SubSeq(nodes, a, b) = [c \in 1..Arity |-> nodes[a + c - 1]]
    <3>1. a \in Int /\ b \in Int /\ a <= b /\ b - a + 1 = Arity BY <1>3, <1>7, <2>3
    <3>2. \A c \in a..b : nodes[c] \in S
      <4>1. \A c \in a..b : c \in 1..Len(nodes) BY <1>7, <2>3
      <4> QED BY <1>7, <4>1, ElementOfSeq
    <3> DEFINE u == SubSeq(nodes, a, b)
    <3>3. /\ u \in Seq(S) /\ Len(u) = IF a <= b THEN b - a + 1 ELSE 0
          /\ \A c \in 1..b-a+1 : u[c] = nodes[a + c - 1]
      BY <3>1, <3>2, SubSeqProperties
    <3> HIDE DEF u
    <3>4. Len(u) = Arity /\ \A c \in 1..Arity : u[c] = nodes[a + c - 1] BY <3>1, <3>3
    <3>5. u = [c \in 1..Arity |-> u[c]] BY <3>3, <3>4
    <3>6. u = [c \in 1..Arity |-> nodes[a + c - 1]] BY <3>4, <3>5
    <3> QED BY <3>4, <3>6 DEF u
  <2>7. [c \in 1..Arity |-> nodes[a + c - 1]] = [c \in 1..Arity |-> nodes[Child(j, c)]]
    BY <2>4
  <2> QED BY <2>5, <2>7 DEF a, b
<1> HIDE DEF children, nodes
<1> DEFINE list == <<"list", [c \in 1..Arity |-> children[c].hash]>>
<1>10. n = Node(Hash(list), children) BY <1>9 DEF processMerkleTreeLevel
<1>11. n.hash = Hash(list) /\ n.children = children BY <1>10 DEF Node
<1>12. Content(n) = list BY <1>3, <1>9, <1>11 DEF Content, IsLeaf, Hashes
<1>13. list = <<"list", [c \in 1..Arity |-> nodes[Child(j, c)].hash]>> BY <1>9
<1> HIDE DEF n, list
<1> QED
  BY <1>2, <1>5, <1>6, <1>9, <1>10, <1>11, <1>12, <1>13 DEF nodes

(* The way to a leaf.  Its node of height h stands at Place(i, h).         *)
Place(i, h) == ((i - 1) \div Below[h]) + 1

LEMMA PlaceBelow ==
  ASSUME NEW i \in 1..Below[MERKLE_TREE_DEPTH], NEW h \in 1..MERKLE_TREE_DEPTH
  PROVE  LET c == Way(i)[MERKLE_TREE_DEPTH - h + 1] + 1
         IN  c \in 1..Arity /\ Place(i, h - 1) = Child(Place(i, h), c)
<1> DEFINE D == MERKLE_TREE_DEPTH
           a == Arity
           x == i - 1
           b == Below[h-1]
           q == x \div b
<1>1. D \in Nat /\ D - h + 1 \in 1..D /\ D - (D - h + 1) = h - 1
      /\ h \in 0..D /\ h - 1 \in 0..D /\ h # 0 /\ D \in 0..D
  BY TreeSizeAssumption
<1>2. a \in Nat \ {0} /\ b \in Nat \ {0} /\ Below[h] = a * b
  BY <1>1, BelowPositive, BelowDefined, TreeSizeAssumption
<1>3. Way(i)[D-h+1] = q % a BY <1>1 DEF Way
<1>4. x \in Nat BY <1>1, BelowPositive
<1> HIDE DEF a, b, x
<1>5. q \in Nat BY <1>2, <1>4, Quotient
<1>6. q \div a = x \div Below[h]
  <2>1. (x \div b) \div a = x \div (a * b) BY <1>2, <1>4, QuotientTwice, Zenon
  <2> QED BY <1>2, <2>1, Zenon
<1>7. q % a \in 0..a-1 /\ q \div a \in Nat /\ q = a * (q \div a) + (q % a)
  BY <1>2, <1>5, Quotient
<1>8. Place(i, h - 1) = q + 1 /\ Place(i, h) = (q \div a) + 1
  BY <1>6 DEF Place, x, b
<1> DEFINE r == q % a
           p == q \div a
<1>9. r \in 0..a-1 /\ p \in Nat /\ q = a * p + r /\ Place(i, h) = p + 1 /\ Way(i)[D-h+1] = r
  BY <1>3, <1>7, <1>8
<1> HIDE DEF r, p
<1>10. Child(p + 1, r + 1) = q + 1
  <2>1. ((p + 1) - 1) * a = a * p /\ a * p \in Nat BY <1>2, <1>9
  <2> QED BY <1>9, <2>1 DEF Child, a
<1>11. r + 1 \in 1..a BY <1>2, <1>9
<1> QED BY <1>8, <1>9, <1>10, <1>11 DEF a

LEMMA Places ==
  ASSUME NEW i \in 1..Below[MERKLE_TREE_DEPTH]
  PROVE  /\ \A h \in 0..MERKLE_TREE_DEPTH : Place(i, h) \in 1..Below[MERKLE_TREE_DEPTH - h]
         /\ Place(i, 0) = i
         /\ Place(i, MERKLE_TREE_DEPTH) = 1
<1> DEFINE D == MERKLE_TREE_DEPTH
           T == {t \in 0..D : Place(i, D - t) \in 1..Below[t]}
<1>0. D \in Nat /\ 0 \in 0..D /\ D \in 0..D BY TreeSizeAssumption
<1>1. Below[0] = 1 /\ Below[D] \in Nat \ {0} BY <1>0, BelowDefined, BelowPositive
<1>2. i - 1 \in Nat /\ i - 1 < Below[D] BY <1>1
<1>3. Place(i, 0) = i
  <2>1. (i - 1) \div 1 = i - 1 BY <1>2
  <2> QED BY <1>1, <1>2, <2>1 DEF Place
<1>4. Place(i, D) = 1
  <2> DEFINE n == Below[D]
  <2>1. n \in Nat \ {0} /\ i - 1 \in 0..n-1 BY <1>1, <1>2
  <2> HIDE DEF n
  <2>2. n * 0 + (i - 1) = i - 1 BY <1>2, <2>1
  <2>3. (i - 1) \div n = 0 BY <2>1, <2>2, QuotientIs
  <2> QED BY <2>3 DEF Place, n
<1>5. 0 \in T BY <1>0, <1>1, <1>4
<1>6. ASSUME NEW t \in 0..D-1, t \in T PROVE t + 1 \in T
  <2> DEFINE h == D - t
  <2>1. h \in 1..D /\ D - h = t /\ h - 1 = D - (t + 1) /\ t + 1 \in 0..D /\ D - (h - 1) = t + 1
    BY <1>0
  <2>2. Place(i, h) \in 1..Below[D-h] BY <1>6, <2>1
  <2>3. PICK c \in 1..Arity : Place(i, h - 1) = Child(Place(i, h), c) BY <2>1, PlaceBelow
  <2>4. Child(Place(i, h), c) \in 1..Below[D-(h-1)] BY <2>1, <2>2, ListNode
  <2> QED BY <2>1, <2>3, <2>4
<1>7. 0..D \subseteq T BY <1>0, <1>5, <1>6, UpTo
<1>8. ASSUME NEW h \in 0..D PROVE Place(i, h) \in 1..Below[D-h]
  <2>1. D - h \in 0..D /\ D - (D - h) = h BY <1>0
  <2> QED BY <1>7, <2>1
<1> QED BY <1>3, <1>4, <1>8

(* A descent is what Along computes.                                       *)
LEMMA AlongIs ==
  ASSUME NEW k \in Nat, NEW tree, NEW way, NEW f, f[0] = tree,
         \A i \in 1..k : f[i] = f[i-1].children[way[i] + 1]
  PROVE  Along(tree, way, k) = f[k]
<1> DEFINE IsDown(g) == g = [i \in 0..k |-> IF i = 0 THEN tree ELSE g[i-1].children[way[i] + 1]]
           h == [i \in 0..k |-> f[i]]
<1>1. IsDown(h)
  <2>1. ASSUME NEW i \in 0..k
        PROVE  h[i] = IF i = 0 THEN tree ELSE h[i-1].children[way[i] + 1]
    <3>1. CASE i = 0 BY <3>1
    <3>2. CASE i # 0
      <4>1. i \in 1..k /\ i - 1 \in 0..k BY <3>2
      <4>2. h[i] = f[i] /\ h[i-1] = f[i-1] BY <4>1
      <4> QED BY <3>2, <4>1, <4>2
    <3> QED BY <3>1, <3>2
  <2>2. h = [i \in 0..k |-> h[i]] OBVIOUS
  <2> HIDE DEF h
  <2> QED BY <2>1, <2>2, Zenon
<1> DEFINE down == CHOOSE g : IsDown(g)
<1>2. Along(tree, way, k) = down[k] BY DEF Along
<1> HIDE DEF IsDown, h
<1>3. IsDown(down) BY <1>1
<1> HIDE DEF down
<1>4. \A i \in 0..k : down[i] = IF i = 0 THEN tree ELSE down[i-1].children[way[i] + 1]
  BY <1>3, Zenon DEF IsDown
<1> DEFINE T == {i \in 0..k : down[i] = f[i]}
<1>5. 0 \in T BY <1>4
<1>6. ASSUME NEW i \in 0..k-1, i \in T PROVE i + 1 \in T
  <2>1. i + 1 \in 0..k /\ i + 1 \in 1..k /\ i + 1 # 0 /\ (i + 1) - 1 = i OBVIOUS
  <2>2. down[i+1] = down[i].children[way[i+1] + 1] BY <1>4, <2>1
  <2>3. f[i+1] = f[i].children[way[i+1] + 1] BY <2>1
  <2> QED BY <1>6, <2>1, <2>2, <2>3
<1>7. 0..k \subseteq T BY <1>5, <1>6, UpTo
<1> QED BY <1>2, <1>7

-----------------------------------------------------------------------------
(* 4. What the device and the client read of the generated files.          *)

(* The contents at a height, and what the device reads of them.            *)
LEMMA NodesOf ==
  ASSUME NEW k \in 0..MERKLE_TREE_DEPTH
  PROVE  GeneratedNodes[k] = {Content(Level[k][j]) : j \in 1..Below[MERKLE_TREE_DEPTH - k]}
BY LevelDomain DEF GeneratedNodes

LEMMA NodeRead ==
  ASSUME PayloadsAreRead,
         NEW k \in 0..MERKLE_TREE_DEPTH, NEW j \in 1..Below[MERKLE_TREE_DEPTH - k]
  PROVE  LET p == Content(Level[k][j])
         IN  p \in GeneratedNodes[k] /\ p \in Payload /\ Sha256[p] = Level[k][j].hash
<1> DEFINE p == Content(Level[k][j])
<1>1. p \in GeneratedNodes[k] BY NodesOf
<1>2. Level[k][j].hash = Hash(p)
  <2>1. CASE k = 0
    <3>1. j \in 1..Below[MERKLE_TREE_DEPTH] BY <2>1, TreeSizeAssumption
    <3> QED BY <2>1, <3>1, LeafNode
  <2>2. CASE k # 0
    <3>1. k \in 1..MERKLE_TREE_DEPTH BY <2>2, TreeSizeAssumption
    <3> QED BY <3>1, ListNode
  <2> QED BY <2>1, <2>2
<1> HIDE DEF p
<1>3. p \in Payload /\ Sha256[p] = Hash(p) BY <1>1 DEF PayloadsAreRead
<1> QED BY <1>1, <1>2, <1>3 DEF p

LEMMA ListRead ==
  ASSUME PayloadsAreRead,
         NEW k \in 1..MERKLE_TREE_DEPTH, NEW j \in 1..Below[MERKLE_TREE_DEPTH - k]
  PROVE  LET p == Content(Level[k][j])
         IN  /\ p \in HashList
             /\ WordsOf[p] = {Level[k-1][Child(j, c)].hash : c \in 1..Arity}
<1> DEFINE p == Content(Level[k][j])
           f == [c \in 1..Arity |-> Level[k-1][Child(j, c)].hash]
<1>1. k \in 0..MERKLE_TREE_DEPTH OBVIOUS
<1>2. p \in GeneratedNodes[k] BY <1>1, NodeRead
<1>3. p = <<"list", f>> BY ListNode
<1>4. p[2] = f /\ DOMAIN f = 1..Arity BY <1>3
<1> HIDE DEF p
<1>5. p \in HashList /\ WordsOf[p] = {p[2][c] : c \in DOMAIN p[2]}
  BY <1>2 DEF PayloadsAreRead
<1>6. {p[2][c] : c \in DOMAIN p[2]} = {f[c] : c \in 1..Arity} BY <1>4
<1> QED BY <1>5, <1>6 DEF p

(* What is printed of the tree.                                            *)
LEMMA Printed ==
  /\ merkleTree.hash = Level[MERKLE_TREE_DEPTH][1].hash
  /\ Content(merkleTree) = Content(Level[MERKLE_TREE_DEPTH][1])
  /\ \A c \in 1..Arity :
       fullTree.children[c].hash # emptyTopLevelBranchSHA
         => merkleTree.children[c] = fullTree.children[c]
<1> DEFINE D == MERKLE_TREE_DEPTH
           f == fullTree.children
           g == [i \in DOMAIN f |-> Pruned(f[i])]
<1>1. D \in 1..D /\ 1 \in 1..Below[D-D] /\ D - D = 0 /\ D \in Nat
  <2>1. D - D = 0 /\ D \in 1..D /\ D \in Nat /\ 0 \in 0..D BY TreeSizeAssumption
  <2> QED BY <2>1, BelowDefined
<1>2. /\ fullTree = Node(fullTree.hash, f)
      /\ f = [c \in 1..Arity |-> Level[D-1][Child(1, c)]]
      /\ Len(f) = Arity
  <2> DEFINE IsList(k, j) ==
               /\ Level[k][j] = Node(Level[k][j].hash, Level[k][j].children)
               /\ Level[k][j].children = [c \in 1..Arity |-> Level[k-1][Child(j, c)]]
               /\ Len(Level[k][j].children) = Arity
  <2>1. ASSUME NEW k \in 1..D, NEW j \in 1..Below[D-k] PROVE IsList(k, j)
    BY ListNode, Zenon
  <2> HIDE DEF IsList
  <2>2. IsList(D, 1) BY <1>1, <2>1, Zenon
  <2> QED BY <2>2, Zenon DEF IsList, fullTree
<1>3. merkleTree = [fullTree EXCEPT !.children = g] BY Zenon DEF merkleTree
<1>4. merkleTree = Node(fullTree.hash, g) BY <1>2, <1>3 DEF Node
<1>5. DOMAIN f = 1..Arity /\ Arity \in Nat \ {0, 1} BY <1>2, TreeSizeAssumption
<1>6. \A c \in 1..Arity : g[c] = Pruned(f[c]) BY <1>5
<1>7. ASSUME NEW c \in 1..Arity PROVE g[c].hash = f[c].hash
  <2> DEFINE n == f[c]
  <2>1. \E h, ch : n = Node(h, ch)
    <3>1. n = Level[D-1][Child(1, c)] BY <1>2
    <3>2. Child(1, c) \in 1..Below[D-(D-1)] BY <1>1, ListNode
    <3>3. CASE D - 1 = 0
      <4>1. n = Leaves[Child(1, c)] BY <3>1, <3>3, <1>1, LevelDefined
      <4>2. Child(1, c) \in 1..Below[D] BY <3>2, <3>3
      <4> QED BY <4>1, <4>2, LeavesAre DEF Leaf
    <3>4. CASE D - 1 # 0
      <4>1. D - 1 \in 1..D BY <1>1, <3>4
      <4> DEFINE m == Level[D-1][Child(1, c)]
      <4>2. m = Node(m.hash, m.children) BY <3>2, <4>1, ListNode
      <4> QED BY <3>1, <4>2, Zenon
    <3> QED BY <3>3, <3>4
  <2>2. PICK h, ch : n = Node(h, ch) BY <2>1
  <2> HIDE DEF n
  <2>3. Pruned(n).hash = n.hash BY <2>2 DEF Node, Pruned
  <2> QED BY <1>6, <2>3 DEF n
<1> HIDE DEF g, f
<1>8. Len(g) = Arity /\ DOMAIN g = 1..Arity
  <2>1. DOMAIN g = DOMAIN f BY DEF g
  <2>2. g = [i \in 1..Arity |-> g[i]] BY <1>5, <2>1 DEF g
  <2>3. Len(g) = Arity BY <1>5, <2>2, AsTupleIs
  <2> QED BY <1>5, <2>1, <2>3
<1>9. merkleTree.hash = fullTree.hash /\ merkleTree.children = g BY <1>4 DEF Node
<1>10. [i \in DOMAIN g |-> g[i].hash] = [i \in DOMAIN f |-> f[i].hash] BY <1>5, <1>7, <1>8
<1>11. Content(merkleTree) = Content(fullTree)
  <2>1. ~ IsLeaf(merkleTree) /\ ~ IsLeaf(fullTree) BY <1>2, <1>5, <1>8, <1>9 DEF IsLeaf, f
  <2>2. Hashes(merkleTree) = Hashes(fullTree) BY <1>9, <1>10 DEF Hashes, f
  <2> QED BY <2>1, <2>2 DEF Content
<1>12. ASSUME NEW c \in 1..Arity, f[c].hash # emptyTopLevelBranchSHA PROVE g[c] = f[c]
  BY <1>6, <1>12 DEF Pruned
<1> QED BY <1>9, <1>11, <1>12 DEF fullTree, f

(* Every list of the tree names the digests of nodes one below, and only   *)
(* the content on top has the digest of the root.                          *)
THEOREM GeneratedIsTree ==
  ASSUME Generation
  PROVE  IsTree(GeneratedNodes)
<1> DEFINE D == MERKLE_TREE_DEPTH
           G == GeneratedNodes
<1>0. /\ D \in Nat \ {0} /\ Levels = D
      /\ PayloadsAreRead /\ MerkleTreeRoot = merkleTree.hash
  BY TreeSizeAssumption DEF Generation, FilesAreGenerated
<1>1. G \in [0..Levels -> SUBSET Payload]
  <2>1. \A k \in 0..D : G[k] \subseteq Payload BY <1>0 DEF PayloadsAreRead
  <2>2. G = [k \in 0..D |-> G[k]] BY DEF GeneratedNodes
  <2> HIDE DEF G
  <2> QED BY <1>0, <2>1, <2>2
<1>2. ASSUME NEW k \in 1..Levels, NEW p \in G[k] \cap HashList,
             NEW q \in Payload, Sha256[q] \in WordsOf[p]
      PROVE  q \in G[k-1]
  <2>1. k \in 1..D /\ k \in 0..D /\ k - 1 \in 0..D BY <1>0
  <2>2. PICK j \in 1..Below[D-k] : p = Content(Level[k][j]) BY <2>1, NodesOf
  <2>3. WordsOf[p] = {Level[k-1][Child(j, c)].hash : c \in 1..Arity}
    BY <1>0, <2>1, <2>2, ListRead
  <2>4. PICK c \in 1..Arity : Sha256[q] = Level[k-1][Child(j, c)].hash BY <1>2, <2>3
  <2>5. Child(j, c) \in 1..Below[D-(k-1)] BY <2>1, ListNode
  <2> DEFINE r == Content(Level[k-1][Child(j, c)])
  <2>6. r \in G[k-1] /\ r \in Payload /\ Sha256[r] = Level[k-1][Child(j, c)].hash
    BY <1>0, <2>1, <2>5, NodeRead
  <2> HIDE DEF r, G
  <2>7. q = r BY <2>4, <2>6, Sha256Assumption
  <2> QED BY <2>6, <2>7
<1>3. ASSUME NEW p \in Payload, Sha256[p] = MerkleTreeRoot PROVE p \in G[Levels]
  <2>1. D \in 0..D /\ 1 \in 1..Below[D-D]
    <3>1. D - D = 0 /\ 0 \in 0..D /\ D \in 0..D BY <1>0
    <3>2. Below[0] = 1 BY <3>1, BelowDefined
    <3> QED BY <3>1, <3>2
  <2> DEFINE r == Content(Level[D][1])
  <2>2. r \in G[D] /\ r \in Payload /\ Sha256[r] = Level[D][1].hash BY <1>0, <2>1, NodeRead
  <2> HIDE DEF r, G
  <2>3. Sha256[p] = Sha256[r] BY <1>0, <1>3, <2>2, Printed
  <2>4. p = r BY <2>2, <2>3, Sha256Assumption
  <2> QED BY <1>0, <2>2, <2>4
<1> QED BY <1>1, <1>2, <1>3 DEF IsTree

(* The index of a script is the way to the last packet that lists it.      *)
LEMMA ListedAt ==
  ASSUME ManifestsFit, NEW s \in DOMAIN merkleIndex
  PROVE  \E i \in DOMAIN txMetadata :
           /\ s \in Scripts(txMetadata[i])
           /\ merkleIndex[s] = Way(i)
           /\ \A j \in DOMAIN txMetadata : s \in Scripts(txMetadata[j]) => j <= i
<1> DEFINE L == {i \in DOMAIN txMetadata : s \in Scripts(txMetadata[i])}
           n == Len(TestnetTemplates)
           Last(i) == i \in L /\ \A j \in L : j <= i
<1>1. n \in Nat /\ DOMAIN txMetadata = 1..n BY Packets
<1>2. s \in UNION {Scripts(txMetadata[i]) : i \in DOMAIN txMetadata} BY DEF merkleIndex
<1>3. L \subseteq 1..n /\ L # {} BY <1>1, <1>2
<1>4. PICK x : Last(x)
  <2> HIDE DEF L, n
  <2>1. \E x \in L : \A y \in L : y <= x BY <1>1, <1>3, GreatestOf
  <2> QED BY <2>1
<1> DEFINE i == CHOOSE i \in L : \A j \in L : j <= i
<1>5. merkleIndex[s] = Way(i) BY <1>2 DEF merkleIndex
<1>6. Last(i)
  <2> HIDE DEF L
  <2> QED BY <1>4
<1> HIDE DEF i
<1> QED BY <1>5, <1>6

(* A packet of templates is not one that fills the tree up.                *)
LEMMA PacketNotEmpty ==
  ASSUME ManifestsFit, NEW i \in DOMAIN txMetadata
  PROVE  /\ i \in 1..Below[MERKLE_TREE_DEPTH]
         /\ PacketAt(i) = txMetadata[i]
         /\ txMetadata[i] # EmptyPacket
<1> DEFINE n == Len(TestnetTemplates)
<1>1. n \in Nat /\ n <= Below[MERKLE_TREE_DEPTH] /\ i \in 1..n /\ Len(txMetadata) = n
  BY Packets
<1>2. Below[MERKLE_TREE_DEPTH] \in Nat BY BelowPositive, TreeSizeAssumption
<1>3. PICK a, b, kinds : txMetadata[i] = Packet(a, b, kinds)
  <2> DEFINE Testnet(k) == Sorted(TestnetTemplates)[k]
             Mainnet(k) == Sorted(MainnetTemplates)[k]
  <2>1. txMetadata[i] = templateToPacket(Testnet(i), Mainnet(i)) BY <1>1, Packets
  <2> HIDE DEF Testnet, Mainnet
  <2> QED BY <2>1, Zenon DEF templateToPacket
<1>4. txMetadata[i][2] = <<a, b>> BY <1>3 DEF Packet
<1>5. EmptyPacket[2] = <<>> BY DEF EmptyPacket
<1>6. <<a, b>> # <<>> OBVIOUS
<1>7. txMetadata[i] # EmptyPacket BY <1>4, <1>5, <1>6, Zenon
<1> HIDE DEF n
<1> QED BY <1>1, <1>2, <1>7 DEF PacketAt

(* A branch with a packet below it does not have the digest of one without.*)
LEMMA NotCut ==
  ASSUME Generation, NEW i \in DOMAIN txMetadata
  PROVE  Level[MERKLE_TREE_DEPTH-1][Place(i, MERKLE_TREE_DEPTH-1)].hash # emptyTopLevelBranchSHA
<1> DEFINE D == MERKLE_TREE_DEPTH
           H(h) == Level[h][Place(i, h)].hash
           T == {t \in 0..D-1 : H((D-1) - t) = Hash(EmptyContent[(D-1) - t])}
<1> SUFFICES ASSUME H(D-1) = emptyTopLevelBranchSHA PROVE FALSE OBVIOUS
<1>0. /\ D \in Nat \ {0} /\ PayloadsAreRead /\ ManifestsFit
      /\ emptyTopLevelBranchSHA = Hash(EmptyContent[D-1])
  BY TreeSizeAssumption DEF Generation, FilesAreGenerated
<1>1. /\ i \in 1..Below[D] /\ PacketAt(i) = txMetadata[i] /\ txMetadata[i] # EmptyPacket
  BY <1>0, PacketNotEmpty
<1>2. 0 \in T
  <2>1. (D-1) - 0 = D-1 /\ 0 \in 0..D-1 BY <1>0
  <2> QED BY <1>0, <2>1
(* The content of the node and that of the height without packets are the  *)
(* same.                                                                   *)
<1>3. ASSUME NEW h \in 0..D-1, H(h) = Hash(EmptyContent[h])
      PROVE  Content(Level[h][Place(i, h)]) = EmptyContent[h]
  <2> DEFINE p == Content(Level[h][Place(i, h)])
  <2>1. h \in 0..D /\ Place(i, h) \in 1..Below[D-h] BY <1>0, <1>1, Places
  <2>2. p \in Payload /\ Sha256[p] = H(h) BY <1>0, <2>1, NodeRead
  <2>3. EmptyContent[h] \in Payload /\ Sha256[EmptyContent[h]] = Hash(EmptyContent[h])
    BY <1>0 DEF PayloadsAreRead
  <2> HIDE DEF p
  <2> QED BY <1>3, <2>2, <2>3, Sha256Assumption DEF p
<1>4. ASSUME NEW t \in 0..(D-1)-1, t \in T PROVE t + 1 \in T
  <2> DEFINE h == (D-1) - t
  <2>1. /\ h \in 1..D /\ h \in 0..D-1 /\ h # 0 /\ h - 1 = (D-1) - (t + 1) /\ t + 1 \in 0..D-1
        /\ h \in 0..D
    BY <1>0
  <2>2. H(h) = Hash(EmptyContent[h]) BY <1>4
  <2> HIDE DEF h
  <2>3. Content(Level[h][Place(i, h)]) = EmptyContent[h] BY <1>3, <2>1, <2>2
  <2>4. Place(i, h) \in 1..Below[D-h] BY <1>1, <2>1, Places
  <2> DEFINE f == [c \in 1..Arity |-> Level[h-1][Child(Place(i, h), c)].hash]
             e == [c \in 1..Arity |-> Hash(EmptyContent[h-1])]
  <2>5. Content(Level[h][Place(i, h)]) = <<"list", f>> BY <2>1, <2>4, ListNode
  <2>6. EmptyContent[h] = <<"list", e>> BY <2>1, EmptyContentDefined
  <2>7. f = e
    <3> DEFINE x == <<"list", f>>
               y == <<"list", e>>
    <3>1. x = y BY <2>3, <2>5, <2>6, Zenon
    <3>2. x[2] = f /\ y[2] = e OBVIOUS
    <3> HIDE DEF f, e, x, y
    <3> QED BY <3>1, <3>2
  <2>8. PICK c \in 1..Arity : Place(i, h - 1) = Child(Place(i, h), c)
    BY <1>1, <2>1, PlaceBelow
  <2>9. f[c] = H(h-1) /\ e[c] = Hash(EmptyContent[h-1]) BY <2>8
  <2> QED BY <2>1, <2>7, <2>9
<1>5. 0..D-1 \subseteq T
  <2>1. D-1 \in Nat BY <1>0
  <2> HIDE DEF T, D
  <2> QED BY <1>2, <1>4, <2>1, UpTo
<1>6. H(0) = Hash(EmptyContent[0])
  <2>1. (D-1) - (D-1) = 0 /\ D-1 \in 0..D-1 BY <1>0
  <2> QED BY <1>5, <2>1
<1>7. 0 \in 0..D-1 BY <1>0
<1>8. Content(Level[0][Place(i, 0)]) = EmptyContent[0] BY <1>3, <1>6, <1>7
<1>9. Content(Level[0][i]) = txMetadata[i] BY <1>1, LeafNode
<1>10. EmptyContent[0] = EmptyPacket BY <1>7, EmptyContentDefined
<1> QED BY <1>1, <1>8, <1>9, <1>10, Places

(* What a client finds on the way of a packet.                             *)
LEMMA ClientFinds ==
  ASSUME Generation, NEW i \in DOMAIN txMetadata, NEW k \in 0..MERKLE_TREE_DEPTH
  PROVE  Content(Along(merkleTree, Way(i), k))
           = Content(Level[MERKLE_TREE_DEPTH-k][Place(i, MERKLE_TREE_DEPTH-k)])
<1> DEFINE D == MERKLE_TREE_DEPTH
           At(h) == Level[h][Place(i, h)]
           f == [m \in 0..D |-> IF m = 0 THEN merkleTree ELSE At(D-m)]
<1>0. D \in Nat \ {0} /\ ManifestsFit BY TreeSizeAssumption DEF Generation
<1>1. i \in 1..Below[D] BY <1>0, PacketNotEmpty
<1>2. ASSUME NEW m \in 1..D
      PROVE  /\ Way(i)[m] + 1 \in 1..Arity
             /\ At(D-m) = At(D-(m-1)).children[Way(i)[m] + 1]
  <2> DEFINE h == D - (m - 1)
             c == Way(i)[m] + 1
  <2>1. h \in 1..D /\ h \in 0..D /\ h - 1 = D - m /\ D - h + 1 = m BY <1>0
  <2>2. c \in 1..Arity /\ Place(i, h - 1) = Child(Place(i, h), c) BY <1>1, <2>1, PlaceBelow
  <2>3. Place(i, h) \in 1..Below[D-h] BY <1>1, <2>1, Places
  <2>4. Level[h][Place(i, h)].children = [d \in 1..Arity |-> Level[h-1][Child(Place(i, h), d)]]
    BY <2>1, <2>3, ListNode
  <2> HIDE DEF c
  <2>5. Level[h][Place(i, h)].children[c] = Level[h-1][Place(i, h - 1)] BY <2>2, <2>4
  <2> QED BY <2>1, <2>2, <2>5 DEF c
<1>3. At(D) = fullTree BY <1>1, Places DEF fullTree
<1> DEFINE c1 == Way(i)[1] + 1
<1>4. At(D-1) = merkleTree.children[c1]
  <2>1. 1 \in 1..D /\ D - (1 - 1) = D BY <1>0
  <2>2. c1 \in 1..Arity /\ At(D-1) = At(D).children[c1] BY <1>2, <2>1
  <2>3. At(D-1).hash # emptyTopLevelBranchSHA BY NotCut
  <2>4. fullTree.children[c1] = At(D-1) BY <1>3, <2>2
  <2> HIDE DEF c1, At
  <2> QED BY <2>2, <2>3, <2>4, Printed
<1>5. ASSUME NEW m \in 1..k PROVE f[m] = f[m-1].children[Way(i)[m] + 1]
  <2>1. m \in 1..D /\ m \in 0..D /\ m - 1 \in 0..D /\ m # 0 BY <1>0
  <2>2. f[m] = At(D-m) BY <2>1
  <2>3. CASE m = 1
    <3>1. f[m-1] = merkleTree BY <2>1, <2>3
    <3> QED BY <1>4, <2>2, <2>3, <3>1
  <2>4. CASE m # 1
    <3>1. m - 1 # 0 BY <2>1, <2>4
    <3>2. f[m-1] = At(D-(m-1)) BY <2>1, <3>1
    <3> HIDE DEF f, At
    <3> QED BY <1>2, <2>1, <2>2, <3>2
  <2> QED BY <2>3, <2>4
<1>6. f[0] = merkleTree BY <1>0
<1>7. Along(merkleTree, Way(i), k) = f[k]
  <2>1. k \in Nat BY <1>0
  <2> DEFINE way == Way(i)
  <2>2. \A m \in 1..k : f[m] = f[m-1].children[way[m] + 1] BY <1>5
  <2> HIDE DEF f, way
  <2>3. ASSUME NEW tree, NEW g, g[0] = tree, \A m \in 1..k : g[m] = g[m-1].children[way[m] + 1]
        PROVE  Along(tree, way, k) = g[k]
    BY <2>1, <2>3, AlongIs
  <2>4. Along(merkleTree, way, k) = f[k] BY <1>6, <2>2, <2>3
  <2> QED BY <2>4 DEF way
<1>8. CASE k = 0
  <2>1. f[k] = merkleTree BY <1>6, <1>8
  <2>2. Content(merkleTree) = Content(At(D)) BY <1>3, Printed DEF fullTree
  <2>3. D - k = D BY <1>0, <1>8
  <2> QED BY <1>7, <2>1, <2>2, <2>3
<1>9. CASE k # 0
  <2>1. f[k] = At(D-k) BY <1>9
  <2> QED BY <1>7, <2>1
<1> QED BY <1>8, <1>9

LEMMA PacketFound ==
  ASSUME Generation, NEW i \in DOMAIN txMetadata
  PROVE  Content(Along(merkleTree, Way(i), MERKLE_TREE_DEPTH)) = txMetadata[i]
<1> DEFINE D == MERKLE_TREE_DEPTH
<1>0. D \in Nat /\ D \in 0..D /\ D - D = 0 /\ ManifestsFit
  BY TreeSizeAssumption DEF Generation
<1>1. i \in 1..Below[D] /\ PacketAt(i) = txMetadata[i] BY <1>0, PacketNotEmpty
<1>2. Content(Along(merkleTree, Way(i), D)) = Content(Level[0][Place(i, 0)])
  BY <1>0, ClientFinds
<1>3. Place(i, 0) = i BY <1>1, Places
<1>4. Content(Level[0][i]) = txMetadata[i] BY <1>1, LeafNode
<1> QED BY <1>2, <1>3, <1>4

(* In generated files the proof of every listed script ends at the root.   *)
THEOREM GeneratedIsWellFormed ==
  ASSUME Generation
  PROVE  WellFormed
<1> DEFINE D == MERKLE_TREE_DEPTH
<1>0. /\ D \in Nat \ {0} /\ Levels = D /\ MerkleTreeRoot = merkleTree.hash
      /\ PayloadsAreRead /\ ManifestsFit
  BY TreeSizeAssumption DEF Generation, FilesAreGenerated
<1> SUFFICES ASSUME NEW c \in DOMAIN Copies, NEW s \in DOMAIN Copies[c].index
             PROVE  /\ Chunks(c, s) \in [1..Levels+1 -> Payload]
                    /\ Chunks(c, s)[1] \in Fits
                    /\ s \in Covers[Chunks(c, s)[1]]
                    /\ \A k \in 1..Levels :
                         /\ Chunks(c, s)[k+1] \in HashList
                         /\ Sha256[Chunks(c, s)[k]] \in WordsOf[Chunks(c, s)[k+1]]
                    /\ Sha256[Chunks(c, s)[Levels+1]] = MerkleTreeRoot
  BY DEF WellFormed
<1>1. Copies[c].tree = merkleTree /\ Copies[c].index = merkleIndex
  BY DEF Generation, FilesAreGenerated
<1>2. PICK i \in DOMAIN txMetadata :
        s \in Scripts(txMetadata[i]) /\ merkleIndex[s] = Way(i)
  BY <1>0, <1>1, ListedAt
<1>3. i \in 1..Below[D] /\ PacketAt(i) = txMetadata[i] BY <1>0, PacketNotEmpty
<1> DEFINE At(h) == Level[h][Place(i, h)]
           chunks == Chunks(c, s)
<1>4. chunks = [k \in 1..D+1 |-> Content(Along(merkleTree, Way(i), D + 1 - k))]
  BY <1>0, <1>1, <1>2 DEF Chunks, MetadataOf
<1>5. ASSUME NEW k \in 1..D+1 PROVE chunks[k] = Content(At(k-1)) /\ k - 1 \in 0..D
  <2>1. D + 1 - k \in 0..D /\ D - (D + 1 - k) = k - 1 /\ k - 1 \in 0..D BY <1>0
  <2>2. Content(Along(merkleTree, Way(i), D + 1 - k)) = Content(At(k-1))
    BY <2>1, ClientFinds
  <2> HIDE DEF chunks, At
  <2> QED BY <1>4, <2>1, <2>2
<1>6. ASSUME NEW h \in 0..D
      PROVE  /\ Place(i, h) \in 1..Below[D-h]
             /\ Content(At(h)) \in GeneratedNodes[h]
             /\ Content(At(h)) \in Payload
             /\ Sha256[Content(At(h))] = At(h).hash
  BY <1>0, <1>3, Places, NodeRead
<1>7. chunks \in [1..D+1 -> Payload]
  <2>1. \A k \in 1..D+1 : chunks[k] \in Payload BY <1>5, <1>6
  <2>2. chunks = [k \in 1..D+1 |-> chunks[k]] BY <1>4
  <2> HIDE DEF chunks
  <2> QED BY <2>1, <2>2
<1>8. chunks[1] = txMetadata[i] /\ chunks[1] \in GeneratedNodes[0]
  <2>1. 1 \in 1..D+1 /\ 1 - 1 = 0 /\ 0 \in 0..D BY <1>0
  <2>2. Place(i, 0) = i BY <1>3, Places
  <2>3. Content(Level[0][i]) = txMetadata[i] BY <1>3, LeafNode
  <2> HIDE DEF chunks
  <2> QED BY <1>5, <1>6, <2>1, <2>2, <2>3
<1>9. chunks[1] \in Fits /\ s \in Covers[chunks[1]]
  <2> HIDE DEF chunks
  <2> QED BY <1>0, <1>2, <1>8 DEF PayloadsAreRead
<1>10. ASSUME NEW k \in 1..D
       PROVE  chunks[k+1] \in HashList /\ Sha256[chunks[k]] \in WordsOf[chunks[k+1]]
  <2>1. /\ k \in 1..D+1 /\ k + 1 \in 1..D+1 /\ (k + 1) - 1 = k /\ k \in 0..D
        /\ k - 1 \in 0..D
    BY <1>0
  <2>2. chunks[k] = Content(At(k-1)) /\ chunks[k+1] = Content(At(k))
    <3> HIDE DEF chunks, At
    <3>1. chunks[k+1] = Content(At((k+1)-1)) BY <1>5, <2>1
    <3> QED BY <1>5, <2>1, <3>1
  <2>3. Place(i, k) \in 1..Below[D-k] BY <1>6, <2>1
  <2>4. /\ Content(At(k)) \in HashList
        /\ WordsOf[Content(At(k))] = {Level[k-1][Child(Place(i, k), d)].hash : d \in 1..Arity}
    BY <1>0, <2>3, ListRead
  <2>5. PICK d \in 1..Arity : Place(i, k - 1) = Child(Place(i, k), d) BY <1>3, PlaceBelow
  <2>6. At(k-1).hash \in WordsOf[Content(At(k))] BY <2>4, <2>5
  <2>7. Sha256[Content(At(k-1))] = At(k-1).hash BY <1>6, <2>1
  <2> HIDE DEF chunks, At
  <2> QED BY <2>2, <2>4, <2>6, <2>7
<1>11. Sha256[chunks[D+1]] = MerkleTreeRoot
  <2>1. D + 1 \in 1..D+1 /\ (D + 1) - 1 = D /\ D \in 0..D BY <1>0
  <2>2. chunks[D+1] = Content(At(D))
    <3> HIDE DEF chunks, At
    <3>1. chunks[D+1] = Content(At((D+1)-1)) BY <1>5, <2>1
    <3> QED BY <2>1, <3>1
  <2>3. At(D) = Level[D][1] BY <1>3, Places
  <2>4. Sha256[Content(At(D))] = At(D).hash BY <1>6, <2>1
  <2> HIDE DEF chunks, At
  <2> QED BY <1>0, <2>2, <2>3, <2>4, Printed
<1> HIDE DEF chunks
<1> QED BY <1>0, <1>7, <1>9, <1>10, <1>11 DEF chunks

-----------------------------------------------------------------------------
(* 5. Manifests of the same ids, sorted, pair up.                          *)

(* A bijection keeps the number of elements.                               *)
LEMMA SameCount ==
  ASSUME NEW S, NEW T, IsFiniteSet(S), NEW f \in [S -> T],
         \A x, y \in S : f[x] = f[y] => x = y,
         \A y \in T : \E x \in S : f[x] = y
  PROVE  IsFiniteSet(T) /\ Cardinality(T) = Cardinality(S)
<1>1. f \in Injection(S, T) BY DEF Injection, IsInjective
<1>2. f \in Surjection(S, T) BY DEF Surjection
<1>3. ExistsBijection(S, T) BY <1>1, <1>2 DEF ExistsBijection, Bijection
<1> QED BY <1>3, FS_Bijection

Rank(I, x) == Cardinality({y \in I : y < x})

LEMMA RankOrder ==
  ASSUME NEW I, I \subseteq Int, IsFiniteSet(I), NEW x \in I
  PROVE  /\ Rank(I, x) \in 0..Cardinality(I)-1
         /\ \A y \in I : x < y => Rank(I, x) < Rank(I, y)
<1> DEFINE L(z) == {y \in I : y < z}
<1>1. \A z : L(z) \in SUBSET I OBVIOUS
<1>2. Cardinality(I) \in Nat BY FS_CardinalityType
<1>3. ASSUME NEW z PROVE IsFiniteSet(L(z)) /\ Cardinality(L(z)) \in Nat
  <2>1. IsFiniteSet(L(z)) BY <1>1, FS_Subset
  <2> QED BY <2>1, FS_CardinalityType
<1> DEFINE M == L(x) \cup {x}
<1>4. IsFiniteSet(M) /\ Cardinality(M) = Cardinality(L(x)) + 1
  <2>1. x \notin L(x) OBVIOUS
  <2>2. IsFiniteSet(L(x)) BY <1>3
  <2> HIDE DEF L
  <2> QED BY <2>1, <2>2, FS_AddElement
<1>5. ASSUME NEW N, IsFiniteSet(N), M \subseteq N PROVE Cardinality(L(x)) + 1 <= Cardinality(N)
  <2>1. M \in SUBSET N BY <1>5
  <2>2. Cardinality(M) <= Cardinality(N) BY <1>5, <2>1, FS_Subset
  <2> QED BY <1>4, <2>2
<1>6. M \subseteq I BY <1>1
<1>7. Cardinality(L(x)) + 1 <= Cardinality(I) BY <1>5, <1>6
<1>8. ASSUME NEW y \in I, x < y PROVE Cardinality(L(x)) + 1 <= Cardinality(L(y))
  <2>1. M \subseteq L(y)
    <3>1. x \in Int /\ y \in Int /\ \A z \in I : z \in Int OBVIOUS
    <3>2. ASSUME NEW z \in M PROVE z \in I /\ z < y
      <4>1. z \in I /\ (z < x \/ z = x) OBVIOUS
      <4> HIDE DEF M, L
      <4> QED BY <1>8, <3>1, <4>1
    <3> QED BY <3>2
  <2>2. IsFiniteSet(L(y)) BY <1>3
  <2> HIDE DEF L, M
  <2> QED BY <1>5, <2>1, <2>2
<1>9. Cardinality(L(x)) \in Nat /\ \A y \in I : Cardinality(L(y)) \in Nat BY <1>3
<1>10. Rank(I, x) = Cardinality(L(x)) /\ \A y \in I : Rank(I, y) = Cardinality(L(y)) BY DEF Rank
<1> HIDE DEF L, M
<1> QED BY <1>2, <1>7, <1>8, <1>9, <1>10

LEMMA RankOnce ==
  ASSUME NEW I, I \subseteq Int, IsFiniteSet(I), NEW x \in I, NEW y \in I, Rank(I, x) = Rank(I, y)
  PROVE  x = y
<1>1. x \in Int /\ y \in Int OBVIOUS
<1>2. ~ (x < y) /\ ~ (y < x)
  <2>1. Cardinality(I) \in Nat BY FS_CardinalityType
  <2>2. Rank(I, x) \in Nat /\ Rank(I, y) \in Nat
    <3>1. Rank(I, x) \in 0..Cardinality(I)-1 BY RankOrder
    <3>2. Rank(I, y) \in 0..Cardinality(I)-1 BY RankOrder
    <3> QED BY <2>1, <3>1, <3>2
  <2>3. x < y => Rank(I, x) < Rank(I, y) BY RankOrder
  <2>4. y < x => Rank(I, y) < Rank(I, x) BY RankOrder
  <2> QED BY <2>2, <2>3, <2>4
<1> QED BY <1>1, <1>2

LEMMA RankAll ==
  ASSUME NEW I, I \subseteq Int, IsFiniteSet(I), NEW m \in 0..Cardinality(I)-1
  PROVE  \E x \in I : Rank(I, x) = m
<1> DEFINE n == Cardinality(I)
           f == [x \in I |-> Rank(I, x)]
           R == {f[x] : x \in I}
<1>1. n \in Nat BY FS_CardinalityType
<1>2. f \in [I -> R] OBVIOUS
<1>3. \A x, y \in I : f[x] = f[y] => x = y BY RankOnce
<1>4. \A r \in R : \E x \in I : f[x] = r OBVIOUS
<1>5. R \subseteq 0..n-1 BY RankOrder
<1> HIDE DEF f, R
<1>6. Cardinality(R) = n BY <1>2, <1>3, <1>4, SameCount
<1>7. IsFiniteSet(0..n-1) /\ Cardinality(0..n-1) = n
  <2> HIDE DEF n
  <2>1. 0 \in Int /\ n - 1 \in Int BY <1>1
  <2>2. /\ IsFiniteSet(0..n-1)
        /\ Cardinality(0..n-1) = IF 0 > n - 1 THEN 0 ELSE (n - 1) - 0 + 1
    BY <2>1, FS_Interval
  <2> QED BY <1>1, <2>2
<1>8. R = 0..n-1
  <2>1. R \in SUBSET (0..n-1) BY <1>5
  <2> HIDE DEF n
  <2> QED BY <1>6, <1>7, <2>1, FS_Subset
<1>9. PICK x \in I : f[x] = m BY <1>4, <1>8
<1> QED BY <1>9 DEF f

(* Sorted puts each template at the rank of its id.                        *)
LEMMA SortedByRank ==
  ASSUME NEW S, NEW templates \in Seq(S), \A t \in S : t.id \in Int, OneOfEachId(templates)
  PROVE  LET n == Len(templates)
             I == Ids(templates)
         IN  /\ I \subseteq Int /\ IsFiniteSet(I) /\ Cardinality(I) = n /\ n \in Nat
             /\ \A i \in 1..n : \E k \in 1..n : /\ Sorted(templates)[i] = templates[k]
                                               /\ Rank(I, templates[k].id) = i - 1
<1> DEFINE n == Len(templates)
           I == Ids(templates)
           id == [k \in 1..n |-> templates[k].id]
<1>1. n \in Nat /\ DOMAIN templates = 1..n /\ \A k \in 1..n : templates[k] \in S OBVIOUS
<1>2. I = {id[k] : k \in 1..n} BY <1>1 DEF Ids
<1>3. I \subseteq Int BY <1>1, <1>2
<1>4. \A j, k \in 1..n : id[j] = id[k] => j = k BY <1>1 DEF OneOfEachId
<1>5. id \in [1..n -> I] /\ \A x \in I : \E k \in 1..n : id[k] = x BY <1>2
<1>6. IsFiniteSet(1..n) /\ Cardinality(1..n) = n
  <2> HIDE DEF n
  <2>1. 1 \in Int /\ n \in Int BY <1>1
  <2>2. IsFiniteSet(1..n) /\ Cardinality(1..n) = IF 1 > n THEN 0 ELSE n - 1 + 1
    BY <2>1, FS_Interval
  <2> QED BY <1>1, <2>2
<1>7. IsFiniteSet(I) /\ Cardinality(I) = n
  <2> HIDE DEF id, I, n
  <2> QED BY <1>4, <1>5, <1>6, SameCount
<1>8. ASSUME NEW k \in 1..n PROVE Before(templates, k) = Rank(I, templates[k].id)
  <2> DEFINE P == {j \in 1..n : id[j] < id[k]}
             Q == {y \in I : y < id[k]}
             f == [j \in P |-> id[j]]
  <2>1. Before(templates, k) = Cardinality(P)
    <3> DEFINE Earlier(j) == \/ templates[j].id < templates[k].id
                             \/ templates[j].id = templates[k].id /\ j < k
    <3>1. Before(templates, k) = Cardinality({j \in DOMAIN templates : Earlier(j)})
      BY DEF Before
    <3>2. ASSUME NEW j \in 1..n PROVE Earlier(j) <=> id[j] < id[k]
      <4>1. templates[j].id = id[j] /\ templates[k].id = id[k] OBVIOUS
      <4>2. ~ (id[j] = id[k] /\ j < k)
        <5> SUFFICES ASSUME id[j] = id[k], j < k PROVE FALSE OBVIOUS
        <5>1. j = k BY <1>4
        <5> QED BY <5>1
      <4> QED BY <4>1, <4>2
    <3> HIDE DEF Earlier, id
    <3>3. P = {j \in DOMAIN templates : Earlier(j)} BY <1>1, <3>2
    <3> QED BY <3>1, <3>3
  <2>2. f \in [P -> Q] BY <1>5
  <2>3. \A x, y \in P : f[x] = f[y] => x = y BY <1>4
  <2>4. \A y \in Q : \E x \in P : f[x] = y BY <1>5
  <2>5. IsFiniteSet(P)
    <3>1. P \in SUBSET (1..n) OBVIOUS
    <3> HIDE DEF P, n
    <3> QED BY <1>6, <3>1, FS_Subset
  <2>6. Cardinality(Q) = Cardinality(P)
    <3> HIDE DEF f, P, Q
    <3> QED BY <2>2, <2>3, <2>4, <2>5, SameCount
  <2>7. Rank(I, templates[k].id) = Cardinality(Q) BY DEF Rank
  <2> QED BY <2>1, <2>6, <2>7
<1>9. ASSUME NEW i \in 1..n
      PROVE  \E k \in 1..n : Sorted(templates)[i] = templates[k] /\ Rank(I, templates[k].id) = i - 1
  <2>1. i - 1 \in 0..Cardinality(I)-1 BY <1>1, <1>7
  <2>2. PICK x \in I : Rank(I, x) = i - 1
    <3> HIDE DEF I
    <3> QED BY <1>3, <1>7, <2>1, RankAll
  <2>3. PICK j \in 1..n : templates[j].id = x BY <1>5
  <2>4. Before(templates, j) = i - 1
    <3>1. Before(templates, j) = Rank(I, templates[j].id) BY <1>8
    <3> QED BY <2>2, <2>3, <3>1
  <2> DEFINE k == CHOOSE k \in DOMAIN templates : Before(templates, k) = i - 1
  <2>5. k \in 1..n /\ Before(templates, k) = i - 1
    <3> HIDE DEF n
    <3> QED BY <1>1, <2>4
  <2>6. Sorted(templates)[i] = templates[k] BY SortedIs
  <2> HIDE DEF k
  <2>7. Before(templates, k) = Rank(I, templates[k].id) BY <1>8, <2>5
  <2> QED BY <2>5, <2>6, <2>7
<1> QED BY <1>1, <1>3, <1>7, <1>9

(* Packet number i is that of the templates of rank i - 1.                 *)
LEMMA Pairs ==
  ASSUME ManifestsFit, ManifestsMatch
  PROVE  LET n == Len(TestnetTemplates)
             I == Ids(TestnetTemplates)
         IN  /\ Len(MainnetTemplates) = n /\ DOMAIN txMetadata = 1..n
             /\ DOMAIN TestnetTemplates = 1..n /\ DOMAIN MainnetTemplates = 1..n
             /\ \A i \in 1..n : \E j, k \in 1..n :
                  /\ txMetadata[i] = templateToPacket(TestnetTemplates[j], MainnetTemplates[k])
                  /\ TestnetTemplates[j].id = MainnetTemplates[k].id
                  /\ Rank(I, TestnetTemplates[j].id) = i - 1
<1> DEFINE n == Len(TestnetTemplates)
           I == Ids(TestnetTemplates)
<1>0. /\ TestnetTemplates \in Seq(Templates) /\ MainnetTemplates \in Seq(Templates)
      /\ \A t \in Templates : t.id \in Int
      /\ OneOfEachId(TestnetTemplates) /\ OneOfEachId(MainnetTemplates)
      /\ Ids(MainnetTemplates) = I
  BY DEF ManifestsFit, ManifestsMatch
<1>1. /\ I \subseteq Int /\ IsFiniteSet(I) /\ Cardinality(I) = n /\ n \in Nat
      /\ \A i \in 1..n : \E k \in 1..n : /\ Sorted(TestnetTemplates)[i] = TestnetTemplates[k]
                                        /\ Rank(I, TestnetTemplates[k].id) = i - 1
  BY <1>0, SortedByRank
<1>2. /\ Cardinality(I) = Len(MainnetTemplates)
      /\ \A i \in 1..Len(MainnetTemplates) : \E k \in 1..Len(MainnetTemplates) :
           /\ Sorted(MainnetTemplates)[i] = MainnetTemplates[k]
           /\ Rank(I, MainnetTemplates[k].id) = i - 1
  <2> DEFINE J == Ids(MainnetTemplates)
  <2>1. /\ Cardinality(J) = Len(MainnetTemplates)
        /\ \A i \in 1..Len(MainnetTemplates) : \E k \in 1..Len(MainnetTemplates) :
             /\ Sorted(MainnetTemplates)[i] = MainnetTemplates[k]
             /\ Rank(J, MainnetTemplates[k].id) = i - 1
    BY <1>0, SortedByRank
  <2>2. J = I BY <1>0
  <2> HIDE DEF I, J
  <2> QED BY <2>1, <2>2
<1>3. Len(MainnetTemplates) = n BY <1>1, <1>2
<1>4. DOMAIN TestnetTemplates = 1..n /\ DOMAIN MainnetTemplates = 1..n BY <1>0, <1>3
<1>5. /\ DOMAIN txMetadata = 1..n
      /\ \A i \in 1..n : txMetadata[i] = templateToPacket(Sorted(TestnetTemplates)[i],
                                                          Sorted(MainnetTemplates)[i])
  BY Packets
<1>6. ASSUME NEW i \in 1..n
      PROVE  \E j, k \in 1..n :
               /\ txMetadata[i] = templateToPacket(TestnetTemplates[j], MainnetTemplates[k])
               /\ TestnetTemplates[j].id = MainnetTemplates[k].id
               /\ Rank(I, TestnetTemplates[j].id) = i - 1
  <2>1. PICK j \in 1..n : /\ Sorted(TestnetTemplates)[i] = TestnetTemplates[j]
                          /\ Rank(I, TestnetTemplates[j].id) = i - 1
    BY <1>1
  <2>2. PICK k \in 1..n : /\ Sorted(MainnetTemplates)[i] = MainnetTemplates[k]
                          /\ Rank(I, MainnetTemplates[k].id) = i - 1
    BY <1>2, <1>3
  <2>3. TestnetTemplates[j].id \in I /\ MainnetTemplates[k].id \in I
    <3>1. TestnetTemplates[j].id \in Ids(TestnetTemplates) BY <1>4 DEF Ids
    <3>2. MainnetTemplates[k].id \in Ids(MainnetTemplates) BY <1>4 DEF Ids
    <3> QED BY <1>0, <3>1, <3>2
  <2>4. TestnetTemplates[j].id = MainnetTemplates[k].id
    <3> DEFINE x == TestnetTemplates[j].id
               y == MainnetTemplates[k].id
    <3>1. x \in I /\ y \in I /\ Rank(I, x) = Rank(I, y) BY <2>1, <2>2, <2>3
    <3> HIDE DEF x, y, I
    <3>2. x = y BY <1>1, <3>1, RankOnce
    <3> QED BY <3>2 DEF x, y
  <2>5. txMetadata[i] = templateToPacket(TestnetTemplates[j], MainnetTemplates[k])
    BY <1>5, <2>1, <2>2
  <2> QED BY <2>1, <2>4, <2>5
<1> QED BY <1>3, <1>4, <1>5, <1>6

LEMMA PacketParts ==
  ASSUME NEW a, NEW b
  PROVE  /\ Scripts(templateToPacket(a, b)) = {a.script, b.script}
         /\ b.arguments \in Seq(STRING) => Len(templateToPacket(a, b)[3]) = Len(b.arguments)
<1> DEFINE kinds == [i \in DOMAIN b.arguments |-> ArgumentKind(b.arguments[i])]
           p == templateToPacket(a, b)
<1>1. p = <<"packet", <<a.script, b.script>>, kinds>> BY DEF templateToPacket, Packet
<1> HIDE DEF kinds, p
<1>2. p[2] = <<a.script, b.script>> /\ p[3] = kinds BY <1>1
<1>3. Scripts(p) = {a.script, b.script}
  <2> DEFINE pair == <<a.script, b.script>>
  <2>1. DOMAIN pair = {1, 2} /\ pair[1] = a.script /\ pair[2] = b.script OBVIOUS
  <2> HIDE DEF pair
  <2>2. {pair[i] : i \in DOMAIN pair} = {a.script, b.script} BY <2>1
  <2> QED BY <1>2, <2>2 DEF Scripts, pair
<1>4. ASSUME b.arguments \in Seq(STRING) PROVE Len(kinds) = Len(b.arguments)
  <2>1. Len(b.arguments) \in Nat /\ DOMAIN b.arguments = 1..Len(b.arguments) BY <1>4
  <2>2. kinds = [i \in 1..Len(b.arguments) |-> kinds[i]] BY <2>1 DEF kinds
  <2> QED BY <2>1, <2>2, AsTupleIs
<1> QED BY <1>2, <1>3, <1>4 DEF p

(* A packet that lists the script of a template is that of its id.         *)
LEMMA PacketOfTemplate ==
  ASSUME ManifestsFit, ManifestsMatch, NEW t \in Templates,
         NEW i \in DOMAIN txMetadata, t.script \in Scripts(txMetadata[i])
  PROVE  \E j \in DOMAIN TestnetTemplates, k \in DOMAIN MainnetTemplates :
           /\ TestnetTemplates[j].id = t.id /\ MainnetTemplates[k].id = t.id
           /\ txMetadata[i] = templateToPacket(TestnetTemplates[j], MainnetTemplates[k])
<1> DEFINE n == Len(TestnetTemplates)
<1>1. /\ DOMAIN txMetadata = 1..n
      /\ DOMAIN TestnetTemplates = 1..n /\ DOMAIN MainnetTemplates = 1..n
  BY Pairs
<1>2. PICK j \in 1..n, k \in 1..n :
        /\ txMetadata[i] = templateToPacket(TestnetTemplates[j], MainnetTemplates[k])
        /\ TestnetTemplates[j].id = MainnetTemplates[k].id
  BY <1>1, Pairs
<1>3. t.script \in {TestnetTemplates[j].script, MainnetTemplates[k].script}
  BY <1>2, PacketParts
<1>4. TestnetTemplates[j] \in Templates /\ MainnetTemplates[k] \in Templates
  BY <1>1 DEF ManifestsMatch
<1>5. TestnetTemplates[j].id = t.id
  <2>1. \A u \in Templates : t.script = u.script => t.id = u.id BY DEF ManifestsMatch
  <2> QED BY <1>2, <1>3, <1>4, <2>1
<1> QED BY <1>1, <1>2, <1>5

(* And there is one.                                                       *)
LEMMA TemplateHasPacket ==
  ASSUME ManifestsFit, ManifestsMatch, NEW t \in Templates
  PROVE  \E i \in DOMAIN txMetadata : t.script \in Scripts(txMetadata[i])
<1> DEFINE n == Len(TestnetTemplates)
           I == Ids(TestnetTemplates)
<1>1. /\ DOMAIN txMetadata = 1..n
      /\ DOMAIN TestnetTemplates = 1..n /\ DOMAIN MainnetTemplates = 1..n
  BY Pairs
<1>2. \/ \E j \in 1..n : t = TestnetTemplates[j]
      \/ \E k \in 1..n : t = MainnetTemplates[k]
  BY <1>1 DEF ManifestsMatch
<1>3. t.id \in I
  <2>1. t.id \in Ids(TestnetTemplates) \/ t.id \in Ids(MainnetTemplates) BY <1>1, <1>2 DEF Ids
  <2> QED BY <2>1 DEF ManifestsMatch
<1>4. /\ I \subseteq Int /\ IsFiniteSet(I) /\ Cardinality(I) = n /\ n \in Nat
  <2>1. /\ TestnetTemplates \in Seq(Templates) /\ \A u \in Templates : u.id \in Int
        /\ OneOfEachId(TestnetTemplates)
    BY DEF ManifestsFit, ManifestsMatch
  <2> QED BY <2>1, SortedByRank
<1> DEFINE i == Rank(I, t.id) + 1
<1>5. i \in 1..n /\ i - 1 = Rank(I, t.id)
  <2> HIDE DEF I
  <2>1. Rank(I, t.id) \in 0..Cardinality(I)-1 BY <1>3, <1>4, RankOrder
  <2> QED BY <1>4, <2>1
<1> HIDE DEF i
<1>6. PICK j \in 1..n, k \in 1..n :
        /\ txMetadata[i] = templateToPacket(TestnetTemplates[j], MainnetTemplates[k])
        /\ TestnetTemplates[j].id = MainnetTemplates[k].id
        /\ Rank(I, TestnetTemplates[j].id) = i - 1
  BY <1>5, Pairs
<1>7. TestnetTemplates[j].id = t.id
  <2> DEFINE x == TestnetTemplates[j].id
  <2>1. x \in I BY <1>1 DEF Ids
  <2>2. Rank(I, x) = Rank(I, t.id) BY <1>5, <1>6
  <2> HIDE DEF x, I
  <2>3. x = t.id BY <1>3, <1>4, <2>1, <2>2, RankOnce
  <2> QED BY <2>3 DEF x
<1>8. t = TestnetTemplates[j] \/ t = MainnetTemplates[k]
  <2>1. \A l \in 1..n : TestnetTemplates[l].id = TestnetTemplates[j].id => l = j
    BY <1>1 DEF ManifestsMatch, OneOfEachId
  <2>2. \A l \in 1..n : MainnetTemplates[l].id = MainnetTemplates[k].id => l = k
    BY <1>1 DEF ManifestsMatch, OneOfEachId
  <2> QED BY <1>2, <1>6, <1>7, <2>1, <2>2
<1>9. t.script \in Scripts(txMetadata[i]) BY <1>6, <1>8, PacketParts
<1> QED BY <1>1, <1>5, <1>9

-----------------------------------------------------------------------------
(* 6. Calls with generated files.                                          *)

(* In calls with generated files that are left alone every chunk is taken, *)
(* and in the end the packet is accepted for the script.                   *)
THEOREM GeneratedIsAccepted ==
  ASSUME Generation
  PROVE  SessionSpec => []ListedIsAccepted
BY GeneratedIsWellFormed, WellFormedIsAccepted

(* The store with the generated tree.                                      *)
ByGenerated == INSTANCE TxMetadataProofs WITH TreeNode <- GeneratedNodes

LEMMA GeneratedStore ==
  ASSUME Generation
  PROVE  SessionSpec => [](TypeOK /\ ByGenerated!AcceptedIsPublished)
<1>1. /\ ByGenerated!LevelsAssumption /\ ByGenerated!Sha256Assumption
      /\ ByGenerated!PayloadAssumption /\ ByGenerated!TreeAssumption
  <2>1. ByGenerated!IsTree(GeneratedNodes)
    BY GeneratedIsTree DEF IsTree, ByGenerated!IsTree
  <2> QED
    BY <2>1, LevelsAssumption, Sha256Assumption, PayloadAssumption
       DEF ByGenerated!LevelsAssumption, ByGenerated!Sha256Assumption,
           ByGenerated!PayloadAssumption, ByGenerated!TreeAssumption
<1>2. Init <=> ByGenerated!Init
  BY DEF Init, ByGenerated!Init
<1>3. [Next]_vars <=> [ByGenerated!Next]_(ByGenerated!vars)
  BY DEF Next, ByGenerated!Next, vars, ByGenerated!vars, InitChunk, ByGenerated!InitChunk,
     MetadataChunk, ByGenerated!MetadataChunk, ProofChunk, ByGenerated!ProofChunk,
     Storable, ByGenerated!Storable, ExtendsProof, ByGenerated!ExtendsProof,
     storeTxMetadata, ByGenerated!storeTxMetadata,
     initStoredTxMetadata, ByGenerated!initStoredTxMetadata,
     validateStoredTxMetadataMerkleTreeLevel,
     ByGenerated!validateStoredTxMetadataMerkleTreeLevel
<1>4. TypeOK <=> ByGenerated!TypeOK
  BY DEF TypeOK, ByGenerated!TypeOK
<1>5. ByGenerated!Spec => []ByGenerated!TypeOK /\ []ByGenerated!AcceptedIsPublished
  BY <1>1, ByGenerated!TypeCorrect, ByGenerated!Accepted
<1>6. SessionSpec => Spec
  BY GeneratedIsWellFormed, SessionUsesStore
<1> QED
  BY <1>2, <1>3, <1>4, <1>5, <1>6, PTL DEF Spec, ByGenerated!Spec

LEMMA AcceptedPacket ==
  ASSUME Generation, TypeOK, ByGenerated!AcceptedIsPublished,
         NEW s \in Script, parseTxMetadata(s)
  PROVE  \E i \in DOMAIN txMetadata : metadata = txMetadata[i] /\ s \in Scripts(metadata)
<1> DEFINE D == MERKLE_TREE_DEPTH
           n == Len(txMetadata)
<1>0. D \in Nat /\ 0 \in 0..D /\ D - 0 = D /\ ManifestsFit /\ PayloadsAreRead
  BY TreeSizeAssumption DEF Generation
<1>1. n \in Nat /\ DOMAIN txMetadata = 1..n BY <1>0, Packets
<1>2. metadata \in GeneratedNodes[0]
  BY DEF ByGenerated!AcceptedIsPublished, ByGenerated!parseTxMetadata, parseTxMetadata
<1>3. s \in Scripts(metadata)
  <2>1. Covers[metadata] = Scripts(metadata) BY <1>0, <1>2 DEF PayloadsAreRead
  <2> QED BY <2>1 DEF parseTxMetadata
<1>4. PICK j \in 1..Below[D] : metadata = Content(Level[0][j]) BY <1>0, <1>2, NodesOf
<1>5. metadata = PacketAt(j) BY <1>4, LeafNode
<1>6. Scripts(EmptyPacket) = {} BY DEF Scripts, EmptyPacket
<1>7. metadata # EmptyPacket BY <1>3, <1>6
<1>8. j <= n /\ metadata = txMetadata[j] BY <1>5, <1>7 DEF PacketAt
<1>9. j \in 1..n
  <2>1. Below[D] \in Nat BY BelowPositive, TreeSizeAssumption
  <2> HIDE DEF n
  <2> QED BY <1>1, <1>8, <2>1
<1> QED BY <1>1, <1>3, <1>8, <1>9

(* Whoever comes between, what is accepted is the packet of two templates, *)
(* for a script of theirs.                                                 *)
THEOREM OnlyTemplatesAccepted ==
  ASSUME Generation
  PROVE  SessionSpec => []AcceptedIsTemplate
<1>1. TypeOK /\ ByGenerated!AcceptedIsPublished => AcceptedIsTemplate
  BY AcceptedPacket DEF AcceptedIsTemplate
<1> QED BY <1>1, GeneratedStore, PTL

(* If the manifests match, it is the packet of the template itself and of  *)
(* its partner on the other network.                                       *)
THEOREM OwnTemplateAccepted ==
  ASSUME Generation, ManifestsMatch
  PROVE  SessionSpec => []AcceptedIsItsTemplate
<1>1. TypeOK /\ ByGenerated!AcceptedIsPublished => AcceptedIsItsTemplate
  <2> SUFFICES ASSUME TypeOK, ByGenerated!AcceptedIsPublished,
                      NEW t \in Templates, parseTxMetadata(t.script)
               PROVE  \E i \in DOMAIN TestnetTemplates, j \in DOMAIN MainnetTemplates :
                        /\ TestnetTemplates[i].id = t.id
                        /\ MainnetTemplates[j].id = t.id
                        /\ metadata = templateToPacket(TestnetTemplates[i], MainnetTemplates[j])
    BY DEF AcceptedIsItsTemplate
  <2>1. t.script \in Script
    <3>1. Covers[metadata] \in SUBSET Script BY PayloadAssumption DEF TypeOK
    <3> QED BY <3>1 DEF parseTxMetadata
  <2>2. PICK i \in DOMAIN txMetadata : metadata = txMetadata[i] /\ t.script \in Scripts(metadata)
    BY <2>1, AcceptedPacket
  <2> QED BY <2>2, PacketOfTemplate DEF Generation
<1> QED BY <1>1, GeneratedStore, PTL

(* The generated files list every template of matching manifests, with the *)
(* arguments it has on each network.                                       *)
THEOREM GeneratedListsTemplates ==
  ASSUME Generation, ManifestsMatch
  PROVE  SessionSpec => []EveryTemplateListed
<1>1. InStep => EveryTemplateListed
  <2> DEFINE packet(t) == Content(Along(Copies[copy].tree, Copies[copy].index[t.script], Levels))
  <2> SUFFICES ASSUME InStep, NEW t \in Templates
               PROVE  /\ t.script \in DOMAIN Copies[copy].index
                      /\ \A u \in Templates :
                           u.id = t.id => /\ u.script \in Scripts(packet(t))
                                          /\ Len(packet(t)[3]) = Len(u.arguments)
    BY DEF EveryTemplateListed
  <2>1. /\ Copies[copy].tree = merkleTree /\ Copies[copy].index = merkleIndex
        /\ Levels = MERKLE_TREE_DEPTH /\ ManifestsFit
    BY DEF InStep, Generation, FilesAreGenerated
  <2>2. t.script \in DOMAIN merkleIndex
    <3>1. PICK i \in DOMAIN txMetadata : t.script \in Scripts(txMetadata[i])
      BY <2>1, TemplateHasPacket
    <3>2. DOMAIN merkleIndex = UNION {Scripts(txMetadata[j]) : j \in DOMAIN txMetadata}
      BY DEF merkleIndex
    <3> QED BY <3>1, <3>2
  <2>3. PICK i \in DOMAIN txMetadata :
          t.script \in Scripts(txMetadata[i]) /\ merkleIndex[t.script] = Way(i)
    BY <2>1, <2>2, ListedAt
  <2>4. packet(t) = txMetadata[i] BY <2>1, <2>3, PacketFound
  <2>5. PICK j \in DOMAIN TestnetTemplates, k \in DOMAIN MainnetTemplates :
          /\ TestnetTemplates[j].id = t.id /\ MainnetTemplates[k].id = t.id
          /\ txMetadata[i] = templateToPacket(TestnetTemplates[j], MainnetTemplates[k])
    BY <2>1, <2>3, PacketOfTemplate
  <2> DEFINE a == TestnetTemplates[j]
             b == MainnetTemplates[k]
  <2>6. ASSUME NEW u \in Templates, u.id = t.id
        PROVE  u.script \in Scripts(txMetadata[i]) /\ Len(txMetadata[i][3]) = Len(u.arguments)
    <3>1. u = a \/ u = b
      <4>1. \/ \E l \in DOMAIN TestnetTemplates : u = TestnetTemplates[l]
            \/ \E l \in DOMAIN MainnetTemplates : u = MainnetTemplates[l]
        BY DEF ManifestsMatch
      <4>2. \A l \in DOMAIN TestnetTemplates : TestnetTemplates[l].id = t.id => l = j
        BY <2>5 DEF ManifestsMatch, OneOfEachId
      <4>3. \A l \in DOMAIN MainnetTemplates : MainnetTemplates[l].id = t.id => l = k
        BY <2>5 DEF ManifestsMatch, OneOfEachId
      <4> QED BY <2>6, <4>1, <4>2, <4>3
    <3>2. b \in Templates BY DEF ManifestsMatch
    <3>3. b.arguments \in Seq(STRING) /\ Len(b.arguments) = Len(u.arguments)
      <4>1. b.id = u.id BY <2>5, <2>6
      <4> HIDE DEF b
      <4> QED BY <3>2, <4>1 DEF ManifestsMatch
    <3>4. Scripts(templateToPacket(a, b)) = {a.script, b.script}
          /\ Len(templateToPacket(a, b)[3]) = Len(b.arguments)
      BY <3>3, PacketParts
    <3> QED BY <2>5, <3>1, <3>3, <3>4
  <2> HIDE DEF packet
  <2> QED BY <2>1, <2>2, <2>4, <2>6
<1>2. WellFormed BY GeneratedIsWellFormed
<1> QED BY <1>1, <1>2, InStepInductive, PTL
=============================================================================
