---------------------- MODULE TransactionReviewProofs ----------------------
(***************************************************************************)
(* For transactions with any arguments, however nested, any packets and    *)
(* any mode and verdict: what parser_validate accepts is what can be shown *)
(* as declared, and the review shows just that, page by page.              *)
(*                                                                         *)
(*   1. The tokens of a document: where each of its values stands, and     *)
(*      that the walks of json_parser.c find it there.                     *)
(*   2. The screens: each says the fact of its place, or says nothing.     *)
(*   3. The paging of any review.                                          *)
(*   4. The review of a transaction.                                       *)
(***************************************************************************)
EXTENDS TransactionReview, SequenceTheorems, FiniteSetTheorems, WellFoundedInduction, TLAPS

-----------------------------------------------------------------------------
(* 1. The tokens of a document.                                             *)

(* A set of naturals has a least element, and one that has 0 and, with     *)
(* each, the next has them all.                                            *)
LEMMA LeastNatural ==
  ASSUME NEW T, T \subseteq Nat, T # {}
  PROVE  \E x \in T : \A y \in T : x <= y
<1> DEFINE R == {ss \in Nat \X Nat : ss[1] < ss[2]}
<1>1. IsWellFoundedOn(R, Nat) BY NatLessThanWellFounded DEF OpToRel
<1>2. \A y, x \in Nat : y < x => <<y, x>> \in R OBVIOUS
<1> HIDE DEF R
<1>3. PICK x \in T : \A y \in T : ~ (<<y, x>> \in R) BY <1>1, WFMin
<1>4. \A y \in T : ~ (y < x) BY <1>2, <1>3
<1> QED BY <1>3, <1>4

(* Induction over the naturals as a set that holds 0 and each next one.    *)
LEMMA SetInduction ==
  ASSUME NEW T, 0 \in T, \A n \in Nat : n \in T => n + 1 \in T
  PROVE  Nat \subseteq T
<1> SUFFICES ASSUME ~(Nat \subseteq T) PROVE FALSE OBVIOUS
<1> DEFINE U == {n \in Nat : n \notin T}
<1>1. PICK x \in U : \A y \in U : x <= y BY LeastNatural
<1>2. x # 0 BY <1>1
<1>3. x - 1 \in Nat /\ x - 1 \notin U BY <1>1, <1>2
<1> QED BY <1>1, <1>3

(* There is a function on 0..n that begins with a and goes on with step.   *)
Iterates(f, n, a, step) ==
  f = [i \in 0..n |-> IF i = 0 THEN a ELSE step[<<f[i-1], i>>]]

(* An iteration is a function.                                             *)
LEMMA IterationExists ==
  ASSUME NEW S, NEW a \in S, NEW n \in Nat, NEW step \in [S \X (1..n) -> S]
  PROVE  \E f \in [0..n -> S] : Iterates(f, n, a, step)
<1> DEFINE Upto(k, f) == \A i \in 0..k : f[i] = IF i = 0 THEN a ELSE step[<<f[i-1], i>>]
           T == {k \in Nat : k <= n => \E f \in [0..k -> S] : Upto(k, f)}
<1>1. 0 \in T
  <2>1. [i \in 0..0 |-> a] \in [0..0 -> S] /\ Upto(0, [i \in 0..0 |-> a]) OBVIOUS
  <2> QED BY <2>1
<1>2. ASSUME NEW k \in Nat, k \in T PROVE k + 1 \in T
  <2> SUFFICES ASSUME k + 1 <= n PROVE \E f \in [0..k+1 -> S] : Upto(k + 1, f) OBVIOUS
  <2>1. PICK f \in [0..k -> S] : Upto(k, f) BY <1>2
  <2> DEFINE g == [i \in 0..k+1 |-> IF i <= k THEN f[i] ELSE step[<<f[k], k + 1>>]]
  <2>2. f[k] \in S /\ k + 1 \in 1..n BY <2>1
  <2>3. step[<<f[k], k + 1>>] \in S BY <2>2
  <2>4. g \in [0..k+1 -> S] BY <2>1, <2>3
  <2>5. Upto(k + 1, g)
    <3> SUFFICES ASSUME NEW i \in 0..k+1
                 PROVE  g[i] = IF i = 0 THEN a ELSE step[<<g[i-1], i>>]
      OBVIOUS
    <3>1. CASE i = 0
      <4>1. g[i] = f[0] BY <3>1
      <4>2. 0 \in 0..k OBVIOUS
      <4>3. f[0] = IF 0 = 0 THEN a ELSE step[<<f[0-1], 0>>] BY <2>1, <4>2, Zenon
      <4> QED BY <3>1, <4>1, <4>3
    <3>2. CASE i # 0 /\ i <= k
      <4>1. g[i] = f[i] /\ g[i-1] = f[i-1] BY <3>2
      <4>2. f[i] = step[<<f[i-1], i>>] BY <2>1, <3>2
      <4> QED BY <3>2, <4>1, <4>2
    <3>3. CASE i = k + 1
      <4>1. g[i] = step[<<f[k], k + 1>>] /\ g[i-1] = f[k] /\ i # 0 BY <3>3
      <4> HIDE DEF g
      <4>2. step[<<g[i-1], i>>] = step[<<f[k], k + 1>>] BY <3>3, <4>1
      <4> QED BY <4>1, <4>2
    <3> QED BY <3>1, <3>2, <3>3
  <2> QED BY <2>4, <2>5
<1>3. Nat \subseteq T BY <1>1, <1>2, SetInduction
<1>4. PICK f \in [0..n -> S] : Upto(n, f) BY <1>3
<1>5. f = [i \in 0..n |-> IF i = 0 THEN a ELSE step[<<f[i-1], i>>]] BY <1>4
<1> QED BY <1>5 DEF Iterates

-----------------------------------------------------------------------------
(* The recursive definitions of values and of their layouts.               *)
LEMMA ValueDefined ==
  \A d \in 0..Nesting : Value[d] = IF d = 0 THEN Scalars ELSE ValuesOver(Value[d-1])
<1> Nesting \in Nat BY TokensAssumption
<1> DEFINE Upto(k, f) == \A i \in 0..k : f[i] = IF i = 0 THEN Scalars ELSE ValuesOver(f[i-1])
           T == {k \in Nat : \E f : Upto(k, f)}
<1>1. 0 \in T
  <2>1. Upto(0, [i \in 0..0 |-> Scalars]) OBVIOUS
  <2> QED BY <2>1
<1>2. ASSUME NEW k \in Nat, k \in T PROVE k + 1 \in T
  <2>1. PICK f : Upto(k, f) BY <1>2
  <2> DEFINE g == [i \in 0..k+1 |-> IF i <= k THEN f[i] ELSE ValuesOver(f[k])]
  <2>2. ASSUME NEW i \in 0..k+1
        PROVE  g[i] = IF i = 0 THEN Scalars ELSE ValuesOver(g[i-1])
    <3>1. CASE i = 0
      <4>1. g[i] = f[0] /\ f[0] = Scalars BY <2>1, <3>1
      <4> QED BY <3>1, <4>1
    <3>2. CASE i # 0 /\ i <= k
      <4>1. g[i] = f[i] /\ g[i-1] = f[i-1] /\ i \in 0..k BY <3>2
      <4>2. f[i] = ValuesOver(f[i-1]) BY <2>1, <3>2, <4>1
      <4> QED BY <3>2, <4>1, <4>2
    <3>3. CASE i = k + 1
      <4>1. g[i] = ValuesOver(f[k]) /\ g[i-1] = f[k] /\ i # 0 BY <3>3
      <4> QED BY <4>1
    <3> QED BY <3>1, <3>2, <3>3
  <2>3. Upto(k + 1, g) BY <2>2
  <2> HIDE DEF g, Upto
  <2> QED BY <2>3
<1>3. Nesting \in T BY <1>1, <1>2, SetInduction
<1> HIDE DEF Upto
<1>4. PICK f : Upto(Nesting, f) BY <1>3
<1> USE DEF Upto
<1> DEFINE IsF(g) == g = [d \in 0..Nesting |-> IF d = 0 THEN Scalars ELSE ValuesOver(g[d-1])]
           h == [i \in 0..Nesting |-> f[i]]
<1>5. IsF(h)
  <2>1. ASSUME NEW i \in 0..Nesting PROVE h[i] = IF i = 0 THEN Scalars ELSE ValuesOver(h[i-1])
    <3>1. CASE i = 0 BY <1>4, <3>1
    <3>2. CASE i # 0
      <4>1. i - 1 \in 0..Nesting BY <3>2
      <4>2. h[i] = f[i] /\ h[i-1] = f[i-1] BY <4>1
      <4> QED BY <1>4, <3>2, <4>2
    <3> QED BY <3>1, <3>2
  <2> QED BY <2>1
<1> HIDE DEF h, IsF
<1>6. IsF(CHOOSE g : IsF(g)) BY <1>5
<1>7. Value = CHOOSE g : IsF(g) BY DEF Value, IsF
<1>8. IsF(Value) BY <1>6, <1>7
<1> QED BY <1>8, Zenon DEF IsF

LEMMA ScalarLayout ==
  ASSUME NEW v \in Scalars, NEW x, NEW y
  PROVE  LayoutBy(x, v) = LayoutBy(y, v)
BY DEF Scalars, LayoutBy

(* The layouts of the values of each depth, from those of the depth below. *)
LEMMA LayoutDefined ==
  \A d \in 0..Nesting : Layout[d] = [v \in Value[d] |-> LayoutBy(Layout[d-1], v)]
<1> Nesting \in Nat BY TokensAssumption
<1> DEFINE Upto(k, f) == \A i \in 0..k : f[i] = [v \in Value[i] |-> LayoutBy(f[i-1], v)]
           T == {k \in Nat : k <= Nesting => \E f : Upto(k, f)}
<1>0. 0 \in 0..Nesting /\ Value[0] = Scalars
  BY ValueDefined
<1>1. 0 \in T
  <2> DEFINE g == [i \in 0..0 |-> [v \in Value[0] |-> LayoutBy(i, v)]]
  <2>1. g[0] = [v \in Value[0] |-> LayoutBy(0, v)] OBVIOUS
  <2> HIDE DEF g
  <2>2. g[0] = [v \in Value[0] |-> LayoutBy(g[0-1], v)]
    BY <1>0, <2>1, ScalarLayout
  <2>3. Upto(0, g) BY <2>2
  <2> QED BY <2>3
<1>2. ASSUME NEW k \in Nat, k \in T PROVE k + 1 \in T
  <2> HIDE DEF Upto
  <2> SUFFICES ASSUME k + 1 <= Nesting PROVE \E f : Upto(k + 1, f) OBVIOUS
  <2>1. PICK f : Upto(k, f) BY <1>2
  <2> USE DEF Upto
  <2> DEFINE g == [i \in 0..k+1 |-> IF i <= k THEN f[i]
                                    ELSE [v \in Value[k+1] |-> LayoutBy(f[k], v)]]
  <2>2. ASSUME NEW i \in 0..k+1
        PROVE  g[i] = [v \in Value[i] |-> LayoutBy(g[i-1], v)]
    <3>1. CASE i = 0
      <4>1. g[i] = f[0] /\ f[0] = [v \in Value[0] |-> LayoutBy(f[0-1], v)] BY <2>1, <3>1
      <4> HIDE DEF g
      <4> QED BY <1>0, <3>1, <4>1, ScalarLayout
    <3>2. CASE i # 0 /\ i <= k
      <4>1. g[i] = f[i] /\ g[i-1] = f[i-1] /\ i \in 0..k BY <3>2
      <4>2. f[i] = [v \in Value[i] |-> LayoutBy(f[i-1], v)] BY <2>1, <3>2, <4>1
      <4> HIDE DEF g
      <4> QED BY <4>1, <4>2
    <3>3. CASE i = k + 1
      <4>1. g[i] = [v \in Value[k+1] |-> LayoutBy(f[k], v)] /\ g[i-1] = f[k] BY <3>3
      <4> HIDE DEF g
      <4> QED BY <3>3, <4>1
    <3> QED BY <3>1, <3>2, <3>3
  <2>3. Upto(k + 1, g) BY <2>2
  <2> HIDE DEF g, Upto
  <2> QED BY <2>3
<1>3. Nesting \in T BY <1>1, <1>2, SetInduction
<1> HIDE DEF Upto
<1>4. PICK f : Upto(Nesting, f) BY <1>3
<1> USE DEF Upto
<1> DEFINE IsF(g) == g = [d \in 0..Nesting |-> [v \in Value[d] |-> LayoutBy(g[d-1], v)]]
           h == [i \in 0..Nesting |-> f[i]]
<1>5. IsF(h)
  <2>1. ASSUME NEW i \in 0..Nesting PROVE h[i] = [v \in Value[i] |-> LayoutBy(h[i-1], v)]
    <3>0. h[i] = f[i] /\ f[i] = [v \in Value[i] |-> LayoutBy(f[i-1], v)] BY <1>4
    <3>1. CASE i = 0
      <4> HIDE DEF h
      <4> QED BY <1>0, <3>0, <3>1, ScalarLayout
    <3>2. CASE i # 0
      <4>1. h[i-1] = f[i-1] BY <3>2
      <4> HIDE DEF h
      <4> QED BY <3>0, <4>1
    <3> QED BY <3>1, <3>2
  <2> QED BY <2>1
<1> HIDE DEF h, IsF
<1>6. IsF(CHOOSE g : IsF(g)) BY <1>5
<1>7. Layout = CHOOSE g : IsF(g) BY DEF Layout, IsF
<1>8. IsF(Layout) BY <1>6, <1>7
<1> QED BY <1>8, Zenon DEF IsF

(* Over more parts there are more values.                                  *)
LEMMA ValuesOverMore ==
  ASSUME NEW A, NEW B, A \subseteq B
  PROVE  ValuesOver(A) \subseteq ValuesOver(B)
<1>1. Seq(A) \subseteq Seq(B) BY SeqMonotonic
<1> QED BY <1>1 DEF ValuesOver, Arrays, Objects

(* A value of one depth is a value of every depth beyond it.               *)
LEMMA ValueDeeper ==
  /\ \A d \in 1..Nesting : Value[d-1] \subseteq Value[d]
  /\ \A d \in 0..Nesting : Value[d] \subseteq Value[Nesting]
<1> Nesting \in Nat BY TokensAssumption
<1>1. \A d \in 1..Nesting : Value[d-1] \subseteq Value[d]
  <2> DEFINE T == {k \in Nat : k + 1 <= Nesting => Value[k] \subseteq Value[k+1]}
  <2>1. 0 \in T
    <3> SUFFICES ASSUME 1 <= Nesting PROVE Value[0] \subseteq Value[1] OBVIOUS
    <3>1. 0 \in 0..Nesting /\ 1 \in 0..Nesting OBVIOUS
    <3>2. Value[0] = Scalars /\ Value[1] = ValuesOver(Value[0]) BY <3>1, ValueDefined
    <3> QED BY <3>2 DEF ValuesOver
  <2>2. ASSUME NEW k \in Nat, k \in T PROVE k + 1 \in T
    <3> SUFFICES ASSUME (k + 1) + 1 <= Nesting PROVE Value[k+1] \subseteq Value[(k+1)+1] OBVIOUS
    <3>1. k + 1 \in 0..Nesting /\ (k + 1) + 1 \in 0..Nesting OBVIOUS
    <3>2. Value[k+1] = ValuesOver(Value[k])
      <4>1. k + 1 # 0 /\ (k + 1) - 1 = k OBVIOUS
      <4> QED BY <3>1, <4>1, ValueDefined
    <3>3. Value[(k+1)+1] = ValuesOver(Value[k+1])
      <4>1. (k + 1) + 1 # 0 /\ ((k + 1) + 1) - 1 = k + 1 OBVIOUS
      <4> QED BY <3>1, <4>1, ValueDefined
    <3>4. Value[k] \subseteq Value[k+1] BY <2>2
    <3> QED BY <3>2, <3>3, <3>4, ValuesOverMore
  <2> HIDE DEF T
  <2>3. Nat \subseteq T BY <2>1, <2>2, SetInduction
  <2>4. ASSUME NEW d \in 1..Nesting PROVE Value[d-1] \subseteq Value[d]
    <3>1. d - 1 \in T /\ (d - 1) + 1 = d BY <2>3
    <3> QED BY <3>1 DEF T
  <2> QED BY <2>4
<1>2. ASSUME NEW d \in 0..Nesting PROVE Value[d] \subseteq Value[Nesting]
  <2> DEFINE T == {k \in Nat : k <= Nesting => Value[Nesting - k] \subseteq Value[Nesting]}
  <2>1. 0 \in T
    <3>1. Nesting - 0 = Nesting OBVIOUS
    <3> QED BY <3>1
  <2>2. ASSUME NEW k \in Nat, k \in T PROVE k + 1 \in T
    <3> SUFFICES ASSUME k + 1 <= Nesting PROVE Value[Nesting - (k + 1)] \subseteq Value[Nesting]
      OBVIOUS
    <3>1. Nesting - k \in 1..Nesting /\ (Nesting - k) - 1 = Nesting - (k + 1) OBVIOUS
    <3>2. Value[Nesting - (k + 1)] \subseteq Value[Nesting - k] BY <1>1, <3>1
    <3>3. Value[Nesting - k] \subseteq Value[Nesting] BY <2>2
    <3> QED BY <3>2, <3>3
  <2> HIDE DEF T
  <2>3. Nat \subseteq T BY <2>1, <2>2, SetInduction
  <2>4. Nesting - d \in T /\ Nesting - (Nesting - d) = d BY <2>3
  <2> QED BY <2>4 DEF T
<1> QED BY <1>1, <1>2

-----------------------------------------------------------------------------
Kinds == {"STRING", "PRIMITIVE", "ARRAY", "OBJECT"}
TokenOver(V) == [value : V, kind : Kinds, start : Nat, end : Nat]
LaidOver(V)  == [tokens : Seq(TokenOver(V)), size : Nat]

(* Tokens moved behind others keep what they are.                          *)
LEMMA ShiftedTokens ==
  ASSUME NEW V, NEW t \in Seq(TokenOver(V)), NEW by \in Nat
  PROVE  /\ Shifted(t, by) \in Seq(TokenOver(V))
         /\ Len(Shifted(t, by)) = Len(t)
         /\ \A k \in 1..Len(t) :
              /\ Shifted(t, by)[k].value = t[k].value
              /\ Shifted(t, by)[k].kind = t[k].kind
              /\ Shifted(t, by)[k].start = t[k].start + by
              /\ Shifted(t, by)[k].end = t[k].end + by
<1> DEFINE s == Shifted(t, by)
<1>1. DOMAIN t = 1..Len(t) /\ Len(t) \in Nat OBVIOUS
<1>2. s = [k \in 1..Len(t) |-> [t[k] EXCEPT !.start = @ + by, !.end = @ + by]]
  BY <1>1 DEF Shifted
<1> HIDE DEF s
<1>3. ASSUME NEW k \in 1..Len(t)
      PROVE  /\ s[k] \in TokenOver(V)
             /\ s[k].value = t[k].value /\ s[k].kind = t[k].kind
             /\ s[k].start = t[k].start + by /\ s[k].end = t[k].end + by
  <2>1. t[k] \in TokenOver(V) BY ElementOfSeq
  <2>2. s[k] = [t[k] EXCEPT !.start = @ + by, !.end = @ + by] BY <1>2
  <2>3. /\ t[k] = [value |-> t[k].value, kind |-> t[k].kind,
                   start |-> t[k].start, end |-> t[k].end]
        /\ t[k].value \in V /\ t[k].kind \in Kinds /\ t[k].start \in Nat /\ t[k].end \in Nat
    BY <2>1 DEF TokenOver
  <2>4. s[k] = [value |-> t[k].value, kind |-> t[k].kind,
                start |-> t[k].start + by, end |-> t[k].end + by]
    BY <2>2, <2>3
  <2>5. t[k].start + by \in Nat /\ t[k].end + by \in Nat BY <2>3
  <2> QED BY <2>3, <2>4, <2>5 DEF TokenOver
<1>4. s \in Seq(TokenOver(V)) /\ Len(s) = Len(t)
  <2>1. s \in [1..Len(t) -> TokenOver(V)] BY <1>2, <1>3
  <2> QED BY <1>1, <2>1
<1> QED BY <1>3, <1>4 DEF s

(* What Laid says of the parts laid one behind the other.                  *)
IsLaid(laid, layout, parts, V) ==
  /\ laid \in [0..Len(parts) -> LaidOver(V)]
  /\ laid[0].tokens = <<>> /\ laid[0].size = 1
  /\ \A n \in 1..Len(parts) :
       /\ laid[n].tokens = laid[n-1].tokens \o Shifted(layout[parts[n]].tokens, laid[n-1].size)
       /\ laid[n].size = laid[n-1].size + layout[parts[n]].size + 1

(* The parts of a value are laid out one behind the other.                 *)
LEMMA LaidDefined ==
  ASSUME NEW V, NEW layout, NEW P, NEW parts \in Seq(P),
         \A n \in 1..Len(parts) : layout[parts[n]] \in LaidOver(V)
  PROVE  IsLaid(Laid(layout, parts), layout, parts, V)
<1> DEFINE m == Len(parts)
           L(i) == layout[parts[i]]
           start == [tokens |-> <<>>, size |-> 1]
           next(b, i) == [tokens |-> b.tokens \o Shifted(L(i).tokens, b.size),
                          size |-> b.size + L(i).size + 1]
           step == [x \in LaidOver(V) \X (1..m) |-> next(x[1], x[2])]
           IsUpTo(f) == f = [i \in 0..m |-> IF i = 0 THEN start ELSE next(f[i-1], i)]
<1>1. m \in Nat /\ \A i \in 1..m : L(i) \in LaidOver(V) OBVIOUS
<1> HIDE DEF m, L
<1>2. start \in LaidOver(V)
  <2>1. <<>> \in Seq(TokenOver(V)) OBVIOUS
  <2> QED BY <2>1 DEF LaidOver
<1>3. ASSUME NEW b \in LaidOver(V), NEW i \in 1..m PROVE next(b, i) \in LaidOver(V)
  <2>1. b.tokens \in Seq(TokenOver(V)) /\ b.size \in Nat BY DEF LaidOver
  <2>2. L(i).tokens \in Seq(TokenOver(V)) /\ L(i).size \in Nat BY <1>1 DEF LaidOver
  <2>3. Shifted(L(i).tokens, b.size) \in Seq(TokenOver(V)) BY <2>1, <2>2, ShiftedTokens
  <2>4. b.tokens \o Shifted(L(i).tokens, b.size) \in Seq(TokenOver(V)) BY <2>1, <2>3
  <2>5. b.size + L(i).size + 1 \in Nat BY <2>1, <2>2
  <2> QED BY <2>4, <2>5 DEF LaidOver
<1> HIDE DEF start, next
<1>4. step \in [LaidOver(V) \X (1..m) -> LaidOver(V)] BY <1>3
<1>5. PICK f \in [0..m -> LaidOver(V)] : Iterates(f, m, start, step)
  <2> HIDE DEF step
  <2> QED BY <1>1, <1>2, <1>4, IterationExists
<1>6. IsUpTo(f)
  <2>1. ASSUME NEW i \in 0..m, i # 0 PROVE step[<<f[i-1], i>>] = next(f[i-1], i)
    <3>1. i \in 1..m /\ i - 1 \in 0..m BY <1>1, <2>1
    <3>2. <<f[i-1], i>> \in LaidOver(V) \X (1..m) BY <1>5, <3>1
    <3> QED BY <3>2
  <2> HIDE DEF step
  <2> QED BY <1>5, <2>1 DEF Iterates
<1> HIDE DEF IsUpTo
<1>7. IsUpTo(CHOOSE g : IsUpTo(g)) BY <1>6
<1>8. Laid(layout, parts) = CHOOSE g : IsUpTo(g)
  BY DEF Laid, IsUpTo, next, start, L, m
<1> DEFINE w == Laid(layout, parts)
<1>9. w = [i \in 0..m |-> IF i = 0 THEN start ELSE next(w[i-1], i)]
  BY <1>7, <1>8 DEF IsUpTo
<1> HIDE DEF w
<1>10. w[0] = start
  <2>1. 0 \in 0..m BY <1>1
  <2> QED BY <1>9, <2>1
<1>11. ASSUME NEW i \in 1..m PROVE w[i] = next(w[i-1], i)
  <2>1. i \in 0..m /\ i # 0 BY <1>1
  <2> QED BY <1>9, <2>1
<1>12. \A i \in 0..m : w[i] \in LaidOver(V)
  <2> DEFINE T == {i \in Nat : i <= m => w[i] \in LaidOver(V)}
  <2>1. 0 \in T BY <1>2, <1>10
  <2>2. ASSUME NEW i \in Nat, i \in T PROVE i + 1 \in T
    <3> SUFFICES ASSUME i + 1 <= m PROVE w[i + 1] \in LaidOver(V) OBVIOUS
    <3>1. w[i] \in LaidOver(V) /\ i + 1 \in 1..m /\ (i + 1) - 1 = i BY <1>1, <2>2
    <3>2. w[i + 1] = next(w[i], i + 1) BY <1>11, <3>1
    <3> QED BY <1>3, <3>1, <3>2
  <2>3. Nat \subseteq T
    <3> HIDE DEF T
    <3> QED BY <2>1, <2>2, SetInduction
  <2> QED BY <2>3
<1>13. w \in [0..m -> LaidOver(V)] BY <1>9, <1>12
<1>14. w[0].tokens = <<>> /\ w[0].size = 1 BY <1>10 DEF start
<1>15. ASSUME NEW n \in 1..m
       PROVE  /\ w[n].tokens = w[n-1].tokens \o Shifted(L(n).tokens, w[n-1].size)
              /\ w[n].size = w[n-1].size + L(n).size + 1
  <2>1. w[n] = next(w[n-1], n) BY <1>11
  <2>2. next(w[n-1], n).tokens = w[n-1].tokens \o Shifted(L(n).tokens, w[n-1].size)
    BY DEF next
  <2>3. next(w[n-1], n).size = w[n-1].size + L(n).size + 1 BY DEF next
  <2> QED BY <2>1, <2>2, <2>3
<1> QED BY <1>13, <1>14, <1>15 DEF w, m, L, IsLaid

(* The layout l of a value v: its own token comes first and the others     *)
(* begin within it.                                                        *)
WellLaid(l, v, V) ==
  /\ l \in LaidOver(V)
  /\ Len(l.tokens) >= 1
  /\ l.tokens[1].value = v /\ l.tokens[1].kind = v.kind
  /\ l.tokens[1].start <= l.tokens[1].end /\ l.tokens[1].end <= l.size
  /\ \A k \in 2..Len(l.tokens) : /\ l.tokens[1].start < l.tokens[k].start
                                 /\ l.tokens[k].start <= l.tokens[1].end

(* In the layout of a value no token starts behind its end.                *)
LEMMA WellLaidStarts ==
  ASSUME NEW V, NEW l, NEW v, WellLaid(l, v, V)
  PROVE  /\ l.tokens \in Seq(TokenOver(V)) /\ l.size \in Nat
         /\ \A k \in 1..Len(l.tokens) : l.tokens[k].start <= l.size
<1>1. l.tokens \in Seq(TokenOver(V)) /\ l.size \in Nat BY DEF WellLaid, LaidOver
<1>2. ASSUME NEW k \in 1..Len(l.tokens) PROVE l.tokens[k].start <= l.size
  <2>1. Len(l.tokens) \in Nat BY <1>1
  <2>2. l.tokens[1] \in TokenOver(V) /\ l.tokens[k] \in TokenOver(V)
    <3>1. 1 \in 1..Len(l.tokens) BY <2>1
    <3> QED BY <1>1, <3>1, ElementOfSeq
  <2>3. l.tokens[1].start \in Nat /\ l.tokens[1].end \in Nat /\ l.tokens[k].start \in Nat
    BY <2>2 DEF TokenOver
  <2>4. l.tokens[k].start <= l.tokens[1].end
    <3>1. CASE k = 1 BY <3>1 DEF WellLaid
    <3>2. CASE k # 1
      <4>1. k \in 2..Len(l.tokens) BY <2>1, <3>2
      <4> QED BY <4>1 DEF WellLaid
    <3> QED BY <3>1, <3>2
  <2>5. l.tokens[1].end <= l.size BY DEF WellLaid
  <2> QED BY <1>1, <2>3, <2>4, <2>5
<1> QED BY <1>1, <1>2

(* Where the tokens of parts are that are laid one behind the other.       *)
Follows(ct, bt, bs, lt, ls) ==
  /\ Len(ct) = Len(bt) + Len(lt)
  /\ \A k \in 1..Len(bt) : ct[k] = bt[k]
  /\ \A k \in 1..Len(lt) : ct[Len(bt) + k] = Shifted(lt, bs)[k]
  /\ \A k \in 1..Len(ct) : 1 <= ct[k].start /\ ct[k].start < bs + ls + 1
  /\ \A k \in Len(bt)+1..Len(ct) : ct[k].start >= bs

(* One more part behind others that are laid out.                          *)
LEMMA NextPart ==
  ASSUME NEW V, NEW bt \in Seq(TokenOver(V)), NEW bs \in Nat, bs >= 1,
         NEW lt \in Seq(TokenOver(V)), NEW ls \in Nat,
         \A k \in 1..Len(bt) : 1 <= bt[k].start /\ bt[k].start < bs,
         \A k \in 1..Len(lt) : lt[k].start <= ls,
         NEW ct, ct = bt \o Shifted(lt, bs)
  PROVE  Follows(ct, bt, bs, lt, ls)
<1> DEFINE s == Shifted(lt, bs)
<1>1. /\ s \in Seq(TokenOver(V)) /\ Len(s) = Len(lt)
      /\ \A k \in 1..Len(lt) : s[k].start = lt[k].start + bs
  BY ShiftedTokens
<1>2. ct = bt \o s OBVIOUS
<1> HIDE DEF s
<1>3. Len(bt) \in Nat /\ Len(lt) \in Nat OBVIOUS
<1>4. /\ ct \in Seq(TokenOver(V))
      /\ Len(ct) = Len(bt) + Len(s)
      /\ \A k \in 1..Len(bt) + Len(s) : ct[k] = IF k <= Len(bt) THEN bt[k] ELSE s[k - Len(bt)]
  <2>1. /\ bt \o s \in Seq(TokenOver(V))
        /\ Len(bt \o s) = Len(bt) + Len(s)
        /\ \A k \in 1..Len(bt) + Len(s) :
             (bt \o s)[k] = IF k <= Len(bt) THEN bt[k] ELSE s[k - Len(bt)]
    BY <1>1, ConcatProperties
  <2> QED BY <1>2, <2>1
<1>5. Len(ct) = Len(bt) + Len(lt) BY <1>1, <1>4
<1>6. ASSUME NEW k \in 1..Len(bt) PROVE ct[k] = bt[k]
  <2>1. k \in 1..Len(bt) + Len(s) /\ k <= Len(bt) BY <1>1, <1>3
  <2> QED BY <1>4, <2>1
<1>7. ASSUME NEW k \in 1..Len(lt) PROVE ct[Len(bt) + k] = s[k]
  <2>1. /\ Len(bt) + k \in 1..Len(bt) + Len(s) /\ ~(Len(bt) + k <= Len(bt))
        /\ (Len(bt) + k) - Len(bt) = k
    BY <1>1, <1>3
  <2> QED BY <1>4, <2>1
<1>8. ASSUME NEW k \in Len(bt)+1..Len(ct) PROVE ct[k].start >= bs /\ ct[k].start < bs + ls + 1
  <2>1. k - Len(bt) \in 1..Len(lt) /\ Len(bt) + (k - Len(bt)) = k BY <1>3, <1>5
  <2>2. ct[k] = s[k - Len(bt)] BY <1>7, <2>1
  <2>3. s[k - Len(bt)].start = lt[k - Len(bt)].start + bs BY <1>1, <2>1
  <2>4. lt[k - Len(bt)] \in TokenOver(V) BY <2>1, ElementOfSeq
  <2>5. lt[k - Len(bt)].start \in Nat BY <2>4 DEF TokenOver
  <2>6. lt[k - Len(bt)].start <= ls BY <2>1
  <2> QED BY <2>2, <2>3, <2>5, <2>6
<1>9. ASSUME NEW k \in 1..Len(ct) PROVE 1 <= ct[k].start /\ ct[k].start < bs + ls + 1
  <2>1. CASE k <= Len(bt)
    <3>1. k \in 1..Len(bt) BY <1>3, <2>1
    <3>2. bt[k] \in TokenOver(V) BY <3>1, ElementOfSeq
    <3>3. bt[k].start \in Nat BY <3>2 DEF TokenOver
    <3>4. ct[k].start = bt[k].start BY <1>6, <3>1
    <3>5. 1 <= bt[k].start /\ bt[k].start < bs BY <3>1
    <3> QED BY <3>3, <3>4, <3>5
  <2>2. CASE ~(k <= Len(bt))
    <3>1. k \in Len(bt)+1..Len(ct) BY <1>3, <1>5, <2>2
    <3>2. ct[k].start >= bs /\ ct[k].start < bs + ls + 1 BY <1>8, <3>1
    <3>3. ct[k] \in TokenOver(V) BY <1>4, ElementOfSeq
    <3>4. ct[k].start \in Nat BY <3>3 DEF TokenOver
    <3> QED BY <3>2, <3>4
  <2> QED BY <2>1, <2>2
<1> QED BY <1>5, <1>6, <1>7, <1>8, <1>9 DEF s, Follows

PartsLaid(laid, layout, parts, V) ==
  /\ laid \in [0..Len(parts) -> LaidOver(V)]
  /\ laid[0].tokens = <<>> /\ laid[0].size = 1
  /\ \A n \in 0..Len(parts) :
       /\ laid[n].size >= 1
       /\ \A k \in 1..Len(laid[n].tokens) :
            1 <= laid[n].tokens[k].start /\ laid[n].tokens[k].start < laid[n].size
  /\ \A n \in 1..Len(parts) :
       /\ laid[n].size = laid[n-1].size + layout[parts[n]].size + 1
       /\ Follows(laid[n].tokens, laid[n-1].tokens, laid[n-1].size,
                  layout[parts[n]].tokens, layout[parts[n]].size)

(* So all parts of a value are laid out, in order, inside the value.       *)
LEMMA LaidTokens ==
  ASSUME NEW V, NEW layout, NEW P, NEW parts \in Seq(P),
         \A n \in 1..Len(parts) : WellLaid(layout[parts[n]], parts[n], V)
  PROVE  PartsLaid(Laid(layout, parts), layout, parts, V)
<1> DEFINE m == Len(parts)
           L(n) == layout[parts[n]]
           Inv(b) == /\ b.size >= 1
                     /\ \A k \in 1..Len(b.tokens) : 1 <= b.tokens[k].start /\ b.tokens[k].start < b.size
           laid == Laid(layout, parts)
<1> HIDE DEF Inv
<1>1. m \in Nat OBVIOUS
<1>2. \A n \in 1..m : WellLaid(L(n), parts[n], V) OBVIOUS
<1>3. \A n \in 1..m : L(n) \in LaidOver(V) BY <1>2 DEF WellLaid
<1>4. /\ laid \in [0..m -> LaidOver(V)]
      /\ laid[0].tokens = <<>> /\ laid[0].size = 1
      /\ \A n \in 1..m :
           /\ laid[n].tokens = laid[n-1].tokens \o Shifted(L(n).tokens, laid[n-1].size)
           /\ laid[n].size = laid[n-1].size + L(n).size + 1
  <2>1. \A n \in 1..Len(parts) : layout[parts[n]] \in LaidOver(V) BY <1>3
  <2>2. IsLaid(Laid(layout, parts), layout, parts, V) BY <2>1, LaidDefined
  <2> QED BY <2>2 DEF IsLaid
<1> HIDE DEF laid
<1> HIDE DEF m, L
<1>5. Inv(laid[0])
  <2>1. laid[0].size = 1 /\ Len(laid[0].tokens) = 0
    <3>1. Len(<<>>) = 0 OBVIOUS
    <3> QED BY <1>4, <3>1
  <2> QED BY <2>1 DEF Inv
<1>6. ASSUME NEW n \in 1..m, Inv(laid[n-1])
      PROVE  /\ Inv(laid[n])
             /\ Follows(laid[n].tokens, laid[n-1].tokens, laid[n-1].size, L(n).tokens, L(n).size)
  <2>1. laid[n-1] \in LaidOver(V)
    <3>1. n - 1 \in 0..m BY <1>1
    <3> QED BY <1>4, <3>1
  <2>2. laid[n].tokens = laid[n-1].tokens \o Shifted(L(n).tokens, laid[n-1].size)
    BY <1>4
  <2>3. laid[n].size = laid[n-1].size + L(n).size + 1 BY <1>4
  <2>4. /\ laid[n-1].tokens \in Seq(TokenOver(V)) /\ laid[n-1].size \in Nat
        /\ laid[n-1].size >= 1
        /\ \A k \in 1..Len(laid[n-1].tokens) :
             1 <= laid[n-1].tokens[k].start /\ laid[n-1].tokens[k].start < laid[n-1].size
    BY <1>6, <2>1 DEF LaidOver, Inv
  <2>5. /\ L(n).tokens \in Seq(TokenOver(V)) /\ L(n).size \in Nat
        /\ \A k \in 1..Len(L(n).tokens) : L(n).tokens[k].start <= L(n).size
    <3>1. WellLaid(L(n), parts[n], V) BY <1>2
    <3> QED BY <3>1, WellLaidStarts
  <2>6. Follows(laid[n].tokens, laid[n-1].tokens, laid[n-1].size, L(n).tokens, L(n).size)
    BY <2>2, <2>4, <2>5, NextPart
  <2>7. laid[n].size >= 1 BY <2>3, <2>4, <2>5
  <2>8. Inv(laid[n]) BY <2>3, <2>6, <2>7 DEF Inv, Follows
  <2> QED BY <2>6, <2>8
<1>7. \A n \in 0..m : Inv(laid[n])
  <2> DEFINE T == {n \in Nat : n <= m => Inv(laid[n])}
  <2>1. 0 \in T BY <1>5
  <2>2. ASSUME NEW n \in Nat, n \in T PROVE n + 1 \in T
    <3> SUFFICES ASSUME n + 1 <= m PROVE Inv(laid[n + 1]) OBVIOUS
    <3>1. n + 1 \in 1..m /\ (n + 1) - 1 = n /\ Inv(laid[n]) BY <1>1, <2>2
    <3> QED BY <1>6, <3>1
  <2>3. Nat \subseteq T
    <3> HIDE DEF T
    <3> QED BY <2>1, <2>2, SetInduction
  <2> QED BY <2>3
<1>8. \A n \in 1..m :
        Follows(laid[n].tokens, laid[n-1].tokens, laid[n-1].size, L(n).tokens, L(n).size)
  <2> SUFFICES ASSUME NEW n \in 1..m
               PROVE  Follows(laid[n].tokens, laid[n-1].tokens, laid[n-1].size,
                              L(n).tokens, L(n).size)
    OBVIOUS
  <2>1. n - 1 \in 0..m BY <1>1
  <2> QED BY <1>6, <1>7, <2>1
<1> QED BY <1>4, <1>7, <1>8 DEF m, L, Inv, laid, PartsLaid

(* A text is laid out well.                                                *)
LEMMA ScalarWellLaid ==
  ASSUME NEW V, NEW v \in V, v \in Scalars, NEW layout
  PROVE  WellLaid(LayoutBy(layout, v), v, V)
<1> DEFINE w == Width[v.text]
           from == IF v.kind = "STRING" THEN 1 ELSE 0
           size == IF v.kind = "STRING" THEN w + 2 ELSE w
           t == Token(v, from, from + w)
           l == LayoutBy(layout, v)
<1>1. w \in Nat /\ v.kind \in {"STRING", "PRIMITIVE"} BY TokensAssumption DEF Scalars
<1>2. l = [tokens |-> <<t>>, size |-> size]
  <2>1. CASE v.kind = "STRING" BY <2>1 DEF LayoutBy
  <2>2. CASE v.kind = "PRIMITIVE"
    <3>1. l = [tokens |-> <<Token(v, 0, w)>>, size |-> w] BY <2>2 DEF LayoutBy
    <3>2. from = 0 /\ size = w /\ 0 + w = w BY <1>1, <2>2
    <3> QED BY <3>1, <3>2
  <2> QED BY <1>1, <2>1, <2>2
<1>3. from \in Nat /\ size \in Nat /\ from + w \in Nat /\ from <= from + w /\ from + w <= size
  BY <1>1
<1> HIDE DEF w, from, size, l
<1>4. t \in TokenOver(V) BY <1>1, <1>3 DEF Token, TokenOver, Kinds
<1>5. t.value = v /\ t.kind = v.kind /\ t.start = from /\ t.end = from + w BY DEF Token
<1> HIDE DEF t
<1>6. l.tokens = <<t>> /\ l.size = size BY <1>2
<1>7. l.tokens \in Seq(TokenOver(V)) /\ Len(l.tokens) = 1 /\ l.tokens[1] = t BY <1>4, <1>6
<1>8. l \in LaidOver(V) BY <1>2, <1>3, <1>4 DEF LaidOver
<1>9. 2..Len(l.tokens) = {} BY <1>7
<1> QED BY <1>3, <1>5, <1>6, <1>7, <1>8, <1>9 DEF WellLaid, l

(* An array or object is, if its parts are.                                *)
LEMMA CompoundWellLaid ==
  ASSUME NEW V, NEW v \in V, NEW P, v \in Arrays(P) \cup Objects(P), NEW layout,
         \A p \in P : WellLaid(layout[p], p, V)
  PROVE  WellLaid(LayoutBy(layout, v), v, V)
<1> DEFINE laid == Laid(layout, v.parts)
           m == Len(v.parts)
           size == IF v.parts = <<>> THEN 2 ELSE laid[m].size
           t == Token(v, 0, size)
           l == LayoutBy(layout, v)
<1>1. v.parts \in Seq(P) /\ v.kind \in {"ARRAY", "OBJECT"} BY DEF Arrays, Objects
<1>2. m \in Nat BY <1>1
<1>3. PartsLaid(laid, layout, v.parts, V)
  <2>1. \A n \in 1..m : WellLaid(layout[v.parts[n]], v.parts[n], V)
    BY <1>1, ElementOfSeq
  <2> QED BY <1>1, <2>1, LaidTokens
<1>4. l = [tokens |-> <<t>> \o laid[m].tokens, size |-> size]
  BY <1>1 DEF LayoutBy
<1> HIDE DEF laid, m, l
<1>5. /\ laid[m].tokens \in Seq(TokenOver(V)) /\ laid[m].size \in Nat /\ laid[m].size >= 1
      /\ \A k \in 1..Len(laid[m].tokens) :
           1 <= laid[m].tokens[k].start /\ laid[m].tokens[k].start < laid[m].size
  <2>1. m \in 0..m BY <1>2
  <2> QED BY <1>3, <2>1 DEF PartsLaid, LaidOver, m
<1>6. v.parts = <<>> => laid[m].tokens = <<>>
  <2>1. v.parts = <<>> => m = 0 BY DEF m
  <2> QED BY <1>3, <2>1 DEF PartsLaid
<1>7. size \in Nat /\ \A k \in 1..Len(laid[m].tokens) : laid[m].tokens[k].start <= size
  <2>1. CASE v.parts = <<>>
    <3>1. Len(<<>>) = 0 /\ 1..0 = {} OBVIOUS
    <3> QED BY <1>6, <2>1, <3>1
  <2>2. CASE v.parts # <<>>
    <3>1. size = laid[m].size BY <2>2
    <3>2. ASSUME NEW k \in 1..Len(laid[m].tokens) PROVE laid[m].tokens[k].start <= size
      <4>1. laid[m].tokens[k] \in TokenOver(V) BY <1>5, ElementOfSeq
      <4>2. laid[m].tokens[k].start \in Nat BY <4>1 DEF TokenOver
      <4>3. laid[m].tokens[k].start < laid[m].size BY <1>5
      <4> QED BY <1>5, <3>1, <4>2, <4>3
    <3> QED BY <1>5, <3>1, <3>2
  <2> QED BY <2>1, <2>2
<1> HIDE DEF size
<1>8. t \in TokenOver(V) BY <1>1, <1>7 DEF Token, TokenOver, Kinds
<1>9. t.value = v /\ t.kind = v.kind /\ t.start = 0 /\ t.end = size BY DEF Token
<1> HIDE DEF t
<1>10. l.tokens = <<t>> \o laid[m].tokens /\ l.size = size BY <1>4
<1>11. /\ l.tokens \in Seq(TokenOver(V))
       /\ Len(l.tokens) = 1 + Len(laid[m].tokens)
       /\ l.tokens[1] = t
       /\ \A k \in 1..Len(laid[m].tokens) : l.tokens[1 + k] = laid[m].tokens[k]
  <2>0. Len(laid[m].tokens) \in Nat BY <1>5
  <2>1. <<t>> \in Seq(TokenOver(V)) /\ Len(<<t>>) = 1 /\ <<t>>[1] = t BY <1>8
  <2>2. /\ <<t>> \o laid[m].tokens \in Seq(TokenOver(V))
        /\ Len(<<t>> \o laid[m].tokens) = Len(<<t>>) + Len(laid[m].tokens)
        /\ \A i \in 1 .. Len(<<t>>) + Len(laid[m].tokens) :
             (<<t>> \o laid[m].tokens)[i] =
               IF i <= Len(<<t>>) THEN <<t>>[i] ELSE laid[m].tokens[i - Len(<<t>>)]
    BY <1>5, <2>1, ConcatProperties
  <2>3. 1 \in 1..1 + Len(laid[m].tokens) BY <2>0
  <2>4. ASSUME NEW k \in 1..Len(laid[m].tokens) PROVE (<<t>> \o laid[m].tokens)[1 + k] = laid[m].tokens[k]
    <3>1. 1 + k \in 1..1 + Len(laid[m].tokens) /\ ~(1 + k <= 1) /\ (1 + k) - 1 = k BY <2>0
    <3> QED BY <2>1, <2>2, <3>1
  <2> QED BY <1>10, <2>1, <2>2, <2>3, <2>4
<1>12. l \in LaidOver(V) BY <1>4, <1>7, <1>10, <1>11 DEF LaidOver
<1>13. ASSUME NEW k \in 2..Len(l.tokens)
       PROVE  t.start < l.tokens[k].start /\ l.tokens[k].start <= t.end
  <2>1. k - 1 \in 1..Len(laid[m].tokens) /\ 1 + (k - 1) = k
    <3>1. Len(laid[m].tokens) \in Nat BY <1>5
    <3> QED BY <1>11, <3>1
  <2>2. l.tokens[k] = laid[m].tokens[k - 1] BY <1>11, <2>1
  <2>3. laid[m].tokens[k - 1] \in TokenOver(V) BY <1>5, <2>1, ElementOfSeq
  <2>4. laid[m].tokens[k - 1].start \in Nat BY <2>3 DEF TokenOver
  <2>5. 1 <= laid[m].tokens[k - 1].start /\ laid[m].tokens[k - 1].start <= size
    BY <1>5, <1>7, <2>1
  <2> QED BY <1>9, <2>2, <2>4, <2>5
<1>14. t.start <= t.end /\ t.end <= l.size BY <1>7, <1>9, <1>10
<1>15. Len(l.tokens) >= 1
  <2>1. Len(laid[m].tokens) \in Nat BY <1>5
  <2> QED BY <1>11, <2>1
<1> QED BY <1>9, <1>11, <1>12, <1>13, <1>14, <1>15 DEF WellLaid, l

(* Every value is, however deep.                                           *)
LEMMA LayoutWell ==
  \A d \in 0..Nesting : \A v \in Value[d] : WellLaid(Layout[d][v], v, Value[Nesting])
<1> Nesting \in Nat BY TokensAssumption
<1> DEFINE Good(d) == \A v \in Value[d] : WellLaid(Layout[d][v], v, Value[Nesting])
           T == {d \in Nat : d <= Nesting => Good(d)}
<1>1. ASSUME NEW d \in 0..Nesting, NEW v \in Value[d]
      PROVE  Layout[d][v] = LayoutBy(Layout[d-1], v) /\ v \in Value[Nesting]
  BY LayoutDefined, ValueDeeper
<1>2. 0 \in T
  <2>1. 0 \in 0..Nesting /\ Value[0] = Scalars BY ValueDefined
  <2>2. ASSUME NEW v \in Value[0] PROVE WellLaid(Layout[0][v], v, Value[Nesting])
    BY <1>1, <2>1, ScalarWellLaid
  <2> QED BY <2>2
<1>3. ASSUME NEW d \in Nat, d \in T PROVE d + 1 \in T
  <2> SUFFICES ASSUME d + 1 <= Nesting, NEW v \in Value[d+1]
               PROVE  WellLaid(Layout[d+1][v], v, Value[Nesting])
    OBVIOUS
  <2>1. d + 1 \in 0..Nesting /\ d + 1 # 0 /\ (d + 1) - 1 = d OBVIOUS
  <2>2. \A p \in Value[d] : WellLaid(Layout[d][p], p, Value[Nesting]) BY <1>3
  <2>3. v \in ValuesOver(Value[d]) BY <2>1, ValueDefined
  <2>4. Layout[d+1][v] = LayoutBy(Layout[d], v) /\ v \in Value[Nesting] BY <1>1, <2>1
  <2>5. CASE v \in Scalars BY <2>4, <2>5, ScalarWellLaid
  <2>6. CASE v \in Arrays(Value[d]) \cup Objects(Value[d])
    BY <2>2, <2>4, <2>6, CompoundWellLaid
  <2> QED BY <2>3, <2>5, <2>6 DEF ValuesOver
<1> HIDE DEF T
<1>4. Nat \subseteq T BY <1>2, <1>3, SetInduction
<1>5. ASSUME NEW d \in 0..Nesting PROVE Good(d)
  <2>1. d \in T BY <1>4
  <2> QED BY <2>1 DEF T
<1> QED BY <1>5

(* The same layouts of the parts give the same layout.                     *)
LEMMA LaidSame ==
  ASSUME NEW x, NEW y, NEW P, NEW parts \in Seq(P),
         \A n \in 1..Len(parts) : x[parts[n]] \in LaidOver(Value[Nesting]) /\ y[parts[n]] = x[parts[n]]
  PROVE  Laid(x, parts)[Len(parts)] = Laid(y, parts)[Len(parts)]
<1> DEFINE m == Len(parts)
           f == Laid(x, parts)
           g == Laid(y, parts)
           T == {n \in Nat : n <= m => f[n] = g[n]}
<1>1. m \in Nat OBVIOUS
<1>2. IsLaid(f, x, parts, Value[Nesting]) BY LaidDefined
<1>3. IsLaid(g, y, parts, Value[Nesting])
  <2>1. \A n \in 1..Len(parts) : y[parts[n]] \in LaidOver(Value[Nesting]) OBVIOUS
  <2> QED BY <2>1, LaidDefined
<1> HIDE DEF f, g
<1>4. ASSUME NEW n \in 0..m, f[n].tokens = g[n].tokens, f[n].size = g[n].size
      PROVE  f[n] = g[n]
  <2>1. f[n] \in LaidOver(Value[Nesting]) /\ g[n] \in LaidOver(Value[Nesting]) BY <1>2, <1>3 DEF IsLaid
  <2> QED BY <1>4, <2>1 DEF LaidOver
<1>5. 0 \in T
  <2>1. f[0].tokens = g[0].tokens /\ f[0].size = g[0].size BY <1>2, <1>3 DEF IsLaid
  <2>2. 0 \in 0..m BY <1>1
  <2> QED BY <1>4, <2>1, <2>2
<1>6. ASSUME NEW n \in Nat, n \in T PROVE n + 1 \in T
  <2> SUFFICES ASSUME n + 1 <= m PROVE f[n+1] = g[n+1] OBVIOUS
  <2>1. n + 1 \in 1..m /\ n + 1 \in 0..m /\ (n + 1) - 1 = n BY <1>1
  <2>2. f[n] = g[n] BY <1>1, <1>6
  <2>3. x[parts[n+1]] = y[parts[n+1]] BY <2>1
  <2>4. f[n+1].tokens = f[n].tokens \o Shifted(x[parts[n+1]].tokens, f[n].size)
    BY <1>2, <2>1 DEF IsLaid, m
  <2>5. g[n+1].tokens = g[n].tokens \o Shifted(y[parts[n+1]].tokens, g[n].size)
    BY <1>3, <2>1 DEF IsLaid, m
  <2>6. /\ f[n+1].size = f[n].size + x[parts[n+1]].size + 1
        /\ g[n+1].size = g[n].size + y[parts[n+1]].size + 1
    BY <1>2, <1>3, <2>1 DEF IsLaid, m
  <2> QED BY <1>4, <2>1, <2>2, <2>3, <2>4, <2>5, <2>6
<1> HIDE DEF T
<1>7. m \in T BY <1>1, <1>5, <1>6, SetInduction
<1> QED BY <1>1, <1>7 DEF T, f, g

(* The layouts x and y are the same for the values P.                      *)
Agree(x, y, P) == \A p \in P : x[p] \in LaidOver(Value[Nesting]) /\ y[p] = x[p]

LEMMA CompoundSame ==
  ASSUME NEW x, NEW y, NEW P, NEW v, v.parts \in Seq(P), v.kind \in {"ARRAY", "OBJECT"},
         Agree(x, y, P)
  PROVE  LayoutBy(x, v) = LayoutBy(y, v)
<1>1. v.parts \in Seq(P) /\ v.kind \in {"ARRAY", "OBJECT"} OBVIOUS
<1>2. \A n \in 1..Len(v.parts) : x[v.parts[n]] \in LaidOver(Value[Nesting]) /\ y[v.parts[n]] = x[v.parts[n]]
  BY <1>1, ElementOfSeq DEF Agree
<1>3. Laid(x, v.parts)[Len(v.parts)] = Laid(y, v.parts)[Len(v.parts)]
  BY <1>1, <1>2, LaidSame
<1> DEFINE full(l) == LET size == IF v.parts = <<>> THEN 2 ELSE l.size
                      IN  [tokens |-> <<Token(v, 0, size)>> \o l.tokens, size |-> size]
<1>4. LayoutBy(x, v) = full(Laid(x, v.parts)[Len(v.parts)]) BY <1>1 DEF LayoutBy
<1>5. LayoutBy(y, v) = full(Laid(y, v.parts)[Len(v.parts)]) BY <1>1 DEF LayoutBy
<1> HIDE DEF full
<1> QED BY <1>3, <1>4, <1>5

(* However deep a value is taken to be nested, its layout is the same.     *)
LEMMA LayoutDeeper ==
  \A d \in 1..Nesting : \A v \in Value[d-1] : Layout[d][v] = Layout[d-1][v]
<1> Nesting \in Nat BY TokensAssumption
<1> DEFINE Same(d) == \A v \in Value[d] : Layout[d+1][v] = Layout[d][v]
           T == {d \in Nat : d + 1 <= Nesting => Same(d)}
<1>1. ASSUME NEW d \in 0..Nesting, NEW v \in Value[d]
      PROVE  Layout[d][v] = LayoutBy(Layout[d-1], v)
  BY LayoutDefined
<1>2. ASSUME NEW d \in Nat, d + 1 <= Nesting, NEW v \in Value[d]
      PROVE  Layout[d+1][v] = LayoutBy(Layout[d], v) /\ Layout[d][v] = LayoutBy(Layout[d-1], v)
  <2>1. d \in 0..Nesting /\ d + 1 \in 0..Nesting /\ (d + 1) - 1 = d /\ d + 1 \in 1..Nesting
    BY <1>2
  <2>2. v \in Value[d+1] BY <2>1, ValueDeeper
  <2> QED BY <1>1, <2>1, <2>2
<1>3. 0 \in T
  <2> SUFFICES ASSUME 0 + 1 <= Nesting, NEW v \in Value[0] PROVE Layout[0+1][v] = Layout[0][v]
    OBVIOUS
  <2>1. 0 \in 0..Nesting OBVIOUS
  <2>2. v \in Scalars BY <2>1, ValueDefined
  <2> QED BY <1>2, <2>2, ScalarLayout
<1>4. ASSUME NEW d \in Nat, d \in T PROVE d + 1 \in T
  <2> SUFFICES ASSUME (d + 1) + 1 <= Nesting, NEW v \in Value[d+1]
               PROVE  Layout[(d+1)+1][v] = Layout[d+1][v]
    OBVIOUS
  <2>1. d + 1 \in 0..Nesting /\ d + 1 # 0 /\ (d + 1) - 1 = d /\ d \in 0..Nesting OBVIOUS
  <2>2. v \in ValuesOver(Value[d]) BY <2>1, ValueDefined
  <2>3. Layout[(d+1)+1][v] = LayoutBy(Layout[d+1], v) /\ Layout[d+1][v] = LayoutBy(Layout[d], v)
    BY <1>2, <2>1
  <2>4. CASE v \in Scalars BY <2>3, <2>4, ScalarLayout
  <2>5. CASE v \in Arrays(Value[d]) \cup Objects(Value[d])
    <3>1. \A p \in Value[d] : Layout[d+1][p] = Layout[d][p] BY <1>4
    <3>2. \A p \in Value[d] : Layout[d][p] \in LaidOver(Value[Nesting])
      BY <2>1, LayoutWell DEF WellLaid
    <3>3. LayoutBy(Layout[d], v) = LayoutBy(Layout[d+1], v)
      <4>1. v.parts \in Seq(Value[d]) /\ v.kind \in {"ARRAY", "OBJECT"}
        BY <2>5 DEF Arrays, Objects
      <4>2. Agree(Layout[d], Layout[d+1], Value[d]) BY <3>1, <3>2 DEF Agree
      <4> QED BY <4>1, <4>2, CompoundSame
    <3> QED BY <2>3, <3>3
  <2> QED BY <2>2, <2>4, <2>5 DEF ValuesOver
<1> HIDE DEF T
<1>5. Nat \subseteq T BY <1>3, <1>4, SetInduction
<1>6. ASSUME NEW d \in 1..Nesting PROVE \A v \in Value[d-1] : Layout[d][v] = Layout[d-1][v]
  <2>1. d - 1 \in T /\ (d - 1) + 1 = d BY <1>5
  <2> QED BY <2>1 DEF T
<1> QED BY <1>6

Document == Value[Nesting]

(* A value is a text or has values for its parts, and its layout is that   *)
(* of these parts.                                                         *)
LEMMA DocumentParts ==
  \A v \in Document :
    /\ WellLaid(Layout[Nesting][v], v, Document)
    /\ v.kind \in Kinds
    /\ v.kind \in {"STRING", "PRIMITIVE"} => v \in Scalars
    /\ v.kind \in {"ARRAY", "OBJECT"} =>
         /\ v \in Arrays(Document) \cup Objects(Document)
         /\ v.parts \in Seq(Document)
         /\ Layout[Nesting][v] = LayoutBy(Layout[Nesting], v)
<1> Nesting \in Nat BY TokensAssumption
<1> SUFFICES ASSUME NEW v \in Document
             PROVE  /\ WellLaid(Layout[Nesting][v], v, Document)
                    /\ v.kind \in Kinds
                    /\ v.kind \in {"STRING", "PRIMITIVE"} => v \in Scalars
                    /\ v.kind \in {"ARRAY", "OBJECT"} =>
                         /\ v \in Arrays(Document) \cup Objects(Document)
                         /\ v.parts \in Seq(Document)
                         /\ Layout[Nesting][v] = LayoutBy(Layout[Nesting], v)
  OBVIOUS
<1>1. Nesting \in 0..Nesting OBVIOUS
<1>2. WellLaid(Layout[Nesting][v], v, Document) BY <1>1, LayoutWell DEF Document
<1>3. CASE v \in Scalars
  <2>1. v.kind \in {"STRING", "PRIMITIVE"} BY <1>3 DEF Scalars
  <2> QED BY <1>2, <1>3, <2>1 DEF Kinds
<1>4. CASE v \notin Scalars
  <2>0. Nesting # 0 BY <1>1, <1>4, ValueDefined DEF Document
  <2>1. v \in ValuesOver(Value[Nesting-1]) BY <1>1, <2>0, ValueDefined DEF Document
  <2>2. v \in Arrays(Value[Nesting-1]) \cup Objects(Value[Nesting-1])
    BY <1>4, <2>1 DEF ValuesOver
  <2>3. Nesting - 1 \in 0..Nesting /\ Nesting \in 1..Nesting BY <2>0
  <2>4. Value[Nesting-1] \subseteq Document BY <2>3, ValueDeeper DEF Document
  <2>5. v.kind \in {"ARRAY", "OBJECT"} /\ v.parts \in Seq(Value[Nesting-1])
    BY <2>2 DEF Arrays, Objects
  <2>6. Seq(Value[Nesting-1]) \subseteq Seq(Document) BY <2>4, SeqMonotonic
  <2>7. v \in Arrays(Document) \cup Objects(Document) BY <2>2, <2>6 DEF Arrays, Objects
  <2>8. Layout[Nesting][v] = LayoutBy(Layout[Nesting-1], v)
    BY <1>1, LayoutDefined DEF Document
  <2>9. \A p \in Value[Nesting-1] : Layout[Nesting][p] = Layout[Nesting-1][p]
    BY <2>3, LayoutDeeper
  <2>10. \A p \in Value[Nesting-1] : Layout[Nesting-1][p] \in LaidOver(Value[Nesting])
    BY <2>3, LayoutWell DEF WellLaid
  <2>11. LayoutBy(Layout[Nesting-1], v) = LayoutBy(Layout[Nesting], v)
    <3>1. Agree(Layout[Nesting-1], Layout[Nesting], Value[Nesting-1]) BY <2>9, <2>10 DEF Agree
    <3> QED BY <2>5, <3>1, CompoundSame
  <2> QED BY <1>2, <2>5, <2>6, <2>7, <2>8, <2>11 DEF Kinds
<1> QED BY <1>3, <1>4

(* The tokens c begin with those of b, and the others begin behind it.     *)
Extends(c, b) ==
  /\ b.size <= c.size
  /\ Len(b.tokens) <= Len(c.tokens)
  /\ \A k \in 1..Len(b.tokens) : c.tokens[k] = b.tokens[k]
  /\ \A k \in Len(b.tokens)+1..Len(c.tokens) : c.tokens[k].start >= b.size

LEMMA ExtendsMore ==
  ASSUME NEW V, NEW a \in LaidOver(V), NEW b \in LaidOver(V), NEW c \in LaidOver(V),
         Extends(b, a), NEW l \in LaidOver(V),
         Follows(c.tokens, b.tokens, b.size, l.tokens, l.size), c.size = b.size + l.size + 1
  PROVE  Extends(c, a)
<1>1. /\ Len(a.tokens) \in Nat /\ Len(b.tokens) \in Nat /\ Len(c.tokens) \in Nat /\ Len(l.tokens) \in Nat
      /\ a.size \in Nat /\ b.size \in Nat /\ c.size \in Nat /\ l.size \in Nat
      /\ c.tokens \in Seq(TokenOver(V))
  BY DEF LaidOver
<1>2. /\ a.size <= b.size /\ Len(a.tokens) <= Len(b.tokens)
      /\ Len(c.tokens) = Len(b.tokens) + Len(l.tokens)
      /\ c.size = b.size + l.size + 1
  BY DEF Extends, Follows
<1>3. a.size <= c.size /\ Len(a.tokens) <= Len(c.tokens)
  <2>1. ASSUME NEW i \in Nat, NEW j \in Nat, NEW k \in Nat, NEW n \in Nat,
               i <= j, k = j + n \/ k = j + n + 1
        PROVE  i <= k
    BY <2>1
  <2>2. a.size <= c.size BY <1>1, <1>2, <2>1
  <2>3. Len(a.tokens) <= Len(c.tokens) BY <1>1, <1>2, <2>1
  <2> QED BY <2>2, <2>3
<1>4. ASSUME NEW k \in 1..Len(a.tokens) PROVE c.tokens[k] = a.tokens[k]
  <2>1. k \in 1..Len(b.tokens) BY <1>1, <1>2
  <2>2. c.tokens[k] = b.tokens[k] BY <2>1 DEF Follows
  <2>3. b.tokens[k] = a.tokens[k] BY DEF Extends
  <2> QED BY <2>2, <2>3
<1>5. ASSUME NEW k \in Len(a.tokens)+1..Len(c.tokens) PROVE c.tokens[k].start >= a.size
  <2>1. CASE k <= Len(b.tokens)
    <3>1. k \in 1..Len(b.tokens) /\ k \in Len(a.tokens)+1..Len(b.tokens) BY <1>1, <2>1
    <3>2. c.tokens[k] = b.tokens[k] BY <3>1 DEF Follows
    <3>3. b.tokens[k].start >= a.size BY <3>1 DEF Extends
    <3> QED BY <3>2, <3>3
  <2>2. CASE ~(k <= Len(b.tokens))
    <3>1. k \in Len(b.tokens)+1..Len(c.tokens) /\ k \in 1..Len(c.tokens) BY <1>1, <2>2
    <3>2. c.tokens[k].start >= b.size BY <3>1 DEF Follows
    <3>3. c.tokens[k] \in TokenOver(V) BY <1>1, <3>1, ElementOfSeq
    <3>4. c.tokens[k].start \in Nat BY <3>3 DEF TokenOver
    <3>5. ASSUME NEW i \in Nat, NEW j \in Nat, NEW x \in Nat, i <= j, x >= j PROVE x >= i
      BY <3>5
    <3>6. a.size \in Nat /\ b.size \in Nat /\ a.size <= b.size BY <1>1, <1>2
    <3> QED BY <3>2, <3>4, <3>5, <3>6
  <2> QED BY <2>1, <2>2
<1> QED BY <1>3, <1>4, <1>5 DEF Extends

(* What is laid out stays when more parts follow.                          *)
LEMMA LaidExtends ==
  ASSUME NEW V, NEW layout, NEW P, NEW parts \in Seq(P), NEW laid,
         PartsLaid(laid, layout, parts, V),
         \A n \in 1..Len(parts) : layout[parts[n]] \in LaidOver(V)
  PROVE  \A n \in 0..Len(parts) : \A m \in n..Len(parts) : Extends(laid[m], laid[n])
<1> DEFINE l == Len(parts)
<1>1. l \in Nat OBVIOUS
<1>2. \A n \in 0..l : laid[n] \in LaidOver(V) BY DEF PartsLaid
<1> SUFFICES ASSUME NEW n \in 0..l PROVE \A m \in n..l : Extends(laid[m], laid[n])
  OBVIOUS
<1> DEFINE T == {k \in Nat : n + k <= l => Extends(laid[n+k], laid[n])}
<1>3. 0 \in T
  <2>1. n + 0 = n BY <1>1
  <2>2. Len(laid[n].tokens) \in Nat /\ laid[n].size \in Nat BY <1>2 DEF LaidOver
  <2>3. Len(laid[n].tokens)+1..Len(laid[n].tokens) = {} BY <2>2
  <2>4. Extends(laid[n], laid[n]) BY <2>2, <2>3 DEF Extends
  <2> QED BY <2>1, <2>4
<1>4. ASSUME NEW k \in Nat, k \in T PROVE k + 1 \in T
  <2> SUFFICES ASSUME n + (k + 1) <= l PROVE Extends(laid[n+(k+1)], laid[n]) OBVIOUS
  <2> DEFINE j == n + (k + 1)
  <2>1. j \in 1..l /\ j \in 0..l /\ j - 1 = n + k /\ j - 1 \in 0..l BY <1>1
  <2>2. Extends(laid[j-1], laid[n]) BY <1>1, <1>4, <2>1
  <2>3. /\ laid[j].size = laid[j-1].size + layout[parts[j]].size + 1
        /\ Follows(laid[j].tokens, laid[j-1].tokens, laid[j-1].size,
                   layout[parts[j]].tokens, layout[parts[j]].size)
    BY <2>1 DEF PartsLaid
  <2>4. laid[j] \in LaidOver(V) /\ laid[j-1] \in LaidOver(V) /\ laid[n] \in LaidOver(V)
    BY <1>2, <2>1
  <2>5. layout[parts[j]] \in LaidOver(V) BY <2>1
  <2> HIDE DEF j
  <2>6. Extends(laid[j], laid[n]) BY <2>2, <2>3, <2>4, <2>5, ExtendsMore
  <2> QED BY <2>6 DEF j
<1>5. Nat \subseteq T
  <2> HIDE DEF T
  <2> QED BY <1>3, <1>4, SetInduction
<1> SUFFICES ASSUME NEW m \in n..l PROVE Extends(laid[m], laid[n]) OBVIOUS
<1>6. m - n \in Nat /\ n + (m - n) = m BY <1>1
<1>7. m - n \in T
  <2> HIDE DEF T
  <2> QED BY <1>5, <1>6
<1> QED BY <1>1, <1>6, <1>7

-----------------------------------------------------------------------------
(* The tokens of the value v, moved by so many characters, are behind      *)
(* token b of toks, and what comes after them begins behind its end.       *)
Moved(toks, b, t, by) ==
  \A k \in 1..Len(t) : /\ toks[b+k].value = t[k].value
                       /\ toks[b+k].kind = t[k].kind
                       /\ toks[b+k].start = t[k].start + by
                       /\ toks[b+k].end = t[k].end + by

Stands(toks, b, v) ==
  /\ v \in Document
  /\ toks \in Seq(TokenOver(Document))
  /\ b \in Nat
  /\ b + Len(TokensOf(v)) <= Len(toks)
  /\ \E by \in Nat : Moved(toks, b, TokensOf(v), by)
  /\ \A k \in b+Len(TokensOf(v))+1..Len(toks) : toks[k].start > toks[b+1].end

(* The tokens of a document are those of its layout.                       *)
LEMMA TokensOfDocument ==
  ASSUME NEW v \in Document
  PROVE  /\ TokensOf(v) \in Seq(TokenOver(Document))
         /\ Len(TokensOf(v)) \in Nat /\ Len(TokensOf(v)) >= 1
         /\ TokensOf(v)[1].value = v /\ TokensOf(v)[1].kind = v.kind
<1>1. WellLaid(Layout[Nesting][v], v, Document) BY DocumentParts
<1> QED BY <1>1 DEF WellLaid, LaidOver, TokensOf

(* A parsed document stands at the first token.                            *)
LEMMA RootStands ==
  ASSUME NEW v \in Document
  PROVE  Stands(TokensOf(v), 0, v)
<1> DEFINE t == TokensOf(v)
<1>1. t \in Seq(TokenOver(Document)) /\ Len(t) \in Nat BY TokensOfDocument
<1> HIDE DEF t
<1>2. Moved(t, 0, t, 0)
  <2> SUFFICES ASSUME NEW k \in 1..Len(t)
               PROVE  0 + k = k /\ t[k].start = t[k].start + 0 /\ t[k].end = t[k].end + 0
    BY DEF Moved
  <2>1. t[k] \in TokenOver(Document) BY <1>1, ElementOfSeq
  <2>2. t[k].start \in Nat /\ t[k].end \in Nat BY <2>1 DEF TokenOver
  <2> QED BY <1>1, <2>2
<1>3. 0 + Len(t) <= Len(t) /\ 0 + Len(t) + 1..Len(t) = {} BY <1>1
<1> QED BY <1>1, <1>2, <1>3 DEF Stands, t

(* The token at which a value stands is that of the value.                 *)
LEMMA StandsHere ==
  ASSUME NEW toks, NEW b, NEW v, Stands(toks, b, v)
  PROVE  /\ b + 1 \in 1..Len(toks) /\ b + 1 \in DOMAIN toks
         /\ toks[b+1].value = v /\ toks[b+1].kind = v.kind
<1>1. v \in Document /\ b \in Nat /\ Len(toks) \in Nat /\ b + Len(TokensOf(v)) <= Len(toks)
      /\ DOMAIN toks = 1..Len(toks)
  BY DEF Stands
<1>2. /\ Len(TokensOf(v)) \in Nat /\ Len(TokensOf(v)) >= 1
      /\ TokensOf(v)[1].value = v /\ TokensOf(v)[1].kind = v.kind
  BY <1>1, TokensOfDocument
<1>3. b + 1 \in 1..Len(toks) /\ 1 \in 1..Len(TokensOf(v)) BY <1>1, <1>2
<1>4. PICK by \in Nat : Moved(toks, b, TokensOf(v), by) BY DEF Stands
<1> QED BY <1>1, <1>2, <1>3, <1>4 DEF Moved

(* A value lies within its own token: what is inside it begins behind its  *)
(* beginning and not behind its end.                                       *)
LEMMA StandsInside ==
  ASSUME NEW toks, NEW b, NEW v, Stands(toks, b, v)
  PROVE  /\ toks[b+1].start \in Nat /\ toks[b+1].end \in Nat
         /\ toks[b+1].start <= toks[b+1].end
         /\ \A k \in b+2..b+Len(TokensOf(v)) :
              /\ toks[b+1].start < toks[k].start
              /\ toks[k].start <= toks[b+1].end
<1> DEFINE t == TokensOf(v)
<1>1. v \in Document /\ b \in Nat BY DEF Stands
<1>2. t \in Seq(TokenOver(Document)) /\ Len(t) \in Nat /\ Len(t) >= 1 BY <1>1, TokensOfDocument
<1>3. /\ t[1].start <= t[1].end
      /\ \A k \in 2..Len(t) : t[1].start < t[k].start /\ t[k].start <= t[1].end
  <2>1. WellLaid(Layout[Nesting][v], v, Document) BY <1>1, DocumentParts
  <2> QED BY <2>1 DEF WellLaid, TokensOf
<1>4. PICK by \in Nat : Moved(toks, b, t, by) BY DEF Stands
<1> HIDE DEF t
<1>5. \A k \in 1..Len(t) : t[k].start \in Nat /\ t[k].end \in Nat
  <2> SUFFICES ASSUME NEW k \in 1..Len(t) PROVE t[k].start \in Nat /\ t[k].end \in Nat OBVIOUS
  <2>1. t[k] \in TokenOver(Document) BY <1>2, ElementOfSeq
  <2> QED BY <2>1 DEF TokenOver
<1>6. 1 \in 1..Len(t) BY <1>2
<1>7. toks[b+1].start = t[1].start + by /\ toks[b+1].end = t[1].end + by
  BY <1>4, <1>6 DEF Moved
<1>8. ASSUME NEW k \in b+2..b+Len(t)
      PROVE  toks[b+1].start < toks[k].start /\ toks[k].start <= toks[b+1].end
  <2>1. k - b \in 2..Len(t) /\ k - b \in 1..Len(t) /\ b + (k - b) = k BY <1>1, <1>2
  <2>2. toks[k].start = t[k - b].start + by BY <1>4, <2>1 DEF Moved
  <2>3. t[1].start < t[k - b].start /\ t[k - b].start <= t[1].end BY <1>3, <2>1
  <2>4. t[k - b].start \in Nat /\ t[1].start \in Nat /\ t[1].end \in Nat BY <1>5, <1>6, <2>1
  <2>5. ASSUME NEW x \in Nat, NEW y \in Nat, NEW z \in Nat, x < y, y <= z
        PROVE  x + by < y + by /\ y + by <= z + by
    BY <2>5
  <2>6. /\ t[1].start + by < t[k - b].start + by
        /\ t[k - b].start + by <= t[1].end + by
    BY <2>3, <2>4, <2>5
  <2> QED BY <1>7, <2>2, <2>6
<1>9. t[1].start \in Nat /\ t[1].end \in Nat BY <1>5, <1>6
<1>10. toks[b+1].start \in Nat /\ toks[b+1].end \in Nat /\ toks[b+1].start <= toks[b+1].end
  BY <1>3, <1>7, <1>9
<1> QED BY <1>8, <1>10 DEF t

-----------------------------------------------------------------------------
LaidParts(v) == Laid(Layout[Nesting], v.parts)

(* The place of part n of a value behind token b.                          *)
PartAt(b, v, n) == b + 2 + Len(LaidParts(v)[n-1].tokens)

Compound(v) == v \in Document /\ v.kind \in {"ARRAY", "OBJECT"}

CompoundLaid(v, laid, m) ==
  /\ m \in Nat
  /\ v.parts \in Seq(Document)
  /\ PartsLaid(laid, Layout[Nesting], v.parts, Document)
  /\ \A n \in 0..m : \A k \in n..m : Extends(laid[k], laid[n])
  /\ Len(TokensOf(v)) = 1 + Len(laid[m].tokens)
  /\ TokensOf(v)[1].start = 0
  /\ TokensOf(v)[1].end >= laid[m].size
  /\ \A k \in 1..Len(laid[m].tokens) : TokensOf(v)[1 + k] = laid[m].tokens[k]

(* What is laid out for a part is a layout.                                *)
LEMMA LayoutInDocument == \A v \in Document : Layout[Nesting][v] \in LaidOver(Document)
BY DocumentParts DEF WellLaid

(* The tokens of an array or object: its own, then those of its parts.     *)
LEMMA CompoundIsLaid ==
  ASSUME NEW v, Compound(v)
  PROVE  CompoundLaid(v, LaidParts(v), Len(v.parts))
<1> DEFINE laid == LaidParts(v)
           m == Len(v.parts)
           size == IF v.parts = <<>> THEN 2 ELSE laid[m].size
           t == Token(v, 0, size)
           l == Layout[Nesting][v]
<1>1. /\ v \in Document /\ v.kind \in {"ARRAY", "OBJECT"} /\ v.parts \in Seq(Document)
      /\ l = LayoutBy(Layout[Nesting], v)
  BY DocumentParts DEF Compound
<1>2. m \in Nat BY <1>1
<1>3. PartsLaid(laid, Layout[Nesting], v.parts, Document)
  <2>1. \A n \in 1..m : WellLaid(Layout[Nesting][v.parts[n]], v.parts[n], Document)
    BY <1>1, ElementOfSeq, DocumentParts
  <2> QED BY <1>1, <2>1, LaidTokens DEF LaidParts
<1>4. \A n \in 0..m : \A k \in n..m : Extends(laid[k], laid[n])
  <2>1. \A n \in 1..m : Layout[Nesting][v.parts[n]] \in LaidOver(Document)
    BY <1>1, ElementOfSeq, LayoutInDocument
  <2> QED BY <1>1, <1>3, <2>1, LaidExtends
<1>5. l = [tokens |-> <<t>> \o laid[m].tokens, size |-> size]
  BY <1>1 DEF LayoutBy, LaidParts
<1> HIDE DEF laid, m, l
<1>6. laid[m].tokens \in Seq(TokenOver(Document)) /\ laid[m].size \in Nat /\ laid[m].size >= 1
  <2>1. m \in 0..m BY <1>2
  <2> QED BY <1>3, <2>1 DEF PartsLaid, LaidOver, m
<1>7. size \in Nat /\ size >= laid[m].size
  <2>1. CASE v.parts = <<>>
    <3>1. m = 0 BY <2>1 DEF m
    <3>2. laid[m].size = 1 BY <1>3, <3>1 DEF PartsLaid
    <3> QED BY <2>1, <3>2
  <2>2. CASE v.parts # <<>> BY <1>6, <2>2
  <2> QED BY <2>1, <2>2
<1> HIDE DEF size
<1>8. t \in TokenOver(Document) /\ t.start = 0 /\ t.end = size
  BY <1>1, <1>7 DEF Token, TokenOver, Kinds
<1> HIDE DEF t
<1>9. TokensOf(v) = <<t>> \o laid[m].tokens BY <1>5 DEF TokensOf, l
<1>10. Len(laid[m].tokens) \in Nat BY <1>6
<1>11. <<t>> \in Seq(TokenOver(Document)) /\ Len(<<t>>) = 1 /\ <<t>>[1] = t BY <1>8
<1>12. /\ Len(<<t>> \o laid[m].tokens) = Len(<<t>>) + Len(laid[m].tokens)
       /\ \A i \in 1 .. Len(<<t>>) + Len(laid[m].tokens) :
            (<<t>> \o laid[m].tokens)[i] =
              IF i <= Len(<<t>>) THEN <<t>>[i] ELSE laid[m].tokens[i - Len(<<t>>)]
  BY <1>6, <1>11, ConcatProperties
<1>13. 1 \in 1..1 + Len(laid[m].tokens) BY <1>10
<1>14. ASSUME NEW k \in 1..Len(laid[m].tokens)
       PROVE  (<<t>> \o laid[m].tokens)[1 + k] = laid[m].tokens[k]
  <2>1. 1 + k \in 1..1 + Len(laid[m].tokens) /\ ~(1 + k <= 1) /\ (1 + k) - 1 = k BY <1>10
  <2> QED BY <1>11, <1>12, <2>1
<1>15. /\ Len(TokensOf(v)) = 1 + Len(laid[m].tokens)
       /\ TokensOf(v)[1] = t
       /\ \A k \in 1..Len(laid[m].tokens) : TokensOf(v)[1 + k] = laid[m].tokens[k]
  BY <1>9, <1>11, <1>12, <1>13, <1>14
<1> QED BY <1>1, <1>2, <1>3, <1>4, <1>7, <1>8, <1>15 DEF CompoundLaid, laid, m

(* Part n of a value stands where the value does.                          *)
LEMMA PartStands ==
  ASSUME NEW toks, NEW b, NEW v, Stands(toks, b, v), Compound(v), NEW n \in 1..Len(v.parts)
  PROVE  /\ Stands(toks, PartAt(b, v, n) - 1, v.parts[n])
         /\ PartAt(b, v, n + 1) = PartAt(b, v, n) + Len(TokensOf(v.parts[n]))
         /\ PartAt(b, v, n) \in Nat /\ PartAt(b, v, n) >= b + 2
<1> DEFINE laid == LaidParts(v)
           m == Len(v.parts)
           p == v.parts[n]
           t == TokensOf(p)
           a == laid[n-1]
           c == laid[n]
           z == laid[m]
<1>1. CompoundLaid(v, laid, m) BY CompoundIsLaid
<1>2. m \in Nat /\ n \in 0..m /\ n - 1 \in 0..m /\ m \in 0..m /\ m \in n..m /\ p \in Document
  <2>1. m \in Nat /\ v.parts \in Seq(Document) BY <1>1 DEF CompoundLaid
  <2>2. p \in Document BY <2>1, ElementOfSeq
  <2> QED BY <2>1, <2>2
<1>3. a \in LaidOver(Document) /\ c \in LaidOver(Document) /\ z \in LaidOver(Document)
  BY <1>1, <1>2 DEF CompoundLaid, PartsLaid
<1>4. /\ c.size = a.size + Layout[Nesting][p].size + 1
      /\ Follows(c.tokens, a.tokens, a.size, t, Layout[Nesting][p].size)
  BY <1>1, <1>2 DEF CompoundLaid, PartsLaid, TokensOf
<1>5. Extends(z, c)
  <2>1. \A i \in 0..m : \A j \in i..m : Extends(laid[j], laid[i])
    BY <1>1, Zenon DEF CompoundLaid
  <2> QED BY <1>2, <2>1, Zenon
<1>6. /\ Len(TokensOf(v)) = 1 + Len(z.tokens)
      /\ TokensOf(v)[1].end >= z.size
      /\ \A k \in 1..Len(z.tokens) : TokensOf(v)[1 + k] = z.tokens[k]
  BY <1>1, Zenon DEF CompoundLaid
<1>7. /\ t \in Seq(TokenOver(Document)) /\ Len(t) \in Nat /\ Len(t) >= 1
  <2>1. p \in Document BY <1>2, Zenon
  <2> HIDE DEF p
  <2> QED BY <2>1, TokensOfDocument, Zenon
<1>8. t[1].end <= Layout[Nesting][p].size /\ Layout[Nesting][p].size \in Nat
  <2>1. WellLaid(Layout[Nesting][p], p, Document) BY <1>2, DocumentParts
  <2> QED BY <2>1 DEF WellLaid, LaidOver, TokensOf
<1>9. /\ toks \in Seq(TokenOver(Document)) /\ b \in Nat /\ Len(toks) \in Nat
      /\ b + Len(TokensOf(v)) <= Len(toks)
      /\ \A k \in b+Len(TokensOf(v))+1..Len(toks) : toks[k].start > toks[b+1].end
  BY DEF Stands
<1>10. PICK by \in Nat : Moved(toks, b, TokensOf(v), by) BY DEF Stands
<1>11. PartAt(b, v, n) = b + 2 + Len(a.tokens) BY DEF PartAt
<1>12. PartAt(b, v, n + 1) = b + 2 + Len(c.tokens)
  <2>1. (n + 1) - 1 = n BY <1>2
  <2> QED BY <2>1 DEF PartAt
<1> HIDE DEF laid, m, p, a, c, z, t
<1>13. /\ Len(a.tokens) \in Nat /\ a.size \in Nat
       /\ Len(c.tokens) \in Nat /\ c.size \in Nat
       /\ Len(z.tokens) \in Nat /\ z.size \in Nat
  BY <1>3 DEF LaidOver
<1>a. PICK la \in Nat : la = Len(a.tokens) BY <1>13
<1>b. PICK lc \in Nat : lc = Len(c.tokens) BY <1>13
<1>c. PICK lz \in Nat : lz = Len(z.tokens) BY <1>13
<1>d. PICK lt \in Nat : lt = Len(t) /\ lt >= 1 BY <1>7
<1>e. PICK N \in Nat : N = Len(toks) BY <1>9
<1>f. PICK d \in Nat : d = PartAt(b, v, n) - 1 /\ d = b + 1 + la
  <2>1. PartAt(b, v, n) = b + 2 + la BY <1>11, <1>a
  <2>2. b + 1 + la \in Nat /\ b + 1 + la = (b + 2 + la) - 1 BY <1>9
  <2> QED BY <2>1, <2>2
<1>14. lc = la + lt /\ lc <= lz
  BY <1>4, <1>5, <1>a, <1>b, <1>c, <1>d DEF Follows, Extends
<1>16. c.size <= z.size BY <1>5 DEF Extends
<1>g. Len(TokensOf(v)) = 1 + lz /\ b + 1 + lz <= N
  <2>1. Len(TokensOf(v)) = 1 + lz BY <1>6, <1>c
  <2>2. b + (1 + lz) <= N BY <1>9, <1>e, <2>1
  <2> QED BY <1>9, <2>1, <2>2
<1>15. ASSUME NEW k \in 1..lz
       PROVE  /\ toks[b + 1 + k].value = z.tokens[k].value
              /\ toks[b + 1 + k].kind = z.tokens[k].kind
              /\ toks[b + 1 + k].start = z.tokens[k].start + by
              /\ toks[b + 1 + k].end = z.tokens[k].end + by
  <2>0. 1 + k \in 1..1 + lz /\ b + (1 + k) = b + 1 + k BY <1>9
  <2>1. 1 + k \in 1..Len(TokensOf(v)) BY <1>g, <2>0
  <2>2. TokensOf(v)[1 + k] = z.tokens[k] BY <1>6, <1>c
  <2> QED BY <1>10, <2>0, <2>1, <2>2 DEF Moved
<1>17. Moved(toks, d, t, by + a.size)
  <2> SUFFICES ASSUME NEW k \in 1..lt
               PROVE  /\ toks[d+k].value = t[k].value
                      /\ toks[d+k].kind = t[k].kind
                      /\ toks[d+k].start = t[k].start + (by + a.size)
                      /\ toks[d+k].end = t[k].end + (by + a.size)
    BY <1>d DEF Moved
  <2>1. la + k \in 1..lz /\ la + k \in 1..lc /\ b + 1 + (la + k) = d + k
    <3>1. k \in Nat /\ k >= 1 /\ k <= lt OBVIOUS
    <3>2. la + k \in 1..lz /\ la + k \in 1..lc BY <1>14, <3>1
    <3>3. d = b + 1 + la /\ b \in Nat BY <1>9, <1>f
    <3>4. b + 1 + (la + k) = d + k BY <3>1, <3>3
    <3> QED BY <3>2, <3>4
  <2>2. z.tokens[la + k] = c.tokens[la + k] BY <1>5, <1>b, <2>1 DEF Extends
  <2>3. c.tokens[la + k] = Shifted(t, a.size)[k] BY <1>4, <1>a, <1>d DEF Follows
  <2>4. /\ Shifted(t, a.size)[k].value = t[k].value
        /\ Shifted(t, a.size)[k].kind = t[k].kind
        /\ Shifted(t, a.size)[k].start = t[k].start + a.size
        /\ Shifted(t, a.size)[k].end = t[k].end + a.size
    BY <1>7, <1>13, <1>d, ShiftedTokens
  <2>5. /\ toks[d+k].value = t[k].value
        /\ toks[d+k].kind = t[k].kind
        /\ toks[d+k].start = (t[k].start + a.size) + by
        /\ toks[d+k].end = (t[k].end + a.size) + by
    <3>1. /\ toks[d+k].value = z.tokens[la + k].value
          /\ toks[d+k].kind = z.tokens[la + k].kind
          /\ toks[d+k].start = z.tokens[la + k].start + by
          /\ toks[d+k].end = z.tokens[la + k].end + by
      BY <1>15, <2>1
    <3> QED BY <2>2, <2>3, <2>4, <3>1
  <2>6. t[k].start \in Nat /\ t[k].end \in Nat
    <3>1. t[k] \in TokenOver(Document) BY <1>7, <1>d, ElementOfSeq
    <3> QED BY <3>1 DEF TokenOver
  <2>7. ASSUME NEW x \in Nat, NEW y \in Nat PROVE (x + y) + by = x + (by + y)
    OBVIOUS
  <2>8. /\ (t[k].start + a.size) + by = t[k].start + (by + a.size)
        /\ (t[k].end + a.size) + by = t[k].end + (by + a.size)
    BY <1>13, <2>6, <2>7, Zenon
  <2> QED BY <2>5, <2>8, Zenon
<1>18. by + a.size \in Nat BY <1>13
<1>19. d + lt <= N BY <1>9, <1>14, <1>f, <1>g
<1>20. toks[d+1].end \in Nat /\ toks[d+1].end < c.size + by
  <2>1. 1 \in 1..Len(t) BY <1>7
  <2>2. toks[d+1].end = t[1].end + (by + a.size) BY <1>17, <2>1 DEF Moved
  <2>3. t[1] \in TokenOver(Document) BY <1>7, <2>1, ElementOfSeq
  <2>4. t[1].end \in Nat BY <2>3 DEF TokenOver
  <2>5. ASSUME NEW i \in Nat, NEW j \in Nat, NEW k \in Nat, i <= j, NEW l, l = k + j + 1
        PROVE  i + (by + k) < l + by
    BY <2>5
  <2>6. t[1].end + (by + a.size) < c.size + by BY <1>4, <1>8, <1>13, <2>4, <2>5
  <2>7. t[1].end + (by + a.size) \in Nat
    <3>1. by \in Nat /\ a.size \in Nat BY <1>13
    <3>2. by + a.size \in Nat BY <3>1
    <3>3. \A x, y \in Nat : x + y \in Nat OBVIOUS
    <3> QED BY <2>4, <3>2, <3>3, Zenon
  <2> QED BY <2>2, <2>6, <2>7
<1>21. ASSUME NEW k \in d+lt+1..N PROVE toks[k].start > toks[d+1].end
  <2>0. toks[k] \in TokenOver(Document)
    <3>1. k \in 1..N OBVIOUS
    <3> QED BY <1>9, <1>e, <3>1, ElementOfSeq
  <2>1. toks[k].start \in Nat BY <2>0 DEF TokenOver
  <2>2. CASE k <= b + 1 + lz
    <3>1. k - (b + 1) \in lc+1..lz /\ k - (b + 1) \in 1..lz /\ b + 1 + (k - (b + 1)) = k
      BY <1>9, <1>14, <1>f, <2>2
    <3>2. toks[k].start = z.tokens[k - (b + 1)].start + by BY <1>15, <3>1
    <3>3. z.tokens[k - (b + 1)].start >= c.size BY <1>5, <1>b, <1>c, <3>1 DEF Extends
    <3>4. z.tokens[k - (b + 1)] \in TokenOver(Document)
      <4>1. z.tokens \in Seq(TokenOver(Document)) BY <1>3 DEF LaidOver
      <4> QED BY <1>c, <3>1, <4>1, ElementOfSeq
    <3>5. z.tokens[k - (b + 1)].start \in Nat BY <3>4 DEF TokenOver
    <3>6. toks[k].start >= c.size + by BY <1>13, <3>2, <3>3, <3>5
    <3>7. c.size + by \in Nat BY <1>13
    <3> DEFINE x == toks[d+1].end
               y == toks[k].start
               w == c.size + by
    <3>8. x \in Nat /\ y \in Nat /\ w \in Nat /\ x < w /\ w <= y BY <1>20, <2>1, <3>6, <3>7
    <3> HIDE DEF x, y, w
    <3>9. y > x BY <3>8
    <3> QED BY <3>9 DEF x, y
  <2>3. CASE ~(k <= b + 1 + lz)
    <3>1. k \in b+(1+lz)+1..N BY <1>9, <1>14, <1>f, <2>3
    <3>2. toks[k].start > toks[b+1].end BY <1>9, <1>e, <1>g, <3>1
    <3>3. toks[b+1].end = TokensOf(v)[1].end + by
      <4>1. 1 \in 1..Len(TokensOf(v)) BY <1>g
      <4> QED BY <1>10, <4>1 DEF Moved
    <3>4. TokensOf(v)[1].end \in Nat
      <4>0. v \in Document BY DEF Compound
      <4>1. TokensOf(v) \in Seq(TokenOver(Document)) BY <4>0, TokensOfDocument
      <4>2. 1 \in 1..Len(TokensOf(v)) BY <1>g
      <4>3. TokensOf(v)[1] \in TokenOver(Document) BY <4>1, <4>2, ElementOfSeq
      <4> QED BY <4>3 DEF TokenOver
    <3>5. TokensOf(v)[1].end >= c.size BY <1>6, <1>13, <1>16, <3>4
    <3>a. ASSUME NEW x \in Nat, NEW y \in Nat, x >= y PROVE x + by >= y + by /\ x + by \in Nat
      BY <1>13, <3>a
    <3>c. c.size \in Nat BY <1>13
    <3>6. toks[b+1].end >= c.size + by /\ toks[b+1].end \in Nat
      BY <3>3, <3>4, <3>5, <3>a, <3>c
    <3>7. ASSUME NEW x \in Nat, NEW y \in Nat, NEW w \in Nat, NEW u \in Nat, x < u, y >= u, w > y
          PROVE  w > x
      BY <3>7
    <3>8. c.size + by \in Nat BY <1>13
    <3> QED BY <1>20, <2>1, <3>2, <3>6, <3>7, <3>8
  <2> QED BY <2>2, <2>3
<1>22. Stands(toks, d, p)
  BY <1>2, <1>9, <1>17, <1>18, <1>19, <1>21, <1>d, <1>e DEF Stands, t
<1>23. PartAt(b, v, n + 1) = PartAt(b, v, n) + lt
  <2>1. PartAt(b, v, n) = b + 2 + la /\ PartAt(b, v, n + 1) = b + 2 + lc
    BY <1>11, <1>12, <1>a, <1>b
  <2>2. b + 2 + lc = (b + 2 + la) + lt BY <1>9, <1>14
  <2> QED BY <2>1, <2>2
<1>24. PartAt(b, v, n) \in Nat /\ PartAt(b, v, n) >= b + 2
  <2>1. b + 2 + la \in Nat /\ b + 2 + la >= b + 2 BY <1>9
  <2> QED BY <1>11, <1>a, <2>1
<1> QED BY <1>22, <1>23, <1>24, <1>d, <1>f DEF p, t

(* Its first part comes next and what follows the last one follows it.     *)
LEMMA PartsBetween ==
  ASSUME NEW toks, NEW b, NEW v, Stands(toks, b, v), Compound(v)
  PROVE  /\ PartAt(b, v, 1) = b + 2
         /\ PartAt(b, v, Len(v.parts) + 1) = b + 1 + Len(TokensOf(v))
         /\ Len(v.parts) \in Nat /\ v.parts \in Seq(Document)
<1> DEFINE m == Len(v.parts)
<1>1. CompoundLaid(v, LaidParts(v), m) BY CompoundIsLaid
<1>2. m \in Nat /\ b \in Nat /\ v.parts \in Seq(Document) BY <1>1 DEF CompoundLaid, Stands
<1>3. LaidParts(v)[0].tokens = <<>> BY <1>1 DEF CompoundLaid, PartsLaid
<1>4. Len(<<>>) = 0 /\ 1 - 1 = 0 /\ (m + 1) - 1 = m BY <1>2
<1>5. PartAt(b, v, 1) = b + 2
  <2>1. PartAt(b, v, 1) = b + 2 + Len(LaidParts(v)[0].tokens) BY <1>4 DEF PartAt
  <2> QED BY <1>2, <1>3, <1>4, <2>1
<1>6. Len(TokensOf(v)) = 1 + Len(LaidParts(v)[m].tokens) BY <1>1 DEF CompoundLaid
<1>7. LaidParts(v)[m] \in LaidOver(Document)
  <2>1. m \in 0..m BY <1>2
  <2> QED BY <1>1, <2>1 DEF CompoundLaid, PartsLaid
<1>8. Len(LaidParts(v)[m].tokens) \in Nat BY <1>7 DEF LaidOver
<1>9. PartAt(b, v, m + 1) = b + 1 + Len(TokensOf(v))
  <2>1. PartAt(b, v, m + 1) = b + 2 + Len(LaidParts(v)[m].tokens) BY <1>4 DEF PartAt
  <2>2. PICK k \in Nat : k = Len(LaidParts(v)[m].tokens) BY <1>8
  <2>3. b + 2 + k = b + 1 + (1 + k) BY <1>2
  <2> QED BY <1>6, <2>1, <2>2, <2>3
<1> QED BY <1>2, <1>5, <1>9

(* One step of the walk.                                                   *)
WalkStep(toks, a, ahead, before, i) ==
  IF i \notin Inside(toks, a) \/ toks[i].start <= before.prevEnd THEN before
  ELSE [found |-> Append(before.found, i), prevEnd |-> At(toks, i + ahead).end]

IsWalk(w, toks, a, ahead) ==
  /\ w[a].found = <<>> /\ w[a].prevEnd = toks[a].start
  /\ \A i \in a+1..Len(toks) : w[i] = WalkStep(toks, a, ahead, w[i-1], i)

(* The walk of json_parser.c is a function of the tokens it has passed.    *)
LEMMA WalkDefined ==
  ASSUME NEW toks, NEW a \in Nat, Len(toks) \in Nat, a <= Len(toks), NEW ahead
  PROVE  IsWalk(Walk(toks, a, ahead), toks, a, ahead)
<1> DEFINE N == Len(toks)
           start == [found |-> <<>>, prevEnd |-> toks[a].start]
           step(x, i) == WalkStep(toks, a, ahead, x, i)
           Upto(k, f) == \A i \in a..a+k : f[i] = IF i = a THEN start ELSE step(f[i-1], i)
           T == {k \in Nat : \E f : Upto(k, f)}
           IsF(f) == f = [i \in a..N |-> IF i = a THEN start ELSE step(f[i-1], i)]
<1>0. Walk(toks, a, ahead) = CHOOSE f : IsF(f) BY DEF Walk, WalkStep
<1>a. start.found = <<>> /\ start.prevEnd = toks[a].start OBVIOUS
<1>b. N \in Nat OBVIOUS
<1> HIDE DEF start, step, N
<1>1. 0 \in T
  <2> DEFINE g == [i \in a..a+0 |-> start]
  <2>1. \A i \in a..a+0 : i = a /\ g[i] = start OBVIOUS
  <2>2. Upto(0, g) BY <2>1
  <2> HIDE DEF g, Upto
  <2> QED BY <2>2
<1>2. ASSUME NEW k \in Nat, k \in T PROVE k + 1 \in T
  <2>1. PICK f : Upto(k, f)
    <3> HIDE DEF Upto
    <3> QED BY <1>2
  <2> DEFINE g == [i \in a..a+(k+1) |-> IF i <= a + k THEN f[i] ELSE step(f[a+k], a + (k + 1))]
  <2>2. ASSUME NEW i \in a..a+(k+1)
        PROVE  g[i] = IF i = a THEN start ELSE step(g[i-1], i)
    <3>1. CASE i = a
      <4>1. g[i] = f[a] /\ a \in a..a+k BY <3>1
      <4>2. f[a] = start BY <2>1, <4>1
      <4> QED BY <3>1, <4>1, <4>2
    <3>2. CASE i # a /\ i <= a + k
      <4>1. g[i] = f[i] /\ g[i-1] = f[i-1] /\ i \in a..a+k BY <3>2
      <4>2. f[i] = step(f[i-1], i) BY <2>1, <3>2, <4>1
      <4> QED BY <3>2, <4>1, <4>2
    <3>3. CASE i = a + (k + 1)
      <4>1. g[i] = step(f[a+k], i) /\ g[i-1] = f[a+k] /\ i # a BY <3>3
      <4> QED BY <4>1
    <3> QED BY <3>1, <3>2, <3>3
  <2>3. Upto(k + 1, g) BY <2>2
  <2> HIDE DEF g, Upto
  <2> QED BY <2>3
<1>3. N - a \in T
  <2>1. N - a \in Nat BY <1>b DEF N
  <2> HIDE DEF T
  <2> QED BY <1>1, <1>2, <2>1, SetInduction
<1>4. PICK f : Upto(N - a, f)
  <2> HIDE DEF Upto
  <2> QED BY <1>3
<1> DEFINE h == [i \in a..N |-> f[i]]
<1>5. IsF(h)
  <2>1. ASSUME NEW i \in a..N PROVE h[i] = IF i = a THEN start ELSE step(h[i-1], i)
    <3>0. i \in a..a+(N-a) BY <1>b
    <3>1. CASE i = a BY <1>4, <3>0, <3>1
    <3>2. CASE i # a
      <4>1. h[i] = f[i] /\ h[i-1] = f[i-1] BY <1>b, <3>2
      <4> QED BY <1>4, <3>0, <3>2, <4>1
    <3> QED BY <3>1, <3>2
  <2> QED BY <2>1
<1> HIDE DEF h, IsF
<1>6. IsF(CHOOSE f_1 : IsF(f_1)) BY <1>5
<1> DEFINE w == Walk(toks, a, ahead)
<1>7. IsF(w) BY <1>0, <1>6
<1> HIDE DEF w
<1>8. w = [i \in a..N |-> IF i = a THEN start ELSE step(w[i-1], i)] BY <1>7 DEF IsF
<1>9. w[a] = start
  <2>1. a \in a..N BY <1>b DEF N
  <2> QED BY <1>8, <2>1
<1>10. ASSUME NEW i \in a+1..N PROVE w[i] = step(w[i-1], i)
  <2>1. i \in a..N /\ i # a BY <1>b
  <2> QED BY <1>8, <2>1
<1> QED BY <1>a, <1>9, <1>10 DEF IsWalk, w, N, step

-----------------------------------------------------------------------------
(* What there is to be found: m runs of tokens, from p[1] to p[2], from    *)
(* p[2] to p[3] and so on, each ending with the token "ahead" of its first.*)
EndOf(toks, a, ahead, p, n) ==
  IF n = 0 THEN toks[a].start ELSE At(toks, p[n] + ahead).end

Runs(toks, a, ahead, m, p) ==
  /\ m \in Nat /\ a \in Nat /\ Len(toks) \in Nat /\ a <= Len(toks)
  /\ p \in [1..m+1 -> Nat]
  /\ p[1] = a + 1 /\ p[m+1] <= Len(toks) + 1
  /\ \A n \in 1..m : /\ p[n] < p[n+1] /\ p[n+1] <= p[m+1]
                     /\ ~(toks[p[n]].start <= EndOf(toks, a, ahead, p, n - 1))
                     /\ \A i \in p[n]+1..p[n+1]-1 : toks[i].start <= EndOf(toks, a, ahead, p, n)
  /\ \A i \in a+1..Len(toks) : i \in Inside(toks, a) <=> i < p[m+1]

(* Then the walk finds the first of each.                                  *)
LEMMA WalkFinds ==
  ASSUME NEW toks, NEW a, NEW ahead, NEW m, NEW p, Runs(toks, a, ahead, m, p)
  PROVE  Walk(toks, a, ahead)[Len(toks)].found = [n \in 1..m |-> p[n]]
<1> DEFINE N == Len(toks)
           w == Walk(toks, a, ahead)
           Found(i, n) == /\ n = 0 => i = a \/ m = 0
                          /\ n > 0 => p[n] <= i
                          /\ n < m => i < p[n+1]
                          /\ w[i].found = [k \in 1..n |-> p[k]]
                          /\ w[i].prevEnd = EndOf(toks, a, ahead, p, n)
           T == {k \in Nat : a + k <= N => \E n \in 0..m : Found(a + k, n)}
<1>1. /\ m \in Nat /\ a \in Nat /\ N \in Nat /\ a <= N
      /\ p \in [1..m+1 -> Nat] /\ p[1] = a + 1
  BY DEF Runs
<1>2. IsWalk(w, toks, a, ahead) BY <1>1, WalkDefined
<1> HIDE DEF w, N
<1>3. \A n \in 1..m : p[n] \in Nat /\ p[n+1] \in Nat BY <1>1
<1>4. p[m+1] \in Nat BY <1>1
<1>5. 0 \in T
  <2>1. a + 0 = a /\ 0 \in 0..m BY <1>1
  <2>2. w[a].found = [k \in 1..0 |-> p[k]]
    <3>1. [k \in 1..0 |-> p[k]] = <<>> OBVIOUS
    <3> QED BY <1>2, <3>1 DEF IsWalk
  <2>3. w[a].prevEnd = EndOf(toks, a, ahead, p, 0) BY <1>2 DEF IsWalk, EndOf
  <2>4. 0 < m => a < p[0+1] BY <1>1
  <2>5. Found(a, 0) BY <2>2, <2>3, <2>4
  <2> HIDE DEF Found
  <2> QED BY <2>1, <2>5
<1>6. ASSUME NEW k \in Nat, k \in T PROVE k + 1 \in T
  <2> HIDE DEF Found
  <2> SUFFICES ASSUME a + (k + 1) <= N PROVE \E n \in 0..m : Found(a + (k + 1), n)
    OBVIOUS
  <2> USE DEF Found
  <2>1. PICK n \in 0..m : Found(a + k, n)
    <3>1. a + k <= N BY <1>1
    <3> HIDE DEF Found
    <3> QED BY <1>6, <3>1
  <2>2. PICK i \in Nat : i = a + (k + 1) /\ i - 1 = a + k /\ i \in a+1..N BY <1>1
  <2>3. w[i] = WalkStep(toks, a, ahead, w[i-1], i) BY <1>2, <2>2 DEF IsWalk, N
  <2>4. i \in Inside(toks, a) <=> i < p[m+1] BY <2>2 DEF Runs, N
  <2>5. CASE ~(i < p[m+1])
    <3>1. n = m
      <4>1. CASE n < m
        <5>1. i - 1 < p[n+1] BY <2>1, <2>2, <4>1
        <5>2. n + 1 \in 1..m BY <1>1, <4>1
        <5>3. p[n+1] < p[(n+1)+1] /\ p[(n+1)+1] <= p[m+1] BY <5>2 DEF Runs
        <5>4. p[n+1] \in Nat /\ p[(n+1)+1] \in Nat BY <1>3, <5>2
        <5> QED BY <1>4, <2>5, <5>1, <5>3, <5>4
      <4> QED BY <1>1, <4>1
    <3>2. w[i] = w[i-1] BY <2>3, <2>4, <2>5 DEF WalkStep
    <3>3. n > 0 => p[n] <= i
      <4> SUFFICES ASSUME n > 0 PROVE p[n] <= i OBVIOUS
      <4>1. n \in 1..m /\ p[n] <= i - 1 BY <1>1, <2>1, <2>2, <3>1
      <4> QED BY <1>3, <2>2, <4>1
    <3>4. w[i-1].found = [k_1 \in 1..n |-> p[k_1]] /\ w[i-1].prevEnd = EndOf(toks, a, ahead, p, n)
      BY <2>1, <2>2
    <3>5. Found(i, n) BY <1>1, <3>1, <3>2, <3>3, <3>4
    <3> HIDE DEF Found
    <3> QED BY <2>2, <3>5
  <2>6. CASE i < p[m+1] /\ n < m /\ i = p[n+1]
    <3>1. n \in Nat /\ n + 1 \in 1..m /\ (n + 1) - 1 = n BY <1>1, <2>6
    <3>2. ~(toks[i].start <= EndOf(toks, a, ahead, p, n))
      <4>1. ~(toks[p[n+1]].start <= EndOf(toks, a, ahead, p, (n + 1) - 1)) BY <3>1 DEF Runs
      <4> QED BY <2>6, <3>1, <4>1
    <3>3. w[i] = [found |-> Append(w[i-1].found, i), prevEnd |-> At(toks, i + ahead).end]
      <4>1. w[i-1].prevEnd = EndOf(toks, a, ahead, p, n) BY <2>1, <2>2
      <4> QED BY <2>3, <2>4, <2>6, <3>2, <4>1 DEF WalkStep
    <3>4. w[i].found = [k_1 \in 1..n+1 |-> p[k_1]]
      <4>1. w[i-1].found = [k_1 \in 1..n |-> p[k_1]] BY <2>1, <2>2
      <4>2. Append([k_1 \in 1..n |-> p[k_1]], p[n+1]) = [k_1 \in 1..n+1 |-> p[k_1]]
        <5>1. \A k_1 \in 1..m+1 : p[k_1] \in Nat BY <1>1
        <5>2. [k_1 \in 1..n |-> p[k_1]] \in Seq(Nat)
          <6>1. \A k_1 \in 1..n : k_1 \in 1..m+1
            <7>1. n <= m /\ n \in Nat BY <1>1
            <7> QED BY <1>1, <7>1
          <6> QED BY <3>1, <5>1, <6>1, IsASeq
        <5> QED BY <3>1, <5>1, <5>2
      <4> QED BY <2>6, <3>3, <4>1, <4>2
    <3>5. w[i].prevEnd = EndOf(toks, a, ahead, p, n + 1)
      BY <2>6, <3>1, <3>3 DEF EndOf
    <3>6. n + 1 < m => i < p[(n+1)+1]
      <4>1. p[n+1] < p[(n+1)+1] BY <3>1 DEF Runs
      <4> QED BY <2>6, <4>1
    <3>7. n + 1 # 0 /\ p[n+1] <= i BY <1>3, <2>6, <3>1
    <3>8. Found(i, n + 1) BY <3>1, <3>4, <3>5, <3>6, <3>7
    <3>9. n + 1 \in 0..m BY <3>1
    <3> HIDE DEF Found
    <3> QED BY <2>2, <3>8, <3>9
  <2>7. CASE i < p[m+1] /\ ~(n < m /\ i = p[n+1])
    <3>1. n \in Nat /\ n <= m BY <1>1
    <3>2. n # 0
      <4> SUFFICES ASSUME n = 0 PROVE FALSE OBVIOUS
      <4>1. p[0+1] = a + 1 BY <1>1
      <4>2. m # 0
        <5> SUFFICES ASSUME m = 0 PROVE FALSE OBVIOUS
        <5>1. p[m+1] = a + 1 BY <1>1
        <5> QED BY <1>1, <2>2, <2>7, <5>1
      <4>3. a + k = a BY <2>1, <4>2
      <4>4. i = a + 1 BY <1>1, <2>2, <4>3
      <4> QED BY <1>1, <2>7, <4>1, <4>2, <4>4
    <3>3. n \in 1..m BY <1>1, <3>1, <3>2
    <3>4. p[n] \in Nat /\ p[n+1] \in Nat BY <1>3, <3>3
    <3>5. i < p[n+1]
      <4>1. CASE n < m
        <5>1. i - 1 < p[n+1] /\ i # p[n+1] BY <2>1, <2>2, <2>7, <4>1
        <5> QED BY <3>4, <5>1, <2>2
      <4>2. CASE n = m BY <2>7, <4>2
      <4> QED BY <1>1, <3>1, <4>1, <4>2
    <3>6. p[n] <= i - 1 BY <2>1, <2>2, <3>2, <3>1
    <3>7. i \in p[n]+1..p[n+1]-1 BY <2>2, <3>4, <3>5, <3>6
    <3>8. toks[i].start <= EndOf(toks, a, ahead, p, n) BY <3>3, <3>7 DEF Runs
    <3>9. w[i] = w[i-1]
      <4>1. w[i-1].prevEnd = EndOf(toks, a, ahead, p, n) BY <2>1, <2>2
      <4> QED BY <2>3, <3>8, <4>1 DEF WalkStep
    <3>10. p[n] <= i BY <2>2, <3>4, <3>6
    <3>11. w[i-1].found = [k_1 \in 1..n |-> p[k_1]] /\ w[i-1].prevEnd = EndOf(toks, a, ahead, p, n)
      BY <2>1, <2>2
    <3>12. Found(i, n) BY <3>2, <3>5, <3>9, <3>10, <3>11
    <3> HIDE DEF Found
    <3> QED BY <2>2, <3>12
  <2> QED BY <2>5, <2>6, <2>7
<1>7. N - a \in T
  <2>1. N - a \in Nat BY <1>1
  <2> HIDE DEF T
  <2> QED BY <1>5, <1>6, <2>1, SetInduction
<1>8. PICK n \in 0..m : Found(N, n)
  <2> HIDE DEF Found
  <2>1. a + (N - a) = N /\ N <= N BY <1>1
  <2> QED BY <1>7, <2>1
<1>9. n = m
  <2> SUFFICES ASSUME n < m PROVE FALSE BY <1>1
  <2>1. N < p[n+1] BY <1>8
  <2>2. n + 1 \in 1..m BY <1>1
  <2>3. p[n+1] < p[(n+1)+1] /\ p[(n+1)+1] <= p[m+1] /\ p[m+1] <= N + 1 BY <2>2 DEF Runs, N
  <2>4. p[n+1] \in Nat /\ p[(n+1)+1] \in Nat BY <1>3, <2>2
  <2> QED BY <1>1, <1>4, <2>1, <2>3, <2>4
<1> QED BY <1>8, <1>9 DEF w, N

(* The token of a text is all there is of it.                              *)
LEMMA ScalarTokens ==
  ASSUME NEW v \in Document, v.kind \in {"STRING", "PRIMITIVE"}
  PROVE  Len(TokensOf(v)) = 1
<1>1. Nesting \in 0..Nesting BY TokensAssumption
<1>2. Layout[Nesting][v] = LayoutBy(Layout[Nesting-1], v)
  BY <1>1, LayoutDefined DEF Document
<1>3. \E t : Layout[Nesting][v].tokens = <<t>> BY <1>2 DEF LayoutBy
<1> QED BY <1>3 DEF TokensOf

(* Inside a value are its own tokens.                                      *)
LEMMA InsideOfValue ==
  ASSUME NEW toks, NEW b, NEW v, Stands(toks, b, v)
  PROVE  \A i \in (b+1)+1..Len(toks) : i \in Inside(toks, b+1) <=> i < b + 1 + Len(TokensOf(v))
<1>1. b \in Nat /\ Len(toks) \in Nat /\ v \in Document /\ b + Len(TokensOf(v)) <= Len(toks)
      /\ \A k \in b+Len(TokensOf(v))+1..Len(toks) : toks[k].start > toks[b+1].end
  BY DEF Stands
<1>2. PICK l \in Nat : l = Len(TokensOf(v)) /\ l >= 1 BY <1>1, TokensOfDocument
<1>3. \A k \in b+2..b+l : toks[k].start <= toks[b+1].end BY <1>2, StandsInside
<1>4. toks[b+1].end \in Nat BY StandsInside
<1> SUFFICES ASSUME NEW i \in (b+1)+1..Len(toks)
             PROVE  i \in Inside(toks, b+1) <=> i < b + 1 + l
  BY <1>2
<1>5. ASSUME i < b + 1 + l PROVE i \in Inside(toks, b+1)
  <2>1. \A k \in (b+1)+1..i : k \in b+2..b+l BY <1>1, <1>5
  <2> QED BY <1>3, <2>1 DEF Inside
<1>6. ASSUME ~(i < b + 1 + l) PROVE i \notin Inside(toks, b+1)
  <2>1. b + l + 1 \in b+l+1..Len(toks) /\ b + l + 1 \in (b+1)+1..i BY <1>1, <1>2, <1>6
  <2>2. toks[b+l+1].start > toks[b+1].end BY <1>1, <1>2, <2>1
  <2>3. toks[b+l+1] \in TokenOver(Document)
    <3>1. toks \in Seq(TokenOver(Document)) /\ b+l+1 \in 1..Len(toks) BY <1>1, <2>1 DEF Stands
    <3> QED BY <3>1, ElementOfSeq
  <2>4. toks[b+l+1].start \in Nat BY <2>3 DEF TokenOver
  <2>5. ~(toks[b+l+1].start <= toks[b+1].end) BY <1>4, <2>2, <2>4
  <2> QED BY <2>1, <2>5 DEF Inside
<1> QED BY <1>5, <1>6

(* The parts of a value are in order.                                      *)
LEMMA PartsOrdered ==
  ASSUME NEW b \in Nat, NEW v, Compound(v),
         NEW n \in 1..Len(v.parts)+1, NEW k \in n..Len(v.parts)+1
  PROVE  PartAt(b, v, n) \in Nat /\ PartAt(b, v, k) \in Nat /\ PartAt(b, v, n) <= PartAt(b, v, k)
<1> DEFINE laid == LaidParts(v)
           m == Len(v.parts)
<1>1. CompoundLaid(v, laid, m) BY CompoundIsLaid
<1>2. m \in Nat BY <1>1 DEF CompoundLaid
<1>3. n - 1 \in 0..m /\ k - 1 \in (n - 1)..m /\ k - 1 \in 0..m BY <1>2
<1>4. Extends(laid[k-1], laid[n-1]) BY <1>1, <1>3 DEF CompoundLaid
<1>5. laid[k-1] \in LaidOver(Document) /\ laid[n-1] \in LaidOver(Document)
  BY <1>1, <1>3 DEF CompoundLaid, PartsLaid
<1>6. PartAt(b, v, n) = b + 2 + Len(laid[n-1].tokens) /\ PartAt(b, v, k) = b + 2 + Len(laid[k-1].tokens)
  BY DEF PartAt
<1> HIDE DEF laid
<1>7. PICK x \in Nat, y \in Nat : x = Len(laid[n-1].tokens) /\ y = Len(laid[k-1].tokens)
  BY <1>5 DEF LaidOver
<1>8. x <= y BY <1>4, <1>7 DEF Extends
<1>9. PartAt(b, v, n) = b + 2 + x /\ PartAt(b, v, k) = b + 2 + y BY <1>6, <1>7
<1>10. b + 2 + x \in Nat /\ b + 2 + y \in Nat /\ b + 2 + x <= b + 2 + y BY <1>8
<1> QED BY <1>9, <1>10

(* What a walk over the parts of a value needs of one of them: it ends     *)
(* before the next begins, and nothing of it begins behind its end.        *)
PartBounds(toks, b, v, n) ==
  /\ PartAt(b, v, n) \in Nat /\ PartAt(b, v, n + 1) \in Nat
  /\ b + 2 <= PartAt(b, v, n)
  /\ PartAt(b, v, n) < PartAt(b, v, n + 1)
  /\ PartAt(b, v, n + 1) <= Len(toks) + 1
  /\ PartAt(b, v, n) \in DOMAIN toks
  /\ toks[PartAt(b, v, n)].start \in Nat /\ toks[PartAt(b, v, n)].end \in Nat
  /\ \A i \in PartAt(b, v, n)..PartAt(b, v, n+1)-1 : toks[i].start <= toks[PartAt(b, v, n)].end
  /\ \A i \in PartAt(b, v, n+1)..Len(toks) : toks[i].start > toks[PartAt(b, v, n)].end
  /\ \A i \in PartAt(b, v, n+1)..Len(toks) : toks[i].start \in Nat

(* Where a part begins and ends among the tokens.                          *)
LEMMA PartBounded ==
  ASSUME NEW toks, NEW b, NEW v, Stands(toks, b, v), Compound(v), NEW n \in 1..Len(v.parts)
  PROVE  PartBounds(toks, b, v, n)
<1>1. /\ Stands(toks, PartAt(b, v, n) - 1, v.parts[n])
      /\ PartAt(b, v, n + 1) = PartAt(b, v, n) + Len(TokensOf(v.parts[n]))
      /\ PartAt(b, v, n) \in Nat /\ PartAt(b, v, n) >= b + 2
  BY PartStands
<1>2. PICK q \in Nat : q = PartAt(b, v, n) BY <1>1
<1>3. v.parts[n] \in Document /\ q - 1 + Len(TokensOf(v.parts[n])) <= Len(toks)
      /\ \A k \in q-1+Len(TokensOf(v.parts[n]))+1..Len(toks) : toks[k].start > toks[q-1+1].end
  BY <1>1, <1>2 DEF Stands
<1>4. PICK l \in Nat : l = Len(TokensOf(v.parts[n])) /\ l >= 1 BY <1>3, TokensOfDocument
<1>5. b \in Nat /\ Len(toks) \in Nat /\ toks \in Seq(TokenOver(Document)) BY DEF Stands
<1>6. q - 1 + 1 = q /\ q - 1 + 2 = q + 1 /\ q - 1 + l = q + l - 1 /\ q - 1 + l + 1 = q + l BY <1>4
<1>7. /\ toks[q].start \in Nat /\ toks[q].end \in Nat
      /\ toks[q].start <= toks[q].end
      /\ \A k \in q+1..q+l-1 : toks[k].start <= toks[q].end
  BY <1>1, <1>2, <1>4, <1>6, StandsInside
<1>8. PartAt(b, v, n + 1) = q + l BY <1>1, <1>2, <1>4
<1>9. q \in DOMAIN toks BY <1>1, <1>2, <1>6, StandsHere
<1>10. q + l <= Len(toks) + 1 BY <1>3, <1>4, <1>5
<1>11. \A i \in q..q+l-1 : toks[i].start <= toks[q].end
  <2> TAKE i \in q..q+l-1
  <2>1. i = q \/ i \in q+1..q+l-1 BY <1>4
  <2> QED BY <1>7, <2>1
<1>12. \A i \in q+l..Len(toks) : toks[i].start > toks[q].end BY <1>3, <1>4, <1>6
<1>13. \A i \in q+l..Len(toks) : toks[i].start \in Nat
  <2> TAKE i \in q+l..Len(toks)
  <2>1. i \in 1..Len(toks) BY <1>4, <1>5, <1>2, <1>1
  <2>2. toks[i] \in TokenOver(Document) BY <1>5, <2>1, ElementOfSeq
  <2> QED BY <2>2 DEF TokenOver
<1>14. q < q + l /\ q + l \in Nat /\ b + 2 <= q BY <1>1, <1>2, <1>4
<1> DEFINE r == q + l
<1>15. /\ PartAt(b, v, n) = q /\ PartAt(b, v, n + 1) = r
       /\ q \in Nat /\ r \in Nat /\ b + 2 <= q /\ q < r /\ r <= Len(toks) + 1
  BY <1>2, <1>8, <1>10, <1>14
<1>16. /\ \A i \in q..r-1 : toks[i].start <= toks[q].end
       /\ \A i \in r..Len(toks) : toks[i].start > toks[q].end
       /\ \A i \in r..Len(toks) : toks[i].start \in Nat
  BY <1>11, <1>12, <1>13
<1> HIDE DEF r
<1> QED BY <1>7, <1>9, <1>15, <1>16, Zenon DEF PartBounds

-----------------------------------------------------------------------------
(* The elements of an array are found at the places of its parts.          *)
LEMMA ArrayRuns ==
  ASSUME NEW toks, NEW b, NEW v, Stands(toks, b, v), v.kind = "ARRAY"
  PROVE  Runs(toks, b + 1, 0, Len(v.parts), [n \in 1..Len(v.parts)+1 |-> PartAt(b, v, n)])
<1> DEFINE m == Len(v.parts)
           p == [n \in 1..m+1 |-> PartAt(b, v, n)]
<1>1. Compound(v) BY DEF Stands, Compound
<1>2. PartAt(b, v, 1) = b + 2 /\ PartAt(b, v, m + 1) = b + 1 + Len(TokensOf(v)) /\ m \in Nat
  BY <1>1, PartsBetween
<1>3. b \in Nat /\ Len(toks) \in Nat /\ b + Len(TokensOf(v)) <= Len(toks) /\ v \in Document
  BY DEF Stands
<1>4. PICK l \in Nat : l = Len(TokensOf(v)) /\ l >= 1 BY <1>3, TokensOfDocument
<1>5. \A n \in 1..m+1 : PartAt(b, v, n) \in Nat /\ PartAt(b, v, n) <= PartAt(b, v, m + 1)
  <2> TAKE n \in 1..m+1
  <2>1. m + 1 \in n..m+1 BY <1>2
  <2> QED BY <1>1, <1>3, <2>1, PartsOrdered
<1>6. p \in [1..m+1 -> Nat] /\ \A n \in 1..m+1 : p[n] = PartAt(b, v, n) BY <1>5
<1>7. 1 \in 1..m+1 /\ m + 1 \in 1..m+1 BY <1>2
<1>8. p[1] = (b + 1) + 1 /\ p[m+1] = b + 1 + l /\ p[m+1] <= Len(toks) + 1
  BY <1>2, <1>3, <1>4, <1>6, <1>7
<1>9. \A n \in 1..m : PartBounds(toks, b, v, n) BY <1>1, PartBounded
<1> HIDE DEF p
<1>10. ASSUME NEW n \in 1..m
       PROVE  /\ p[n] < p[n+1] /\ p[n+1] <= p[m+1]
              /\ ~(toks[p[n]].start <= EndOf(toks, b + 1, 0, p, n - 1))
              /\ \A i \in p[n]+1..p[n+1]-1 : toks[i].start <= EndOf(toks, b + 1, 0, p, n)
  <2>1. n \in 1..m+1 /\ n + 1 \in 1..m+1 /\ n # 0 BY <1>2
  <2>2. PartBounds(toks, b, v, n) BY <1>9
  <2>3. p[n] = PartAt(b, v, n) /\ p[n+1] = PartAt(b, v, n + 1) /\ p[m+1] = PartAt(b, v, m + 1)
    BY <1>6, <1>7, <2>1
  <2>4. p[n] < p[n+1] /\ p[n+1] <= p[m+1] /\ p[n] \in Nat /\ p[n+1] \in Nat
    BY <1>5, <2>1, <2>2, <2>3 DEF PartBounds
  <2>5. EndOf(toks, b + 1, 0, p, n) = toks[p[n]].end
    <3>1. p[n] + 0 = p[n] BY <2>4
    <3> QED BY <2>1, <2>2, <2>3, <3>1 DEF EndOf, At, PartBounds
  <2>6. \A i \in p[n]+1..p[n+1]-1 : toks[i].start <= toks[p[n]].end
    <3> TAKE i \in p[n]+1..p[n+1]-1
    <3>1. i \in p[n]..p[n+1]-1 BY <2>4
    <3> QED BY <2>2, <2>3, <3>1 DEF PartBounds
  <2>7. ~(toks[p[n]].start <= EndOf(toks, b + 1, 0, p, n - 1))
    <3>1. CASE n = 1
      <4>1. EndOf(toks, b + 1, 0, p, n - 1) = toks[b+1].start BY <3>1 DEF EndOf
      <4>2. p[n] = b + 2 /\ b + 2 \in b+2..b+l
        <5>1. b + 2 \in b+2..b+l
          <6>1. p[1] < p[1+1] /\ p[1+1] <= p[m+1] /\ p[1+1] \in Nat BY <2>4, <3>1
          <6> QED BY <1>3, <1>4, <1>8, <6>1
        <5> QED BY <1>3, <1>8, <3>1, <5>1
      <4>3. toks[b+1].start < toks[b+2].start BY <1>4, <4>2, StandsInside
      <4>4. toks[b+1].start \in Nat BY StandsInside
      <4>5. toks[p[n]].start \in Nat BY <2>2, <2>3 DEF PartBounds
      <4> QED BY <4>1, <4>2, <4>3, <4>4, <4>5
    <3>2. CASE n # 1
      <4>1. n - 1 \in 1..m /\ n - 1 # 0 /\ (n - 1) + 1 = n BY <1>2, <3>2
      <4>2. PartBounds(toks, b, v, n - 1) BY <1>9, <4>1
      <4>3. p[n-1] = PartAt(b, v, n - 1) /\ PartAt(b, v, (n - 1) + 1) = p[n] BY <1>6, <2>3, <4>1, <1>2
      <4>4. EndOf(toks, b + 1, 0, p, n - 1) = toks[p[n-1]].end
        <5>1. p[n-1] \in Nat BY <4>2, <4>3 DEF PartBounds
        <5>2. p[n-1] + 0 = p[n-1] BY <5>1
        <5> QED BY <4>1, <4>2, <4>3, <5>2 DEF EndOf, At, PartBounds
      <4>5. p[n] \in p[n]..Len(toks)
        <5>1. p[n+1] <= Len(toks) + 1 BY <2>2, <2>3 DEF PartBounds
        <5> QED BY <1>3, <2>4, <5>1
      <4>6. toks[p[n]].start > toks[p[n-1]].end /\ toks[p[n]].start \in Nat /\ toks[p[n-1]].end \in Nat
        BY <4>2, <4>3, <4>5 DEF PartBounds
      <4> QED BY <4>4, <4>6
    <3> QED BY <3>1, <3>2
  <2> QED BY <2>4, <2>5, <2>6, <2>7
<1>11. \A i \in (b+1)+1..Len(toks) : i \in Inside(toks, b + 1) <=> i < p[m+1]
  BY <1>4, <1>8, InsideOfValue
<1>12. b + 1 \in Nat /\ b + 1 <= Len(toks) BY <1>3, <1>4
<1>13. Runs(toks, b + 1, 0, m, p)
  BY <1>2, <1>3, <1>6, <1>8, <1>10, <1>11, <1>12 DEF Runs
<1> QED BY <1>13 DEF p

ElementsFound(toks, b, v) ==
  array_elements(toks, b + 1) = [n \in 1..Len(v.parts) |-> PartAt(b, v, n)]

(* What array_get_nth_element finds are the parts of the array, in order.  *)
LEMMA ElementsOfArray ==
  ASSUME NEW toks, NEW b, NEW v, Stands(toks, b, v), v.kind = "ARRAY"
  PROVE  ElementsFound(toks, b, v)
<1> DEFINE m == Len(v.parts)
           p == [n \in 1..m+1 |-> PartAt(b, v, n)]
<1>1. Runs(toks, b + 1, 0, m, p) BY ArrayRuns
<1>2. m \in Nat BY <1>1 DEF Runs
<1>3. [n \in 1..m |-> p[n]] = [n \in 1..m |-> PartAt(b, v, n)] BY <1>2
<1> HIDE DEF p
<1>4. array_elements(toks, b + 1) = [n \in 1..m |-> p[n]] BY <1>1, WalkFinds DEF array_elements
<1> QED BY <1>3, <1>4 DEF ElementsFound

(* A pair of an object: its key, which is one token, and its value.        *)
LEMMA PairOfObject ==
  ASSUME NEW b \in Nat, NEW v \in Document, v.kind = "OBJECT",
         NEW n \in Nat, 2 * n + 2 <= Len(v.parts)
  PROVE  /\ 2 * n + 1 \in 1..Len(v.parts) /\ 2 * n + 2 \in 1..Len(v.parts)
         /\ v.parts[2 * n + 1] \in Document
         /\ v.parts[2 * n + 1].kind = "STRING"
         /\ Len(TokensOf(v.parts[2 * n + 1])) = 1
<1>1. v \in Objects(Document) /\ v.parts \in Seq(Document)
  BY DocumentParts DEF Arrays
<1>2. Len(v.parts) \in Nat BY <1>1
<1>3. 2 * n + 1 \in 1..Len(v.parts) /\ 2 * n + 2 \in 1..Len(v.parts) BY <1>2
<1>4. n + 1 \in 1..(Len(v.parts) \div 2)
  <2> DEFINE N == Len(v.parts)
  <2> HIDE DEF N
  <2>1. N \in Nat /\ 2 * n + 2 <= N BY <1>2 DEF N
  <2>2. n + 1 <= N \div 2 /\ N \div 2 \in Nat BY <2>1
  <2>3. n + 1 \in 1..(N \div 2) BY <2>2
  <2> QED BY <2>3 DEF N
<1>5. v.parts[2 * (n + 1) - 1].kind = "STRING" BY <1>1, <1>4 DEF Objects
<1>6. 2 * (n + 1) - 1 = 2 * n + 1 OBVIOUS
<1>7. v.parts[2 * n + 1] \in Document BY <1>1, <1>3, ElementOfSeq
<1> QED BY <1>3, <1>5, <1>6, <1>7, ScalarTokens

(* An object is made of pairs.                                             *)
LEMMA PairsOfObject ==
  ASSUME NEW v \in Document, v.kind = "OBJECT"
  PROVE  /\ Len(v.parts) \div 2 \in Nat
         /\ 2 * (Len(v.parts) \div 2) = Len(v.parts)
<1>1. v \in Objects(Document) /\ v.parts \in Seq(Document)
  BY DocumentParts DEF Arrays
<1>2. Len(v.parts) \in Nat BY <1>1
<1>3. Len(v.parts) % 2 = 0 BY <1>1 DEF Objects
<1>4. PICK x \in Nat : x = Len(v.parts) BY <1>2
<1>5. x % 2 = 0 BY <1>3, <1>4
<1>6. x \div 2 \in Nat /\ 2 * (x \div 2) = x BY <1>5
<1> QED BY <1>4, <1>6

(* The keys of an object are found at the places of its odd parts.         *)
LEMMA ObjectRuns ==
  ASSUME NEW toks, NEW b, NEW v, Stands(toks, b, v), v.kind = "OBJECT"
  PROVE  Runs(toks, b + 1, 1, Len(v.parts) \div 2,
              [n \in 1..(Len(v.parts) \div 2)+1 |-> PartAt(b, v, 2 * n - 1)])
<1> DEFINE M == Len(v.parts)
           m == M \div 2
           p == [n \in 1..m+1 |-> PartAt(b, v, 2 * n - 1)]
<1>1. Compound(v) BY DEF Stands, Compound
<1>2. PartAt(b, v, 1) = b + 2 /\ PartAt(b, v, M + 1) = b + 1 + Len(TokensOf(v)) /\ M \in Nat
  BY <1>1, PartsBetween
<1>3. b \in Nat /\ Len(toks) \in Nat /\ b + Len(TokensOf(v)) <= Len(toks) /\ v \in Document
  BY DEF Stands
<1>4. PICK l \in Nat : l = Len(TokensOf(v)) /\ l >= 1 BY <1>3, TokensOfDocument
<1>m. m \in Nat /\ 2 * m = M BY <1>3, PairsOfObject
<1> HIDE DEF m
<1>5. \A n \in 1..M+1 : PartAt(b, v, n) \in Nat /\ PartAt(b, v, n) <= PartAt(b, v, M + 1)
  <2> TAKE n \in 1..M+1
  <2>1. M + 1 \in n..M+1 BY <1>2
  <2> QED BY <1>1, <1>3, <2>1, PartsOrdered
<1>6. p \in [1..m+1 -> Nat] /\ \A n \in 1..m+1 : p[n] = PartAt(b, v, 2 * n - 1)
  <2>1. \A n \in 1..m+1 : 2 * n - 1 \in 1..M+1 BY <1>m
  <2> QED BY <1>5, <2>1
<1>7. 1 \in 1..m+1 /\ m + 1 \in 1..m+1 /\ 2 * 1 - 1 = 1 /\ 2 * (m + 1) - 1 = M + 1 BY <1>m
<1>8. p[1] = (b + 1) + 1 /\ p[m+1] = b + 1 + l /\ p[m+1] <= Len(toks) + 1
  BY <1>2, <1>3, <1>4, <1>6, <1>7
<1>9. \A n \in 1..M : PartBounds(toks, b, v, n) BY <1>1, PartBounded
<1> HIDE DEF p
<1>10. ASSUME NEW n \in 1..m
       PROVE  /\ PartBounds(toks, b, v, 2 * n - 1)
              /\ PartBounds(toks, b, v, 2 * n)
              /\ p[n] = PartAt(b, v, 2 * n - 1)
              /\ PartAt(b, v, 2 * n) = p[n] + 1
              /\ p[n+1] = PartAt(b, v, 2 * n + 1)
  <2>1. 2 * n - 1 \in 1..M /\ 2 * n \in 1..M /\ n \in 1..m+1 /\ n + 1 \in 1..m+1 BY <1>m
  <2>2. 2 * (n + 1) - 1 = 2 * n + 1 /\ n - 1 \in Nat /\ 2 * (n - 1) + 1 = 2 * n - 1
        /\ 2 * (n - 1) + 2 <= M /\ (2 * n - 1) + 1 = 2 * n
    BY <1>m
  <2>3. Len(TokensOf(v.parts[2 * n - 1])) = 1
    <3>1. 2 * (n - 1) + 2 <= Len(v.parts) BY <2>2
    <3>2. Len(TokensOf(v.parts[2 * (n - 1) + 1])) = 1 BY <1>3, <2>2, <3>1, PairOfObject, Zenon
    <3> QED BY <2>2, <3>2, Zenon
  <2>4. PartAt(b, v, 2 * n) = PartAt(b, v, 2 * n - 1) + Len(TokensOf(v.parts[2 * n - 1]))
    BY <1>1, <2>1, <2>2, PartStands
  <2> QED BY <1>6, <1>9, <2>1, <2>2, <2>3, <2>4
<1>11. ASSUME NEW n \in 1..m
       PROVE  /\ p[n] < p[n+1] /\ p[n+1] <= p[m+1]
              /\ ~(toks[p[n]].start <= EndOf(toks, b + 1, 1, p, n - 1))
              /\ \A i \in p[n]+1..p[n+1]-1 : toks[i].start <= EndOf(toks, b + 1, 1, p, n)
  <2>1. n \in 1..m+1 /\ n + 1 \in 1..m+1 /\ n # 0 BY <1>m
  <2>2. /\ PartBounds(toks, b, v, 2 * n - 1) /\ PartBounds(toks, b, v, 2 * n)
        /\ p[n] = PartAt(b, v, 2 * n - 1) /\ PartAt(b, v, 2 * n) = p[n] + 1
        /\ p[n+1] = PartAt(b, v, 2 * n + 1)
    BY <1>10
  <2>3. p[m+1] = PartAt(b, v, M + 1) BY <1>6, <1>7
  <2>4. 2 * n + 1 \in 1..M+1 /\ (2 * n - 1) + 1 = 2 * n BY <1>m
  <2>5. /\ p[n] \in Nat /\ p[n] + 1 \in Nat /\ p[n+1] \in Nat
        /\ p[n] + 1 < p[n+1] /\ p[n+1] <= p[m+1]
        /\ p[n] + 1 \in DOMAIN toks /\ p[n+1] <= Len(toks) + 1
    BY <1>5, <2>2, <2>3, <2>4 DEF PartBounds
  <2>6. EndOf(toks, b + 1, 1, p, n) = toks[p[n]+1].end
    BY <2>1, <2>5 DEF EndOf, At
  <2>7. \A i \in p[n]+1..p[n+1]-1 : toks[i].start <= toks[p[n]+1].end
    BY <2>2 DEF PartBounds
  <2>8. p[n] \in p[n]..Len(toks) /\ toks[p[n]].start \in Nat
    <3>1. toks[p[n]].start \in Nat BY <2>2 DEF PartBounds
    <3> QED BY <1>3, <2>5, <3>1
  <2>9. ~(toks[p[n]].start <= EndOf(toks, b + 1, 1, p, n - 1))
    <3>1. CASE n = 1
      <4>1. EndOf(toks, b + 1, 1, p, n - 1) = toks[b+1].start BY <3>1 DEF EndOf
      <4>2. p[n] = b + 2 /\ b + 2 \in b+2..b+l
        <5>1. p[1] + 1 < p[1+1] /\ p[1+1] <= p[m+1] /\ p[1+1] \in Nat BY <2>5, <3>1
        <5>2. b + 2 \in b+2..b+l BY <1>3, <1>4, <1>8, <5>1
        <5> QED BY <1>3, <1>8, <3>1, <5>2
      <4>3. toks[b+1].start < toks[b+2].start BY <1>4, <4>2, StandsInside
      <4>4. toks[b+1].start \in Nat BY StandsInside
      <4> QED BY <2>8, <4>1, <4>2, <4>3, <4>4
    <3>2. CASE n # 1
      <4>1. n - 1 \in 1..m /\ n - 1 # 0 /\ (n - 1) + 1 = n /\ 2 * (n - 1) + 1 = 2 * n - 1
        BY <1>m, <3>2
      <4>2. /\ PartBounds(toks, b, v, 2 * (n - 1)) /\ PartAt(b, v, 2 * (n - 1)) = p[n-1] + 1
            /\ PartBounds(toks, b, v, 2 * (n - 1) - 1) /\ p[n-1] = PartAt(b, v, 2 * (n - 1) - 1)
        BY <1>10, <4>1
      <4>3. p[n-1] + 1 \in DOMAIN toks /\ toks[p[n-1]+1].end \in Nat
        BY <4>2 DEF PartBounds
      <4>4. EndOf(toks, b + 1, 1, p, n - 1) = toks[p[n-1]+1].end
        BY <4>1, <4>3 DEF EndOf, At
      <4>5. toks[p[n]].start > toks[p[n-1]+1].end
        BY <2>2, <2>8, <4>1, <4>2 DEF PartBounds
      <4> QED BY <2>8, <4>3, <4>4, <4>5
    <3> QED BY <3>1, <3>2
  <2>10. p[n] < p[n+1] BY <2>5
  <2> QED BY <2>5, <2>6, <2>7, <2>9, <2>10
<1>12. \A i \in (b+1)+1..Len(toks) : i \in Inside(toks, b + 1) <=> i < p[m+1]
  BY <1>4, <1>8, InsideOfValue
<1>13. b + 1 \in Nat /\ b + 1 <= Len(toks) BY <1>3, <1>4
<1>14. Runs(toks, b + 1, 1, m, p)
  BY <1>m, <1>3, <1>6, <1>8, <1>11, <1>12, <1>13 DEF Runs
<1> QED BY <1>14 DEF p, m

(* The keys of an object are found at the places of its odd parts.         *)
KeysFound(toks, b, v) ==
  object_keys(toks, b + 1) = [n \in 1..(Len(v.parts) \div 2) |-> PartAt(b, v, 2 * n - 1)]

(* What the loops over an object find are its keys, in order.              *)
LEMMA KeysOfObject ==
  ASSUME NEW toks, NEW b, NEW v, Stands(toks, b, v), v.kind = "OBJECT"
  PROVE  KeysFound(toks, b, v)
<1> DEFINE m == Len(v.parts) \div 2
           p == [n \in 1..m+1 |-> PartAt(b, v, 2 * n - 1)]
<1>1. Runs(toks, b + 1, 1, m, p) BY ObjectRuns
<1>2. m \in Nat BY <1>1 DEF Runs
<1> HIDE DEF m
<1>3. [n \in 1..m |-> p[n]] = [n \in 1..m |-> PartAt(b, v, 2 * n - 1)] BY <1>2
<1> HIDE DEF p
<1>4. object_keys(toks, b + 1) = [n \in 1..m |-> p[n]] BY <1>1, WalkFinds DEF object_keys
<1> QED BY <1>3, <1>4 DEF m, KeysFound

-----------------------------------------------------------------------------
(* 2. The screens.                                                          *)

(* An object of two pairs: where its keys and values stand.                *)
LEMMA TwoPairs ==
  ASSUME NEW toks, NEW b, NEW v, Stands(toks, b, v), v.kind = "OBJECT", Len(v.parts) = 4
  PROVE  /\ DOMAIN object_keys(toks, b + 1) = {1, 2}
         /\ \A n \in {1, 2} :
              /\ toks[object_keys(toks, b + 1)[n]].value = v.parts[2 * n - 1]
              /\ object_keys(toks, b + 1)[n] + 1 = PartAt(b, v, 2 * n)
              /\ PartAt(b, v, 2 * n) - 1 \in Nat
              /\ Stands(toks, PartAt(b, v, 2 * n) - 1, v.parts[2 * n])
<1>1. Compound(v) /\ b \in Nat /\ v \in Document BY DEF Stands, Compound
<1>2. 4 \div 2 = 2 /\ 1..2 = {1, 2} OBVIOUS
<1>3. object_keys(toks, b + 1) = [n \in {1, 2} |-> PartAt(b, v, 2 * n - 1)]
  <2>1. KeysFound(toks, b, v) BY KeysOfObject
  <2> QED BY <1>2, <2>1 DEF KeysFound
<1>4. ASSUME NEW n \in {1, 2}
      PROVE  /\ toks[object_keys(toks, b + 1)[n]].value = v.parts[2 * n - 1]
             /\ object_keys(toks, b + 1)[n] + 1 = PartAt(b, v, 2 * n)
             /\ PartAt(b, v, 2 * n) - 1 \in Nat
             /\ Stands(toks, PartAt(b, v, 2 * n) - 1, v.parts[2 * n])
  <2>1. /\ n - 1 \in Nat /\ 2 * (n - 1) + 2 <= 4 /\ 2 * (n - 1) + 1 = 2 * n - 1
        /\ 2 * n - 1 \in 1..4 /\ 2 * n \in 1..4 /\ (2 * n - 1) + 1 = 2 * n
    OBVIOUS
  <2>2. Len(TokensOf(v.parts[2 * n - 1])) = 1
    <3>1. 2 * (n - 1) + 2 <= Len(v.parts) BY <2>1
    <3>2. Len(TokensOf(v.parts[2 * (n - 1) + 1])) = 1 BY <1>1, <2>1, <3>1, PairOfObject
    <3> QED BY <2>1, <3>2
  <2>a. 2 * n - 1 \in 1..Len(v.parts) /\ 2 * n \in 1..Len(v.parts) BY <2>1
  <2>3. /\ Stands(toks, PartAt(b, v, 2 * n - 1) - 1, v.parts[2 * n - 1])
        /\ PartAt(b, v, 2 * n) = PartAt(b, v, 2 * n - 1) + 1
        /\ PartAt(b, v, 2 * n - 1) \in Nat
    <3>1. PICK q \in 1..Len(v.parts) : q = 2 * n - 1 /\ q + 1 = 2 * n BY <2>1, <2>a
    <3>2. /\ Stands(toks, PartAt(b, v, q) - 1, v.parts[q])
          /\ PartAt(b, v, q) \in Nat
      BY <1>1, PartStands
    <3>a. PartAt(b, v, q + 1) = PartAt(b, v, q) + Len(TokensOf(v.parts[q]))
      BY <1>1, PartStands
    <3>3. Len(TokensOf(v.parts[q])) = 1 BY <2>2, <3>1
    <3>4. PartAt(b, v, q + 1) = PartAt(b, v, q) + 1 BY <3>a, <3>3
    <3> QED BY <3>1, <3>2, <3>4, Zenon
  <2>4. /\ Stands(toks, PartAt(b, v, 2 * n) - 1, v.parts[2 * n])
        /\ PartAt(b, v, 2 * n) \in Nat /\ PartAt(b, v, 2 * n) >= b + 2
    BY <1>1, <2>1, <2>a, PartStands
  <2>5. toks[PartAt(b, v, 2 * n - 1) - 1 + 1].value = v.parts[2 * n - 1] BY <2>3, StandsHere
  <2>6. PartAt(b, v, 2 * n - 1) - 1 + 1 = PartAt(b, v, 2 * n - 1) BY <2>3
  <2>7. PartAt(b, v, 2 * n) - 1 \in Nat BY <1>1, <2>4
  <2> QED BY <1>3, <2>3, <2>4, <2>5, <2>6, <2>7
<1> QED BY <1>3, <1>4

(* What is read under a name, and what there is.                           *)
LEMMA NameRead ==
  ASSUME NEW toks, NEW b, NEW v, Stands(toks, b, v), v.kind = "OBJECT", Len(v.parts) = 4,
         NEW name
  PROVE  /\ v.parts[1].text = name => object_get_value(toks, b + 1, name) = {PartAt(b, v, 2)}
         /\ v.parts[1].text # name /\ v.parts[3].text = name =>
              object_get_value(toks, b + 1, name) = {PartAt(b, v, 4)}
         /\ v.parts[1].text # name /\ v.parts[3].text # name =>
              object_get_value(toks, b + 1, name) = {}
<1> DEFINE keys == object_keys(toks, b + 1)
           named == {n \in DOMAIN keys : toks[keys[n]].value.text = name}
           first == {n \in named : \A m \in named : n <= m}
<1>1. /\ DOMAIN keys = {1, 2}
      /\ toks[keys[1]].value = v.parts[1] /\ toks[keys[2]].value = v.parts[3]
      /\ keys[1] + 1 = PartAt(b, v, 2) /\ keys[2] + 1 = PartAt(b, v, 4)
  <2>1. 2 * 1 = 2 /\ 2 * 2 = 4 /\ 2 * 1 - 1 = 1 /\ 2 * 2 - 1 = 3 OBVIOUS
  <2> QED BY <2>1, TwoPairs
<1>2. object_get_value(toks, b + 1, name) = {keys[n] + 1 : n \in first}
  BY DEF object_get_value
<1> HIDE DEF keys
<1>3. named = {n \in {1, 2} : toks[keys[n]].value.text = name} BY <1>1
<1>4. ASSUME v.parts[1].text = name PROVE first = {1} BY <1>1, <1>3, <1>4
<1>5. ASSUME v.parts[1].text # name, v.parts[3].text = name PROVE first = {2} BY <1>1, <1>3, <1>5
<1>6. ASSUME v.parts[1].text # name, v.parts[3].text # name PROVE first = {} BY <1>1, <1>3, <1>6
<1> HIDE DEF first
<1> QED BY <1>1, <1>2, <1>4, <1>5, <1>6

(* What the document itself says of a name.                                *)
LEMMA PairOfTwo ==
  ASSUME NEW v, Len(v.parts) = 4, NEW name
  PROVE  Pair(v, name) = {x \in {v.parts[2]} : v.parts[1].text = name}
                           \cup {x \in {v.parts[4]} : v.parts[3].text = name}
<1>1. 4 \div 2 = 2 /\ 1..2 = {1, 2} /\ 2 * 1 = 2 /\ 2 * 2 = 4 /\ 2 * 1 - 1 = 1 /\ 2 * 2 - 1 = 3
  OBVIOUS
<1>2. Pair(v, name) = {v.parts[2 * n] : n \in {n \in {1, 2} : v.parts[2 * n - 1].text = name}}
  BY <1>1 DEF Pair
<1> QED BY <1>1, <1>2

-----------------------------------------------------------------------------
(* An object of a type and a value, and that both are read where they      *)
(* stand.                                                                  *)
Typed(v) == /\ v.kind = "OBJECT" /\ Len(v.parts) = 4
            /\ Pair(v, "type") # {} /\ Pair(v, "value") # {}

TypeAndValue(v, t, x) == Pair(v, "type") = {t} /\ Pair(v, "value") = {x}

ReadAt(toks, b, name, i) == object_get_value(toks, b + 1, name) = {i + 1}

Read(toks, b, t, x, i, j) ==
  /\ i \in Nat /\ j \in Nat
  /\ IsPair(toks, b + 1)
  /\ ReadAt(toks, b, "type", i) /\ Stands(toks, i, t)
  /\ ReadAt(toks, b, "value", j) /\ Stands(toks, j, x)

Unread(toks, b) ==
  \/ ~IsPair(toks, b + 1)
  \/ object_get_value(toks, b + 1, "type") = {}
  \/ object_get_value(toks, b + 1, "value") = {}

(* A value of the type and kind asked for is read where it stands.         *)
LEMMA TypedIsRead ==
  ASSUME NEW toks, NEW b, NEW v, Stands(toks, b, v), Typed(v)
  PROVE  \E t, x, i, j : TypeAndValue(v, t, x) /\ Read(toks, b, t, x, i, j)
<1> DEFINE i2 == PartAt(b, v, 2) - 1
           i4 == PartAt(b, v, 4) - 1
<1>1. v.kind = "OBJECT" /\ Len(v.parts) = 4 /\ v \in Document BY DEF Typed, Stands
<1>2. \A name : Pair(v, name) = {x \in {v.parts[2]} : v.parts[1].text = name}
                                  \cup {x \in {v.parts[4]} : v.parts[3].text = name}
  BY <1>1, PairOfTwo
<1>3. /\ i2 \in Nat /\ Stands(toks, i2, v.parts[2]) /\ i2 + 1 = PartAt(b, v, 2)
      /\ i4 \in Nat /\ Stands(toks, i4, v.parts[4]) /\ i4 + 1 = PartAt(b, v, 4)
      /\ DOMAIN object_keys(toks, b + 1) = {1, 2}
  <2>1. 2 * 1 = 2 /\ 2 * 2 = 4 OBVIOUS
  <2>2. /\ i2 \in Nat /\ Stands(toks, i2, v.parts[2])
        /\ i4 \in Nat /\ Stands(toks, i4, v.parts[4])
        /\ DOMAIN object_keys(toks, b + 1) = {1, 2}
    BY <1>1, <2>1, TwoPairs
  <2>3. Compound(v) /\ 2 \in 1..Len(v.parts) /\ 4 \in 1..Len(v.parts) BY <1>1 DEF Compound
  <2>4. PartAt(b, v, 2) \in Nat /\ PartAt(b, v, 4) \in Nat BY <2>3, PartStands
  <2> QED BY <2>2, <2>4
<1>4. IsPair(toks, b + 1)
  <2>1. toks[b+1].kind = "OBJECT" BY <1>1, StandsHere
  <2>2. object_keys(toks, b + 1) = [n \in 1..2 |-> PartAt(b, v, 2 * n - 1)]
    <3>1. 4 \div 2 = 2 OBVIOUS
    <3>2. KeysFound(toks, b, v) BY <1>1, KeysOfObject
    <3> QED BY <1>1, <3>1, <3>2 DEF KeysFound
  <2>3. Len(object_keys(toks, b + 1)) = 2 BY <2>2
  <2> QED BY <2>1, <2>3 DEF IsPair
<1> HIDE DEF i2, i4
<1>5. CASE v.parts[1].text = "type" /\ v.parts[3].text = "value"
  <2>1. TypeAndValue(v, v.parts[2], v.parts[4]) BY <1>2, <1>5 DEF TypeAndValue
  <2>2. ReadAt(toks, b, "type", i2) /\ ReadAt(toks, b, "value", i4)
    BY <1>1, <1>3, <1>5, NameRead DEF ReadAt
  <2> QED BY <1>3, <1>4, <2>1, <2>2 DEF Read
<1>6. CASE v.parts[1].text = "value" /\ v.parts[3].text = "type"
  <2>1. TypeAndValue(v, v.parts[4], v.parts[2]) BY <1>2, <1>6 DEF TypeAndValue
  <2>2. ReadAt(toks, b, "type", i4) /\ ReadAt(toks, b, "value", i2)
    BY <1>1, <1>3, <1>6, NameRead DEF ReadAt
  <2> QED BY <1>3, <1>4, <2>1, <2>2 DEF Read
<1>7. \/ v.parts[1].text = "type" /\ v.parts[3].text = "value"
      \/ v.parts[1].text = "value" /\ v.parts[3].text = "type"
  <2>1. Pair(v, "type") # {} /\ Pair(v, "value") # {} BY DEF Typed
  <2> QED BY <1>2, <2>1
<1> QED BY <1>5, <1>6, <1>7

(* Of any other value nothing is read.                                     *)
LEMMA UntypedIsUnread ==
  ASSUME NEW toks, NEW b, NEW v, Stands(toks, b, v), ~Typed(v)
  PROVE  Unread(toks, b)
<1>1. toks[b+1].kind = v.kind /\ v \in Document BY StandsHere DEF Stands
<1>2. CASE v.kind # "OBJECT" BY <1>1, <1>2 DEF Unread, IsPair
<1>3. CASE v.kind = "OBJECT" /\ Len(v.parts) # 4
  <2>1. object_keys(toks, b + 1) = [n \in 1..(Len(v.parts) \div 2) |-> PartAt(b, v, 2 * n - 1)]
    <3>1. KeysFound(toks, b, v) BY <1>3, KeysOfObject
    <3> QED BY <3>1 DEF KeysFound
  <2>2. Len(v.parts) \div 2 \in Nat /\ 2 * (Len(v.parts) \div 2) = Len(v.parts)
    BY <1>1, <1>3, PairsOfObject
  <2>3. PICK h \in Nat : h = Len(v.parts) \div 2 BY <2>2
  <2>4. h # 2
    <3>1. 2 * h = Len(v.parts) BY <2>2, <2>3
    <3>2. Len(v.parts) # 2 * 2 BY <1>3
    <3> QED BY <3>1, <3>2
  <2>5. object_keys(toks, b + 1) = [n \in 1..h |-> PartAt(b, v, 2 * n - 1)] BY <2>1, <2>3
  <2>6. Len(object_keys(toks, b + 1)) = h
    <3> HIDE <2>1
    <3> QED BY <2>5
  <2> QED BY <2>4, <2>6 DEF Unread, IsPair
<1>4. CASE v.kind = "OBJECT" /\ Len(v.parts) = 4
  <2>1. PICK name \in {"type", "value"} : Pair(v, name) = {} BY <1>4 DEF Typed
  <2>2. Pair(v, name) = {x \in {v.parts[2]} : v.parts[1].text = name}
                          \cup {x \in {v.parts[4]} : v.parts[3].text = name}
    BY <1>4, PairOfTwo
  <2>3. v.parts[1].text # name /\ v.parts[3].text # name BY <2>1, <2>2
  <2>4. object_get_value(toks, b + 1, name) = {} BY <1>4, <2>3, NameRead
  <2> QED BY <2>1, <2>4 DEF Unread
<1> QED BY <1>2, <1>3, <1>4

(* A token found that stands for x.                                        *)
FoundAt(found, toks, x) == \E j \in Nat : found = {j + 1} /\ Stands(toks, j, x)

(* What is found is where one value stands.                                *)
LEMMA StandsAt ==
  ASSUME NEW toks, NEW j, NEW x, Stands(toks, j, x)
  PROVE  At(toks, j + 1) = toks[j+1] /\ At(toks, j + 1).value = x /\ At(toks, j + 1).kind = x.kind
         /\ toks[j+1].value = x /\ toks[j+1].kind = x.kind /\ x.kind \in Kinds
<1>1. x \in Document BY DEF Stands
<1> QED BY <1>1, StandsHere, DocumentParts DEF At

(* The matcher of a type name and a kind finds the value of an object of   *)
(* this type and kind, and nothing in any other.                           *)
Matched(toks, b, v, type, kind) ==
  IF IsTyped(v, type, kind)
  THEN FoundAt(json_matchKeyValue(toks, b + 1, type, kind), toks, ValueOf(v))
  ELSE json_matchKeyValue(toks, b + 1, type, kind) = {}

(* json_matchKeyValue finds the value of the declared type, or nothing.    *)
LEMMA KeyValueMatched ==
  ASSUME NEW toks, NEW b, NEW v, Stands(toks, b, v), NEW type, NEW kind
  PROVE  Matched(toks, b, v, type, kind)
<1> DEFINE found == json_matchKeyValue(toks, b + 1, type, kind)
<1>1. CASE ~Typed(v)
  <2>1. ~IsTyped(v, type, kind) BY <1>1 DEF Typed, IsTyped
  <2>2. found = {} BY <1>1, UntypedIsUnread DEF Unread, json_matchKeyValue
  <2> QED BY <2>1, <2>2 DEF Matched
<1>2. CASE Typed(v)
  <2>1. PICK t, x, i, j : TypeAndValue(v, t, x) /\ Read(toks, b, t, x, i, j)
    BY <1>2, TypedIsRead
  <2>2. /\ i \in Nat /\ j \in Nat /\ IsPair(toks, b + 1)
        /\ object_get_value(toks, b + 1, "type") = {i + 1} /\ Stands(toks, i, t)
        /\ object_get_value(toks, b + 1, "value") = {j + 1} /\ Stands(toks, j, x)
    BY <2>1 DEF Read, ReadAt
  <2>3. IsString(toks, i + 1, type) <=> t.kind = "STRING" /\ t.text = type
    BY <2>2, StandsAt DEF IsString
  <2>4. At(toks, j + 1).kind = x.kind BY <2>2, StandsAt
  <2>5. found = {y \in {j + 1} : IsString(toks, i + 1, type) /\ At(toks, y).kind = kind}
    BY <2>2 DEF json_matchKeyValue
  <2>6. IsTyped(v, type, kind) <=> t.kind = "STRING" /\ t.text = type /\ x.kind = kind
    BY <1>2, <2>1 DEF IsTyped, Typed, TypeAndValue
  <2>7. ValueOf(v) = x BY <2>1 DEF ValueOf, TypeAndValue
  <2>8. CASE IsTyped(v, type, kind)
    <3>1. found = {j + 1} BY <2>3, <2>4, <2>5, <2>6, <2>8
    <3> QED BY <2>2, <2>7, <2>8, <3>1 DEF Matched, FoundAt
  <2>9. CASE ~IsTyped(v, type, kind)
    <3>1. found = {} BY <2>3, <2>4, <2>5, <2>6, <2>9
    <3> QED BY <2>9, <3>1 DEF Matched
  <2> QED BY <2>8, <2>9
<1> QED BY <1>1, <1>2

(* The matcher of an optional argument finds that there is none, or one of *)
(* the type and kind.                                                      *)
IsSome(v, type, kind) == IsTyped(v, "Optional", "OBJECT") /\ IsTyped(ValueOf(v), type, kind)

MatchedOptional(toks, b, v, type, kind) ==
  IF IsNone(v) THEN json_matchOptionalKeyValue(toks, b + 1, type, kind) = {NoneToken}
  ELSE IF IsSome(v, type, kind)
  THEN FoundAt(json_matchOptionalKeyValue(toks, b + 1, type, kind), toks, ValueOf(ValueOf(v)))
  ELSE json_matchOptionalKeyValue(toks, b + 1, type, kind) = {}

(* json_matchOptionalKeyValue finds it inside, or that there is none.      *)
LEMMA OptionalMatched ==
  ASSUME NEW toks, NEW b, NEW v, Stands(toks, b, v), NEW type, NEW kind
  PROVE  MatchedOptional(toks, b, v, type, kind)
<1> DEFINE found == json_matchOptionalKeyValue(toks, b + 1, type, kind)
           Of(y) == CASE At(toks, y).kind = "PRIMITIVE" ->
                           IF toks[y].value.text = "null" THEN {NoneToken} ELSE {}
                      [] At(toks, y).kind = "OBJECT" -> json_matchKeyValue(toks, y, type, kind)
                      [] OTHER -> {}
<1>1. CASE ~Typed(v)
  <2>1. ~IsNone(v) /\ ~IsSome(v, type, kind) BY <1>1 DEF Typed, IsTyped, IsNone, IsSome
  <2>2. found = {} BY <1>1, UntypedIsUnread DEF Unread, json_matchOptionalKeyValue
  <2> QED BY <2>1, <2>2 DEF MatchedOptional
<1>2. CASE Typed(v)
  <2>1. PICK t, x, i, j : TypeAndValue(v, t, x) /\ Read(toks, b, t, x, i, j)
    BY <1>2, TypedIsRead
  <2>2. /\ i \in Nat /\ j \in Nat /\ IsPair(toks, b + 1)
        /\ object_get_value(toks, b + 1, "type") = {i + 1} /\ Stands(toks, i, t)
        /\ object_get_value(toks, b + 1, "value") = {j + 1} /\ Stands(toks, j, x)
    BY <2>1 DEF Read, ReadAt
  <2>3. IsString(toks, i + 1, "Optional") <=> t.kind = "STRING" /\ t.text = "Optional"
    BY <2>2, StandsAt DEF IsString
  <2>4. At(toks, j + 1).kind = x.kind /\ toks[j+1].value = x BY <2>2, StandsAt
  <2>5. found = IF ~IsString(toks, i + 1, "Optional") THEN {} ELSE UNION {Of(y) : y \in {j + 1}}
    BY <2>2 DEF json_matchOptionalKeyValue
  <2>6. UNION {Of(y) : y \in {j + 1}} = Of(j + 1)
    <3> HIDE DEF Of
    <3> QED OBVIOUS
  <2>7. \A k : IsTyped(v, "Optional", k) <=> t.kind = "STRING" /\ t.text = "Optional" /\ x.kind = k
    BY <1>2, <2>1 DEF IsTyped, Typed, TypeAndValue
  <2>8. ValueOf(v) = x BY <2>1 DEF ValueOf, TypeAndValue
  <2> HIDE DEF found, Of
  <2>9. CASE ~IsString(toks, i + 1, "Optional")
    <3>1. ~IsNone(v) /\ ~IsSome(v, type, kind) BY <2>3, <2>7, <2>9 DEF IsNone, IsSome
    <3> QED BY <2>5, <2>9, <3>1 DEF MatchedOptional, found
  <2>10. CASE IsString(toks, i + 1, "Optional")
    <3>1. found = Of(j + 1) BY <2>5, <2>6, <2>10
    <3>2. CASE x.kind = "PRIMITIVE"
      <4>1. found = IF x.text = "null" THEN {NoneToken} ELSE {} BY <2>4, <3>1, <3>2 DEF Of
      <4>2. (IsNone(v) <=> x.text = "null") /\ ~IsSome(v, type, kind)
        BY <2>3, <2>7, <2>8, <2>10, <3>2 DEF IsNone, IsSome
      <4> QED BY <4>1, <4>2 DEF MatchedOptional, found
    <3>3. CASE x.kind = "OBJECT"
      <4>1. found = json_matchKeyValue(toks, j + 1, type, kind) BY <2>4, <3>1, <3>3 DEF Of
      <4>2. Matched(toks, j, x, type, kind) BY <2>2, KeyValueMatched
      <4>3. ~IsNone(v) /\ (IsSome(v, type, kind) <=> IsTyped(x, type, kind))
        BY <2>3, <2>7, <2>8, <2>10, <3>3 DEF IsNone, IsSome
      <4> QED BY <2>8, <4>1, <4>2, <4>3 DEF MatchedOptional, Matched, found
    <3>4. CASE x.kind # "PRIMITIVE" /\ x.kind # "OBJECT"
      <4>1. found = {} BY <2>4, <3>1, <3>4 DEF Of
      <4>2. ~IsNone(v) /\ ~IsSome(v, type, kind) BY <2>7, <3>4 DEF IsNone, IsSome
      <4> QED BY <4>1, <4>2 DEF MatchedOptional, found
    <3> QED BY <3>2, <3>3, <3>4
  <2> QED BY <2>9, <2>10
<1> QED BY <1>1, <1>2

(* The matcher of any type and value.                                      *)
AnyType(v) == Typed(v) /\ \E t \in Pair(v, "type") : t.kind = "STRING"

TypeOf(v) == CHOOSE t \in Pair(v, "type") : TRUE

FoundPair(found, toks, t, x) ==
  \E i, j \in Nat : found = {<<i + 1, j + 1>>} /\ Stands(toks, i, t) /\ Stands(toks, j, x)

MatchedArbitrary(toks, b, v) ==
  IF AnyType(v)
  THEN FoundPair(json_matchArbitraryKeyValue(toks, b + 1), toks, TypeOf(v), ValueOf(v))
  ELSE json_matchArbitraryKeyValue(toks, b + 1) = {}

(* json_matchArbitraryKeyValue finds type and value of any pair of them.   *)
LEMMA ArbitraryMatched ==
  ASSUME NEW toks, NEW b, NEW v, Stands(toks, b, v)
  PROVE  MatchedArbitrary(toks, b, v)
<1> DEFINE found == json_matchArbitraryKeyValue(toks, b + 1)
<1>1. CASE ~Typed(v)
  <2>1. ~AnyType(v) BY <1>1 DEF AnyType
  <2>2. found = {} BY <1>1, UntypedIsUnread DEF Unread, json_matchArbitraryKeyValue
  <2> QED BY <2>1, <2>2 DEF MatchedArbitrary
<1>2. CASE Typed(v)
  <2>1. PICK t, x, i, j : TypeAndValue(v, t, x) /\ Read(toks, b, t, x, i, j)
    BY <1>2, TypedIsRead
  <2>2. /\ i \in Nat /\ j \in Nat /\ IsPair(toks, b + 1)
        /\ object_get_value(toks, b + 1, "type") = {i + 1} /\ Stands(toks, i, t)
        /\ object_get_value(toks, b + 1, "value") = {j + 1} /\ Stands(toks, j, x)
    BY <2>1 DEF Read, ReadAt
  <2>3. At(toks, i + 1).kind = t.kind BY <2>2, StandsAt
  <2>4. At(toks, j + 1).kind # "UNDEFINED" BY <2>2, StandsAt DEF Kinds
  <2>5. found = {m \in {<<i + 1, j + 1>>} : At(toks, m[1]).kind = "STRING" /\ At(toks, m[2]).kind # "UNDEFINED"}
    <3>1. {i + 1} \X {j + 1} = {<<i + 1, j + 1>>} OBVIOUS
    <3> QED BY <2>2, <3>1 DEF json_matchArbitraryKeyValue
  <2>6. AnyType(v) <=> t.kind = "STRING" BY <1>2, <2>1 DEF AnyType, TypeAndValue
  <2>7. ValueOf(v) = x /\ TypeOf(v) = t BY <2>1 DEF ValueOf, TypeOf, TypeAndValue
  <2> HIDE DEF found
  <2>8. CASE AnyType(v)
    <3>1. found = {<<i + 1, j + 1>>} BY <2>3, <2>4, <2>5, <2>6, <2>8
    <3> QED BY <2>2, <2>7, <2>8, <3>1 DEF MatchedArbitrary, FoundPair, found
  <2>9. CASE ~AnyType(v)
    <3>1. found = {} BY <2>3, <2>5, <2>6, <2>9
    <3> QED BY <2>9, <3>1 DEF MatchedArbitrary, found
  <2> QED BY <2>8, <2>9
<1> QED BY <1>1, <1>2

(* What is written of a token: its value, if its text fits.                *)
Printed(x) == {y \in {[value |-> x, width |-> TextWidth(TokensOf(x)[1])]} : Fits(x)}

(* json_extractToken prints the value, if its text fits.                   *)
LEMMA TokenExtracted ==
  ASSUME NEW toks, NEW j, NEW x, Stands(toks, j, x)
  PROVE  json_extractToken(toks, j + 1) = Printed(x)
<1>1. toks[j+1].value = x /\ x \in Document BY StandsHere DEF Stands
<1>2. PICK by \in Nat : Moved(toks, j, TokensOf(x), by) BY DEF Stands
<1>3. TokensOf(x) \in Seq(TokenOver(Document)) /\ 1 \in 1..Len(TokensOf(x)) BY <1>1, TokensOfDocument
<1>4. TokensOf(x)[1] \in TokenOver(Document) BY <1>3, ElementOfSeq
<1>5. toks[j+1].start = TokensOf(x)[1].start + by /\ toks[j+1].end = TokensOf(x)[1].end + by
  BY <1>2, <1>3 DEF Moved
<1>6. PICK y \in Nat, z \in Nat : y = TokensOf(x)[1].start /\ z = TokensOf(x)[1].end
  BY <1>4 DEF TokenOver
<1>7. (z + by) - (y + by) = z - y OBVIOUS
<1>8. TextWidth(toks[j+1]) = TextWidth(TokensOf(x)[1]) BY <1>5, <1>6, <1>7 DEF TextWidth
<1> QED BY <1>1, <1>8 DEF json_extractToken, Printed, Fits

IsSequence(s) == \E S : s \in Seq(S)

LEMMA IsSequenceLen ==
  ASSUME NEW s, IsSequence(s)
  PROVE  Len(s) \in Nat /\ DOMAIN s = 1..Len(s)
BY DEF IsSequence

(* A screen says a fact, those of a sequence say the facts of another.     *)
Says(shown, fact) == shown.title = fact.title /\ shown.said = {fact.value}

SayAll(screens, facts) ==
  /\ IsSequence(screens) /\ IsSequence(facts)
  /\ Len(screens) = Len(facts)
  /\ \A n \in 1..Len(screens) : Says(screens[n], facts[n])

(* A screen that says nothing is among them.                               *)
Silent(screens) ==
  /\ IsSequence(screens)
  /\ \E n \in 1..Len(screens) : screens[n].said = {}

(* A part of the screens shows the facts if all is well, and else does not *)
(* print.                                                                  *)
Shown(parts, facts, well) ==
  IF well THEN \E screens : parts = {screens} /\ SayAll(screens, facts)
  ELSE parts = {} \/ \E screens : parts = {screens} /\ Silent(screens)

LEMMA OneSays ==
  ASSUME NEW shown, NEW fact, Says(shown, fact)
  PROVE  SayAll(<<shown>>, <<fact>>)
<1>1. IsSequence(<<shown>>) /\ IsSequence(<<fact>>)
  <2>1. <<shown>> \in Seq({shown}) /\ <<fact>> \in Seq({fact}) OBVIOUS
  <2> QED BY <2>1 DEF IsSequence
<1>2. Len(<<shown>>) = 1 /\ Len(<<fact>>) = 1 /\ <<shown>>[1] = shown /\ <<fact>>[1] = fact OBVIOUS
<1>3. \A n \in 1..1 : n = 1 OBVIOUS
<1> QED BY <1>1, <1>2, <1>3 DEF SayAll

LEMMA OneSilent ==
  ASSUME NEW shown, shown.said = {}
  PROVE  Silent(<<shown>>)
<1>1. IsSequence(<<shown>>)
  <2>1. <<shown>> \in Seq({shown}) OBVIOUS
  <2> QED BY <2>1 DEF IsSequence
<1>2. Len(<<shown>>) = 1 /\ <<shown>>[1] = shown /\ 1 \in 1..1 OBVIOUS
<1> QED BY <1>1, <1>2 DEF Silent

LEMMA FunctionIsSequence ==
  ASSUME NEW n \in Nat, NEW f, f = [i \in 1..n |-> f[i]]
  PROVE  IsSequence(f) /\ Len(f) = n
<1> DEFINE S == {f[i] : i \in 1..n}
<1>1. \A i \in 1..n : f[i] \in S OBVIOUS
<1> HIDE DEF S
<1>2. [i \in 1..n |-> f[i]] \in Seq(S) BY <1>1, IsASeq
<1>3. f \in Seq(S) BY <1>2
<1>4. Len([i \in 1..n |-> f[i]]) = n OBVIOUS
<1> QED BY <1>3, <1>4 DEF IsSequence

-----------------------------------------------------------------------------
Short(arg) == Len(TokensOf(arg)) <= MAX_NUMBER_OF_TOKENS

(* Documents of too many tokens are not parsed.                            *)
LEMMA ParsedShort ==
  ASSUME NEW arg
  PROVE  json_parse(arg) = IF Short(arg) THEN {TokensOf(arg)} ELSE {}
BY DEF json_parse, Short

(* An argument is printed as declared, or not at all.                      *)
LEMMA ArgumentPrinted ==
  ASSUME NEW d, NEW arg \in Document
  PROVE  parser_printArgument(d, arg) =
           IF Short(arg) /\ IsTyped(arg, d.type, d.kind) THEN Printed(ValueOf(arg)) ELSE {}
<1> DEFINE toks == TokensOf(arg)
           Of(t) == UNION {json_extractToken(t, i) : i \in json_matchKeyValue(t, 1, d.type, d.kind)}
<1>1. parser_printArgument(d, arg) = UNION {Of(t) : t \in json_parse(arg)}
  BY DEF parser_printArgument
<1>2. CASE ~Short(arg) BY <1>1, <1>2, ParsedShort
<1>3. CASE Short(arg)
  <2>1. parser_printArgument(d, arg) = Of(toks)
    <3> HIDE DEF Of, toks
    <3>1. json_parse(arg) = {toks} BY <1>3, ParsedShort DEF toks
    <3> QED BY <1>1, <3>1
  <2>2. Stands(toks, 0, arg) BY RootStands
  <2>3. Matched(toks, 0, arg, d.type, d.kind) BY <2>2, KeyValueMatched
  <2>4. 0 + 1 = 1 OBVIOUS
  <2>5. CASE IsTyped(arg, d.type, d.kind)
    <3>1. FoundAt(json_matchKeyValue(toks, 1, d.type, d.kind), toks, ValueOf(arg))
      BY <2>3, <2>4, <2>5 DEF Matched
    <3>2. PICK j \in Nat : json_matchKeyValue(toks, 1, d.type, d.kind) = {j + 1}
                             /\ Stands(toks, j, ValueOf(arg))
      BY <3>1 DEF FoundAt
    <3>3. json_extractToken(toks, j + 1) = Printed(ValueOf(arg)) BY <3>2, TokenExtracted
    <3>4. Of(toks) = json_extractToken(toks, j + 1) BY <3>2
    <3> QED BY <1>3, <2>1, <2>5, <3>3, <3>4
  <2>6. CASE ~IsTyped(arg, d.type, d.kind)
    <3>1. json_matchKeyValue(toks, 1, d.type, d.kind) = {} BY <2>3, <2>4, <2>6 DEF Matched
    <3>2. Of(toks) = {} BY <3>1
    <3> QED BY <2>1, <2>6, <3>2
  <2> QED BY <2>5, <2>6
<1> QED BY <1>2, <1>3

(* The screen of a value says the value, if it fits.                       *)
LEMMA PrintedSays ==
  ASSUME NEW title, NEW x, NEW checked
  PROVE  /\ Fits(x) => Says(pageString(title, Printed(x), checked), Fact(title, x))
         /\ ~Fits(x) => pageString(title, Printed(x), checked).said = {}
<1>1. Fits(x) => {p.value : p \in Printed(x)} = {x}
  <2> DEFINE q == [value |-> x, width |-> TextWidth(TokensOf(x)[1])]
  <2>1. Fits(x) => Printed(x) = {q} BY DEF Printed
  <2>2. q.value = x OBVIOUS
  <2> HIDE DEF q
  <2> QED BY <2>1, <2>2
<1>2. ~Fits(x) => {p.value : p \in Printed(x)} = {} BY DEF Printed
<1>3. /\ pageString(title, Printed(x), checked).title = title
      /\ pageString(title, Printed(x), checked).said = {p.value : p \in Printed(x)}
  BY DEF pageString, Screen
<1>4. Fact(title, x).title = title /\ Fact(title, x).value = x BY DEF Fact
<1> QED BY <1>1, <1>2, <1>3, <1>4 DEF Says

(* Nothing printed says nothing.                                           *)
LEMMA NothingSays ==
  ASSUME NEW title, NEW checked
  PROVE  pageString(title, {}, checked).said = {}
BY DEF pageString, Screen

(* What one argument of the packet shows.                                  *)
ArgumentShown(d, arg) == Shown(ArgumentScreens(d, arg), ArgumentFacts(d, arg), WellTyped(d, arg))

(* The four kinds of arguments: each shows its facts if it is well typed.  *)
LEMMA NormalShown ==
  ASSUME NEW d, NEW arg \in Document, d.argument = "NORMAL"
  PROVE  ArgumentShown(d, arg)
<1> DEFINE screen1 == pageString(d.title, parser_printArgument(d, arg), TRUE)
           fact == Fact(d.title, ValueOf(arg))
           well == Short(arg) /\ AsDeclared(d, arg)
<1>1. ArgumentScreens(d, arg) = {<<screen1>>} BY DEF ArgumentScreens
<1>2. ArgumentFacts(d, arg) = <<fact>> BY DEF ArgumentFacts
<1>3. WellTyped(d, arg) <=> well BY DEF WellTyped, Short
<1>4. well => Says(screen1, fact)
  BY ArgumentPrinted, PrintedSays DEF AsDeclared
<1>5. ~well => screen1.said = {}
  BY ArgumentPrinted, PrintedSays, NothingSays DEF AsDeclared
<1> HIDE DEF screen1, fact, well
<1>6. Shown({<<screen1>>}, <<fact>>, WellTyped(d, arg)) 
  <2>1. CASE well BY <1>3, <1>4, <2>1, OneSays DEF Shown
  <2>2. CASE ~well BY <1>3, <1>5, <2>2, OneSilent DEF Shown
  <2> QED BY <2>1, <2>2
<1> QED BY <1>1, <1>2, <1>6 DEF ArgumentShown

LEMMA EnumShown ==
  ASSUME NEW d, NEW arg \in Document, d.argument = "ENUM"
  PROVE  ArgumentShown(d, arg)
<1> DEFINE x == ValueOf(arg)
           screen1 == pageString(d.title, parser_printEnumValue(d, arg), TRUE)
           fact == Fact(d.title, d.names[Number[x.text]])
           well == Short(arg) /\ AsDeclared(d, arg) /\ Number[x.text] \in DOMAIN d.names
<1>1. ArgumentScreens(d, arg) = {<<screen1>>} BY DEF ArgumentScreens
<1>2. ArgumentFacts(d, arg) = <<fact>> BY DEF ArgumentFacts
<1>3. WellTyped(d, arg) <=> well BY DEF WellTyped, Short
<1>4. /\ screen1.title = d.title
      /\ screen1.said = {p.value : p \in parser_printEnumValue(d, arg)}
  BY DEF pageString, Screen
<1>5. well => screen1.said = {d.names[Number[x.text]]}
  <2> SUFFICES ASSUME well PROVE screen1.said = {d.names[Number[x.text]]} OBVIOUS
  <2>1. parser_printArgument(d, arg) = Printed(x) BY ArgumentPrinted DEF AsDeclared
  <2> DEFINE q == [value |-> x, width |-> TextWidth(TokensOf(x)[1])]
             y == Text(d.names[Number[x.text]])
  <2>2. Printed(x) = {q} BY DEF Printed, AsDeclared
  <2>3. q.value = x OBVIOUS
  <2>4. y.value = d.names[Number[x.text]] BY DEF Text
  <2>5. Number[x.text] \in DOMAIN d.names OBVIOUS
  <2> HIDE DEF q, x
  <2>6. parser_printEnumValue(d, arg) = {y}
    BY <2>1, <2>2, <2>3, <2>5 DEF parser_printEnumValue
  <2> HIDE DEF y, screen1
  <2>7. {p.value : p \in {y}} = {y.value} OBVIOUS
  <2> QED BY <1>4, <2>4, <2>6, <2>7
<1>6. ~well => screen1.said = {}
  <2> SUFFICES ASSUME ~well PROVE screen1.said = {} OBVIOUS
  <2>1. parser_printEnumValue(d, arg) = {}
    <3>1. CASE ~(Short(arg) /\ AsDeclared(d, arg))
      <4>1. parser_printArgument(d, arg) = {} BY <3>1, ArgumentPrinted DEF AsDeclared, Printed
      <4> QED BY <4>1 DEF parser_printEnumValue
    <3>2. CASE Short(arg) /\ AsDeclared(d, arg) /\ ~(Number[x.text] \in DOMAIN d.names)
      <4>1. parser_printArgument(d, arg) = Printed(x) BY <3>2, ArgumentPrinted DEF AsDeclared
      <4>2. \A p \in Printed(x) : p.value = x BY DEF Printed
      <4> QED BY <3>2, <4>1, <4>2 DEF parser_printEnumValue
    <3> QED BY <3>1, <3>2
  <2> QED BY <1>4, <2>1
<1>7. well => Says(screen1, fact) BY <1>4, <1>5 DEF Says, Fact
<1> HIDE DEF screen1, fact, well
<1>8. Shown({<<screen1>>}, <<fact>>, WellTyped(d, arg)) 
  <2>1. CASE well BY <1>3, <1>7, <2>1, OneSays DEF Shown
  <2>2. CASE ~well BY <1>3, <1>6, <2>2, OneSilent DEF Shown
  <2> QED BY <2>1, <2>2
<1> QED BY <1>1, <1>2, <1>8 DEF ArgumentShown

LEMMA OptionalShown ==
  ASSUME NEW d, NEW arg \in Document, d.argument = "OPTIONAL"
  PROVE  ArgumentShown(d, arg)
<1> DEFINE toks == TokensOf(arg)
           x == ValueOf(ValueOf(arg))
           Found(t) == {<<t, i>> : i \in json_matchOptionalKeyValue(t, 1, d.type, d.kind)}
           found == UNION {Found(t) : t \in json_parse(arg)}
           none == \E f \in found : f[2] = NoneToken
           screen1 == parser_printOptionalArgument(d, arg)
           fact == Fact(d.title, IF IsNone(arg) THEN "None" ELSE x)
           well == Short(arg) /\ (IsNone(arg) \/ (IsSome(arg, d.type, d.kind) /\ Fits(x)))
<1>1. ArgumentScreens(d, arg) = {<<screen1>>} BY DEF ArgumentScreens
<1>2. ArgumentFacts(d, arg) = <<fact>> BY DEF ArgumentFacts
<1>3. WellTyped(d, arg) <=> well BY DEF WellTyped, Short, IsSome, AsDeclared
<1>4. screen1 = IF none THEN OnePage(d.title, "None")
                ELSE pageString(d.title, UNION {json_extractToken(f[1], f[2]) : f \in found}, FALSE)
  BY DEF parser_printOptionalArgument
<1>5. CASE ~Short(arg)
  <2>1. found = {} BY <1>5, ParsedShort
  <2> HIDE DEF found
  <2>2. screen1 = pageString(d.title, {}, FALSE) BY <1>4, <2>1
  <2>3. screen1.said = {} BY <2>2, NothingSays
  <2> HIDE DEF screen1, fact
  <2> QED BY <1>1, <1>2, <1>3, <1>5, <2>3, OneSilent DEF ArgumentShown, Shown
<1>6. CASE Short(arg)
  <2>1. found = Found(toks)
    <3> HIDE DEF Found, toks
    <3>1. json_parse(arg) = {toks} BY <1>6, ParsedShort DEF toks
    <3> QED BY <3>1
  <2>2. Stands(toks, 0, arg) BY RootStands
  <2>3. MatchedOptional(toks, 0, arg, d.type, d.kind) BY <2>2, OptionalMatched
  <2>4. 0 + 1 = 1 OBVIOUS
  <2> HIDE DEF found, toks, screen1
  <2>5. CASE IsNone(arg)
    <3>1. json_matchOptionalKeyValue(toks, 1, d.type, d.kind) = {NoneToken}
      BY <2>3, <2>4, <2>5 DEF MatchedOptional
    <3>2. found = {<<toks, NoneToken>>} BY <2>1, <3>1
    <3>3. screen1 = OnePage(d.title, "None") BY <1>4, <3>2
    <3>4. Says(screen1, fact) BY <2>5, <3>3 DEF Says, OnePage, Screen, Fact
    <3> HIDE DEF fact
    <3> QED BY <1>1, <1>2, <1>3, <1>6, <2>5, <3>4, OneSays DEF ArgumentShown, Shown
  <2>6. CASE ~IsNone(arg) /\ IsSome(arg, d.type, d.kind)
    <3>1. FoundAt(json_matchOptionalKeyValue(toks, 1, d.type, d.kind), toks, x)
      BY <2>3, <2>4, <2>6 DEF MatchedOptional
    <3>2. PICK j \in Nat : json_matchOptionalKeyValue(toks, 1, d.type, d.kind) = {j + 1}
                             /\ Stands(toks, j, x)
      BY <3>1 DEF FoundAt
    <3>3. json_extractToken(toks, j + 1) = Printed(x) BY <3>2, TokenExtracted
    <3>4. found = {<<toks, j + 1>>} BY <2>1, <3>2
    <3>5. ~none
      <4>1. j + 1 # NoneToken BY DEF NoneToken
      <4> QED BY <3>4, <4>1
    <3>6. UNION {json_extractToken(f[1], f[2]) : f \in found} = Printed(x) BY <3>3, <3>4
    <3>7. screen1 = pageString(d.title, Printed(x), FALSE) BY <1>4, <3>5, <3>6
    <3>8. fact = Fact(d.title, x) BY <2>6
    <3> HIDE DEF fact, x
    <3>9. CASE Fits(x)
      <4>1. Says(screen1, fact) BY <3>7, <3>8, <3>9, PrintedSays
      <4> QED BY <1>1, <1>2, <1>3, <1>6, <2>6, <3>9, <4>1, OneSays DEF ArgumentShown, Shown
    <3>10. CASE ~Fits(x)
      <4>1. screen1.said = {} BY <3>7, <3>10, PrintedSays
      <4> QED BY <1>1, <1>3, <2>6, <3>10, <4>1, OneSilent DEF ArgumentShown, Shown
    <3> QED BY <3>9, <3>10
  <2>7. CASE ~IsNone(arg) /\ ~IsSome(arg, d.type, d.kind)
    <3>1. json_matchOptionalKeyValue(toks, 1, d.type, d.kind) = {}
      BY <2>3, <2>4, <2>7 DEF MatchedOptional
    <3>2. found = {} BY <2>1, <3>1
    <3>3. screen1 = pageString(d.title, {}, FALSE) BY <1>4, <3>2
    <3>4. screen1.said = {} BY <3>3, NothingSays
    <3> HIDE DEF fact
    <3> QED BY <1>1, <1>3, <2>7, <3>4, OneSilent DEF ArgumentShown, Shown
  <2> QED BY <2>5, <2>6, <2>7
<1> QED BY <1>5, <1>6

(* The elements of an argument that is an array.                           *)
IsArray(arg) == IsTyped(arg, "Array", "ARRAY")

ArrayFound(arg) ==
  \E j \in Nat :
    /\ Stands(TokensOf(arg), j, ValueOf(arg))
    /\ ValueOf(arg).kind = "ARRAY"
    /\ ArrayOf(arg) = {[tokens   |-> TokensOf(arg),
                        elements |-> [n \in 1..Len(ValueOf(arg).parts) |-> PartAt(j, ValueOf(arg), n)]]}

(* The array of an argument and its elements.                              *)
LEMMA ArrayIsFound ==
  ASSUME NEW arg \in Document
  PROVE  IF Short(arg) /\ IsArray(arg) THEN ArrayFound(arg) ELSE ArrayOf(arg) = {}
<1> DEFINE toks == TokensOf(arg)
           x == ValueOf(arg)
           Of(t) == {[tokens |-> t, elements |-> array_elements(t, a)] :
                       a \in json_matchKeyValue(t, 1, "Array", "ARRAY")}
<1>1. ArrayOf(arg) = UNION {Of(t) : t \in json_parse(arg)} BY DEF ArrayOf
<1>2. CASE ~Short(arg) BY <1>1, <1>2, ParsedShort
<1>3. CASE Short(arg)
  <2>1. ArrayOf(arg) = Of(toks)
    <3> HIDE DEF Of, toks
    <3>1. json_parse(arg) = {toks} BY <1>3, ParsedShort DEF toks
    <3> QED BY <1>1, <3>1
  <2>2. Stands(toks, 0, arg) BY RootStands
  <2>3. Matched(toks, 0, arg, "Array", "ARRAY") BY <2>2, KeyValueMatched
  <2>4. 0 + 1 = 1 OBVIOUS
  <2>5. CASE IsArray(arg)
    <3>1. FoundAt(json_matchKeyValue(toks, 1, "Array", "ARRAY"), toks, x)
      BY <2>3, <2>4, <2>5 DEF Matched, IsArray
    <3>2. PICK j \in Nat : json_matchKeyValue(toks, 1, "Array", "ARRAY") = {j + 1} /\ Stands(toks, j, x)
      BY <3>1 DEF FoundAt
    <3>3. x.kind = "ARRAY"
      <4>1. Typed(arg) BY <2>5 DEF IsArray, IsTyped, Typed
      <4>2. PICK t, y, i, k : TypeAndValue(arg, t, y) /\ Read(toks, 0, t, y, i, k)
        BY <2>2, <4>1, TypedIsRead
      <4> QED BY <2>5, <4>2 DEF IsArray, IsTyped, TypeAndValue, ValueOf
    <3>4. ElementsFound(toks, j, x) BY <3>2, <3>3, ElementsOfArray
    <3>5. Of(toks) = {[tokens |-> toks, elements |-> array_elements(toks, j + 1)]} BY <3>2
    <3>6. array_elements(toks, j + 1) = [n \in 1..Len(x.parts) |-> PartAt(j, x, n)]
      BY <3>4 DEF ElementsFound
    <3>7. ArrayOf(arg) = {[tokens |-> toks, elements |-> [n \in 1..Len(x.parts) |-> PartAt(j, x, n)]]}
      BY <2>1, <3>5, <3>6
    <3>8. ArrayFound(arg) BY <3>2, <3>3, <3>7 DEF ArrayFound
    <3> QED BY <1>3, <2>5, <3>8
  <2>6. CASE ~IsArray(arg)
    <3>1. json_matchKeyValue(toks, 1, "Array", "ARRAY") = {} BY <2>3, <2>4, <2>6 DEF Matched, IsArray
    <3>2. Of(toks) = {} BY <3>1
    <3> QED BY <2>1, <2>6, <3>2
  <2> QED BY <2>5, <2>6
<1> QED BY <1>2, <1>3

(* Every element of it is printed as declared, or not at all.              *)
LEMMA ElementPrinted ==
  ASSUME NEW d, NEW arg \in Document, Short(arg), IsArray(arg),
         NEW k \in 1..Len(ValueOf(arg).parts)
  PROVE  parser_printArgumentArray(d, arg, k) =
           IF /\ Len(ValueOf(arg).parts) < MAX_JSON_ARRAY_TOKEN_COUNT
              /\ IsTyped(ValueOf(arg).parts[k], d.type, d.kind)
           THEN Printed(ValueOf(ValueOf(arg).parts[k])) ELSE {}
<1> DEFINE toks == TokensOf(arg)
           x == ValueOf(arg)
           L == Len(x.parts)
           el == x.parts[k]
           Of(a) == UNION {json_extractToken(a.tokens, i) :
                             i \in json_matchKeyValue(a.tokens, a.elements[k], d.type, d.kind)}
           few == {a \in ArrayOf(arg) : Len(a.elements) < MAX_JSON_ARRAY_TOKEN_COUNT}
<1>1. parser_printArgumentArray(d, arg, k) = UNION {Of(a) : a \in few}
  BY DEF parser_printArgumentArray
<1>2. ArrayFound(arg) BY ArrayIsFound
<1>3. PICK j \in Nat :
        /\ Stands(toks, j, x) /\ x.kind = "ARRAY"
        /\ ArrayOf(arg) = {[tokens |-> toks, elements |-> [n \in 1..L |-> PartAt(j, x, n)]]}
  BY <1>2 DEF ArrayFound
<1> DEFINE E == [n \in 1..L |-> PartAt(j, x, n)]
           a0 == [tokens |-> toks, elements |-> E]
<1>4. x \in Document /\ Compound(x) BY <1>3 DEF Stands, Compound
<1>5. L \in Nat BY <1>3, <1>4, PartsBetween
<1>6. Len(E) = L /\ E[k] = PartAt(j, x, k) BY <1>5
<1>7. /\ Stands(toks, PartAt(j, x, k) - 1, el) /\ PartAt(j, x, k) \in Nat
  BY <1>3, <1>4, PartStands
<1>8. PartAt(j, x, k) - 1 + 1 = PartAt(j, x, k) BY <1>7
<1>9. Matched(toks, PartAt(j, x, k) - 1, el, d.type, d.kind) BY <1>7, KeyValueMatched
<1>10. a0.tokens = toks /\ a0.elements = E OBVIOUS
<1>11. ArrayOf(arg) = {a0} BY <1>3
<1> HIDE DEF a0, E, toks, el, L
<1>12. CASE ~(L < MAX_JSON_ARRAY_TOKEN_COUNT)
  <2>1. few = {} BY <1>6, <1>10, <1>11, <1>12
  <2> HIDE DEF Of, few
  <2>2. parser_printArgumentArray(d, arg, k) = {} BY <1>1, <2>1
  <2> QED BY <1>12, <2>2 DEF L
<1>13. CASE L < MAX_JSON_ARRAY_TOKEN_COUNT
  <2>1. few = {a0} BY <1>6, <1>10, <1>11, <1>13
  <2>2. parser_printArgumentArray(d, arg, k) = Of(a0)
    <3> HIDE DEF Of, few
    <3> QED BY <1>1, <2>1
  <2>3. Of(a0) = UNION {json_extractToken(toks, i) :
                          i \in json_matchKeyValue(toks, PartAt(j, x, k), d.type, d.kind)}
    BY <1>6, <1>10
  <2> HIDE DEF Of, few
  <2>4. CASE IsTyped(el, d.type, d.kind)
    <3>1. FoundAt(json_matchKeyValue(toks, PartAt(j, x, k), d.type, d.kind), toks, ValueOf(el))
      BY <1>8, <1>9, <2>4 DEF Matched
    <3>2. PICK i \in Nat : /\ json_matchKeyValue(toks, PartAt(j, x, k), d.type, d.kind) = {i + 1}
                           /\ Stands(toks, i, ValueOf(el))
      BY <3>1 DEF FoundAt
    <3>3. json_extractToken(toks, i + 1) = Printed(ValueOf(el)) BY <3>2, TokenExtracted
    <3>4. Of(a0) = Printed(ValueOf(el)) BY <2>3, <3>2, <3>3
    <3> QED BY <1>13, <2>2, <2>4, <3>4 DEF L, el
  <2>5. CASE ~IsTyped(el, d.type, d.kind)
    <3>1. json_matchKeyValue(toks, PartAt(j, x, k), d.type, d.kind) = {}
      BY <1>8, <1>9, <2>5 DEF Matched
    <3>2. Of(a0) = {} BY <2>3, <3>1
    <3> QED BY <2>2, <2>5, <3>2 DEF el
  <2> QED BY <2>4, <2>5
<1> QED BY <1>12, <1>13

LEMMA ArrayShown ==
  ASSUME NEW d, NEW arg \in Document, d.argument = "ARRAY", d.min \in Nat, d.max \in Nat
  PROVE  ArgumentShown(d, arg)
<1> DEFINE x == ValueOf(arg)
           parts == x.parts
           L == Len(parts)
           Of(n) == [k \in 1..n |-> pageString(<<d.title, k>>, parser_printArgumentArray(d, arg, k), TRUE)]
           facts == [k \in DOMAIN parts |-> Fact(<<d.title, k>>, ValueOf(parts[k]))]
           counted == _countArgumentItems(d, arg)
           well == /\ Short(arg) /\ IsArray(arg) /\ L \in d.min..d.max
                   /\ L < MAX_JSON_ARRAY_TOKEN_COUNT \/ parts = <<>>
                   /\ \A y \in Range(parts) : AsDeclared(d, y)
<1>1. ArgumentScreens(d, arg) = {Of(n) : n \in counted} BY DEF ArgumentScreens
<1>2. ArgumentFacts(d, arg) = facts BY DEF ArgumentFacts
<1>3. WellTyped(d, arg) <=> well BY DEF WellTyped, Short, IsArray
<1>4. counted = {Len(a.elements) : a \in ArrayOf(arg)} \cap (d.min..d.max)
  BY DEF _countArgumentItems
<1>5. CASE ~(Short(arg) /\ IsArray(arg))
  <2>1. ArrayOf(arg) = {} BY <1>5, ArrayIsFound
  <2>2. counted = {} BY <1>4, <2>1
  <2> HIDE DEF counted, Of
  <2>3. ArgumentScreens(d, arg) = {} BY <1>1, <2>2
  <2> HIDE DEF facts
  <2> QED BY <1>3, <1>5, <2>3 DEF ArgumentShown, Shown
<1>6. CASE Short(arg) /\ IsArray(arg)
  <2>1. PICK j \in Nat :
          /\ Stands(TokensOf(arg), j, x) /\ x.kind = "ARRAY"
          /\ ArrayOf(arg) = {[tokens |-> TokensOf(arg), elements |-> [n \in 1..L |-> PartAt(j, x, n)]]}
    <3>1. ArrayFound(arg) BY <1>6, ArrayIsFound
    <3> QED BY <3>1 DEF ArrayFound
  <2>2. Compound(x) BY <2>1 DEF Stands, Compound
  <2>3. L \in Nat /\ parts \in Seq(Document) BY <2>1, <2>2, PartsBetween
  <2>4. counted = {L} \cap (d.min..d.max)
    <3> DEFINE a0 == [tokens |-> TokensOf(arg), elements |-> [n \in 1..L |-> PartAt(j, x, n)]]
    <3>1. Len(a0.elements) = L BY <2>3
    <3>2. ArrayOf(arg) = {a0} BY <2>1
    <3> HIDE DEF a0, L, counted
    <3> QED BY <1>4, <3>1, <3>2
  <2>5. DOMAIN parts = 1..L BY <2>3
  <2>6. ASSUME NEW k \in 1..L
        PROVE  parser_printArgumentArray(d, arg, k) =
                 IF L < MAX_JSON_ARRAY_TOKEN_COUNT /\ IsTyped(parts[k], d.type, d.kind)
                 THEN Printed(ValueOf(parts[k])) ELSE {}
    BY <1>6, ElementPrinted
  <2> HIDE DEF counted, parts
  <2>7. CASE ~(L \in d.min..d.max)
    <3>1. counted = {} BY <2>4, <2>7
    <3> HIDE DEF Of, L
    <3>2. ArgumentScreens(d, arg) = {} BY <1>1, <3>1
    <3> HIDE DEF facts
    <3> QED BY <1>3, <2>7, <3>2 DEF ArgumentShown, Shown
  <2>8. CASE L \in d.min..d.max
    <3>1. ArgumentScreens(d, arg) = {Of(L)}
      <4>1. counted = {L} BY <2>4, <2>8
      <4> HIDE DEF Of, L
      <4> QED BY <1>1, <4>1
    <3> DEFINE screens == Of(L)
    <3>2. /\ IsSequence(screens) /\ Len(screens) = L
          /\ \A k \in 1..L :
               screens[k] = pageString(<<d.title, k>>, parser_printArgumentArray(d, arg, k), TRUE)
      <4>1. screens = [k \in 1..L |-> screens[k]] OBVIOUS
      <4>2. \A k \in 1..L :
              screens[k] = pageString(<<d.title, k>>, parser_printArgumentArray(d, arg, k), TRUE)
        OBVIOUS
      <4> HIDE DEF screens, L
      <4>3. IsSequence(screens) /\ Len(screens) = L BY <2>3, <4>1, FunctionIsSequence DEF L
      <4> QED BY <4>2, <4>3
    <3>3. /\ IsSequence(facts) /\ Len(facts) = L
          /\ \A k \in 1..L : facts[k] = Fact(<<d.title, k>>, ValueOf(parts[k]))
      <4>1. facts = [k \in 1..L |-> facts[k]] BY <2>5
      <4>2. \A k \in 1..L : facts[k] = Fact(<<d.title, k>>, ValueOf(parts[k])) BY <2>5
      <4> HIDE DEF facts, L
      <4>3. IsSequence(facts) /\ Len(facts) = L BY <2>3, <4>1, FunctionIsSequence DEF L
      <4> QED BY <4>2, <4>3
    <3> HIDE DEF screens, facts, Of
    <3>4. CASE well
      <4>1. ASSUME NEW k \in 1..L PROVE Says(screens[k], facts[k])
        <5>1. L < MAX_JSON_ARRAY_TOKEN_COUNT
          <6>1. parts = <<>> => L = 0 OBVIOUS
          <6>2. L # 0 BY <2>3, <4>1
          <6> QED BY <3>4, <6>1, <6>2
        <5>2. AsDeclared(d, parts[k]) BY <2>5, <3>4 DEF Range
        <5>3. parser_printArgumentArray(d, arg, k) = Printed(ValueOf(parts[k])) /\ Fits(ValueOf(parts[k]))
          BY <2>6, <5>1, <5>2 DEF AsDeclared
        <5>4. Says(pageString(<<d.title, k>>, Printed(ValueOf(parts[k])), TRUE),
                   Fact(<<d.title, k>>, ValueOf(parts[k])))
          BY <5>3, PrintedSays
        <5> QED BY <3>2, <3>3, <5>3, <5>4
      <4>2. SayAll(screens, facts) BY <3>2, <3>3, <4>1 DEF SayAll
      <4>3. Shown({screens}, facts, TRUE) BY <4>2 DEF Shown
      <4> HIDE DEF well
      <4> QED BY <1>2, <1>3, <3>1, <3>4, <4>3 DEF ArgumentShown, Shown, screens
    <3>5. CASE ~well
      <4>1. \E k \in 1..L : ~(L < MAX_JSON_ARRAY_TOKEN_COUNT /\ AsDeclared(d, parts[k]))
        <5>1. CASE ~(L < MAX_JSON_ARRAY_TOKEN_COUNT \/ parts = <<>>)
          <6>1. L # 0 BY <2>3, <5>1
          <6>2. 1 \in 1..L BY <2>3, <6>1
          <6> QED BY <5>1, <6>2
        <5>2. CASE ~(\A y \in Range(parts) : AsDeclared(d, y))
          BY <2>5, <5>2 DEF Range
        <5> QED BY <1>6, <2>8, <3>5, <5>1, <5>2
      <4>2. PICK k \in 1..L : ~(L < MAX_JSON_ARRAY_TOKEN_COUNT /\ AsDeclared(d, parts[k]))
        BY <4>1
      <4>3. screens[k].said = {}
        <5>1. CASE L < MAX_JSON_ARRAY_TOKEN_COUNT /\ IsTyped(parts[k], d.type, d.kind)
          <6>1. ~Fits(ValueOf(parts[k])) BY <4>2, <5>1 DEF AsDeclared
          <6>2. parser_printArgumentArray(d, arg, k) = Printed(ValueOf(parts[k])) BY <2>6, <5>1
          <6> QED BY <3>2, <6>1, <6>2, PrintedSays
        <5>2. CASE ~(L < MAX_JSON_ARRAY_TOKEN_COUNT /\ IsTyped(parts[k], d.type, d.kind))
          <6>1. parser_printArgumentArray(d, arg, k) = {} BY <2>6, <5>2
          <6> QED BY <3>2, <6>1, NothingSays
        <5> QED BY <5>1, <5>2
      <4>4. Silent(screens) BY <3>2, <4>3 DEF Silent
      <4>5. Shown({screens}, facts, FALSE) BY <4>4 DEF Shown
      <4> HIDE DEF well
      <4> QED BY <1>2, <1>3, <3>1, <3>5, <4>5 DEF ArgumentShown, Shown, screens
    <3> QED BY <3>4, <3>5
  <2> QED BY <2>7, <2>8
<1> QED BY <1>5, <1>6

(* So every argument of a packet is shown as declared, or does not print.  *)
LEMMA DescribedShown ==
  ASSUME NEW d, NEW count, IsDescriptor(d, count), NEW arg \in Document
  PROVE  ArgumentShown(d, arg)
BY NormalShown, EnumShown, OptionalShown, ArrayShown DEF IsDescriptor

-----------------------------------------------------------------------------
(* What an argument shows without a packet.                                *)
LEMMA ArbitraryShown ==
  ASSUME NEW i, NEW arg \in Document
  PROVE  Shown({<<parser_printArbitraryArgument(i, arg)>>}, <<ArbitraryFact(i, arg)>>, Arbitrary(arg))
<1> DEFINE toks == TokensOf(arg)
           t == TypeOf(arg)
           x == ValueOf(arg)
           well == Short(arg) /\ AnyType(arg)
           Of(tk) == {<<tk, m>> : m \in json_matchArbitraryKeyValue(tk, 1)}
           found == UNION {Of(tk) : tk \in json_parse(arg)}
           P(tk, v) == IF json_extractToken(tk, v) = {} THEN {TooLong} ELSE json_extractToken(tk, v)
           f == CHOOSE f_1 \in found : TRUE
           screen1 == parser_printArbitraryArgument(i, arg)
           fact == ArbitraryFact(i, arg)
<1>1. screen1 = IF found = {} THEN Screen("", {}, 1, FALSE)
                ELSE pageString(<<i, f[1][f[2][1]].value.text>>, P(f[1], f[2][2]), FALSE)
  BY DEF parser_printArbitraryArgument
<1>2. Arbitrary(arg) <=> well
  BY DEF Arbitrary, Short, AnyType, Typed
<1>3. CASE ~well
  <2>1. found = {}
    <3>1. CASE ~Short(arg) BY <3>1, ParsedShort
    <3>2. CASE Short(arg) /\ ~AnyType(arg)
      <4>1. Stands(toks, 0, arg) BY RootStands
      <4>2. MatchedArbitrary(toks, 0, arg) BY <4>1, ArbitraryMatched
      <4>3. 0 + 1 = 1 OBVIOUS
      <4>4. json_matchArbitraryKeyValue(toks, 1) = {} BY <3>2, <4>2, <4>3 DEF MatchedArbitrary
      <4>5. json_parse(arg) = {toks} BY <3>2, ParsedShort
      <4>6. Of(toks) = {} BY <4>4
      <4> HIDE DEF Of, toks
      <4> QED BY <4>5, <4>6
    <3> QED BY <1>3, <3>1, <3>2
  <2>2. screen1 = Screen("", {}, 1, FALSE) BY <1>1, <2>1
  <2> HIDE DEF screen1, fact, well
  <2>3. screen1.said = {} BY <2>2 DEF Screen
  <2> QED BY <1>2, <1>3, <2>3, OneSilent DEF Shown, screen1, fact
<1>4. CASE well
  <2>1. Stands(toks, 0, arg) BY RootStands
  <2>2. MatchedArbitrary(toks, 0, arg) BY <2>1, ArbitraryMatched
  <2>3. 0 + 1 = 1 OBVIOUS
  <2>4. FoundPair(json_matchArbitraryKeyValue(toks, 1), toks, t, x)
    BY <1>4, <2>2, <2>3 DEF MatchedArbitrary
  <2>5. PICK k, l \in Nat : /\ json_matchArbitraryKeyValue(toks, 1) = {<<k + 1, l + 1>>}
                            /\ Stands(toks, k, t) /\ Stands(toks, l, x)
    BY <2>4 DEF FoundPair
  <2>6. json_parse(arg) = {toks} BY <1>4, ParsedShort
  <2> DEFINE g == <<toks, <<k + 1, l + 1>>>>
  <2>7. Of(toks) = {g} BY <2>5
  <2>8. found = {g}
    <3> HIDE DEF Of, toks, g
    <3> QED BY <2>6, <2>7
  <2>9. g[1] = toks /\ g[2][1] = k + 1 /\ g[2][2] = l + 1 OBVIOUS
  <2>10. toks[k+1].value = t BY <2>5, StandsHere
  <2>11. json_extractToken(toks, l + 1) = Printed(x) BY <2>5, TokenExtracted
  <2>12. f = g
    <3> HIDE DEF found, g
    <3> QED BY <2>8
  <2> HIDE DEF f, found, g
  <2>13. screen1 = pageString(<<i, t.text>>, P(toks, l + 1), FALSE)
    BY <1>1, <2>8, <2>9, <2>10, <2>12
  <2>14. fact = Fact(<<i, t.text>>, IF Fits(x) THEN x ELSE TooLong.value)
    BY DEF ArbitraryFact, TypeOf
  <2>15. Says(screen1, fact)
    <3>1. CASE Fits(x)
      <4>1. Printed(x) # {} BY <3>1 DEF Printed
      <4>2. P(toks, l + 1) = Printed(x) BY <2>11, <4>1
      <4> HIDE DEF P, screen1, fact
      <4> QED BY <2>13, <2>14, <3>1, <4>2, PrintedSays
    <3>2. CASE ~Fits(x)
      <4>1. Printed(x) = {} BY <3>2 DEF Printed
      <4>2. P(toks, l + 1) = {TooLong} BY <2>11, <4>1
      <4> HIDE DEF P, screen1, fact
      <4>3. {p.value : p \in {TooLong}} = {TooLong.value} OBVIOUS
      <4> QED BY <2>13, <2>14, <3>2, <4>2, <4>3 DEF Says, pageString, Screen, Fact
    <3> QED BY <3>1, <3>2
  <2> HIDE DEF screen1, fact, well
  <2> QED BY <1>2, <1>4, <2>15, OneSays DEF Shown, screen1, fact
<1> QED BY <1>3, <1>4

(* One sequence behind another.                                            *)
Joined(z, s, t) ==
  /\ IsSequence(z) /\ Len(s) \in Nat /\ Len(t) \in Nat
  /\ Len(z) = Len(s) + Len(t)
  /\ \A n \in 1..Len(s) : z[n] = s[n]
  /\ \A n \in 1..Len(t) : z[Len(s) + n] = t[n]
  /\ \A n \in 1..Len(z) : n \in 1..Len(s) \/ \E k \in 1..Len(t) : n = Len(s) + k

(* Screens behind screens.                                                 *)
LEMMA Concatenated ==
  ASSUME NEW s, NEW t, IsSequence(s), IsSequence(t)
  PROVE  Joined(s \o t, s, t)
<1>1. PICK S, T : s \in Seq(S) /\ t \in Seq(T) BY DEF IsSequence
<1>2. s \in Seq(S \cup T) /\ t \in Seq(S \cup T)
  <2>1. S \subseteq S \cup T /\ T \subseteq S \cup T OBVIOUS
  <2> QED BY <1>1, <2>1, SeqMonotonic
<1>3. /\ s \o t \in Seq(S \cup T)
      /\ Len(s \o t) = Len(s) + Len(t)
      /\ \A i \in 1 .. Len(s) + Len(t) : (s \o t)[i] = IF i <= Len(s) THEN s[i] ELSE t[i - Len(s)]
  BY <1>2, ConcatProperties
<1>4. PICK a \in Nat, b \in Nat : a = Len(s) /\ b = Len(t) BY <1>1
<1> DEFINE z == s \o t
<1>5. IsSequence(z) BY <1>3 DEF IsSequence
<1>6. Len(z) = a + b /\ \A i \in 1..a+b : z[i] = IF i <= a THEN s[i] ELSE t[i - a]
  BY <1>3, <1>4
<1> HIDE DEF z
<1>7. \A n \in 1..a : z[n] = s[n]
  <2> TAKE n \in 1..a
  <2>1. n \in 1..a+b /\ n <= a OBVIOUS
  <2> QED BY <1>6, <2>1
<1>8. \A n \in 1..b : z[a + n] = t[n]
  <2> TAKE n \in 1..b
  <2>1. a + n \in 1..a+b /\ ~(a + n <= a) /\ (a + n) - a = n OBVIOUS
  <2> QED BY <1>6, <2>1
<1>9. \A n \in 1..a+b : n \in 1..a \/ \E k \in 1..b : n = a + k
  <2> TAKE n \in 1..a+b
  <2>1. CASE n <= a BY <2>1
  <2>2. CASE ~(n <= a)
    <3>1. n - a \in 1..b /\ n = a + (n - a) BY <2>2
    <3> QED BY <3>1
  <2> QED BY <2>1, <2>2
<1>10. Joined(z, s, t) BY <1>4, <1>5, <1>6, <1>7, <1>8, <1>9 DEF Joined
<1> QED BY <1>10 DEF z

(* What both say is said; one that is silent silences them.                *)
LEMMA SayJoined ==
  ASSUME NEW s, NEW t, NEW u, NEW v, SayAll(s, u), SayAll(t, v)
  PROVE  SayAll(s \o t, u \o v)
<1> DEFINE x == s \o t
           y == u \o v
<1>1. Joined(x, s, t) /\ Joined(y, u, v) BY Concatenated DEF SayAll
<1> HIDE DEF x, y
<1>2. PICK a \in Nat, b \in Nat : a = Len(s) /\ b = Len(t) BY <1>1 DEF Joined
<1>3. Len(u) = a /\ Len(v) = b BY <1>2 DEF SayAll
<1>4. Len(x) = a + b /\ Len(y) = a + b BY <1>1, <1>2, <1>3 DEF Joined
<1>5. ASSUME NEW n \in 1..Len(x) PROVE Says(x[n], y[n])
  <2>1. CASE n \in 1..a
    <3>1. x[n] = s[n] /\ y[n] = u[n] BY <1>1, <1>2, <1>3, <2>1 DEF Joined
    <3> QED BY <1>2, <2>1, <3>1 DEF SayAll
  <2>2. CASE \E k \in 1..b : n = a + k
    <3>1. PICK k \in 1..b : n = a + k BY <2>2
    <3>2. x[n] = t[k] /\ y[n] = v[k] BY <1>1, <1>2, <1>3, <3>1 DEF Joined
    <3> QED BY <1>2, <3>1, <3>2 DEF SayAll
  <2> QED BY <1>1, <1>2, <2>1, <2>2 DEF Joined
<1>6. SayAll(x, y) BY <1>1, <1>4, <1>5 DEF SayAll, Joined
<1> QED BY <1>6 DEF x, y

LEMMA SilentJoined ==
  ASSUME NEW s, NEW t, IsSequence(s), IsSequence(t), Silent(s) \/ Silent(t)
  PROVE  Silent(s \o t)
<1> DEFINE z == s \o t
<1>1. Joined(z, s, t) BY Concatenated
<1> HIDE DEF z
<1>2. PICK a \in Nat, b \in Nat : a = Len(s) /\ b = Len(t) BY <1>1 DEF Joined
<1>3. CASE Silent(s)
  <2>1. PICK n \in 1..a : s[n].said = {} BY <1>2, <1>3 DEF Silent
  <2>2. n \in 1..Len(z) /\ z[n] = s[n] BY <1>1, <1>2 DEF Joined
  <2> QED BY <1>1, <2>1, <2>2 DEF Silent, Joined, z
<1>4. CASE Silent(t)
  <2>1. PICK n \in 1..b : t[n].said = {} BY <1>2, <1>4 DEF Silent
  <2>2. a + n \in 1..Len(z) /\ z[a+n] = t[n] BY <1>1, <1>2 DEF Joined
  <2> QED BY <1>1, <2>1, <2>2 DEF Silent, Joined, z
<1> QED BY <1>3, <1>4

-----------------------------------------------------------------------------
(* FlattenSeq joins the parts one after the other.                         *)
Flattens(F, X) == F[1] = X[1] /\ \A i \in 2..Len(X) : F[i] = F[i-1] \o X[i]

(* The flattening of parts is their concatenation from left to right.      *)
LEMMA FlattenDefined ==
  ASSUME NEW X, Len(X) \in Nat, Len(X) # 0
  PROVE  \E F : Flattens(F, X) /\ FlattenSeq(X) = F[Len(X)]
<1> DEFINE N == Len(X)
           step(x, i) == x \o X[i]
           Upto(k, f) == \A i \in 1..1+k : f[i] = IF i = 1 THEN X[1] ELSE step(f[i-1], i)
           T == {k \in Nat : \E f : Upto(k, f)}
           IsF(f) == f = [i \in 1..N |-> IF i = 1 THEN X[i] ELSE f[i-1] \o X[i]]
<1>0. FlattenSeq(X) = (CHOOSE f : IsF(f))[N] BY DEF FlattenSeq
<1>b. N \in Nat /\ N >= 1 OBVIOUS
<1> HIDE DEF step, N
<1>1. 0 \in T
  <2> DEFINE g == [i \in 1..1+0 |-> X[1]]
  <2>1. \A i \in 1..1+0 : i = 1 /\ g[i] = X[1] OBVIOUS
  <2>2. Upto(0, g) BY <2>1
  <2> HIDE DEF g, Upto
  <2> QED BY <2>2
<1>2. ASSUME NEW k \in Nat, k \in T PROVE k + 1 \in T
  <2>1. PICK f : Upto(k, f)
    <3> HIDE DEF Upto
    <3> QED BY <1>2
  <2> DEFINE g == [i \in 1..1+(k+1) |-> IF i <= 1 + k THEN f[i] ELSE step(f[1+k], 1 + (k + 1))]
  <2>2. ASSUME NEW i \in 1..1+(k+1)
        PROVE  g[i] = IF i = 1 THEN X[1] ELSE step(g[i-1], i)
    <3>1. CASE i = 1
      <4>1. g[i] = f[1] /\ 1 \in 1..1+k BY <3>1
      <4>2. f[1] = X[1] BY <2>1, <4>1
      <4> QED BY <3>1, <4>1, <4>2
    <3>2. CASE i # 1 /\ i <= 1 + k
      <4>1. g[i] = f[i] /\ g[i-1] = f[i-1] /\ i \in 1..1+k BY <3>2
      <4>2. f[i] = step(f[i-1], i) BY <2>1, <3>2, <4>1
      <4> QED BY <3>2, <4>1, <4>2
    <3>3. CASE i = 1 + (k + 1)
      <4>1. g[i] = step(f[1+k], i) /\ g[i-1] = f[1+k] /\ i # 1 BY <3>3
      <4> QED BY <4>1
    <3> QED BY <3>1, <3>2, <3>3
  <2>3. Upto(k + 1, g) BY <2>2
  <2> HIDE DEF g, Upto
  <2> QED BY <2>3
<1>3. N - 1 \in T
  <2>1. N - 1 \in Nat BY <1>b
  <2> HIDE DEF T
  <2> QED BY <1>1, <1>2, <2>1, SetInduction
<1>4. PICK f : Upto(N - 1, f)
  <2> HIDE DEF Upto
  <2> QED BY <1>3
<1> DEFINE h == [i \in 1..N |-> f[i]]
<1>5. IsF(h)
  <2>1. ASSUME NEW i \in 1..N PROVE h[i] = IF i = 1 THEN X[i] ELSE h[i-1] \o X[i]
    <3>0. i \in 1..1+(N-1) BY <1>b
    <3>1. CASE i = 1 BY <1>4, <3>0, <3>1
    <3>2. CASE i # 1
      <4>1. h[i] = f[i] /\ h[i-1] = f[i-1] BY <1>b, <3>2
      <4> QED BY <1>4, <3>0, <3>2, <4>1 DEF step
    <3> QED BY <3>1, <3>2
  <2> QED BY <2>1
<1> HIDE DEF h, IsF
<1> DEFINE F == CHOOSE f_1 : IsF(f_1)
<1>6. IsF(F) BY <1>5
<1>7. FlattenSeq(X) = F[N] BY <1>0
<1> HIDE DEF F
<1>8. F = [i \in 1..N |-> IF i = 1 THEN X[i] ELSE F[i-1] \o X[i]] BY <1>6 DEF IsF
<1>9. F[1] = X[1]
  <2>1. 1 \in 1..N BY <1>b
  <2> QED BY <1>8, <2>1
<1>10. ASSUME NEW i \in 2..N PROVE F[i] = F[i-1] \o X[i]
  <2>1. i \in 1..N /\ i # 1 BY <1>b
  <2> QED BY <1>8, <2>1
<1>11. Flattens(F, X) BY <1>9, <1>10 DEF Flattens, N
<1> QED BY <1>7, <1>11 DEF N

(* What is true of the first part, and of what a part is joined to, is     *)
(* true of all of them together: here for screens and facts, for screens   *)
(* that do not print, and for the last screen.                             *)
LEMMA FlattenedIsSequence ==
  ASSUME NEW F, NEW X, Len(X) \in Nat, Flattens(F, X), \A n \in 1..Len(X) : IsSequence(X[n])
  PROVE  \A n \in 1..Len(X) : IsSequence(F[n])
<1> DEFINE N == Len(X)
           T == {k \in Nat : k + 1 <= N => IsSequence(F[k+1])}
<1>1. 0 \in T BY DEF Flattens
<1>2. ASSUME NEW k \in Nat, k \in T PROVE k + 1 \in T
  <2> SUFFICES ASSUME (k + 1) + 1 <= N PROVE IsSequence(F[(k+1)+1]) OBVIOUS
  <2>1. PICK i \in Nat : i = (k + 1) + 1 /\ i - 1 = k + 1 /\ i \in 2..N /\ i \in 1..N OBVIOUS
  <2>2. IsSequence(F[i-1]) /\ IsSequence(X[i]) BY <1>2, <2>1
  <2>3. F[i] = F[i-1] \o X[i] BY <2>1 DEF Flattens
  <2>4. IsSequence(F[i]) BY <2>2, <2>3, Concatenated DEF Joined
  <2> QED BY <2>1, <2>4
<1>3. Nat \subseteq T
  <2> HIDE DEF T
  <2> QED BY <1>1, <1>2, SetInduction
<1> SUFFICES ASSUME NEW n \in 1..N PROVE IsSequence(F[n]) OBVIOUS
<1>4. n - 1 \in Nat /\ (n - 1) + 1 = n /\ n <= N OBVIOUS
<1>5. n - 1 \in T
  <2> HIDE DEF T
  <2> QED BY <1>3, <1>4
<1> QED BY <1>4, <1>5

AllSay(X, Y) == \A n \in 1..Len(X) : SayAll(X[n], Y[n])

LEMMA SayFlattened ==
  ASSUME NEW X, NEW Y, Len(X) \in Nat, Len(X) # 0, Len(Y) = Len(X), AllSay(X, Y)
  PROVE  SayAll(FlattenSeq(X), FlattenSeq(Y))
<1> DEFINE N == Len(X)
<1>1. PICK F : Flattens(F, X) /\ FlattenSeq(X) = F[N] BY FlattenDefined
<1>2. PICK G : Flattens(G, Y) /\ FlattenSeq(Y) = G[N] BY FlattenDefined
<1> DEFINE T == {k \in Nat : k + 1 <= N => SayAll(F[k+1], G[k+1])}
<1>3. 0 \in T BY <1>1, <1>2 DEF Flattens, AllSay
<1>4. ASSUME NEW k \in Nat, k \in T PROVE k + 1 \in T
  <2> SUFFICES ASSUME (k + 1) + 1 <= N PROVE SayAll(F[(k+1)+1], G[(k+1)+1]) OBVIOUS
  <2>1. PICK i \in Nat : i = (k + 1) + 1 /\ i - 1 = k + 1 /\ i \in 2..N /\ i \in 1..N OBVIOUS
  <2>2. SayAll(F[i-1], G[i-1]) /\ SayAll(X[i], Y[i]) BY <1>4, <2>1 DEF AllSay
  <2>3. F[i] = F[i-1] \o X[i] /\ G[i] = G[i-1] \o Y[i] BY <1>1, <1>2, <2>1 DEF Flattens
  <2>4. SayAll(F[i], G[i]) BY <2>2, <2>3, SayJoined
  <2> QED BY <2>1, <2>4
<1>5. N - 1 \in Nat /\ (N - 1) + 1 = N /\ N <= N OBVIOUS
<1>6. N - 1 \in T
  <2> HIDE DEF T
  <2> QED BY <1>3, <1>4, <1>5, SetInduction
<1> QED BY <1>1, <1>2, <1>5, <1>6

AllSequences(X) == Len(X) \in Nat /\ Len(X) # 0 /\ \A n \in 1..Len(X) : IsSequence(X[n])

LEMMA SilentFlattened ==
  ASSUME NEW X, AllSequences(X), NEW m \in 1..Len(X), Silent(X[m])
  PROVE  Silent(FlattenSeq(X))
<1> DEFINE N == Len(X)
<1>0. N \in Nat /\ N # 0 BY DEF AllSequences
<1>1. PICK F : Flattens(F, X) /\ FlattenSeq(X) = F[N] BY <1>0, FlattenDefined
<1>2. \A n \in 1..N : IsSequence(F[n]) /\ IsSequence(X[n])
  BY <1>1, FlattenedIsSequence DEF AllSequences
<1> DEFINE T == {k \in Nat : m + k <= N => Silent(F[m+k])}
<1>3. 0 \in T
  <2>1. Silent(F[m])
    <3>1. CASE m = 1 BY <1>1, <3>1 DEF Flattens
    <3>2. CASE m # 1
      <4>1. m \in 2..N /\ m - 1 \in 1..N BY <1>0, <3>2
      <4>2. F[m] = F[m-1] \o X[m] BY <1>1, <4>1 DEF Flattens
      <4> QED BY <1>2, <4>1, <4>2, SilentJoined
    <3> QED BY <3>1, <3>2
  <2>2. m + 0 = m OBVIOUS
  <2> QED BY <2>1, <2>2
<1>4. ASSUME NEW k \in Nat, k \in T PROVE k + 1 \in T
  <2> SUFFICES ASSUME m + (k + 1) <= N PROVE Silent(F[m+(k+1)]) OBVIOUS
  <2>1. PICK i \in Nat : i = m + (k + 1) /\ i - 1 = m + k /\ i \in 2..N /\ i \in 1..N /\ i - 1 \in 1..N
    BY <1>0
  <2>2. Silent(F[i-1]) BY <1>4, <1>0, <2>1
  <2>3. F[i] = F[i-1] \o X[i] BY <1>1, <2>1 DEF Flattens
  <2>4. Silent(F[i]) BY <1>2, <2>1, <2>2, <2>3, SilentJoined
  <2> QED BY <2>1, <2>4
<1>5. N - m \in Nat /\ m + (N - m) = N /\ N <= N BY <1>0
<1>6. N - m \in T
  <2> HIDE DEF T
  <2> QED BY <1>3, <1>4, <1>5, SetInduction
<1> QED BY <1>1, <1>5, <1>6

LEMMA LastFlattened ==
  ASSUME NEW X, AllSequences(X), Len(X[Len(X)]) # 0
  PROVE  /\ Len(FlattenSeq(X)) \in Nat /\ Len(FlattenSeq(X)) # 0
         /\ FlattenSeq(X)[Len(FlattenSeq(X))] = X[Len(X)][Len(X[Len(X)])]
<1> DEFINE N == Len(X)
<1>0. N \in Nat /\ N # 0 BY DEF AllSequences
<1>1. PICK F : Flattens(F, X) /\ FlattenSeq(X) = F[N] BY <1>0, FlattenDefined
<1>2. \A n \in 1..N : IsSequence(F[n]) /\ IsSequence(X[n])
  BY <1>1, FlattenedIsSequence DEF AllSequences
<1>3. N \in 1..N BY <1>0
<1>4. Len(X[N]) \in Nat BY <1>2, <1>3, IsSequenceLen
<1>5. CASE N = 1 BY <1>1, <1>4, <1>5 DEF Flattens
<1>6. CASE N # 1
  <2>1. N \in 2..N /\ N - 1 \in 1..N
    <3>1. PICK k \in Nat : k = N BY <1>0
    <3>2. k >= 2 BY <1>0, <1>6, <3>1
    <3> QED BY <3>1, <3>2
  <2>2. F[N] = F[N-1] \o X[N] BY <1>1, <2>1 DEF Flattens
  <2>3. Joined(F[N], F[N-1], X[N]) BY <1>2, <1>3, <2>1, <2>2, Concatenated
  <2>4. PICK a \in Nat, b \in Nat : a = Len(F[N-1]) /\ b = Len(X[N]) /\ Len(F[N]) = a + b
    BY <2>3 DEF Joined
  <2>5. b # 0 /\ b \in 1..b BY <2>4
  <2>6. F[N][a + b] = X[N][b] BY <2>3, <2>4, <2>5 DEF Joined
  <2>7. a + b \in Nat /\ a + b # 0 BY <2>5
  <2> QED BY <1>1, <2>4, <2>6, <2>7
<1> QED BY <1>5, <1>6

(* A part of the screens as it is left by going through it: it shows its   *)
(* facts, or it fails or has a screen that does not print.                 *)
PartShown(p, q) == \E screens : p = {screens} /\ SayAll(screens, q)
PartProper(p)   == p = {} \/ \E screens : p = {screens} /\ IsSequence(screens)
PartBroken(p)   == p = {} \/ \E screens : p = {screens} /\ Silent(screens)

Proper(P) == IsSequence(P) /\ \A n \in 1..Len(P) : PartProper(P[n])
Broken(P) == \E n \in 1..Len(P) : PartBroken(P[n])

AllShown(P, Q) ==
  /\ IsSequence(P) /\ IsSequence(Q) /\ Len(P) = Len(Q)
  /\ \A n \in 1..Len(P) : PartShown(P[n], Q[n])

(* A part that is shown or does not print is one part or none.             *)
LEMMA ShownIsProper ==
  ASSUME NEW p
  PROVE  /\ \A q : PartShown(p, q) => PartProper(p)
         /\ PartBroken(p) => PartProper(p)
BY DEF PartShown, PartBroken, PartProper, SayAll, Silent

LEMMA OnePart ==
  ASSUME NEW p
  PROVE  /\ PartProper(p) => Proper(<<p>>)
         /\ PartBroken(p) => Broken(<<p>>)
         /\ \A q : PartShown(p, q) => AllShown(<<p>>, <<q>>)
<1>1. \A q : IsSequence(<<q>>) /\ Len(<<q>>) = 1 /\ <<q>>[1] = q
  <2> TAKE q
  <2>1. <<q>> \in Seq({q}) OBVIOUS
  <2> QED BY <2>1 DEF IsSequence
<1>2. 1 \in 1..1 /\ \A n \in 1..1 : n = 1 OBVIOUS
<1> QED BY <1>1, <1>2 DEF Proper, Broken, AllShown

(* Parts behind parts.                                                     *)
LEMMA ProperJoined ==
  ASSUME NEW P, NEW R, Proper(P), Proper(R)
  PROVE  Proper(P \o R)
<1> DEFINE Z == P \o R
<1>1. Joined(Z, P, R) BY Concatenated DEF Proper
<1> HIDE DEF Z
<1>2. ASSUME NEW n \in 1..Len(Z) PROVE PartProper(Z[n])
  <2>1. CASE n \in 1..Len(P) BY <1>1, <2>1 DEF Joined, Proper
  <2>2. CASE \E k \in 1..Len(R) : n = Len(P) + k BY <1>1, <2>2 DEF Joined, Proper
  <2> QED BY <1>1, <2>1, <2>2 DEF Joined
<1>3. Proper(Z) BY <1>1, <1>2 DEF Proper, Joined
<1> QED BY <1>3 DEF Z

LEMMA BrokenJoined ==
  ASSUME NEW P, NEW R, IsSequence(P), IsSequence(R), Broken(P) \/ Broken(R)
  PROVE  Broken(P \o R)
<1> DEFINE Z == P \o R
<1>1. Joined(Z, P, R) BY Concatenated
<1> HIDE DEF Z
<1>2. PICK a \in Nat, b \in Nat : a = Len(P) /\ b = Len(R) /\ Len(Z) = a + b BY <1>1 DEF Joined
<1>3. CASE Broken(P)
  <2>1. PICK n \in 1..a : PartBroken(P[n]) BY <1>2, <1>3 DEF Broken
  <2>2. n \in 1..Len(Z) /\ Z[n] = P[n] BY <1>1, <1>2 DEF Joined
  <2> QED BY <2>1, <2>2 DEF Broken, Z
<1>4. CASE Broken(R)
  <2>1. PICK n \in 1..b : PartBroken(R[n]) BY <1>2, <1>4 DEF Broken
  <2>2. a + n \in 1..Len(Z) /\ Z[a+n] = R[n] BY <1>1, <1>2 DEF Joined
  <2> QED BY <2>1, <2>2 DEF Broken, Z
<1> QED BY <1>3, <1>4

LEMMA ShownJoined ==
  ASSUME NEW P, NEW Q, NEW R, NEW S, AllShown(P, Q), AllShown(R, S)
  PROVE  AllShown(P \o R, Q \o S)
<1> DEFINE x == P \o R
           y == Q \o S
<1>1. Joined(x, P, R) /\ Joined(y, Q, S) BY Concatenated DEF AllShown
<1> HIDE DEF x, y
<1>2. PICK a \in Nat, b \in Nat : a = Len(P) /\ b = Len(R) BY <1>1 DEF Joined
<1>3. Len(Q) = a /\ Len(S) = b BY <1>2 DEF AllShown
<1>4. Len(x) = a + b /\ Len(y) = a + b BY <1>1, <1>2, <1>3 DEF Joined
<1>5. ASSUME NEW n \in 1..Len(x) PROVE PartShown(x[n], y[n])
  <2>1. CASE n \in 1..a
    <3>1. x[n] = P[n] /\ y[n] = Q[n] BY <1>1, <1>2, <1>3, <2>1 DEF Joined
    <3> QED BY <1>2, <2>1, <3>1 DEF AllShown
  <2>2. CASE \E k \in 1..b : n = a + k
    <3>1. PICK k \in 1..b : n = a + k BY <2>2
    <3>2. x[n] = R[k] /\ y[n] = S[k] BY <1>1, <1>2, <1>3, <3>1 DEF Joined
    <3> QED BY <1>2, <3>1, <3>2 DEF AllShown
  <2> QED BY <1>1, <1>2, <2>1, <2>2 DEF Joined
<1>6. AllShown(x, y) BY <1>1, <1>4, <1>5 DEF AllShown, Joined
<1> QED BY <1>6 DEF x, y

-----------------------------------------------------------------------------
(* The screens of the parts, joined.                                       *)
Chosen(P) == [n \in DOMAIN P |-> CHOOSE screens \in P[n] : TRUE]

(* The screens of the parts, if every one of them is there.                *)
LEMMA ShownChosen ==
  ASSUME NEW P, NEW Q, AllShown(P, Q), Len(P) # 0
  PROVE  {} \notin Range(P) /\ SayAll(FlattenSeq(Chosen(P)), FlattenSeq(Q))
<1>1. Len(P) \in Nat /\ DOMAIN P = 1..Len(P) /\ Len(Q) = Len(P)
  BY IsSequenceLen DEF AllShown
<1>2. ASSUME NEW n \in 1..Len(P)
      PROVE  P[n] # {} /\ SayAll(Chosen(P)[n], Q[n])
  <2>1. PICK screens : P[n] = {screens} /\ SayAll(screens, Q[n]) BY DEF AllShown, PartShown
  <2>2. Chosen(P)[n] = screens BY <1>1, <2>1 DEF Chosen
  <2> QED BY <2>1, <2>2
<1>3. Len(Chosen(P)) = Len(P) BY <1>1 DEF Chosen
<1>4. AllSay(Chosen(P), Q) BY <1>2, <1>3 DEF AllSay
<1>5. {} \notin Range(P) BY <1>1, <1>2 DEF Range
<1>6. SayAll(FlattenSeq(Chosen(P)), FlattenSeq(Q)) BY <1>1, <1>3, <1>4, SayFlattened
<1> QED BY <1>5, <1>6

LEMMA ProperChosen ==
  ASSUME NEW P, Proper(P), Len(P) # 0, {} \notin Range(P)
  PROVE  /\ AllSequences(Chosen(P)) /\ Len(Chosen(P)) = Len(P)
         /\ \A n \in 1..Len(P) : P[n] = {Chosen(P)[n]}
<1>1. Len(P) \in Nat /\ DOMAIN P = 1..Len(P) BY IsSequenceLen DEF Proper
<1>2. ASSUME NEW n \in 1..Len(P)
      PROVE  P[n] = {Chosen(P)[n]} /\ IsSequence(Chosen(P)[n])
  <2>1. P[n] # {} BY <1>1 DEF Range
  <2>2. PICK screens : P[n] = {screens} /\ IsSequence(screens) BY <2>1 DEF Proper, PartProper
  <2>3. Chosen(P)[n] = screens BY <1>1, <2>2 DEF Chosen
  <2> QED BY <2>2, <2>3
<1>3. Len(Chosen(P)) = Len(P) BY <1>1 DEF Chosen
<1> QED BY <1>1, <1>2, <1>3 DEF AllSequences

LEMMA BrokenChosen ==
  ASSUME NEW P, Proper(P), Broken(P), {} \notin Range(P)
  PROVE  Silent(FlattenSeq(Chosen(P)))
<1>1. PICK n \in 1..Len(P) : PartBroken(P[n]) BY DEF Broken
<1>2. Len(P) \in Nat /\ DOMAIN P = 1..Len(P) BY IsSequenceLen DEF Proper
<1>3. Len(P) # 0 /\ P[n] # {} BY <1>2 DEF Range
<1>4. PICK screens : P[n] = {screens} /\ Silent(screens) BY <1>1, <1>3 DEF PartBroken
<1>5. AllSequences(Chosen(P)) /\ Len(Chosen(P)) = Len(P) /\ P[n] = {Chosen(P)[n]}
  BY <1>3, ProperChosen
<1>6. Silent(Chosen(P)[n]) BY <1>4, <1>5
<1> QED BY <1>5, <1>6, SilentFlattened

(* What a situation is made of.                                            *)
LEMMA InTheSituation ==
  ASSUME NEW s \in Situation
  PROVE  /\ s.tx \in Transaction
         /\ s.metadataInitialized \in BOOLEAN /\ s.expert \in BOOLEAN /\ s.verdict \in Verdict
         /\ s.metadataInitialized => content[s.tx].packet # NoPacket
<1>1. PICK obj \in Signable, e \in BOOLEAN, v \in Verdict :
        s = [tx |-> obj.tx, metadataInitialized |-> obj.metadataInitialized, expert |-> e, verdict |-> v]
  BY DEF Situation
<1>2. /\ obj.tx \in Transaction /\ obj.metadataInitialized \in BOOLEAN
      /\ obj.metadataInitialized => content[obj.tx].packet # NoPacket
  BY DEF Signable
<1> QED BY <1>1, <1>2

LEMMA TwoLong ==
  ASSUME NEW a, NEW b
  PROVE  IsSequence(<<a, b>>) /\ Len(<<a, b>>) = 2 /\ <<a, b>>[1] = a /\ <<a, b>>[2] = b
<1>1. <<a, b>> \in Seq({a, b}) OBVIOUS
<1> QED BY <1>1 DEF IsSequence

LEMMA OneLong ==
  ASSUME NEW a
  PROVE  IsSequence(<<a>>) /\ Len(<<a>>) = 1 /\ <<a>>[1] = a
<1>1. <<a>> \in Seq({a}) OBVIOUS
<1> QED BY <1>1 DEF IsSequence

LEMMA NoneLong == IsSequence(<<>>) /\ Len(<<>>) = 0
<1>1. <<>> \in Seq({}) OBVIOUS
<1> QED BY <1>1 DEF IsSequence

(* The screens of a fact, a text and a field say it.                       *)
LEMMA PageSays ==
  ASSUME NEW title, NEW value
  PROVE  Says(OnePage(title, value), Fact(title, value))
BY DEF Says, OnePage, Screen, Fact

LEMMA TextSays ==
  ASSUME NEW title, NEW text, NEW checked
  PROVE  Says(pageString(title, {Text(text)}, checked), Fact(title, text))
<1> DEFINE y == Text(text)
<1>1. y.value = text BY DEF Text
<1> HIDE DEF y
<1>2. {p.value : p \in {y}} = {text} BY <1>1
<1> QED BY <1>2 DEF Says, pageString, Screen, Fact, y

LEMMA FieldSays ==
  ASSUME NEW title, NEW field
  PROVE  /\ field # Wrong => Says(FieldScreen(title, field), Fact(title, field))
         /\ field = Wrong => FieldScreen(title, field).said = {}
<1>1. CASE field # Wrong
  <2>1. {Text(v) : v \in {field} \ {Wrong}} = {Text(field)} BY <1>1
  <2>2. FieldScreen(title, field) = pageString(title, {Text(field)}, FALSE) BY <2>1 DEF FieldScreen
  <2> QED BY <1>1, <2>2, TextSays
<1>2. CASE field = Wrong
  <2>1. {Text(v) : v \in {field} \ {Wrong}} = {} BY <1>2
  <2>2. FieldScreen(title, field) = pageString(title, {}, FALSE) BY <2>1 DEF FieldScreen
  <2> QED BY <1>2, <2>2, NothingSays
<1> QED BY <1>1, <1>2

-----------------------------------------------------------------------------
(* Without its packet a transaction is shown in the expert mode only.      *)
LEMMA IdentityShown ==
  ASSUME NEW s
  PROVE  /\ s.metadataInitialized \/ s.expert => PartShown(IdentityScreens(s), IdentityFacts(s))
         /\ ~(s.metadataInitialized \/ s.expert) => PartBroken(IdentityScreens(s))
<1>1. CASE s.metadataInitialized
  <2> DEFINE a == OnePage("Type", content[s.tx].packet.txName)
             b == Fact("Type", content[s.tx].packet.txName)
  <2>1. IdentityScreens(s) = {<<a>>} /\ IdentityFacts(s) = <<b>>
    BY <1>1 DEF IdentityScreens, IdentityFacts
  <2>2. Says(a, b) BY PageSays
  <2> HIDE DEF a, b
  <2> QED BY <1>1, <2>1, <2>2, OneSays DEF PartShown
<1>2. CASE ~s.metadataInitialized /\ s.expert
  <2> DEFINE a == pageString("Script hash", {Text(content[s.tx].script)}, FALSE)
             b == OnePage("Verify script hash", "on a secure device.")
             e == Fact("Script hash", content[s.tx].script)
             f == Fact("Verify script hash", "on a secure device.")
  <2>1. IdentityScreens(s) = {<<a, b>>} /\ IdentityFacts(s) = <<e, f>>
    BY <1>2 DEF IdentityScreens, IdentityFacts
  <2>2. Says(a, e) /\ Says(b, f) BY TextSays, PageSays
  <2> HIDE DEF a, b, e, f
  <2>3. \A n \in 1..2 : n = 1 \/ n = 2 OBVIOUS
  <2>4. SayAll(<<a, b>>, <<e, f>>) BY <2>2, <2>3, TwoLong DEF SayAll
  <2> QED BY <1>2, <2>1, <2>4 DEF PartShown
<1>3. CASE ~s.metadataInitialized /\ ~s.expert
  BY <1>3 DEF IdentityScreens, PartBroken
<1> QED BY <1>1, <1>2, <1>3

(* The chain is that of the payer's address.                               *)
LEMMA ChainShown ==
  ASSUME NEW s
  PROVE  /\ content[s.tx].payer \in DOMAIN chainOf =>
              PartShown({ChainScreen(s)}, <<Fact("ChainID", chainOf[content[s.tx].payer])>>)
         /\ content[s.tx].payer \notin DOMAIN chainOf => PartBroken({ChainScreen(s)})
<1> DEFINE payer == content[s.tx].payer
           said == {chainOf[p] : p \in {payer} \cap DOMAIN chainOf}
           a == Screen("ChainID", said, 1, FALSE)
           b == Fact("ChainID", chainOf[payer])
<1>1. ChainScreen(s) = <<a>> BY DEF ChainScreen
<1>2. payer \in DOMAIN chainOf => said = {chainOf[payer]} OBVIOUS
<1>3. payer \notin DOMAIN chainOf => said = {} OBVIOUS
<1>4. a.said = said /\ a.title = "ChainID" BY DEF Screen
<1>5. b.title = "ChainID" /\ b.value = chainOf[payer] BY DEF Fact
<1> HIDE DEF a, b, said
<1>6. payer \in DOMAIN chainOf => Says(a, b) BY <1>2, <1>4, <1>5 DEF Says
<1>7. payer \in DOMAIN chainOf => PartShown({<<a>>}, <<b>>) BY <1>6, OneSays DEF PartShown
<1>8. payer \notin DOMAIN chainOf => PartBroken({<<a>>}) BY <1>3, <1>4, OneSilent DEF PartBroken
<1> QED BY <1>1, <1>7, <1>8 DEF b

(* The other screens: each says its field, unless it has the wrong length. *)
OtherFields(s) ==
  LET c == content[s.tx]
  IN  {c.referenceBlockId, c.proposer, c.payer} \cup Range(c.authorizers)

SixScreens(c) ==
  <<FieldScreen("Ref Block", c.referenceBlockId), FieldScreen("Gas Limit", "gas"),
    FieldScreen("Prop Key Addr", c.proposer), FieldScreen("Prop Key Id", "id"),
    FieldScreen("Prop Key Seq Num", "seq"), FieldScreen("Payer", c.payer)>>

SixFacts(c) ==
  <<Fact("Ref Block", c.referenceBlockId), Fact("Gas Limit", "gas"),
    Fact("Prop Key Addr", c.proposer), Fact("Prop Key Id", "id"),
    Fact("Prop Key Seq Num", "seq"), Fact("Payer", c.payer)>>

LEMMA SixLong ==
  ASSUME NEW a, NEW b, NEW c, NEW d, NEW e, NEW f
  PROVE  /\ IsSequence(<<a, b, c, d, e, f>>) /\ Len(<<a, b, c, d, e, f>>) = 6
         /\ <<a, b, c, d, e, f>>[1] = a /\ <<a, b, c, d, e, f>>[2] = b
         /\ <<a, b, c, d, e, f>>[3] = c /\ <<a, b, c, d, e, f>>[4] = d
         /\ <<a, b, c, d, e, f>>[5] = e /\ <<a, b, c, d, e, f>>[6] = f
<1>1. <<a, b, c, d, e, f>> \in Seq({a, b, c, d, e, f}) OBVIOUS
<1> QED BY <1>1 DEF IsSequence

AuthorizerScreens(c) == [i \in DOMAIN c.authorizers |-> FieldScreen(<<"Authorizer", i>>, c.authorizers[i])]
AuthorizerFacts(c)   == [i \in DOMAIN c.authorizers |-> Fact(<<"Authorizer", i>>, c.authorizers[i])]

PathScreens(s) == IF s.expert THEN <<FieldScreen("Your Path", "path")>> ELSE <<>>
PathFacts(s)   == IF s.expert THEN <<Fact("Your Path", "path")>> ELSE <<>>

(* The fields: six of them, the authorizers, and the path for experts.     *)
LEMMA FieldsAre ==
  ASSUME NEW s
  PROVE  /\ FieldScreens(s) = (SixScreens(content[s.tx]) \o AuthorizerScreens(content[s.tx])) \o PathScreens(s)
         /\ FieldFacts(s) = (SixFacts(content[s.tx]) \o AuthorizerFacts(content[s.tx])) \o PathFacts(s)
BY Zenon DEF FieldScreens, FieldFacts, SixScreens, SixFacts, AuthorizerScreens, AuthorizerFacts, PathScreens, PathFacts

(* They say what they are, or one of a wrong length does not print.        *)
LEMMA SixSay ==
  ASSUME NEW c, Wrong \notin {"gas", "id", "seq"}
  PROVE  /\ IsSequence(SixScreens(c)) /\ IsSequence(SixFacts(c))
         /\ Wrong \notin {c.referenceBlockId, c.proposer, c.payer} => SayAll(SixScreens(c), SixFacts(c))
         /\ Wrong \in {c.referenceBlockId, c.proposer, c.payer} => Silent(SixScreens(c))
<1> DEFINE X == SixScreens(c)
           Y == SixFacts(c)
           t1 == "Ref Block"
           t2 == "Gas Limit"
           t3 == "Prop Key Addr"
           t4 == "Prop Key Id"
           t5 == "Prop Key Seq Num"
           t6 == "Payer"
<1>a. X = <<FieldScreen(t1, c.referenceBlockId), FieldScreen(t2, "gas"), FieldScreen(t3, c.proposer),
            FieldScreen(t4, "id"), FieldScreen(t5, "seq"), FieldScreen(t6, c.payer)>>
  BY Zenon DEF SixScreens
<1>b. Y = <<Fact(t1, c.referenceBlockId), Fact(t2, "gas"), Fact(t3, c.proposer),
            Fact(t4, "id"), Fact(t5, "seq"), Fact(t6, c.payer)>>
  BY Zenon DEF SixFacts
<1> HIDE DEF t1, t2, t3, t4, t5, t6, X, Y
<1>1. /\ IsSequence(X) /\ Len(X) = 6
      /\ X[1] = FieldScreen(t1, c.referenceBlockId) /\ X[2] = FieldScreen(t2, "gas")
      /\ X[3] = FieldScreen(t3, c.proposer) /\ X[4] = FieldScreen(t4, "id")
      /\ X[5] = FieldScreen(t5, "seq") /\ X[6] = FieldScreen(t6, c.payer)
  BY <1>a, SixLong
<1>2. /\ IsSequence(Y) /\ Len(Y) = 6
      /\ Y[1] = Fact(t1, c.referenceBlockId) /\ Y[2] = Fact(t2, "gas")
      /\ Y[3] = Fact(t3, c.proposer) /\ Y[4] = Fact(t4, "id")
      /\ Y[5] = Fact(t5, "seq") /\ Y[6] = Fact(t6, c.payer)
  BY <1>b, SixLong
<1>3. \A n \in 1..6 : n = 1 \/ n = 2 \/ n = 3 \/ n = 4 \/ n = 5 \/ n = 6 OBVIOUS
<1>4. ASSUME Wrong \notin {c.referenceBlockId, c.proposer, c.payer} PROVE SayAll(X, Y)
  <2>1. Says(X[1], Y[1]) BY <1>1, <1>2, <1>4, FieldSays
  <2>2. Says(X[2], Y[2]) BY <1>1, <1>2, FieldSays
  <2>3. Says(X[3], Y[3]) BY <1>1, <1>2, <1>4, FieldSays
  <2>4. Says(X[4], Y[4]) BY <1>1, <1>2, FieldSays
  <2>5. Says(X[5], Y[5]) BY <1>1, <1>2, FieldSays
  <2>6. Says(X[6], Y[6]) BY <1>1, <1>2, <1>4, FieldSays
  <2>7. IsSequence(X) /\ IsSequence(Y) /\ Len(X) = 6 /\ Len(Y) = 6 BY <1>1, <1>2
  <2> QED BY <2>7, <1>3, <2>1, <2>2, <2>3, <2>4, <2>5, <2>6 DEF SayAll
<1>5. ASSUME Wrong \in {c.referenceBlockId, c.proposer, c.payer} PROVE Silent(X)
  <2>1. 1 \in 1..6 /\ 3 \in 1..6 /\ 6 \in 1..6 OBVIOUS
  <2>2. c.referenceBlockId = Wrong => X[1].said = {} BY <1>1, FieldSays
  <2>3. c.proposer = Wrong => X[3].said = {} BY <1>1, FieldSays
  <2>4. c.payer = Wrong => X[6].said = {} BY <1>1, FieldSays
  <2>5. IsSequence(X) /\ Len(X) = 6 BY <1>1
  <2> QED BY <1>5, <2>1, <2>2, <2>3, <2>4, <2>5 DEF Silent
<1> QED BY <1>1, <1>2, <1>4, <1>5 DEF X, Y

LEMMA AuthorizersSay ==
  ASSUME NEW c, NEW S, c.authorizers \in Seq(S)
  PROVE  /\ IsSequence(AuthorizerScreens(c)) /\ IsSequence(AuthorizerFacts(c))
         /\ Wrong \notin Range(c.authorizers) => SayAll(AuthorizerScreens(c), AuthorizerFacts(c))
         /\ Wrong \in Range(c.authorizers) => Silent(AuthorizerScreens(c))
<1> DEFINE N == Len(c.authorizers)
           X == AuthorizerScreens(c)
           Y == AuthorizerFacts(c)
<1>1. N \in Nat /\ DOMAIN c.authorizers = 1..N OBVIOUS
<1>2. \A i \in 1..N : X[i] = FieldScreen(<<"Authorizer", i>>, c.authorizers[i])
  BY <1>1 DEF AuthorizerScreens
<1>3. \A i \in 1..N : Y[i] = Fact(<<"Authorizer", i>>, c.authorizers[i])
  BY <1>1 DEF AuthorizerFacts
<1>4. X = [i \in 1..N |-> X[i]] /\ Y = [i \in 1..N |-> Y[i]]
  BY <1>1 DEF AuthorizerScreens, AuthorizerFacts
<1> HIDE DEF X, Y, N
<1>5. IsSequence(X) /\ Len(X) = N /\ IsSequence(Y) /\ Len(Y) = N
  BY <1>1, <1>4, FunctionIsSequence
<1>6. ASSUME Wrong \notin Range(c.authorizers) PROVE SayAll(X, Y)
  <2>1. ASSUME NEW i \in 1..N PROVE Says(X[i], Y[i])
    <3>1. c.authorizers[i] # Wrong BY <1>1, <1>6 DEF Range
    <3>2. Says(FieldScreen(<<"Authorizer", i>>, c.authorizers[i]),
               Fact(<<"Authorizer", i>>, c.authorizers[i]))
      BY <3>1, FieldSays
    <3> QED BY <1>2, <1>3, <3>2
  <2> QED BY <1>5, <2>1 DEF SayAll
<1>7. ASSUME Wrong \in Range(c.authorizers) PROVE Silent(X)
  <2>1. PICK i \in 1..N : c.authorizers[i] = Wrong BY <1>1, <1>7 DEF Range
  <2>2. X[i] = FieldScreen(<<"Authorizer", i>>, Wrong) BY <1>2, <2>1
  <2>3. X[i].said = {} BY <2>2, FieldSays, Zenon
  <2> QED BY <1>5, <2>3 DEF Silent
<1> QED BY <1>5, <1>6, <1>7 DEF X, Y

LEMMA FieldsShown ==
  ASSUME NEW s, s.tx \in Transaction
  PROVE  /\ Wrong \notin OtherFields(s) => PartShown({FieldScreens(s)}, FieldFacts(s))
         /\ Wrong \in OtherFields(s) => PartBroken({FieldScreens(s)})
<1> DEFINE c == content[s.tx]
           X1 == SixScreens(c)
           X2 == AuthorizerScreens(c)
           X3 == PathScreens(s)
           Y1 == SixFacts(c)
           Y2 == AuthorizerFacts(c)
           Y3 == PathFacts(s)
           six == Wrong \in {c.referenceBlockId, c.proposer, c.payer}
           auth == Wrong \in Range(c.authorizers)
<1>1. c.authorizers \in Seq(DOMAIN Width \cup {Wrong}) /\ Wrong \notin {"gas", "id", "seq", "path"}
  BY ContentAssumption
<1>2. Wrong \in OtherFields(s) <=> six \/ auth BY DEF OtherFields
<1>3. FieldScreens(s) = (X1 \o X2) \o X3 /\ FieldFacts(s) = (Y1 \o Y2) \o Y3 BY FieldsAre
<1>4. /\ IsSequence(X1) /\ ~six => SayAll(X1, Y1)
      /\ six => Silent(X1)
  BY <1>1, SixSay
<1>5. /\ IsSequence(X1) /\ IsSequence(X2)
      /\ ~auth => SayAll(X2, Y2)
      /\ auth => Silent(X2)
  BY <1>1, SixSay, AuthorizersSay
<1>6. SayAll(X3, Y3)
  <2>1. CASE s.expert
    <3>1. "path" # Wrong BY <1>1
    <3> QED BY <2>1, <3>1, FieldSays, OneSays DEF PathScreens, PathFacts
  <2>2. CASE ~s.expert
    <3>1. X3 = <<>> /\ Y3 = <<>> BY <2>2 DEF PathScreens, PathFacts
    <3>2. \A n \in 1..0 : FALSE OBVIOUS
    <3> QED BY <3>1, <3>2, NoneLong DEF SayAll
  <2> QED BY <2>1, <2>2
<1> HIDE DEF X1, X2, X3, Y1, Y2, Y3, six, auth
<1>7. ~six /\ ~auth => SayAll((X1 \o X2) \o X3, (Y1 \o Y2) \o Y3)
  BY <1>4, <1>5, <1>6, SayJoined
<1>8. six \/ auth => Silent((X1 \o X2) \o X3)
  <2>1. IsSequence(X3) BY <1>6 DEF SayAll
  <2>2. IsSequence(X1 \o X2) BY <1>5, Concatenated DEF Joined
  <2>3. six \/ auth => Silent(X1 \o X2) BY <1>4, <1>5, SilentJoined
  <2> QED BY <2>1, <2>2, <2>3, SilentJoined
<1> QED BY <1>2, <1>3, <1>7, <1>8 DEF PartShown, PartBroken

ArgumentsWell(s) ==
  LET args   == content[s.tx].arguments
      packet == content[s.tx].packet.arguments
  IN  IF s.metadataInitialized
      THEN /\ Len(packet) = Len(args)
           /\ \A d \in Range(packet) : WellTyped(d, args[d.index])
      ELSE \A arg \in Range(args) : Arbitrary(arg)

(* Parts that are given one by one.                                        *)
GivenParts(N, X, Y, well) ==
  /\ N \in Nat /\ X = [i \in 1..N |-> X[i]] /\ Y = [i \in 1..N |-> Y[i]]
  /\ \A i \in 1..N : Shown(X[i], Y[i], i \in well)

(* The arguments one by one are shown if all of them are well typed.       *)
LEMMA PartsShown ==
  ASSUME NEW N, NEW X, NEW Y, NEW well, GivenParts(N, X, Y, well)
  PROVE  /\ Proper(X)
         /\ (\A i \in 1..N : i \in well) => AllShown(X, Y)
         /\ ~(\A i \in 1..N : i \in well) => Broken(X)
<1>0. N \in Nat /\ X = [i \in 1..N |-> X[i]] /\ Y = [i \in 1..N |-> Y[i]]
      /\ \A i \in 1..N : Shown(X[i], Y[i], i \in well)
  BY DEF GivenParts
<1>1. IsSequence(X) /\ Len(X) = N /\ IsSequence(Y) /\ Len(Y) = N BY <1>0, FunctionIsSequence
<1>2. ASSUME NEW i \in 1..N
      PROVE  /\ i \in well => PartShown(X[i], Y[i])
             /\ i \notin well => PartBroken(X[i])
             /\ PartProper(X[i])
  <2>1. i \in well => PartShown(X[i], Y[i]) BY <1>0 DEF Shown, PartShown
  <2>2. i \notin well => PartBroken(X[i]) BY <1>0 DEF Shown, PartBroken
  <2> QED BY <2>1, <2>2, ShownIsProper
<1> QED BY <1>1, <1>2 DEF Proper, Broken, AllShown

LEMMA ArgumentsShown ==
  ASSUME NEW s \in Situation
  PROVE  /\ Proper(ArgumentParts(s))
         /\ ArgumentsWell(s) => AllShown(ArgumentParts(s), FactsOfArguments(s))
         /\ ~ArgumentsWell(s) => Broken(ArgumentParts(s))
<1> DEFINE args == content[s.tx].arguments
           packet == content[s.tx].packet.arguments
<1>1. /\ s.tx \in Transaction /\ s.metadataInitialized \in BOOLEAN
      /\ s.metadataInitialized => IsPacket(content[s.tx].packet)
      /\ args \in Seq(Document)
  BY InTheSituation, ContentAssumption DEF Document
<1>2. Len(args) \in Nat /\ DOMAIN args = 1..Len(args) /\ \A i \in 1..Len(args) : args[i] \in Document
  <2>1. Len(args) \in Nat /\ DOMAIN args = 1..Len(args) BY <1>1
  <2>2. \A i \in 1..Len(args) : args[i] \in Document BY <1>1, ElementOfSeq
  <2> QED BY <2>1, <2>2
<1>3. CASE s.metadataInitialized /\ Len(packet) # Len(args)
  <2>1. ArgumentParts(s) = <<{}>> BY <1>3 DEF ArgumentParts
  <2>2. ~ArgumentsWell(s) BY <1>3 DEF ArgumentsWell
  <2>3. PartProper({}) /\ PartBroken({}) BY DEF PartProper, PartBroken
  <2> QED BY <2>1, <2>2, <2>3, OnePart
<1>4. CASE s.metadataInitialized /\ Len(packet) = Len(args)
  <2> DEFINE N == Len(packet)
             screensAt(i) == ArgumentScreens(packet[i], args[packet[i].index])
             factsAt(i) == ArgumentFacts(packet[i], args[packet[i].index])
             wellTyped(i) == WellTyped(packet[i], args[packet[i].index])
             X == [i \in 1..N |-> screensAt(i)]
             Y == [i \in 1..N |-> factsAt(i)]
             well == {i \in 1..N : wellTyped(i)}
  <2>1. /\ N \in Nat /\ DOMAIN packet = 1..N
        /\ \A i \in 1..N : IsDescriptor(packet[i], N)
    BY <1>1, <1>4 DEF IsPacket
  <2>2. ArgumentParts(s) = X BY <1>4, <2>1 DEF ArgumentParts
  <2>3. FactsOfArguments(s) = Y BY <1>4, <2>1 DEF FactsOfArguments
  <2>4. ArgumentsWell(s) <=> \A i \in 1..N : i \in well
    BY <1>4, <2>1 DEF ArgumentsWell, Range
  <2>5. ASSUME NEW i \in 1..N PROVE Shown(X[i], Y[i], i \in well)
    <3>1. IsDescriptor(packet[i], N) BY <2>1
    <3>2. args[packet[i].index] \in Document
      <4>1. packet[i].index \in 1..N BY <3>1 DEF IsDescriptor
      <4> QED BY <1>2, <1>4, <4>1, Zenon
    <3>3. ArgumentShown(packet[i], args[packet[i].index]) BY <3>1, <3>2, DescribedShown, Zenon
    <3>4. Shown(screensAt(i), factsAt(i), wellTyped(i)) BY <3>3, Zenon DEF ArgumentShown
    <3> HIDE DEF screensAt, factsAt, wellTyped
    <3>5. X[i] = screensAt(i) /\ Y[i] = factsAt(i) /\ (i \in well <=> wellTyped(i)) OBVIOUS
    <3> HIDE DEF X, Y, well
    <3> QED BY <3>4, <3>5 DEF Shown
  <2>6. X = [i \in 1..N |-> X[i]] /\ Y = [i \in 1..N |-> Y[i]]
    <3> HIDE DEF screensAt, factsAt, wellTyped, N
    <3>1. X = [i \in 1..N |-> X[i]] OBVIOUS
    <3>2. Y = [i \in 1..N |-> Y[i]] OBVIOUS
    <3> QED BY <3>1, <3>2, Zenon
  <2> HIDE DEF X, Y, well
  <2>a. GivenParts(N, X, Y, well) BY <2>1, <2>5, <2>6 DEF GivenParts
  <2> HIDE DEF N
  <2>7. /\ Proper(X)
        /\ (\A i \in 1..N : i \in well) => AllShown(X, Y)
        /\ ~(\A i \in 1..N : i \in well) => Broken(X)
    BY <2>a, PartsShown
  <2> QED BY <2>2, <2>3, <2>4, <2>7
<1>5. CASE ~s.metadataInitialized
  <2> DEFINE N == Len(args)
             X == [i \in 1..N |-> {<<parser_printArbitraryArgument(i, args[i])>>}]
             Y == [i \in 1..N |-> <<ArbitraryFact(i, args[i])>>]
             well == {i \in 1..N : Arbitrary(args[i])}
             title == "Script arguments"
             p == {<<OnePage(title, Len(args))>>}
             q == <<Fact(title, Len(args))>>
  <2>1. ArgumentParts(s) = <<p>> \o X BY <1>5, <1>2, Zenon DEF ArgumentParts
  <2>2. FactsOfArguments(s) = <<q>> \o Y BY <1>5, <1>2, Zenon DEF FactsOfArguments
  <2> HIDE DEF title
  <2>3. PartShown(p, q) BY PageSays, OneSays DEF PartShown
  <2>4. ArgumentsWell(s) <=> \A i \in 1..N : i \in well
    BY <1>5, <1>2 DEF ArgumentsWell, Range
  <2>5. ASSUME NEW i \in 1..N PROVE Shown(X[i], Y[i], i \in well)
    <3>1. Shown({<<parser_printArbitraryArgument(i, args[i])>>}, <<ArbitraryFact(i, args[i])>>,
                Arbitrary(args[i]))
      BY <1>2, ArbitraryShown
    <3>2. /\ X[i] = {<<parser_printArbitraryArgument(i, args[i])>>}
          /\ Y[i] = <<ArbitraryFact(i, args[i])>>
          /\ i \in well <=> Arbitrary(args[i])
      OBVIOUS
    <3> HIDE DEF X, Y, well
    <3> QED BY <3>1, <3>2 DEF Shown
  <2>6. X = [i \in 1..N |-> X[i]] /\ Y = [i \in 1..N |-> Y[i]] OBVIOUS
  <2> HIDE DEF X, Y, well, p, q
  <2>a. GivenParts(N, X, Y, well) BY <1>2, <2>5, <2>6 DEF GivenParts
  <2> HIDE DEF N
  <2>7. /\ Proper(X)
        /\ (\A i \in 1..N : i \in well) => AllShown(X, Y)
        /\ ~(\A i \in 1..N : i \in well) => Broken(X)
    BY <2>a, PartsShown
  <2>8. Proper(<<p>>) /\ AllShown(<<p>>, <<q>>) BY <2>3, OnePart, ShownIsProper
  <2>9. Proper(<<p>> \o X) BY <2>7, <2>8, ProperJoined
  <2>10. ArgumentsWell(s) => AllShown(<<p>> \o X, <<q>> \o Y) BY <2>4, <2>7, <2>8, ShownJoined
  <2>11. ~ArgumentsWell(s) => Broken(<<p>> \o X) BY <2>4, <2>7, <2>8, BrokenJoined DEF Proper
  <2> QED BY <2>1, <2>2, <2>9, <2>10, <2>11
<1> QED BY <1>1, <1>3, <1>4, <1>5

(* The parts of a situation say its facts if it can be shown, and else one *)
(* of them does not print.                                                 *)
LEMMA SituationShown ==
  ASSUME NEW s \in Situation
  PROVE  /\ Proper(ScreenParts(s)) /\ Len(ScreenParts(s)) # 0
         /\ ScreenParts(s)[Len(ScreenParts(s))] = {FieldScreens(s)}
         /\ Showable(s) => AllShown(ScreenParts(s), FactParts(s))
         /\ ~Showable(s) => Broken(ScreenParts(s))
<1> DEFINE payer == content[s.tx].payer
           p1 == IdentityScreens(s)
           q1 == IdentityFacts(s)
           p2 == {ChainScreen(s)}
           q2 == <<Fact("ChainID", chainOf[payer])>>
           A == ArgumentParts(s)
           B == FactsOfArguments(s)
           p3 == {FieldScreens(s)}
           q3 == FieldFacts(s)
           w1 == s.metadataInitialized \/ s.expert
           w2 == payer \in DOMAIN chainOf
           w3 == ArgumentsWell(s)
           w4 == Wrong \notin OtherFields(s)
<1>1. s.tx \in Transaction /\ s.metadataInitialized \in BOOLEAN BY InTheSituation
<1>2. Showable(s) <=> w1 /\ w2 /\ w3 /\ w4
  <2>1. Wrong \notin DOMAIN chainOf BY ContentAssumption
  <2>2. w2 => payer # Wrong BY <2>1
  <2> QED BY <1>1, <2>2 DEF Showable, ArgumentsWell, OtherFields
<1>3. ScreenParts(s) = (<<p1, p2>> \o A) \o <<p3>> BY DEF ScreenParts
<1>4. FactParts(s) = (<<q1, q2>> \o B) \o <<q3>> BY DEF FactParts
<1>5. (w1 => PartShown(p1, q1)) /\ (~w1 => PartBroken(p1)) BY IdentityShown
<1>6. (w2 => PartShown(p2, q2)) /\ (~w2 => PartBroken(p2)) BY ChainShown
<1>7. Proper(A) /\ (w3 => AllShown(A, B)) /\ (~w3 => Broken(A)) BY ArgumentsShown
<1>8. (w4 => PartShown(p3, q3)) /\ (~w4 => PartBroken(p3)) BY <1>1, FieldsShown
<1> HIDE DEF p1, p2, p3, q1, q2, q3, A, B, w1, w2, w3, w4
<1>9. <<p1, p2>> = <<p1>> \o <<p2>> /\ <<q1, q2>> = <<q1>> \o <<q2>> OBVIOUS
<1>10. PartProper(p1) /\ PartProper(p2) /\ PartProper(p3) BY <1>5, <1>6, <1>8, ShownIsProper
<1>11. Proper(<<p1>>) /\ Proper(<<p2>>) /\ Proper(<<p3>>) BY <1>10, OnePart
<1>12. Proper(<<p1>> \o <<p2>>) BY <1>11, ProperJoined
<1>13. Proper((<<p1>> \o <<p2>>) \o A) BY <1>7, <1>12, ProperJoined
<1>14. Proper(ScreenParts(s)) BY <1>3, <1>9, <1>11, <1>13, ProperJoined
<1>15. ASSUME Showable(s) PROVE AllShown(ScreenParts(s), FactParts(s))
  <2>1. /\ AllShown(<<p1>>, <<q1>>) /\ AllShown(<<p2>>, <<q2>>) /\ AllShown(<<p3>>, <<q3>>)
        /\ AllShown(A, B)
    BY <1>2, <1>5, <1>6, <1>7, <1>8, <1>15, OnePart
  <2>2. AllShown(<<p1>> \o <<p2>>, <<q1>> \o <<q2>>) BY <2>1, ShownJoined
  <2>3. AllShown((<<p1>> \o <<p2>>) \o A, (<<q1>> \o <<q2>>) \o B) BY <2>1, <2>2, ShownJoined
  <2> QED BY <1>3, <1>4, <1>9, <2>1, <2>3, ShownJoined
<1>16. ASSUME ~Showable(s) PROVE Broken(ScreenParts(s))
  <2>1. Broken(<<p1>>) \/ Broken(<<p2>>) \/ Broken(A) \/ Broken(<<p3>>)
    BY <1>2, <1>5, <1>6, <1>7, <1>8, <1>16, OnePart
  <2>2. IsSequence(<<p1>>) /\ IsSequence(<<p2>>) /\ IsSequence(<<p3>>) /\ IsSequence(A)
        /\ IsSequence(<<p1>> \o <<p2>>) /\ IsSequence((<<p1>> \o <<p2>>) \o A)
    BY <1>7, <1>11, <1>12, <1>13 DEF Proper
  <2>3. Broken(<<p1>>) \/ Broken(<<p2>>) => Broken(<<p1>> \o <<p2>>) BY <2>2, BrokenJoined
  <2>4. Broken(<<p1>> \o <<p2>>) \/ Broken(A) => Broken((<<p1>> \o <<p2>>) \o A) BY <2>2, BrokenJoined
  <2>5. Broken((<<p1>> \o <<p2>>) \o A) \/ Broken(<<p3>>) => Broken(((<<p1>> \o <<p2>>) \o A) \o <<p3>>)
    BY <2>2, BrokenJoined
  <2> QED BY <1>3, <1>9, <2>1, <2>3, <2>4, <2>5
<1>17. Len(ScreenParts(s)) # 0 /\ ScreenParts(s)[Len(ScreenParts(s))] = p3
  <2> DEFINE Z == (<<p1>> \o <<p2>>) \o A
  <2>1. Joined(Z \o <<p3>>, Z, <<p3>>) BY <1>13, OneLong, Concatenated DEF Proper
  <2>2. Len(<<p3>>) = 1 /\ <<p3>>[1] = p3 /\ 1 \in 1..1 OBVIOUS
  <2> HIDE DEF Z
  <2>3. Len(Z) \in Nat /\ Len(Z \o <<p3>>) = Len(Z) + 1 /\ (Z \o <<p3>>)[Len(Z) + 1] = p3
    BY <2>1, <2>2 DEF Joined
  <2>4. ScreenParts(s) = Z \o <<p3>> BY <1>3, <1>9 DEF Z
  <2> QED BY <2>3, <2>4
<1> QED BY <1>14, <1>15, <1>16, <1>17 DEF p3

(* A text of some characters has a page.                                   *)
LEMMA PageCount ==
  ASSUME NEW w \in Nat \ {0}, NEW p \in Nat \ {0}
  PROVE  (w + p - 1) \div p # 0
<1>1. (w + p - 1) \div p \in Nat /\ w + p - 1 >= p OBVIOUS
<1>2. w + p - 1 < p * ((w + p - 1) \div p) + p OBVIOUS
<1> QED BY <1>1, <1>2

(* The warnings: every one says something, on one page or several.         *)
IsWarning(x) == x.title = "Warning:" /\ x.said # {} /\ x.pages # 0

Warns(W) ==
  /\ IsSequence(W)
  /\ \A n \in 1..Len(W) : IsWarning(W[n])

LEMMA OneWarns ==
  ASSUME NEW a, IsWarning(a)
  PROVE  Warns(<<a>>)
<1>1. \A n \in 1..1 : n = 1 OBVIOUS
<1>2. IsSequence(<<a>>) /\ Len(<<a>>) = 1 /\ <<a>>[1] = a BY OneLong
<1> QED BY <1>1, <1>2 DEF Warns

LEMMA WhenWarns ==
  ASSUME NEW condition, NEW a, IsWarning(a)
  PROVE  Warns(When(condition, a))
<1>1. Warns(<<>>)
  <2>1. \A n \in 1..0 : FALSE OBVIOUS
  <2> QED BY <2>1, NoneLong DEF Warns
<1> QED BY <1>1, OneWarns DEF When

LEMMA WarningIsOne ==
  ASSUME NEW text
  PROVE  IsWarning(Warning(text))
<1>1. Warning(text).said = {text} BY DEF Warning, OnePage, Screen
<1> QED BY <1>1 DEF IsWarning, Warning, OnePage, Screen

LEMMA HashWarningIsOne == IsWarning(HashWarning)
<1> DEFINE y == [value |-> "Specified hash algorithm does not match", width |-> 57]
<1>1. HashWarning = pageString("Warning:", {y}, FALSE) BY DEF HashWarning
<1>2. y.width = 57 OBVIOUS
<1> HIDE DEF y
<1>3. {y} # {} /\ (CHOOSE p \in {y} : TRUE) = y OBVIOUS
<1>4. HashWarning.pages = (57 + PageWidth - 1) \div PageWidth
  BY <1>1, <1>2, <1>3 DEF pageString, Screen
<1>5. (57 + PageWidth - 1) \div PageWidth # 0 BY TransactionAssumption, PageCount
<1>6. HashWarning.title = "Warning:" /\ HashWarning.said = {p.value : p \in {y}}
  BY <1>1 DEF pageString, Screen
<1>7. y.value \in {p.value : p \in {y}} OBVIOUS
<1> QED BY <1>4, <1>5, <1>6, <1>7 DEF IsWarning

LEMMA WarningsJoined ==
  ASSUME NEW V, NEW W, Warns(V), Warns(W)
  PROVE  Warns(V \o W)
<1> DEFINE Z == V \o W
<1>1. Joined(Z, V, W) BY Concatenated DEF Warns
<1> HIDE DEF Z
<1>2. ASSUME NEW n \in 1..Len(Z)
      PROVE  IsWarning(Z[n])
  <2>1. CASE n \in 1..Len(V) BY <1>1, <2>1 DEF Joined, Warns
  <2>2. CASE \E k \in 1..Len(W) : n = Len(V) + k
    <3>1. PICK k \in 1..Len(W) : n = Len(V) + k BY <2>2
    <3>2. Z[n] = W[k] BY <1>1, <3>1, Zenon DEF Joined
    <3> QED BY <3>2 DEF Warns
  <2> QED BY <1>1, <2>1, <2>2 DEF Joined
<1>3. Warns(Z) BY <1>1, <1>2 DEF Warns, Joined
<1> QED BY <1>3 DEF Z

LEMMA WarningsWarn ==
  ASSUME NEW v
  PROVE  Warns(WarningScreens(v))
<1> DEFINE t1 == Warning("Incorrect address in transaction.")
           t3 == Warning("No address stored on the device.")
           t4 == Warning("Different address stored on device.")
           t5 == Warning("Slot error.")
<1>1. WarningScreens(v) =
        CASE v.show_address \in {"YES", "YES_HASH_MISMATCH"} ->
               When(~v.addressUsedInTx, t1) \o When(v.show_address = "YES_HASH_MISMATCH", HashWarning)
          [] v.show_address = "EMPTY_SLOT"        -> <<t3>>
          [] v.show_address = "HDPATHS_NOT_EQUAL" -> <<t4>>
          [] OTHER                                -> <<t5>>
  BY Zenon DEF WarningScreens
<1>2. IsWarning(t1) /\ IsWarning(t3) /\ IsWarning(t4) /\ IsWarning(t5) BY WarningIsOne
<1> HIDE DEF t1, t3, t4, t5
<1>3. /\ Warns(<<t3>>) /\ Warns(<<t4>>) /\ Warns(<<t5>>)
      /\ Warns(When(~v.addressUsedInTx, t1) \o When(v.show_address = "YES_HASH_MISMATCH", HashWarning))
  BY <1>2, OneWarns, WhenWarns, HashWarningIsOne, WarningsJoined
<1> QED BY <1>1, <1>3

-----------------------------------------------------------------------------
(* The screens of a situation in which the transaction can be shown say    *)
(* its facts, then the warnings; in any other they do not print.           *)
SaysIt(X, s) ==
  \E F : /\ SayAll(F, Facts(s))
         /\ Joined(X, F, WarningScreens(s.verdict))
         /\ Len(F) # 0
         /\ F[Len(F)] = FieldScreens(s)[Len(FieldScreens(s))]

(* There is a last field.                                                  *)
LEMMA FieldScreensLong ==
  ASSUME NEW s \in Situation
  PROVE  IsSequence(FieldScreens(s)) /\ Len(FieldScreens(s)) # 0
<1> DEFINE c == content[s.tx]
           X1 == SixScreens(c)
           X2 == AuthorizerScreens(c)
           X3 == PathScreens(s)
<1>1. s.tx \in Transaction BY InTheSituation
<1>2. c.authorizers \in Seq(DOMAIN Width \cup {Wrong}) /\ Wrong \notin {"gas", "id", "seq", "path"}
  BY <1>1, ContentAssumption
<1>3. IsSequence(X1) /\ IsSequence(X2) BY <1>2, SixSay, AuthorizersSay
<1>4. IsSequence(X3) BY OneLong, NoneLong DEF PathScreens
<1>5. Len(X1) = 6
  <2> DEFINE t1 == "Ref Block"
             t2 == "Gas Limit"
             t3 == "Prop Key Addr"
             t4 == "Prop Key Id"
             t5 == "Prop Key Seq Num"
             t6 == "Payer"
  <2>1. X1 = <<FieldScreen(t1, c.referenceBlockId), FieldScreen(t2, "gas"), FieldScreen(t3, c.proposer),
               FieldScreen(t4, "id"), FieldScreen(t5, "seq"), FieldScreen(t6, c.payer)>>
    BY Zenon DEF SixScreens
  <2> HIDE DEF t1, t2, t3, t4, t5, t6, X1
  <2> QED BY <2>1, SixLong
<1>6. FieldScreens(s) = (X1 \o X2) \o X3 BY FieldsAre
<1> HIDE DEF X1, X2, X3
<1>7. Joined(X1 \o X2, X1, X2) BY <1>3, Concatenated
<1>8. Joined((X1 \o X2) \o X3, X1 \o X2, X3)
  <2>1. IsSequence(X1 \o X2) BY <1>7 DEF Joined
  <2> QED BY <1>4, <2>1, Concatenated
<1>9. PICK a \in Nat, b \in Nat : a = Len(X2) /\ b = Len(X3) BY <1>7, <1>8 DEF Joined
<1>10. Len((X1 \o X2) \o X3) = (6 + a) + b BY <1>5, <1>7, <1>8, <1>9 DEF Joined
<1>11. (6 + a) + b # 0 OBVIOUS
<1> QED BY <1>6, <1>8, <1>10, <1>11 DEF Joined

(* The screens of the parts of a situation, joined.                        *)
LEMMA ScreensJoined ==
  ASSUME NEW s, {} \notin Range(ScreenParts(s))
  PROVE  Screens(s) = {FlattenSeq(Chosen(ScreenParts(s))) \o WarningScreens(s.verdict)}
<1> DEFINE parts == {p \in {ScreenParts(s)} : {} \notin Range(p)}
           joined(p) == FlattenSeq(Chosen(p)) \o WarningScreens(s.verdict)
<1>1. parts = {ScreenParts(s)} OBVIOUS
<1>2. Screens(s) = {joined(p) : p \in parts} BY Zenon DEF Screens, Chosen
<1> HIDE DEF parts, joined
<1>3. Screens(s) = {joined(ScreenParts(s))} BY <1>1, <1>2
<1> QED BY <1>3 DEF joined

LEMMA ShowableIsSaid ==
  ASSUME NEW s \in Situation, Showable(s)
  PROVE  \E X : Screens(s) = {X} /\ SaysIt(X, s)
<1> DEFINE P == ScreenParts(s)
           W == WarningScreens(s.verdict)
           F == FlattenSeq(Chosen(P))
           C == Chosen(P)
<1>1. /\ Proper(P) /\ Len(P) # 0 /\ P[Len(P)] = {FieldScreens(s)}
      /\ AllShown(P, FactParts(s))
  BY SituationShown
<1>2. {} \notin Range(P) /\ SayAll(F, Facts(s)) BY <1>1, ShownChosen DEF Facts
<1>3. Screens(s) = {F \o W} BY <1>2, ScreensJoined
<1>4. AllSequences(C) /\ Len(C) = Len(P) /\ \A n \in 1..Len(P) : P[n] = {C[n]}
  BY <1>1, <1>2, ProperChosen
<1>5. Joined(F \o W, F, W)
  <2>1. IsSequence(W) BY WarningsWarn DEF Warns
  <2>2. IsSequence(F) BY <1>2 DEF SayAll
  <2> HIDE DEF F, W
  <2> QED BY <2>1, <2>2, Concatenated
<1> HIDE DEF P, C
<1>6. C[Len(C)] = FieldScreens(s)
  <2>1. Len(P) \in 1..Len(P) BY <1>1, IsSequenceLen DEF Proper
  <2>2. P[Len(P)] = {C[Len(P)]} BY <1>4, <2>1
  <2> QED BY <1>1, <1>4, <2>2
<1>7. Len(C[Len(C)]) # 0 BY <1>6, FieldScreensLong
<1>8. F = FlattenSeq(C) BY DEF C
<1> HIDE DEF F
<1>9. Len(F) # 0 /\ F[Len(F)] = FieldScreens(s)[Len(FieldScreens(s))]
  BY <1>4, <1>6, <1>7, <1>8, LastFlattened
<1>10. SaysIt(F \o W, s) BY <1>2, <1>5, <1>9 DEF SaysIt
<1> QED BY <1>3, <1>10

LEMMA UnshowableIsSilent ==
  ASSUME NEW s \in Situation, ~Showable(s)
  PROVE  Screens(s) = {} \/ \E X : Screens(s) = {X} /\ Silent(X)
<1> DEFINE P == ScreenParts(s)
           W == WarningScreens(s.verdict)
           F == FlattenSeq(Chosen(P))
<1>1. Proper(P) /\ Broken(P) BY SituationShown
<1>2. CASE {} \in Range(P) BY <1>2 DEF Screens
<1>3. CASE {} \notin Range(P)
  <2>1. Screens(s) = {F \o W} BY <1>3, ScreensJoined
  <2>2. Silent(F) BY <1>1, <1>3, BrokenChosen
  <2>3. IsSequence(W) /\ IsSequence(F) BY <2>2, WarningsWarn DEF Warns, Silent
  <2> HIDE DEF F, W
  <2>4. Silent(F \o W) BY <2>2, <2>3, SilentJoined
  <2> QED BY <2>1, <2>4
<1> QED BY <1>2, <1>3

LEMMA TabulatedSame ==
  ASSUME NEW f
  PROVE  Tabulated(f) = f
BY DEF Tabulated

(* The tables are what they tabulate.                                      *)
LEMMA ScreensTabulated ==
  /\ screensOf = [s \in Situation |-> Screens(s)]
  /\ itemsOf = [s \in Situation |-> ReviewItems(Screens(s))]
  /\ factsOf = [s \in {s \in Situation : Showable(s)} |-> Facts(s)]
<1> DEFINE f == [s \in Situation |-> Screens(s)]
           g == [s \in Situation |-> ReviewItems(Screens(s))]
           D == {s \in Situation : Showable(s)}
           h == [s \in D |-> Facts(s)]
<1>2. screensOf = Tabulated(f) BY DEF screensOf
<1>3. itemsOf = Tabulated(g) BY DEF itemsOf
<1>4. factsOf = Tabulated(h) BY DEF factsOf
<1> HIDE DEF f, g, h, D
<1>5. screensOf = f /\ itemsOf = g /\ factsOf = h BY <1>2, <1>3, <1>4, TabulatedSame
<1> QED BY <1>5 DEF f, g, h, D

-----------------------------------------------------------------------------
(* The countdown in eight bits counts fewer screens than its largest index,*)
(* and gets each of them.                                                  *)
LEMMA Counted ==
  ASSUME NEW X, Len(X) \in Nat
  PROVE  parser_getNumItems({X}) = IF Len(X) < INT8_MAX THEN {Len(X)} ELSE {}
<1>1. PICK L \in Nat : L = Len(X) OBVIOUS
<1>2. PICK M \in Nat : M = INT8_MAX BY TransactionAssumption
<1>3. INT8_MIN = -M - 1 BY <1>2 DEF INT8_MIN
<1>4. Countdown(L) = IF -1 - L < -M - 1 THEN -M - 1 ELSE -1 - L BY <1>3 DEF Countdown
<1>5. parser_getNumItems({X}) = {-1 - left : left \in {Countdown(L)} \ {-M - 1}}
  <2>1. {Countdown(Len(x)) : x \in {X}} = {Countdown(L)} BY <1>1
  <2> QED BY <1>3, <2>1 DEF parser_getNumItems
<1>6. CASE L < M
  <2>1. Countdown(L) = -1 - L /\ -1 - L # -M - 1 /\ -1 - (-1 - L) = L BY <1>4, <1>6
  <2>2. {Countdown(L)} \ {-M - 1} = {-1 - L} BY <2>1
  <2>3. {-1 - left : left \in {-1 - L}} = {L} BY <2>1
  <2>4. parser_getNumItems({X}) = {L} BY <1>5, <2>2, <2>3
  <2> QED BY <1>1, <1>2, <1>6, <2>4
<1>7. CASE ~(L < M)
  <2>1. Countdown(L) = -M - 1 BY <1>4, <1>7
  <2>2. {Countdown(L)} \ {-M - 1} = {} BY <2>1
  <2> QED BY <1>1, <1>2, <1>5, <1>7, <2>2
<1> QED BY <1>6, <1>7

(* Each of these items is got.                                             *)
LEMMA ItemGot ==
  ASSUME NEW X, Len(X) \in Nat, Len(X) < INT8_MAX, NEW idx \in 0..Len(X)-1
  PROVE  parser_getItem({X}, idx) = {X[idx+1]}
<1>1. INT8_MAX \in Nat BY TransactionAssumption
<1>2. idx <= INT8_MAX /\ idx < Len(X) BY <1>1
<1> QED BY <1>2 DEF parser_getItem

Prints(X) == \A n \in 1..Len(X) : X[n].said # {}

(* All of them print if all screens say something.                         *)
LEMMA AllPrinted ==
  ASSUME NEW X, Len(X) \in Nat, Len(X) < INT8_MAX
  PROVE  AllPrint({X}, Len(X)) <=> Prints(X)
<1>1. ASSUME Prints(X), NEW idx \in 0..Len(X)-1
      PROVE  \E shown \in parser_getItem({X}, idx) : shown.said # {}
  <2>1. parser_getItem({X}, idx) = {X[idx+1]} BY ItemGot
  <2>2. idx + 1 \in 1..Len(X) OBVIOUS
  <2> QED BY <1>1, <2>1, <2>2 DEF Prints
<1>2. ASSUME AllPrint({X}, Len(X)), NEW n \in 1..Len(X)
      PROVE  X[n].said # {}
  <2>1. PICK idx \in 0..Len(X)-1 : idx = n - 1 /\ idx + 1 = n OBVIOUS
  <2>2. parser_getItem({X}, idx) = {X[idx+1]} BY ItemGot
  <2>3. \E shown \in parser_getItem({X}, idx) : shown.said # {} BY <1>2 DEF AllPrint
  <2> QED BY <2>1, <2>2, <2>3
<1> QED BY <1>1, <1>2 DEF AllPrint, Prints

(* So parser_validate accepts screens that print and can be counted.       *)
LEMMA ValidatedPrints ==
  ASSUME NEW X, Len(X) \in Nat
  PROVE  parser_validate({X}) <=> Len(X) < INT8_MAX /\ Prints(X)
BY Counted, AllPrinted DEF parser_validate

LEMMA NothingValidated == ~parser_validate({}) /\ ReviewItems({}) = <<>>
BY DEF parser_validate, parser_getNumItems, ReviewItems

(* What is said is printed, what is silent is not.                         *)
LEMMA SaidPrints ==
  ASSUME NEW s, NEW X, SaysIt(X, s)
  PROVE  /\ Len(X) \in Nat /\ Len(X) = Len(Facts(s)) + Len(WarningScreens(s.verdict))
         /\ Len(Facts(s)) \in Nat /\ Len(WarningScreens(s.verdict)) \in Nat /\ Len(Facts(s)) # 0
         /\ Prints(X)
         /\ \A n \in 1..Len(Facts(s)) : Says(X[n], Facts(s)[n])
         /\ \A n \in Len(Facts(s))+1..Len(X) : X[n].title = "Warning:"
<1> DEFINE W == WarningScreens(s.verdict)
           G == Facts(s)
<1>1. PICK F : SayAll(F, G) /\ Joined(X, F, W) /\ Len(F) # 0 BY DEF SaysIt
<1>2. Warns(W) BY WarningsWarn
<1> HIDE DEF W, G
<1>3. PICK a \in Nat, b \in Nat : a = Len(F) /\ b = Len(W) /\ Len(X) = a + b BY <1>1 DEF Joined
<1>4. Len(G) = a BY <1>1, <1>3 DEF SayAll
<1>5. \A n \in 1..a : Says(X[n], G[n]) BY <1>1, <1>3 DEF Joined, SayAll
<1>6. \A n \in a+1..a+b : X[n].title = "Warning:" /\ X[n].said # {}
  <2> TAKE n \in a+1..a+b
  <2>1. PICK k \in 1..b : n = a + k
    <3>1. n - a \in 1..b /\ n = a + (n - a) OBVIOUS
    <3> QED BY <3>1
  <2>2. X[n] = W[k] BY <1>1, <1>3, <2>1 DEF Joined
  <2> QED BY <1>2, <1>3, <2>2 DEF Warns, IsWarning
<1>7. Prints(X)
  <2> SUFFICES ASSUME NEW n \in 1..a+b PROVE X[n].said # {} BY <1>3 DEF Prints
  <2>1. CASE n \in 1..a BY <1>5, <2>1 DEF Says
  <2>2. CASE n \notin 1..a
    <3>1. n \in a+1..a+b BY <2>2
    <3> QED BY <1>6, <3>1
  <2> QED BY <2>1, <2>2
<1> QED BY <1>1, <1>3, <1>4, <1>5, <1>6, <1>7 DEF W, G

LEMMA SilentDoesNot ==
  ASSUME NEW X, Silent(X)
  PROVE  Len(X) \in Nat /\ ~Prints(X)
BY IsSequenceLen DEF Silent, Prints

(* In every situation, what parser_validate accepts is what can be shown   *)
(* as declared in fewer screens than the index can count.                  *)
LEMMA ValidatedIsTyped ==
  ASSUME NEW s \in Situation
  PROVE  /\ s \in validated <=> s \in typed
         /\ s \in DOMAIN factsOf <=> Showable(s)
         /\ Showable(s) => /\ factsOf[s] = Facts(s)
                           /\ Length(s) = Len(Facts(s)) + Len(WarningScreens(s.verdict))
<1>1. s \in validated <=> parser_validate(Screens(s)) BY ScreensTabulated DEF validated
<1>2. s \in DOMAIN factsOf <=> Showable(s) BY ScreensTabulated
<1>3. Showable(s) => factsOf[s] = Facts(s) BY ScreensTabulated
<1>4. Showable(s) => Length(s) = Len(Facts(s)) + Len(WarningScreens(s.verdict)) BY <1>3 DEF Length
<1>5. CASE Showable(s)
  <2>1. PICK X : Screens(s) = {X} /\ SaysIt(X, s) BY <1>5, ShowableIsSaid
  <2>2. Len(X) \in Nat /\ Len(X) = Length(s) /\ Prints(X) BY <1>4, <1>5, <2>1, SaidPrints
  <2>3. parser_validate(Screens(s)) <=> Length(s) < INT8_MAX BY <2>1, <2>2, ValidatedPrints
  <2> QED BY <1>1, <1>2, <1>3, <1>4, <1>5, <2>3 DEF typed
<1>6. CASE ~Showable(s)
  <2>1. ~parser_validate(Screens(s))
    <3>1. CASE Screens(s) = {} BY <3>1, NothingValidated
    <3>2. CASE \E X : Screens(s) = {X} /\ Silent(X)
      BY <3>2, SilentDoesNot, ValidatedPrints
    <3> QED BY <1>6, <3>1, <3>2, UnshowableIsSilent
  <2> QED BY <1>1, <1>2, <1>6, <2>1 DEF typed
<1> QED BY <1>5, <1>6

(* A field of a transaction that can be shown has a page.                  *)
LEMMA FieldPaged ==
  ASSUME NEW title, NEW field, field # Wrong, Width[field] \in Nat \ {0}
  PROVE  FieldScreen(title, field).pages # 0
<1>1. {Text(v) : v \in {field} \ {Wrong}} = {Text(field)} OBVIOUS
<1> DEFINE y == Text(field)
<1>2. FieldScreen(title, field) = pageString(title, {y}, FALSE) BY <1>1 DEF FieldScreen
<1>3. y.width = Width[field] BY DEF Text
<1> HIDE DEF y
<1>4. {y} # {} /\ (CHOOSE p \in {y} : TRUE) = y OBVIOUS
<1>5. pageString(title, {y}, FALSE).pages = (y.width + PageWidth - 1) \div PageWidth
  BY <1>4 DEF pageString, Screen
<1>6. (y.width + PageWidth - 1) \div PageWidth # 0
  <2>1. y.width \in Nat \ {0} /\ PageWidth \in Nat \ {0} BY <1>3, TransactionAssumption
  <2> QED BY <2>1, PageCount
<1> QED BY <1>2, <1>5, <1>6

Paged(X) == IsSequence(X) /\ \A n \in 1..Len(X) : X[n].pages # 0

LEMMA PagedJoined ==
  ASSUME NEW V, NEW W, Paged(V), Paged(W)
  PROVE  Paged(V \o W)
<1> DEFINE Z == V \o W
<1>1. Joined(Z, V, W) BY Concatenated DEF Paged
<1> HIDE DEF Z
<1>2. ASSUME NEW n \in 1..Len(Z) PROVE Z[n].pages # 0
  <2>1. CASE n \in 1..Len(V) BY <1>1, <2>1 DEF Joined, Paged
  <2>2. CASE \E k \in 1..Len(W) : n = Len(V) + k BY <1>1, <2>2 DEF Joined, Paged
  <2> QED BY <1>1, <2>1, <2>2 DEF Joined
<1>3. Paged(Z) BY <1>1, <1>2 DEF Paged, Joined
<1> QED BY <1>3 DEF Z

LEMMA FieldsPaged ==
  ASSUME NEW s \in Situation, Showable(s)
  PROVE  Paged(FieldScreens(s))
<1> DEFINE c == content[s.tx]
           X1 == SixScreens(c)
           X2 == AuthorizerScreens(c)
           X3 == PathScreens(s)
           t1 == "Ref Block"
           t2 == "Gas Limit"
           t3 == "Prop Key Addr"
           t4 == "Prop Key Id"
           t5 == "Prop Key Seq Num"
           t6 == "Payer"
           t7 == "Your Path"
<1>1. s.tx \in Transaction BY InTheSituation
<1>2. /\ c.authorizers \in Seq(DOMAIN Width \cup {Wrong})
      /\ \A field \in Fields(c) \ {Wrong} : Width[field] \in Nat \ {0}
      /\ Wrong \notin DOMAIN chainOf \cup {"gas", "id", "seq", "path"}
  BY <1>1, ContentAssumption
<1>3. /\ c.payer \in DOMAIN chainOf
      /\ Wrong \notin {c.referenceBlockId, c.proposer} \cup Range(c.authorizers)
  BY DEF Showable
<1>4. /\ \A f \in {"gas", "id", "seq", "path", c.referenceBlockId, c.proposer, c.payer} :
           f # Wrong /\ Width[f] \in Nat \ {0}
      /\ \A f \in Range(c.authorizers) : f # Wrong /\ Width[f] \in Nat \ {0}
  BY <1>2, <1>3 DEF Fields
<1>5. X1 = <<FieldScreen(t1, c.referenceBlockId), FieldScreen(t2, "gas"), FieldScreen(t3, c.proposer),
             FieldScreen(t4, "id"), FieldScreen(t5, "seq"), FieldScreen(t6, c.payer)>>
  BY Zenon DEF SixScreens
<1>6. FieldScreens(s) = (X1 \o X2) \o X3 BY FieldsAre
<1>7. X3 = IF s.expert THEN <<FieldScreen(t7, "path")>> ELSE <<>> BY Zenon DEF PathScreens
<1>8. /\ IsSequence(X2) /\ Len(X2) = Len(c.authorizers)
      /\ \A i \in 1..Len(c.authorizers) :
           X2[i] = FieldScreen(<<"Authorizer", i>>, c.authorizers[i])
      /\ DOMAIN c.authorizers = 1..Len(c.authorizers)
  <2>1. DOMAIN c.authorizers = 1..Len(c.authorizers) /\ Len(c.authorizers) \in Nat BY <1>2
  <2>2. X2 = [i \in 1..Len(c.authorizers) |-> X2[i]] BY <2>1 DEF AuthorizerScreens
  <2>3. \A i \in 1..Len(c.authorizers) : X2[i] = FieldScreen(<<"Authorizer", i>>, c.authorizers[i])
    BY <2>1 DEF AuthorizerScreens
  <2> HIDE DEF X2
  <2> QED BY <2>1, <2>2, <2>3, FunctionIsSequence
<1> HIDE DEF t1, t2, t3, t4, t5, t6, t7, X1, X2, X3
<1>9. Paged(X1)
  <2>1. /\ IsSequence(X1) /\ Len(X1) = 6
        /\ X1[1] = FieldScreen(t1, c.referenceBlockId) /\ X1[2] = FieldScreen(t2, "gas")
        /\ X1[3] = FieldScreen(t3, c.proposer) /\ X1[4] = FieldScreen(t4, "id")
        /\ X1[5] = FieldScreen(t5, "seq") /\ X1[6] = FieldScreen(t6, c.payer)
    BY <1>5, SixLong
  <2>2. \A n \in 1..6 : n = 1 \/ n = 2 \/ n = 3 \/ n = 4 \/ n = 5 \/ n = 6 OBVIOUS
  <2>3. X1[1].pages # 0 /\ X1[2].pages # 0 /\ X1[3].pages # 0 BY <1>4, <2>1, FieldPaged
  <2>4. X1[4].pages # 0 /\ X1[5].pages # 0 /\ X1[6].pages # 0 BY <1>4, <2>1, FieldPaged
  <2>5. IsSequence(X1) /\ Len(X1) = 6 BY <2>1
  <2> QED BY <2>2, <2>3, <2>4, <2>5 DEF Paged
<1>10. Paged(X2)
  <2>1. ASSUME NEW n \in 1..Len(X2) PROVE X2[n].pages # 0
    <3>1. n \in DOMAIN c.authorizers /\ X2[n] = FieldScreen(<<"Authorizer", n>>, c.authorizers[n])
      BY <1>8
    <3>2. c.authorizers[n] \in Range(c.authorizers) BY <3>1 DEF Range
    <3>3. c.authorizers[n] # Wrong /\ Width[c.authorizers[n]] \in Nat \ {0} BY <1>4, <3>2
    <3> QED BY <3>1, <3>3, FieldPaged
  <2> QED BY <1>8, <2>1 DEF Paged
<1>11. Paged(X3)
  <2>1. CASE s.expert
    <3> DEFINE a == FieldScreen(t7, "path")
    <3>1. a.pages # 0 BY <1>4, FieldPaged
    <3>2. X3 = <<a>> BY <1>7, <2>1
    <3> HIDE DEF a
    <3>3. \A n \in 1..1 : n = 1 OBVIOUS
    <3> QED BY <3>1, <3>2, <3>3, OneLong DEF Paged
  <2>2. CASE ~s.expert
    <3>1. X3 = <<>> BY <1>7, <2>2
    <3>2. \A n \in 1..0 : FALSE OBVIOUS
    <3> QED BY <3>1, <3>2, NoneLong DEF Paged
  <2> QED BY <2>1, <2>2
<1> HIDE DEF c
<1> QED BY <1>6, <1>9, <1>10, <1>11, PagedJoined

-----------------------------------------------------------------------------
(* The items of the screens X that are all printed.                        *)
LEMMA ItemsOf ==
  ASSUME NEW X, Len(X) \in Nat, Prints(X)
  PROVE  /\ Len(X) < INT8_MAX =>
              ReviewItems({X}) = [i \in 1..Len(X) |-> [pages |-> X[i].pages, checked |-> X[i].checked]]
         /\ ~(Len(X) < INT8_MAX) => ReviewItems({X}) = <<>>
<1>1. PICK L \in Nat : L = Len(X) OBVIOUS
<1>2. CASE L < INT8_MAX
  <2>1. parser_getNumItems({X}) = {L} BY <1>1, <1>2, Counted
  <2>2. (CHOOSE n \in {L} : TRUE) = L OBVIOUS
  <2>3. AllPrint({X}, L) BY <1>1, <1>2, AllPrinted
  <2> DEFINE Got(idx) == CHOOSE shown \in parser_getItem({X}, idx) : TRUE
  <2>4. ReviewItems({X}) = [i \in 1..L |-> [pages |-> Got(i - 1).pages, checked |-> Got(i - 1).checked]]
    BY <2>1, <2>2, <2>3 DEF ReviewItems
  <2>5. \A i \in 1..L : Got(i - 1) = X[i]
    <3> TAKE i \in 1..L
    <3>1. PICK k \in 0..L-1 : k = i - 1 /\ k + 1 = i OBVIOUS
    <3>2. parser_getItem({X}, k) = {X[k + 1]} BY <1>1, <1>2, ItemGot
    <3> QED BY <3>1, <3>2
  <2> HIDE DEF Got
  <2> QED BY <1>1, <1>2, <2>4, <2>5
<1>3. CASE ~(L < INT8_MAX)
  <2>1. parser_getNumItems({X}) = {} BY <1>1, <1>3, Counted
  <2> QED BY <1>1, <1>3, <2>1 DEF ReviewItems
<1> QED BY <1>1, <1>2, <1>3

(* What the review of a transaction that can be shown pages through: its   *)
(* facts and warnings, each at its place, or nothing if they are more than *)
(* the index can count.                                                    *)
ShowsAll(s) ==
  /\ Len(itemsOf[s]) = Length(s)
  /\ Length(s) \in Nat /\ Len(factsOf[s]) \in Nat
  /\ \A idx \in 0..Length(s)-1 : \E shown \in parser_getItem(screensOf[s], idx) :
       IF idx < Len(factsOf[s])
       THEN /\ shown.title = factsOf[s][idx + 1].title
            /\ shown.said = {factsOf[s][idx + 1].value}
       ELSE shown.title = "Warning:"
  /\ itemsOf[s] # <<>> /\ PagesOf(itemsOf[s], Len(itemsOf[s]) - 1) # 0

LEMMA ShowableReview ==
  ASSUME NEW s \in Situation, Showable(s)
  PROVE  /\ s \in typed => ShowsAll(s)
         /\ s \notin typed => itemsOf[s] = <<>>
<1>1. PICK X : Screens(s) = {X} /\ SaysIt(X, s) BY ShowableIsSaid
<1>2. s \in DOMAIN factsOf /\ factsOf[s] = Facts(s) /\ (s \in typed <=> Length(s) < INT8_MAX)
  BY ValidatedIsTyped DEF typed
<1>3. screensOf[s] = {X} /\ itemsOf[s] = ReviewItems({X}) BY <1>1, ScreensTabulated
<1>4. /\ Len(X) \in Nat /\ Len(X) = Length(s)
      /\ Len(Facts(s)) \in Nat /\ Len(WarningScreens(s.verdict)) \in Nat /\ Len(Facts(s)) # 0
      /\ Prints(X)
      /\ Len(X) = Len(Facts(s)) + Len(WarningScreens(s.verdict))
      /\ \A n \in 1..Len(Facts(s)) : Says(X[n], Facts(s)[n])
      /\ \A n \in Len(Facts(s))+1..Len(X) : X[n].title = "Warning:"
  BY <1>1, <1>2, SaidPrints DEF Length
<1>5. PICK L \in Nat, a \in Nat : L = Len(X) /\ a = Len(Facts(s)) /\ L >= a /\ a # 0 /\ L # 0
  BY <1>4
<1>6. s \notin typed => itemsOf[s] = <<>>
  BY <1>2, <1>3, <1>4, ItemsOf
<1>7. ASSUME s \in typed PROVE ShowsAll(s)
  <2>1. L < INT8_MAX BY <1>2, <1>4, <1>5, <1>7
  <2>2. itemsOf[s] = [i \in 1..L |-> [pages |-> X[i].pages, checked |-> X[i].checked]]
    BY <1>3, <1>4, <1>5, <2>1, ItemsOf
  <2>3. Len(itemsOf[s]) = L BY <1>5, <2>2
  <2>4. ASSUME NEW idx \in 0..L-1
        PROVE  \E shown \in parser_getItem({X}, idx) :
                 IF idx < a
                 THEN shown.title = Facts(s)[idx + 1].title /\ shown.said = {Facts(s)[idx + 1].value}
                 ELSE shown.title = "Warning:"
    <3>1. parser_getItem({X}, idx) = {X[idx + 1]} BY <1>5, <2>1, ItemGot
    <3>2. CASE idx < a
      <4>1. idx + 1 \in 1..a BY <3>2
      <4>2. Says(X[idx + 1], Facts(s)[idx + 1]) BY <1>4, <1>5, <4>1
      <4> QED BY <3>1, <3>2, <4>2 DEF Says
    <3>3. CASE ~(idx < a)
      <4>1. idx + 1 \in a+1..L BY <3>3
      <4>2. X[idx + 1].title = "Warning:" BY <1>4, <1>5, <4>1
      <4> QED BY <3>1, <3>3, <4>2
    <3> QED BY <3>2, <3>3
  <2>5. X[L].pages # 0
    <3> DEFINE W == WarningScreens(s.verdict)
    <3>1. PICK F : /\ SayAll(F, Facts(s)) /\ Joined(X, F, W) /\ Len(F) # 0
                   /\ F[Len(F)] = FieldScreens(s)[Len(FieldScreens(s))]
      BY <1>1 DEF SaysIt
    <3>2. Warns(W) BY WarningsWarn
    <3> HIDE DEF W
    <3>3. PICK b \in Nat : b = Len(W) /\ L = a + b /\ Len(F) = a
      BY <1>5, <3>1 DEF Joined, SayAll
    <3>4. CASE b = 0
      <4>1. a \in 1..a BY <1>5
      <4>2. X[a] = F[a] BY <3>1, <3>3, <4>1 DEF Joined
      <4>3. FieldScreens(s)[Len(FieldScreens(s))].pages # 0
        <5>1. PICK k \in Nat : k = Len(FieldScreens(s)) /\ k # 0 BY FieldScreensLong, IsSequenceLen
        <5>2. k \in 1..k BY <5>1
        <5> QED BY <5>1, <5>2, FieldsPaged DEF Paged
      <4> QED BY <3>1, <3>3, <3>4, <4>2, <4>3
    <3>5. CASE b # 0
      <4>1. b \in 1..b BY <3>5
      <4>2. X[a + b] = W[b] BY <3>1, <3>3, <4>1 DEF Joined
      <4>3. W[b].pages # 0 BY <3>2, <3>3, <4>1 DEF Warns, IsWarning
      <4> QED BY <3>3, <4>2, <4>3
    <3> QED BY <3>4, <3>5
  <2>6. itemsOf[s] # <<>> /\ PagesOf(itemsOf[s], Len(itemsOf[s]) - 1) # 0
    <3>1. L \in 1..L /\ (L - 1) + 1 = L BY <1>5
    <3>2. itemsOf[s][L].pages = X[L].pages BY <2>2, <3>1
    <3>3. DOMAIN itemsOf[s] = 1..L BY <2>2
    <3> QED BY <2>3, <2>5, <3>1, <3>2, <3>3 DEF PagesOf
  <2> QED BY <1>2, <1>3, <1>4, <1>5, <2>3, <2>4, <2>6 DEF ShowsAll
<1> QED BY <1>6, <1>7

-----------------------------------------------------------------------------
(* 3. The paging of any review.                                             *)

IsPage(review, k, q) == k < Len(review) /\ q < PagesOf(review, k)

(* What comes before page p of item i is among the pages shown.            *)
ReadBefore(review, i, p, shown) ==
  \A k, q \in Nat :
    IsPage(review, k, q) /\ (k < i \/ (k = i /\ q < p)) => <<k, q>> \in shown

(* Whichever way the user came, nothing before the screen is unread.       *)
ReadSoFar ==
  /\ Reading  => ReadBefore(items, itemIdx, pageIdx + 1, seen)
  /\ Deciding => ReadBefore(items, Len(items), 0, seen)

Undecided == screen # "idle" => answer = "none"

IInv == TypeOK /\ ReadSoFar /\ Undecided /\ ApprovedOnlyWhenRead /\ ErrorOnlyIfEmpty

-----------------------------------------------------------------------------
(* A review of the system, open or about to be opened.                     *)
Wf(review) ==
  /\ Len(review) \in Nat
  /\ Len(review) = 0 => review = <<>>
  /\ \A i \in Nat : i < Len(review) =>
       /\ PagesOf(review, i) \in Nat
       /\ PagesOf(review, i) < LastPage
  /\ \A i \in Nat : HasPages(review, i) <=> i < Len(review) /\ PagesOf(review, i) # 0

LEMMA ReviewWf == \A review \in Reviews \cup {<<>>} : Wf(review)
<1> SUFFICES ASSUME NEW review \in Reviews \cup {<<>>} PROVE Wf(review)
  OBVIOUS
<1>1. LastPage \in Nat /\ review \in Seq(Item)
  <2>1. <<>> \in Seq(Item)
    OBVIOUS
  <2>2. QED
    BY <2>1, ReviewsAssumption
<1>2. Len(review) \in Nat /\ DOMAIN review = 1..Len(review)
  BY <1>1
<1>3. Len(review) = 0 => review = <<>>
  BY <1>1
<1>4. ASSUME NEW i \in Nat
      PROVE  i + 1 \in DOMAIN review <=> i < Len(review)
  BY <1>2
<1>5. ASSUME NEW i \in Nat, i < Len(review)
      PROVE  PagesOf(review, i) \in Nat /\ PagesOf(review, i) < LastPage
  <2>1. i + 1 \in 1..Len(review)
    BY <1>2, <1>5
  <2>2. review[i + 1] \in Item
    BY <1>1, <2>1, ElementOfSeq
  <2>3. QED
    BY <1>1, <2>2 DEF PagesOf, Item
<1>6. QED
  BY <1>2, <1>3, <1>4, <1>5 DEF Wf, HasPages

(* The pages of the open review, one by one.                               *)
LEMMA PageMember ==
  ASSUME Wf(items)
  PROVE  \A s : s \in Pages <=> \E k, q \in Nat : s = <<k, q>> /\ IsPage(items, k, q)
<1> DEFINE PagesIn(i) == {i} \X (0..PagesOf(items, i)-1)
<1>1. ASSUME NEW s \in Pages
      PROVE  \E k, q \in Nat : s = <<k, q>> /\ IsPage(items, k, q)
  <2>1. PICK i \in 0..Len(items)-1 : s \in PagesIn(i)
    BY DEF Pages
  <2>2. i \in Nat /\ i < Len(items) /\ PagesOf(items, i) \in Nat
    BY DEF Wf
  <2>3. s = <<i, s[2]>> /\ s[2] \in 0..PagesOf(items, i)-1
    BY <2>1
  <2>4. s[2] \in Nat /\ IsPage(items, i, s[2])
    BY <2>2, <2>3 DEF IsPage
  <2>5. QED
    BY <2>2, <2>3, <2>4
<1>2. ASSUME NEW k \in Nat, NEW q \in Nat, IsPage(items, k, q)
      PROVE  <<k, q>> \in Pages
  <2>1. k \in 0..Len(items)-1 /\ q \in 0..PagesOf(items, k)-1
    BY <1>2 DEF Wf, IsPage
  <2>2. <<k, q>> \in PagesIn(k)
    BY <2>1
  <2>3. QED
    BY <2>1, <2>2 DEF Pages
<1>3. QED
  BY <1>1, <1>2

LEMMA PagesRead ==
  ASSUME Wf(items)
  PROVE  ReadBefore(items, Len(items), 0, seen) <=> Pages \subseteq seen
<1>1. ASSUME ReadBefore(items, Len(items), 0, seen), NEW s \in Pages
      PROVE  s \in seen
  BY <1>1, PageMember DEF ReadBefore, IsPage
<1>2. ASSUME Pages \subseteq seen, NEW k \in Nat, NEW q \in Nat, IsPage(items, k, q)
      PROVE  <<k, q>> \in seen
  BY <1>2, PageMember
<1>3. QED
  BY <1>1, <1>2 DEF ReadBefore

LEMMA InitIInv == Init => IInv
<1> SUFFICES ASSUME Init PROVE IInv
  OBVIOUS
<1>1. TypeOK
  BY DEF Init, TypeOK, Reading, Deciding
<1>2. QED
  BY <1>1 DEF Init, IInv, ReadSoFar, Undecided, ApprovedOnlyWhenRead, ErrorOnlyIfEmpty,
              Reading, Deciding

-----------------------------------------------------------------------------
(* The page at which an item is entered.                                   *)
Entry(review, i, p) ==
  IF HasPages(review, i) THEN CappedPage(p, PagesOf(review, i)) ELSE 0

(* An item is entered at a page of its own, with nothing before it unread. *)
Enters(review, i, p, shown) ==
  /\ i \in Nat /\ p \in Nat
  /\ HasPages(review, i) => p = LastPage \/ p < PagesOf(review, i)
  /\ ReadBefore(review, i, Entry(review, i, p), shown)

LEMMA ItemShown ==
  ASSUME NEW review \in Reviews \cup {<<>>}, items' = review, answer' = "none",
         NEW i, NEW p, NEW before,
         Enters(review, i, p, before), ShowItem(review, i, p, before)
  PROVE  IInv'
<1>1. Wf(review) /\ i \in Nat /\ p \in Nat
  BY ReviewWf DEF Enters
<1>2. PICK j \in 0..Len(review) :
        /\ FirstWithPages(review, i, j)
        /\ screen' = "review"
        /\ itemIdx' = j
        /\ pageCount' = PagesOf(review, j)
        /\ pageIdx' = IF j = i THEN CappedPage(p, PagesOf(review, j)) ELSE 0
        /\ itemCount' = Len(review) + 1
        /\ seen' = before \cup {<<j, pageIdx'>>}
  BY DEF ShowItem
<1>3. j \in Nat /\ j >= i /\ HasPages(review, j) /\ \A k \in i..j-1 : ~HasPages(review, k)
  BY <1>1, <1>2 DEF FirstWithPages, Wf
<1>4. j < Len(review) /\ PagesOf(review, j) \in Nat /\ PagesOf(review, j) > 0
  BY <1>1, <1>3 DEF Wf
<1>5. pageIdx' = Entry(review, i, p) \/ j # i
  BY <1>2, <1>3 DEF Entry
<1>6. pageIdx' \in Nat /\ pageIdx' < pageCount'
  <2>1. CASE j # i
    BY <1>2, <1>4, <2>1
  <2>2. CASE j = i
    <3>1. p > PagesOf(review, j) \/ p < PagesOf(review, j)
      BY <1>1, <1>3, <1>4, <2>2 DEF Enters, Wf
    <3>2. QED
      BY <1>1, <1>2, <1>4, <2>2, <3>1 DEF CappedPage
  <2>3. QED
    BY <2>1, <2>2
<1>7. Reading' /\ ~Deciding'
  BY <1>1, <1>2, <1>4 DEF Reading, Deciding, Wf
<1>8. TypeOK'
  <2>1. itemIdx' \in Nat /\ pageCount' \in Nat /\ itemCount' \in Nat
    BY <1>1, <1>2, <1>3, <1>4 DEF Wf
  <2>2. QED
    BY <1>2, <1>6, <1>7, <2>1 DEF TypeOK
<1>9. ReadBefore(review, j, pageIdx' + 1, seen')
  <2> SUFFICES ASSUME NEW k \in Nat, NEW q \in Nat, IsPage(review, k, q),
                      k < j \/ (k = j /\ q < pageIdx' + 1)
               PROVE  <<k, q>> \in seen'
    BY DEF ReadBefore
  <2>1. HasPages(review, k)
    BY <1>1 DEF IsPage, Wf
  <2>2. CASE k = j /\ q = pageIdx'
    BY <1>2, <2>2
  <2>3. CASE k < j
    <3>1. k < i
      BY <1>1, <1>3, <2>1, <2>3
    <3>2. <<k, q>> \in before
      BY <3>1 DEF Enters, ReadBefore
    <3>3. QED
      BY <1>2, <3>2
  <2>4. CASE k = j /\ q < pageIdx'
    <3>1. j = i
      BY <1>2, <2>4
    <3>2. <<k, q>> \in before
      BY <1>5, <2>4, <3>1 DEF Enters, ReadBefore
    <3>3. QED
      BY <1>2, <3>2
  <2>5. \A n \in Nat : q < n + 1 => q = n \/ q < n
    OBVIOUS
  <2>6. QED
    BY <1>6, <2>2, <2>3, <2>4, <2>5, Zenon
<1>10. QED
  BY <1>2, <1>7, <1>8, <1>9
     DEF IInv, ReadSoFar, Undecided, ApprovedOnlyWhenRead, ErrorOnlyIfEmpty

(* The error screen is reached from an item only when no item from it on   *)
(* has pages.                                                              *)
LEMMA ErrorShown ==
  ASSUME NEW review \in Reviews \cup {<<>>}, items' = review, answer' = "none",
         NEW i \in Nat, i < Len(review) \/ i = 0, ~Renderable(review, i),
         NEW before, ShowError(review, before)
  PROVE  IInv'
<1>1. Wf(review)
  BY ReviewWf
<1>2. review = <<>> \/ PagesOf(review, Len(review) - 1) = 0
  <2>1. CASE Len(review) = 0
    BY <1>1, <2>1 DEF Wf
  <2>2. CASE Len(review) # 0
    <3>1. Len(review) - 1 \in 0..Len(review) /\ Len(review) - 1 >= i
      BY <1>1, <2>2 DEF Wf
    <3>2. ~HasPages(review, Len(review) - 1)
      BY <3>1 DEF Renderable
    <3>3. QED
      BY <1>1, <2>2, <3>2 DEF Wf
  <2>3. QED
    BY <2>1, <2>2
<1>3. ~Reading' /\ ~Deciding'
  BY DEF ShowError, Reading, Deciding
<1>4. TypeOK'
  BY <1>1, <1>3 DEF ShowError, TypeOK, Wf
<1>5. QED
  BY <1>2, <1>3, <1>4
     DEF ShowError, IInv, ReadSoFar, Undecided, ApprovedOnlyWhenRead, ErrorOnlyIfEmpty

(* An item that cannot be printed at the page it is entered at.            *)
LEMMA PageErrorShown ==
  ASSUME IInv, screen = "review", UNCHANGED <<items, answer>>,
         NEW i \in Nat, NEW p \in Nat, Unprintable(items, i, p), ShowPageError(i, p)
  PROVE  IInv'
<1>1. Wf(items) /\ TypeOK /\ answer = "none"
  BY ReviewWf DEF IInv, TypeOK, Undecided
<1>2. ~Reading' /\ ~Deciding'
  BY DEF ShowPageError, Reading, Deciding
<1>3. TypeOK'
  BY <1>1, <1>2 DEF ShowPageError, TypeOK, Wf
<1>4. ErrorOnlyIfEmpty'
  BY <1>1 DEF ShowPageError, ErrorOnlyIfEmpty, Unprintable, PagesOf
<1>5. QED
  BY <1>1, <1>2, <1>3, <1>4
     DEF ShowPageError, IInv, ReadSoFar, Undecided, ApprovedOnlyWhenRead

(* A decision is shown when every page has been.                           *)
LEMMA ActionShown ==
  ASSUME IInv, screen = "review", UNCHANGED <<items, answer>>,
         NEW i \in {Len(items), Len(items) + 1},
         ReadBefore(items, Len(items), 0, seen), ShowAction(i)
  PROVE  IInv'
<1>1. Wf(items) /\ TypeOK /\ answer = "none" /\ itemCount = Len(items) + 1
  BY ReviewWf DEF IInv, TypeOK, Undecided
<1>2. ~Reading' /\ Deciding'
  BY <1>1 DEF ShowAction, Reading, Deciding, Wf
<1>3. TypeOK'
  BY <1>1, <1>2 DEF ShowAction, TypeOK, Wf
<1>4. QED
  BY <1>1, <1>2, <1>3
     DEF ShowAction, IInv, ReadSoFar, Undecided, ApprovedOnlyWhenRead, ErrorOnlyIfEmpty

(* Turning to a page or a decision with nothing before it unread.          *)
LEMMA Turned ==
  ASSUME IInv, NEW i, NEW p, Turn(<<i, p>>),
         i <= Len(items) + 1, Enters(items, i, p, seen)
  PROVE  IInv'
<1>1. /\ screen = "review" /\ UNCHANGED <<items, answer>> /\ answer = "none"
      /\ items \in Reviews \cup {<<>>} /\ itemCount = Len(items) + 1
      /\ h_review_update_data(i, p)
  BY DEF Turn, IInv, TypeOK, Undecided
<1>2. Wf(items) /\ i \in Nat /\ p \in Nat
  BY <1>1, ReviewWf DEF Enters
<1>3. is_accept_item(i, itemCount) \/ is_reject_item(i, itemCount)
        <=> i \in {Len(items), Len(items) + 1}
  BY <1>1, <1>2 DEF is_accept_item, is_reject_item, Wf
<1>4. CASE i \in {Len(items), Len(items) + 1}
  <2>1. ReadBefore(items, Len(items), 0, seen)
    BY <1>2, <1>4 DEF Enters, ReadBefore, IsPage, Wf
  <2>2. QED
    BY <1>1, <1>3, <1>4, <2>1, ActionShown DEF h_review_update_data
<1>5. CASE i < Len(items)
  <2>1. i \notin {Len(items), Len(items) + 1}
    BY <1>2, <1>5 DEF Wf
  <2>2. CASE Unprintable(items, i, p)
    BY <1>1, <1>2, <1>3, <2>1, <2>2, PageErrorShown DEF h_review_update_data
  <2>3. CASE ~Unprintable(items, i, p) /\ Renderable(items, i)
    BY <1>1, <1>3, <2>1, <2>3, ItemShown DEF h_review_update_data
  <2>4. CASE ~Unprintable(items, i, p) /\ ~Renderable(items, i)
    BY <1>1, <1>2, <1>3, <1>5, <2>1, <2>4, ErrorShown DEF h_review_update_data
  <2>5. QED
    BY <2>2, <2>3, <2>4
<1>6. QED
  BY <1>2, <1>4, <1>5 DEF Wf

-----------------------------------------------------------------------------
(* What the two buttons turn to.                                           *)
LEMMA RightEnters ==
  ASSUME IInv, screen = "review"
  PROVE  \E i, p : /\ h_paging_increase = <<i, p>>
                   /\ i <= Len(items) + 1
                   /\ Enters(items, i, p, seen)
<1>1. /\ Wf(items) /\ itemIdx \in Nat /\ pageIdx \in Nat /\ itemCount = Len(items) + 1
      /\ Len(items) \in Nat
  BY ReviewWf DEF IInv, TypeOK, Wf
<1>2. CASE Reading
  <2>1. /\ itemIdx < Len(items) /\ pageIdx < pageCount /\ pageCount = PagesOf(items, itemIdx)
        /\ ReadBefore(items, itemIdx, pageIdx + 1, seen)
    BY <1>2 DEF IInv, TypeOK, ReadSoFar, Reading
  <2>2. HasPages(items, itemIdx) /\ pageCount \in Nat
    BY <1>1, <2>1 DEF Wf
  <2>3. CASE pageIdx + 1 < pageCount
    <3>1. CappedPage(pageIdx + 1, pageCount) = pageIdx + 1
      BY <1>1, <2>2, <2>3 DEF CappedPage
    <3>2. Enters(items, itemIdx, pageIdx + 1, seen)
      BY <1>1, <2>1, <2>2, <2>3, <3>1 DEF Enters, Entry
    <3>3. h_paging_increase = <<itemIdx, pageIdx + 1>>
      BY <2>3 DEF h_paging_increase
    <3>4. QED
      BY <1>1, <2>1, <3>2, <3>3
  <2>4. CASE ~(pageIdx + 1 < pageCount)
    <3>1. ReadBefore(items, itemIdx + 1, 0, seen)
      <4> SUFFICES ASSUME NEW k \in Nat, NEW q \in Nat, IsPage(items, k, q), k < itemIdx + 1
                   PROVE  <<k, q>> \in seen
        BY DEF ReadBefore
      <4>1. k < itemIdx \/ (k = itemIdx /\ q < pageIdx + 1)
        BY <1>1, <2>1, <2>2, <2>4 DEF IsPage
      <4>2. QED
        BY <2>1, <4>1 DEF ReadBefore
    <3>2. HasPages(items, itemIdx + 1) => 0 < PagesOf(items, itemIdx + 1)
      BY <1>1 DEF Wf
    <3>3. HasPages(items, itemIdx + 1) => CappedPage(0, PagesOf(items, itemIdx + 1)) = 0
      BY <1>1, <3>2 DEF CappedPage, Wf
    <3>4. Enters(items, itemIdx + 1, 0, seen)
      BY <1>1, <3>1, <3>2, <3>3 DEF Enters, Entry
    <3>5. h_paging_increase = <<itemIdx + 1, 0>>
      BY <1>1, <2>1, <2>4 DEF h_paging_increase, NextItem
    <3>6. QED
      BY <1>1, <2>1, <3>4, <3>5
  <2>5. QED
    BY <2>3, <2>4
<1>3. CASE Deciding
  <2>1. /\ itemIdx \in {Len(items), Len(items) + 1} /\ pageIdx = 0 /\ pageCount = 1
        /\ ReadBefore(items, Len(items), 0, seen)
    BY <1>3 DEF IInv, TypeOK, ReadSoFar, Deciding
  <2>2. ASSUME NEW i \in {Len(items), Len(items) + 1}
        PROVE  Enters(items, i, 0, seen)
    <3>1. i \in Nat /\ ~HasPages(items, i)
      BY <1>1 DEF Wf
    <3>2. ReadBefore(items, i, 0, seen)
      BY <1>1, <2>1 DEF ReadBefore, IsPage
    <3>3. QED
      BY <3>1, <3>2 DEF Enters, Entry
  <2>3. h_paging_increase = <<Len(items) + 1, 0>>
    BY <1>1, <2>1 DEF h_paging_increase, NextItem
  <2>4. QED
    BY <1>1, <2>2, <2>3
<1>4. QED
  BY <1>2, <1>3 DEF IInv, TypeOK

LEMMA LeftEnters ==
  ASSUME IInv, screen = "review"
  PROVE  \E i, p : /\ h_paging_decrease = <<i, p>>
                   /\ i <= Len(items) + 1
                   /\ Enters(items, i, p, seen)
<1>1. /\ Wf(items) /\ itemIdx \in Nat /\ pageIdx \in Nat
      /\ Len(items) \in Nat /\ LastPage \in Nat
  BY ReviewWf, ReviewsAssumption DEF IInv, TypeOK, Wf
<1>2. itemIdx <= Len(items) + 1 /\ ReadBefore(items, itemIdx, 0, seen)
  <2>1. CASE Reading
    BY <1>1, <2>1 DEF IInv, ReadSoFar, Reading, ReadBefore
  <2>2. CASE Deciding
    <3>1. itemIdx \in {Len(items), Len(items) + 1} /\ ReadBefore(items, Len(items), 0, seen)
      BY <2>2 DEF IInv, ReadSoFar, Deciding
    <3>2. QED
      BY <1>1, <3>1 DEF ReadBefore, IsPage
  <2>3. QED
    BY <2>1, <2>2 DEF IInv, TypeOK
<1>3. CASE pageIdx # 0
  <2>1. /\ Reading /\ pageIdx < pageCount /\ pageCount = PagesOf(items, itemIdx)
        /\ itemIdx < Len(items) /\ ReadBefore(items, itemIdx, pageIdx + 1, seen)
    BY <1>3 DEF IInv, TypeOK, ReadSoFar, Reading
  <2>2. pageCount \in Nat /\ pageIdx - 1 \in Nat /\ pageIdx - 1 < pageCount
    BY <1>1, <1>3, <2>1 DEF Wf
  <2>3. Entry(items, itemIdx, pageIdx - 1) <= pageIdx - 1
    BY <1>1, <2>1, <2>2 DEF Entry, CappedPage, Wf
  <2>4. Entry(items, itemIdx, pageIdx - 1) \in Nat
    BY <1>1, <2>1, <2>2 DEF Entry, CappedPage, Wf
  <2>5. ReadBefore(items, itemIdx, Entry(items, itemIdx, pageIdx - 1), seen)
    BY <1>1, <2>1, <2>3, <2>4 DEF ReadBefore
  <2>6. Enters(items, itemIdx, pageIdx - 1, seen)
    BY <1>1, <2>1, <2>2, <2>5 DEF Enters
  <2>7. QED
    BY <1>2, <1>3, <2>6 DEF h_paging_decrease
<1>4. CASE pageIdx = 0 /\ itemIdx > 0
  <2>1. itemIdx - 1 \in Nat /\ itemIdx - 1 <= Len(items) + 1
    BY <1>1, <1>2, <1>4
  <2>2. ReadBefore(items, itemIdx - 1, Entry(items, itemIdx - 1, LastPage), seen)
    BY <1>1, <1>2, <1>4, <2>1 DEF ReadBefore
  <2>3. Enters(items, itemIdx - 1, LastPage, seen)
    BY <1>1, <2>1, <2>2 DEF Enters
  <2>4. QED
    BY <1>4, <2>1, <2>3 DEF h_paging_decrease
<1>5. CASE pageIdx = 0 /\ ~(itemIdx > 0)
  <2>1. HasPages(items, itemIdx) => 0 < PagesOf(items, itemIdx)
    BY <1>1 DEF Wf
  <2>2. Entry(items, itemIdx, 0) = 0
    BY <1>1, <2>1 DEF Entry, CappedPage, Wf
  <2>3. Enters(items, itemIdx, 0, seen)
    BY <1>1, <1>2, <2>1, <2>2 DEF Enters
  <2>4. h_paging_decrease = <<itemIdx, 0>>
    BY <1>5 DEF h_paging_decrease
  <2>5. QED
    BY <1>2, <2>3, <2>4
<1>6. QED
  BY <1>3, <1>4, <1>5

-----------------------------------------------------------------------------
LEMMA Opened ==
  ASSUME IInv, NEW review \in Reviews, view_review_show(review)
  PROVE  IInv'
<1>1. Wf(review)
  BY ReviewWf
<1>2. CASE Renderable(review, 0) /\ ShowItem(review, 0, 0, {})
  <2>1. HasPages(review, 0) => 0 < PagesOf(review, 0)
    BY <1>1 DEF Wf
  <2>2. Entry(review, 0, 0) = 0
    BY <1>1, <2>1 DEF Entry, CappedPage, Wf
  <2>3. Enters(review, 0, 0, {})
    BY <2>1, <2>2 DEF Enters, ReadBefore
  <2>4. QED
    BY <1>2, <2>3, ItemShown DEF view_review_show
<1>3. CASE ~Renderable(review, 0) /\ ShowError(review, {})
  BY <1>3, ErrorShown DEF view_review_show
<1>4. QED
  BY <1>2, <1>3 DEF view_review_show

LEMMA EndedSafely ==
  ASSUME IInv, NEW reason \in {"none", "approve", "reject", "error"}, Ended(reason),
         reason = "approve" => Pages \subseteq seen
  PROVE  IInv'
<1>1. ~Reading' /\ ~Deciding'
  BY DEF Ended, Reading, Deciding
<1>2. TypeOK'
  BY <1>1 DEF IInv, TypeOK, Ended
<1>3. Pages' = Pages
  BY DEF Ended, Pages, PagesOf
<1>4. QED
  BY <1>1, <1>2, <1>3
     DEF Ended, IInv, ReadSoFar, Undecided, ApprovedOnlyWhenRead, ErrorOnlyIfEmpty

LEMMA NextIInv == IInv /\ [Next]_vars => IInv'
<1> SUFFICES ASSUME IInv, [Next]_vars PROVE IInv'
  OBVIOUS
<1>1. ASSUME NEW review \in Reviews, view_review_show(review) PROVE IInv'
  BY <1>1, Opened
<1>2. CASE h_review_button_right
  <2>1. screen = "review"
    BY <1>2 DEF h_review_button_right, Turn
  <2>2. PICK i, p : /\ h_paging_increase = <<i, p>>
                    /\ i <= Len(items) + 1
                    /\ Enters(items, i, p, seen)
    BY <2>1, RightEnters
  <2>3. QED
    BY <1>2, <2>2, Turned DEF h_review_button_right
<1>3. CASE h_review_button_left
  <2>1. screen = "review"
    BY <1>3 DEF h_review_button_left, Turn
  <2>2. PICK i, p : /\ h_paging_decrease = <<i, p>>
                    /\ i <= Len(items) + 1
                    /\ Enters(items, i, p, seen)
    BY <2>1, LeftEnters
  <2>3. QED
    BY <1>3, <2>2, Turned DEF h_review_button_left
<1>4. CASE h_review_action
  <2>1. CASE is_accept_item(itemIdx, itemCount) /\ Ended("approve")
    <3>1. Wf(items) /\ itemIdx \in Nat /\ screen = "review" /\ itemCount = Len(items) + 1
      BY <1>4, ReviewWf DEF h_review_action, IInv, TypeOK
    <3>2. Deciding
      BY <2>1, <3>1 DEF is_accept_item, Deciding, Wf
    <3>3. Pages \subseteq seen
      BY <3>1, <3>2, PagesRead DEF IInv, ReadSoFar
    <3>4. QED
      BY <2>1, <3>3, EndedSafely
  <2>2. CASE is_reject_item(itemIdx, itemCount) /\ Ended("reject")
    BY <2>2, EndedSafely
  <2>3. QED
    BY <1>4, <2>1, <2>2 DEF h_review_action
<1>5. CASE view_error_button
  BY <1>5, EndedSafely DEF view_error_button
<1>6. CASE view_idle_show
  BY <1>6, EndedSafely DEF view_idle_show
<1>7. CASE UNCHANGED vars
  BY <1>7 DEF vars, IInv, TypeOK, ReadSoFar, Undecided, ApprovedOnlyWhenRead,
              ErrorOnlyIfEmpty, Reading, Deciding, Pages, PagesOf, ReadBefore, IsPage,
              Unprintable
<1>8. QED
  BY <1>1, <1>2, <1>3, <1>4, <1>5, <1>6, <1>7 DEF Next

-----------------------------------------------------------------------------
(* Nothing before the screen is unread, and the counters describe it:      *)
(* inductive, so true throughout.                                          *)
THEOREM Inductive == Spec => []IInv
<1>1. QED
  BY InitIInv, NextIInv, PTL DEF Spec

(* The counters of viewdata always describe a page that exists.            *)
THEOREM TypeCorrect == Spec => []TypeOK
<1>1. IInv => TypeOK
  BY DEF IInv
<1>2. QED
  BY <1>1, Inductive, PTL

(* A review is approved only after every page of it was shown, however     *)
(* long it is and however the user went back and forth (h_review_action).  *)
THEOREM ReadBeforeApproval == Spec => []ApprovedOnlyWhenRead
<1>1. IInv => ApprovedOnlyWhenRead
  BY DEF IInv
<1>2. QED
  BY <1>1, Inductive, PTL

(* Only a review whose last item has no pages, or without items, or of     *)
(* which an item cannot be printed going back, ends on the error screen    *)
(* (h_review_update_data).                                                 *)
THEOREM ErrorsExplained == Spec => []ErrorOnlyIfEmpty
<1>1. IInv => ErrorOnlyIfEmpty
  BY DEF IInv
<1>2. QED
  BY <1>1, Inductive, PTL

-----------------------------------------------------------------------------
(* The buttons turn one page at a time.                                    *)
(*                                                                         *)
(* The pages before page p of item i.                                      *)
AheadOf(i, p) == {s \in Pages : s[1] < i \/ (s[1] = i /\ s[2] < p)}

LEMMA PagesFinite ==
  ASSUME Wf(items)
  PROVE  IsFiniteSet(Pages)
<1>1. LastPage \in Nat /\ Len(items) \in Nat
  BY ReviewsAssumption DEF Wf
<1>2. IsFiniteSet((0..Len(items)) \X (0..LastPage))
  <2>1. IsFiniteSet(0..Len(items)) /\ IsFiniteSet(0..LastPage)
    BY <1>1, FS_Interval
  <2>2. QED
    BY <2>1, FS_Product
<1>3. ASSUME NEW s \in Pages
      PROVE  s \in (0..Len(items)) \X (0..LastPage)
  <2>1. PICK k \in Nat, q \in Nat : s = <<k, q>> /\ IsPage(items, k, q)
    BY PageMember
  <2>2. k \in 0..Len(items) /\ q \in 0..LastPage
    BY <1>1, <2>1 DEF IsPage, Wf
  <2>3. QED
    BY <2>1, <2>2
<1>4. QED
  BY <1>2, <1>3, FS_Subset

LEMMA AheadCounted ==
  ASSUME Wf(items), NEW i, NEW p
  PROVE  IsFiniteSet(AheadOf(i, p)) /\ Cardinality(AheadOf(i, p)) \in Nat
<1>1. AheadOf(i, p) \subseteq Pages
  BY DEF AheadOf
<1>2. QED
  BY <1>1, PagesFinite, FS_Subset, FS_CardinalityType

(* Each page is one more.                                                  *)
LEMMA PageCounted ==
  ASSUME Wf(items), NEW i \in Nat, NEW p \in Nat, IsPage(items, i, p)
  PROVE  Cardinality(AheadOf(i, p + 1)) = Cardinality(AheadOf(i, p)) + 1
<1>1. <<i, p>> \in Pages /\ <<i, p>> \notin AheadOf(i, p)
  BY PageMember DEF AheadOf
<1>2. AheadOf(i, p + 1) = AheadOf(i, p) \cup {<<i, p>>}
  <2>1. ASSUME NEW s \in Pages
        PROVE  s \in AheadOf(i, p + 1) <=> s \in AheadOf(i, p) \/ s = <<i, p>>
    <3>1. PICK k \in Nat, q \in Nat : s = <<k, q>>
      BY PageMember
    <3>2. s[1] = k /\ s[2] = q
      BY <3>1
    <3>3. QED
      BY <3>1, <3>2 DEF AheadOf
  <2>2. AheadOf(i, p + 1) \subseteq Pages /\ AheadOf(i, p) \subseteq Pages
    BY DEF AheadOf
  <2>3. QED
    BY <1>1, <2>1, <2>2
<1>3. QED
  BY <1>1, <1>2, AheadCounted, FS_AddElement

(* Behind the last page of an item, and past items without pages, the      *)
(* count stays.                                                            *)
LEMMA ItemPassed ==
  ASSUME Wf(items), NEW i \in Nat, i < Len(items)
  PROVE  AheadOf(i + 1, 0) = AheadOf(i, PagesOf(items, i))
<1>1. ASSUME NEW s \in Pages
      PROVE  s \in AheadOf(i + 1, 0) <=> s \in AheadOf(i, PagesOf(items, i))
  <2>1. PICK k \in Nat, q \in Nat : s = <<k, q>> /\ IsPage(items, k, q)
    BY PageMember
  <2>2. s[1] = k /\ s[2] = q
    BY <2>1
  <2>3. QED
    BY <2>1, <2>2 DEF AheadOf, IsPage, Wf
<1>2. QED
  BY <1>1 DEF AheadOf

LEMMA EmptyPassed ==
  ASSUME Wf(items), NEW i \in Nat, NEW j \in Nat, i <= j,
         \A k \in i..j-1 : ~HasPages(items, k)
  PROVE  AheadOf(j, 0) = AheadOf(i, 0)
<1>1. ASSUME NEW s \in Pages
      PROVE  s \in AheadOf(j, 0) <=> s \in AheadOf(i, 0)
  <2>1. PICK k \in Nat, q \in Nat : s = <<k, q>> /\ IsPage(items, k, q)
    BY PageMember
  <2>2. s[1] = k /\ s[2] = q
    BY <2>1
  <2>3. HasPages(items, k)
    BY <2>1 DEF IsPage, Wf
  <2>4. k \notin i..j-1
    BY <2>3
  <2>5. k < i <=> k < j
    BY <2>4
  <2>6. QED
    BY <2>2, <2>5 DEF AheadOf
<1>2. QED
  BY <1>1 DEF AheadOf

-----------------------------------------------------------------------------
(* A decision is reached from the last page of the last item.              *)
LastHasPages == Deciding => Len(items) > 0 /\ PagesOf(items, Len(items) - 1) # 0

PlaceIn(i, p) == Cardinality(AheadOf(i, p)) + (IF i > Len(items) THEN 1 ELSE 0)

LEMMA PlaceNow == Place = PlaceIn(itemIdx, pageIdx)
<1> QED
  BY DEF Place, PlaceIn, AheadOf

LEMMA PlaceThen ==
  ASSUME items' = items, NEW i, NEW p, itemIdx' = i, pageIdx' = p
  PROVE  Place' = PlaceIn(i, p)
<1>1. Pages' = Pages
  BY DEF Pages, PagesOf
<1>2. QED
  BY <1>1 DEF Place, PlaceIn, AheadOf

(* What is on the screen after a turn to an item.                          *)
Shows(i, p) ==
  /\ screen' = "review"
  /\ itemIdx' = i /\ pageIdx' = p
  /\ pageCount' = PagesOf(items, i) /\ itemCount' = Len(items) + 1
  /\ seen' = seen \cup {<<i, p>>}
  /\ UNCHANGED <<items, answer>>

LEMMA TurnedToItem ==
  ASSUME IInv, NEW i \in Nat, NEW p \in Nat, i < Len(items),
         Turn(<<i, p>>), ~Unprintable(items, i, p)
  PROVE  \/ screen' = "error"
         \/ \E j \in Nat :
              /\ FirstWithPages(items, i, j)
              /\ Shows(j, IF j = i THEN CappedPage(p, PagesOf(items, j)) ELSE 0)
<1>1. /\ screen = "review" /\ UNCHANGED <<items, answer>>
      /\ itemCount = Len(items) + 1 /\ Wf(items)
      /\ h_review_update_data(i, p)
  BY ReviewWf DEF Turn, IInv, TypeOK
<1>2. ~is_accept_item(i, itemCount) /\ ~is_reject_item(i, itemCount)
  BY <1>1 DEF is_accept_item, is_reject_item, Wf
<1>3. CASE Renderable(items, i)
  <2>1. ShowItem(items, i, p, seen)
    BY <1>1, <1>2, <1>3 DEF h_review_update_data
  <2>2. QED
    BY <1>1, <2>1 DEF ShowItem, Shows, Wf
<1>4. CASE ~Renderable(items, i)
  BY <1>1, <1>2, <1>4 DEF h_review_update_data, ShowError
<1>5. QED
  BY <1>3, <1>4

(* An item with pages is not passed over.                                  *)
LEMMA TurnedToPage ==
  ASSUME IInv, NEW i \in Nat, NEW p \in Nat, HasPages(items, i),
         Turn(<<i, p>>)
  PROVE  Shows(i, CappedPage(p, PagesOf(items, i)))
<1>1. /\ screen = "review" /\ UNCHANGED <<items, answer>>
      /\ itemCount = Len(items) + 1 /\ Wf(items)
      /\ h_review_update_data(i, p)
  BY ReviewWf DEF Turn, IInv, TypeOK
<1>2. i < Len(items) /\ PagesOf(items, i) # 0 /\ Len(items) \in Nat
  BY <1>1 DEF Wf
<1>3. ~is_accept_item(i, itemCount) /\ ~is_reject_item(i, itemCount)
  BY <1>1, <1>2 DEF is_accept_item, is_reject_item
<1>4. ~Unprintable(items, i, p) /\ Renderable(items, i)
  BY <1>2 DEF Unprintable, Renderable
<1>5. ShowItem(items, i, p, seen)
  BY <1>1, <1>3, <1>4 DEF h_review_update_data
<1>6. \A j \in 0..Len(items) : FirstWithPages(items, i, j) => j = i
  BY <1>2 DEF FirstWithPages
<1>7. QED
  BY <1>1, <1>5, <1>6 DEF ShowItem, Shows

LEMMA TurnedToDecision ==
  ASSUME IInv, NEW i \in {Len(items), Len(items) + 1}, NEW p, Turn(<<i, p>>)
  PROVE  /\ screen' = "review" /\ itemIdx' = i /\ pageIdx' = 0 /\ pageCount' = 1
         /\ UNCHANGED <<items, answer, itemCount, seen>>
<1>1. /\ screen = "review" /\ UNCHANGED <<items, answer>>
      /\ itemCount = Len(items) + 1 /\ Wf(items)
      /\ h_review_update_data(i, p)
  BY ReviewWf DEF Turn, IInv, TypeOK
<1>2. is_accept_item(i, itemCount) \/ is_reject_item(i, itemCount)
  BY <1>1 DEF is_accept_item, is_reject_item, Wf
<1>3. QED
  BY <1>1, <1>2 DEF h_review_update_data, ShowAction

-----------------------------------------------------------------------------
LEMMA RightMoves ==
  ASSUME IInv, h_review_button_right, screen' = "review"
  PROVE  Place' = Place + 1 \/ UNCHANGED vars
<1>1. /\ Wf(items) /\ itemIdx \in Nat /\ pageIdx \in Nat /\ itemCount = Len(items) + 1
      /\ Len(items) \in Nat /\ screen = "review" /\ items' = items
      /\ Turn(h_paging_increase)
  BY ReviewWf DEF IInv, TypeOK, Wf, h_review_button_right, Turn
<1>2. ASSUME NEW i, NEW p PROVE Cardinality(AheadOf(i, p)) \in Nat
  BY <1>1, AheadCounted
<1>3. CASE Reading
  <2>1. /\ itemIdx < Len(items) /\ pageIdx < pageCount /\ pageCount = PagesOf(items, itemIdx)
        /\ pageCount \in Nat /\ HasPages(items, itemIdx) /\ IsPage(items, itemIdx, pageIdx)
    BY <1>1, <1>3 DEF IInv, TypeOK, Reading, IsPage, Wf
  <2>2. Cardinality(AheadOf(itemIdx, pageIdx + 1)) = Place + 1
    <3>1. Cardinality(AheadOf(itemIdx, pageIdx + 1)) = Cardinality(AheadOf(itemIdx, pageIdx)) + 1
      BY <1>1, <2>1, PageCounted
    <3>2. Place = Cardinality(AheadOf(itemIdx, pageIdx))
      BY <1>1, <1>2, <2>1, PlaceNow DEF PlaceIn
    <3>3. QED
      BY <3>1, <3>2
  <2>3. CASE pageIdx + 1 < pageCount
    <3>1. Turn(<<itemIdx, pageIdx + 1>>)
      BY <1>1, <2>3 DEF h_paging_increase
    <3>2. CappedPage(pageIdx + 1, pageCount) = pageIdx + 1
      BY <1>1, <2>1, <2>3 DEF CappedPage
    <3>3. Shows(itemIdx, pageIdx + 1)
      BY <1>1, <2>1, <3>1, <3>2, TurnedToPage
    <3>4. Place' = PlaceIn(itemIdx, pageIdx + 1)
      BY <3>3, PlaceThen DEF Shows
    <3>5. QED
      BY <1>1, <1>2, <2>1, <2>2, <3>4 DEF PlaceIn
  <2>4. CASE ~(pageIdx + 1 < pageCount)
    <3>1. Turn(<<itemIdx + 1, 0>>)
      BY <1>1, <2>1, <2>4 DEF h_paging_increase, NextItem
    <3>2. pageIdx + 1 = PagesOf(items, itemIdx)
      BY <1>1, <2>1, <2>4
    <3>3. Cardinality(AheadOf(itemIdx + 1, 0)) = Place + 1
      BY <1>1, <2>1, <2>2, <3>2, ItemPassed
    <3>4. CASE itemIdx + 1 = Len(items)
      <4>1. Place' = PlaceIn(itemIdx + 1, 0)
        BY <1>1, <3>1, <3>4, TurnedToDecision, PlaceThen
      <4>2. QED
        BY <1>1, <1>2, <3>3, <3>4, <4>1 DEF PlaceIn
    <3>5. CASE itemIdx + 1 < Len(items)
      <4>1. ~Unprintable(items, itemIdx + 1, 0) /\ itemIdx + 1 \in Nat
        BY <1>1 DEF Unprintable
      <4>2. PICK j \in Nat :
              /\ FirstWithPages(items, itemIdx + 1, j)
              /\ Shows(j, IF j = itemIdx + 1 THEN CappedPage(0, PagesOf(items, j)) ELSE 0)
        BY <1>1, <3>1, <3>5, <4>1, TurnedToItem
      <4>3. /\ j >= itemIdx + 1 /\ j < Len(items) /\ PagesOf(items, j) \in Nat
            /\ \A k \in itemIdx + 1..j-1 : ~HasPages(items, k)
        BY <1>1, <4>2 DEF FirstWithPages, Wf
      <4>4. Shows(j, 0)
        BY <4>2, <4>3 DEF CappedPage
      <4>5. Place' = PlaceIn(j, 0)
        BY <4>4, PlaceThen DEF Shows
      <4>6. AheadOf(j, 0) = AheadOf(itemIdx + 1, 0)
        BY <1>1, <4>1, <4>3, EmptyPassed
      <4>7. QED
        BY <1>1, <1>2, <3>3, <4>3, <4>5, <4>6 DEF PlaceIn
    <3>6. QED
      BY <1>1, <2>1, <3>4, <3>5
  <2>5. QED
    BY <2>3, <2>4
<1>4. CASE Deciding
  <2>1. itemIdx \in {Len(items), Len(items) + 1} /\ pageIdx = 0 /\ pageCount = 1
    BY <1>4 DEF IInv, TypeOK, Deciding
  <2>2. Turn(<<Len(items) + 1, 0>>)
    BY <1>1, <2>1 DEF h_paging_increase, NextItem
  <2>3. /\ itemIdx' = Len(items) + 1 /\ pageIdx' = 0 /\ pageCount' = 1 /\ screen' = screen
        /\ UNCHANGED <<items, answer, itemCount, seen>>
    BY <1>1, <2>2, TurnedToDecision
  <2>4. CASE itemIdx = Len(items) + 1
    BY <2>1, <2>3, <2>4 DEF vars
  <2>5. CASE itemIdx = Len(items)
    <3>1. Place' = PlaceIn(Len(items) + 1, 0)
      BY <2>3, PlaceThen
    <3>2. AheadOf(Len(items) + 1, 0) = AheadOf(Len(items), 0)
      BY <1>1, EmptyPassed DEF Wf
    <3>3. QED
      BY <1>1, <1>2, <2>1, <2>5, <3>1, <3>2, PlaceNow DEF PlaceIn
  <2>6. QED
    BY <2>1, <2>4, <2>5
<1>5. QED
  BY <1>1, <1>3, <1>4 DEF IInv, TypeOK

LEMMA LeftMoves ==
  ASSUME IInv, LastHasPages, h_review_button_left
  PROVE  \/ screen' = "review" /\ Place' = Place - 1
         \/ Unprintable(items, itemIdx', pageIdx')
         \/ UNCHANGED vars
<1>1. /\ Wf(items) /\ itemIdx \in Nat /\ pageIdx \in Nat /\ itemCount = Len(items) + 1
      /\ Len(items) \in Nat /\ screen = "review" /\ items' = items /\ LastPage \in Nat
      /\ Turn(h_paging_decrease)
  BY ReviewWf, ReviewsAssumption DEF IInv, TypeOK, Wf, h_review_button_left, Turn
<1>2. ASSUME NEW i, NEW p PROVE Cardinality(AheadOf(i, p)) \in Nat
  BY <1>1, AheadCounted
(* Going back to the last page of an item.                                 *)
<1>3. ASSUME NEW i \in Nat, i < Len(items), PagesOf(items, i) # 0, Turn(<<i, LastPage>>)
      PROVE  screen' = "review" /\ Place' = Cardinality(AheadOf(i + 1, 0)) - 1
  <2>1. /\ HasPages(items, i) /\ PagesOf(items, i) \in Nat /\ PagesOf(items, i) < LastPage
    BY <1>1, <1>3 DEF Wf
  <2>2. CappedPage(LastPage, PagesOf(items, i)) = PagesOf(items, i) - 1
    BY <1>1, <2>1 DEF CappedPage
  <2>3. Shows(i, PagesOf(items, i) - 1)
    BY <1>1, <1>3, <2>1, <2>2, TurnedToPage
  <2>4. Place' = PlaceIn(i, PagesOf(items, i) - 1)
    BY <2>3, PlaceThen DEF Shows
  <2>5. IsPage(items, i, PagesOf(items, i) - 1) /\ PagesOf(items, i) - 1 \in Nat
    BY <1>3, <2>1 DEF IsPage
  <2>6. Cardinality(AheadOf(i, PagesOf(items, i)))
          = Cardinality(AheadOf(i, PagesOf(items, i) - 1)) + 1
    BY <1>1, <2>1, <2>5, PageCounted
  <2>7. AheadOf(i + 1, 0) = AheadOf(i, PagesOf(items, i))
    BY <1>1, <1>3, ItemPassed
  <2>8. Place' = Cardinality(AheadOf(i, PagesOf(items, i) - 1))
    BY <1>1, <1>2, <1>3, <2>4 DEF PlaceIn
  <2>9. QED
    BY <1>2, <2>3, <2>6, <2>7, <2>8 DEF Shows
<1>4. CASE Reading
  <2>1. /\ itemIdx < Len(items) /\ pageIdx < pageCount /\ pageCount = PagesOf(items, itemIdx)
        /\ pageCount \in Nat /\ HasPages(items, itemIdx) /\ IsPage(items, itemIdx, pageIdx)
    BY <1>1, <1>4 DEF IInv, TypeOK, Reading, IsPage, Wf
  <2>2. Place = Cardinality(AheadOf(itemIdx, pageIdx))
    BY <1>1, <1>2, <2>1, PlaceNow DEF PlaceIn
  (* The page on the screen is shown once more.                            *)
  <2>3. ASSUME pageIdx = 0, Shows(itemIdx, 0)
        PROVE  UNCHANGED vars
    <3>1. <<itemIdx, 0>> \in seen
      BY <1>1, <1>4, <2>1, <2>3 DEF IInv, ReadSoFar, ReadBefore, IsPage
    <3>2. seen' = seen
      BY <2>3, <3>1 DEF Shows
    <3>3. QED
      BY <1>1, <2>1, <2>3, <3>2 DEF Shows, vars
  <2>4. CASE pageIdx # 0
    <3>1. Turn(<<itemIdx, pageIdx - 1>>) /\ pageIdx - 1 \in Nat
      BY <1>1, <2>4 DEF h_paging_decrease
    <3>2. CappedPage(pageIdx - 1, pageCount) = pageIdx - 1
      BY <1>1, <2>1, <2>4 DEF CappedPage
    <3>3. Shows(itemIdx, pageIdx - 1)
      BY <1>1, <2>1, <3>1, <3>2, TurnedToPage
    <3>4. Place' = PlaceIn(itemIdx, pageIdx - 1)
      BY <3>3, PlaceThen DEF Shows
    <3>5. Place' = Cardinality(AheadOf(itemIdx, pageIdx - 1))
      BY <1>1, <1>2, <2>1, <3>4 DEF PlaceIn
    <3>6. IsPage(items, itemIdx, pageIdx - 1) /\ (pageIdx - 1) + 1 = pageIdx
      BY <1>1, <2>1, <3>1 DEF IsPage
    <3>7. Cardinality(AheadOf(itemIdx, pageIdx)) = Cardinality(AheadOf(itemIdx, pageIdx - 1)) + 1
      BY <1>1, <3>1, <3>6, PageCounted
    <3>8. QED
      BY <1>2, <2>2, <3>3, <3>5, <3>7 DEF Shows
  <2>5. CASE pageIdx = 0 /\ itemIdx > 0
    <3>1. Turn(<<itemIdx - 1, LastPage>>) /\ itemIdx - 1 \in Nat /\ itemIdx - 1 < Len(items)
      BY <1>1, <2>1, <2>5 DEF h_paging_decrease
    <3>2. CASE PagesOf(items, itemIdx - 1) # 0
      <4>1. screen' = "review" /\ Place' = Cardinality(AheadOf((itemIdx - 1) + 1, 0)) - 1
        BY <1>3, <3>1, <3>2
      <4>2. (itemIdx - 1) + 1 = itemIdx
        BY <1>1
      <4>3. QED
        BY <2>2, <2>5, <4>1, <4>2
    <3>3. CASE Unprintable(items, itemIdx - 1, LastPage)
      <4>1. h_review_update_data(itemIdx - 1, LastPage)
        BY <3>1 DEF Turn
      <4>2. /\ ~is_accept_item(itemIdx - 1, itemCount)
            /\ ~is_reject_item(itemIdx - 1, itemCount)
        BY <1>1, <3>1 DEF is_accept_item, is_reject_item
      <4>3. ShowPageError(itemIdx - 1, LastPage)
        BY <3>3, <4>1, <4>2 DEF h_review_update_data
      <4>4. QED
        BY <3>3, <4>3 DEF ShowPageError
    <3>4. CASE PagesOf(items, itemIdx - 1) = 0 /\ ~Unprintable(items, itemIdx - 1, LastPage)
      <4>1. ~HasPages(items, itemIdx - 1)
        BY <3>4 DEF HasPages
      <4>2. Renderable(items, itemIdx - 1)
        BY <1>1, <2>1 DEF Renderable
      <4>3. screen' # "error"
        <5>1. /\ ~is_accept_item(itemIdx - 1, itemCount)
              /\ ~is_reject_item(itemIdx - 1, itemCount)
          BY <1>1, <3>1 DEF is_accept_item, is_reject_item
        <5>2. h_review_update_data(itemIdx - 1, LastPage)
          BY <3>1 DEF Turn
        <5>3. ShowItem(items, itemIdx - 1, LastPage, seen)
          BY <3>4, <4>2, <5>1, <5>2 DEF h_review_update_data
        <5>4. QED
          BY <5>3 DEF ShowItem
      <4>4. PICK j \in Nat :
              /\ FirstWithPages(items, itemIdx - 1, j)
              /\ Shows(j, IF j = itemIdx - 1 THEN CappedPage(LastPage, PagesOf(items, j)) ELSE 0)
        BY <1>1, <3>1, <3>4, <4>3, TurnedToItem
      <4>5. j = itemIdx
        BY <1>1, <2>1, <3>1, <4>1, <4>4 DEF FirstWithPages
      <4>6. j # itemIdx - 1
        BY <1>1, <4>5
      <4>7. Shows(itemIdx, 0)
        BY <4>4, <4>5, <4>6
      <4>8. QED
        BY <2>3, <2>5, <4>7
    <3>5. QED
      BY <3>2, <3>3, <3>4
  <2>6. CASE pageIdx = 0 /\ itemIdx = 0
    <3>1. Turn(<<itemIdx, 0>>)
      BY <1>1, <2>6 DEF h_paging_decrease
    <3>2. CappedPage(0, PagesOf(items, itemIdx)) = 0
      BY <2>1 DEF CappedPage
    <3>3. Shows(itemIdx, 0)
      BY <1>1, <2>1, <3>1, <3>2, TurnedToPage
    <3>4. QED
      BY <2>3, <2>6, <3>3
  <2>7. QED
    BY <1>1, <2>4, <2>5, <2>6
<1>5. CASE Deciding
  <2>1. /\ itemIdx \in {Len(items), Len(items) + 1} /\ pageIdx = 0 /\ pageCount = 1
        /\ Len(items) > 0 /\ PagesOf(items, Len(items) - 1) # 0
    BY <1>5 DEF IInv, TypeOK, Deciding, LastHasPages
  <2>2. Turn(<<itemIdx - 1, LastPage>>)
    BY <1>1, <2>1 DEF h_paging_decrease
  <2>3. CASE itemIdx = Len(items)
    <3>1. Len(items) - 1 \in Nat /\ Len(items) - 1 < Len(items) /\ (Len(items) - 1) + 1 = Len(items)
      BY <1>1, <2>1
    <3>2. screen' = "review" /\ Place' = Cardinality(AheadOf(Len(items), 0)) - 1
      BY <1>3, <2>1, <2>2, <2>3, <3>1
    <3>3. Place = Cardinality(AheadOf(Len(items), 0))
      BY <1>1, <1>2, <2>1, <2>3, PlaceNow DEF PlaceIn
    <3>4. QED
      BY <3>2, <3>3
  <2>4. CASE itemIdx = Len(items) + 1
    <3>1. Turn(<<Len(items), LastPage>>)
      BY <1>1, <2>2, <2>4
    <3>2. screen' = "review" /\ Place' = PlaceIn(Len(items), 0)
      BY <1>1, <3>1, TurnedToDecision, PlaceThen
    <3>3. AheadOf(Len(items) + 1, 0) = AheadOf(Len(items), 0)
      BY <1>1, EmptyPassed DEF Wf
    <3>4. QED
      BY <1>1, <1>2, <2>1, <2>4, <3>2, <3>3, PlaceNow DEF PlaceIn
  <2>5. QED
    BY <2>1, <2>3, <2>4
<1>6. QED
  BY <1>1, <1>4, <1>5 DEF IInv, TypeOK

-----------------------------------------------------------------------------
LEMMA InitLast == Init => LastHasPages
<1> QED
  BY DEF Init, LastHasPages, Deciding

LEMMA NextLast == IInv /\ LastHasPages /\ [Next]_vars => LastHasPages'
<1> SUFFICES ASSUME IInv, LastHasPages, [Next]_vars PROVE LastHasPages'
  OBVIOUS
<1>1. IInv'
  BY NextIInv
<1>2. ASSUME NEW i, NEW p, Turn(<<i, p>>), i \in Nat, p \in Nat,
             i \in {Len(items), Len(items) + 1} =>
               Len(items) > 0 /\ PagesOf(items, Len(items) - 1) # 0
      PROVE  LastHasPages'
  <2>1. Wf(items) /\ items' = items /\ Len(items) \in Nat
    BY <1>2, ReviewWf DEF IInv, TypeOK, Turn, Wf
  <2>2. PagesOf(items', Len(items') - 1) = PagesOf(items, Len(items) - 1)
    BY <2>1
  <2>3. CASE i \in {Len(items), Len(items) + 1}
    BY <1>2, <2>1, <2>2, <2>3 DEF LastHasPages
  <2>4. CASE i \notin {Len(items), Len(items) + 1}
    <3>1. ~Deciding'
      <4>1. itemCount = Len(items) + 1 /\ h_review_update_data(i, p)
        BY <1>2 DEF IInv, TypeOK, Turn
      <4>2. ~is_accept_item(i, itemCount) /\ ~is_reject_item(i, itemCount)
        BY <1>2, <2>1, <2>4, <4>1 DEF is_accept_item, is_reject_item
      <4>3. CASE Unprintable(items, i, p)
        BY <4>1, <4>2, <4>3 DEF h_review_update_data, ShowPageError, Deciding
      <4>4. CASE ~Unprintable(items, i, p) /\ Renderable(items, i)
        <5>1. PICK j \in 0..Len(items) : HasPages(items, j) /\ itemIdx' = j
          BY <4>1, <4>2, <4>4 DEF h_review_update_data, ShowItem, FirstWithPages
        <5>2. j < Len(items)
          BY <2>1, <5>1 DEF Wf
        <5>3. QED
          BY <2>1, <5>1, <5>2 DEF Deciding
      <4>5. CASE ~Unprintable(items, i, p) /\ ~Renderable(items, i)
        BY <4>1, <4>2, <4>5 DEF h_review_update_data, ShowError, Deciding
      <4>6. QED
        BY <4>3, <4>4, <4>5
    <3>2. QED
      BY <3>1 DEF LastHasPages
  <2>5. QED
    BY <2>3, <2>4
<1>3. ASSUME screen = "review"
      PROVE  /\ Wf(items) /\ itemIdx \in Nat /\ pageIdx \in Nat /\ itemCount = Len(items) + 1
             /\ Len(items) \in Nat /\ LastPage \in Nat
             /\ itemIdx <= Len(items) + 1
             /\ itemIdx + 1 >= Len(items)
                  => Len(items) > 0 /\ PagesOf(items, Len(items) - 1) # 0
  <2>1. /\ Wf(items) /\ itemIdx \in Nat /\ pageIdx \in Nat /\ itemCount = Len(items) + 1
        /\ Len(items) \in Nat /\ LastPage \in Nat
    BY <1>3, ReviewWf, ReviewsAssumption DEF IInv, TypeOK, Wf
  <2>2. CASE Reading /\ itemIdx + 1 >= Len(items)
    <3>1. itemIdx = Len(items) - 1 /\ pageIdx < pageCount /\ pageCount = PagesOf(items, itemIdx)
      BY <2>1, <2>2 DEF IInv, TypeOK, Reading
    <3>2. QED
      BY <2>1, <3>1
  <2>3. CASE Deciding
    BY <2>1, <2>3 DEF LastHasPages, Deciding
  <2>4. itemIdx <= Len(items) + 1
    BY <1>3, <2>1 DEF IInv, TypeOK, Reading, Deciding
  <2>5. QED
    BY <1>3, <2>1, <2>2, <2>3, <2>4 DEF IInv, TypeOK, Reading
<1>4. ASSUME NEW review \in Reviews, view_review_show(review) PROVE LastHasPages'
  <2>1. Wf(review) /\ Len(review) \in Nat /\ items' = review
    BY <1>4, ReviewWf DEF Wf, view_review_show
  <2>2. CASE ShowItem(review, 0, 0, {})
    <3>1. PICK j \in 0..Len(review) : HasPages(review, j) /\ itemIdx' = j
      BY <2>2 DEF ShowItem, FirstWithPages
    <3>2. j < Len(review)
      BY <2>1, <3>1 DEF Wf
    <3>3. QED
      BY <2>1, <3>1, <3>2 DEF LastHasPages, Deciding
  <2>3. CASE ShowError(review, {})
    BY <2>3 DEF ShowError, LastHasPages, Deciding
  <2>4. QED
    BY <1>4, <2>2, <2>3 DEF view_review_show
<1>5. CASE h_review_button_right
  <2>1. screen = "review" /\ Turn(h_paging_increase)
    BY <1>5 DEF h_review_button_right, Turn
  <2>2. CASE pageIdx + 1 < pageCount
    BY <1>2, <1>3, <2>1, <2>2 DEF h_paging_increase
  <2>3. CASE ~(pageIdx + 1 < pageCount) /\ NextItem
    BY <1>2, <1>3, <2>1, <2>3 DEF h_paging_increase
  <2>4. CASE ~(pageIdx + 1 < pageCount) /\ ~NextItem
    BY <1>2, <1>3, <2>1, <2>4 DEF h_paging_increase
  <2>5. QED
    BY <2>2, <2>3, <2>4
<1>6. CASE h_review_button_left
  <2>1. screen = "review" /\ Turn(h_paging_decrease)
    BY <1>6 DEF h_review_button_left, Turn
  <2>2. CASE pageIdx # 0
    BY <1>2, <1>3, <2>1, <2>2 DEF h_paging_decrease
  <2>3. CASE pageIdx = 0 /\ itemIdx > 0
    BY <1>2, <1>3, <2>1, <2>3 DEF h_paging_decrease
  <2>4. CASE pageIdx = 0 /\ ~(itemIdx > 0)
    BY <1>2, <1>3, <2>1, <2>4 DEF h_paging_decrease
  <2>5. QED
    BY <2>2, <2>3, <2>4
<1>7. ASSUME NEW reason, Ended(reason) PROVE LastHasPages'
  BY <1>7 DEF Ended, LastHasPages, Deciding
<1>8. CASE UNCHANGED vars
  BY <1>8 DEF vars, LastHasPages, Deciding, PagesOf
<1>9. QED
  BY <1>4, <1>5, <1>6, <1>7, <1>8 DEF Next, h_review_action, view_error_button, view_idle_show

(* The right button shows the very next page or decision, the left button  *)
(* the one before, unless nothing changes or the item gone back to cannot  *)
(* be printed (h_paging_increase, h_paging_decrease, h_review_update_data).*)
THEOREM PageByPage == Spec => OnePageAtATime
<1> DEFINE Inv == IInv /\ LastHasPages
           Step == /\ h_review_button_right /\ screen' = "review" => Place' = Place + 1
                   /\ h_review_button_left => \/ screen' = "review" /\ Place' = Place - 1
                                              \/ Unprintable(items, itemIdx', pageIdx')
<1>1. Init => Inv
  BY InitIInv, InitLast
<1>2. Inv /\ [Next]_vars => Inv'
  BY NextIInv, NextLast
<1>3. Inv /\ [Next]_vars => [Step]_vars
  BY RightMoves, LeftMoves
<1>4. QED
  BY <1>1, <1>2, <1>3, PTL DEF Spec, OnePageAtATime

-----------------------------------------------------------------------------
(* 4. The review of a transaction.                                          *)

(* A transaction under a verdict is in a situation.                        *)
LEMMA InSituationIs ==
  ASSUME NEW obj \in Signable, NEW v \in Verdict, expert \in BOOLEAN
  PROVE  InSituation(obj, v) \in Situation
BY DEF InSituation, Situation

LEMMA ReviewIsOne ==
  ASSUME NEW s \in Situation
  PROVE  itemsOf[s] \in Reviews
BY ReviewsOfTransactions

(* Whether a transaction can be shown does not depend on the verdict.      *)
LEMMA SameShowable ==
  ASSUME NEW obj \in Signable, NEW u \in Verdict, NEW v \in Verdict, expert \in BOOLEAN,
         Showable(InSituation(obj, u))
  PROVE  Showable(InSituation(obj, v))
<1> DEFINE s == InSituation(obj, u)
           t == InSituation(obj, v)
<1>1. /\ t.tx = s.tx /\ t.metadataInitialized = s.metadataInitialized /\ t.expert = s.expert
  BY DEF InSituation
<1>2. Showable(s) OBVIOUS
<1> HIDE DEF s, t
<1>3. Showable(t) BY <1>1, <1>2 DEF Showable
<1> QED BY <1>3 DEF t

(* What is accepted can be shown.                                          *)
LEMMA AcceptedShowable ==
  ASSUME NEW obj \in Signable, NEW v \in Verdict, expert \in BOOLEAN,
         InSituation(obj, v) \in validated
  PROVE  Showable(InSituation(obj, v))
<1> DEFINE s == InSituation(obj, v)
<1>1. s \in Situation BY InSituationIs
<1>2. s \in validated OBVIOUS
<1> HIDE DEF s
<1>3. Showable(s) BY <1>1, <1>2, ValidatedIsTyped DEF typed
<1> QED BY <1>3 DEF s

(* The review that is open is that of the transaction, as the mode and the *)
(* verdict have it, and the transaction can be shown.                      *)
OfTransaction ==
  /\ verdict \in Verdict /\ expert \in BOOLEAN
  /\ parser_tx_obj \in Signable \cup {NoTransaction}
  /\ Reviewing => items = itemsOf[Now] /\ Showable(Now)

TInv == IInv /\ LastHasPages /\ OfTransaction

LEMMA InitTInv == TransactionInit => TInv
<1>1. NoVerdict \in Verdict BY TransactionAssumption
<1> QED BY <1>1, InitIInv, InitLast
       DEF TransactionInit, TInv, OfTransaction, Reviewing, Init

(* A step of a transaction's review is one of a review, or none.           *)
LEMMA NextIsNext ==
  ASSUME OfTransaction, [TransactionNext]_reviewVars
  PROVE  [Next]_vars
<1>1. ASSUME NEW v \in Verdict, NEW obj \in Signable, SignTransaction(obj, v)
      PROVE  Next
  <2>1. itemsOf[InSituation(obj, v)] \in Reviews BY InSituationIs, ReviewIsOne DEF OfTransaction
  <2> QED BY <1>1, <2>1 DEF SignTransaction, Next
<1>2. ASSUME NEW v \in Verdict, NEW review \in OtherReviews, OtherReview(review, v)
      PROVE  Next
  <2>1. review \in Reviews BY TransactionAssumption
  <2> QED BY <1>2, <2>1 DEF OtherReview, Next
<1>3. h_expert_toggle => UNCHANGED vars BY DEF h_expert_toggle
<1>4. PressRight => Next BY DEF PressRight, Next
<1>5. AtReview => Next BY DEF AtReview, Next
<1>6. UNCHANGED reviewVars => UNCHANGED vars BY DEF reviewVars
<1> QED BY <1>1, <1>2, <1>3, <1>4, <1>5, <1>6 DEF TransactionNext

(* No step opens another review than that of the transaction.              *)
LEMMA NextOfTransaction ==
  ASSUME OfTransaction, [TransactionNext]_reviewVars
  PROVE  OfTransaction'
<1>1. ASSUME NEW v \in Verdict, NEW obj \in Signable, SignTransaction(obj, v)
      PROVE  OfTransaction'
  <2>1. expert \in BOOLEAN /\ verdict \in Verdict BY DEF OfTransaction
  <2>2. /\ parser_tx_obj' = obj /\ verdict' = v /\ expert' = expert
        /\ items' = itemsOf[InSituation(obj, v)]
        /\ InSituation(obj, verdict) \in validated
    BY <1>1 DEF SignTransaction, view_review_show
  <2>3. Showable(InSituation(obj, v)) BY <2>1, <2>2, AcceptedShowable, SameShowable
  <2>4. Now' = InSituation(obj, v) BY <2>2 DEF Now, InSituation
  <2>5. items' = itemsOf[Now'] /\ Showable(Now') BY <2>2, <2>3, <2>4
  <2> QED BY <2>1, <2>2, <2>5 DEF OfTransaction
<1>2. ASSUME NEW v \in Verdict, NEW review \in OtherReviews, OtherReview(review, v)
      PROVE  OfTransaction'
  BY <1>2 DEF OfTransaction, OtherReview, Reviewing
<1>3. CASE h_expert_toggle
  BY <1>3 DEF h_expert_toggle, OfTransaction, Reviewing, vars
<1>4. ASSUME items' = items, UNCHANGED <<parser_tx_obj, expert, verdict>>,
             screen' # "idle" => screen # "idle"
      PROVE  OfTransaction'
  <2>1. Reviewing' => Reviewing BY <1>4 DEF Reviewing
  <2>2. Now' = Now BY <1>4 DEF Now, InSituation
  <2> QED BY <1>4, <2>1, <2>2 DEF OfTransaction
<1>5. CASE PressRight
  <2>1. items' = items /\ screen # "idle" /\ UNCHANGED <<parser_tx_obj, expert, verdict>>
    BY <1>5 DEF PressRight, h_review_button_right, Turn
  <2> QED BY <1>4, <2>1
<1>6. CASE AtReview
  <2>1. UNCHANGED <<parser_tx_obj, expert, verdict>> BY <1>6 DEF AtReview
  <2>2. h_review_button_left => items' = items /\ screen # "idle"
    BY DEF h_review_button_left, Turn
  <2>3. h_review_action \/ view_error_button \/ view_idle_show => items' = items /\ screen' = "idle"
    BY DEF h_review_action, view_error_button, view_idle_show, Ended
  <2>4. items' = items /\ (screen' # "idle" => screen # "idle")
    BY <1>6, <2>2, <2>3 DEF AtReview
  <2> QED BY <1>4, <2>1, <2>4
<1>7. CASE UNCHANGED reviewVars
  BY <1>4, <1>7 DEF reviewVars, vars
<1> QED BY <1>1, <1>2, <1>3, <1>5, <1>6, <1>7 DEF TransactionNext

LEMMA NextTInv == TInv /\ [TransactionNext]_reviewVars => TInv'
BY NextIsNext, NextOfTransaction, NextIInv, NextLast DEF TInv

(* The review that is open stays that of the transaction.                  *)
THEOREM TransactionInductive == TransactionSpec => []TInv
BY InitTInv, NextTInv, PTL DEF TransactionSpec

(* The review of a transaction implements the paging of any review.        *)
THEOREM TransactionPages == TransactionSpec => Spec
<1>1. TransactionInit => Init BY DEF TransactionInit
<1>2. TInv /\ [TransactionNext]_reviewVars => [Next]_vars BY NextIsNext DEF TInv
<1> QED BY <1>1, <1>2, TransactionInductive, PTL DEF TransactionSpec, Spec

(* So of a transaction, too, every page is on the screen before its        *)
(* approval, and the buttons turn one page at a time.                      *)
THEOREM TransactionIsRead ==
  TransactionSpec => /\ []TypeOK /\ []ApprovedOnlyWhenRead /\ []ErrorOnlyIfEmpty
                     /\ OnePageAtATime
BY TransactionPages, TypeCorrect, ReadBeforeApproval, ErrorsExplained, PageByPage

LEMMA TInvAccepted == TInv => AcceptedAsTyped
<1> SUFFICES ASSUME TInv, NEW obj \in Signable
             PROVE  InSituation(obj, verdict) \in validated <=> InSituation(obj, verdict) \in typed
  BY DEF AcceptedAsTyped
<1>1. InSituation(obj, verdict) \in Situation BY InSituationIs DEF TInv, OfTransaction
<1> QED BY <1>1, ValidatedIsTyped

LEMMA ReviewingSituation ==
  ASSUME TInv, Reviewing
  PROVE  Now \in Situation /\ Showable(Now) /\ items = itemsOf[Now]
<1>1. /\ parser_tx_obj \in Signable /\ verdict \in Verdict /\ expert \in BOOLEAN
      /\ Showable(Now) /\ items = itemsOf[Now]
  BY DEF TInv, OfTransaction, Reviewing
<1> QED BY <1>1, InSituationIs DEF Now

LEMMA TInvShows == TInv => ShowsTheTransaction
<1> SUFFICES ASSUME TInv, Reviewing, screen = "review"
             PROVE  /\ Now \in DOMAIN factsOf
                    /\ Len(items) = Length(Now)
                    /\ Reading => \E shown \in parser_getItem(screensOf[Now], itemIdx) :
                         IF itemIdx < Len(factsOf[Now])
                         THEN /\ shown.title = factsOf[Now][itemIdx + 1].title
                              /\ shown.said = {factsOf[Now][itemIdx + 1].value}
                         ELSE shown.title = "Warning:"
  BY DEF ShowsTheTransaction
<1>1. Now \in Situation /\ Showable(Now) /\ items = itemsOf[Now] BY ReviewingSituation
<1>2. items # <<>>
  <2>1. CASE Reading
    <3>1. itemIdx \in Nat /\ itemIdx < Len(items) BY <2>1 DEF TInv, IInv, TypeOK, Reading
    <3>2. Len(<<>>) = 0 OBVIOUS
    <3> QED BY <3>1, <3>2
  <2>2. CASE Deciding
    <3>1. Len(items) > 0 BY <2>2 DEF TInv, LastHasPages
    <3>2. Len(<<>>) = 0 OBVIOUS
    <3> QED BY <3>1, <3>2
  <2> QED BY <2>1, <2>2 DEF TInv, IInv, TypeOK
<1>3. ShowsAll(Now) BY <1>1, <1>2, ShowableReview
<1>4. Now \in DOMAIN factsOf BY <1>1, ValidatedIsTyped
<1> HIDE DEF Now
<1>5. Len(items) = Length(Now) /\ Length(Now) \in Nat BY <1>1, <1>3 DEF ShowsAll
<1>6. Reading => itemIdx \in 0..Length(Now)-1
  BY <1>5 DEF TInv, IInv, TypeOK, Reading
<1> QED BY <1>3, <1>4, <1>5, <1>6 DEF ShowsAll

LEMMA TInvShown == TInv => ValidatedIsShown
<1> SUFFICES ASSUME TInv, Reviewing, screen = "error"
             PROVE  \/ Now \in DOMAIN factsOf \ typed
                    \/ Unprintable(items, itemIdx, pageIdx)
  BY DEF ValidatedIsShown
<1>1. Now \in Situation /\ Showable(Now) /\ items = itemsOf[Now] BY ReviewingSituation
<1>2. Now \in DOMAIN factsOf BY <1>1, ValidatedIsTyped
<1>3. CASE Now \in typed
  <2>1. ShowsAll(Now) BY <1>1, <1>3, ShowableReview
  <2>2. items # <<>> /\ PagesOf(items, Len(items) - 1) # 0 BY <1>1, <2>1 DEF ShowsAll
  <2> QED BY <2>2 DEF TInv, IInv, ErrorOnlyIfEmpty
<1> QED BY <1>2, <1>3

(* For every transaction, packet and nesting of its arguments,             *)
(* parser_validate accepts what can be shown as declared in fewer screens  *)
(* than the index of parser_getItem_internal can count, and nothing else.  *)
THEOREM OnlyWhatCanBeShown == TransactionSpec => []AcceptedAsTyped
BY TInvAccepted, TransactionInductive, PTL

(* Every screen of a transaction's review says the fact of its place, the  *)
(* warnings behind them, and the decision comes behind the last one        *)
(* (parser_getItem_internal, parser_printArgument and its like).           *)
THEOREM TransactionIsShown == TransactionSpec => []ShowsTheTransaction
BY TInvShows, TransactionInductive, PTL

(* The review of a validated transaction ends on the error screen only if  *)
(* its warnings are more screens than can be counted, or going back over   *)
(* an argument without characters (parser_validate and the show_address    *)
(* that handleSign sets behind it).                                        *)
THEOREM ValidatedEndsWell == TransactionSpec => []ValidatedIsShown
BY TInvShown, TransactionInductive, PTL
=============================================================================
