----------------------------- MODULE JsonTokens -----------------------------
(***************************************************************************)
(* The arguments of a transaction are JSON documents.  jsmn cuts one into  *)
(* a flat list of tokens, each with the offsets of its text; the walks of  *)
(* src/src/json/json_parser.c and the matchers of parser_impl.c tell       *)
(* children from siblings by these offsets alone.  A document is a tree of *)
(* values: [kind, text] for a string or a primitive, [kind, parts] for an  *)
(* array or for an object, whose parts are keys and values in turn.  Only  *)
(* well-formed documents are modelled: jsmn, which is built without        *)
(* JSMN_STRICT, also takes some others apart.                              *)
(***************************************************************************)
EXTENDS Integers, Sequences

CONSTANTS
  Width,                 (* text -> its number of characters               *)
  Nesting,               (* how deep the documents are nested              *)
  MAX_NUMBER_OF_TOKENS,
  MaxText                (* characters a buffer of the printers takes      *)

ASSUME TokensAssumption ==
  /\ MAX_NUMBER_OF_TOKENS \in Nat /\ MaxText \in Nat /\ Nesting \in Nat
  /\ \A text \in DOMAIN Width : Width[text] \in Nat

-----------------------------------------------------------------------------
Scalars        == [kind : {"STRING", "PRIMITIVE"}, text : DOMAIN Width]
Arrays(values) == [kind : {"ARRAY"}, parts : Seq(values)]

Objects(values) ==
  {v \in [kind : {"OBJECT"}, parts : Seq(values)] :
     /\ Len(v.parts) % 2 = 0
     /\ \A n \in 1..(Len(v.parts) \div 2) : v.parts[2 * n - 1].kind = "STRING"}

(* Values whose parts are from a set; those that are nested so deep at     *)
(* most.                                                                   *)
ValuesOver(inner) == Scalars \cup Arrays(inner) \cup Objects(inner)

Value[depth \in 0..Nesting] == IF depth = 0 THEN Scalars ELSE ValuesOver(Value[depth-1])

-----------------------------------------------------------------------------
Token(v, start, end) == [value |-> v, kind |-> v.kind, start |-> start, end |-> end]

(* A slot of the token array that jsmn has not filled.                     *)
NoToken == [kind |-> "UNDEFINED", start |-> 0, end |-> 0]

At(tokens, i) == IF i \in DOMAIN tokens THEN tokens[i] ELSE NoToken

Shifted(tokens, by) ==
  [n \in DOMAIN tokens |-> [tokens[n] EXCEPT !.start = @ + by, !.end = @ + by]]

(* The first n parts of an array or object in the order of the text, each  *)
(* with the character that ends it, behind the opening bracket.            *)
Laid(layout, parts) ==
  LET laid[n \in 0..Len(parts)] ==
        IF n = 0 THEN [tokens |-> <<>>, size |-> 1]
        ELSE LET before == laid[n-1]
                 part   == layout[parts[n]]
             IN  [tokens |-> before.tokens \o Shifted(part.tokens, before.size),
                  size   |-> before.size + part.size + 1]
  IN  laid

(* The tokens of a value, by the offsets in its text, and the length of    *)
(* this text.  Quotes are no part of a string's token, brackets are of an  *)
(* array's or object's.                                                    *)
LayoutBy(layout, v) ==
  CASE v.kind = "STRING" ->
         [tokens |-> <<Token(v, 1, 1 + Width[v.text])>>, size |-> Width[v.text] + 2]
    [] v.kind = "PRIMITIVE" ->
         [tokens |-> <<Token(v, 0, Width[v.text])>>, size |-> Width[v.text]]
    [] OTHER ->
         LET laid == Laid(layout, v.parts)[Len(v.parts)]
             size == IF v.parts = <<>> THEN 2 ELSE laid.size
         IN  [tokens |-> <<Token(v, 0, size)>> \o laid.tokens, size |-> size]

Layout[depth \in 0..Nesting] == [v \in Value[depth] |-> LayoutBy(Layout[depth-1], v)]

TokensOf(v) == Layout[Nesting][v].tokens

(* {} if there are too many tokens, or the list of them.                   *)
json_parse(v) == {tokens \in {TokensOf(v)} : Len(tokens) <= MAX_NUMBER_OF_TOKENS}

-----------------------------------------------------------------------------
(* The tokens behind token a up to the first that begins behind its end.   *)
Inside(tokens, a) ==
  {i \in a+1..Len(tokens) : \A k \in a+1..i : tokens[k].start <= tokens[a].end}

(* The walk over them: a token that does not begin before the end of what  *)
(* was found last is found next.  What is found ends with the token        *)
(* "ahead" of it.                                                          *)
Walk(tokens, a, ahead) ==
  LET walk[i \in a..Len(tokens)] ==
        IF i = a THEN [found |-> <<>>, prevEnd |-> tokens[a].start]
        ELSE LET before == walk[i-1]
             IN  IF i \notin Inside(tokens, a) \/ tokens[i].start <= before.prevEnd THEN before
                 ELSE [found |-> Append(before.found, i), prevEnd |-> At(tokens, i + ahead).end]
  IN  walk

(* Mutant: what an element is made of is found as well.                    *)
array_elements_Nested(tokens, a) ==
  SelectSeq([i \in 1..Len(tokens) |-> i], LAMBDA i : i \in Inside(tokens, a))

(* The elements of the array at token a.                                   *)
array_elements(tokens, a) == Walk(tokens, a, 0)[Len(tokens)].found

(* The keys of the object at token o; the value of a key is the token      *)
(* after it, which is read before anything is known of the key.            *)
object_keys(tokens, o) == Walk(tokens, o, 1)[Len(tokens)].found

(* {} or the token of the value of the first key of this name.             *)
object_get_value(tokens, o, name) ==
  LET keys  == object_keys(tokens, o)
      named == {n \in DOMAIN keys : tokens[keys[n]].value.text = name}
  IN  {keys[n] + 1 : n \in {n \in named : \A m \in named : n <= m}}

-----------------------------------------------------------------------------
TextWidth(token) == token.end - token.start

(* {} if the text does not fit the buffer, or what is written there.       *)
json_extractToken(tokens, i) ==
  {[value |-> t.value, width |-> TextWidth(t)] : t \in {t \in {tokens[i]} : TextWidth(t) <= MaxText}}

(* What the matchers find: {} or a token.                                  *)
IsPair(tokens, o) == tokens[o].kind = "OBJECT" /\ Len(object_keys(tokens, o)) = 2

IsString(tokens, i, text) == At(tokens, i).kind = "STRING" /\ tokens[i].value.text = text

json_matchKeyValue(tokens, o, type, kind) ==
  {v \in object_get_value(tokens, o, "value") :
     /\ IsPair(tokens, o)
     /\ \E t \in object_get_value(tokens, o, "type") : IsString(tokens, t, type)
     /\ At(tokens, v).kind = kind}

(* JSON_MATCH_VALUE_IDX_NONE                                               *)
NoneToken == 0

json_matchOptionalKeyValue(tokens, o, type, kind) ==
  IF ~IsPair(tokens, o) \/ ~\E t \in object_get_value(tokens, o, "type") :
                               IsString(tokens, t, "Optional")
  THEN {}
  ELSE UNION {CASE At(tokens, v).kind = "PRIMITIVE" ->
                     IF tokens[v].value.text = "null" THEN {NoneToken} ELSE {}
                [] At(tokens, v).kind = "OBJECT" ->
                     json_matchKeyValue(tokens, v, type, kind)
                [] OTHER -> {}
              : v \in object_get_value(tokens, o, "value")}

(* Any type name, any value.                                               *)
json_matchArbitraryKeyValue(tokens, o) ==
  {m \in object_get_value(tokens, o, "type") \X object_get_value(tokens, o, "value") :
     IsPair(tokens, o) /\ At(tokens, m[1]).kind = "STRING" /\ At(tokens, m[2]).kind # "UNDEFINED"}
=============================================================================
