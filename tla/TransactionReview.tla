------------------------- MODULE TransactionReview -------------------------
(***************************************************************************)
(* What the pages of a transaction's review say (src/src/parser_tx.c):     *)
(* parser_getItem_internal goes through the screens in order, counting an  *)
(* index down in eight bits, once to count them and again for every page   *)
(* that is shown.  The arguments are printed from their JSON text, with a  *)
(* metadata packet by the types it declares and without one as they are.   *)
(*                                                                         *)
(* parser_validate prints every item before the warnings of the            *)
(* transaction are known (apdu_handler.c sets show_address after           *)
(* tx_parse); the review counts and prints them again.                     *)
(*                                                                         *)
(* Left out: the buffers of titles, which cut names short, and the reader  *)
(* of the transaction's bytes, whose results are the constant content.     *)
(***************************************************************************)
EXTENDS ReviewPaging, JsonTokens, SequencesExt

CONSTANTS
  content,       (* transaction -> its script, packet, arguments, fields   *)
  NoPacket,      (* no packet is published for the script                  *)
  chainOf,       (* payer -> its chain, where there is one                 *)
  Wrong,         (* a field of the wrong length                            *)
  Number,        (* text -> the number its digits make                     *)
  MAX_JSON_ARRAY_TOKEN_COUNT,
  INT8_MAX,      (* the largest index; the least is one beyond its negative *)
  PageWidth,     (* characters on a page                                   *)
  Verdict,       (* what is known of the main slot's address               *)
  OtherReviews   (* items of the other reviews                             *)

Transaction == DOMAIN content
INT8_MIN    == -INT8_MAX - 1

NoVerdict   == [show_address |-> "NONE", addressUsedInTx |-> FALSE]

ASSUME TransactionAssumption ==
  /\ OtherReviews \subseteq Reviews
  /\ NoVerdict \in Verdict
  /\ Verdict \subseteq
       [show_address : {"NONE", "YES", "YES_HASH_MISMATCH", "EMPTY_SLOT",
                        "HDPATHS_NOT_EQUAL", "ERROR"},
        addressUsedInTx : BOOLEAN]
  /\ INT8_MAX \in Nat
  /\ PageWidth \in Nat \ {0}
  /\ MAX_JSON_ARRAY_TOKEN_COUNT \in Nat

(* A descriptor of a packet with so many of them.                          *)
IsDescriptor(d, count) ==
  /\ d.argument \in {"NORMAL", "ENUM", "OPTIONAL", "ARRAY"}
  /\ d.index \in 1..count
  /\ d.argument = "ARRAY" => d.min \in Nat /\ d.max \in Nat

IsPacket(packet) ==
  LET args == packet.arguments
  IN  /\ Len(args) \in Nat /\ DOMAIN args = 1..Len(args)
      /\ \A n \in DOMAIN args : IsDescriptor(args[n], Len(args))

(* What the other screens of a transaction c say, in characters.           *)
Fields(c) == {"gas", "id", "seq", "path", c.referenceBlockId, c.proposer, c.payer}
               \cup Range(c.authorizers)

ASSUME ContentAssumption ==
  /\ \A t \in Transaction :
       /\ content[t].arguments \in Seq(Value[Nesting])
       /\ content[t].packet # NoPacket => IsPacket(content[t].packet)
       /\ content[t].authorizers \in Seq(DOMAIN Width \cup {Wrong})
       /\ \A field \in Fields(content[t]) \ {Wrong} : Width[field] \in Nat \ {0}
  /\ Wrong \notin DOMAIN chainOf \cup {"gas", "id", "seq", "path"}

VARIABLES
  parser_tx_obj,   (* the transaction under review, with its packet or not *)
  expert,          (* app_mode_expert                                      *)
  verdict          (* show_address and addressUsedInTx                     *)

reviewVars == <<vars, parser_tx_obj, expert, verdict>>

NoTransaction == [tx |-> "none", metadataInitialized |-> FALSE]

TransactionInit ==
  /\ Init
  /\ parser_tx_obj = NoTransaction
  /\ expert \in BOOLEAN
  /\ verdict = NoVerdict

-----------------------------------------------------------------------------
(* A screen: its title, {} or what it says, its pages, and whether its     *)
(* printer checks the page it is asked for.                                *)
Screen(title, said, pages, checked) ==
  [title |-> title, said |-> said, pages |-> pages, checked |-> checked]

OnePage(title, value) == Screen(title, {value}, 1, FALSE)

(* printed is {} or a value with the width of its text.                    *)
pageString(title, printed, checked) ==
  Screen(title, {p.value : p \in printed},
         IF printed = {} THEN 0
         ELSE ((CHOOSE p \in printed : TRUE).width + PageWidth - 1) \div PageWidth,
         checked)

Text(text) == [value |-> text, width |-> Width[text]]

(* An address or a block id prints if it has the right length.             *)
FieldScreen(title, field) == pageString(title, {Text(v) : v \in {field} \ {Wrong}}, FALSE)

-----------------------------------------------------------------------------
(* An argument with the descriptor d of the packet for it.                 *)
parser_printArgument(d, arg) ==
  UNION {UNION {json_extractToken(tokens, i) :
                  i \in json_matchKeyValue(tokens, 1, d.type, d.kind)}
         : tokens \in json_parse(arg)}

(* Of the text only the digits count (str_to_int8 without an error flag).  *)
parser_printEnumValue(d, arg) ==
  {Text(d.names[Number[p.value.text]]) :
     p \in {p \in parser_printArgument(d, arg) : Number[p.value.text] \in DOMAIN d.names}}

parser_printOptionalArgument(d, arg) ==
  LET found == UNION {{<<tokens, i>> : i \in json_matchOptionalKeyValue(tokens, 1, d.type, d.kind)}
                      : tokens \in json_parse(arg)}
  IN  IF \E f \in found : f[2] = NoneToken THEN OnePage(d.title, "None")
      ELSE pageString(d.title, UNION {json_extractToken(f[1], f[2]) : f \in found}, FALSE)

(* {} or the tokens of a document and those of its array's elements.       *)
ArrayOf(arg) ==
  UNION {{[tokens |-> tokens, elements |-> array_elements(tokens, a)] :
            a \in json_matchKeyValue(tokens, 1, "Array", "ARRAY")}
         : tokens \in json_parse(arg)}

_countArgumentItems(d, arg) == {Len(a.elements) : a \in ArrayOf(arg)} \cap (d.min..d.max)

parser_printArgumentArray(d, arg, j) ==
  UNION {UNION {json_extractToken(a.tokens, i) :
                  i \in json_matchKeyValue(a.tokens, a.elements[j], d.type, d.kind)}
         : a \in {a \in ArrayOf(arg) : Len(a.elements) < MAX_JSON_ARRAY_TOKEN_COUNT}}

(* {} if the elements cannot be counted, or the screens.                   *)
ArgumentScreens(d, arg) ==
  CASE d.argument = "NORMAL" ->
         {<<pageString(d.title, parser_printArgument(d, arg), TRUE)>>}
    [] d.argument = "ENUM" ->
         {<<pageString(d.title, parser_printEnumValue(d, arg), TRUE)>>}
    [] d.argument = "OPTIONAL" -> {<<parser_printOptionalArgument(d, arg)>>}
    [] d.argument = "ARRAY" ->
         {[j \in 1..n |-> pageString(<<d.title, j>>, parser_printArgumentArray(d, arg, j), TRUE)]
            : n \in _countArgumentItems(d, arg)}

(* The argument number i without a packet.                                 *)
TooLong == Text("<Value too long>")

parser_printArbitraryArgument(i, arg) ==
  LET found == UNION {{<<tokens, m>> : m \in json_matchArbitraryKeyValue(tokens, 1)}
                      : tokens \in json_parse(arg)}
      Printed(tokens, v) ==
        IF json_extractToken(tokens, v) = {} THEN {TooLong} ELSE json_extractToken(tokens, v)
  IN  IF found = {} THEN Screen("", {}, 1, FALSE)
      ELSE LET f == CHOOSE f \in found : TRUE
           IN  pageString(<<i, f[1][f[2][1]].value.text>>, Printed(f[1], f[2][2]), FALSE)

-----------------------------------------------------------------------------
(* The screens of a situation s: a transaction with or without its packet, *)
(* the mode and the verdict.  Every part is {} if going through it fails,  *)
(* or a sequence.                                                          *)
IdentityScreens(s) ==
  IF s.metadataInitialized THEN {<<OnePage("Type", content[s.tx].packet.txName)>>}
  ELSE IF ~s.expert THEN {}
  ELSE {<<pageString("Script hash", {Text(content[s.tx].script)}, FALSE),
          OnePage("Verify script hash", "on a secure device.")>>}

ChainScreen(s) ==
  LET payer == content[s.tx].payer
  IN  <<Screen("ChainID", {chainOf[p] : p \in {payer} \cap DOMAIN chainOf}, 1, FALSE)>>

ArgumentParts(s) ==
  LET args   == content[s.tx].arguments
      packet == content[s.tx].packet.arguments
  IN  IF ~s.metadataInitialized
      THEN <<{<<OnePage("Script arguments", Len(args))>>}>>
             \o [i \in DOMAIN args |-> {<<parser_printArbitraryArgument(i, args[i])>>}]
      ELSE IF Len(packet) # Len(args) THEN <<{}>>
      ELSE [i \in DOMAIN packet |-> ArgumentScreens(packet[i], args[packet[i].index])]

FieldScreens(s) ==
  LET c == content[s.tx]
  IN  <<FieldScreen("Ref Block", c.referenceBlockId), FieldScreen("Gas Limit", "gas"),
        FieldScreen("Prop Key Addr", c.proposer), FieldScreen("Prop Key Id", "id"),
        FieldScreen("Prop Key Seq Num", "seq"), FieldScreen("Payer", c.payer)>>
        \o [i \in DOMAIN c.authorizers |-> FieldScreen(<<"Authorizer", i>>, c.authorizers[i])]
        \o (IF s.expert THEN <<FieldScreen("Your Path", "path")>> ELSE <<>>)

Warning(text) == OnePage("Warning:", text)

(* The one warning that is paged; with its layout it has 57 characters.    *)
HashWarning ==
  pageString("Warning:", {[value |-> "Specified hash algorithm does not match", width |-> 57]}, FALSE)

When(condition, warning) == IF condition THEN <<warning>> ELSE <<>>

WarningScreens(v) ==
  CASE v.show_address \in {"YES", "YES_HASH_MISMATCH"} ->
         When(~v.addressUsedInTx, Warning("Incorrect address in transaction."))
           \o When(v.show_address = "YES_HASH_MISMATCH", HashWarning)
    [] v.show_address = "EMPTY_SLOT"        -> <<Warning("No address stored on the device.")>>
    [] v.show_address = "HDPATHS_NOT_EQUAL" -> <<Warning("Different address stored on device.")>>
    [] OTHER                                -> <<Warning("Slot error.")>>

ScreenParts(s) ==
  <<IdentityScreens(s), {ChainScreen(s)}>> \o ArgumentParts(s) \o <<{FieldScreens(s)}>>

Screens(s) ==
  {FlattenSeq([n \in DOMAIN parts |-> CHOOSE screens \in parts[n] : TRUE])
     \o WarningScreens(s.verdict) : parts \in {p \in {ScreenParts(s)} : {} \notin Range(p)}}

(* all is {} or the sequence of all screens.  The index after n of them    *)
(* that were not the one looked for:                                       *)
Countdown(n) == IF -1 - n < INT8_MIN THEN INT8_MIN ELSE -1 - n

(* Mutant: an index that stuck at its least value is taken as a count.     *)
parser_getNumItems_Stuck(all) == {-1 - Countdown(Len(screens)) : screens \in all}

parser_getNumItems(all) ==
  {-1 - left : left \in {Countdown(Len(screens)) : screens \in all} \ {INT8_MIN}}

parser_getItem(all, idx) ==
  {screens[idx + 1] : screens \in {x \in all : idx <= INT8_MAX /\ idx < Len(x)}}

AllPrint(all, n) == \A idx \in 0..n-1 : \E shown \in parser_getItem(all, idx) : shown.said # {}

(* Mutant: the items are counted but not printed.                          *)
parser_validate_CountOnly(all) == parser_getNumItems(all) # {}

parser_validate(all) == \E n \in parser_getNumItems(all) : AllPrint(all, n)

(* The items the review pages through: none if they cannot be counted (no  *)
(* item is then got either) or one of them does not print.                 *)
ReviewItems(all) ==
  IF \E n \in parser_getNumItems(all) : AllPrint(all, n)
  THEN LET n == CHOOSE n \in parser_getNumItems(all) : TRUE
           Got(idx) == CHOOSE shown \in parser_getItem(all, idx) : TRUE
       IN  [i \in 1..n |-> [pages |-> Got(i - 1).pages, checked |-> Got(i - 1).checked]]
  ELSE <<>>

-----------------------------------------------------------------------------
Signable == {obj \in [tx : Transaction, metadataInitialized : BOOLEAN] :
               obj.metadataInitialized => content[obj.tx].packet # NoPacket}

Situation ==
  {[tx |-> obj.tx, metadataInitialized |-> obj.metadataInitialized, expert |-> e, verdict |-> v]
     : obj \in Signable, e \in BOOLEAN, v \in Verdict}

(* The function f, which TLC then evaluates once for all arguments.        *)
Tabulated(f) == CHOOSE g \in {f} : g = f

screensOf == Tabulated([s \in Situation |-> Screens(s)])
itemsOf   == Tabulated([s \in Situation |-> ReviewItems(Screens(s))])

ASSUME ReviewsOfTransactions == \A s \in Situation : itemsOf[s] \in Reviews

validated == {s \in Situation : parser_validate(screensOf[s])}

InSituation(obj, v) ==
  [tx |-> obj.tx, metadataInitialized |-> obj.metadataInitialized, expert |-> expert, verdict |-> v]

(* tx_parse under the verdict on an earlier transaction, then the verdict  *)
(* on this one, then its review.                                           *)
SignTransaction(obj, v) ==
  /\ obj.metadataInitialized \/ expert
  /\ InSituation(obj, verdict) \in validated
  /\ parser_tx_obj' = obj
  /\ verdict' = v
  /\ view_review_show(itemsOf[InSituation(obj, v)])
  /\ UNCHANGED expert

(* Addresses, slots and messages: the first load a verdict too.            *)
OtherReview(review, v) ==
  /\ parser_tx_obj' = NoTransaction
  /\ verdict' = v
  /\ view_review_show(review)
  /\ UNCHANGED expert

h_expert_toggle ==
  /\ screen = "idle"
  /\ expert' = ~expert
  /\ UNCHANGED <<vars, parser_tx_obj, verdict>>

PressRight == h_review_button_right /\ UNCHANGED <<parser_tx_obj, expert, verdict>>

AtReview ==
  /\ h_review_button_left \/ h_review_action \/ view_error_button \/ view_idle_show
  /\ UNCHANGED <<parser_tx_obj, expert, verdict>>

TransactionNext ==
  \/ \E v \in Verdict :
       \/ \E obj \in Signable : SignTransaction(obj, v)
       \/ \E review \in OtherReviews : OtherReview(review, v)
  \/ h_expert_toggle
  \/ PressRight
  \/ AtReview

TransactionSpec == TransactionInit /\ [][TransactionNext]_reviewVars

(* A user who keeps pressing the right button.                             *)
TransactionFairSpec == TransactionSpec /\ WF_reviewVars(PressRight)

-----------------------------------------------------------------------------
(* What a review should say, from the documents themselves.                *)
Pair(v, name) ==
  {v.parts[2 * n] : n \in {n \in 1..(Len(v.parts) \div 2) : v.parts[2 * n - 1].text = name}}

ValueOf(v) == CHOOSE x \in Pair(v, "value") : TRUE

IsTyped(v, type, kind) ==
  /\ v.kind = "OBJECT" /\ Len(v.parts) = 4
  /\ \E t \in Pair(v, "type") : t.kind = "STRING" /\ t.text = type
  /\ \E x \in Pair(v, "value") : x.kind = kind

Fits(v)     == TextWidth(TokensOf(v)[1]) <= MaxText
IsNone(v)   == IsTyped(v, "Optional", "PRIMITIVE") /\ ValueOf(v).text = "null"

AsDeclared(d, v) == IsTyped(v, d.type, d.kind) /\ Fits(ValueOf(v))

WellTyped(d, arg) ==
  /\ Len(TokensOf(arg)) <= MAX_NUMBER_OF_TOKENS
  /\ CASE d.argument = "NORMAL"   -> AsDeclared(d, arg)
       [] d.argument = "ENUM"     -> /\ AsDeclared(d, arg)
                                     /\ Number[ValueOf(arg).text] \in DOMAIN d.names
       [] d.argument = "OPTIONAL" ->
            \/ IsNone(arg)
            \/ IsTyped(arg, "Optional", "OBJECT") /\ AsDeclared(d, ValueOf(arg))
       [] d.argument = "ARRAY"    ->
            /\ IsTyped(arg, "Array", "ARRAY")
            /\ LET elements == ValueOf(arg).parts
               IN  /\ Len(elements) \in d.min..d.max
                   /\ Len(elements) < MAX_JSON_ARRAY_TOKEN_COUNT \/ elements = <<>>
                   /\ \A x \in Range(elements) : AsDeclared(d, x)

Arbitrary(arg) ==
  /\ Len(TokensOf(arg)) <= MAX_NUMBER_OF_TOKENS
  /\ arg.kind = "OBJECT" /\ Len(arg.parts) = 4
  /\ \E t \in Pair(arg, "type") : t.kind = "STRING"
  /\ Pair(arg, "value") # {}

Fact(title, value) == [title |-> title, value |-> value]

ArgumentFacts(d, arg) ==
  CASE d.argument = "NORMAL"   -> <<Fact(d.title, ValueOf(arg))>>
    [] d.argument = "ENUM"     -> <<Fact(d.title, d.names[Number[ValueOf(arg).text]])>>
    [] d.argument = "OPTIONAL" ->
         <<Fact(d.title, IF IsNone(arg) THEN "None" ELSE ValueOf(ValueOf(arg)))>>
    [] d.argument = "ARRAY"    ->
         LET elements == ValueOf(arg).parts
         IN  [j \in DOMAIN elements |-> Fact(<<d.title, j>>, ValueOf(elements[j]))]

ArbitraryFact(i, arg) ==
  Fact(<<i, (CHOOSE t \in Pair(arg, "type") : TRUE).text>>,
       IF Fits(ValueOf(arg)) THEN ValueOf(arg) ELSE TooLong.value)

IdentityFacts(s) ==
  IF s.metadataInitialized THEN <<Fact("Type", content[s.tx].packet.txName)>>
  ELSE <<Fact("Script hash", content[s.tx].script),
         Fact("Verify script hash", "on a secure device.")>>

FactsOfArguments(s) ==
  LET args   == content[s.tx].arguments
      packet == content[s.tx].packet.arguments
  IN  IF s.metadataInitialized
      THEN [i \in DOMAIN packet |-> ArgumentFacts(packet[i], args[packet[i].index])]
      ELSE <<<<Fact("Script arguments", Len(args))>>>>
             \o [i \in DOMAIN args |-> <<ArbitraryFact(i, args[i])>>]

FieldFacts(s) ==
  LET c == content[s.tx]
  IN  <<Fact("Ref Block", c.referenceBlockId), Fact("Gas Limit", "gas"),
        Fact("Prop Key Addr", c.proposer), Fact("Prop Key Id", "id"),
        Fact("Prop Key Seq Num", "seq"), Fact("Payer", c.payer)>>
        \o [i \in DOMAIN c.authorizers |-> Fact(<<"Authorizer", i>>, c.authorizers[i])]
        \o (IF s.expert THEN <<Fact("Your Path", "path")>> ELSE <<>>)

FactParts(s) ==
  <<IdentityFacts(s), <<Fact("ChainID", chainOf[content[s.tx].payer])>>>>
    \o FactsOfArguments(s) \o <<FieldFacts(s)>>

Facts(s) == FlattenSeq(FactParts(s))

(* A transaction that can be shown as declared, or as it is.               *)
Showable(s) ==
  LET c == content[s.tx]
  IN  /\ c.payer \in DOMAIN chainOf
      /\ Wrong \notin {c.referenceBlockId, c.proposer} \cup Range(c.authorizers)
      /\ IF s.metadataInitialized
         THEN /\ Len(c.packet.arguments) = Len(c.arguments)
              /\ \A d \in Range(c.packet.arguments) : WellTyped(d, c.arguments[d.index])
         ELSE s.expert /\ \A arg \in Range(c.arguments) : Arbitrary(arg)

(* The reference for every transaction that can be shown.                  *)
factsOf == Tabulated([s \in {s \in Situation : Showable(s)} |-> Facts(s)])

Length(s) == Len(factsOf[s]) + Len(WarningScreens(s.verdict))
typed     == {s \in DOMAIN factsOf : Length(s) < INT8_MAX}

Now == InSituation(parser_tx_obj, verdict)
Reviewing == screen # "idle" /\ parser_tx_obj # NoTransaction

(* What parser_validate accepts is what can be shown as the packet         *)
(* declares it, and no more screens than the index can count: the walks    *)
(* over the tokens find every argument at its place, however it is nested. *)
AcceptedAsTyped ==
  \A obj \in Signable :
    InSituation(obj, verdict) \in validated <=> InSituation(obj, verdict) \in typed

(* The screen reached by the paging buttons says the fact of its place,    *)
(* and the user comes to the decision behind the last fact and warning:    *)
(* no fact is left out, repeated or shown under another's title.           *)
ShowsTheTransaction ==
  Reviewing /\ screen = "review" =>
    /\ Now \in DOMAIN factsOf
    /\ Len(items) = Length(Now)
    /\ Reading => \E shown \in parser_getItem(screensOf[Now], itemIdx) :
         IF itemIdx < Len(factsOf[Now])
         THEN /\ shown.title = factsOf[Now][itemIdx + 1].title
              /\ shown.said = {factsOf[Now][itemIdx + 1].value}
         ELSE shown.title = "Warning:"

(* The review of a validated transaction meets an error only when its own  *)
(* warnings are more screens than the index can count, or on the way back  *)
(* over an argument of no characters.                                      *)
ValidatedIsShown ==
  Reviewing /\ screen = "error" =>
    \/ Now \in DOMAIN factsOf \ typed
    \/ Unprintable(items, itemIdx, pageIdx)
=============================================================================
