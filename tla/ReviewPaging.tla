---------------------------- MODULE ReviewPaging ----------------------------
(***************************************************************************)
(* The pages of a review on the Nano S (ledger-zxlib's view_nano.c,        *)
(* view_s.c and view.c): the items of the review in order, each with its   *)
(* pages, then an item to accept and one to reject.  The left and right    *)
(* buttons turn pages, both buttons decide.  An item without pages is      *)
(* passed over, except that some printers fail when asked for its last.    *)
(***************************************************************************)
EXTENDS Naturals, Sequences, FiniteSets

CONSTANTS
  LastPage,   (* the page index that stands for "the last page": 255       *)
  Reviews     (* reviews that may be opened: their items                   *)

(* The pages of an item, and whether its printer checks the page it is     *)
(* asked for (parser_printArgument and the like).                          *)
Item == [pages : 0..LastPage-1, checked : BOOLEAN]

(* Page and item counters are bytes; no item the app renders comes near.   *)
ASSUME ReviewsAssumption ==
  /\ LastPage \in Nat
  /\ Reviews \subseteq Seq(Item)
  /\ \A r \in Reviews : Len(r) < LastPage - 1

VARIABLES
  items,      (* the review that is open                                   *)
  screen,
  itemIdx, pageIdx, pageCount, itemCount,   (* of viewdata                 *)
  answer,     (* the callback that ended the review                        *)
  seen        (* the pages shown since the review was opened (history)     *)

vars == <<items, screen, itemIdx, pageIdx, pageCount, itemCount, answer, seen>>

Init ==
  /\ items = <<>>
  /\ screen = "idle"
  /\ itemIdx = 0
  /\ pageIdx = 0
  /\ pageCount = 0
  /\ itemCount = 0
  /\ answer = "none"
  /\ seen = {}

-----------------------------------------------------------------------------
(* Items are numbered from 0.                                              *)
PagesOf(review, i) == review[i + 1].pages
HasPages(review, i) == i + 1 \in DOMAIN review /\ PagesOf(review, i) # 0

(* A page after the first of no pages: more than the printer takes.        *)
Unprintable(review, i, p) ==
  /\ i + 1 \in DOMAIN review
  /\ PagesOf(review, i) = 0 /\ review[i + 1].checked /\ p > 0

is_accept_item(i, count) == i + 1 = count
is_reject_item(i, count) == i = count

(* The item at which the loop of h_review_update_data stops, if any.       *)
FirstWithPages(review, i, j) ==
  /\ j >= i
  /\ HasPages(review, j)
  /\ \A k \in i..j-1 : ~HasPages(review, k)

(* Mutant: the loop gives up at the first item without pages.              *)
Renderable_NoLoop(review, i) == HasPages(review, i)

Renderable(review, i) == \E j \in 0..Len(review) : j >= i /\ HasPages(review, j)

(* Mutant: the page is not capped when an item is entered from behind.     *)
CappedPage_Not(p, pages) == p

CappedPage(p, pages) == IF p > pages THEN pages - 1 ELSE p

ShowAction(i) ==
  /\ screen' = "review"
  /\ itemIdx' = i
  /\ pageIdx' = 0
  /\ pageCount' = 1
  /\ UNCHANGED <<itemCount, seen>>

ShowItem(review, i, p, before) ==
  \E j \in 0..Len(review) :
    /\ FirstWithPages(review, i, j)
    /\ screen' = "review"
    /\ itemIdx' = j
    /\ pageCount' = PagesOf(review, j)
    /\ pageIdx' = IF j = i THEN CappedPage(p, PagesOf(review, j)) ELSE 0
    /\ itemCount' = Len(review) + 1
    /\ seen' = before \cup {<<j, pageIdx'>>}

(* The index has run past the items.                                       *)
ShowError(review, before) ==
  /\ screen' = "error"
  /\ itemIdx' = Len(review)
  /\ pageIdx' = 0
  /\ pageCount' \in {0, 1}
  /\ itemCount' = Len(review)
  /\ seen' = before

ShowPageError(i, p) ==
  /\ screen' = "error"
  /\ itemIdx' = i
  /\ pageIdx' = p
  /\ pageCount' = 0
  /\ itemCount' = Len(items)
  /\ UNCHANGED seen

(* Page p of item i, told apart from the decisions by the item count of    *)
(* the last page shown.                                                    *)
h_review_update_data(i, p) ==
  IF is_accept_item(i, itemCount) \/ is_reject_item(i, itemCount) THEN ShowAction(i)
  ELSE IF Unprintable(items, i, p) THEN ShowPageError(i, p)
  ELSE IF Renderable(items, i) THEN ShowItem(items, i, p, seen)
  ELSE ShowError(items, seen)

-----------------------------------------------------------------------------
(* h_paging_init sets the count to 0xFF: the first item is no decision.    *)
view_review_show(review) ==
  /\ screen = "idle"
  /\ items' = review
  /\ answer' = "none"
  /\ \/ Renderable(review, 0)  /\ ShowItem(review, 0, 0, {})
     \/ ~Renderable(review, 0) /\ ShowError(review, {})

NextItem == itemCount > 0 /\ itemIdx < itemCount

(* Mutants: the last page of an item is passed over; the item after the    *)
(* last page is not entered.                                               *)
h_paging_increase_LastPage ==
  IF pageIdx + 2 < pageCount THEN <<itemIdx, pageIdx + 1>>
  ELSE IF NextItem THEN <<itemIdx + 1, 0>> ELSE <<itemIdx, pageIdx>>

h_paging_increase_NoAction ==
  IF pageIdx + 1 < pageCount THEN <<itemIdx, pageIdx + 1>>
  ELSE IF itemIdx + 2 < itemCount THEN <<itemIdx + 1, 0>> ELSE <<itemIdx, pageIdx>>

h_paging_increase ==
  IF pageIdx + 1 < pageCount THEN <<itemIdx, pageIdx + 1>>
  ELSE IF NextItem THEN <<itemIdx + 1, 0>> ELSE <<itemIdx, pageIdx>>

(* Mutant: going back enters an item at its first page.                    *)
h_paging_decrease_FirstPage ==
  IF pageIdx # 0 THEN <<itemIdx, pageIdx - 1>>
  ELSE IF itemIdx > 0 THEN <<itemIdx - 1, 0>> ELSE <<itemIdx, pageIdx>>

h_paging_decrease ==
  IF pageIdx # 0 THEN <<itemIdx, pageIdx - 1>>
  ELSE IF itemIdx > 0 THEN <<itemIdx - 1, LastPage>> ELSE <<itemIdx, pageIdx>>

Turn(target) ==
  /\ screen = "review"
  /\ h_review_update_data(target[1], target[2])
  /\ UNCHANGED <<items, answer>>

h_review_button_right == Turn(h_paging_increase)
h_review_button_left  == Turn(h_paging_decrease)

Ended(reason) ==
  /\ screen' = "idle"
  /\ answer' = reason
  /\ UNCHANGED <<items, itemIdx, pageIdx, pageCount, itemCount, seen>>

(* On an item that is no decision both buttons do nothing.                 *)
h_review_action ==
  /\ screen = "review"
  /\ \/ is_accept_item(itemIdx, itemCount) /\ Ended("approve")
     \/ is_reject_item(itemIdx, itemCount) /\ Ended("reject")

view_error_button == screen = "error" /\ Ended("error")

(* A USB reset ends a review from outside.                                 *)
view_idle_show == screen # "idle" /\ Ended("none")

-----------------------------------------------------------------------------
Next ==
  \/ \E review \in Reviews : view_review_show(review)
  \/ h_review_button_right
  \/ h_review_button_left
  \/ h_review_action
  \/ view_error_button
  \/ view_idle_show

Spec == Init /\ [][Next]_vars

(* A user who keeps pressing the right button.                             *)
FairSpec == Spec /\ WF_vars(h_review_button_right)

-----------------------------------------------------------------------------
Reading  == screen = "review" /\ itemIdx < Len(items)
Deciding == screen = "review" /\ itemIdx \in {Len(items), Len(items) + 1}

(* The counters describe the page on the screen, which exists; past the    *)
(* items there are exactly the two decisions.                              *)
TypeOK ==
  /\ items \in Reviews \cup {<<>>}
  /\ screen \in {"idle", "review", "error"}
  /\ itemIdx \in Nat /\ pageIdx \in Nat /\ pageCount \in Nat /\ itemCount \in Nat
  /\ answer \in {"none", "approve", "reject", "error"}
  /\ screen = "review" => (Reading \/ Deciding) /\ itemCount = Len(items) + 1
  /\ Reading  => pageIdx < pageCount /\ pageCount = PagesOf(items, itemIdx)
  /\ Deciding => pageIdx = 0 /\ pageCount = 1

(* Only a review that ends in an item without pages, or has no items, can  *)
(* end on the error screen, and one of a user who goes back over a checked *)
(* item without pages.                                                     *)
ErrorOnlyIfEmpty ==
  screen = "error" => \/ items = <<>>
                      \/ PagesOf(items, Len(items) - 1) = 0
                      \/ Unprintable(items, itemIdx, pageIdx)

Pages == UNION {{i} \X (0..PagesOf(items, i)-1) : i \in 0..Len(items)-1}

(* A review is approved only after every page of it has been on the        *)
(* screen, however the user went back and forth.                           *)
ApprovedOnlyWhenRead == answer = "approve" => Pages \subseteq seen

(* How many pages come before what is shown, decisions included.           *)
Place ==
  Cardinality({s \in Pages : s[1] < itemIdx \/ (s[1] = itemIdx /\ s[2] < pageIdx)})
    + (IF itemIdx > Len(items) THEN 1 ELSE 0)

(* The right button shows the very next page or decision and the left      *)
(* button the one before, unless the page stays the same or the item gone  *)
(* back to is one that cannot be printed.                                  *)
OnePageAtATime ==
  [][/\ h_review_button_right /\ screen' = "review" => Place' = Place + 1
     /\ h_review_button_left => \/ screen' = "review" /\ Place' = Place - 1
                                \/ Unprintable(items, itemIdx', pageIdx')]_vars

(* A user who stops going back comes to the decision, to the error screen  *)
(* or out of the review: no page holds the user.                           *)
ForwardDecides ==
  <>[][~h_review_button_left]_vars =>
    (screen = "review" ~> Deciding \/ screen # "review")
=============================================================================
