# Verification of the Flow hardware-wallet app

TLA+ models, model-checking runs and machine-checked proofs for the Flow app of the
Ledger devices (`src/` in the app's repository), the JavaScript client that drives it (`js/`) and
the generator of the metadata both depend on (`transaction_metadata/`). Paths below are relative to
the repository; `zxlib/` stands for `deps/ledger-zxlib/`.

## The system

| component | code | state it keeps | operations |
|---|---|---|---|
| command dispatcher, signing session | `src/apdu_handler.c`, `src/common/app_helper.c`, `src/common/tx.c`, `src/message.c` | `hdPath`, `cryptoOptions`, `parser_tx_obj.metadataInitialized`, `addressUsedInTx` | one handler per command, one branch of `process_chunk` per chunk type |
| transaction buffer | `zxlib/src/buffering.c` | RAM and flash buffer with positions and `in_use` flags | reset, append, migrate |
| metadata store | `src/tx_metadata.c` | packet, proof level, current digest | store a packet, one proof step, final check, read the packet |
| account slots | `src/account.c` | 64 slots in flash; `tmp_slot`, `tmp_slotIdx`, `tmp_slotop` | get, set (after review), load the main slot |
| answers to the host | `src/common/actions.h`, `zxlib/app/ui/view.c`, `src/menu_handler.c`, `src/addr.c` | `viewdata`, `review_type`, `show_address`, `address_to_display`, `pubkey_to_display`, `hasPubkey` | approve, reject, accept an error, the menu's address review |
| review paging | `zxlib/app/ui/view_nano.c`, `view_s.c` | item and page index, item and page count | left, right, both buttons |
| main loop | `zxlib/app/common/app_main.c`, `src/common/main.c` | answer flags, length of the reply | exchange, dispatch, USB reset |
| transaction parser | `src/parser_tx.c`, `src/parser_impl.c`, `src/rlp.c` | `parser_tx_obj` | parse, validate, count and render items |
| JSON-Cadence arguments | `src/json/json_parser.c` | token array | walk, match, format |
| cryptography | `src/crypto.c` | none | public key, digest, signature (system calls) |
| JS client | `js/src/index.js`, `common.js`, `signTransaction.js`, `serializePath.js` | none of its own: a call in progress is a chain of promises | version check, chunking, sending, taking answers apart |
| metadata tree generator | `transaction_metadata/tree/index.js`, manifests, `txMerkleTree.*` (three copies of its output) | none | builds the published tree and its index |

How they interact. The main loop takes one command at a time. Its handler works on global
variables and ends either by a `THROW` of the status word, which the loop sends at once, or by
opening a review and setting `IO_ASYNCH_REPLY`: then the command stays unanswered until the
user's decision calls a callback. Idle and menu screens run inside the same exchange loop, so
commands do arrive while the *menu's* address review is on the screen, but not during a review
that owes an answer. A signing session is spread over many commands (init, chunks, packet,
proof steps, final chunk) whose order the app does not enforce, and shares `hdPath`,
`cryptoOptions` and `show_address` with `INS_GET_PUBKEY` and with the menu. Items of a review
are rendered from the globals each time a page is turned.

On the host, a call of the client is a sequence of such commands, each sent when the answer to the
one before it has come. Nothing ties them together: between two commands of a call another caller
of the same client, the user's menu or a broken connection come in. For a sign call with metadata
the client looks the script up in its copy of the generated tree and sends the packet and the lists
of digests up to the root; the root is compiled into the device.

What is hard to test here: the orders nobody wrote a test for (a public key asked for between
two chunks, a packet under a finished proof, expert mode switched mid-session, two overlapping
calls), a command that fails halfway and leaves part of its effects, a session on the remains of
one ended by a USB reset or given up by its client, a power loss around a flash write, reviews
whose items are not what gets signed, and narrow counters (the 8-bit index into a packet, the
`int8_t` that counts items down, page 255). `PROJECT.json` lists these hazards with their lines and
the properties that cover them.

## Modules

| module | models | properties |
|---|---|---|
| `TxMetadata` | the metadata store, over an abstract hash and tree | `TypeOK`, `AcceptedIsPublished`, `ProofClimbsTree` |
| `MerkleNodes`, `MetadataTree` | the generator of the tree | used in `MCMetadataSession` |
| `Manifests`, `ClientTree`, `PublishedTree`, `PublishedModule` | the repository's data files | |
| `MetadataSession` | the metadata part of a sign call, client and store | `ListedIsAccepted`, `CopyIsCurrent`, `EveryTemplateListed` |
| `GeneratedSession` | the session with the files the generator makes | `AcceptedIsTemplate`, `AcceptedIsItsTemplate` (proved) |
| `MetadataPacket` | a packet byte by byte: its writer and its reader | `AcceptedIsListed`, `GeneratedIsReadBack` |
| `ByteBuffer` | abstract: an append-only buffer | |
| `Buffering` | the RAM and flash pair | `ImplementsByteBuffer`; `TypeOK`, `OneBufferInUse` (proved) |
| `Slots` | the operations of the slot table | used in `FlowApp` |
| `FlowApp` | all commands, reviews, callbacks, the menu, faults; composes `TxMetadata`, `ByteBuffer`, `Slots` by `INSTANCE` | see below |
| `JsClient` | every call of the client, over `FlowApp` | see below |
| `DerivationPath` | a path from text to slot, to text and back | `TypeOK`, `ShownNamesSlot`, `MarkedIsHardened` |
| `ReviewPaging` | the pages and buttons of one review | `TypeOK`, `ApprovedOnlyWhenRead`, `ErrorOnlyIfEmpty`, `OnePageAtATime`, `ForwardDecides` |
| `JsonTokens` | the token walks and matchers of the JSON parser | used in `TransactionReview` |
| `TransactionReview` | what each page of a transaction says; extends `ReviewPaging` | `AcceptedAsTyped`, `ShowsTheTransaction`, `ValidatedIsShown` |
| `...Proofs` | proofs about `TxMetadata`, `MetadataSession`, `MetadataPacket`, `Buffering`, `FlowApp`, `JsClient`, `DerivationPath`, and in `TransactionReviewProofs` about `ReviewPaging`, `JsonTokens` and `TransactionReview` | |
| `MC...` | small instances | |

### TxMetadata

`metadata`, `level` and `hash` are the fields of `txMetadataState`. A payload is any byte string a
host may send, as a packet or as a list of digests: `Fits`, `HashList` and `WordsOf` say what
matters of it. `Storable` and `ExtendsProof` are the guards of `storeTxMetadata` and
`validateStoredTxMetadataMerkleTreeLevel`; on failure `process_chunk` wipes the store, which
`MetadataChunk` and `ProofChunk` include. `AcceptedIsPublished` is what the proof is for: a packet
the parser accepts is a *leaf* of the published tree. An interior node hashes to a digest in the
tree too, and is about as long as a packet, so it is the level counter that keeps it out.
`ProofClimbsTree` is the inductive reason.

### MetadataTree and MetadataSession

`MetadataTree` is the generator as operators: two manifests sorted by id (a stable sort: `Before` is
the rank) and paired, one packet per
pair, seven children to a node over four levels, empty top branches cut from the printed tree, and
the index from a script to the way to its leaf. `Manifests` holds the templates of the two
manifests, `ClientTree`, `PublishedTree` and `PublishedModule` the trees and indexes of
`js/src/txMerkleTree.js`, `transaction_metadata/txMerkleTree.js` and `txMerkleTree.mjs`. A digest or
a script hash is its first eight hex digits; no two of them share these.

`MetadataSession` runs a client over any of the three copies against the store of `TxMetadata`: it
looks a script up, sends the packet and the lists from the leaf up, and stops at the first refusal.
`OtherCaller` is any chunk another caller has sent meanwhile; the bound `Contended` names the
scripts between whose chunks it may come. `ListedIsAccepted` says that an undisturbed call for
every listed script ends with its packet accepted under the root compiled into the device.
`WellFormed` is what the files must satisfy for it, list by list. `CopyIsCurrent` compares the
copies with what the generator makes of the manifests of the same commit, as far as packets of
`MetadataTree` go: scripts, argument kinds and their order. A copy stale only in a template's name, in
an argument's label or in the text of its type is not noticed. `EveryTemplateListed` is
about the manifests themselves (no template without a counterpart, no script listed twice).

`GeneratedSession` puts the two together: the copies and the root are what `MetadataTree` makes of
the manifests. Its premises say when that is so: the leaves suffice (`ManifestsFit`), the client and
the device were built from one run of the generator (`FilesAreGenerated`), the device reads what
was written (`PayloadsAreRead`), and the manifests pass the generator's assertions
(`ManifestsMatch`). `MCMetadataSession` evaluates them on the files of the repository whenever its
copies are current, so the theorems apply to these. Without a premise of this kind a proof would
say nothing: an arbitrary file need not list anything the device accepts.

### MetadataPacket

`TxMetadata` knows of a packet only which scripts it covers; here are its bytes. The writer is
`templatesToMetadata` with `processArg`; the reader is `_validateScriptHash` and
`parseTxMetadataInternal` with their positions, in which a position past the end stands for an
error. `IndexRange` is the width of `byteIdx`: the index does wrap, for a packet that announces
more hashes than it has room for, and `AcceptedIsListed` says that no such packet is accepted.
`GeneratedIsReadBack` says that a packet of the generator is read back or refused (the generator
checks the length of the whole, the device that of each string and the number of arguments), never
misread.

### Buffering and ByteBuffer

A buffer is the sequence of bytes below its `pos`. `Migrate` is the branch of
`buffering_append` that copies the RAM to flash and appends there, including the case where the
chunk does not fit the flash either and RAM is given up all the same. `ByteBuffer` is what
`tx_append` promises: all of the chunk or nothing. The refinement maps `contents` to what
`buffering_get_buffer` returns.

### Slots and FlowApp

One action per command (`handleGetPubkey`, `SignInit`, `SignAdd`, `SignLast`, `SignMetadata`,
`SignProof` for both types, `SignMessage`, `handleGetSlot`, `handleSetSlot`, `OtherCommand`), per
user decision (`h_approve` with the five callbacks, `h_reject`, `view_error_show`,
`h_error_accept`), per menu entry and per fault (`UsbReset`, `Restart`). An action is the whole
handler, up to the answer or the review: handlers run to completion and nothing preempts them.

- `view` is the screen with `viewfuncAccept` and `review_type`; `pending` the command that waits;
  `reply` the answer the last step sent (a history variable that the action properties read).
- A transaction is a sequence of pieces. `Tx` are the buffers `parser_parse` accepts; `Renders`
  says with which packet, or none, `parser_validate` can render every item; `ScriptOf` and
  `AccountsIn` are what the device compares. `tx_parse` keeps the order of the code: the flag
  `metadataInitialized` is reset only after the transaction parsed, and stays set if rendering
  fails later.
- Partial effects of failing commands are kept: a wrong length leaves the path alone, a path under
  a foreign prefix overwrites `hdPath` but not the options, and either leaves the metadata store
  of the session before.
- `UsbReset` keeps the RAM; `Restart` (power loss, leaving the app) keeps only the flash, and may
  come between the flash write of a slot and its reply.
- `view_error_show` is the navigation of a review into an item that cannot be rendered: the empty
  message outside expert mode, and an address review whose verdict a later command cleared.

Properties of `FlowApp`:

| property | says |
|---|---|
| `ReviewAnswersCommand` | a command waits exactly while a review of its own kind is on the screen |
| `MetadataShownIsPublished` | names and types shown come from a published packet for this very script |
| `BlindOnlyExpert` | a transaction without metadata, or a message too long to show, is reviewed in expert mode only |
| `WarningsCurrent` | no warning is shown exactly if the main slot, as it is now, has the signing path and algorithms and an account the transaction names |
| `AddressReviewConsistent` | key, path and address confirmed to a host belong together |
| `SlotReviewComplete` | what a slot review leaves out is empty |
| `ReviewIsStable` | nothing a review is rendered from changes while it is open |
| `SignsOnlyReviewed` | a signature answers a review of the signed bytes, of their kind |
| `SlotChangesAsShown` | the slot table changes as reviewed, and has changed when the host is told so |
| `EveryCommandAnswered` | every command is answered if the user keeps answering |
| `MetadataStoreRefined` | every history of commands is a legal history of `TxMetadata` |

### JsClient

`JsClient` EXTENDS `FlowApp`: the device of the model is the whole app. `call[c]` is the promise chain
of a caller: `idle`, `ready` to send its next command, `sent`, `settled` with a result; `exchange` is
the caller whose command the transport waits for.

- `Begin` are the checks before anything is sent (`serializePath`, `validateCryptoOptions`, slot index,
  account); `AfterVersion` those a sign call makes only after the version query, whose own failure is
  not looked at. `Commands` is what a request is cut into: the path, the message in
  chunks, and for a listed script its packet and lists; the last command has a type of its own. A
  script that is not listed gives no commands at all.
- `QueryVersion`, `Send`, `SendFails` continue a call; `Receive` is the loop's `then`. A busy
  transport refuses a second exchange at once (that is how the external
  `@ledgerhq/hw-transport` behaves as the client uses it). An exchange the device answers at once is
  one step; that the transport would refuse another caller within it is left out, and differs from
  the refusals modelled in when it comes only. A transport that has lost its device (`lost`) fails for good.
- `Decide` is the user's decision, which is the answer the exchange waits for; `Disconnect` a USB
  reset or a power loss; `Abandon` a page left between two commands; `AtDevice` the menu.
- `DeviceAssumption` says that whatever a sendable request is cut into is among the inputs the
  instance of `FlowApp` allows a host, so that the client is one of its hosts.

| property | says |
|---|---|
| `ExchangeMatchesDevice` | the device owes an answer exactly while one call waits for it, and to the command that call sent (a menu review, which answers nobody, is none) |
| `SuccessIsSigned` | a sign call reports success only with a signature of its own kind, never with the empty answer to a chunk in the middle |
| `SingleCommandsHonest` | a key, a slot read and a slot written are those asked for, whatever other callers do meanwhile (so it is checked with two) |
| `SignatureIsOfTheCall` | with one caller, a signature is over the message of the call, and with its key unless the menu loaded the main slot's between the chunks |
| `ReviewIsOfTheCall` | with one caller, what is on the screen are the bytes, the kind and the packet of the call |
| `EveryCallSettles` | every call ends |

With several callers a signature need not be over the message of its own call: chunks of two calls
mix, and the device signs what it collected and showed. Neither the code nor a document promises
otherwise, so the two properties are claimed of one caller.

### DerivationPath

A path is typed (`serializePath`), stored by `setSlot` if the device takes its prefix, read by
`getSlot`, printed (`printBIP44Path`), and the printed text may be typed again. `ShownNamesSlot` says
that a printed path names the slot's key again *unless* an item lies between the printer's threshold
(`0x8000000`, a zero short) and `HARDENED`; that part is the disagreement `doc_path`.
`MarkedIsHardened` leaves negative children out, for which the code does store another item than
the mark says. A child is a whole number or no number, however `Number()` reads the text (a
hexadecimal one and one with an exponent are their number, an empty one is 0); fractions and
infinities are left out.

### ReviewPaging

What `FlowApp` takes as one step, the user's decision, is here the way to it. A review is the
sequence of the page counts of its items; an item without pages (an empty message) is passed over.
`itemIdx`, `pageIdx`, `pageCount` and `itemCount` are the fields of `viewdata`; `h_paging_increase`
and `h_paging_decrease` return the indices they set, and `h_review_update_data` renders them: it
recognises the two decisions by the item count of the *last* render, caps the page 255 that going
back asks for, and loops over items without pages. The loop does not look for the decisions again,
so an empty last item is followed by the error screen. Going back asks for page 255 first, which a
printer checks against the characters it has: an argument of none prints forwards and fails
backwards. `ErrorOnlyIfEmpty` says that nothing else leads to the error screen. Modelled is the Nano S, the device whose code turns the pages itself, as the app is built for
it: no introduction page and no shortcut, so both buttons on an ordinary item do nothing.
`seen` is a history variable: `ApprovedOnlyWhenRead` says that approval follows a sight of every
page, whichever way the user went. The module assumes that no item has 255 pages and no review 254
items; the counters are bytes and do not wrap below that.

### TransactionReview and JsonTokens

What the pages of a transaction's review say. `parser_getItem` goes through the screens in the order
of `parser_getItem_internal`, counting an index of `int8_t` down from the wanted item, or from
the least value to count them all; it sticks there, so a transaction with more screens than it
can count has to be refused. Arguments are JSON documents: trees of values, nested `Nesting` deep at most
(`Value`). `JsonTokens` has the tokens `jsmn` makes of one (`TokensOf`: the token of a value, then
those of its parts, each with the offsets of its text), the walk by which `json_parser.c` finds its
way in them, and the matchers for typed, optional and array arguments. The two C functions that
count and fetch elements, and the two for keys, are one loop over offsets, which is `Walk`; for
keys it is ahead by one token, the value behind the key. The screens are printed from the tokens by
the types a packet declares, or as they are. `ContentAssumption` types what the parsers of the
transaction and of the packet yield, and `ReviewsOfTransactions` says that the reviews of
transactions are within the bounds of `ReviewPaging`: fewer than 254 items, fewer than 255 pages an
item.

`SignTransaction` is `tx_parse` with `parser_validate`, which counts and prints all items under the
verdict on the main slot left by an *earlier* command, followed by the review under the verdict of
this one. Its pages are those of `ReviewPaging`. `Facts` is the reference: the list of titles and
values a review should show, from the documents themselves, without walks or counters. `AcceptedAsTyped`: what
is accepted is exactly what can be shown as declared. `ShowsTheTransaction`: the screen reached by
the buttons says the fact of its place. `ValidatedIsShown`: a validated transaction fails to be shown
only for the two reasons the property names.

## Runs

| run | question | properties | bounds |
|---|---|---|---|
| `metadata` | is only a published packet accepted, every listed script too, and is every copy current? | `TypeOK`, `AcceptedIsPublished`, `ProofClimbsTree`, `ListedIsAccepted`, `CopyIsCurrent`, `EveryTemplateListed` | the real manifests, three trees and root: four levels, arity seven, every script; other callers send the payloads on one way, a forged packet, a list mixing real and forged digests and a packet too long, around three scripts |
| `packet` | can a packet be accepted for a script it does not list, or a generated one be misread? | `AcceptedIsListed`, `GeneratedIsReadBack` | hashes of 2 bytes, packets of up to 40, index that wraps at 41; every packet of up to six small bytes, sparse ones of every length with counts whose index wraps; templates of up to three arguments where two are allowed, strings of up to three characters where two are |
| `buffering` | does the pair of buffers implement one? | `ImplementsByteBuffer` | RAM 2, flash 5, chunks that fit both, one, none, and the empty chunk |
| `sign` | keys, addresses, messages and transactions, with metadata or without, menu and faults, on shared globals | `TypeOK`, `ReviewAnswersCommand`, `AddressReviewConsistent`, `MetadataShownIsPublished`, `BlindOnlyExpert`, `ReviewIsStable`, `SignsOnlyReviewed`, `MetadataStoreRefined` | two paths, a foreign one, a wrong length; four option values, one unsupported; three main slots; tree of one level, two packets, a forged one, one too long; two transactions, one a prefix of the other, the shorter also a message that can be shown; buffer of two pieces |
| `slots` | slot commands, reviews, power loss; is every command answered? | `WarningsCurrent`, `SlotReviewComplete`, `SlotChangesAsShown`, `EveryCommandAnswered` | two slots and an index out of range; four slot values; one key; one transaction and the empty message |
| `review` | does a review say what the transaction says, page by page? | `TypeOK`, `ApprovedOnlyWhenRead`, `ErrorOnlyIfEmpty`, `AcceptedAsTyped`, `ShowsTheTransaction`, `ValidatedIsShown`, `OnePageAtATime`, `ForwardDecides` | 21 transactions, three verdicts, both modes; documents nested up to 12 deep, of up to 40 tokens; index of five bits (up to 14 screens); texts of up to 90 characters on pages of 32; other reviews of up to two items of up to two pages |
| `client_one` | is what one caller gets what it asked for? | `ClientTypeOK`, `SignatureIsOfTheCall`, `ReviewIsOfTheCall`, `SingleCommandsHonest` | one caller, 14 requests of all kinds, refused ones among them; chunks of one piece; link and power failures, abandoned calls, the menu |
| `client_two` | do overlapping calls get their own answers, and does every call end? | `ExchangeMatchesDevice`, `SuccessIsSigned`, `SingleCommandsHonest`, `EveryCallSettles` | two callers; a message to sign, an address to show, a slot set, a slot read; the same faults |
| `derivation_path` | does a path survive typing, storing and printing? | `TypeOK`, `ShownNamesSlot`, `MarkedIsHardened` | items of six bits, `HARDENED` = 32, printed as hardened from 2; the last two items around every boundary; the prefixes of both networks and two others |

Why the bounds are enough. The `metadata` run has no bound but `Contended`: other callers interfere
with the calls of three of the scripts, and those of the others differ from them only in the node
they start from. `FlowApp` uses the store only through its operators, so one level does there. Two
pieces are enough for a chunk to be refused, for a prefix to be a transaction, and for a message to
be too long. Paths and options are only ever compared for equality, and two values with one refused
show both outcomes. Two slots show an update of the wrong one. In `packet` the limits keep the
order they have in the code (eight hashes of 32 bytes do not fit 255, twenty of two do not fit 40). In
`review` the counter overflows by arguments and by authorizers, as it does in the app: nine arrays
of twenty elements and sixteen authorizers are more than 127 screens and fewer than 256. In
`client_one` two chunks make a middle and a last one, and in `client_two` two callers suffice because
a transport refuses every caller but the one it works for. What one caller asks for there differs
from what another does (a key shown, a slot set, a slot read, a message signed), so an answer taken by
the wrong call shows. Transactions are left to `client_one`: that calls of several kinds overlap
without success taken for something else rests on the theorem `SuccessSigned`. In `derivation_path` only the position
of an item relative to 0, the threshold, `HARDENED` and twice `HARDENED` matters, and these keep
their ratios. Every run's state space is explored completely; no run has a constraint.
`sign` and `client_two` have a view without `reply` (`WithoutReply`, `CallsWithoutReply`): no action,
no invariant and no fairness condition reads the last answer, so states that differ in it alone have
the same steps. The action properties read it in the state after a step, and TLC evaluates them on
every step, those to known states included.
`packet` and `derivation_path` (and `doc_path`) turn deadlock checking off: their behaviours are
single computations or conversions that come to an end. Everywhere else a deadlock is an error.

## Where the code and its documents differ

Three differences are runs that are expected to be violated:

- `doc_restart`: `docs/APDUSPEC.md` says that a metadata packet restarts the Merkle proof (line 278;
  line 181 says the same). A packet that comes under a proof in progress is refused and the store
  wiped (`tx_metadata.c:67`). In the trace another caller's packet has begun such a proof,
  and the packet of the call that follows is lost.
- `doc_unlisted`: a comment in `js/src/signTransaction.js` (line 64) says that a transaction whose
  script is not in the index is sent without metadata. No chunks are made for it, nothing is sent,
  and the call ends with "Result not initialized".
- `doc_path`: a test expects `getSlot` to print the path of the slot's bytes. The printer's
  threshold for the mark of a hardened item is `0x8000000` instead of `0x80000000`
  (`serializePath.js:51`), so an item from 2^27 on that is not hardened is printed with a mark.

Others were met while reading; the models follow the code in each:

- `docs/APDUSPEC.md` says that an init packet clears all buffers; one whose path is refused leaves the metadata
  store (`app_helper.c:71`).
- It says that P2 of `INS_SIGN` is ignored; the code refuses some values. It counts the proof packets
  differently in two places, and gives `INS_SLOT_STATUS` another code than the app.
- A comment in `view.c` ties a non-zero review type to an APDU that waits; the menu's review has
  such a type and none (`view.c:91`, `menu_handler.c:35`).
- `signTransaction.js:27` calls the first chunk the path only. Of an empty message it is also the last
  one, and line 53 gives it that type: its bytes go out as the message.
- `index.js:150` and `index.d.ts:60` give `sign` different arguments.
- An optional array in a manifest uses a constant the generator does not define
  (`tree/index.js:132`), and throws. No manifest has one.
- `str_to_int8` passes over characters that are no digits (`zxformat.h:112`) when it is given no place
  for an error, as `parser_tx.c` does: the enumeration value "0x2" is read as 2.

## Fairness

`FairSpec` of `FlowApp` adds weak fairness of `UserAnswer`: nothing in the app times a review out, so
an answer depends on the user, and the property says that whatever else happens a user who goes on
pressing buttons is led to an answer. No fairness is assumed of the host, of the menu or of faults.

`ClientFairSpec` adds to this that a promise that is resolved continues (`Proceed`), which is what
a JavaScript event loop does. That the link breaks or a caller gives up is never assumed nor
excluded, and either ends the call it concerns.

`TransactionFairSpec` is a user who keeps pressing the right button. `ForwardDecides` has the
premise that the left button is at some time no longer pressed; a user who goes back and forth for
ever is not led to a decision.

## Proofs

The assumptions are the named `ASSUME`s of the modules; TLC evaluates all of them on every run of
the module. They type the constants, say that SHA-256 has no collisions among the payloads and maps
none to zeros, that the published tree is built as the generator builds it (`IsTree`, which is
proved of what the generator makes, see `GeneratedIsTree`), and, for the client,
that its requests are among the inputs of the device. Everything below is proved for all values of
the constants that satisfy them.

- `TxMetadataProofs`. The invariant is `ProofClimbsTree`: if the current digest is that of a tree
  node at the height the level counter claims, the proof began at a leaf. "The accepted packet is a
  leaf" alone is not inductive, because it says nothing before the last step.
- `MetadataSessionProofs`. A session with interference is a history of the store
  if the files are `WellFormed` (`SessionUsesStore`), so what is proved of the store holds in it, and
  every undisturbed call is accepted (`WellFormedIsAccepted`), by an invariant that ties the
  digest in the store to the number of chunks sent.
  The rest of the module is about the generator, for any manifests, arity and depth. `GeneratedIsTree`
  discharges the store's assumption on the tree: a list names only digests of nodes one level
  below, and the root's digest belongs to the top alone, because equal digests are of equal contents.
  `GeneratedIsAccepted` shows the generated files to be `WellFormed`: the leaf of packet i lies at the
  place its way counts to in base `Arity`, and no branch on the way to a packet with scripts is cut,
  because its digest would be the one of a branch without packets, and level by level so would be
  those below it, down to the packet, which is not the empty one. `OnlyTemplatesAccepted` and
  `OwnTemplateAccepted` hold under interference: whatever is accepted for a script is a packet made of
  two templates that lists it, and for a template's script the one made of its own two, since no two
  ids share a script and no id stands twice. `GeneratedListsTemplates` follows the sort by its ranks,
  which are a bijection; hence manifests with the same ids are paired id by id. These theorems have the
  premises of `GeneratedSession` for hypotheses (the last ones `ManifestsMatch` too), which TLC
  evaluates on the repository's manifests.
- `MetadataPacketProofs`. `PacketListsScript`: an accepted packet lists the script. The step that
  needs thought is the wrapped index: the last byte compared lies within the packet for an accepted
  one, since reading goes on behind the hashes, and an index below the packet's length has not
  wrapped. `PacketReadBack`: the packet of a template is read back or refused. A string that is read
  where one was written ends where it was written to end, or is longer than the device takes; an
  argument is then the strings and numbers it was made of, kind by kind, and the arguments follow by
  induction on how many of them are read. The generator's two hashes must fit the device
  (`TemplateAssumption`); nothing is asked of names, labels or the number of arguments.
- `BufferingProofs`. `OneBufferInUse` is inductive together with the types: exactly one half is in
  use, and the flash half is empty until the migration. Each step of the pair is then a step of
  `ByteBuffer` or a stutter. `TypeOK` and `OneBufferInUse` are the lemmas of this argument and are not
  checked by a run of their own.
- `FlowAppProofs`. `StoreStep` shows that every step of the app is a step of the store or leaves it
  alone, so `AcceptedIsPublished` holds in the app by refinement and is not proved twice. `IInv` adds
  to the types what is true of each kind of review while it is open: the transaction parses in the
  mode the session is in, a source of its names is either published metadata or expert mode, the
  warnings are those of path, slot and transaction, the slot screen leaves out only what is empty.
  It is inductive because a review of a host command blocks commands (`ReviewAnswersCommand`), and a
  review opened by the menu depends on nothing a property is about. The action properties follow
  from `IInv` one action at a time.
- `JsClientProofs`. `ClientUsesDevice`: every step of the client is a step of the app or leaves it
  alone, so `IInv` and every theorem about the app hold under the client. `ClientInv` adds what a call
  in progress has (`Calls`: it is at one of its commands, its result is typed, and success of a sign
  call carries a signature), `ExchangeMatchesDevice`, and `Waiting`: while a call waits, the review on
  the screen is of the command it has sent. Without `Waiting` the invariant is not inductive, because the
  answer the user's decision gives would be unknown. For `SingleCommands`, `SingleWaiting` says more
  of the single commands: the values under review are those of the request, kept since it was sent
  by the app's own `ReviewIsStable` argument. `SignatureOfTheCall` and `ReviewOfTheCall` are about sign
  calls of a single caller (`\A c, d \in Caller : c = d`). Their invariant says what each command
  has left on the device: after the first the key and nothing of an earlier message, after the i-th
  that much of this one, after a packet and i lists the listed packet, and while the last one waits
  the whole message under review. The menu may replace the key in between, which is why the property
  allows the main slot's. They need `PathIsNoContent`: the only command of an empty message is the
  path with the type of the last one, so the device appends the bytes of a path to what the
  session before has left there. That must not happen to be content. For messages to be
  displayed it cannot be, as a path holds bytes that are not printable; for a transaction it asks
  that no caller signs the empty one, or that no transaction ends like a path.
- `DerivationPathProofs`. A slot holds 32-bit items; what is printed names the slot's key again
  except at the items marked wrongly; a mark means hardened.
- `TransactionReviewProofs`, in four parts.
  - Tokens. Documents are nested by a function over depths and laid out by one over their parts,
    so what is true of all of them is shown by induction: a set of naturals that has 0 and with
    each the next one has all (`SetInduction`, from `WFMin` of the library, which takes no operator
    for a parameter). `Stands` says where in a list of tokens a value is, and that nothing behind
    it begins before its end; `PartStands`, that a part of a value that stands does so too. Hence
    a walk finds exactly the parts, or the keys, of the value it starts from, however deep each is
    nested (`ElementsOfArray`, `KeysOfObject`; the lemmas about the matchers rest on these).
  - Screens. A printer says the fact of its place or prints nothing, for each kind of argument,
    with and without packet, and for identities, fields and warnings. The countdown over the parts
    of a transaction is the list of them, or sticks.
  - Paging, of any review. `ReadSoFar`: nothing before the screen is unread. It is kept by every button
    because whatever is turned to (`Enters`) has nothing unread before it either, the last page of
    the item before included. `PageByPage` also needs `LastHasPages`: a decision is only reached behind
    a last item that has pages, so that going back from it turns one page. The loop of
    `h_review_update_data` over empty items ends in the error screen otherwise.
  - The review of a transaction is a review of the paging (`TransactionPages`), so the theorems of the
    third part hold of it. `TInv` adds that the items on the screen are those of the transaction in its
    present mode and under its present verdict, and that it can be shown: `parser_validate` ran under
    the verdict on an earlier transaction, but whether an argument can be printed depends on no
    verdict. `OnlyWhatCanBeShown`, `TransactionIsShown` and `ValidatedEndsWell` follow.

Only model-checked:

- liveness (`EveryCommandAnswered`, `EveryCallSettles`, `ForwardDecides`), which needs ENABLED;
- `CopyIsCurrent`, a statement about given files, which the run evaluates. That the files are current
  is a premise of the theorems about generated files, not a consequence of anything in the code;
- the three disagreements with the documents.

## Not modelled

- The RLP reader (`rlp.c`, `_read` in `parser_impl.c`): it keeps no state, and every value it may
  yield is an input of `TransactionReview`.
- JSON that is not well-formed. `jsmn`, built without its strict mode, takes some of it apart, and
  the walks may then pair keys and values otherwise.
- `jsmn` itself and the parts of `zxlib` the app does not reach, which are third-party code.
- Key derivation, hashing and ECDSA: system calls. `crypto.c` is modelled by which curves and
  hashes it takes.
- BLE, swap and the generic device-info command, which keep no state of the app.
- The screens of Stax and the flow of the X and S+ (`view_x.c`), which walk the same
  `h_review_update_data` under the operating system's control.
- Layout, titles cut to the width of their buffers, labels and names in packets of
  `MetadataTree` (they are in `MetadataPacket`), error texts of the client.

Assumptions about the operating system, which is not in the repository: one command is outstanding
at a time, a USB reset is reported only while one is, RAM is zero at start-up, and a flash write of
one slot is atomic.
