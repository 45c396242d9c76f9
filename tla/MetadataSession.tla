-------------------------- MODULE MetadataSession --------------------------
(***************************************************************************)
(* The metadata part of a sign call between the client and the store of    *)
(* TxMetadata: the client looks a script up in its copy of the published   *)
(* tree (js/src/signTransaction.js) and sends the packet and the four      *)
(* lists on the way to the root, as long as every chunk is answered well.  *)
(* The copies are files that are generated, or copied by hand as           *)
(* transaction_metadata/usage.md describes, and the root that ends a proof *)
(* was typed into tx_metadata.c.  A call holds no lock: between two of its *)
(* chunks the device may take those of another caller.                     *)
(***************************************************************************)
EXTENDS TxMetadata, MerkleNodes

CONSTANTS
  Copies,      (* name -> the tree and index of a file                     *)
  Generated,   (* what the generator makes of the manifests                *)
  Templates,   (* the templates of both manifests                          *)
  Foreign,     (* payloads that other callers send                         *)
  Contended,   (* bound: the scripts between whose chunks they are sent    *)
  Nothing

VARIABLES
  copy,    (* the file the client was built with                           *)
  script,  (* the script of the transaction, Nothing before the first one  *)
  sent,    (* how many of the chunks of the call the client has sent       *)
  good,    (* the last of them was answered well                           *)
  alone    (* no other caller has come between since the call began        *)

sessionVars == <<copy, script, sent, good, alone>>

ASSUME ForeignAssumption == Foreign \subseteq Payload

-----------------------------------------------------------------------------
Along(tree, way, k) ==
  LET down[i \in 0..k] ==
        IF i = 0 THEN tree ELSE down[i-1].children[way[i] + 1]
  IN  down[k]

(* Mutant: the lists go out from the root down.                            *)
MetadataOf_TopDown(tree, way) ==
  [k \in 1..Levels+1 |->
     Content(Along(tree, way, IF k = 1 THEN Levels ELSE k - 2))]

(* The packet, then the lists of digests from the lowest to the root's.    *)
MetadataOf(tree, way) ==
  [k \in 1..Levels+1 |-> Content(Along(tree, way, Levels + 1 - k))]

Chunks(c, s) == MetadataOf(Copies[c].tree, Copies[c].index[s])

-----------------------------------------------------------------------------
SessionInit ==
  /\ Init
  /\ copy \in DOMAIN Copies
  /\ script = Nothing
  /\ sent = 0
  /\ good = TRUE
  /\ alone = TRUE

(* A sign call for a listed script; its first chunk wipes the store,       *)
(* whatever an earlier call has left there.                                *)
Sign(s) ==
  /\ s \in DOMAIN Copies[copy].index
  /\ script' = s
  /\ sent' = 0
  /\ good' = TRUE
  /\ alone' = TRUE
  /\ InitChunk
  /\ UNCHANGED copy

(* Each chunk but the first needs a good answer to the one before it.      *)
Send ==
  /\ script # Nothing
  /\ good
  /\ sent < Levels + 1
  /\ LET p == Chunks(copy, script)[sent + 1]
     IN  \/ sent = 0 /\ MetadataChunk(p) /\ good' = Storable(p)
         \/ sent # 0 /\ ProofChunk(p)    /\ good' = ExtendsProof(p)
  /\ sent' = sent + 1
  /\ UNCHANGED <<copy, script, alone>>

(* A chunk of another caller, in the order and of the content it likes.    *)
OtherCaller ==
  /\ script \in Contended \cup {Nothing}
  /\ InitChunk \/ \E p \in Foreign : MetadataChunk(p) \/ ProofChunk(p)
  /\ alone' = FALSE
  /\ UNCHANGED <<copy, script, sent, good>>

SessionNext == Send \/ OtherCaller \/ \E s \in Script : Sign(s)

SessionSpec == SessionInit /\ [][SessionNext]_<<vars, sessionVars>>

-----------------------------------------------------------------------------
(* If nobody comes between, every chunk of a listed script is taken, and   *)
(* after the last one the device displays the transaction with the packet  *)
(* of that script: in each of the copies (usage.md: the root hash should   *)
(* be the same in all files) the proof of every script ends at the root    *)
(* compiled into tx_metadata.c.                                            *)
ListedIsAccepted ==
  script # Nothing /\ alone => good /\ (sent = Levels + 1 => parseTxMetadata(script))

(* A copy never changes: it is looked at before the first call.            *)
Loaded == script = Nothing

(* The client's copy is what tree/index.js makes of the manifests of       *)
(* today: neither the tree nor the index is left over from an older one,   *)
(* as far as scripts, argument kinds and their order tell.  Packets of     *)
(* MetadataTree hold nothing else, so a copy stale only in the name of a   *)
(* template, in the label of an argument or in the text of its type is not *)
(* noticed.                                                                *)
CopyIsCurrent ==
  Loaded => /\ Copies[copy].tree = Generated.tree
            /\ Copies[copy].index = Generated.index

(* Every template can be signed with metadata on its network, and the user *)
(* sees its own arguments: no template is shadowed by another with the     *)
(* same script, and the two networks' manifests pair up by id.             *)
EveryTemplateListed ==
  Loaded => \A t \in Templates :
    /\ t.script \in DOMAIN Copies[copy].index
    /\ LET packet == Content(Along(Copies[copy].tree, Copies[copy].index[t.script], Levels))
       IN  \A u \in Templates :
             u.id = t.id => /\ u.script \in Scripts(packet)
                            /\ Len(packet[3]) = Len(u.arguments)

(* docs/APDUSPEC.md:278, of the metadata payload: "Loads metadata,         *)
(* restarts Merkle tree proof of the metadata."  So would the packet of a  *)
(* call, whatever proof another caller's packet has begun since its first  *)
(* chunk.                                                                  *)
DocPacketRestartsProof ==
  [][Send /\ sent = 0 /\ Chunks(copy, script)[1] \in Fits =>
       metadata' = Chunks(copy, script)[1] /\ level' = 1]_<<vars, sessionVars>>

(* The files are consistent with the root: what ListedIsAccepted needs.    *)
WellFormed ==
  \A c \in DOMAIN Copies : \A s \in DOMAIN Copies[c].index :
    LET chunks == Chunks(c, s)
    IN  /\ chunks \in [1..Levels+1 -> Payload]
        /\ chunks[1] \in Fits
        /\ s \in Covers[chunks[1]]
        /\ \A k \in 1..Levels : /\ chunks[k+1] \in HashList
                                /\ Sha256[chunks[k]] \in WordsOf[chunks[k+1]]
        /\ Sha256[chunks[Levels+1]] = MerkleTreeRoot
=============================================================================
