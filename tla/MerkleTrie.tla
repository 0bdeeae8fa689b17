----------------------------- MODULE MerkleTrie -----------------------------
(***************************************************************************)
(* The nodes inside the pages and their hashes: how an update goes up from *)
(* a leaf to the root (UpdatePage), how a page is rebuilt from its base    *)
(* page and delta items (UpdateDeltaItem), what a page loses when it is    *)
(* read back from a file, and the proofs the trie gives and checks.        *)
(*                                                                         *)
(* A key of two nibbles has its leaf in a page of its own, below two levels *)
(* of index nodes in the root page; a key of one nibble has it in the root *)
(* page, below one.  Longer keys repeat these two cases page by page.  Only *)
(* the latest version is kept here; when pages are frozen, checkpointed and *)
(* loaded is in VersionedPages.  What a leaf's location leads to is in     *)
(* ValueLog: a location is the version that wrote the value.               *)
(*                                                                         *)
(* A byte string is a sequence of tokens: the empty string is <<>>, SHA-1  *)
(* of a string is one token that holds it, so that different strings have  *)
(* different hashes and concatenation drops empty strings, as in the code; *)
(* a value is a token of another kind.                                     *)
(***************************************************************************)
EXTENDS Integers, Sequences, SequencesExt

CONSTANTS
  Nibble,      \* the hexadecimal digits in use, as numbers 0..15
  Key,         \* the keys: sequences of one or two nibbles
  Value,       \* the values callers put
  Padding,     \* the bytes HASH_SIZE (32) has beyond SHA_DIGEST_LENGTH (20)
  MaxVersion   \* BOUND: the versions committed

ASSUME MerkleAssumption ==
  /\ Nibble \subseteq 0..15 /\ Nibble # {}
  /\ Key \subseteq (Nibble \X Nibble) \cup {<<i>> : i \in Nibble}
  /\ \A k, l \in Key : k[1] = l[1] => Len(k) = Len(l)
  /\ MaxVersion \in Nat

VARIABLES
  version,  \* the last version, or the one being committed
  pending,  \* the keys of its batch that are still to be updated
  mem,      \* the pages in the cache of the trie, None for a new pid
  base,     \* the last base page of each pid, None before the first
  items,    \* the delta items of each pid since then
  values,   \* history: each key's value, <<>> if deleted, and its version, or 0
  filed     \* history: a page was read back from a file

merkleVars == <<version, pending, mem, base, items, values, filed>>

Empty == <<>>
None == [null |-> TRUE]  \* no page, no node

(* The strings that are values: those callers put, and that of a deletion. *)
Text(x) == <<[text |-> x]>>
Strings == {Text(x) : x \in Value} \cup {Empty}

(* A page id is the nibbles before the page. *)
Root == <<>>
Paged == {k \in Key : Len(k) = 2}
Pid == {Root} \cup Paged
Versions == 0..MaxVersion

-----------------------------------------------------------------------------
(* Nodes.                                                                  *)

HashFunction(string) == <<[sha1 |-> string]>>

(* The hashes of the 16 children of a node, one behind the other. *)
Concatenated(hashes) ==
  LET upTo[n \in 0..16] ==
        IF n = 0 THEN Empty
        ELSE IF n - 1 \in Nibble THEN upTo[n - 1] \o hashes[n - 1]
        ELSE upTo[n - 1]
  IN upTo[16]

IsLeaf(node) == "location" \in DOMAIN node
IndexNode == [version |-> 0, hash |-> Empty, bitmap |-> {},
              child_version |-> [i \in Nibble |-> 0],
              child_hash |-> [i \in Nibble |-> Empty]]
IndexPage == [node |-> IndexNode, child |-> [i \in Nibble |-> None]]

(* LeafNode::UpdateNode: a deleted leaf has no hash. *)
UpdateLeaf(v, value) ==
  [version |-> v, location |-> v,
   hash |-> IF value = Empty THEN Empty ELSE HashFunction(value)]

(* IndexNode::SetChild. *)
SetChild(node, i, v, hash) ==
  [node EXCEPT !.bitmap = @ \cup {i}, !.child_version[i] = v,
               !.child_hash[i] = hash]

(* IndexNode::UpdateNode. *)
MutantForgetsBit(node, v, i, hash) ==
  [node EXCEPT !.version = v, !.child_version[i] = v, !.child_hash[i] = hash,
               !.hash = HashFunction(Concatenated([node.child_hash EXCEPT ![i] = hash]))]
UpdateIndex(node, v, i, hash) ==
  LET filled == SetChild([node EXCEPT !.version = v], i, v, hash)
  IN [filled EXCEPT !.hash = HashFunction(Concatenated(filled.child_hash))]

(* DeltaPage::AddLeafNodeUpdate and AddIndexNodeUpdate: location_in_page   *)
(* is 0 for the root node of the page, else the nibble of a child and 1.   *)
LeafItem(at, leaf) == [at |-> at, version |-> leaf.version,
                       hash |-> leaf.hash, location |-> leaf.location]
IndexItem(at, node, i) ==
  [at |-> at, version |-> node.version, hash |-> node.hash, index |-> i,
   child_hash |-> node.child_hash[i]]

-----------------------------------------------------------------------------
(* Pages.                                                                  *)

(* BasePage::UpdatePage of the root page: a leaf below the first nibble    *)
(* takes the value, an index node there the hash of the child page; then   *)
(* the root node takes its hash.  The result is the page and the items the *)
(* update appends.                                                         *)
UpdatePage(page, v, key, value, child_hash) ==
  LET i == key[1]
      old == page.child[i]
      child == IF Len(key) = 1 THEN UpdateLeaf(v, value)
               ELSE UpdateIndex(IF old = None THEN IndexNode ELSE old,
                                v, key[2], child_hash)
      node == UpdateIndex(page.node, v, i, child.hash)
  IN [page |-> [node |-> node, child |-> [page.child EXCEPT ![i] = child]],
      items |-> <<IF Len(key) = 1 THEN LeafItem(i + 1, child)
                  ELSE IndexItem(i + 1, child, key[2]),
                  IndexItem(0, node, i)>>]

(* BasePage::UpdateDeltaItem. *)
MutantItemKeepsHash(node, item) ==
  SetChild([node EXCEPT !.version = item.version], item.index, item.version,
           item.child_hash)
ItemOnIndex(node, item) ==
  SetChild([node EXCEPT !.version = item.version, !.hash = item.hash],
           item.index, item.version, item.child_hash)
ItemOnLeaf(item) ==
  [version |-> item.version, location |-> item.location, hash |-> item.hash]
ItemOnChild(child, item) ==
  IF IsLeaf(item) THEN ItemOnLeaf(item)
  ELSE ItemOnIndex(IF child = None THEN IndexNode ELSE child, item)
UpdateDeltaItem(page, item) ==
  LET blank == IF page = None THEN IndexPage ELSE page
      i == item.at - 1
  IN IF item.at = 0 /\ IsLeaf(item) THEN ItemOnLeaf(item)
     ELSE IF item.at = 0
       THEN [blank EXCEPT !.node = ItemOnIndex(@, item)]
     ELSE [node |-> [blank.node EXCEPT !.bitmap = @ \cup {i}],
           child |-> [blank.child EXCEPT ![i] = ItemOnChild(@, item)]]

(* LoadPage: the delta items over the base page, oldest first. *)
Replayed(page, list) ==
  LET after[n \in 0..Len(list)] ==
        IF n = 0 THEN page ELSE UpdateDeltaItem(after[n - 1], list[n])
  IN after[Len(list)]

-----------------------------------------------------------------------------
(* What a page is after it was written to a file and read back.            *)

(* HASH_SIZE bytes are read where at most 20 were written.  The rest is    *)
(* what the buffer held, or lay behind the string: one unknown token.      *)
Padded(hash) ==
  IF hash # Empty /\ Last(hash) = Padding THEN hash ELSE hash \o <<Padding>>
MutantReadsNoLocation(node) ==
  IF IsLeaf(node) THEN [node EXCEPT !.hash = Padded(@), !.location = 0]
  ELSE [node EXCEPT !.hash = Padded(@),
                    !.child_hash = [i \in Nibble |->
                      IF i \in node.bitmap THEN Padded(@[i]) ELSE Empty]]
ReadNode(node) ==
  IF IsLeaf(node) THEN [node EXCEPT !.hash = Padded(@)]
  ELSE [node EXCEPT !.hash = Padded(@),
                    !.child_hash = [i \in Nibble |->
                      IF i \in node.bitmap THEN Padded(@[i]) ELSE Empty]]

(* IndexNode::DeserializeFrom of the root node reads version and hash of   *)
(* each child, then AddChild sets both to their defaults.                  *)
AddChildren(node) ==
  [node EXCEPT !.child_version = [i \in Nibble |-> 0],
               !.child_hash = [i \in Nibble |-> Empty]]

ReadPage(page) ==
  IF page = None THEN None
  ELSE IF IsLeaf(page) THEN ReadNode(page)
  ELSE [node |-> AddChildren(ReadNode(page.node)),
        child |-> [i \in Nibble |-> IF page.child[i] = None THEN None
                                    ELSE ReadNode(page.child[i])]]

ReadItem(item) ==
  IF IsLeaf(item) THEN [item EXCEPT !.hash = Padded(@)]
  ELSE [item EXCEPT !.hash = Padded(@), !.child_hash = Padded(@)]

-----------------------------------------------------------------------------
(* Commits, checkpoints, flushes and reloads.                              *)

MerkleInit ==
  /\ version = 0 /\ pending = {}
  /\ mem = [p \in Pid |-> None] /\ base = [p \in Pid |-> None]
  /\ items = [p \in Pid |-> Empty]
  /\ values = [k \in Key |-> [value |-> Empty, version |-> 0]]
  /\ filed = FALSE

(* Keys with the same first nibble have the same length. *)
KeyBefore(k, l) == k[1] < l[1] \/ (k[1] = l[1] /\ Len(k) = 2 /\ k[2] < l[2])

(* DMMTrie::CalcRootHash of a batch with these keys. *)
Commit(keys) ==
  /\ pending = {} /\ version < MaxVersion
  /\ version' = version + 1 /\ pending' = keys
  /\ UNCHANGED <<mem, base, items, values, filed>>

(* Its next key, in the order of the nibbles: the page of the key, if it   *)
(* has one, and the root page.  (The code is done with the pages below the *)
(* root page before it begins with that; nothing else reads them before.)  *)
UpdateKey(key, value) ==
  LET leaf == UpdateLeaf(version, value)
      update == UpdatePage(IF mem[Root] = None THEN IndexPage ELSE mem[Root],
                           version, key, value,
                           IF key \in Paged THEN leaf.hash ELSE Empty)
  IN /\ key \in pending /\ \A k \in pending \ {key} : KeyBefore(key, k)
     /\ pending' = pending \ {key}
     /\ mem' = [p \in Pid |-> IF p = Root THEN update.page
                              ELSE IF p = key THEN leaf ELSE mem[p]]
     /\ items' = [p \in Pid |->
          IF p = Root THEN items[p] \o update.items
          ELSE IF p = key THEN Append(items[p], LeafItem(0, leaf))
          ELSE items[p]]
     /\ values' = [values EXCEPT ![key] = [value |-> value, version |-> version]]
     /\ UNCHANGED <<version, base, filed>>

(* A base page is made of a page that has updates since the last one.      *)
Checkpoint(p) ==
  /\ pending = {} /\ items[p] # Empty
  /\ base' = [base EXCEPT ![p] = mem[p]]
  /\ items' = [items EXCEPT ![p] = Empty]
  /\ UNCHANGED <<version, pending, mem, values, filed>>

(* The pages of the memory buffer go to an index file. *)
Flush ==
  /\ pending = {}
  /\ base' = [p \in Pid |-> ReadPage(base[p])]
  /\ items' = [p \in Pid |-> [n \in DOMAIN items[p] |-> ReadItem(items[p][n])]]
  /\ filed' = TRUE
  /\ UNCHANGED <<version, pending, mem, values>>

(* A page left the cache and is loaded again. *)
Reload(p) ==
  /\ pending = {} /\ mem[p] # None
  /\ mem' = [mem EXCEPT ![p] = Replayed(base[p], items[p])]
  /\ UNCHANGED <<version, pending, base, items, values, filed>>

MerkleNext ==
  \/ \E keys \in SUBSET Key \ {{}} : Commit(keys)
  \/ \E key \in Key, value \in Strings : UpdateKey(key, value)
  \/ \E p \in Pid : Checkpoint(p) \/ Reload(p)
  \/ Flush
MerkleSpec == MerkleInit /\ [][MerkleNext]_merkleVars

-----------------------------------------------------------------------------
(* Proofs.                                                                 *)

(* DMMTrie::GetPage of a page below the root.  Only its last version is    *)
(* kept here: an older one is not looked up, a newer one does not exist.   *)
GetPage(p, v) == IF mem[p] # None /\ mem[p].version = v THEN mem[p] ELSE None

(* The leaf of a key, None if there is none, through the versions that the *)
(* nodes above it keep (DMMTrie::Get and GetProof).                        *)
Leaf(key) ==
  LET root == mem[Root]
      child == root.child[key[1]]
  IN IF root = None \/ key[1] \notin root.node.bitmap THEN None
     ELSE IF Len(key) = 1 THEN child
     ELSE GetPage(key, child.child_version[key[2]])

(* VDLS::ReadValue: a value is where the version that wrote it put it, and *)
(* nothing like one elsewhere.                                             *)
ReadValue(key, location) ==
  IF location = values[key].version THEN values[key].value ELSE <<None>>

Get(key) == IF Leaf(key) = None THEN Empty ELSE ReadValue(key, Leaf(key).location)

GetRootHash == mem[Root].node.hash

(* IndexNode::GetNodeProof. *)
GetNodeProof(node, i) == [index |-> i, sibling_hash |-> node.child_hash]

(* DMMTrie::GetProof: from the leaf up, or what was gathered from the root *)
(* down when the key is not found.                                         *)
GetProof(key) ==
  LET root == mem[Root]
      first == GetNodeProof(root.node, key[1])
      gathered ==
        IF root = None \/ key[1] \notin root.node.bitmap THEN <<>>
        ELSE IF Len(key) = 1 THEN <<first>>
        ELSE <<first, GetNodeProof(root.child[key[1]], key[2])>>
  IN [value |-> Get(key),
      proofs |-> IF Leaf(key) = None THEN gathered ELSE Reverse(gathered)]

(* One level of DMMTrie::Verify and of LetusProof. *)
MutantTrustsSibling(hash, proof) == HashFunction(Concatenated(proof.sibling_hash))
HashUp(hash, proof) ==
  HashFunction(Concatenated([proof.sibling_hash EXCEPT ![proof.index] = hash]))

(* The hashes on the way up from one, through the steps of a proof. *)
HashAfter(hash, proofs, steps) ==
  LET after[n \in 0..Len(proofs)] ==
        IF n = 0 THEN hash ELSE HashUp(after[n - 1], proofs[n])
  IN after[steps]

(* DMMTrie::Verify of a value. *)
Verify(value, root_hash, proofs) ==
  HashAfter(HashFunction(value), proofs, Len(proofs)) = root_hash

(* LetusProof gives, with each step of the proof, the hash of the node     *)
(* below it.                                                               *)
LetusProof(key) ==
  LET proof == GetProof(key)
  IN [n \in DOMAIN proof.proofs |->
        HashAfter(HashFunction(proof.value), proof.proofs, n - 1)]

(* DMMTrie::RecursiveVerify names a child page by to_string of its nibbles *)
(* and looks it up at the version of the root; a leaf of the root page is  *)
(* hashed from its value, a child node of it from the pages below.         *)
VerifiedPage(key) ==
  LET page == GetPage(key, version)
  IN IF key[1] > 9 \/ key[2] > 9 \/ page = None THEN Empty
     ELSE HashFunction(ReadValue(key, page.location))
RecursiveVerify ==
  LET child(i) == mem[Root].child[i]
      below(i) == [j \in Nibble |->
        IF j \in child(i).bitmap THEN VerifiedPage(<<i, j>>) ELSE Empty]
  IN HashFunction(Concatenated([i \in Nibble |->
       IF i \notin mem[Root].node.bitmap THEN Empty
       ELSE IF IsLeaf(child(i)) THEN HashFunction(ReadValue(<<i>>, child(i).location))
       ELSE HashFunction(Concatenated(below(i)))]))

-----------------------------------------------------------------------------
(* Properties.                                                             *)

(* A node of no version later than v whose bits are those of its children. *)
IndexNodeOK(node, children, v) ==
  /\ node.version \in 0..v /\ node.bitmap = children
  /\ \A i \in Nibble : node.child_version[i] \in 0..v
LeafOK(leaf, v) == leaf.version \in 0..v /\ leaf.location \in 0..v

(* Every page in the cache is well formed: the nodes and leaves are of     *)
(* versions committed, and the bits of a root node are those of the nodes  *)
(* it has, which GetChild would dereference (DMMTrie.cpp:361-372).         *)
MerkleTypeOK ==
  /\ version \in Versions /\ filed \in BOOLEAN
  /\ \A k \in Key : values[k].version \in 0..version
  /\ \A k \in Paged : mem[k] # None => LeafOK(mem[k], version)
  /\ mem[Root] # None =>
       LET page == mem[Root]
           present == {i \in Nibble : page.child[i] # None}
       IN /\ IndexNodeOK(page.node, present, version)
          /\ \A i \in present :
               IF IsLeaf(page.child[i]) THEN LeafOK(page.child[i], version)
               ELSE IndexNodeOK(page.child[i],
                      {j \in Nibble : <<i, j>> \in Paged /\ mem[<<i, j>>] # None},
                      version)

(* Whatever was checkpointed, flushed to a file, read back and rebuilt,    *)
(* each key leads to the leaf whose location holds its value; so also      *)
(* after the hashes and the child versions of root nodes were lost.        *)
PathsLeadToValues == \A k \in Key : Get(k) = values[k].value

(* As long as no page was read from a file, the base page and the delta    *)
(* items of a page give back the page, hashes included.                    *)
RebuiltExact == ~filed => \A p \in Pid : mem[p] = Replayed(base[p], items[p])

(* As long as no page was read from a file, the proof of a key that has a  *)
(* value verifies it against the root hash, and the hashes LetusProof      *)
(* gives with it are those of the leaf and of the nodes on its path.       *)
ProofVerifies ==
  ~filed => \A k \in Key : values[k].value # Empty =>
    /\ Verify(values[k].value, GetRootHash, GetProof(k).proofs)
    /\ LetusProof(k) =
         IF Len(k) = 1 THEN <<Leaf(k).hash>>
         ELSE <<Leaf(k).hash, mem[Root].child[k[1]].hash>>

(* As long as no page was read from a file, nothing but the value of a key *)
(* verifies with the proof given for it, and nothing at all for a key that *)
(* was deleted; also when the key is not found.  (A root node read from a  *)
(* file has lost the hashes of its children, and as the hash of a node     *)
(* does not tell where a child is, a deleted key may then verify with what *)
(* another one holds.)                                                     *)
VerifySound ==
  (~filed /\ mem[Root] # None) =>
    \A k \in Key : \A value \in Strings :
      Verify(value, GetRootHash, GetProof(k).proofs) =>
        \/ value = values[k].value /\ value # Empty
        \/ value = Empty /\ values[k].version = 0

(* The hash of the whole trie computed from its values is the root hash    *)
(* when no key was deleted, no nibble is above 9, every page was written   *)
(* at this version and none was read from a file: what is left of the      *)
(* check of a version (DMMTrie.cpp:1384-1429).                             *)
TreeVerifies ==
  (/\ mem[Root] # None /\ ~filed
   /\ \A k \in Key : values[k].version > 0 =>
        /\ values[k].value # Empty
        /\ k \in Paged => k[1] < 10 /\ k[2] < 10 /\ values[k].version = version) =>
    RecursiveVerify = GetRootHash
=============================================================================
