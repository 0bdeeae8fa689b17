---------------------------- MODULE LetusStorage ----------------------------
(***************************************************************************)
(* The Go storage over the trie (gowrapper/letus): it turns the block      *)
(* numbers of its caller into versions of the trie, so that what is put    *)
(* goes to the next version and what is read comes from the last one       *)
(* written.  A block number is one less than its version.                  *)
(*                                                                         *)
(* The caller follows gowrapper/db-interface.md: puts and deletes, Hash,   *)
(* Write, then perhaps Commit; gets, iterators and reverts at any time.    *)
(***************************************************************************)
EXTENDS TrieInterface

ASSUME StorageAssumption ==  \* the iterator compares keys as decimal numbers
  UserKey \subseteq Nat

VARIABLES
  stable_seq_no,    \* LetusKVStroage: the version reads come from, 0 for none
  current_seq_no,   \* LetusKVStroage: the version puts go to
  len,              \* LetusBatch: puts and deletes since Release
  got,              \* what the last Get answered, until its caller takes it
  iter,             \* LetusLedgerIterator, what Next delivered and last returned
  step,             \* where the caller is in a block: "gather", "hashed"
  reverted,         \* history: "no" revert yet; "clean" while nothing followed
                    \* the last one; "dirty" once a block was begun after one
  ledger,           \* history: the map the last block written left
  pending           \* history: the map once the running block is written

numbers == <<stable_seq_no, current_seq_no>>
history == <<reverted, ledger, pending>>
storageVars == <<numbers, len, trie, got, iter, step, history>>

NoIter == [current |-> None]

-----------------------------------------------------------------------------
(* LetusKVStroage and LetusBatch.                                          *)

StorageInit ==
  /\ stable_seq_no = 0 /\ current_seq_no = 1 /\ len = 0
  /\ TrieInit
  /\ got = None /\ iter = NoIter
  /\ step = "gather" /\ reverted = "no"
  /\ ledger = EmptyMap /\ pending = EmptyMap

Idle == got = None
Gathering == Idle /\ step = "gather" /\ current_seq_no \in Versions

(* A block goes on after a revert: its puts may be refused.                *)
Onward == IF reverted = "no" THEN "no" ELSE "dirty"

(* LetusBatch::Put and Delete, over the ones of the storage.  BOUND: len   *)
(* is counted up to 1, as its caller tells only empty batches apart.       *)
InBatch(k, val) ==
  /\ Gathering
  /\ len' = 1
  /\ pending' = [pending EXCEPT ![k] = val]
  /\ reverted' = Onward
  /\ UNCHANGED <<numbers, got, iter, step, ledger>>
Put(k, val) == InBatch(k, val) /\ TriePut(current_seq_no, k, val)
Delete(k) == InBatch(k, NoValue) /\ TrieDelete(current_seq_no, k)

MutantGetSeqNo == current_seq_no
(* GetSeqNo: the number of the block being gathered. *)
GetSeqNo == current_seq_no - 1

(* LetusBatch::Hash of a block number, and CalcRootHash below it. *)
MutantHashVersion(seq) == seq
HashVersion(seq) == seq + 1
Hash ==
  /\ Gathering
  /\ TrieCommit(HashVersion(GetSeqNo))
  /\ step' = "hashed"
  /\ reverted' = Onward
  /\ UNCHANGED <<numbers, len, got, iter, ledger, pending>>

(* The numbers after version v was written, or reverted to. *)
MoveTo(v) == stable_seq_no' = v /\ current_seq_no' = v + 1

(* LetusBatch::Write, then Release.  Flush moves pages, not their content. *)
Write ==
  /\ Idle /\ step = "hashed"
  /\ MoveTo(HashVersion(GetSeqNo))
  /\ len' = 0
  /\ step' = "gather"
  /\ ledger' = pending
  /\ UNCHANGED <<trie, got, iter, reverted, pending>>

(* LetusKVStroage::Get: before the first Write it reads version 1. *)
MutantReadsCurrent == current_seq_no
ReadVersion == IF stable_seq_no # 0 THEN stable_seq_no ELSE 1
Get(k) ==
  /\ Idle
  /\ \E val \in TrieGet(ReadVersion, k) :
       got' = [key |-> k, version |-> ReadVersion, value |-> val]
  /\ UNCHANGED <<numbers, len, trie, iter, step, history>>

Take ==
  /\ got # None
  /\ got' = None
  /\ UNCHANGED <<numbers, len, trie, iter, step, history>>

(* LetusKVStroage::Revert to a block written before.  Only the numbers go  *)
(* back: DMMTrie::Revert does nothing.  BOUND: none after a dirty one.     *)
Revert(seq) ==
  /\ Idle /\ step = "gather" /\ reverted # "dirty"
  /\ seq + 1 \in Committed
  /\ MoveTo(seq + 1)
  /\ reverted' = IF len = 0 THEN "clean" ELSE "dirty"
  /\ ledger' = snapshots[seq + 1] /\ pending' = snapshots[seq + 1]
  /\ UNCHANGED <<len, trie, got, iter, step>>

-----------------------------------------------------------------------------
(* LetusLedgerIterator, over keys compared as numbers.                     *)

NewIterator(begin, end) ==
  /\ Idle /\ iter = NoIter
  /\ iter' = [current |-> begin, begin |-> begin, end |-> end, seen |-> {},
              answer |-> TRUE]
  /\ UNCHANGED <<numbers, len, trie, got, step, history>>

(* The keys a scan delivered: of interest until it seeks. *)
Delivered(it) ==
  IF it.seen = None THEN None ELSE it.seen \cup {it.current + 1}

(* Next moves on before its caller reads, up to and including the end. *)
MutantAtEnd(it) == it.current <= it.end
BeforeEnd(it) == it.current < it.end
Next ==
  /\ Idle /\ iter # NoIter
  /\ iter' = IF BeforeEnd(iter)
               THEN [iter EXCEPT !.current = @ + 1, !.answer = TRUE,
                                 !.seen = Delivered(iter)]
               ELSE [iter EXCEPT !.answer = FALSE]
  /\ UNCHANGED <<numbers, len, trie, got, step, history>>

(* Seek refuses a key before the end and one after the begin, and so every *)
(* key but those from the end up to a begin that is not before it.         *)
Seekable(it, key) == key >= it.end /\ key <= it.begin
Seek(key) ==
  /\ Idle /\ iter # NoIter
  /\ iter' = IF Seekable(iter, key)
               THEN [iter EXCEPT !.current = key, !.seen = None] ELSE iter
  /\ UNCHANGED <<numbers, len, trie, got, step, history>>

(* Value of the iterator is a Get, at the version stable by then. *)
IteratorValue == iter # NoIter /\ iter.current \in UserKey /\ Get(iter.current)

Release ==
  /\ Idle /\ iter # NoIter
  /\ iter' = NoIter
  /\ UNCHANGED <<numbers, len, trie, got, step, history>>
-----------------------------------------------------------------------------
StorageNext ==
  \/ \E k \in UserKey :
       \/ \E val \in Value : Put(k, val)
       \/ Delete(k)
       \/ Get(k)
       \/ Seek(k)
       \/ \E end \in UserKey : NewIterator(k, end)
  \/ Hash
  \/ Write
  \/ \E seq \in 0..(MaxVersion - 1) : Revert(seq)
  \/ Take
  \/ Next
  \/ IteratorValue
  \/ Release

StorageSpec == StorageInit /\ [][StorageNext]_storageVars

-----------------------------------------------------------------------------
(* Properties.                                                             *)

(* The shape of the state; the trie is never run past the block that the   *)
(* storage gathers (kvstorage.go:50-105).                                  *)
StorageTypeOK ==
  /\ stable_seq_no \in Versions /\ current_seq_no \in 1..(MaxVersion + 1)
  /\ len \in {0, 1}
  /\ current_version \in Versions
  /\ put_cache \in [UserKey -> Value \cup {NoValue, None}]
  /\ snapshots \in [Versions -> [UserKey -> Value \cup {NoValue}] \cup {None}]
  /\ horizon \in 0..(MaxVersion + 1)
  /\ step \in {"gather", "hashed"} /\ reverted \in {"no", "clean", "dirty"}
  /\ ledger \in [UserKey -> Value \cup {NoValue}]
  /\ pending \in [UserKey -> Value \cup {NoValue}]

(* A Get answers from the last block written, or the one reverted to: not  *)
(* from the puts of the running block, and with every put of the blocks    *)
(* before, through whatever the versions below them are.  It is so while   *)
(* nothing was put after a revert, when that block put or deleted a key;   *)
(* after a revert only while the trie can still read its version, which    *)
(* whoever does not revert need not ask: no checkpoint is above the stable *)
(* version then (kvstorage.go:60-77).                                      *)
ReadsLastBlock ==
  (/\ got # None
   /\ step = "gather" /\ reverted # "dirty"
   /\ stable_seq_no \in Committed
   /\ (reverted = "no" \/ stable_seq_no >= horizon)) =>
     got.value = ledger[got.key]

(* The calls that reach the trie are calls the versioned map promises to   *)
(* answer, until something is put after a revert: one version per block,   *)
(* rising, committed once, under the version its puts ran with.            *)
Map == INSTANCE VersionedMap WITH
  current <- current_version,
  batch <- put_cache,
  FirstVersion <- 1,
  reply <- got,
  Answers <- Value \cup {NoValue}
CallsAsPromised == [][Map!MapNext \/ reverted' = "dirty"]_(Map!mapVars)

(* No put of a caller that never reverts is lost: what it put is in the    *)
(* batch of the trie until it is committed, under the running block.       *)
PutsKept ==
  reverted = "no" =>
    /\ pending = Over(IF step = "gather" THEN ledger ELSE Newest, put_cache)
    /\ current_version <= current_seq_no

(* A scan by Next alone delivers the keys after its first, once each, up   *)
(* to its last one (iterator.go:90-97).                                    *)
ScanComplete ==
  (iter # NoIter /\ iter.seen # None) =>
    /\ iter.seen = (iter.begin + 1)..iter.current
    /\ iter.answer = FALSE => (iter.begin + 1)..iter.end \subseteq iter.seen
    /\ iter.begin <= iter.end => iter.current <= iter.end
=============================================================================
