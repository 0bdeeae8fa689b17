# A TLA+ verification of LETUS

LETUS is a versioned, Merkle-authenticated key-value store for ledgers. A commit
of version `v` stores a batch of key updates and yields a root hash; a read names
a version and gets the value the key had then, with a proof. This directory
models the code under `src/` and checks it: TLA+ modules, TLC configurations,
and TLAPS proofs. `PROJECT.json` maps every definition to the lines it models.

Paths below are relative to `src/`.

## 1. Inventory

Everything runs in one thread: one call at a time, no locks, no callbacks, no
messages. What is hard is not interleaving but *long sequences of legal calls*:
a page is rebuilt at read time from pieces written by many earlier commits, kept
in four caches that drop things at different moments.

| Component | State | Operations | What makes it correct |
|---|---|---|---|
| **Trie front** `DMMTrie` (`src/DMMTrie.cpp`) | `put_cache_`, `current_version_` | `Put`, `Delete`, `Get`, `CalcRootHash`, `GetProof`, `Verify`, `Revert` | `Get(v, k)` is the last value put for `k` at or below `v`; proofs verify against the root hash of `v` |
| **Page layer** `DMMTrie` + `BasePage`/`DeltaPage` + `LSVPS::LoadPage` | `lru_cache_`, `page_versions_`, `deltapage_versions_`, `page_cache_` | the page loop of `CalcRootHash`, `GetPage`, `LoadPage`, `UpdatePage` | a page rebuilt at `v` is the page as commit `v` left it; a cached page and a rebuilt one agree; replay is bounded |
| **Page table** `LSVPS::MemIndexTable` and index files (`src/LSVPS.cpp`) | `buffer_`, `index_files_` | `StorePage`, `pageLookup`, `Flush` | every stored page is found under its key, from memory or from whichever file holds it |
| **Active delta pages** `LSVPS::ActiveDeltaPageCache` | `page_pool_`, `free_pages_`, `cache_`, `pid_to_last_pagekey_`, `pid_to_offset_`, `delta_cache.dat` | `Get`, `Store`, `evictIfNeeded`, `FlushToDisk`, `readIndexBlock` | a pool slot belongs to one page; the chain head of a page survives eviction and restart |
| **Value log** `VDLS` (`lib/VDLS.hpp`) | current file id and offset, the mapped write and read file | `WriteValue`, `ReadValue` | a location returned by a write reads back that value for ever |
| **C API** (`src/Letus.cpp`) | one trie, one page store, one value log | thin wrappers; `LetusProof` | returns what the trie returns; the hashes of a proof are those of the nodes |
| **Go storage** `LetusKVStroage` (`gowrapper/letus`) | `stable_seq_no`, `current_seq_no`, the batch, iterators | `Put`, `Get`, `Delete`, `Hash`, `Write`, `Revert`, `Next`, `Seek` | reads see the last block written; puts go to the next one and none is lost; an iterator walks its range once |
| **Workloads** (`workload/`) | the version a program counts, `KVBuffer` | seventeen programs; `MyDatabase` | their expectations (`wrong_cnt`, asserts, the buffer) follow from the store's promise; their calls are ones it promises to answer |

How they interact, from top to bottom: the Go storage calls the C API, which
calls the trie. `CalcRootHash` asks the page layer for the newest version of every
page on a changed path, asks the active delta page cache for its delta page, and
asks the value log for a location for each value; it then hands all new pages to the
page table. `Get` walks page versions from the root down; each page comes from
`lru_cache_` or from `LoadPage`, which follows `last_pagekey_` links from an active
or frozen delta page down to a base page in the page table and replays the
delta pages on top.

### Where it is hard

1. A page version is cut into *delta pages*, *base pages* (checkpoints) and an
   *active delta page*, and three rules decide which is written: a batch larger than
   half a delta page (`DMMTrie.cpp:1204`), a full delta page (`968`), a checkpoint
   every `Tb` updates (`982`). The three can fall together in one commit.
2. The same `BasePage` object is cached under version `u` and then mutated in place
   by commit `v` before being re-filed (`UpdatePageKey`).
3. A read of an old version starts in the middle of the chain (`LSVPS.cpp:274`).
4. The pool of active delta pages drops the content of a victim without writing it
   (`LSVPS.cpp:747`), which is right only if a victim never has content.
5. Index files are searched by key interval, the first that matches wins.
6. Nothing but the active delta cache and the files themselves survives a restart, and
   `delta_cache.dat` is rewritten in place by steps any of which may be the last.
7. A page read back from a file is not the page that was written: hashes grow
   (`HASH_SIZE` 32 for 20 bytes) and a root node forgets its children (`DMMTrie.cpp:323`).
8. A `Put` of an outdated version is dropped without an error, so that callers must
   count versions exactly as the trie does: the Go storage and every program do it in
   their own way.

## 2. Plan

Modules in order of importance. A component's module is checked through an `MC`
module with one `.cfg` per question, and its theorems live in a `_proofs` module.

| Module | Status | Models |
|---|---|---|
| `VersionedPages` | done | the page layer, one action per step of a call; uses the page table and the pool as functions |
| `PageMap` | done | abstract: a map from page keys to pages that only grows |
| `PageTable` | done | `MemIndexTable`, index files, `pageLookup`; implements `PageMap`, which is how `VersionedPages` uses `stored` |
| `ActivePages` | done | abstract: one active delta page per pid; which is how `VersionedPages` uses `active` |
| `ActiveDeltaPages` | done | the pool, the free queue, the chain heads; implements `ActivePages` |
| `ValueLog` | done | `VDLS`: rollover, remapping, reopening |
| `VersionedMap` | done | abstract: a map whose committed versions stay readable from a horizon on |
| `DMMTrie` | done | `Put`/`Delete`/`Get`/`CalcRootHash` over the page layer, implementing `VersionedMap` |
| `TrieInterface` | done | the trie as its callers meet it: `VersionedMap`, and what the code does when a caller leaves that promise |
| `LetusStorage` | done | the Go storage over `TrieInterface`: numbers, batch, iterator, `Revert` |
| `MerkleTrie` | done | nodes and hashes: `UpdatePage`, `UpdateDeltaItem`, (de)serialization, `GetProof`, `Verify`, `RecursiveVerify`, `LetusProof` |
| `DeltaCacheFile` | done | `delta_cache.dat` across flushes, stops and sessions |
| `Benchmarks`, `Workloads` | done | the programs of `workload/exes` as plans, and their runs over `TrieInterface` |

The theorems follow the same order: the page layer from its types up to exact reads
(`VersionedPages_proofs`), the trie on top of it as a versioned map
(`DMMTrie_proofs`), the components the page layer uses (`PageTable_proofs`,
`ActiveDeltaPages_proofs`, `DeltaCacheFile_proofs`, `ValueLog_proofs`), the callers of the
map, which are the Go storage and the programs (`TrieCallers_proofs`), and the nodes, hashes
and proofs (`MerkleTrie_proofs`).
Section 6 has their arguments, and what stays with
TLC.

## 3. Modules

Definitions that start with `Mutant` are wrong versions of the operator that follows them,
kept to show that a property fails when the code is broken that way; no behaviour uses them.

### VersionedPages

*State.* `stored` (the page table), `page_cache`, `active`, `lru`, `page_versions`,
`deltapage_versions`, `current_version` are the members of `LSVPS` and `DMMTrie` of
those names; `commit` and `load` are the locals of `CalcRootHash` and `LoadPage`; `pc`
is the place in the running call. `hist` is a history variable: which slots each
committed version wrote.

*Data.* What a slot of a page holds (a value location, or the version and hash of
a child page) is fixed by the version that last wrote it, so a slot *is* that version. A
slot update appends one delta item when the page is a leaf page and two when two
index levels change (`Weight`).

*Actions.* A commit is `BeginCommit`, then for each page, children first, `PickPage`
(possibly a load), `OpenPage` (`DMMTrie.cpp:1198-1221`), one `UpdatePage` per slot,
`ClosePage` (`1244-1271`), and at the end `StorePages`. A read is `ReadPage`, then
`WalkChain`, `FindBase`, `ApplyDelta`, `FinishLoad`, `Return`. `EvictActive` is what the pool
may do to a page between calls. LRU eviction takes any resident page the running
commit has not touched, which includes the one the recency list would pick.

*Properties.* `ReadExact`: a read returns the page exactly as the commits up to its
version left it. It is restricted to `Answerable` reads: those at or above the latest
checkpoint of the page, and older ones whose first later delta page is not behind a
checkpoint. `HistoryExact` drops the restriction and fails (section 5). `ResidentExact`:
what the page cache keeps equals what a reload would give. `NeverFails`: no throw, and
no null root is deleted. `ReplayBounded`: replay is at most one delta page and one
checkpoint interval. `NoPageShadowed`: a commit never builds a page under a key that is
already stored. `NothingUnfrozen`: between calls an active delta page holds no items.
`CallsReturn`: every call ends.

*Fairness.* `WF_vars(CommitStep \/ LoadStep)`: the store is single threaded, a call that
has started runs. No fairness on callers or on evictions.

### VersionedMap and DMMTrie

*State.* `DMMTrie` extends `VersionedPages` with `put_cache`, the member of that name; `get`,
the locals of `Get` and its answer; and `written`, the value log as `Get` sees it: the value
of a key at the version that wrote it, which is what a location names (`ValueLog` shows
that a location reads back).

*Data.* A key is its `Path` of pages and slots. Keys have one length, as in every
caller. A page id is a prefix of the keys below it, so a page is below one slot of one
page only and no two keys share a value slot (`TrieAssumption`). The empty string is both a deleted key and a key not found, as in the code.

*Actions.* `Put` and `Delete` (refused below `current_version`, which they move on at once),
`CalcRootHash` (the batch becomes the pages and slots to update; then the steps of
`VersionedPages`, where `TrieUpdatePage` also writes the value and `TrieStorePages` drops the
batch), `Get` with `GetPage` and `Descend` for each level. A descent checks the first nibble only
(`HasChild`) and takes version 0 for a slot that was never written (`GetChildVersion`), so it
may read a page at version 0; the page cache keeps what it gets.

*Properties.* `ImplementsMap`: the trie is the `VersionedMap` whose snapshots overlay the
batches and whose horizon is the last checkpoint of any page. At or above the horizon `Get`
answers exactly, for committed versions, versions between them and versions to come; below it
the promise allows any answer, which is what `VP_history` shows to be needed. `GetAnswers`: every `Get` ends.

*Fairness.* `WF_trieVars(TrieStep)`, for the same reason as above.

### PageMap and PageTable

*State.* `buffer`, `index_files` are the members of that name (each file with its content);
`out` is the file `writeToStorage` is writing, `phase` where it is. `given` is a history
variable: what was passed to `StorePage`.

*Actions.* `StorePage` (a full buffer starts a flush), `Flush` (the public call), and the
flush itself as `WritePage`, `WriteIndexBlocks`, `WriteLookupBlock`, so that `pageLookup` is
checked in every intermediate state and after every throw (`phase = "failed"`). A
location is a rank in the file instead of a byte offset. Block sizes are kept in
bytes, because whether a block fits its page decides whether a flush throws.

*Properties.* `LookupExact`: `pageLookup` returns exactly the pages given, at every
step. `Implements`: the table is the map `PageMap`, with
`stored <- [k \in Key |-> pageLookup(k)]`.

*Assumption.* Callers commit increasing versions (`InOrder`), as the Go storage and
all workloads do. `DMMTrie::Put` itself accepts the version committed last.

### ActivePages and ActiveDeltaPages

*State.* `page_pool`, `free_pages`, `cache`, `pid_to_last_pagekey` are the members of
those names, `delta_cache` the file. `handed` is the pointer that `Get` returned last; `call`
the page update of `CalcRootHash` that uses it; `since` a history variable.

*Actions.* `GetCached` and `GetLoaded` (with `evictIfNeeded`, whose victim is any cached pid:
the code takes the first of an unordered map), and `Begin`, `Update`, `End`, the
changes `CalcRootHash` makes through the pointer, `End` with the call of `Store`.

*Properties.* `OneOwner`: a slot belongs to one cached pid or is free once.
`Implements`: the pool implements `ActivePages` under
`active <- [p \in Pid |-> the page in p's slot, or the one Get would make]`. Only
`b_update_count_` of a page without items may change behind the trie's back (`Recount`),
which is what `EvictActive` of `VersionedPages` allows. `CheckpointInTime` is not checked, as the code does not keep it (section 5).

### ValueLog

*State.* `current_fileID`, `current_offset`, `write_map`, `read_map`, `read_map_fileID` are
the members of those names, `content` the bytes of the data files. `located` is a
history variable: what the writes of this session returned.

*Data.* A record is its value and the size of what precedes it; a byte is its record
and its rank in it, so a partly overwritten record is visible. `Line[v]` is what
`getline` leaves of a value.

*Actions.* `WriteValue`, `ReadValue`, `Reopen` (the process ends, and the constructor runs
on the same directory). Reading a damaged record gives `None`.

*Properties.* `ReadBack`: a location of this session reads back its value.
`AppendOnly`: a written byte never changes; it is proved for one session and does not
hold across sessions (section 5).

*Assumption.* A record fits a file. The code copies a larger one past the mapping.

### TrieInterface and LetusStorage

*State.* `TrieInterface` has the trie as callers meet it (`current_version`, `put_cache`, the
map at each committed version, the horizon of `VersionedMap`). A commit the map does not
promise to keep (of a version other than the running one, committed before, or 0)
puts the horizon past every version, so that no later read is exact.
`LetusStorage` has `stable_seq_no` and `current_seq_no`, `len` of the batch, the iterator,
and where the caller is between `Hash` and `Write`; `ledger`, `pending` and `reverted` are
history variables.

*Actions.* One per method. A block number is one less than its version (`HashVersion`,
`GetSeqNo`). `Get` before the first block reads version 1 (`ReadVersion`). `Revert` moves the
numbers only, as `DMMTrie::Revert` has no body. `Next` moves before its caller reads.

*Properties.* `ReadsLastBlock`: a `Get` answers from the last block written, whatever
blocks were empty and whatever is being put; after a revert, as long as nothing
followed it and no checkpoint lies above. `PutsKept`: what a caller that never reverts
put is in the trie's batch or map, under the running version. `CallsAsPromised`: every
step is a step of `VersionedMap`, which `DMMTrie` implements, so this composes the Go
storage with the trie. `ScanComplete`: a scan delivers the keys after its begin, once each.

### MerkleTrie

*State.* `mem`, `base` and `items` are, for each pid, the page in the trie's cache, the last
base page and the delta items since; `pending` the keys a commit still has to update;
`values` is a history variable: what was put and when; `filed` whether a page was read
from a file.

*Data.* A byte string is a sequence of tokens: a value is one token, SHA-1 of a string one
token that holds it. So different strings have different hashes, and concatenation forgets
where an empty hash stood, as in the code. Keys have one or two nibbles: a leaf in the root
page, or one in a page of its own below two index levels; these are the two cases of every
level. Items replayed on a page, and hashes up a path, are recursive functions.

*Actions.* `Commit` starts a commit of any set of keys; `UpdateKey` is `UpdatePage` of the
next one, in the order of the nibbles, its leaf first. `Checkpoint` of a page, `Flush`
(`ReadPage`, `ReadItem`: what (de)serialization makes of pages) and `Reload` of a page from
base and items happen between commits. When the code does which is in `VersionedPages`;
here any time between commits is allowed. Only the latest version is kept.

*Properties.* They hold in the middle of a commit too. `PathsLeadToValues`: keys lead to
their values, whatever was flushed and reloaded. `RebuiltExact`, `ProofVerifies`,
`VerifySound`, `TreeVerifies` speak of hashes, and hold until a page is read from a file
(`filed`), as one read back has other hashes (section 5). `VerifySound`: a proof verifies
the value of its key and no other.

### DeltaCacheFile

*State.* `file`, the units of `delta_cache.dat`; `pid_to_offset`, `cache`, `pid_to_last_pagekey`, the
members; `phase` and `unwritten`, where a flush is. `filed`, `named` and `spoilt` are history
variables: what the last flush was to leave, what the file named when it was opened,
and whether something happened the code has no guard for.

*Actions.* `Open` (with `readIndexBlock`, which reads a size from an unset variable when the
file is empty: any outcome), `Get` with its eviction, `Store`, and the flush as
`FlushToDisk`, `WritePage`, `TruncateFile`, `AppendIndex`. `Crash` ends the process at any step.

*Data.* Between commits a page holds no items (`NothingUnfrozen` of `VersionedPages`), so a
page is its last page key. A page is a unit of content and units of zeros: the first
flush takes the last eight bytes of a page for the size of an index block, reads 0, and
cuts what is zero anyway, which `FileExact` shows to be harmless.

*Properties.* `FileExact`: outside a flush the file gives back the key of every page the last
flush wrote or kept. `HeadKept`: a page is loaded with the key last stored, unless the file
had named it.

*Offsets.* `prepareForBatchWrite` gives each page the greatest offset so far plus a page.
The greatest is the one given last, so the model says where the page of each turn lands
instead of repeating the loop.

### Benchmarks and Workloads

`Benchmarks` turns each program into the sequence of its operations, a function of its
options and of the keys and values its generators give: what a program asks does not
depend on the answers. The two exceptions are operations of their own: a payment settles
by the balances read (`settle`), and READMODIFYWRITE puts what the get before it
answered (`Carried`). `Workloads` runs a plan over `TrieInterface` step by step, a get in two
(`DoGet`, `Answered`). A plan is a sequence of `Call`s, which `WorkloadAssumption` states and
TLC evaluates for every plan of the run.

*Properties.* `WrongIsRight`: a read counted in `wrong_cnt` is one below the horizon; so the
history tests expect what the store promises. `ReadsCommitted`: timed reads are at
versions that exist. `BufferExact`: the pairs `ycsb_simple` verifies are in the map of their
version. `Conserved`: payments keep the sum of balances. `CallsLawful`: the calls are those
`VersionedMap` promises to answer. Each names the programs it excepts and why.

## 4. Runs

| Run | Checks | Bounds, and why they are enough |
|---|---|---|
| `VP_trie` | types, `ReadExact`, `ResidentExact`, `NeverFails`, `ReplayBounded`, `NoPageShadowed`, `CallsReturn` | an index page over a leaf page, 4 versions, `Td` 4, `Tb` 5: delta pages, direct base pages, checkpoints inside and at the end of a commit; 3 resident pages, so commits and reads evict each other's |
| `VP_pool` | `ReadExact`, `NothingUnfrozen` | one page with three slots, 3 versions, `Td` 6, `Tb` 7: a checkpoint in the middle of a commit's updates with items after it, while the pool reuses slots at any moment between calls; slots are symmetric |
| `VP_history` | `HistoryExact` (violated) | as `VP_trie` |
| `TR_map` | types, `ImplementsMap`, `GetAnswers` | two keys that share the first nibble and part at the root, one value and the deleted key, 3 versions, `Td` 4, `Tb` 5: snapshots overlay each other, versions are skipped, checkpoints raise the horizon; the cache never evicts, as `max_cache_size_` (3,000,000) lets it |
| `PT_table` | types, `LookupExact`, `Implements` | blocks of 2 entries; 3 pids, 2 kinds, 1 version give up to 6 pages in up to 6 files, flushed at any moment; the root's pid fits the block arithmetic and the others are one byte too long, so flushes succeed, and throw after each of their steps |
| `PT_zero` | `LookupExact` (violated) | a caller that starts at version 0 |
| `AP_pool` | types, `OneOwner`, `Implements` | 3 pids, 2 slots, 2 versions, 3 updates, `Td` 5, `Tb` 6: full delta pages, direct base pages and checkpoints all occur |
| `VL_log` | types, `ReadBack` | 3 files of 6 bytes, records of 2 to 4 bytes (exact fits, misses by one), 2 sessions |
| `LS_storage` | types, `ReadsLastBlock`, `PutsKept`, `ScanComplete`, `CallsAsPromised` | two keys, one value and the deleted key, 3 blocks: an empty block between two others, a revert across one, a checkpoint anywhere |
| `MP_proof` | types, `PathsLeadToValues`, `RebuiltExact`, `ProofVerifies`, `VerifySound`, `TreeVerifies` | three keys (two below one nibble, one of them with a nibble above 9; one in the root page), two values and the deleted key, 2 commits: a node with one child and with two, a leaf replaced, deleted, or left from the first commit |
| `WL_drivers` | types, `WrongIsRight`, `ReadsCommitted`, `BufferExact`, `Conserved`, `CallsLawful` | every program, with every choice of its generators for two tasks or versions of two operations each: a key repeated in a task and across tasks, an account in two payments of a version, batches that end at and between commits |
| `DC_cache` | types, `FileExact`, `HeadKept` | three pids over two slots, pages of two units, 3 sessions: pages overwritten, left from earlier sessions, an index block longer than the pages after it, a stop at every step |

Deadlock is checked in the `VP`, `TR` and `LS` runs. The others end where the versions, the
files, the sessions, the plans or the room in a failed flush end, so they say
`CHECK_DEADLOCK FALSE`.

## 5. What the code does not keep

Two runs show a disagreement with what the repository says of itself:

- `VP_history`. A read of version `u` below the latest checkpoint starts at the first
  delta page after `u`; when a checkpoint lies between, that page's `last_pagekey_` is
  the later base page, and the read returns data newer than `u`.
- `PT_zero`. `pageLookup` answers nothing for version 0, which a test commits.

The conditions under which the other properties are stated are limits of the code, found
with the models:

- `ClearDeltaPage` keeps `b_update_count_`; the next page in the slot counts on from it, and
  may go past `Tb` updates without a checkpoint (`CheckpointInTime` of `ActiveDeltaPages`).
- The value log starts again at offset 0 of file 0 on a directory in use, over the values of
  the session before (`AppendOnly` of `ValueLog`).
- A value is read back up to its first newline (`Line` of `ValueLog`).
- Pages read from a file have padded hashes, and a root node has lost the versions and hashes
  of its children: after that, root hashes and proofs are not those of the pages written.
- `RecursiveVerify` looks child pages up at the version of the root, under the decimal
  names of their nibbles, and hashes the empty value of deleted keys.
- A flush of `delta_cache.dat` that leaves a longer index block behind the new pages cuts
  pages with it; a stop inside a flush, and an empty file, are read as they are.
- A page named in the file keeps its entry when it is frozen again, and comes back with
  the older key after an eviction, or with none after a flush.
- After `Revert` the trie refuses puts below the version it had reached.
- `Seek` moves an iterator only to keys from its end up to its begin.
- `ycsb_simple` may start its transactions at a version nothing was committed under, and
  READMODIFYWRITE may put to an outdated version.

## 6. Proofs

All theorems hold for every value of the constants that satisfies the named
assumptions (`ConstantsAssumption`, `PoolAssumption`, `NoneAssumption`, `TrieAssumption`, `AnswerAssumption`,
`CacheFileAssumption`, `StorageAssumption`, `WorkloadAssumption`, `MerkleAssumption`), which state finiteness, ranges, the shape of paths and
keys, and that `None` is no page and no answer. The provers cannot use an induction theorem
that takes an operator; where a proof goes over the versions, the items of a page or the
steps of a walk, it takes the least one that fails instead (`Least` and `Greatest`, which the
proof modules state: a non-empty set of naturals has a least element, a bounded one a
greatest).

- **VersionedPages_proofs.** `TypeCorrect` needs `Resides`: the page a commit updates is
  in `lru` under the key the commit remembers, and the page being replayed exists.
  `EvictionIsHarmless` (`[]NothingUnfrozen`) needs that the only active page with items is
  the one of the running commit and that `ClosePage` freezes it. The step lemmas are about
  `LayerNext`, which has the steps of the specification and two more that callers
  make: `Advance` (a `Put` moves `current_version_`) and reads at every version. So they
  hold for the trie above as well.

  The rest of the module is about the pages themselves. The inductive invariant `PagesInv` of the page layer, in layers:
  types; what is frozen (`FrozenInv`); that a delta page never overflows while it is filled
  (`SpaceInv`: the reason for the `exceed` rule at `DMMTrie.cpp:1204`); the order of a commit (`OrderInv`:
  every key in `page_cache` is of the running version and of a page already built, every
  key in `stored` of an earlier one, which is `StoreIsNew`); and `CoreInv`, the *chain*. For
  every page, `ChainInv` says that every version that wrote it left a delta page or a base
  page, that a delta page holds the items of its version and links to the base page of
  that version or else to the version that wrote the page before, and that a base page
  holds its version but for slots its own delta page writes again. A page half way through
  its slots keeps the chain it had (`SlotsInv`). A walk of `LoadPage` has on its stack every
  batch between the version it has come to and the one it needs, and a replay has applied a
  prefix of them (`LoadInv`); what is resident is exact (`LruInv`). `ReadsAreExact` and
  `ResidentsAreExact` follow. All assume `FirstVersion >= 1`: callers commit from version 1, and
  `pageLookup` never looks up version 0.
  `CallsSucceed` (`[]NeverFails`) adds that the pages of a commit are built child first and stay
  resident (`BuiltInv`; `LruMax` exceeds the pages of a commit) and that no page without a root
  is evicted (`RootedInv`). It assumes that no read names version 0: such a read leaves a blank
  page in the cache, whose eviction dereferences a null root (section 7).
  `ReplaysAreBounded` adds a count (`BoundInv`): the items since the last checkpoint are at
  most `b_update_count_`, and those frozen before it less than a delta page. It assumes
  `PoolEvicts = FALSE`: the pool does not keep the count (section 5).
- **DMMTrie_proofs.** `TrieImplementsMap` proves `TrieSpec => ImplementsMap`, the refinement of
  `VersionedMap`. A step of the trie is a step of `LayerNext` (`StepIsLayerStep`, for which a batch
  must be a tree of pages, `BatchIsUpdate`), so `PagesInv` holds. The trie adds four parts. The page
  a call waits for is the one of its level and version, and a commit runs only while no
  `Get` does (`CallerInv`). Every version wrote the pages and slots on the paths of some set of keys
  (`PathsInv`), so a slot was written exactly when the page below it was. The value log has
  the value of every key a readable version wrote, and of the slots the commit has done
  (`WrittenInv`). The page version a `Get` has come to is the last one up to the version
  asked for that wrote the page, or 0 (`GetInv`): then no base page of that page is later, so
  the read is exact although it may be far below the last checkpoint (`GetReaches`). The
  invariants other than the types are claimed as long as no call failed; a failed call
  changes nothing the map sees. Then `Put` and `Delete` are `MapWrite`, `TrieStorePages` is
  `MapCommit` (`StoredSnaps`, `StoredHorizon`), the last `Descend` is `MapGet` (`AnswerIsAt`), `Take` is
  `MapTake`, and all other steps stutter.
- **PageTable_proofs.** `LookupIsExact` rests on an invariant of four parts: pages are
  sorted by key in the buffer and in every file, and all of one file come before the
  next and before the buffer (`PagesInv`), so intervals of files are disjoint and the
  first that covers a key is the only one; the blocks of a file partition its pages
  in order and the lookup block holds their first keys (`FileOK`), so `upper_bound` and
  the step back hit the right block; no page given is missing (`NothingLost`); the file
  being written is a prefix of the buffer (`FlushInv`). It assumes
  `FirstVersion >= 1`, which `PT_zero` shows to be needed, and no relation between
  pids and block sizes: a flush that throws loses nothing. `ImplementsMap` follows.
- **ActiveDeltaPages_proofs.** `SlotsHaveOneOwner` needs a counting argument: when fewer
  than `max_size` pids are cached a slot is free. `PoolImplementsPromise` adds that the
  pointer handed out is still the slot of its pid (`HandedOwn`), that pages outside a
  call hold no items, that the file is never written (`DiskUnused`), and that the last
  page key of a cached page outside a call is the one kept beside the pool (`HeadsKept`).
- **DeltaCacheFile_proofs.** `FileStaysExact` (`[]FileExact`) follows the file through a
  flush. Before it the file is `Good`: its index block can be read, names the page of every
  head filed and of nothing else, and those pages lie apart and before the block.
  New offsets are a page behind all named ones (`FlushOffsets`), so no page written
  touches another that is to stay, though it does overwrite the old block. While pages are
  written (`FlushOK`) every page with an offset is either still in `unwritten` or in the file
  with the key it is to have. The size that `writeIndexBlock` reads at the end of the file is the old one or a zero, hence
  less than the file: no cut throws. After the cut (`IndexOK`) a page may lack its last unit,
  which is padding that the index block put in its place may stand for; that block then gives back the
  offsets (`IndexGivesBack`), and the file is good again. A crash before the first page is written leaves
  it good. All that is claimed until `spoilt`, as in the property; `CacheFileTypes` holds for ever, as it needs only
  that no offset read from a spoilt file is beyond one page. `HeadsAreKept` adds that a
  page with an offset in an open store is one the file named.
- **ValueLog_proofs.** `ReadsBack` needs that the write mapping is the current file and
  the read mapping the file it claims, and that every location returned still holds
  its record and lies below the current offset. It assumes that no value has a
  newline. `SessionAppendsOnly` proves `AppendOnly` for one session (`MaxOpens = 1`): what
  lies above the write position is unwritten.
- **TrieCallers_proofs.** `ReadsComeFromLastBlock`, `PutsAreKept` and `CallsArePromised` rest
  on one invariant of three cases. Before a revert, while a block is gathered (`Gathers`):
  no committed version is above the stable one, a batch that is not empty runs under the
  number of the block, the newest map is the ledger. Between `Hash` and `Write`
  (`Hashed`): the newest map is the one being written. Right after a revert (`Clean`): the
  ledger is the map reverted to. `ScansAreComplete` has an invariant of its own. Together
  with `TrieImplementsMap` they speak of the store: what a block wrote is read back from
  the trie and its pages.

  The second half is about the programs. `WorkloadTypes`, `ProgramsReadCommits`,
  `ProgramsCountRight`, `ProgramsCallLawfully`, `ProgramsConserveMoney` and `ProgramsNoteRight` state
  the six properties of `Workloads`. They assume
  `BalancesAreNumbers` (programs that settle payments have the naturals as values) and
  `ProgramsOfFamilies`: each program is within the set `Families` has for it, of its plans for *all*
  options and everything its generators may give. Every program has its set there, and
  `ycsb_modify` is `ycsb_simple` with READMODIFYWRITE. The argument has two parts.
  - *Of any plan.* What a plan asks can be judged from the plan alone: puts under versions
    that never fall (`Ordered`), a version put to before it is committed and committed once (`Numbered`,
    `Lawful`), reads at versions committed before (`ReadsAfterCommits`), reads that expect what was
    last put (`Expecting`, `ReadsNewest`). By induction over the steps the trie follows the plan:
    its version, batch and committed versions are those of the operations done
    (`Follows`: no put was refused, no commit found the batch empty), its maps hold what the plan last
    put (`Keeps`). So a plan of those kinds has the properties (`ReadsAreCommitted`,
    `WrongIsRightHolds`, `CallsAreLawful`). Of a plan that pays, `Paying` says that a payment reads both
    balances at the version before and that nothing else is put to its version. Then the answers are the newest
    balances (`BalancesRead`), and the newest map with the batch over it has all the money but
    what is `Owed` to the receiver of a payment half done (`BatchKeepsMoney`); `ConservedHolds` follows. It
    rests on sums over finite sets, which are built up by the size of the set: `SumChanges` tells what one
    term does to a sum. Of a plan that notes what it does in the `KVBuffer`, `Noting` says that a noted
    get is at the last version committed before it, if that is ever committed, and that to a version
    with a noted put there is none that is not noted. Then what is noted of a version is in its map,
    or in the batch that becomes its map (`NotesFollow`), and `BufferExactHolds` follows.
  - *Of the plans of `Benchmarks`.* A program repeats blocks: puts and deletes of one version, their
    commit, reads. `AppendRound` and `CloseRound` show that a block of a new version keeps a plan
    in `Rounds`; `Known` and `Reached` (what the tests read is what they last put) and `Timed` (for the
    benchmarks, which expect nothing) are kept likewise. `FlattenInduct` is the induction over
    the blocks of a `FlattenSeq`: the prefixes for which a claim holds form a set,
    which is closed under one more block. `TestLoop`, `TimedBlocks`, `TimedLookups` and `PaysAll` apply it
    to the loops. In `scaleBenchmark` and `ycsb_simple` what was done decides what is done next: their plans
    are folds. `FoldLeft` is a function on the sets of indices, each defined by the set without its
    greatest member; `FoldExists` shows that there is one, `FoldWithin` that it stays in a set closed
    under a step, and `FoldStays` the same for a claim about the indices. `ScaleIsTimed` needs that the data
    sizes grow. For `ycsb_simple` the claim is that of `Loads` while records are loaded and of
    `Transacts` after that: puts go to the version after the current one and gets to the current
    one, and a transaction that put something finds it in the batch when it commits (`HasPut`).
    READMODIFYWRITE breaks it, and only the properties that do not need it are proved of `ycsb_modify`.
- **MerkleTrie_proofs.** One invariant, `MerkleInv`, gives all six properties. `PageOK`: the page in
  the cache is its items replayed over its base page, up to what a file loses
  (`SamePage`: hashes, and of a root node the versions and hashes of its children), and exactly
  that until something is `filed`. `KeyOK`: a key that was ever written has its leaf, of the version that
  wrote it, and the nodes above it. `TreeOK`: the bits of a node are its children, and it knows the
  version of the page below. `HashesOK`: until something is `filed`, a node has the hash of its
  children's hashes and the hash of every child. An update appends the items that lead from the old page to
  the new (`ReplayOneMore`), and a flush changes page and items alike, so what is rebuilt stays the same
  up to what is lost. `PathsKept`, `RebuildIsExact` and `MerkleTypes` follow at once;
  `ProofsVerify` goes up the path: putting a child's hash where it already is gives the hash of
  the node (`UpIsHash`). `TreeIsVerified` compares the two trees child by child.
  `VerifyIsSound` is the converse. `Concatenated` is not injective, but it is in one place when
  all others are fixed (`OneHashTells`), and different strings have different hashes, so a
  proof that arrives at the root hash started from the hash of the leaf. The proof of a missing
  key whose path ends above an index node has its steps from the root down: if a hash went up them
  to the root hash, then the string hashed for the root would hold the hash made below it, so that
  would be the hash of an index node the root has; if of another one than that on the path, the
  leaves below it would have the hash of an index node among theirs, and if of that one, counting
  tokens shows one too many (`NoWayUp`).

Only model-checked:

- every liveness property (`CallsReturn`, `GetAnswers`): liveness under fairness is outside the
  prover's reach.

## 7. Not modelled

- The destructor of the trie, and eviction of pages without a root that `Get` of a missing key
  leaves in the cache: `~BasePage` dereferences their null root (see the hazards).
- Restarts of the whole page store: `index_files_` and `page_versions_` are not recovered, so
  a restarted trie reads nothing; `DeltaCacheFile` has the part that is recovered.
- Proofs and hashes of older versions: `MerkleTrie` keeps the latest one.
- What a record larger than a file of the value log overwrites.
- The random distributions of the generators, options, timers, memory measurements and
  result files of the programs; the scripts.
- Keys of mixed lengths and keys that are not hexadecimal, memory leaks, I/O errors.
