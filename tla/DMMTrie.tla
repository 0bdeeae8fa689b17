------------------------------ MODULE DMMTrie ------------------------------
(***************************************************************************)
(* The trie as its callers see it: Put and Delete gather a batch,          *)
(* CalcRootHash commits it through the page layer (VersionedPages), and    *)
(* Get descends from the root page at the version asked for, taking at     *)
(* each index slot the version of the child page below it.                 *)
(*                                                                         *)
(* A key is its path: the page and slot it passes on each level.  Keys     *)
(* have one length, as in every caller, so a path ends at a value slot.    *)
(* The value log (module ValueLog) is the function "written": the value of *)
(* a key at the version that wrote it, which is what a location names.     *)
(* The pool of active delta pages is large enough here; ActiveDeltaPages   *)
(* and the run of VersionedPages with EvictActive show its reuse.          *)
(***************************************************************************)
EXTENDS VersionedPages

CONSTANTS
  UserKey,   \* the keys callers use
  Path,      \* Path[k]: the <<page, slot>> pairs from the root to the value
  Nibble,    \* Nibble[p][s]: the first of the two nibbles that select s in p
  Value,     \* the values callers put
  NoValue    \* the empty string: a deleted key, and a key not found

ASSUME TrieAssumption ==
  /\ FirstVersion >= 1
  /\ NoValue \notin Value /\ None \notin Value /\ None # NoValue
  /\ Path \in [UserKey -> Seq(Pid \X Slot)]
  /\ \A k \in UserKey :
       /\ Path[k] # <<>> /\ Path[k][1][1] = Root
       /\ \A i \in DOMAIN Path[k] :
            /\ Path[k][i][2] \in SlotsOf[Path[k][i][1]]
            /\ Child[Path[k][i][1]][Path[k][i][2]] =
                 IF i = Len(Path[k]) THEN None ELSE Path[k][i + 1][1]
  /\ \A k, l \in UserKey : Path[k][Len(Path[k])] = Path[l][Len(Path[l])] => k = l
  /\ \A p \in Pid, s, t \in Slot :
       Child[p][s] = None /\ Nibble[p][s] = Nibble[p][t] => s = t
  /\ \A p, q \in Pid, s, t \in Slot :   \* a page id is the prefix of the keys below it
       Child[p][s] # None =>
         /\ Child[p][s] # Root
         /\ Child[p][s] = Child[q][t] => p = q /\ s = t

ASSUME AnswerAssumption ==
  /\ None \notin [UserKey -> Value \cup {NoValue}]
  /\ None \notin [key : UserKey, version : Versions, value : Value \cup {NoValue}]

VARIABLES
  put_cache,  \* DMMTrie::put_cache_: the batch, None where nothing was put
  written,    \* the value log: written[k][v], the value of k written at v
  get         \* locals of Get, and its answer until the caller takes it

trieVars == <<vars, put_cache, written, get>>

NoGet == [key |-> None, version |-> 0, level |-> 0, page_version |-> 0, reply |-> None]
EmptyPutCache == [k \in UserKey |-> None]
InBatch == {k \in UserKey : put_cache[k] # None}
ValueSlot(k) == Path[k][Len(Path[k])]

TrieInit ==
  /\ Init
  /\ put_cache = EmptyPutCache
  /\ written = [k \in UserKey |-> [v \in Versions |-> None]]
  /\ get = NoGet

-----------------------------------------------------------------------------
(* DMMTrie::Put and DMMTrie::Delete.                                       *)

(* An outdated version is refused.  The version moves on at once, before   *)
(* anything is committed under it.  Callers commit no version twice.       *)
Idle == pc = "idle" /\ get = NoGet
Accepts(v) == v >= current_version /\ v \notin Committed
PutInBatch(k, val, v) ==
  /\ Idle
  /\ Accepts(v)
  /\ current_version' = v
  /\ put_cache' = [put_cache EXCEPT ![k] = val]
  /\ UNCHANGED <<stored, page_cache, active, lru, page_versions,
                 deltapage_versions, commit, load, pc, hist, written, get>>

Put(k, val, v) == val # NoValue /\ PutInBatch(k, val, v)
Delete(k, v) == PutInBatch(k, NoValue, v)

-----------------------------------------------------------------------------
(* DMMTrie::CalcRootHash; with nothing put it changes nothing.             *)

(* The pages and slots on the paths of the batch. *)
UpdatesOf(keys) ==
  [p \in Pid |-> {s \in Slot : \E k \in keys :
                    \E i \in DOMAIN Path[k] : Path[k][i] = <<p, s>>}]

CalcRootHash ==
  /\ Idle
  /\ InBatch # {}
  /\ BeginCommit(current_version, UpdatesOf(InBatch))
  /\ UNCHANGED <<put_cache, written, get>>

(* A value slot takes the location of the value, which is written then. *)
TrieUpdatePage(s) ==
  /\ UpdatePage(s)
  /\ written' = [k \in UserKey |->
       IF ValueSlot(k) = <<commit.pid, s>>
         THEN [written[k] EXCEPT ![commit.version] = put_cache[k]]
         ELSE written[k]]
  /\ UNCHANGED <<put_cache, get>>

(* The batch is dropped once its pages are stored. *)
TrieStorePages ==
  /\ StorePages
  /\ put_cache' = EmptyPutCache
  /\ UNCHANGED <<written, get>>

-----------------------------------------------------------------------------
(* DMMTrie::Get.                                                           *)

Get(k, v) ==
  /\ Idle
  /\ get' = [key |-> k, version |-> v, level |-> 1, page_version |-> v,
             reply |-> None]
  /\ UNCHANGED <<vars, put_cache, written>>

(* The page of the next level, at the version its slot named. *)
GetPage ==
  /\ pc = "idle" /\ get.key # None /\ get.reply = None
  /\ ReadPage(Path[get.key][get.level][1], get.page_version)
  /\ UNCHANGED <<put_cache, written, get>>

(* IndexNode::HasChild: some slot with the same first nibble was written. *)
HasChild(page, p, s) ==
  \E t \in Slot : page.slots[t] # Absent /\ Nibble[p][t] = Nibble[p][s]

(* IndexNode::GetChildVersion: 0 for a slot that was never written. *)
MutantMinusOneChildVersion(page, s) == page.slots[s]
GetChildVersion(page, s) == IF page.slots[s] = Absent THEN 0 ELSE page.slots[s]

(* The locals of the next turn of the loop, at the child page below s. *)
MutantSameLevel(page, s) == [get EXCEPT !.page_version = GetChildVersion(page, s)]
MutantRootVersion(page, s) == [get EXCEPT !.level = @ + 1]
NextLevel(page, s) ==
  [get EXCEPT !.level = @ + 1, !.page_version = GetChildVersion(page, s)]

(* One turn of the loop with its page: not found, or the next level, or    *)
(* the value at the location of the value slot.                            *)
Descend ==
  LET path == Path[get.key]
      p == path[get.level][1]
      s == path[get.level][2]
      page == load.page
      answer(val) == [get EXCEPT !.reply = val]
  IN /\ pc = "returned"
     /\ Return
     /\ get' = IF page = None \/ ~HasChild(page, p, s) THEN answer(NoValue)
               ELSE IF get.level = Len(path)
                 THEN answer(written[get.key][page.slots[s]])
               ELSE NextLevel(page, s)
     /\ UNCHANGED <<put_cache, written>>

(* The caller has the value. *)
Take ==
  /\ get.reply # None
  /\ get' = NoGet
  /\ UNCHANGED <<vars, put_cache, written>>

-----------------------------------------------------------------------------
PageSteps ==
  /\ \/ \E p \in Pid : PickPage(p)
     \/ OpenPage
     \/ ClosePage
     \/ WalkChain
     \/ FindBase
     \/ ApplyDelta
     \/ \E victim \in (Pid \X Versions) \cup {None} : FinishLoad(victim)
  /\ UNCHANGED <<put_cache, written, get>>

TrieStep ==
  \/ PageSteps
  \/ \E s \in Slot : TrieUpdatePage(s)
  \/ TrieStorePages
  \/ GetPage
  \/ Descend

TrieNext ==
  \/ \E k \in UserKey, v \in FirstVersion..MaxVersion :
       \/ \E val \in Value : Put(k, val, v)
       \/ Delete(k, v)
  \/ CalcRootHash
  \/ \E k \in UserKey, v \in ReadVersions : Get(k, v)
  \/ Take
  \/ TrieStep

(* The code is single threaded and a call never waits: a call that can     *)
(* take a step does.  Nothing obliges a caller to call.                    *)
TrieSpec == TrieInit /\ [][TrieNext]_trieVars /\ WF_trieVars(TrieStep)

-----------------------------------------------------------------------------
(* What the callers are promised.                                          *)

(* The version that is being committed is not readable yet. *)
Readable == Committed \ (IF commit.version = 0 THEN {} ELSE {commit.version})

(* The versions up to v whose batch wrote k. *)
WritesOf(k, v) ==
  {w \in Readable : w <= v /\ ValueSlot(k)[2] \in hist[ValueSlot(k)[1]][w]}

Snapshot(v) ==
  IF v \notin Readable THEN None
  ELSE [k \in UserKey |->
          IF WritesOf(k, v) = {} THEN NoValue
          ELSE written[k][CHOOSE w \in WritesOf(k, v) :
                            \A x \in WritesOf(k, v) : x <= w]]

(* The last version at which a page was checkpointed. *)
LastCheckpoint ==
  LET checkpoints == {v \in Versions : \E p \in Pid : stored[BaseKey(p, v)] # None}
  IN IF checkpoints = {} THEN 0
     ELSE CHOOSE v \in checkpoints : \A w \in checkpoints : w <= v

Map == INSTANCE VersionedMap WITH
  snapshots <- [v \in Versions |-> Snapshot(v)],
  current <- current_version,
  batch <- put_cache,
  horizon <- LastCheckpoint,
  reply <- IF get.reply = None THEN None
           ELSE [key |-> get.key, version |-> get.version, value |-> get.reply],
  Answers <- Value \cup {NoValue}

-----------------------------------------------------------------------------
(* Properties.                                                             *)

(* The trie is a versioned map: whatever was frozen, checkpointed, moved   *)
(* in the cache or rebuilt, Get answers from the version asked for as the  *)
(* batches up to it left it, and only a read below the last checkpoint may *)
(* answer anything else.                                                   *)
ImplementsMap == Map!MapSpec

(* The types of the state the trie adds to its page layer. *)
TrieTypeOK ==
  /\ put_cache \in [UserKey -> Value \cup {NoValue, None}]
  /\ written \in [UserKey -> [Versions -> Value \cup {NoValue, None}]]
  /\ \/ get = NoGet
     \/ /\ get.key \in UserKey
        /\ get.version \in Versions /\ get.page_version \in Versions
        /\ get.level \in DOMAIN Path[get.key]
        /\ get.reply \in Value \cup {NoValue, None}

(* Every Get that began is answered. *)
GetAnswers == (get.key # None) ~> (get.reply # None)
=============================================================================
