--------------------------- MODULE VersionedPages ---------------------------
(***************************************************************************)
(* The page layer of LETUS: how a commit turns the updates of a batch into *)
(* delta pages and base pages (DMMTrie::CalcRootHash, BasePage::UpdatePage) *)
(* and how a page is rebuilt at a requested version (DMMTrie::GetPage,     *)
(* LSVPS::LoadPage).                                                       *)
(*                                                                         *)
(* A page holds "slots": the entries a pair of nibbles selects.  What a    *)
(* slot contains (a value location, or the version and hash of a child     *)
(* page) is fixed by the version that last wrote it, so a slot is modelled *)
(* by that version.  The page table of LSVPS (memory buffer and index      *)
(* files) is the function "stored"; module PageTable models it in detail. *)
(* The pool of active delta pages is the function "active"; module         *)
(* ActiveDeltaPages models it in detail.                                   *)
(*                                                                         *)
(* The program is single threaded: one call runs at a time, and a call is  *)
(* a sequence of steps here so that every state inside it can be checked.  *)
(***************************************************************************)
EXTENDS Integers, FiniteSets, Sequences

CONSTANTS
  Pid,           \* page identifiers: the key prefixes of even length
  Root,          \* the page of the empty prefix
  Slot,          \* the nibble pairs that select an entry of a page
  SlotsOf,       \* the slots each page can have
  Child,         \* Child[p][s]: the page below slot s of p, or None
  Weight,        \* Weight[p]: delta items one slot update of p appends (1 or 2)
  Td, Tb,        \* delta page capacity; updates between two checkpoints
  FirstVersion,  \* the least version a caller commits
  MaxVersion,    \* BOUND: the greatest version a caller commits
  ReadVersions,  \* the versions a caller reads at
  LruMax,        \* max_cache_size_, the number of resident pages
  PoolEvicts,    \* whether the pool of active delta pages can be exhausted
  None           \* the null pointer

ASSUME ConstantsAssumption ==
  /\ IsFiniteSet(Pid) /\ IsFiniteSet(Slot)
  /\ Root \in Pid /\ None \notin Pid
  /\ SlotsOf \in [Pid -> SUBSET Slot]
  /\ Child \in [Pid -> [Slot -> Pid \cup {None}]]
  /\ Weight \in [Pid -> {1, 2}]
  /\ Td \in Nat \ {0} /\ Tb \in Nat \ {0}
  /\ FirstVersion \in Nat /\ MaxVersion \in Nat
  /\ ReadVersions \subseteq 0..MaxVersion
  /\ LruMax \in Nat /\ LruMax > Cardinality(Pid)
  /\ PoolEvicts \in BOOLEAN

VARIABLES
  stored,              \* LSVPS: the pages its table holds, by page key
  page_cache,          \* DMMTrie::page_cache_: pages this commit has built
  active,              \* LSVPS: the active delta page of each pid
  lru,                 \* DMMTrie::lru_cache_: resident base pages, by pid and version
  page_versions,       \* DMMTrie::page_versions_: current and latest base version
  deltapage_versions,  \* DMMTrie::deltapage_versions_
  current_version,     \* DMMTrie::current_version_
  commit,              \* locals of CalcRootHash
  load,                \* locals of LoadPage and the page a read returns
  pc,                  \* where the running call is
  hist                 \* history: the slots each committed version wrote

vars == <<stored, page_cache, active, lru, page_versions, deltapage_versions,
          current_version, commit, load, pc, hist>>

-----------------------------------------------------------------------------
(* Data.                                                                   *)

Versions == 0..MaxVersion
Absent == -1
Key == [pid : Pid, version : Versions, delta : BOOLEAN]
BaseKey(p, v) == [pid |-> p, version |-> v, delta |-> FALSE]
DeltaKey(p, v) == [pid |-> p, version |-> v, delta |-> TRUE]
Item == Slot \X Versions
BasePage == [version : Versions, slots : [Slot -> Versions \cup {Absent}]]
DeltaPage == [last : Key, items : SUBSET Item]
ActivePage == [last : Key, items : SUBSET Item, count : Nat, bcount : Nat]
Blank == [version |-> 0, slots |-> [s \in Slot |-> Absent]]

ASSUME NoneAssumption ==
  None \notin BasePage /\ None \notin DeltaPage /\ None \notin Pid \X Versions

NewActive(p) ==
  [last |-> DeltaKey(p, 0), items |-> {}, count |-> 0, bcount |-> 0]

(* A frozen copy of an active delta page, as it goes to the page cache. *)
Frozen(a) == [last |-> a.last, items |-> a.items]

(* The active page after its copy was frozen under key k. *)
Cleared(a, k) == [a EXCEPT !.items = {}, !.count = 0, !.last = k]

(* The active page after one slot update. *)
Appended(a, p, s, v) ==
  [last |-> a.last, items |-> a.items \cup {<<s, v>>},
   count |-> a.count + Weight[p], bcount |-> a.bcount + Weight[p]]

(* The active page after a checkpoint under base key k. *)
MutantCheckpointedKeepsLast(a, k) == [a EXCEPT !.bcount = 0]
Checkpointed(a, k) == [a EXCEPT !.bcount = 0, !.last = k]

(* The base page after slot s was written at version v. *)
MutantWrittenNextVersion(page, s, v) ==
  [version |-> v + 1, slots |-> [page.slots EXCEPT ![s] = v]]
Written(page, s, v) == [version |-> v, slots |-> [page.slots EXCEPT ![s] = v]]

(* Td_: the delta page is full.  Tb_: a checkpoint is due.  At the end of a *)
(* page's updates every delta page that holds items is frozen.             *)
Full(a) == a.count >= Td
MutantCheckpointByDeltaCount(a) == a.count >= Tb
CheckpointDue(a) == a.bcount >= Tb
MutantFreezeOnlyFull(a) == Full(a)
FreezeDue(a) == a.count # 0

(* f with k mapped to x, when the condition holds. *)
PutIf(cond, f, k, x) == IF cond THEN [f EXCEPT ![k] = x] ELSE f

(* The update sets a batch produces: the root is updated, and a child page *)
(* is updated exactly when the slot above it is.                           *)
Updates ==
  {u \in [Pid -> SUBSET Slot] :
     /\ u[Root] # {}
     /\ \A p \in Pid : u[p] \subseteq SlotsOf[p]
     /\ \A p \in Pid, s \in Slot :
          Child[p][s] # None => (s \in u[p] <=> u[Child[p][s]] # {})}

NoUpdates == [p \in Pid |-> {}]
NoCommit == [version |-> 0, updates |-> NoUpdates, pid |-> Root, at |-> 0,
             todo |-> {}, exceed |-> FALSE]
NoLoad == [pid |-> Root, version |-> 0, back |-> "read", stack |-> <<>>,
           cur |-> DeltaKey(Root, 0), page |-> None]

(* The versions committed so far; no caller commits one again. *)
MutantForgetsCommitted == {}
Committed == {v \in Versions : \E p \in Pid : hist[p][v] # {}}

-----------------------------------------------------------------------------
Init ==
  /\ stored = [k \in Key |-> None]
  /\ page_cache = [k \in Key |-> None]
  /\ active = [p \in Pid |-> NewActive(p)]
  /\ lru = [p \in Pid |-> [v \in Versions |-> None]]
  /\ page_versions = [p \in Pid |-> [cur |-> 0, base |-> 0]]
  /\ deltapage_versions = [p \in Pid |-> {}]
  /\ current_version = 0
  /\ commit = NoCommit
  /\ load = NoLoad
  /\ pc = "idle"
  /\ hist = [p \in Pid |-> [v \in Versions |-> {}]]

-----------------------------------------------------------------------------
(* Lookups.                                                                *)

(* LSVPS::pageLookup: version 0 is never looked up. *)
pageLookup(k) == IF k.version = 0 THEN None ELSE stored[k]

(* DMMTrie::GetVersionUpperbound. *)
GetVersionUpperbound(p, v) ==
  LET larger == {x \in deltapage_versions[p] : x > v}
  IN IF deltapage_versions[p] = {} THEN 0
     ELSE IF larger = {} THEN current_version
     ELSE CHOOSE x \in larger : \A y \in larger : x <= y

(* LSVPS::LoadPage up to its loop: where the replay of p at v starts. *)
LoadStart(p, v, back) ==
  LET sentinel == IF v >= page_versions[p].base THEN None
                  ELSE pageLookup(DeltaKey(p, GetVersionUpperbound(p, v)))
      live == active[p].items
  IN [pid |-> p, version |-> v, back |-> back,
      stack |-> IF sentinel = None THEN <<live>> ELSE <<live, sentinel.items>>,
      cur |-> IF sentinel = None THEN active[p].last ELSE sentinel.last,
      page |-> None]

(* LSVPS::applyDelta: the items of a delta page up to version v, in the     *)
(* order of their versions.                                                *)
MutantDueAll(items, v) == items
Due(items, v) == {i \in items : i[2] <= v}
OfSlot(items, s) == {i \in items : i[1] = s}
LastVersion(items) ==
  CHOOSE x \in {i[2] : i \in items} : \A i \in items : i[2] <= x
applyDelta(page, items, v) ==
  LET due == Due(items, v)
  IN IF due = {} THEN page
     ELSE [version |-> LastVersion(due),
           slots |-> [s \in Slot |-> IF OfSlot(due, s) = {} THEN page.slots[s]
                                     ELSE LastVersion(OfSlot(due, s))]]

(* DMMTrie::PutPage when the cache is full: the victim is the page at the  *)
(* tail of the recency list, which is no page the running commit has       *)
(* touched because LruMax exceeds the number of pages a commit touches.    *)
Resident == {r \in Pid \X Versions : lru[r[1]][r[2]] # None}
Touched == IF load.back = "commit" THEN Pid \X {commit.version} ELSE {}
Victims == IF Cardinality(Resident) < LruMax THEN {None} ELSE Resident \ Touched
PutPage(p, v, page, victim) ==
  [q \in Pid |-> [w \in Versions |->
     IF q = p /\ w = v THEN page
     ELSE IF <<q, w>> = victim THEN None ELSE lru[q][w]]]

-----------------------------------------------------------------------------
(* DMMTrie::CalcRootHash.                                                  *)

(* The call: the batch put at version v is turned into the pages to update. *)
(* The callers (the Go wrapper, the workloads) never commit a version twice. *)
BeginCommit(v, u) ==
  /\ pc = "idle"
  /\ v >= current_version /\ v \notin Committed
  /\ current_version' = v
  /\ commit' = [NoCommit EXCEPT !.version = v, !.updates = u]
  /\ hist' = [p \in Pid |-> [hist[p] EXCEPT ![v] = u[p]]]
  /\ pc' = "pages"
  /\ UNCHANGED <<stored, page_cache, active, lru, page_versions,
                 deltapage_versions, load>>

Pending == {p \in Pid : commit.updates[p] # {}}
MutantParentFirst(p) == TRUE
ChildrenDone(p) == \A s \in commit.updates[p] : Child[p][s] \notin Pending

(* The next page, child pages before their parents: its latest version is  *)
(* fetched through GetPage, from the cache or by LoadPage.                 *)
PickPage(p) ==
  /\ pc = "pages"
  /\ p \in Pending
  /\ ChildrenDone(p)
  /\ LET old == page_versions[p].cur
     IN /\ commit' = [commit EXCEPT !.pid = p, !.at = old,
                                    !.todo = commit.updates[p],
                                    !.updates[p] = {}]
        /\ IF lru[p][old] # None
             THEN pc' = "open" /\ UNCHANGED load
             ELSE pc' = "walk" /\ load' = LoadStart(p, old, "commit")
  /\ UNCHANGED <<stored, page_cache, active, lru, page_versions,
                 deltapage_versions, current_version, hist>>

(* Whether the page goes straight to a base page, and the freeze of what   *)
(* the active delta page still holds in that case.                         *)
OpenPage ==
  LET p == commit.pid
      v == commit.version
      a == active[p]
      exceed == 2 * Cardinality(commit.todo) + a.count >= Td
      freeze == exceed /\ FreezeDue(a)
  IN /\ pc = "open"
     /\ commit' = [commit EXCEPT !.exceed = exceed]
     /\ page_cache' = PutIf(freeze, page_cache, DeltaKey(p, v), Frozen(a))
     /\ active' = PutIf(freeze, active, p, Cleared(a, DeltaKey(p, v)))
     /\ deltapage_versions' =
          PutIf(freeze, deltapage_versions, p, deltapage_versions[p] \cup {v})
     /\ pc' = "slots"
     /\ UNCHANGED <<stored, lru, page_versions, current_version, load, hist>>

(* BasePage::UpdatePage for one slot (the code takes them in key order).   *)
(* The page of an index slot must be resident: its hash is read there.     *)
UpdatePage(s) ==
  LET p == commit.pid
      v == commit.version
      page == Written(lru[p][commit.at], s, v)
      grown == IF commit.exceed THEN active[p]
               ELSE Appended(active[p], p, s, v)
      freeze == ~commit.exceed /\ Full(grown)
      rest == IF freeze THEN Cleared(grown, DeltaKey(p, v)) ELSE grown
      checkpoint == ~commit.exceed /\ CheckpointDue(rest)
      cached == PutIf(freeze, page_cache, DeltaKey(p, v), Frozen(grown))
  IN /\ pc = "slots"
     /\ s \in commit.todo
     /\ commit' = [commit EXCEPT !.todo = @ \ {s}]
     /\ lru' = [lru EXCEPT ![p][commit.at] = page]
     /\ active' = [active EXCEPT ![p] =
                     IF checkpoint THEN Checkpointed(rest, BaseKey(p, v))
                                   ELSE rest]
     /\ page_cache' = PutIf(checkpoint, cached, BaseKey(p, v), page)
     /\ deltapage_versions' =
          PutIf(freeze, deltapage_versions, p, deltapage_versions[p] \cup {v})
     /\ page_versions' =
          [page_versions EXCEPT ![p] =
             [cur |-> v, base |-> IF checkpoint THEN v ELSE @.base]]
     /\ pc' = IF Child[p][s] # None /\ lru[Child[p][s]][v] = None
                THEN "failed" ELSE "slots"
     /\ UNCHANGED <<stored, current_version, load, hist>>

(* DMMTrie::UpdatePageKey: the page moves from its old version to v. *)
MutantKeepsOldKey(p, old, v) == [lru EXCEPT ![p] = [@ EXCEPT ![v] = lru[p][old]]]
UpdatePageKey(p, old, v) ==
  [lru EXCEPT ![p] = [@ EXCEPT ![old] = None, ![v] = lru[p][old]]]

(* The end of the page loop: the base page when the delta page would have  *)
(* overflowed, the freeze of a non-empty delta page, and UpdatePageKey.    *)
ClosePage ==
  LET p == commit.pid
      v == commit.version
      page == lru[p][commit.at]
      a == IF commit.exceed THEN Checkpointed(active[p], BaseKey(p, v))
                            ELSE active[p]
      freeze == FreezeDue(a)
      cached == PutIf(commit.exceed, page_cache, BaseKey(p, v), page)
  IN /\ pc = "slots"
     /\ commit.todo = {}
     /\ page_cache' = PutIf(freeze, cached, DeltaKey(p, v), Frozen(a))
     /\ active' = [active EXCEPT ![p] =
                     IF freeze THEN Cleared(a, DeltaKey(p, v)) ELSE a]
     /\ deltapage_versions' =
          PutIf(freeze, deltapage_versions, p, deltapage_versions[p] \cup {v})
     /\ page_versions' =
          PutIf(commit.exceed, page_versions, p, [cur |-> v, base |-> v])
     /\ lru' = UpdatePageKey(p, commit.at, v)
     /\ pc' = "pages"
     /\ UNCHANGED <<stored, current_version, commit, load, hist>>

(* The store loop: every page built goes to the page table of LSVPS, whose *)
(* lookup answers with the first page stored under a key.                  *)
StorePages ==
  /\ pc = "pages"
  /\ Pending = {}
  /\ stored' = [k \in Key |-> IF stored[k] = None THEN page_cache[k]
                                                  ELSE stored[k]]
  /\ page_cache' = [k \in Key |-> None]
  /\ commit' = NoCommit
  /\ load' = NoLoad
  /\ pc' = "idle"
  /\ UNCHANGED <<active, lru, page_versions, deltapage_versions,
                 current_version, hist>>

-----------------------------------------------------------------------------
(* DMMTrie::GetPage and LSVPS::LoadPage.                                   *)

(* A read of page p at version v, as DMMTrie::Get and GetProof issue it.   *)
ReadPage(p, v) ==
  /\ pc = "idle"
  /\ IF lru[p][v] # None
       THEN /\ load' = [NoLoad EXCEPT !.pid = p, !.version = v,
                                      !.page = lru[p][v]]
            /\ pc' = "returned"
       ELSE /\ load' = LoadStart(p, v, "read")
            /\ pc' = "walk"
  /\ UNCHANGED <<stored, page_cache, active, lru, page_versions,
                 deltapage_versions, current_version, commit, hist>>

(* The loop along last_pagekey_: one delta page is pushed.                 *)
WalkChain ==
  /\ pc = "walk"
  /\ load.cur.delta /\ pageLookup(load.cur) # None
  /\ load' = [load EXCEPT !.stack = Append(@, pageLookup(load.cur).items),
                          !.cur = pageLookup(load.cur).last]
  /\ UNCHANGED <<stored, page_cache, active, lru, page_versions,
                 deltapage_versions, current_version, commit, pc, hist>>

(* The end of the chain: a blank page, a copy of a base page, or a throw   *)
(* when there is neither.                                                  *)
FindBase ==
  LET found == IF load.cur.version = 0 THEN Blank
               ELSE IF load.cur.delta THEN None
               ELSE pageLookup(load.cur)
  IN /\ pc = "walk"
     /\ ~(load.cur.delta /\ pageLookup(load.cur) # None)
     /\ load' = [load EXCEPT !.page = found]
     /\ pc' = IF found = None THEN "failed" ELSE "replay"
     /\ UNCHANGED <<stored, page_cache, active, lru, page_versions,
                    deltapage_versions, current_version, commit, hist>>

(* The replay: the delta page at the top of the stack is applied.          *)
MutantApplyWithoutPop ==
  /\ pc = "replay" /\ load.stack # <<>>
  /\ load' = [load EXCEPT !.page =
                 applyDelta(@, load.stack[Len(load.stack)], load.version)]
  /\ UNCHANGED <<stored, page_cache, active, lru, page_versions,
                 deltapage_versions, current_version, commit, pc, hist>>
ApplyDelta ==
  LET n == Len(load.stack)
  IN /\ pc = "replay"
     /\ n > 0
     /\ load' = [load EXCEPT
                   !.page = applyDelta(@, load.stack[n], load.version),
                   !.stack = SubSeq(@, 1, n - 1)]
     /\ UNCHANGED <<stored, page_cache, active, lru, page_versions,
                    deltapage_versions, current_version, commit, pc, hist>>

(* LoadPage returns: a page of an older version is not handed out.  GetPage *)
(* makes the page resident; a commit that got none starts from a new page.  *)
(* Deleting an evicted page without a root dereferences its null root.      *)
FinishLoad(victim) ==
  LET found == load.page.version >= load.version
      creating == ~found /\ load.back = "commit"
      at == IF creating THEN commit.version ELSE load.version
      page == IF creating THEN Blank ELSE load.page
      puts == found \/ creating
      crash == puts /\ victim # None /\ lru[victim[1]][victim[2]] = Blank
  IN /\ pc = "replay"
     /\ load.stack = <<>>
     /\ victim \in Victims
     /\ lru' = IF puts THEN PutPage(load.pid, at, page, victim) ELSE lru
     /\ IF load.back = "commit"
          THEN /\ commit' = [commit EXCEPT !.at = at]
               /\ load' = NoLoad
               /\ pc' = IF crash THEN "failed" ELSE "open"
          ELSE /\ load' = [load EXCEPT !.page = IF found THEN @ ELSE None]
               /\ pc' = IF crash THEN "failed" ELSE "returned"
               /\ UNCHANGED commit
     /\ UNCHANGED <<stored, page_cache, active, page_versions,
                    deltapage_versions, current_version, hist>>

(* The caller has the page. *)
Return ==
  /\ pc = "returned"
  /\ load' = NoLoad
  /\ pc' = "idle"
  /\ UNCHANGED <<stored, page_cache, active, lru, page_versions,
                 deltapage_versions, current_version, commit, hist>>

-----------------------------------------------------------------------------
(* LSVPS::ActiveDeltaPageCache gives the pool slot of p to another page and *)
(* takes a slot back when p is next used: the delta items are dropped, the  *)
(* last page key is kept beside the pool, and b_update_count_ is whatever   *)
(* the new slot was left with.                                              *)
EvictActive(p) ==
  /\ PoolEvicts
  /\ pc = "idle"
  /\ \E b \in 0..(Tb - 1) :
       active' = [active EXCEPT ![p] =
                    [last |-> @.last, items |-> {}, count |-> 0, bcount |-> b]]
  /\ UNCHANGED <<stored, page_cache, lru, page_versions, deltapage_versions,
                 current_version, commit, load, pc, hist>>

-----------------------------------------------------------------------------
CommitStep ==
  \/ \E p \in Pid : PickPage(p)
  \/ OpenPage
  \/ \E s \in Slot : UpdatePage(s)
  \/ ClosePage
  \/ StorePages

LoadStep ==
  \/ WalkChain
  \/ FindBase
  \/ ApplyDelta
  \/ \E victim \in (Pid \X Versions) \cup {None} : FinishLoad(victim)
  \/ Return

Next ==
  \/ \E v \in FirstVersion..MaxVersion, u \in Updates : BeginCommit(v, u)
  \/ \E p \in Pid, v \in ReadVersions : ReadPage(p, v)
  \/ \E p \in Pid : EvictActive(p)
  \/ CommitStep
  \/ LoadStep

(* The code is single threaded and a call never waits: a call that can     *)
(* take a step does.  Nothing obliges a caller to call.                    *)
Spec == Init /\ [][Next]_vars /\ WF_vars(CommitStep \/ LoadStep)

-----------------------------------------------------------------------------
(* What a page must contain.                                               *)

(* w is the last version up to u that wrote slot s of page p. *)
LastWrite(p, s, u, w) ==
  IF w = Absent
    THEN \A v \in 0..u : s \notin hist[p][v]
    ELSE /\ w \in 0..u /\ s \in hist[p][w]
         /\ \A v \in (w + 1)..u : s \notin hist[p][v]

PageExact(p, u, page) ==
  /\ page.version = u
  /\ \A s \in Slot : LastWrite(p, s, u, page.slots[s])

(* The reads LoadPage can answer: at or above the latest checkpoint, or    *)
(* when the first later delta page is not cut off by a checkpoint after u. *)
Answerable(p, u) ==
  \/ u >= page_versions[p].base
  \/ \E x \in deltapage_versions[p] :
       /\ x > u
       /\ \A y \in deltapage_versions[p] : y > u => x <= y
       /\ \A b \in (u + 1)..x : stored[BaseKey(p, b)] = None

-----------------------------------------------------------------------------
(* Properties.                                                             *)

(* A table of pages has delta pages under delta keys and base pages under  *)
(* base keys: the casts of LoadPage and StorePage rely on it.              *)
PageOf(k) == IF k.delta THEN DeltaPage ELSE BasePage
PageTable(f) ==
  /\ f = [k \in Key |-> f[k]]
  /\ \A k \in Key : f[k] \in PageOf(k) \cup {None}

CommitLocals == [version : Versions, updates : [Pid -> SUBSET Slot], pid : Pid,
                 at : Versions, todo : SUBSET Slot, exceed : BOOLEAN]
LoadLocals == [pid : Pid, version : Versions, back : {"read", "commit"},
               stack : Seq(SUBSET Item), cur : Key, page : BasePage \cup {None}]

(* The types of the state. *)
TypeOK ==
  /\ PageTable(stored)
  /\ PageTable(page_cache)
  /\ active \in [Pid -> ActivePage]
  /\ lru \in [Pid -> [Versions -> BasePage \cup {None}]]
  /\ page_versions \in [Pid -> [cur : Versions, base : Versions]]
  /\ deltapage_versions \in [Pid -> SUBSET Versions]
  /\ current_version \in Versions
  /\ commit \in CommitLocals
  /\ load \in LoadLocals
  /\ pc \in {"idle", "pages", "open", "slots", "walk", "replay", "returned",
             "failed"}
  /\ hist \in [Pid -> [Versions -> SUBSET Slot]]

(* A read that LoadPage can answer returns the page exactly as the commits *)
(* up to that version left it, whatever was frozen, checkpointed, evicted  *)
(* from the cache or rebuilt in between; and a version that wrote the page *)
(* is always found.                                                        *)
ReadExact ==
  (pc = "returned" /\ Answerable(load.pid, load.version)) =>
    /\ load.page # None => PageExact(load.pid, load.version, load.page)
    /\ hist[load.pid][load.version] # {} => load.page # None

(* The same for every version, as the history tests expect of Get. *)
HistoryExact ==
  (pc = "returned" /\ load.version \in Committed) =>
    /\ load.page # None => PageExact(load.pid, load.version, load.page)
    /\ hist[load.pid][load.version] # {} => load.page # None

(* Pages stay in lru_cache_ and are changed there in place by later        *)
(* commits: between calls an entry is still exactly the page of the        *)
(* version it is filed under, so a hit and a reload agree.                 *)
ResidentExact ==
  pc = "idle" =>
    \A p \in Pid, u \in Versions :
      lru[p][u] # None /\ Answerable(p, u) => PageExact(p, u, lru[p][u])

(* No call throws: LoadPage always finds the base page its chain ends at,  *)
(* the page of a child is resident when its parent is hashed, and no page  *)
(* without a root is deleted.                                              *)
NeverFails == pc # "failed"

(* The pool drops the items of an active delta page when it reuses the     *)
(* slot; nothing is lost because between calls no active page holds any.   *)
NothingUnfrozen == pc = "idle" => \A p \in Pid : active[p].items = {}

(* A checkpoint bounds the replay: the delta items a read of the latest    *)
(* version applies stay below one delta page and one checkpoint interval.  *)
ReplayBounded ==
  pc = "idle" =>
    \A p \in Pid :
      LET replayed == UNION {stored[DeltaKey(p, v)].items :
                         v \in {w \in deltapage_versions[p] :
                                  w >= page_versions[p].base}}
      IN Weight[p] * Cardinality(replayed) <= (Td - 1) + (Tb - 1)

(* The table answers a lookup with the first page stored under a key, so   *)
(* no commit may build a page under a key that is already stored.          *)
NoPageShadowed ==
  [][\A k \in Key : page_cache[k] # None /\ page_cache'[k] = None
       => stored[k] = None]_vars

(* Every call returns: the page loop ends, and so does the walk along      *)
(* last_pagekey_.                                                          *)
CallsReturn == (pc # "idle") ~> (pc = "idle")

=============================================================================
