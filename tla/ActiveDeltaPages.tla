-------------------------- MODULE ActiveDeltaPages --------------------------
(***************************************************************************)
(* The pool of active delta pages (LSVPS::ActiveDeltaPageCache): a fixed   *)
(* array of page slots, a queue of the free ones, a map from the cached    *)
(* pids to their slots, and the last page key of every page stored empty.  *)
(* When the pool is full a victim's slot is cleared and reused; only       *)
(* pid_to_last_pagekey_ remembers the victim.  Get returns a pointer into  *)
(* the array, which DMMTrie::CalcRootHash holds while it updates the page  *)
(* and LSVPS::LoadPage reads at once.                                      *)
(*                                                                         *)
(* One process on a fresh directory: delta_cache.dat then only holds pages *)
(* that Store found with items in them.                                    *)
(***************************************************************************)
EXTENDS Integers, Sequences, FiniteSets

CONSTANTS
  Pid, Weight, Td, Tb, MaxVersion, MaxUpdates, None,  \* as in ActivePages
  Root,                                               \* the empty pid
  max_size                                            \* slots of the pool

VARIABLES
  page_pool,            \* the pages in the slots
  free_pages,           \* queue of free slots
  cache,                \* the slot of a cached pid
  pid_to_last_pagekey,  \* the last page key of a pid stored empty
  delta_cache,          \* delta_cache.dat: the page of a pid stored with items
  handed,               \* the pointer the last Get returned: its pid and slot
  call,                 \* the page CalcRootHash is updating
  since                 \* history: updates of a pid since its last base page

vars == <<page_pool, free_pages, cache, pid_to_last_pagekey, delta_cache, handed,
          call, since>>

-----------------------------------------------------------------------------
(* The page Get makes of p in a slot that was left with b_update_count_ b:  *)
(* the page on disk, or a cleared one with p's last page key.              *)
Loaded(p, b) ==
  IF delta_cache[p] # None THEN [delta_cache[p] EXCEPT !.bcount = 0]
  ELSE [last |-> IF pid_to_last_pagekey[p] # None THEN pid_to_last_pagekey[p]
                 ELSE [pid |-> p, version |-> 0, delta |-> TRUE],
        count |-> 0, bcount |-> b]

(* The page of every pid, in its slot or as Get would load it. *)
ActiveOf(p) == IF cache[p] # None THEN page_pool[cache[p]] ELSE Loaded(p, 0)
Active == [p \in Pid |-> ActiveOf(p)]

Promise == INSTANCE ActivePages WITH active <- Active

Pos == 0..(max_size - 1)

ASSUME PoolAssumption ==
  /\ max_size \in Nat \ {0} /\ IsFiniteSet(Pid) /\ Root \in Pid
  /\ Weight \in [Pid -> {1, 2}]
  /\ Td \in Nat \ {0} /\ Tb \in Nat \ {0}
  /\ MaxVersion \in Nat /\ MaxUpdates \in Nat
ASSUME NoneAssumption ==
  /\ None \notin Pos /\ None \notin Pid
  /\ None \notin Promise!Key /\ None \notin Promise!Page /\ None \notin Promise!Call

-----------------------------------------------------------------------------
Init ==
  /\ page_pool = [i \in Pos |-> Promise!NewPage(Root)]
  /\ free_pages = [i \in 1..max_size |-> i - 1]
  /\ cache = [p \in Pid |-> None]
  /\ pid_to_last_pagekey = [p \in Pid |-> None]
  /\ delta_cache = [p \in Pid |-> None]
  /\ handed = None
  /\ call = None
  /\ since = [p \in Pid |-> 0]

Cached == {p \in Pid : cache[p] # None}

(* evictIfNeeded takes the first entry of an unordered map: any victim. *)
Victims == IF Cardinality(Cached) >= max_size THEN Cached ELSE {None}

(* The free queue once the victim's slot is back in it. *)
MutantReleased(victim) ==
  IF victim = None THEN free_pages ELSE Append(free_pages, None)
Released(victim) ==
  IF victim = None THEN free_pages ELSE Append(free_pages, cache[victim])

(* The slot map once p has slot i and the victim none. *)
MutantReassigned(p, victim, i) == [cache EXCEPT ![p] = i]
Reassigned(p, victim, i) ==
  [q \in Pid |-> IF q = p THEN i ELSE IF q = victim THEN None ELSE cache[q]]

(* ClearDeltaPage leaves b_update_count_ as it is, and the page Get makes  *)
(* overwrites the rest: a victim's slot need not be cleared here.          *)
Swept(victim) ==
  IF victim = None THEN page_pool
  ELSE [page_pool EXCEPT ![cache[victim]].count = 0]

GetCached(p) ==
  /\ call = None /\ cache[p] # None
  /\ handed' = [pid |-> p, pos |-> cache[p]]
  /\ UNCHANGED <<page_pool, free_pages, cache, pid_to_last_pagekey, delta_cache,
                 call, since>>

GetLoaded(p, victim) ==
  LET i == Head(Released(victim))
  IN /\ call = None /\ cache[p] = None /\ victim \in Victims
     /\ page_pool' = [Swept(victim) EXCEPT ![i] = Loaded(p, @.bcount)]
     /\ free_pages' = Tail(Released(victim))
     /\ cache' = Reassigned(p, victim, i)
     /\ handed' = [pid |-> p, pos |-> i]
     /\ UNCHANGED <<pid_to_last_pagekey, delta_cache, call, since>>

-----------------------------------------------------------------------------
(* CalcRootHash, through the pointer it was handed.                        *)

Page == page_pool[handed.pos]

Begin(v, n) ==
  /\ call = None /\ handed # None /\ v > Page.last.version
  /\ call' = [pid |-> handed.pid, version |-> v,
              exceed |-> Promise!Exceeds(Page, n), left |-> n]
  /\ page_pool' = [page_pool EXCEPT ![handed.pos] = Promise!Opened(@, call')]
  /\ UNCHANGED <<free_pages, cache, pid_to_last_pagekey, delta_cache, handed, since>>

Update ==
  /\ call # None /\ call.left > 0
  /\ page_pool' = [page_pool EXCEPT ![handed.pos] = Promise!Updated(@, call)]
  /\ call' = [call EXCEPT !.left = @ - 1]
  /\ since' = [since EXCEPT ![call.pid] =
                 IF ~call.exceed /\ page_pool'[handed.pos].bcount = 0 THEN 0
                 ELSE @ + Weight[call.pid]]
  /\ UNCHANGED <<free_pages, cache, pid_to_last_pagekey, delta_cache, handed>>

(* StoreActiveDeltaPage of a page: an empty page leaves its last page key, *)
(* a page with items goes to the file.                                     *)
MutantStore(p, a) == UNCHANGED <<pid_to_last_pagekey, delta_cache>>
Store(p, a) ==
  IF a.count = 0
  THEN /\ pid_to_last_pagekey' = [pid_to_last_pagekey EXCEPT ![p] = a.last]
       /\ UNCHANGED delta_cache
  ELSE /\ delta_cache' = [delta_cache EXCEPT ![p] = a]
       /\ pid_to_last_pagekey' = [pid_to_last_pagekey EXCEPT ![p] = None]

End ==
  /\ call # None /\ call.left = 0
  /\ page_pool' = [page_pool EXCEPT ![handed.pos] = Promise!Closed(@, call)]
  /\ Store(call.pid, page_pool'[handed.pos])
  /\ call' = None
  /\ since' = [since EXCEPT ![call.pid] = IF call.exceed THEN 0 ELSE @]
  /\ UNCHANGED <<free_pages, cache, handed>>

Next ==
  \/ \E p \in Pid : GetCached(p)
  \/ \E p \in Pid, victim \in Pid \cup {None} : GetLoaded(p, victim)
  \/ \E v \in Promise!Versions, n \in 1..MaxUpdates : Begin(v, n)
  \/ Update
  \/ End

Spec == Init /\ [][Next]_vars

-----------------------------------------------------------------------------
(* Properties.                                                             *)

Slots == 1..Len(free_pages)

(* Every variable keeps to its declared shape. *)
TypeOK ==
  /\ page_pool \in [Pos -> Promise!Page]
  /\ free_pages \in Seq(Pos)
  /\ cache \in [Pid -> Pos \cup {None}]
  /\ pid_to_last_pagekey \in [Pid -> Promise!Key \cup {None}]
  /\ delta_cache \in [Pid -> Promise!Page \cup {None}]
  /\ handed \in [pid : Pid, pos : Pos] \cup {None}
  /\ call \in Promise!Call \cup {None}
  /\ since \in [Pid -> Nat]

(* A slot belongs to one cached page or waits once in the free queue:      *)
(* whatever was evicted and reloaded, no two pages share a slot and no     *)
(* slot is lost.                                                           *)
OneOwner ==
  /\ \A p, q \in Cached : cache[p] = cache[q] => p = q
  /\ \A m, n \in Slots : free_pages[m] = free_pages[n] => m = n
  /\ \A i \in Pos : (\E p \in Cached : cache[p] = i) # (\E m \in Slots : free_pages[m] = i)

(* The pool keeps its promise: evicting and reloading pages changes nothing *)
(* the trie can see but update counts of pages without items, so no update *)
(* is dropped, no chain head is lost and no page gets another's.           *)
Implements == Promise!Spec

(* "Each page generates a checkpoint as BasePage after every Tb updates":  *)
(* between commits no page has Tb updates since its last base page.        *)
CheckpointInTime == call = None => \A p \in Pid : since[p] < Tb

=============================================================================
