------------------------ MODULE VersionedPages_proofs ------------------------
(***************************************************************************)
(* Proofs about VersionedPages, for every trie shape, every Td and Tb and  *)
(* every bound on versions.  First types and evictions; then that the      *)
(* pages LoadPage rebuilds are the pages the commits left.                 *)
(*                                                                         *)
(* A page is rebuilt from a chain: the delta pages that last_pagekey_      *)
(* links, from the newest back to a base page or to the beginning, are     *)
(* pushed on a stack and applied in the opposite order.  Data says what a  *)
(* stack and a half rebuilt page must be; Chain says what a commit leaves  *)
(* in the page table; Walk follows the links; Space, Order and Core are    *)
(* the layers of the inductive invariant.  Success and Bound add what is   *)
(* needed for calls to succeed and for replays to stay short.              *)
(***************************************************************************)
EXTENDS VersionedPages, WellFoundedInduction, SequenceTheorems, FiniteSetTheorems, TLAPS

(* A non-empty set of naturals has a least element, a bounded one also a    *)
(* greatest: what every CHOOSE of a first or a last rests on.               *)
LEMMA Least ==
  ASSUME NEW S \in SUBSET Nat, S # {}
  PROVE  \E m \in S : \A k \in S : m <= k
<1> DEFINE R == OpToRel(<, Nat)
<1>1. IsWellFoundedOn(R, Nat)
  BY NatLessThanWellFounded
<1>2. \A r : r \in R <=> r \in Nat \X Nat /\ r[1] < r[2]
  BY DEF OpToRel
<1> HIDE DEF R
<1>3. PICK x \in S : \A y \in S : ~ (<<y, x>> \in R)
  BY <1>1, WFMin
<1>4. \A y \in S : ~ (y < x)
  BY <1>2, <1>3
<1> QED
  BY <1>4

LEMMA Greatest ==
  ASSUME NEW N \in Nat, NEW S \in SUBSET (0..N), S # {}
  PROVE  \E m \in S : \A k \in S : k <= m
<1> DEFINE D == {N - x : x \in S}
<1>1. D # {}
  OBVIOUS
<1>2. \A x \in S : N - x \in Nat
  OBVIOUS
<1>3. D \in SUBSET Nat
  BY <1>2
<1>4. PICK d \in D : \A e \in D : d <= e
  <2> HIDE DEF D
  <2> QED BY <1>1, <1>3, Least
<1>5. PICK m \in S : d = N - m
  BY <1>4
<1>6. \A k \in S : N - m <= N - k
  BY <1>4, <1>5
<1> QED
  BY <1>6

(* What the types rest on: a page being updated is resident under the key   *)
(* the commit remembers, and a page being replayed exists.                  *)
Resides ==
  /\ pc \in {"open", "slots"} => lru[commit.pid][commit.at] # None
  /\ pc = "replay" => load.page # None
  /\ pc \in {"walk", "replay"} /\ load.back = "commit" => load.pid = commit.pid

TypeInv == TypeOK /\ Resides

(* What the layer does under any caller: the trie above it reads pages at   *)
(* every version, and moves current_version_ on when the first value of a   *)
(* batch is put, before the batch is committed (DMMTrie::Put).              *)
Advance(v) ==
  /\ pc = "idle"
  /\ v >= current_version /\ v \notin Committed
  /\ current_version' = v
  /\ UNCHANGED <<stored, page_cache, active, lru, page_versions,
                 deltapage_versions, commit, load, pc, hist>>

LayerNext ==
  \/ \E v \in FirstVersion..MaxVersion, u \in Updates : BeginCommit(v, u)
  \/ \E v \in FirstVersion..MaxVersion : Advance(v)
  \/ \E p \in Pid, v \in Versions : ReadPage(p, v)
  \/ \E p \in Pid : EvictActive(p)
  \/ CommitStep
  \/ LoadStep

(* The steps of the specification are among them. *)
LEMMA NextIsLayerNext == [Next]_vars => [LayerNext]_vars
<1>1. ReadVersions \subseteq Versions
  BY ConstantsAssumption DEF Versions
<1> QED
  BY <1>1 DEF Next, LayerNext

(* The values the helpers build have the types of the state. *)
LEMMA KeyTypes ==
  ASSUME NEW p \in Pid, NEW v \in Versions
  PROVE  BaseKey(p, v) \in Key /\ DeltaKey(p, v) \in Key
         /\ ~BaseKey(p, v).delta /\ DeltaKey(p, v).delta
BY DEF BaseKey, DeltaKey, Key

LEMMA BlankType == Blank \in BasePage
BY ConstantsAssumption DEF Blank, BasePage, Versions, Absent

LEMMA ActiveTypes ==
  ASSUME NEW a \in ActivePage, NEW k \in Key
  PROVE  /\ Frozen(a) \in DeltaPage
         /\ Cleared(a, k) \in ActivePage
         /\ Checkpointed(a, k) \in ActivePage
BY DEF ActivePage, DeltaPage, Frozen, Cleared, Checkpointed

LEMMA AppendedType ==
  ASSUME NEW a \in ActivePage, NEW p \in Pid, NEW s \in Slot, NEW v \in Versions
  PROVE  Appended(a, p, s, v) \in ActivePage
<1>1. Weight[p] \in Nat
  BY ConstantsAssumption
<1>2. <<s, v>> \in Item
  BY DEF Item
<1>3. /\ a.last \in Key /\ a.items \in SUBSET Item
      /\ a.count \in Nat /\ a.bcount \in Nat
  BY DEF ActivePage
<1>4. a.items \cup {<<s, v>>} \in SUBSET Item
  BY <1>2, <1>3
<1>5. a.count + Weight[p] \in Nat /\ a.bcount + Weight[p] \in Nat
  BY <1>1, <1>3
<1> QED
  BY <1>3, <1>4, <1>5 DEF ActivePage, Appended

LEMMA WrittenType ==
  ASSUME NEW page \in BasePage, NEW s \in Slot, NEW v \in Versions
  PROVE  Written(page, s, v) \in BasePage
BY DEF BasePage, Written, Versions

LEMMA PageTableUpdate ==
  ASSUME NEW f, PageTable(f), NEW k \in Key, NEW x \in PageOf(k) \cup {None},
         NEW c \in BOOLEAN
  PROVE  PageTable(PutIf(c, f, k, x))
BY DEF PageTable, PutIf

LEMMA LastVersionIsGreatest ==
  ASSUME NEW items \in SUBSET Item, items # {}
  PROVE  /\ \E i \in items : LastVersion(items) = i[2]
         /\ \A i \in items : i[2] <= LastVersion(items)
         /\ LastVersion(items) \in Versions
<1> DEFINE S == {i[2] : i \in items}
<1>1. S \in SUBSET Versions /\ S # {}
  BY DEF Item
<1>2. \E m \in S : \A k \in S : k <= m
  <2> HIDE DEF S
  <2> QED BY <1>1, Greatest, ConstantsAssumption DEF Versions
<1>3. \E m \in S : \A i \in items : i[2] <= m
  BY <1>2
<1>4. LastVersion(items) = CHOOSE x \in S : \A i \in items : i[2] <= x
  BY DEF LastVersion
<1>5. LastVersion(items) \in S /\ \A i \in items : i[2] <= LastVersion(items)
  <2> HIDE DEF S
  <2> QED BY <1>3, <1>4
<1> QED
  BY <1>1, <1>5

(* applyDelta either leaves the page alone or gives every slot with a due  *)
(* item the greatest due version of the slot.                              *)
LEMMA ApplyDeltaResult ==
  ASSUME NEW page \in BasePage, NEW items \in SUBSET Item, NEW v \in Versions
  PROVE  /\ applyDelta(page, items, v) \in BasePage
         /\ Due(items, v) = {} => applyDelta(page, items, v) = page
         /\ Due(items, v) # {} =>
              /\ \E i \in Due(items, v) : applyDelta(page, items, v).version = i[2]
              /\ \A i \in Due(items, v) : i[2] <= applyDelta(page, items, v).version
         /\ \A s \in Slot :
              \/ /\ applyDelta(page, items, v).slots[s] = page.slots[s]
                 /\ \A i \in Due(items, v) : i[1] # s
              \/ /\ <<s, applyDelta(page, items, v).slots[s]>> \in Due(items, v)
                 /\ \A i \in Due(items, v) :
                      i[1] = s => i[2] <= applyDelta(page, items, v).slots[s]
<1> DEFINE due == Due(items, v)
           q == applyDelta(page, items, v)
<1>1. due \in SUBSET Item
  BY DEF Due
<1>2. CASE due = {}
  BY <1>2 DEF applyDelta
<1>3. CASE due # {}
  <2> DEFINE slot(s) == IF OfSlot(due, s) = {} THEN page.slots[s]
                        ELSE LastVersion(OfSlot(due, s))
  <2>1. q = [version |-> LastVersion(due), slots |-> [s \in Slot |-> slot(s)]]
    BY <1>3 DEF applyDelta
  <2>2. \A s \in Slot : OfSlot(due, s) \in SUBSET Item
    BY <1>1 DEF OfSlot
  <2>3. ASSUME NEW s \in Slot
        PROVE  /\ slot(s) \in Versions \cup {Absent}
               /\ \/ /\ slot(s) = page.slots[s]
                     /\ \A i \in due : i[1] # s
                  \/ /\ <<s, slot(s)>> \in due
                     /\ \A i \in due : i[1] = s => i[2] <= slot(s)
    <3>1. CASE OfSlot(due, s) = {}
      <4>1. \A i \in due : i[1] # s
        BY <3>1 DEF OfSlot
      <4>2. page.slots[s] \in Versions \cup {Absent}
        BY DEF BasePage
      <4> QED BY <3>1, <4>1, <4>2
    <3>2. CASE OfSlot(due, s) # {}
      <4> DEFINE w == LastVersion(OfSlot(due, s))
      <4>1. /\ \E i \in OfSlot(due, s) : w = i[2]
            /\ \A i \in OfSlot(due, s) : i[2] <= w
            /\ w \in Versions
        BY <2>2, <3>2, LastVersionIsGreatest
      <4> HIDE DEF w
      <4>2. PICK i \in OfSlot(due, s) : w = i[2]
        BY <4>1
      <4>3. i \in due /\ i[1] = s /\ i = <<i[1], i[2]>>
        BY <1>1, <4>2 DEF OfSlot, Item
      <4>4. <<s, w>> \in due
        BY <4>2, <4>3
      <4>5. \A j \in due : j[1] = s => j[2] <= w
        BY <4>1 DEF OfSlot
      <4>6. slot(s) = w
        BY <3>2 DEF w
      <4> QED BY <4>1, <4>4, <4>5, <4>6
    <3> QED BY <3>1, <3>2
  <2>4. /\ \E i \in due : LastVersion(due) = i[2]
        /\ \A i \in due : i[2] <= LastVersion(due)
        /\ LastVersion(due) \in Versions
    BY <1>1, <1>3, LastVersionIsGreatest
  <2>7. ASSUME NEW s \in Slot
        PROVE  \/ /\ q.slots[s] = page.slots[s]
                  /\ \A i \in due : i[1] # s
               \/ /\ <<s, q.slots[s]>> \in due
                  /\ \A i \in due : i[1] = s => i[2] <= q.slots[s]
    <3>1. q.slots[s] = slot(s)
      BY <2>1
    <3> HIDE DEF slot, due, q
    <3> QED BY <2>3, <3>1
  <2>5. q \in BasePage
    <3> HIDE DEF slot, due, q
    <3> QED BY <2>1, <2>3, <2>4 DEF BasePage
  <2>6. q.version = LastVersion(due)
    BY <2>1
  <2> QED BY <1>3, <2>4, <2>5, <2>6, <2>7
<1> QED
  BY <1>2, <1>3

-----------------------------------------------------------------------------
LEMMA LoadStartType ==
  ASSUME TypeOK, NEW p \in Pid, NEW v \in Versions,
         NEW back \in {"read", "commit"}
  PROVE  LoadStart(p, v, back) \in LoadLocals
<1> DEFINE k == DeltaKey(p, GetVersionUpperbound(p, v))
           sentinel == IF v >= page_versions[p].base THEN None ELSE pageLookup(k)
<1> USE DEF LoadLocals
<1>1. active[p].items \in SUBSET Item /\ active[p].last \in Key
  BY DEF TypeOK, ActivePage
<1>2. sentinel \in DeltaPage \cup {None}
  <2>1. GetVersionUpperbound(p, v) \in Versions
    <3> DEFINE larger == {x \in deltapage_versions[p] : x > v}
    <3>1. larger \in SUBSET Nat
      BY DEF TypeOK, Versions
    <3>2. larger # {} =>
            (CHOOSE x \in larger : \A y \in larger : x <= y) \in larger
      <4> HIDE DEF larger
      <4> QED BY <3>1, Least
    <3>3. larger \in SUBSET Versions
      BY DEF TypeOK
    <3> QED
      BY <3>2, <3>3, ConstantsAssumption
      DEF GetVersionUpperbound, TypeOK, Versions
  <2>2. k \in Key /\ k.delta
    BY <2>1, KeyTypes
  <2> HIDE DEF k
  <2>3. stored[k] \in DeltaPage \cup {None}
    BY <2>2 DEF TypeOK, PageTable, PageOf
  <2> QED BY <2>3 DEF pageLookup
<1>3. sentinel # None => sentinel.items \in SUBSET Item /\ sentinel.last \in Key
  BY <1>2 DEF DeltaPage
<1>4. LoadStart(p, v, back) =
        [pid |-> p, version |-> v, back |-> back,
         stack |-> IF sentinel = None THEN <<active[p].items>>
                   ELSE <<active[p].items, sentinel.items>>,
         cur |-> IF sentinel = None THEN active[p].last ELSE sentinel.last,
         page |-> None]
  BY DEF LoadStart
<1> HIDE DEF sentinel
<1>5. CASE sentinel = None
  <2>1. <<active[p].items>> \in Seq(SUBSET Item)
    BY <1>1
  <2> QED BY <1>1, <1>4, <1>5, <2>1
<1>6. CASE sentinel # None
  <2>1. <<active[p].items, sentinel.items>> \in Seq(SUBSET Item)
    BY <1>1, <1>3, <1>6
  <2> QED BY <1>1, <1>3, <1>4, <1>6, <2>1
<1> QED
  BY <1>5, <1>6

LEMMA InitTypes == Init => TypeInv
<1> SUFFICES ASSUME Init PROVE TypeInv
  OBVIOUS
<1> USE ConstantsAssumption DEF Init
<1>1. 0 \in Versions
  BY DEF Versions
<1>2. PageTable(stored) /\ PageTable(page_cache)
  BY DEF PageTable
<1>3. active \in [Pid -> ActivePage]
  BY <1>1, KeyTypes DEF NewActive, ActivePage
<1>4. commit \in CommitLocals
  BY <1>1 DEF NoCommit, NoUpdates, CommitLocals
<1>5. load \in LoadLocals
  BY <1>1, KeyTypes DEF NoLoad, LoadLocals
<1> QED
  BY <1>1, <1>2, <1>3, <1>4, <1>5 DEF TypeInv, TypeOK, Resides

(* One case per action. *)
LEMMA NextTypes == TypeInv /\ [LayerNext]_vars => TypeInv'
<1> SUFFICES ASSUME TypeInv, [LayerNext]_vars PROVE TypeInv'
  OBVIOUS
<1> USE ConstantsAssumption, NoneAssumption
<1>0. TypeOK /\ Resides
  BY DEF TypeInv
<1>a. /\ commit.pid \in Pid /\ commit.version \in Versions
      /\ commit.at \in Versions /\ commit.todo \in SUBSET Slot
      /\ commit.updates \in [Pid -> SUBSET Slot]
      /\ active[commit.pid] \in ActivePage
      /\ 0 \in Versions /\ Blank \in BasePage
  BY <1>0, BlankType DEF TypeOK, CommitLocals, Versions
<1>b. /\ load.pid \in Pid /\ load.version \in Versions /\ load.cur \in Key
      /\ load.back \in {"read", "commit"} /\ load.stack \in Seq(SUBSET Item)
      /\ load.page \in BasePage \cup {None}
  BY <1>0 DEF TypeOK, LoadLocals
<1>c. NoCommit \in CommitLocals /\ NoLoad \in LoadLocals
  BY <1>a, KeyTypes DEF NoCommit, NoUpdates, NoLoad, CommitLocals, LoadLocals
<1>1. ASSUME NEW v \in FirstVersion..MaxVersion, NEW u \in Updates,
             BeginCommit(v, u)
      PROVE  TypeInv'
  <2>1. v \in Versions /\ u \in [Pid -> SUBSET Slot]
    BY DEF Versions, Updates
  <2>2. commit' \in CommitLocals
    BY <1>1, <1>c, <2>1 DEF BeginCommit, CommitLocals, NoCommit
  <2>3. hist' \in [Pid -> [Versions -> SUBSET Slot]]
    BY <1>0, <1>1, <2>1 DEF BeginCommit, TypeOK
  <2> QED
    BY <1>0, <1>1, <2>1, <2>2, <2>3 DEF BeginCommit, TypeInv, TypeOK, Resides
<1>2. ASSUME NEW p \in Pid, NEW v \in Versions, ReadPage(p, v)
      PROVE  TypeInv'
  <2>1. v \in Versions
    OBVIOUS
  <2>2. load' \in LoadLocals
    <3>1. CASE lru[p][v] # None
      <4>1. lru[p][v] \in BasePage
        BY <1>0, <2>1, <3>1 DEF TypeOK
      <4>2. load' = [NoLoad EXCEPT !.pid = p, !.version = v, !.page = lru[p][v]]
        BY <1>2, <3>1 DEF ReadPage
      <4> QED BY <1>c, <2>1, <4>1, <4>2 DEF LoadLocals
    <3>2. CASE lru[p][v] = None
      BY <1>0, <1>2, <2>1, <3>2, LoadStartType DEF ReadPage
    <3> QED BY <3>1, <3>2
  <2> QED
    BY <1>0, <1>2, <2>2, LoadStartType
    DEF ReadPage, TypeInv, TypeOK, Resides, LoadStart
<1>3. ASSUME NEW p \in Pid, EvictActive(p)
      PROVE  TypeInv'
  <2>1. active' \in [Pid -> ActivePage]
    BY <1>0, <1>3 DEF EvictActive, TypeOK, ActivePage
  <2> QED
    BY <1>0, <1>3, <2>1 DEF EvictActive, TypeInv, TypeOK, Resides
<1>4. ASSUME NEW p \in Pid, PickPage(p)
      PROVE  TypeInv'
  <2> DEFINE old == page_versions[p].cur
  <2>1. old \in Versions
    BY <1>0 DEF TypeOK
  <2>2. commit' \in CommitLocals
    BY <1>0, <1>4, <1>a, <2>1 DEF PickPage, TypeOK, CommitLocals
  <2>3. load' \in LoadLocals
    BY <1>0, <1>4, <2>1, LoadStartType DEF PickPage, TypeOK
  <2>4. commit'.pid = p /\ commit'.at = old
    BY <1>0, <1>4 DEF PickPage, TypeOK, CommitLocals
  <2>5. pc' = "walk" => load'.pid = p
    BY <1>4 DEF PickPage, LoadStart
  <2> QED
    BY <1>0, <1>4, <2>2, <2>3, <2>4, <2>5
    DEF PickPage, TypeInv, TypeOK, Resides
<1>5. CASE OpenPage
  <2> DEFINE p == commit.pid
             k == DeltaKey(p, commit.version)
  <2>1. k \in Key /\ k.delta
    BY <1>a, KeyTypes
  <2>2. Frozen(active[p]) \in DeltaPage /\ Cleared(active[p], k) \in ActivePage
    BY <1>a, <2>1, ActiveTypes
  <2>3. PageTable(page_cache')
    BY <1>0, <1>5, <2>1, <2>2, PageTableUpdate DEF OpenPage, TypeOK, PageOf
  <2>4. active' \in [Pid -> ActivePage]
    BY <1>0, <1>5, <1>a, <2>2 DEF OpenPage, TypeOK, PutIf
  <2>5. deltapage_versions' \in [Pid -> SUBSET Versions]
    BY <1>0, <1>5, <1>a DEF OpenPage, TypeOK, PutIf
  <2>6. commit' \in CommitLocals /\ commit'.pid = p /\ commit'.at = commit.at
    <3> DEFINE exceed == 2 * Cardinality(commit.todo) + active[p].count >= Td
    <3>1. commit' = [commit EXCEPT !.exceed = exceed]
      BY <1>5 DEF OpenPage
    <3>2. exceed \in BOOLEAN
      OBVIOUS
    <3> HIDE DEF exceed
    <3> QED BY <1>0, <3>1, <3>2 DEF TypeOK, CommitLocals
  <2> QED
    BY <1>0, <1>5, <2>3, <2>4, <2>5, <2>6
    DEF OpenPage, TypeInv, TypeOK, Resides
<1>6. ASSUME NEW s \in Slot, UpdatePage(s)
      PROVE  TypeInv'
  <2> DEFINE p == commit.pid
             v == commit.version
             page == Written(lru[p][commit.at], s, v)
             grown == IF commit.exceed THEN active[p]
                      ELSE Appended(active[p], p, s, v)
             freeze == ~commit.exceed /\ Full(grown)
             rest == IF freeze THEN Cleared(grown, DeltaKey(p, v)) ELSE grown
             checkpoint == ~commit.exceed /\ CheckpointDue(rest)
             cached == PutIf(freeze, page_cache, DeltaKey(p, v), Frozen(grown))
  <2>1. /\ DeltaKey(p, v) \in Key /\ DeltaKey(p, v).delta
        /\ BaseKey(p, v) \in Key /\ ~BaseKey(p, v).delta
    BY <1>a, KeyTypes
  <2>2. lru[p][commit.at] \in BasePage
    BY SMTT(30), <1>0, <1>6, <1>a DEF UpdatePage, TypeOK, Resides
  <2>3. page \in BasePage
    BY <1>a, <2>2, WrittenType
  <2>4. grown \in ActivePage
    BY <1>a, AppendedType, <2>1
  <2>5. rest \in ActivePage /\ Frozen(grown) \in DeltaPage
        /\ Checkpointed(rest, BaseKey(p, v)) \in ActivePage
    <3> HIDE DEF grown
    <3>1. Cleared(grown, DeltaKey(p, v)) \in ActivePage
          /\ Frozen(grown) \in DeltaPage
      BY <1>a, <2>1, <2>4, ActiveTypes
    <3>2. rest \in ActivePage
      BY <2>4, <3>1
    <3> HIDE DEF rest
    <3> QED BY <1>a, <2>1, <3>1, <3>2, ActiveTypes
  <2>6. /\ freeze \in BOOLEAN /\ checkpoint \in BOOLEAN
    BY DEF Full, CheckpointDue
  <2>7. /\ commit' = [commit EXCEPT !.todo = @ \ {s}]
        /\ lru' = [lru EXCEPT ![p][commit.at] = page]
        /\ active' = [active EXCEPT ![p] =
                        IF checkpoint THEN Checkpointed(rest, BaseKey(p, v))
                                      ELSE rest]
        /\ page_cache' = PutIf(checkpoint, cached, BaseKey(p, v), page)
        /\ deltapage_versions' = PutIf(freeze, deltapage_versions, p,
                                       deltapage_versions[p] \cup {v})
        /\ page_versions' =
             [page_versions EXCEPT ![p] =
                [cur |-> v, base |-> IF checkpoint THEN v ELSE @.base]]
        /\ pc' \in {"failed", "slots"}
        /\ UNCHANGED <<stored, current_version, load, hist>>
    BY <1>6 DEF UpdatePage
  <2> HIDE DEF page, grown, freeze, rest, checkpoint
  <2>8. PageTable(page_cache')
    <3>1. PageTable(cached)
      BY <1>0, <2>1, <2>5, <2>6, PageTableUpdate DEF TypeOK, PageOf
    <3> HIDE DEF cached
    <3> QED BY <2>1, <2>3, <2>6, <2>7, <3>1, PageTableUpdate DEF PageOf
  <2>9. active' \in [Pid -> ActivePage]
    BY <1>0, <1>a, <2>5, <2>7 DEF TypeOK
  <2>10. deltapage_versions' \in [Pid -> SUBSET Versions]
    BY <1>0, <1>a, <2>7 DEF TypeOK, PutIf
  <2>11. page_versions' \in [Pid -> [cur : Versions, base : Versions]]
    BY <1>0, <1>a, <2>7 DEF TypeOK
  <2>12. lru' \in [Pid -> [Versions -> BasePage \cup {None}]]
         /\ lru'[p][commit.at] = page
    BY <1>0, <1>a, <2>3, <2>7 DEF TypeOK
  <2>13. commit' \in CommitLocals /\ commit'.pid = p /\ commit'.at = commit.at
    BY <1>0, <2>7 DEF TypeOK, CommitLocals
  <2>14. lru'[p][commit.at] # None
    BY <2>3, <2>12
  <2> HIDE DEF p, v
  <2> QED
    BY <1>0, <2>7, <2>8, <2>9, <2>10, <2>11, <2>12, <2>13, <2>14
    DEF TypeInv, TypeOK, Resides
<1>7. CASE ClosePage
  <2> DEFINE p == commit.pid
             v == commit.version
             page == lru[p][commit.at]
             a == IF commit.exceed THEN Checkpointed(active[p], BaseKey(p, v))
                                   ELSE active[p]
             freeze == FreezeDue(a)
             cached == PutIf(commit.exceed, page_cache, BaseKey(p, v), page)
  <2>1. /\ DeltaKey(p, v) \in Key /\ DeltaKey(p, v).delta
        /\ BaseKey(p, v) \in Key /\ ~BaseKey(p, v).delta
        /\ commit.exceed \in BOOLEAN
    BY <1>0, <1>a, KeyTypes DEF TypeOK, CommitLocals
  <2>2. page \in BasePage
    BY <1>0, <1>7, <1>a DEF ClosePage, TypeOK, Resides
  <2>3. a \in ActivePage
    BY <1>a, <2>1, ActiveTypes
  <2>4. freeze \in BOOLEAN
    BY DEF FreezeDue
  <2>5. /\ page_cache' = PutIf(freeze, cached, DeltaKey(p, v), Frozen(a))
        /\ active' = [active EXCEPT ![p] =
                        IF freeze THEN Cleared(a, DeltaKey(p, v)) ELSE a]
        /\ deltapage_versions' = PutIf(freeze, deltapage_versions, p,
                                       deltapage_versions[p] \cup {v})
        /\ page_versions' = PutIf(commit.exceed, page_versions, p,
                                  [cur |-> v, base |-> v])
        /\ lru' = UpdatePageKey(p, commit.at, v)
        /\ pc' = "pages"
        /\ UNCHANGED <<stored, current_version, commit, load, hist>>
    BY <1>7 DEF ClosePage
  <2> HIDE DEF a, freeze
  <2>6. Frozen(a) \in DeltaPage /\ Cleared(a, DeltaKey(p, v)) \in ActivePage
    BY <1>a, <2>1, <2>3, ActiveTypes
  <2>7. PageTable(page_cache')
    <3>1. PageTable(cached)
      BY <1>0, <2>1, <2>2, PageTableUpdate DEF TypeOK, PageOf
    <3> HIDE DEF cached
    <3> QED BY <2>1, <2>4, <2>5, <2>6, <3>1, PageTableUpdate DEF PageOf
  <2>8. active' \in [Pid -> ActivePage]
    BY <1>0, <1>a, <2>3, <2>5, <2>6 DEF TypeOK
  <2>9. deltapage_versions' \in [Pid -> SUBSET Versions]
    BY <1>0, <1>a, <2>5 DEF TypeOK, PutIf
  <2>10. page_versions' \in [Pid -> [cur : Versions, base : Versions]]
    BY <1>0, <1>a, <2>5 DEF TypeOK, PutIf
  <2>11. lru' \in [Pid -> [Versions -> BasePage \cup {None}]]
    <3>1. /\ p \in Pid /\ v \in Versions /\ commit.at \in Versions
          /\ lru \in [Pid -> [Versions -> BasePage \cup {None}]]
      BY <1>0, <1>a DEF TypeOK, CommitLocals
    <3>2. [lru[p] EXCEPT ![commit.at] = None, ![v] = lru[p][commit.at]]
            \in [Versions -> BasePage \cup {None}]
      BY SMTT(30), <3>1
    <3>3. lru' = [lru EXCEPT ![p] = [lru[p] EXCEPT ![commit.at] = None,
                                                  ![v] = lru[p][commit.at]]]
      BY <2>5 DEF UpdatePageKey
    <3> QED
      BY <3>1, <3>2, <3>3
  <2>12. /\ PageTable(stored') /\ current_version' \in Versions
         /\ commit' \in CommitLocals /\ load' \in LoadLocals
         /\ hist' \in [Pid -> [Versions -> SUBSET Slot]]
    BY <1>0, <2>5 DEF TypeOK
  <2>13. pc' = "pages"
    BY <2>5
  <2>14. TypeOK'
    BY <2>7, <2>8, <2>9, <2>10, <2>11, <2>12, <2>13 DEF TypeOK, PageTable
  <2> QED
    BY <1>0, <2>5, <2>14 DEF TypeInv, Resides
<1>8. CASE StorePages
  <2>1. PageTable(stored') /\ PageTable(page_cache')
    BY <1>0, <1>8 DEF StorePages, TypeOK, PageTable
  <2> QED
    BY <1>0, <1>8, <1>c, <2>1 DEF StorePages, TypeInv, TypeOK, Resides
<1>9. CASE WalkChain
  <2>1. /\ stored[load.cur] \in DeltaPage
        /\ load' = [load EXCEPT !.stack = Append(@, stored[load.cur].items),
                                !.cur = stored[load.cur].last]
        /\ pc = "walk" /\ pc' = pc
    BY <1>0, <1>9, <1>b DEF WalkChain, TypeOK, PageTable, PageOf, pageLookup
  <2>2. stored[load.cur].items \in SUBSET Item /\ stored[load.cur].last \in Key
    BY <2>1 DEF DeltaPage
  <2>3. Append(load.stack, stored[load.cur].items) \in Seq(SUBSET Item)
    BY <1>b, <2>2
  <2>4. load' \in LoadLocals /\ load'.pid = load.pid /\ load'.back = load.back
    BY <1>0, <2>1, <2>2, <2>3 DEF TypeOK, LoadLocals
  <2> QED
    BY <1>0, <1>9, <2>1, <2>4 DEF WalkChain, TypeInv, TypeOK, Resides
<1>10. CASE FindBase
  <2> DEFINE found == IF load.cur.version = 0 THEN Blank
                      ELSE IF load.cur.delta THEN None
                      ELSE pageLookup(load.cur)
  <2>1. found \in BasePage \cup {None}
    BY <1>0, <1>a, <1>b DEF TypeOK, PageTable, PageOf, pageLookup
  <2>2. /\ load' = [load EXCEPT !.page = found]
        /\ pc = "walk"
        /\ pc' = IF found = None THEN "failed" ELSE "replay"
    BY <1>10 DEF FindBase
  <2> HIDE DEF found
  <2>3. /\ load' \in LoadLocals /\ load'.pid = load.pid
        /\ load'.back = load.back /\ load'.page = found
    BY <1>0, <2>1, <2>2 DEF TypeOK, LoadLocals
  <2> QED
    BY <1>0, <1>10, <2>2, <2>3 DEF FindBase, TypeInv, TypeOK, Resides
<1>11. CASE ApplyDelta
  <2> DEFINE n == Len(load.stack)
             q == applyDelta(load.page, load.stack[n], load.version)
  <2>1. n \in Nat /\ n > 0 /\ load.stack[n] \in SUBSET Item
    BY <1>11, <1>b DEF ApplyDelta
  <2>2. load.page \in BasePage
    BY <1>0, <1>11, <1>b DEF ApplyDelta, Resides
  <2>3. q \in BasePage
    BY <1>b, <2>1, <2>2, ApplyDeltaResult
  <2>4. SubSeq(load.stack, 1, n - 1) \in Seq(SUBSET Item)
    BY <1>b, <2>1
  <2>5. /\ load' = [load EXCEPT !.page = q,
                                !.stack = SubSeq(load.stack, 1, n - 1)]
        /\ pc = "replay" /\ pc' = "replay"
    BY <1>11 DEF ApplyDelta
  <2> HIDE DEF n, q
  <2>6. /\ load' \in LoadLocals /\ load'.pid = load.pid
        /\ load'.back = load.back /\ load'.page = q
    BY <1>0, <2>3, <2>4, <2>5 DEF TypeOK, LoadLocals
  <2> QED
    BY <1>0, <1>11, <2>3, <2>5, <2>6 DEF ApplyDelta, TypeInv, TypeOK, Resides
<1>12. ASSUME NEW victim \in (Pid \X Versions) \cup {None}, FinishLoad(victim)
       PROVE  TypeInv'
  <2>1. load.page \in BasePage /\ pc = "replay"
    BY <1>0, <1>12, <1>b DEF FinishLoad, Resides
  <2>2. ASSUME NEW at \in Versions, NEW page \in BasePage
        PROVE  /\ PutPage(load.pid, at, page, victim)
                    \in [Pid -> [Versions -> BasePage \cup {None}]]
               /\ PutPage(load.pid, at, page, victim)[load.pid][at] = page
    BY <1>0, <1>b, <2>2 DEF TypeOK, PutPage
  <2>3. CASE load.back = "commit"
    <3> DEFINE found == load.page.version >= load.version
               at == IF found THEN load.version ELSE commit.version
               page == IF found THEN load.page ELSE Blank
    <3>1. at \in Versions /\ page \in BasePage
      BY <1>a, <1>b, <2>1
    <3>2. /\ lru' = PutPage(load.pid, at, page, victim)
          /\ commit' = [commit EXCEPT !.at = at]
          /\ load' = NoLoad
          /\ pc' \in {"failed", "open"}
      BY <1>12, <2>3 DEF FinishLoad
    <3> HIDE DEF at, page
    <3>3. commit' \in CommitLocals /\ commit'.pid = commit.pid /\ commit'.at = at
      BY <1>0, <3>1, <3>2 DEF TypeOK, CommitLocals
    <3>4. commit.pid = load.pid
      BY <1>0, <2>1, <2>3 DEF Resides
    <3>5. /\ lru' \in [Pid -> [Versions -> BasePage \cup {None}]]
          /\ lru'[commit'.pid][commit'.at] # None
      BY <2>2, <3>1, <3>2, <3>3, <3>4
    <3> QED
      BY <1>0, <1>12, <1>c, <3>2, <3>3, <3>5
      DEF FinishLoad, TypeInv, TypeOK, Resides
  <2>4. CASE load.back = "read"
    <3>1. /\ lru' \in {lru, PutPage(load.pid, load.version, load.page, victim)}
          /\ \E x \in {load.page, None} : load' = [load EXCEPT !.page = x]
          /\ pc' \in {"failed", "returned"} /\ commit' = commit
      BY <1>12, <2>4 DEF FinishLoad
    <3>2. lru' \in [Pid -> [Versions -> BasePage \cup {None}]]
      BY <1>0, <1>b, <2>1, <2>2, <3>1 DEF TypeOK
    <3>3. load' \in LoadLocals
      BY <1>0, <2>1, <3>1 DEF TypeOK, LoadLocals
    <3> QED
      BY <1>0, <1>12, <3>1, <3>2, <3>3 DEF FinishLoad, TypeInv, TypeOK, Resides
  <2> QED
    BY <1>b, <2>3, <2>4
<1>13. CASE Return
  BY <1>0, <1>c, <1>13 DEF Return, TypeInv, TypeOK, Resides
<1>14. CASE UNCHANGED vars
  BY <1>0, <1>14 DEF vars, TypeInv, TypeOK, PageTable, Resides
<1>15. ASSUME NEW v \in FirstVersion..MaxVersion, Advance(v)
       PROVE  TypeInv'
  <2>1. v \in Versions
    BY DEF Versions
  <2> QED
    BY <1>0, <1>15, <2>1 DEF Advance, TypeInv, TypeOK, PageTable, Resides
<1> QED
  BY <1>1, <1>2, <1>3, <1>4, <1>5, <1>6, <1>7, <1>8, <1>9, <1>10, <1>11,
     <1>12, <1>13, <1>14, <1>15 DEF LayerNext, CommitStep, LoadStep

(* The types hold in every reachable state. *)
THEOREM TypeCorrect == Spec => []TypeOK
<1>1. TypeInv => TypeOK
  BY DEF TypeInv
<1> QED
  BY <1>1, InitTypes, NextTypes, NextIsLayerNext, PTL DEF Spec

-----------------------------------------------------------------------------
(* Only the page a commit is updating has unfrozen delta items, and the     *)
(* count of a delta page is zero only when it has none.                     *)
FrozenInv ==
  \A p \in Pid :
    /\ active[p].count = 0 => active[p].items = {}
    /\ ~(pc \in {"slots", "failed"} /\ p = commit.pid) => active[p].count = 0

LEMMA NextFrozen == TypeInv /\ FrozenInv /\ [LayerNext]_vars => FrozenInv'
<1> SUFFICES ASSUME TypeInv, FrozenInv, [LayerNext]_vars PROVE FrozenInv'
  OBVIOUS
<1> USE ConstantsAssumption
<1>0. /\ TypeOK
      /\ active \in [Pid -> ActivePage] /\ commit.pid \in Pid
      /\ active[commit.pid] \in ActivePage
  BY DEF TypeInv, TypeOK, CommitLocals
<1>1. ASSUME UNCHANGED active,
             pc \notin {"slots", "failed"}
               \/ (commit'.pid = commit.pid /\ pc' \in {"slots", "failed"})
      PROVE  FrozenInv'
  BY <1>1 DEF FrozenInv
<1>2. ASSUME NEW v \in FirstVersion..MaxVersion, NEW u \in Updates,
             BeginCommit(v, u)
      PROVE  FrozenInv'
  BY <1>1, <1>2 DEF BeginCommit
<1>3. ASSUME NEW p \in Pid, NEW v \in Versions, ReadPage(p, v)
      PROVE  FrozenInv'
  BY <1>1, <1>3 DEF ReadPage
<1>4. ASSUME NEW p \in Pid, EvictActive(p)
      PROVE  FrozenInv'
  <2>1. PICK b \in 0..(Tb - 1) :
          active' = [active EXCEPT ![p] = [last |-> active[p].last, items |-> {},
                                           count |-> 0, bcount |-> b]]
    BY <1>4 DEF EvictActive
  <2>2. active'[p].count = 0 /\ active'[p].items = {}
        /\ \A q \in Pid \ {p} : active'[q] = active[q]
    BY <1>0, <2>1
  <2> QED
    BY <1>4, <2>2 DEF EvictActive, FrozenInv
<1>5. ASSUME NEW p \in Pid, PickPage(p)
      PROVE  FrozenInv'
  BY <1>1, <1>5 DEF PickPage
<1>6. CASE OpenPage
  <2>1. active[commit.pid].count = 0
    BY <1>0, <1>6 DEF OpenPage, FrozenInv
  <2>2. UNCHANGED active
    BY <1>6, <2>1 DEF OpenPage, FreezeDue, PutIf
  <2> QED
    BY <1>1, <1>6, <2>2 DEF OpenPage
<1>7. ASSUME NEW s \in Slot, UpdatePage(s)
      PROVE  FrozenInv'
  <2> DEFINE p == commit.pid
             grown == IF commit.exceed THEN active[p]
                      ELSE Appended(active[p], p, s, commit.version)
  <2>1. PICK k1 \in Key, k2 \in Key : \E rest \in {grown, Cleared(grown, k1)} :
          active' = [active EXCEPT ![p] = rest]
          \/ active' = [active EXCEPT ![p] = Checkpointed(rest, k2)]
    <3>1. DeltaKey(p, commit.version) \in Key /\ BaseKey(p, commit.version) \in Key
      BY <1>0, KeyTypes DEF TypeOK, CommitLocals
    <3> QED
      BY <1>7, <3>1 DEF UpdatePage
  <2>2. grown \in ActivePage /\ (grown.count = 0 => grown.items = {})
    <3>1. CASE commit.exceed
      BY <1>0, <3>1 DEF FrozenInv
    <3>2. CASE ~commit.exceed
      <4>1. active[p].count \in Nat /\ Weight[p] \in {1, 2}
            /\ commit.version \in Versions
        BY <1>0 DEF ActivePage, TypeOK, CommitLocals
      <4>2. grown.count = active[p].count + Weight[p]
        BY <3>2 DEF Appended
      <4>3. grown.count # 0
        BY <4>1, <4>2
      <4> QED BY <1>0, <3>2, <4>1, <4>3, AppendedType
    <3> QED BY <3>1, <3>2
  <2> HIDE DEF grown
  <2>3. ASSUME NEW k \in Key
        PROVE  /\ Cleared(grown, k) \in ActivePage
               /\ Cleared(grown, k).count = 0 /\ Cleared(grown, k).items = {}
    BY <2>2 DEF Cleared, ActivePage
  <2>4. ASSUME NEW a \in ActivePage, NEW k \in Key
        PROVE  /\ Checkpointed(a, k).count = a.count
               /\ Checkpointed(a, k).items = a.items
    BY DEF Checkpointed, ActivePage
  <2>5. /\ active'[p].count = 0 => active'[p].items = {}
        /\ \A q \in Pid \ {p} : active'[q] = active[q]
    <3>1. PICK rest \in {grown, Cleared(grown, k1)} :
            active' = [active EXCEPT ![p] = rest]
            \/ active' = [active EXCEPT ![p] = Checkpointed(rest, k2)]
      BY <2>1
    <3>2. rest \in ActivePage /\ (rest.count = 0 => rest.items = {})
      BY <2>2, <2>3
    <3> QED BY <1>0, <2>4, <3>1, <3>2
  <2>6. pc = "slots" /\ pc' \in {"slots", "failed"} /\ commit'.pid = p
    BY <1>0, <1>7 DEF UpdatePage, TypeOK, CommitLocals
  <2> QED
    BY <2>5, <2>6 DEF FrozenInv
<1>8. CASE ClosePage
  <2> DEFINE p == commit.pid
             k == DeltaKey(p, commit.version)
             a == IF commit.exceed
                    THEN Checkpointed(active[p], BaseKey(p, commit.version))
                    ELSE active[p]
  <2>1. active' = [active EXCEPT ![p] = IF FreezeDue(a) THEN Cleared(a, k) ELSE a]
        /\ pc = "slots" /\ pc' = "pages" /\ commit' = commit
    BY <1>8 DEF ClosePage
  <2>2. a \in ActivePage /\ (a.count = 0 => a.items = {})
    BY <1>0 DEF FrozenInv, Checkpointed, ActivePage, TypeOK, CommitLocals,
      BaseKey, Key
  <2> HIDE DEF a
  <2>3. Cleared(a, k).count = 0 /\ Cleared(a, k).items = {}
    BY <2>2 DEF Cleared, ActivePage
  <2>4. active'[p].count = 0 /\ active'[p].items = {}
        /\ \A q \in Pid \ {p} : active'[q] = active[q]
    BY <1>0, <2>1, <2>2, <2>3 DEF FreezeDue
  <2> QED
    BY <2>1, <2>4 DEF FrozenInv
<1>9. CASE StorePages
  BY <1>1, <1>9 DEF StorePages
<1>10. CASE LoadStep
  BY <1>1, <1>10 DEF LoadStep, WalkChain, FindBase, ApplyDelta, FinishLoad, Return
<1>11. CASE UNCHANGED vars
  BY <1>11 DEF vars, FrozenInv
<1>12. ASSUME NEW v \in FirstVersion..MaxVersion, Advance(v)
       PROVE  FrozenInv'
  BY <1>1, <1>12 DEF Advance
<1> QED
  BY <1>2, <1>3, <1>4, <1>5, <1>6, <1>7, <1>8, <1>9, <1>10, <1>11, <1>12
  DEF LayerNext, CommitStep

(* Reusing the pool slot of an active delta page drops no update: between   *)
(* calls every delta item is in a frozen page (LSVPS.cpp:747 relies on it). *)
THEOREM EvictionIsHarmless == Spec => []NothingUnfrozen
<1>1. Init => FrozenInv
  BY DEF Init, FrozenInv, NewActive
<1>2. FrozenInv => NothingUnfrozen
  BY DEF FrozenInv, NothingUnfrozen
<1> QED
  BY <1>1, <1>2, InitTypes, NextTypes, NextFrozen,
     NextIsLayerNext, PTL DEF Spec


-----------------------------------------------------------------------------
(* Data.  A history h of one page gives the slots each version wrote.       *)

Histories == [Versions -> SUBSET Slot]

(* The delta items of version w. *)
Batch(h, w) == {<<s, w>> : s \in h[w]}

(* w is the last version up to u that wrote slot s. *)
LastIn(h, s, u, w) ==
  IF w = Absent
    THEN \A v \in 0..u : s \notin h[v]
    ELSE w \in 0..u /\ s \in h[w] /\ \A v \in (w + 1)..u : s \notin h[v]

(* The page is the page of version u. *)
Exact(h, u, page) ==
  page.version = u /\ \A s \in Slot : LastIn(h, s, u, page.slots[s])

(* The stack of a replay from version x up to version u: whole batches, the *)
(* oldest on top, none older than x, and every version after x that wrote   *)
(* the page among them.                                                     *)
Stacked(h, stack, x, u) ==
  /\ \A i \in 1..Len(stack) :
       stack[i] = {} \/ \E w \in Versions : stack[i] = Batch(h, w)
  /\ \A i, j \in 1..Len(stack) :
       i < j => \A a \in stack[i] : \A b \in stack[j] : a[2] > b[2]
  /\ \A i \in 1..Len(stack) : \A a \in stack[i] : a[2] >= x
  /\ \A w \in Versions :
       x < w /\ w <= u /\ h[w] # {} =>
         \E i \in 1..Len(stack) : stack[i] = Batch(h, w)

(* The half rebuilt page is right at its version, but for slots that the    *)
(* top of the stack is about to write at that same version.                 *)
Replaying(h, stack, page, u) ==
  /\ page.version <= u
  /\ page.version = 0 \/ h[page.version] # {}
  /\ Stacked(h, stack, page.version, u)
  /\ \A s \in Slot :
       \/ LastIn(h, s, page.version, page.slots[s])
       \/ Len(stack) # 0 /\ <<s, page.version>> \in stack[Len(stack)]

(* The items of a batch are of its version. *)
LEMMA BatchItems ==
  ASSUME NEW h \in Histories, NEW w \in Versions
  PROVE  /\ Batch(h, w) \in SUBSET Item
         /\ \A a \in Batch(h, w) : a[2] = w
         /\ \A s : <<s, w>> \in Batch(h, w) <=> s \in h[w]
         /\ h[w] # {} <=> Batch(h, w) # {}
<1>1. h[w] \subseteq Slot
  BY DEF Histories
<1>2. \A s : <<s, w>> \in Batch(h, w) <=> s \in h[w]
  BY DEF Batch
<1>3. Batch(h, w) \in SUBSET Item
  BY <1>1 DEF Batch, Item
<1>4. \A a \in Batch(h, w) : a[2] = w
  BY DEF Batch
<1>5. h[w] # {} <=> Batch(h, w) # {}
  BY DEF Batch
<1> QED
  BY <1>2, <1>3, <1>4, <1>5

(* Batches of different versions that wrote the page differ. *)
LEMMA BatchesDiffer ==
  ASSUME NEW h \in Histories, NEW v \in Versions, NEW w \in Versions,
         h[v] # {}, Batch(h, v) = Batch(h, w)
  PROVE  v = w
<1>1. PICK a \in Batch(h, v) : TRUE
  BY BatchItems
<1> QED
  BY <1>1, BatchItems

(* A version that writes a slot is the last to have written it. *)
LEMMA LastInWritten ==
  ASSUME NEW h \in Histories, NEW w \in Versions, NEW s \in h[w]
  PROVE  LastIn(h, s, w, w)
BY ConstantsAssumption DEF LastIn, Versions, Absent

(* The last writer stays the last while nobody writes. *)
LEMMA LastInLater ==
  ASSUME NEW h \in Histories, NEW s \in Slot, NEW x \in Versions, NEW w \in Versions,
         x <= w, NEW a \in Versions \cup {Absent}, LastIn(h, s, x, a),
         \A v \in Versions : x < v /\ v <= w => s \notin h[v]
  PROVE  LastIn(h, s, w, a)
BY ConstantsAssumption DEF LastIn, Versions, Absent

(* The last writer up to u depends on the history up to u only. *)
LEMMA LastInSame ==
  ASSUME NEW h \in Histories, NEW g \in Histories, NEW s \in Slot,
         NEW u \in Versions, NEW a \in Versions \cup {Absent}, LastIn(h, s, u, a),
         \A v \in Versions : v <= u => g[v] = h[v]
  PROVE  LastIn(g, s, u, a)
BY ConstantsAssumption DEF LastIn, Versions, Absent

(* So does what a page of version u must be. *)
LEMMA ExactSame ==
  ASSUME NEW h \in Histories, NEW g \in Histories, NEW u \in Versions,
         NEW page \in BasePage, Exact(h, u, page),
         \A v \in Versions : v <= u => g[v] = h[v]
  PROVE  Exact(g, u, page)
<1>1. \A s \in Slot : page.slots[s] \in Versions \cup {Absent}
  BY DEF BasePage
<1> QED
  BY <1>1, LastInSame DEF Exact

(* What is below the top of a stack, as a stack of its own. *)
LEMMA StackPopped ==
  ASSUME NEW stack \in Seq(SUBSET Item), Len(stack) # 0
  PROVE  LET rest == SubSeq(stack, 1, Len(stack) - 1)
         IN /\ rest \in Seq(SUBSET Item) /\ Len(rest) = Len(stack) - 1
            /\ \A i \in 1..Len(rest) : rest[i] = stack[i]
<1> DEFINE n == Len(stack)
           rest == SubSeq(stack, 1, n - 1)
<1>1. n \in Nat /\ n # 0
  BY LenProperties
<1>2. 1 \in Int /\ n - 1 \in Int /\ \A i \in 1..(n - 1) : stack[i] \in SUBSET Item
  BY <1>1
<1>3. /\ rest \in Seq(SUBSET Item)
      /\ Len(rest) = IF 1 <= n - 1 THEN n - 1 - 1 + 1 ELSE 0
      /\ \A i \in 1..(n - 1 - 1 + 1) : rest[i] = stack[1 + i - 1]
  BY <1>2, SubSeqProperties
<1>4. Len(rest) = n - 1
  <2> HIDE DEF n, rest
  <2> QED BY <1>1, <1>3
<1>5. \A i \in 1..(n - 1) : 1 + i - 1 = i
  BY <1>1
<1>6. \A i \in 1..(n - 1) : rest[i] = stack[i]
  <2> HIDE DEF n, rest
  <2> SUFFICES ASSUME NEW i \in 1..(n - 1) PROVE rest[i] = stack[i]
    OBVIOUS
  <2>1. i \in 1..(n - 1 - 1 + 1)
    BY <1>1
  <2> QED BY <1>3, <1>5, <2>1
<1> HIDE DEF n, rest
<1>7. /\ rest \in Seq(SUBSET Item) /\ Len(rest) = n - 1
      /\ \A i \in 1..Len(rest) : rest[i] = stack[i]
  BY <1>3, <1>4, <1>6
<1> QED
  BY <1>7 DEF n, rest

(* Applying the top of the stack leaves a half rebuilt page: whether the    *)
(* batch is due or newer than the version asked for (LSVPS::applyDelta).    *)
LEMMA ReplayStep ==
  ASSUME NEW h \in Histories, NEW stack \in Seq(SUBSET Item), Len(stack) # 0,
         NEW page \in BasePage, NEW u \in Versions, Replaying(h, stack, page, u)
  PROVE  Replaying(h, SubSeq(stack, 1, Len(stack) - 1),
                   applyDelta(page, stack[Len(stack)], u), u)
<1> DEFINE n == Len(stack)
           top == stack[n]
           rest == SubSeq(stack, 1, n - 1)
           q == applyDelta(page, top, u)
           x == page.version
<1>1. /\ n \in Nat /\ n # 0 /\ top \in SUBSET Item
      /\ rest \in Seq(SUBSET Item) /\ Len(rest) = n - 1
      /\ \A i \in 1..(n - 1) : rest[i] = stack[i]
      /\ 1..(n - 1) \subseteq 1..n /\ n \in 1..n
  BY StackPopped
<1>2. /\ q \in BasePage
      /\ Due(top, u) = {} => q = page
      /\ Due(top, u) # {} =>
           /\ \E i \in Due(top, u) : q.version = i[2]
           /\ \A i \in Due(top, u) : i[2] <= q.version
      /\ \A s \in Slot :
           \/ q.slots[s] = page.slots[s] /\ \A i \in Due(top, u) : i[1] # s
           \/ <<s, q.slots[s]>> \in Due(top, u)
  BY <1>1, ApplyDeltaResult
<1>3. x \in Versions /\ q.version \in Versions
      /\ \A s \in Slot : page.slots[s] \in Versions \cup {Absent}
  BY <1>2 DEF BasePage
<1>4. /\ x <= u /\ (x = 0 \/ h[x] # {})
      /\ Stacked(h, stack, x, u)
      /\ \A s \in Slot : LastIn(h, s, x, page.slots[s]) \/ <<s, x>> \in top
  BY DEF Replaying
<1> HIDE DEF q, rest, n, top
<1>5. ASSUME NEW y \in Versions, x <= y,
             \A i \in 1..(n - 1) : \A a \in stack[i] : a[2] >= y,
             \A w \in Versions : y < w /\ w <= u /\ h[w] # {} => top # Batch(h, w)
      PROVE  Stacked(h, rest, y, u)
  <2>1. \A w \in Versions :
          y < w /\ w <= u /\ h[w] # {} => \E i \in 1..(n - 1) : stack[i] = Batch(h, w)
    <3>1. SUFFICES ASSUME NEW w \in Versions, y < w, w <= u, h[w] # {}
                   PROVE  \E i \in 1..(n - 1) : stack[i] = Batch(h, w)
      OBVIOUS
    <3>2. x < w
      BY <1>3, <1>5, <3>1 DEF Versions
    <3>3. PICK i \in 1..n : stack[i] = Batch(h, w)
      BY <1>4, <3>1, <3>2 DEF Stacked, n
    <3>4. i # n
      BY <1>5, <3>1, <3>3 DEF top
    <3> QED BY <1>1, <3>3, <3>4
  <2> QED
    BY <1>1, <1>4, <1>5, <2>1 DEF Stacked, n
<1>6. CASE Due(top, u) = {}
  <2>1. \A a \in top : a[2] > u
    BY <1>1, <1>6 DEF Due, Item, Versions
  <2>2. \A w \in Versions : x < w /\ w <= u /\ h[w] # {} => top # Batch(h, w)
    <3> SUFFICES ASSUME NEW w \in Versions, w <= u, h[w] # {}, top = Batch(h, w)
                 PROVE  FALSE
      OBVIOUS
    <3>1. PICK a \in top : a[2] = w
      BY BatchItems
    <3> QED BY <2>1, <3>1 DEF Versions
  <2>3. Stacked(h, rest, x, u)
    <3>1. \A i \in 1..(n - 1) : \A a \in stack[i] : a[2] >= x
      BY <1>1, <1>4 DEF Stacked, n
    <3>2. x <= x
      BY <1>3 DEF Versions
    <3> QED BY <1>3, <1>5, <2>2, <3>1, <3>2
  <2>4. \A s \in Slot : LastIn(h, s, x, page.slots[s])
    <3> SUFFICES ASSUME NEW s \in Slot, <<s, x>> \in top PROVE FALSE
      BY <1>4
    <3>1. <<s, x>>[2] > u
      BY <2>1
    <3> QED BY <1>3, <1>4, <3>1 DEF Versions
  <2> QED
    BY <1>2, <1>4, <1>6, <2>3, <2>4 DEF Replaying, q, rest, n, top
<1>7. CASE Due(top, u) # {}
  <2>1. PICK w \in Versions : top = Batch(h, w)
    BY <1>1, <1>4, <1>7 DEF Stacked, Due, n, top
  <2>2. PICK a \in top : a[2] <= u
    BY <1>7 DEF Due
  <2>3. w <= u /\ h[w] # {} /\ Due(top, u) = top /\ q.version = w
    BY <1>2, <1>7, <2>1, <2>2, BatchItems DEF Due
  <2>4. x <= w
    BY <1>1, <1>4, <2>1, <2>2, BatchItems DEF Stacked, n, top
  <2>5. \A i \in 1..(n - 1) : \A b \in stack[i] : b[2] > w
    BY <1>1, <1>4, <2>1, <2>2, BatchItems DEF Stacked, n, top
  <2>6. \A i \in 1..(n - 1) : \A b \in stack[i] : b[2] >= w
    <3> SUFFICES ASSUME NEW i \in 1..(n - 1), NEW b \in stack[i] PROVE b[2] >= w
      OBVIOUS
    <3>1. i \in 1..Len(stack) /\ b \in Item /\ b[2] \in Versions
      BY <1>1 DEF Item, n
    <3> QED BY <2>5, <3>1 DEF Versions
  <2>7. \A v \in Versions : w < v /\ v <= u /\ h[v] # {} => top # Batch(h, v)
    BY <2>1, BatchesDiffer DEF Versions
  <2>8. Stacked(h, rest, w, u)
    BY <1>5, <2>4, <2>6, <2>7
  <2>9. \A v \in Versions : x < v /\ v < w => h[v] = {}
    <3> SUFFICES ASSUME NEW v \in Versions, x < v, v < w, h[v] # {} PROVE FALSE
      OBVIOUS
    <3>1. v <= u
      BY <2>3 DEF Versions
    <3>2. PICK i \in 1..n : stack[i] = Batch(h, v)
      BY <1>4, <3>1 DEF Stacked, n
    <3>3. i # n
      BY <2>1, <3>2, BatchesDiffer DEF top, Versions
    <3>4. \A b \in Batch(h, v) : b[2] > w
      BY <1>1, <2>5, <3>2, <3>3
    <3> QED BY <3>4, BatchItems DEF Versions
  <2>10. ASSUME NEW s \in Slot PROVE LastIn(h, s, w, q.slots[s])
    <3>1. CASE s \in h[w]
      <4>1. <<s, w>> \in top
        BY <2>1, <3>1, BatchItems
      <4>2. <<s, q.slots[s]>> \in top
        BY <1>2, <2>3, <4>1
      <4>3. q.slots[s] = w
        BY <2>1, <4>2, BatchItems
      <4> QED BY <3>1, <4>3, LastInWritten
    <3>2. CASE s \notin h[w]
      <4>1. \A v : <<s, v>> \notin top
        BY <2>1, <3>2 DEF Batch
      <4>2. q.slots[s] = page.slots[s]
        BY <1>2, <2>3, <4>1
      <4>3. LastIn(h, s, x, page.slots[s])
        BY <1>4, <4>1
      <4>4. \A v \in Versions : x < v /\ v <= w => s \notin h[v]
        BY <2>9, <3>2 DEF Versions
      <4> QED BY <1>3, <2>4, <4>2, <4>3, <4>4, LastInLater
    <3> QED BY <3>1, <3>2
  <2> QED
    BY <2>3, <2>8, <2>10 DEF Replaying, q, rest, n, top
<1> QED
  BY <1>6, <1>7

(* At the end of a replay the page is exact, and it is the page of the      *)
(* version asked for whenever that version wrote it.                        *)
LEMMA ReplayEnd ==
  ASSUME NEW h \in Histories, NEW page \in BasePage, NEW u \in Versions,
         Replaying(h, <<>>, page, u)
  PROVE  /\ Exact(h, page.version, page)
         /\ page.version <= u /\ (page.version = 0 \/ h[page.version] # {})
         /\ h[u] # {} => page.version = u
         /\ page.version >= u => page.version = u
<1>1. page.version \in Versions /\ Len(<<>>) = 0 /\ page.version <= u
  BY DEF BasePage, Replaying
<1>2. h[u] # {} => page.version = u
  BY <1>1 DEF Replaying, Stacked, Versions
<1> QED
  BY <1>1, <1>2 DEF Replaying, Versions, Exact

-----------------------------------------------------------------------------
(* Chain.  What the commits of page p up to version cur leave: T is a table *)
(* of pages, D the versions with a delta page (deltapage_versions_), and h  *)
(* the history of the page.                                                 *)

Wrote(h, cur) == {w \in Versions : w <= cur /\ h[w] # {}}

(* The key last_pagekey_ holds for version x: its delta page, or its base   *)
(* page when it has no delta page.                                          *)
LinkKey(p, D, x) == IF x = 0 \/ x \in D THEN DeltaKey(p, x) ELSE BaseKey(p, x)

(* A base page holds what its version left, but for the slots its own delta *)
(* page writes again: a checkpoint is taken before the last slots of a      *)
(* version are written.                                                     *)
BasesOK(p, T, h, D, cur) ==
  \A b \in Versions :
    T[BaseKey(p, b)] # None =>
      /\ b \in Wrote(h, cur) /\ T[BaseKey(p, b)].version = b
      /\ \A s \in Slot : \/ b \in D /\ s \in h[b]
                         \/ LastIn(h, s, b, T[BaseKey(p, b)].slots[s])

(* A delta page holds the batch of its version and links to the base page   *)
(* of that version, or else to the version that wrote the page before.      *)
DeltasOK(p, T, h, D, cur) ==
  \A d \in Versions :
    /\ T[DeltaKey(p, d)] # None <=> d \in D
    /\ d \in D =>
         /\ T[DeltaKey(p, d)].items = Batch(h, d)
         /\ IF T[BaseKey(p, d)] # None
              THEN T[DeltaKey(p, d)].last = BaseKey(p, d)
              ELSE \E x \in Wrote(h, cur) \cup {0} :
                     /\ x < d /\ \A w \in Wrote(h, cur) : w < d => w <= x
                     /\ T[DeltaKey(p, d)].last = LinkKey(p, D, x)

(* Every version that wrote the page left a delta page or a base page.      *)
WritersOK(p, T, h, D, cur) ==
  /\ D \subseteq Wrote(h, cur) /\ cur \in Wrote(h, cur) \cup {0}
  /\ \A w \in Wrote(h, cur) : w \in D \/ T[BaseKey(p, w)] # None

Chain(p, T, h, D, cur) ==
  /\ BasesOK(p, T, h, D, cur)
  /\ DeltasOK(p, T, h, D, cur)
  /\ WritersOK(p, T, h, D, cur)

(* The newest end of the chain: page_versions_ names the latest base page,  *)
(* and the active delta page links to the current version.                  *)
EndOK(p, T, D, cur, base, last) ==
  /\ base # 0 => T[BaseKey(p, base)] # None
  /\ \A b \in Versions : T[BaseKey(p, b)] # None => b <= base
  /\ last = LinkKey(p, D, cur)

(* Version u can be rebuilt: a base page after u comes after a delta page   *)
(* that is also after u, from which LoadPage starts.                        *)
ReachIn(p, T, D, u) ==
  \A b \in Versions :
    T[BaseKey(p, b)] # None /\ b > u => \E x \in D : u < x /\ x < b

(* The walk of LoadPage has come to version x, with key k in hand.          *)
Linked(p, T, D, x, k) ==
  \/ (x = 0 \/ x \in D) /\ k = DeltaKey(p, x)
  \/ T[BaseKey(p, x)] # None /\ k = BaseKey(p, x)

(* The stack has every batch after x that a page of version u needs.        *)
Walking(p, h, D, base, stack, k, u, x) ==
  /\ x <= u \/ base <= u
  /\ Stacked(h, stack, x, u)
  /\ k.delta => \A i \in 1..Len(stack) : \A a \in stack[i] : a[2] > x
  /\ ~k.delta /\ x \in D => Len(stack) # 0 /\ stack[Len(stack)] = Batch(h, x)

(* Delta keys and base keys of any page and version are different keys.     *)
LEMMA KeysDiffer ==
  ASSUME NEW p, NEW q, NEW v, NEW w
  PROVE  /\ BaseKey(p, v) # DeltaKey(q, w)
         /\ ~BaseKey(p, v).delta /\ DeltaKey(p, v).delta
         /\ BaseKey(p, v).version = v /\ DeltaKey(p, v).version = v
         /\ BaseKey(p, v).pid = p /\ DeltaKey(p, v).pid = p
         /\ BaseKey(p, v) = BaseKey(q, w) => p = q /\ v = w
         /\ DeltaKey(p, v) = DeltaKey(q, w) => p = q /\ v = w
BY DEF BaseKey, DeltaKey

(* In a chain the key of a version is a link to it.                         *)
LEMMA LinkIsLinked ==
  ASSUME NEW p, NEW T, NEW h \in Histories, NEW D \in SUBSET Versions,
         NEW cur \in Versions, Chain(p, T, h, D, cur),
         NEW x \in Wrote(h, cur) \cup {0}
  PROVE  Linked(p, T, D, x, LinkKey(p, D, x))
BY DEF Chain, WritersOK, Linked, LinkKey

(* last_pagekey_ of a delta page is a link.                                 *)
LEMMA DeltaIsLinked ==
  ASSUME NEW p, NEW T, NEW h \in Histories, NEW D \in SUBSET Versions,
         NEW cur \in Versions, Chain(p, T, h, D, cur),
         NEW x \in Versions, T[DeltaKey(p, x)] # None
  PROVE  \E y \in Wrote(h, cur) \cup {0} : Linked(p, T, D, y, T[DeltaKey(p, x)].last)
<1>1. x \in D
  BY DEF Chain, DeltasOK
<1>2. CASE T[BaseKey(p, x)] # None
  <2>1. T[DeltaKey(p, x)].last = BaseKey(p, x) /\ x \in Wrote(h, cur)
    BY <1>1, <1>2 DEF Chain, DeltasOK, WritersOK
  <2> QED BY <1>2, <2>1 DEF Linked
<1>3. CASE T[BaseKey(p, x)] = None
  <2>1. PICK y \in Wrote(h, cur) \cup {0} : T[DeltaKey(p, x)].last = LinkKey(p, D, y)
    BY <1>1, <1>3 DEF Chain, DeltasOK
  <2> QED BY <2>1, LinkIsLinked
<1> QED
  BY <1>2, <1>3

(* Pushing the batch of version x on a stack of younger ones.               *)
LEMMA StackedPushes ==
  ASSUME NEW h \in Histories, NEW stack \in Seq(SUBSET Item),
         NEW x \in Versions, NEW y \in Versions, NEW u \in Versions, y <= x,
         Stacked(h, stack, x, u),
         \A i \in 1..Len(stack) : \A a \in stack[i] : a[2] > x,
         \A w \in Versions : y < w /\ w < x => h[w] = {}
  PROVE  LET more == Append(stack, Batch(h, x))
         IN /\ more \in Seq(SUBSET Item)
            /\ Stacked(h, more, y, u)
            /\ Len(more) # 0 /\ more[Len(more)] = Batch(h, x)
            /\ \A i \in 1..Len(more) : \A a \in more[i] : a[2] >= x
<1> DEFINE n == Len(stack)
           more == Append(stack, Batch(h, x))
<1>1. Batch(h, x) \in SUBSET Item /\ n \in Nat
  BY BatchItems
<1>2. /\ more \in Seq(SUBSET Item) /\ Len(more) = n + 1
      /\ \A i \in 1..n : more[i] = stack[i]
      /\ more[n + 1] = Batch(h, x)
  BY <1>1, AppendProperties
<1>3. \A i \in 1..n : \A a \in stack[i] : a[2] \in Versions
  BY DEF Item
<1> HIDE DEF n, more
<1>4. \A i \in 1..(n + 1) : i = n + 1 \/ i \in 1..n
  BY <1>1
<1>5. \A i \in 1..(n + 1) : \A a \in more[i] : a[2] >= x
  <2> SUFFICES ASSUME NEW i \in 1..(n + 1), NEW a \in more[i] PROVE a[2] >= x
    OBVIOUS
  <2>1. CASE i = n + 1
    BY <1>2, <2>1, BatchItems DEF Versions
  <2>2. CASE i \in 1..n
    <3>1. a[2] > x /\ a[2] \in Versions
      BY <1>2, <1>3, <2>2 DEF n
    <3> QED BY <3>1 DEF Versions
  <2> QED BY <1>4, <2>1, <2>2
<1>6. \A i \in 1..(n + 1) : \A a \in more[i] : a[2] >= y
  <2> SUFFICES ASSUME NEW i \in 1..(n + 1), NEW a \in more[i] PROVE a[2] >= y
    OBVIOUS
  <2>1. a[2] >= x /\ a[2] \in Versions
    <3>1. CASE i = n + 1
      BY <1>2, <1>5, <3>1, BatchItems
    <3>2. CASE i \in 1..n
      BY <1>2, <1>3, <1>5, <3>2
    <3> QED BY <1>4, <3>1, <3>2
  <2> QED BY <2>1 DEF Versions
<1>7. \A i \in 1..(n + 1) :
        more[i] = {} \/ \E w \in Versions : more[i] = Batch(h, w)
  <2>1. \A i \in 1..n : stack[i] = {} \/ \E w \in Versions : stack[i] = Batch(h, w)
    BY DEF Stacked, n
  <2> QED BY <1>2, <1>4, <2>1
<1>8. \A i, j \in 1..(n + 1) :
        i < j => \A a \in more[i] : \A b \in more[j] : a[2] > b[2]
  <2> SUFFICES ASSUME NEW i \in 1..(n + 1), NEW j \in 1..(n + 1), i < j,
                      NEW a \in more[i], NEW b \in more[j]
               PROVE  a[2] > b[2]
    OBVIOUS
  <2>1. i \in 1..n
    BY <1>1
  <2>2. CASE j = n + 1
    BY <1>2, <2>1, <2>2, BatchItems DEF n
  <2>3. CASE j \in 1..n
    BY <1>2, <2>1, <2>3 DEF Stacked, n
  <2> QED BY <1>4, <2>2, <2>3
<1>9. ASSUME NEW w \in Versions, y < w, w <= u, h[w] # {}
      PROVE  \E i \in 1..(n + 1) : more[i] = Batch(h, w)
  <2>1. n + 1 \in 1..(n + 1) /\ 1..n \subseteq 1..(n + 1)
    BY <1>1
  <2>2. CASE w = x
    BY <1>2, <2>1, <2>2
  <2>3. CASE w # x
    <3>1. x < w
      BY <1>9, <2>3 DEF Versions
    <3>2. PICK i \in 1..n : stack[i] = Batch(h, w)
      BY <1>9, <3>1 DEF Stacked, n
    <3> QED BY <1>2, <2>1, <3>2
  <2> QED BY <2>2, <2>3
<1>10. Stacked(h, more, y, u)
  BY <1>2, <1>6, <1>7, <1>8, <1>9 DEF Stacked
<1> QED
  BY <1>1, <1>2, <1>5, <1>10 DEF more

(* One turn of the loop of LoadPage: the batch of x is pushed, and the walk *)
(* comes to the version its delta page links to.                            *)
LEMMA WalkPushes ==
  ASSUME NEW p, NEW T, NEW h \in Histories, NEW D \in SUBSET Versions,
         NEW cur \in Versions, Chain(p, T, h, D, cur), NEW base,
         NEW stack \in Seq(SUBSET Item), NEW u \in Versions, NEW x \in D,
         Walking(p, h, D, base, stack, DeltaKey(p, x), u, x)
  PROVE  \E y \in Wrote(h, cur) \cup {0} :
           /\ Linked(p, T, D, y, T[DeltaKey(p, x)].last)
           /\ Walking(p, h, D, base, Append(stack, Batch(h, x)),
                      T[DeltaKey(p, x)].last, u, y)
<1> DEFINE more == Append(stack, Batch(h, x))
           k == T[DeltaKey(p, x)].last
<1>1. x \in Versions /\ x \in Wrote(h, cur)
  BY DEF Chain, WritersOK
<1>2. /\ x <= u \/ base <= u
      /\ Stacked(h, stack, x, u)
      /\ \A i \in 1..Len(stack) : \A a \in stack[i] : a[2] > x
  BY KeysDiffer DEF Walking
<1>3. CASE T[BaseKey(p, x)] # None
  <2>1. k = BaseKey(p, x)
    BY <1>3 DEF Chain, DeltasOK
  <2>2. x <= x /\ \A w \in Versions : x < w /\ w < x => h[w] = {}
    BY <1>1 DEF Versions
  <2>3. Stacked(h, more, x, u) /\ Len(more) # 0 /\ more[Len(more)] = Batch(h, x)
    BY <1>1, <1>2, <2>2, StackedPushes
  <2> HIDE DEF more, k
  <2>4. Walking(p, h, D, base, more, k, u, x)
    BY <1>2, <2>1, <2>3, KeysDiffer DEF Walking
  <2>5. Linked(p, T, D, x, k)
    BY <1>3, <2>1 DEF Linked
  <2> QED BY <1>1, <2>4, <2>5 DEF more, k
<1>4. CASE T[BaseKey(p, x)] = None
  <2>1. PICK y \in Wrote(h, cur) \cup {0} :
          /\ y < x /\ \A w \in Wrote(h, cur) : w < x => w <= y
          /\ k = LinkKey(p, D, y)
    BY <1>1, <1>4 DEF Chain, DeltasOK
  <2>2. y \in Versions /\ y <= x
    BY <1>1, <2>1, ConstantsAssumption DEF Wrote, Versions
  <2>3. \A w \in Versions : y < w /\ w < x => h[w] = {}
    <3> SUFFICES ASSUME NEW w \in Versions, y < w, w < x, h[w] # {} PROVE FALSE
      OBVIOUS
    <3>1. w \in Wrote(h, cur)
      BY <1>1 DEF Wrote, Versions
    <3> QED BY <2>1, <2>2, <3>1 DEF Versions
  <2>4. /\ more \in Seq(SUBSET Item) /\ Stacked(h, more, y, u)
        /\ \A i \in 1..Len(more) : \A a \in more[i] : a[2] >= x
    BY <1>1, <1>2, <2>2, <2>3, StackedPushes
  <2> HIDE DEF more, k
  <2>5. \A i \in 1..Len(more) : \A a \in more[i] : a[2] > y
    <3> SUFFICES ASSUME NEW i \in 1..Len(more), NEW a \in more[i] PROVE a[2] > y
      OBVIOUS
    <3>1. a[2] >= x /\ a[2] \in Versions
      BY <2>4 DEF Item
    <3> QED BY <1>1, <2>1, <2>2, <3>1 DEF Versions
  <2>6. ~k.delta => y \notin D
    BY <2>1, KeysDiffer DEF LinkKey
  <2>7. y <= u \/ base <= u
    BY <1>1, <1>2, <2>2 DEF Versions
  <2>8. Walking(p, h, D, base, more, k, u, y)
    BY <2>4, <2>5, <2>6, <2>7 DEF Walking
  <2>9. Linked(p, T, D, y, k)
    BY <2>1, LinkIsLinked
  <2> QED BY <2>8, <2>9 DEF more, k
<1> QED
  BY <1>3, <1>4

(* LoadPage starts from the active delta page, which is empty then, when    *)
(* the version asked for is not below the latest base page.                 *)
LEMMA WalkStartsLive ==
  ASSUME NEW p, NEW T, NEW h \in Histories, NEW D \in SUBSET Versions,
         NEW cur \in Versions, Chain(p, T, h, D, cur),
         NEW base \in Versions, NEW last, EndOK(p, T, D, cur, base, last),
         NEW u \in Versions, base <= u,
         \A w \in Versions : cur < w /\ w <= u => h[w] = {}
  PROVE  Walking(p, h, D, base, <<{}>>, last, u, cur)
<1>1. Len(<<{}>>) = 1 /\ <<{}>>[1] = {} /\ 1..1 = {1}
  OBVIOUS
<1>2. Stacked(h, <<{}>>, cur, u)
  BY <1>1 DEF Stacked
<1>3. ~last.delta => cur \notin D
  BY KeysDiffer DEF EndOK, LinkKey
<1> QED
  BY <1>1, <1>2, <1>3 DEF Walking

(* Below the latest base page it starts from the first delta page after the *)
(* version asked for.                                                       *)
LEMMA WalkStartsAtSentinel ==
  ASSUME NEW p, NEW T, NEW h \in Histories, NEW D \in SUBSET Versions,
         NEW cur \in Versions, Chain(p, T, h, D, cur), NEW base,
         NEW u \in Versions, ReachIn(p, T, D, u),
         NEW d \in D, u < d, \A x \in D : x > u => d <= x
  PROVE  \E x \in Wrote(h, cur) \cup {0} :
           /\ Linked(p, T, D, x, T[DeltaKey(p, d)].last)
           /\ Walking(p, h, D, base, <<{}, Batch(h, d)>>, T[DeltaKey(p, d)].last, u, x)
<1> DEFINE stack == <<{}, Batch(h, d)>>
           k == T[DeltaKey(p, d)].last
<1>1. d \in Versions /\ d \in Wrote(h, cur)
  BY DEF Chain, WritersOK
<1>2. \A b \in Versions : u < b /\ b <= d => T[BaseKey(p, b)] = None
  BY <1>1 DEF ReachIn, Versions
<1>3. T[BaseKey(p, d)] = None
  BY <1>1, <1>2 DEF Versions
<1>4. PICK x \in Wrote(h, cur) \cup {0} :
        /\ x < d /\ \A w \in Wrote(h, cur) : w < d => w <= x
        /\ k = LinkKey(p, D, x)
  BY <1>1, <1>3 DEF Chain, DeltasOK
<1>5. x \in Versions
  BY <1>4, ConstantsAssumption DEF Wrote, Versions
<1>6. x <= u
  <2> SUFFICES ASSUME u < x PROVE FALSE
    BY <1>5 DEF Versions
  <2>1. x \in Wrote(h, cur) /\ x # 0
    BY <1>4, <1>5 DEF Versions
  <2>2. x \notin D
    BY <1>1, <1>4, <1>5 DEF Versions
  <2>3. T[BaseKey(p, x)] # None
    BY <2>1, <2>2 DEF Chain, WritersOK
  <2> QED BY <1>1, <1>2, <1>4, <1>5, <2>3 DEF Versions
<1>7. Len(stack) = 2 /\ stack[1] = {} /\ stack[2] = Batch(h, d) /\ 1..2 = {1, 2}
  OBVIOUS
<1>8. \A a \in Batch(h, d) : a[2] = d
  BY <1>1, BatchItems
<1> HIDE DEF stack, k
<1>9. \A i \in 1..Len(stack) : \A a \in stack[i] : a[2] = d
  BY <1>7, <1>8
<1>10. \A w \in Versions : x < w /\ w <= u => h[w] = {}
  <2> SUFFICES ASSUME NEW w \in Versions, x < w, w <= u, h[w] # {} PROVE FALSE
    OBVIOUS
  <2>1. w < d /\ w <= cur
    BY <1>1 DEF Wrote, Versions
  <2>2. w \in Wrote(h, cur)
    BY <2>1 DEF Wrote
  <2> QED BY <1>4, <1>5, <2>1, <2>2 DEF Versions
<1>11. Stacked(h, stack, x, u)
  <2>1. \A i \in 1..Len(stack) : stack[i] = {} \/ \E w \in Versions : stack[i] = Batch(h, w)
    BY <1>1, <1>7
  <2>2. \A i, j \in 1..Len(stack) :
          i < j => \A a \in stack[i] : \A b \in stack[j] : a[2] > b[2]
    BY <1>7
  <2>3. \A i \in 1..Len(stack) : \A a \in stack[i] : a[2] >= x
    BY <1>1, <1>4, <1>5, <1>9 DEF Versions
  <2> QED BY <1>10, <2>1, <2>2, <2>3 DEF Stacked
<1>12. \A i \in 1..Len(stack) : \A a \in stack[i] : a[2] > x
  BY <1>1, <1>4, <1>5, <1>9 DEF Versions
<1>13. ~k.delta => x \notin D
  BY <1>4, KeysDiffer DEF LinkKey
<1>14. Walking(p, h, D, base, stack, k, u, x)
  BY <1>6, <1>11, <1>12, <1>13 DEF Walking
<1>15. Linked(p, T, D, x, k)
  BY <1>4, LinkIsLinked
<1> QED
  BY <1>14, <1>15 DEF stack, k

(* Where no delta page is found the walk has come to the beginning or to a  *)
(* base page of the chain.                                                  *)
LEMMA WalkEnds ==
  ASSUME NEW p, NEW T, NEW h \in Histories, NEW D \in SUBSET Versions,
         NEW cur \in Versions, Chain(p, T, h, D, cur), h[0] = {},
         NEW x \in Wrote(h, cur) \cup {0}, NEW k, Linked(p, T, D, x, k),
         ~(k.delta /\ k.version # 0 /\ T[k] # None)
  PROVE  \/ x = 0 /\ k = DeltaKey(p, 0)
         \/ /\ k = BaseKey(p, x) /\ x # 0 /\ T[k] # None /\ T[k].version = x
            /\ \A s \in Slot : \/ x \in D /\ s \in h[x]
                               \/ LastIn(h, s, x, T[k].slots[s])
<1>1. 0 \notin Wrote(h, cur) /\ x \in Versions
  BY ConstantsAssumption DEF Wrote, Versions
<1>2. CASE (x = 0 \/ x \in D) /\ k = DeltaKey(p, x)
  <2>1. k.delta /\ k.version = x
    BY <1>2 DEF DeltaKey
  <2>2. x \in D => T[k] # None
    BY <1>2 DEF Chain, DeltasOK
  <2> QED BY <1>2, <2>1, <2>2
<1>3. CASE T[BaseKey(p, x)] # None /\ k = BaseKey(p, x)
  BY <1>1, <1>3 DEF Chain, BasesOK
<1> QED
  BY <1>2, <1>3 DEF Linked

(* At the beginning the replay starts from a blank page.                    *)
LEMMA BlankReplays ==
  ASSUME NEW p, NEW h \in Histories, h[0] = {}, NEW D, NEW base, NEW k,
         NEW stack, NEW u \in Versions, Walking(p, h, D, base, stack, k, u, 0)
  PROVE  Replaying(h, stack, Blank, u)
<1>1. /\ Blank.version = 0 /\ \A s \in Slot : Blank.slots[s] = Absent
      /\ 0 <= u /\ 0..0 = {0}
  BY DEF Blank, Versions
<1>2. \A s \in Slot : LastIn(h, s, 0, Absent)
  BY <1>1 DEF LastIn
<1> QED
  BY <1>1, <1>2 DEF Walking, Replaying

(* At a base page it starts from a copy of that page.                       *)
LEMMA BaseReplays ==
  ASSUME NEW p, NEW h \in Histories, NEW D, NEW base \in Versions, NEW stack,
         NEW u \in Versions, NEW x \in Versions, x <= base, h[x] # {},
         Walking(p, h, D, base, stack, BaseKey(p, x), u, x),
         NEW page, page.version = x,
         \A s \in Slot : (x \in D /\ s \in h[x]) \/ LastIn(h, s, x, page.slots[s])
  PROVE  Replaying(h, stack, page, u)
<1>1. x <= u
  BY DEF Walking, Versions
<1>2. x \in D => Len(stack) # 0 /\ stack[Len(stack)] = Batch(h, x)
  BY KeysDiffer DEF Walking
<1> QED
  BY <1>1, <1>2, BatchItems DEF Walking, Replaying

(* A chain depends on the pages of p and on the history up to cur only.     *)
LEMMA ChainSame ==
  ASSUME NEW p \in Pid, NEW T, PageTable(T), NEW S, NEW h \in Histories,
         NEW g \in Histories, NEW D \in SUBSET Versions, NEW cur \in Versions,
         Chain(p, T, h, D, cur),
         \A v \in Versions : /\ S[BaseKey(p, v)] = T[BaseKey(p, v)]
                             /\ S[DeltaKey(p, v)] = T[DeltaKey(p, v)]
                             /\ v <= cur => g[v] = h[v]
  PROVE  Chain(p, S, g, D, cur)
<1>1. Wrote(g, cur) = Wrote(h, cur)
  BY DEF Wrote
<1>2. \A b \in Wrote(h, cur) : \A s \in Slot, a \in Versions \cup {Absent} :
        LastIn(h, s, b, a) => LastIn(g, s, b, a)
  <2> SUFFICES ASSUME NEW b \in Wrote(h, cur), NEW s \in Slot,
                      NEW a \in Versions \cup {Absent}, LastIn(h, s, b, a)
               PROVE  LastIn(g, s, b, a)
    OBVIOUS
  <2>1. b \in Versions /\ b <= cur
    BY DEF Wrote
  <2>2. \A v \in Versions : v <= b => g[v] = h[v]
    BY <2>1 DEF Versions
  <2> QED BY <2>1, <2>2, LastInSame
<1>3. \A b \in Versions : T[BaseKey(p, b)] # None =>
        \A s \in Slot : T[BaseKey(p, b)].slots[s] \in Versions \cup {Absent}
  BY KeyTypes DEF PageTable, PageOf, BasePage
<1>4. \A b \in Wrote(h, cur) : g[b] = h[b] /\ b \in Versions
  BY DEF Wrote
<1>5. BasesOK(p, S, g, D, cur)
  BY <1>1, <1>2, <1>3, <1>4 DEF Chain, BasesOK
<1>6. WritersOK(p, S, g, D, cur)
  BY <1>1, <1>4 DEF Chain, WritersOK
<1>7. DeltasOK(p, S, g, D, cur)
  <2>1. \A d \in D : Batch(g, d) = Batch(h, d)
    BY <1>4 DEF Chain, WritersOK, Batch
  <2> QED BY <1>1, <2>1 DEF Chain, DeltasOK
<1> QED
  BY <1>5, <1>6, <1>7 DEF Chain

(* S has what T has, and the pages of version v, the next after at to write *)
(* the page: a delta page, with a base page of the same version when a      *)
(* checkpoint was due, or a base page alone when the delta page would have  *)
(* overflowed.                                                              *)
Grows(p, T, S, h, D, E, at, v) ==
  /\ at < v /\ h[v] # {}
  /\ \A w \in Versions : at < w /\ w < v => h[w] = {}
  /\ \A w \in Versions : w # v =>
       /\ S[BaseKey(p, w)] = T[BaseKey(p, w)]
       /\ S[DeltaKey(p, w)] = T[DeltaKey(p, w)]
       /\ w \in E <=> w \in D
  /\ S[DeltaKey(p, v)] # None <=> v \in E
  /\ v \in E \/ S[BaseKey(p, v)] # None
  /\ v \in E => /\ S[DeltaKey(p, v)].items = Batch(h, v)
                /\ S[DeltaKey(p, v)].last = IF S[BaseKey(p, v)] # None
                     THEN BaseKey(p, v) ELSE LinkKey(p, D, at)
  /\ S[BaseKey(p, v)] # None =>
       /\ S[BaseKey(p, v)].version = v
       /\ \A s \in Slot : \/ v \in E /\ s \in h[v]
                          \/ LastIn(h, s, v, S[BaseKey(p, v)].slots[s])

(* A chain that grows so is a chain again.                                  *)
LEMMA ChainGrows ==
  ASSUME NEW p \in Pid, NEW T, NEW S, NEW h \in Histories, NEW D \in SUBSET Versions,
         NEW E \in SUBSET Versions, NEW at \in Versions, NEW v \in Versions,
         Chain(p, T, h, D, at), Grows(p, T, S, h, D, E, at, v)
  PROVE  Chain(p, S, h, E, v)
<1> USE DEF Grows
<1>1. Wrote(h, v) = Wrote(h, at) \cup {v}
  BY DEF Wrote, Versions
<1>2. D \subseteq Wrote(h, at) /\ at \in Wrote(h, at) \cup {0}
  BY DEF Chain, WritersOK
<1>3. \A w \in Wrote(h, at) \cup {0} : w \in Versions /\ w # v /\ w <= at
  BY ConstantsAssumption DEF Wrote, Versions
<1>4. v \notin D
  BY <1>2, <1>3
<1>5. BasesOK(p, S, h, E, v)
  <2> SUFFICES ASSUME NEW b \in Versions, S[BaseKey(p, b)] # None
               PROVE  /\ b \in Wrote(h, v) /\ S[BaseKey(p, b)].version = b
                      /\ \A s \in Slot : \/ b \in E /\ s \in h[b]
                                         \/ LastIn(h, s, b, S[BaseKey(p, b)].slots[s])
    BY DEF BasesOK
  <2>1. CASE b = v
    BY <1>1, <2>1
  <2>2. CASE b # v
    BY <1>1, <2>2 DEF Chain, BasesOK
  <2> QED BY <2>1, <2>2
<1>6. WritersOK(p, S, h, E, v)
  <2>1. E \subseteq Wrote(h, v)
    BY <1>1, <1>2
  <2>2. \A w \in Wrote(h, v) : w \in E \/ S[BaseKey(p, w)] # None
    <3> SUFFICES ASSUME NEW w \in Wrote(h, v), w # v
                 PROVE  w \in E \/ S[BaseKey(p, w)] # None
      OBVIOUS
    <3>1. w \in Wrote(h, at) /\ w \in Versions
      BY <1>1, <1>3
    <3> QED BY <3>1 DEF Chain, WritersOK
  <2> QED BY <1>1, <2>1, <2>2 DEF WritersOK
<1>7. \A x \in Wrote(h, at) \cup {0} : LinkKey(p, E, x) = LinkKey(p, D, x)
  BY <1>3 DEF LinkKey
<1>8. DeltasOK(p, S, h, E, v)
  <2> SUFFICES ASSUME NEW d \in Versions
               PROVE  /\ S[DeltaKey(p, d)] # None <=> d \in E
                      /\ d \in E =>
                           /\ S[DeltaKey(p, d)].items = Batch(h, d)
                           /\ IF S[BaseKey(p, d)] # None
                                THEN S[DeltaKey(p, d)].last = BaseKey(p, d)
                                ELSE \E x \in Wrote(h, v) \cup {0} :
                                       /\ x < d
                                       /\ \A w \in Wrote(h, v) : w < d => w <= x
                                       /\ S[DeltaKey(p, d)].last = LinkKey(p, E, x)
    BY DEF DeltasOK
  <2>1. CASE d = v
    <3>1. \A w \in Wrote(h, v) : w < v => w <= at
      BY <1>1, <1>3 DEF Versions
    <3>2. v \in E /\ S[BaseKey(p, v)] = None =>
            S[DeltaKey(p, v)].last = LinkKey(p, E, at)
      BY <1>2, <1>7
    <3> QED BY <1>1, <1>2, <2>1, <3>1, <3>2
  <2>2. CASE d # v
    <3>1. S[DeltaKey(p, d)] # None <=> d \in E
      BY <2>2 DEF Chain, DeltasOK
    <3>2. ASSUME d \in E
          PROVE  /\ S[DeltaKey(p, d)].items = Batch(h, d)
                 /\ IF S[BaseKey(p, d)] # None
                      THEN S[DeltaKey(p, d)].last = BaseKey(p, d)
                      ELSE \E x \in Wrote(h, v) \cup {0} :
                             /\ x < d /\ \A w \in Wrote(h, v) : w < d => w <= x
                             /\ S[DeltaKey(p, d)].last = LinkKey(p, E, x)
      <4>1. d \in D /\ d <= at
        BY <1>2, <1>3, <2>2, <3>2
      <4>2. /\ S[BaseKey(p, d)] = T[BaseKey(p, d)]
            /\ S[DeltaKey(p, d)] = T[DeltaKey(p, d)]
        BY <2>2
      <4>3. T[DeltaKey(p, d)].items = Batch(h, d)
        BY <4>1 DEF Chain, DeltasOK
      <4>4. T[BaseKey(p, d)] # None => T[DeltaKey(p, d)].last = BaseKey(p, d)
        BY <4>1 DEF Chain, DeltasOK
      <4>5. ASSUME T[BaseKey(p, d)] = None
            PROVE  \E x \in Wrote(h, v) \cup {0} :
                     /\ x < d /\ \A w \in Wrote(h, v) : w < d => w <= x
                     /\ T[DeltaKey(p, d)].last = LinkKey(p, E, x)
        <5>1. PICK x \in Wrote(h, at) \cup {0} :
                /\ x < d /\ \A w \in Wrote(h, at) : w < d => w <= x
                /\ T[DeltaKey(p, d)].last = LinkKey(p, D, x)
          BY <4>1, <4>5 DEF Chain, DeltasOK
        <5>2. ~(v < d)
          BY <4>1 DEF Versions
        <5> QED BY <1>1, <1>7, <5>1, <5>2
      <4> QED BY <4>2, <4>3, <4>4, <4>5
    <3> QED BY <3>1, <3>2
  <2> QED BY <2>1, <2>2
<1> QED
  BY <1>5, <1>6, <1>8 DEF Chain

(* The end of a chain depends on the base pages of p only.                  *)
LEMMA EndSame ==
  ASSUME NEW p \in Pid, NEW T, NEW S, NEW D, NEW cur, NEW base \in Versions, NEW last,
         EndOK(p, T, D, cur, base, last),
         \A v \in Versions : S[BaseKey(p, v)] = T[BaseKey(p, v)]
  PROVE  EndOK(p, S, D, cur, base, last)
BY DEF EndOK

-----------------------------------------------------------------------------
(* Space: the delta page of a page that does not overflow holds every slot  *)
(* still to be written, so BasePage::UpdatePage never freezes it half way,  *)
(* and a page is only opened to be written.                                 *)

Loading == pc \in {"walk", "replay"}

SpaceInv ==
  LET a == active[commit.pid]
  IN /\ pc = "open" \/ (Loading /\ load.back = "commit") => commit.todo # {}
     /\ pc = "slots" =>
          IF commit.exceed THEN a.count = 0
            ELSE /\ a.count + 2 * Cardinality(commit.todo) < Td
                 /\ commit.todo = {} => a.count # 0

(* What the helpers on active delta pages do to one given by its fields.    *)
LEMMA ActiveRecords ==
  ASSUME NEW l, NEW i, NEW n, NEW b, NEW k,
         NEW a, a = [last |-> l, items |-> i, count |-> n, bcount |-> b]
  PROVE  /\ Checkpointed(a, k) = [last |-> k, items |-> i, count |-> n, bcount |-> 0]
         /\ Cleared(a, k) = [last |-> k, items |-> {}, count |-> 0, bcount |-> b]
         /\ Frozen(a) = [last |-> l, items |-> i]
<1>1. [[last |-> l, items |-> i, count |-> n, bcount |-> b]
         EXCEPT !.bcount = 0, !.last = k]
        \in [last : {k}, items : {i}, count : {n}, bcount : {0}]
  OBVIOUS
<1>2. [[last |-> l, items |-> i, count |-> n, bcount |-> b]
         EXCEPT !.items = {}, !.count = 0, !.last = k]
        \in [last : {k}, items : {{}}, count : {0}, bcount : {b}]
  OBVIOUS
<1>3. /\ Checkpointed(a, k) \in [last : {k}, items : {i}, count : {n}, bcount : {0}]
      /\ Cleared(a, k) \in [last : {k}, items : {{}}, count : {0}, bcount : {b}]
  BY <1>1, <1>2 DEF Checkpointed, Cleared
<1>4. Frozen(a) = [last |-> l, items |-> i]
  BY DEF Frozen
<1> QED
  BY <1>3, <1>4

(* The slots still to be written are finitely many. *)
LEMMA TodoCounts ==
  ASSUME TypeInv
  PROVE  /\ IsFiniteSet(commit.todo) /\ Cardinality(commit.todo) \in Nat
         /\ Cardinality(commit.todo) = 0 <=> commit.todo = {}
         /\ \A s \in commit.todo :
              Cardinality(commit.todo \ {s}) = Cardinality(commit.todo) - 1
<1>1. commit.todo \in SUBSET Slot
  BY DEF TypeInv, TypeOK, CommitLocals
<1>2. IsFiniteSet(commit.todo)
  BY <1>1, ConstantsAssumption, FS_Subset
<1> QED
  BY <1>2, FS_CardinalityType, FS_EmptySet, FS_RemoveElement

(* One slot update appends to the delta page, which has room for it, and    *)
(* checkpoints when enough updates have gone by; it freezes nothing.        *)
LEMMA UpdateEffect ==
  ASSUME TypeInv, SpaceInv, NEW s \in Slot, UpdatePage(s)
  PROVE  LET p == commit.pid
             v == commit.version
             a == active[p]
             page == Written(lru[p][commit.at], s, v)
             w == IF commit.exceed THEN 0 ELSE Weight[p]
         IN /\ p \in Pid /\ v \in Versions /\ a \in ActivePage
            /\ lru[p][commit.at] \in BasePage
            /\ a.count + w < Td /\ UNCHANGED deltapage_versions
            /\ \E c \in BOOLEAN :
                 /\ c => ~commit.exceed
                 /\ ~commit.exceed => (c <=> a.bcount + w >= Tb)
                 /\ page_cache' = PutIf(c, page_cache, BaseKey(p, v), page)
                 /\ active' = [active EXCEPT ![p] =
                      [last |-> IF c THEN BaseKey(p, v) ELSE a.last,
                       items |-> IF commit.exceed THEN a.items
                                 ELSE a.items \cup {<<s, v>>},
                       count |-> a.count + w,
                       bcount |-> IF c THEN 0 ELSE a.bcount + w]]
                 /\ page_versions' = [page_versions EXCEPT ![p] =
                      [cur |-> v, base |-> IF c THEN v ELSE page_versions[p].base]]
<1> DEFINE p == commit.pid
           v == commit.version
           a == active[p]
           page == Written(lru[p][commit.at], s, v)
           w == IF commit.exceed THEN 0 ELSE Weight[p]
           grown == IF commit.exceed THEN active[p]
                    ELSE Appended(active[p], p, s, v)
           freeze == ~commit.exceed /\ Full(grown)
           rest == IF freeze THEN Cleared(grown, DeltaKey(p, v)) ELSE grown
           c == ~commit.exceed /\ CheckpointDue(rest)
           cached == PutIf(freeze, page_cache, DeltaKey(p, v), Frozen(grown))
           items == IF commit.exceed THEN a.items ELSE a.items \cup {<<s, v>>}
<1>1. /\ p \in Pid /\ v \in Versions /\ a \in ActivePage /\ pc = "slots"
      /\ lru[p][commit.at] \in BasePage /\ s \in commit.todo
      /\ commit.exceed \in BOOLEAN
  BY DEF TypeInv, TypeOK, CommitLocals, Resides, UpdatePage
<1>2. /\ active' = [active EXCEPT ![p] =
                      IF c THEN Checkpointed(rest, BaseKey(p, v)) ELSE rest]
      /\ page_cache' = PutIf(c, cached, BaseKey(p, v), page)
      /\ deltapage_versions' = PutIf(freeze, deltapage_versions, p,
                                     deltapage_versions[p] \cup {v})
      /\ page_versions' = [page_versions EXCEPT ![p] =
           [cur |-> v, base |-> IF c THEN v ELSE page_versions[p].base]]
  BY DEF UpdatePage
<1>3. /\ a.count \in Nat /\ a.bcount \in Nat /\ Weight[p] \in {1, 2}
      /\ Td \in Nat \ {0}
      /\ a = [last |-> a.last, items |-> a.items, count |-> a.count,
              bcount |-> a.bcount]
  BY <1>1, ConstantsAssumption DEF ActivePage
<1>4. a.count + w < Td
  <2>1. CASE commit.exceed
    BY <1>1, <1>3, <2>1 DEF SpaceInv
  <2>2. CASE ~commit.exceed
    <3>1. a.count + 2 * Cardinality(commit.todo) < Td
      BY <1>1, <2>2 DEF SpaceInv
    <3>2. Cardinality(commit.todo) \in Nat /\ Cardinality(commit.todo) # 0
      BY <1>1, TodoCounts
    <3> HIDE DEF a
    <3> QED BY <1>3, <2>2, <3>1, <3>2
  <2> QED BY <2>1, <2>2
<1>5. grown = [last |-> a.last, items |-> items, count |-> a.count + w,
               bcount |-> a.bcount + w]
  <2>1. CASE commit.exceed
    <3>1. a.count + 0 = a.count /\ a.bcount + 0 = a.bcount
      BY <1>3
    <3> QED BY <1>3, <2>1, <3>1
  <2>2. CASE ~commit.exceed
    BY <2>2 DEF Appended
  <2> QED BY <2>1, <2>2
<1> HIDE DEF grown, items
<1>6. grown.count = a.count + w /\ grown.bcount = a.bcount + w
  BY <1>5
<1>7. ~freeze
  <2>1. grown.count \in Int
    BY <1>3, <1>6
  <2> QED BY <1>3, <1>4, <1>6, <2>1 DEF Full
<1>8. rest = grown /\ cached = page_cache /\ UNCHANGED deltapage_versions
  BY <1>2, <1>7 DEF PutIf
<1>9. c => ~commit.exceed
  OBVIOUS
<1>10. ~commit.exceed => (c <=> a.bcount + w >= Tb)
  BY <1>6, <1>8 DEF CheckpointDue
<1>11. Checkpointed(grown, BaseKey(p, v)) =
         [last |-> BaseKey(p, v), items |-> items, count |-> a.count + w, bcount |-> 0]
  BY <1>5, ActiveRecords
<1>12. c \in BOOLEAN
  OBVIOUS
<1> HIDE DEF c, rest, cached, freeze
<1>13. (IF c THEN Checkpointed(rest, BaseKey(p, v)) ELSE rest) =
         [last |-> IF c THEN BaseKey(p, v) ELSE a.last, items |-> items,
          count |-> a.count + w, bcount |-> IF c THEN 0 ELSE a.bcount + w]
  BY <1>5, <1>8, <1>11
<1>14. \E d \in BOOLEAN :
         /\ d => ~commit.exceed
         /\ ~commit.exceed => (d <=> a.bcount + w >= Tb)
         /\ page_cache' = PutIf(d, page_cache, BaseKey(p, v), page)
         /\ active' = [active EXCEPT ![p] =
              [last |-> IF d THEN BaseKey(p, v) ELSE a.last, items |-> items,
               count |-> a.count + w, bcount |-> IF d THEN 0 ELSE a.bcount + w]]
         /\ page_versions' = [page_versions EXCEPT ![p] =
              [cur |-> v, base |-> IF d THEN v ELSE page_versions[p].base]]
  BY <1>2, <1>8, <1>9, <1>10, <1>12, <1>13
<1> QED
  BY <1>1, <1>4, <1>8, <1>14 DEF items

(* Opening a page freezes nothing, because no page but the one a commit     *)
(* updates holds items; it decides whether the delta page would overflow.   *)
LEMMA OpenEffect ==
  ASSUME TypeInv, FrozenInv, OpenPage
  PROVE  /\ UNCHANGED <<page_cache, active, deltapage_versions>>
         /\ active[commit.pid].count = 0 /\ active[commit.pid].items = {}
         /\ \E e \in BOOLEAN :
              /\ commit' = [commit EXCEPT !.exceed = e]
              /\ ~e => 2 * Cardinality(commit.todo) < Td
<1>1. commit.pid \in Pid /\ pc = "open"
  BY DEF TypeInv, TypeOK, CommitLocals, OpenPage
<1>2. active[commit.pid].count = 0 /\ active[commit.pid].items = {}
  BY <1>1 DEF FrozenInv
<1>3. UNCHANGED <<page_cache, active, deltapage_versions>>
  BY <1>2 DEF OpenPage, FreezeDue, PutIf
<1> DEFINE e == 2 * Cardinality(commit.todo) + active[commit.pid].count >= Td
<1>4. e \in BOOLEAN /\ commit' = [commit EXCEPT !.exceed = e]
  BY DEF OpenPage
<1>5. Cardinality(commit.todo) \in Nat /\ Td \in Nat
  BY TodoCounts, ConstantsAssumption
<1>6. ~e => 2 * Cardinality(commit.todo) < Td
  BY <1>2, <1>5
<1> HIDE DEF e
<1> QED
  BY <1>2, <1>3, <1>4, <1>6

(* Closing a page leaves one page under the version being committed: a base *)
(* page when the delta page would have overflowed, else the delta page.     *)
LEMMA CloseEffect ==
  ASSUME TypeInv, FrozenInv, SpaceInv, ClosePage
  PROVE  LET p == commit.pid
             v == commit.version
             a == active[p]
             page == lru[p][commit.at]
         IN /\ p \in Pid /\ v \in Versions /\ a \in ActivePage /\ page \in BasePage
            /\ \/ /\ commit.exceed
                  /\ page_cache' = [page_cache EXCEPT ![BaseKey(p, v)] = page]
                  /\ active' = [active EXCEPT ![p] = [last |-> BaseKey(p, v),
                                  items |-> {}, count |-> 0, bcount |-> 0]]
                  /\ UNCHANGED deltapage_versions
                  /\ page_versions' =
                       [page_versions EXCEPT ![p] = [cur |-> v, base |-> v]]
               \/ /\ ~commit.exceed
                  /\ page_cache' = [page_cache EXCEPT ![DeltaKey(p, v)] =
                                      [last |-> a.last, items |-> a.items]]
                  /\ active' = [active EXCEPT ![p] = [last |-> DeltaKey(p, v),
                                  items |-> {}, count |-> 0, bcount |-> a.bcount]]
                  /\ deltapage_versions' = [deltapage_versions EXCEPT ![p] =
                                              deltapage_versions[p] \cup {v}]
                  /\ UNCHANGED page_versions
<1> DEFINE p == commit.pid
           v == commit.version
           old == active[p]
           page == lru[p][commit.at]
           a == IF commit.exceed THEN Checkpointed(active[p], BaseKey(p, v))
                                 ELSE active[p]
           cached == PutIf(commit.exceed, page_cache, BaseKey(p, v), page)
<1>1. /\ p \in Pid /\ v \in Versions /\ old \in ActivePage /\ pc = "slots"
      /\ page \in BasePage /\ commit.todo = {} /\ commit.exceed \in BOOLEAN
  BY DEF TypeInv, TypeOK, CommitLocals, Resides, ClosePage
<1>2. /\ page_cache' = PutIf(FreezeDue(a), cached, DeltaKey(p, v), Frozen(a))
      /\ active' = [active EXCEPT ![p] =
                      IF FreezeDue(a) THEN Cleared(a, DeltaKey(p, v)) ELSE a]
      /\ deltapage_versions' = PutIf(FreezeDue(a), deltapage_versions, p,
                                     deltapage_versions[p] \cup {v})
      /\ page_versions' = PutIf(commit.exceed, page_versions, p,
                                [cur |-> v, base |-> v])
  BY DEF ClosePage
<1>3. old = [last |-> old.last, items |-> old.items, count |-> old.count,
             bcount |-> old.bcount]
  BY <1>1 DEF ActivePage
<1>4. CASE commit.exceed
  <2>1. old.count = 0 /\ old.items = {}
    BY <1>1, <1>4 DEF SpaceInv, FrozenInv
  <2>2. a = [last |-> BaseKey(p, v), items |-> {}, count |-> 0, bcount |-> 0]
    <3>1. Checkpointed(old, BaseKey(p, v)) =
            [last |-> BaseKey(p, v), items |-> old.items, count |-> old.count,
             bcount |-> 0]
      <4> HIDE DEF old
      <4> QED BY <1>3, ActiveRecords
    <3>2. a = Checkpointed(old, BaseKey(p, v))
      BY <1>4
    <3> HIDE DEF old, a
    <3> QED BY <2>1, <3>1, <3>2
  <2>3. ~FreezeDue(a)
    BY <2>2 DEF FreezeDue
  <2> HIDE DEF a
  <2> QED BY <1>1, <1>2, <1>4, <2>2, <2>3 DEF PutIf
<1>5. CASE ~commit.exceed
  <2>1. old.count # 0
    BY <1>1, <1>5 DEF SpaceInv
  <2>2. a = old
    BY <1>5
  <2>3. FreezeDue(a)
    BY <2>1, <2>2 DEF FreezeDue
  <2>4. /\ Cleared(old, DeltaKey(p, v)) = [last |-> DeltaKey(p, v), items |-> {},
                                           count |-> 0, bcount |-> old.bcount]
        /\ Frozen(old) = [last |-> old.last, items |-> old.items]
    BY <1>3, ActiveRecords
  <2> HIDE DEF a
  <2> QED BY <1>1, <1>2, <1>5, <2>2, <2>3, <2>4 DEF PutIf
<1> QED
  BY <1>1, <1>4, <1>5

(* Every step keeps the room. *)
LEMMA NextSpace ==
  ASSUME TypeInv, FrozenInv, SpaceInv, [LayerNext]_vars
  PROVE  SpaceInv'
<1> USE ConstantsAssumption
<1>0. /\ commit \in CommitLocals /\ commit.pid \in Pid /\ active \in [Pid -> ActivePage]
      /\ commit.todo \in SUBSET Slot /\ load \in LoadLocals
  BY DEF TypeInv, TypeOK, CommitLocals
<1>1. ASSUME pc' \in {"idle", "pages", "returned", "failed"} PROVE SpaceInv'
  BY <1>1 DEF SpaceInv, Loading
<1>2. ASSUME NEW v \in FirstVersion..MaxVersion, NEW u \in Updates, BeginCommit(v, u)
      PROVE  SpaceInv'
  BY <1>1, <1>2 DEF BeginCommit
<1>3. ASSUME NEW v \in FirstVersion..MaxVersion, Advance(v)
      PROVE  SpaceInv'
  BY <1>1, <1>3 DEF Advance
<1>4. ASSUME NEW p \in Pid, NEW v \in Versions, ReadPage(p, v)
      PROVE  SpaceInv'
  <2>1. pc' = "returned" \/ (pc' = "walk" /\ load'.back = "read")
    BY <1>4 DEF ReadPage, LoadStart
  <2> QED BY <1>1, <2>1 DEF SpaceInv, Loading
<1>5. ASSUME NEW p \in Pid, EvictActive(p)
      PROVE  SpaceInv'
  BY <1>1, <1>5 DEF EvictActive
<1>6. ASSUME NEW p \in Pid, PickPage(p)
      PROVE  SpaceInv'
  <2>1. pc' \in {"open", "walk"} /\ commit'.todo = commit.updates[p]
        /\ commit.updates[p] # {}
    BY <1>0, <1>6 DEF PickPage, Pending, CommitLocals
  <2> QED BY <2>1 DEF SpaceInv, Loading
<1>7. CASE OpenPage
  <2>1. PICK e \in BOOLEAN : /\ commit' = [commit EXCEPT !.exceed = e]
                             /\ ~e => 2 * Cardinality(commit.todo) < Td
    BY <1>7, OpenEffect
  <2>2. active' = active /\ active[commit.pid].count = 0
    BY <1>7, OpenEffect
  <2>3. commit'.pid = commit.pid /\ commit'.todo = commit.todo /\ commit'.exceed = e
    BY <1>0, <2>1 DEF CommitLocals
  <2>4. commit.todo # {} /\ pc' = "slots"
    BY <1>7 DEF OpenPage, SpaceInv
  <2>5. Cardinality(commit.todo) \in Nat
    BY TodoCounts
  <2> QED BY <2>1, <2>2, <2>3, <2>4, <2>5 DEF SpaceInv, Loading
<1>8. ASSUME NEW s \in Slot, UpdatePage(s)
      PROVE  SpaceInv'
  <2> DEFINE p == commit.pid
             a == active[p]
             w == IF commit.exceed THEN 0 ELSE Weight[p]
  <2>1. active'[p].count = a.count + w /\ a.count \in Nat
    <3>1. PICK c \in BOOLEAN : active' = [active EXCEPT ![p] =
             [last |-> IF c THEN BaseKey(p, commit.version) ELSE a.last,
              items |-> IF commit.exceed THEN a.items
                        ELSE a.items \cup {<<s, commit.version>>},
              count |-> a.count + w, bcount |-> IF c THEN 0 ELSE a.bcount + w]]
      BY <1>8, UpdateEffect
    <3> QED BY <1>0, <3>1 DEF ActivePage
  <2>2. /\ commit' = [commit EXCEPT !.todo = commit.todo \ {s}]
        /\ s \in commit.todo /\ pc = "slots" /\ pc' \in {"slots", "failed"}
    BY <1>8 DEF UpdatePage
  <2>3. /\ commit'.pid = p /\ commit'.todo = commit.todo \ {s}
        /\ commit'.exceed = commit.exceed
    BY <1>0, <2>2 DEF CommitLocals
  <2>4. /\ Cardinality(commit.todo) \in Nat
        /\ Cardinality(commit'.todo) = Cardinality(commit.todo) - 1
    BY <2>2, <2>3, TodoCounts
  <2>5. CASE commit.exceed
    BY <2>1, <2>2, <2>3, <2>5 DEF SpaceInv, Loading
  <2>6. CASE ~commit.exceed
    <3>1. a.count + 2 * Cardinality(commit.todo) < Td /\ Weight[p] \in {1, 2}
      BY <1>0, <2>2, <2>6 DEF SpaceInv
    <3>2. active'[p].count = a.count + Weight[p]
      BY <2>1, <2>6
    <3>3. active'[p].count + 2 * Cardinality(commit'.todo) < Td
          /\ active'[p].count # 0
      <4> HIDE DEF a
      <4> QED BY <2>1, <2>4, <3>1, <3>2
    <3> QED BY <2>2, <2>3, <2>6, <3>3 DEF SpaceInv, Loading
  <2> QED BY <2>5, <2>6
<1>9. CASE ClosePage \/ StorePages \/ Return
  BY <1>1, <1>9 DEF ClosePage, StorePages, Return
<1>10. CASE WalkChain \/ FindBase \/ ApplyDelta
  <2>1. load'.back = load.back /\ UNCHANGED commit /\ Loading
    BY <1>0, <1>10 DEF WalkChain, FindBase, ApplyDelta, LoadLocals, Loading
  <2>2. pc' \in {"walk", "replay", "failed"}
    BY <1>10 DEF WalkChain, FindBase, ApplyDelta
  <2> QED BY <2>1, <2>2 DEF SpaceInv, Loading
<1>11. ASSUME NEW victim \in (Pid \X Versions) \cup {None}, FinishLoad(victim)
       PROVE  SpaceInv'
  <2>1. pc = "replay" /\ pc' \in {"open", "returned", "failed"}
        /\ (pc' = "open" => load.back = "commit" /\ commit'.todo = commit.todo)
    BY <1>0, <1>11 DEF FinishLoad, CommitLocals
  <2> QED BY <2>1 DEF SpaceInv, Loading
<1>12. CASE UNCHANGED vars
  BY <1>12 DEF vars, SpaceInv, Loading
<1> QED
  BY <1>2, <1>3, <1>4, <1>5, <1>6, <1>7, <1>8, <1>9, <1>10, <1>11, <1>12
  DEF LayerNext, CommitStep, LoadStep

-----------------------------------------------------------------------------
(* Order: where a commit is, which pages it has still to build, and under   *)
(* which versions pages are cached and stored.                              *)

Committing ==
  pc \in {"pages", "open", "slots"} \/ (Loading /\ load.back = "commit")
Working == Committing /\ pc # "pages"

(* The commit has not finished page p yet. *)
Unbuilt(p) == commit.updates[p] # {} \/ (Working /\ p = commit.pid)

CallInv ==
  /\ Committing =>
       /\ commit.version = current_version
       /\ hist[Root][commit.version] # {}
       /\ \A p \in Pid : commit.updates[p] \in {{}, hist[p][commit.version]}
  /\ ~Committing => commit = NoCommit
  /\ pc \in {"idle", "pages", "open", "slots"} => load = NoLoad
  /\ pc = "returned" => load.back = "read"
  /\ Working => /\ commit.updates[commit.pid] = {}
                /\ hist[commit.pid][commit.version] # {}
                /\ commit.todo \subseteq hist[commit.pid][commit.version]
  /\ Working /\ pc # "slots" => commit.todo = hist[commit.pid][commit.version]

HistInv ==
  \A p \in Pid, w \in Versions :
    hist[p][w] # {} => 1 <= w /\ w <= current_version /\ hist[Root][w] # {}

TablesInv ==
  /\ \A k \in Key : page_cache[k] # None =>
       /\ Committing /\ k.version = commit.version
       /\ Unbuilt(k.pid) => pc = "slots" /\ k.pid = commit.pid /\ ~k.delta
  /\ \A k \in Key : stored[k] # None =>
       k.version \in Committed /\ k.version # commit.version

OrderInv == pc # "failed" => CallInv /\ HistInv /\ TablesInv

(* No committed version is beyond the running one, and version 0 is none.   *)
LEMMA CommittedBound ==
  ASSUME HistInv, NEW w \in Committed
  PROVE  w \in Versions /\ 1 <= w /\ w <= current_version /\ hist[Root][w] # {}
BY DEF HistInv, Committed

(* A step of LoadPage changes no page and leaves the commit where it is.    *)
LEMMA LoadEffect ==
  ASSUME TypeInv, OrderInv, LoadStep, pc' # "failed"
  PROVE  /\ UNCHANGED <<stored, page_cache, active, page_versions,
                        deltapage_versions, current_version, hist>>
         /\ commit'.version = commit.version /\ commit'.updates = commit.updates
         /\ commit'.pid = commit.pid /\ commit'.todo = commit.todo
         /\ commit'.exceed = commit.exceed
         /\ ~Committing => UNCHANGED commit
         /\ Committing' <=> Committing
         /\ Working' <=> Working
         /\ \A p \in Pid : Unbuilt(p)' <=> Unbuilt(p)
         /\ pc \in {"walk", "replay", "returned"} /\ pc' # "pages" /\ pc' # "slots"
<1>1. /\ UNCHANGED <<stored, page_cache, active, page_versions,
                     deltapage_versions, current_version, hist>>
      /\ commit'.version = commit.version /\ commit'.updates = commit.updates
      /\ commit'.pid = commit.pid /\ commit'.todo = commit.todo
      /\ commit'.exceed = commit.exceed
      /\ pc \in {"walk", "replay", "returned"} /\ pc' # "pages" /\ pc' # "slots"
  BY DEF LoadStep, WalkChain, FindBase, ApplyDelta, FinishLoad, Return, TypeInv,
     TypeOK, CommitLocals
<1>2. (Committing' <=> Committing) /\ (~Committing => UNCHANGED commit)
  <2>0. load.back \in {"read", "commit"} /\ load \in LoadLocals
    BY DEF TypeInv, TypeOK, LoadLocals
  <2>1. CASE WalkChain \/ FindBase \/ ApplyDelta
    <3>1. load'.back = load.back /\ UNCHANGED commit
          /\ pc \in {"walk", "replay"} /\ pc' \in {"walk", "replay"}
      BY <2>0, <2>1 DEF WalkChain, FindBase, ApplyDelta, LoadLocals
    <3> QED BY <3>1 DEF Committing, Loading
  <2>2. ASSUME NEW victim \in (Pid \X Versions) \cup {None}, FinishLoad(victim)
        PROVE  (Committing' <=> Committing) /\ (~Committing => UNCHANGED commit)
    <3>1. CASE load.back = "commit"
      <4>1. pc = "replay" /\ pc' = "open"
        BY <2>2, <3>1 DEF FinishLoad
      <4> QED BY <3>1, <4>1 DEF Committing, Loading
    <3>2. CASE load.back = "read"
      <4>1. pc = "replay" /\ pc' = "returned" /\ UNCHANGED commit
        BY <2>2, <3>2 DEF FinishLoad
      <4> QED BY <3>2, <4>1 DEF Committing, Loading
    <3> QED BY <2>0, <3>1, <3>2
  <2>3. CASE Return
    BY <2>3 DEF Return, Committing, Loading
  <2> QED BY <2>1, <2>2, <2>3 DEF LoadStep
<1>3. Working' <=> Working
  BY <1>1, <1>2 DEF Working
<1>4. \A p \in Pid : Unbuilt(p)' <=> Unbuilt(p)
  BY <1>1, <1>3 DEF Unbuilt
<1> QED
  BY <1>1, <1>2, <1>3, <1>4

LEMMA InitOrder == Init => TypeInv /\ FrozenInv /\ SpaceInv /\ OrderInv
<1> SUFFICES ASSUME Init PROVE TypeInv /\ FrozenInv /\ SpaceInv /\ OrderInv
  OBVIOUS
<1>1. TypeInv
  BY InitTypes
<1>2. FrozenInv
  BY DEF Init, FrozenInv, NewActive
<1>3. SpaceInv
  BY DEF Init, SpaceInv, Loading
<1>4. ~Committing
  BY DEF Init, Committing, Loading
<1>5. CallInv
  BY <1>4 DEF Init, CallInv, Working, NoLoad
<1>6. HistInv /\ TablesInv
  BY DEF Init, HistInv, TablesInv
<1> QED
  BY <1>1, <1>2, <1>3, <1>5, <1>6 DEF OrderInv

(* A step that did not fail did not start from a failure. *)
LEMMA NotFailed ==
  ASSUME [LayerNext]_vars, pc' # "failed"
  PROVE  pc # "failed"
BY DEF LayerNext, CommitStep, LoadStep, BeginCommit, Advance, ReadPage, EvictActive,
   PickPage, OpenPage, UpdatePage, ClosePage, StorePages, WalkChain, FindBase,
   ApplyDelta, FinishLoad, Return, vars

(* Every step keeps the order of a commit. *)
LEMMA NextOrder ==
  ASSUME FirstVersion >= 1, TypeInv, FrozenInv, SpaceInv, OrderInv, [LayerNext]_vars
  PROVE  OrderInv'
<1> SUFFICES ASSUME pc' # "failed" PROVE CallInv' /\ HistInv' /\ TablesInv'
  BY DEF OrderInv
<1> USE ConstantsAssumption
<1>0. /\ commit \in CommitLocals /\ commit.pid \in Pid /\ commit.version \in Versions
      /\ commit.updates \in [Pid -> SUBSET Slot] /\ commit.todo \in SUBSET Slot
      /\ hist \in [Pid -> [Versions -> SUBSET Slot]] /\ current_version \in Versions
      /\ load \in LoadLocals /\ PageTable(stored) /\ PageTable(page_cache)
  BY DEF TypeInv, TypeOK, CommitLocals
<1>1. CallInv /\ HistInv /\ TablesInv /\ pc # "failed"
  BY NotFailed DEF OrderInv
<1>2. ASSUME UNCHANGED <<hist, current_version>> PROVE HistInv'
  BY <1>1, <1>2 DEF HistInv
<1>3. ASSUME NEW v \in FirstVersion..MaxVersion, NEW u \in Updates, BeginCommit(v, u)
      PROVE  CallInv' /\ HistInv' /\ TablesInv'
  <2>1. /\ pc = "idle" /\ pc' = "pages" /\ v \in Versions /\ 1 <= v
        /\ current_version <= v /\ current_version' = v /\ v \notin Committed
        /\ hist' = [p \in Pid |-> [hist[p] EXCEPT ![v] = u[p]]]
        /\ UNCHANGED <<stored, page_cache, load>>
        /\ commit' = [NoCommit EXCEPT !.version = v, !.updates = u]
    BY <1>3 DEF BeginCommit, Versions
  <2>2. commit'.version = v /\ commit'.updates = u
    BY <2>1 DEF NoCommit
  <2>3. \A p \in Pid : hist'[p][v] = u[p] /\ \A w \in Versions : w # v => hist'[p][w] = hist[p][w]
    BY <1>0, <2>1
  <2>4. ~Committing /\ Committing' /\ ~Working'
    BY <1>1, <2>1 DEF CallInv, NoLoad, Committing, Working, Loading
  <2>5. u[Root] # {}
    BY DEF Updates
  <2>6. CallInv'
    BY <1>1, <2>1, <2>2, <2>3, <2>4, <2>5 DEF CallInv
  <2>7. HistInv'
    <3> SUFFICES ASSUME NEW p \in Pid, NEW w \in Versions, hist'[p][w] # {}
                 PROVE  1 <= w /\ w <= v /\ hist'[Root][w] # {}
      BY <2>1 DEF HistInv
    <3>1. CASE w = v
      BY <2>1, <2>3, <2>5, <3>1 DEF Versions
    <3>2. CASE w # v
      <4>1. 1 <= w /\ w <= current_version /\ hist[Root][w] # {}
        BY <1>1, <2>3, <3>2 DEF HistInv
      <4> QED BY <1>0, <2>1, <2>3, <3>2, <4>1 DEF Versions
    <3> QED BY <3>1, <3>2
  <2>8. \A k \in Key : stored[k] # None => k.version \in Committed' /\ k.version # v
    <3> SUFFICES ASSUME NEW k \in Key, stored[k] # None
                 PROVE  k.version \in Committed' /\ k.version # v
      OBVIOUS
    <3>1. k.version \in Committed
      BY <1>1 DEF TablesInv
    <3>2. k.version # v
      BY <2>1, <3>1
    <3>3. hist'[Root][k.version] # {} /\ k.version \in Versions
      BY <1>1, <2>3, <3>1, <3>2, CommittedBound
    <3> QED BY <3>2, <3>3 DEF Committed
  <2>9. \A k \in Key : page_cache[k] = None
    BY <1>1, <2>4 DEF TablesInv
  <2> QED BY <2>1, <2>2, <2>6, <2>7, <2>8, <2>9 DEF TablesInv
<1>4. ASSUME NEW v \in FirstVersion..MaxVersion, Advance(v)
      PROVE  CallInv' /\ HistInv' /\ TablesInv'
  <2>1. /\ pc = "idle" /\ UNCHANGED <<stored, page_cache, commit, load, pc, hist>>
        /\ current_version <= current_version' /\ current_version' \in Versions
    BY <1>4 DEF Advance, Versions
  <2>2. ~Committing /\ ~Committing' /\ ~Working'
    BY <1>1, <2>1 DEF CallInv, NoLoad, Committing, Working, Loading
  <2>3. CallInv'
    BY <1>1, <2>1, <2>2 DEF CallInv
  <2>4. HistInv'
    <3> SUFFICES ASSUME NEW p \in Pid, NEW w \in Versions, hist[p][w] # {}
                 PROVE  1 <= w /\ w <= current_version' /\ hist[Root][w] # {}
      BY <2>1 DEF HistInv
    <3>1. 1 <= w /\ w <= current_version /\ hist[Root][w] # {}
      BY <1>1 DEF HistInv
    <3> QED BY <1>0, <2>1, <3>1 DEF Versions
  <2>5. TablesInv'
    BY <1>1, <2>1, <2>2 DEF TablesInv, Committed
  <2> QED BY <2>3, <2>4, <2>5
<1>5. ASSUME NEW p \in Pid, NEW v \in Versions, ReadPage(p, v)
      PROVE  CallInv' /\ HistInv' /\ TablesInv'
  <2>1. /\ pc = "idle" /\ pc' \in {"walk", "returned"} /\ load'.back = "read"
        /\ UNCHANGED <<stored, page_cache, current_version, commit, hist>>
    <3>1. CASE lru[p][v] # None
      <4>1. load' = [NoLoad EXCEPT !.pid = p, !.version = v, !.page = lru[p][v]]
        BY <1>5, <3>1 DEF ReadPage
      <4>2. load'.back = "read"
        BY <4>1 DEF NoLoad
      <4> QED BY <1>5, <3>1, <4>2 DEF ReadPage
    <3>2. CASE lru[p][v] = None
      <4>1. load'.back = "read"
        BY <1>5, <3>2 DEF ReadPage, LoadStart
      <4> QED BY <1>5, <3>2, <4>1 DEF ReadPage
    <3> QED BY <3>1, <3>2
  <2>2. ~Committing /\ ~Committing' /\ ~Working'
    BY <1>1, <2>1 DEF CallInv, NoLoad, Committing, Working, Loading
  <2>3. CallInv'
    BY <1>1, <2>1, <2>2 DEF CallInv
  <2>4. TablesInv'
    BY <1>1, <2>1, <2>2 DEF TablesInv, Committed
  <2> QED BY <1>2, <2>1, <2>3, <2>4
<1>6. ASSUME NEW p \in Pid, EvictActive(p)
      PROVE  CallInv' /\ HistInv' /\ TablesInv'
  <2>1. UNCHANGED <<stored, page_cache, current_version, commit, load, pc, hist>>
    BY <1>6 DEF EvictActive
  <2>2. (Committing' <=> Committing) /\ (Working' <=> Working)
    BY <2>1 DEF Committing, Working, Loading
  <2>3. CallInv'
    BY <1>1, <2>1, <2>2 DEF CallInv
  <2>4. TablesInv'
    BY <1>1, <2>1, <2>2 DEF TablesInv, Committed, Unbuilt
  <2> QED BY <1>2, <2>1, <2>3, <2>4
<1>7. ASSUME NEW p \in Pid, PickPage(p)
      PROVE  CallInv' /\ HistInv' /\ TablesInv'
  <2>1. /\ pc = "pages" /\ commit.updates[p] # {}
        /\ commit' = [commit EXCEPT !.pid = p, !.at = page_versions[p].cur,
                        !.todo = commit.updates[p], !.updates[p] = {}]
        /\ \/ pc' = "open" /\ load' = load
           \/ pc' = "walk" /\ load'.back = "commit"
        /\ UNCHANGED <<stored, page_cache, current_version, hist>>
    BY <1>7 DEF PickPage, Pending, LoadStart
  <2>2. /\ commit'.pid = p /\ commit'.todo = commit.updates[p]
        /\ commit'.version = commit.version
        /\ commit'.updates = [commit.updates EXCEPT ![p] = {}]
    BY <1>0, <2>1 DEF CommitLocals
  <2>3. Committing /\ Committing' /\ Working' /\ pc' # "slots" /\ pc' # "idle"
    BY <2>1 DEF Committing, Working, Loading
  <2>4. \A q \in Pid : commit'.updates[q] = IF q = p THEN {} ELSE commit.updates[q]
    BY <1>0, <2>2
  <2>5. /\ commit.version = current_version /\ hist[Root][commit.version] # {}
        /\ \A q \in Pid : commit.updates[q] \in {{}, hist[q][commit.version]}
        /\ commit.updates[p] = hist[p][commit.version] /\ load = NoLoad
    BY <1>1, <2>1, <2>3 DEF CallInv
  <2>6. CallInv'
    <3>1. /\ commit'.version = current_version'
          /\ hist'[Root][commit'.version] # {}
          /\ \A q \in Pid : commit'.updates[q] \in {{}, hist'[q][commit'.version]}
      <4>1. commit'.version = current_version' /\ hist'[Root][commit'.version] # {}
        BY <2>1, <2>2, <2>5
      <4>2. ASSUME NEW q \in Pid
            PROVE  commit'.updates[q] \in {{}, hist'[q][commit'.version]}
        <5>1. commit.updates[q] \in {{}, hist[q][commit.version]}
          BY <2>5
        <5>2. hist'[q][commit'.version] = hist[q][commit.version]
          BY <2>1, <2>2
        <5> QED BY <2>4, <5>1, <5>2
      <4> QED BY <4>1, <4>2
    <3>2. /\ commit'.updates[commit'.pid] = {}
          /\ hist'[commit'.pid][commit'.version] # {}
          /\ commit'.todo = hist'[commit'.pid][commit'.version]
      BY <2>1, <2>2, <2>4, <2>5
    <3>3. pc' = "open" => load' = NoLoad
      BY <2>1, <2>5
    <3>4. pc' \in {"open", "walk"}
      BY <2>1
    <3> QED BY <2>3, <3>1, <3>2, <3>3, <3>4 DEF CallInv
  <2>7. \A q \in Pid : Unbuilt(q)' => Unbuilt(q)
    BY <2>1, <2>2, <2>4 DEF Unbuilt
  <2>8. TablesInv'
    <3>1. \A k \in Key : page_cache[k] # None =>
            k.version = commit.version /\ ~Unbuilt(k.pid)
      BY <1>1, <2>1 DEF TablesInv
    <3>2. \A k \in Key : k.pid \in Pid
      BY DEF Key
    <3>3. \A k \in Key : stored[k] # None =>
            k.version \in Committed' /\ k.version # commit'.version
      BY <1>1, <2>1, <2>2 DEF TablesInv, Committed
    <3>4. \A k \in Key : page_cache'[k] # None =>
            k.version = commit'.version /\ ~Unbuilt(k.pid)'
      BY <2>1, <2>2, <2>7, <3>1, <3>2
    <3> QED BY <2>1, <2>3, <3>3, <3>4 DEF TablesInv
  <2> QED BY <1>2, <2>1, <2>6, <2>8
<1>8. CASE OpenPage
  <2>1. UNCHANGED <<stored, page_cache, current_version, load, hist>>
        /\ pc = "open" /\ pc' = "slots"
        /\ \E e \in BOOLEAN : commit' = [commit EXCEPT !.exceed = e]
    BY <1>8, OpenEffect DEF OpenPage
  <2>2. /\ commit'.pid = commit.pid /\ commit'.todo = commit.todo
        /\ commit'.version = commit.version /\ commit'.updates = commit.updates
    BY <1>0, <2>1 DEF CommitLocals
  <2>3. Committing /\ Committing' /\ Working /\ Working'
    BY <2>1 DEF Committing, Working, Loading
  <2>4. CallInv'
    BY <1>1, <2>1, <2>2, <2>3 DEF CallInv
  <2>5. TablesInv'
    BY <1>1, <2>1, <2>2, <2>3 DEF TablesInv, Committed, Unbuilt
  <2> QED BY <1>2, <2>1, <2>4, <2>5
<1>9. ASSUME NEW s \in Slot, UpdatePage(s)
      PROVE  CallInv' /\ HistInv' /\ TablesInv'
  <2>1. UNCHANGED <<stored, current_version, load, hist>>
        /\ pc = "slots" /\ pc' = "slots"
        /\ commit' = [commit EXCEPT !.todo = commit.todo \ {s}]
    BY <1>9 DEF UpdatePage
  <2>2. /\ commit'.pid = commit.pid /\ commit'.todo = commit.todo \ {s}
        /\ commit'.version = commit.version /\ commit'.updates = commit.updates
    BY <1>0, <2>1 DEF CommitLocals
  <2>3. Committing /\ Committing' /\ Working /\ Working'
    BY <2>1 DEF Committing, Working, Loading
  <2>4. CallInv'
    BY <1>1, <2>1, <2>2, <2>3 DEF CallInv
  <2>5. \A q \in Pid : Unbuilt(q)' <=> Unbuilt(q)
    BY <2>2, <2>3 DEF Unbuilt
  <2>6. \A k \in Key : page_cache'[k] # None =>
          page_cache[k] # None \/ k = BaseKey(commit.pid, commit.version)
    BY <1>0, <1>9, UpdateEffect, KeyTypes DEF PageTable, PutIf
  <2>7. TablesInv'
    <3>1. \A k \in Key : page_cache'[k] # None =>
            /\ k.version = commit.version
            /\ Unbuilt(k.pid) => k.pid = commit.pid /\ ~k.delta
      <4> SUFFICES ASSUME NEW k \in Key, page_cache'[k] # None
                   PROVE  /\ k.version = commit.version
                          /\ Unbuilt(k.pid) => k.pid = commit.pid /\ ~k.delta
        OBVIOUS
      <4>1. CASE page_cache[k] # None
        BY <1>1, <4>1 DEF TablesInv
      <4>2. CASE k = BaseKey(commit.pid, commit.version)
        BY <4>2 DEF BaseKey
      <4> QED BY <2>6, <4>1, <4>2
    <3>2. \A k \in Key : k.pid \in Pid
      BY DEF Key
    <3>3. \A k \in Key : stored[k] # None =>
            k.version \in Committed' /\ k.version # commit'.version
      BY <1>1, <2>1, <2>2 DEF TablesInv, Committed
    <3>4. \A k \in Key : page_cache'[k] # None =>
            /\ k.version = commit'.version
            /\ Unbuilt(k.pid)' => k.pid = commit'.pid /\ ~k.delta
      BY <2>2, <2>5, <3>1, <3>2
    <3> QED BY <2>1, <2>3, <3>3, <3>4 DEF TablesInv
  <2> QED BY <1>2, <2>1, <2>4, <2>7
<1>10. CASE ClosePage
  <2>1. UNCHANGED <<stored, current_version, load, hist, commit>>
        /\ pc = "slots" /\ pc' = "pages"
    BY <1>10 DEF ClosePage
  <2>2. Committing /\ Committing' /\ Working /\ ~Working'
    BY <2>1 DEF Committing, Working, Loading
  <2>3. CallInv'
    BY <1>1, <2>1, <2>2 DEF CallInv
  <2>4. \A q \in Pid : Unbuilt(q)' <=> commit.updates[q] # {}
    BY <2>1, <2>2 DEF Unbuilt
  <2>5. commit.updates[commit.pid] = {}
    BY <1>1, <2>2 DEF CallInv
  <2>6. \A k \in Key : page_cache'[k] # None =>
          \/ page_cache[k] # None
          \/ k \in {BaseKey(commit.pid, commit.version), DeltaKey(commit.pid, commit.version)}
    BY <1>0, <1>10, CloseEffect DEF PageTable
  <2>7. \A k \in Key : page_cache'[k] # None =>
          k.version = commit.version /\ commit.updates[k.pid] = {}
    <3> SUFFICES ASSUME NEW k \in Key, page_cache'[k] # None
                 PROVE  k.version = commit.version /\ commit.updates[k.pid] = {}
      OBVIOUS
    <3>1. CASE page_cache[k] # None
      <4>1. k.version = commit.version /\ (Unbuilt(k.pid) => k.pid = commit.pid)
        BY <1>1, <3>1 DEF TablesInv
      <4> QED BY <2>5, <4>1 DEF Unbuilt
    <3>2. CASE page_cache[k] = None
      <4>1. k = BaseKey(commit.pid, commit.version) \/ k = DeltaKey(commit.pid, commit.version)
        BY <2>6, <3>2
      <4>2. k.version = commit.version /\ k.pid = commit.pid
        BY <4>1 DEF BaseKey, DeltaKey
      <4> QED BY <2>5, <4>2
    <3> QED BY <3>1, <3>2
  <2>8. TablesInv'
    <3>2. \A k \in Key : k.pid \in Pid
      BY DEF Key
    <3>3. \A k \in Key : stored[k] # None =>
            k.version \in Committed' /\ k.version # commit'.version
      BY <1>1, <2>1 DEF TablesInv, Committed
    <3>4. \A k \in Key : page_cache'[k] # None =>
            k.version = commit'.version /\ ~Unbuilt(k.pid)'
      BY <2>1, <2>4, <2>7, <3>2
    <3> QED BY <2>1, <2>2, <3>3, <3>4 DEF TablesInv
  <2> QED BY <1>2, <2>1, <2>3, <2>8
<1>11. CASE StorePages
  <2>1. /\ pc = "pages" /\ pc' = "idle" /\ commit' = NoCommit /\ load' = NoLoad
        /\ \A k \in Key : stored'[k] # None => stored[k] # None \/ page_cache[k] # None
        /\ \A k \in Key : page_cache'[k] = None
        /\ UNCHANGED <<current_version, hist>>
    BY <1>11 DEF StorePages
  <2>2. Committing /\ ~Committing' /\ ~Working'
    BY <2>1 DEF Committing, Working, Loading
  <2>3. CallInv'
    BY <2>1, <2>2 DEF CallInv
  <2>4. \A k \in Key : stored'[k] # None => k.version \in Committed
    BY <1>0, <1>1, <2>1, <2>2 DEF TablesInv, CallInv, Committed
  <2>5. \A w \in Committed : w # NoCommit.version
    BY <1>1, CommittedBound DEF NoCommit
  <2>6. TablesInv'
    BY <2>1, <2>4, <2>5 DEF TablesInv, Committed
  <2> QED BY <1>2, <2>1, <2>3, <2>6
<1>12. CASE LoadStep
  <2>1. /\ UNCHANGED <<stored, page_cache, current_version, hist>>
        /\ commit'.version = commit.version /\ commit'.updates = commit.updates
        /\ commit'.pid = commit.pid /\ commit'.todo = commit.todo
        /\ ~Committing => UNCHANGED commit
        /\ (Committing' <=> Committing) /\ (Working' <=> Working)
        /\ \A p \in Pid : Unbuilt(p)' <=> Unbuilt(p)
        /\ pc \in {"walk", "replay", "returned"} /\ pc' # "pages" /\ pc' # "slots"
    BY <1>12, LoadEffect
  <2>2. /\ pc' \in {"idle", "open"} => load' = NoLoad
        /\ pc' = "returned" => load'.back = "read"
    BY <1>0, <1>12 DEF LoadStep, WalkChain, FindBase, ApplyDelta, FinishLoad, Return,
       LoadLocals
  <2>3. CallInv'
    BY <1>1, <2>1, <2>2 DEF CallInv
  <2>4. TablesInv'
    <3>1. \A k \in Key : page_cache[k] # None =>
            Committing /\ k.version = commit.version /\ ~Unbuilt(k.pid)
      BY <1>1, <2>1 DEF TablesInv
    <3>2. \A k \in Key : k.pid \in Pid
      BY DEF Key
    <3>3. \A k \in Key : stored[k] # None =>
            k.version \in Committed' /\ k.version # commit'.version
      BY <1>1, <2>1 DEF TablesInv, Committed
    <3>4. \A k \in Key : page_cache'[k] # None =>
            Committing' /\ k.version = commit'.version /\ ~Unbuilt(k.pid)'
      BY <2>1, <3>1, <3>2
    <3> QED BY <2>1, <3>3, <3>4 DEF TablesInv
  <2> QED BY <1>2, <2>1, <2>3, <2>4
<1>13. CASE UNCHANGED vars
  <2>1. UNCHANGED <<stored, page_cache, current_version, commit, load, pc, hist>>
    BY <1>13 DEF vars
  <2>2. (Committing' <=> Committing) /\ (Working' <=> Working)
    BY <2>1 DEF Committing, Working, Loading
  <2>3. CallInv'
    BY <1>1, <2>1, <2>2 DEF CallInv
  <2>4. TablesInv'
    BY <1>1, <2>1, <2>2 DEF TablesInv, Committed, Unbuilt
  <2> QED BY <1>2, <2>1, <2>3, <2>4
<1> QED
  BY <1>3, <1>4, <1>5, <1>6, <1>7, <1>8, <1>9, <1>10, <1>11, <1>12, <1>13
  DEF LayerNext, CommitStep

(* No page is built under a key the table already has, where its lookup     *)
(* would go on answering with the old page: a commit builds pages of its    *)
(* own version only, and no stored page has that version (LSVPS::StorePage, *)
(* MemIndexTable::Lookup).                                                  *)
THEOREM StoreIsNew == ASSUME FirstVersion >= 1 PROVE Spec => NoPageShadowed
<1> DEFINE Inv == TypeInv /\ FrozenInv /\ SpaceInv /\ OrderInv
<1>1. Init => Inv
  BY InitOrder
<1>2. Inv /\ [Next]_vars => Inv'
  BY NextIsLayerNext, NextTypes, NextFrozen, NextSpace, NextOrder
<1>3. ASSUME Inv, [Next]_vars
      PROVE  [\A k \in Key : page_cache[k] # None /\ page_cache'[k] = None
                => stored[k] = None]_vars
  <2> SUFFICES ASSUME NEW k \in Key, page_cache[k] # None, page_cache'[k] = None
               PROVE  stored[k] = None
    OBVIOUS
  <2>0. PageTable(page_cache) /\ commit.pid \in Pid /\ commit.version \in Versions
        /\ [LayerNext]_vars
    BY <1>3, NextIsLayerNext DEF TypeInv, TypeOK, CommitLocals
  <2>1. CASE StorePages
    <3>1. pc # "failed"
      BY <2>1 DEF StorePages
    <3> QED BY <1>3, <3>1 DEF OrderInv, TablesInv
  <2>2. ASSUME NEW s \in Slot, UpdatePage(s) PROVE FALSE
    <3>1. Written(lru[commit.pid][commit.at], s, commit.version) # None
      <4>1. lru[commit.pid][commit.at] \in BasePage
        BY <1>3, <2>2, UpdateEffect
      <4> QED BY <2>0, <4>1, WrittenType, NoneAssumption
    <3>2. \E c \in BOOLEAN : page_cache' =
            PutIf(c, page_cache, BaseKey(commit.pid, commit.version),
                  Written(lru[commit.pid][commit.at], s, commit.version))
      BY <1>3, <2>2, UpdateEffect
    <3> QED BY <2>0, <3>1, <3>2 DEF PutIf, PageTable
  <2>3. CASE ClosePage
    <3>1. \E j : \E x : x # None /\ page_cache' = [page_cache EXCEPT ![j] = x]
      <4>1. /\ lru[commit.pid][commit.at] # None
            /\ [last |-> active[commit.pid].last,
                items |-> active[commit.pid].items] # None
        <5>1. active[commit.pid] \in ActivePage /\ lru[commit.pid][commit.at] \in BasePage
          BY <1>3, <2>3, CloseEffect
        <5>2. [last |-> active[commit.pid].last,
               items |-> active[commit.pid].items] \in DeltaPage
          BY <5>1 DEF ActivePage, DeltaPage
        <5> QED BY <5>1, <5>2, NoneAssumption
      <4> QED BY <1>3, <2>3, <4>1, CloseEffect
    <3> QED BY <2>0, <3>1 DEF PageTable
  <2>4. CASE UNCHANGED page_cache
    BY <2>4
  <2>5. CASE OpenPage
    BY <1>3, <2>4, <2>5, OpenEffect
  <2>6. StorePages \/ (\E s \in Slot : UpdatePage(s)) \/ ClosePage \/ OpenPage
        \/ UNCHANGED page_cache
    BY <2>0 DEF LayerNext, CommitStep, LoadStep, BeginCommit, Advance, ReadPage,
       EvictActive, PickPage, WalkChain, FindBase, ApplyDelta, FinishLoad, Return, vars
  <2> QED BY <2>1, <2>2, <2>3, <2>4, <2>5, <2>6
<1> HIDE DEF Inv
<1> QED
  BY <1>1, <1>2, <1>3, PTL DEF Spec, NoPageShadowed

-----------------------------------------------------------------------------
(* Core: the chain of every page, the page being written, the resident      *)
(* pages and the page being rebuilt.                                        *)

(* Version x is not beyond the last committed one. *)
Reached(x) == x = 0 \/ \E w \in Committed : x <= w

(* Page p is not being written right now. *)
Settled(p) == ~(pc = "slots" /\ p = commit.pid)

(* The pages in the table and the ones a commit is about to store there.    *)
Table == [k \in Key |-> IF stored[k] # None THEN stored[k] ELSE page_cache[k]]

(* The chain of a page that is being written is the one from before.        *)
Pages(p) == IF Settled(p) THEN Table ELSE stored
Cur(p) == IF Settled(p) THEN page_versions[p].cur ELSE commit.at
Reach(p, u) == ReachIn(p, Pages(p), deltapage_versions[p], u)

ChainAt(p) ==
  /\ Chain(p, Pages(p), hist[p], deltapage_versions[p], Cur(p))
  /\ Settled(p) => EndOK(p, Pages(p), deltapage_versions[p], Cur(p),
                         page_versions[p].base, active[p].last)
  /\ \A w \in Versions :
       hist[p][w] # {} /\ w > Cur(p) => w = commit.version /\ Unbuilt(p)
  /\ Committing /\ Unbuilt(p) => Cur(p) < commit.version
ChainInv == \A p \in Pid : ChainAt(p)

(* Half way through the slots of a page: the resident page and the active   *)
(* delta page hold the slots done so far, and a checkpoint already taken    *)
(* holds the slots the delta page of this version will not repeat.          *)
SlotsInv ==
  LET p == commit.pid
      v == commit.version
      at == commit.at
      h == hist[p]
      done == h[v] \ commit.todo
      page == lru[p][at]
      checked == page_cache[BaseKey(p, v)]
  IN /\ Working => at = Cur(p)
     /\ pc = "slots" =>
          /\ page.version = IF done = {} THEN at ELSE v
          /\ page_versions[p].cur = IF done = {} THEN at ELSE v
          /\ \A s \in Slot : IF s \in done THEN page.slots[s] = v
                             ELSE LastIn(h, s, at, page.slots[s])
          /\ ~commit.exceed => active[p].items = {<<s, v>> : s \in done}
          /\ checked = None =>
               EndOK(p, stored, deltapage_versions[p], at,
                     page_versions[p].base, active[p].last)
          /\ checked # None =>
               /\ ~commit.exceed
               /\ page_versions[p].base = v /\ active[p].last = BaseKey(p, v)
               /\ checked.version = v
               /\ \A s \in Slot : s \in h[v] \/ LastIn(h, s, at, checked.slots[s])

(* A resident page is exact, but for the one being written, which is filed  *)
(* under its old version until UpdatePageKey.                               *)
LruAt(p, u) ==
  lru[p][u] # None =>
    /\ Reached(u)
    /\ Committing /\ u = commit.version => ~Unbuilt(p)
    /\ Reach(p, u) /\ (Settled(p) \/ u # commit.at) =>
         Exact(hist[p], u, lru[p][u]) /\ (u = 0 \/ hist[p][u] # {})
LruInv == \A p \in Pid, u \in Versions : LruAt(p, u)

(* The walk has come to some version of the chain. *)
WalkInv(p, u, stack, k) ==
  \E x \in Wrote(hist[p], Cur(p)) \cup {0} :
    /\ Linked(p, Table, deltapage_versions[p], x, k)
    /\ Reach(p, u) => Walking(p, hist[p], deltapage_versions[p],
                              page_versions[p].base, stack, k, u, x)

StackInv(stack) ==
  \A i \in 1..Len(stack) : \A a \in stack[i] : Reached(a[2])

LoadInv ==
  LET p == load.pid
      u == load.version
  IN /\ Loading /\ load.back = "commit" => u = commit.at
     /\ Loading => StackInv(load.stack)
     /\ pc = "walk" => WalkInv(p, u, load.stack, load.cur)
     /\ pc = "replay" =>
          /\ Reached(load.page.version)
          /\ Reach(p, u) => Replaying(hist[p], load.stack, load.page, u)
     /\ pc = "returned" /\ Reach(p, u) =>
          /\ load.page # None => /\ Exact(hist[p], u, load.page)
                                 /\ u = 0 \/ hist[p][u] # {}
          /\ hist[p][u] # {} => load.page # None

CoreInv == pc # "failed" => ChainInv /\ SlotsInv /\ LruInv /\ LoadInv

(* The tables have types. *)
LEMMA PagesType ==
  ASSUME TypeOK, NEW p \in Pid
  PROVE  PageTable(Table) /\ PageTable(Pages(p))
<1>1. PageTable(stored) /\ PageTable(page_cache)
  BY DEF TypeOK
<1>2. PageTable(Table)
  BY <1>1 DEF Table, PageTable
<1> QED
  BY <1>1, <1>2 DEF Pages

(* Facts about a chain that hold as long as its pages stay. *)
LEMMA KeptChain ==
  ASSUME TypeOK, TypeOK', NEW p \in Pid, ChainAt(p),
         Cur(p)' = Cur(p), Settled(p)' => Settled(p),
         \A v \in Versions : /\ Pages(p)'[BaseKey(p, v)] = Pages(p)[BaseKey(p, v)]
                             /\ Pages(p)'[DeltaKey(p, v)] = Pages(p)[DeltaKey(p, v)]
                             /\ v <= Cur(p) => hist'[p][v] = hist[p][v],
         deltapage_versions'[p] = deltapage_versions[p],
         Settled(p)' => /\ page_versions'[p].base = page_versions[p].base
                        /\ active'[p].last = active[p].last,
         \A w \in Versions : hist'[p][w] # {} /\ w > Cur(p) =>
           w = commit'.version /\ Unbuilt(p)',
         Committing' /\ Unbuilt(p)' => Cur(p) < commit'.version
  PROVE  ChainAt(p)'
<1> DEFINE T == Pages(p)
           S == Pages(p)'
           D == deltapage_versions[p]
           c == Cur(p)
           h == hist[p]
           g == hist'[p]
<1>1. /\ PageTable(T) /\ h \in Histories /\ g \in Histories /\ D \in SUBSET Versions
      /\ c \in Versions /\ page_versions[p].base \in Versions
  BY PagesType DEF TypeOK, Histories, Cur, CommitLocals
<1>2. /\ Chain(p, T, h, D, c)
      /\ Settled(p) => EndOK(p, T, D, c, page_versions[p].base, active[p].last)
  BY DEF ChainAt
<1>3. \A v \in Versions : /\ S[BaseKey(p, v)] = T[BaseKey(p, v)]
                          /\ S[DeltaKey(p, v)] = T[DeltaKey(p, v)]
                          /\ v <= c => g[v] = h[v]
  OBVIOUS
<1> HIDE DEF T, S, D, c, h, g
<1>4. Chain(p, S, g, D, c)
  BY <1>1, <1>2, <1>3, ChainSame
<1>5. Settled(p) => EndOK(p, S, D, c, page_versions[p].base, active[p].last)
  BY <1>1, <1>2, <1>3, EndSame
<1>6. Chain(p, Pages(p)', hist'[p], deltapage_versions'[p], Cur(p)')
  BY <1>4 DEF S, D, c, g
<1>7. Settled(p)' => EndOK(p, Pages(p)', deltapage_versions'[p], Cur(p)',
                           page_versions'[p].base, active'[p].last)
  BY <1>5 DEF S, D, c
<1> QED
  BY <1>6, <1>7 DEF ChainAt

(* Everything in a chain is of a reached version. *)
LEMMA CurBound ==
  ASSUME TypeOK, NEW p \in Pid, ChainAt(p)
  PROVE  /\ Cur(p) \in Versions /\ Reached(Cur(p))
         /\ \A x \in Wrote(hist[p], Cur(p)) \cup {0} : x \in Versions /\ Reached(x)
         /\ \A v \in Versions : \A j \in {BaseKey(p, v), DeltaKey(p, v)} :
              Pages(p)[j] # None => v <= Cur(p) /\ Reached(v)
<1>1. Cur(p) \in Versions
  BY DEF TypeOK, Cur, CommitLocals
<1>2. \A w \in Wrote(hist[p], Cur(p)) : w \in Versions /\ w \in Committed /\ w <= w
  BY DEF Wrote, Committed, Versions
<1>3. \A x \in Wrote(hist[p], Cur(p)) \cup {0} : x \in Versions /\ Reached(x)
  BY <1>2, ConstantsAssumption DEF Reached, Versions
<1>4. Reached(Cur(p))
  BY <1>3 DEF ChainAt, Chain, WritersOK
<1>5. ASSUME NEW v \in Versions, NEW j \in {BaseKey(p, v), DeltaKey(p, v)},
             Pages(p)[j] # None
      PROVE  v <= Cur(p) /\ Reached(v)
  <2>1. v \in Wrote(hist[p], Cur(p))
    <3>1. CASE j = BaseKey(p, v)
      BY <1>5, <3>1 DEF ChainAt, Chain, BasesOK
    <3>2. CASE j = DeltaKey(p, v)
      BY <1>5, <3>2 DEF ChainAt, Chain, DeltasOK, WritersOK
    <3> QED BY <3>1, <3>2
  <2> QED BY <1>3, <2>1 DEF Wrote
<1> QED
  BY <1>1, <1>3, <1>4, <1>5

(* No page of p is cached before p is built. *)
LEMMA UnbuiltIsStored ==
  ASSUME TablesInv, NEW p \in Pid, ~Committing \/ Unbuilt(p), pc # "slots"
  PROVE  \A k \in Key : k.pid = p => Table[k] = stored[k] /\ page_cache[k] = None
BY DEF TablesInv, Table

(* What almost every step leaves of a chain, and of the call. *)
PagesKept(p) ==
  /\ Cur(p)' = Cur(p)
  /\ Settled(p)' => Settled(p)
  /\ \A v \in Versions : /\ Pages(p)'[BaseKey(p, v)] = Pages(p)[BaseKey(p, v)]
                         /\ Pages(p)'[DeltaKey(p, v)] = Pages(p)[DeltaKey(p, v)]
  /\ deltapage_versions'[p] = deltapage_versions[p]
  /\ Settled(p)' => /\ page_versions'[p].base = page_versions[p].base
                    /\ active'[p].last = active[p].last
CallKept(p) ==
  /\ UNCHANGED hist
  /\ commit'.version = commit.version
  /\ Committing' <=> Committing
  /\ Unbuilt(p)' <=> Unbuilt(p)

(* A page that is settled before and after keeps its chain when its pages   *)
(* and its entries stay.                                                    *)
LEMMA SettledKept ==
  ASSUME NEW p \in Pid, Settled(p), Settled(p)', UNCHANGED stored,
         \A k \in Key : k.pid = p => page_cache'[k] = page_cache[k],
         deltapage_versions'[p] = deltapage_versions[p],
         page_versions'[p] = page_versions[p], active'[p].last = active[p].last
  PROVE  PagesKept(p)
<1>1. \A k \in Key : k.pid = p => Table'[k] = Table[k]
  BY DEF Table
<1>2. ASSUME NEW v \in Versions
      PROVE  /\ Table'[BaseKey(p, v)] = Table[BaseKey(p, v)]
             /\ Table'[DeltaKey(p, v)] = Table[DeltaKey(p, v)]
  <2>1. /\ BaseKey(p, v) \in Key /\ BaseKey(p, v).pid = p
        /\ DeltaKey(p, v) \in Key /\ DeltaKey(p, v).pid = p
    BY KeyTypes DEF BaseKey, DeltaKey
  <2> QED BY <1>1, <2>1
<1>3. Pages(p) = Table /\ Pages(p)' = Table'
  BY DEF Pages
<1> QED
  BY <1>2, <1>3 DEF PagesKept, Cur

(* The steps, as far as the chain of one page is concerned. *)
LEMMA StepPages ==
  ASSUME TypeInv, FrozenInv, SpaceInv, OrderInv, CoreInv, [LayerNext]_vars,
         pc' # "failed", NEW p \in Pid
  PROVE  \/ \E v \in FirstVersion..MaxVersion, u \in Updates :
              BeginCommit(v, u) /\ PagesKept(p)
         \/ ClosePage /\ p = commit.pid
         \/ StorePages /\ PagesKept(p)
         \/ PagesKept(p) /\ CallKept(p)
<1> USE ConstantsAssumption
<1>0. /\ commit \in CommitLocals /\ commit.pid \in Pid /\ commit.version \in Versions
      /\ commit.updates \in [Pid -> SUBSET Slot] /\ commit.todo \in SUBSET Slot
      /\ hist \in [Pid -> [Versions -> SUBSET Slot]] /\ current_version \in Versions
      /\ load \in LoadLocals /\ PageTable(stored) /\ PageTable(page_cache)
      /\ active \in [Pid -> ActivePage]
      /\ page_versions \in [Pid -> [cur : Versions, base : Versions]]
      /\ deltapage_versions \in [Pid -> SUBSET Versions]
  BY DEF TypeInv, TypeOK, CommitLocals
<1>1. /\ pc # "failed" /\ CallInv /\ HistInv /\ TablesInv
      /\ ChainInv /\ SlotsInv /\ LruInv /\ LoadInv
  BY NotFailed DEF OrderInv, CoreInv
<1>2. ASSUME pc # "slots", pc' # "slots",
             UNCHANGED <<stored, page_cache, deltapage_versions, page_versions>>,
             active'[p].last = active[p].last
      PROVE  PagesKept(p)
  BY <1>2, SettledKept DEF Settled
<1>3. ASSUME NEW v \in FirstVersion..MaxVersion, NEW u \in Updates, BeginCommit(v, u)
      PROVE  PagesKept(p)
  BY <1>2, <1>3 DEF BeginCommit
<1>4. ASSUME NEW v \in FirstVersion..MaxVersion, Advance(v)
      PROVE  PagesKept(p) /\ CallKept(p)
  BY <1>2, <1>4 DEF Advance, CallKept, Committing, Working, Unbuilt, Loading
<1>5. ASSUME NEW q \in Pid, NEW v \in Versions, ReadPage(q, v)
      PROVE  PagesKept(p) /\ CallKept(p)
  <2>1. /\ pc = "idle" /\ pc' \in {"walk", "returned"}
        /\ UNCHANGED <<stored, page_cache, active, page_versions, deltapage_versions,
                       commit, hist>>
    BY <1>5 DEF ReadPage
  <2>2. pc' = "walk" => load'.back = "read"
    BY <1>5 DEF ReadPage, LoadStart
  <2>3. ~Committing /\ ~Committing'
    BY <2>1, <2>2 DEF Committing, Loading
  <2> QED BY <1>2, <2>1, <2>3 DEF CallKept, Working, Unbuilt
<1>6. ASSUME NEW q \in Pid, EvictActive(q)
      PROVE  PagesKept(p) /\ CallKept(p)
  <2>1. PICK b \in 0..(Tb - 1) :
          active' = [active EXCEPT ![q] = [last |-> active[q].last, items |-> {},
                                           count |-> 0, bcount |-> b]]
    BY <1>6 DEF EvictActive
  <2>2. active'[p].last = active[p].last
    BY <1>0, <2>1
  <2>3. /\ UNCHANGED <<stored, page_cache, page_versions, deltapage_versions, commit,
                       load, pc, hist>>
        /\ pc = "idle"
    BY <1>6 DEF EvictActive
  <2> QED BY <1>2, <2>2, <2>3 DEF CallKept, Committing, Working, Unbuilt, Loading
<1>7. ASSUME NEW q \in Pid, PickPage(q)
      PROVE  PagesKept(p) /\ CallKept(p)
  <2>1. /\ pc = "pages" /\ commit.updates[q] # {}
        /\ commit' = [commit EXCEPT !.pid = q, !.at = page_versions[q].cur,
                        !.todo = commit.updates[q], !.updates[q] = {}]
        /\ pc' = "open" \/ (pc' = "walk" /\ load'.back = "commit")
        /\ UNCHANGED <<stored, page_cache, active, page_versions, deltapage_versions,
                       hist>>
    BY <1>7 DEF PickPage, Pending, LoadStart
  <2>2. /\ commit'.pid = q /\ commit'.version = commit.version
        /\ commit'.updates = [commit.updates EXCEPT ![q] = {}]
    BY <1>0, <2>1 DEF CommitLocals
  <2>3. Committing /\ Committing' /\ ~Working /\ Working'
    BY <2>1 DEF Committing, Working, Loading
  <2>4. Unbuilt(p)' <=> Unbuilt(p)
    BY <1>0, <2>1, <2>2, <2>3 DEF Unbuilt
  <2>5. pc # "slots" /\ pc' # "slots"
    BY <2>1
  <2> QED BY <1>2, <2>1, <2>2, <2>3, <2>4, <2>5 DEF CallKept
<1>8. CASE OpenPage
  <2>1. /\ UNCHANGED <<stored, page_cache, active, deltapage_versions,
                       page_versions, current_version, load, hist>>
        /\ pc = "open" /\ pc' = "slots"
        /\ \E e \in BOOLEAN : commit' = [commit EXCEPT !.exceed = e]
    BY <1>8, OpenEffect DEF OpenPage
  <2>2. /\ commit'.pid = commit.pid /\ commit'.at = commit.at
        /\ commit'.version = commit.version /\ commit'.updates = commit.updates
    BY <1>0, <2>1 DEF CommitLocals
  <2>3. Committing /\ Committing' /\ Working /\ Working'
    BY <2>1 DEF Committing, Working, Loading
  <2>4. CallKept(p)
    BY <2>1, <2>2, <2>3 DEF CallKept, Unbuilt
  <2>5. CASE p # commit.pid
    <3>1. Settled(p) /\ Settled(p)'
      BY <2>1, <2>2, <2>5 DEF Settled
    <3>2. PagesKept(p)
      BY <2>1, <3>1, SettledKept
    <3> QED BY <2>4, <3>2
  <2>6. CASE p = commit.pid
    <3>1. Settled(p) /\ ~Settled(p)'
      BY <2>1, <2>2, <2>6 DEF Settled
    <3>2. Cur(p)' = commit.at /\ Cur(p) = commit.at
      BY <1>1, <2>2, <2>3, <2>6, <3>1 DEF Cur, SlotsInv
    <3>3. \A k \in Key : k.pid = p => Table[k] = stored[k]
      BY <1>1, <2>1, <2>3, <2>6, UnbuiltIsStored DEF Unbuilt
    <3>4. Pages(p) = Table /\ Pages(p)' = stored
      BY <2>1, <3>1 DEF Pages
    <3>5. ASSUME NEW v \in Versions
          PROVE  /\ Pages(p)'[BaseKey(p, v)] = Pages(p)[BaseKey(p, v)]
                 /\ Pages(p)'[DeltaKey(p, v)] = Pages(p)[DeltaKey(p, v)]
      <4>1. /\ BaseKey(p, v) \in Key /\ BaseKey(p, v).pid = p
            /\ DeltaKey(p, v) \in Key /\ DeltaKey(p, v).pid = p
        BY KeyTypes DEF BaseKey, DeltaKey
      <4> QED BY <3>3, <3>4, <4>1
    <3> QED BY <2>1, <2>4, <3>1, <3>2, <3>5 DEF PagesKept
  <2> QED BY <2>5, <2>6
<1>9. ASSUME NEW s \in Slot, UpdatePage(s)
      PROVE  PagesKept(p) /\ CallKept(p)
  <2> DEFINE q == commit.pid
             v == commit.version
  <2>1. UNCHANGED <<stored, current_version, load, hist, deltapage_versions>>
        /\ pc = "slots" /\ pc' = "slots"
        /\ commit' = [commit EXCEPT !.todo = commit.todo \ {s}]
    BY <1>9, UpdateEffect DEF UpdatePage
  <2>2. /\ commit'.pid = q /\ commit'.at = commit.at
        /\ commit'.version = v /\ commit'.updates = commit.updates
    BY <1>0, <2>1 DEF CommitLocals
  <2>3. Committing /\ Committing' /\ Working /\ Working'
    BY <2>1 DEF Committing, Working, Loading
  <2>4. CallKept(p)
    BY <2>1, <2>2, <2>3 DEF CallKept, Unbuilt
  <2>5. /\ \E c, page : page_cache' = PutIf(c, page_cache, BaseKey(q, v), page)
        /\ \E a : active' = [active EXCEPT ![q] = a]
        /\ \E w : page_versions' = [page_versions EXCEPT ![q] = w]
    BY <1>9, UpdateEffect
  <2>6. CASE p # q
    <3>1. Settled(p) /\ Settled(p)'
      BY <2>1, <2>2, <2>6 DEF Settled
    <3>2. \A k \in Key : k.pid = p => page_cache'[k] = page_cache[k]
      <4> SUFFICES ASSUME NEW k \in Key, k.pid = p PROVE page_cache'[k] = page_cache[k]
        OBVIOUS
      <4>1. k # BaseKey(q, v)
        BY <2>6 DEF BaseKey
      <4> QED BY <1>0, <2>5, <4>1 DEF PutIf, PageTable
    <3>3. page_versions'[p] = page_versions[p] /\ active'[p] = active[p]
      BY <1>0, <2>5, <2>6
    <3>4. PagesKept(p)
      BY <2>1, <3>1, <3>2, <3>3, SettledKept
    <3> QED BY <2>4, <3>4
  <2>7. CASE p = q
    <3>1. ~Settled(p) /\ ~Settled(p)'
      BY <2>1, <2>2, <2>7 DEF Settled
    <3>2. PagesKept(p)
      BY <2>1, <2>2, <3>1 DEF PagesKept, Pages, Cur
    <3> QED BY <2>4, <3>2
  <2> QED BY <2>6, <2>7
<1>10. ASSUME ClosePage, p # commit.pid
       PROVE  PagesKept(p) /\ CallKept(p)
  <2> DEFINE q == commit.pid
             v == commit.version
  <2>1. UNCHANGED <<stored, current_version, load, hist, commit>>
        /\ pc = "slots" /\ pc' = "pages"
    BY <1>10 DEF ClosePage
  <2>2. Committing /\ Committing' /\ Working /\ ~Working'
    BY <2>1 DEF Committing, Working, Loading
  <2>3. CallKept(p)
    BY <1>10, <2>1, <2>2 DEF CallKept, Unbuilt
  <2>4. \E k \in {BaseKey(q, v), DeltaKey(q, v)} :
          \E page : page_cache' = [page_cache EXCEPT ![k] = page]
    BY <1>10, CloseEffect
  <2>5. \A k \in Key : k.pid = p => page_cache'[k] = page_cache[k]
    <3>1. BaseKey(q, v).pid = q /\ DeltaKey(q, v).pid = q
      BY KeysDiffer
    <3> HIDE DEF q
    <3>2. p # q
      BY <1>10 DEF q
    <3> QED BY <1>0, <2>4, <3>1, <3>2 DEF PageTable
  <2>6. /\ deltapage_versions'[p] = deltapage_versions[p]
        /\ page_versions'[p] = page_versions[p] /\ active'[p].last = active[p].last
    <3>1. (\E a : active' = [active EXCEPT ![q] = a])
          /\ (UNCHANGED deltapage_versions
              \/ \E d : deltapage_versions' = [deltapage_versions EXCEPT ![q] = d])
          /\ (UNCHANGED page_versions
              \/ \E w : page_versions' = [page_versions EXCEPT ![q] = w])
      BY <1>10, CloseEffect
    <3> QED BY <1>0, <1>10, <3>1
  <2>7. Settled(p) /\ Settled(p)'
    BY <1>10, <2>1 DEF Settled
  <2>8. PagesKept(p)
    BY <2>1, <2>5, <2>6, <2>7, SettledKept
  <2> QED BY <2>3, <2>8
<1>11. CASE StorePages
  <2>1. /\ stored' = [k \in Key |-> IF stored[k] = None THEN page_cache[k] ELSE stored[k]]
        /\ page_cache' = [k \in Key |-> None]
        /\ pc = "pages" /\ pc' = "idle"
        /\ UNCHANGED <<active, page_versions, deltapage_versions>>
    BY <1>11 DEF StorePages
  <2>2. Table' = Table
    <3>1. \A k \in Key : (IF stored'[k] # None THEN stored'[k] ELSE page_cache'[k])
                           = (IF stored[k] # None THEN stored[k] ELSE page_cache[k])
      BY <2>1
    <3> QED BY <3>1 DEF Table
  <2>3. Settled(p) /\ Settled(p)'
    BY <2>1 DEF Settled
  <2>4. Pages(p) = Table /\ Pages(p)' = Table'
    BY <2>3 DEF Pages
  <2>5. Cur(p)' = Cur(p)
    BY <2>1, <2>3 DEF Cur
  <2>6. PagesKept(p)
    BY <2>1, <2>2, <2>3, <2>4, <2>5 DEF PagesKept
  <2> QED BY <1>11, <2>6
<1>12. CASE LoadStep
  <2>1. /\ UNCHANGED <<stored, page_cache, active, page_versions,
                       deltapage_versions, hist>>
        /\ commit'.version = commit.version
        /\ Committing' <=> Committing
        /\ Unbuilt(p)' <=> Unbuilt(p)
        /\ pc # "slots" /\ pc' # "slots"
    BY <1>12, LoadEffect
  <2> QED BY <1>2, <2>1 DEF CallKept
<1>13. CASE UNCHANGED vars
  BY <1>13 DEF vars, PagesKept, CallKept, Cur, Settled, Pages, Table, Committing,
     Loading, Unbuilt, Working
<1> QED
  BY <1>3, <1>4, <1>5, <1>6, <1>7, <1>8, <1>9, <1>10, <1>11, <1>12, <1>13
  DEF LayerNext, CommitStep

(* A commit begins under a version beyond everything reached so far. *)
LEMMA BeginIsLater ==
  ASSUME TypeOK, HistInv, FirstVersion >= 1,
         NEW v \in FirstVersion..MaxVersion, NEW u, BeginCommit(v, u),
         NEW x \in Versions, Reached(x)
  PROVE  x < v /\ v \in Versions /\ 1 <= v
<1>1. /\ v \in Versions /\ 1 <= v /\ current_version <= v /\ v \notin Committed
      /\ current_version \in Versions
  BY ConstantsAssumption DEF BeginCommit, Versions, TypeOK
<1>2. CASE x = 0
  BY <1>1, <1>2 DEF Versions
<1>3. CASE x # 0
  <2>1. PICK w \in Committed : x <= w
    BY <1>3 DEF Reached
  <2>2. w \in Versions /\ w <= current_version
    BY CommittedBound
  <2> QED BY <1>1, <2>1, <2>2 DEF Versions
<1> QED
  BY <1>2, <1>3

(* At the end of its slots the page being written is the page of the        *)
(* version being committed.                                                 *)
LEMMA ClosedPage ==
  ASSUME TypeInv, FrozenInv, SpaceInv, OrderInv, CoreInv, ClosePage
  PROVE  LET p == commit.pid
             v == commit.version
             page == lru[p][commit.at]
         IN /\ commit.at < v /\ commit.at = Cur(p) /\ ~Settled(p)
            /\ Working /\ hist[p][v] # {}
            /\ page \in BasePage /\ Exact(hist[p], v, page)
<1> DEFINE p == commit.pid
           v == commit.version
           page == lru[p][commit.at]
           h == hist[p]
<1>1. pc = "slots" /\ commit.todo = {}
  BY DEF ClosePage
<1>2. CallInv /\ ChainInv /\ SlotsInv
  BY <1>1 DEF OrderInv, CoreInv
<1>3. /\ p \in Pid /\ v \in Versions /\ commit.at \in Versions /\ h \in Histories
      /\ page \in BasePage
  BY <1>1 DEF TypeInv, TypeOK, CommitLocals, Resides, Histories
<1>4. Committing /\ Working /\ Unbuilt(p) /\ ~Settled(p) /\ h[v] # {}
  BY <1>1, <1>2 DEF Committing, Working, Unbuilt, Settled, CallInv
<1>5. commit.at = Cur(p) /\ commit.at < v
  BY <1>2, <1>3, <1>4 DEF SlotsInv, ChainInv, ChainAt
<1>6. \A w \in Versions : h[w] # {} /\ w > commit.at => w = v
  BY <1>2, <1>3, <1>5 DEF ChainInv, ChainAt
<1>7. h[v] \ commit.todo = h[v]
  BY <1>1
<1>8. /\ page.version = v
      /\ \A s \in Slot : IF s \in h[v] THEN page.slots[s] = v
                         ELSE LastIn(h, s, commit.at, page.slots[s])
  BY <1>1, <1>2, <1>4, <1>7 DEF SlotsInv
<1>9. ASSUME NEW s \in Slot PROVE LastIn(h, s, v, page.slots[s])
  <2>1. CASE s \in h[v]
    BY <1>3, <1>8, <2>1, LastInWritten
  <2>2. CASE s \notin h[v]
    <3>1. LastIn(h, s, commit.at, page.slots[s])
      BY <1>8, <2>2
    <3>2. page.slots[s] \in Versions \cup {Absent} /\ commit.at <= v
      BY <1>3, <1>5 DEF BasePage, Versions
    <3>3. \A w \in Versions : commit.at < w /\ w <= v => s \notin h[w]
      BY <1>3, <1>6, <2>2 DEF Versions
    <3> HIDE DEF page, h, v
    <3> QED BY <1>3, <3>1, <3>2, <3>3, LastInLater
  <2> QED BY <2>1, <2>2
<1> QED
  BY <1>3, <1>4, <1>5, <1>8, <1>9 DEF Exact

(* Closing a page grows its chain by the version being committed. *)
LEMMA ClosedChain ==
  ASSUME FirstVersion >= 1, TypeInv, TypeInv', FrozenInv, SpaceInv, OrderInv,
         OrderInv', CoreInv, ClosePage, NEW p \in Pid, p = commit.pid
  PROVE  ChainAt(p)'
<1> DEFINE v == commit.version
           at == commit.at
           h == hist[p]
           D == deltapage_versions[p]
           E == deltapage_versions'[p]
           S == Table'
           page == lru[p][commit.at]
           a == active[p]
           base == page_versions[p].base
           checked == page_cache[BaseKey(p, v)]
<1> USE ConstantsAssumption, NoneAssumption
<1>1. /\ pc = "slots" /\ commit.todo = {} /\ pc' = "pages"
      /\ UNCHANGED <<stored, current_version, load, hist, commit>>
  BY DEF ClosePage
<1>2. CallInv /\ HistInv /\ TablesInv /\ ChainInv /\ SlotsInv /\ TablesInv'
  BY <1>1 DEF OrderInv, CoreInv
<1>3. /\ v \in Versions /\ at \in Versions /\ h \in Histories
      /\ D \in SUBSET Versions /\ E \in SUBSET Versions
      /\ PageTable(stored) /\ PageTable(page_cache) /\ PageTable(page_cache')
      /\ base \in Versions
  BY DEF TypeInv, TypeOK, CommitLocals, Histories
<1>4. /\ at < v /\ at = Cur(p) /\ ~Settled(p) /\ Working /\ h[v] # {}
      /\ page \in BasePage /\ page.version = v
      /\ \A s \in Slot : LastIn(h, s, v, page.slots[s])
  BY ClosedPage DEF Exact
<1>5. Settled(p)' /\ Pages(p)' = S /\ Pages(p) = stored
  BY <1>1, <1>4 DEF Settled, Pages
<1>6. Chain(p, stored, h, D, at)
  BY <1>2, <1>4, <1>5 DEF ChainInv, ChainAt
<1>7. \A w \in Versions : h[w] # {} /\ w > at => w = v
  BY <1>2, <1>4 DEF ChainInv, ChainAt
<1>8. v # 0 /\ v \notin D
  <2>1. 1 <= v
    BY <1>2, <1>3, <1>4 DEF HistInv
  <2>2. D \subseteq Wrote(h, at)
    BY <1>6 DEF Chain, WritersOK
  <2>3. \A w \in D : w <= at /\ w \in Versions
    BY <2>2 DEF Wrote
  <2> QED BY <1>3, <1>4, <2>1, <2>3 DEF Versions
<1>9. \A k \in Key : S[k] = IF stored[k] # None THEN stored[k] ELSE page_cache'[k]
  BY <1>1 DEF Table
<1>10. ASSUME NEW w \in Versions, w # v
       PROVE  S[BaseKey(p, w)] = stored[BaseKey(p, w)]
              /\ S[DeltaKey(p, w)] = stored[DeltaKey(p, w)]
  <2>1. /\ BaseKey(p, w) \in Key /\ BaseKey(p, w).version = w
        /\ DeltaKey(p, w) \in Key /\ DeltaKey(p, w).version = w
    BY KeyTypes DEF BaseKey, DeltaKey
  <2>2. page_cache'[BaseKey(p, w)] = None /\ page_cache'[DeltaKey(p, w)] = None
    BY <1>1, <1>2, <1>10, <2>1 DEF TablesInv
  <2> QED BY <1>9, <2>1, <2>2
<1>11. /\ BaseKey(p, v) \in Key /\ DeltaKey(p, v) \in Key
       /\ BaseKey(p, v).version = v /\ DeltaKey(p, v).version = v
       /\ BaseKey(p, v) # DeltaKey(p, v) /\ DeltaKey(p, v).delta
       /\ DeltaKey(p, v).pid = p
  BY <1>3, KeyTypes DEF BaseKey, DeltaKey
<1>12. /\ stored[BaseKey(p, v)] = None /\ stored[DeltaKey(p, v)] = None
       /\ S[BaseKey(p, v)] = page_cache'[BaseKey(p, v)]
       /\ S[DeltaKey(p, v)] = page_cache'[DeltaKey(p, v)]
  BY <1>2, <1>9, <1>11 DEF TablesInv
<1>13. page_cache[DeltaKey(p, v)] = None
  BY <1>2, <1>4, <1>11 DEF TablesInv, Unbuilt
<1>14. \A w \in Versions : at < w /\ w < v => h[w] = {}
  BY <1>3, <1>7 DEF Versions
<1>15. /\ \A w \in Versions : hist'[p][w] # {} /\ w > v => FALSE
       /\ ~Unbuilt(p)'
  <2>1. \A w \in Versions : h[w] # {} /\ w > v => FALSE
    BY <1>3, <1>4, <1>7 DEF Versions
  <2>2. ~Working' /\ commit.updates[p] = {}
    BY <1>1, <1>2, <1>4 DEF Working, CallInv
  <2> QED BY <1>1, <2>1, <2>2 DEF Unbuilt
<1>16. ASSUME Chain(p, S, h, E, v),
              EndOK(p, S, E, v, page_versions'[p].base, active'[p].last),
              page_versions'[p].cur = v
       PROVE  ChainAt(p)'
  <2>1. Cur(p)' = v
    BY <1>5, <1>16 DEF Cur
  <2>2. /\ Chain(p, Pages(p)', hist'[p], deltapage_versions'[p], Cur(p)')
        /\ EndOK(p, Pages(p)', deltapage_versions'[p], Cur(p)',
                 page_versions'[p].base, active'[p].last)
    BY <1>1, <1>5, <1>16, <2>1
  <2>3. \A w \in Versions : ~(hist'[p][w] # {} /\ w > Cur(p)')
    BY <1>15, <2>1
  <2> HIDE DEF S, E, v, h
  <2> QED BY <1>15, <2>2, <2>3 DEF ChainAt
<1>17. CASE commit.exceed
  <2>1. /\ page_cache' = [page_cache EXCEPT ![BaseKey(p, v)] = page]
        /\ active' = [active EXCEPT ![p] = [last |-> BaseKey(p, v),
                        items |-> {}, count |-> 0, bcount |-> 0]]
        /\ E = D
        /\ page_versions' = [page_versions EXCEPT ![p] = [cur |-> v, base |-> v]]
    BY <1>17, CloseEffect
  <2>2. S[BaseKey(p, v)] = page /\ S[DeltaKey(p, v)] = None
    BY <1>3, <1>11, <1>12, <1>13, <2>1 DEF PageTable
  <2>3. page # None
    BY <1>4
  <2>4. active'[p].last = BaseKey(p, v) /\ page_versions'[p] = [cur |-> v, base |-> v]
    BY <2>1 DEF TypeInv, TypeOK
  <2> HIDE DEF S, E, D, h, page, v, at
  <2>5. Chain(p, S, h, E, v)
    <3>1. \A w \in Versions : w # v =>
            /\ S[BaseKey(p, w)] = stored[BaseKey(p, w)]
            /\ S[DeltaKey(p, w)] = stored[DeltaKey(p, w)]
            /\ w \in E <=> w \in D
      BY <1>10, <2>1
    <3>2. S[DeltaKey(p, v)] # None <=> v \in E
      BY <1>8, <2>1, <2>2
    <3>3. S[BaseKey(p, v)] # None /\ v \notin E
      BY <1>8, <2>1, <2>2, <2>3
    <3>4. /\ S[BaseKey(p, v)].version = v
          /\ \A s \in Slot : \/ v \in E /\ s \in h[v]
                             \/ LastIn(h, s, v, S[BaseKey(p, v)].slots[s])
      BY <1>4, <2>2
    <3>5. v \in E \/ S[BaseKey(p, v)] # None
      BY <3>3
    <3>6. v \in E => /\ S[DeltaKey(p, v)].items = Batch(h, v)
                    /\ S[DeltaKey(p, v)].last = IF S[BaseKey(p, v)] # None
                         THEN BaseKey(p, v) ELSE LinkKey(p, D, at)
      BY <3>3
    <3>7. S[BaseKey(p, v)] # None =>
            /\ S[BaseKey(p, v)].version = v
            /\ \A s \in Slot : \/ v \in E /\ s \in h[v]
                               \/ LastIn(h, s, v, S[BaseKey(p, v)].slots[s])
      BY <3>4
    <3>8. /\ h \in Histories /\ D \in SUBSET Versions /\ E \in SUBSET Versions
          /\ at \in Versions /\ v \in Versions /\ at < v
          /\ Chain(p, stored, h, D, at) /\ h[v] # {}
      BY <1>3, <1>4, <1>6
    <3>9. Grows(p, stored, S, h, D, E, at, v)
      BY <1>14, <3>1, <3>2, <3>5, <3>6, <3>7, <3>8 DEF Grows
    <3> QED BY <3>8, <3>9, ChainGrows
  <2>6. EndOK(p, S, E, v, v, BaseKey(p, v))
    <3>1. \A b \in Versions : S[BaseKey(p, b)] # None => b <= v
      BY <2>5 DEF Chain, BasesOK, Wrote
    <3>2. LinkKey(p, E, v) = BaseKey(p, v)
      BY <1>8, <2>1 DEF LinkKey
    <3> QED BY <2>2, <2>3, <3>1, <3>2 DEF EndOK
  <2> QED BY <1>16, <2>4, <2>5, <2>6
<1>18. CASE ~commit.exceed
  <2>1. /\ page_cache' = [page_cache EXCEPT ![DeltaKey(p, v)] =
                            [last |-> a.last, items |-> a.items]]
        /\ active' = [active EXCEPT ![p] = [last |-> DeltaKey(p, v),
                        items |-> {}, count |-> 0, bcount |-> a.bcount]]
        /\ deltapage_versions' = [deltapage_versions EXCEPT ![p] = D \cup {v}]
        /\ UNCHANGED page_versions
    BY <1>18, CloseEffect
  <2>2. /\ S[BaseKey(p, v)] = checked
        /\ S[DeltaKey(p, v)] = [last |-> a.last, items |-> a.items]
    BY <1>3, <1>11, <1>12, <2>1 DEF PageTable
  <2>3. [last |-> a.last, items |-> a.items] # None
    <3>1. [last |-> a.last, items |-> a.items] \in DeltaPage
      BY DEF TypeInv, TypeOK, ActivePage, DeltaPage
    <3> QED BY <3>1
  <2>4. active'[p].last = DeltaKey(p, v) /\ E = D \cup {v}
        /\ page_versions'[p] = page_versions[p]
    BY <2>1 DEF TypeInv, TypeOK
  <2>5. h[v] \ commit.todo = h[v] /\ h[v] # {}
    BY <1>1, <1>4
  <2>6. /\ a.items = Batch(h, v)
        /\ page_versions[p].cur = v
        /\ checked = None => EndOK(p, stored, D, at, base, a.last)
        /\ checked # None => /\ base = v /\ a.last = BaseKey(p, v) /\ checked.version = v
                             /\ \A s \in Slot : \/ s \in h[v]
                                                \/ LastIn(h, s, at, checked.slots[s])
    BY <1>1, <1>2, <1>18, <2>5 DEF SlotsInv, Batch
  <2>7. checked # None =>
          \A s \in Slot : s \in h[v] \/ LastIn(h, s, v, checked.slots[s])
    <3> SUFFICES ASSUME checked # None, NEW s \in Slot, s \notin h[v]
                 PROVE  LastIn(h, s, v, checked.slots[s])
      OBVIOUS
    <3>1. LastIn(h, s, at, checked.slots[s])
      BY <2>6
    <3>2. checked.slots[s] \in Versions \cup {Absent} /\ at <= v
      BY <1>3, <1>4, <1>11 DEF PageTable, PageOf, BaseKey, BasePage, Versions
    <3>3. \A w \in Versions : at < w /\ w <= v => s \notin h[w]
      BY <1>3, <1>7 DEF Versions
    <3> HIDE DEF checked, h, v, at
    <3> QED BY <1>3, <3>1, <3>2, <3>3, LastInLater
  <2> HIDE DEF S, E, D, h, v, at, checked, a, base
  <2>8. Chain(p, S, h, E, v)
    <3>1. \A w \in Versions : w # v =>
            /\ S[BaseKey(p, w)] = stored[BaseKey(p, w)]
            /\ S[DeltaKey(p, w)] = stored[DeltaKey(p, w)]
            /\ w \in E <=> w \in D
      BY <1>10, <2>4
    <3>2. S[DeltaKey(p, v)] # None /\ v \in E
      BY <2>2, <2>3, <2>4
    <3>3. /\ S[DeltaKey(p, v)].items = Batch(h, v)
          /\ S[DeltaKey(p, v)].last = IF S[BaseKey(p, v)] # None
               THEN BaseKey(p, v) ELSE LinkKey(p, D, at)
      BY <2>2, <2>6 DEF EndOK
    <3>4. S[BaseKey(p, v)] # None =>
            /\ S[BaseKey(p, v)].version = v
            /\ \A s \in Slot : \/ v \in E /\ s \in h[v]
                               \/ LastIn(h, s, v, S[BaseKey(p, v)].slots[s])
      BY <2>2, <2>6, <2>7, <3>2
    <3>5. S[DeltaKey(p, v)] # None <=> v \in E
      BY <3>2
    <3>6. v \in E \/ S[BaseKey(p, v)] # None
      BY <3>2
    <3>7. v \in E => /\ S[DeltaKey(p, v)].items = Batch(h, v)
                    /\ S[DeltaKey(p, v)].last = IF S[BaseKey(p, v)] # None
                         THEN BaseKey(p, v) ELSE LinkKey(p, D, at)
      BY <3>3
    <3>8. /\ h \in Histories /\ D \in SUBSET Versions /\ E \in SUBSET Versions
          /\ at \in Versions /\ v \in Versions /\ at < v
          /\ Chain(p, stored, h, D, at) /\ h[v] # {}
      BY <1>3, <1>4, <1>6
    <3>9. Grows(p, stored, S, h, D, E, at, v)
      BY <1>14, <3>1, <3>4, <3>5, <3>6, <3>7, <3>8 DEF Grows
    <3> QED BY <3>8, <3>9, ChainGrows
  <2>9. EndOK(p, S, E, v, base, DeltaKey(p, v))
    <3>1. LinkKey(p, E, v) = DeltaKey(p, v)
      BY <2>4 DEF LinkKey
    <3>2. CASE checked # None
      <4>1. \A b \in Versions : S[BaseKey(p, b)] # None => b <= v
        BY <2>8 DEF Chain, BasesOK, Wrote
      <4> QED BY <2>2, <2>6, <3>1, <3>2, <4>1 DEF EndOK
    <3>3. CASE checked = None
      <4>1. /\ base # 0 => stored[BaseKey(p, base)] # None
            /\ \A b \in Versions : stored[BaseKey(p, b)] # None => b <= base
        BY <2>6, <3>3 DEF EndOK
      <4>2. base # v \/ base = 0
        BY <1>12, <4>1
      <4>3. base # 0 => S[BaseKey(p, base)] # None
        BY <1>3, <1>10, <4>1, <4>2
      <4>4. \A b \in Versions : S[BaseKey(p, b)] # None => b <= base
        BY <1>10, <2>2, <3>3, <4>1
      <4> QED BY <3>1, <4>3, <4>4 DEF EndOK
    <3> QED BY <3>2, <3>3
  <2> QED BY <1>16, <2>4, <2>6, <2>8, <2>9 DEF base
<1> QED
  BY <1>3, <1>17, <1>18

(* Every step keeps the chains. *)
LEMMA NextChain ==
  ASSUME FirstVersion >= 1, TypeInv, TypeInv', FrozenInv, SpaceInv, OrderInv, OrderInv',
         CoreInv, [LayerNext]_vars, pc' # "failed"
  PROVE  ChainInv'
<1> SUFFICES ASSUME NEW p \in Pid PROVE ChainAt(p)'
  BY DEF ChainInv
<1>0. /\ TypeOK /\ TypeOK' /\ commit \in CommitLocals
      /\ hist \in [Pid -> [Versions -> SUBSET Slot]]
      /\ page_versions \in [Pid -> [cur : Versions, base : Versions]]
  BY DEF TypeInv, TypeOK
<1>1. /\ pc # "failed" /\ CallInv /\ HistInv /\ TablesInv
      /\ ChainAt(p) /\ SlotsInv /\ LruInv /\ LoadInv
  BY NotFailed DEF OrderInv, CoreInv, ChainInv
<1>2. Cur(p) \in Versions /\ Reached(Cur(p))
  BY <1>0, <1>1, CurBound
<1>3. ASSUME NEW v \in FirstVersion..MaxVersion, NEW u \in Updates,
             BeginCommit(v, u), PagesKept(p)
      PROVE  ChainAt(p)'
  <2>1. Cur(p) < v /\ v \in Versions
    BY <1>0, <1>1, <1>2, <1>3, BeginIsLater
  <2>2. /\ pc = "idle" /\ pc' = "pages"
        /\ hist' = [q \in Pid |-> [hist[q] EXCEPT ![v] = u[q]]]
        /\ commit' = [NoCommit EXCEPT !.version = v, !.updates = u]
    BY <1>3 DEF BeginCommit
  <2>3. commit'.version = v /\ commit'.updates = u
    BY <2>2 DEF NoCommit
  <2>4. hist'[p][v] = u[p] /\ \A w \in Versions : w # v => hist'[p][w] = hist[p][w]
    BY <1>0, <2>1, <2>2
  <2>5. ~Unbuilt(p)
    <3>1. ~Committing /\ ~Working /\ commit = NoCommit
      BY <1>1, <2>2 DEF CallInv, Committing, Working, Loading
    <3> QED BY <3>1 DEF Unbuilt, NoCommit, NoUpdates
  <2>6. \A w \in Versions : hist'[p][w] # {} /\ w > Cur(p) =>
          w = commit'.version /\ Unbuilt(p)'
    <3> SUFFICES ASSUME NEW w \in Versions, hist'[p][w] # {}, w > Cur(p)
                 PROVE  w = commit'.version /\ Unbuilt(p)'
      OBVIOUS
    <3>1. w = v
      BY <1>1, <2>4, <2>5 DEF ChainAt
    <3> QED BY <2>3, <2>4, <3>1 DEF Unbuilt
  <2>7. \A w \in Versions : w <= Cur(p) => hist'[p][w] = hist[p][w]
    BY <1>2, <2>1, <2>4 DEF Versions
  <2> QED BY <1>0, <1>1, <1>3, <2>1, <2>3, <2>6, <2>7, KeptChain DEF PagesKept
<1>4. CASE ClosePage /\ p = commit.pid
  BY <1>4, ClosedChain
<1>5. ASSUME StorePages, PagesKept(p)
      PROVE  ChainAt(p)'
  <2>1. /\ pc = "pages" /\ pc' = "idle" /\ Pending = {} /\ UNCHANGED hist
    BY <1>5 DEF StorePages
  <2>2. ~Unbuilt(p) /\ ~Committing'
    BY <2>1 DEF Unbuilt, Working, Pending, Committing, Loading
  <2>3. \A w \in Versions : ~(hist'[p][w] # {} /\ w > Cur(p))
    BY <1>1, <2>1, <2>2 DEF ChainAt
  <2> QED BY <1>0, <1>1, <1>5, <2>1, <2>2, <2>3, KeptChain DEF PagesKept
<1>6. ASSUME PagesKept(p), CallKept(p)
      PROVE  ChainAt(p)'
  <2>1. \A w \in Versions : hist'[p][w] # {} /\ w > Cur(p) =>
          w = commit'.version /\ Unbuilt(p)'
    BY <1>1, <1>6 DEF ChainAt, CallKept
  <2>2. Committing' /\ Unbuilt(p)' => Cur(p) < commit'.version
    BY <1>1, <1>6 DEF ChainAt, CallKept
  <2> QED BY <1>0, <1>1, <1>6, <2>1, <2>2, KeptChain DEF PagesKept, CallKept
<1> QED
  BY <1>3, <1>4, <1>5, <1>6, StepPages

(* The page a commit loads to update is found: it is the current version of *)
(* its page, which no base page comes after.                                *)
LEMMA CommitFinds ==
  ASSUME TypeInv, OrderInv, CoreInv, pc = "replay", load.stack = <<>>,
         load.back = "commit"
  PROVE  /\ load.pid = commit.pid /\ load.version = commit.at
         /\ commit.at = Cur(commit.pid) /\ Working
         /\ load.page \in BasePage /\ Exact(hist[load.pid], load.version, load.page)
         /\ load.version = 0 \/ hist[load.pid][load.version] # {}
<1> DEFINE p == load.pid
           u == load.version
<1>1. CallInv /\ ChainInv /\ SlotsInv /\ LoadInv
  BY DEF OrderInv, CoreInv
<1>2. Loading /\ Committing /\ Working
  BY DEF Loading, Committing, Working
<1>3. /\ p = commit.pid /\ u = commit.at /\ u = Cur(p) /\ p \in Pid
      /\ u \in Versions /\ load.page \in BasePage /\ hist[p] \in Histories /\ TypeOK
  BY <1>1, <1>2 DEF TypeInv, TypeOK, Resides, LoadLocals, CommitLocals, LoadInv,
     SlotsInv, Histories
<1>4. ChainAt(p)
  BY <1>1, <1>3 DEF ChainInv
<1>5. Reach(p, u)
  <2>1. \A b \in Versions : Pages(p)[BaseKey(p, b)] # None => b <= u
    BY <1>3, <1>4, CurBound
  <2> QED BY <1>3, <2>1 DEF Reach, ReachIn, Versions
<1>6. Replaying(hist[p], <<>>, load.page, u)
  BY <1>1, <1>5 DEF LoadInv
<1>7. u = 0 \/ hist[p][u] # {}
  BY <1>3, <1>4 DEF ChainAt, Chain, WritersOK, Wrote
<1>8. load.page.version = u
  <2>1. load.page.version \in Versions /\ load.page.version <= u
    BY <1>3, <1>6 DEF BasePage, Replaying
  <2>2. CASE u = 0
    BY <2>1, <2>2 DEF Versions
  <2>3. CASE hist[p][u] # {}
    BY <1>3, <1>6, <2>3, ReplayEnd
  <2> QED BY <1>7, <2>2, <2>3
<1>9. Exact(hist[p], u, load.page)
  BY <1>3, <1>6, <1>8, ReplayEnd
<1> QED
  BY <1>2, <1>3, <1>7, <1>9

(* Opening a page: the resident page is the current one, no slot is done.   *)
LEMMA OpenedSlots ==
  ASSUME TypeInv, TypeInv', FrozenInv, OrderInv, CoreInv, OpenPage
  PROVE  SlotsInv'
<1> DEFINE p == commit.pid
           v == commit.version
           at == commit.at
           h == hist[p]
           D == deltapage_versions[p]
           page == lru[p][at]
<1>1. /\ pc = "open" /\ pc' = "slots"
      /\ UNCHANGED <<stored, page_cache, active, lru, page_versions,
                     deltapage_versions, hist>>
      /\ active[p].items = {}
      /\ \E e \in BOOLEAN : commit' = [commit EXCEPT !.exceed = e]
  BY OpenEffect DEF OpenPage
<1>2. CallInv /\ TablesInv /\ ChainInv /\ SlotsInv /\ LruInv
  BY <1>1 DEF OrderInv, CoreInv
<1>3. /\ p \in Pid /\ v \in Versions /\ at \in Versions /\ h \in Histories
      /\ commit \in CommitLocals /\ page \in BasePage /\ TypeOK
      /\ page_versions \in [Pid -> [cur : Versions, base : Versions]]
  BY <1>1 DEF TypeInv, TypeOK, Resides, CommitLocals, Histories
<1>4. Committing /\ Working /\ Settled(p) /\ Unbuilt(p)
  BY <1>1 DEF Committing, Working, Settled, Unbuilt
<1>5. at = Cur(p) /\ page_versions[p].cur = at /\ ChainAt(p)
  BY <1>2, <1>3, <1>4 DEF SlotsInv, Cur, ChainInv
<1>6. Reach(p, at)
  <2>1. \A b \in Versions : Pages(p)[BaseKey(p, b)] # None => b <= at
    BY <1>3, <1>5, CurBound
  <2> QED BY <1>3, <2>1 DEF Reach, ReachIn, Versions
<1>7. Exact(h, at, page)
  <2>1. page # None
    BY <1>3, NoneAssumption
  <2> QED BY <1>2, <1>3, <1>4, <1>6, <2>1 DEF LruInv, LruAt
<1>8. h[v] \ commit.todo = {}
  BY <1>1, <1>2, <1>4 DEF CallInv
<1>9. /\ commit'.pid = p /\ commit'.version = v /\ commit'.at = at
      /\ commit'.todo = commit.todo
  BY <1>1, <1>3 DEF CommitLocals
<1>10. \A k \in Key : k.pid = p => Table[k] = stored[k] /\ page_cache[k] = None
  BY <1>1, <1>2, <1>3, <1>4, UnbuiltIsStored
<1>11. page_cache[BaseKey(p, v)] = None
  <2>1. BaseKey(p, v) \in Key /\ BaseKey(p, v).pid = p
    BY <1>3, KeyTypes DEF BaseKey
  <2> QED BY <1>10, <2>1
<1>12. EndOK(p, stored, D, at, page_versions[p].base, active[p].last)
  <2>1. EndOK(p, Table, D, at, page_versions[p].base, active[p].last)
    BY <1>4, <1>5 DEF ChainAt, Pages
  <2>2. ASSUME NEW w \in Versions PROVE stored[BaseKey(p, w)] = Table[BaseKey(p, w)]
    <3>1. BaseKey(p, w) \in Key /\ BaseKey(p, w).pid = p
      BY <1>3, KeyTypes DEF BaseKey
    <3> QED BY <1>10, <3>1
  <2>3. page_versions[p].base \in Versions
    BY <1>3
  <2> HIDE DEF D, at
  <2> QED BY <1>3, <2>1, <2>2, <2>3, EndSame
<1>13. Cur(p)' = at
  BY <1>1, <1>9 DEF Cur, Settled
<1>14. ASSUME NEW q, q = p
       PROVE  /\ commit'.pid = q /\ commit'.at = Cur(q)'
              /\ page.version = at /\ page_versions[q].cur = at
              /\ \A s \in Slot : LastIn(hist[q], s, at, page.slots[s])
              /\ active[q].items = {} /\ page_cache[BaseKey(q, v)] = None
              /\ EndOK(q, stored, deltapage_versions[q], at,
                       page_versions[q].base, active[q].last)
  BY <1>5, <1>7, <1>9, <1>11, <1>12, <1>13, <1>14, <1>1 DEF Exact
<1> SUFFICES ASSUME NEW q, q = p PROVE SlotsInv'
  OBVIOUS
<1>15. hist[q][v] \ commit.todo = {} /\ lru[q][at] = page
  BY <1>8
<1> HIDE DEF p, page, h, D, at, v
<1> QED
  BY <1>1, <1>9, <1>14, <1>15 DEF SlotsInv

(* One slot more is done. *)
LEMMA UpdatedSlots ==
  ASSUME TypeInv, TypeInv', SpaceInv, OrderInv, CoreInv,
         NEW s \in Slot, UpdatePage(s), pc' # "failed"
  PROVE  SlotsInv'
<1> DEFINE p == commit.pid
           v == commit.version
           at == commit.at
           h == hist[p]
           D == deltapage_versions[p]
           old == lru[p][at]
           page == Written(old, s, v)
           a == active[p]
           done == h[v] \ commit.todo
           checked == page_cache[BaseKey(p, v)]
<1>1. /\ pc = "slots" /\ pc' = "slots" /\ s \in commit.todo
      /\ UNCHANGED <<stored, hist, deltapage_versions>>
      /\ commit' = [commit EXCEPT !.todo = commit.todo \ {s}]
      /\ lru' = [lru EXCEPT ![p][at] = page]
  BY UpdateEffect DEF UpdatePage
<1>2. CallInv /\ SlotsInv
  BY <1>1 DEF OrderInv, CoreInv
<1>3. /\ p \in Pid /\ v \in Versions /\ at \in Versions /\ h \in Histories
      /\ commit \in CommitLocals /\ old \in BasePage
      /\ page_versions \in [Pid -> [cur : Versions, base : Versions]]
      /\ PageTable(page_cache)
      /\ active \in [Pid -> ActivePage]
      /\ lru \in [Pid -> [Versions -> BasePage \cup {None}]]
  BY <1>1 DEF TypeInv, TypeOK, Resides, CommitLocals, Histories
<1>22. BaseKey(p, v) \in Key
  BY <1>3, KeyTypes
<1>4. Working /\ s \in h[v]
  BY <1>1, <1>2 DEF Committing, Working, CallInv
<1>5. /\ old.version = IF done = {} THEN at ELSE v
      /\ \A t \in Slot : IF t \in done THEN old.slots[t] = v
                         ELSE LastIn(h, t, at, old.slots[t])
      /\ ~commit.exceed => a.items = {<<t, v>> : t \in done}
      /\ checked = None => EndOK(p, stored, D, at, page_versions[p].base, a.last)
      /\ checked # None =>
           /\ ~commit.exceed
           /\ page_versions[p].base = v /\ a.last = BaseKey(p, v)
           /\ checked.version = v
           /\ \A t \in Slot : t \in h[v] \/ LastIn(h, t, at, checked.slots[t])
  BY <1>1, <1>2 DEF SlotsInv
<1>6. /\ commit'.pid = p /\ commit'.version = v /\ commit'.at = at
      /\ commit'.todo = commit.todo \ {s} /\ commit'.exceed = commit.exceed
  BY <1>1, <1>3 DEF CommitLocals
<1>7. h[v] \ commit'.todo = done \cup {s}
  BY <1>4, <1>6
<1>8. /\ page \in BasePage /\ page.version = v /\ page # None
      /\ \A t \in Slot : page.slots[t] = IF t = s THEN v ELSE old.slots[t]
  <2>1. page \in BasePage
    BY <1>3, WrittenType
  <2> QED BY <1>3, <2>1, NoneAssumption DEF Written, BasePage
<1>9. lru'[p][at] = page
  BY <1>1, <1>3
<1> DEFINE w == IF commit.exceed THEN 0 ELSE Weight[p]
<1>10. PICK c \in BOOLEAN :
         /\ c => ~commit.exceed
         /\ page_cache' = PutIf(c, page_cache, BaseKey(p, v), page)
         /\ active' = [active EXCEPT ![p] =
              [last |-> IF c THEN BaseKey(p, v) ELSE a.last,
               items |-> IF commit.exceed THEN a.items ELSE a.items \cup {<<s, v>>},
               count |-> a.count + w, bcount |-> IF c THEN 0 ELSE a.bcount + w]]
         /\ page_versions' = [page_versions EXCEPT ![p] =
              [cur |-> v, base |-> IF c THEN v ELSE page_versions[p].base]]
  BY UpdateEffect
<1>11. /\ page_cache'[BaseKey(p, v)] = IF c THEN page ELSE checked
       /\ active'[p].last = (IF c THEN BaseKey(p, v) ELSE a.last)
       /\ ~commit.exceed => active'[p].items = a.items \cup {<<s, v>>}
       /\ page_versions'[p].cur = v
       /\ page_versions'[p].base = IF c THEN v ELSE page_versions[p].base
  BY <1>3, <1>10, <1>22 DEF PutIf, PageTable
<1>12. Cur(p)' = at
  BY <1>1, <1>6 DEF Cur, Settled
<1>13. \A t \in Slot : IF t \in done \cup {s} THEN page.slots[t] = v
                       ELSE LastIn(h, t, at, page.slots[t])
  BY <1>5, <1>8
<1>14. ~commit.exceed => active'[p].items = {<<t, v>> : t \in done \cup {s}}
  BY <1>5, <1>11
<1>15. page_cache'[BaseKey(p, v)] = None =>
         EndOK(p, stored, D, at, page_versions'[p].base, active'[p].last)
  BY <1>5, <1>8, <1>11
<1>16. page_cache'[BaseKey(p, v)] # None =>
         /\ ~commit.exceed
         /\ page_versions'[p].base = v /\ active'[p].last = BaseKey(p, v)
         /\ page_cache'[BaseKey(p, v)].version = v
         /\ \A t \in Slot : t \in h[v]
                \/ LastIn(h, t, at, page_cache'[BaseKey(p, v)].slots[t])
  <2>1. CASE c
    <3>1. \A t \in Slot : t \in h[v] \/ LastIn(h, t, at, page.slots[t])
      BY <1>4, <1>13
    <3> QED BY <1>8, <1>10, <1>11, <2>1, <3>1
  <2>2. CASE ~c
    BY <1>5, <1>11, <2>2
  <2> QED BY <2>1, <2>2
<1>17. done \cup {s} # {}
  OBVIOUS
<1> SUFFICES ASSUME NEW q, q = p PROVE SlotsInv'
  OBVIOUS
<1>18. /\ commit'.pid = q /\ commit'.at = at /\ commit'.version = v
       /\ Cur(q)' = at
       /\ hist'[q][v] \ commit'.todo = done \cup {s}
       /\ lru'[q][at] = page /\ hist'[q] = h
       /\ page_versions'[q].cur = v
       /\ ~commit'.exceed => active'[q].items = {<<t, v>> : t \in done \cup {s}}
       /\ page_cache'[BaseKey(q, v)] = None =>
            EndOK(q, stored', deltapage_versions'[q], at,
                  page_versions'[q].base, active'[q].last)
       /\ page_cache'[BaseKey(q, v)] # None =>
            /\ ~commit'.exceed
            /\ page_versions'[q].base = v /\ active'[q].last = BaseKey(q, v)
            /\ page_cache'[BaseKey(q, v)].version = v
            /\ \A t \in Slot : t \in h[v]
                   \/ LastIn(h, t, at, page_cache'[BaseKey(q, v)].slots[t])
  BY <1>1, <1>6, <1>7, <1>9, <1>11, <1>12, <1>14, <1>15, <1>16
<1> HIDE DEF p, page, h, D, at, v, done, checked, a, old
<1>19. /\ commit'.at = Cur(q)'
       /\ lru'[q][commit'.at].version =
            IF hist'[q][commit'.version] \ commit'.todo = {} THEN commit'.at
            ELSE commit'.version
       /\ page_versions'[q].cur =
            IF hist'[q][commit'.version] \ commit'.todo = {} THEN commit'.at
            ELSE commit'.version
       /\ \A t \in Slot :
            IF t \in hist'[q][commit'.version] \ commit'.todo
              THEN lru'[q][commit'.at].slots[t] = commit'.version
              ELSE LastIn(hist'[q], t, commit'.at, lru'[q][commit'.at].slots[t])
       /\ ~commit'.exceed =>
            active'[q].items = {<<t, commit'.version>> :
                                  t \in hist'[q][commit'.version] \ commit'.todo}
  BY <1>8, <1>13, <1>17, <1>18
<1>20. /\ page_cache'[BaseKey(q, commit'.version)] = None =>
            EndOK(q, stored', deltapage_versions'[q], commit'.at,
                  page_versions'[q].base, active'[q].last)
       /\ page_cache'[BaseKey(q, commit'.version)] # None =>
            /\ ~commit'.exceed
            /\ page_versions'[q].base = commit'.version
            /\ active'[q].last = BaseKey(q, commit'.version)
            /\ page_cache'[BaseKey(q, commit'.version)].version = commit'.version
            /\ \A t \in Slot : t \in hist'[q][commit'.version]
                 \/ LastIn(hist'[q], t, commit'.at,
                           page_cache'[BaseKey(q, commit'.version)].slots[t])
  BY <1>18
<1>21. commit'.pid = q
  BY <1>18
<1> QED
  BY <1>19, <1>20, <1>21 DEF SlotsInv

(* Every step keeps the page that is being written right. *)
LEMMA NextSlots ==
  ASSUME TypeInv, TypeInv', FrozenInv, SpaceInv, OrderInv, CoreInv,
         [LayerNext]_vars, pc' # "failed"
  PROVE  SlotsInv'
<1>0. /\ commit \in CommitLocals /\ load \in LoadLocals
      /\ pc # "failed" /\ CallInv /\ SlotsInv /\ LoadInv
  BY NotFailed DEF TypeInv, TypeOK, OrderInv, CoreInv
<1>1. ASSUME ~Working'
      PROVE  SlotsInv'
  <2>1. pc' # "slots"
    BY <1>1 DEF Working, Committing
  <2> QED BY <1>1, <2>1 DEF SlotsInv
<1>2. CASE OpenPage
  BY <1>2, OpenedSlots
<1>3. ASSUME NEW s \in Slot, UpdatePage(s)
      PROVE  SlotsInv'
  BY <1>3, UpdatedSlots
<1>4. ASSUME NEW q \in Pid, PickPage(q)
      PROVE  SlotsInv'
  <2>1. /\ commit' = [commit EXCEPT !.pid = q, !.at = page_versions[q].cur,
                        !.todo = commit.updates[q], !.updates[q] = {}]
        /\ pc' # "slots" /\ UNCHANGED page_versions
    BY <1>4 DEF PickPage
  <2>2. commit'.pid = q /\ commit'.at = page_versions[q].cur
    BY <1>0, <2>1 DEF CommitLocals
  <2>3. commit'.at = Cur(q)'
    BY <2>1, <2>2 DEF Cur, Settled
  <2> QED BY <2>1, <2>2, <2>3 DEF SlotsInv
<1>5. CASE LoadStep
  <2> SUFFICES ASSUME Working' PROVE SlotsInv'
    BY <1>1
  <2>1. /\ UNCHANGED page_versions /\ commit'.pid = commit.pid
        /\ Working /\ pc # "slots" /\ pc' # "slots"
    BY <1>5, LoadEffect
  <2>2. commit'.at = commit.at
    <3>1. CASE WalkChain \/ FindBase \/ ApplyDelta \/ Return
      BY <3>1 DEF WalkChain, FindBase, ApplyDelta, Return
    <3>2. ASSUME NEW victim, FinishLoad(victim)
          PROVE  commit'.at = commit.at
      <4>1. pc = "replay" /\ load.back = "commit" /\ load.stack = <<>>
        BY <2>1, <3>2 DEF FinishLoad, Working, Committing
      <4>2. load.page.version = load.version /\ load.version = commit.at
        BY <4>1, CommitFinds DEF Exact
      <4>3. load.version \in Versions
        BY <1>0 DEF LoadLocals
      <4>4. load.page.version >= load.version
        BY <4>2, <4>3 DEF Versions
      <4>5. commit' = [commit EXCEPT !.at = load.version]
        BY <3>2, <4>1, <4>4 DEF FinishLoad
      <4> QED BY <1>0, <4>2, <4>5 DEF CommitLocals
    <3> QED BY <1>5, <3>1, <3>2 DEF LoadStep
  <2>3. ASSUME NEW q, q = commit.pid
        PROVE  commit'.pid = q /\ commit'.at = Cur(q)'
    BY <1>0, <2>1, <2>2, <2>3 DEF SlotsInv, Cur, Settled
  <2> QED BY <2>1, <2>3 DEF SlotsInv
<1>6. CASE UNCHANGED vars
  BY <1>0, <1>6 DEF vars, SlotsInv, Cur, Settled, Working, Committing, Loading
<1>7. CASE ClosePage \/ StorePages
  <2>1. ~Working'
    BY <1>7 DEF ClosePage, StorePages, Working, Committing, Loading
  <2> QED BY <1>1, <2>1
<1>8. ASSUME NEW v, NEW u, BeginCommit(v, u) PROVE SlotsInv'
  <2>1. ~Working'
    BY <1>8 DEF BeginCommit, Working
  <2> QED BY <1>1, <2>1
<1>9. ASSUME NEW v \in Versions, Advance(v) \/ (\E p \in Pid : ReadPage(p, v) \/ EvictActive(p))
      PROVE  SlotsInv'
  <2>1. ~Working'
    <3>1. pc' = "idle" \/ pc' = "returned" \/ (pc' = "walk" /\ load'.back = "read")
      <4>1. ASSUME NEW p \in Pid, ReadPage(p, v), pc' # "returned"
            PROVE  pc' = "walk" /\ load'.back = "read"
        BY <4>1 DEF ReadPage, LoadStart
      <4>2. ASSUME Advance(v) \/ \E p \in Pid : EvictActive(p)
            PROVE  pc' = "idle"
        BY <4>2 DEF Advance, EvictActive
      <4> QED BY <1>9, <4>1, <4>2
    <3> QED BY <3>1 DEF Working, Committing, Loading
  <2> QED BY <1>1, <2>1
<1>10. \A v \in FirstVersion..MaxVersion : v \in Versions
  BY ConstantsAssumption DEF Versions
<1>11. \E v : v \in Versions
  BY ConstantsAssumption DEF Versions
<1> QED
  BY <1>2, <1>3, <1>4, <1>5, <1>6, <1>7, <1>8, <1>9, <1>10, <1>11
  DEF LayerNext, CommitStep

(* A version that was reached stays reached. *)
LEMMA ReachedKept ==
  ASSUME TypeOK, UNCHANGED hist \/ (\E v \in Versions, b \in Updates : BeginCommit(v, b)),
         NEW x, Reached(x)
  PROVE  Reached(x)'
<1>1. CASE UNCHANGED hist
  BY <1>1 DEF Reached, Committed
<1>2. ASSUME NEW v \in Versions, NEW b \in Updates, BeginCommit(v, b)
      PROVE  Reached(x)'
  <2> SUFFICES ASSUME NEW w \in Committed, x <= w PROVE w \in Committed'
    BY DEF Reached
  <2>1. PICK p \in Pid : hist[p][w] # {}
    BY DEF Committed
  <2>2. w \in Versions /\ w # v
    BY <1>2 DEF Committed, BeginCommit
  <2>3. hist'[p][w] = hist[p][w]
    BY <1>2, <2>2 DEF BeginCommit, TypeOK
  <2> QED BY <2>1, <2>2, <2>3 DEF Committed
<1> QED
  BY <1>1, <1>2

(* What can be rebuilt is decided by the base pages and the delta versions. *)
LEMMA ReachSame ==
  ASSUME NEW p, NEW u, PagesKept(p)
  PROVE  Reach(p, u)' <=> Reach(p, u)
<1>1. \A b \in Versions : Pages(p)'[BaseKey(p, b)] = Pages(p)[BaseKey(p, b)]
  BY DEF PagesKept
<1>2. deltapage_versions'[p] = deltapage_versions[p]
  BY DEF PagesKept
<1> DEFINE T == Pages(p)
           S == Pages(p)'
           D == deltapage_versions[p]
<1>3. ReachIn(p, S, D, u) <=> ReachIn(p, T, D, u)
  BY <1>1 DEF ReachIn
<1>4. (Reach(p, u) <=> ReachIn(p, T, D, u)) /\ (Reach(p, u)' <=> ReachIn(p, S, D, u))
  BY <1>2 DEF Reach
<1> QED
  BY <1>3, <1>4

(* A resident page stays as good as it was, or goes.                        *)
LEMMA LruKept ==
  ASSUME TypeOK, TypeOK', NEW p \in Pid, NEW u \in Versions, LruAt(p, u),
         lru'[p][u] \in {lru[p][u], None},
         Reached(u) => Reached(u)',
         Reached(u) => \A v \in Versions : v <= u => hist'[p][v] = hist[p][v],
         lru[p][u] # None /\ Committing' /\ u = commit'.version => ~Unbuilt(p)',
         Reach(p, u)' => Reach(p, u),
         Settled(p)' \/ u # commit'.at => Settled(p) \/ u # commit.at
  PROVE  LruAt(p, u)'
<1> SUFFICES ASSUME lru'[p][u] # None PROVE LruAt(p, u)'
  BY DEF LruAt
<1> DEFINE page == lru[p][u]
           h == hist[p]
           g == hist'[p]
<1>1. lru'[p][u] = page /\ page # None
  OBVIOUS
<1>2. Reached(u) /\ Reached(u)'
  BY <1>1 DEF LruAt
<1>3. h \in Histories /\ g \in Histories /\ page \in BasePage
  BY <1>1 DEF TypeOK, Histories
<1>4. \A v \in Versions : v <= u => g[v] = h[v]
  BY <1>2
<1>5. u <= u
  BY DEF Versions
<1>6. Exact(h, u, page) => Exact(g, u, page)
  <2> HIDE DEF h, g, page
  <2> QED BY <1>3, <1>4, ExactSame
<1>7. Reach(p, u)' /\ (Settled(p)' \/ u # commit'.at) =>
        Exact(h, u, page) /\ (u = 0 \/ h[u] # {})
  BY <1>1 DEF LruAt
<1>8. Reach(p, u)' /\ (Settled(p)' \/ u # commit'.at) =>
        Exact(g, u, page) /\ (u = 0 \/ g[u] # {})
  BY <1>4, <1>5, <1>6, <1>7
<1>9. Committing' /\ u = commit'.version => ~Unbuilt(p)'
  BY <1>1
<1> QED
  BY <1>1, <1>2, <1>8, <1>9 DEF LruAt

(* The page that was closed is filed under the version committed; the       *)
(* versions that could be rebuilt before are the only ones that can be now. *)
LEMMA ClosedLru ==
  ASSUME FirstVersion >= 1, TypeInv, TypeInv', FrozenInv, SpaceInv, OrderInv,
         OrderInv', CoreInv, ClosePage, NEW p \in Pid, p = commit.pid,
         NEW u \in Versions
  PROVE  LruAt(p, u)'
<1> DEFINE v == commit.version
           at == commit.at
           h == hist[p]
           page == lru[p][at]
<1>1. /\ pc = "slots" /\ pc' = "pages" /\ UNCHANGED <<stored, hist, commit>>
      /\ lru' = UpdatePageKey(p, at, v)
  BY DEF ClosePage
<1>2. CallInv /\ LruAt(p, u) /\ ChainAt(p) /\ TablesInv'
  BY <1>1 DEF OrderInv, CoreInv, LruInv, ChainInv
<1>3. /\ TypeOK /\ TypeOK' /\ v \in Versions /\ at \in Versions /\ h \in Histories
      /\ lru \in [Pid -> [Versions -> BasePage \cup {None}]]
      /\ deltapage_versions \in [Pid -> SUBSET Versions]
  BY DEF TypeInv, TypeOK, CommitLocals, Histories
<1>4. /\ at < v /\ at = Cur(p) /\ ~Settled(p) /\ Working /\ h[v] # {}
      /\ page \in BasePage /\ Exact(h, v, page)
  BY ClosedPage
<1>5. /\ lru'[p][v] = page /\ lru'[p][at] = None
      /\ u # v /\ u # at => lru'[p][u] = lru[p][u]
  <2>1. v # at
    BY <1>3, <1>4 DEF Versions
  <2>2. lru' = [lru EXCEPT ![p] = [lru[p] EXCEPT ![at] = None, ![v] = page]]
    BY <1>1 DEF UpdatePageKey
  <2>3. lru'[p] = [lru[p] EXCEPT ![at] = None, ![v] = page]
    BY <1>3, <2>2
  <2>4. lru[p] \in [Versions -> BasePage \cup {None}]
    BY <1>3
  <2> HIDE DEF v, at, page
  <2> QED BY <1>3, <2>1, <2>3, <2>4
<1>6. Settled(p)' /\ Pages(p)' = Table' /\ Pages(p) = stored /\ ~Unbuilt(p)'
  <2>1. ~Working' /\ commit.updates[p] = {}
    BY <1>1, <1>2, <1>4 DEF Working, CallInv
  <2> QED BY <1>1, <1>4, <2>1 DEF Settled, Pages, Unbuilt
<1>7. CASE u = v
  <2>1. Reached(u)'
    BY <1>1, <1>4, <1>7 DEF Reached, Committed, Versions
  <2>2. lru'[p][u] = page /\ hist'[p] = h
    BY <1>1, <1>5, <1>7
  <2> HIDE DEF page, h, v
  <2>3. Exact(hist'[p], u, lru'[p][u]) /\ hist'[p][u] # {}
    BY <1>4, <1>7, <2>2
  <2> QED BY <1>6, <1>7, <2>1, <2>3 DEF LruAt
<1>8. CASE u # v /\ u # at
  <2>1. Reach(p, u)' => Reach(p, u)
    <3>1. SUFFICES ASSUME Reach(p, u)', NEW b \in Versions, b > u,
                          stored[BaseKey(p, b)] # None
                   PROVE  \E x \in deltapage_versions[p] : u < x /\ x < b
      BY <1>6 DEF Reach, ReachIn
    <3>2. b <= at
      BY <1>2, <1>3, <1>4, <1>6, <3>1, CurBound
    <3>3. Table'[BaseKey(p, b)] # None
      <4>1. BaseKey(p, b) \in Key
        BY KeyTypes
      <4> QED BY <1>1, <3>1, <4>1 DEF Table
    <3>4. PICK x \in deltapage_versions'[p] : u < x /\ x < b
      BY <1>6, <3>1, <3>3 DEF Reach, ReachIn
    <3>5. deltapage_versions'[p] \subseteq deltapage_versions[p] \cup {v}
      BY <1>3, CloseEffect
    <3>6. x # v
      BY <1>3, <1>4, <3>2, <3>4 DEF Versions
    <3> QED BY <3>4, <3>5, <3>6
  <2>2. Reached(u) => Reached(u)'
    BY <1>1 DEF Reached, Committed
  <2>3. hist'[p] = hist[p]
    BY <1>1
  <2> QED BY <1>2, <1>3, <1>5, <1>6, <1>8, <2>1, <2>2, <2>3, LruKept
<1>9. CASE u = at
  BY <1>5, <1>9 DEF LruAt
<1> QED
  BY <1>7, <1>8, <1>9

(* What LoadPage returns becomes resident when it is of the version asked   *)
(* for, and the page of a commit always is.                                 *)
LEMMA FinishEffect ==
  ASSUME TypeInv, OrderInv, CoreInv, NEW victim, FinishLoad(victim)
  PROVE  /\ pc = "replay" /\ load.stack = <<>> /\ victim \in Victims
         /\ load.page \in BasePage /\ load.pid \in Pid /\ load.version \in Versions
         /\ load.back = "commit" => load.page.version >= load.version
         /\ lru' = IF load.page.version >= load.version
                     THEN PutPage(load.pid, load.version, load.page, victim) ELSE lru
<1>1. /\ pc = "replay" /\ load.stack = <<>> /\ victim \in Victims
      /\ load.page \in BasePage /\ load.pid \in Pid /\ load.version \in Versions
      /\ load.back \in {"read", "commit"}
  BY DEF FinishLoad, TypeInv, TypeOK, Resides, LoadLocals
<1>2. ASSUME load.back = "commit" PROVE load.page.version >= load.version
  <2>1. load.page.version = load.version
    BY <1>1, <1>2, CommitFinds DEF Exact
  <2> QED BY <1>1, <2>1 DEF Versions
<1>3. CASE load.page.version >= load.version
  BY <1>1, <1>3 DEF FinishLoad
<1>4. CASE ~(load.page.version >= load.version)
  <2>1. load.back = "read"
    BY <1>1, <1>2, <1>4
  <2> QED BY <1>1, <1>2, <1>4, <2>1 DEF FinishLoad
<1> QED
  BY <1>1, <1>2, <1>3, <1>4

(* A version below a reached one is reached. *)
LEMMA ReachedBelow ==
  ASSUME NEW x \in Versions, NEW y \in Versions, x <= y, Reached(y)
  PROVE  Reached(x)
<1>1. CASE y = 0
  BY <1>1 DEF Reached, Versions
<1>2. CASE y # 0
  <2>1. PICK w \in Committed : y <= w
    BY <1>2 DEF Reached
  <2>2. x <= w
    BY <2>1 DEF Committed, Versions
  <2> QED BY <2>1, <2>2 DEF Reached
<1> QED
  BY <1>1, <1>2

(* A page that LoadPage makes resident is exact when it could be rebuilt.   *)
LEMMA LoadedLru ==
  ASSUME TypeInv, TypeInv', OrderInv, CoreInv, [LayerNext]_vars, pc' # "failed",
         NEW victim \in (Pid \X Versions) \cup {None}, FinishLoad(victim),
         NEW p \in Pid, NEW u \in Versions, PagesKept(p), CallKept(p),
         lru'[p][u] \notin {lru[p][u], None}
  PROVE  LruAt(p, u)'
<1> DEFINE page == load.page
<1>1. /\ pc = "replay" /\ load.stack = <<>> /\ page \in BasePage
      /\ lru' = IF page.version >= load.version
                  THEN PutPage(load.pid, load.version, page, victim) ELSE lru
  BY FinishEffect
<1>2. CallInv /\ ChainAt(p) /\ SlotsInv /\ LoadInv
  BY <1>1 DEF OrderInv, CoreInv, ChainInv
<1>3. /\ page.version >= load.version /\ p = load.pid /\ u = load.version
      /\ lru'[p][u] = page
  BY <1>1 DEF PutPage
<1>4. Reached(u)
  <2>1. Reached(page.version) /\ page.version \in Versions /\ u <= page.version
    BY <1>1, <1>2, <1>3 DEF LoadInv, BasePage, Versions
  <2> QED BY <2>1, ReachedBelow
<1>5. Reached(u)'
  BY <1>4 DEF CallKept, Reached, Committed
<1>6. ASSUME Committing', u = commit'.version PROVE ~Unbuilt(p)'
  <2>1. Committing /\ u = commit.version /\ (Unbuilt(p)' <=> Unbuilt(p))
    BY <1>6 DEF CallKept
  <2>2. load.back = "commit"
    BY <1>1, <2>1 DEF Committing
  <2>3. u = Cur(p)
    BY <1>1, <1>3, <2>2, CommitFinds
  <2>4. Unbuilt(p) => Cur(p) < commit.version
    BY <1>2, <2>1 DEF ChainAt
  <2> QED BY <2>1, <2>3, <2>4 DEF Versions
<1>7. ASSUME Reach(p, u)'
      PROVE  Exact(hist[p], u, page) /\ (u = 0 \/ hist[p][u] # {})
  <2>1. Reach(p, u)
    BY <1>7, ReachSame
  <2>2. Replaying(hist[p], <<>>, page, u)
    BY <1>1, <1>2, <1>3, <2>1 DEF LoadInv
  <2>3. hist[p] \in Histories
    BY DEF TypeInv, TypeOK, Histories
  <2> HIDE DEF page
  <2>4. page.version = u /\ Exact(hist[p], page.version, page)
        /\ (page.version = 0 \/ hist[p][page.version] # {})
    BY <1>1, <1>3, <2>2, <2>3, ReplayEnd
  <2> QED BY <2>4
<1>8. hist' = hist
  BY DEF CallKept
<1>9. Reach(p, u)' => Exact(hist'[p], u, lru'[p][u]) /\ (u = 0 \/ hist'[p][u] # {})
  BY <1>3, <1>7, <1>8
<1> QED
  BY <1>5, <1>6, <1>9 DEF LruAt

(* Every step keeps the resident pages exact. *)
LEMMA NextLru ==
  ASSUME FirstVersion >= 1, TypeInv, TypeInv', FrozenInv, SpaceInv, OrderInv, OrderInv',
         CoreInv, [LayerNext]_vars, pc' # "failed"
  PROVE  LruInv'
<1> SUFFICES ASSUME NEW p \in Pid, NEW u \in Versions PROVE LruAt(p, u)'
  BY DEF LruInv
<1>0. /\ TypeOK /\ TypeOK' /\ commit \in CommitLocals
      /\ hist \in [Pid -> [Versions -> SUBSET Slot]]
      /\ lru \in [Pid -> [Versions -> BasePage \cup {None}]]
  BY DEF TypeInv, TypeOK
<1>1. /\ pc # "failed" /\ CallInv /\ HistInv /\ TablesInv
      /\ ChainAt(p) /\ SlotsInv /\ LruAt(p, u) /\ LoadInv
  BY NotFailed DEF OrderInv, CoreInv, ChainInv, LruInv
<1>2. ASSUME NEW v \in FirstVersion..MaxVersion, NEW b \in Updates,
             BeginCommit(v, b), PagesKept(p)
      PROVE  LruAt(p, u)'
  <2>1. v \in Versions
    BY ConstantsAssumption DEF Versions
  <2>2. Reached(u) => u < v
    BY <1>0, <1>1, <1>2, BeginIsLater
  <2>3. Reached(u) => Reached(u)'
    BY <1>0, <1>2, <2>1, ReachedKept
  <2>4. /\ pc = "idle" /\ pc' = "pages" /\ UNCHANGED lru
        /\ hist' = [q \in Pid |-> [hist[q] EXCEPT ![v] = b[q]]]
        /\ commit' = [NoCommit EXCEPT !.version = v, !.updates = b]
    BY <1>2 DEF BeginCommit
  <2>5. commit'.version = v
    BY <2>4 DEF NoCommit
  <2>6. Reached(u) => \A w \in Versions : w <= u => hist'[p][w] = hist[p][w]
    BY <1>0, <2>1, <2>2, <2>4 DEF Versions
  <2>7. Settled(p)
    BY <2>4 DEF Settled
  <2>8. lru[p][u] # None => u # commit'.version
    BY <1>1, <2>1, <2>2, <2>5 DEF LruAt, Versions
  <2> QED BY <1>0, <1>1, <1>2, <2>3, <2>4, <2>6, <2>7, <2>8, LruKept, ReachSame
<1>3. CASE ClosePage /\ p = commit.pid
  BY <1>3, ClosedLru
<1>4. ASSUME StorePages, PagesKept(p)
      PROVE  LruAt(p, u)'
  <2>1. /\ pc = "pages" /\ pc' = "idle" /\ UNCHANGED <<hist, lru>>
    BY <1>4 DEF StorePages
  <2>2. Settled(p) /\ ~Committing'
    BY <2>1 DEF Settled, Committing, Loading
  <2>3. Reached(u) => Reached(u)'
    BY <1>0, <2>1, ReachedKept
  <2> QED BY <1>0, <1>1, <1>4, <2>1, <2>2, <2>3, LruKept, ReachSame
<1>5. ASSUME PagesKept(p), CallKept(p), lru'[p][u] \in {lru[p][u], None},
             Settled(p) \/ u # commit.at \/ commit'.at = commit.at
      PROVE  LruAt(p, u)'
  <2>1. Reached(u) => Reached(u)'
    BY <1>0, <1>5, ReachedKept DEF CallKept
  <2>2. lru[p][u] # None /\ Committing' /\ u = commit'.version => ~Unbuilt(p)'
    BY <1>1, <1>5 DEF LruAt, CallKept
  <2>3. \A v \in Versions : hist'[p][v] = hist[p][v]
    BY <1>5 DEF CallKept
  <2>4. Settled(p)' \/ u # commit'.at => Settled(p) \/ u # commit.at
    BY <1>5 DEF PagesKept
  <2> QED BY <1>0, <1>1, <1>5, <2>1, <2>2, <2>3, <2>4, LruKept, ReachSame
<1>6. ASSUME PagesKept(p), CallKept(p), NEW s \in Slot, UpdatePage(s)
      PROVE  LruAt(p, u)'
  <2> DEFINE at == commit.at
  <2>1. /\ pc = "slots" /\ pc' = "slots"
        /\ commit' = [commit EXCEPT !.todo = commit.todo \ {s}]
        /\ \E page : lru' = [lru EXCEPT ![commit.pid][at] = page]
    BY <1>6 DEF UpdatePage
  <2>2. commit'.at = at /\ commit'.pid = commit.pid /\ commit'.version = commit.version
        /\ commit.pid \in Pid
    BY <1>0, <2>1 DEF CommitLocals
  <2>3. CASE p # commit.pid \/ u # at
    <3>1. lru'[p][u] = lru[p][u]
      BY <1>0, <2>1, <2>3
    <3> QED BY <1>5, <1>6, <2>2, <3>1
  <2>4. CASE p = commit.pid /\ u = at
    <3>1. lru[p][u] # None
      BY <2>1, <2>4 DEF TypeInv, Resides
    <3>2. Reached(u)'
      BY <1>0, <1>1, <1>6, <3>1, ReachedKept DEF LruAt, CallKept
    <3>3. ~Settled(p)' /\ u = commit'.at
      BY <2>1, <2>2, <2>4 DEF Settled
    <3>4. Committing /\ Working /\ Unbuilt(p)
      BY <2>1, <2>4 DEF Committing, Working, Unbuilt
    <3>5. u < commit.version
      BY <1>1, <2>4, <3>4 DEF ChainAt, SlotsInv
    <3>6. u # commit'.version
      BY <1>0, <2>2, <3>5 DEF CommitLocals, Versions
    <3> QED BY <3>2, <3>3, <3>6 DEF LruAt
  <2> QED BY <2>3, <2>4
<1>7. ASSUME PagesKept(p), CallKept(p), ClosePage, p # commit.pid
      PROVE  LruAt(p, u)'
  <2>1. lru' = UpdatePageKey(commit.pid, commit.at, commit.version) /\ UNCHANGED commit
    BY <1>7 DEF ClosePage
  <2>2. lru'[p][u] = lru[p][u]
    BY <1>0, <1>7, <2>1 DEF UpdatePageKey
  <2> QED BY <1>5, <1>7, <2>1, <2>2
<1>8. ASSUME PagesKept(p), CallKept(p),
             NEW victim \in (Pid \X Versions) \cup {None}, FinishLoad(victim)
      PROVE  LruAt(p, u)'
  <2>1. CASE lru'[p][u] \notin {lru[p][u], None}
    BY <1>8, <2>1, LoadedLru
  <2>2. CASE lru'[p][u] \in {lru[p][u], None}
    <3>1. Settled(p)
      BY <1>8 DEF FinishLoad, Settled
    <3> QED BY <1>5, <1>8, <2>2, <3>1
  <2> QED BY <2>1, <2>2
<1>9. ASSUME PagesKept(p), CallKept(p), UNCHANGED lru,
             pc # "slots" \/ UNCHANGED commit
      PROVE  LruAt(p, u)'
  <2>1. Settled(p) \/ commit'.at = commit.at
    BY <1>9 DEF Settled
  <2> QED BY <1>5, <1>9, <2>1
<1>10. \/ \E s \in Slot : UpdatePage(s)
       \/ ClosePage \/ StorePages
       \/ \E victim \in (Pid \X Versions) \cup {None} : FinishLoad(victim)
       \/ UNCHANGED lru /\ (pc # "slots" \/ UNCHANGED commit)
  BY DEF LayerNext, CommitStep, LoadStep, BeginCommit, Advance, ReadPage, EvictActive,
     PickPage, OpenPage, WalkChain, FindBase, ApplyDelta, Return, vars
<1> QED
  BY <1>2, <1>3, <1>4, <1>6, <1>7, <1>8, <1>9, <1>10, StepPages

(* The sentinel LoadPage starts from is the first delta page after the      *)
(* version asked for, if there is one.                                      *)
LEMMA UpperboundIs ==
  ASSUME TypeOK, NEW p \in Pid, NEW u \in Versions
  PROVE  LET D == deltapage_versions[p]
             g == GetVersionUpperbound(p, u)
         IN /\ g \in Versions
            /\ (\E x \in D : x > u) => g \in D /\ u < g /\ \A x \in D : x > u => g <= x
<1> DEFINE D == deltapage_versions[p]
           g == GetVersionUpperbound(p, u)
           larger == {x \in D : x > u}
           m == CHOOSE x \in larger : \A y \in larger : x <= y
<1>1. D \in SUBSET Versions /\ current_version \in Versions /\ 0 \in Versions
  BY ConstantsAssumption DEF TypeOK, Versions
<1>2. larger \in SUBSET Nat
  BY <1>1 DEF Versions
<1>3. larger # {} => m \in larger /\ \A y \in larger : m <= y
  <2> HIDE DEF larger
  <2> QED BY <1>2, Least
<1>4. g = IF D = {} THEN 0 ELSE IF larger = {} THEN current_version ELSE m
  BY DEF GetVersionUpperbound
<1> HIDE DEF g, m, D
<1>5. larger # {} => g \in D /\ u < g /\ \A x \in D : x > u => g <= x
  BY <1>1, <1>3, <1>4 DEF Versions
<1>6. g \in Versions
  BY <1>1, <1>4, <1>5
<1>7. (\E x \in D : x > u) => larger # {}
  OBVIOUS
<1>8. g \in Versions
      /\ ((\E x \in D : x > u) => g \in D /\ u < g /\ \A x \in D : x > u => g <= x)
  BY <1>5, <1>6, <1>7
<1> QED
  BY <1>8 DEF g, D

(* LoadPage starts its walk right, whether at the live end of the chain or  *)
(* at a delta page after the version asked for.                             *)
LEMMA WalkStarts ==
  ASSUME TypeInv, FrozenInv, OrderInv, CoreInv, NEW p \in Pid, NEW u \in Versions,
         NEW back \in {"read", "commit"}, pc \in {"idle", "pages"},
         pc = "pages" => Unbuilt(p) /\ u = Cur(p)
  PROVE  /\ StackInv(LoadStart(p, u, back).stack)
         /\ WalkInv(p, u, LoadStart(p, u, back).stack, LoadStart(p, u, back).cur)
<1> DEFINE T == Table
           D == deltapage_versions[p]
           h == hist[p]
           c == Cur(p)
           base == page_versions[p].base
           last == active[p].last
           g == GetVersionUpperbound(p, u)
           sentinel == IF u >= base THEN None ELSE pageLookup(DeltaKey(p, g))
           start == LoadStart(p, u, back)
<1>1. CallInv /\ HistInv /\ TablesInv /\ ChainAt(p)
  BY DEF OrderInv, CoreInv, ChainInv
<1>2. /\ TypeOK /\ D \in SUBSET Versions /\ h \in Histories /\ base \in Versions
  BY DEF TypeInv, TypeOK, Histories
<1>3. Settled(p) /\ Pages(p) = T
  BY DEF Settled, Pages
<1>4. /\ c \in Versions
      /\ \A x \in Wrote(h, c) \cup {0} : x \in Versions /\ Reached(x)
  BY <1>1, <1>2, CurBound
<1>5. /\ Chain(p, T, h, D, c) /\ EndOK(p, T, D, c, base, last)
  BY <1>1, <1>3 DEF ChainAt
<1>6. active[p].items = {}
  BY DEF FrozenInv
<1>7. /\ start.stack = IF sentinel = None THEN <<{}>> ELSE <<{}, sentinel.items>>
      /\ start.cur = IF sentinel = None THEN last ELSE sentinel.last
  BY <1>6 DEF LoadStart
<1>8. \A k \in Key : k.pid = p => T[k] = stored[k]
  <2>1. ~Committing \/ Unbuilt(p)
    BY DEF Committing, Loading
  <2> QED BY <1>1, <2>1, UnbuiltIsStored
<1>9. /\ g \in Versions
      /\ (\E x \in D : x > u) => g \in D /\ u < g /\ \A x \in D : x > u => g <= x
  BY <1>2, UpperboundIs
<1>10. T[DeltaKey(p, g)] = stored[DeltaKey(p, g)] /\ DeltaKey(p, g).version = g
  <2>1. DeltaKey(p, g) \in Key /\ DeltaKey(p, g).pid = p /\ DeltaKey(p, g).version = g
    BY <1>9, KeyTypes DEF DeltaKey
  <2> QED BY <1>8, <2>1
<1>11. g \in D <=> T[DeltaKey(p, g)] # None
  BY <1>5, <1>9 DEF Chain, DeltasOK
<1>12. Reach(p, u) /\ u < base => \E x \in D : x > u
  <2> SUFFICES ASSUME Reach(p, u), u < base PROVE \E x \in D : x > u
    OBVIOUS
  <2>1. T[BaseKey(p, base)] # None /\ base > u
    BY <1>2, <1>5 DEF EndOK, Versions
  <2>2. PICK x \in D : u < x /\ x < base
    BY <1>2, <1>3, <2>1 DEF Reach, ReachIn
  <2> QED BY <1>2, <2>2 DEF Versions
<1>13. \A w \in Versions : c < w /\ w <= u => h[w] = {}
  <2> SUFFICES ASSUME NEW w \in Versions, c < w, w <= u, h[w] # {} PROVE FALSE
    OBVIOUS
  <2>1. Unbuilt(p)
    BY <1>1, <1>4 DEF ChainAt, Versions
  <2>2. pc # "pages"
    BY <1>4 DEF Versions
  <2>3. ~Committing /\ ~Working /\ commit = NoCommit
    BY <1>1, <2>2 DEF CallInv, Committing, Working, Loading
  <2> QED BY <2>1, <2>3 DEF Unbuilt, NoCommit, NoUpdates
<1>14. WalkInv(p, u, start.stack, start.cur)
         <=> \E x \in Wrote(h, c) \cup {0} :
               /\ Linked(p, T, D, x, start.cur)
               /\ Reach(p, u) => Walking(p, h, D, base, start.stack, start.cur, u, x)
  BY DEF WalkInv
<1>15. CASE sentinel = None
  <2>1. start.stack = <<{}>> /\ start.cur = last
    BY <1>7, <1>15
  <2>2. StackInv(<<{}>>)
    <3>1. Len(<<{}>>) = 1 /\ <<{}>>[1] = {} /\ 1..1 = {1}
      OBVIOUS
    <3> QED BY <3>1 DEF StackInv
  <2>3. Reach(p, u) => base <= u
    <3> SUFFICES ASSUME Reach(p, u), u < base PROVE FALSE
      BY <1>2 DEF Versions
    <3>1. g \in D /\ u < g
      BY <1>9, <1>12
    <3>2. sentinel = stored[DeltaKey(p, g)]
      BY <1>2, <1>9, <1>10, <3>1 DEF pageLookup, Versions
    <3> QED BY <1>10, <1>11, <1>15, <3>1, <3>2
  <2> HIDE DEF T, D, h, c, base, last, sentinel, start
  <2>4. c \in Wrote(h, c) \cup {0} /\ last = LinkKey(p, D, c)
    BY <1>5 DEF Chain, WritersOK, EndOK
  <2>5. Linked(p, T, D, c, last)
    BY <1>2, <1>4, <1>5, <2>4, LinkIsLinked
  <2>6. Reach(p, u) => Walking(p, h, D, base, <<{}>>, last, u, c)
    BY <1>2, <1>4, <1>5, <1>13, <2>3, WalkStartsLive
  <2> QED BY <1>14, <2>1, <2>2, <2>4, <2>5, <2>6 DEF start
<1>16. CASE sentinel # None
  <2>1. u < base /\ sentinel = stored[DeltaKey(p, g)]
    BY <1>2, <1>16 DEF pageLookup, Versions
  <2>2. g \in D /\ sentinel = T[DeltaKey(p, g)]
    BY <1>10, <1>11, <1>16, <2>1
  <2>3. sentinel.items = Batch(h, g)
    BY <1>5, <1>9, <2>2 DEF Chain, DeltasOK
  <2>4. start.stack = <<{}, Batch(h, g)>> /\ start.cur = T[DeltaKey(p, g)].last
    BY <1>7, <1>16, <2>2, <2>3
  <2>5. StackInv(<<{}, Batch(h, g)>>)
    <3>1. g \in Wrote(h, c)
      BY <1>5, <2>2 DEF Chain, WritersOK
    <3>2. Reached(g) /\ \A a \in Batch(h, g) : a[2] = g
      BY <1>2, <1>4, <1>9, <3>1, BatchItems
    <3> DEFINE two == <<{}, Batch(h, g)>>
    <3>3. Len(two) = 2 /\ two[1] = {} /\ two[2] = Batch(h, g) /\ 1..2 = {1, 2}
      OBVIOUS
    <3> HIDE DEF two
    <3>4. StackInv(two)
      BY <3>2, <3>3 DEF StackInv
    <3> QED BY <3>4 DEF two
  <2>6. T[DeltaKey(p, g)] # None
    BY <1>16, <2>2
  <2> HIDE DEF T, D, h, c, base, last, sentinel, start, g
  <2>7. ASSUME Reach(p, u)
        PROVE  \E x \in Wrote(h, c) \cup {0} :
                 /\ Linked(p, T, D, x, T[DeltaKey(p, g)].last)
                 /\ Walking(p, h, D, base, <<{}, Batch(h, g)>>,
                            T[DeltaKey(p, g)].last, u, x)
    <3>1. ReachIn(p, T, D, u)
      BY <1>3, <2>7 DEF Reach, T, D
    <3>2. u < g /\ \A x \in D : x > u => g <= x
      BY <1>9, <1>12, <2>1, <2>7
    <3> QED BY <1>2, <1>4, <1>5, <2>2, <3>1, <3>2, WalkStartsAtSentinel
  <2>8. \E x \in Wrote(h, c) \cup {0} : Linked(p, T, D, x, T[DeltaKey(p, g)].last)
    BY <1>2, <1>4, <1>5, <1>9, <2>6, DeltaIsLinked
  <2> QED BY <1>14, <2>4, <2>5, <2>7, <2>8 DEF start
<1> QED
  BY <1>15, <1>16

(* A step that leaves the pages alone, and what the replay must be after it. *)
Still ==
  /\ UNCHANGED <<stored, page_cache, deltapage_versions, page_versions, hist>>
  /\ pc # "slots" /\ pc' # "slots"

LEMMA StillLoad ==
  ASSUME Still, NEW q, NEW u, NEW stack, NEW k, NEW page,
         load'.pid = q, load'.version = u, load'.stack = stack, load'.cur = k,
         load'.page = page,
         Loading' /\ load'.back = "commit" => u = commit'.at,
         Loading' => StackInv(stack),
         pc' = "walk" => WalkInv(q, u, stack, k),
         pc' = "replay" =>
           /\ Reached(page.version)
           /\ Reach(q, u) => Replaying(hist[q], stack, page, u),
         pc' = "returned" /\ Reach(q, u) =>
           /\ page # None => Exact(hist[q], u, page) /\ (u = 0 \/ hist[q][u] # {})
           /\ hist[q][u] # {} => page # None
  PROVE  LoadInv'
<1>1. /\ hist' = hist /\ stored' = stored /\ page_cache' = page_cache
      /\ deltapage_versions' = deltapage_versions /\ page_versions' = page_versions
  BY DEF Still
<1>2. Table' = Table
  BY <1>1 DEF Table
<1>3. /\ \A x : Reached(x)' <=> Reached(x)
      /\ StackInv(stack)' <=> StackInv(stack)
  BY <1>1 DEF Reached, Committed, StackInv
<1>4. /\ Settled(q) /\ Settled(q)' /\ Cur(q)' = Cur(q)
      /\ Pages(q) = Table /\ Pages(q)' = Table'
  BY <1>1 DEF Still, Settled, Cur, Pages
<1>5. Reach(q, u)' <=> Reach(q, u)
  BY <1>1, <1>2, <1>4 DEF Reach
<1>6. WalkInv(q, u, stack, k)' <=> WalkInv(q, u, stack, k)
  BY <1>1, <1>2, <1>4, <1>5 DEF WalkInv
<1>7. Reached(page.version)' <=> Reached(page.version)
  BY <1>3
<1>8. /\ Loading' /\ load'.back = "commit" => u = commit'.at
      /\ Loading' => StackInv(stack)'
      /\ pc' = "walk" => WalkInv(q, u, stack, k)'
      /\ pc' = "replay" =>
           /\ Reached(page.version)'
           /\ Reach(q, u)' => Replaying(hist'[q], stack, page, u)
      /\ pc' = "returned" /\ Reach(q, u)' =>
           /\ page # None => Exact(hist'[q], u, page) /\ (u = 0 \/ hist'[q][u] # {})
           /\ hist'[q][u] # {} => page # None
  BY <1>1, <1>3, <1>5, <1>6, <1>7
<1> QED
  BY <1>8 DEF LoadInv

(* Where a running LoadPage stands. *)
LEMMA LoadFacts ==
  ASSUME TypeInv, OrderInv, CoreInv, Loading
  PROVE  LET p == load.pid
             h == hist[p]
             D == deltapage_versions[p]
             base == page_versions[p].base
         IN /\ p \in Pid /\ load.version \in Versions /\ h \in Histories
            /\ D \in SUBSET Versions /\ base \in Versions /\ Cur(p) \in Versions
            /\ load.stack \in Seq(SUBSET Item) /\ load.cur \in Key
            /\ Chain(p, Table, h, D, Cur(p))
            /\ EndOK(p, Table, D, Cur(p), base, active[p].last)
            /\ \A x \in Wrote(h, Cur(p)) \cup {0} : x \in Versions /\ Reached(x)
            /\ \A k \in Key : k.pid = p => Table[k] = stored[k]
            /\ h[0] = {}
<1> DEFINE p == load.pid
           h == hist[p]
           D == deltapage_versions[p]
           base == page_versions[p].base
<1>1. CallInv /\ HistInv /\ TablesInv /\ ChainInv /\ pc # "slots"
  BY DEF Loading, OrderInv, CoreInv
<1>2. /\ TypeOK /\ p \in Pid /\ load.version \in Versions /\ h \in Histories
      /\ D \in SUBSET Versions /\ base \in Versions
      /\ load.stack \in Seq(SUBSET Item) /\ load.cur \in Key
      /\ load.back \in {"read", "commit"}
  BY DEF TypeInv, TypeOK, LoadLocals, Histories
<1>3. ChainAt(p) /\ Settled(p) /\ Pages(p) = Table
  BY <1>1, <1>2 DEF ChainInv, Settled, Pages
<1>4. /\ Cur(p) \in Versions
      /\ \A x \in Wrote(h, Cur(p)) \cup {0} : x \in Versions /\ Reached(x)
  BY <1>2, <1>3, CurBound
<1>5. /\ Chain(p, Table, h, D, Cur(p))
      /\ EndOK(p, Table, D, Cur(p), base, active[p].last)
  BY <1>3 DEF ChainAt
<1>6. ~Committing \/ Unbuilt(p)
  <2>1. CASE load.back = "commit"
    <3>1. p = commit.pid /\ Committing /\ Working
      BY <1>1, <2>1 DEF Loading, Committing, Working, TypeInv, Resides
    <3> QED BY <3>1 DEF Unbuilt
  <2>2. CASE load.back = "read"
    BY <2>2 DEF Loading, Committing
  <2> QED BY <1>2, <2>1, <2>2
<1>7. \A k \in Key : k.pid = p => Table[k] = stored[k]
  BY <1>1, <1>2, <1>6, UnbuiltIsStored
<1>8. h[0] = {}
  BY <1>1, <1>2, ConstantsAssumption DEF HistInv, Versions
<1> QED
  BY <1>2, <1>4, <1>5, <1>7, <1>8

(* One delta page more is pushed. *)
LEMMA WalkedLoad ==
  ASSUME TypeInv, OrderInv, CoreInv, WalkChain
  PROVE  LoadInv'
<1> DEFINE p == load.pid
           u == load.version
           k == load.cur
           h == hist[p]
           D == deltapage_versions[p]
           c == Cur(p)
           base == page_versions[p].base
           stack == load.stack
           T == Table
<1>1. /\ pc = "walk" /\ pc' = "walk" /\ Loading
      /\ k.delta /\ pageLookup(k) # None
      /\ load' = [load EXCEPT !.stack = Append(stack, pageLookup(k).items),
                              !.cur = pageLookup(k).last]
      /\ UNCHANGED <<stored, page_cache, deltapage_versions, page_versions, hist, commit>>
  BY DEF WalkChain, Loading
<1>2. LoadInv
  BY <1>1 DEF CoreInv
<1>3. /\ p \in Pid /\ u \in Versions /\ h \in Histories /\ D \in SUBSET Versions
      /\ base \in Versions /\ c \in Versions /\ stack \in Seq(SUBSET Item) /\ k \in Key
      /\ Chain(p, T, h, D, c)
      /\ \A x \in Wrote(h, c) \cup {0} : x \in Versions /\ Reached(x)
      /\ \A j \in Key : j.pid = p => T[j] = stored[j]
  BY <1>1, LoadFacts
<1>4. PICK x \in Wrote(h, c) \cup {0} :
        /\ Linked(p, T, D, x, k)
        /\ Reach(p, u) => Walking(p, h, D, base, stack, k, u, x)
  BY <1>1, <1>2 DEF LoadInv, WalkInv
<1>5. x \in Versions /\ Reached(x)
  BY <1>3, <1>4
<1>6. k = DeltaKey(p, x) /\ (x = 0 \/ x \in D)
  BY <1>1, <1>4, KeysDiffer DEF Linked
<1>7. k.version = x /\ k.pid = p
  BY <1>6 DEF DeltaKey
<1>8. x # 0 /\ x \in D /\ pageLookup(k) = T[DeltaKey(p, x)] /\ T[DeltaKey(p, x)] # None
  BY <1>1, <1>3, <1>6, <1>7 DEF pageLookup
<1>9. T[DeltaKey(p, x)].items = Batch(h, x)
  BY <1>3, <1>5, <1>8 DEF Chain, DeltasOK
<1> DEFINE more == Append(stack, Batch(h, x))
           next == T[DeltaKey(p, x)].last
<1>10. /\ load'.pid = p /\ load'.version = u /\ load'.stack = more /\ load'.cur = next
       /\ load'.page = load.page /\ load'.back = load.back
  BY <1>1, <1>8, <1>9 DEF TypeInv, TypeOK, LoadLocals
<1>11. StackInv(more)
  <2>1. StackInv(stack)
    BY <1>1, <1>2 DEF LoadInv
  <2>2. Batch(h, x) \in SUBSET Item /\ \A a \in Batch(h, x) : a[2] = x
    BY <1>3, <1>5, BatchItems
  <2>3. Len(stack) \in Nat
    BY <1>3
  <2>4. /\ Len(more) = Len(stack) + 1 /\ more[Len(stack) + 1] = Batch(h, x)
        /\ \A i \in 1..Len(stack) : more[i] = stack[i]
    BY <1>3, <2>2, AppendProperties
  <2> DEFINE n == Len(stack)
  <2> HIDE DEF more, n, h
  <2> SUFFICES ASSUME NEW i \in 1..(n + 1), NEW a \in more[i] PROVE Reached(a[2])
    BY <2>4 DEF StackInv, n
  <2>5. CASE i = n + 1
    BY <1>5, <2>2, <2>4, <2>5 DEF n
  <2>6. CASE i # n + 1
    <3>1. i \in 1..n
      BY <2>3, <2>6 DEF n
    <3> QED BY <2>1, <2>4, <3>1 DEF StackInv, n
  <2> QED BY <2>5, <2>6
<1>12. WalkInv(p, u, more, next)
  <2>1. ASSUME Reach(p, u)
        PROVE  \E y \in Wrote(h, c) \cup {0} :
                 /\ Linked(p, T, D, y, next)
                 /\ Walking(p, h, D, base, more, next, u, y)
    <3>1. Walking(p, h, D, base, stack, DeltaKey(p, x), u, x)
      BY <1>4, <1>6, <2>1
    <3> HIDE DEF p, T, h, D, c, base, stack, u
    <3> QED BY <1>3, <1>8, <3>1, WalkPushes
  <2>2. \E y \in Wrote(h, c) \cup {0} : Linked(p, T, D, y, next)
    <3> HIDE DEF p, T, h, D, c, base, stack, u
    <3> QED BY <1>3, <1>5, <1>8, DeltaIsLinked
  <2> HIDE DEF more, next
  <2> QED BY <2>1, <2>2 DEF WalkInv
<1>13. pc # "slots" /\ pc' # "slots"
  BY <1>1
<1>14. Loading' /\ load'.back = "commit" => u = commit'.at
  BY <1>1, <1>2, <1>10 DEF LoadInv
<1>15. Still
  BY <1>1, <1>13 DEF Still
<1> HIDE DEF more, next, p, u
<1> QED
  BY <1>1, <1>10, <1>11, <1>12, <1>14, <1>15, StillLoad

(* The walk ends at a blank page or at a base page: the replay starts.      *)
LEMMA BasedLoad ==
  ASSUME TypeInv, OrderInv, CoreInv, FindBase, pc' # "failed"
  PROVE  LoadInv'
<1> DEFINE p == load.pid
           u == load.version
           k == load.cur
           h == hist[p]
           D == deltapage_versions[p]
           c == Cur(p)
           base == page_versions[p].base
           stack == load.stack
           T == Table
           found == IF k.version = 0 THEN Blank
                    ELSE IF k.delta THEN None ELSE pageLookup(k)
<1>1. /\ pc = "walk" /\ pc' = "replay" /\ Loading
      /\ ~(k.delta /\ pageLookup(k) # None) /\ found # None
      /\ load' = [load EXCEPT !.page = found]
      /\ UNCHANGED <<stored, page_cache, deltapage_versions, page_versions, hist, commit>>
  BY DEF FindBase, Loading
<1>2. LoadInv
  BY <1>1 DEF CoreInv
<1>3. /\ p \in Pid /\ u \in Versions /\ h \in Histories /\ D \in SUBSET Versions
      /\ base \in Versions /\ c \in Versions /\ stack \in Seq(SUBSET Item) /\ k \in Key
      /\ Chain(p, T, h, D, c)
      /\ EndOK(p, T, D, c, base, active[p].last)
      /\ \A x \in Wrote(h, c) \cup {0} : x \in Versions /\ Reached(x)
      /\ \A j \in Key : j.pid = p => T[j] = stored[j]
      /\ h[0] = {}
  BY <1>1, LoadFacts
<1>4. PICK x \in Wrote(h, c) \cup {0} :
        /\ Linked(p, T, D, x, k)
        /\ Reach(p, u) => Walking(p, h, D, base, stack, k, u, x)
  BY <1>1, <1>2 DEF LoadInv, WalkInv
<1>5. x \in Versions /\ Reached(x)
  BY <1>3, <1>4
<1>6. k.pid = p /\ k.version = x
  BY <1>4 DEF Linked, DeltaKey, BaseKey
<1>7. ~(k.delta /\ k.version # 0 /\ T[k] # None)
  BY <1>1, <1>3, <1>6 DEF pageLookup
<1>8. \/ x = 0 /\ k = DeltaKey(p, 0)
      \/ /\ k = BaseKey(p, x) /\ x # 0 /\ T[k] # None /\ T[k].version = x
         /\ \A s \in Slot : (x \in D /\ s \in h[x]) \/ LastIn(h, s, x, T[k].slots[s])
  <2> HIDE DEF p, T, h, D, c, k
  <2> QED BY <1>3, <1>4, <1>7, WalkEnds
<1>9. /\ load'.pid = p /\ load'.version = u /\ load'.stack = stack /\ load'.cur = k
      /\ load'.page = found /\ load'.back = load.back
  BY <1>1 DEF TypeInv, TypeOK, LoadLocals
<1>10. Reached(found.version) /\ (Reach(p, u) => Replaying(h, stack, found, u))
  <2>1. CASE x = 0 /\ k = DeltaKey(p, 0)
    <3>1. found = Blank
      BY <1>6, <2>1
    <3>2. Reached(Blank.version)
      BY DEF Blank, Reached
    <3> HIDE DEF p, T, h, D, c, k, base, stack, u, found
    <3>3. Reach(p, u) => Replaying(h, stack, Blank, u)
      BY <1>3, <1>4, <2>1, BlankReplays
    <3> QED BY <3>1, <3>2, <3>3
  <2>2. CASE /\ k = BaseKey(p, x) /\ x # 0 /\ T[k] # None /\ T[k].version = x
             /\ \A s \in Slot :
                  (x \in D /\ s \in h[x]) \/ LastIn(h, s, x, T[k].slots[s])
    <3>1. found = T[k]
      <4>1. ~k.delta /\ k.version # 0
        BY <1>6, <2>2 DEF BaseKey
      <4> QED BY <1>3, <1>6, <4>1 DEF pageLookup
    <3>2. x <= base
      BY <1>3, <1>5, <2>2 DEF EndOK
    <3>3. h[x] # {}
      BY <1>4, <2>2 DEF Wrote
    <3> HIDE DEF p, T, h, D, c, base, stack, u, found
    <3>4. ASSUME Reach(p, u) PROVE Replaying(h, stack, T[k], u)
      <4>1. Walking(p, h, D, base, stack, BaseKey(p, x), u, x)
        BY <1>4, <2>2, <3>4
      <4> HIDE DEF k
      <4> QED BY <1>3, <1>5, <2>2, <3>2, <3>3, <4>1, BaseReplays
    <3> QED BY <1>5, <2>2, <3>1, <3>4
  <2> QED BY <1>8, <2>1, <2>2
<1>11. Loading' /\ load'.back = "commit" => u = commit'.at
  BY <1>1, <1>2, <1>9 DEF LoadInv
<1>12. Still /\ StackInv(stack)
  BY <1>1, <1>2 DEF Still, LoadInv
<1> HIDE DEF found, p, u, stack, k
<1> QED
  BY <1>1, <1>9, <1>10, <1>11, <1>12, StillLoad DEF h

(* One delta page more is applied. *)
LEMMA AppliedLoad ==
  ASSUME TypeInv, OrderInv, CoreInv, ApplyDelta
  PROVE  LoadInv'
<1> DEFINE p == load.pid
           u == load.version
           h == hist[p]
           stack == load.stack
           n == Len(stack)
           page == load.page
           next == applyDelta(page, stack[n], u)
           rest == SubSeq(stack, 1, n - 1)
<1>1. /\ pc = "replay" /\ pc' = "replay" /\ Loading /\ n > 0
      /\ load' = [load EXCEPT !.page = next, !.stack = rest]
      /\ UNCHANGED <<stored, page_cache, deltapage_versions, page_versions, hist, commit>>
  BY DEF ApplyDelta, Loading
<1>2. LoadInv
  BY <1>1 DEF CoreInv
<1>3. /\ p \in Pid /\ u \in Versions /\ h \in Histories /\ stack \in Seq(SUBSET Item)
      /\ page \in BasePage /\ n \in Nat /\ n # 0 /\ stack[n] \in SUBSET Item
  BY <1>1 DEF TypeInv, TypeOK, Resides, LoadLocals, Histories
<1>4. /\ load'.pid = p /\ load'.version = u /\ load'.stack = rest
      /\ load'.cur = load.cur /\ load'.page = next /\ load'.back = load.back
  BY <1>1 DEF TypeInv, TypeOK, LoadLocals
<1>5. /\ StackInv(stack) /\ Reached(page.version)
      /\ Reach(p, u) => Replaying(h, stack, page, u)
  BY <1>1, <1>2 DEF LoadInv
<1>6. Len(rest) = n - 1 /\ \A i \in 1..Len(rest) : rest[i] = stack[i]
  BY <1>3, StackPopped
<1>7. StackInv(rest)
  <2> HIDE DEF rest, n
  <2>1. \A i \in 1..(n - 1) : i \in 1..n
    BY <1>3
  <2> QED BY <1>5, <1>6, <2>1 DEF StackInv, n
<1>8. Reached(next.version)
  <2>1. /\ Due(stack[n], u) = {} => next = page
        /\ Due(stack[n], u) # {} => \E i \in Due(stack[n], u) : next.version = i[2]
    BY <1>3, ApplyDeltaResult
  <2>2. \A i \in Due(stack[n], u) : Reached(i[2])
    <3>1. n \in 1..n
      BY <1>3
    <3> HIDE DEF n
    <3> QED BY <1>5, <3>1 DEF StackInv, Due, n
  <2> HIDE DEF next, n, u
  <2> QED BY <1>5, <2>1, <2>2
<1>9. Reach(p, u) => Replaying(h, rest, next, u)
  BY <1>3, <1>5, ReplayStep
<1>10. Loading' /\ load'.back = "commit" => u = commit'.at
  BY <1>1, <1>2, <1>4 DEF LoadInv
<1>11. Still
  BY <1>1 DEF Still
<1> HIDE DEF next, rest, p, u
<1> QED
  BY <1>1, <1>4, <1>7, <1>8, <1>9, <1>10, <1>11, StillLoad DEF h

(* What LoadPage returns is exact. *)
LEMMA FinishedLoad ==
  ASSUME TypeInv, OrderInv, CoreInv, NEW victim, FinishLoad(victim), pc' # "failed"
  PROVE  LoadInv'
<1> DEFINE p == load.pid
           u == load.version
           h == hist[p]
           page == load.page
<1>1. /\ pc = "replay" /\ Loading /\ load.stack = <<>>
      /\ page \in BasePage /\ p \in Pid /\ u \in Versions
  BY FinishEffect DEF Loading
<1>2. LoadInv
  BY <1>1 DEF CoreInv
<1>3. CASE load.back = "commit"
  <2>1. pc' = "open"
    BY <1>3 DEF FinishLoad
  <2> QED BY <2>1 DEF LoadInv, Loading
<1>4. CASE load.back # "commit"
  <2> DEFINE next == IF page.version >= u THEN page ELSE None
  <2>1. /\ pc' = "returned"
        /\ load' = [load EXCEPT !.page = next]
        /\ UNCHANGED <<stored, page_cache, deltapage_versions, page_versions, hist>>
    <3>1. CASE page.version >= u
      BY <1>4, <3>1 DEF FinishLoad
    <3>2. CASE ~(page.version >= u)
      BY <1>4, <3>2 DEF FinishLoad
    <3> QED BY <3>1, <3>2
  <2>2. /\ load'.pid = p /\ load'.version = u /\ load'.stack = load.stack
        /\ load'.cur = load.cur /\ load'.page = next
    BY <2>1 DEF TypeInv, TypeOK, LoadLocals
  <2>3. ASSUME Reach(p, u)
        PROVE  /\ next # None => Exact(h, u, next) /\ (u = 0 \/ h[u] # {})
               /\ h[u] # {} => next # None
    <3>1. Replaying(h, <<>>, page, u)
      BY <1>1, <1>2, <2>3 DEF LoadInv
    <3>2. h \in Histories /\ page # None
      BY <1>1, NoneAssumption DEF TypeInv, TypeOK, Histories
    <3> HIDE DEF page, h, u
    <3>3. /\ Exact(h, page.version, page)
          /\ page.version = 0 \/ h[page.version] # {}
          /\ h[u] # {} => page.version = u
          /\ page.version >= u => page.version = u
      BY <1>1, <3>1, <3>2, ReplayEnd
    <3>4. u >= u
      BY <1>1 DEF Versions
    <3> QED BY <3>2, <3>3, <3>4
  <2>4. Still /\ ~Loading'
    BY <1>1, <2>1 DEF Still, Loading
  <2> HIDE DEF next, p, u
  <2> QED BY <2>1, <2>2, <2>3, <2>4, StillLoad DEF h
<1> QED
  BY <1>3, <1>4

(* A page found resident is exact; one that is not is loaded. *)
LEMMA StartedLoad ==
  ASSUME TypeInv, FrozenInv, OrderInv, CoreInv, NEW p \in Pid, NEW v \in Versions,
         ReadPage(p, v)
  PROVE  LoadInv'
<1>1. /\ pc = "idle"
      /\ UNCHANGED <<stored, page_cache, deltapage_versions, page_versions, hist, commit>>
  BY DEF ReadPage
<1>2. LruAt(p, v) /\ Settled(p)
  BY <1>1 DEF CoreInv, LruInv, Settled
<1>3. CASE lru[p][v] # None
  <2>1. /\ load' = [NoLoad EXCEPT !.pid = p, !.version = v, !.page = lru[p][v]]
        /\ pc' = "returned"
    BY <1>3 DEF ReadPage
  <2>2. load'.pid = p /\ load'.version = v /\ load'.page = lru[p][v]
    BY <2>1 DEF NoLoad
  <2>3. Reach(p, v) => Exact(hist[p], v, lru[p][v]) /\ (v = 0 \/ hist[p][v] # {})
    BY <1>2, <1>3 DEF LruAt
  <2>4. Still /\ ~Loading'
    BY <1>1, <2>1 DEF Still, Loading
  <2> QED BY <1>3, <2>1, <2>2, <2>3, <2>4, StillLoad
<1>4. CASE lru[p][v] = None
  <2> DEFINE start == LoadStart(p, v, "read")
  <2>1. load' = start /\ pc' = "walk"
    BY <1>4 DEF ReadPage
  <2>2. load'.pid = p /\ load'.version = v /\ load'.back = "read"
    BY <2>1 DEF LoadStart
  <2>3. StackInv(start.stack) /\ WalkInv(p, v, start.stack, start.cur)
    BY <1>1, WalkStarts
  <2>4. Still
    BY <1>1, <2>1 DEF Still
  <2> HIDE DEF start
  <2> QED BY <2>1, <2>2, <2>3, <2>4, StillLoad
<1> QED
  BY <1>3, <1>4

(* A commit loads the current version of its page. *)
LEMMA PickedLoad ==
  ASSUME TypeInv, FrozenInv, OrderInv, CoreInv, NEW p \in Pid, PickPage(p)
  PROVE  LoadInv'
<1> DEFINE old == page_versions[p].cur
           start == LoadStart(p, old, "commit")
<1>1. /\ pc = "pages" /\ Unbuilt(p)
      /\ commit' = [commit EXCEPT !.pid = p, !.at = old,
                      !.todo = commit.updates[p], !.updates[p] = {}]
      /\ pc' = "open" \/ (pc' = "walk" /\ load' = start)
      /\ UNCHANGED <<stored, page_cache, deltapage_versions, page_versions, hist>>
  BY DEF PickPage, Pending, Unbuilt
<1>2. old = Cur(p) /\ old \in Versions /\ commit'.at = old
  BY <1>1 DEF Cur, Settled, TypeInv, TypeOK, CommitLocals
<1>3. CASE pc' = "open"
  BY <1>3 DEF LoadInv, Loading
<1>4. CASE pc' = "walk" /\ load' = start
  <2>1. load'.pid = p /\ load'.version = old /\ load'.back = "commit"
    BY <1>4 DEF LoadStart
  <2>2. StackInv(start.stack) /\ WalkInv(p, old, start.stack, start.cur)
    BY <1>1, <1>2, WalkStarts
  <2>3. Still
    BY <1>1, <1>4 DEF Still
  <2> HIDE DEF start, old
  <2> QED BY <1>2, <1>4, <2>1, <2>2, <2>3, StillLoad
<1> QED
  BY <1>1, <1>3, <1>4

(* Every step keeps the page that is being rebuilt right. *)
LEMMA NextLoad ==
  ASSUME TypeInv, FrozenInv, OrderInv, CoreInv, [LayerNext]_vars, pc' # "failed"
  PROVE  LoadInv'
<1>1. ASSUME pc' \in {"idle", "pages", "open", "slots"}
      PROVE  LoadInv'
  BY <1>1 DEF LoadInv, Loading
<1>2. ASSUME NEW p \in Pid, NEW v \in Versions, ReadPage(p, v)
      PROVE  LoadInv'
  BY <1>2, StartedLoad
<1>3. ASSUME NEW p \in Pid, PickPage(p)
      PROVE  LoadInv'
  BY <1>3, PickedLoad
<1>4. CASE WalkChain
  BY <1>4, WalkedLoad
<1>5. CASE FindBase
  BY <1>5, BasedLoad
<1>6. CASE ApplyDelta
  BY <1>6, AppliedLoad
<1>7. ASSUME NEW victim, FinishLoad(victim)
      PROVE  LoadInv'
  BY <1>7, FinishedLoad
<1>8. CASE UNCHANGED vars
  <2>1. LoadInv
    BY NotFailed DEF CoreInv
  <2> QED BY <1>8, <2>1 DEF vars, LoadInv, Loading, StackInv, Reached, Committed, WalkInv,
    Reach, Pages, Cur, Settled, Table
<1>9. ASSUME OpenPage \/ (\E s \in Slot : UpdatePage(s)) \/ ClosePage \/ StorePages
             \/ Return \/ (\E p \in Pid : EvictActive(p))
             \/ (\E v : Advance(v) \/ \E u : BeginCommit(v, u))
      PROVE  LoadInv'
  BY <1>1, <1>9 DEF OpenPage, UpdatePage, ClosePage, StorePages, Return, EvictActive,
     Advance, BeginCommit
<1> QED
  BY <1>2, <1>3, <1>4, <1>5, <1>6, <1>7, <1>8, <1>9 DEF LayerNext, CommitStep, LoadStep

-----------------------------------------------------------------------------
(* The inductive invariant of the page layer. *)
PagesInv == TypeInv /\ FrozenInv /\ SpaceInv /\ OrderInv /\ CoreInv

LEMMA InitPages == Init => PagesInv
<1> SUFFICES ASSUME Init PROVE CoreInv
  BY InitOrder DEF PagesInv
<1>1. /\ pc = "idle" /\ 0 \in Versions
      /\ ~Committing /\ ~Working /\ ~Loading
  BY ConstantsAssumption DEF Init, Committing, Working, Loading, Versions
<1>2. ASSUME NEW p \in Pid PROVE ChainAt(p)
  <2> DEFINE T == Table
             h == hist[p]
  <2>1. \A k \in Key : T[k] = None
    BY DEF Init, Table
  <2>2. /\ Pages(p) = T /\ Cur(p) = 0 /\ deltapage_versions[p] = {}
        /\ page_versions[p].base = 0 /\ active[p].last = LinkKey(p, {}, 0)
        /\ \A w \in Versions : h[w] = {}
    BY <1>1 DEF Init, Pages, Cur, Settled, NewActive, LinkKey
  <2>3. \A v \in Versions : T[BaseKey(p, v)] = None /\ T[DeltaKey(p, v)] = None
    BY <2>1, KeyTypes
  <2> HIDE DEF T, h
  <2>4. Wrote(h, 0) = {}
    BY <2>2 DEF Wrote
  <2>5. Chain(p, T, h, {}, 0)
    BY <2>3, <2>4 DEF Chain, BasesOK, DeltasOK, WritersOK
  <2>6. EndOK(p, T, {}, 0, 0, LinkKey(p, {}, 0))
    BY <2>3 DEF EndOK
  <2> QED BY <1>1, <2>2, <2>5, <2>6 DEF ChainAt, h
<1>3. SlotsInv
  BY <1>1 DEF SlotsInv
<1>4. LruInv
  BY DEF Init, LruInv, LruAt
<1>5. LoadInv
  BY <1>1 DEF LoadInv
<1> QED
  BY <1>2, <1>3, <1>4, <1>5 DEF CoreInv, ChainInv

LEMMA NextPages ==
  ASSUME FirstVersion >= 1, PagesInv, [LayerNext]_vars
  PROVE  PagesInv'
<1>1. TypeInv /\ FrozenInv /\ SpaceInv /\ OrderInv /\ CoreInv
  BY DEF PagesInv
<1>2. TypeInv' /\ FrozenInv' /\ SpaceInv'
  BY <1>1, NextTypes, NextFrozen, NextSpace
<1>3. OrderInv'
  BY <1>1, NextOrder
<1>4. ASSUME pc' # "failed"
      PROVE  ChainInv' /\ SlotsInv' /\ LruInv' /\ LoadInv'
  <2>1. ChainInv'
    BY <1>1, <1>2, <1>3, <1>4, NextChain
  <2>2. SlotsInv'
    BY <1>1, <1>2, <1>4, NextSlots
  <2>3. LruInv'
    BY <1>1, <1>2, <1>3, <1>4, NextLru
  <2>4. LoadInv'
    BY <1>1, <1>4, NextLoad
  <2> QED BY <2>1, <2>2, <2>3, <2>4
<1>5. CoreInv'
  BY <1>4 DEF CoreInv
<1> QED
  BY <1>2, <1>3, <1>5 DEF PagesInv

(* Between calls the versions LoadPage can answer can be rebuilt. *)
LEMMA AnswerableIsReached ==
  ASSUME PagesInv, pc \in {"idle", "returned"}, NEW p \in Pid, NEW u \in Versions,
         Answerable(p, u)
  PROVE  Reach(p, u)
<1>1. CallInv /\ TablesInv /\ ChainAt(p)
  BY DEF PagesInv, OrderInv, CoreInv, ChainInv
<1>2. ~Committing /\ Settled(p) /\ Pages(p) = Table
  BY DEF Committing, Loading, Settled, Pages
<1>3. \A k \in Key : k.pid = p => Table[k] = stored[k]
  BY <1>1, <1>2, UnbuiltIsStored
<1>4. page_versions[p].base \in Versions
  BY DEF PagesInv, TypeInv, TypeOK
<1> SUFFICES ASSUME NEW b \in Versions, Table[BaseKey(p, b)] # None, b > u
             PROVE  \E x \in deltapage_versions[p] : u < x /\ x < b
  BY <1>2 DEF Reach, ReachIn
<1>5. b <= page_versions[p].base
  BY <1>1, <1>2 DEF ChainAt, EndOK
<1>6. stored[BaseKey(p, b)] # None
  <2>1. BaseKey(p, b) \in Key /\ BaseKey(p, b).pid = p
    BY KeyTypes DEF BaseKey
  <2> QED BY <1>3, <2>1
<1>7. ~(u >= page_versions[p].base)
  BY <1>4, <1>5 DEF Versions
<1>8. PICK x \in deltapage_versions[p] :
        x > u /\ \A w \in (u + 1)..x : stored[BaseKey(p, w)] = None
  BY <1>7 DEF Answerable
<1>9. x \in Versions
  BY DEF PagesInv, TypeInv, TypeOK
<1>10. b \notin (u + 1)..x
  BY <1>6, <1>8
<1> QED
  BY <1>8, <1>9, <1>10 DEF Versions

(* A page as the commits left it is the exact page of the properties.       *)
LEMMA ExactIsExact ==
  ASSUME NEW p, NEW u, NEW page, Exact(hist[p], u, page)
  PROVE  PageExact(p, u, page)
BY DEF Exact, LastIn, PageExact, LastWrite

(* Every read of a page that LoadPage can answer returns the page exactly   *)
(* as the commits up to the version asked for left it, whatever was frozen, *)
(* checkpointed, evicted, reused from the cache or rebuilt in between, and  *)
(* a version that wrote the page is always found (LSVPS::LoadPage,          *)
(* DMMTrie::GetPage).  Callers commit from version 1: version 0 is the      *)
(* empty trie, which LSVPS::pageLookup never looks up.                      *)
THEOREM ReadsAreExact == ASSUME FirstVersion >= 1 PROVE Spec => []ReadExact
<1>1. PagesInv /\ [Next]_vars => PagesInv'
  BY NextPages, NextIsLayerNext
<1>2. ASSUME PagesInv PROVE ReadExact
  <2> SUFFICES ASSUME pc = "returned", Answerable(load.pid, load.version)
               PROVE  /\ load.page # None =>
                           PageExact(load.pid, load.version, load.page)
                      /\ hist[load.pid][load.version] # {} => load.page # None
    BY DEF ReadExact
  <2>1. load.pid \in Pid /\ load.version \in Versions
    BY <1>2 DEF PagesInv, TypeInv, TypeOK, LoadLocals
  <2>2. Reach(load.pid, load.version)
    BY <1>2, <2>1, AnswerableIsReached
  <2>3. /\ load.page # None => Exact(hist[load.pid], load.version, load.page)
        /\ hist[load.pid][load.version] # {} => load.page # None
    BY <1>2, <2>2 DEF PagesInv, CoreInv, LoadInv
  <2> QED BY <2>3, ExactIsExact
<1> QED
  BY <1>1, <1>2, InitPages, PTL DEF Spec

(* Pages that stay in lru_cache_ are changed there in place by commits      *)
(* (BasePage::UpdatePage) and filed again (DMMTrie::UpdatePageKey): between *)
(* calls an entry is still the page of the version it is filed under, so a  *)
(* hit and a reload agree.                                                  *)
THEOREM ResidentsAreExact == ASSUME FirstVersion >= 1 PROVE Spec => []ResidentExact
<1>1. PagesInv /\ [Next]_vars => PagesInv'
  BY NextPages, NextIsLayerNext
<1>2. ASSUME PagesInv PROVE ResidentExact
  <2> SUFFICES ASSUME pc = "idle", NEW p \in Pid, NEW u \in Versions,
                      lru[p][u] # None, Answerable(p, u)
               PROVE  PageExact(p, u, lru[p][u])
    BY DEF ResidentExact
  <2>1. Reach(p, u) /\ Settled(p)
    BY <1>2, AnswerableIsReached DEF Settled
  <2>2. Exact(hist[p], u, lru[p][u])
    BY <1>2, <2>1 DEF PagesInv, CoreInv, LruInv, LruAt
  <2> QED BY <2>2, ExactIsExact
<1> QED
  BY <1>1, <1>2, InitPages, PTL DEF Spec

-----------------------------------------------------------------------------
(* Success: what keeps a call from failing.                                 *)

(* No page without a root is evicted: only LoadPage puts such a page, the   *)
(* blank page of version 0, and only a commit asks it for that version.     *)
RootedInv ==
  /\ Loading /\ load.back = "read" => load.version # 0
  /\ \A p \in Pid, u \in Versions :
       lru[p][u] # None =>
         /\ u = 0 => pc \in {"open", "slots"} /\ p = commit.pid /\ commit.at = 0
         /\ Settled(p) \/ u # commit.at => lru[p][u].version >= u

(* The pages of a commit are built child first, and stay resident until the *)
(* commit ends.                                                             *)
BuiltInv ==
  Committing =>
    LET v == commit.version
        p == commit.pid
    IN /\ \A q \in Pid : hist[q][v] # {} /\ ~Unbuilt(q) => lru[q][v] # None
       /\ \A q \in Pid, s \in Slot :
            Child[q][s] # None => (s \in hist[q][v] <=> hist[Child[q][s]][v] # {})
       /\ Working => \A s \in hist[p][v] :
                       Child[p][s] # None => ~Unbuilt(Child[p][s])

(* A replay of the latest version applies the items of the delta pages from *)
(* the latest checkpoint on and, while a page is written, the ones its      *)
(* active delta page has.                                                   *)
Replayed(h, D, base, items) == (UNION {Batch(h, d) : d \in {w \in D : w >= base}}) \cup items

BoundAt(p) ==
  LET a == active[p]
      R == Replayed(hist[p], deltapage_versions[p], page_versions[p].base, a.items)
  IN /\ a.count < Td /\ a.bcount < Tb
     /\ Weight[p] * Cardinality(a.items) <= a.count
     /\ Weight[p] * Cardinality(R) <= (Td - 1) + a.bcount
BoundInv == pc # "failed" => \A p \in Pid : BoundAt(p)

(* No step fails: the child of a slot is resident when the slot is written, *)
(* the walk ends at a page, and an evicted page has a root.                 *)
LEMMA StepSucceeds ==
  ASSUME PagesInv, RootedInv, BuiltInv, pc # "failed", [LayerNext]_vars
  PROVE  pc' # "failed"
<1>1. /\ TypeInv /\ SpaceInv /\ OrderInv /\ CoreInv /\ CallInv /\ LoadInv
  BY DEF PagesInv, OrderInv, CoreInv
<1>2. ASSUME NEW s \in Slot, UpdatePage(s)
      PROVE  pc' # "failed"
  <2> DEFINE p == commit.pid
             v == commit.version
             c == Child[p][s]
  <2>1. pc = "slots" /\ s \in commit.todo /\ p \in Pid /\ v \in Versions
    BY <1>1, <1>2 DEF UpdatePage, TypeInv, TypeOK, CommitLocals
  <2>2. Committing /\ Working
    BY <2>1 DEF Committing, Working
  <2>3. s \in hist[p][v]
    BY <1>1, <2>1, <2>2 DEF CallInv
  <2>4. c # None => lru[c][v] # None
    <3> SUFFICES ASSUME c # None PROVE lru[c][v] # None
      OBVIOUS
    <3>1. c \in Pid
      BY <2>1, ConstantsAssumption
    <3>2. ~Unbuilt(c) /\ hist[c][v] # {}
      BY <2>1, <2>2, <2>3 DEF BuiltInv
    <3> QED BY <2>2, <3>1, <3>2 DEF BuiltInv
  <2> QED BY <1>2, <2>4 DEF UpdatePage
<1>3. CASE FindBase
  <2> DEFINE p == load.pid
             k == load.cur
             h == hist[p]
             D == deltapage_versions[p]
             c == Cur(p)
             T == Table
             found == IF k.version = 0 THEN Blank
                      ELSE IF k.delta THEN None ELSE pageLookup(k)
  <2>1. /\ pc = "walk" /\ Loading /\ ~(k.delta /\ pageLookup(k) # None)
        /\ pc' = IF found = None THEN "failed" ELSE "replay"
    BY <1>3 DEF FindBase, Loading
  <2>2. /\ p \in Pid /\ h \in Histories /\ D \in SUBSET Versions
        /\ c \in Versions /\ k \in Key /\ Chain(p, T, h, D, c)
        /\ \A j \in Key : j.pid = p => T[j] = stored[j]
        /\ h[0] = {}
    BY <1>1, <2>1, LoadFacts
  <2>3. PICK x \in Wrote(h, c) \cup {0} : Linked(p, T, D, x, k)
    BY <1>1, <2>1 DEF LoadInv, WalkInv
  <2>4. k.pid = p
    BY <2>3 DEF Linked, DeltaKey, BaseKey
  <2>5. ~(k.delta /\ k.version # 0 /\ T[k] # None)
    BY <2>1, <2>2, <2>4 DEF pageLookup
  <2>6. \/ x = 0 /\ k = DeltaKey(p, 0)
        \/ k = BaseKey(p, x) /\ x # 0 /\ T[k] # None
    <3> HIDE DEF p, T, h, D, c, k
    <3>1. \/ x = 0 /\ k = DeltaKey(p, 0)
          \/ /\ k = BaseKey(p, x) /\ x # 0 /\ T[k] # None /\ T[k].version = x
             /\ \A s \in Slot : (x \in D /\ s \in h[x]) \/ LastIn(h, s, x, T[k].slots[s])
      BY <2>2, <2>3, <2>5, WalkEnds
    <3> QED BY <3>1
  <2>7. found # None
    <3>1. Blank # None
      BY BlankType, NoneAssumption
    <3>2. CASE k = DeltaKey(p, 0)
      BY <3>1, <3>2 DEF DeltaKey
    <3>3. CASE k = BaseKey(p, x) /\ x # 0 /\ T[k] # None
      <4>1. ~k.delta /\ k.version # 0
        BY <3>3 DEF BaseKey
      <4> QED BY <2>2, <2>4, <3>3, <4>1 DEF pageLookup
    <3> QED BY <2>6, <3>2, <3>3
  <2> QED BY <2>1, <2>7
<1>4. ASSUME NEW victim, FinishLoad(victim)
      PROVE  pc' # "failed"
  <2>1. pc = "replay" /\ victim \in Victims
    BY <1>1, <1>4, FinishEffect
  <2>2. victim # None => lru[victim[1]][victim[2]] # Blank
    <3> SUFFICES ASSUME victim # None PROVE lru[victim[1]][victim[2]] # Blank
      OBVIOUS
    <3>1. victim \in Resident
      BY <2>1 DEF Victims
    <3>2. PICK p \in Pid, w \in Versions : victim[1] = p /\ victim[2] = w
      BY <3>1 DEF Resident
    <3>3. lru[p][w] # None
      BY <3>1, <3>2 DEF Resident
    <3>4. w # 0 /\ lru[p][w].version >= w
      BY <2>1, <3>3 DEF RootedInv, Settled
    <3>5. lru[p][w] = Blank => w <= 0
      BY <3>4 DEF Blank, Versions
    <3> QED BY <3>2, <3>4, <3>5 DEF Versions
  <2> QED BY <1>4, <2>2 DEF FinishLoad
<1>5. ASSUME \/ \E v, u : BeginCommit(v, u)
             \/ \E v : Advance(v)
             \/ \E p, v : ReadPage(p, v)
             \/ \E p : EvictActive(p) \/ PickPage(p)
             \/ OpenPage \/ ClosePage \/ StorePages \/ WalkChain \/ ApplyDelta \/ Return
             \/ UNCHANGED vars
      PROVE  pc' # "failed"
  BY <1>5 DEF BeginCommit, Advance, ReadPage, EvictActive, PickPage, OpenPage, ClosePage,
     StorePages, WalkChain, ApplyDelta, Return, vars
<1> QED
  BY <1>2, <1>3, <1>4, <1>5 DEF LayerNext, CommitStep, LoadStep

(* Every step keeps the pages without a root out of the cache, if no caller *)
(* reads at version 0.                                                      *)
LEMMA NextRooted ==
  ASSUME 0 \notin ReadVersions, PagesInv, RootedInv, [Next]_vars, pc' # "failed"
  PROVE  RootedInv'
<1>0. /\ TypeInv /\ FrozenInv /\ SpaceInv /\ OrderInv /\ CoreInv
      /\ lru \in [Pid -> [Versions -> BasePage \cup {None}]]
      /\ commit \in CommitLocals /\ load \in LoadLocals
  BY DEF PagesInv, TypeInv, TypeOK
<1>1. Loading' /\ load'.back = "read" => load'.version # 0
  <2>1. ASSUME NEW p \in Pid, NEW v \in ReadVersions, ReadPage(p, v)
        PROVE  Loading' => load'.version # 0
    BY <2>1 DEF ReadPage, LoadStart, Loading
  <2>2. ASSUME NEW p \in Pid, PickPage(p)
        PROVE  Loading' => load'.back = "commit"
    BY <2>2 DEF PickPage, LoadStart, Loading
  <2>3. CASE WalkChain \/ FindBase \/ ApplyDelta
    <3>1. Loading /\ load'.back = load.back /\ load'.version = load.version
      BY <1>0, <2>3 DEF WalkChain, FindBase, ApplyDelta, Loading, LoadLocals
    <3> QED BY <3>1 DEF RootedInv
  <2>4. CASE UNCHANGED vars
    BY <2>4 DEF vars, RootedInv, Loading
  <2>5. ASSUME \/ \E v, u : BeginCommit(v, u)
               \/ \E p : EvictActive(p)
               \/ OpenPage \/ (\E s : UpdatePage(s)) \/ ClosePage \/ StorePages \/ Return
               \/ \E victim : FinishLoad(victim)
        PROVE  ~Loading'
    BY <2>5 DEF BeginCommit, EvictActive, OpenPage, UpdatePage, ClosePage, StorePages,
       FinishLoad, Return, Loading
  <2> QED BY <2>1, <2>2, <2>3, <2>4, <2>5 DEF Next, CommitStep, LoadStep
<1> SUFFICES ASSUME NEW p \in Pid, NEW u \in Versions, lru'[p][u] # None
             PROVE  /\ u = 0 => pc' \in {"open", "slots"} /\ p = commit'.pid
                                /\ commit'.at = 0
                    /\ Settled(p)' \/ u # commit'.at => lru'[p][u].version >= u
  BY <1>1 DEF RootedInv
<1>2. lru[p][u] # None =>
        /\ u = 0 => pc \in {"open", "slots"} /\ p = commit.pid /\ commit.at = 0
        /\ Settled(p) \/ u # commit.at => lru[p][u].version >= u
  BY DEF RootedInv
<1>3. CASE OpenPage
  <2>1. /\ pc = "open" /\ pc' = "slots" /\ UNCHANGED lru
        /\ \E e \in BOOLEAN : commit' = [commit EXCEPT !.exceed = e]
    BY <1>0, <1>3, OpenEffect DEF OpenPage
  <2>2. commit'.pid = commit.pid /\ commit'.at = commit.at
    BY <1>0, <2>1 DEF CommitLocals
  <2> QED BY <1>2, <2>1, <2>2 DEF Settled
<1>4. ASSUME NEW s \in Slot, UpdatePage(s)
      PROVE  /\ u = 0 => pc' \in {"open", "slots"} /\ p = commit'.pid /\ commit'.at = 0
             /\ Settled(p)' \/ u # commit'.at => lru'[p][u].version >= u
  <2> DEFINE at == commit.at
  <2>1. /\ pc = "slots" /\ pc' = "slots"
        /\ commit' = [commit EXCEPT !.todo = commit.todo \ {s}]
        /\ \E page : lru' = [lru EXCEPT ![commit.pid][at] = page]
    BY <1>4 DEF UpdatePage
  <2>2. commit'.at = at /\ commit'.pid = commit.pid
    BY <1>0, <2>1 DEF CommitLocals
  <2>3. CASE p = commit.pid /\ u = at
    BY <2>1, <2>2, <2>3 DEF Settled
  <2>4. CASE ~(p = commit.pid /\ u = at)
    <3>1. lru'[p][u] = lru[p][u]
      BY <1>0, <2>1, <2>4
    <3> QED BY <1>2, <2>1, <2>2, <3>1 DEF Settled
  <2> QED BY <2>3, <2>4
<1>5. CASE ClosePage
  <2> DEFINE q == commit.pid
             at == commit.at
             v == commit.version
  <2>1. /\ lru' = UpdatePageKey(q, at, v) /\ UNCHANGED commit
        /\ pc = "slots" /\ pc' = "pages"
    BY <1>5 DEF ClosePage
  <2>2. /\ at < v /\ lru[q][at].version = v /\ q \in Pid
        /\ at \in Versions /\ v \in Versions
    BY <1>0, <1>5, ClosedPage DEF Exact, CommitLocals
  <2>3. at # v /\ v # 0
    BY <2>2 DEF Versions
  <2>4. \/ p # q /\ lru'[p][u] = lru[p][u]
        \/ p = q /\ u = v /\ lru'[p][u] = lru[q][at]
        \/ p = q /\ u # v /\ u # at /\ lru'[p][u] = lru[p][u]
    <3>1. CASE p # q
      BY <1>0, <2>1, <3>1 DEF UpdatePageKey
    <3>2. CASE p = q
      <4>1. lru'[q] = [lru[q] EXCEPT ![at] = None, ![v] = lru[q][at]]
        BY <1>0, <2>1, <2>2 DEF UpdatePageKey
      <4>2. lru[q] \in [Versions -> BasePage \cup {None}] /\ lru'[q][u] # None
        BY <1>0, <2>2, <3>2
      <4> HIDE DEF q, at, v
      <4> QED BY <2>2, <2>3, <3>2, <4>1, <4>2
    <3> QED BY <3>1, <3>2
  <2>5. u <= u
    BY DEF Versions
  <2>6. ~Settled(q) /\ (p # q => Settled(p))
    BY <2>1 DEF Settled
  <2> QED BY <1>2, <2>1, <2>2, <2>3, <2>4, <2>5, <2>6
<1>6. ASSUME NEW victim, FinishLoad(victim)
      PROVE  /\ u = 0 => pc' \in {"open", "slots"} /\ p = commit'.pid /\ commit'.at = 0
             /\ Settled(p)' \/ u # commit'.at => lru'[p][u].version >= u
  <2>1. /\ pc = "replay" /\ load.stack = <<>>
        /\ load.back = "commit" => load.page.version >= load.version
        /\ lru' = IF load.page.version >= load.version
                    THEN PutPage(load.pid, load.version, load.page, victim) ELSE lru
    BY <1>0, <1>6, FinishEffect
  <2>2. CASE lru'[p][u] = lru[p][u]
    BY <1>2, <2>1, <2>2 DEF Settled
  <2>3. CASE lru'[p][u] # lru[p][u]
    <3>1. /\ load.page.version >= load.version /\ p = load.pid /\ u = load.version
          /\ lru'[p][u] = load.page
      BY <2>1, <2>3 DEF PutPage
    <3>2. CASE load.back = "commit"
      <4>1. p = commit.pid
        BY <2>1, <3>1, <3>2 DEF PagesInv, TypeInv, Resides
      <4>2. commit' = [commit EXCEPT !.at = u] /\ pc' = "open"
        BY <1>6, <3>1, <3>2 DEF FinishLoad
      <4>3. commit'.pid = p /\ commit'.at = u
        BY <1>0, <4>1, <4>2 DEF CommitLocals
      <4> QED BY <3>1, <4>2, <4>3
    <3>3. CASE load.back = "read"
      <4>1. u # 0
        BY <2>1, <3>1, <3>3 DEF RootedInv, Loading
      <4> QED BY <3>1, <4>1
    <3> QED BY <1>0, <3>2, <3>3 DEF LoadLocals
  <2> QED BY <2>2, <2>3
<1>7. ASSUME UNCHANGED lru, pc \notin {"open", "slots"} \/ UNCHANGED <<commit, pc>>
      PROVE  /\ u = 0 => pc' \in {"open", "slots"} /\ p = commit'.pid /\ commit'.at = 0
             /\ Settled(p)' \/ u # commit'.at => lru'[p][u].version >= u
  BY <1>2, <1>7 DEF Settled
<1>8. \/ OpenPage \/ (\E s \in Slot : UpdatePage(s)) \/ ClosePage
      \/ \E victim : FinishLoad(victim)
      \/ UNCHANGED lru /\ (pc \notin {"open", "slots"} \/ UNCHANGED <<commit, pc>>)
  BY DEF Next, CommitStep, LoadStep, BeginCommit, ReadPage, EvictActive, PickPage,
     StorePages, WalkChain, FindBase, ApplyDelta, Return, vars
<1> QED
  BY <1>3, <1>4, <1>5, <1>6, <1>7, <1>8

(* A page of the version being committed stays resident until the commit    *)
(* ends: a slot is written in place, UpdatePageKey moves a page to that     *)
(* version, and DMMTrie::PutPage evicts no page the commit has touched.     *)
LEMMA StaysResident ==
  ASSUME PagesInv, [LayerNext]_vars, pc' # "failed", Committing, Committing',
         NEW q \in Pid, NEW v \in Versions, v = commit.version, lru[q][v] # None
  PROVE  lru'[q][v] # None
<1>0. /\ TypeInv /\ FrozenInv /\ SpaceInv /\ OrderInv /\ CoreInv
      /\ lru \in [Pid -> [Versions -> BasePage \cup {None}]]
      /\ commit \in CommitLocals /\ load \in LoadLocals
      /\ commit.pid \in Pid /\ commit.at \in Versions
  BY DEF PagesInv, TypeInv, TypeOK, CommitLocals
<1>1. ASSUME NEW s \in Slot, UpdatePage(s) PROVE lru'[q][v] # None
  <2>1. /\ pc = "slots"
        /\ lru' = [lru EXCEPT ![commit.pid][commit.at] =
                     Written(lru[commit.pid][commit.at], s, v)]
    BY <1>1 DEF UpdatePage
  <2>2. lru[commit.pid][commit.at] \in BasePage
    BY <1>0, <2>1 DEF TypeInv, Resides
  <2>3. Written(lru[commit.pid][commit.at], s, v) # None
    BY <2>2, WrittenType, NoneAssumption
  <2> QED BY <1>0, <2>1, <2>3
<1>2. CASE ClosePage
  <2> DEFINE p == commit.pid
             at == commit.at
  <2>1. lru' = UpdatePageKey(p, at, v)
    BY <1>2 DEF ClosePage
  <2>2. at < v /\ lru[p][at] \in BasePage
    BY <1>0, <1>2, ClosedPage
  <2>3. at # v /\ lru[p][at] # None
    BY <2>2, NoneAssumption DEF Versions
  <2>4. CASE p = q
    <3>1. lru'[q] = [lru[q] EXCEPT ![at] = None, ![v] = lru[q][at]]
      BY <1>0, <2>1, <2>4 DEF UpdatePageKey
    <3>2. lru[q] \in [Versions -> BasePage \cup {None}] /\ lru[q][at] # None
      BY <1>0, <2>3, <2>4
    <3> HIDE DEF at
    <3> QED BY <2>3, <3>1, <3>2
  <2>5. CASE p # q
    BY <1>0, <2>1, <2>5 DEF UpdatePageKey
  <2> QED BY <2>4, <2>5
<1>3. ASSUME NEW victim \in (Pid \X Versions) \cup {None}, FinishLoad(victim)
      PROVE  lru'[q][v] # None
  <2>1. /\ pc = "replay" /\ victim \in Victims
        /\ load.page \in BasePage
        /\ lru' = IF load.page.version >= load.version
                    THEN PutPage(load.pid, load.version, load.page, victim) ELSE lru
    BY <1>0, <1>3, FinishEffect
  <2>2. load.back = "commit"
    BY <2>1 DEF Committing
  <2>3. victim # <<q, v>>
    <3>1. victim = None \/ victim \notin Touched
      BY <2>1 DEF Victims
    <3>2. <<q, v>> \in Touched
      BY <2>2 DEF Touched
    <3>3. <<q, v>> # None
      BY NoneAssumption
    <3> QED BY <3>1, <3>2, <3>3
  <2>4. load.page # None
    BY <2>1, NoneAssumption
  <2> QED BY <2>1, <2>3, <2>4 DEF PutPage
<1>4. ASSUME UNCHANGED lru PROVE lru'[q][v] # None
  BY <1>4
<1>5. \/ UNCHANGED lru \/ (\E s \in Slot : UpdatePage(s)) \/ ClosePage
      \/ \E victim \in (Pid \X Versions) \cup {None} : FinishLoad(victim)
  BY DEF LayerNext, CommitStep, LoadStep, BeginCommit, Advance, ReadPage, EvictActive,
     PickPage, OpenPage, StorePages, WalkChain, FindBase, ApplyDelta, Return, vars
<1> QED
  BY <1>1, <1>2, <1>3, <1>4, <1>5

(* Every step keeps the pages of the running commit built child first. *)
LEMMA NextBuilt ==
  ASSUME PagesInv, PagesInv', BuiltInv, [LayerNext]_vars, pc' # "failed"
  PROVE  BuiltInv'
<1>0. /\ TypeInv /\ FrozenInv /\ SpaceInv /\ OrderInv /\ CoreInv
      /\ commit \in CommitLocals /\ commit.pid \in Pid /\ commit.version \in Versions
      /\ commit.updates \in [Pid -> SUBSET Slot]
      /\ hist \in [Pid -> [Versions -> SUBSET Slot]]
      /\ lru \in [Pid -> [Versions -> BasePage \cup {None}]]
  BY DEF PagesInv, TypeInv, TypeOK, CommitLocals
<1>1. pc # "failed" /\ CallInv
  BY <1>0, NotFailed DEF OrderInv
<1> SUFFICES ASSUME Committing'
             PROVE  \A v \in Versions, p \in Pid :
                      v = commit'.version /\ p = commit'.pid =>
               /\ \A q \in Pid : hist'[q][v] # {} /\ ~Unbuilt(q)' => lru'[q][v] # None
               /\ \A q \in Pid, s \in Slot :
                    Child[q][s] # None =>
                      (s \in hist'[q][v] <=> hist'[Child[q][s]][v] # {})
               /\ Working' => \A s \in hist'[p][v] :
                                Child[p][s] # None => ~Unbuilt(Child[p][s])'
  <2>1. commit'.version \in Versions /\ commit'.pid \in Pid
    BY DEF PagesInv, TypeInv, TypeOK, CommitLocals
  <2> QED BY <2>1 DEF BuiltInv
<1> TAKE v \in Versions, p \in Pid
<1> HAVE v = commit'.version /\ p = commit'.pid
<1>2. ASSUME NEW b \in Updates, NEW w \in FirstVersion..MaxVersion, BeginCommit(w, b)
      PROVE  /\ \A q \in Pid : hist'[q][v] # {} => Unbuilt(q)'
             /\ \A q \in Pid, s \in Slot :
                  Child[q][s] # None =>
                    (s \in hist'[q][v] <=> hist'[Child[q][s]][v] # {})
             /\ ~Working'
  <2>1. /\ pc' = "pages" /\ commit' = [NoCommit EXCEPT !.version = w, !.updates = b]
        /\ hist' = [q \in Pid |-> [hist[q] EXCEPT ![w] = b[q]]]
    BY <1>2 DEF BeginCommit
  <2>2. commit'.updates = b /\ w = v
    BY <2>1 DEF NoCommit
  <2>3. \A q \in Pid : hist'[q][v] = b[q]
    BY <1>0, <2>1, <2>2
  <2>4. \A q \in Pid, s \in Slot :
          Child[q][s] # None => Child[q][s] \in Pid /\ (s \in b[q] <=> b[Child[q][s]] # {})
    BY <1>2, ConstantsAssumption DEF Updates
  <2>5. \A q \in Pid : hist'[q][v] # {} => Unbuilt(q)'
    BY <2>2, <2>3 DEF Unbuilt
  <2>6. \A q \in Pid, s \in Slot :
          Child[q][s] # None => (s \in hist'[q][v] <=> hist'[Child[q][s]][v] # {})
    BY <2>3, <2>4
  <2> QED BY <2>1, <2>5, <2>6 DEF Working
<1>3. ASSUME ~\E b \in Updates, w \in FirstVersion..MaxVersion : BeginCommit(w, b)
      PROVE  /\ UNCHANGED hist /\ v = commit.version /\ Committing
             /\ \A q \in Pid : q # commit.pid \/ ~ClosePage => (Unbuilt(q)' <=> Unbuilt(q))
  <2>1. ~StorePages
    BY DEF StorePages, Committing, Loading
  <2>2. \A q \in Pid : (ClosePage /\ q = commit.pid) \/ CallKept(q)
    BY <1>0, <1>3, <2>1, StepPages
  <2>3. CASE ClosePage
    <3>1. UNCHANGED <<hist, commit>> /\ Committing
      BY <2>3 DEF ClosePage, Committing
    <3> QED BY <2>2, <3>1 DEF CallKept
  <2>4. CASE ~ClosePage
    BY <2>2, <2>4, ConstantsAssumption DEF CallKept
  <2> QED BY <2>3, <2>4
<1>4. ASSUME ~\E b \in Updates, w \in FirstVersion..MaxVersion : BeginCommit(w, b),
             NEW q \in Pid, hist'[q][v] # {}, ~Unbuilt(q)'
      PROVE  lru'[q][v] # None
  <2>1. CASE ClosePage /\ q = commit.pid
    <3> DEFINE at == commit.at
    <3>1. lru' = UpdatePageKey(q, at, v)
      BY <1>3, <1>4, <2>1 DEF ClosePage
    <3>2. at < v /\ lru[q][at] \in BasePage /\ at \in Versions
      BY <1>0, <1>3, <1>4, <2>1, ClosedPage DEF CommitLocals
    <3>3. at # v /\ lru[q][at] # None
      BY <3>2, NoneAssumption DEF Versions
    <3>4. lru'[q] = [lru[q] EXCEPT ![at] = None, ![v] = lru[q][at]]
      BY <1>0, <3>1 DEF UpdatePageKey
    <3> HIDE DEF at
    <3> QED BY <1>0, <3>2, <3>3, <3>4
  <2>2. CASE ~(ClosePage /\ q = commit.pid)
    <3>1. lru[q][v] # None
      BY <1>3, <1>4, <2>2 DEF BuiltInv
    <3> QED BY <1>3, <1>4, <3>1, StaysResident
  <2> QED BY <2>1, <2>2
<1>5. ASSUME ~\E b \in Updates, w \in FirstVersion..MaxVersion : BeginCommit(w, b),
             Working', NEW s \in hist'[p][v], Child[p][s] # None
      PROVE  ~Unbuilt(Child[p][s])'
  <2> DEFINE c == Child[p][s]
  <2>0. /\ UNCHANGED hist /\ v = commit.version /\ Committing
        /\ s \in hist[p][v] /\ s \in Slot /\ c \in Pid /\ hist[c][v] # {}
    <3>1. UNCHANGED hist /\ v = commit.version /\ Committing
      BY <1>3, <1>5
    <3>2. s \in hist[p][v] /\ s \in Slot
      BY <1>0, <1>5, <3>1
    <3>3. c \in Pid
      BY <1>5, <3>2, ConstantsAssumption
    <3>4. hist[c][v] # {}
      BY <1>5, <3>1, <3>2 DEF BuiltInv
    <3> QED BY <3>1, <3>2, <3>3, <3>4
  <2>1. ~ClosePage
    BY <1>5 DEF ClosePage, Working
  <2>2. Unbuilt(c)' <=> Unbuilt(c)
    BY <1>3, <1>5, <2>0, <2>1
  <2>3. ASSUME NEW q \in Pid, PickPage(q) PROVE ~Unbuilt(c)
    <3>1. /\ pc = "pages" /\ commit.updates[q] # {}
          /\ \A x \in commit.updates[q] : Child[q][x] \notin Pending
          /\ commit' = [commit EXCEPT !.pid = q, !.at = page_versions[q].cur,
                          !.todo = commit.updates[q], !.updates[q] = {}]
      BY <2>3 DEF PickPage, Pending, ChildrenDone
    <3>2. p = q
      BY <1>0, <3>1 DEF CommitLocals
    <3>3. commit.updates[q] = hist[q][v]
      BY <1>1, <2>0, <3>1 DEF CallInv
    <3>4. c \notin Pending
      BY <1>5, <2>0, <3>1, <3>2, <3>3
    <3> QED BY <2>0, <3>1, <3>4 DEF Unbuilt, Working, Pending
  <2>4. CASE ~\E q \in Pid : PickPage(q)
    <3>1. Working /\ commit.pid = p
      <4>1. CASE OpenPage \/ \E x \in Slot : UpdatePage(x)
        BY <1>0, <2>0, <4>1 DEF OpenPage, UpdatePage, Working, CommitLocals
      <4>2. CASE LoadStep
        BY <1>0, <1>5, <4>2, LoadEffect
      <4>3. CASE UNCHANGED vars
        BY <1>5, <4>3 DEF vars, Working, Committing, Loading
      <4>4. CASE \/ \E w \in FirstVersion..MaxVersion : Advance(w)
                 \/ \E q \in Pid, w \in Versions : ReadPage(q, w)
                 \/ \E q \in Pid : EvictActive(q)
        BY <2>0, <4>4 DEF Advance, ReadPage, EvictActive, Committing, Loading
      <4>5. CASE StorePages
        BY <1>5, <4>5 DEF StorePages, Working, Committing, Loading
      <4> QED BY <1>5, <2>1, <2>4, <4>1, <4>2, <4>3, <4>4, <4>5 DEF LayerNext, CommitStep
    <3>2. \A x \in hist[p][v] : Child[p][x] # None => ~Unbuilt(Child[p][x])
      BY <2>0, <3>1 DEF BuiltInv
    <3> QED BY <1>5, <2>0, <2>2, <3>2
  <2> QED BY <2>2, <2>3, <2>4
<1>6. ASSUME ~\E b \in Updates, w \in FirstVersion..MaxVersion : BeginCommit(w, b),
             NEW q \in Pid, NEW s \in Slot, Child[q][s] # None
      PROVE  s \in hist'[q][v] <=> hist'[Child[q][s]][v] # {}
  BY <1>3, <1>6 DEF BuiltInv
<1> QED
  BY <1>2, <1>4, <1>5, <1>6

(* No call of the layer fails (NeverFails): LoadPage finds the page its     *)
(* chain ends at, the page of a child is resident when BasePage::UpdatePage *)
(* hashes the slot above it, and DMMTrie::PutPage deletes no page without a *)
(* root.  The last holds only while no caller reads at version 0.           *)
THEOREM CallsSucceed ==
  ASSUME FirstVersion >= 1, 0 \notin ReadVersions PROVE Spec => []NeverFails
<1> DEFINE Inv == PagesInv /\ RootedInv /\ BuiltInv /\ NeverFails
<1>1. Init => Inv
  <2> SUFFICES ASSUME Init PROVE Inv
    OBVIOUS
  <2>1. PagesInv
    BY InitPages
  <2>2. RootedInv /\ BuiltInv /\ NeverFails
    BY DEF Init, RootedInv, BuiltInv, NeverFails, Loading, Committing
  <2> QED BY <2>1, <2>2
<1>2. Inv /\ [Next]_vars => Inv'
  <2> SUFFICES ASSUME Inv, [Next]_vars PROVE Inv'
    OBVIOUS
  <2>1. [LayerNext]_vars
    BY NextIsLayerNext
  <2>2. PagesInv'
    BY <2>1, NextPages
  <2>3. pc # "failed"
    BY DEF NeverFails
  <2>4. pc' # "failed"
    BY <2>1, <2>3, StepSucceeds
  <2>5. RootedInv' /\ BuiltInv'
    BY <2>1, <2>2, <2>4, NextRooted, NextBuilt
  <2> QED BY <2>2, <2>4, <2>5 DEF NeverFails
<1>3. Inv => NeverFails
  OBVIOUS
<1> HIDE DEF Inv
<1> QED
  BY <1>1, <1>2, <1>3, PTL DEF Spec

-----------------------------------------------------------------------------
(* Bound.  How much a read of the latest version replays.                   *)

(* There are finitely many items. *)
LEMMA ItemsFinite ==
  ASSUME NEW I \in SUBSET Item
  PROVE  IsFiniteSet(I) /\ Cardinality(I) \in Nat
<1>1. IsFiniteSet(Versions)
  <2>1. 0 \in Int /\ MaxVersion \in Int
    BY ConstantsAssumption
  <2> QED BY <2>1, FS_Interval DEF Versions
<1>2. IsFiniteSet(Item)
  BY <1>1, ConstantsAssumption, FS_Product DEF Item
<1> QED
  BY <1>2, FS_Subset, FS_CardinalityType

(* Fewer items weigh no more, and one more item adds one slot update. *)
LEMMA ItemWeights ==
  ASSUME NEW I \in SUBSET Item, NEW w \in {1, 2}
  PROVE  /\ w * Cardinality(I) \in Nat
         /\ \A J \in SUBSET I : w * Cardinality(J) <= w * Cardinality(I)
         /\ \A i \in Item : w * Cardinality(I \cup {i}) <= w * Cardinality(I) + w
<1>1. IsFiniteSet(I) /\ Cardinality(I) \in Nat
  BY ItemsFinite
<1>2. ASSUME NEW J \in SUBSET I PROVE w * Cardinality(J) <= w * Cardinality(I)
  <2>1. Cardinality(J) <= Cardinality(I) /\ Cardinality(J) \in Nat
    BY <1>1, FS_Subset, FS_CardinalityType
  <2> QED BY <1>1, <2>1
<1>3. ASSUME NEW i \in Item
      PROVE  w * Cardinality(I \cup {i}) <= w * Cardinality(I) + w
  <2>1. Cardinality(I \cup {i}) \in {Cardinality(I), Cardinality(I) + 1}
    BY <1>1, FS_AddElement
  <2> QED BY <1>1, <2>1
<1> QED
  BY <1>1, <1>2, <1>3

(* A replay applies items, and none of the delta pages before a checkpoint. *)
LEMMA ReplayedType ==
  ASSUME NEW h \in Histories, NEW D \in SUBSET Versions, NEW base,
         NEW items \in SUBSET Item
  PROVE  Replayed(h, D, base, items) \in SUBSET Item
<1>1. \A d \in D : Batch(h, d) \in SUBSET Item
  BY BatchItems
<1> QED
  BY <1>1 DEF Replayed

LEMMA ReplayedAfter ==
  ASSUME NEW h, NEW D \in SUBSET Versions, NEW v \in Versions, NEW items,
         \A d \in D : d < v
  PROVE  Replayed(h, D, v, items) = items
<1>1. \A d \in D : ~(d >= v)
  BY DEF Versions
<1> QED
  BY <1>1 DEF Replayed

(* The delta pages of a page that is not built yet are of versions before   *)
(* the one being committed.                                                 *)
LEMMA DeltasAreEarlier ==
  ASSUME PagesInv, pc # "failed", Committing, NEW p \in Pid, Unbuilt(p),
         NEW d \in deltapage_versions[p]
  PROVE  d < commit.version
<1>1. ChainAt(p)
  BY DEF PagesInv, CoreInv, ChainInv
<1>2. Cur(p) < commit.version /\ d <= Cur(p)
  BY <1>1 DEF ChainAt, Chain, WritersOK, Wrote
<1>3. d \in Versions /\ Cur(p) \in Versions /\ commit.version \in Versions
  BY DEF PagesInv, TypeInv, TypeOK, Cur, CommitLocals
<1> QED
  BY <1>2, <1>3 DEF Versions

(* The steps that write a page keep the bound of the page. *)
LEMMA UpdatedBound ==
  ASSUME PagesInv, NEW s \in Slot, UpdatePage(s), NEW p \in Pid, p = commit.pid,
         BoundAt(p)
  PROVE  BoundAt(p)'
<1> DEFINE v == commit.version
           a == active[p]
           h == hist[p]
           D == deltapage_versions[p]
           base == page_versions[p].base
           R == Replayed(h, D, base, a.items)
           w == IF commit.exceed THEN 0 ELSE Weight[p]
           items == IF commit.exceed THEN a.items ELSE a.items \cup {<<s, v>>}
<1>0. /\ TypeInv /\ SpaceInv /\ OrderInv
      /\ active \in [Pid -> ActivePage]
      /\ page_versions \in [Pid -> [cur : Versions, base : Versions]]
      /\ h \in Histories /\ D \in SUBSET Versions /\ base \in Versions
      /\ v \in Versions /\ commit.exceed \in BOOLEAN
      /\ a.items \in SUBSET Item /\ a.count \in Nat /\ a.bcount \in Nat
      /\ Weight[p] \in {1, 2} /\ Td \in Nat \ {0} /\ Tb \in Nat \ {0}
  BY ConstantsAssumption
  DEF PagesInv, TypeInv, TypeOK, CommitLocals, Histories, ActivePage
<1>1. /\ a.count + w < Td /\ UNCHANGED deltapage_versions
      /\ \E c \in BOOLEAN :
           /\ c => ~commit.exceed
           /\ ~commit.exceed => (c <=> a.bcount + w >= Tb)
           /\ active' = [active EXCEPT ![p] =
                [last |-> IF c THEN BaseKey(p, v) ELSE a.last, items |-> items,
                 count |-> a.count + w, bcount |-> IF c THEN 0 ELSE a.bcount + w]]
           /\ page_versions' = [page_versions EXCEPT ![p] =
                [cur |-> v, base |-> IF c THEN v ELSE base]]
  BY <1>0, UpdateEffect
<1>2. pc = "slots" /\ UNCHANGED hist
  BY DEF UpdatePage
<1>3. /\ a.count < Td /\ a.bcount < Tb
      /\ Weight[p] * Cardinality(a.items) <= a.count
      /\ Weight[p] * Cardinality(R) <= (Td - 1) + a.bcount
  BY DEF BoundAt
<1>4. \A d \in D : d < v
  <2>1. Committing /\ Unbuilt(p)
    BY <1>2 DEF Committing, Unbuilt, Working
  <2> QED BY <1>2, <2>1, DeltasAreEarlier
<1>5. PICK c \in BOOLEAN :
        /\ c => ~commit.exceed
        /\ ~commit.exceed => (c <=> a.bcount + w >= Tb)
        /\ active'[p].items = items /\ active'[p].count = a.count + w
        /\ active'[p].bcount = IF c THEN 0 ELSE a.bcount + w
        /\ page_versions'[p].base = IF c THEN v ELSE base
  <2> HIDE DEF items, w, base
  <2> QED BY <1>0, <1>1
<1>6. <<s, v>> \in Item /\ items \in SUBSET Item
  BY <1>0 DEF Item
<1>7. Weight[p] * Cardinality(items) <= a.count + w
  <2>1. CASE commit.exceed
    BY <1>0, <1>3, <2>1
  <2>2. CASE ~commit.exceed
    <3>1. Weight[p] * Cardinality(a.items \cup {<<s, v>>})
            <= Weight[p] * Cardinality(a.items) + Weight[p]
      BY <1>0, <1>6, ItemWeights
    <3>2. /\ Weight[p] * Cardinality(a.items) \in Nat
          /\ Weight[p] * Cardinality(a.items \cup {<<s, v>>}) \in Nat
      BY <1>0, <1>6, <2>2, ItemWeights
    <3>3. items = a.items \cup {<<s, v>>} /\ w = Weight[p]
      BY <2>2
    <3> HIDE DEF items, w, v
    <3> QED BY <1>0, <1>3, <3>1, <3>2, <3>3
  <2> QED BY <2>1, <2>2
<1>8. CASE c
  <2>1. Replayed(h, D, v, items) = items
    <3> HIDE DEF h, D, v, items, base
    <3> QED BY <1>0, <1>4, ReplayedAfter
  <2>2. Weight[p] * Cardinality(items) <= (Td - 1) + 0
    <3>1. Weight[p] * Cardinality(items) \in Nat /\ w \in Nat
      BY <1>0, <1>6, ItemWeights
    <3> HIDE DEF items, w
    <3> QED BY <1>0, <1>1, <1>7, <3>1
  <2>3. /\ active'[p].items = items /\ active'[p].count = a.count + w
        /\ active'[p].bcount = 0 /\ page_versions'[p].base = v
        /\ hist'[p] = h /\ deltapage_versions'[p] = D
    BY <1>1, <1>2, <1>5, <1>8
  <2> HIDE DEF items, w, h, D, v, a
  <2> QED BY <1>0, <1>1, <1>7, <2>1, <2>2, <2>3 DEF BoundAt
<1>9. CASE ~c
  <2>1. a.bcount + w < Tb
    BY <1>0, <1>3, <1>5, <1>9
  <2>2. Weight[p] * Cardinality(Replayed(h, D, base, items)) <= (Td - 1) + (a.bcount + w)
    <3>1. CASE commit.exceed
      <4>1. Replayed(h, D, base, items) = R /\ a.bcount + w = a.bcount
        BY <1>0, <3>1
      <4> QED BY <1>3, <4>1
    <3>2. CASE ~commit.exceed
      <4>1. Replayed(h, D, base, items) = R \cup {<<s, v>>} /\ R \in SUBSET Item
        <5>1. items = a.items \cup {<<s, v>>}
          BY <3>2
        <5> HIDE DEF items, h, D, base, v, a
        <5>2. R \in SUBSET Item
          BY <1>0, ReplayedType DEF R
        <5>3. Replayed(h, D, base, a.items \cup {<<s, v>>}) = R \cup {<<s, v>>}
          BY DEF R, Replayed
        <5> QED BY <5>1, <5>2, <5>3
      <4> HIDE DEF R
      <4>2. /\ Weight[p] * Cardinality(R \cup {<<s, v>>})
                 <= Weight[p] * Cardinality(R) + Weight[p]
            /\ Weight[p] * Cardinality(R) \in Nat
        BY <1>0, <1>6, <4>1, ItemWeights
      <4>3. R \cup {<<s, v>>} \in SUBSET Item
        BY <1>6, <4>1
      <4>4. Weight[p] * Cardinality(R \cup {<<s, v>>}) \in Nat
        BY <1>0, <4>3, ItemWeights
      <4>5. w = Weight[p]
        BY <3>2
      <4> HIDE DEF w, items, v, h, D, base, a
      <4> QED BY <1>0, <1>3, <4>1, <4>2, <4>4, <4>5
    <3> QED BY <1>0, <3>1, <3>2
  <2>3. /\ active'[p].items = items /\ active'[p].count = a.count + w
        /\ active'[p].bcount = a.bcount + w /\ page_versions'[p].base = base
        /\ hist'[p] = h /\ deltapage_versions'[p] = D
    BY <1>1, <1>2, <1>5, <1>9
  <2> HIDE DEF items, w, h, D, v, a, base
  <2> QED BY <1>1, <1>7, <2>1, <2>2, <2>3 DEF BoundAt
<1> QED
  BY <1>5, <1>8, <1>9

LEMMA ClosedBound ==
  ASSUME PagesInv, ClosePage, NEW p \in Pid, p = commit.pid, BoundAt(p)
  PROVE  BoundAt(p)'
<1> DEFINE v == commit.version
           a == active[p]
           h == hist[p]
           D == deltapage_versions[p]
           base == page_versions[p].base
           R == Replayed(h, D, base, a.items)
<1>0. /\ TypeInv /\ FrozenInv /\ SpaceInv /\ OrderInv /\ CoreInv
      /\ active \in [Pid -> ActivePage]
      /\ page_versions \in [Pid -> [cur : Versions, base : Versions]]
      /\ deltapage_versions \in [Pid -> SUBSET Versions]
      /\ h \in Histories /\ D \in SUBSET Versions /\ base \in Versions
      /\ v \in Versions /\ commit.exceed \in BOOLEAN
      /\ a.items \in SUBSET Item /\ a.count \in Nat /\ a.bcount \in Nat
      /\ Weight[p] \in {1, 2} /\ Td \in Nat \ {0} /\ Tb \in Nat \ {0}
  BY ConstantsAssumption
  DEF PagesInv, TypeInv, TypeOK, CommitLocals, Histories, ActivePage
<1>1. pc = "slots" /\ commit.todo = {} /\ UNCHANGED hist
  BY DEF ClosePage
<1>2. /\ a.count < Td /\ a.bcount < Tb
      /\ Weight[p] * Cardinality(R) <= (Td - 1) + a.bcount
  BY DEF BoundAt
<1>3. \A d \in D : d < v
  <2>1. Committing /\ Unbuilt(p)
    BY <1>1 DEF Committing, Unbuilt, Working
  <2> QED BY <1>1, <2>1, DeltasAreEarlier
<1>4. \/ /\ commit.exceed
         /\ active' = [active EXCEPT ![p] = [last |-> BaseKey(p, v),
                         items |-> {}, count |-> 0, bcount |-> 0]]
         /\ UNCHANGED deltapage_versions
         /\ page_versions' = [page_versions EXCEPT ![p] = [cur |-> v, base |-> v]]
      \/ /\ ~commit.exceed
         /\ active' = [active EXCEPT ![p] = [last |-> DeltaKey(p, v),
                         items |-> {}, count |-> 0, bcount |-> a.bcount]]
         /\ deltapage_versions' = [deltapage_versions EXCEPT ![p] = D \cup {v}]
         /\ UNCHANGED page_versions
  BY <1>0, CloseEffect
<1>5. Cardinality({}) = 0 /\ Weight[p] * 0 = 0
  BY <1>0, FS_EmptySet
<1>6. CASE commit.exceed
  <2>1. /\ active'[p].items = {} /\ active'[p].count = 0 /\ active'[p].bcount = 0
        /\ page_versions'[p].base = v /\ deltapage_versions'[p] = D /\ hist'[p] = h
    BY <1>0, <1>1, <1>4, <1>6
  <2> HIDE DEF h, D, v
  <2>2. Replayed(h, D, v, {}) = {}
    BY <1>0, <1>3, ReplayedAfter
  <2>3. 0 < Td /\ 0 < Tb /\ 0 <= (Td - 1) + 0 /\ 0 <= 0
    BY <1>0
  <2> QED BY <1>5, <2>1, <2>2, <2>3, Zenon DEF BoundAt
<1>7. CASE ~commit.exceed
  <2>1. /\ active'[p].items = {} /\ active'[p].count = 0
        /\ active'[p].bcount = a.bcount
        /\ page_versions'[p].base = base /\ deltapage_versions'[p] = D \cup {v}
        /\ hist'[p] = h
    BY <1>0, <1>1, <1>4, <1>7
  <2>2. a.items = Batch(h, v)
    <3>1. a.items = {<<s, v>> : s \in h[v] \ commit.todo}
      BY <1>0, <1>1, <1>7 DEF CoreInv, SlotsInv
    <3> QED BY <1>1, <3>1 DEF Batch
  <2>3. Replayed(h, D \cup {v}, base, {}) \subseteq R
    BY <2>2 DEF Replayed
  <2> HIDE DEF h, D, v, base, a
  <2>4. R \in SUBSET Item
    BY <1>0, ReplayedType DEF R
  <2> HIDE DEF R
  <2>5. /\ Weight[p] * Cardinality(Replayed(h, D \cup {v}, base, {}))
             <= Weight[p] * Cardinality(R)
        /\ Weight[p] * Cardinality(R) \in Nat
    BY <1>0, <2>3, <2>4, ItemWeights
  <2>6. Replayed(h, D \cup {v}, base, {}) \in SUBSET Item
    BY <2>3, <2>4
  <2>7. Weight[p] * Cardinality(Replayed(h, D \cup {v}, base, {})) \in Nat
    BY <1>0, <2>6, ItemWeights
  <2>8. Weight[p] * Cardinality(Replayed(h, D \cup {v}, base, {}))
          <= (Td - 1) + a.bcount
    BY <1>0, <1>2, <2>5, <2>7
  <2> QED BY <1>0, <1>2, <1>5, <2>1, <2>8 DEF BoundAt
<1> QED
  BY <1>0, <1>6, <1>7

(* Every step keeps the bound, if the pool drops no active delta page (it   *)
(* forgets how many updates have gone by since the last checkpoint).        *)
LEMMA NextBound ==
  ASSUME FirstVersion >= 1, PoolEvicts = FALSE, PagesInv, BoundInv, [Next]_vars,
         pc' # "failed", NEW p \in Pid
  PROVE  BoundAt(p)'
<1>0. /\ TypeInv /\ FrozenInv /\ SpaceInv /\ OrderInv /\ CoreInv /\ TypeOK
      /\ active \in [Pid -> ActivePage]
      /\ page_versions \in [Pid -> [cur : Versions, base : Versions]]
      /\ hist \in [Pid -> [Versions -> SUBSET Slot]]
      /\ deltapage_versions \in [Pid -> SUBSET Versions]
      /\ commit.pid \in Pid
  BY DEF PagesInv, TypeInv, TypeOK, CommitLocals
<1>1. pc # "failed" /\ BoundAt(p) /\ HistInv /\ ChainAt(p)
  BY <1>0, NextIsLayerNext, NotFailed DEF BoundInv, OrderInv, CoreInv, ChainInv
<1>2. ASSUME active'[p] = active[p], page_versions'[p] = page_versions[p],
             deltapage_versions'[p] = deltapage_versions[p], hist'[p] = hist[p]
      PROVE  BoundAt(p)'
  BY <1>1, <1>2 DEF BoundAt
<1>3. ASSUME NEW v \in FirstVersion..MaxVersion, NEW u \in Updates, BeginCommit(v, u)
      PROVE  BoundAt(p)'
  <2> DEFINE D == deltapage_versions[p]
  <2>1. ASSUME NEW d \in D PROVE d # v
    <3>1. d \in Versions /\ d \in Wrote(hist[p], Cur(p))
      BY <1>0, <1>1 DEF ChainAt, Chain, WritersOK
    <3>2. Reached(d)
      BY <3>1 DEF Reached, Wrote, Committed, Versions
    <3>3. d < v /\ v \in Versions
      BY <1>0, <1>1, <1>3, <3>1, <3>2, BeginIsLater
    <3> QED BY <3>1, <3>3 DEF Versions
  <2>2. /\ UNCHANGED <<active, page_versions, deltapage_versions>>
        /\ hist' = [q \in Pid |-> [hist[q] EXCEPT ![v] = u[q]]]
    BY <1>3 DEF BeginCommit
  <2>3. \A d \in D : hist'[p][d] = hist[p][d]
    BY <1>0, <2>1, <2>2
  <2>4. \A d \in D : Batch(hist'[p], d) = Batch(hist[p], d)
    BY <2>3 DEF Batch
  <2>5. Replayed(hist'[p], D, page_versions[p].base, active[p].items)
          = Replayed(hist[p], D, page_versions[p].base, active[p].items)
    BY <2>4 DEF Replayed
  <2> QED BY <1>1, <2>2, <2>5 DEF BoundAt
<1>4. ASSUME NEW s \in Slot, UpdatePage(s) PROVE BoundAt(p)'
  <2>1. CASE p = commit.pid
    BY <1>1, <1>4, <2>1, UpdatedBound
  <2>2. CASE p # commit.pid
    <3>1. /\ UNCHANGED deltapage_versions
          /\ \E a : active' = [active EXCEPT ![commit.pid] = a]
          /\ \E w : page_versions' = [page_versions EXCEPT ![commit.pid] = w]
      BY <1>0, <1>4, UpdateEffect
    <3>2. UNCHANGED hist
      BY <1>4 DEF UpdatePage
    <3> QED BY <1>0, <1>2, <2>2, <3>1, <3>2
  <2> QED BY <2>1, <2>2
<1>5. CASE ClosePage
  <2>1. CASE p = commit.pid
    BY <1>1, <1>5, <2>1, ClosedBound
  <2>2. CASE p # commit.pid
    <3>1. /\ \E a : active' = [active EXCEPT ![commit.pid] = a]
          /\ UNCHANGED deltapage_versions
             \/ \E d : deltapage_versions' = [deltapage_versions EXCEPT ![commit.pid] = d]
          /\ UNCHANGED page_versions
             \/ \E w : page_versions' = [page_versions EXCEPT ![commit.pid] = w]
      BY <1>0, <1>5, CloseEffect
    <3>2. UNCHANGED hist
      BY <1>5 DEF ClosePage
    <3> QED BY <1>0, <1>2, <2>2, <3>1, <3>2
  <2> QED BY <2>1, <2>2
<1>6. CASE OpenPage
  <2>1. UNCHANGED <<active, page_versions, deltapage_versions, hist>>
    BY <1>0, <1>6, OpenEffect DEF OpenPage
  <2> QED BY <1>2, <2>1
<1>7. CASE LoadStep
  BY <1>0, <1>2, <1>7, LoadEffect
<1>8. CASE \/ \E q \in Pid, v \in ReadVersions : ReadPage(q, v)
           \/ \E q \in Pid : PickPage(q)
           \/ StorePages
           \/ UNCHANGED vars
  BY <1>2, <1>8 DEF ReadPage, PickPage, StorePages, vars
<1>9. ~\E q \in Pid : EvictActive(q)
  BY DEF EvictActive
<1> QED
  BY <1>3, <1>4, <1>5, <1>6, <1>7, <1>8, <1>9 DEF Next, CommitStep

(* Between calls the delta pages of the table are the batches. *)
LEMMA BoundIsReplay ==
  ASSUME PagesInv, BoundInv, pc = "idle", NEW p \in Pid
  PROVE  LET replayed == UNION {stored[DeltaKey(p, v)].items :
                            v \in {w \in deltapage_versions[p] :
                                     w >= page_versions[p].base}}
         IN Weight[p] * Cardinality(replayed) <= (Td - 1) + (Tb - 1)
<1> DEFINE h == hist[p]
           D == deltapage_versions[p]
           base == page_versions[p].base
           a == active[p]
           replayed == UNION {stored[DeltaKey(p, v)].items : v \in {w \in D : w >= base}}
<1>0. /\ TypeInv /\ FrozenInv /\ CoreInv /\ OrderInv
      /\ h \in Histories /\ D \in SUBSET Versions
      /\ a.items \in SUBSET Item /\ a.bcount \in Nat
      /\ Weight[p] \in {1, 2} /\ Td \in Nat \ {0} /\ Tb \in Nat \ {0}
  BY ConstantsAssumption DEF PagesInv, TypeInv, TypeOK, Histories, ActivePage
<1>1. ~Committing /\ Settled(p) /\ Pages(p) = Table
  BY DEF Committing, Loading, Settled, Pages
<1>2. a.items = {}
  BY <1>0 DEF FrozenInv
<1>3. ASSUME NEW d \in D PROVE stored[DeltaKey(p, d)].items = Batch(h, d)
  <2>1. Table[DeltaKey(p, d)].items = Batch(h, d)
    BY <1>0, <1>1 DEF CoreInv, ChainInv, ChainAt, Chain, DeltasOK
  <2>2. Table[DeltaKey(p, d)] = stored[DeltaKey(p, d)]
    <3>1. DeltaKey(p, d) \in Key /\ DeltaKey(p, d).pid = p
      BY <1>0, KeyTypes DEF DeltaKey
    <3> QED BY <1>0, <1>1, <3>1, UnbuiltIsStored DEF OrderInv
  <2> QED BY <2>1, <2>2
<1>4. replayed = Replayed(h, D, base, a.items)
  BY <1>2, <1>3 DEF Replayed
<1>5. a.bcount < Tb /\ Weight[p] * Cardinality(replayed) <= (Td - 1) + a.bcount
  BY <1>4 DEF BoundInv, BoundAt
<1>6. Weight[p] * Cardinality(replayed) \in Nat
  <2> HIDE DEF h, D, base, a, replayed
  <2>1. replayed \in SUBSET Item
    BY <1>0, <1>4, ReplayedType
  <2> QED BY <1>0, <2>1, ItemWeights
<1> HIDE DEF replayed, a
<1>7. Weight[p] * Cardinality(replayed) <= (Td - 1) + (Tb - 1)
  BY <1>0, <1>5, <1>6
<1> QED
  BY <1>7 DEF replayed

(* A checkpoint bounds the replay (ReplayBounded): the delta items a read   *)
(* of the latest version applies stay below one delta page and one          *)
(* checkpoint interval, as long as no active delta page is dropped from the *)
(* pool (LSVPS::ActiveDeltaPageCache keeps no b_update_count_ for it).      *)
THEOREM ReplaysAreBounded ==
  ASSUME FirstVersion >= 1, PoolEvicts = FALSE PROVE Spec => []ReplayBounded
<1>1. Init => PagesInv /\ BoundInv
  <2> SUFFICES ASSUME Init, NEW p \in Pid PROVE BoundAt(p)
    BY InitPages DEF BoundInv
  <2>1. /\ active[p].items = {} /\ active[p].count = 0 /\ active[p].bcount = 0
        /\ deltapage_versions[p] = {}
    BY DEF Init, NewActive
  <2>2. Replayed(hist[p], {}, page_versions[p].base, {}) = {}
    BY DEF Replayed
  <2>3. Cardinality({}) = 0 /\ Weight[p] * 0 = 0 /\ Td \in Nat \ {0} /\ Tb \in Nat \ {0}
    <3>1. Weight[p] \in {1, 2}
      BY ConstantsAssumption
    <3> QED BY <3>1, ConstantsAssumption, FS_EmptySet
  <2>4. 0 < Td /\ 0 < Tb /\ 0 <= (Td - 1) + 0 /\ 0 <= 0
    BY <2>3
  <2> QED BY <2>1, <2>2, <2>3, <2>4, Zenon DEF BoundAt
<1>2. PagesInv /\ BoundInv /\ [Next]_vars => PagesInv' /\ BoundInv'
  BY NextPages, NextIsLayerNext, NextBound DEF BoundInv
<1>3. PagesInv /\ BoundInv => ReplayBounded
  BY BoundIsReplay DEF ReplayBounded
<1> QED
  BY <1>1, <1>2, <1>3, PTL DEF Spec

=============================================================================
