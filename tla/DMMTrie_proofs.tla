--------------------------- MODULE DMMTrie_proofs ---------------------------
(***************************************************************************)
(* Proof that the trie is a versioned map, for every set of keys, every    *)
(* tree of pages, every Td and Tb and every bound on versions: Get at a    *)
(* committed version answers from the batches committed up to it.          *)
(*                                                                         *)
(* A step of the trie is a step of the page layer, so the invariant of     *)
(* VersionedPages_proofs holds here too.  What the trie adds: the pages a  *)
(* batch writes are the ones on the paths of its keys (Paths), the value   *)
(* log has their values (Written), a call is at the page it names (Caller) *)
(* and a Get that has come to a page is at the version that wrote it last  *)
(* (Get).                                                                  *)
(***************************************************************************)
EXTENDS DMMTrie, VersionedPages_proofs

-----------------------------------------------------------------------------
(* Paths.                                                                   *)

(* A path is a finite walk down the tree from the root to a value slot.     *)
LEMMA PathFacts ==
  ASSUME NEW k \in UserKey
  PROVE  /\ Len(Path[k]) \in Nat /\ Len(Path[k]) >= 1
         /\ DOMAIN Path[k] = 1..Len(Path[k])
         /\ Path[k][1][1] = Root
         /\ \A i \in DOMAIN Path[k] :
              /\ Path[k][i] \in Pid \X Slot
              /\ Path[k][i][2] \in SlotsOf[Path[k][i][1]]
              /\ i = Len(Path[k]) => Child[Path[k][i][1]][Path[k][i][2]] = None
              /\ i # Len(Path[k]) =>
                   /\ i + 1 \in DOMAIN Path[k]
                   /\ Child[Path[k][i][1]][Path[k][i][2]] = Path[k][i + 1][1]
<1>1. Path[k] \in Seq(Pid \X Slot) /\ Path[k] # <<>>
  BY TrieAssumption
<1>2. Len(Path[k]) \in Nat /\ Len(Path[k]) >= 1 /\ DOMAIN Path[k] = 1..Len(Path[k])
  BY <1>1
<1>3. \A i \in DOMAIN Path[k] : Path[k][i] \in Pid \X Slot
  BY <1>1, <1>2
<1>4. \A i \in DOMAIN Path[k] :
        /\ Path[k][i][2] \in SlotsOf[Path[k][i][1]]
        /\ Child[Path[k][i][1]][Path[k][i][2]] =
             IF i = Len(Path[k]) THEN None ELSE Path[k][i + 1][1]
  BY TrieAssumption
<1>5. \A i \in DOMAIN Path[k] : i # Len(Path[k]) => i + 1 \in DOMAIN Path[k]
  BY <1>2
<1>6. Path[k][1][1] = Root
  BY TrieAssumption
<1> QED
  BY <1>2, <1>3, <1>4, <1>5, <1>6

(* The value slot of a key is the last slot of its path. *)
LEMMA ValueSlotFacts ==
  ASSUME NEW k \in UserKey
  PROVE  /\ Len(Path[k]) \in DOMAIN Path[k]
         /\ ValueSlot(k) = Path[k][Len(Path[k])] /\ ValueSlot(k) \in Pid \X Slot
         /\ ValueSlot(k)[1] \in Pid /\ ValueSlot(k)[2] \in Slot
         /\ Child[ValueSlot(k)[1]][ValueSlot(k)[2]] = None
<1>1. Len(Path[k]) \in DOMAIN Path[k]
  BY PathFacts
<1> QED
  BY <1>1, PathFacts DEF ValueSlot

(* A key of a batch has every slot of its path written. *)
LEMMA PathIsWritten ==
  ASSUME NEW keys \in SUBSET UserKey, NEW k \in keys, NEW i \in DOMAIN Path[k]
  PROVE  Path[k][i][2] \in UpdatesOf(keys)[Path[k][i][1]]
<1>1. Path[k][i] \in Pid \X Slot
  BY PathFacts
<1>2. Path[k][i] = <<Path[k][i][1], Path[k][i][2]>>
  BY <1>1
<1> QED
  BY <1>1, <1>2 DEF UpdatesOf

(* A batch writes the value slots of its keys and of no others. *)
LEMMA ValueSlotIsWritten ==
  ASSUME NEW keys \in SUBSET UserKey, NEW k \in UserKey
  PROVE  ValueSlot(k)[2] \in UpdatesOf(keys)[ValueSlot(k)[1]] <=> k \in keys
<1>1. ASSUME k \in keys
      PROVE  ValueSlot(k)[2] \in UpdatesOf(keys)[ValueSlot(k)[1]]
  BY <1>1, ValueSlotFacts, PathIsWritten
<1>2. ASSUME ValueSlot(k)[2] \in UpdatesOf(keys)[ValueSlot(k)[1]]
      PROVE  k \in keys
  <2>1. PICK l \in keys : \E i \in DOMAIN Path[l] :
                            Path[l][i] = <<ValueSlot(k)[1], ValueSlot(k)[2]>>
    BY <1>2, ValueSlotFacts DEF UpdatesOf
  <2>2. PICK i \in DOMAIN Path[l] : Path[l][i] = <<ValueSlot(k)[1], ValueSlot(k)[2]>>
    BY <2>1
  <2>3. Path[l][i] = ValueSlot(k)
    BY <2>2, ValueSlotFacts
  <2>4. Child[Path[l][i][1]][Path[l][i][2]] = None
    BY <2>3, ValueSlotFacts
  <2>5. i = Len(Path[l])
    <3> SUFFICES ASSUME i # Len(Path[l]) PROVE FALSE
      OBVIOUS
    <3>1. /\ i + 1 \in DOMAIN Path[l]
          /\ Child[Path[l][i][1]][Path[l][i][2]] = Path[l][i + 1][1]
      BY PathFacts
    <3>2. Path[l][i + 1][1] \in Pid
      BY <3>1, PathFacts
    <3> QED BY <2>4, <3>1, <3>2, ConstantsAssumption
  <2>6. ValueSlot(l) = ValueSlot(k)
    BY <2>3, <2>5 DEF ValueSlot
  <2>7. l = k
    BY <2>6, TrieAssumption DEF ValueSlot
  <2> QED BY <2>7
<1> QED
  BY <1>1, <1>2

(* What is above a page of a batch is written too, and nothing else is.     *)
LEMMA PathsAreTrees ==
  ASSUME NEW keys \in SUBSET UserKey, NEW p \in Pid, NEW s \in Slot,
         Child[p][s] # None
  PROVE  s \in UpdatesOf(keys)[p] <=> UpdatesOf(keys)[Child[p][s]] # {}
<1> DEFINE c == Child[p][s]
<1>0. c \in Pid
  BY ConstantsAssumption
<1>1. ASSUME s \in UpdatesOf(keys)[p] PROVE UpdatesOf(keys)[c] # {}
  <2>1. PICK k \in keys : \E i \in DOMAIN Path[k] : Path[k][i] = <<p, s>>
    BY <1>1 DEF UpdatesOf
  <2>2. PICK i \in DOMAIN Path[k] : Path[k][i] = <<p, s>>
    BY <2>1
  <2>3. i # Len(Path[k])
    BY <2>2, PathFacts
  <2>4. i + 1 \in DOMAIN Path[k] /\ c = Path[k][i + 1][1]
    BY <2>2, <2>3, PathFacts
  <2>5. Path[k][i + 1][2] \in UpdatesOf(keys)[c]
    BY <2>4, PathIsWritten
  <2> QED BY <2>5
<1>2. ASSUME UpdatesOf(keys)[c] # {} PROVE s \in UpdatesOf(keys)[p]
  <2>1. PICK t \in Slot : \E k \in keys : \E i \in DOMAIN Path[k] : Path[k][i] = <<c, t>>
    BY <1>0, <1>2 DEF UpdatesOf
  <2>2. PICK k \in keys : \E i \in DOMAIN Path[k] : Path[k][i] = <<c, t>>
    BY <2>1
  <2>3. PICK i \in DOMAIN Path[k] : Path[k][i] = <<c, t>>
    BY <2>2
  <2>4. i # 1
    <3>1. c # Root
      BY TrieAssumption
    <3> QED BY <2>3, <3>1, PathFacts
  <2> DEFINE j == i - 1
  <2>5. j \in DOMAIN Path[k] /\ j # Len(Path[k]) /\ j + 1 = i
    BY <2>4, PathFacts
  <2> HIDE DEF j
  <2>6. /\ Path[k][j] \in Pid \X Slot
        /\ Child[Path[k][j][1]][Path[k][j][2]] = c
    BY <2>3, <2>5, PathFacts
  <2>7. p = Path[k][j][1] /\ s = Path[k][j][2]
    BY <2>6, TrieAssumption
  <2>8. Path[k][j][2] \in UpdatesOf(keys)[Path[k][j][1]]
    BY <2>5, PathIsWritten
  <2> QED BY <2>7, <2>8
<1> QED
  BY <1>1, <1>2

(* A batch makes the page layer write a tree of pages. *)
LEMMA BatchIsUpdate ==
  ASSUME NEW keys \in SUBSET UserKey, keys # {}
  PROVE  UpdatesOf(keys) \in Updates
<1> DEFINE u == UpdatesOf(keys)
<1>1. u \in [Pid -> SUBSET Slot]
  BY DEF UpdatesOf
<1>2. u[Root] # {}
  <2>1. PICK k \in keys : TRUE
    OBVIOUS
  <2>2. 1 \in DOMAIN Path[k] /\ Path[k][1][1] = Root
    BY PathFacts
  <2>3. Path[k][1][2] \in u[Root]
    BY <2>2, PathIsWritten
  <2> QED BY <2>3
<1>3. ASSUME NEW p \in Pid PROVE u[p] \subseteq SlotsOf[p]
  <2> SUFFICES ASSUME NEW s \in u[p] PROVE s \in SlotsOf[p]
    OBVIOUS
  <2>1. PICK k \in keys : \E i \in DOMAIN Path[k] : Path[k][i] = <<p, s>>
    BY DEF UpdatesOf
  <2> QED BY <2>1, PathFacts
<1>4. \A p \in Pid, s \in Slot :
        Child[p][s] # None => (s \in u[p] <=> u[Child[p][s]] # {})
  BY PathsAreTrees
<1> HIDE DEF u
<1> QED
  BY <1>1, <1>2, <1>3, <1>4 DEF Updates, u

-----------------------------------------------------------------------------
(* Steps.                                                                   *)

(* What Get has in hand. *)
GetLocals == [key : UserKey \cup {None}, version : Versions, level : Nat,
              page_version : Versions, reply : Value \cup {NoValue, None}]
TrieTypes == TrieTypeOK /\ get \in GetLocals

(* A Get that waits for a page waits for the one of its level and version,  *)
(* and a commit runs only for a batch and while no Get does.                *)
CallerInv ==
  /\ InBatch # {} => current_version >= FirstVersion
  /\ Committing => InBatch # {} /\ get = NoGet
  /\ pc \in {"walk", "replay", "returned"} /\ ~Committing =>
       /\ get # NoGet /\ get.reply = None
       /\ load.pid = Path[get.key][get.level][1] /\ load.version = get.page_version

(* Every version wrote the pages and slots on the paths of some keys.       *)
PathsInv ==
  /\ \A w \in Versions : \E keys \in SUBSET UserKey :
       \A p \in Pid : hist[p][w] = UpdatesOf(keys)[p]
  /\ Committing => \A p \in Pid : hist[p][commit.version] = UpdatesOf(InBatch)[p]

(* The commit has written slot s of page p. *)
SlotDone(p, s) == ~Unbuilt(p) \/ (Working /\ p = commit.pid /\ s \notin commit.todo)

(* Version w wrote key k. *)
WroteKey(k, w) == ValueSlot(k)[2] \in hist[ValueSlot(k)[1]][w]

(* The value log has the value of every key a readable version wrote, and   *)
(* of the keys whose slots the running commit has written.                  *)
WrittenInv ==
  /\ \A k \in UserKey, w \in Readable :
       WroteKey(k, w) => written[k][w] \in Value \cup {NoValue}
  /\ Committing => \A k \in InBatch :
       SlotDone(ValueSlot(k)[1], ValueSlot(k)[2]) =>
         written[k][commit.version] = put_cache[k]

(* Get has come to the page as the version asked for left it: u is the last *)
(* version up to v that wrote page p, or 0.                                 *)
Honest(p, u, v) ==
  /\ u <= v /\ (u = 0 \/ hist[p][u] # {})
  /\ \A w \in Versions : u < w /\ w <= v => hist[p][w] = {}
GetInv ==
  get # NoGet /\ get.reply = None /\ get.version >= LastCheckpoint =>
    IF get.version \in Readable
      THEN Honest(Path[get.key][get.level][1], get.page_version, get.version)
      ELSE get.level = 1 /\ get.page_version = get.version

TrieInv ==
  PagesInv /\ TrieTypes /\ (pc # "failed" => CallerInv /\ PathsInv /\ WrittenInv /\ GetInv)

(* A step of the trie is a step of the page layer below it. *)
LEMMA StepIsLayerStep ==
  ASSUME TrieInv, [TrieNext]_trieVars
  PROVE  [LayerNext]_vars
<1>0. /\ TypeOK /\ TrieTypes /\ current_version \in Versions
      /\ MaxVersion \in Nat /\ FirstVersion \in Nat
  BY ConstantsAssumption DEF TrieInv, PagesInv, TypeInv, TypeOK
<1>1. ASSUME NEW k \in UserKey, NEW v \in FirstVersion..MaxVersion, NEW val,
             PutInBatch(k, val, v)
      PROVE  Advance(v)
  BY <1>1 DEF PutInBatch, Idle, Accepts, Advance
<1>2. CASE CalcRootHash
  <2>1. /\ pc = "idle" /\ InBatch # {}
        /\ BeginCommit(current_version, UpdatesOf(InBatch))
    BY <1>2 DEF CalcRootHash, Idle
  <2>2. current_version \in FirstVersion..MaxVersion
    BY <1>0, <2>1 DEF TrieInv, CallerInv, Versions
  <2>3. UpdatesOf(InBatch) \in Updates
    <3>1. InBatch \in SUBSET UserKey
      BY DEF InBatch
    <3> QED BY <2>1, <3>1, BatchIsUpdate
  <2> QED BY <2>1, <2>2, <2>3 DEF LayerNext
<1>3. CASE GetPage
  <2>1. get \in GetLocals /\ pc = "idle" /\ get.key # None /\ get.reply = None
        /\ ReadPage(Path[get.key][get.level][1], get.page_version)
    BY <1>0, <1>3 DEF GetPage, TrieTypes
  <2>2. get # NoGet
    BY <2>1 DEF NoGet
  <2>3. get.key \in UserKey /\ get.level \in DOMAIN Path[get.key]
        /\ get.page_version \in Versions
    BY <1>0, <2>2 DEF TrieTypes, TrieTypeOK
  <2>4. Path[get.key][get.level][1] \in Pid
    BY <2>3, PathFacts
  <2> QED BY <2>1, <2>3, <2>4 DEF LayerNext
<1>4. CASE Descend
  BY <1>4 DEF Descend, LayerNext, LoadStep
<1>5. CASE PageSteps
  BY <1>5 DEF PageSteps, LayerNext, LoadStep, CommitStep
<1>6. ASSUME NEW s \in Slot, TrieUpdatePage(s) PROVE LayerNext
  BY <1>6 DEF TrieUpdatePage, LayerNext, CommitStep
<1>7. CASE TrieStorePages
  BY <1>7 DEF TrieStorePages, LayerNext, CommitStep
<1>8. CASE \/ \E k \in UserKey, v \in ReadVersions : Get(k, v)
           \/ Take
           \/ UNCHANGED trieVars
  BY <1>8 DEF Get, Take, trieVars
<1>9. ASSUME NEW k \in UserKey, NEW v \in FirstVersion..MaxVersion,
             (\E val \in Value : Put(k, val, v)) \/ Delete(k, v)
      PROVE  LayerNext
  BY <1>1, <1>9 DEF Put, Delete, LayerNext
<1> QED
  BY <1>2, <1>3, <1>4, <1>5, <1>6, <1>7, <1>8, <1>9 DEF TrieNext, TrieStep

(* One turn of the loop of Get: the slot was never written, or it is the    *)
(* value slot, or the next page is the one its child version names.         *)
LEMMA DescendEffect ==
  ASSUME TypeInv, TrieTypes, CallInv, CallerInv, Descend
  PROVE  LET k == get.key
             i == get.level
             p == Path[k][i][1]
             s == Path[k][i][2]
             page == load.page
             answer(val) == [get EXCEPT !.reply = val]
         IN /\ k \in UserKey /\ i \in DOMAIN Path[k] /\ p \in Pid /\ s \in Slot
            /\ load.pid = p /\ load.version = get.page_version
            /\ get.reply = None /\ get # NoGet /\ ~Committing
            /\ pc = "returned" /\ pc' = "idle" /\ load' = NoLoad
            /\ page \in BasePage \cup {None}
            /\ \/ /\ page # None => page.slots[s] = Absent
                  /\ get' = answer(NoValue)
               \/ /\ page # None /\ i = Len(Path[k]) /\ page.slots[s] \in Versions
                  /\ get' = answer(written[k][page.slots[s]])
               \/ /\ page # None /\ i # Len(Path[k])
                  /\ \E t \in Slot : page.slots[t] # Absent
                  /\ \E w \in Versions :
                       /\ IF page.slots[s] = Absent THEN w = 0 ELSE w = page.slots[s]
                       /\ get' = [get EXCEPT !.level = i + 1, !.page_version = w]
<1> DEFINE k == get.key
           i == get.level
           p == Path[k][i][1]
           s == Path[k][i][2]
           page == load.page
<1>1. pc = "returned" /\ pc' = "idle" /\ load' = NoLoad /\ ~Committing
  BY DEF Descend, Return, Committing, Loading
<1>2. get # NoGet /\ get.reply = None /\ load.pid = p /\ load.version = get.page_version
  BY <1>1 DEF CallerInv
<1>3. k \in UserKey /\ i \in DOMAIN Path[k] /\ get \in GetLocals
  BY <1>2 DEF TrieTypes, TrieTypeOK
<1>4. p \in Pid /\ s \in Slot /\ page \in BasePage \cup {None} /\ 0 \in Versions
  BY <1>3, PathFacts, ConstantsAssumption DEF TypeInv, TypeOK, LoadLocals, Versions
<1>5. page # None => page \in BasePage /\ page.slots[s] \in Versions \cup {Absent}
  BY <1>4 DEF BasePage
<1>6. get' = IF page = None \/ ~HasChild(page, p, s) THEN [get EXCEPT !.reply = NoValue]
             ELSE IF i = Len(Path[k])
               THEN [get EXCEPT !.reply = written[k][page.slots[s]]]
             ELSE NextLevel(page, s)
  BY DEF Descend
<1>7. CASE page = None \/ ~HasChild(page, p, s)
  <2>1. page # None => page.slots[s] = Absent
    BY <1>4, <1>7 DEF HasChild
  <2> QED BY <1>1, <1>2, <1>3, <1>4, <1>6, <1>7, <2>1
<1>8. CASE page # None /\ HasChild(page, p, s) /\ i = Len(Path[k])
  <2>1. Child[p][s] = None
    BY <1>3, <1>8, PathFacts
  <2>2. PICK t \in Slot : page.slots[t] # Absent /\ Nibble[p][t] = Nibble[p][s]
    BY <1>8 DEF HasChild
  <2>3. s = t
    BY <1>4, <2>1, <2>2, TrieAssumption
  <2>4. page.slots[s] \in Versions
    BY <1>5, <1>8, <2>2, <2>3
  <2> QED BY <1>1, <1>2, <1>3, <1>4, <1>6, <1>8, <2>4
<1>9. CASE page # None /\ HasChild(page, p, s) /\ i # Len(Path[k])
  <2> DEFINE w == IF page.slots[s] = Absent THEN 0 ELSE page.slots[s]
  <2>1. w \in Versions
    BY <1>4, <1>5, <1>9
  <2>2. get' = [get EXCEPT !.level = i + 1, !.page_version = w]
    BY <1>6, <1>9 DEF NextLevel, GetChildVersion
  <2>3. IF page.slots[s] = Absent THEN w = 0 ELSE w = page.slots[s]
    OBVIOUS
  <2>4. \E t \in Slot : page.slots[t] # Absent
    BY <1>9 DEF HasChild
  <2> HIDE DEF w
  <2> QED BY <1>1, <1>2, <1>3, <1>4, <1>9, <2>1, <2>2, <2>3, <2>4
<1> QED
  BY <1>7, <1>8, <1>9

(* The types of what the trie adds to the page layer. *)
LEMMA InitTrieTypes == TrieInit => TrieTypes
<1>1. None \in UserKey \cup {None} /\ 0 \in Versions /\ 0 \in Nat
  BY ConstantsAssumption DEF Versions
<1> QED
  BY <1>1 DEF TrieInit, TrieTypes, TrieTypeOK, EmptyPutCache, GetLocals, NoGet

LEMMA NextTrieTypes ==
  ASSUME TrieInv, [TrieNext]_trieVars
  PROVE  TrieTypes'
<1>0. /\ TypeInv /\ TrieTypes /\ commit.version \in Versions
      /\ put_cache \in [UserKey -> Value \cup {NoValue, None}]
      /\ written \in [UserKey -> [Versions -> Value \cup {NoValue, None}]]
      /\ get \in GetLocals
      /\ get = NoGet \/ (get.key \in UserKey /\ get.level \in DOMAIN Path[get.key])
  BY DEF TrieInv, PagesInv, TypeInv, TypeOK, CommitLocals, TrieTypes, TrieTypeOK
<1>1. put_cache' \in [UserKey -> Value \cup {NoValue, None}]
  <2>1. ASSUME NEW k \in UserKey, NEW val \in Value \cup {NoValue}, NEW v,
               PutInBatch(k, val, v)
        PROVE  put_cache' \in [UserKey -> Value \cup {NoValue, None}]
    BY <1>0, <2>1 DEF PutInBatch
  <2>2. CASE put_cache' = EmptyPutCache
    BY <2>2 DEF EmptyPutCache
  <2>3. CASE UNCHANGED put_cache
    BY <1>0, <2>3
  <2>4. \/ UNCHANGED put_cache \/ put_cache' = EmptyPutCache
        \/ \E k \in UserKey, val \in Value \cup {NoValue}, v \in Versions :
             PutInBatch(k, val, v)
    <3>1. FirstVersion..MaxVersion \subseteq Versions
      BY ConstantsAssumption DEF Versions
    <3> QED
      BY <3>1 DEF TrieNext, TrieStep, PageSteps, TrieUpdatePage, TrieStorePages, GetPage,
         Descend, CalcRootHash, Get, Take, Put, Delete, trieVars
  <2> QED BY <2>1, <2>2, <2>3, <2>4
<1>2. written' \in [UserKey -> [Versions -> Value \cup {NoValue, None}]]
  <2>1. ASSUME NEW s \in Slot, TrieUpdatePage(s)
        PROVE  written' \in [UserKey -> [Versions -> Value \cup {NoValue, None}]]
    <3>1. written' = [k \in UserKey |-> IF ValueSlot(k) = <<commit.pid, s>>
                        THEN [written[k] EXCEPT ![commit.version] = put_cache[k]]
                        ELSE written[k]]
      BY <2>1 DEF TrieUpdatePage
    <3>2. \A k \in UserKey : [written[k] EXCEPT ![commit.version] = put_cache[k]]
                               \in [Versions -> Value \cup {NoValue, None}]
      BY <1>0
    <3> QED BY <1>0, <3>1, <3>2
  <2>2. UNCHANGED written \/ \E s \in Slot : TrieUpdatePage(s)
    BY DEF TrieNext, TrieStep, PageSteps, TrieStorePages, GetPage, Descend,
       CalcRootHash, Get, Take, Put, Delete, PutInBatch, trieVars
  <2> QED BY <1>0, <2>1, <2>2
<1>3. /\ get' \in GetLocals
      /\ get' = NoGet \/ (get'.key \in UserKey /\ get'.level \in DOMAIN Path[get'.key])
  <2>1. ASSUME NEW k \in UserKey, NEW v \in ReadVersions, Get(k, v)
        PROVE  get' \in GetLocals /\ get'.key = k /\ get'.level = 1
    <3>1. v \in Versions
      BY ConstantsAssumption DEF Versions
    <3>2. get' = [key |-> k, version |-> v, level |-> 1, page_version |-> v, reply |-> None]
      BY <2>1 DEF Get
    <3> QED BY <3>1, <3>2 DEF GetLocals
  <2>2. CASE Take
    <3>1. 0 \in Versions
      BY ConstantsAssumption DEF Versions
    <3> QED BY <2>2, <3>1 DEF Take, NoGet, GetLocals
  <2>3. CASE Descend
    <3>1. CallInv /\ CallerInv
      BY <2>3 DEF Descend, TrieInv, PagesInv, OrderInv
    <3> DEFINE k == get.key
               i == get.level
               slot == load.page.slots[Path[k][i][2]]
    <3>2. /\ k \in UserKey /\ i \in DOMAIN Path[k] /\ get # NoGet
          /\ \/ get' = [get EXCEPT !.reply = NoValue]
             \/ slot \in Versions /\ get' = [get EXCEPT !.reply = written[k][slot]]
             \/ /\ i # Len(Path[k])
                /\ \E w \in Versions :
                     get' = [get EXCEPT !.level = i + 1, !.page_version = w]
      BY <1>0, <2>3, <3>1, DescendEffect
    <3>3. i # Len(Path[k]) => i + 1 \in DOMAIN Path[k]
      BY <3>2, PathFacts
    <3>4. i + 1 \in Nat
      BY <1>0 DEF GetLocals
    <3>5. slot \in Versions => written[k][slot] \in Value \cup {NoValue, None}
      BY <1>0, <3>2
    <3> HIDE DEF slot
    <3>6. CASE get' = [get EXCEPT !.reply = NoValue]
      BY <1>0, <3>2, <3>6 DEF GetLocals
    <3>7. CASE slot \in Versions /\ get' = [get EXCEPT !.reply = written[k][slot]]
      BY <1>0, <3>2, <3>5, <3>7 DEF GetLocals
    <3>8. ASSUME NEW w \in Versions, i # Len(Path[k]),
                 get' = [get EXCEPT !.level = i + 1, !.page_version = w]
          PROVE  get' \in GetLocals /\ get'.key \in UserKey
                 /\ get'.level \in DOMAIN Path[get'.key]
      BY <1>0, <3>2, <3>3, <3>4, <3>8 DEF GetLocals
    <3> QED BY <3>2, <3>6, <3>7, <3>8
  <2>4. \/ UNCHANGED get \/ Take \/ Descend
        \/ \E k \in UserKey, v \in ReadVersions : Get(k, v)
    BY DEF TrieNext, TrieStep, PageSteps, TrieUpdatePage, TrieStorePages, GetPage,
       CalcRootHash, Put, Delete, PutInBatch, trieVars
  <2>5. \A k \in UserKey : 1 \in DOMAIN Path[k]
    BY PathFacts
  <2> QED BY <1>0, <2>1, <2>2, <2>3, <2>4, <2>5
<1>4. \/ get' = NoGet
      \/ /\ get'.key \in UserKey
         /\ get'.version \in Versions /\ get'.page_version \in Versions
         /\ get'.level \in DOMAIN Path[get'.key]
         /\ get'.reply \in Value \cup {NoValue, None}
  BY <1>3 DEF GetLocals
<1> QED
  BY <1>1, <1>2, <1>3, <1>4 DEF TrieTypes, TrieTypeOK

-----------------------------------------------------------------------------
(* The invariants of the callers, the paths and the value log.              *)

(* The tables a commit works on are left alone by every step but its own.   *)
LEMMA PageStepEffect ==
  ASSUME TrieInv, PageSteps, pc' # "failed"
  PROVE  /\ UNCHANGED <<stored, current_version, hist, put_cache, written, get>>
         /\ commit'.version = commit.version
         /\ Committing' <=> Committing
         /\ ~Committing =>
              /\ UNCHANGED commit
              /\ pc \in {"walk", "replay"} /\ pc' \in {"walk", "replay", "returned"}
              /\ load'.pid = load.pid /\ load'.version = load.version
<1>0. /\ TypeInv /\ OrderInv /\ commit \in CommitLocals /\ load \in LoadLocals
      /\ load.back \in {"read", "commit"}
  BY DEF TrieInv, PagesInv, TypeInv, TypeOK, LoadLocals
<1>1. UNCHANGED <<put_cache, written, get>>
  BY DEF PageSteps
<1>2. ASSUME NEW p \in Pid, PickPage(p)
      PROVE  /\ UNCHANGED <<stored, current_version, hist>>
             /\ commit'.version = commit.version /\ Committing /\ Committing'
  <2>1. /\ pc = "pages" /\ UNCHANGED <<stored, current_version, hist>>
        /\ pc' = "open" \/ (pc' = "walk" /\ load'.back = "commit")
        /\ commit' = [commit EXCEPT !.pid = p, !.at = page_versions[p].cur,
                        !.todo = commit.updates[p], !.updates[p] = {}]
    BY <1>2 DEF PickPage, LoadStart
  <2>2. commit'.version = commit.version
    BY <1>0, <2>1 DEF CommitLocals
  <2> QED BY <2>1, <2>2 DEF Committing, Loading
<1>3. ASSUME OpenPage \/ ClosePage
      PROVE  /\ UNCHANGED <<stored, current_version, hist>>
             /\ commit'.version = commit.version /\ Committing /\ Committing'
  BY <1>0, <1>3 DEF OpenPage, ClosePage, Committing, CommitLocals
<1>4. ASSUME \/ WalkChain \/ FindBase \/ ApplyDelta
             \/ \E victim \in (Pid \X Versions) \cup {None} : FinishLoad(victim)
      PROVE  /\ UNCHANGED <<stored, current_version, hist>>
             /\ commit'.version = commit.version
             /\ Committing' <=> Committing
             /\ ~Committing =>
                  /\ UNCHANGED commit
                  /\ pc \in {"walk", "replay"} /\ pc' \in {"walk", "replay", "returned"}
                  /\ load'.pid = load.pid /\ load'.version = load.version
  <2>1. LoadStep
    BY <1>4 DEF LoadStep
  <2>2. /\ UNCHANGED <<stored, current_version, hist>>
        /\ commit'.version = commit.version
        /\ Committing' <=> Committing
        /\ ~Committing => UNCHANGED commit
    BY <1>0, <2>1, LoadEffect
  <2>3. ASSUME WalkChain \/ FindBase \/ ApplyDelta
        PROVE  /\ pc \in {"walk", "replay"} /\ pc' \in {"walk", "replay", "returned"}
               /\ load'.pid = load.pid /\ load'.version = load.version
    BY <1>0, <2>3 DEF WalkChain, FindBase, ApplyDelta, LoadLocals
  <2>4. ASSUME NEW victim \in (Pid \X Versions) \cup {None}, FinishLoad(victim),
               ~Committing
        PROVE  /\ pc \in {"walk", "replay"} /\ pc' \in {"walk", "replay", "returned"}
               /\ load'.pid = load.pid /\ load'.version = load.version
    <3>1. pc = "replay" /\ load.back # "commit"
      BY <2>4 DEF FinishLoad, Committing, Loading
    <3>2. /\ load' = [load EXCEPT !.page = IF load.page.version >= load.version
                                             THEN @ ELSE None]
          /\ pc' \in {"returned", "failed"}
      BY <2>4, <3>1 DEF FinishLoad
    <3> QED BY <1>0, <3>1, <3>2 DEF LoadLocals
  <2> QED BY <1>4, <2>2, <2>3, <2>4
<1> QED
  BY <1>1, <1>2, <1>3, <1>4 DEF PageSteps

(* Only CalcRootHash begins a commit, and while one runs its batch stays.   *)
LEMMA CommitGoesOn ==
  ASSUME TrieInv, [TrieNext]_trieVars, pc' # "failed", ~CalcRootHash
  PROVE  /\ UNCHANGED hist
         /\ Committing' => /\ Committing /\ commit'.version = commit.version
                           /\ UNCHANGED <<put_cache, get, current_version>>
<1>0. commit \in CommitLocals /\ pc # "failed" /\ CallerInv
  BY StepIsLayerStep, NotFailed DEF TrieInv, PagesInv, TypeInv, TypeOK
<1>1. ASSUME NEW k \in UserKey, NEW val, NEW v, PutInBatch(k, val, v)
      PROVE  UNCHANGED hist /\ ~Committing'
  BY <1>1 DEF PutInBatch, Idle, Committing, Loading
<1>2. CASE PageSteps
  BY <1>2, PageStepEffect
<1>3. ASSUME NEW s \in Slot, TrieUpdatePage(s)
      PROVE  /\ UNCHANGED <<hist, put_cache, get, current_version>>
             /\ Committing /\ commit'.version = commit.version
  BY <1>0, <1>3 DEF TrieUpdatePage, UpdatePage, Committing, CommitLocals
<1>4. CASE TrieStorePages
  BY <1>4 DEF TrieStorePages, StorePages, Committing, Loading
<1>5. CASE GetPage
  BY <1>5 DEF GetPage, ReadPage, LoadStart, Committing, Loading
<1>6. CASE Descend
  BY <1>6 DEF Descend, Return, Committing, Loading
<1>7. CASE Take
  <2>1. get # NoGet /\ UNCHANGED vars
    BY <1>7 DEF Take, NoGet
  <2>2. ~Committing
    BY <1>0, <2>1 DEF CallerInv
  <2> QED BY <2>1, <2>2 DEF vars, Committing, Loading
<1>8. CASE UNCHANGED trieVars
  BY <1>8 DEF trieVars, vars, Committing, Loading
<1>9. ASSUME NEW k \in UserKey, NEW v \in ReadVersions, Get(k, v)
      PROVE  UNCHANGED hist /\ ~Committing'
  BY <1>9 DEF Get, Idle, vars, Committing, Loading
<1>10. ASSUME NEW k \in UserKey, NEW v \in FirstVersion..MaxVersion,
              (\E val \in Value : Put(k, val, v)) \/ Delete(k, v)
       PROVE  UNCHANGED hist /\ ~Committing'
  BY <1>1, <1>10 DEF Put, Delete
<1> QED
  BY <1>2, <1>3, <1>4, <1>5, <1>6, <1>7, <1>8, <1>9, <1>10 DEF TrieNext, TrieStep

(* GetPage sets out for the page and the version it was given. *)
LEMMA ReadStarts ==
  ASSUME NEW p, NEW v, ReadPage(p, v)
  PROVE  load'.pid = p /\ load'.version = v
<1>1. CASE lru[p][v] # None
  BY <1>1 DEF ReadPage, NoLoad
<1>2. CASE lru[p][v] = None
  <2>1. load' = LoadStart(p, v, "read")
    BY <1>2 DEF ReadPage
  <2>2. \A stack, cur, page :
          LET l == [pid |-> p, version |-> v, back |-> "read", stack |-> stack,
                    cur |-> cur, page |-> page]
          IN l.pid = p /\ l.version = v
    OBVIOUS
  <2> QED BY <2>1, <2>2 DEF LoadStart
<1> QED
  BY <1>1, <1>2

LEMMA NextCaller ==
  ASSUME TrieInv, [TrieNext]_trieVars, pc' # "failed"
  PROVE  CallerInv'
<1>0. /\ TrieTypes /\ TypeInv /\ OrderInv /\ load \in LoadLocals /\ get \in GetLocals
      /\ load.back \in {"read", "commit"}
  BY DEF TrieInv, PagesInv, TypeInv, TypeOK, LoadLocals, TrieTypes
<1>1. pc # "failed" /\ CallerInv
  BY StepIsLayerStep, NotFailed DEF TrieInv
<1>2. ASSUME UNCHANGED <<put_cache, current_version>>
      PROVE  InBatch' # {} => current_version' >= FirstVersion
  BY <1>1, <1>2 DEF InBatch, CallerInv
<1>3. ASSUME NEW k \in UserKey, NEW val, NEW v \in FirstVersion..MaxVersion,
             PutInBatch(k, val, v)
      PROVE  CallerInv'
  <2>1. current_version' = v /\ pc' = "idle" /\ ~Committing' /\ v >= FirstVersion
    BY <1>3, ConstantsAssumption DEF PutInBatch, Idle, Committing, Loading
  <2> QED BY <2>1 DEF CallerInv
<1>4. CASE CalcRootHash
  <2>1. /\ UNCHANGED <<put_cache, current_version, get>> /\ get = NoGet
        /\ InBatch # {} /\ pc' = "pages"
    BY <1>4 DEF CalcRootHash, BeginCommit, Idle
  <2>2. InBatch' # {}
    BY <2>1 DEF InBatch
  <2> QED BY <1>2, <2>1, <2>2 DEF CallerInv
<1>5. CASE PageSteps
  <2>1. /\ UNCHANGED <<stored, current_version, hist, put_cache, written, get>>
        /\ Committing' <=> Committing
        /\ ~Committing =>
             /\ pc \in {"walk", "replay"}
             /\ load'.pid = load.pid /\ load'.version = load.version
    BY <1>5, PageStepEffect
  <2>2. Committing' => InBatch' # {} /\ get' = NoGet
    BY <1>1, <2>1 DEF CallerInv, InBatch
  <2>3. ~Committing' =>
          /\ get' # NoGet /\ get'.reply = None
          /\ load'.pid = Path[get'.key][get'.level][1] /\ load'.version = get'.page_version
    BY <1>1, <2>1 DEF CallerInv
  <2> QED BY <1>2, <2>1, <2>2, <2>3 DEF CallerInv
<1>6. ASSUME NEW s \in Slot, TrieUpdatePage(s) PROVE CallerInv'
  <2>1. /\ UNCHANGED <<put_cache, current_version, get>> /\ Committing /\ Committing'
    BY <1>6 DEF TrieUpdatePage, UpdatePage, Committing
  <2>2. InBatch' # {} /\ get' = NoGet
    BY <1>1, <2>1 DEF CallerInv, InBatch
  <2> QED BY <1>2, <2>1, <2>2 DEF CallerInv
<1>7. CASE TrieStorePages
  <2>1. InBatch' = {} /\ pc' = "idle" /\ ~Committing'
    BY <1>7 DEF TrieStorePages, StorePages, InBatch, EmptyPutCache, Committing, Loading
  <2> QED BY <2>1 DEF CallerInv
<1>8. CASE GetPage
  <2>1. /\ UNCHANGED <<put_cache, current_version, get>>
        /\ get # NoGet /\ get.reply = None /\ pc' \in {"walk", "returned"}
        /\ pc' = "walk" => load'.back = "read"
    BY <1>8 DEF GetPage, ReadPage, NoGet, LoadStart
  <2>2. /\ load'.pid = Path[get.key][get.level][1] /\ load'.version = get.page_version
    BY <1>8, ReadStarts DEF GetPage
  <2>3. ~Committing'
    BY <2>1 DEF Committing, Loading
  <2> QED BY <1>2, <2>1, <2>2, <2>3 DEF CallerInv
<1>9. CASE Descend
  <2>1. UNCHANGED <<put_cache, current_version>> /\ pc' = "idle" /\ ~Committing'
    BY <1>9 DEF Descend, Return, Committing, Loading
  <2> QED BY <1>2, <2>1 DEF CallerInv
<1>10. CASE \E k \in UserKey, v \in ReadVersions : Get(k, v)
  <2>1. UNCHANGED <<put_cache, current_version>> /\ pc' = "idle" /\ ~Committing'
    BY <1>10 DEF Get, Idle, vars, Committing, Loading
  <2> QED BY <1>2, <2>1 DEF CallerInv
<1>11. CASE Take
  <2>1. get # NoGet /\ get.reply # None /\ UNCHANGED <<vars, put_cache>>
    BY <1>11 DEF Take, NoGet
  <2>2. ~Committing /\ pc \notin {"walk", "replay", "returned"}
    BY <1>1, <2>1 DEF CallerInv
  <2>3. ~Committing' /\ pc' \notin {"walk", "replay", "returned"}
    BY <2>1, <2>2 DEF vars, Committing, Loading
  <2>4. UNCHANGED current_version
    BY <2>1 DEF vars
  <2> QED BY <1>2, <2>1, <2>3, <2>4 DEF CallerInv
<1>12. CASE UNCHANGED trieVars
  BY <1>1, <1>12 DEF trieVars, vars, CallerInv, InBatch, Committing, Loading
<1>13. ASSUME NEW k \in UserKey, NEW v \in FirstVersion..MaxVersion,
              (\E val \in Value : Put(k, val, v)) \/ Delete(k, v)
       PROVE  CallerInv'
  BY <1>3, <1>13 DEF Put, Delete
<1> QED
  BY <1>4, <1>5, <1>6, <1>7, <1>8, <1>9, <1>10, <1>11, <1>12, <1>13 DEF TrieNext, TrieStep

(* CalcRootHash files the batch under the current version. *)
LEMMA BeginEffect ==
  ASSUME TrieInv, CalcRootHash
  PROVE  /\ ~Committing /\ Committing' /\ pc' = "pages" /\ InBatch # {}
         /\ UNCHANGED <<stored, current_version, put_cache, written, get>>
         /\ current_version \in Versions /\ current_version # 0
         /\ current_version \notin Committed
         /\ commit.version = 0 /\ commit'.version = current_version
         /\ commit'.updates = UpdatesOf(InBatch) /\ InBatch' = InBatch
         /\ \A p \in Pid : /\ hist'[p][current_version] = UpdatesOf(InBatch)[p]
                           /\ \A w \in Versions : w # current_version =>
                                hist'[p][w] = hist[p][w]
<1>0. /\ hist \in [Pid -> [Versions -> SUBSET Slot]] /\ current_version \in Versions
      /\ FirstVersion \in Nat /\ MaxVersion \in Nat
      /\ TypeOK /\ OrderInv
  BY ConstantsAssumption DEF TrieInv, PagesInv, TypeInv, TypeOK
<1>1. /\ pc = "idle" /\ InBatch # {}
      /\ BeginCommit(current_version, UpdatesOf(InBatch))
      /\ UNCHANGED <<put_cache, written, get>>
  BY DEF CalcRootHash, Idle
<1>2. ~Committing /\ pc' = "pages" /\ Committing'
  BY <1>1 DEF BeginCommit, Committing, Loading
<1>3. CallerInv /\ CallInv
  BY <1>1 DEF TrieInv, PagesInv, OrderInv
<1>4. current_version # 0
  BY <1>0, <1>1, <1>3, TrieAssumption DEF CallerInv, Versions
<1>5. commit.version = 0
  BY <1>2, <1>3 DEF CallInv, NoCommit
<1>6. /\ commit'.version = current_version /\ commit'.updates = UpdatesOf(InBatch)
      /\ current_version \notin Committed
      /\ UNCHANGED <<stored, current_version>>
  BY <1>1 DEF BeginCommit, NoCommit
<1>7. hist' = [p \in Pid |-> [hist[p] EXCEPT ![current_version] = UpdatesOf(InBatch)[p]]]
  BY <1>1 DEF BeginCommit
<1>8. \A p \in Pid : /\ hist'[p][current_version] = UpdatesOf(InBatch)[p]
                     /\ \A w \in Versions : w # current_version =>
                          hist'[p][w] = hist[p][w]
  BY <1>0, <1>7
<1>9. InBatch' = InBatch
  BY <1>1 DEF InBatch
<1> QED
  BY <1>0, <1>1, <1>2, <1>4, <1>5, <1>6, <1>8, <1>9

LEMMA NextPaths ==
  ASSUME TrieInv, [TrieNext]_trieVars, pc' # "failed"
  PROVE  PathsInv'
<1>1. pc # "failed" /\ PathsInv
  BY StepIsLayerStep, NotFailed DEF TrieInv
<1>2. CASE CalcRootHash
  <2> DEFINE b == InBatch
             v == current_version
  <2>1. /\ b \in SUBSET UserKey /\ InBatch' = b /\ commit'.version = v
        /\ \A p \in Pid : /\ hist'[p][v] = UpdatesOf(b)[p]
                          /\ \A w \in Versions : w # v => hist'[p][w] = hist[p][w]
    <3>1. InBatch \in SUBSET UserKey
      BY DEF InBatch
    <3> QED BY <1>2, <3>1, BeginEffect
  <2> HIDE DEF b, v
  <2>2. ASSUME NEW w \in Versions
        PROVE  \E keys \in SUBSET UserKey : \A p \in Pid : hist'[p][w] = UpdatesOf(keys)[p]
    <3>1. CASE w = v
      BY <2>1, <3>1
    <3>2. CASE w # v
      <4>1. PICK keys \in SUBSET UserKey : \A p \in Pid : hist[p][w] = UpdatesOf(keys)[p]
        BY <1>1 DEF PathsInv
      <4> QED BY <2>1, <3>2, <4>1
    <3> QED BY <3>1, <3>2
  <2>3. \A p \in Pid : hist'[p][commit'.version] = UpdatesOf(InBatch')[p]
    BY <2>1
  <2> QED BY <2>2, <2>3 DEF PathsInv
<1>3. CASE ~CalcRootHash
  <2>1. /\ UNCHANGED hist
        /\ Committing' => /\ Committing /\ commit'.version = commit.version
                          /\ UNCHANGED put_cache
    BY <1>3, CommitGoesOn
  <2>2. UNCHANGED put_cache => InBatch' = InBatch
    BY DEF InBatch
  <2> QED BY <1>1, <2>1, <2>2 DEF PathsInv
<1> QED
  BY <1>2, <1>3

(* The readable versions are the committed ones but for the one under way.  *)
LEMMA ReadableIs ==
  ASSUME HistInv
  PROVE  Readable = {w \in Committed : w # commit.version}
<1>1. \A w \in Committed : w # 0
  BY CommittedBound
<1> QED
  BY <1>1 DEF Readable

(* A slot of the batch is done by UpdatePage and by no other step.          *)
LEMMA DoneBefore ==
  ASSUME TrieInv, Committing, pc' # "failed", NEW p \in Pid,
         NEW s \in hist[p][commit.version], SlotDone(p, s)'
  PROVE  /\ PageSteps => SlotDone(p, s)
         /\ \A t \in Slot : UpdatePage(t) => SlotDone(p, s) \/ (p = commit.pid /\ s = t)
<1>0. /\ TypeInv /\ OrderInv /\ commit \in CommitLocals /\ pc # "failed"
      /\ commit.updates \in [Pid -> SUBSET Slot]
  BY DEF TrieInv, PagesInv, TypeInv, TypeOK, CommitLocals, Committing, Loading
<1>1. CallInv
  BY <1>0 DEF OrderInv
<1>2. ASSUME NEW q \in Pid, PickPage(q) PROVE SlotDone(p, s)
  <2>1. /\ pc = "pages" /\ commit.updates[q] # {}
        /\ commit' = [commit EXCEPT !.pid = q, !.at = page_versions[q].cur,
                        !.todo = commit.updates[q], !.updates[q] = {}]
        /\ pc' = "open" \/ (pc' = "walk" /\ load'.back = "commit")
    BY <1>2 DEF PickPage, Pending, LoadStart
  <2>2. /\ commit'.pid = q /\ commit'.todo = commit.updates[q]
        /\ commit'.updates = [commit.updates EXCEPT ![q] = {}]
    BY <1>0, <2>1 DEF CommitLocals
  <2>3. ~Working /\ Working'
    BY <2>1 DEF Working, Committing, Loading
  <2>4. commit.updates[q] = hist[q][commit.version]
    BY <1>1, <2>1 DEF CallInv
  <2>5. p # q
    <3> SUFFICES ASSUME p = q PROVE FALSE
      OBVIOUS
    <3>1. s \in commit'.todo
      BY <2>2, <2>4
    <3>2. Unbuilt(p)'
      BY <2>2, <2>3 DEF Unbuilt
    <3> QED BY <3>1, <3>2 DEF SlotDone
  <2>6. ~Unbuilt(p)'
    BY <2>2, <2>5 DEF SlotDone
  <2>7. commit.updates[p] = {}
    BY <1>0, <2>2, <2>5, <2>6 DEF Unbuilt
  <2> QED BY <2>3, <2>7 DEF SlotDone, Unbuilt
<1>3. ASSUME OpenPage PROVE SlotDone(p, s)
  <2>1. /\ commit'.pid = commit.pid /\ commit'.todo = commit.todo
        /\ commit'.updates = commit.updates /\ pc = "open" /\ pc' = "slots"
    BY <1>0, <1>3 DEF OpenPage, CommitLocals
  <2>2. Working /\ Working'
    BY <2>1 DEF Working, Committing
  <2> QED BY <2>1, <2>2 DEF SlotDone, Unbuilt
<1>4. ASSUME ClosePage PROVE SlotDone(p, s)
  <2>1. /\ UNCHANGED commit /\ pc = "slots" /\ commit.todo = {}
    BY <1>4 DEF ClosePage
  <2>2. Working
    BY <2>1 DEF Working, Committing
  <2> QED BY <2>1, <2>2 DEF SlotDone, Unbuilt
<1>5. ASSUME LoadStep PROVE SlotDone(p, s)
  <2>1. /\ commit'.pid = commit.pid /\ commit'.todo = commit.todo
        /\ Working' <=> Working
        /\ Unbuilt(p)' <=> Unbuilt(p)
    BY <1>0, <1>5, LoadEffect
  <2> QED BY <2>1 DEF SlotDone
<1>6. ASSUME NEW t \in Slot, UpdatePage(t)
      PROVE  SlotDone(p, s) \/ (p = commit.pid /\ s = t)
  <2>1. /\ commit'.pid = commit.pid /\ commit'.todo = commit.todo \ {t}
        /\ commit'.updates = commit.updates /\ pc = "slots"
        /\ pc' \in {"slots", "failed"}
    BY <1>0, <1>6 DEF UpdatePage, CommitLocals
  <2>2. Working /\ Working'
    BY <2>1 DEF Working, Committing
  <2> QED BY <2>1, <2>2 DEF SlotDone, Unbuilt
<1>7. PageSteps => SlotDone(p, s)
  BY <1>2, <1>3, <1>4, <1>5 DEF PageSteps, LoadStep
<1> QED
  BY <1>6, <1>7

LEMMA NextWritten ==
  ASSUME TrieInv, [TrieNext]_trieVars, pc' # "failed"
  PROVE  WrittenInv'
<1>0. /\ pc # "failed" /\ CallInv /\ HistInv /\ HistInv' /\ TypeOK /\ TrieTypeOK
      /\ commit \in CommitLocals /\ commit.version \in Versions
      /\ written \in [UserKey -> [Versions -> Value \cup {NoValue, None}]]
      /\ put_cache \in [UserKey -> Value \cup {NoValue, None}]
      /\ CallerInv /\ PathsInv /\ WrittenInv
  <2>1. pc # "failed" /\ PagesInv /\ PagesInv'
    BY StepIsLayerStep, NotFailed, NextPages, TrieAssumption DEF TrieInv
  <2> QED
    BY <2>1 DEF TrieInv, PagesInv, OrderInv, TypeInv, TypeOK, CommitLocals,
       TrieTypes, TrieTypeOK
<1>1. /\ Readable = {w \in Committed : w # commit.version}
      /\ Readable' = {w \in Committed' : w # commit'.version}
  <2>1. \A w \in Committed' : w # 0
    BY <1>0 DEF HistInv, Committed
  <2> QED BY <1>0, <2>1, ReadableIs DEF Readable
<1>2. ASSUME NEW k \in UserKey PROVE ValueSlot(k)[1] \in Pid /\ ValueSlot(k)[2] \in Slot
  BY ValueSlotFacts
<1>3. ASSUME UNCHANGED hist, commit'.version = commit.version
      PROVE  Readable' = Readable /\ \A k, w : WroteKey(k, w)' <=> WroteKey(k, w)
  BY <1>3 DEF Readable, Committed, WroteKey
<1>4. CASE CalcRootHash
  <2> DEFINE v == current_version
             b == InBatch
  <2>1. /\ ~Committing /\ pc' = "pages" /\ UNCHANGED <<put_cache, written>>
        /\ v \in Versions /\ commit'.version = v
        /\ commit'.updates = UpdatesOf(b) /\ InBatch' = b /\ commit.version = 0
        /\ \A p \in Pid : \A w \in Versions : w # v => hist'[p][w] = hist[p][w]
    BY <1>4, BeginEffect
  <2> HIDE DEF v, b
  <2>2. ASSUME NEW w \in Readable' PROVE w \in Readable /\ w \in Versions /\ w # v
    <3>1. w \in Committed' /\ w # v
      BY <1>1, <2>1
    <3>2. w \in Versions /\ 1 <= w
      BY <1>0, <3>1 DEF Committed, HistInv
    <3>3. w \in Committed
      BY <2>1, <3>1, <3>2 DEF Committed
    <3>4. w # 0
      BY <3>2
    <3> QED BY <1>1, <2>1, <3>1, <3>2, <3>3, <3>4
  <2>3. ASSUME NEW k \in UserKey, NEW w \in Readable', WroteKey(k, w)'
        PROVE  written'[k][w] \in Value \cup {NoValue}
    <3>1. WroteKey(k, w)
      BY <1>2, <2>1, <2>2, <2>3 DEF WroteKey
    <3> QED BY <1>0, <2>1, <2>2, <3>1 DEF WrittenInv
  <2>4. ASSUME NEW k \in b PROVE ~SlotDone(ValueSlot(k)[1], ValueSlot(k)[2])'
    <3>1. b \in SUBSET UserKey
      BY DEF b, InBatch
    <3>2. ValueSlot(k)[2] \in UpdatesOf(b)[ValueSlot(k)[1]]
      BY <3>1, ValueSlotIsWritten
    <3>3. Unbuilt(ValueSlot(k)[1])' /\ ~Working'
      BY <2>1, <3>2 DEF Unbuilt, Working
    <3> QED BY <3>3 DEF SlotDone
  <2>5. \A k \in InBatch' : ~SlotDone(ValueSlot(k)[1], ValueSlot(k)[2])'
    BY <2>1, <2>4
  <2> QED BY <2>3, <2>5 DEF WrittenInv
<1>5. ASSUME UNCHANGED <<hist, written>>, commit'.version = commit.version, ~Committing'
      PROVE  WrittenInv'
  BY <1>0, <1>3, <1>5 DEF WrittenInv
<1>6. CASE PageSteps
  <2>1. /\ UNCHANGED <<hist, put_cache, written>>
        /\ commit'.version = commit.version
        /\ Committing' <=> Committing
    BY <1>6, PageStepEffect
  <2>2. CASE ~Committing
    BY <1>5, <2>1, <2>2
  <2>3. CASE Committing
    <3>1. ASSUME NEW k \in InBatch', SlotDone(ValueSlot(k)[1], ValueSlot(k)[2])'
          PROVE  written'[k][commit'.version] = put_cache'[k]
      <4>1. k \in InBatch /\ k \in UserKey /\ InBatch \in SUBSET UserKey
        BY <2>1 DEF InBatch
      <4>2. ValueSlot(k)[2] \in hist[ValueSlot(k)[1]][commit.version]
        BY <1>0, <1>2, <2>3, <4>1, ValueSlotIsWritten DEF PathsInv
      <4>3. SlotDone(ValueSlot(k)[1], ValueSlot(k)[2])
        BY <1>2, <1>6, <2>3, <3>1, <4>1, <4>2, DoneBefore
      <4> QED BY <1>0, <2>1, <2>3, <4>1, <4>3 DEF WrittenInv
    <3> QED BY <1>0, <1>3, <2>1, <3>1 DEF WrittenInv
  <2> QED BY <2>2, <2>3
<1>7. ASSUME NEW t \in Slot, TrieUpdatePage(t) PROVE WrittenInv'
  <2> DEFINE v == commit.version
  <2>1. /\ UNCHANGED <<hist, put_cache>> /\ commit'.version = v
        /\ UpdatePage(t) /\ Committing /\ InBatch' = InBatch
        /\ written' = [k \in UserKey |->
             IF ValueSlot(k) = <<commit.pid, t>>
               THEN [written[k] EXCEPT ![v] = put_cache[k]] ELSE written[k]]
    BY <1>0, <1>7 DEF TrieUpdatePage, UpdatePage, Committing, CommitLocals, InBatch
  <2>2. ASSUME NEW k \in UserKey
        PROVE  /\ \A w \in Versions : w # v => written'[k][w] = written[k][w]
               /\ IF ValueSlot(k) = <<commit.pid, t>>
                    THEN written'[k][v] = put_cache[k]
                    ELSE written'[k][v] = written[k][v]
    BY <1>0, <2>1
  <2>3. Readable' = Readable /\ \A k, w : WroteKey(k, w)' <=> WroteKey(k, w)
    BY <1>3, <2>1
  <2>4. \A w \in Readable : w \in Versions /\ w # v
    BY <1>1 DEF Committed
  <2>5. ASSUME NEW k \in InBatch, SlotDone(ValueSlot(k)[1], ValueSlot(k)[2])'
        PROVE  written'[k][v] = put_cache[k]
    <3>1. k \in UserKey /\ InBatch \in SUBSET UserKey
      BY DEF InBatch
    <3>2. CASE ValueSlot(k) = <<commit.pid, t>>
      BY <2>2, <3>1, <3>2
    <3>3. CASE ValueSlot(k) # <<commit.pid, t>>
      <4>1. ValueSlot(k)[2] \in hist[ValueSlot(k)[1]][v]
        BY <1>0, <1>2, <2>1, <3>1, ValueSlotIsWritten DEF PathsInv
      <4>2. ~(ValueSlot(k)[1] = commit.pid /\ ValueSlot(k)[2] = t)
        BY <3>1, <3>3, ValueSlotFacts
      <4>3. SlotDone(ValueSlot(k)[1], ValueSlot(k)[2])
        BY <1>2, <2>1, <2>5, <3>1, <4>1, <4>2, DoneBefore
      <4> QED BY <1>0, <2>1, <2>2, <3>1, <3>3, <4>3 DEF WrittenInv
    <3> QED BY <3>2, <3>3
  <2>6. \A k \in UserKey, w \in Readable' :
          WroteKey(k, w)' => written'[k][w] \in Value \cup {NoValue}
    BY <1>0, <2>2, <2>3, <2>4 DEF WrittenInv
  <2>7. \A k \in InBatch' :
          SlotDone(ValueSlot(k)[1], ValueSlot(k)[2])' =>
            written'[k][commit'.version] = put_cache'[k]
    BY <2>1, <2>5
  <2> QED BY <2>6, <2>7 DEF WrittenInv
<1>8. CASE TrieStorePages
  <2> DEFINE v == commit.version
  <2>1. /\ UNCHANGED <<hist, written>> /\ commit' = NoCommit /\ pc = "pages" /\ pc' = "idle"
        /\ \A p \in Pid : commit.updates[p] = {}
    BY <1>8 DEF TrieStorePages, StorePages, Pending
  <2>2. Committing /\ ~Working /\ ~Committing'
    BY <2>1 DEF Committing, Working, Loading
  <2>3. ASSUME NEW k \in UserKey, NEW w \in Readable', WroteKey(k, w)'
        PROVE  written'[k][w] \in Value \cup {NoValue}
    <3>1. w \in Committed /\ WroteKey(k, w)
      BY <1>1, <2>1, <2>3 DEF Committed, WroteKey
    <3>2. CASE w # v
      BY <1>0, <1>1, <2>1, <3>1, <3>2 DEF WrittenInv
    <3>3. CASE w = v
      <4>1. InBatch \in SUBSET UserKey
        BY DEF InBatch
      <4>2. k \in InBatch
        BY <1>0, <1>2, <2>2, <3>1, <3>3, <4>1, ValueSlotIsWritten DEF PathsInv, WroteKey
      <4>3. SlotDone(ValueSlot(k)[1], ValueSlot(k)[2])
        BY <1>2, <2>1, <2>2 DEF SlotDone, Unbuilt
      <4>4. written[k][v] = put_cache[k]
        BY <1>0, <2>2, <4>2, <4>3 DEF WrittenInv
      <4>5. put_cache[k] \in Value \cup {NoValue}
        BY <1>0, <4>2 DEF InBatch
      <4> QED BY <2>1, <3>3, <4>4, <4>5
    <3> QED BY <3>2, <3>3
  <2> QED BY <2>2, <2>3 DEF WrittenInv
<1>9. ASSUME UNCHANGED <<hist, commit, written, put_cache, pc, load>> PROVE WrittenInv'
  BY <1>0, <1>3, <1>9
     DEF WrittenInv, Committing, Loading, SlotDone, Unbuilt, Working, InBatch
<1>10. CASE Take \/ UNCHANGED trieVars
  BY <1>9, <1>10 DEF Take, trieVars, vars
<1>11. ASSUME NEW k \in UserKey, NEW val, NEW v, PutInBatch(k, val, v)
       PROVE  WrittenInv'
  BY <1>5, <1>11 DEF PutInBatch, Idle, Committing, Loading
<1>12. CASE \E k \in UserKey, v \in ReadVersions : Get(k, v)
  BY <1>5, <1>12 DEF Get, Idle, vars, Committing, Loading
<1>13. CASE GetPage
  BY <1>5, <1>13 DEF GetPage, ReadPage, LoadStart, Committing, Loading
<1>14. CASE Descend
  BY <1>5, <1>14 DEF Descend, Return, Committing, Loading
<1>15. ASSUME NEW k \in UserKey, NEW v \in FirstVersion..MaxVersion,
              (\E val \in Value : Put(k, val, v)) \/ Delete(k, v)
       PROVE  WrittenInv'
  BY <1>11, <1>15 DEF Put, Delete
<1> QED
  BY <1>4, <1>6, <1>7, <1>8, <1>10, <1>12, <1>13, <1>14, <1>15 DEF TrieNext, TrieStep

-----------------------------------------------------------------------------
(* Get.                                                                     *)

(* The greatest version of a set, and 0 for none.                           *)
Highest(S) == IF S = {} THEN 0 ELSE CHOOSE v \in S : \A w \in S : w <= v
Checkpoints(T) == {v \in Versions : \E p \in Pid : T[BaseKey(p, v)] # None}

LEMMA HighestIs ==
  ASSUME NEW S \in SUBSET Versions
  PROVE  /\ Highest(S) \in Versions
         /\ S # {} => Highest(S) \in S
         /\ \A w \in S : w <= Highest(S)
         /\ \A m \in S : (\A w \in S : w <= m) => Highest(S) = m
<1>0. MaxVersion \in Nat /\ Versions = 0..MaxVersion /\ 0 \in Versions
  BY ConstantsAssumption DEF Versions
<1>1. CASE S = {}
  BY <1>0, <1>1 DEF Highest
<1>2. CASE S # {}
  <2>1. \E m \in S : \A w \in S : w <= m
    BY <1>0, <1>2, Greatest
  <2>2. Highest(S) \in S /\ \A w \in S : w <= Highest(S)
    BY <1>2, <2>1 DEF Highest
  <2>3. ASSUME NEW m \in S, \A w \in S : w <= m PROVE Highest(S) = m
    <3>1. m <= Highest(S) /\ Highest(S) <= m
      BY <2>2, <2>3
    <3>2. \A x, y \in Versions : x <= y /\ y <= x => x = y
      BY <1>0
    <3>3. m \in Versions /\ Highest(S) \in Versions
      BY <2>2
    <3> QED BY <3>1, <3>2, <3>3
  <2> QED BY <2>2, <2>3
<1> QED
  BY <1>1, <1>2

LEMMA LastCheckpointIs == LastCheckpoint = Highest(Checkpoints(stored))
BY DEF LastCheckpoint, Highest, Checkpoints

(* A version from the last checkpoint on can be rebuilt: whatever page it   *)
(* reads, no base page of that page is of a later version than the page.    *)
LEMMA GetReaches ==
  ASSUME TrieInv, pc # "failed", get # NoGet, get.reply = None, ~Committing,
         get.version >= LastCheckpoint
  PROVE  Reach(Path[get.key][get.level][1], get.page_version)
<1> DEFINE p == Path[get.key][get.level][1]
           u == get.page_version
           v == get.version
           D == deltapage_versions[p]
<1>0. /\ CallInv /\ HistInv /\ TablesInv /\ ChainInv /\ GetInv
      /\ get.key \in UserKey /\ get.level \in DOMAIN Path[get.key]
      /\ u \in Versions /\ v \in Versions
  BY DEF TrieInv, PagesInv, OrderInv, CoreInv, TrieTypes, TrieTypeOK
<1>1. p \in Pid
  BY <1>0, PathFacts
<1>2. Settled(p) /\ Pages(p) = Table /\ pc # "slots"
  BY DEF Committing, Settled, Pages
<1>3. \A k \in Key : k.pid = p => Table[k] = stored[k]
  BY <1>0, <1>1, <1>2, UnbuiltIsStored
<1>4. BasesOK(p, Table, hist[p], D, Cur(p))
  BY <1>0, <1>1, <1>2 DEF ChainInv, ChainAt, Chain
<1> HIDE DEF p, u, v, D
<1> SUFFICES ASSUME NEW b \in Versions, Table[BaseKey(p, b)] # None, b > u
             PROVE  FALSE
  BY <1>2 DEF Reach, ReachIn, p, u, D
<1>5. hist[p][b] # {}
  BY <1>4 DEF BasesOK, Wrote
<1>6. stored[BaseKey(p, b)] # None
  <2>1. BaseKey(p, b) \in Key /\ BaseKey(p, b).pid = p
    BY <1>1, KeyTypes DEF BaseKey
  <2> QED BY <1>3, <2>1
<1>7. b <= LastCheckpoint /\ LastCheckpoint \in Versions
  <2>1. b \in Checkpoints(stored) /\ Checkpoints(stored) \in SUBSET Versions
    BY <1>1, <1>6 DEF Checkpoints
  <2> QED BY <2>1, HighestIs, LastCheckpointIs
<1>8. b <= v /\ b > u
  BY <1>0, <1>7 DEF Versions, v
<1>9. IF v \in Readable THEN Honest(p, u, v) ELSE u = v
  BY <1>0 DEF GetInv, p, u, v
<1>10. CASE v \in Readable
  BY <1>0, <1>5, <1>8, <1>9, <1>10 DEF Honest
<1>11. CASE v \notin Readable
  BY <1>0, <1>8, <1>9, <1>11 DEF Versions
<1> QED
  BY <1>10, <1>11

(* The page Get has in hand tells, for a version from the last checkpoint   *)
(* on, the last version up to it that wrote each slot.                      *)
LEMMA PageTells ==
  ASSUME TrieInv, Descend, get.version >= LastCheckpoint, NEW s \in Slot
  PROVE  LET p == Path[get.key][get.level][1]
             v == get.version
             page == load.page
         IN /\ page # None /\ page.slots[s] # Absent =>
                 /\ v \in Readable
                 /\ page.slots[s] \in Versions /\ page.slots[s] <= v
                 /\ s \in hist[p][page.slots[s]]
            /\ v \in Readable => \A x \in Versions :
                 x <= v /\ s \in hist[p][x] =>
                   /\ page # None /\ page.slots[s] # Absent
                   /\ x <= page.slots[s]
<1> DEFINE p == Path[get.key][get.level][1]
           v == get.version
           u == get.page_version
           page == load.page
           h == hist[p]
<1>0. /\ pc = "returned" /\ ~Committing
  BY DEF Descend, Return, Committing, Loading
<1>1. /\ CallInv /\ HistInv /\ CallerInv /\ GetInv /\ LoadInv /\ TypeOK /\ TrieTypes
  BY <1>0 DEF TrieInv, PagesInv, TypeInv, OrderInv, CoreInv
<1>2. get # NoGet /\ get.reply = None /\ load.pid = p /\ load.version = u
  BY <1>0, <1>1 DEF CallerInv
<1>3. /\ p \in Pid /\ v \in Versions /\ u \in Versions
      /\ get.key \in UserKey /\ get.level \in DOMAIN Path[get.key]
      /\ page \in BasePage \cup {None} /\ h \in [Versions -> SUBSET Slot]
  BY <1>1, <1>2, PathFacts DEF TrieTypes, TrieTypeOK, TypeOK, LoadLocals
<1>4. Reach(p, u)
  BY <1>0, <1>2, GetReaches
<1>5. /\ page # None => Exact(h, u, page) /\ (u = 0 \/ h[u] # {})
      /\ h[u] # {} => page # None
  BY <1>0, <1>1, <1>2, <1>4 DEF LoadInv
<1>6. IF v \in Readable THEN Honest(p, u, v) ELSE u = v
  BY <1>1, <1>2 DEF GetInv
<1>7. Readable = {w \in Committed : w # 0}
  BY <1>0, <1>1, ReadableIs DEF CallInv, NoCommit
<1>8. \A x \in Versions : h[x] # {} => 1 <= x /\ x \in Readable
  BY <1>1, <1>3, <1>7 DEF HistInv, Committed
<1>9. MaxVersion \in Nat /\ Versions = 0..MaxVersion
  BY ConstantsAssumption DEF Versions
<1>10. Honest(p, u, v) => u <= v /\ (u = 0 \/ h[u] # {}) /\
                          \A x \in Versions : u < x /\ x <= v => h[x] = {}
  BY DEF Honest
<1>11. page # None => LastIn(h, s, u, page.slots[s])
  BY <1>5 DEF Exact
<1>12. page # None => page.slots[s] \in Versions \cup {Absent}
  BY <1>3 DEF BasePage
<1> DEFINE w == page.slots[s]
<1> HIDE DEF p, v, u, page, h, w
<1>13. ASSUME page # None, w # Absent
       PROVE  v \in Readable /\ w \in Versions /\ w <= v /\ s \in h[w]
  <2>1. w \in 0..u /\ s \in h[w] /\ w \in Versions
    BY <1>3, <1>9, <1>11, <1>13 DEF LastIn, w
  <2>2. 1 <= w
    BY <1>8, <2>1
  <2>3. u # 0 /\ h[u] # {}
    BY <1>5, <1>9, <1>13, <2>1, <2>2
  <2>4. u \in Readable
    BY <1>3, <1>8, <2>3
  <2>5. u <= v /\ v \in Readable
    BY <1>3, <1>6, <1>9, <1>10, <2>4
  <2>6. w <= v
    BY <1>3, <1>9, <2>1, <2>5
  <2> QED BY <2>1, <2>5, <2>6
<1>14. ASSUME v \in Readable, NEW x \in Versions, x <= v, s \in h[x]
       PROVE  page # None /\ w # Absent /\ x <= w
  <2>1. 1 <= x /\ h[x] # {}
    BY <1>8, <1>14
  <2>2. x <= u
    BY <1>3, <1>6, <1>9, <1>10, <1>14, <2>1
  <2>3. u # 0 /\ h[u] # {} /\ page # None
    BY <1>3, <1>5, <1>6, <1>9, <1>10, <1>14, <2>1, <2>2
  <2>4. LastIn(h, s, u, w) /\ w \in Versions \cup {Absent}
    BY <1>11, <1>12, <2>3 DEF w
  <2>5. x \in 0..u
    BY <1>3, <1>9, <2>2
  <2>6. w # Absent
    BY <1>14, <2>4, <2>5 DEF LastIn
  <2>7. w \in 0..u /\ x \notin (w + 1)..u
    BY <1>14, <2>4, <2>6 DEF LastIn
  <2>8. x <= w
    BY <1>9, <1>14, <2>2, <2>7, <1>3
  <2> QED BY <2>3, <2>6, <2>8
<1> QED
  BY <1>13, <1>14 DEF p, v, page, h, w

(* In every version a slot was written with its child page, and only then. *)
LEMMA SlotNamesChild ==
  ASSUME PathsInv
  PROVE  \A p \in Pid, s \in Slot, c \in Pid, x \in Versions :
           Child[p][s] = c /\ c # None =>
             /\ s \in hist[p][x] => hist[c][x] # {}
             /\ hist[c][x] # {} => s \in hist[p][x]
<1> SUFFICES ASSUME NEW p \in Pid, NEW s \in Slot, NEW c \in Pid, NEW x \in Versions,
                    Child[p][s] = c, c # None
             PROVE  /\ s \in hist[p][x] => hist[c][x] # {}
                    /\ hist[c][x] # {} => s \in hist[p][x]
  OBVIOUS
<1>1. PICK keys \in SUBSET UserKey : \A q \in Pid : hist[q][x] = UpdatesOf(keys)[q]
  BY DEF PathsInv
<1>2. s \in UpdatesOf(keys)[p] <=> UpdatesOf(keys)[Child[p][s]] # {}
  <2>1. Child[p][s] # None
    OBVIOUS
  <2> QED
    BY ONLY <2>1, PathsAreTrees, keys \in SUBSET UserKey, p \in Pid, s \in Slot
<1>3. hist[p][x] = UpdatesOf(keys)[p] /\ hist[c][x] = UpdatesOf(keys)[c]
  BY <1>1
<1> QED BY <1>2, <1>3

(* Get goes down to the page a slot names at the version the slot names:    *)
(* that is the last version up to the one asked for that wrote the page.    *)
LEMMA DescendsHonestly ==
  ASSUME TrieInv, Descend, get.version >= LastCheckpoint,
         NEW w \in Versions, get.level # Len(Path[get.key]),
         load.page # None, \E t \in Slot : load.page.slots[t] # Absent,
         IF load.page.slots[Path[get.key][get.level][2]] = Absent THEN w = 0
           ELSE w = load.page.slots[Path[get.key][get.level][2]]
  PROVE  /\ get.version \in Readable
         /\ Honest(Path[get.key][get.level + 1][1], w, get.version)
<1> DEFINE k == get.key
           i == get.level
           p == Path[k][i][1]
           s == Path[k][i][2]
           v == get.version
           page == load.page
           c == Path[k][i + 1][1]
<1>0. /\ pc = "returned" /\ HistInv /\ CallInv /\ CallerInv /\ PathsInv /\ TrieTypes /\ TypeInv
  BY DEF Descend, Return, TrieInv, PagesInv, OrderInv
<1>1. /\ k \in UserKey /\ i \in DOMAIN Path[k] /\ p \in Pid /\ s \in Slot
  BY <1>0, DescendEffect
<1>2. v \in Versions
  BY <1>0, DescendEffect DEF TrieTypes, GetLocals
<1>3. Child[p][s] = c /\ Child[p][s] # None /\ c \in Pid
  <2>1. i + 1 \in DOMAIN Path[k] /\ Child[p][s] = c
    BY <1>1, PathFacts
  <2>2. c \in Pid
    BY <1>1, <2>1, PathFacts
  <2> QED BY <2>1, <2>2, ConstantsAssumption
<1>4. \A x \in Versions : s \in hist[p][x] <=> hist[c][x] # {}
  <2>1. PICK q \in Pid, r \in Slot, d \in Pid : q = p /\ r = s /\ d = c
    BY <1>1, <1>3
  <2> HIDE DEF k, i, p, s, v, page, c
  <2>2. Child[q][r] = d /\ Child[q][r] # None
    BY <1>3, <2>1
  <2>3. \A x \in Versions : r \in hist[q][x] <=> hist[d][x] # {}
    <3>1. PathsInv
      BY <1>0
    <3> QED BY <3>1, <2>2, SlotNamesChild
  <2> QED BY <2>1, <2>3
<1>5. \A t \in Slot : page.slots[t] # Absent => v \in Readable
  BY PageTells
<1>6. /\ page.slots[s] # Absent => page.slots[s] <= v /\ s \in hist[p][page.slots[s]]
      /\ v \in Readable => \A x \in Versions :
           x <= v /\ s \in hist[p][x] => page.slots[s] # Absent /\ x <= page.slots[s]
  BY <1>1, PageTells
<1>7. IF page.slots[s] = Absent THEN w = 0 ELSE w = page.slots[s]
  OBVIOUS
<1>8. v \in Readable
  BY <1>5
<1>9. \A x, y \in Versions : x <= y => ~(y < x)
  BY ConstantsAssumption DEF Versions
<1>10. \A x \in Versions : hist[c][x] # {} => 1 <= x
  BY <1>0, <1>3 DEF HistInv
<1>11. 0 <= v
  BY <1>2, ConstantsAssumption DEF Versions
<1> HIDE DEF k, i, p, s, v, page, c
<1>12. w <= v /\ (w = 0 \/ hist[c][w] # {})
  BY <1>4, <1>6, <1>7, <1>11
<1>13. ASSUME NEW x \in Versions, w < x, x <= v PROVE hist[c][x] = {}
  <2> SUFFICES ASSUME hist[c][x] # {} PROVE FALSE
    OBVIOUS
  <2>1. page.slots[s] # Absent /\ x <= page.slots[s]
    BY <1>4, <1>6, <1>8, <1>13
  <2>2. x <= w
    BY <1>7, <2>1
  <2> QED BY <1>9, <1>13, <2>2
<1>14. Honest(c, w, v)
  BY <1>12, <1>13 DEF Honest
<1> QED
  BY <1>8, <1>14 DEF c, k, i, v

(* While a Get is under way nothing it has relied on moves. *)
LEMMA NextGet ==
  ASSUME TrieInv, [TrieNext]_trieVars, pc' # "failed"
  PROVE  GetInv'
<1>0. /\ pc # "failed" /\ CallInv /\ HistInv /\ TrieTypes /\ TypeInv
      /\ CallerInv /\ PathsInv /\ GetInv
  <2>1. pc # "failed" /\ PagesInv
    BY StepIsLayerStep, NotFailed DEF TrieInv
  <2> QED
    BY <2>1 DEF TrieInv, PagesInv, OrderInv
<1>1. ASSUME UNCHANGED <<hist, stored>>, commit'.version = commit.version
      PROVE  /\ Readable' = Readable /\ LastCheckpoint' = LastCheckpoint
             /\ \A p, u, v : Honest(p, u, v)' <=> Honest(p, u, v)
  BY <1>1 DEF Readable, Committed, LastCheckpoint, Honest
<1>2. ASSUME UNCHANGED <<hist, stored, get>>, commit'.version = commit.version
      PROVE  GetInv'
  BY <1>0, <1>1, <1>2 DEF GetInv
<1>3. ASSUME get' = NoGet PROVE GetInv'
  BY <1>3 DEF GetInv
<1>4. ASSUME NEW k \in UserKey, NEW val, NEW v, PutInBatch(k, val, v)
      PROVE  GetInv'
  BY <1>3, <1>4 DEF PutInBatch, Idle
<1>5. CASE CalcRootHash
  BY <1>3, <1>5 DEF CalcRootHash, Idle
<1>6. CASE PageSteps
  <2>1. UNCHANGED <<hist, stored, get>> /\ commit'.version = commit.version
    BY <1>6, PageStepEffect
  <2> QED BY <1>2, <2>1
<1>7. ASSUME (\E s \in Slot : TrieUpdatePage(s)) \/ TrieStorePages
      PROVE  GetInv'
  <2>1. Committing /\ UNCHANGED get
    BY <1>7 DEF TrieUpdatePage, UpdatePage, TrieStorePages, StorePages, Committing
  <2> QED BY <1>0, <1>3, <2>1 DEF CallerInv
<1>8. CASE GetPage
  BY <1>2, <1>8 DEF GetPage, ReadPage
<1>9. CASE Take
  BY <1>3, <1>9 DEF Take
<1>10. CASE UNCHANGED trieVars
  BY <1>2, <1>10 DEF trieVars, vars
<1>11. ASSUME NEW k \in UserKey, NEW v \in ReadVersions, Get(k, v)
       PROVE  GetInv'
  <2>1. v \in Versions /\ v <= v
    BY ConstantsAssumption DEF Versions
  <2>2. /\ get' = [key |-> k, version |-> v, level |-> 1, page_version |-> v,
                   reply |-> None]
        /\ pc = "idle" /\ UNCHANGED <<hist, stored, commit>>
    BY <1>11 DEF Get, Idle, vars
  <2>3. ~Committing
    BY <2>2 DEF Committing, Loading
  <2>4. get'.key = k /\ get'.version = v /\ get'.level = 1 /\ get'.page_version = v
    BY <2>2
  <2>5. Path[k][1][1] = Root /\ Root \in Pid
    BY PathFacts, ConstantsAssumption
  <2>6. ASSUME v \in Readable PROVE Honest(Root, v, v)
    <3>1. v \in Committed
      BY <2>6 DEF Readable
    <3>2. hist[Root][v] # {}
      BY <1>0, <3>1, CommittedBound
    <3>3. \A w \in Versions : ~(v < w /\ w <= v)
      BY <2>1, ConstantsAssumption DEF Versions
    <3> QED BY <2>1, <3>2, <3>3 DEF Honest
  <2>7. /\ Readable' = Readable
        /\ Honest(Root, v, v)' <=> Honest(Root, v, v)
    BY <1>1, <2>2
  <2> QED BY <2>4, <2>5, <2>6, <2>7 DEF GetInv
<1>12. CASE Descend
  <2> DEFINE k == get.key
             i == get.level
             s == Path[k][i][2]
             page == load.page
  <2>1. /\ UNCHANGED <<hist, stored, commit>>
    BY <1>12 DEF Descend, Return
  <2>2. /\ get \in GetLocals /\ k \in UserKey /\ i \in DOMAIN Path[k] /\ get.reply = None
    BY <1>0, <1>12, DescendEffect DEF TrieTypes
  <2>3. CASE \E val : get' = [get EXCEPT !.reply = val]
    <3>1. PICK val : get' = [get EXCEPT !.reply = val]
      BY <2>3
    <3>2. CASE val = None
      <4>1. get' = get
        BY <2>2, <3>1, <3>2 DEF GetLocals
      <4> QED BY <1>2, <2>1, <4>1
    <3>3. CASE val # None
      <4>1. get'.reply # None
        BY <2>2, <3>1, <3>3 DEF GetLocals
      <4> QED BY <4>1 DEF GetInv
    <3> QED BY <3>2, <3>3
  <2>4. ASSUME i # Len(Path[k]), page # None, \E t \in Slot : page.slots[t] # Absent,
               NEW w \in Versions,
               IF page.slots[s] = Absent THEN w = 0 ELSE w = page.slots[s],
               get' = [get EXCEPT !.level = i + 1, !.page_version = w]
        PROVE  GetInv'
    <3>1. /\ get'.key = k /\ get'.level = i + 1 /\ get'.page_version = w
          /\ get'.version = get.version
      BY <2>2, <2>4 DEF GetLocals
    <3>2. Readable' = Readable /\ LastCheckpoint' = LastCheckpoint
      BY <1>1, <2>1
    <3>3. ASSUME get.version >= LastCheckpoint
          PROVE  /\ get.version \in Readable
                 /\ Honest(Path[k][i + 1][1], w, get.version)
      BY <1>12, <2>4, <3>3, DescendsHonestly
    <3>4. \A p, u, v : Honest(p, u, v)' <=> Honest(p, u, v)
      BY <1>1, <2>1
    <3> QED BY <3>1, <3>2, <3>3, <3>4 DEF GetInv
  <2>5. \/ \E val : get' = [get EXCEPT !.reply = val]
        \/ /\ page # None /\ i # Len(Path[k])
           /\ \E t \in Slot : page.slots[t] # Absent
           /\ \E w \in Versions :
                /\ IF page.slots[s] = Absent THEN w = 0 ELSE w = page.slots[s]
                /\ get' = [get EXCEPT !.level = i + 1, !.page_version = w]
    BY <1>0, <1>12, DescendEffect
  <2> QED BY <2>3, <2>4, <2>5
<1>13. ASSUME NEW k \in UserKey, NEW v \in FirstVersion..MaxVersion,
              (\E val \in Value : Put(k, val, v)) \/ Delete(k, v)
       PROVE  GetInv'
  BY <1>4, <1>13 DEF Put, Delete
<1> QED
  BY <1>5, <1>6, <1>7, <1>8, <1>9, <1>10, <1>11, <1>12, <1>13 DEF TrieNext, TrieStep

-----------------------------------------------------------------------------
(* The inductive invariant of the trie. *)
LEMMA InitTrie == TrieInit => TrieInv
<1> SUFFICES ASSUME TrieInit PROVE TrieInv
  OBVIOUS
<1>1. PagesInv /\ TrieTypes
  BY InitPages, InitTrieTypes DEF TrieInit
<1>2. /\ pc = "idle" /\ put_cache = EmptyPutCache /\ get = NoGet
      /\ \A p \in Pid, w \in Versions : hist[p][w] = {}
  BY DEF TrieInit, Init
<1>3. ~Committing /\ InBatch = {} /\ Committed = {}
  BY <1>2 DEF Committing, Loading, InBatch, EmptyPutCache, Committed
<1>4. CallerInv
  BY <1>2, <1>3 DEF CallerInv
<1>5. PathsInv
  <2>1. \A p \in Pid : UpdatesOf({})[p] = {}
    BY DEF UpdatesOf
  <2> QED BY <1>2, <1>3, <2>1 DEF PathsInv
<1>6. WrittenInv
  BY <1>3 DEF WrittenInv, Readable
<1>7. GetInv
  BY <1>2 DEF GetInv
<1> QED
  BY <1>1, <1>4, <1>5, <1>6, <1>7 DEF TrieInv

LEMMA NextTrie == TrieInv /\ [TrieNext]_trieVars => TrieInv'
<1> SUFFICES ASSUME TrieInv, [TrieNext]_trieVars PROVE TrieInv'
  OBVIOUS
<1>1. PagesInv'
  <2>1. PagesInv /\ [LayerNext]_vars
    BY StepIsLayerStep DEF TrieInv
  <2> QED BY <2>1, NextPages, TrieAssumption
<1>2. TrieTypes'
  BY NextTrieTypes
<1>3. ASSUME pc' # "failed"
      PROVE  CallerInv' /\ PathsInv' /\ WrittenInv' /\ GetInv'
  BY <1>3, NextCaller, NextPaths, NextWritten, NextGet
<1> QED
  BY <1>1, <1>2, <1>3 DEF TrieInv

(* The batch, the value log and the locals of Get keep their types: the     *)
(* level of a Get never runs past the value slot of its key, and a child    *)
(* version it takes from a slot is a version (DMMTrie::Get,                 *)
(* IndexNode::GetChildVersion).                                             *)
THEOREM TrieTypesHold == TrieSpec => []TrieTypeOK
<1>1. TrieInv => TrieTypeOK
  BY DEF TrieInv, TrieTypes
<1> QED
  BY <1>1, InitTrie, NextTrie, PTL DEF TrieSpec

-----------------------------------------------------------------------------
(* The refinement.  The map as each version left it, and the answer.        *)
Snaps == [v \in Versions |-> Snapshot(v)]
Reply == IF get.reply = None THEN None
         ELSE [key |-> get.key, version |-> get.version, value |-> get.reply]

LEMMA SnapshotIs ==
  ASSUME NEW v \in Versions
  PROVE  /\ Snaps[v] = Snapshot(v)
         /\ v \notin Readable => Snapshot(v) = None
         /\ v \in Readable =>
              Snapshot(v) = [k \in UserKey |->
                IF WritesOf(k, v) = {} THEN NoValue
                ELSE written[k][Highest(WritesOf(k, v))]]
<1>1. Snaps[v] = Snapshot(v)
  BY DEF Snaps
<1>2. v \in Readable =>
        Snapshot(v) = [k \in UserKey |->
          IF WritesOf(k, v) = {} THEN NoValue
          ELSE written[k][Highest(WritesOf(k, v))]]
  BY DEF Snapshot, Highest
<1>3. v \notin Readable => Snapshot(v) = None
  BY DEF Snapshot
<1> QED
  BY <1>1, <1>2, <1>3

(* The writes of a key are readable versions. *)
LEMMA WritesAre ==
  ASSUME NEW k \in UserKey, NEW v
  PROVE  /\ WritesOf(k, v) = {w \in Readable : w <= v /\ WroteKey(k, w)}
         /\ WritesOf(k, v) \in SUBSET Versions
BY DEF WritesOf, WroteKey, Readable, Committed

(* A readable version has a value for every key. *)
LEMMA ReadableIsMap ==
  ASSUME WrittenInv, NEW v \in Versions
  PROVE  Snapshot(v) # None <=> v \in Readable
<1>1. ASSUME v \in Readable PROVE Snapshot(v) # None
  <2>1. ASSUME NEW k \in UserKey, WritesOf(k, v) # {}
        PROVE  written[k][Highest(WritesOf(k, v))] \in Value \cup {NoValue}
    <3>1. Highest(WritesOf(k, v)) \in WritesOf(k, v)
      BY <2>1, WritesAre, HighestIs
    <3>2. Highest(WritesOf(k, v)) \in Readable /\ WroteKey(k, Highest(WritesOf(k, v)))
      BY <3>1, WritesAre
    <3> QED BY <3>2 DEF WrittenInv
  <2>2. Snapshot(v) \in [UserKey -> Value \cup {NoValue}]
    <3>1. Snapshot(v) = [k \in UserKey |->
            IF WritesOf(k, v) = {} THEN NoValue
            ELSE written[k][Highest(WritesOf(k, v))]]
      BY <1>1, SnapshotIs
    <3> QED BY <2>1, <3>1
  <2> QED BY <2>2, AnswerAssumption
<1> QED
  BY <1>1, SnapshotIs

(* What no readable version has moved stays readable as it was. *)
LEMMA SnapsSame ==
  ASSUME Readable' = Readable,
         \A k \in UserKey : \A w \in Readable :
           /\ WroteKey(k, w)' <=> WroteKey(k, w)
           /\ written'[k][w] = written[k][w]
  PROVE  Snaps' = Snaps
<1>1. ASSUME NEW v \in Versions PROVE Snapshot(v)' = Snapshot(v)
  <2>1. ASSUME NEW k \in UserKey
        PROVE  /\ WritesOf(k, v)' = WritesOf(k, v)
               /\ WritesOf(k, v) # {} =>
                    written'[k][Highest(WritesOf(k, v))]
                      = written[k][Highest(WritesOf(k, v))]
    <3>1. WritesOf(k, v) = {w \in Readable : w <= v /\ WroteKey(k, w)}
      BY WritesAre
    <3>2. WritesOf(k, v)' = {w \in Readable' : w <= v /\ WroteKey(k, w)'}
      BY DEF WritesOf, WroteKey
    <3>3. WritesOf(k, v)' = WritesOf(k, v)
      BY <3>1, <3>2
    <3>4. WritesOf(k, v) # {} => Highest(WritesOf(k, v)) \in Readable
      <4>1. WritesOf(k, v) # {} => Highest(WritesOf(k, v)) \in WritesOf(k, v)
        BY WritesAre, HighestIs
      <4> QED BY <3>1, <4>1
    <3> QED BY <3>3, <3>4
  <2>2. CASE v \notin Readable
    BY <2>2 DEF Snapshot
  <2>3. CASE v \in Readable
    <3>1. Snapshot(v)' = [k \in UserKey |->
            IF WritesOf(k, v)' = {} THEN NoValue
            ELSE written'[k][Highest(WritesOf(k, v)')]]
      BY <2>3 DEF Snapshot, Highest
    <3>2. Snapshot(v) = [k \in UserKey |->
            IF WritesOf(k, v) = {} THEN NoValue
            ELSE written[k][Highest(WritesOf(k, v))]]
      BY <2>3, SnapshotIs
    <3> QED BY <2>1, <3>1, <3>2
  <2> QED BY <2>2, <2>3
<1> QED
  BY <1>1 DEF Snaps

(* The greatest readable version is the newest map. *)
LEMMA NewestIs ==
  ASSUME HistInv, WrittenInv, NEW v \in Versions, \A w \in Readable : w < v
  PROVE  Map!Newest = [k \in UserKey |->
           IF WritesOf(k, v) = {} THEN NoValue
           ELSE written[k][Highest(WritesOf(k, v))]]
<1> DEFINE n == Highest(Readable)
<1>1. Readable \in SUBSET Versions
  BY DEF Readable, Committed
<1>2. Map!CommittedVersions = Readable
  BY <1>1, ReadableIsMap, SnapshotIs DEF Map!CommittedVersions, Snaps
<1>3. Map!Newest = IF Readable = {} THEN [k \in UserKey |-> NoValue] ELSE Snaps[n]
  BY <1>2 DEF Map!Newest, Map!EmptyMap, Highest, Snaps
<1>4. CASE Readable = {}
  <2>1. \A k \in UserKey : WritesOf(k, v) = {}
    BY <1>4, WritesAre
  <2> QED BY <1>3, <1>4, <2>1
<1>5. CASE Readable # {}
  <2>1. n \in Readable /\ n \in Versions /\ \A w \in Readable : w <= n
    BY <1>1, <1>5, HighestIs
  <2> HIDE DEF n
  <2>2. \A w \in Readable : w <= v
    BY <1>1, ConstantsAssumption DEF Versions
  <2>3. \A k \in UserKey : WritesOf(k, n) = WritesOf(k, v)
    BY <2>1, <2>2, WritesAre
  <2>4. Snaps[n] = [k \in UserKey |->
          IF WritesOf(k, n) = {} THEN NoValue
          ELSE written[k][Highest(WritesOf(k, n))]]
    BY <2>1, SnapshotIs
  <2> QED BY <1>3, <1>5, <2>3, <2>4
<1> QED
  BY <1>4, <1>5

(* Storing the pages of a batch makes its version readable: every key it    *)
(* wrote has its value there, every other key the value it had, and no      *)
(* earlier version reads differently.                                       *)
LEMMA StoredSnaps ==
  ASSUME TrieInv, TrieStorePages
  PROVE  Snaps' = [Snaps EXCEPT ![current_version] =
           [k \in UserKey |->
              IF put_cache[k] # None THEN put_cache[k] ELSE Map!Newest[k]]]
<1> DEFINE new == [k \in UserKey |->
                     IF put_cache[k] # None THEN put_cache[k] ELSE Map!Newest[k]]
<1>0. /\ pc = "pages" /\ UNCHANGED <<hist, written>> /\ commit' = NoCommit
      /\ \A p \in Pid : commit.updates[p] = {}
  BY DEF TrieStorePages, StorePages, Pending
<1>1. /\ CallInv /\ HistInv /\ PathsInv /\ WrittenInv /\ TypeOK
      /\ Committing /\ ~Working
  BY <1>0 DEF TrieInv, PagesInv, TypeInv, OrderInv, Committing, Working
<1>v. PICK v \in Versions : v = commit.version
  BY <1>1 DEF CallInv, TypeOK
<1>2. /\ v = current_version /\ hist[Root][v] # {} /\ v = commit.version
      /\ v \in Committed
  BY <1>1, <1>v, ConstantsAssumption DEF CallInv, Committed
<1>3. Readable = {w \in Committed : w # v}
  BY <1>1, <1>2, ReadableIs
<1>4. Readable' = Committed
  <2>1. commit'.version = 0
    BY <1>0 DEF NoCommit
  <2> QED BY <1>0, <2>1 DEF Readable, Committed
<1>5. \A w \in Committed : w \in Versions /\ w <= v
  BY <1>1, <1>2, CommittedBound
<1>6. \A x, y \in Versions : x <= y /\ x # y => x < y
  BY ConstantsAssumption DEF Versions
<1>7. \A w \in Readable : w < v
  BY <1>2, <1>3, <1>5, <1>6
<1>8. \A x, y \in Versions : x <= y \/ y < x
  BY ConstantsAssumption DEF Versions
<1>9. ASSUME NEW k \in UserKey, NEW w \in Versions
      PROVE  WritesOf(k, w)' = {x \in Committed : x <= w /\ WroteKey(k, x)}
  BY <1>0, <1>4 DEF WritesOf, WroteKey
<1>10. ASSUME NEW k \in UserKey PROVE WroteKey(k, v) <=> put_cache[k] # None
  <2>1. InBatch \in SUBSET UserKey
    BY DEF InBatch
  <2>2. ValueSlot(k)[1] \in Pid
    BY ValueSlotFacts
  <2>3. WroteKey(k, v) <=> k \in InBatch
    BY <1>1, <1>2, <2>1, <2>2, ValueSlotIsWritten DEF PathsInv, WroteKey
  <2> QED BY <2>3 DEF InBatch
<1>11. ASSUME NEW k \in UserKey, put_cache[k] # None
       PROVE  written[k][v] = put_cache[k]
  <2>1. k \in InBatch /\ ValueSlot(k)[1] \in Pid
    BY <1>11, ValueSlotFacts DEF InBatch
  <2>2. SlotDone(ValueSlot(k)[1], ValueSlot(k)[2])
    BY <1>0, <1>1, <2>1 DEF SlotDone, Unbuilt
  <2> QED BY <1>1, <1>2, <2>1, <2>2 DEF WrittenInv
<1>12. Map!Newest = [k \in UserKey |->
           IF WritesOf(k, v) = {} THEN NoValue
           ELSE written[k][Highest(WritesOf(k, v))]]
  BY <1>1, <1>2, <1>7, NewestIs
<1>13. ASSUME NEW w \in Versions, w # v PROVE Snapshot(w)' = Snapshot(w)
  <2>1. CASE w \in Committed
    <3>1. w \in Readable /\ w \in Readable' /\ w < v
      BY <1>3, <1>4, <1>7, <1>13, <2>1
    <3>2. ~(v <= w)
      BY <1>2, <3>1, ConstantsAssumption DEF Versions
    <3>3. ASSUME NEW k \in UserKey PROVE WritesOf(k, w)' = WritesOf(k, w)
      <4>1. WritesOf(k, w) = {x \in Readable : x <= w /\ WroteKey(k, x)}
        BY WritesAre
      <4>2. WritesOf(k, w)' = {x \in Committed : x <= w /\ WroteKey(k, x)}
        BY <1>9
      <4> QED BY <1>3, <3>2, <4>1, <4>2
    <3>4. Snapshot(w)' = [k \in UserKey |->
            IF WritesOf(k, w)' = {} THEN NoValue
            ELSE written'[k][Highest(WritesOf(k, w)')]]
      BY <3>1 DEF Snapshot, Highest
    <3>5. Snapshot(w) = [k \in UserKey |->
            IF WritesOf(k, w) = {} THEN NoValue
            ELSE written[k][Highest(WritesOf(k, w))]]
      BY <3>1, SnapshotIs
    <3> QED BY <1>0, <3>3, <3>4, <3>5
  <2>2. CASE w \notin Committed
    <3>1. w \notin Readable /\ w \notin Readable'
      BY <1>3, <1>4, <2>2
    <3> QED BY <3>1 DEF Snapshot
  <2> QED BY <2>1, <2>2
<1>14. Snapshot(v)' = new
  <2>1. Snapshot(v)' = [k \in UserKey |->
          IF WritesOf(k, v)' = {} THEN NoValue
          ELSE written'[k][Highest(WritesOf(k, v)')]]
    BY <1>2, <1>4 DEF Snapshot, Highest
  <2>2. ASSUME NEW k \in UserKey
        PROVE  (IF WritesOf(k, v)' = {} THEN NoValue
                ELSE written[k][Highest(WritesOf(k, v)')])
                 = IF put_cache[k] # None THEN put_cache[k] ELSE Map!Newest[k]
    <3>1. WritesOf(k, v)' = {x \in Committed : WroteKey(k, x)}
      BY <1>2, <1>5, <1>9
    <3>2. WritesOf(k, v) = {x \in Committed : x # v /\ WroteKey(k, x)}
      BY <1>2, <1>3, <1>5, WritesAre
    <3>3. CASE put_cache[k] # None
      <4>1. v \in WritesOf(k, v)' /\ \A x \in WritesOf(k, v)' : x <= v
        BY <1>2, <1>5, <1>10, <3>1, <3>3
      <4>2. WritesOf(k, v)' \in SUBSET Versions
        BY <1>5, <3>1
      <4>3. Highest(WritesOf(k, v)') = v
        BY <4>1, <4>2, HighestIs
      <4> QED BY <1>11, <3>3, <4>1, <4>3
    <3>4. CASE put_cache[k] = None
      <4>1. WritesOf(k, v)' = WritesOf(k, v)
        BY <1>10, <3>1, <3>2, <3>4
      <4> QED BY <1>12, <3>4, <4>1
    <3> QED BY <3>3, <3>4
  <2> QED BY <1>0, <2>1, <2>2
<1> HIDE DEF new
<1>15. Snaps' = [Snaps EXCEPT ![v] = new]
  BY <1>2, <1>13, <1>14 DEF Snaps
<1> QED
  BY <1>2, <1>15 DEF new

(* ... and the last checkpoint stays, or is that version now. *)
LEMMA StoredHorizon ==
  ASSUME TrieInv, TrieStorePages
  PROVE  LastCheckpoint' \in {LastCheckpoint, current_version}
<1> DEFINE v == current_version
           C == Checkpoints(stored)
           E == Checkpoints(stored')
<1>0. /\ pc = "pages"
      /\ stored' = [k \in Key |-> IF stored[k] = None THEN page_cache[k] ELSE stored[k]]
  BY DEF TrieStorePages, StorePages
<1>1. /\ CallInv /\ HistInv /\ TablesInv /\ TypeOK /\ Committing
  BY <1>0 DEF TrieInv, PagesInv, TypeInv, OrderInv, Committing
<1>2. commit.version = v /\ v \in Versions
  BY <1>1 DEF CallInv, TypeOK
<1>3. ASSUME NEW p \in Pid, NEW b \in Versions
      PROVE  /\ stored[BaseKey(p, b)] # None =>
                  stored'[BaseKey(p, b)] # None /\ b <= v
             /\ stored'[BaseKey(p, b)] # None => stored[BaseKey(p, b)] # None \/ b = v
  <2>1. BaseKey(p, b) \in Key /\ BaseKey(p, b).version = b
    BY KeyTypes DEF BaseKey
  <2>2. stored[BaseKey(p, b)] # None => b <= v
    BY <1>1, <2>1, CommittedBound DEF TablesInv
  <2>3. page_cache[BaseKey(p, b)] # None => b = v
    BY <1>1, <1>2, <2>1 DEF TablesInv
  <2> QED BY <1>0, <2>1, <2>2, <2>3
<1>4. C \in SUBSET Versions /\ E \in SUBSET Versions
  BY DEF Checkpoints
<1>5. C \subseteq E /\ (\A b \in E : b \in C \/ b = v) /\ \A b \in C : b <= v
  BY <1>3 DEF Checkpoints
<1>6. LastCheckpoint = Highest(C)
  BY LastCheckpointIs
<1>7. LastCheckpoint' = Highest(E)
  BY DEF LastCheckpoint, Highest, Checkpoints
<1> HIDE DEF C, E
<1>8. CASE v \in E
  <2>1. v <= v
    BY <1>2, ConstantsAssumption DEF Versions
  <2>2. Highest(E) = v
    BY <1>4, <1>5, <1>8, <2>1, HighestIs
  <2> QED BY <1>7, <2>2 DEF v
<1>9. CASE v \notin E
  <2>1. E = C
    BY <1>5, <1>9
  <2> QED BY <1>6, <1>7, <2>1
<1> QED
  BY <1>8, <1>9

(* What Get answers from the page it has in hand is the value of its key at *)
(* the version asked for.                                                   *)
LEMMA AnswerIsAt ==
  ASSUME TrieInv, Descend, get.version >= LastCheckpoint, NEW val,
         LET s == Path[get.key][get.level][2]
             page == load.page
         IN \/ (page # None => page.slots[s] = Absent) /\ val = NoValue
            \/ /\ page # None /\ get.level = Len(Path[get.key])
               /\ page.slots[s] \in Versions
               /\ val = written[get.key][page.slots[s]]
  PROVE  val = Map!At(get.key, get.version)
<1>0. /\ pc = "returned" /\ HistInv /\ CallInv /\ CallerInv /\ PathsInv /\ WrittenInv
      /\ TrieTypes /\ TypeInv /\ ~Committing
  BY DEF Descend, Return, TrieInv, PagesInv, OrderInv, Committing, Loading
<1> DEFINE i == get.level
           s == Path[get.key][i][2]
           p == Path[get.key][i][1]
           page == load.page
<1>k. PICK k \in UserKey : k = get.key
  BY <1>0, DescendEffect
<1>v. PICK v \in Versions : v = get.version
  BY <1>0, DescendEffect DEF TrieTypes, GetLocals
<1>1. /\ i \in DOMAIN Path[k] /\ p \in Pid /\ s \in Slot
  BY <1>0, <1>k, DescendEffect
<1>2. \A q \in Pid, x \in Versions : hist[q][x] # {} => x \in Readable
  <2>0. commit = NoCommit
    BY <1>0 DEF CallInv
  <2>1. commit.version = 0
    BY <2>0 DEF NoCommit
  <2>2. \A q \in Pid, x \in Versions : hist[q][x] # {} => x \in Committed
    BY DEF Committed
  <2>3. Readable = {x \in Committed : x # 0}
    BY <1>0, <2>1, ReadableIs
  <2>4. \A x \in Committed : x # 0
    BY <1>0, CommittedBound
  <2> QED BY <2>2, <2>3, <2>4
<1>3. /\ page # None /\ page.slots[s] # Absent =>
           /\ v \in Readable /\ page.slots[s] <= v /\ s \in hist[p][page.slots[s]]
      /\ v \in Readable => \A x \in Versions :
           x <= v /\ s \in hist[p][x] =>
             /\ page # None /\ page.slots[s] # Absent
             /\ x <= page.slots[s]
  BY <1>1, <1>v, PageTells
<1>4. ASSUME NEW w \in WritesOf(k, v) PROVE w \in Versions /\ w <= v /\ s \in hist[p][w]
  <2>1. w \in Versions /\ w <= v /\ WroteKey(k, w)
    BY WritesAre
  <2>2. PICK keys \in SUBSET UserKey : \A q \in Pid : hist[q][w] = UpdatesOf(keys)[q]
    BY <1>0, <2>1 DEF PathsInv
  <2>3. k \in keys
    BY <2>1, <2>2, ValueSlotFacts, ValueSlotIsWritten DEF WroteKey
  <2>4. s \in UpdatesOf(keys)[p]
    BY <1>1, <1>k, <2>3, PathIsWritten
  <2> QED BY <1>1, <2>1, <2>2, <2>4
<1>5. Map!At(k, v) = IF v \notin Readable THEN NoValue ELSE Snapshot(v)[k]
  BY <1>0, SnapshotIs, ReadableIsMap DEF Map!At, Snaps
<1>6. v \in Readable => Snapshot(v)[k] = IF WritesOf(k, v) = {} THEN NoValue
                                         ELSE written[k][Highest(WritesOf(k, v))]
  BY SnapshotIs
<1>7. CASE (page # None => page.slots[s] = Absent) /\ val = NoValue
  <2>1. v \in Readable => WritesOf(k, v) = {}
    BY <1>3, <1>4, <1>7
  <2>2. val = Map!At(k, v)
    BY <1>5, <1>6, <1>7, <2>1
  <2> QED BY <1>k, <1>v, <2>2
<1>8. CASE /\ page # None /\ i = Len(Path[k]) /\ page.slots[s] \in Versions
           /\ val = written[k][page.slots[s]]
  <2>w. PICK w \in Versions : w = page.slots[s]
    BY <1>8
  <2>1. \A x \in Versions : x # Absent
    BY ConstantsAssumption DEF Versions, Absent
  <2>2. v \in Readable /\ w <= v /\ s \in hist[p][w]
    BY <1>3, <1>8, <2>1, <2>w
  <2>3. w \in Readable
    BY <1>1, <1>2, <2>2
  <2>4. WroteKey(k, w)
    <3>1. ValueSlot(k) = Path[k][i] /\ ValueSlot(k)[1] = p /\ ValueSlot(k)[2] = s
      BY <1>8, <1>k DEF ValueSlot
    <3> QED BY <2>2, <3>1 DEF WroteKey
  <2>5. w \in WritesOf(k, v) /\ WritesOf(k, v) \in SUBSET Versions
    BY <2>2, <2>3, <2>4, WritesAre
  <2>6. \A x \in WritesOf(k, v) : x <= w
    BY <1>3, <1>4, <2>2, <2>w
  <2>7. Highest(WritesOf(k, v)) = w
    BY <2>5, <2>6, HighestIs
  <2>8. val = Map!At(k, v)
    BY <1>5, <1>6, <1>8, <2>2, <2>5, <2>7, <2>w
  <2> QED BY <1>k, <1>v, <2>8
<1>9. \/ (page # None => page.slots[s] = Absent) /\ val = NoValue
      \/ /\ page # None /\ i = Len(Path[k]) /\ page.slots[s] \in Versions
         /\ val = written[k][page.slots[s]]
  BY <1>k
<1> HIDE DEF i, s, p, page
<1> QED
  BY <1>7, <1>8, <1>9

-----------------------------------------------------------------------------
(* Every step of the trie is a step of the map, or changes nothing there.   *)
LEMMA InitIsMapInit == TrieInit => Map!MapInit
<1> SUFFICES ASSUME TrieInit PROVE Map!MapInit
  OBVIOUS
<1>1. /\ \A p \in Pid, v \in Versions : hist[p][v] = {} /\ stored[BaseKey(p, v)] = None
      /\ current_version = 0 /\ put_cache = EmptyPutCache /\ get = NoGet
  BY KeyTypes DEF TrieInit, Init
<1>2. \A v \in Versions : Snapshot(v) = None
  BY <1>1, SnapshotIs DEF Readable, Committed
<1>3. LastCheckpoint = 0
  BY <1>1 DEF LastCheckpoint
<1>4. get.reply = None
  BY <1>1 DEF NoGet
<1> QED
  BY <1>1, <1>2, <1>3, <1>4 DEF Map!MapInit, Map!EmptyBatch, EmptyPutCache

(* What the map sees. *)
LEMMA Unseen ==
  ASSUME UNCHANGED <<stored, current_version, put_cache>>, Snaps' = Snaps, Reply' = Reply
  PROVE  UNCHANGED Map!mapVars
<1>1. LastCheckpoint' = LastCheckpoint
  BY DEF LastCheckpoint
<1> QED
  BY <1>1 DEF Map!mapVars, Snaps, Reply

LEMMA SnapsKept ==
  ASSUME UNCHANGED <<hist, written>>, commit'.version = commit.version
  PROVE  Snaps' = Snaps
<1>1. Readable' = Readable
  BY DEF Readable, Committed
<1>2. \A k, w : WroteKey(k, w)' <=> WroteKey(k, w)
  BY DEF WroteKey
<1> QED
  BY <1>1, <1>2, SnapsSame

LEMMA PutIsMapWrite ==
  ASSUME TrieInv, NEW k \in UserKey, NEW val \in Value \cup {NoValue},
         NEW v \in FirstVersion..MaxVersion, PutInBatch(k, val, v)
  PROVE  Map!MapNext
<1>1. v \in Versions /\ v >= FirstVersion
  BY ConstantsAssumption DEF Versions
<1>2. /\ get = NoGet /\ v >= current_version /\ v \notin Committed
      /\ current_version' = v /\ put_cache' = [put_cache EXCEPT ![k] = val]
      /\ UNCHANGED <<stored, commit, hist, written, get>>
  BY DEF PutInBatch, Idle, Accepts
<1>3. get.reply = None
  BY <1>2 DEF NoGet
<1>4. Snapshot(v) = None
  BY <1>1, <1>2, SnapshotIs DEF Readable
<1>5. Snaps' = Snaps
  BY <1>2, SnapsKept
<1>6. LastCheckpoint' = LastCheckpoint
  BY <1>2 DEF LastCheckpoint
<1>7. Map!MapWrite(k, val, v)
  BY <1>1, <1>2, <1>3, <1>4, <1>5, <1>6 DEF Map!MapWrite, Snaps
<1> QED
  BY <1>1, <1>7 DEF Map!MapNext

LEMMA StoreIsMapCommit ==
  ASSUME TrieInv, TrieStorePages
  PROVE  Map!MapNext
<1>1. /\ pc = "pages" /\ put_cache' = EmptyPutCache
      /\ UNCHANGED <<current_version, get>>
  BY DEF TrieStorePages, StorePages
<1>2. CallerInv /\ Committing
  BY <1>1 DEF TrieInv, Committing
<1>3. get.reply = None /\ InBatch # {}
  BY <1>2 DEF CallerInv, NoGet
<1>4. put_cache # EmptyPutCache
  BY <1>3 DEF InBatch, EmptyPutCache
<1>5. Snaps' = [Snaps EXCEPT ![current_version] =
        [k \in UserKey |-> IF put_cache[k] # None THEN put_cache[k] ELSE Map!Newest[k]]]
  BY StoredSnaps
<1>6. LastCheckpoint' \in {LastCheckpoint, current_version}
  BY StoredHorizon
<1>7. Map!MapCommit
  BY <1>1, <1>3, <1>4, <1>5, <1>6
     DEF Map!MapCommit, Map!EmptyBatch, EmptyPutCache, Snaps
<1> QED
  BY <1>7 DEF Map!MapNext

LEMMA DescendIsMapGet ==
  ASSUME TrieInv, Descend
  PROVE  Map!MapNext \/ UNCHANGED Map!mapVars
<1> DEFINE s == Path[get.key][get.level][2]
           page == load.page
<1>1. /\ TypeInv /\ TrieTypes /\ CallInv /\ CallerInv
      /\ UNCHANGED <<stored, hist, commit, current_version, put_cache, written>>
  BY DEF TrieInv, PagesInv, OrderInv, Descend, Return
<1>2. Snaps' = Snaps /\ LastCheckpoint' = LastCheckpoint
  BY <1>1, SnapsKept DEF LastCheckpoint
<1>3. /\ get.key \in UserKey /\ get.reply = None /\ get \in GetLocals
      /\ get.version \in Versions
  BY <1>1, DescendEffect DEF TrieTypes, GetLocals
<1>4. written \in [UserKey -> [Versions -> Value \cup {NoValue, None}]]
  BY <1>1 DEF TrieTypes, TrieTypeOK
<1>5. ASSUME NEW val \in Value \cup {NoValue, None},
             get' = [get EXCEPT !.reply = val],
             get.version >= LastCheckpoint => val = Map!At(get.key, get.version)
      PROVE  Map!MapNext \/ UNCHANGED Map!mapVars
  <2>1. /\ get'.key = get.key /\ get'.version = get.version /\ get'.reply = val
    BY <1>3, <1>5 DEF GetLocals
  <2>2. CASE val = None
    <3>1. Reply' = Reply
      BY <1>3, <2>1, <2>2 DEF Reply
    <3> QED BY <1>1, <1>2, <3>1, Unseen
  <2>3. CASE val # None
    <3>1. val \in Value \cup {NoValue}
      BY <2>3
    <3>2. Reply' = [key |-> get.key, version |-> get.version, value |-> val]
      BY <2>1, <2>3 DEF Reply
    <3>3. Map!MapGet(get.key, get.version, val)
      BY <1>1, <1>2, <1>3, <1>5, <3>2 DEF Map!MapGet, Reply, Snaps
    <3> QED BY <1>3, <3>1, <3>3 DEF Map!MapNext
  <2> QED BY <2>2, <2>3
<1>6. CASE (page # None => page.slots[s] = Absent) /\ get' = [get EXCEPT !.reply = NoValue]
  <2>1. get.version >= LastCheckpoint => NoValue = Map!At(get.key, get.version)
    BY <1>6, AnswerIsAt
  <2> QED BY <1>5, <1>6, <2>1
<1>7. CASE /\ page # None /\ get.level = Len(Path[get.key]) /\ page.slots[s] \in Versions
           /\ get' = [get EXCEPT !.reply = written[get.key][page.slots[s]]]
  <2>v. PICK val : val = written[get.key][page.slots[s]]
    OBVIOUS
  <2>1. val \in Value \cup {NoValue, None}
    BY <1>3, <1>4, <1>7, <2>v
  <2>2. get.version >= LastCheckpoint => val = Map!At(get.key, get.version)
    BY <1>7, <2>v, AnswerIsAt
  <2>3. get' = [get EXCEPT !.reply = val]
    BY <1>7, <2>v
  <2> HIDE DEF page, s
  <2> QED BY <1>5, <2>1, <2>2, <2>3
<1>8. CASE \E w \in Versions :
             get' = [get EXCEPT !.level = get.level + 1, !.page_version = w]
  <2>1. get'.reply = None
    BY <1>3, <1>8 DEF GetLocals
  <2>2. Reply' = Reply
    BY <1>3, <2>1 DEF Reply
  <2> QED BY <1>1, <1>2, <2>2, Unseen
<1>9. \/ (page # None => page.slots[s] = Absent) /\ get' = [get EXCEPT !.reply = NoValue]
      \/ /\ page # None /\ get.level = Len(Path[get.key]) /\ page.slots[s] \in Versions
         /\ get' = [get EXCEPT !.reply = written[get.key][page.slots[s]]]
      \/ \E w \in Versions :
           get' = [get EXCEPT !.level = get.level + 1, !.page_version = w]
  BY <1>1, DescendEffect
<1> QED
  BY <1>6, <1>7, <1>8, <1>9

LEMMA TakeIsMapTake ==
  ASSUME TrieInv, Take
  PROVE  Map!MapNext
<1>1. /\ get.reply # None /\ get' = NoGet /\ UNCHANGED <<vars, put_cache, written>>
  BY DEF Take
<1>2. get # NoGet /\ get'.reply = None
  BY <1>1 DEF NoGet
<1>3. get.key \in UserKey /\ get.version \in Versions /\ get.reply \in Value \cup {NoValue}
  BY <1>1, <1>2 DEF TrieInv, TrieTypes, TrieTypeOK
<1>4. UNCHANGED <<stored, hist, commit, current_version>>
  BY <1>1 DEF vars
<1>5. Snaps' = Snaps /\ LastCheckpoint' = LastCheckpoint
  BY <1>1, <1>4, SnapsKept DEF LastCheckpoint
<1>6. Reply # None /\ Reply' = None
  <2>1. [key |-> get.key, version |-> get.version, value |-> get.reply]
          \in [key : UserKey, version : Versions, value : Value \cup {NoValue}]
    BY <1>3
  <2> QED BY <1>1, <1>2, <2>1, AnswerAssumption DEF Reply
<1>7. Map!MapTake
  BY <1>1, <1>4, <1>5, <1>6 DEF Map!MapTake, Reply, Snaps
<1> QED
  BY <1>7 DEF Map!MapNext

(* The other steps, whether or not they end in a failed call, change        *)
(* nothing the map sees: a version under way is not readable yet.           *)
LEMMA OtherStepsUnseen ==
  ASSUME TrieInv,
         \/ CalcRootHash \/ PageSteps \/ GetPage
         \/ \E s \in Slot : TrieUpdatePage(s)
         \/ \E k \in UserKey, v \in ReadVersions : Get(k, v)
  PROVE  UNCHANGED Map!mapVars
<1>1. CASE CalcRootHash
  <2>1. /\ UNCHANGED <<stored, current_version, put_cache, written, get>>
        /\ commit.version = 0 /\ commit'.version = current_version
        /\ current_version \notin Committed /\ current_version # 0
        /\ \A p \in Pid : \A w \in Versions : w # current_version =>
             hist'[p][w] = hist[p][w]
    BY <1>1, BeginEffect
  <2>2. \A w \in Versions : w # current_version => (w \in Committed' <=> w \in Committed)
    BY <2>1 DEF Committed
  <2>3. Readable = Committed /\ Readable' = Committed' \ {current_version}
    BY <2>1 DEF Readable
  <2>4. \A w \in Committed \cup Committed' : w \in Versions
    BY DEF Committed
  <2>5. Readable' = Readable
    BY <2>1, <2>2, <2>3, <2>4
  <2>6. ASSUME NEW k \in UserKey, NEW w \in Readable PROVE WroteKey(k, w)' <=> WroteKey(k, w)
    <3>1. w \in Versions /\ w # current_version /\ ValueSlot(k)[1] \in Pid
      BY <2>1, <2>3, <2>4, ValueSlotFacts
    <3> QED BY <2>1, <3>1 DEF WroteKey
  <2>7. \A k \in UserKey : \A w \in Readable : written'[k][w] = written[k][w]
    BY <2>1
  <2>8. Snaps' = Snaps
    BY <2>5, <2>6, <2>7, SnapsSame
  <2>9. Reply' = Reply
    BY <2>1 DEF Reply
  <2> QED BY <2>1, <2>8, <2>9, Unseen
<1>2. ASSUME UNCHANGED <<stored, current_version, hist, put_cache, written>>,
             commit'.version = commit.version, Reply' = Reply
      PROVE  UNCHANGED Map!mapVars
  BY <1>2, SnapsKept, Unseen
<1>3. UNCHANGED get => Reply' = Reply
  BY DEF Reply
<1>4. commit \in CommitLocals
  BY DEF TrieInv, PagesInv, TypeInv, TypeOK
<1>5. CASE PageSteps
  <2>1. /\ UNCHANGED <<stored, current_version, hist, put_cache, written, get>>
        /\ commit'.version = commit.version
    BY <1>4, <1>5 DEF PageSteps, PickPage, OpenPage, ClosePage, WalkChain, FindBase,
       ApplyDelta, FinishLoad, CommitLocals
  <2> QED BY <1>2, <1>3, <2>1
<1>6. CASE GetPage
  BY <1>2, <1>3, <1>6 DEF GetPage, ReadPage
<1>7. ASSUME NEW s \in Slot, TrieUpdatePage(s) PROVE UNCHANGED Map!mapVars
  <2>1. /\ UNCHANGED <<stored, current_version, hist, put_cache, get>>
        /\ pc = "slots" /\ commit'.version = commit.version
        /\ written' = [k \in UserKey |->
             IF ValueSlot(k) = <<commit.pid, s>>
               THEN [written[k] EXCEPT ![commit.version] = put_cache[k]]
               ELSE written[k]]
    BY <1>4, <1>7 DEF TrieUpdatePage, UpdatePage, CommitLocals
  <2>2. Readable = {w \in Committed : w # commit.version}
    BY <2>1, ReadableIs DEF TrieInv, PagesInv, OrderInv
  <2>3. \A w \in Readable : w # commit.version /\ w \in Versions
    BY <2>2 DEF Committed
  <2>4. \A k \in UserKey : \A w \in Readable : written'[k][w] = written[k][w]
    <3>1. written \in [UserKey -> [Versions -> Value \cup {NoValue, None}]]
      BY DEF TrieInv, TrieTypes, TrieTypeOK
    <3> QED BY <2>1, <2>3, <3>1
  <2>5. Readable' = Readable
    BY <2>1 DEF Readable, Committed
  <2>6. \A k, w : WroteKey(k, w)' <=> WroteKey(k, w)
    BY <2>1 DEF WroteKey
  <2>7. Snaps' = Snaps
    BY <2>4, <2>5, <2>6, SnapsSame
  <2> QED BY <1>3, <2>1, <2>7, Unseen
<1>8. ASSUME NEW k \in UserKey, NEW v \in ReadVersions, Get(k, v)
      PROVE  UNCHANGED Map!mapVars
  <2>1. /\ get = NoGet
        /\ get' = [key |-> k, version |-> v, level |-> 1, page_version |-> v,
                   reply |-> None]
        /\ UNCHANGED <<stored, current_version, hist, put_cache, written, commit>>
    BY <1>8 DEF Get, Idle, vars
  <2>2. get.reply = None /\ get'.reply = None
    BY <2>1 DEF NoGet
  <2>3. Reply' = Reply
    BY <2>2 DEF Reply
  <2> QED BY <1>2, <2>1, <2>3
<1> QED
  BY <1>1, <1>5, <1>6, <1>7, <1>8

LEMMA NextIsMapNext ==
  TrieInv /\ [TrieNext]_trieVars => [Map!MapNext]_(Map!mapVars)
<1> SUFFICES ASSUME TrieInv, [TrieNext]_trieVars
             PROVE  Map!MapNext \/ UNCHANGED Map!mapVars
  OBVIOUS
<1>1. ASSUME NEW k \in UserKey, NEW v \in FirstVersion..MaxVersion,
             (\E val \in Value : Put(k, val, v)) \/ Delete(k, v)
      PROVE  Map!MapNext
  BY <1>1, PutIsMapWrite DEF Put, Delete
<1>2. CASE UNCHANGED trieVars
  <2>1. UNCHANGED <<stored, current_version, hist, put_cache, written, commit, get>>
    BY <1>2 DEF trieVars, vars
  <2> QED BY <2>1, SnapsKept, Unseen DEF Reply
<1> QED
  BY <1>1, <1>2, StoreIsMapCommit, DescendIsMapGet, TakeIsMapTake, OtherStepsUnseen
     DEF TrieNext, TrieStep

(* The trie is a versioned map: whatever was frozen, checkpointed, moved in *)
(* the cache or rebuilt, Get answers from the version asked for as the      *)
(* batches up to it left it, with the value log holding what they put, and  *)
(* only a read below the last checkpoint may answer anything else           *)
(* (DMMTrie::Put, Delete, CalcRootHash and Get).                            *)
THEOREM TrieImplementsMap == TrieSpec => ImplementsMap
<1>1. TrieInit => Map!MapInit
  BY InitIsMapInit
<1>2. TrieInv /\ [TrieNext]_trieVars => [Map!MapNext]_(Map!mapVars)
  BY NextIsMapNext
<1> QED
  BY <1>1, <1>2, InitTrie, NextTrie, PTL DEF TrieSpec, ImplementsMap, Map!MapSpec

=============================================================================
