------------------------- MODULE TrieCallers_proofs -------------------------
(* Proofs about the callers of the trie, which share what TrieInterface     *)
(* says of it: LetusStorage, for all sets of keys and values and every      *)
(* number of blocks; then Workloads, for all plans, and the programs of     *)
(* Benchmarks, for all options and whatever their generators give.          *)
EXTENDS LetusStorage, Workloads, FiniteSetTheorems, WellFoundedInduction, TLAPS

CONSTANTS Fill, Opening  \* as in Benchmarks

B == INSTANCE Benchmarks

(* A non-empty bounded set of naturals has a greatest element: what every   *)
(* CHOOSE of a last rests on.                                               *)
LEMMA Greatest ==
  ASSUME NEW N \in Nat, NEW S \in SUBSET (0..N), S # {}
  PROVE  \E m \in S : \A k \in S : k <= m
<1> DEFINE D == {N - x : x \in S}
           R == OpToRel(<, Nat)
<1>1. \A x \in S : N - x \in Nat
  OBVIOUS
<1>2. D \in SUBSET Nat /\ D # {}
  BY <1>1
<1>3. IsWellFoundedOn(R, Nat)
  BY NatLessThanWellFounded
<1>4. \A r : r \in R <=> r \in Nat \X Nat /\ r[1] < r[2]
  BY DEF OpToRel
<1> HIDE DEF R
<1>5. PICK d \in D : \A e \in D : ~ (<<e, d>> \in R)
  <2> HIDE DEF D
  <2> QED BY <1>2, <1>3, WFMin
<1>6. \A e \in D : ~ (e < d)
  BY <1>2, <1>4, <1>5
<1>7. PICK m \in S : d = N - m
  BY <1>5
<1>8. \A k \in S : ~ (N - k < N - m)
  BY <1>6, <1>7
<1>9. \A k \in S : k \in 0..N
  OBVIOUS
<1> QED BY <1>8, <1>9

Maps == [UserKey -> Value \cup {NoValue}]

(* A block that was gathered or hashed has a version of its own. *)
Types ==
  /\ StorageTypeOK
  /\ got = None \/ (got.key \in UserKey /\ got.version \in Versions)
  /\ snapshots[0] = None
  /\ step = "hashed" => current_seq_no \in Versions /\ reverted # "clean"

(* Nothing was reverted: the trie holds the blocks before the running one,  *)
(* its batch the puts of that one, under its version.                       *)
Gathers ==
  /\ current_seq_no = stable_seq_no + 1
  /\ current_version <= current_seq_no
  /\ \A v \in Committed : v <= stable_seq_no
  /\ horizon <= stable_seq_no
  /\ put_cache # EmptyPutCache => current_version = current_seq_no
  /\ Newest = ledger
  /\ pending = Over(ledger, put_cache)
  /\ stable_seq_no \in Committed => snapshots[stable_seq_no] = ledger

(* ... and between Hash and Write it holds that one too. *)
Hashed ==
  /\ current_seq_no = stable_seq_no + 1
  /\ current_version <= current_seq_no
  /\ \A v \in Committed : v <= current_seq_no
  /\ horizon <= current_seq_no
  /\ put_cache = EmptyPutCache
  /\ Newest = pending
  /\ current_seq_no \in Committed => snapshots[current_seq_no] = pending

(* Right after a revert the storage stands where it was reverted to. *)
Clean ==
  /\ stable_seq_no \in Committed
  /\ ledger = snapshots[stable_seq_no]

Blocks ==
  /\ reverted = "no" /\ step = "gather" => Gathers
  /\ reverted = "no" /\ step = "hashed" => Hashed
  /\ reverted = "clean" => Clean

Inv == Types /\ Blocks /\ ReadsLastBlock

-----------------------------------------------------------------------------
(* The greatest committed version is the one Newest chooses. *)
LEMMA Chosen ==
  ASSUME NEW C \in SUBSET Nat, NEW v \in C, \A w \in C : w <= v
  PROVE  (CHOOSE u \in C : \A w \in C : w <= u) = v
<1> DEFINE m == CHOOSE u \in C : \A w \in C : w <= u
<1>1. m \in C /\ \A w \in C : w <= m
  OBVIOUS
<1>2. m = v
  <2> HIDE DEF m
  <2>1. m \in Nat /\ m <= v /\ v <= m
    BY <1>1
  <2> QED
    BY <2>1
<1> QED
  BY <1>2

LEMMA NewestIsMap ==
  ASSUME StorageTypeOK
  PROVE  Newest \in Maps
<1>1. CASE Committed = {}
  BY <1>1 DEF Newest, EmptyMap, Maps
<1>2. CASE Committed # {}
  <2>1. Committed \in SUBSET (0..MaxVersion) /\ MaxVersion \in Nat
    BY TrieAssumption DEF Committed, Versions
  <2>2. PICK m \in Committed : \A k \in Committed : k <= m
    BY <1>2, <2>1, Greatest
  <2>3. Newest = snapshots[m]
    <3>1. Committed \in SUBSET Nat
      BY <2>1
    <3>2. (CHOOSE u \in Committed : \A w \in Committed : w <= u) = m
      BY <2>2, <3>1, Chosen
    <3> QED
      BY <1>2, <3>2 DEF Newest
  <2>4. snapshots[m] \in Maps
    BY <2>2 DEF Committed, StorageTypeOK, Maps
  <2> QED
    BY <2>3, <2>4
<1> QED
  BY <1>1, <1>2

LEMMA OverIsMap ==
  ASSUME NEW map \in Maps, NEW puts \in [UserKey -> Value \cup {NoValue, None}]
  PROVE  Over(map, puts) \in Maps
BY DEF Over, Maps

(* Nothing put changes nothing. *)
LEMMA OverNothing ==
  ASSUME NEW map \in Maps
  PROVE  Over(map, EmptyPutCache) = map
<1>1. \A k \in UserKey : EmptyPutCache[k] = None
  BY DEF EmptyPutCache
<1> QED
  BY <1>1 DEF Over, Maps

LEMMA AnswerIsValue ==
  ASSUME StorageTypeOK, NEW v \in Versions, NEW k \in UserKey, NEW x \in TrieGet(v, k)
  PROVE  x \in Value \cup {NoValue}
<1>1. CASE v < horizon
  BY <1>1 DEF TrieGet
<1>2. CASE ~(v < horizon) /\ snapshots[v] = None
  BY <1>2 DEF TrieGet
<1>3. CASE ~(v < horizon) /\ snapshots[v] # None
  <2>1. snapshots[v] \in Maps
    BY <1>3 DEF StorageTypeOK, Maps
  <2>2. snapshots[v][k] \in Value \cup {NoValue}
    BY <2>1 DEF Maps
  <2> QED
    BY <1>3, <2>2 DEF TrieGet
<1> QED
  BY <1>1, <1>2, <1>3

(* A version committed after all others is the newest one. *)
LEMMA NewestCommitted ==
  ASSUME NEW v \in Versions, NEW s,
         \A w \in Versions : s[w] # None => w <= v,
         s[v] # None
  PROVE  (CHOOSE u \in {w \in Versions : s[w] # None} :
            \A w \in {x \in Versions : s[x] # None} : w <= u) = v
<1> DEFINE C == {w \in Versions : s[w] # None}
<1>1. C \in SUBSET Nat /\ v \in C /\ \A w \in C : w <= v
  BY TrieAssumption DEF Versions
<1> QED
  BY <1>1, Chosen

-----------------------------------------------------------------------------
(* The steps, one lemma for each that moves the trie or the numbers. *)

LEMMA InitHolds == StorageInit => Inv
<1> SUFFICES ASSUME StorageInit PROVE Inv
  OBVIOUS
<1> USE DEF StorageInit, TrieInit
<1>1. 0 \in Versions /\ 1 \in 1..(MaxVersion + 1) /\ 0 \in 0..(MaxVersion + 1)
  BY TrieAssumption DEF Versions
<1>2. EmptyMap \in Maps
  BY DEF EmptyMap, Maps
<1>3. EmptyPutCache \in [UserKey -> Value \cup {NoValue, None}]
  BY DEF EmptyPutCache
<1>4. StorageTypeOK
  BY <1>1, <1>2, <1>3 DEF StorageTypeOK, Maps
<1>5. Types
  BY <1>1, <1>4 DEF Types
<1>6. Committed = {}
  BY DEF Committed
<1>7. Gathers
  <2>1. pending = Over(ledger, put_cache)
    BY <1>2, OverNothing
  <2>2. Newest = ledger
    BY <1>6 DEF Newest
  <2>3. 0 <= 0 /\ 0 <= 1 /\ 1 = 0 + 1
    OBVIOUS
  <2> QED
    BY <1>6, <2>1, <2>2, <2>3 DEF Gathers
<1>8. Blocks
  BY <1>7 DEF Blocks
<1> QED
  BY <1>5, <1>8 DEF Inv, ReadsLastBlock

(* A put or delete of the running block, x what is put. *)
LEMMA InBatchSteps ==
  ASSUME Inv, NEW k \in UserKey, NEW x \in Value \cup {NoValue}, InBatch(k, x),
         \/ current_seq_no < current_version /\ UNCHANGED trie
         \/ /\ ~(current_seq_no < current_version)
            /\ current_version' = current_seq_no
            /\ put_cache' = [put_cache EXCEPT ![k] = x]
            /\ UNCHANGED <<snapshots, horizon>>
  PROVE  Inv'
<1> USE DEF Inv
<1>1. /\ got = None /\ got' = None /\ step = "gather" /\ step' = "gather"
      /\ current_seq_no \in Versions
      /\ UNCHANGED <<stable_seq_no, current_seq_no, ledger>>
      /\ len' = 1 /\ pending' = [pending EXCEPT ![k] = x]
      /\ reverted' = Onward
  BY DEF InBatch, Gathering, Idle, numbers
<1>2. UNCHANGED <<snapshots, horizon>>
  BY DEF trie
<1>3. /\ current_version' \in Versions
      /\ put_cache' \in [UserKey -> Value \cup {NoValue, None}]
      /\ pending' \in Maps
  BY <1>1 DEF trie, Types, StorageTypeOK, Maps
<1>4. reverted' \in {"no", "dirty"} /\ (reverted' = "no" => reverted = "no")
  BY <1>1 DEF Onward
<1>5. Types'
  BY <1>1, <1>2, <1>3, <1>4 DEF Types, StorageTypeOK, Maps
<1>6. ASSUME reverted = "no" PROVE Gathers'
  <2>1. Gathers
    BY <1>1, <1>6 DEF Blocks
  <2>2. ~(current_seq_no < current_version)
    BY <2>1, <1>1 DEF Gathers, Types, StorageTypeOK, Versions
  <2>3. current_version' = current_seq_no /\ put_cache' = [put_cache EXCEPT ![k] = x]
    BY <2>2
  <2>4. ledger \in Maps /\ put_cache \in [UserKey -> Value \cup {NoValue, None}]
    BY DEF Types, StorageTypeOK, Maps
  <2>5. pending' = Over(ledger, put_cache')
    <3>1. Over(ledger, [put_cache EXCEPT ![k] = x]) = [Over(ledger, put_cache) EXCEPT ![k] = x]
      <4>1. x # None
        BY TrieAssumption
      <4> QED
        BY <4>1, <2>4 DEF Over, Maps
    <3>2. pending = Over(ledger, put_cache)
      BY <2>1 DEF Gathers
    <3>3. pending' = [Over(ledger, put_cache) EXCEPT ![k] = x]
      BY <3>2, <1>1
    <3>4. Over(ledger, put_cache') = Over(ledger, [put_cache EXCEPT ![k] = x])
      BY <2>3
    <3> QED
      BY <3>1, <3>3, <3>4
  <2>6. Newest' = Newest /\ Committed' = Committed
    BY <1>2 DEF Newest, Committed
  <2>7. current_version' <= current_seq_no'
    BY <2>3, <1>1 DEF Versions
  <2>8. pending' = Over(ledger', put_cache')
    BY <2>5, <1>1
  <2> QED
    BY <2>1, <2>3, <2>6, <2>7, <2>8, <1>1, <1>2 DEF Gathers
<1>7. Blocks'
  BY <1>1, <1>4, <1>6 DEF Blocks
<1> QED
  BY <1>1, <1>5, <1>7 DEF ReadsLastBlock

LEMMA PutSteps ==
  ASSUME Inv, NEW k \in UserKey, NEW x \in Value, Put(k, x)
  PROVE  Inv'
<1>1. x # NoValue
  BY TrieAssumption
<1> QED
  BY <1>1, InBatchSteps DEF Put, TriePut, Refuses

LEMMA DeleteSteps ==
  ASSUME Inv, NEW k \in UserKey, Delete(k)
  PROVE  Inv'
BY InBatchSteps DEF Delete, TrieDelete, Refuses

(* A hash commits the running block, if anything was put. *)
LEMMA HashCommits ==
  ASSUME Inv, Hash
  PROVE  /\ got = None /\ step = "gather" /\ step' = "hashed" /\ got' = None
         /\ current_seq_no \in Versions /\ current_seq_no # 0
         /\ UNCHANGED <<numbers, len, iter, ledger, pending, current_version>>
         /\ reverted' = Onward
         /\ \/ put_cache = EmptyPutCache /\ UNCHANGED <<put_cache, snapshots, horizon>>
            \/ /\ put_cache # EmptyPutCache
               /\ snapshots' = [snapshots EXCEPT ![current_seq_no] = Over(Newest, put_cache)]
               /\ put_cache' = EmptyPutCache
               /\ horizon' \in {horizon, current_seq_no, MaxVersion + 1}
               /\ Promised(current_seq_no) => horizon' \in {horizon, current_seq_no}
<1>1. current_seq_no \in 1..(MaxVersion + 1) /\ MaxVersion \in Nat
  BY TrieAssumption DEF Inv, Types, StorageTypeOK
<1>2. HashVersion(GetSeqNo) = current_seq_no /\ current_seq_no # 0
  BY <1>1 DEF HashVersion, GetSeqNo
<1> QED
  BY <1>2 DEF Hash, TrieCommit, Gathering, Idle, trie, numbers

LEMMA HashSteps ==
  ASSUME Inv, Hash
  PROVE  Inv'
<1> DEFINE c == current_seq_no
<1>1. /\ got' = None /\ step = "gather" /\ step' = "hashed"
      /\ c \in Versions /\ c # 0
      /\ UNCHANGED <<numbers, len, iter, ledger, pending, current_version>>
      /\ reverted' \in {"no", "dirty"}
      /\ reverted' = "no" => reverted = "no"
  BY HashCommits DEF Onward
<1>2. /\ Newest \in Maps /\ Over(Newest, put_cache) \in Maps
      /\ put_cache \in [UserKey -> Value \cup {NoValue, None}]
      /\ EmptyPutCache \in [UserKey -> Value \cup {NoValue, None}]
      /\ snapshots \in [Versions -> Maps \cup {None}]
      /\ None \notin Maps
  BY NewestIsMap, OverIsMap, TrieAssumption
     DEF Inv, Types, StorageTypeOK, EmptyPutCache, Maps
<1>3. /\ put_cache' = EmptyPutCache
      /\ snapshots' \in [Versions -> Maps \cup {None}]
      /\ snapshots'[0] = None
      /\ horizon' \in 0..(MaxVersion + 1)
  <2>1. CASE put_cache = EmptyPutCache /\ UNCHANGED <<put_cache, snapshots, horizon>>
    BY <2>1, <1>2 DEF Inv, Types, StorageTypeOK
  <2>2. CASE put_cache # EmptyPutCache
    <3>1. /\ snapshots' = [snapshots EXCEPT ![c] = Over(Newest, put_cache)]
          /\ put_cache' = EmptyPutCache
          /\ horizon' \in {horizon, c, MaxVersion + 1}
      BY <2>2, HashCommits
    <3>2. horizon \in 0..(MaxVersion + 1) /\ MaxVersion \in Nat /\ c \in 0..MaxVersion
      BY <1>1, TrieAssumption DEF Inv, Types, StorageTypeOK, Versions
    <3>3. horizon' \in 0..(MaxVersion + 1)
      BY <3>1, <3>2
    <3>4. snapshots[0] = None
      BY DEF Inv, Types
    <3> QED
      BY <3>1, <3>3, <3>4, <1>1, <1>2
  <2> QED
    BY <2>1, <2>2, HashCommits
<1>4. Types'
  BY <1>1, <1>2, <1>3 DEF Inv, Types, StorageTypeOK, numbers, Maps
<1>5. ASSUME reverted = "no" PROVE Hashed'
  <2>1. Gathers
    BY <1>1, <1>5 DEF Inv, Blocks
  <2>2. /\ stable_seq_no \in Nat /\ current_version \in Nat /\ horizon \in Nat
        /\ c = stable_seq_no + 1 /\ c \in Nat
    BY <2>1, TrieAssumption DEF Gathers, Inv, Types, StorageTypeOK, Versions
  <2>3. \A v \in Versions : snapshots[v] # None => v <= stable_seq_no
    BY <2>1 DEF Gathers, Committed
  <2>4. \A v \in Versions : snapshots[v] # None => v <= c /\ v # c
    BY <2>2, <2>3 DEF Versions
  <2>5. CASE put_cache = EmptyPutCache /\ UNCHANGED <<put_cache, snapshots, horizon>>
    <3>1. pending = Over(ledger, EmptyPutCache) /\ Newest = ledger
      BY <2>1, <2>5 DEF Gathers
    <3>2. pending = Newest
      BY <3>1, <1>2, OverNothing
    <3>3. Newest' = Newest /\ Committed' = Committed
      BY <2>5 DEF Newest, Committed
    <3>4. c \notin Committed
      BY <2>4 DEF Committed
    <3>5. horizon <= c
      BY <2>1, <2>2 DEF Gathers
    <3>6. \A v \in Committed : v <= c
      BY <2>4 DEF Committed
    <3> QED
      BY <2>1, <2>5, <3>2, <3>3, <3>4, <3>5, <3>6, <1>1 DEF Gathers, Hashed, numbers
  <2>6. CASE put_cache # EmptyPutCache
    <3>1. c = current_version
      BY <2>1, <2>6 DEF Gathers
    <3>2. Promised(c)
      BY <3>1, <2>4, <1>1 DEF Promised, Committed
    <3>3. /\ snapshots' = [snapshots EXCEPT ![c] = Over(Newest, put_cache)]
          /\ horizon' \in {horizon, c}
      BY <2>6, <3>2, HashCommits
    <3>4. horizon' <= c
      BY <3>3, <2>1, <2>2 DEF Gathers
    <3>5. pending = Over(Newest, put_cache)
      BY <2>1 DEF Gathers
    <3>6. snapshots'[c] = pending /\ snapshots'[c] # None
      BY <3>3, <3>5, <1>1, <1>2
    <3>7. \A v \in Versions : snapshots'[v] # None => v <= c
      BY <3>3, <2>4, <2>2, <1>2
    <3>8. Newest' = snapshots'[c]
      BY <3>6, <3>7, <1>1, NewestCommitted DEF Newest, Committed
    <3>9. \A v \in Committed' : v <= c
      BY <3>7 DEF Committed
    <3>10. UNCHANGED <<stable_seq_no, current_seq_no, pending, current_version>>
      BY <1>1 DEF numbers
    <3>11. Newest' = pending'
      BY <3>6, <3>8, <3>10
    <3> QED
      BY <2>1, <3>1, <3>4, <3>6, <3>9, <3>10, <3>11, <1>3 DEF Gathers, Hashed
  <2> QED
    BY <2>5, <2>6, HashCommits
<1>6. Blocks'
  BY <1>1, <1>5 DEF Blocks
<1> QED
  BY <1>1, <1>4, <1>6 DEF Inv, ReadsLastBlock

LEMMA WriteSteps ==
  ASSUME Inv, Write
  PROVE  Inv'
<1>1. current_seq_no \in Versions /\ current_seq_no \in Nat /\ MaxVersion \in Nat
  BY TrieAssumption DEF Write, Inv, Types, Versions
<1>2. HashVersion(GetSeqNo) = current_seq_no
  BY <1>1 DEF HashVersion, GetSeqNo
<1>3. /\ got = None /\ got' = None /\ step = "hashed" /\ step' = "gather" /\ len' = 0
      /\ stable_seq_no' = current_seq_no /\ current_seq_no' = current_seq_no + 1
      /\ ledger' = pending
      /\ UNCHANGED <<current_version, put_cache, snapshots, horizon, iter, reverted, pending>>
  BY <1>2 DEF Write, MoveTo, Idle, trie
<1>4. current_seq_no' \in 1..(MaxVersion + 1)
  BY <1>1, <1>3 DEF Versions
<1>5. Types'
  BY <1>1, <1>3, <1>4 DEF Inv, Types, StorageTypeOK
<1>6. ASSUME reverted = "no" PROVE Gathers'
  <2>1. Hashed
    BY <1>3, <1>6 DEF Inv, Blocks
  <2>2. Newest' = Newest /\ Committed' = Committed
    BY <1>3 DEF Newest, Committed
  <2>3. current_version <= current_seq_no + 1
    BY <2>1, <1>1 DEF Hashed, Inv, Types, StorageTypeOK, Versions
  <2>4. pending \in Maps
    BY DEF Inv, Types, StorageTypeOK, Maps
  <2>5. pending = Over(pending, put_cache)
    BY <2>1, <2>4, OverNothing DEF Hashed
  <2>6. pending' = Over(ledger', put_cache')
    BY <2>5, <1>3
  <2> QED
    BY <2>1, <2>2, <2>3, <2>6, <1>3 DEF Hashed, Gathers
<1>7. reverted # "clean"
  BY <1>3 DEF Inv, Types
<1>8. Blocks'
  BY <1>3, <1>6, <1>7 DEF Blocks
<1> QED
  BY <1>3, <1>5, <1>8 DEF Inv, ReadsLastBlock

LEMMA GetSteps ==
  ASSUME Inv, NEW k \in UserKey, Get(k)
  PROVE  Inv'
<1>1. ReadVersion \in Versions
  BY TrieAssumption DEF ReadVersion, Inv, Types, StorageTypeOK, Versions
<1>2. PICK x \in TrieGet(ReadVersion, k) :
        got' = [key |-> k, version |-> ReadVersion, value |-> x]
  BY DEF Get
<1>3. UNCHANGED <<stable_seq_no, current_seq_no, len, current_version, put_cache,
                  snapshots, horizon, iter, step, reverted, ledger, pending>>
  BY DEF Get, numbers, trie, history
<1>4. Types'
  BY <1>1, <1>2, <1>3 DEF Inv, Types, StorageTypeOK
<1>5. Blocks'
  BY <1>3 DEF Inv, Blocks, Gathers, Hashed, Clean, Newest, Committed
<1>6. ASSUME step = "gather", reverted # "dirty", stable_seq_no \in Committed,
             reverted = "no" \/ stable_seq_no >= horizon
      PROVE  x = ledger[k]
  <2>1. stable_seq_no # 0 /\ snapshots[stable_seq_no] # None
    BY <1>6 DEF Inv, Types, Committed
  <2>2. ReadVersion = stable_seq_no
    BY <2>1 DEF ReadVersion
  <2>3. ledger = snapshots[stable_seq_no]
    <3>1. reverted \in {"no", "clean"}
      BY <1>6 DEF Inv, Types, StorageTypeOK
    <3> QED
      BY <3>1, <1>6 DEF Inv, Blocks, Gathers, Clean
  <2>4. ~(stable_seq_no < horizon)
    <3>1. stable_seq_no \in Nat /\ horizon \in Nat
      BY TrieAssumption DEF Inv, Types, StorageTypeOK, Versions
    <3>2. horizon <= stable_seq_no
      BY <3>1, <1>6 DEF Inv, Blocks, Gathers
    <3> QED
      BY <3>1, <3>2
  <2> QED
    BY <1>2, <2>1, <2>2, <2>3, <2>4 DEF TrieGet
<1>7. ReadsLastBlock'
  <2>1. got'.value = x /\ got'.key = k
    BY <1>2
  <2>2. Committed' = Committed
    BY <1>3 DEF Committed
  <2> QED
    BY <1>3, <1>6, <2>1, <2>2 DEF ReadsLastBlock
<1> QED
  BY <1>4, <1>5, <1>7 DEF Inv

LEMMA RevertSteps ==
  ASSUME Inv, NEW seq \in 0..(MaxVersion - 1), Revert(seq)
  PROVE  Inv'
<1>1. /\ got = None /\ got' = None /\ step = "gather" /\ step' = "gather"
      /\ seq + 1 \in Committed
      /\ stable_seq_no' = seq + 1 /\ current_seq_no' = (seq + 1) + 1
      /\ reverted' \in {"clean", "dirty"}
      /\ ledger' = snapshots[seq + 1] /\ pending' = snapshots[seq + 1]
      /\ UNCHANGED <<len, current_version, put_cache, snapshots, horizon, iter>>
  BY DEF Revert, MoveTo, Idle, trie
<1>2. seq + 1 \in Versions /\ snapshots[seq + 1] \in Maps
  BY <1>1 DEF Committed, Inv, Types, StorageTypeOK, Maps
<1>3. (seq + 1) + 1 \in 1..(MaxVersion + 1)
  BY TrieAssumption, <1>2 DEF Versions
<1>4. Types'
  BY <1>1, <1>2, <1>3 DEF Inv, Types, StorageTypeOK, Maps
<1>5. Blocks'
  BY <1>1 DEF Blocks, Clean, Committed
<1> QED
  BY <1>1, <1>4, <1>5 DEF Inv, ReadsLastBlock

(* The other steps move neither the trie nor the numbers. *)
LEMMA OtherSteps ==
  ASSUME Inv, UNCHANGED <<numbers, len, trie, step, history>>,
         got' = got \/ got' = None
  PROVE  Inv'
<1>1. UNCHANGED <<stable_seq_no, current_seq_no, len, current_version, put_cache,
                  snapshots, horizon, step, reverted, ledger, pending>>
  BY DEF numbers, trie, history
<1>2. Types'
  BY <1>1 DEF Inv, Types, StorageTypeOK
<1>3. Blocks'
  BY <1>1 DEF Inv, Blocks, Gathers, Hashed, Clean, Newest, Committed
<1>4. ReadsLastBlock'
  BY <1>1 DEF Inv, ReadsLastBlock, Committed
<1> QED
  BY <1>2, <1>3, <1>4 DEF Inv

LEMMA StepsHold == Inv /\ [StorageNext]_storageVars => Inv'
<1> SUFFICES ASSUME Inv, [StorageNext]_storageVars PROVE Inv'
  OBVIOUS
<1>1. ASSUME NEW k \in UserKey, NEW x \in Value, Put(k, x) PROVE Inv'
  BY <1>1, PutSteps
<1>2. ASSUME NEW k \in UserKey, Delete(k) PROVE Inv'
  BY <1>2, DeleteSteps
<1>3. ASSUME NEW k \in UserKey, Get(k) PROVE Inv'
  BY <1>3, GetSteps
<1>4. ASSUME NEW k \in UserKey, Seek(k) PROVE Inv'
  BY <1>4, OtherSteps DEF Seek
<1>5. ASSUME NEW k \in UserKey, NEW end \in UserKey, NewIterator(k, end) PROVE Inv'
  BY <1>5, OtherSteps DEF NewIterator
<1>6. CASE Hash
  BY <1>6, HashSteps
<1>7. CASE Write
  BY <1>7, WriteSteps
<1>8. ASSUME NEW seq \in 0..(MaxVersion - 1), Revert(seq) PROVE Inv'
  BY <1>8, RevertSteps
<1>9. CASE Take
  BY <1>9, OtherSteps DEF Take
<1>10. CASE Next
  BY <1>10, OtherSteps DEF Next
<1>11. CASE IteratorValue
  BY <1>11, GetSteps DEF IteratorValue
<1>12. CASE Release
  BY <1>12, OtherSteps DEF Release
<1>13. CASE UNCHANGED storageVars
  BY <1>13, OtherSteps DEF storageVars
<1> QED
  BY <1>1, <1>2, <1>3, <1>4, <1>5, <1>6, <1>7, <1>8, <1>9, <1>10, <1>11, <1>12,
     <1>13 DEF StorageNext

-----------------------------------------------------------------------------
(* The theorems about reads and puts. *)

LEMMA InvHolds == StorageSpec => []Inv
<1> QED
  BY InitHolds, StepsHold, PTL DEF StorageSpec

(* The numbers, the batch and the trie under them keep their shape; no      *)
(* number runs ahead of the blocks.                                         *)
THEOREM TypeCorrect == StorageSpec => []StorageTypeOK
<1>1. Inv => StorageTypeOK
  BY DEF Inv, Types
<1> QED
  BY <1>1, InvHolds, PTL

(* A Get answers from the last block written, for all keys and values and   *)
(* any number of blocks, empty ones among them.                             *)
THEOREM ReadsComeFromLastBlock == StorageSpec => []ReadsLastBlock
<1>1. Inv => ReadsLastBlock
  BY DEF Inv
<1> QED
  BY <1>1, InvHolds, PTL

(* No put of a caller that never reverts is lost. *)
THEOREM PutsAreKept == StorageSpec => []PutsKept
<1>1. Inv => PutsKept
  <2> SUFFICES ASSUME Inv, reverted = "no"
               PROVE  /\ pending = Over(IF step = "gather" THEN ledger ELSE Newest, put_cache)
                      /\ current_version <= current_seq_no
    BY DEF PutsKept
  <2>1. CASE step = "gather"
    BY <2>1 DEF Inv, Blocks, Gathers
  <2>2. CASE step = "hashed"
    <3>1. Hashed
      BY <2>2 DEF Inv, Blocks
    <3>2. Newest \in Maps
      BY NewestIsMap DEF Inv, Types
    <3>3. Over(Newest, EmptyPutCache) = Newest
      BY <3>2, OverNothing
    <3>4. pending = Over(Newest, put_cache)
      BY <3>1, <3>3 DEF Hashed
    <3> QED
      BY <2>2, <3>1, <3>4 DEF Hashed
  <2> QED
    BY <2>1, <2>2 DEF Inv, Types, StorageTypeOK
<1> QED
  BY <1>1, InvHolds, PTL

-----------------------------------------------------------------------------
(* The calls that reach the trie. *)

LEMMA PutIsPromised ==
  ASSUME Inv, NEW k \in UserKey, NEW x \in Value \cup {NoValue}, InBatch(k, x),
         reverted' # "dirty",
         \/ current_seq_no < current_version /\ UNCHANGED trie
         \/ /\ ~(current_seq_no < current_version)
            /\ current_version' = current_seq_no
            /\ put_cache' = [put_cache EXCEPT ![k] = x]
            /\ UNCHANGED <<snapshots, horizon>>
  PROVE  Map!MapWrite(k, x, current_seq_no) /\ current_seq_no \in Versions
<1>1. /\ got = None /\ got' = None /\ step = "gather" /\ current_seq_no \in Versions
      /\ reverted' = Onward
  BY DEF InBatch, Gathering, Idle
<1>2. Gathers
  BY <1>1 DEF Onward, Inv, Blocks
<1>3. current_version \in Nat /\ current_seq_no \in Nat /\ 1 <= current_seq_no
      /\ current_seq_no = stable_seq_no + 1 /\ stable_seq_no \in Nat
  BY <1>2, TrieAssumption DEF Gathers, Inv, Types, StorageTypeOK, Versions
<1>4. ~(current_seq_no < current_version) /\ current_seq_no >= current_version
      /\ current_seq_no >= 1
  BY <1>2, <1>3 DEF Gathers
<1>5. snapshots[current_seq_no] = None
  BY <1>1, <1>2, <1>3 DEF Gathers, Committed
<1> QED
  BY <1>1, <1>4, <1>5 DEF Map!MapWrite

LEMMA HashIsPromised ==
  ASSUME Inv, Hash, reverted' # "dirty"
  PROVE  Map!MapCommit \/ UNCHANGED Map!mapVars
<1>1. /\ got = None /\ got' = None /\ step = "gather" /\ current_seq_no \in Versions
      /\ current_seq_no # 0 /\ reverted' = Onward /\ current_version' = current_version
  BY HashCommits
<1>2. Gathers
  BY <1>1 DEF Onward, Inv, Blocks
<1>3. CASE put_cache = EmptyPutCache /\ UNCHANGED <<put_cache, snapshots, horizon>>
  BY <1>1, <1>3 DEF Map!mapVars
<1>4. CASE put_cache # EmptyPutCache
  <2>1. current_version = current_seq_no
    BY <1>2, <1>4 DEF Gathers
  <2>2. current_seq_no \notin Committed
    BY <1>2, TrieAssumption DEF Gathers, Inv, Types, StorageTypeOK, Versions
  <2>3. Promised(current_seq_no)
    BY <1>1, <2>1, <2>2 DEF Promised
  <2>4. /\ snapshots' = [snapshots EXCEPT ![current_version] = Over(Newest, put_cache)]
        /\ put_cache' = EmptyPutCache
        /\ horizon' \in {horizon, current_version}
    BY <1>4, <2>1, <2>3, HashCommits
  <2>5. Over(Newest, put_cache) =
          [k \in UserKey |-> IF put_cache[k] # None THEN put_cache[k] ELSE Map!Newest[k]]
    BY DEF Over, Newest, Map!Newest, Committed, Map!CommittedVersions, EmptyMap, Map!EmptyMap
  <2> QED
    BY <1>1, <1>4, <2>4, <2>5 DEF Map!MapCommit, EmptyPutCache, Map!EmptyBatch
<1> QED
  BY <1>3, <1>4, HashCommits

LEMMA GetIsPromised ==
  ASSUME Inv, NEW k \in UserKey, Get(k)
  PROVE  \E v \in Versions, x \in Value \cup {NoValue} : Map!MapGet(k, v, x)
<1>1. ReadVersion \in Versions
  BY TrieAssumption DEF ReadVersion, Inv, Types, StorageTypeOK, Versions
<1>2. PICK x \in TrieGet(ReadVersion, k) :
        got' = [key |-> k, version |-> ReadVersion, value |-> x]
  BY DEF Get
<1>3. x \in Value \cup {NoValue}
  BY <1>1, AnswerIsValue DEF Inv, Types
<1>4. ReadVersion >= horizon => x = Map!At(k, ReadVersion)
  <2>1. ReadVersion \in Nat /\ horizon \in Nat
    BY <1>1, TrieAssumption DEF Inv, Types, StorageTypeOK, Versions
  <2>2. ReadVersion >= horizon => ~(ReadVersion < horizon)
    BY <2>1
  <2> QED
    BY <1>2, <2>2 DEF TrieGet, Map!At
<1>5. got = None /\ UNCHANGED <<snapshots, current_version, put_cache, horizon>>
  BY DEF Get, Idle, trie
<1>6. Map!MapGet(k, ReadVersion, x)
  BY <1>2, <1>4, <1>5 DEF Map!MapGet
<1> QED
  BY <1>1, <1>3, <1>6

(* Until something is put after a revert, every step of the storage is a    *)
(* step of the versioned map: its calls are those DMMTrie is shown to       *)
(* answer.                                                                  *)
THEOREM CallsArePromised == StorageSpec => CallsAsPromised
<1>1. Inv /\ [StorageNext]_storageVars
        => [Map!MapNext \/ reverted' = "dirty"]_(Map!mapVars)
  <2> SUFFICES ASSUME Inv, [StorageNext]_storageVars, reverted' # "dirty"
               PROVE  Map!MapNext \/ UNCHANGED Map!mapVars
    OBVIOUS
  <2>1. ASSUME NEW k \in UserKey, NEW x \in Value, Put(k, x) PROVE Map!MapNext
    <3>1. x # NoValue /\ x \in Value \cup {NoValue}
      BY TrieAssumption
    <3>2. Map!MapWrite(k, x, current_seq_no) /\ current_seq_no \in Versions
      BY <2>1, <3>1, PutIsPromised DEF Put, TriePut, Refuses
    <3> QED
      BY <3>1, <3>2 DEF Map!MapNext
  <2>2. ASSUME NEW k \in UserKey, Delete(k) PROVE Map!MapNext
    <3>1. Map!MapWrite(k, NoValue, current_seq_no) /\ current_seq_no \in Versions
      BY <2>2, PutIsPromised DEF Delete, TrieDelete, Refuses
    <3> QED
      BY <3>1 DEF Map!MapNext
  <2>3. ASSUME NEW k \in UserKey, Get(k) PROVE Map!MapNext
    BY <2>3, GetIsPromised DEF Map!MapNext
  <2>4. CASE IteratorValue
    BY <2>3, <2>4 DEF IteratorValue
  <2>5. CASE Hash
    BY <2>5, HashIsPromised DEF Map!MapNext
  <2>6. CASE Take
    <3>1. Map!MapTake
      BY <2>6 DEF Take, Map!MapTake, trie
    <3> QED
      BY <3>1 DEF Map!MapNext
  <2>7. ASSUME UNCHANGED <<trie, got>> PROVE UNCHANGED Map!mapVars
    BY <2>7 DEF trie, Map!mapVars
  <2>8. CASE Write
    BY <2>7, <2>8 DEF Write
  <2>9. ASSUME NEW seq \in 0..(MaxVersion - 1), Revert(seq) PROVE UNCHANGED Map!mapVars
    BY <2>7, <2>9 DEF Revert
  <2>10. ASSUME NEW k \in UserKey, Seek(k) PROVE UNCHANGED Map!mapVars
    BY <2>7, <2>10 DEF Seek
  <2>11. ASSUME NEW k \in UserKey, NEW end \in UserKey, NewIterator(k, end)
         PROVE  UNCHANGED Map!mapVars
    BY <2>7, <2>11 DEF NewIterator
  <2>12. CASE Next
    BY <2>7, <2>12 DEF Next
  <2>13. CASE Release
    BY <2>7, <2>13 DEF Release
  <2>14. CASE UNCHANGED storageVars
    BY <2>7, <2>14 DEF storageVars
  <2> QED
    BY <2>1, <2>2, <2>3, <2>4, <2>5, <2>6, <2>8, <2>9, <2>10, <2>11, <2>12, <2>13,
       <2>14 DEF StorageNext
<1> QED
  BY <1>1, InvHolds, PTL DEF StorageSpec, CallsAsPromised

-----------------------------------------------------------------------------
(* Iterators. *)

(* A scan that never sought stands where what it delivered ends. *)
Scans ==
  /\ iter \in [current : Int, begin : Int, end : Int, seen : (SUBSET Int) \cup {None},
               answer : BOOLEAN]
  /\ iter.seen # None =>
       /\ iter.seen = (iter.begin + 1)..iter.current
       /\ iter.begin <= iter.current
       /\ iter.answer = FALSE => iter.end <= iter.current
       /\ iter.begin <= iter.end => iter.current <= iter.end
IterInv == iter = NoIter \/ Scans

LEMMA NextScans ==
  ASSUME Scans, Next
  PROVE  Scans'
<1> DEFINE c == iter.current
<1>1. /\ c \in Int /\ iter.begin \in Int /\ iter.end \in Int
      /\ iter.seen \in (SUBSET Int) \cup {None} /\ iter.answer \in BOOLEAN
  BY DEF Scans
<1>2. CASE c < iter.end
  <2>1. iter' = [iter EXCEPT !.current = c + 1, !.answer = TRUE, !.seen = Delivered(iter)]
    BY <1>2 DEF Next, BeforeEnd
  <2>2. /\ iter'.current = c + 1 /\ iter'.begin = iter.begin /\ iter'.end = iter.end
        /\ iter'.answer = TRUE /\ iter'.seen = Delivered(iter)
    BY <2>1 DEF Scans
  <2>3. Delivered(iter) \in (SUBSET Int) \cup {None}
    BY <1>1 DEF Delivered
  <2>4. iter' \in [current : Int, begin : Int, end : Int, seen : (SUBSET Int) \cup {None},
                  answer : BOOLEAN]
    <3>1. iter' = [current |-> c + 1, begin |-> iter.begin, end |-> iter.end,
                   seen |-> Delivered(iter), answer |-> TRUE]
      BY <2>1 DEF Scans
    <3> QED
      BY <1>1, <2>3, <3>1
  <2>5. ASSUME iter'.seen # None
        PROVE  /\ iter'.seen = (iter.begin + 1)..(c + 1) /\ iter.begin <= c
    <3>1. iter.seen # None /\ iter'.seen = iter.seen \cup {c + 1}
      BY <2>2, <2>5 DEF Delivered
    <3>2. iter.seen = (iter.begin + 1)..c /\ iter.begin <= c
      BY <3>1 DEF Scans
    <3>3. ((iter.begin + 1)..c) \cup {c + 1} = (iter.begin + 1)..(c + 1)
      BY <1>1, <3>2
    <3> QED
      BY <3>1, <3>2, <3>3
  <2>6. iter.begin <= c => iter.begin <= c + 1
    BY <1>1
  <2>7. c + 1 <= iter.end
    BY <1>1, <1>2
  <2> QED
    BY <2>2, <2>4, <2>5, <2>6, <2>7 DEF Scans
<1>3. CASE ~(c < iter.end)
  <2>1. iter' = [iter EXCEPT !.answer = FALSE] /\ iter.end <= c
    BY <1>1, <1>3 DEF Next, BeforeEnd
  <2> QED
    BY <2>1 DEF Scans
<1> QED
  BY <1>2, <1>3

LEMMA IterSteps == IterInv /\ [StorageNext]_storageVars => IterInv'
<1> SUFFICES ASSUME IterInv, [StorageNext]_storageVars PROVE IterInv'
  OBVIOUS
<1>1. ASSUME UNCHANGED iter PROVE IterInv'
  BY <1>1 DEF IterInv, Scans
<1>2. ASSUME NEW k \in UserKey, NEW x, InBatch(k, x) PROVE IterInv'
  BY <1>1, <1>2 DEF InBatch
<1>3. ASSUME NEW k \in UserKey, NEW x \in Value, Put(k, x) PROVE IterInv'
  BY <1>2, <1>3 DEF Put
<1>4. ASSUME NEW k \in UserKey, Delete(k) PROVE IterInv'
  BY <1>2, <1>4 DEF Delete
<1>5. ASSUME NEW k \in UserKey, Get(k) PROVE IterInv'
  BY <1>1, <1>5 DEF Get
<1>6. ASSUME NEW k \in UserKey, Seek(k) PROVE IterInv'
  <2>1. Scans
    BY <1>6 DEF Seek, IterInv
  <2>2. k \in Int
    BY StorageAssumption
  <2>3. CASE iter' = [iter EXCEPT !.current = k, !.seen = None]
    <3>1. iter' = [current |-> k, begin |-> iter.begin, end |-> iter.end,
                   seen |-> None, answer |-> iter.answer]
      BY <2>1, <2>3 DEF Scans
    <3>2. iter.begin \in Int /\ iter.end \in Int /\ iter.answer \in BOOLEAN
      BY <2>1 DEF Scans
    <3>3. iter' \in [current : Int, begin : Int, end : Int, seen : (SUBSET Int) \cup {None},
                    answer : BOOLEAN]
      <4>1. None \in (SUBSET Int) \cup {None}
        OBVIOUS
      <4> QED
        BY <2>2, <3>1, <3>2, <4>1
    <3>4. iter'.seen = None
      BY <3>1
    <3> QED
      BY <3>3, <3>4 DEF Scans, IterInv
  <2>4. CASE iter' = iter
    BY <1>1, <2>4
  <2> QED
    BY <1>6, <2>3, <2>4 DEF Seek
<1>7. ASSUME NEW k \in UserKey, NEW end \in UserKey, NewIterator(k, end) PROVE IterInv'
  <2>1. iter' = [current |-> k, begin |-> k, end |-> end, seen |-> {}, answer |-> TRUE]
    BY <1>7 DEF NewIterator
  <2>2. k \in Int /\ end \in Int /\ k <= k /\ (k + 1)..k = {}
    BY StorageAssumption
  <2> QED
    BY <2>1, <2>2 DEF IterInv, Scans
<1>8. CASE Next
  <2>1. Scans
    BY <1>8 DEF Next, IterInv
  <2> QED
    BY <1>8, <2>1, NextScans DEF IterInv
<1>9. CASE Hash \/ Write \/ Take \/ UNCHANGED storageVars
  BY <1>1, <1>9 DEF Hash, Write, Take, storageVars
<1>10. ASSUME NEW seq \in 0..(MaxVersion - 1), Revert(seq) PROVE IterInv'
  BY <1>1, <1>10 DEF Revert
<1>11. CASE IteratorValue
  BY <1>5, <1>11 DEF IteratorValue
<1>12. CASE Release
  BY <1>12 DEF Release, IterInv
<1> QED
  BY <1>3, <1>4, <1>5, <1>6, <1>7, <1>8, <1>9, <1>10, <1>11, <1>12 DEF StorageNext

(* A scan by Next alone delivers every key of its range once, for all keys  *)
(* and ranges, whatever is written meanwhile.                               *)
THEOREM ScansAreComplete == StorageSpec => []ScanComplete
<1>1. StorageInit => IterInv
  BY DEF StorageInit, IterInv
<1>2. IterInv => ScanComplete
  <2> SUFFICES ASSUME Scans, iter.seen # None, iter # NoIter
               PROVE  /\ iter.seen = (iter.begin + 1)..iter.current
                      /\ iter.answer = FALSE => (iter.begin + 1)..iter.end \subseteq iter.seen
                      /\ iter.begin <= iter.end => iter.current <= iter.end
    BY DEF IterInv, ScanComplete
  <2>1. iter.current \in Int /\ iter.begin \in Int /\ iter.end \in Int
    BY DEF Scans
  <2>2. iter.end <= iter.current => (iter.begin + 1)..iter.end \subseteq (iter.begin + 1)..iter.current
    BY <2>1
  <2> QED
    BY <2>2 DEF Scans
<1> QED
  BY <1>1, <1>2, IterSteps, PTL DEF StorageSpec

-----------------------------------------------------------------------------
(* Workloads.                                                              *)

(* The state that TypeOK tells, with what the programs gather from it.     *)
Answer == Value \cup {NoValue}
TrieTypes ==
  /\ current_version \in Versions
  /\ put_cache \in [UserKey -> Value \cup {NoValue, None}]
  /\ snapshots \in [Versions -> Maps \cup {None}]
  /\ horizon \in 0..(MaxVersion + 1)
Runs ==
  /\ program \in DOMAIN Programs /\ plan \in Programs[program]
  /\ at \in 1..(Len(plan) + 1)
Answered2 == answers = <<answers[1], answers[2]>> /\ answers[1] \in Answer /\ answers[2] \in Answer
Replied ==
  reply # None =>
    /\ at \in DOMAIN plan /\ plan[at].op = "get"
    /\ reply = [key |-> plan[at].key, version |-> plan[at].version, value |-> reply.value]
    /\ reply.value \in Answer
ResultTypes ==
  /\ wrong \subseteq Versions /\ aborted \in BOOLEAN
  /\ buffer \in [Versions -> [UserKey -> Value \cup {NoValue, None}]]
WorkTypes == TrieTypes /\ Runs /\ Answered2 /\ Replied /\ ResultTypes

(* Programs that settle have numbers for values, and may go on adding.     *)
Settles(p) == \E i \in DOMAIN p : p[i].op = "settle"
BalancesAreNumbers ==
  (\E name \in DOMAIN Programs : \E p \in Programs[name] : Settles(p)) => Value = Nat

LEMMA PlanTypes ==
  ASSUME Runs
  PROVE  plan \in Seq(Call) /\ DOMAIN plan = 1..Len(plan) /\ Len(plan) \in Nat
<1>1. plan \in Seq(Call)
  BY WorkloadAssumption DEF Runs
<1> QED BY <1>1

LEMMA Calls ==
  ASSUME NEW o \in Call
  PROVE  /\ o.version \in Versions
         /\ o.op \in {"put", "get", "delete", "settle", "commit", "scan"}
         /\ o.op # "commit" /\ o.op # "scan" => o.key \in UserKey
         /\ o.op = "put" => o.value \in Asked /\ o.noted \in BOOLEAN
         /\ o.op = "get" => o.value \in Expectable /\ o.noted \in BOOLEAN
         /\ o.op = "settle" => o.side \in {"send", "recv"}
BY DEF Call

(* The operation that runs. *)
LEMMA Running ==
  ASSUME Runs, ~Ended
  PROVE  at \in DOMAIN plan /\ at \in 1..Len(plan) /\ Operation \in Call /\ at + 1 \in 1..(Len(plan) + 1)
BY PlanTypes DEF Runs, Ended, Operation

LEMMA NoteTypes ==
  ASSUME ResultTypes, NEW x \in Answer, Operation \in Call, Operation.op \in {"put", "get"},
         Note(x)
  PROVE  buffer' \in [Versions -> [UserKey -> Value \cup {NoValue, None}]]
<1>1. Operation.version \in Versions /\ Operation.key \in UserKey
  BY Calls
<1> QED BY <1>1 DEF Note, BufferPut, ResultTypes, Answer

LEMMA TriePutTypes ==
  ASSUME TrieTypes, NEW v \in Versions, NEW k \in UserKey, NEW x \in Answer, TriePut(v, k, x)
  PROVE  TrieTypes'
BY DEF TriePut, TrieTypes, trie, Answer

LEMMA TrieDeleteTypes ==
  ASSUME TrieTypes, NEW v \in Versions, NEW k \in UserKey, TrieDelete(v, k)
  PROVE  TrieTypes'
BY DEF TrieDelete, TrieTypes, trie

LEMMA GreatestCommitted ==
  ASSUME TrieTypes
  PROVE  \/ Committed = {} /\ Newest = EmptyMap
         \/ \E m \in Committed : (\A v \in Committed : v <= m) /\ Newest = snapshots[m]
<1>1. CASE Committed = {}
  BY <1>1 DEF Newest
<1>2. CASE Committed # {}
  <2>1. Committed \in SUBSET (0..MaxVersion) /\ MaxVersion \in Nat
    BY TrieAssumption DEF Committed, Versions
  <2>2. PICK m \in Committed : \A v \in Committed : v <= m
    BY <1>2, <2>1, Greatest
  <2>3. Committed \in SUBSET Nat
    BY <2>1
  <2>4. (CHOOSE u \in Committed : \A w \in Committed : w <= u) = m
    BY <2>2, <2>3, Chosen
  <2> QED BY <1>2, <2>2, <2>4 DEF Newest
<1> QED BY <1>1, <1>2

LEMMA NewestIsTyped ==
  ASSUME TrieTypes
  PROVE  Newest \in Maps
<1>1. CASE Committed = {} /\ Newest = EmptyMap
  BY <1>1 DEF EmptyMap, Maps
<1>2. ASSUME NEW m \in Committed, Newest = snapshots[m] PROVE Newest \in Maps
  BY <1>2 DEF Committed, TrieTypes
<1> QED BY <1>1, <1>2, GreatestCommitted

LEMMA TrieCommitTypes ==
  ASSUME TrieTypes, NEW v \in Versions, TrieCommit(v)
  PROVE  TrieTypes'
<1>1. CASE put_cache = EmptyPutCache
  BY <1>1 DEF TrieCommit, TrieTypes, trie
<1>2. CASE put_cache # EmptyPutCache
  <2>1. Over(Newest, put_cache) \in Maps
    BY NewestIsTyped, OverIsMap DEF TrieTypes
  <2>2. EmptyPutCache \in [UserKey -> Value \cup {NoValue, None}]
    BY DEF EmptyPutCache
  <2>3. horizon' \in 0..(MaxVersion + 1)
    BY <1>2, TrieAssumption DEF TrieCommit, TrieTypes, Versions
  <2> QED BY <1>2, <2>1, <2>2, <2>3 DEF TrieCommit, TrieTypes
<1> QED BY <1>1, <1>2

LEMMA TrieGetTypes ==
  ASSUME TrieTypes, NEW v \in Versions, NEW k \in UserKey, NEW x \in TrieGet(v, k)
  PROVE  /\ x \in Answer
         /\ v >= horizon => x = IF snapshots[v] = None THEN NoValue ELSE snapshots[v][k]
<1>1. v \in Nat /\ horizon \in Nat
  BY TrieAssumption DEF TrieTypes, Versions
<1>2. snapshots[v] # None => snapshots[v][k] \in Answer
  BY DEF TrieTypes, Maps, Answer
<1> QED BY <1>1, <1>2 DEF TrieGet, Answer

LEMMA BalanceIsNumber ==
  ASSUME NEW sent \in Nat, NEW received \in Nat, NEW side
  PROVE  Balance(sent, received, side) \in Nat
BY DEF Balance

(* Types. *)
LEMMA WorkInitTypes == WorkloadInit => WorkTypes
<1> SUFFICES ASSUME WorkloadInit PROVE WorkTypes
  OBVIOUS
<1>1. program \in DOMAIN Programs /\ plan \in Programs[program]
  BY DEF WorkloadInit
<1>2. plan \in Seq(Call)
  BY <1>1, WorkloadAssumption
<1>3. Len(plan) \in Nat
  BY <1>2
<1>4. Runs
  BY <1>1, <1>3 DEF Runs, WorkloadInit
<1>5. TrieTypes
  BY TrieAssumption DEF TrieTypes, WorkloadInit, TrieInit, EmptyPutCache, Versions
<1> QED BY <1>4, <1>5 DEF WorkTypes, WorkloadInit, Answered2, Replied, ResultTypes, Answer, Buffered

LEMMA PutTypes ==
  ASSUME WorkTypes, DoPut
  PROVE  WorkTypes'
<1>1. /\ Runs /\ at \in DOMAIN plan /\ Operation \in Call /\ Operation.op = "put"
      /\ at + 1 \in 1..(Len(plan) + 1)
  BY Running DEF WorkTypes, DoPut, Doing
<1>2. /\ Operation.version \in Versions /\ Operation.key \in UserKey
      /\ Operation.value \in Asked
  BY <1>1, Calls
<1>3. PICK x \in Answer : TriePut(Operation.version, Operation.key, x) /\ Note(x)
  BY <1>2 DEF DoPut, WorkTypes, Answered2, Answer, Asked
<1>4. TrieTypes'
  BY <1>2, <1>3, TriePutTypes DEF WorkTypes
<1>5. buffer' \in [Versions -> [UserKey -> Value \cup {NoValue, None}]]
  BY <1>1, <1>3, NoteTypes DEF WorkTypes
<1>6. UNCHANGED <<program, plan, reply, answers, wrong, aborted>> /\ at' = at + 1 /\ reply = None
  BY DEF DoPut, run, Done, Doing
<1>7. Runs' /\ Answered2' /\ Replied' /\ ResultTypes'
  BY <1>1, <1>5, <1>6 DEF WorkTypes, Runs, Answered2, Replied, ResultTypes
<1> QED BY <1>4, <1>7 DEF WorkTypes

LEMMA DeleteTypes ==
  ASSUME WorkTypes, DoDelete
  PROVE  WorkTypes'
<1>1. /\ Runs /\ at \in DOMAIN plan /\ Operation \in Call /\ Operation.op = "delete"
      /\ at + 1 \in 1..(Len(plan) + 1)
  BY Running DEF WorkTypes, DoDelete, Doing
<1>2. Operation.version \in Versions /\ Operation.key \in UserKey
  BY <1>1, Calls
<1>3. TrieTypes'
  BY <1>2, TrieDeleteTypes DEF WorkTypes, DoDelete
<1>4. /\ UNCHANGED <<program, plan, reply, answers, wrong, buffer, aborted>> /\ at' = at + 1
      /\ reply = None
  BY DEF DoDelete, run, results, Done, Doing
<1>5. Runs' /\ Answered2' /\ Replied' /\ ResultTypes'
  BY <1>1, <1>4 DEF WorkTypes, Runs, Answered2, Replied, ResultTypes
<1> QED BY <1>3, <1>5 DEF WorkTypes

LEMMA CommitTypes ==
  ASSUME WorkTypes, DoCommit
  PROVE  WorkTypes'
<1>1. /\ Runs /\ at \in DOMAIN plan /\ Operation \in Call /\ Operation.op = "commit"
      /\ at + 1 \in 1..(Len(plan) + 1)
  BY Running DEF WorkTypes, DoCommit, Doing
<1>2. Operation.version \in Versions
  BY <1>1, Calls
<1>3. TrieTypes'
  BY <1>2, TrieCommitTypes DEF WorkTypes, DoCommit
<1>4. /\ UNCHANGED <<program, plan, reply, answers, wrong, buffer, aborted>> /\ at' = at + 1
      /\ reply = None
  BY DEF DoCommit, run, results, Done, Doing
<1>5. Runs' /\ Answered2' /\ Replied' /\ ResultTypes'
  BY <1>1, <1>4 DEF WorkTypes, Runs, Answered2, Replied, ResultTypes
<1> QED BY <1>3, <1>5 DEF WorkTypes

LEMMA GetTypes ==
  ASSUME WorkTypes, DoGet
  PROVE  /\ WorkTypes' /\ at \in DOMAIN plan /\ plan[at].op = "get"
         /\ plan[at].version \in Versions /\ plan[at].key \in UserKey
         /\ reply' = [key |-> plan[at].key, version |-> plan[at].version,
                      value |-> reply'.value]
         /\ reply'.value \in TrieGet(plan[at].version, plan[at].key)
<1>1. Runs /\ at \in DOMAIN plan /\ Operation \in Call /\ Operation.op = "get"
  BY Running DEF WorkTypes, DoGet, Doing
<1>2. Operation.version \in Versions /\ Operation.key \in UserKey
  BY <1>1, Calls
<1>3. PICK x \in TrieGet(Operation.version, Operation.key) :
        reply' = [key |-> Operation.key, version |-> Operation.version, value |-> x]
  BY DEF DoGet
<1>4. x \in Answer
  BY <1>2, TrieGetTypes DEF WorkTypes
<1>5. UNCHANGED <<current_version, put_cache, snapshots, horizon, program, plan, at, answers,
                  wrong, buffer, aborted>>
  BY DEF DoGet, trie, run, results
<1>6. TrieTypes' /\ Runs' /\ Answered2' /\ ResultTypes'
  BY <1>5 DEF WorkTypes, TrieTypes, Runs, Answered2, ResultTypes
<1>7. reply'.value = x
  BY <1>3
<1>8. Replied'
  BY <1>1, <1>3, <1>4, <1>5, <1>7 DEF Replied, Operation
<1> QED BY <1>1, <1>2, <1>3, <1>6, <1>7, <1>8 DEF WorkTypes, Operation

LEMMA AnsweredTypes ==
  ASSUME WorkTypes, Answered
  PROVE  /\ WorkTypes' /\ at \in DOMAIN plan /\ plan[at].op = "get"
         /\ plan[at].version \in Versions /\ plan[at].key \in UserKey
<1>1. /\ Runs /\ at \in DOMAIN plan /\ plan[at].op = "get" /\ reply.value \in Answer
      /\ plan \in Seq(Call) /\ Len(plan) \in Nat /\ DOMAIN plan = 1..Len(plan)
  BY PlanTypes DEF WorkTypes, Answered, Replied
<1>2. Operation \in Call /\ at + 1 \in 1..(Len(plan) + 1)
  BY <1>1 DEF Operation
<1>3. Operation.version \in Versions /\ Operation.key \in UserKey
  BY <1>1, <1>2, Calls DEF Operation
<1>4. buffer' \in [Versions -> [UserKey -> Value \cup {NoValue, None}]]
  BY <1>1, <1>2, NoteTypes DEF WorkTypes, Answered, Operation
<1>5. /\ UNCHANGED <<current_version, put_cache, snapshots, horizon, program, plan, aborted>>
      /\ at' = at + 1 /\ reply' = None /\ answers' = <<answers[2], reply.value>>
      /\ wrong' \subseteq wrong \cup {Operation.version}
  BY DEF Answered, trie, run, Done
<1>6. TrieTypes' /\ Runs' /\ Replied'
  BY <1>1, <1>2, <1>5 DEF WorkTypes, TrieTypes, Runs, Replied
<1>7. Answered2' /\ ResultTypes'
  BY <1>1, <1>3, <1>4, <1>5 DEF WorkTypes, Answered2, ResultTypes
<1> QED BY <1>1, <1>3, <1>6, <1>7 DEF WorkTypes, Operation

LEMMA ScanTypes ==
  ASSUME WorkTypes, DoScan
  PROVE  WorkTypes'
<1>1. Runs /\ at \in DOMAIN plan /\ at + 1 \in 1..(Len(plan) + 1)
  BY Running DEF WorkTypes, DoScan, Doing
<1>2. /\ UNCHANGED <<current_version, put_cache, snapshots, horizon, program, plan, reply,
                     answers, wrong, buffer, aborted>> /\ at' = at + 1 /\ reply = None
  BY DEF DoScan, trie, run, results, Done, Doing
<1> QED BY <1>1, <1>2 DEF WorkTypes, TrieTypes, Runs, Answered2, Replied, ResultTypes

LEMMA SettleTypes ==
  ASSUME WorkTypes, BalancesAreNumbers, DoSettle
  PROVE  WorkTypes'
<1>1. /\ Runs /\ at \in DOMAIN plan /\ Operation \in Call /\ Operation.op = "settle"
      /\ at + 1 \in 1..(Len(plan) + 1)
  BY Running DEF WorkTypes, DoSettle, Doing
<1>2. /\ Operation.version \in Versions /\ Operation.key \in UserKey
  BY <1>1, Calls
<1>3. Value = Nat
  BY <1>1 DEF BalancesAreNumbers, Settles, Runs, Operation
<1>4. Balance(answers[1], answers[2], Operation.side) \in Answer
  BY <1>3, BalanceIsNumber DEF DoSettle, WorkTypes, Answered2, Answer
<1>5. TrieTypes'
  BY <1>2, <1>4, TriePutTypes DEF WorkTypes, DoSettle
<1>6. /\ UNCHANGED <<program, plan, reply, answers, wrong, buffer, aborted>> /\ at' = at + 1
      /\ reply = None
  BY DEF DoSettle, run, results, Done, Doing
<1>7. Runs' /\ Answered2' /\ Replied' /\ ResultTypes'
  BY <1>1, <1>6 DEF WorkTypes, Runs, Answered2, Replied, ResultTypes
<1> QED BY <1>5, <1>7 DEF WorkTypes

LEMMA AbortTypes ==
  ASSUME WorkTypes, Abort
  PROVE  WorkTypes'
<1>1. Runs /\ Len(plan) \in Nat
  BY PlanTypes DEF WorkTypes
<1>2. /\ UNCHANGED <<current_version, put_cache, snapshots, horizon, program, plan, reply,
                     answers, wrong, buffer>>
      /\ at' = Len(plan) + 1 /\ reply = None /\ aborted' = TRUE
  BY DEF Abort, trie, run, Doing
<1> QED BY <1>1, <1>2 DEF WorkTypes, TrieTypes, Runs, Answered2, Replied, ResultTypes

LEMMA WorkSteps ==
  ASSUME WorkTypes, BalancesAreNumbers, [WorkloadNext]_workloadVars
  PROVE  WorkTypes'
<1>1. CASE UNCHANGED workloadVars
  BY <1>1 DEF workloadVars, trie, run, results, WorkTypes, TrieTypes, Runs, Answered2, Replied,
     ResultTypes
<1> QED
  BY <1>1, PutTypes, DeleteTypes, CommitTypes, GetTypes, AnsweredTypes, ScanTypes, SettleTypes,
     AbortTypes DEF WorkloadNext

LEMMA WorkTypesHold ==
  ASSUME BalancesAreNumbers
  PROVE  WorkloadSpec => []WorkTypes
<1>1. WorkTypes /\ [WorkloadNext]_workloadVars => WorkTypes'
  BY WorkSteps
<1> QED BY <1>1, WorkInitTypes, PTL DEF WorkloadSpec

(* The state has its shape, whatever a plan asks; a balance never goes      *)
(* below zero.                                                              *)
THEOREM WorkloadTypes ==
  ASSUME BalancesAreNumbers
  PROVE  WorkloadSpec => []WorkloadTypeOK
<1>1. WorkTypes => WorkloadTypeOK
  BY DEF WorkTypes, TrieTypes, Runs, ResultTypes, WorkloadTypeOK, Maps
<1> QED BY <1>1, WorkTypesHold, PTL

-----------------------------------------------------------------------------
(* What a plan asks of the trie, told from the plan alone.                 *)

Writes(p) == {i \in DOMAIN p : p[i].op \in {"put", "delete", "settle"}}
Commits(p) == {i \in DOMAIN p : p[i].op = "commit"}
Gets(p) == {i \in DOMAIN p : p[i].op = "get"}

(* A write that no commit has followed when operation n is next, and the   *)
(* last one of its key before it.                                          *)
Gathered(p, i, n) ==
  i \in Writes(p) /\ i < n /\ \A c \in Commits(p) : ~(i < c /\ c < n)
LastOf(p, i, n) ==
  i \in Writes(p) /\ i < n /\ \A j \in Writes(p) : i < j /\ j < n => p[j].key # p[i].key
Unwritten(p, k, n) == \A i \in Writes(p) : i < n => p[i].key # k

(* A commit that has something to commit. *)
Effective(p, c) == c \in Commits(p) /\ \E i \in Writes(p) : Gathered(p, i, c)

(* Puts put values, under versions that never fall. *)
Ordered(p) ==
  /\ \A i \in Writes(p) : p[i].op = "put" => p[i].value \in Value
  /\ \A i, j \in Writes(p) : i < j => p[i].version <= p[j].version

(* A version is put to before it is committed, under the number of its     *)
(* last writes, and committed once.                                        *)
Numbered(p) ==
  \A c \in Commits(p) : Effective(p, c) =>
    /\ \A i \in Writes(p) : i < c => p[i].version <= p[c].version
    /\ \E i \in Writes(p) : Gathered(p, i, c) /\ p[i].version = p[c].version
    /\ \A i \in Writes(p) : c < i => p[c].version < p[i].version
Lawful(p) == (\A i \in Writes(p) : p[i].version >= 1) /\ Numbered(p)

(* The map a commit leaves has x for k: what was last put, if anything.    *)
Put2(p, i, x) ==
  \/ p[i].op = "put" /\ x = p[i].value
  \/ p[i].op = "delete" /\ x = NoValue
Leaves(p, c, k, x) ==
  \/ Unwritten(p, k, c) /\ x = NoValue
  \/ \E i \in Writes(p) : LastOf(p, i, c) /\ p[i].key = k /\ Put2(p, i, x)

-----------------------------------------------------------------------------
(* The trie after the operations of a plan up to the next one, while no     *)
(* program was aborted.                                                     *)
Follows ==
  /\ \A i \in Writes(plan) : i < at => plan[i].version <= current_version
  /\ current_version = 0 \/ \E i \in Writes(plan) : i < at /\ plan[i].version = current_version
  /\ \A k \in UserKey :
       put_cache[k] # None <=> \E i \in Writes(plan) : Gathered(plan, i, at) /\ plan[i].key = k
  /\ \A v \in Versions :
       v \in Committed <=> \E c \in Commits(plan) : c < at /\ Effective(plan, c)
                                                  /\ plan[c].version = v

LEMMA Positions ==
  ASSUME NEW p \in Seq(Call)
  PROVE  /\ DOMAIN p = 1..Len(p) /\ Len(p) \in Nat
         /\ \A i \in Writes(p) : i \in Nat /\ p[i].version \in Versions /\ p[i].key \in UserKey
                                 /\ p[i].op \in {"put", "delete", "settle"} /\ p[i] \in Call
         /\ \A i \in Commits(p) : i \in Nat /\ p[i].version \in Versions
         /\ \A i \in Gets(p) : i \in Nat /\ p[i].version \in Versions /\ p[i].key \in UserKey
                               /\ p[i].value \in Expectable
         /\ Writes(p) \cap Commits(p) = {} /\ Gets(p) \cap Commits(p) = {}
         /\ Writes(p) \cap Gets(p) = {}
<1>1. DOMAIN p = 1..Len(p) /\ Len(p) \in Nat /\ \A i \in DOMAIN p : i \in Nat /\ p[i] \in Call
  OBVIOUS
<1> QED BY <1>1, Calls DEF Writes, Commits, Gets

(* What the next operation does to what is gathered. *)
LEMMA NextGathered ==
  ASSUME NEW p \in Seq(Call), NEW n \in DOMAIN p
  PROVE  /\ n \in Commits(p) => \A i : ~Gathered(p, i, n + 1)
         /\ n \in Writes(p) => \A i : Gathered(p, i, n + 1) <=> Gathered(p, i, n) \/ i = n
         /\ n \notin Writes(p) /\ n \notin Commits(p) =>
              \A i : Gathered(p, i, n + 1) <=> Gathered(p, i, n)
<1>1. n \in Nat /\ \A i \in Writes(p) \cup Commits(p) : i \in Nat
  BY Positions
<1>2. Writes(p) \cap Commits(p) = {}
  BY Positions
<1> QED BY <1>1, <1>2 DEF Gathered

LEMMA NextLast ==
  ASSUME NEW p \in Seq(Call), NEW n \in DOMAIN p
  PROVE  /\ n \in Writes(p) => \A i : LastOf(p, i, n + 1) <=>
                                 \/ i = n
                                 \/ LastOf(p, i, n) /\ p[i].key # p[n].key
         /\ n \notin Writes(p) => \A i : LastOf(p, i, n + 1) <=> LastOf(p, i, n)
<1>1. n \in Nat /\ \A i \in Writes(p) : i \in Nat
  BY Positions
<1> QED BY <1>1 DEF LastOf

(* The steps of a plan, by what they do to the trie. *)
Stays == UNCHANGED <<current_version, put_cache, snapshots, horizon>>
WriteStep(x) ==
  /\ at \in Writes(plan) /\ at' = at + 1 /\ reply = None /\ reply' = None
  /\ UNCHANGED <<program, plan, aborted, wrong, answers>>
  /\ x \in Answer
  /\ plan[at].op # "settle" => Put2(plan, at, x)
  /\ current_version' = plan[at].version
  /\ put_cache' = [put_cache EXCEPT ![plan[at].key] = x]
  /\ UNCHANGED <<snapshots, horizon>>
CommitStep ==
  /\ at \in Commits(plan) /\ at' = at + 1 /\ reply = None /\ reply' = None
  /\ UNCHANGED <<program, plan, aborted, wrong, answers, buffer>>
  /\ TrieCommit(plan[at].version)
ReadStep ==
  /\ at \notin Writes(plan) /\ at \notin Commits(plan) /\ at \in DOMAIN plan
  /\ at' \in {at, at + 1}
  /\ UNCHANGED <<program, plan, aborted>> /\ Stays
AbortStep == UNCHANGED <<program, plan, reply, wrong, buffer>> /\ Stays /\ aborted' = TRUE /\ reply = None

(* No write of a plan whose versions never fall is refused. *)
LEMMA NotRefused ==
  ASSUME WorkTypes, Ordered(plan), Follows, at \in Writes(plan)
  PROVE  ~Refuses(plan[at].version)
<1>1. plan \in Seq(Call)
  BY PlanTypes DEF WorkTypes
<1>2. plan[at].version \in Nat
  BY <1>1, Positions, TrieAssumption DEF Versions
<1>3. CASE current_version = 0
  BY <1>2, <1>3 DEF Refuses
<1>4. CASE \E i \in Writes(plan) : i < at /\ plan[i].version = current_version
  <2>1. PICK i \in Writes(plan) : i < at /\ plan[i].version = current_version
    BY <1>4
  <2>2. current_version <= plan[at].version /\ current_version \in Nat
    BY <1>1, <2>1, Positions, TrieAssumption DEF Ordered, Versions
  <2> QED BY <1>2, <2>2 DEF Refuses
<1> QED BY <1>3, <1>4 DEF Follows

LEMMA PlanWrites ==
  ASSUME WorkTypes, BalancesAreNumbers, Ordered(plan), Follows,
         DoPut \/ DoDelete \/ DoSettle
  PROVE  \E x : WriteStep(x)
<1>1. /\ Runs /\ at \in DOMAIN plan /\ Operation \in Call /\ reply = None
      /\ plan \in Seq(Call)
  BY Running, PlanTypes DEF WorkTypes, DoPut, DoDelete, DoSettle, Doing
<1>2. at \in Writes(plan)
  BY <1>1 DEF Writes, DoPut, DoDelete, DoSettle, Doing, Operation
<1>3. ~Refuses(plan[at].version)
  BY <1>2, NotRefused
<1>4. CASE DoPut
  <2>1. Operation.value \in Value /\ Operation.value # Carried /\ Operation.value # NoValue
    BY <1>2, <1>4, WorkloadAssumption, TrieAssumption DEF Ordered, DoPut, Doing, Operation
  <2>2. WriteStep(Operation.value)
    BY <1>1, <1>2, <1>3, <1>4, <2>1
       DEF WriteStep, DoPut, TriePut, Doing, Done, run, Operation, Put2, Answer
  <2> QED BY <2>2
<1>5. CASE DoDelete
  <2>1. WriteStep(NoValue)
    BY <1>1, <1>2, <1>3, <1>5
       DEF WriteStep, DoDelete, TrieDelete, Doing, Done, run, results, Operation, Put2, Answer
  <2> QED BY <2>1
<1>6. CASE DoSettle
  <2>1. Value = Nat
    BY <1>1, <1>6 DEF BalancesAreNumbers, Settles, Runs, Operation, DoSettle, Doing
  <2>2. PICK x : x = Balance(answers[1], answers[2], Operation.side)
    OBVIOUS
  <2>3. x \in Answer /\ x # NoValue
    BY <1>6, <2>1, <2>2, BalanceIsNumber, TrieAssumption DEF DoSettle, WorkTypes, Answered2, Answer
  <2>4. WriteStep(x)
    BY <1>1, <1>2, <1>3, <1>6, <2>2, <2>3
       DEF WriteStep, DoSettle, TriePut, Doing, Done, run, results, Operation
  <2> QED BY <2>4
<1> QED BY <1>4, <1>5, <1>6

LEMMA PlanCommits ==
  ASSUME WorkTypes, DoCommit
  PROVE  CommitStep
<1>1. Runs /\ at \in DOMAIN plan
  BY Running DEF WorkTypes, DoCommit, Doing
<1> QED BY <1>1 DEF CommitStep, Commits, DoCommit, Doing, Done, run, results, Operation

LEMMA PlanReads ==
  ASSUME WorkTypes, DoGet \/ Answered \/ DoScan
  PROVE  ReadStep /\ (at \in Gets(plan) \/ DoScan)
<1>1. /\ at \in DOMAIN plan
      /\ plan[at].op \in {"get", "scan"} /\ (plan[at].op = "get" \/ DoScan)
  <2>1. CASE DoGet
    BY <2>1, GetTypes
  <2>2. CASE Answered
    BY <2>2, AnsweredTypes
  <2>3. CASE DoScan
    BY <2>3, Running DEF WorkTypes, DoScan, Doing, Operation
  <2> QED BY <2>1, <2>2, <2>3
<1>2. at \notin Writes(plan) /\ at \notin Commits(plan) /\ (at \in Gets(plan) \/ DoScan)
  BY <1>1 DEF Writes, Commits, Gets
<1>3. at' \in {at, at + 1} /\ UNCHANGED <<program, plan, aborted>> /\ Stays
  BY DEF DoGet, Answered, DoScan, Stays, trie, run, results, Done
<1> QED BY <1>1, <1>2, <1>3 DEF ReadStep

LEMMA PlanAborts ==
  ASSUME WorkTypes, Abort
  PROVE  AbortStep
BY DEF AbortStep, Abort, Stays, trie, run, Doing

(* Every step is one of these. *)
LEMMA PlanSteps ==
  ASSUME WorkTypes, BalancesAreNumbers, Ordered(plan), Follows, WorkloadNext
  PROVE  \/ \E x : WriteStep(x)
         \/ CommitStep
         \/ ReadStep /\ (DoGet \/ Answered \/ DoScan)
         \/ AbortStep
BY PlanWrites, PlanCommits, PlanReads, PlanAborts DEF WorkloadNext

(* An aborted program has ended. *)
AbortedEnds == aborted => at = Len(plan) + 1 /\ reply = None
LEMMA AbortedStays ==
  ASSUME WorkTypes, AbortedEnds, aborted
  PROVE  ~WorkloadNext
<1>1. Ended /\ reply = None
  BY PlanTypes DEF WorkTypes, AbortedEnds, Ended
<1> QED BY <1>1 DEF WorkloadNext, DoPut, DoDelete, DoCommit, DoGet, Answered, DoScan, DoSettle,
     Abort, Doing
LEMMA AbortedStep ==
  ASSUME WorkTypes, AbortedEnds, [WorkloadNext]_workloadVars
  PROVE  AbortedEnds'
<1>1. CASE aborted
  <2>1. UNCHANGED workloadVars
    BY <1>1, AbortedStays
  <2> QED BY <2>1 DEF workloadVars, run, results, AbortedEnds
<1>2. CASE ~aborted
  BY <1>2 DEF WorkloadNext, DoPut, DoDelete, DoCommit, DoGet, Answered, DoScan, DoSettle,
     Abort, Doing, workloadVars, run, results, AbortedEnds
<1> QED BY <1>1, <1>2

LEMMA FollowsWrite ==
  ASSUME WorkTypes, Ordered(plan), Follows, NEW x, WriteStep(x)
  PROVE  Follows'
<1> DEFINE n == at
<1>1. plan \in Seq(Call) /\ n \in DOMAIN plan /\ n \in Nat /\ n \in Writes(plan) /\ plan[n].version \in Nat
  BY PlanTypes, Positions, TrieAssumption DEF WorkTypes, WriteStep, Versions, Writes
<1>2. \A i \in Writes(plan) : i \in Nat /\ plan[i].version \in Nat /\ plan[i].key \in UserKey
  BY <1>1, Positions, TrieAssumption DEF Versions
<1>3. plan' = plan /\ at' = n + 1 /\ current_version' = plan[n].version
  BY DEF WriteStep
<1>4. \A i \in Writes(plan) : i < n + 1 => plan[i].version <= plan[n].version
  BY <1>1, <1>2 DEF Ordered
<1>5. \A k \in UserKey :
        put_cache'[k] # None <=> \E i \in Writes(plan) : Gathered(plan, i, n + 1) /\ plan[i].key = k
  <2> TAKE k \in UserKey
  <2>1. \A i : Gathered(plan, i, n + 1) <=> Gathered(plan, i, n) \/ i = n
    BY <1>1, NextGathered
  <2>2. put_cache' = [put_cache EXCEPT ![plan[n].key] = x] /\ x # None
    BY TrieAssumption DEF WriteStep, Answer
  <2>3. put_cache'[k] # None <=> put_cache[k] # None \/ k = plan[n].key
    BY <2>2 DEF WorkTypes, TrieTypes
  <2>4. put_cache[k] # None <=> \E i \in Writes(plan) : Gathered(plan, i, n) /\ plan[i].key = k
    BY DEF Follows
  <2> QED BY <1>1, <2>1, <2>3, <2>4
<1>6. \A v \in Versions :
        v \in Committed' <=> \E c \in Commits(plan) : c < n + 1 /\ Effective(plan, c)
                                                   /\ plan[c].version = v
  <2> TAKE v \in Versions
  <2>1. Committed' = Committed
    BY DEF WriteStep, Committed
  <2>2. \A c \in Commits(plan) : c < n + 1 <=> c < n
    BY <1>1, Positions
  <2> QED BY <2>1, <2>2 DEF Follows
<1>7. \E i \in Writes(plan) : i < n + 1 /\ plan[i].version = plan[n].version
  BY <1>1
<1> QED BY <1>3, <1>4, <1>5, <1>6, <1>7 DEF Follows

LEMMA CacheEmpty ==
  ASSUME WorkTypes, Follows
  PROVE  put_cache = EmptyPutCache <=> ~ \E i \in Writes(plan) : Gathered(plan, i, at)
<1>1. put_cache = EmptyPutCache <=> \A k \in UserKey : put_cache[k] = None
  BY DEF WorkTypes, TrieTypes, EmptyPutCache
<1>2. \A i \in Writes(plan) : plan[i].key \in UserKey
  BY PlanTypes, Positions DEF WorkTypes
<1> QED BY <1>1, <1>2 DEF Follows

LEMMA FollowsCommit ==
  ASSUME WorkTypes, Follows, CommitStep
  PROVE  Follows'
<1> DEFINE n == at
<1>1. plan \in Seq(Call) /\ n \in DOMAIN plan /\ n \in Nat /\ n \in Commits(plan) /\ n \notin Writes(plan)
  BY PlanTypes, Positions DEF WorkTypes, CommitStep, Commits
<1>2. \A i \in Writes(plan) \cup Commits(plan) : i \in Nat
  BY <1>1, Positions
<1>3. plan' = plan /\ at' = n + 1 /\ current_version' = current_version
  BY DEF CommitStep, TrieCommit, trie
<1>4. \A i : ~Gathered(plan, i, n + 1)
  BY <1>1, NextGathered
<1>5. \A k \in UserKey : put_cache'[k] = None
  BY DEF CommitStep, TrieCommit, trie, EmptyPutCache
<1>6. Effective(plan, n) <=> put_cache # EmptyPutCache
  BY <1>1, CacheEmpty DEF Effective
<1>7. \A v \in Versions :
        v \in Committed' <=> \E c \in Commits(plan) : c < n + 1 /\ Effective(plan, c)
                                                   /\ plan[c].version = v
  <2> TAKE v \in Versions
  <2>1. \A c \in Commits(plan) : c < n + 1 <=> c < n \/ c = n
    BY <1>1, <1>2
  <2>2. CASE put_cache = EmptyPutCache
    <3>1. Committed' = Committed
      BY <2>2 DEF CommitStep, TrieCommit, trie, Committed
    <3> QED BY <1>6, <2>1, <2>2, <3>1 DEF Follows
  <2>3. CASE put_cache # EmptyPutCache
    <3>1. snapshots' = [snapshots EXCEPT ![plan[n].version] = Over(Newest, put_cache)]
      BY <2>3 DEF CommitStep, TrieCommit
    <3>2. Over(Newest, put_cache) # None
      <4>1. Over(Newest, put_cache) \in Maps
        BY NewestIsTyped, OverIsMap DEF WorkTypes, TrieTypes
      <4> QED BY <4>1, TrieAssumption DEF Maps
    <3>3. v \in Committed' <=> v \in Committed \/ v = plan[n].version
      BY <3>1, <3>2 DEF Committed, WorkTypes, TrieTypes
    <3> QED BY <1>1, <1>6, <2>1, <2>3, <3>3 DEF Follows
  <2> QED BY <2>2, <2>3
<1>8. \A i \in Writes(plan) : i < n + 1 <=> i < n
  BY <1>1, <1>2
<1> QED BY <1>3, <1>4, <1>5, <1>7, <1>8 DEF Follows

LEMMA FollowsRead ==
  ASSUME WorkTypes, Follows, ReadStep
  PROVE  Follows'
<1>1. plan \in Seq(Call) /\ at \in DOMAIN plan /\ at \in Nat
  BY PlanTypes, Positions DEF WorkTypes, ReadStep
<1>2. plan' = plan /\ Stays /\ Committed' = Committed
  BY DEF ReadStep, Stays, Committed
<1>3. CASE at' = at
  BY <1>2, <1>3 DEF Follows, Stays
<1>4. CASE at' = at + 1
  <2>1. \A i : Gathered(plan, i, at + 1) <=> Gathered(plan, i, at)
    BY <1>1, NextGathered DEF ReadStep
  <2>2. \A i \in Writes(plan) \cup Commits(plan) : i < at + 1 <=> i < at
    BY <1>1, Positions DEF ReadStep
  <2> QED BY <1>2, <1>4, <2>1, <2>2 DEF Follows, Stays
<1> QED BY <1>3, <1>4 DEF ReadStep

LEMMA FollowsInit == WorkloadInit /\ WorkTypes => Follows
<1> SUFFICES ASSUME WorkloadInit, WorkTypes PROVE Follows
  OBVIOUS
<1>1. at = 1 /\ plan \in Seq(Call)
  BY PlanTypes DEF WorkloadInit, WorkTypes
<1>2. \A i \in Writes(plan) \cup Commits(plan) : ~(i < at)
  BY <1>1 DEF Writes, Commits
<1>3. Committed = {} /\ current_version = 0 /\ \A k \in UserKey : put_cache[k] = None
  BY DEF WorkloadInit, TrieInit, Committed, EmptyPutCache
<1> QED BY <1>2, <1>3 DEF Follows, Gathered

FollowInv == WorkTypes /\ AbortedEnds /\ (Ordered(plan) /\ ~aborted => Follows)

LEMMA PlanStays ==
  ASSUME [WorkloadNext]_workloadVars
  PROVE  UNCHANGED <<program, plan>>
BY DEF WorkloadNext, DoPut, DoDelete, DoCommit, DoGet, Answered, DoScan, DoSettle, Abort,
   workloadVars, run

LEMMA NothingFollows ==
  ASSUME Follows, UNCHANGED workloadVars
  PROVE  Follows'
BY DEF Follows, Committed, workloadVars, trie, run

LEMMA FollowSteps ==
  ASSUME FollowInv, BalancesAreNumbers, [WorkloadNext]_workloadVars
  PROVE  FollowInv'
<1>1. WorkTypes' /\ AbortedEnds'
  BY WorkSteps, AbortedStep DEF FollowInv
<1>2. ASSUME Ordered(plan)', ~aborted' PROVE Follows'
  <2>1. Ordered(plan)
    BY <1>2, PlanStays
  <2>2. CASE UNCHANGED workloadVars
    <3>1. ~aborted
      BY <1>2, <2>2 DEF workloadVars, results
    <3> QED BY <2>1, <2>2, <3>1, NothingFollows DEF FollowInv
  <2>3. CASE WorkloadNext
    <3>1. ~aborted
      BY <2>3, AbortedStays DEF FollowInv
    <3>2. WorkTypes /\ Follows
      BY <2>1, <3>1 DEF FollowInv
    <3>3. CASE \E x : WriteStep(x)
      BY <2>1, <3>2, <3>3, FollowsWrite
    <3>4. CASE CommitStep
      BY <3>2, <3>4, FollowsCommit
    <3>5. CASE ReadStep
      BY <3>2, <3>5, FollowsRead
    <3>6. CASE AbortStep
      BY <1>2, <3>6 DEF AbortStep
    <3> QED BY <2>1, <2>3, <3>2, <3>3, <3>4, <3>5, <3>6, PlanSteps
  <2> QED BY <2>2, <2>3
<1> QED BY <1>1, <1>2 DEF FollowInv

LEMMA FollowInvHolds ==
  ASSUME BalancesAreNumbers
  PROVE  WorkloadSpec => []FollowInv
<1>1. WorkloadInit => FollowInv
  BY WorkInitTypes, FollowsInit DEF FollowInv, AbortedEnds, WorkloadInit
<1>2. FollowInv /\ [WorkloadNext]_workloadVars => FollowInv'
  BY FollowSteps
<1> QED BY <1>1, <1>2, PTL DEF WorkloadSpec

(* Reads at versions the plan has committed. *)
ReadsAfterCommits(p) ==
  \A g \in Gets(p) : \E c \in Commits(p) : c < g /\ Effective(p, c)
                                        /\ p[c].version = p[g].version
NotReading == {"trace_replay", "ycsb_simple", "ycsb_modify"}

(* A program that puts under versions that never fall, and reads at none    *)
(* but those of commits before that had something to commit, finds them     *)
(* committed: no put was refused, and no commit found the batch empty.      *)
LEMMA ReadsAreCommitted ==
  ASSUME BalancesAreNumbers,
         \A name \in DOMAIN Programs \ NotReading : \A p \in Programs[name] :
           Ordered(p) /\ ReadsAfterCommits(p)
  PROVE  WorkloadSpec => []ReadsCommitted
<1>1. ASSUME FollowInv PROVE ReadsCommitted
  <2> SUFFICES ASSUME reply # None, program \notin NotReading
               PROVE  reply.version \in Committed
    BY DEF ReadsCommitted, NotReading
  <2>1. Ordered(plan) /\ ReadsAfterCommits(plan) /\ ~aborted /\ plan \in Seq(Call)
    BY <1>1, PlanTypes DEF FollowInv, WorkTypes, Runs, AbortedEnds
  <2>2. at \in Gets(plan) /\ reply.version = plan[at].version
    BY <1>1 DEF FollowInv, WorkTypes, Replied, Gets
  <2>3. PICK c \in Commits(plan) : c < at /\ Effective(plan, c) /\ plan[c].version = plan[at].version
    BY <2>1, <2>2 DEF ReadsAfterCommits
  <2>4. plan[c].version \in Versions
    BY <2>1, Positions
  <2> QED BY <1>1, <2>1, <2>2, <2>3, <2>4 DEF FollowInv, Follows
<1> QED BY <1>1, FollowInvHolds, PTL

-----------------------------------------------------------------------------
(* What the trie holds when the plan is lawful.                            *)

(* The last write before n of what was committed by then. *)
KeptOf(p, i, n) ==
  /\ i \in Writes(p) /\ i < n /\ ~Gathered(p, i, n)
  /\ \A j \in Writes(p) : i < j /\ j < n /\ p[j].key = p[i].key => Gathered(p, j, n)
Holds(p, i, x) == p[i].op # "settle" => Put2(p, i, x)

HorizonFollows ==
  horizon = 0 \/ \E c \in Commits(plan) : c < at /\ Effective(plan, c)
                                         /\ plan[c].version = horizon
BatchFollows ==
  \A i \in Writes(plan) : Gathered(plan, i, at) /\ LastOf(plan, i, at) =>
    Holds(plan, i, put_cache[plan[i].key])
NewestFollows ==
  /\ \A k \in UserKey :
       (\A i \in Writes(plan) : i < at /\ plan[i].key = k => Gathered(plan, i, at)) =>
         Newest[k] = NoValue
  /\ \A i \in Writes(plan) : KeptOf(plan, i, at) => Holds(plan, i, Newest[plan[i].key])
MapsFollow ==
  \A c \in Commits(plan) : c < at /\ Effective(plan, c) =>
    /\ \A k \in UserKey : Unwritten(plan, k, c) => snapshots[plan[c].version][k] = NoValue
    /\ \A i \in Writes(plan) : LastOf(plan, i, c) =>
         Holds(plan, i, snapshots[plan[c].version][plan[i].key])
ReplyExact ==
  reply # None /\ reply.version >= horizon =>
    reply.value = IF snapshots[reply.version] = None THEN NoValue
                  ELSE snapshots[reply.version][reply.key]
Keeps == HorizonFollows /\ BatchFollows /\ NewestFollows /\ MapsFollow /\ ReplyExact

LEMMA KeepsInit == WorkloadInit /\ WorkTypes => Keeps
<1> SUFFICES ASSUME WorkloadInit, WorkTypes PROVE Keeps
  OBVIOUS
<1>1. at = 1 /\ plan \in Seq(Call)
  BY PlanTypes DEF WorkloadInit, WorkTypes
<1>2. \A i \in Writes(plan) \cup Commits(plan) : ~(i < at)
  BY <1>1 DEF Writes, Commits
<1>3. Newest = EmptyMap
  BY DEF WorkloadInit, TrieInit, Newest, Committed
<1>4. horizon = 0 /\ reply = None
  BY DEF WorkloadInit, TrieInit
<1> QED BY <1>2, <1>3, <1>4 DEF Keeps, HorizonFollows, BatchFollows, NewestFollows, MapsFollow,
     ReplyExact, EmptyMap, KeptOf, Gathered

LEMMA KeepsWrite ==
  ASSUME WorkTypes, Follows, Keeps, NEW x, WriteStep(x)
  PROVE  Keeps'
<1> DEFINE n == at
<1>1. plan \in Seq(Call) /\ n \in DOMAIN plan /\ n \in Nat /\ n \in Writes(plan)
  BY PlanTypes, Positions DEF WorkTypes, WriteStep, Writes
<1>2. \A i \in Writes(plan) \cup Commits(plan) : i \in Nat
  BY <1>1, Positions
<1>3. plan' = plan /\ at' = n + 1 /\ UNCHANGED <<snapshots, horizon>> /\ reply' = None
  BY DEF WriteStep
<1>4. Committed' = Committed /\ Newest' = Newest
  BY <1>3 DEF Committed, Newest
<1>5. \A c \in Commits(plan) : c < n + 1 <=> c < n
  BY <1>1, <1>2, Positions
<1>6. \A i : Gathered(plan, i, n + 1) <=> Gathered(plan, i, n) \/ i = n
  BY <1>1, NextGathered
<1>7. \A i : LastOf(plan, i, n + 1) <=> i = n \/ (LastOf(plan, i, n) /\ plan[i].key # plan[n].key)
  BY <1>1, NextLast
<1>8. BatchFollows'
  <2>1. ASSUME NEW i \in Writes(plan), Gathered(plan, i, n + 1), LastOf(plan, i, n + 1)
        PROVE  Holds(plan, i, put_cache'[plan[i].key])
    <3>1. plan[i].key \in UserKey
      BY <1>1, Positions
    <3>2. put_cache' = [put_cache EXCEPT ![plan[n].key] = x]
      BY DEF WriteStep
    <3>3. CASE i = n
      BY <3>1, <3>2, <3>3 DEF WriteStep, Holds, WorkTypes, TrieTypes
    <3>4. CASE i # n
      <4>1. LastOf(plan, i, n) /\ plan[i].key # plan[n].key /\ Gathered(plan, i, n)
        BY <1>6, <1>7, <2>1, <3>4
      <4>2. put_cache'[plan[i].key] = put_cache[plan[i].key]
        BY <3>1, <3>2, <4>1 DEF WorkTypes, TrieTypes
      <4> QED BY <4>1, <4>2 DEF Keeps, BatchFollows
    <3> QED BY <3>3, <3>4
  <2> QED BY <1>3, <2>1 DEF BatchFollows
<1>9. NewestFollows'
  <2>1. ASSUME NEW k \in UserKey,
               \A i \in Writes(plan) : i < n + 1 /\ plan[i].key = k => Gathered(plan, i, n + 1)
        PROVE  Newest[k] = NoValue
    <3>1. \A i \in Writes(plan) : i < n /\ plan[i].key = k => Gathered(plan, i, n)
      BY <1>1, <1>2, <1>6, <2>1
    <3> QED BY <3>1 DEF Keeps, NewestFollows
  <2>2. ASSUME NEW i \in Writes(plan), KeptOf(plan, i, n + 1)
        PROVE  Holds(plan, i, Newest[plan[i].key])
    <3>1. i < n /\ ~Gathered(plan, i, n)
      BY <1>1, <1>2, <1>6, <2>2 DEF KeptOf
    <3>2. \A j \in Writes(plan) : i < j /\ j < n /\ plan[j].key = plan[i].key => Gathered(plan, j, n)
      BY <1>1, <1>2, <1>6, <2>2 DEF KeptOf
    <3> QED BY <3>1, <3>2 DEF Keeps, NewestFollows, KeptOf
  <2> QED BY <1>3, <1>4, <2>1, <2>2 DEF NewestFollows
<1>10. HorizonFollows' /\ MapsFollow' /\ ReplyExact'
  BY <1>3, <1>5 DEF Keeps, HorizonFollows, MapsFollow, ReplyExact
<1> QED BY <1>8, <1>9, <1>10 DEF Keeps

LEMMA KeepsRead ==
  ASSUME WorkTypes, WorkTypes', Keeps, ReadStep, DoGet \/ Answered \/ DoScan
  PROVE  Keeps'
<1> DEFINE n == at
<1>1. plan \in Seq(Call) /\ n \in DOMAIN plan /\ n \in Nat
  BY PlanTypes, Positions DEF WorkTypes, ReadStep
<1>2. /\ plan' = plan /\ UNCHANGED <<current_version, put_cache, snapshots, horizon>>
      /\ Committed' = Committed /\ Newest' = Newest
  BY DEF ReadStep, Stays, Committed, Newest
<1>3. at' \in {n, n + 1}
  BY DEF ReadStep
<1>4. /\ \A i : Gathered(plan, i, at') <=> Gathered(plan, i, n)
      /\ \A i : LastOf(plan, i, at') <=> LastOf(plan, i, n)
      /\ \A i \in Writes(plan) \cup Commits(plan) : i < at' <=> i < n
  <2>1. /\ \A i : Gathered(plan, i, n + 1) <=> Gathered(plan, i, n)
        /\ \A i : LastOf(plan, i, n + 1) <=> LastOf(plan, i, n)
    BY <1>1, NextGathered, NextLast DEF ReadStep
  <2>2. \A i \in Writes(plan) \cup Commits(plan) : i < n + 1 <=> i < n
    BY <1>1, Positions DEF ReadStep
  <2> QED BY <1>3, <2>1, <2>2
<1>5. \A i \in Writes(plan) : KeptOf(plan, i, at') <=> KeptOf(plan, i, n)
  BY <1>4 DEF KeptOf
<1>6. HorizonFollows' /\ MapsFollow'
  BY <1>2, <1>4 DEF Keeps, HorizonFollows, MapsFollow
<1>7. BatchFollows'
  BY <1>2, <1>4 DEF Keeps, BatchFollows
<1>8. NewestFollows'
  BY <1>2, <1>4, <1>5 DEF Keeps, NewestFollows
<1>9. ReplyExact'
  <2>1. CASE DoGet
    <3>1. /\ plan[at].version \in Versions /\ plan[at].key \in UserKey
          /\ reply' = [key |-> plan[at].key, version |-> plan[at].version, value |-> reply'.value]
          /\ reply'.value \in TrieGet(plan[at].version, plan[at].key)
      BY <2>1, GetTypes
    <3>2. PICK x : x = reply'.value
      OBVIOUS
    <3>3. /\ reply'.key = plan[at].key /\ reply'.version = plan[at].version
          /\ x \in TrieGet(plan[at].version, plan[at].key)
      BY <3>1, <3>2
    <3>4. plan[at].version >= horizon =>
            x = IF snapshots[plan[at].version] = None THEN NoValue
                ELSE snapshots[plan[at].version][plan[at].key]
      BY <3>1, <3>3, TrieGetTypes DEF WorkTypes
    <3> QED BY <1>2, <3>2, <3>3, <3>4 DEF ReplyExact
  <2>2. CASE Answered
    BY <2>2 DEF Answered, ReplyExact
  <2>3. CASE DoScan
    BY <1>2, <2>3 DEF DoScan, Doing, ReplyExact
  <2> QED BY <2>1, <2>2, <2>3
<1> QED BY <1>6, <1>7, <1>8, <1>9 DEF Keeps

(* A commit that follows the law is one the trie promises to keep.         *)
LEMMA LawfulCommit ==
  ASSUME WorkTypes, Follows, Lawful(plan), CommitStep, put_cache # EmptyPutCache
  PROVE  /\ Effective(plan, at)
         /\ \A v \in Committed : v < plan[at].version
         /\ plan[at].version = current_version
         /\ Promised(plan[at].version)
<1>1. plan \in Seq(Call) /\ at \in DOMAIN plan /\ at \in Nat /\ at \in Commits(plan)
  BY PlanTypes, Positions DEF WorkTypes, CommitStep, Commits
<1>2. /\ \A i \in Writes(plan) : i \in Nat /\ plan[i].version \in Nat
      /\ \A c \in Commits(plan) : c \in Nat /\ c \notin Writes(plan) /\ plan[c].version \in Nat
  BY <1>1, Positions, TrieAssumption DEF Versions
<1>3. Effective(plan, at)
  BY <1>1, CacheEmpty DEF Effective
<1>4. PICK i \in Writes(plan) : Gathered(plan, i, at) /\ plan[i].version = plan[at].version
  BY <1>1, <1>3 DEF Lawful, Numbered
<1>5. \A v \in Committed : v < plan[at].version
  <2> TAKE v \in Committed
  <2>1. PICK c \in Commits(plan) : c < at /\ Effective(plan, c) /\ plan[c].version = v
    BY DEF Follows, Committed
  <2>2. c < i
    BY <1>2, <1>4, <2>1 DEF Gathered
  <2> QED BY <1>4, <2>1, <2>2 DEF Lawful, Numbered
<1>6. plan[at].version = current_version
  <2>1. i < at /\ plan[i].version <= current_version /\ plan[i].version >= 1
    BY <1>4 DEF Gathered, Follows, Lawful, Numbered
  <2>2. current_version \in Nat
    BY TrieAssumption DEF WorkTypes, TrieTypes, Versions
  <2>3. PICK j \in Writes(plan) : j < at /\ plan[j].version = current_version
    BY <1>2, <2>1, <2>2 DEF Follows
  <2>4. current_version <= plan[at].version
    BY <1>1, <1>3, <2>3 DEF Lawful, Numbered
  <2> QED BY <1>1, <1>2, <1>4, <2>1, <2>2, <2>4
<1>7. plan[at].version \notin Committed /\ plan[at].version # 0
  BY <1>1, <1>2, <1>4, <1>5 DEF Lawful, Numbered
<1> QED BY <1>3, <1>5, <1>6, <1>7 DEF Promised

LEMMA NewestAfter ==
  ASSUME WorkTypes, NEW v \in Versions, TrieCommit(v), put_cache # EmptyPutCache,
         \A w \in Committed : w < v
  PROVE  /\ Newest' = Over(Newest, put_cache) /\ snapshots'[v] = Over(Newest, put_cache)
         /\ \A w \in Versions : w # v => snapshots'[w] = snapshots[w]
<1>1. snapshots' = [snapshots EXCEPT ![v] = Over(Newest, put_cache)]
  BY DEF TrieCommit
<1>2. Over(Newest, put_cache) # None
  <2>1. Over(Newest, put_cache) \in Maps
    BY NewestIsTyped, OverIsMap DEF WorkTypes, TrieTypes
  <2> QED BY <2>1, TrieAssumption DEF Maps
<1>3. /\ snapshots'[v] = Over(Newest, put_cache)
      /\ \A w \in Versions : w # v => snapshots'[w] = snapshots[w]
  BY <1>1 DEF WorkTypes, TrieTypes
<1>4. \A w \in Versions : w \in Committed' <=> w \in Committed \/ w = v
  BY <1>2, <1>3 DEF Committed
<1>5. Committed' \in SUBSET Nat /\ v \in Committed' /\ \A w \in Committed' : w <= v
  BY <1>4, TrieAssumption DEF Committed, Versions
<1>6. (CHOOSE u \in Committed' : \A w \in Committed' : w <= u) = v
  BY <1>5, Chosen
<1>7. Newest' = snapshots'[v]
  BY <1>5, <1>6 DEF Newest
<1> QED BY <1>3, <1>7

LEMMA KeepsCommit ==
  ASSUME WorkTypes, Follows, Keeps, Lawful(plan), CommitStep
  PROVE  Keeps'
<1> DEFINE n == at
           v == plan[n].version
<1>1. plan \in Seq(Call) /\ n \in DOMAIN plan /\ n \in Nat /\ n \in Commits(plan) /\ n \notin Writes(plan)
  BY PlanTypes, Positions DEF WorkTypes, CommitStep, Commits
<1>2. /\ \A i \in Writes(plan) : i \in Nat /\ plan[i].key \in UserKey
      /\ \A c \in Commits(plan) : c \in Nat /\ plan[c].version \in Versions
  BY <1>1, Positions
<1>3. plan' = plan /\ at' = n + 1 /\ reply' = None /\ TrieCommit(v)
  BY DEF CommitStep
<1>4. /\ \A i : ~Gathered(plan, i, n + 1)
      /\ \A i : LastOf(plan, i, n + 1) <=> LastOf(plan, i, n)
      /\ \A i \in Writes(plan) : i < n + 1 <=> i < n
      /\ \A c \in Commits(plan) : c < n + 1 <=> c < n \/ c = n
  BY <1>1, <1>2, NextGathered, NextLast
<1>5. BatchFollows' /\ ReplyExact'
  BY <1>3, <1>4 DEF BatchFollows, ReplyExact
<1>6. CASE put_cache = EmptyPutCache
  <2>1. UNCHANGED <<snapshots, horizon>> /\ Committed' = Committed /\ Newest' = Newest
    BY <1>3, <1>6 DEF TrieCommit, trie, Committed, Newest
  <2>2. ~Effective(plan, n) /\ \A i : ~Gathered(plan, i, n)
    BY <1>1, <1>6, CacheEmpty DEF Effective, Gathered
  <2>3. HorizonFollows' /\ MapsFollow'
    BY <1>3, <1>4, <2>1, <2>2 DEF Keeps, HorizonFollows, MapsFollow
  <2>4. \A i \in Writes(plan) : KeptOf(plan, i, n + 1) => KeptOf(plan, i, n)
    BY <1>2, <1>4, <2>2 DEF KeptOf
  <2>5. NewestFollows'
    BY <1>3, <1>4, <2>1, <2>2, <2>4 DEF Keeps, NewestFollows
  <2> QED BY <1>5, <2>3, <2>5 DEF Keeps
<1>7. CASE put_cache # EmptyPutCache
  <2>1. /\ Effective(plan, n) /\ Promised(v) /\ v \in Versions
        /\ \A w \in Committed : w < v
    BY <1>1, <1>2, <1>7, LawfulCommit
  <2>2. /\ Newest' = Over(Newest, put_cache) /\ snapshots'[v] = Over(Newest, put_cache)
        /\ \A w \in Versions : w # v => snapshots'[w] = snapshots[w]
    BY <1>3, <1>7, <2>1, NewestAfter
  <2>3. HorizonFollows'
    <3>1. horizon' \in {horizon, v}
      BY <1>3, <1>7, <2>1 DEF TrieCommit
    <3> QED BY <1>1, <1>3, <1>4, <2>1, <3>1 DEF Keeps, HorizonFollows
  <2>4. PICK m : m = Over(Newest, put_cache)
    OBVIOUS
  <2>5. \A k \in UserKey : m[k] = IF put_cache[k] # None THEN put_cache[k] ELSE Newest[k]
    BY <2>4 DEF Over
  <2>6. ASSUME NEW k \in UserKey, Unwritten(plan, k, n) PROVE m[k] = NoValue
    <3>1. \A i \in Writes(plan) : i < n => plan[i].key # k
      BY <2>6 DEF Unwritten
    <3>2. put_cache[k] = None
      BY <3>1 DEF Follows, Gathered
    <3>3. Newest[k] = NoValue
      BY <3>1 DEF Keeps, NewestFollows
    <3> QED BY <2>5, <3>2, <3>3
  <2>7. ASSUME NEW i \in Writes(plan), LastOf(plan, i, n) PROVE Holds(plan, i, m[plan[i].key])
    <3>1. plan[i].key \in UserKey /\ i \in Nat
      BY <1>2
    <3>2. CASE Gathered(plan, i, n)
      <4>1. put_cache[plan[i].key] # None
        BY <3>1, <3>2 DEF Follows
      <4>2. m[plan[i].key] = put_cache[plan[i].key]
        BY <2>5, <3>1, <4>1
      <4> QED BY <2>7, <3>2, <4>2 DEF Keeps, BatchFollows
    <3>3. CASE ~Gathered(plan, i, n)
      <4>1. \A j \in Writes(plan) : Gathered(plan, j, n) => plan[j].key # plan[i].key
        <5> TAKE j \in Writes(plan)
        <5> SUFFICES ASSUME Gathered(plan, j, n), plan[j].key = plan[i].key PROVE FALSE
          OBVIOUS
        <5>1. j \in Nat /\ j < n /\ i < n
          BY <1>2, <2>7 DEF Gathered, LastOf
        <5>2. ~(i < j)
          BY <2>7, <5>1 DEF LastOf
        <5>3. j <= i
          BY <3>1, <5>1, <5>2
        <5>4. \A c \in Commits(plan) : ~(i < c /\ c < n)
          BY <1>2, <3>1, <5>1, <5>3 DEF Gathered
        <5> QED BY <3>3, <5>1, <5>4 DEF Gathered
      <4>2. put_cache[plan[i].key] = None
        BY <3>1, <4>1 DEF Follows
      <4>3. KeptOf(plan, i, n)
        BY <2>7, <3>3 DEF KeptOf, LastOf
      <4>4. m[plan[i].key] = Newest[plan[i].key]
        BY <2>5, <3>1, <4>2
      <4> QED BY <4>3, <4>4 DEF Keeps, NewestFollows
    <3> QED BY <3>2, <3>3
  <2>8. NewestFollows'
    <3>1. \A k \in UserKey :
            (\A i \in Writes(plan) : i < n + 1 /\ plan[i].key = k => Gathered(plan, i, n + 1)) =>
              Unwritten(plan, k, n)
      BY <1>4 DEF Unwritten
    <3>2. \A i \in Writes(plan) : KeptOf(plan, i, n + 1) => LastOf(plan, i, n)
      BY <1>4 DEF KeptOf, LastOf
    <3>3. Newest' = m
      BY <2>2, <2>4
    <3> QED BY <1>3, <2>6, <2>7, <3>1, <3>2, <3>3 DEF NewestFollows
  <2>9. MapsFollow'
    <3>1. ASSUME NEW c \in Commits(plan), c < n + 1, Effective(plan, c)
          PROVE  /\ \A k \in UserKey : Unwritten(plan, k, c) => snapshots'[plan[c].version][k] = NoValue
                 /\ \A i \in Writes(plan) : LastOf(plan, i, c) =>
                      Holds(plan, i, snapshots'[plan[c].version][plan[i].key])
      <4>1. CASE c = n
        BY <2>2, <2>4, <2>6, <2>7, <4>1
      <4>2. CASE c # n
        <5>1. c < n /\ plan[c].version \in Committed
          BY <1>2, <1>4, <3>1, <4>2 DEF Follows
        <5>2. plan[c].version < v /\ plan[c].version \in Versions /\ v \in Versions
          BY <1>2, <2>1, <5>1
        <5>3. plan[c].version # v
          BY <5>2, TrieAssumption DEF Versions
        <5>4. snapshots'[plan[c].version] = snapshots[plan[c].version]
          BY <2>2, <5>2, <5>3
        <5> QED BY <3>1, <5>1, <5>4 DEF Keeps, MapsFollow
      <4> QED BY <4>1, <4>2
    <3> QED BY <1>3, <3>1 DEF MapsFollow
  <2> QED BY <1>5, <2>3, <2>8, <2>9 DEF Keeps
<1> QED BY <1>6, <1>7

LEMMA NothingKept ==
  ASSUME Keeps, UNCHANGED workloadVars
  PROVE  Keeps'
BY DEF Keeps, HorizonFollows, BatchFollows, NewestFollows, MapsFollow, ReplyExact, Newest,
   Committed, workloadVars, trie, run

KeepInv == FollowInv /\ (Ordered(plan) /\ Lawful(plan) /\ ~aborted => Keeps)

LEMMA KeepSteps ==
  ASSUME KeepInv, BalancesAreNumbers, [WorkloadNext]_workloadVars
  PROVE  KeepInv'
<1>1. FollowInv' /\ WorkTypes'
  BY FollowSteps DEF KeepInv, FollowInv
<1>2. ASSUME Ordered(plan)', Lawful(plan)', ~aborted' PROVE Keeps'
  <2>1. Ordered(plan) /\ Lawful(plan)
    BY <1>2, PlanStays
  <2>2. CASE UNCHANGED workloadVars
    <3>1. ~aborted
      BY <1>2, <2>2 DEF workloadVars, results
    <3> QED BY <2>1, <2>2, <3>1, NothingKept DEF KeepInv
  <2>3. CASE WorkloadNext
    <3>1. ~aborted
      BY <2>3, AbortedStays DEF KeepInv, FollowInv
    <3>2. WorkTypes /\ Follows /\ Keeps
      BY <2>1, <3>1 DEF KeepInv, FollowInv
    <3>3. CASE \E x : WriteStep(x)
      BY <3>2, <3>3, KeepsWrite
    <3>4. CASE CommitStep
      BY <2>1, <3>2, <3>4, KeepsCommit
    <3>5. CASE ReadStep /\ (DoGet \/ Answered \/ DoScan)
      BY <1>1, <3>2, <3>5, KeepsRead
    <3>6. CASE AbortStep
      BY <1>2, <3>6 DEF AbortStep
    <3> QED BY <2>1, <2>3, <3>2, <3>3, <3>4, <3>5, <3>6, PlanSteps
  <2> QED BY <2>2, <2>3
<1> QED BY <1>1, <1>2 DEF KeepInv

LEMMA KeepInvHolds ==
  ASSUME BalancesAreNumbers
  PROVE  WorkloadSpec => []KeepInv
<1>1. WorkloadInit => KeepInv
  BY WorkInitTypes, FollowsInit, KeepsInit DEF KeepInv, FollowInv, AbortedEnds, WorkloadInit
<1>2. KeepInv /\ [WorkloadNext]_workloadVars => KeepInv'
  BY KeepSteps
<1> QED BY <1>1, <1>2, PTL DEF WorkloadSpec

-----------------------------------------------------------------------------
(* What the programs expect to read.                                       *)

ExpectsNothing(p) == \A g \in Gets(p) : p[g].value = None

(* A value expected at a version is the one its commit leaves.             *)
Expecting(p) ==
  \A g \in Gets(p) : p[g].value # None =>
    \E c \in Commits(p) : /\ c < g /\ Effective(p, c) /\ p[c].version = p[g].version
                          /\ Leaves(p, c, p[g].key, p[g].value)

(* It is expected at the last version committed before.                    *)
ReadsNewest(p) ==
  \A g \in Gets(p) : p[g].value # None =>
    \A c \in Commits(p) : c < g /\ Effective(p, c) => p[c].version <= p[g].version

Answerable(p) == Ordered(p) /\ Lawful(p) /\ Expecting(p)

WrongInv ==
  /\ KeepInv
  /\ ExpectsNothing(plan) => wrong = {}
  /\ Answerable(plan) => /\ \A v \in wrong : v < horizon
                         /\ ReadsNewest(plan) => wrong = {}

(* The answer to a get is what the plan expects, unless it may be anything. *)
LEMMA AnswerExpected ==
  ASSUME KeepInv, Answerable(plan), ~aborted, Answered
  PROVE  /\ Operation.value \in {None, reply.value} \/ Operation.version < horizon
         /\ ReadsNewest(plan) => Operation.value \in {None, reply.value}
<1>1. /\ plan \in Seq(Call) /\ at \in Gets(plan) /\ WorkTypes /\ Follows /\ Keeps
      /\ reply.key = plan[at].key /\ reply.version = plan[at].version /\ reply # None
  BY PlanTypes DEF KeepInv, FollowInv, WorkTypes, Replied, Answered, Gets, Answerable
<1> SUFFICES ASSUME plan[at].value # None
             PROVE  /\ plan[at].value = reply.value \/ plan[at].version < horizon
                    /\ ReadsNewest(plan) => plan[at].value = reply.value
  BY DEF Operation
<1>2. PICK c \in Commits(plan) :
        /\ c < at /\ Effective(plan, c) /\ plan[c].version = plan[at].version
        /\ Leaves(plan, c, plan[at].key, plan[at].value)
  BY <1>1 DEF Answerable, Expecting
<1>3. /\ plan[at].version \in Versions /\ plan[at].key \in UserKey
      /\ plan[at].version \in Nat /\ horizon \in Nat
  BY <1>1, Positions, TrieAssumption DEF Versions, WorkTypes, TrieTypes
<1>4. snapshots[plan[at].version] # None
  BY <1>1, <1>2, <1>3 DEF Follows, Committed
<1>5. snapshots[plan[at].version][plan[at].key] = plan[at].value
  <2>1. CASE Unwritten(plan, plan[at].key, c) /\ plan[at].value = NoValue
    BY <1>1, <1>2, <1>3, <2>1 DEF Keeps, MapsFollow
  <2>2. ASSUME NEW i \in Writes(plan), LastOf(plan, i, c), plan[i].key = plan[at].key,
               Put2(plan, i, plan[at].value)
        PROVE  snapshots[plan[at].version][plan[at].key] = plan[at].value
    <3>1. Holds(plan, i, snapshots[plan[at].version][plan[at].key])
      BY <1>1, <1>2, <2>2 DEF Keeps, MapsFollow
    <3> QED BY <2>2, <3>1 DEF Holds, Put2
  <2> QED BY <1>2, <2>1, <2>2 DEF Leaves
<1>6. plan[at].version >= horizon => reply.value = plan[at].value
  BY <1>1, <1>4, <1>5 DEF Keeps, ReplyExact
<1>7. ReadsNewest(plan) => plan[at].version >= horizon
  <2> SUFFICES ASSUME ReadsNewest(plan) PROVE plan[at].version >= horizon
    OBVIOUS
  <2>1. CASE horizon = 0
    BY <1>3, <2>1
  <2>2. ASSUME NEW d \in Commits(plan), d < at, Effective(plan, d), plan[d].version = horizon
        PROVE  plan[at].version >= horizon
    BY <1>1, <1>3, <2>2 DEF ReadsNewest
  <2> QED BY <1>1, <2>1, <2>2 DEF Keeps, HorizonFollows
<1> QED BY <1>3, <1>6, <1>7

(* A lawful plan only moves the horizon on. *)
LEMMA HorizonGrows ==
  ASSUME KeepInv, Answerable(plan), BalancesAreNumbers, WorkloadNext
  PROVE  horizon \in Nat /\ horizon' \in Nat /\ horizon <= horizon'
<1>1. /\ WorkTypes /\ plan \in Seq(Call) /\ Follows /\ Keeps /\ horizon \in Nat
  BY AbortedStays, PlanTypes, TrieAssumption
     DEF KeepInv, FollowInv, WorkTypes, TrieTypes, Answerable
<1>2. CASE horizon' = horizon
  BY <1>1, <1>2
<1>3. CASE CommitStep /\ put_cache # EmptyPutCache
  <2>1. /\ Promised(plan[at].version) /\ \A v \in Committed : v < plan[at].version
        /\ plan[at].version \in Versions
    BY <1>1, <1>3, LawfulCommit, Positions DEF Answerable, CommitStep
  <2>2. horizon' \in {horizon, plan[at].version} /\ plan[at].version \in Nat
    BY <1>3, <2>1, TrieAssumption DEF CommitStep, TrieCommit, Versions
  <2>3. horizon = 0 \/ horizon \in Committed
    <3>1. \A c \in Commits(plan) : plan[c].version \in Versions
      BY <1>1, Positions
    <3> QED BY <1>1, <3>1 DEF Keeps, HorizonFollows, Follows
  <2>4. horizon < plan[at].version \/ horizon = 0
    BY <2>1, <2>3
  <2> QED BY <1>1, <2>2, <2>4
<1>4. CASE CommitStep /\ put_cache = EmptyPutCache
  BY <1>2, <1>4 DEF CommitStep, TrieCommit, trie
<1>5. \/ \E x : WriteStep(x)
      \/ CommitStep
      \/ ReadStep
      \/ AbortStep
  BY <1>1, PlanSteps DEF Answerable
<1> QED BY <1>2, <1>3, <1>4, <1>5 DEF WriteStep, ReadStep, AbortStep, Stays

LEMMA WrongSteps ==
  ASSUME WrongInv, BalancesAreNumbers, [WorkloadNext]_workloadVars
  PROVE  WrongInv'
<1>1. KeepInv' /\ UNCHANGED <<program, plan>>
  BY KeepSteps, PlanStays DEF WrongInv
<1>2. CASE UNCHANGED workloadVars
  BY <1>1, <1>2 DEF WrongInv, workloadVars, trie, results
<1>3. CASE WorkloadNext /\ Answered
  <2>1. /\ wrong' = IF Operation.value \notin {None, reply.value}
                      THEN wrong \cup {Operation.version} ELSE wrong
        /\ UNCHANGED horizon /\ ~aborted /\ at \in Gets(plan)
    <3>1. at \in Gets(plan)
      BY <1>3, PlanTypes DEF Answered, WrongInv, KeepInv, FollowInv, WorkTypes, Replied, Gets
    <3> QED BY <1>3, <3>1, AbortedStays DEF Answered, trie, WrongInv, KeepInv, FollowInv
  <2>2. ExpectsNothing(plan) => wrong' = {}
    BY <2>1 DEF ExpectsNothing, WrongInv, Operation
  <2>3. Answerable(plan) => /\ \A v \in wrong' : v < horizon'
                            /\ ReadsNewest(plan) => wrong' = {}
    BY <1>3, <2>1, AnswerExpected DEF WrongInv
  <2> QED BY <1>1, <2>2, <2>3 DEF WrongInv
<1>4. CASE WorkloadNext /\ ~Answered
  <2>1. wrong' = wrong
    BY <1>4 DEF WorkloadNext, DoPut, DoDelete, DoCommit, DoGet, DoScan, DoSettle, Abort, results
  <2>2. Answerable(plan) => horizon \in Nat /\ horizon' \in Nat /\ horizon <= horizon'
    BY <1>4, HorizonGrows DEF WrongInv
  <2>3. wrong \subseteq Versions /\ Versions \subseteq Nat
    BY TrieAssumption DEF WrongInv, KeepInv, FollowInv, WorkTypes, ResultTypes, Versions
  <2>4. Answerable(plan) => \A v \in wrong : v < horizon'
    BY <2>2, <2>3 DEF WrongInv
  <2> QED BY <1>1, <2>1, <2>4 DEF WrongInv
<1> QED BY <1>2, <1>3, <1>4

Newly == {"get_put", "put_get_inter_hashed_key"}

(* wrong_cnt counts only reads that a checkpoint may have made unreadable,  *)
(* and nothing at all in the programs that read a version before they       *)
(* commit the next one.                                                     *)
LEMMA WrongIsRightHolds ==
  ASSUME BalancesAreNumbers,
         \A name \in DOMAIN Programs : \A p \in Programs[name] :
           /\ ExpectsNothing(p) \/ Answerable(p)
           /\ name \in Newly => ReadsNewest(p)
  PROVE  WorkloadSpec => []WrongIsRight
<1>1. WorkloadInit => WrongInv
  BY WorkInitTypes, FollowsInit, KeepsInit
     DEF WrongInv, KeepInv, FollowInv, AbortedEnds, WorkloadInit
<1>2. WrongInv /\ [WorkloadNext]_workloadVars => WrongInv'
  BY WrongSteps
<1>3. WrongInv => WrongIsRight
  <2> SUFFICES ASSUME WrongInv PROVE WrongIsRight
    OBVIOUS
  <2>1. program \in DOMAIN Programs /\ plan \in Programs[program]
    BY DEF WrongInv, KeepInv, FollowInv, WorkTypes, Runs
  <2> QED BY <2>1 DEF WrongInv, WrongIsRight, Newly
<1> QED BY <1>1, <1>2, <1>3, PTL DEF WorkloadSpec

-----------------------------------------------------------------------------
(* The calls of a lawful plan, one by one.                                 *)

PromisedStep == Promise!MapNext \/ UNCHANGED Promise!mapVars

LEMMA WriteIsLawful ==
  ASSUME WorkTypes, Ordered(plan), Lawful(plan), Follows, NEW x, WriteStep(x)
  PROVE  PromisedStep
<1>1. plan \in Seq(Call) /\ at \in Writes(plan) /\ at \in Nat
  BY PlanTypes, Positions DEF WorkTypes, WriteStep
<1>2. PICK v : v = plan[at].version
  OBVIOUS
<1>3. PICK k : k = plan[at].key
  OBVIOUS
<1>4. v \in Versions /\ v \in Nat /\ k \in UserKey /\ v >= 1
  BY <1>1, <1>2, <1>3, Positions, TrieAssumption DEF Lawful, Numbered, Versions
<1>5. v >= current_version
  <2>1. CASE current_version = 0
    BY <1>4, <2>1
  <2>2. ASSUME NEW i \in Writes(plan), i < at, plan[i].version = current_version
        PROVE  v >= current_version
    <3> QED BY <1>1, <1>2, <2>2 DEF Ordered
  <2> QED BY <2>1, <2>2 DEF Follows
<1>6. snapshots[v] = None
  <2> SUFFICES ASSUME v \in Committed PROVE FALSE
    BY <1>4 DEF Committed
  <2>1. PICK c \in Commits(plan) : c < at /\ Effective(plan, c) /\ plan[c].version = v
    BY <1>4 DEF Follows
  <2> QED BY <1>1, <1>2, <1>4, <2>1 DEF Lawful, Numbered
<1>7. /\ reply = None /\ current_version' = v /\ put_cache' = [put_cache EXCEPT ![k] = x]
      /\ UNCHANGED <<snapshots, horizon, reply>> /\ x \in Value \cup {NoValue}
  BY <1>2, <1>3 DEF WriteStep, Answer
<1>8. Promise!MapWrite(k, x, v)
  BY <1>4, <1>5, <1>6, <1>7 DEF Promise!MapWrite
<1> QED BY <1>4, <1>7, <1>8 DEF PromisedStep, Promise!MapNext

LEMMA CommitIsLawful ==
  ASSUME WorkTypes, Lawful(plan), Follows, CommitStep
  PROVE  PromisedStep
<1>1. CASE put_cache = EmptyPutCache
  BY <1>1 DEF CommitStep, TrieCommit, trie, PromisedStep, Promise!mapVars
<1>2. CASE put_cache # EmptyPutCache
  <2>1. plan[at].version = current_version /\ Promised(plan[at].version)
    BY <1>2, LawfulCommit
  <2>2. /\ reply = None /\ UNCHANGED <<reply, current_version>>
        /\ put_cache' = EmptyPutCache
        /\ snapshots' = [snapshots EXCEPT ![current_version] = Over(Newest, put_cache)]
        /\ horizon' \in {horizon, current_version}
    BY <1>2, <2>1 DEF CommitStep, TrieCommit
  <2>3. Promise!Newest = Newest /\ Promise!EmptyBatch = EmptyPutCache
    BY DEF Promise!Newest, Newest, Promise!CommittedVersions, Committed, Promise!EmptyMap,
       EmptyMap, Promise!EmptyBatch, EmptyPutCache
  <2>4. Promise!MapCommit
    BY <1>2, <2>2, <2>3 DEF Promise!MapCommit, Over
  <2> QED BY <2>4 DEF PromisedStep, Promise!MapNext
<1> QED BY <1>1, <1>2

LEMMA ReadIsLawful ==
  ASSUME WorkTypes, DoGet \/ Answered \/ DoScan
  PROVE  PromisedStep
<1>1. CASE DoGet
  <2>1. /\ plan[at].version \in Versions /\ plan[at].key \in UserKey
        /\ reply' = [key |-> plan[at].key, version |-> plan[at].version, value |-> reply'.value]
        /\ reply'.value \in TrieGet(plan[at].version, plan[at].key)
    BY <1>1, GetTypes
  <2>2. PICK x : x = reply'.value
    OBVIOUS
  <2>3. /\ x \in Value \cup {NoValue}
        /\ plan[at].version >= horizon => x = Promise!At(plan[at].key, plan[at].version)
    BY <2>1, <2>2, TrieGetTypes DEF WorkTypes, Answer, Promise!At
  <2>4. Promise!MapGet(plan[at].key, plan[at].version, x)
    BY <1>1, <2>1, <2>2, <2>3 DEF DoGet, Doing, trie, Promise!MapGet
  <2> QED BY <2>1, <2>3, <2>4 DEF PromisedStep, Promise!MapNext
<1>2. CASE Answered
  BY <1>2 DEF Answered, trie, PromisedStep, Promise!MapNext, Promise!MapTake
<1>3. CASE DoScan
  BY <1>3 DEF DoScan, trie, PromisedStep, Promise!mapVars
<1> QED BY <1>1, <1>2, <1>3

(* Every call of such a plan is one the versioned map promises to answer.   *)
LEMMA CallsAreLawful ==
  ASSUME BalancesAreNumbers,
         \A name \in DOMAIN Programs \ {"ycsb_modify"} : \A p \in Programs[name] :
           \/ Ordered(p) /\ Lawful(p)
           \/ \E i \in DOMAIN p : p[i].op \in {"put", "delete"} /\ p[i].version = 0
  PROVE  WorkloadSpec => CallsLawful
<1>1. ASSUME KeepInv, [WorkloadNext]_workloadVars
      PROVE  [0 \in Used \/ program = "ycsb_modify" \/ Promise!MapNext]_(Promise!mapVars)
  <2> SUFFICES ASSUME 0 \notin Used, program # "ycsb_modify" PROVE PromisedStep
    BY DEF PromisedStep
  <2>1. CASE UNCHANGED workloadVars
    BY <2>1 DEF workloadVars, trie, PromisedStep, Promise!mapVars
  <2>2. CASE WorkloadNext
    <3>1. Ordered(plan) /\ Lawful(plan)
      BY <1>1 DEF Used, OfKind, KeepInv, FollowInv, WorkTypes, Runs
    <3>2. WorkTypes /\ Follows
      BY <1>1, <2>2, <3>1, AbortedStays DEF KeepInv, FollowInv
    <3>3. CASE AbortStep
      BY <3>3 DEF AbortStep, Stays, PromisedStep, Promise!mapVars
    <3> QED BY <2>2, <3>1, <3>2, <3>3, PlanSteps, WriteIsLawful, CommitIsLawful, ReadIsLawful
  <2> QED BY <1>1, <2>1, <2>2
<1>2. KeepInv /\ [WorkloadNext]_workloadVars =>
        [0 \in Used \/ program = "ycsb_modify" \/ Promise!MapNext]_(Promise!mapVars)
  BY <1>1
<1> QED BY <1>2, KeepInvHolds, PTL DEF WorkloadSpec, CallsLawful

-----------------------------------------------------------------------------
(* The programs of Benchmarks, for all options: how their plans are built.  *)

LEMMA Induct ==
  ASSUME NEW S, 0 \in S, \A n \in Nat : n \in S => n + 1 \in S
  PROVE  \A n \in Nat : n \in S
<1> DEFINE R == OpToRel(<, Nat)
           Rest == Nat \ S
<1>1. IsWellFoundedOn(R, Nat)
  BY NatLessThanWellFounded
<1>2. \A r : r \in R <=> r \in Nat \X Nat /\ r[1] < r[2]
  BY DEF OpToRel
<1> HIDE DEF R
<1> SUFFICES ASSUME Rest # {} PROVE FALSE
  OBVIOUS
<1>3. PICK d \in Rest : \A e \in Rest : ~ (<<e, d>> \in R)
  <2>1. Rest \in SUBSET Nat
    OBVIOUS
  <2> HIDE DEF Rest
  <2> QED BY <1>1, <2>1, WFMin
<1>4. d \in Nat /\ d # 0 /\ d - 1 \in Nat
  BY <1>3
<1>5. d - 1 \in Rest
  BY <1>3, <1>4
<1>6. <<d - 1, d>> \in R
  BY <1>2, <1>4
<1> QED BY <1>3, <1>5, <1>6

(* The concatenation that a loop makes, block by block.                    *)
LEMMA FlatExists ==
  ASSUME NEW s
  PROVE  \A n \in Nat : \E F : F = [i \in 1..n |-> IF i = 1 THEN s[i] ELSE F[i - 1] \o s[i]]
<1> DEFINE S == {n \in Nat : \E F : F = [i \in 1..n |-> IF i = 1 THEN s[i] ELSE F[i - 1] \o s[i]]}
<1>1. 0 \in S
  <2>1. PICK F : F = [i \in 1..0 |-> s[i]]
    OBVIOUS
  <2>2. F = [i \in 1..0 |-> IF i = 1 THEN s[i] ELSE F[i - 1] \o s[i]]
    BY <2>1
  <2> QED BY <2>2
<1>2. ASSUME NEW n \in Nat, n \in S PROVE n + 1 \in S
  <2>1. PICK F : F = [i \in 1..n |-> IF i = 1 THEN s[i] ELSE F[i - 1] \o s[i]]
    BY <1>2
  <2>2. PICK G : G = [i \in 1..(n + 1) |-> IF i = n + 1 THEN IF i = 1 THEN s[i] ELSE F[n] \o s[i]
                                           ELSE F[i]]
    OBVIOUS
  <2>3. ASSUME NEW i \in 1..(n + 1)
        PROVE  G[i] = IF i = 1 THEN s[i] ELSE G[i - 1] \o s[i]
    <3>1. CASE i = n + 1 /\ i # 1
      <4>1. i - 1 = n /\ n \in 1..(n + 1) /\ n # n + 1 /\ i \in 1..(n + 1)
        BY <3>1
      <4>2. G[n] = F[n] /\ G[i] = F[n] \o s[i]
        BY <2>2, <3>1, <4>1
      <4> QED BY <3>1, <4>1, <4>2
    <3>2. CASE i = n + 1 /\ i = 1
      BY <2>2, <3>2
    <3>3. CASE i # n + 1
      <4>1. i \in 1..n /\ G[i] = F[i]
        BY <2>2, <3>3
      <4>2. i # 1 => G[i - 1] = F[i - 1]
        BY <2>2, <3>3
      <4>3. F[i] = IF i = 1 THEN s[i] ELSE F[i - 1] \o s[i]
        BY <2>1, <4>1
      <4> QED BY <4>1, <4>2, <4>3
    <3> QED BY <3>1, <3>2, <3>3
  <2>4. G = [i \in 1..(n + 1) |-> IF i = 1 THEN s[i] ELSE G[i - 1] \o s[i]]
    BY <2>2, <2>3
  <2>5. n + 1 \in Nat
    OBVIOUS
  <2>6. \E H : H = [i \in 1..(n + 1) |-> IF i = 1 THEN s[i] ELSE H[i - 1] \o s[i]]
    BY <2>4
  <2> QED BY <2>5, <2>6
<1> HIDE DEF S
<1>3. \A n \in Nat : n \in S
  BY <1>1, <1>2, Induct
<1> QED BY <1>3 DEF S

LEMMA FlattenInduct ==
  ASSUME NEW T, NEW n \in Nat, NEW s \in [1..n -> Seq(T)], NEW P, <<0, <<>>>> \in P,
         \A j \in 0..(n - 1), q \in Seq(T) : <<j, q>> \in P => <<j + 1, q \o s[j + 1]>> \in P
  PROVE  B!FlattenSeq(s) \in Seq(T) /\ <<n, B!FlattenSeq(s)>> \in P
<1>1. s \in Seq(Seq(T)) /\ Len(s) = n
  OBVIOUS
<1>2. CASE n = 0
  <2>1. s = <<>>
    BY <1>1, <1>2
  <2> QED BY <1>1, <1>2, <2>1 DEF B!FlattenSeq
<1>3. CASE n # 0
  <2> DEFINE F == CHOOSE f : f = [i \in 1..n |-> IF i = 1 THEN s[i] ELSE f[i - 1] \o s[i]]
  <2>1. F = [i \in 1..n |-> IF i = 1 THEN s[i] ELSE F[i - 1] \o s[i]]
    BY FlatExists
  <2>2. B!FlattenSeq(s) = F[n]
    BY <1>1, <1>3 DEF B!FlattenSeq
  <2> HIDE DEF F
  <2> DEFINE S == {m \in Nat : m + 1 \in 1..n => F[m + 1] \in Seq(T) /\ <<m + 1, F[m + 1]>> \in P}
  <2>3. 0 \in S
    <3>1. F[1] = s[1] /\ s[1] \in Seq(T)
      BY <1>3, <2>1
    <3>2. <<>> \o s[1] = s[1] /\ <<>> \in Seq(T)
      BY <3>1
    <3>3. <<1, s[1]>> \in P
      <4>1. 0 \in 0..(n - 1) /\ 0 + 1 = 1
        BY <1>3
      <4> QED BY <3>2, <4>1
    <3>4. 0 + 1 = 1
      OBVIOUS
    <3>5. F[0 + 1] \in Seq(T) /\ <<0 + 1, F[0 + 1]>> \in P
      BY <3>1, <3>3, <3>4
    <3> QED BY <3>5
  <2>4. ASSUME NEW m \in Nat, m \in S PROVE m + 1 \in S
    <3> SUFFICES ASSUME m + 2 \in 1..n
                 PROVE  F[m + 2] \in Seq(T) /\ <<m + 2, F[m + 2]>> \in P
      OBVIOUS
    <3>1. F[m + 2] = F[m + 1] \o s[m + 2]
      <4>1. m + 2 # 1 /\ (m + 2) - 1 = m + 1
        OBVIOUS
      <4>2. F[m + 2] = IF m + 2 = 1 THEN s[m + 2] ELSE F[(m + 2) - 1] \o s[m + 2]
        BY <2>1
      <4> QED BY <4>1, <4>2
    <3>2. F[m + 1] \in Seq(T) /\ <<m + 1, F[m + 1]>> \in P /\ s[m + 2] \in Seq(T)
      BY <2>4
    <3>3. m + 1 \in 0..(n - 1) /\ m + 1 + 1 = m + 2
      OBVIOUS
    <3>4. <<m + 2, F[m + 1] \o s[m + 2]>> \in P
      <4>1. <<m + 1 + 1, F[m + 1] \o s[m + 1 + 1]>> \in P
        BY <3>2, <3>3
      <4> QED BY <3>3, <4>1
    <3>5. F[m + 1] \o s[m + 2] \in Seq(T)
      BY <3>2
    <3> QED BY <3>1, <3>4, <3>5
  <2> HIDE DEF S
  <2>5. \A m \in Nat : m \in S
    BY <2>3, <2>4, Induct
  <2>6. n - 1 \in S
    BY <1>3, <2>5
  <2> QED BY <1>3, <2>2, <2>6 DEF S
<1> QED BY <1>2, <1>3

(* Operations of any version and key: a plan is put together before its     *)
(* bounds are looked at.                                                    *)
Keys == UserKey \cup Int
Op ==
  [op : {"put"}, version : Nat, key : Keys, value : Asked, noted : BOOLEAN]
  \cup [op : {"get"}, version : Nat, key : Keys, value : Expectable, noted : BOOLEAN]
  \cup [op : {"delete"}, version : Nat, key : Keys]
  \cup [op : {"settle"}, version : Nat, key : Keys, side : {"send", "recv"}]
  \cup [op : {"commit", "scan"}, version : Nat]

LEMMA Places ==
  ASSUME NEW p \in Seq(Op)
  PROVE  /\ DOMAIN p = 1..Len(p) /\ Len(p) \in Nat
         /\ \A i \in DOMAIN p : i \in Nat /\ p[i].version \in Nat
         /\ Writes(p) \subseteq 1..Len(p) /\ Commits(p) \subseteq 1..Len(p)
         /\ Gets(p) \subseteq 1..Len(p)
         /\ Writes(p) \cap Commits(p) = {} /\ Gets(p) \cap Commits(p) = {}
         /\ Writes(p) \cap Gets(p) = {}
<1>1. DOMAIN p = 1..Len(p) /\ Len(p) \in Nat /\ \A i \in DOMAIN p : i \in Nat /\ p[i] \in Op
  OBVIOUS
<1>2. \A o \in Op : o.version \in Nat
  BY DEF Op
<1> QED BY <1>1, <1>2 DEF Writes, Commits, Gets

(* q is p followed by b. *)
Joined(q, p, b) ==
  /\ Len(q) = Len(p) + Len(b) /\ DOMAIN q = 1..Len(q)
  /\ \A i \in 1..Len(p) : q[i] = p[i]
  /\ \A m \in 1..Len(b) : q[Len(p) + m] = b[m]
  /\ \A i \in 1..Len(p) : /\ i \in Writes(q) <=> i \in Writes(p)
                          /\ i \in Commits(q) <=> i \in Commits(p)
                          /\ i \in Gets(q) <=> i \in Gets(p)
  /\ \A m \in 1..Len(b) : /\ Len(p) + m \in Writes(q) <=> m \in Writes(b)
                          /\ Len(p) + m \in Commits(q) <=> m \in Commits(b)
                          /\ Len(p) + m \in Gets(q) <=> m \in Gets(b)
  /\ \A i \in 1..Len(q) : i \in 1..Len(p) \/ \E m \in 1..Len(b) : i = Len(p) + m

LEMMA Joins ==
  ASSUME NEW p \in Seq(Op), NEW b \in Seq(Op)
  PROVE  p \o b \in Seq(Op) /\ Joined(p \o b, p, b)
<1>1. PICK q : q = p \o b
  OBVIOUS
<1>2. q \in Seq(Op) /\ Len(q) = Len(p) + Len(b) /\ DOMAIN q = 1..Len(q)
  BY <1>1
<1>3. \A i \in 1..Len(p) : q[i] = p[i]
  BY <1>1
<1>4. \A m \in 1..Len(b) : q[Len(p) + m] = b[m]
  BY <1>1
<1>5. \A i \in 1..Len(q) : i \in 1..Len(p) \/ \E m \in 1..Len(b) : i = Len(p) + m
  <2> TAKE i \in 1..Len(q)
  <2>1. CASE i <= Len(p)
    BY <2>1
  <2>2. CASE ~(i <= Len(p))
    <3>1. i - Len(p) \in 1..Len(b) /\ i = Len(p) + (i - Len(p))
      BY <1>2, <2>2
    <3> QED BY <3>1
  <2> QED BY <2>1, <2>2
<1>6. /\ DOMAIN p = 1..Len(p) /\ DOMAIN b = 1..Len(b)
      /\ \A i \in 1..Len(p) : i \in DOMAIN q
      /\ \A m \in 1..Len(b) : Len(p) + m \in DOMAIN q
  BY <1>2
<1> QED BY <1>1, <1>2, <1>3, <1>4, <1>5, <1>6 DEF Joined, Writes, Commits, Gets

(* What follows a commit does not change what it does. *)
LEMMA Before ==
  ASSUME NEW p \in Seq(Op), NEW b \in Seq(Op), NEW q, Joined(q, p, b), q \in Seq(Op)
  PROVE  /\ \A i : \A n \in 1..(Len(p) + 1) :
               (Gathered(q, i, n) <=> Gathered(p, i, n)) /\ (LastOf(q, i, n) <=> LastOf(p, i, n))
         /\ \A c \in 1..Len(p) : Effective(q, c) <=> Effective(p, c)
         /\ \A k, x : \A c \in 1..Len(p) : Leaves(q, c, k, x) <=> Leaves(p, c, k, x)
<1>1. /\ \A i \in Writes(q) \cup Commits(q) : i \in 1..Len(q)
      /\ \A i \in Writes(p) \cup Commits(p) : i \in 1..Len(p)
      /\ Len(p) \in Nat /\ Len(q) \in Nat
  BY Places
<1>2. /\ \A i : i \in Writes(p) <=> i \in Writes(q) /\ i < Len(p) + 1
      /\ \A i : i \in Commits(p) <=> i \in Commits(q) /\ i < Len(p) + 1
      /\ \A i \in 1..Len(p) : q[i] = p[i]
  BY <1>1 DEF Joined
<1>3. ASSUME NEW n \in 1..(Len(p) + 1), NEW i
      PROVE  /\ Gathered(q, i, n) <=> Gathered(p, i, n)
             /\ LastOf(q, i, n) <=> LastOf(p, i, n)
  BY <1>1, <1>2 DEF Gathered, LastOf
<1>4. ASSUME NEW c \in 1..Len(p)
      PROVE  /\ Effective(q, c) <=> Effective(p, c)
             /\ \A k, x : Leaves(q, c, k, x) <=> Leaves(p, c, k, x)
  <2>1. /\ c \in 1..(Len(p) + 1)
        /\ c \in Commits(q) <=> c \in Commits(p)
        /\ \A i : i \in Writes(q) /\ i < c <=> i \in Writes(p) /\ i < c
        /\ \A i : Gathered(q, i, c) <=> Gathered(p, i, c)
        /\ \A i : LastOf(q, i, c) <=> LastOf(p, i, c)
    BY <1>1, <1>2, <1>3
  <2>2. Effective(q, c) <=> Effective(p, c)
    BY <2>1 DEF Effective, Gathered
  <2>3. \A i \in Writes(p) : i < c => q[i] = p[i]
    BY <1>1, <1>2
  <2>4. \A k : Unwritten(q, k, c) <=> Unwritten(p, k, c)
    BY <2>1, <2>3 DEF Unwritten
  <2>5. \A i, x : LastOf(p, i, c) => (Put2(q, i, x) <=> Put2(p, i, x)) /\ q[i] = p[i]
    BY <2>3 DEF LastOf, Put2
  <2>6. ASSUME NEW k, NEW x PROVE Leaves(q, c, k, x) <=> Leaves(p, c, k, x)
    BY <2>1, <2>4, <2>5 DEF Leaves, LastOf
  <2> QED BY <2>2, <2>6
<1> QED BY <1>3, <1>4

(* A plan that ends with nothing gathered, and was put to under versions    *)
(* from lo to hi only.                                                      *)
Rounds(p, lo, hi) ==
  /\ p \in Seq(Op) /\ Ordered(p) /\ Numbered(p)
  /\ \A i \in Writes(p) : lo <= p[i].version /\ p[i].version <= hi
  /\ \A c \in Commits(p) : Effective(p, c) => p[c].version <= hi
  /\ \A i : ~Gathered(p, i, Len(p) + 1)

(* A commit of the plan has left x for k in version v. *)
Reached(p, v) == \E c \in Commits(p) : Effective(p, c) /\ p[c].version = v
Known(p, v, k, x) ==
  \E c \in Commits(p) : Effective(p, c) /\ p[c].version = v /\ Leaves(p, c, k, x)

LEMMA NoRounds ==
  ASSUME NEW lo \in Nat, NEW hi \in Int
  PROVE  Rounds(<<>>, lo, hi)
<1>1. <<>> \in Seq(Op) /\ Len(<<>>) = 0 /\ DOMAIN <<>> = {}
  OBVIOUS
<1>2. Writes(<<>>) = {} /\ Commits(<<>>) = {}
  BY <1>1 DEF Writes, Commits
<1> QED BY <1>1, <1>2 DEF Rounds, Ordered, Numbered, Gathered

LEMMA Remembered ==
  ASSUME NEW p \in Seq(Op), NEW b \in Seq(Op)
  PROVE  /\ \A v : Reached(p, v) => Reached(p \o b, v)
         /\ \A v, k, x : Known(p, v, k, x) => Known(p \o b, v, k, x)
<1>1. PICK q : q = p \o b
  OBVIOUS
<1>2. q \in Seq(Op) /\ Joined(q, p, b)
  BY <1>1, Joins
<1>3. \A c \in Commits(p) : /\ c \in 1..Len(p) /\ c \in Commits(q) /\ q[c] = p[c]
                            /\ Effective(p, c) <=> Effective(q, c)
                            /\ \A k, x : Leaves(p, c, k, x) <=> Leaves(q, c, k, x)
  <2>1. Commits(p) \subseteq 1..Len(p)
    BY Places
  <2> QED BY <1>2, <2>1, Before DEF Joined
<1> QED BY <1>1, <1>3 DEF Reached, Known

(* What was gathered before the end of p was committed by then. *)
LEMMA NoneLeft ==
  ASSUME NEW p \in Seq(Op), NEW b \in Seq(Op), NEW q \in Seq(Op), Joined(q, p, b),
         \A i : ~Gathered(p, i, Len(p) + 1),
         NEW n \in Nat, n > Len(p), NEW i, i \in 1..Len(p)
  PROVE  ~Gathered(q, i, n)
<1> SUFFICES ASSUME Gathered(q, i, n) PROVE FALSE
  OBVIOUS
<1>1. i \in Writes(p) /\ Len(p) \in Nat
  BY Places DEF Gathered, Joined
<1>2. \A c \in Commits(p) : c \in 1..Len(p) /\ c \in Commits(q)
  BY Places DEF Joined
<1>3. \A c \in Commits(p) : ~(i < c /\ c < Len(p) + 1)
  BY <1>1, <1>2 DEF Gathered
<1> QED BY <1>1, <1>3 DEF Gathered

(* Reads, and commits of nothing. *)
LEMMA AppendQuiet ==
  ASSUME NEW p, NEW lo \in Nat, NEW hi \in Int, Rounds(p, lo, hi),
         NEW b \in Seq(Op), Writes(b) = {}
  PROVE  /\ Rounds(p \o b, lo, hi)
         /\ \A c \in Commits(p \o b) : Effective(p \o b, c) => c \in Commits(p) /\ Effective(p, c)
<1>1. PICK q : q = p \o b
  OBVIOUS
<1>2. p \in Seq(Op) /\ q \in Seq(Op) /\ Joined(q, p, b) /\ Len(p) \in Nat /\ Len(q) \in Nat
  BY <1>1, Joins, Places DEF Rounds
<1>3. /\ Writes(q) = Writes(p) /\ Writes(p) \subseteq 1..Len(p)
      /\ Commits(q) \subseteq 1..Len(q)
      /\ Commits(p) \subseteq 1..Len(p)
      /\ \A i \in 1..Len(p) : q[i] = p[i] /\ (i \in Commits(q) <=> i \in Commits(p))
  <2>1. Writes(q) \subseteq 1..Len(q) /\ Writes(p) \subseteq 1..Len(p) /\ Commits(q) \subseteq 1..Len(q)
        /\ Commits(p) \subseteq 1..Len(p)
    BY <1>2, Places
  <2>2. \A i : i \in Writes(q) <=> i \in Writes(p)
    BY <1>2, <2>1 DEF Joined
  <2> QED BY <1>2, <2>1, <2>2 DEF Joined
<1>4. \A n \in Nat : n > Len(p) => \A i : ~Gathered(q, i, n)
  BY <1>2, <1>3, NoneLeft DEF Rounds, Gathered
<1>5. \A c \in Commits(q) : Effective(q, c) => c \in Commits(p) /\ Effective(p, c)
  <2> TAKE c \in Commits(q)
  <2>1. CASE c \in 1..Len(p)
    BY <1>2, <1>3, <2>1, Before
  <2>2. CASE c \notin 1..Len(p)
    <3>1. c \in Nat /\ c > Len(p)
      BY <1>2, <1>3, <2>2
    <3> QED BY <1>4, <3>1 DEF Effective
  <2> QED BY <2>1, <2>2
<1>6. Ordered(q)
  BY <1>3 DEF Rounds, Ordered
<1>7. Numbered(q)
  <2> SUFFICES ASSUME NEW c \in Commits(q), Effective(q, c)
               PROVE  /\ \A i \in Writes(q) : i < c => q[i].version <= q[c].version
                      /\ \E i \in Writes(q) : Gathered(q, i, c) /\ q[i].version = q[c].version
                      /\ \A i \in Writes(q) : c < i => q[c].version < q[i].version
    BY DEF Numbered
  <2>1. c \in Commits(p) /\ Effective(p, c) /\ c \in 1..Len(p) /\ c \in 1..(Len(p) + 1)
    BY <1>2, <1>3, <1>5
  <2>2. \A i : Gathered(q, i, c) <=> Gathered(p, i, c)
    BY <1>2, <2>1, Before
  <2> QED BY <1>3, <2>1, <2>2 DEF Rounds, Numbered
<1>8. \A i \in Writes(q) : lo <= q[i].version /\ q[i].version <= hi
  BY <1>3 DEF Rounds
<1>9. \A c \in Commits(q) : Effective(q, c) => q[c].version <= hi
  BY <1>3, <1>5 DEF Rounds
<1>10. \A i : ~Gathered(q, i, Len(q) + 1)
  <2>1. Len(q) + 1 \in Nat /\ Len(q) + 1 > Len(p)
    BY <1>2, Places DEF Joined
  <2> QED BY <1>4, <2>1
<1>11. Rounds(q, lo, hi)
  BY <1>2, <1>6, <1>7, <1>8, <1>9, <1>10 DEF Rounds
<1> QED BY <1>1, <1>5, <1>11

(* Writes of one version, greater than those before, and its commit. *)
LEMMA AppendRound ==
  ASSUME NEW p, NEW lo \in Nat, NEW hi \in Int, Rounds(p, lo, hi),
         NEW v \in Nat, lo <= v, hi < v,
         NEW b \in Seq(Op), Commits(b) = {Len(b)}, b[Len(b)].version = v,
         \A m \in Writes(b) : b[m].version = v /\ (b[m].op = "put" => b[m].value \in Value)
  PROVE  /\ Rounds(p \o b, lo, v)
         /\ Writes(b) # {} => Reached(p \o b, v)
         /\ \A m \in Writes(b) : \A x :
              Put2(b, m, x) /\ (\A l \in Writes(b) : m < l => b[l].key # b[m].key) =>
                Known(p \o b, v, b[m].key, x)
<1>1. PICK q : q = p \o b
  OBVIOUS
<1> DEFINE e == Len(q)
<1>2. /\ p \in Seq(Op) /\ q \in Seq(Op) /\ Joined(q, p, b) /\ Len(p) \in Nat /\ e \in Nat
      /\ Len(b) \in Nat /\ e = Len(p) + Len(b) /\ Len(b) >= 1
  <2>1. Len(b) \in Commits(b) /\ Commits(b) \subseteq 1..Len(b)
    BY Places
  <2> QED BY <1>1, <2>1, Joins, Places DEF Rounds, Joined
<1>3. /\ Writes(q) \subseteq 1..e /\ Writes(p) \subseteq 1..Len(p) /\ Writes(b) \subseteq 1..Len(b)
      /\ Commits(p) \subseteq 1..Len(p) /\ Commits(q) \subseteq 1..e
      /\ Writes(q) \cap Commits(q) = {}
      /\ \A i \in DOMAIN p : p[i].version \in Nat
      /\ DOMAIN p = 1..Len(p)
  BY <1>2, Places
<1>4. \A i : i \in Commits(q) <=> i \in Commits(p) \/ i = e
  BY <1>2, <1>3 DEF Joined
<1>5. /\ q[e].version = v /\ e \in Commits(q) /\ e \notin 1..Len(p)
      /\ \A i \in 1..Len(p) : q[i] = p[i]
  BY <1>2, <1>4 DEF Joined
<1>6. \A i \in Writes(q) :
        \/ i \in Writes(p) /\ i \in 1..Len(p) /\ q[i] = p[i] /\ q[i].version <= hi /\ q[i].version \in Nat
        \/ \E m \in Writes(b) : i = Len(p) + m /\ q[i] = b[m] /\ q[i].version = v
  <2> TAKE i \in Writes(q)
  <2>1. CASE i \in 1..Len(p)
    <3>1. i \in Writes(p) /\ q[i] = p[i]
      BY <1>2, <2>1 DEF Joined
    <3> QED BY <1>3, <2>1, <3>1 DEF Rounds
  <2>2. CASE i \notin 1..Len(p)
    <3>1. PICK m \in 1..Len(b) : i = Len(p) + m
      BY <1>2, <1>3, <2>2 DEF Joined
    <3>2. m \in Writes(b) /\ q[i] = b[m]
      BY <1>2, <3>1 DEF Joined
    <3> QED BY <3>1, <3>2
  <2> QED BY <2>1, <2>2
<1>7. \A i \in Writes(q) : i < e /\ i \in Nat /\ q[i].version <= v /\ q[i].version >= lo
  <2>1. \A i \in Writes(q) : i # e
    BY <1>3, <1>5
  <2> TAKE i \in Writes(q)
  <2>2. i \in Nat /\ i < e
    <3>1. i \in 1..e /\ i # e /\ e \in Nat
      BY <1>2, <1>3, <2>1
    <3> HIDE DEF e
    <3> QED BY <3>1
  <2>3. CASE i \in Writes(p) /\ q[i] = p[i] /\ q[i].version <= hi /\ q[i].version \in Nat
    <3>1. lo <= q[i].version
      BY <2>3 DEF Rounds
    <3> QED BY <2>2, <2>3, <3>1
  <2>4. CASE q[i].version = v
    BY <2>2, <2>4
  <2> QED BY <1>6, <2>3, <2>4
<1>8. Ordered(q)
  <2>1. \A i \in Writes(q) : q[i].op = "put" => q[i].value \in Value
    BY <1>6 DEF Rounds, Ordered
  <2>2. ASSUME NEW i \in Writes(q), NEW j \in Writes(q), i < j PROVE q[i].version <= q[j].version
    <3>1. CASE j \in Writes(p)
      <4>1. i \in Writes(p)
        <5>1. i \in 1..Len(p)
          BY <1>2, <1>3, <2>2, <3>1
        <5> QED BY <1>2, <5>1 DEF Joined
      <4> QED BY <1>3, <1>5, <2>2, <3>1, <4>1 DEF Rounds, Ordered
    <3>2. CASE j \notin Writes(p)
      <4>1. q[j].version = v
        BY <1>6, <3>2
      <4> QED BY <1>7, <4>1
    <3> QED BY <3>1, <3>2
  <2> QED BY <2>1, <2>2 DEF Ordered
<1>9. \A i, n : n \in Nat /\ n > Len(p) /\ Gathered(q, i, n) =>
        \E m \in Writes(b) : i = Len(p) + m /\ q[i] = b[m] /\ q[i].version = v
  <2> SUFFICES ASSUME NEW i, NEW n \in Nat, n > Len(p), Gathered(q, i, n)
               PROVE  \E m \in Writes(b) : i = Len(p) + m /\ q[i] = b[m] /\ q[i].version = v
    OBVIOUS
  <2>1. i \notin 1..Len(p)
    BY <1>2, NoneLeft DEF Rounds
  <2> QED BY <1>6, <2>1 DEF Gathered
<1>10. \A m \in Writes(b) : Gathered(q, Len(p) + m, e) /\ Len(p) + m \in Writes(q)
  <2> TAKE m \in Writes(b)
  <2>1. m \in 1..Len(b) /\ Len(p) + m \in Writes(q)
    BY <1>2, <1>3 DEF Joined
  <2>2. \A c \in Commits(q) : ~(Len(p) + m < c /\ c < e)
    BY <1>2, <1>3, <1>4, <2>1
  <2> QED BY <1>7, <2>1, <2>2 DEF Gathered
<1>11. Numbered(q)
  <2> SUFFICES ASSUME NEW c \in Commits(q), Effective(q, c)
               PROVE  /\ \A i \in Writes(q) : i < c => q[i].version <= q[c].version
                      /\ \E i \in Writes(q) : Gathered(q, i, c) /\ q[i].version = q[c].version
                      /\ \A i \in Writes(q) : c < i => q[c].version < q[i].version
    BY DEF Numbered
  <2>1. CASE c \in Commits(p)
    <3>1. c \in 1..Len(p) /\ c \in 1..(Len(p) + 1) /\ q[c] = p[c]
      BY <1>2, <1>3, <1>5, <2>1
    <3>2. Effective(p, c) /\ \A i : Gathered(q, i, c) <=> Gathered(p, i, c)
      BY <1>2, <3>1, Before
    <3>3. \A i \in Writes(q) : i < c => q[i].version <= q[c].version
      <4> TAKE i \in Writes(q)
      <4> HAVE i < c
      <4>1. i \in 1..Len(p) /\ i \in Writes(p)
        BY <1>2, <1>3, <3>1 DEF Joined
      <4> QED BY <1>5, <2>1, <3>1, <3>2, <4>1 DEF Rounds, Numbered
    <3>4. \E i \in Writes(q) : Gathered(q, i, c) /\ q[i].version = q[c].version
      <4>1. PICK i \in Writes(p) : Gathered(p, i, c) /\ p[i].version = p[c].version
        BY <2>1, <3>2 DEF Rounds, Numbered
      <4> QED BY <1>3, <1>5, <3>1, <3>2, <4>1 DEF Gathered
    <3>5. ASSUME NEW i \in Writes(q), c < i PROVE q[c].version < q[i].version
      <4>1. CASE i \in Writes(p)
        BY <1>3, <1>5, <2>1, <3>1, <3>2, <3>5, <4>1 DEF Rounds, Numbered
      <4>2. CASE i \notin Writes(p)
        <5>1. q[i].version = v
          BY <1>6, <4>2
        <5>2. p[c].version <= hi /\ p[c].version \in Nat
          BY <1>3, <2>1, <3>1, <3>2 DEF Rounds
        <5> QED BY <3>1, <5>1, <5>2
      <4> QED BY <4>1, <4>2
    <3> QED BY <3>3, <3>4, <3>5
  <2>2. CASE c = e
    <3>1. PICK i \in Writes(q) : Gathered(q, i, e)
      BY <2>2 DEF Effective
    <3>2. q[i].version = v
      BY <1>2, <1>9, <3>1
    <3>3. \A j \in Writes(q) : ~(e < j)
      BY <1>2, <1>7
    <3> QED BY <1>5, <1>7, <2>2, <3>1, <3>2, <3>3
  <2> QED BY <1>4, <2>1, <2>2
<1>12. \A c \in Commits(q) : Effective(q, c) => q[c].version <= v
  <2> TAKE c \in Commits(q)
  <2> HAVE Effective(q, c)
  <2>1. CASE c \in Commits(p)
    <3>1. c \in 1..Len(p) /\ q[c] = p[c] /\ Effective(p, c) /\ p[c].version \in Nat
      BY <1>2, <1>3, <1>5, <2>1, Before
    <3>2. p[c].version <= hi
      BY <2>1, <3>1 DEF Rounds
    <3> QED BY <3>1, <3>2
  <2>2. CASE c = e
    BY <1>5, <2>2
  <2> QED BY <1>4, <2>1, <2>2
<1>13. \A i : ~Gathered(q, i, e + 1)
  BY <1>2, <1>5, <1>7 DEF Gathered
<1>14. Rounds(q, lo, v)
  BY <1>2, <1>7, <1>8, <1>11, <1>12, <1>13 DEF Rounds
<1>15. Writes(b) # {} => Effective(q, e) /\ Reached(q, v)
  BY <1>5, <1>10 DEF Effective, Reached
<1>16. ASSUME NEW m \in Writes(b), NEW x, Put2(b, m, x),
              \A l \in Writes(b) : m < l => b[l].key # b[m].key
       PROVE  Known(q, v, b[m].key, x)
  <2>1. q[Len(p) + m] = b[m] /\ Len(p) + m \in Writes(q) /\ m \in Nat
    BY <1>2, <1>3, <1>10 DEF Joined
  <2>2. LastOf(q, Len(p) + m, e)
    <3>1. ASSUME NEW j \in Writes(q), Len(p) + m < j PROVE q[j].key # q[Len(p) + m].key
      <4>1. PICK l \in Writes(b) : j = Len(p) + l /\ q[j] = b[l]
        <5>1. ~(j \in 1..Len(p))
          BY <1>2, <1>3, <3>1
        <5> QED BY <1>6, <5>1
      <4>2. m < l
        BY <1>2, <1>3, <2>1, <3>1, <4>1
      <4> QED BY <1>16, <2>1, <4>1, <4>2
    <3> QED BY <1>7, <2>1, <3>1 DEF LastOf
  <2>3. Put2(q, Len(p) + m, x)
    BY <1>16, <2>1 DEF Put2
  <2>4. Leaves(q, e, b[m].key, x)
    BY <2>1, <2>2, <2>3 DEF Leaves
  <2> QED BY <1>5, <1>15, <2>4 DEF Known
<1> QED BY <1>1, <1>14, <1>15, <1>16

LEMMA Associates ==
  ASSUME NEW T, NEW p \in Seq(T), NEW a \in Seq(T), NEW b \in Seq(T)
  PROVE  p \o (a \o b) = (p \o a) \o b /\ p \o a \in Seq(T) /\ a \o b \in Seq(T)
OBVIOUS

(* Gets that ask for what the plan before them left. *)
LEMMA ReadsAppended ==
  ASSUME NEW p \in Seq(Op), NEW b \in Seq(Op)
  PROVE  /\ ReadsAfterCommits(p) /\ (\A m \in Gets(b) : Reached(p, b[m].version)) =>
              ReadsAfterCommits(p \o b)
         /\ Expecting(p)
            /\ (\A m \in Gets(b) : b[m].value # None =>
                  Known(p, b[m].version, b[m].key, b[m].value)) =>
              Expecting(p \o b)
         /\ ExpectsNothing(p) /\ ExpectsNothing(b) => ExpectsNothing(p \o b)
<1>1. PICK q : q = p \o b
  OBVIOUS
<1>2. q \in Seq(Op) /\ Joined(q, p, b) /\ Len(p) \in Nat
  BY <1>1, Joins, Places
<1>3. \A g \in Gets(q) : \/ g \in Gets(p) /\ g \in 1..Len(p) /\ q[g] = p[g]
                         \/ \E m \in Gets(b) : m \in 1..Len(b) /\ g = Len(p) + m /\ q[g] = b[m]
  <2>1. Gets(q) \subseteq 1..Len(q)
    BY <1>2, Places
  <2> TAKE g \in Gets(q)
  <2>2. CASE g \in 1..Len(p)
    BY <1>2, <2>2 DEF Joined
  <2>3. CASE g \notin 1..Len(p)
    <3>1. PICK m \in 1..Len(b) : g = Len(p) + m
      BY <1>2, <2>1, <2>3 DEF Joined
    <3> QED BY <1>2, <3>1 DEF Joined
  <2> QED BY <2>2, <2>3
<1>4. \A c \in Commits(p) : /\ c \in 1..Len(p) /\ c \in Commits(q) /\ q[c] = p[c]
                            /\ Effective(p, c) <=> Effective(q, c)
                            /\ \A k, x : Leaves(p, c, k, x) <=> Leaves(q, c, k, x)
  <2>1. Commits(p) \subseteq 1..Len(p)
    BY Places
  <2> QED BY <1>2, <2>1, Before DEF Joined
<1>5. \A c \in Commits(p), m \in 1..Len(b) : c < Len(p) + m
  BY <1>2, <1>4, Places
<1>6. ASSUME ReadsAfterCommits(p), \A m \in Gets(b) : Reached(p, b[m].version)
      PROVE  ReadsAfterCommits(q)
  <2> SUFFICES ASSUME NEW g \in Gets(q)
               PROVE  \E c \in Commits(q) : c < g /\ Effective(q, c) /\ q[c].version = q[g].version
    BY DEF ReadsAfterCommits
  <2>1. CASE g \in Gets(p) /\ q[g] = p[g]
    BY <1>4, <1>6, <2>1 DEF ReadsAfterCommits
  <2>2. ASSUME NEW m \in Gets(b), m \in 1..Len(b), g = Len(p) + m, q[g] = b[m]
        PROVE  \E c \in Commits(q) : c < g /\ Effective(q, c) /\ q[c].version = q[g].version
    BY <1>4, <1>5, <1>6, <2>2 DEF Reached
  <2> QED BY <1>3, <2>1, <2>2
<1>7. ASSUME Expecting(p),
             \A m \in Gets(b) : b[m].value # None => Known(p, b[m].version, b[m].key, b[m].value)
      PROVE  Expecting(q)
  <2> SUFFICES ASSUME NEW g \in Gets(q), q[g].value # None
               PROVE  \E c \in Commits(q) : /\ c < g /\ Effective(q, c) /\ q[c].version = q[g].version
                                            /\ Leaves(q, c, q[g].key, q[g].value)
    BY DEF Expecting
  <2>1. CASE g \in Gets(p) /\ q[g] = p[g]
    BY <1>4, <1>7, <2>1 DEF Expecting
  <2>2. ASSUME NEW m \in Gets(b), m \in 1..Len(b), g = Len(p) + m, q[g] = b[m]
        PROVE  \E c \in Commits(q) : /\ c < g /\ Effective(q, c) /\ q[c].version = q[g].version
                                     /\ Leaves(q, c, q[g].key, q[g].value)
    BY <1>4, <1>5, <1>7, <2>2 DEF Known
  <2> QED BY <1>3, <2>1, <2>2
<1>8. ASSUME ExpectsNothing(p), ExpectsNothing(b) PROVE ExpectsNothing(q)
  BY <1>3, <1>8 DEF ExpectsNothing
<1> QED BY <1>1, <1>6, <1>7, <1>8

(* ... and are at the last version committed, if any follow. *)
LEMMA NewestAppended ==
  ASSUME NEW p \in Seq(Op), NEW b \in Seq(Op), ReadsNewest(p),
         \/ Gets(b) = {}
         \/ Commits(b) = {} /\ \A m \in Gets(b) : \A c \in Commits(p) :
              Effective(p, c) => p[c].version <= b[m].version
  PROVE  ReadsNewest(p \o b)
<1>1. PICK q : q = p \o b
  OBVIOUS
<1>2. q \in Seq(Op) /\ Joined(q, p, b) /\ Len(p) \in Nat
  BY <1>1, Joins, Places
<1>3. Gets(q) \subseteq 1..Len(q) /\ Commits(q) \subseteq 1..Len(q)
  BY <1>2, Places
<1>4. ASSUME NEW g \in Gets(q), q[g].value # None, NEW c \in Commits(q), c < g, Effective(q, c)
      PROVE  q[c].version <= q[g].version
  <2>1. CASE g \in 1..Len(p)
    <3>1. c \in 1..Len(p)
      BY <1>2, <1>3, <1>4, <2>1
    <3>2. g \in Gets(p) /\ c \in Commits(p) /\ q[g] = p[g] /\ q[c] = p[c] /\ Effective(p, c)
      BY <1>2, <1>4, <2>1, <3>1, Before DEF Joined
    <3> QED BY <1>4, <3>2 DEF ReadsNewest
  <2>2. CASE g \notin 1..Len(p)
    <3>1. PICK m \in 1..Len(b) : g = Len(p) + m
      BY <1>2, <1>3, <2>2 DEF Joined
    <3>2. m \in Gets(b) /\ q[g] = b[m]
      BY <1>2, <3>1 DEF Joined
    <3>3. Commits(b) = {}
      BY <3>2
    <3>4. c \in 1..Len(p)
      BY <1>2, <1>3, <3>3 DEF Joined
    <3>5. c \in Commits(p) /\ q[c] = p[c] /\ Effective(p, c)
      BY <1>2, <1>4, <3>4, Before DEF Joined
    <3> QED BY <3>2, <3>5
  <2> QED BY <2>1, <2>2
<1> QED BY <1>1, <1>4 DEF ReadsNewest

LEMMA OneOp ==
  ASSUME NEW o \in Op
  PROVE  /\ <<o>> \in Seq(Op) /\ Len(<<o>>) = 1
         /\ Writes(<<o>>) = IF o.op \in {"put", "delete", "settle"} THEN {1} ELSE {}
         /\ Commits(<<o>>) = IF o.op = "commit" THEN {1} ELSE {}
         /\ Gets(<<o>>) = IF o.op = "get" THEN {1} ELSE {}
<1>1. <<o>> \in Seq(Op) /\ Len(<<o>>) = 1 /\ DOMAIN <<o>> = {1} /\ <<o>>[1] = o
  OBVIOUS
<1> QED BY <1>1 DEF Writes, Commits, Gets

LEMMA CommitOf ==
  ASSUME NEW v \in Nat
  PROVE  /\ B!Commit(v) \in Op /\ B!Commit(v).version = v /\ B!Commit(v).op = "commit"
         /\ <<B!Commit(v)>> \in Seq(Op) /\ Len(<<B!Commit(v)>>) = 1
         /\ Writes(<<B!Commit(v)>>) = {} /\ Gets(<<B!Commit(v)>>) = {}
         /\ Commits(<<B!Commit(v)>>) = {1}
<1>1. B!Commit(v) \in Op /\ B!Commit(v).version = v /\ B!Commit(v).op = "commit"
  BY DEF B!Commit, Op
<1> QED BY <1>1, OneOp

(* Operations but commits, and the commit that closes them. *)
Closed(b, v) == b \o <<B!Commit(v)>>

LEMMA Closing ==
  ASSUME NEW b \in Seq(Op), Commits(b) = {}, NEW v \in Nat
  PROVE  /\ Closed(b, v) \in Seq(Op) /\ Len(Closed(b, v)) = Len(b) + 1
         /\ Commits(Closed(b, v)) = {Len(Closed(b, v))}
         /\ Closed(b, v)[Len(Closed(b, v))].version = v
         /\ Writes(Closed(b, v)) = Writes(b) /\ Gets(Closed(b, v)) = Gets(b)
         /\ \A m \in 1..Len(b) : Closed(b, v)[m] = b[m]
<1>0. PICK d : d = b \o <<B!Commit(v)>>
  OBVIOUS
<1>1. /\ d \in Seq(Op) /\ Joined(d, b, <<B!Commit(v)>>) /\ Len(b) \in Nat
      /\ Writes(d) \subseteq 1..Len(d) /\ Commits(d) \subseteq 1..Len(d) /\ Gets(d) \subseteq 1..Len(d)
      /\ Writes(b) \subseteq 1..Len(b) /\ Gets(b) \subseteq 1..Len(b)
  BY <1>0, CommitOf, Joins, Places
<1>2. PICK c : c = <<B!Commit(v)>>
  OBVIOUS
<1>3. /\ Len(c) = 1 /\ Writes(c) = {} /\ Gets(c) = {} /\ Commits(c) = {1} /\ c[1].version = v
      /\ Joined(d, b, c)
  BY <1>1, <1>2, CommitOf
<1>4. Len(d) = Len(b) + 1 /\ d[Len(d)] = c[1] /\ Len(d) \in Nat
  BY <1>1, <1>3 DEF Joined
<1>5. \A i \in 1..Len(d) : i \in 1..Len(b) \/ i = Len(d)
  BY <1>1, <1>4
<1>6. /\ Len(d) \notin 1..Len(b) /\ Len(d) \in Commits(d) /\ Len(d) \notin Writes(d)
      /\ Len(d) \notin Gets(d)
  BY <1>1, <1>3, <1>4 DEF Joined
<1>7. \A i \in 1..Len(b) : /\ i \in Writes(d) <=> i \in Writes(b)
                           /\ i \in Gets(d) <=> i \in Gets(b)
                           /\ i \notin Commits(d)
                           /\ d[i] = b[i]
  BY <1>3 DEF Joined
<1>8. Commits(d) = {Len(d)}
  BY <1>1, <1>5, <1>6, <1>7
<1>9. Writes(d) = Writes(b) /\ Gets(d) = Gets(b)
  BY <1>1, <1>5, <1>6, <1>7
<1> QED BY <1>0, <1>1, <1>3, <1>4, <1>7, <1>8, <1>9 DEF Closed

LEMMA CloseRound ==
  ASSUME NEW p, NEW lo \in Nat, NEW hi \in Int, Rounds(p, lo, hi),
         NEW v \in Nat, lo <= v, hi < v,
         NEW b \in Seq(Op), Commits(b) = {},
         \A m \in Writes(b) : b[m].version = v /\ (b[m].op = "put" => b[m].value \in Value)
  PROVE  /\ Closed(b, v) \in Seq(Op) /\ Gets(Closed(b, v)) = Gets(b)
         /\ \A m \in 1..Len(b) : Closed(b, v)[m] = b[m]
         /\ Rounds(p \o Closed(b, v), lo, v)
         /\ Writes(b) # {} => Reached(p \o Closed(b, v), v)
         /\ \A m \in Writes(b) : \A x :
              Put2(b, m, x) /\ (\A l \in Writes(b) : m < l => b[l].key # b[m].key) =>
                Known(p \o Closed(b, v), v, b[m].key, x)
<1>0. PICK d : d = Closed(b, v)
  OBVIOUS
<1>1. /\ d \in Seq(Op) /\ Commits(d) = {Len(d)} /\ d[Len(d)].version = v /\ Writes(d) = Writes(b)
      /\ Gets(d) = Gets(b) /\ \A m \in 1..Len(b) : d[m] = b[m]
  BY <1>0, Closing
<1>2. \A m \in Writes(b) : d[m] = b[m]
  BY <1>1, Places
<1>3. \A m \in Writes(d) : d[m].version = v /\ (d[m].op = "put" => d[m].value \in Value)
  BY <1>1, <1>2
<1>4. /\ Rounds(p \o d, lo, v)
      /\ Writes(d) # {} => Reached(p \o d, v)
      /\ \A m \in Writes(d) : \A x :
           Put2(d, m, x) /\ (\A l \in Writes(d) : m < l => d[l].key # d[m].key) =>
             Known(p \o d, v, d[m].key, x)
  BY <1>1, <1>3, AppendRound
<1>5. ASSUME NEW m \in Writes(b), NEW x, Put2(b, m, x),
             \A l \in Writes(b) : m < l => b[l].key # b[m].key
      PROVE  Known(p \o d, v, b[m].key, x)
  <2>1. Put2(d, m, x) /\ \A l \in Writes(d) : m < l => d[l].key # d[m].key
    BY <1>1, <1>2, <1>5 DEF Put2
  <2> QED BY <1>1, <1>2, <1>4, <2>1
<1> QED BY <1>0, <1>1, <1>4, <1>5

(* The tasks of the put and get tests, of any keys and values. *)
Task == Seq([key : UserKey, value : Value])

LEMMA Pairs ==
  ASSUME NEW task \in Task
  PROVE  /\ DOMAIN task = 1..Len(task) /\ Len(task) \in Nat
         /\ \A m \in 1..Len(task) : task[m].key \in UserKey /\ task[m].value \in Value
<1>1. PICK R : R = [key : UserKey, value : Value]
  OBVIOUS
<1>2. task \in Seq(R)
  BY <1>1 DEF Task
<1>3. DOMAIN task = 1..Len(task) /\ Len(task) \in Nat /\ \A m \in 1..Len(task) : task[m] \in R
  BY <1>2
<1>4. \A r \in R : r.key \in UserKey /\ r.value \in Value
  BY <1>1
<1> QED BY <1>3, <1>4

LEMMA LastGiven ==
  ASSUME NEW task \in Task, NEW m \in 1..Len(task)
  PROVE  \E l \in 1..Len(task) :
           /\ task[l].key = task[m].key /\ B!Expected(task)[m].value = task[l].value
           /\ \A j \in 1..Len(task) : l < j => task[j].key # task[m].key
<1> DEFINE S == {j \in DOMAIN task : task[j].key = task[m].key}
<1>1. DOMAIN task = 1..Len(task) /\ Len(task) \in Nat
  BY DEF Task
<1>2. S \in SUBSET (0..Len(task)) /\ m \in S
  BY <1>1
<1>3. PICK l \in S : \A j \in S : j <= l
  <2> HIDE DEF S
  <2> QED BY <1>1, <1>2, Greatest
<1>4. B!Max(S) = l
  <2>1. \A j \in S : j \in Nat
    BY <1>1
  <2> HIDE DEF S
  <2> DEFINE M == CHOOSE x \in S : \A y \in S : x >= y
  <2>2. M \in S /\ \A y \in S : M >= y
    BY <1>3, <2>1
  <2>3. M = l
    <3> HIDE DEF M
    <3> QED BY <1>3, <2>1, <2>2
  <2> QED BY <2>3 DEF B!Max
<1>5. B!Expected(task)[m] = task[l]
  BY <1>1, <1>4 DEF B!Expected
<1>6. \A j \in 1..Len(task) : l < j => j \notin S
  BY <1>1, <1>3
<1> QED BY <1>1, <1>3, <1>5, <1>6

LEMMA PutsOf ==
  ASSUME NEW task \in Task, NEW v \in Nat, NEW b, b = B!PutTask(v, task)
  PROVE  /\ b \in Seq(Op) /\ Len(b) = Len(task) /\ Commits(b) = {} /\ Gets(b) = {}
         /\ Writes(b) = 1..Len(task)
         /\ \A m \in 1..Len(task) : /\ b[m].op = "put" /\ b[m].version = v
                                    /\ b[m].key = task[m].key /\ b[m].value = task[m].value
                                    /\ b[m].value \in Value
<1>1. /\ DOMAIN task = 1..Len(task) /\ Len(task) \in Nat
      /\ \A m \in 1..Len(task) : task[m].key \in UserKey /\ task[m].value \in Value
  BY Pairs
<1>2. b = [m \in 1..Len(task) |-> B!Put(v, task[m].key, task[m].value)]
  BY <1>1 DEF B!PutTask
<1>3. \A m \in 1..Len(task) :
        /\ b[m] \in Op /\ b[m].op = "put" /\ b[m].version = v
        /\ b[m].key = task[m].key /\ b[m].value = task[m].value
  BY <1>1, <1>2 DEF B!Put, Op, Keys, Asked
<1>4. b \in Seq(Op) /\ Len(b) = Len(task) /\ DOMAIN b = 1..Len(task)
  BY <1>1, <1>2, <1>3
<1> QED BY <1>1, <1>3, <1>4 DEF Writes, Commits, Gets

LEMMA GetsOf ==
  ASSUME NEW task \in Task, NEW v \in Nat, NEW b, b = B!GetTask(v, task)
  PROVE  /\ b \in Seq(Op) /\ Len(b) = Len(task) /\ Commits(b) = {} /\ Writes(b) = {}
         /\ Gets(b) = 1..Len(task)
         /\ \A m \in 1..Len(task) : /\ b[m].version = v /\ b[m].key = task[m].key
                                    /\ b[m].value = B!Expected(task)[m].value
<1>1. /\ DOMAIN task = 1..Len(task) /\ Len(task) \in Nat
      /\ \A m \in 1..Len(task) : task[m].key \in UserKey /\ task[m].value \in Value
  BY Pairs
<1>2. b = [m \in 1..Len(task) |-> B!Get(v, task[m].key, B!Expected(task)[m].value)]
  BY <1>1 DEF B!GetTask
<1>3. \A m \in 1..Len(task) : B!Expected(task)[m].value \in Value
  BY <1>1, LastGiven
<1>4. \A m \in 1..Len(task) :
        /\ b[m] \in Op /\ b[m].op = "get" /\ b[m].version = v
        /\ b[m].key = task[m].key /\ b[m].value = B!Expected(task)[m].value
  BY <1>1, <1>2, <1>3 DEF B!Get, Op, Keys, Expectable
<1>5. b \in Seq(Op) /\ Len(b) = Len(task) /\ DOMAIN b = 1..Len(task)
  BY <1>1, <1>2, <1>4
<1> QED BY <1>1, <1>4, <1>5 DEF Writes, Commits, Gets

(* Every pair of the task is known at its version. *)
Given(p, v, task) ==
  \A m \in 1..Len(task) : Known(p, v, task[m].key, B!Expected(task)[m].value)

LEMMA PutRound ==
  ASSUME NEW p, NEW hi \in Nat, Rounds(p, 1, hi), NEW v \in Nat, hi < v, NEW task \in Task
  PROVE  /\ Closed(B!PutTask(v, task), v) \in Seq(Op) /\ Gets(Closed(B!PutTask(v, task), v)) = {}
         /\ Rounds(p \o Closed(B!PutTask(v, task), v), 1, v)
         /\ Given(p \o Closed(B!PutTask(v, task), v), v, task)
<1>1. PICK b : b = B!PutTask(v, task)
  OBVIOUS
<1>2. /\ b \in Seq(Op) /\ Len(b) = Len(task) /\ Commits(b) = {} /\ Gets(b) = {}
      /\ Writes(b) = 1..Len(task)
      /\ \A m \in 1..Len(task) : /\ b[m].op = "put" /\ b[m].version = v
                                 /\ b[m].key = task[m].key /\ b[m].value = task[m].value
                                 /\ b[m].value \in Value
  BY <1>1, PutsOf
<1>3. /\ 1 \in Nat /\ 1 <= v /\ hi \in Int /\ p \in Seq(Op)
      /\ \A m \in Writes(b) : b[m].version = v /\ (b[m].op = "put" => b[m].value \in Value)
  BY <1>2 DEF Rounds
<1>4. /\ Closed(b, v) \in Seq(Op) /\ Gets(Closed(b, v)) = Gets(b)
      /\ \A m \in 1..Len(b) : Closed(b, v)[m] = b[m]
      /\ Rounds(p \o Closed(b, v), 1, v)
      /\ Writes(b) # {} => Reached(p \o Closed(b, v), v)
      /\ \A m \in Writes(b) : \A x :
           Put2(b, m, x) /\ (\A l \in Writes(b) : m < l => b[l].key # b[m].key) =>
             Known(p \o Closed(b, v), v, b[m].key, x)
  <2>1. b \in Seq(Op) /\ Commits(b) = {}
    BY <1>2
  <2> QED BY <1>3, <2>1, CloseRound, Zenon
<1>5. ASSUME NEW m \in 1..Len(task)
      PROVE  Known(p \o Closed(b, v), v, task[m].key, B!Expected(task)[m].value)
  <2>1. PICK l \in 1..Len(task) :
          /\ task[l].key = task[m].key /\ B!Expected(task)[m].value = task[l].value
          /\ \A j \in 1..Len(task) : l < j => task[j].key # task[m].key
    BY LastGiven
  <2>2. Put2(b, l, task[l].value)
    BY <1>2 DEF Put2
  <2>3. \A j \in Writes(b) : l < j => b[j].key # b[l].key
    BY <1>2, <2>1
  <2>4. Known(p \o Closed(b, v), v, b[l].key, task[l].value)
    BY <1>2, <1>4, <2>2, <2>3
  <2> QED BY <1>2, <2>1, <2>4
<1> QED BY <1>1, <1>2, <1>4, <1>5 DEF Given

(* A plan of a put and get test, with hi as its last version. *)
Tested(p, hi) == Rounds(p, 1, hi) /\ ReadsAfterCommits(p) /\ Expecting(p)

LEMMA TestedIsLawful ==
  ASSUME NEW p, NEW hi, Tested(p, hi)
  PROVE  Answerable(p) /\ ReadsAfterCommits(p) /\ p \in Seq(Op)
<1>1. \A i \in Writes(p) : p[i].version \in Nat
  BY Places DEF Tested, Rounds
<1> QED BY <1>1 DEF Tested, Rounds, Answerable, Lawful

LEMMA NoTests == Tested(<<>>, 0) /\ ReadsNewest(<<>>)
<1>1. Rounds(<<>>, 1, 0)
  BY NoRounds
<1>2. Gets(<<>>) = {}
  BY DEF Gets
<1> QED BY <1>1, <1>2 DEF Tested, ReadsAfterCommits, Expecting, ReadsNewest

LEMMA KnownIsReached ==
  ASSUME NEW p, NEW v, NEW task \in Task, Given(p, v, task), NEW m \in 1..Len(task)
  PROVE  Reached(p, v)
BY DEF Given, Known, Reached

LEMMA TestRound ==
  ASSUME NEW p, NEW hi \in Nat, Tested(p, hi), NEW task \in Task
  PROVE  /\ Closed(B!PutTask(hi + 1, task), hi + 1) \in Seq(Op)
         /\ Tested(p \o Closed(B!PutTask(hi + 1, task), hi + 1), hi + 1)
         /\ Given(p \o Closed(B!PutTask(hi + 1, task), hi + 1), hi + 1, task)
         /\ ReadsNewest(p) => ReadsNewest(p \o Closed(B!PutTask(hi + 1, task), hi + 1))
<1>1. PICK v : v = hi + 1
  OBVIOUS
<1>2. PICK d : d = Closed(B!PutTask(v, task), v)
  OBVIOUS
<1>3. v \in Nat /\ hi < v /\ Rounds(p, 1, hi) /\ p \in Seq(Op)
  BY <1>1 DEF Tested, Rounds
<1>4. d \in Seq(Op) /\ Gets(d) = {} /\ Rounds(p \o d, 1, v) /\ Given(p \o d, v, task)
  BY <1>2, <1>3, PutRound
<1>5. ReadsAfterCommits(p \o d) /\ Expecting(p \o d)
  BY <1>3, <1>4, ReadsAppended DEF Tested
<1>6. ReadsNewest(p) => ReadsNewest(p \o d)
  BY <1>3, <1>4, NewestAppended
<1> QED BY <1>1, <1>2, <1>4, <1>5, <1>6 DEF Tested

LEMMA TestReads ==
  ASSUME NEW p, NEW hi \in Nat, Tested(p, hi), NEW task \in Task, NEW v \in Nat,
         Given(p, v, task)
  PROVE  /\ B!GetTask(v, task) \in Seq(Op)
         /\ Tested(p \o B!GetTask(v, task), hi)
         /\ ReadsNewest(p) /\ v = hi => ReadsNewest(p \o B!GetTask(v, task))
<1>1. PICK b : b = B!GetTask(v, task)
  OBVIOUS
<1>2. /\ b \in Seq(Op) /\ Commits(b) = {} /\ Writes(b) = {} /\ Gets(b) = 1..Len(task)
      /\ \A m \in 1..Len(task) : /\ b[m].version = v /\ b[m].key = task[m].key
                                 /\ b[m].value = B!Expected(task)[m].value
  BY <1>1, GetsOf
<1>3. p \in Seq(Op) /\ Rounds(p, 1, hi) /\ 1 \in Nat /\ hi \in Int
  BY DEF Tested, Rounds
<1>4. Rounds(p \o b, 1, hi)
  BY <1>2, <1>3, AppendQuiet
<1>5. \A m \in Gets(b) : Reached(p, b[m].version) /\ Known(p, b[m].version, b[m].key, b[m].value)
  BY <1>2, KnownIsReached DEF Given
<1>6. ReadsAfterCommits(p \o b) /\ Expecting(p \o b)
  BY <1>2, <1>3, <1>5, ReadsAppended DEF Tested
<1>7. ASSUME ReadsNewest(p), v = hi PROVE ReadsNewest(p \o b)
  <2>1. \A m \in Gets(b) : \A c \in Commits(p) : Effective(p, c) => p[c].version <= b[m].version
    BY <1>2, <1>3, <1>7 DEF Rounds
  <2> QED BY <1>2, <1>3, <1>7, <2>1, NewestAppended
<1> QED BY <1>1, <1>2, <1>4, <1>6, <1>7 DEF Tested

LEMMA TestCommit ==
  ASSUME NEW p, NEW hi \in Nat, Tested(p, hi), NEW v \in Nat
  PROVE  /\ Tested(p \o <<B!Commit(v)>>, hi)
         /\ ReadsNewest(p) => ReadsNewest(p \o <<B!Commit(v)>>)
<1>1. PICK b : b = <<B!Commit(v)>>
  OBVIOUS
<1>2. b \in Seq(Op) /\ Writes(b) = {} /\ Gets(b) = {}
  BY <1>1, CommitOf
<1>3. p \in Seq(Op) /\ Rounds(p, 1, hi) /\ 1 \in Nat /\ hi \in Int
  BY DEF Tested, Rounds
<1>4. Rounds(p \o b, 1, hi)
  BY <1>2, <1>3, AppendQuiet
<1>5. ReadsAfterCommits(p \o b) /\ Expecting(p \o b)
  BY <1>2, <1>3, ReadsAppended DEF Tested
<1>6. ReadsNewest(p) => ReadsNewest(p \o b)
  BY <1>2, <1>3, NewestAppended
<1> QED BY <1>1, <1>4, <1>5, <1>6 DEF Tested

LEMMA NoOps == \E e \in Seq(Op) : e = <<>>
<1>1. PICK e : e = <<>>
  OBVIOUS
<1>2. e \in Seq(Op)
  BY <1>1
<1> QED BY <1>1, <1>2

LEMMA TestLoop ==
  ASSUME NEW n \in Nat, NEW s \in [1..n -> Seq(Op)],
         \A j \in 0..(n - 1), q \in Seq(Op) : Tested(q, j) /\ ReadsNewest(q) =>
           Tested(q \o s[j + 1], j + 1) /\ ReadsNewest(q \o s[j + 1])
  PROVE  Tested(B!FlattenSeq(s), n) /\ ReadsNewest(B!FlattenSeq(s))
<1> DEFINE P == {x \in Nat \X Seq(Op) : Tested(x[2], x[1]) /\ ReadsNewest(x[2])}
<1>1. <<0, <<>>>> \in P
  <2>1. PICK e \in Seq(Op) : e = <<>>
    BY NoOps
  <2>2. <<0, e>> \in P
    BY <2>1, NoTests
  <2> QED BY <2>1, <2>2
<1>2. ASSUME NEW j \in 0..(n - 1), NEW q \in Seq(Op), <<j, q>> \in P
      PROVE  <<j + 1, q \o s[j + 1]>> \in P
  <2>1. j + 1 \in Nat /\ j + 1 \in 1..n /\ Tested(q, j) /\ ReadsNewest(q)
    BY <1>2
  <2>2. q \o s[j + 1] \in Seq(Op)
    BY <2>1
  <2> QED BY <2>1, <2>2
<1> HIDE DEF P
<1>3. <<n, B!FlattenSeq(s)>> \in P
  BY <1>1, <1>2, FlattenInduct
<1> QED BY <1>3 DEF P

(* The blocks of the programs' loops. *)
LEMMA TestBlocks ==
  ASSUME NEW task \in Task, NEW j \in Nat
  PROVE  /\ Closed(B!PutTask(j, task), j) \in Seq(Op) /\ B!GetTask(j, task) \in Seq(Op)
         /\ <<B!Commit(j)>> \in Seq(Op)
         /\ Closed(B!PutTask(j, task), j) \o B!GetTask(j, task) \in Seq(Op)
         /\ (Closed(B!PutTask(j, task), j) \o B!GetTask(j, task)) \o <<B!Commit(j)>> \in Seq(Op)
<1>1. PICK d : d = Closed(B!PutTask(j, task), j)
  OBVIOUS
<1>2. PICK g : g = B!GetTask(j, task)
  OBVIOUS
<1>3. PICK c : c = <<B!Commit(j)>>
  OBVIOUS
<1>4. d \in Seq(Op) /\ g \in Seq(Op) /\ c \in Seq(Op)
  BY <1>1, <1>2, <1>3, PutsOf, Closing, GetsOf, CommitOf
<1>5. d \o g \in Seq(Op) /\ (d \o g) \o c \in Seq(Op)
  BY <1>4
<1> QED BY <1>1, <1>2, <1>3, <1>4, <1>5

(* One task after the other, put, committed and read; then committed again. *)
LEMMA PutGetStep ==
  ASSUME NEW j \in Nat, NEW q \in Seq(Op), Tested(q, j), ReadsNewest(q), NEW task \in Task,
         NEW b \in {Closed(B!PutTask(j + 1, task), j + 1) \o B!GetTask(j + 1, task),
                    (Closed(B!PutTask(j + 1, task), j + 1) \o B!GetTask(j + 1, task))
                      \o <<B!Commit(j + 1)>>}
  PROVE  Tested(q \o b, j + 1) /\ ReadsNewest(q \o b)
<1>1. PICK d : d = Closed(B!PutTask(j + 1, task), j + 1)
  OBVIOUS
<1>2. PICK g : g = B!GetTask(j + 1, task)
  OBVIOUS
<1>3. PICK c : c = <<B!Commit(j + 1)>>
  OBVIOUS
<1>4. j + 1 \in Nat
  OBVIOUS
<1>5. d \in Seq(Op) /\ Tested(q \o d, j + 1) /\ Given(q \o d, j + 1, task) /\ ReadsNewest(q \o d)
  BY <1>1, TestRound
<1>6. g \in Seq(Op) /\ Tested((q \o d) \o g, j + 1) /\ ReadsNewest((q \o d) \o g)
  BY <1>2, <1>4, <1>5, TestReads
<1>7. Tested(((q \o d) \o g) \o c, j + 1) /\ ReadsNewest(((q \o d) \o g) \o c)
  BY <1>3, <1>4, <1>6, TestCommit
<1>8. c \in Seq(Op)
  BY <1>3, <1>4, CommitOf
<1>9. q \o (d \o g) = (q \o d) \o g /\ q \o ((d \o g) \o c) = ((q \o d) \o g) \o c
  <2>1. d \o g \in Seq(Op) /\ q \o (d \o g) = (q \o d) \o g
    BY <1>5, <1>6, Associates
  <2>2. q \o ((d \o g) \o c) = (q \o (d \o g)) \o c
    <3>1. PICK e \in Seq(Op) : e = d \o g
      BY <2>1
    <3>2. q \o (e \o c) = (q \o e) \o c
      BY <1>8, Associates
    <3> QED BY <3>1, <3>2
  <2> QED BY <2>1, <2>2
<1>10. b = d \o g \/ b = (d \o g) \o c
  BY <1>1, <1>2, <1>3
<1> QED BY <1>6, <1>7, <1>9, <1>10

LEMMA GetPutIsTested ==
  ASSUME NEW tasks \in Seq(Task)
  PROVE  Tested(B!GetPut(tasks), Len(tasks)) /\ ReadsNewest(B!GetPut(tasks))
<1> DEFINE n == Len(tasks)
           R(j) == (Closed(B!PutTask(j, tasks[j]), j) \o B!GetTask(j, tasks[j])) \o <<B!Commit(j)>>
           s == [j \in 1..n |-> R(j)]
<1>1. n \in Nat /\ n - 1 + 1 = n /\ \A j \in 1..n : tasks[j] \in Task /\ 1 + j - 1 = j /\ j \in Nat
  OBVIOUS
<1>2. B!GetPut(tasks) = B!FlattenSeq(s)
  BY <1>1 DEF B!GetPut, B!Loop, Closed
<1>3. s \in [1..n -> Seq(Op)] /\ \A j \in 1..n : s[j] = R(j)
  BY <1>1, TestBlocks
<1>4. ASSUME NEW j \in 0..(n - 1), NEW q \in Seq(Op), Tested(q, j), ReadsNewest(q)
      PROVE  Tested(q \o s[j + 1], j + 1) /\ ReadsNewest(q \o s[j + 1])
  <2>1. j \in Nat /\ j + 1 \in 1..n /\ tasks[j + 1] \in Task
    BY <1>1
  <2>2. s[j + 1] = R(j + 1)
    BY <1>3, <2>1
  <2> HIDE DEF s
  <2> QED BY <1>4, <2>1, <2>2, PutGetStep
<1> HIDE DEF s
<1> QED BY <1>1, <1>2, <1>3, <1>4, TestLoop

LEMMA PutGetInterIsTested ==
  ASSUME NEW tasks \in Seq(Task)
  PROVE  /\ Tested(B!PutGetInterHashedKey(tasks), Len(tasks))
         /\ ReadsNewest(B!PutGetInterHashedKey(tasks))
<1> DEFINE n == Len(tasks)
           R(j) == Closed(B!PutTask(j, tasks[j]), j) \o B!GetTask(j, tasks[j])
           s == [j \in 1..n |-> R(j)]
<1>1. n \in Nat /\ n - 1 + 1 = n /\ \A j \in 1..n : tasks[j] \in Task /\ 1 + j - 1 = j /\ j \in Nat
  OBVIOUS
<1>2. B!PutGetInterHashedKey(tasks) = B!FlattenSeq(s)
  BY <1>1 DEF B!PutGetInterHashedKey, B!Loop, Closed
<1>3. s \in [1..n -> Seq(Op)] /\ \A j \in 1..n : s[j] = R(j)
  BY <1>1, TestBlocks
<1>4. ASSUME NEW j \in 0..(n - 1), NEW q \in Seq(Op), Tested(q, j), ReadsNewest(q)
      PROVE  Tested(q \o s[j + 1], j + 1) /\ ReadsNewest(q \o s[j + 1])
  <2>1. j \in Nat /\ j + 1 \in 1..n /\ tasks[j + 1] \in Task
    BY <1>1
  <2>2. s[j + 1] = R(j + 1)
    BY <1>3, <2>1
  <2> HIDE DEF s
  <2> QED BY <1>4, <2>1, <2>2, PutGetStep
<1> HIDE DEF s
<1> QED BY <1>1, <1>2, <1>3, <1>4, TestLoop

(* All tasks put first, then read in any order, again and again if need be. *)
LEMMA GivenStays ==
  ASSUME NEW q \in Seq(Op), NEW b \in Seq(Op), NEW v, NEW task, Given(q, v, task)
  PROVE  Given(q \o b, v, task)
BY Remembered DEF Given

LEMMA PutAllIsTested ==
  ASSUME NEW tasks \in Seq(Task)
  PROVE  /\ Tested(B!PutAll(tasks), Len(tasks))
         /\ \A j \in 1..Len(tasks) : Given(B!PutAll(tasks), j, tasks[j])
<1> DEFINE n == Len(tasks)
           R(j) == Closed(B!PutTask(j, tasks[j]), j)
           s == [j \in 1..n |-> R(j)]
           P == {x \in Nat \X Seq(Op) : /\ Tested(x[2], x[1])
                                        /\ \A i \in 1..x[1] : Given(x[2], i, tasks[i])}
<1>1. n \in Nat /\ n - 1 + 1 = n /\ \A j \in 1..n : tasks[j] \in Task /\ 1 + j - 1 = j /\ j \in Nat
  OBVIOUS
<1>2. B!PutAll(tasks) = B!FlattenSeq(s)
  BY <1>1 DEF B!PutAll, B!Loop, Closed
<1>3. s \in [1..n -> Seq(Op)] /\ \A j \in 1..n : s[j] = R(j)
  BY <1>1, TestBlocks
<1>4. <<0, <<>>>> \in P
  <2>1. PICK e \in Seq(Op) : e = <<>>
    BY NoOps
  <2>2. Tested(e, 0) /\ 1..0 = {}
    BY <2>1, NoTests
  <2>3. <<0, e>> \in P
    BY <2>2
  <2> QED BY <2>1, <2>3
<1>5. ASSUME NEW j \in 0..(n - 1), NEW q \in Seq(Op), <<j, q>> \in P
      PROVE  <<j + 1, q \o s[j + 1]>> \in P
  <2>1. j \in Nat /\ j + 1 \in Nat /\ j + 1 \in 1..n /\ tasks[j + 1] \in Task /\ Tested(q, j)
        /\ \A i \in 1..j : Given(q, i, tasks[i])
    BY <1>1, <1>5
  <2>2. PICK d : d = s[j + 1]
    OBVIOUS
  <2>3. d = Closed(B!PutTask(j + 1, tasks[j + 1]), j + 1) /\ d \in Seq(Op)
    BY <1>3, <2>1, <2>2
  <2>4. Tested(q \o d, j + 1) /\ Given(q \o d, j + 1, tasks[j + 1])
    BY <2>1, <2>3, TestRound
  <2>5. \A i \in 1..j : Given(q \o d, i, tasks[i])
    BY <2>1, <2>3, GivenStays
  <2>6. \A i \in 1..(j + 1) : Given(q \o d, i, tasks[i])
    <3>1. \A i \in 1..(j + 1) : i \in 1..j \/ i = j + 1
      BY <2>1
    <3> QED BY <2>4, <2>5, <3>1
  <2>7. q \o d \in Seq(Op)
    BY <2>3
  <2>8. <<j + 1, q \o d>> \in P
    BY <2>1, <2>4, <2>6, <2>7
  <2> HIDE DEF P, s
  <2> QED BY <2>2, <2>8
<1> HIDE DEF P, s
<1>6. <<n, B!FlattenSeq(s)>> \in P
  BY <1>1, <1>3, <1>4, <1>5, FlattenInduct
<1> QED BY <1>2, <1>6 DEF P

LEMMA PutAllGetAll ==
  ASSUME NEW tasks \in Seq(Task), NEW order \in [1..Len(tasks) -> 1..Len(tasks)]
  PROVE  Tested(B!PutAll(tasks) \o B!GetAll(tasks, order), Len(tasks))
<1> DEFINE n == Len(tasks)
           R(j) == B!GetTask(order[j], tasks[order[j]])
           s == [j \in 1..n |-> R(j)]
           a == B!PutAll(tasks)
           P == {x \in Nat \X Seq(Op) : /\ Tested(a \o x[2], n)
                                        /\ \A i \in 1..n : Given(a \o x[2], i, tasks[i])}
<1>1. /\ n \in Nat /\ n - 1 + 1 = n
      /\ \A j \in 1..n : tasks[j] \in Task /\ 1 + j - 1 = j /\ j \in Nat
      /\ \A i \in 1..n : order[i] \in 1..n
  OBVIOUS
<1>2. B!GetAll(tasks, order) = B!FlattenSeq(s)
  BY <1>1 DEF B!GetAll, B!Loop
<1>3. s \in [1..n -> Seq(Op)] /\ \A j \in 1..n : s[j] = R(j)
  BY <1>1, TestBlocks
<1>4. a \in Seq(Op) /\ Tested(a, n) /\ \A j \in 1..n : Given(a, j, tasks[j])
  BY PutAllIsTested DEF Tested, Rounds
<1> HIDE DEF a
<1>5. <<0, <<>>>> \in P
  <2>1. PICK e \in Seq(Op) : e = <<>>
    BY NoOps
  <2>2. a \o e = a
    BY <1>4, <2>1
  <2>3. <<0, e>> \in P
    BY <1>4, <2>2
  <2> QED BY <2>1, <2>3
<1>6. ASSUME NEW j \in 0..(n - 1), NEW q \in Seq(Op), <<j, q>> \in P
      PROVE  <<j + 1, q \o s[j + 1]>> \in P
  <2>1. j + 1 \in Nat /\ j + 1 \in 1..n /\ Tested(a \o q, n)
        /\ \A i \in 1..n : Given(a \o q, i, tasks[i])
    BY <1>6
  <2>2. PICK d : d = s[j + 1]
    OBVIOUS
  <2>3. PICK v : v = order[j + 1]
    OBVIOUS
  <2>4. v \in Nat /\ v \in 1..n /\ tasks[v] \in Task /\ d = B!GetTask(v, tasks[v]) /\ d \in Seq(Op)
    BY <1>1, <1>3, <2>1, <2>2, <2>3
  <2>5. Tested((a \o q) \o d, n)
    BY <1>1, <2>1, <2>4, TestReads
  <2>6. a \o q \in Seq(Op) /\ (a \o q) \o d = a \o (q \o d) /\ q \o d \in Seq(Op)
    BY <1>4, <2>4, Associates
  <2>7. \A i \in 1..n : Given((a \o q) \o d, i, tasks[i])
    BY <2>1, <2>4, <2>6, GivenStays
  <2>8. <<j + 1, q \o d>> \in P
    BY <2>1, <2>5, <2>6, <2>7
  <2> HIDE DEF P, s
  <2> QED BY <2>2, <2>8
<1> HIDE DEF P, s
<1>7. <<n, B!FlattenSeq(s)>> \in P
  BY <1>1, <1>3, <1>5, <1>6, FlattenInduct
<1> QED BY <1>2, <1>7 DEF P, a

(* The assertions of simple.cc. *)
LEMMA SimpleIsTested ==
  ASSUME NEW one \in Value, NEW two \in Value
  PROVE  Answerable(B!Simple(one, two)) /\ ReadsAfterCommits(B!Simple(one, two))
<1>1. PICK p : p = B!Simple(one, two)
  OBVIOUS
<1>2. /\ DOMAIN p = 1..12
      /\ p[1].op = "put" /\ p[1].version = 1 /\ p[1].key = 1 /\ p[1].value = one
      /\ p[2].op = "put" /\ p[2].version = 1 /\ p[2].key = 2 /\ p[2].value = one
      /\ p[3].op = "commit" /\ p[3].version = 1
      /\ p[4].op = "put" /\ p[4].version = 2 /\ p[4].key = 3 /\ p[4].value = one
      /\ p[5].op = "put" /\ p[5].version = 2 /\ p[5].key = 2 /\ p[5].value = two
      /\ p[6].op = "commit" /\ p[6].version = 2
      /\ p[7].op = "get" /\ p[7].version = 2 /\ p[7].key = 1 /\ p[7].value = one
      /\ p[8].op = "delete" /\ p[8].version = 3 /\ p[8].key = 1
      /\ p[9].op = "commit" /\ p[9].version = 3
      /\ p[10].op = "get" /\ p[10].version = 3 /\ p[10].key = 1 /\ p[10].value = NoValue
      /\ p[11].op = "get" /\ p[11].version = 1 /\ p[11].key = 0 /\ p[11].value = NoValue
      /\ p[12].op = "get" /\ p[12].version = 3 /\ p[12].key = 0 /\ p[12].value = NoValue
  BY <1>1 DEF B!Simple, B!Put, B!Get, B!Delete, B!Commit
<1>3. \A i \in 1..12 : i \in {1, 2, 3, 4, 5, 6, 7, 8, 9, 10, 11, 12}
  OBVIOUS
<1>4. Writes(p) = {1, 2, 4, 5, 8}
  BY <1>2, <1>3 DEF Writes
<1>5. Commits(p) = {3, 6, 9}
  BY <1>2, <1>3 DEF Commits
<1>6. Gets(p) = {7, 10, 11, 12}
  BY <1>2, <1>3 DEF Gets
<1>7. \A i, c : Gathered(p, i, c) /\ c \in {3, 6, 9} => i \in {1, 2, 4, 5, 8} /\ i < c
  BY <1>4 DEF Gathered
<1>8. Gathered(p, 1, 3) /\ Gathered(p, 4, 6) /\ Gathered(p, 8, 9)
  BY <1>4, <1>5 DEF Gathered
<1>9. Effective(p, 3) /\ Effective(p, 6) /\ Effective(p, 9)
  BY <1>4, <1>5, <1>8 DEF Effective
<1>10. Ordered(p)
  BY <1>2, <1>4 DEF Ordered
<1>11. Lawful(p)
  <2>1. \A i \in Writes(p) : p[i].version >= 1
    BY <1>2, <1>4
  <2>2. ASSUME NEW c \in Commits(p)
        PROVE  /\ \A i \in Writes(p) : i < c => p[i].version <= p[c].version
               /\ \E i \in Writes(p) : Gathered(p, i, c) /\ p[i].version = p[c].version
               /\ \A i \in Writes(p) : c < i => p[c].version < p[i].version
    <3>1. CASE c = 3
      BY <1>2, <1>4, <1>8, <3>1
    <3>2. CASE c = 6
      BY <1>2, <1>4, <1>8, <3>2
    <3>3. CASE c = 9
      BY <1>2, <1>4, <1>8, <3>3
    <3> QED BY <1>5, <3>1, <3>2, <3>3
  <2> QED BY <2>1, <2>2 DEF Lawful, Numbered
<1>12. /\ Leaves(p, 6, 1, one) /\ Leaves(p, 9, 1, NoValue) /\ Leaves(p, 3, 0, NoValue)
       /\ Leaves(p, 9, 0, NoValue)
  <2>1. LastOf(p, 1, 6) /\ LastOf(p, 8, 9)
    BY <1>2, <1>4 DEF LastOf
  <2>2. Put2(p, 1, one) /\ Put2(p, 8, NoValue)
    BY <1>2 DEF Put2
  <2>3. Unwritten(p, 0, 3) /\ Unwritten(p, 0, 9)
    BY <1>2, <1>4 DEF Unwritten
  <2>4. Leaves(p, 6, 1, one)
    BY <1>2, <1>4, <2>1, <2>2 DEF Leaves
  <2>5. Leaves(p, 9, 1, NoValue)
    BY <1>2, <1>4, <2>1, <2>2 DEF Leaves
  <2> QED BY <2>3, <2>4, <2>5 DEF Leaves
<1>13. Expecting(p)
  <2>1. ASSUME NEW g \in Gets(p)
        PROVE  \E c \in Commits(p) : /\ c < g /\ Effective(p, c) /\ p[c].version = p[g].version
                                     /\ Leaves(p, c, p[g].key, p[g].value)
    <3>1. CASE g = 7
      BY <1>2, <1>5, <1>9, <1>12, <3>1
    <3>2. CASE g = 10
      BY <1>2, <1>5, <1>9, <1>12, <3>2
    <3>3. CASE g = 11
      BY <1>2, <1>5, <1>9, <1>12, <3>3
    <3>4. CASE g = 12
      BY <1>2, <1>5, <1>9, <1>12, <3>4
    <3> QED BY <1>6, <3>1, <3>2, <3>3, <3>4
  <2> QED BY <2>1 DEF Expecting
<1>14. ReadsAfterCommits(p)
  <2>1. \A g \in Gets(p) : p[g].value # None
    BY <1>2, <1>6, TrieAssumption
  <2> QED BY <1>13, <2>1 DEF Expecting, ReadsAfterCommits
<1> QED BY <1>1, <1>10, <1>11, <1>13, <1>14 DEF Answerable

-----------------------------------------------------------------------------
(* The benchmarks, which expect nothing of what they read: a plan that has  *)
(* put something to every version from lo to hi.                            *)
Timed(p, lo, hi) ==
  /\ Rounds(p, lo, hi) /\ ReadsAfterCommits(p) /\ ExpectsNothing(p)
  /\ \A v \in lo..hi : Reached(p, v)
  /\ lo = 0 => \A i \in Writes(p) : p[i].op = "put"

LEMMA NotTimedYet ==
  ASSUME NEW lo \in Nat
  PROVE  Timed(<<>>, lo, lo - 1)
<1>1. <<>> \in Seq(Op) /\ DOMAIN <<>> = {}
  OBVIOUS
<1>2. Gets(<<>>) = {} /\ Writes(<<>>) = {} /\ lo..(lo - 1) = {}
  BY <1>1 DEF Gets, Writes
<1>3. Rounds(<<>>, lo, lo - 1)
  BY NoRounds
<1> QED BY <1>2, <1>3 DEF Timed, ReadsAfterCommits, ExpectsNothing

(* A round of writes, after reads at versions that were put to before.      *)
Block(b, lo, hi) ==
  /\ b \in Seq(Op) /\ Commits(b) = {} /\ Writes(b) # {}
  /\ \A m \in Writes(b) : /\ b[m].version = hi + 1
                          /\ b[m].op = "put" => b[m].value \in Value
                          /\ lo = 0 => b[m].op = "put"
  /\ \A m \in Gets(b) : b[m].value = None /\ b[m].version \in lo..hi

LEMMA TimedRound ==
  ASSUME NEW p, NEW lo \in Nat, NEW hi \in Int, lo <= hi + 1, Timed(p, lo, hi),
         NEW b, Block(b, lo, hi)
  PROVE  Closed(b, hi + 1) \in Seq(Op) /\ Timed(p \o Closed(b, hi + 1), lo, hi + 1)
<1>0. /\ b \in Seq(Op) /\ Commits(b) = {} /\ Writes(b) # {}
      /\ \A m \in Writes(b) : /\ b[m].version = hi + 1
                              /\ b[m].op = "put" => b[m].value \in Value
                              /\ lo = 0 => b[m].op = "put"
      /\ \A m \in Gets(b) : b[m].value = None /\ b[m].version \in lo..hi
  BY DEF Block
<1>1. PICK d : d = Closed(b, hi + 1)
  OBVIOUS
<1>2. Rounds(p, lo, hi) /\ p \in Seq(Op) /\ hi + 1 \in Nat /\ hi < hi + 1
  BY DEF Timed, Rounds
<1>3. /\ d \in Seq(Op) /\ Gets(d) = Gets(b)
      /\ \A m \in 1..Len(b) : d[m] = b[m]
      /\ Rounds(p \o d, lo, hi + 1) /\ Reached(p \o d, hi + 1)
  <2>1. PICK v \in Nat : v = hi + 1
    BY <1>2
  <2>2. \A m \in Writes(b) : b[m].version = v /\ (b[m].op = "put" => b[m].value \in Value)
    BY <1>0, <2>1
  <2>3. lo <= v /\ hi < v
    BY <1>2, <2>1
  <2>4. /\ Closed(b, v) \in Seq(Op) /\ Gets(Closed(b, v)) = Gets(b)
        /\ \A m \in 1..Len(b) : Closed(b, v)[m] = b[m]
        /\ Rounds(p \o Closed(b, v), lo, v)
        /\ Writes(b) # {} => Reached(p \o Closed(b, v), v)
        /\ \A m \in Writes(b) : \A x :
             Put2(b, m, x) /\ (\A l \in Writes(b) : m < l => b[l].key # b[m].key) =>
               Known(p \o Closed(b, v), v, b[m].key, x)
    BY <1>0, <1>2, <2>2, <2>3, CloseRound, Zenon
  <2> QED BY <1>0, <1>1, <2>1, <2>4
<1>4. \A m \in Gets(d) : m \in 1..Len(b) /\ d[m] = b[m]
  BY <1>0, <1>3, Places
<1>5. ReadsAfterCommits(p \o d) /\ ExpectsNothing(p \o d)
  <2>1. \A m \in Gets(d) : Reached(p, d[m].version)
    BY <1>0, <1>3, <1>4 DEF Timed
  <2>2. ExpectsNothing(d)
    BY <1>0, <1>3, <1>4 DEF ExpectsNothing
  <2> QED BY <1>2, <1>3, <2>1, <2>2, ReadsAppended DEF Timed
<1>6. \A v \in lo..(hi + 1) : Reached(p \o d, v)
  <2>1. \A v \in lo..(hi + 1) : v \in lo..hi \/ v = hi + 1
    BY <1>2
  <2>2. \A v \in lo..hi : Reached(p \o d, v)
    BY <1>2, <1>3, Remembered DEF Timed
  <2> QED BY <1>3, <2>1, <2>2
<1>7. lo = 0 => \A i \in Writes(p \o d) : (p \o d)[i].op = "put"
  <2> SUFFICES ASSUME lo = 0, NEW i \in Writes(p \o d) PROVE (p \o d)[i].op = "put"
    OBVIOUS
  <2>1. PICK q : q = p \o d
    OBVIOUS
  <2>2. q \in Seq(Op) /\ Joined(q, p, d) /\ Writes(q) \subseteq 1..Len(q)
    BY <1>2, <1>3, <2>1, Joins, Places
  <2>3. Writes(d) = Writes(b) /\ \A m \in Writes(b) : d[m] = b[m]
    BY <1>0, <1>1, <1>2, <1>3, Closing, Places
  <2>4. CASE i \in 1..Len(p)
    <3>1. i \in Writes(p) /\ q[i] = p[i]
      BY <2>1, <2>2, <2>4 DEF Joined
    <3> QED BY <2>1, <3>1 DEF Timed
  <2>5. ASSUME NEW m \in 1..Len(d), i = Len(p) + m PROVE q[i].op = "put"
    <3>1. m \in Writes(d) /\ q[i] = d[m]
      BY <2>1, <2>2, <2>5 DEF Joined
    <3> QED BY <1>0, <2>3, <3>1
  <2> QED BY <2>1, <2>2, <2>4, <2>5 DEF Joined
<1> QED BY <1>1, <1>3, <1>5, <1>6, <1>7 DEF Timed

(* Reads between the rounds. *)
LEMMA TimedReads ==
  ASSUME NEW p, NEW lo \in Nat, NEW hi \in Int, Timed(p, lo, hi),
         NEW b \in Seq(Op), Commits(b) = {}, Writes(b) = {},
         \A m \in Gets(b) : b[m].value = None /\ b[m].version \in lo..hi
  PROVE  Timed(p \o b, lo, hi)
<1>1. p \in Seq(Op) /\ Rounds(p, lo, hi)
  BY DEF Timed, Rounds
<1>2. Rounds(p \o b, lo, hi)
  BY <1>1, AppendQuiet
<1>3. ReadsAfterCommits(p \o b) /\ ExpectsNothing(p \o b)
  <2>1. \A m \in Gets(b) : Reached(p, b[m].version)
    BY DEF Timed
  <2>2. ExpectsNothing(b)
    BY DEF ExpectsNothing
  <2> QED BY <1>1, <2>1, <2>2, ReadsAppended DEF Timed
<1>4. \A v \in lo..hi : Reached(p \o b, v)
  BY <1>1, Remembered DEF Timed
<1>5. lo = 0 => \A i \in Writes(p \o b) : (p \o b)[i].op = "put"
  <2> SUFFICES ASSUME lo = 0, NEW i \in Writes(p \o b) PROVE (p \o b)[i].op = "put"
    OBVIOUS
  <2>1. PICK q : q = p \o b
    OBVIOUS
  <2>2. q \in Seq(Op) /\ Joined(q, p, b) /\ Writes(q) \subseteq 1..Len(q)
    BY <1>1, <2>1, Joins, Places
  <2>3. i \in 1..Len(p)
    BY <2>1, <2>2 DEF Joined
  <2>4. i \in Writes(p) /\ q[i] = p[i]
    BY <2>1, <2>2, <2>3 DEF Joined
  <2> QED BY <2>1, <2>4 DEF Timed
<1> QED BY <1>2, <1>3, <1>4, <1>5 DEF Timed

(* What the benchmarks put and read. *)
Fills(v, keys) == [i \in DOMAIN keys |-> B!Put(v, keys[i], Fill)]
Named == Seq(Keys) \ {<<>>}

LEMMA FillsAreBlock ==
  ASSUME Fill \in Value, NEW hi \in Int, hi >= -1, NEW keys \in Named
  PROVE  /\ Block(Fills(hi + 1, keys), 0, hi)
         /\ B!Batch(hi + 1, keys) = Closed(Fills(hi + 1, keys), hi + 1)
<1>1. PICK b : b = Fills(hi + 1, keys)
  OBVIOUS
<1>2. B!Batch(hi + 1, keys) = Closed(b, hi + 1)
  BY <1>1 DEF B!Batch, Closed, Fills
<1>3. /\ DOMAIN keys = 1..Len(keys) /\ Len(keys) \in Nat /\ 1 \in 1..Len(keys)
      /\ \A m \in 1..Len(keys) : keys[m] \in Keys
  <2>1. keys \in Seq(Keys) /\ keys # <<>>
    BY DEF Named
  <2> QED BY <2>1
<1>4. b = [m \in 1..Len(keys) |-> B!Put(hi + 1, keys[m], Fill)]
  BY <1>1, <1>3 DEF Fills
<1>5. \A m \in 1..Len(keys) :
        b[m] \in Op /\ b[m].op = "put" /\ b[m].version = hi + 1 /\ b[m].value \in Value
  BY <1>3, <1>4 DEF B!Put, Op, Asked
<1>6. b \in Seq(Op) /\ DOMAIN b = 1..Len(keys)
  BY <1>3, <1>4, <1>5
<1>7. Writes(b) = 1..Len(keys) /\ Commits(b) = {} /\ Gets(b) = {}
  BY <1>5, <1>6 DEF Writes, Commits, Gets
<1>8. Block(b, 0, hi)
  BY <1>3, <1>5, <1>6, <1>7 DEF Block
<1> QED BY <1>1, <1>2, <1>8

LEMMA TimedBatch ==
  ASSUME Fill \in Value, NEW p, NEW hi \in Int, hi >= -1, Timed(p, 0, hi), NEW keys \in Named
  PROVE  B!Batch(hi + 1, keys) \in Seq(Op) /\ Timed(p \o B!Batch(hi + 1, keys), 0, hi + 1)
<1>1. 0 \in Nat /\ 0 <= hi + 1
  OBVIOUS
<1> QED BY <1>1, FillsAreBlock, TimedRound

(* One block after the other, each of the next version.                     *)
Sequel(hi, n, bs) == B!FlattenSeq([j \in 1..n |-> Closed(bs[j], hi + j)])

LEMMA TimedBlocks ==
  ASSUME NEW p, NEW lo \in Nat, NEW hi \in Int, lo <= hi + 1, Timed(p, lo, hi),
         NEW n \in Nat, NEW bs, \A j \in 1..n : Block(bs[j], lo, hi + j - 1)
  PROVE  Sequel(hi, n, bs) \in Seq(Op) /\ Timed(p \o Sequel(hi, n, bs), lo, hi + n)
<1> DEFINE s == [j \in 1..n |-> Closed(bs[j], hi + j)]
           P == {x \in Nat \X Seq(Op) : Timed(p \o x[2], lo, hi + x[1])}
<1>1. p \in Seq(Op)
  BY DEF Timed, Rounds
<1>2. \A j \in 1..n : s[j] = Closed(bs[j], hi + j) /\ s[j] \in Seq(Op)
  <2> TAKE j \in 1..n
  <2>1. s[j] = Closed(bs[j], hi + j) /\ hi + j \in Nat
    OBVIOUS
  <2>2. bs[j] \in Seq(Op) /\ Commits(bs[j]) = {}
    BY DEF Block
  <2>3. Closed(bs[j], hi + j) \in Seq(Op)
    BY <2>1, <2>2, Closing
  <2> QED BY <2>1, <2>3
<1>3. s \in [1..n -> Seq(Op)]
  BY <1>2
<1>4. <<0, <<>>>> \in P
  <2>1. PICK e \in Seq(Op) : e = <<>>
    BY NoOps
  <2>2. p \o e = p /\ hi + 0 = hi
    BY <1>1, <2>1
  <2>3. <<0, e>> \in P
    BY <2>2
  <2> QED BY <2>1, <2>3
<1>5. ASSUME NEW j \in 0..(n - 1), NEW q \in Seq(Op), <<j, q>> \in P
      PROVE  <<j + 1, q \o s[j + 1]>> \in P
  <2>1. j + 1 \in Nat /\ j + 1 \in 1..n /\ Timed(p \o q, lo, hi + j) /\ (j + 1) - 1 = j
    BY <1>5
  <2>2. PICK h \in Int : h = hi + j
    OBVIOUS
  <2>3. lo <= h + 1 /\ h + 1 = hi + (j + 1) /\ h = hi + (j + 1) - 1
    BY <2>1, <2>2
  <2>4. PICK d : d = s[j + 1]
    OBVIOUS
  <2>5. d = Closed(bs[j + 1], h + 1) /\ d \in Seq(Op) /\ Block(bs[j + 1], lo, h)
    BY <1>2, <2>1, <2>3, <2>4
  <2>6. Timed((p \o q) \o d, lo, h + 1)
    BY <2>1, <2>2, <2>3, <2>5, TimedRound
  <2>7. (p \o q) \o d = p \o (q \o d) /\ q \o d \in Seq(Op)
    <3>1. d \in Seq(Op)
      BY <2>5
    <3> QED BY <1>1, <3>1, Associates
  <2>8. <<j + 1, q \o d>> \in P
    BY <2>1, <2>3, <2>6, <2>7
  <2> HIDE DEF P, s
  <2> QED BY <2>4, <2>8
<1> HIDE DEF P, s
<1>6. B!FlattenSeq(s) \in Seq(Op) /\ <<n, B!FlattenSeq(s)>> \in P
  BY <1>3, <1>4, <1>5, FlattenInduct
<1> QED BY <1>6 DEF P, s, Sequel

(* Reads of versions up to hi, one by one. *)
Lookups(hi) == {B!Read(x[1], x[2]) : x \in (0..hi) \X Keys}

LEMMA TimedLookups ==
  ASSUME NEW p, NEW hi \in Int, Timed(p, 0, hi), NEW b \in Seq(Lookups(hi))
  PROVE  b \in Seq(Op) /\ Timed(p \o b, 0, hi)
<1>1. \A o \in Lookups(hi) :
        o \in Op /\ o.op = "get" /\ o.version \in 0..hi /\ o.value = None
  <2> TAKE o \in Lookups(hi)
  <2>1. PICK x \in (0..hi) \X Keys : o = B!Read(x[1], x[2])
    BY DEF Lookups
  <2>2. x[1] \in 0..hi /\ x[1] \in Nat /\ x[2] \in Keys
    BY <2>1
  <2>3. /\ o = [op |-> "get", version |-> x[1], key |-> x[2], value |-> None, noted |-> FALSE]
        /\ None \in Expectable
    BY <2>1 DEF B!Read, B!Get, Expectable
  <2>4. o \in [op : {"get"}, version : Nat, key : Keys, value : Expectable, noted : BOOLEAN]
    BY <2>2, <2>3
  <2> QED BY <2>2, <2>3, <2>4 DEF Op
<1>2. DOMAIN b = 1..Len(b) /\ Len(b) \in Nat /\ \A m \in 1..Len(b) : b[m] \in Lookups(hi)
  <2> HIDE DEF Lookups
  <2> QED OBVIOUS
<1>3. b \in Seq(Op)
  BY <1>1, <1>2
<1>4. Writes(b) = {} /\ Commits(b) = {} /\ Gets(b) = 1..Len(b)
  BY <1>1, <1>2 DEF Writes, Commits, Gets
<1>5. 0 \in Nat /\ \A m \in Gets(b) : b[m].value = None /\ b[m].version \in 0..hi
  BY <1>1, <1>2, <1>4
<1>6. Timed(p \o b, 0, hi)
  BY <1>3, <1>4, <1>5, TimedReads
<1> QED BY <1>3, <1>6

LEMMA ReadsAreLookups ==
  ASSUME NEW hi \in Int, NEW v \in 0..hi, NEW keys \in Seq(Keys)
  PROVE  B!Reads(v, keys) \in Seq(Lookups(hi))
<1>1. DOMAIN keys = 1..Len(keys) /\ Len(keys) \in Nat /\ \A m \in 1..Len(keys) : keys[m] \in Keys
  OBVIOUS
<1>2. B!Reads(v, keys) = [m \in 1..Len(keys) |-> B!Read(v, keys[m])]
  BY <1>1 DEF B!Reads
<1>3. \A m \in 1..Len(keys) : B!Read(v, keys[m]) \in Lookups(hi)
  <2> TAKE m \in 1..Len(keys)
  <2>1. PICK x \in (0..hi) \X Keys : x = <<v, keys[m]>>
    BY <1>1
  <2>2. x[1] = v /\ x[2] = keys[m]
    BY <2>1
  <2> QED BY <2>1, <2>2 DEF Lookups
<1> QED BY <1>1, <1>2, <1>3

LEMMA FlattenTyped ==
  ASSUME NEW T, NEW n \in Nat, NEW s \in [1..n -> Seq(T)]
  PROVE  B!FlattenSeq(s) \in Seq(T)
<1> DEFINE P == Nat \X Seq(T)
<1>1. <<0, <<>>>> \in P
  <2>1. PICK e : e = <<>>
    OBVIOUS
  <2>2. e \in Seq(T)
    BY <2>1
  <2>3. <<0, e>> \in P
    BY <2>2
  <2> QED BY <2>1, <2>3
<1>2. \A j \in 0..(n - 1), q \in Seq(T) : <<j, q>> \in P => <<j + 1, q \o s[j + 1]>> \in P
  <2> TAKE j \in 0..(n - 1), q \in Seq(T)
  <2>1. j + 1 \in 1..n /\ j + 1 \in Nat /\ s[j + 1] \in Seq(T)
    OBVIOUS
  <2>2. q \o s[j + 1] \in Seq(T)
    BY <2>1
  <2> QED BY <2>1, <2>2
<1> HIDE DEF P
<1> QED BY <1>1, <1>2, FlattenInduct

(* Version after version is loaded or updated. *)
Batches(hi, n, keys) == B!FlattenSeq([j \in 1..n |-> B!Batch(hi + j, keys[j])])

LEMMA TimedBatches ==
  ASSUME Fill \in Value, NEW p, NEW hi \in Int, hi >= -1, Timed(p, 0, hi),
         NEW n \in Nat, NEW keys \in [1..n -> Named]
  PROVE  Batches(hi, n, keys) \in Seq(Op) /\ Timed(p \o Batches(hi, n, keys), 0, hi + n)
<1> DEFINE bs == [j \in 1..n |-> Fills(hi + j, keys[j])]
<1>1. ASSUME NEW j \in 1..n
      PROVE  Block(bs[j], 0, hi + j - 1) /\ B!Batch(hi + j, keys[j]) = Closed(bs[j], hi + j)
  <2>1. PICK h \in Int : h = hi + j - 1
    OBVIOUS
  <2>2. h + 1 = hi + j /\ h >= -1 /\ keys[j] \in Named
    BY <2>1
  <2>3. Block(Fills(h + 1, keys[j]), 0, h) /\ B!Batch(h + 1, keys[j]) = Closed(Fills(h + 1, keys[j]), h + 1)
    BY <2>2, FillsAreBlock
  <2>4. bs[j] = Fills(hi + j, keys[j])
    OBVIOUS
  <2> HIDE DEF bs
  <2> QED BY <2>1, <2>2, <2>3, <2>4
<1> HIDE DEF bs
<1>2. Batches(hi, n, keys) = Sequel(hi, n, bs)
  <2>1. [j \in 1..n |-> B!Batch(hi + j, keys[j])] = [j \in 1..n |-> Closed(bs[j], hi + j)]
    BY <1>1
  <2> QED BY <2>1 DEF Batches, Sequel
<1>3. 0 \in Nat /\ 0 <= hi + 1
  OBVIOUS
<1>4. \A j \in 1..n : Block(bs[j], 0, hi + j - 1)
  BY <1>1
<1>5. Sequel(hi, n, bs) \in Seq(Op) /\ Timed(p \o Sequel(hi, n, bs), 0, hi + n)
  BY <1>3, <1>4, TimedBlocks
<1> QED BY <1>2, <1>5

LEMMA Counted ==
  ASSUME NEW first \in Int, NEW count \in Nat
  PROVE  B!From(first, count) \in Seq(Keys) /\ (count > 0 => B!From(first, count) \in Named)
<1>1. B!From(first, count) \in Seq(Keys)
  BY DEF B!From, Keys
<1>2. count > 0 => B!From(first, count) # <<>>
  <2>1. Len(B!From(first, count)) = count
    BY DEF B!From
  <2> QED BY <2>1
<1> QED BY <1>1, <1>2 DEF Named

LEMMA LoadIsTimed ==
  ASSUME Fill \in Value, NEW num_load \in Nat, NEW batch \in Nat \ {0}
  PROVE  B!Load(num_load, batch) \in Seq(Op) /\ Timed(B!Load(num_load, batch), 0, num_load)
<1> DEFINE n == num_load + 1
           keys == [j \in 1..n |-> B!From((j - 1) * batch + 1, batch)]
<1>1. n \in Nat /\ keys \in [1..n -> Named]
  <2>1. ASSUME NEW j \in 1..n PROVE B!From((j - 1) * batch + 1, batch) \in Named
    <3>1. (j - 1) * batch + 1 \in Int /\ batch \in Nat /\ batch > 0
      OBVIOUS
    <3> QED BY <3>1, Counted
  <2> QED BY <2>1
<1>2. B!Load(num_load, batch) = Batches(-1, n, keys)
  <2>1. num_load - 0 + 1 = n
    OBVIOUS
  <2>2. \A j \in 1..n : /\ keys[j] = B!From((j - 1) * batch + 1, batch)
                        /\ 0 + j - 1 = j - 1 /\ -1 + j = j - 1
    OBVIOUS
  <2>3. [j \in 1..n |-> B!Batch(-1 + j, keys[j])]
        = [j \in 1..n |-> B!Batch(0 + j - 1, B!From((0 + j - 1) * batch + 1, batch))]
    <3> HIDE DEF keys, n
    <3> QED BY <2>2
  <2> QED BY <2>1, <2>3 DEF B!Load, B!Loop, Batches
<1> HIDE DEF keys
<1>3. PICK p \in Seq(Op) : p = <<>>
  BY NoOps
<1>4. Timed(p, 0, -1)
  <2>1. 0 - 1 = -1 /\ 0 \in Nat
    OBVIOUS
  <2> QED BY <1>3, <2>1, NotTimedYet
<1>5. -1 \in Int /\ -1 >= -1 /\ -1 + n = num_load
  OBVIOUS
<1>6. Batches(-1, n, keys) \in Seq(Op) /\ Timed(p \o Batches(-1, n, keys), 0, num_load)
  BY <1>1, <1>4, <1>5, TimedBatches
<1>7. p \o Batches(-1, n, keys) = Batches(-1, n, keys)
  BY <1>3, <1>6
<1> QED BY <1>2, <1>6, <1>7

LEMMA MicroIsTimed ==
  ASSUME Fill \in Value, NEW num_load \in Nat, NEW batch \in Nat \ {0},
         NEW updates \in Seq(Named), NEW gets \in Seq(Keys)
  PROVE  Timed(B!MicroBenchmark(num_load, batch, updates, gets), 0, num_load + Len(updates))
<1> DEFINE n == Len(updates)
<1>1. n \in Nat /\ DOMAIN updates = 1..n /\ updates \in [1..n -> Named] /\ n - 1 + 1 = n
  OBVIOUS
<1>2. PICK a \in Seq(Op) : a = B!Load(num_load, batch) /\ Timed(a, 0, num_load)
  BY LoadIsTimed
<1>3. B!Loop(1, Len(updates), LAMBDA t : B!Batch(num_load + t, updates[t]))
      = Batches(num_load, n, updates)
  <2>1. \A j \in 1..n : 1 + j - 1 = j
    OBVIOUS
  <2>2. [j \in 1..n |-> B!Batch(num_load + (1 + j - 1), updates[1 + j - 1])]
        = [j \in 1..n |-> B!Batch(num_load + j, updates[j])]
    BY <2>1
  <2> QED BY <1>1, <2>2 DEF B!Loop, Batches
<1>4. PICK b \in Seq(Op) : b = Batches(num_load, n, updates) /\ Timed(a \o b, 0, num_load + n)
  BY <1>1, <1>2, TimedBatches
<1>5. B!LastVersion(num_load + n + 1) = num_load + n /\ num_load + n \in 0..(num_load + n)
  BY <1>1 DEF B!LastVersion
<1>6. B!Reads(num_load + n, gets) \in Seq(Lookups(num_load + n))
  BY <1>1, <1>5, ReadsAreLookups
<1>7. Timed((a \o b) \o B!Reads(num_load + n, gets), 0, num_load + n)
  BY <1>1, <1>4, <1>6, TimedLookups
<1> QED BY <1>2, <1>3, <1>4, <1>5, <1>7 DEF B!MicroBenchmark

LEMMA MicroSeqIsTimed ==
  ASSUME Fill \in Value, NEW num_load \in Nat, NEW batch \in Nat \ {0},
         NEW num_txn \in Nat, NEW txn_batch \in Nat \ {0}
  PROVE  Timed(B!MicroSeqBenchmark(num_load, batch, num_txn, txn_batch), 0, num_load + num_txn)
<1> DEFINE keys == [t \in 1..num_txn |-> B!From((t - 1) * txn_batch, txn_batch)]
<1>1. keys \in [1..num_txn -> Named]
  <2>1. ASSUME NEW j \in 1..num_txn PROVE B!From((j - 1) * txn_batch, txn_batch) \in Named
    <3>1. (j - 1) * txn_batch \in Int /\ txn_batch \in Nat /\ txn_batch > 0
      OBVIOUS
    <3> QED BY <3>1, Counted
  <2> QED BY <2>1
<1>2. PICK a \in Seq(Op) : a = B!Load(num_load, batch) /\ Timed(a, 0, num_load)
  BY LoadIsTimed
<1>3. B!Loop(1, num_txn, LAMBDA t :
        B!Batch(num_load + t, B!From((t - 1) * txn_batch, txn_batch)))
      = Batches(num_load, num_txn, keys)
  <2>1. \A j \in 1..num_txn :
          1 + j - 1 = j /\ keys[j] = B!From((j - 1) * txn_batch, txn_batch)
    OBVIOUS
  <2>2. num_txn - 1 + 1 = num_txn
    OBVIOUS
  <2>3. [j \in 1..num_txn |-> B!Batch(num_load + (1 + j - 1),
                                       B!From(((1 + j - 1) - 1) * txn_batch, txn_batch))]
        = [j \in 1..num_txn |-> B!Batch(num_load + j, keys[j])]
    <3> HIDE DEF keys
    <3> QED BY <2>1
  <2> QED BY <2>2, <2>3 DEF B!Loop, Batches
<1>4. B!LastVersion(num_load + 1) = num_load /\ num_load \in 0..num_load
  BY DEF B!LastVersion
<1>5. PICK r : r = B!Reads(num_load, B!From(0, num_txn * txn_batch))
  OBVIOUS
<1>6. r \in Seq(Lookups(num_load))
  <2>1. 0 \in Int /\ num_txn * txn_batch \in Nat
    OBVIOUS
  <2>2. B!From(0, num_txn * txn_batch) \in Seq(Keys)
    BY <2>1, Counted
  <2> QED BY <1>4, <1>5, <2>2, ReadsAreLookups
<1>7. r \in Seq(Op) /\ Timed(a \o r, 0, num_load)
  BY <1>2, <1>6, TimedLookups
<1> HIDE DEF keys
<1>8. Timed((a \o r) \o Batches(num_load, num_txn, keys), 0, num_load + num_txn)
  BY <1>1, <1>7, TimedBatches
<1> QED BY <1>2, <1>3, <1>4, <1>5, <1>8 DEF B!MicroSeqBenchmark

LEMMA RangeIsTimed ==
  ASSUME Fill \in Value, NEW num_load \in Nat, NEW batch \in Nat \ {0},
         NEW ranges \in Seq(Nat), NEW start \in Int
  PROVE  Timed(B!RangeBenchmark(num_load, batch, ranges, start), 0, num_load)
<1> DEFINE n == Len(ranges)
           s == [r \in 1..n |-> B!Reads(num_load, B!From(start, ranges[r]))]
<1>1. n \in Nat /\ n - 1 + 1 = n /\ \A r \in 1..n : ranges[r] \in Nat /\ 1 + r - 1 = r
  OBVIOUS
<1>2. PICK a \in Seq(Op) : a = B!Load(num_load, batch) /\ Timed(a, 0, num_load)
  BY LoadIsTimed
<1>3. B!LastVersion(num_load + 1) = num_load /\ num_load \in 0..num_load
  BY DEF B!LastVersion
<1>4. \A r \in 1..n : B!Reads(num_load, B!From(start, ranges[r])) \in Seq(Lookups(num_load))
  <2> TAKE r \in 1..n
  <2>1. B!From(start, ranges[r]) \in Seq(Keys)
    BY <1>1, Counted
  <2> QED BY <1>3, <2>1, ReadsAreLookups
<1>5. s \in [1..n -> Seq(Lookups(num_load))]
  BY <1>4
<1>6. B!RangeBenchmark(num_load, batch, ranges, start) = a \o B!FlattenSeq(s)
  <2>1. [r \in 1..n |-> B!Reads(B!LastVersion(num_load + 1), B!From(start, ranges[1 + r - 1]))] = s
    BY <1>1, <1>3
  <2>2. B!Loop(1, Len(ranges), LAMBDA r :
          B!Reads(B!LastVersion(num_load + 1), B!From(start, ranges[r])))
        = B!FlattenSeq(s)
    BY <1>1, <2>1 DEF B!Loop
  <2> QED BY <1>2, <2>2 DEF B!RangeBenchmark
<1> HIDE DEF s
<1>7. B!FlattenSeq(s) \in Seq(Lookups(num_load))
  BY <1>1, <1>5, FlattenTyped
<1>8. Timed(a \o B!FlattenSeq(s), 0, num_load)
  BY <1>2, <1>7, TimedLookups
<1> QED BY <1>6, <1>8

(* Versions below the current one, however far back the options ask for.    *)
LEMMA LineageLookups ==
  ASSUME NEW cur \in Nat, NEW keys \in Seq(Keys), NEW oldest \in Nat, NEW count \in Nat \cup {None}
  PROVE  B!LineageReads(cur, keys, oldest, count) \in Seq(Lookups(cur))
<1> DEFINE ov == cur - oldest
           lv == IF count = None \/ ov + count > cur THEN cur ELSE ov + count
           reads == B!Loop(1, Len(keys), LAMBDA t :
                      B!Loop(ov, lv - 1, LAMBDA v : <<B!Read(v, keys[t])>>))
<1>1. B!LineageReads(cur, keys, oldest, count) = IF ov < 0 THEN <<>> ELSE reads
  BY DEF B!LineageReads
<1>2. reads = B!FlattenSeq([t \in 1..(Len(keys) - 1 + 1) |->
                B!FlattenSeq([i \in 1..((lv - 1) - ov + 1) |-> <<B!Read(ov + i - 1, keys[1 + t - 1])>>])])
  BY DEF B!Loop
<1> HIDE DEF reads
<1>3. ov \in Int /\ ov = cur - oldest
  OBVIOUS
<1>4. lv = IF count = None \/ ov + count > cur THEN cur ELSE ov + count
  OBVIOUS
<1> HIDE DEF lv, ov
<1>5. PICK T : T = Lookups(cur)
  OBVIOUS
<1>6. CASE ov < 0
  <2>1. B!LineageReads(cur, keys, oldest, count) = <<>>
    BY <1>1, <1>6
  <2> QED BY <1>5, <2>1
<1>7. CASE ~(ov < 0)
  <2> DEFINE n == Len(keys)
             m == lv - ov
             R(t, i) == <<B!Read(ov + i - 1, keys[t])>>
             r(t) == [i \in 1..m |-> R(t, i)]
             s == [t \in 1..n |-> B!FlattenSeq(r(t))]
  <2>1. lv \in Nat /\ ov <= lv /\ lv <= cur
    <3>1. CASE count = None \/ ov + count > cur
      BY <1>3, <1>4, <1>7, <3>1
    <3>2. CASE ~(count = None \/ ov + count > cur)
      <4>1. count \in Nat /\ lv = ov + count /\ ~(ov + count > cur)
        BY <1>4, <3>2
      <4> QED BY <1>3, <1>7, <4>1
    <3> QED BY <3>1, <3>2
  <2>2. m \in Nat /\ n \in Nat /\ (lv - 1) - ov + 1 = m /\ n - 1 + 1 = n
    BY <1>3, <2>1
  <2>3. ASSUME NEW t \in 1..n PROVE B!FlattenSeq(r(t)) \in Seq(T)
    <3>1. ASSUME NEW i \in 1..m PROVE R(t, i) \in Seq(T)
      <4>1. ov + i - 1 \in 0..cur /\ keys[t] \in Keys
        BY <1>3, <1>7, <2>1
      <4>2. PICK x \in (0..cur) \X Keys : x = <<ov + i - 1, keys[t]>>
        BY <4>1
      <4>3. B!Read(ov + i - 1, keys[t]) \in T
        BY <1>5, <4>2 DEF Lookups
      <4> QED BY <4>3
    <3>2. r(t) \in [1..m -> Seq(T)]
      BY <3>1
    <3> HIDE DEF r
    <3> QED BY <2>2, <3>2, FlattenTyped
  <2>4. s \in [1..n -> Seq(T)]
    BY <2>3
  <2>5. B!FlattenSeq(s) \in Seq(T)
    <3> HIDE DEF s
    <3> QED BY <2>2, <2>4, FlattenTyped
  <2>6. \A t \in 1..n : 1 + t - 1 = t
    BY <2>2
  <2>7. [t \in 1..(n - 1 + 1) |->
           B!FlattenSeq([i \in 1..((lv - 1) - ov + 1) |-> <<B!Read(ov + i - 1, keys[1 + t - 1])>>])]
        = s
    BY <2>2, <2>6
  <2> QED BY <1>1, <1>2, <1>5, <1>7, <2>5, <2>7
<1> QED BY <1>6, <1>7

LEMMA LineageV1IsTimed ==
  ASSUME Fill \in Value, NEW num_load \in Nat, NEW batch \in Nat \ {0}, NEW num_txn \in Nat,
         NEW keys \in Named, NEW oldest \in Nat, NEW count \in Nat \cup {None}
  PROVE  Timed(B!LineageBenchmarkV1(num_load, batch, num_txn, keys, oldest, count),
               0, num_load + num_txn)
<1> DEFINE each == [j \in 1..num_txn |-> keys]
<1>1. each \in [1..num_txn -> Named] /\ keys \in Seq(Keys)
  BY DEF Named
<1>2. PICK a \in Seq(Op) : a = B!Load(num_load, batch) /\ Timed(a, 0, num_load)
  BY LoadIsTimed
<1>3. B!Loop(num_load + 1, num_load + num_txn, LAMBDA v : B!Batch(v, keys))
      = Batches(num_load, num_txn, each)
  <2>1. (num_load + num_txn) - (num_load + 1) + 1 = num_txn
    OBVIOUS
  <2>2. \A j \in 1..num_txn : (num_load + 1) + j - 1 = num_load + j /\ each[j] = keys
    OBVIOUS
  <2>3. [j \in 1..num_txn |-> B!Batch((num_load + 1) + j - 1, keys)]
        = [j \in 1..num_txn |-> B!Batch(num_load + j, each[j])]
    <3> HIDE DEF each
    <3> QED BY <2>2
  <2> QED BY <2>1, <2>3 DEF B!Loop, Batches
<1> HIDE DEF each
<1>4. Timed(a \o Batches(num_load, num_txn, each), 0, num_load + num_txn)
  BY <1>1, <1>2, TimedBatches
<1>5. B!LastVersion(num_load + num_txn + 1) = num_load + num_txn /\ num_load + num_txn \in Nat
  BY DEF B!LastVersion
<1>6. B!LineageReads(num_load + num_txn, keys, oldest, count) \in Seq(Lookups(num_load + num_txn))
  BY <1>1, <1>5, LineageLookups
<1>7. Timed((a \o Batches(num_load, num_txn, each))
              \o B!LineageReads(num_load + num_txn, keys, oldest, count), 0, num_load + num_txn)
  BY <1>4, <1>5, <1>6, TimedLookups
<1> QED BY <1>2, <1>3, <1>5, <1>7 DEF B!LineageBenchmarkV1

LEMMA LineageV2IsTimed ==
  ASSUME Fill \in Value, NEW num_load \in Nat, NEW num_txn \in Nat,
         NEW keys \in Named, NEW oldest \in Nat, NEW count \in Nat \cup {None}
  PROVE  Timed(B!LineageBenchmarkV2(num_load, num_txn, keys, oldest, count),
               0, num_load + num_txn)
<1> DEFINE n == num_load + num_txn + 1
           each == [j \in 1..n |-> keys]
<1>1. each \in [1..n -> Named] /\ keys \in Seq(Keys) /\ n \in Nat
  BY DEF Named
<1>2. B!Loop(0, num_load + num_txn, LAMBDA v : B!Batch(v, keys)) = Batches(-1, n, each)
  <2>1. num_load + num_txn - 0 + 1 = n
    OBVIOUS
  <2>2. \A j \in 1..n : 0 + j - 1 = -1 + j /\ each[j] = keys
    OBVIOUS
  <2>3. [j \in 1..n |-> B!Batch(0 + j - 1, keys)]
        = [j \in 1..n |-> B!Batch(-1 + j, each[j])]
    <3> HIDE DEF each, n
    <3> QED BY <2>2
  <2> QED BY <2>1, <2>3 DEF B!Loop, Batches
<1>3. PICK p \in Seq(Op) : p = <<>>
  BY NoOps
<1>4. Timed(p, 0, -1)
  <2>1. 0 - 1 = -1 /\ 0 \in Nat
    OBVIOUS
  <2> QED BY <1>3, <2>1, NotTimedYet
<1>5. -1 \in Int /\ -1 >= -1 /\ -1 + n = num_load + num_txn
  OBVIOUS
<1> HIDE DEF each, n
<1>6. Batches(-1, n, each) \in Seq(Op) /\ Timed(p \o Batches(-1, n, each), 0, num_load + num_txn)
  BY <1>1, <1>4, <1>5, TimedBatches
<1>7. p \o Batches(-1, n, each) = Batches(-1, n, each)
  BY <1>3, <1>6
<1>8. B!LastVersion(num_load + num_txn + 1) = num_load + num_txn /\ num_load + num_txn \in Nat
  BY DEF B!LastVersion
<1>9. B!LineageReads(num_load + num_txn, keys, oldest, count) \in Seq(Lookups(num_load + num_txn))
  BY <1>1, <1>8, LineageLookups
<1>10. Timed(Batches(-1, n, each) \o B!LineageReads(num_load + num_txn, keys, oldest, count),
             0, num_load + num_txn)
  <2>1. PICK h \in Int : h = num_load + num_txn
    BY <1>8
  <2> QED BY <1>6, <1>7, <1>9, <2>1, TimedLookups
<1> QED BY <1>2, <1>8, <1>10 DEF B!LineageBenchmarkV2

(* A replayed trace commits nothing. *)
LEMMA TraceIsAnswerable ==
  ASSUME Fill \in Value, NEW trace \in Seq([op : {"BatchGet", "put"}, key : Keys])
  PROVE  /\ Ordered(B!TraceReplay(trace)) /\ Lawful(B!TraceReplay(trace))
         /\ ExpectsNothing(B!TraceReplay(trace))
<1>1. PICK p : p = B!TraceReplay(trace)
  OBVIOUS
<1>2. \A i \in DOMAIN p :
        \/ p[i].op = "get" /\ p[i].value = None
        \/ p[i].op = "put" /\ p[i].value = Fill /\ p[i].version = 1
  BY <1>1 DEF B!TraceReplay, B!Read, B!Get, B!Put
<1>3. Commits(p) = {}
  BY <1>2 DEF Commits
<1>4. \A i \in Writes(p) : p[i].value \in Value /\ p[i].version = 1
  BY <1>2 DEF Writes
<1>5. Ordered(p)
  BY <1>4 DEF Ordered
<1>6. Lawful(p)
  BY <1>3, <1>4 DEF Lawful, Numbered
<1>7. ExpectsNothing(p)
  BY <1>2 DEF ExpectsNothing, Gets
<1> QED BY <1>1, <1>5, <1>6, <1>7

(* Accounts are opened, and then pay: a block reads the version before.     *)
LEMMA OpeningsAreBlock ==
  ASSUME Opening \in Value, NEW hi \in Nat, NEW batch \in Nat \ {0}, NEW first \in Int
  PROVE  Block([i \in 1..batch |-> B!Put(hi + 1, first + i, Opening)], 1, hi)
<1>1. PICK b : b = [i \in 1..batch |-> B!Put(hi + 1, first + i, Opening)]
  OBVIOUS
<1>2. \A m \in 1..batch :
        b[m] \in Op /\ b[m].op = "put" /\ b[m].version = hi + 1 /\ b[m].value \in Value
  <2> TAKE m \in 1..batch
  <2>1. first + m \in Keys /\ hi + 1 \in Nat /\ Opening \in Asked
    BY DEF Keys, Asked
  <2>2. b[m] = B!Put(hi + 1, first + m, Opening)
    BY <1>1
  <2> QED BY <2>1, <2>2 DEF B!Put, Op
<1>3. b \in Seq(Op) /\ DOMAIN b = 1..batch /\ 1 \in 1..batch
  BY <1>1, <1>2
<1>4. Writes(b) = 1..batch /\ Commits(b) = {} /\ Gets(b) = {}
  BY <1>2, <1>3 DEF Writes, Commits, Gets
<1> QED BY <1>1, <1>2, <1>3, <1>4 DEF Block

Transfers == Seq([send : Keys, recv : Keys]) \ {<<>>}
Payments(v, pays) == B!FlattenSeq([i \in 1..Len(pays) |-> B!Payment(v, pays[i])])

LEMMA PaymentsAreBlock ==
  ASSUME NEW hi \in Nat, hi >= 1, NEW pays \in Transfers
  PROVE  Block(Payments(hi + 1, pays), 1, hi)
<1> DEFINE n == Len(pays)
           s == [i \in 1..n |-> B!Payment(hi + 1, pays[i])]
           b == B!FlattenSeq(s)
           T == {o \in Op : \/ o.op = "get" /\ o.value = None /\ o.version = hi
                            \/ o.op = "settle" /\ o.version = hi + 1}
           P == {x \in Nat \X Seq(T) : x[1] = 0 \/ \E m \in DOMAIN x[2] : x[2][m].op = "settle"}
<1>1. n \in Nat /\ n >= 1 /\ \A i \in 1..n : pays[i].send \in Keys /\ pays[i].recv \in Keys
  <2>1. PICK R : R = [send : Keys, recv : Keys]
    OBVIOUS
  <2>2. pays \in Seq(R) /\ pays # <<>>
    BY <2>1 DEF Transfers
  <2>3. \A r \in R : r.send \in Keys /\ r.recv \in Keys
    BY <2>1
  <2> QED BY <2>2, <2>3
<1>2. ASSUME NEW k \in Keys
      PROVE  /\ B!Read(hi, k) \in T
             /\ B!Settle(hi + 1, k, "send") \in T /\ B!Settle(hi + 1, k, "recv") \in T
             /\ B!Settle(hi + 1, k, "send").op = "settle"
  <2>1. PICK v \in Nat : v = hi + 1
    OBVIOUS
  <2>2. B!Read(hi, k) \in Op /\ B!Read(hi, k).op = "get" /\ B!Read(hi, k).value = None
        /\ B!Read(hi, k).version = hi
    BY DEF B!Read, B!Get, Op, Expectable
  <2>3. ASSUME NEW side \in {"send", "recv"}
        PROVE  B!Settle(v, k, side) \in Op /\ B!Settle(v, k, side).op = "settle"
               /\ B!Settle(v, k, side).version = v
    BY DEF B!Settle, Op
  <2> QED BY <2>1, <2>2, <2>3
<1>3. ASSUME NEW i \in 1..n
      PROVE  /\ s[i] \in Seq(T) /\ 3 \in DOMAIN s[i] /\ s[i][3].op = "settle"
  <2>1. s[i] = B!Payment(hi + 1, pays[i]) /\ (hi + 1) - 1 = hi
    OBVIOUS
  <2>2. s[i] = <<B!Read(hi, pays[i].send), B!Read(hi, pays[i].recv),
                 B!Settle(hi + 1, pays[i].send, "send"), B!Settle(hi + 1, pays[i].recv, "recv")>>
    BY <2>1 DEF B!Payment
  <2> HIDE DEF T, s
  <2>3. /\ B!Read(hi, pays[i].send) \in T /\ B!Read(hi, pays[i].recv) \in T
        /\ B!Settle(hi + 1, pays[i].send, "send") \in T
        /\ B!Settle(hi + 1, pays[i].recv, "recv") \in T
        /\ B!Settle(hi + 1, pays[i].send, "send").op = "settle"
    BY <1>1, <1>2
  <2> QED BY <2>2, <2>3
<1>4. s \in [1..n -> Seq(T)]
  <2> HIDE DEF T
  <2> QED BY <1>3
<1>5. <<0, <<>>>> \in P
  <2>1. PICK e : e = <<>>
    OBVIOUS
  <2>2. e \in Seq(T)
    BY <2>1
  <2>3. <<0, e>> \in P
    BY <2>2
  <2> QED BY <2>1, <2>3
<1>6. ASSUME NEW j \in 0..(n - 1), NEW q \in Seq(T), <<j, q>> \in P
      PROVE  <<j + 1, q \o s[j + 1]>> \in P
  <2>1. j + 1 \in Nat /\ j + 1 \in 1..n
    BY <1>1
  <2>2. PICK d : d = s[j + 1]
    OBVIOUS
  <2> HIDE DEF s, T
  <2>3. d \in Seq(T) /\ 3 \in DOMAIN d /\ d[3].op = "settle"
    BY <1>3, <2>1, <2>2
  <2>4. q \o d \in Seq(T) /\ Len(q) + 3 \in DOMAIN (q \o d) /\ (q \o d)[Len(q) + 3] = d[3]
    BY <2>3
  <2>5. <<j + 1, q \o d>> \in P
    BY <2>1, <2>3, <2>4
  <2> HIDE DEF P
  <2> QED BY <2>2, <2>5
<1> HIDE DEF s, P
<1>7. b \in Seq(T) /\ <<n, b>> \in P
  BY <1>1, <1>4, <1>5, <1>6, FlattenInduct
<1>8. \E m \in DOMAIN b : b[m].op = "settle"
  BY <1>1, <1>7 DEF P
<1> HIDE DEF b
<1>9. DOMAIN b = 1..Len(b) /\ \A m \in DOMAIN b : b[m] \in T
  <2> HIDE DEF T
  <2> QED BY <1>7
<1>10. b \in Seq(Op)
  <2>1. T \subseteq Op
    OBVIOUS
  <2> HIDE DEF T
  <2> QED BY <1>7, <2>1
<1>11. /\ Commits(b) = {} /\ Writes(b) # {}
       /\ \A m \in Writes(b) : b[m].version = hi + 1 /\ b[m].op = "settle"
       /\ \A m \in Gets(b) : b[m].value = None /\ b[m].version = hi
  BY <1>8, <1>9 DEF Commits, Writes, Gets
<1>12. hi \in 1..hi /\ 1 # 0
  OBVIOUS
<1>13. Block(b, 1, hi)
  BY <1>10, <1>11, <1>12 DEF Block
<1> QED BY <1>13 DEF b, s, Payments

(* The blocks of simple_payment, closed each by its commit.                 *)
Opened(num_load, batch) ==
  [j \in 1..num_load |-> [i \in 1..batch |-> B!Put(j, (j - 1) * batch + i, Opening)]]
Paid(num_load, txns) == [j \in 1..Len(txns) |-> Payments(num_load + j, txns[j])]

LEMMA PaymentBlocks ==
  ASSUME NEW num_load \in Nat \ {0}, NEW batch \in Nat \ {0}, NEW txns \in Seq(Transfers)
  PROVE  B!SimplePayment(num_load, batch, txns)
         = Sequel(0, num_load, Opened(num_load, batch))
             \o Sequel(num_load, Len(txns), Paid(num_load, txns))
<1> DEFINE n == Len(txns)
           opened == Opened(num_load, batch)
           paid == Paid(num_load, txns)
<1>1. n \in Nat /\ n - 1 + 1 = n /\ num_load - 1 + 1 = num_load /\ \A j \in 1..n : txns[j] \in Transfers
  OBVIOUS
<1>2. \A j \in 1..num_load : 1 + j - 1 = j /\ 0 + j = j
  OBVIOUS
<1>3. [j \in 1..num_load |->
        [i \in 1..batch |-> B!Put(1 + j - 1, ((1 + j - 1) - 1) * batch + i, Opening)]
          \o <<B!Commit(1 + j - 1)>>]
      = [j \in 1..num_load |-> Closed(opened[j], 0 + j)]
  BY <1>2 DEF Closed, Opened
<1>4. \A t \in 1..n : 1 + t - 1 = t
  BY <1>1
<1>5. ASSUME NEW t \in 1..n
      PROVE  B!Loop(1, Len(txns[t]), LAMBDA i : B!Payment(num_load + t, txns[t][i]))
             = Payments(num_load + t, txns[t])
  <2>1. txns[t] \in Seq([send : Keys, recv : Keys])
    BY <1>1 DEF Transfers
  <2>2. PICK m : m = Len(txns[t])
    OBVIOUS
  <2>3. m \in Nat /\ m - 1 + 1 = m /\ \A i \in 1..m : 1 + i - 1 = i
    BY <2>1, <2>2
  <2>4. [i \in 1..m |-> B!Payment(num_load + t, txns[t][1 + i - 1])]
        = [i \in 1..m |-> B!Payment(num_load + t, txns[t][i])]
    BY <2>3
  <2> QED BY <2>2, <2>3, <2>4 DEF B!Loop, Payments
<1>6. \A t \in 1..n :
        B!Loop(1, Len(txns[t]), LAMBDA i : B!Payment(num_load + t, txns[t][i]))
          \o <<B!Commit(num_load + t)>>
        = Closed(paid[t], num_load + t)
  BY <1>5 DEF Closed, Paid
<1> HIDE DEF opened, paid
<1>7. B!Loop(1, num_load, LAMBDA v :
        [i \in 1..batch |-> B!Put(v, (v - 1) * batch + i, Opening)] \o <<B!Commit(v)>>)
      = Sequel(0, num_load, opened)
  BY <1>1, <1>3 DEF B!Loop, Sequel
<1>8. B!Loop(1, n, LAMBDA t :
        B!Loop(1, Len(txns[t]), LAMBDA i : B!Payment(num_load + t, txns[t][i]))
          \o <<B!Commit(num_load + t)>>)
      = Sequel(num_load, n, paid)
  BY <1>1, <1>4, <1>6 DEF B!Loop, Sequel
<1> QED BY <1>7, <1>8 DEF B!SimplePayment, opened, paid

LEMMA PaymentIsTimed ==
  ASSUME Opening \in Value, NEW num_load \in Nat \ {0}, NEW batch \in Nat \ {0},
         NEW txns \in Seq(Transfers)
  PROVE  Timed(B!SimplePayment(num_load, batch, txns), 1, num_load + Len(txns))
<1> DEFINE n == Len(txns)
           opened == Opened(num_load, batch)
           paid == Paid(num_load, txns)
<1>1. n \in Nat /\ n - 1 + 1 = n /\ num_load - 1 + 1 = num_load /\ \A j \in 1..n : txns[j] \in Transfers
  OBVIOUS
<1>2. \A j \in 1..num_load : Block(opened[j], 1, 0 + j - 1)
  <2> TAKE j \in 1..num_load
  <2>1. PICK h \in Nat : h = j - 1
    OBVIOUS
  <2>2. h + 1 = j /\ 0 + j - 1 = h /\ (j - 1) * batch \in Int
    BY <2>1
  <2>3. Block([i \in 1..batch |-> B!Put(h + 1, (j - 1) * batch + i, Opening)], 1, h)
    BY <2>2, OpeningsAreBlock
  <2> QED BY <2>2, <2>3 DEF Opened
<1>3. \A j \in 1..n : Block(paid[j], 1, num_load + j - 1)
  <2> TAKE j \in 1..n
  <2>1. PICK h \in Nat : h = num_load + j - 1
    OBVIOUS
  <2>2. h + 1 = num_load + j /\ h >= 1 /\ txns[j] \in Transfers
    BY <1>1, <2>1
  <2>3. Block(Payments(h + 1, txns[j]), 1, h)
    BY <2>2, PaymentsAreBlock
  <2> QED BY <2>1, <2>2, <2>3 DEF Paid
<1>4. B!SimplePayment(num_load, batch, txns)
      = Sequel(0, num_load, opened) \o Sequel(num_load, n, paid)
  BY PaymentBlocks
<1> HIDE DEF opened, paid
<1>5. PICK p \in Seq(Op) : p = <<>>
  BY NoOps
<1>6. Timed(p, 1, 0)
  <2>1. 1 - 1 = 0 /\ 1 \in Nat
    OBVIOUS
  <2> QED BY <1>5, <2>1, NotTimedYet
<1>7. PICK a : a = Sequel(0, num_load, opened)
  OBVIOUS
<1>8. a \in Seq(Op) /\ Timed(p \o a, 1, 0 + num_load)
  <2>1. 1 \in Nat /\ 0 \in Int /\ 1 <= 0 + 1 /\ num_load \in Nat
    OBVIOUS
  <2> QED BY <1>2, <1>6, <1>7, <2>1, TimedBlocks
<1>9. p \o a = a /\ 0 + num_load = num_load
  BY <1>5, <1>8
<1>10. Timed(a \o Sequel(num_load, n, paid), 1, num_load + n)
  <2>1. 1 \in Nat /\ num_load \in Int /\ 1 <= num_load + 1
    OBVIOUS
  <2>2. Timed(a, 1, num_load)
    BY <1>8, <1>9
  <2> QED BY <1>1, <1>3, <2>1, <2>2, TimedBlocks
<1> QED BY <1>4, <1>7, <1>10

LEMMA TimedIsLawful ==
  ASSUME NEW p, NEW lo \in Nat, NEW hi \in Int, Timed(p, lo, hi)
  PROVE  /\ Ordered(p) /\ ReadsAfterCommits(p) /\ ExpectsNothing(p)
         /\ lo >= 1 \/ hi < 0 => Lawful(p)
         /\ lo = 0 /\ hi >= 0 =>
              \E i \in DOMAIN p : p[i].op \in {"put", "delete"} /\ p[i].version = 0
<1>1. Rounds(p, lo, hi) /\ p \in Seq(Op) /\ Ordered(p) /\ Numbered(p)
  BY DEF Timed, Rounds
<1>2. ASSUME lo >= 1 \/ hi < 0 PROVE Lawful(p)
  <2>1. \A i \in Writes(p) : p[i].version \in Nat /\ lo <= p[i].version /\ p[i].version <= hi
    BY <1>1, Places DEF Rounds
  <2>2. \A i \in Writes(p) : p[i].version >= 1
    BY <1>2, <2>1
  <2> QED BY <1>1, <2>2 DEF Lawful
<1>3. ASSUME lo = 0, hi >= 0
      PROVE  \E i \in DOMAIN p : p[i].op \in {"put", "delete"} /\ p[i].version = 0
  <2>1. PICK c \in Commits(p) : Effective(p, c) /\ p[c].version = 0
    BY <1>3 DEF Timed, Reached
  <2>2. PICK i \in Writes(p) : p[i].version = 0
    BY <1>1, <2>1 DEF Numbered
  <2>3. p[i].op = "put" /\ i \in DOMAIN p
    BY <1>3, <2>2 DEF Timed, Writes
  <2> QED BY <2>2, <2>3
<1> QED BY <1>1, <1>2, <1>3 DEF Timed

-----------------------------------------------------------------------------
-----------------------------------------------------------------------------
(* Sums over a finite set.                                                 *)

(* G sums f up over the sets of D, which have with a set what is left of it. *)
Chosen1(s) == CHOOSE x \in s : TRUE
Sums(G, f, D) ==
  G = [s \in D |-> IF s = {} THEN 0 ELSE f[Chosen1(s)] + G[s \ {Chosen1(s)}]]
Layer(S, n) == {s \in SUBSET S : Cardinality(s) <= n}

LEMMA Removed ==
  ASSUME NEW S, IsFiniteSet(S), NEW n \in Nat, NEW s \in Layer(S, n + 1), NEW x \in s
  PROVE  s \ {x} \in Layer(S, n) /\ IsFiniteSet(s) /\ Cardinality(s) \in Nat
         /\ Cardinality(s \ {x}) = Cardinality(s) - 1
<1>1. s \in SUBSET S /\ Cardinality(s) <= n + 1
  BY DEF Layer
<1>2. IsFiniteSet(s)
  BY <1>1, FS_Subset
<1>3. Cardinality(s \ {x}) = Cardinality(s) - 1 /\ Cardinality(s) \in Nat
  BY <1>2, FS_RemoveElement, FS_CardinalityType
<1> QED BY <1>1, <1>2, <1>3 DEF Layer

LEMMA NoLayer ==
  ASSUME NEW S, IsFiniteSet(S), NEW s \in Layer(S, 0)
  PROVE  s = {}
<1>1. s \in SUBSET S /\ Cardinality(s) <= 0
  BY DEF Layer
<1>2. IsFiniteSet(s) /\ Cardinality(s) \in Nat
  BY <1>1, FS_Subset, FS_CardinalityType
<1>3. Cardinality(s) = 0
  BY <1>1, <1>2
<1> QED BY <1>2, <1>3, FS_EmptySet

LEMMA SumExists ==
  ASSUME NEW S, IsFiniteSet(S), NEW f
  PROVE  \A n \in Nat : \E G : Sums(G, f, Layer(S, n))
<1> DEFINE I == {n \in Nat : \E G : Sums(G, f, Layer(S, n))}
<1>1. 0 \in I
  <2>1. PICK G : G = [s \in Layer(S, 0) |-> 0]
    OBVIOUS
  <2>2. ASSUME NEW s \in Layer(S, 0) PROVE s = {}
    BY NoLayer
  <2>3. G = [s \in Layer(S, 0) |->
              IF s = {} THEN 0 ELSE f[Chosen1(s)] + G[s \ {Chosen1(s)}]]
    BY <2>1, <2>2
  <2> QED BY <2>3 DEF Sums
<1>2. ASSUME NEW n \in Nat, n \in I PROVE n + 1 \in I
  <2>1. PICK F : Sums(F, f, Layer(S, n))
    BY <1>2
  <2>2. PICK G : G = [s \in Layer(S, n + 1) |->
                       IF s = {} THEN 0 ELSE f[Chosen1(s)] + F[s \ {Chosen1(s)}]]
    OBVIOUS
  <2>3. ASSUME NEW s \in Layer(S, n), s # {}
        PROVE  G[s] = F[s]
    <3>1. s \in Layer(S, n + 1)
      <4>1. s \in SUBSET S /\ Cardinality(s) <= n
        BY DEF Layer
      <4>2. Cardinality(s) \in Nat
        BY <4>1, FS_Subset, FS_CardinalityType
      <4> QED BY <4>1, <4>2 DEF Layer
    <3> QED BY <2>1, <2>2, <3>1 DEF Sums
  <2>4. ASSUME NEW s \in Layer(S, n + 1), s # {}
        PROVE  G[s] = f[Chosen1(s)] + G[s \ {Chosen1(s)}]
    <3>1. PICK x : x = Chosen1(s) /\ x \in s
      BY <2>4 DEF Chosen1
    <3>2. s \ {x} \in Layer(S, n)
      BY <3>1, Removed
    <3>3. CASE s \ {x} = {}
      <4>1. {} \in Layer(S, n) /\ {} \in Layer(S, n + 1)
        BY FS_EmptySet DEF Layer
      <4>2. F[{}] = 0 /\ G[{}] = 0
        BY <2>1, <2>2, <4>1 DEF Sums
      <4> QED BY <2>2, <2>4, <3>1, <3>3, <4>2
    <3>4. CASE s \ {x} # {}
      <4>1. G[s \ {x}] = F[s \ {x}]
        BY <2>3, <3>2, <3>4
      <4> QED BY <2>2, <2>4, <3>1, <4>1
    <3> QED BY <3>3, <3>4
  <2>5. G = [s \in Layer(S, n + 1) |->
              IF s = {} THEN 0 ELSE f[Chosen1(s)] + G[s \ {Chosen1(s)}]]
    BY <2>2, <2>4
  <2>6. \E H : Sums(H, f, Layer(S, n + 1))
    BY <2>5 DEF Sums
  <2> QED BY <2>6
<1> HIDE DEF I
<1>3. \A n \in Nat : n \in I
  BY <1>1, <1>2, Induct
<1> QED BY <1>3 DEF I

(* Any element may be taken first. *)
Splits(G, f, s) == G[s] \in Int /\ \A x \in s : G[s] = f[x] + G[s \ {x}]
LEMMA SumOf ==
  ASSUME NEW S, IsFiniteSet(S), NEW f, \A x \in S : f[x] \in Int,
         NEW G, Sums(G, f, SUBSET S)
  PROVE  \A s \in SUBSET S : Splits(G, f, s)
<1> DEFINE Fine(s) == Splits(G, f, s)
           I == {n \in Nat : \A s \in Layer(S, n) : Fine(s)}
<1>1. \A s \in SUBSET S : G[s] = IF s = {} THEN 0 ELSE f[Chosen1(s)] + G[s \ {Chosen1(s)}]
  BY DEF Sums
<1>2. Fine({})
  BY <1>1 DEF Splits
<1>3. 0 \in I
  <2>1. ASSUME NEW s \in Layer(S, 0) PROVE s = {}
    BY NoLayer
  <2> HIDE DEF Fine
  <2> QED BY <1>2, <2>1
<1>4. ASSUME NEW n \in Nat, n \in I PROVE n + 1 \in I
  <2>1. \A s \in Layer(S, n) : Fine(s)
    BY <1>4
  <2> SUFFICES ASSUME NEW s \in Layer(S, n + 1), s # {} PROVE Fine(s)
    <3> HIDE DEF Fine
    <3> QED BY <1>2
  <2>2. PICK y : y = Chosen1(s) /\ y \in s
    BY DEF Chosen1
  <2>3. s \in SUBSET S /\ \A x \in s : s \ {x} \in Layer(S, n) /\ f[x] \in Int
    BY Removed DEF Layer
  <2>4. G[s] = f[y] + G[s \ {y}]
    BY <1>1, <2>2, <2>3
  <2>5. \A x \in s : Fine(s \ {x})
    <3> HIDE DEF Fine
    <3> QED BY <2>1, <2>3
  <2>6. G[s] \in Int
    BY <2>2, <2>3, <2>4, <2>5 DEF Splits
  <2>7. ASSUME NEW x \in s PROVE G[s] = f[x] + G[s \ {x}]
    <3>1. CASE x = y
      BY <2>4, <3>1
    <3>2. CASE x # y
      <4>1. x \in s \ {y} /\ y \in s \ {x}
        BY <2>2, <3>2
      <4>2. PICK t : t = (s \ {y}) \ {x} /\ t = (s \ {x}) \ {y}
        OBVIOUS
      <4>3. G[s \ {y}] = f[x] + G[t] /\ G[s \ {x}] = f[y] + G[t]
        BY <2>5, <4>1, <4>2 DEF Splits
      <4>4. G[s \ {y}] \in Int /\ G[s \ {x}] \in Int /\ f[x] \in Int /\ f[y] \in Int
        BY <2>2, <2>3, <2>5 DEF Splits
      <4>5. t \in Layer(S, n)
        <5>1. s \ {y} \in Layer(S, n)
          BY <2>2, <2>3
        <5>2. IsFiniteSet(s \ {y}) /\ t \in SUBSET (s \ {y}) /\ s \ {y} \in SUBSET S
              /\ Cardinality(s \ {y}) <= n
          BY <2>3, <4>2, <5>1, FS_Subset DEF Layer
        <5>3. Cardinality(t) <= Cardinality(s \ {y}) /\ Cardinality(t) \in Nat
              /\ Cardinality(s \ {y}) \in Nat
          BY <5>2, FS_Subset, FS_CardinalityType
        <5> QED BY <5>2, <5>3 DEF Layer
      <4>6. G[t] \in Int
        BY <2>1, <4>5 DEF Splits
      <4> QED BY <2>4, <4>3, <4>4, <4>6
    <3> QED BY <3>1, <3>2
  <2> QED BY <2>6, <2>7 DEF Splits
<1> HIDE DEF I, Fine
<1>5. \A n \in Nat : n \in I
  BY <1>3, <1>4, Induct
<1>6. ASSUME NEW s \in SUBSET S PROVE Splits(G, f, s)
  <2>1. Cardinality(s) \in Nat
    BY FS_Subset, FS_CardinalityType
  <2>2. s \in Layer(S, Cardinality(s))
    BY <2>1 DEF Layer
  <2> QED BY <1>5, <2>1, <2>2 DEF I, Fine
<1> QED BY <1>6

(* The sum depends on what is summed only. *)
LEMMA SameSum ==
  ASSUME NEW S, IsFiniteSet(S), NEW f, NEW g, NEW G, NEW H,
         Sums(G, f, SUBSET S), Sums(H, g, SUBSET S)
  PROVE  \A n \in Nat : \A s \in Layer(S, n) : (\A x \in s : f[x] = g[x]) => G[s] = H[s]
<1> DEFINE I == {n \in Nat : \A s \in Layer(S, n) : (\A x \in s : f[x] = g[x]) => G[s] = H[s]}
<1>1. \A s \in SUBSET S :
        /\ G[s] = IF s = {} THEN 0 ELSE f[Chosen1(s)] + G[s \ {Chosen1(s)}]
        /\ H[s] = IF s = {} THEN 0 ELSE g[Chosen1(s)] + H[s \ {Chosen1(s)}]
  BY DEF Sums
<1>2. 0 \in I
  <2>1. ASSUME NEW s \in Layer(S, 0) PROVE s = {}
    BY NoLayer
  <2> QED BY <1>1, <2>1
<1>3. ASSUME NEW n \in Nat, n \in I PROVE n + 1 \in I
  <2>1. ASSUME NEW s \in Layer(S, n + 1), \A x \in s : f[x] = g[x], s # {}
        PROVE  G[s] = H[s]
    <3>1. PICK y : y = Chosen1(s) /\ y \in s
      BY <2>1 DEF Chosen1
    <3>2. s \ {y} \in Layer(S, n) /\ s \in SUBSET S
      BY <3>1, Removed DEF Layer
    <3>3. G[s \ {y}] = H[s \ {y}]
      BY <1>3, <2>1, <3>2
    <3> QED BY <1>1, <2>1, <3>1, <3>2, <3>3
  <2>2. \A s \in Layer(S, n + 1) : s = {} => G[s] = H[s]
    BY <1>1 DEF Layer
  <2> QED BY <2>1, <2>2
<1> HIDE DEF I
<1>4. \A n \in Nat : n \in I
  BY <1>2, <1>3, Induct
<1> QED BY <1>4 DEF I

(* A sum changes by what one of its terms does. *)
LEMMA SumChanges ==
  ASSUME NEW S, IsFiniteSet(S), NEW f, NEW g, NEW a \in S,
         \A x \in S : f[x] \in Int /\ g[x] \in Int,
         \A x \in S : x # a => f[x] = g[x]
  PROVE  /\ SumFunctionOnSet(f, S) \in Int
         /\ SumFunctionOnSet(g, S) = SumFunctionOnSet(f, S) - f[a] + g[a]
<1>1. PICK n \in Nat : n = Cardinality(S)
  BY FS_CardinalityType
<1>2. Layer(S, n) = SUBSET S
  <2>1. ASSUME NEW s \in SUBSET S PROVE Cardinality(s) <= n
    BY <1>1, FS_Subset
  <2> QED BY <2>1 DEF Layer
<1> DEFINE Sum(h) == CHOOSE G : Sums(G, h, SUBSET S)
<1>3. ASSUME NEW h PROVE Sums(Sum(h), h, SUBSET S)
  <2>1. \A m \in Nat : \E G : Sums(G, h, Layer(S, m))
    BY SumExists
  <2>2. \E G : Sums(G, h, SUBSET S)
    BY <1>2, <2>1
  <2> QED BY <2>2
<1>4. \A h : SumFunctionOnSet(h, S) = Sum(h)[S]
  BY DEF SumFunctionOnSet, FoldFunctionOnSet, MapThenFoldSet, Sums, Chosen1
<1> HIDE DEF Sum
<1>5. PICK F : F = Sum(f) /\ Sums(F, f, SUBSET S)
  BY <1>3
<1>6. PICK H : H = Sum(g) /\ Sums(H, g, SUBSET S)
  BY <1>3
<1>7. S \in Layer(S, n) /\ S \ {a} \in Layer(S, n)
  BY <1>2
<1>8. (\A x \in S : f[x] \in Int) /\ (\A x \in S : g[x] \in Int)
  OBVIOUS
<1>9. Splits(F, f, S) /\ Splits(F, f, S \ {a})
  BY <1>5, <1>8, SumOf
<1>10. Splits(H, g, S)
  BY <1>6, <1>8, SumOf
<1>11. F[S \ {a}] = H[S \ {a}]
  <2>1. \A x \in S \ {a} : f[x] = g[x]
    OBVIOUS
  <2> QED BY <1>5, <1>6, <1>7, <2>1, SameSum
<1>12. /\ F[S] \in Int /\ F[S] = f[a] + F[S \ {a}] /\ F[S \ {a}] \in Int
       /\ H[S] = g[a] + H[S \ {a}]
  BY <1>9, <1>10 DEF Splits
<1> QED BY <1>4, <1>5, <1>6, <1>11, <1>12

-----------------------------------------------------------------------------
(* Payments.  A payment reads both balances at the version before, which    *)
(* was committed last, and settles both; its batch has payments only.       *)
Sends(p) == {i \in Writes(p) : p[i].op = "settle" /\ p[i].side = "send"}
Receives(p) == {i \in Writes(p) : p[i].op = "settle" /\ p[i].side = "recv"}
Settling(p) == {i \in Writes(p) : p[i].op = "settle"}
SendsAt(p, i) ==
  /\ i - 2 \in Gets(p) /\ i - 1 \in Gets(p) /\ i + 1 \in Receives(p)
  /\ p[i - 2].key = p[i].key /\ p[i - 1].key = p[i + 1].key
  /\ p[i - 2].version = p[i].version - 1 /\ p[i - 1].version = p[i].version - 1
  /\ p[i + 1].version = p[i].version
PaysAfterReads(p) ==
  \A i \in Sends(p) :
    /\ SendsAt(p, i)
    /\ \E c \in Commits(p) : c < i - 2 /\ Effective(p, c) /\ p[c].version = p[i].version - 1
Paying(p) ==
  /\ PaysAfterReads(p)
  /\ \A i \in Receives(p) : i - 1 \in Sends(p)
  /\ \A i \in Settling(p), j \in Writes(p) :
       Gathered(p, i, j) \/ p[j].version = p[i].version => j \in Settling(p)
Purses(p) == Ordered(p) /\ Lawful(p) /\ Paying(p)

(* What the batch has taken from an account and not yet given to another.   *)
Owed == IF at \in Receives(plan) /\ answers[1] # 0 THEN 1 ELSE 0
BalancesRead ==
  \A i \in Sends(plan) :
    /\ at = i - 1 => answers[2] = Newest[plan[i].key]
    /\ at = i \/ at = i + 1 =>
         answers[1] = Newest[plan[i].key] /\ answers[2] = Newest[plan[i + 1].key]
    /\ at = i + 1 => answers[1] \in Nat /\ answers[2] \in Nat
BatchKeepsMoney ==
  \A i \in Settling(plan) : Gathered(plan, i, at) /\ PaidOnce(plan[i].version) =>
    /\ Money(Newest) \in Int /\ Money(Over(Newest, put_cache)) \in Int
    /\ Money(Over(Newest, put_cache)) = Money(Newest) - Owed

LEMMA MoneyChanges ==
  ASSUME Value = Nat, NEW map \in Maps, NEW next \in Maps, NEW a \in UserKey,
         map[a] \in Nat, next[a] \in Nat, \A k \in UserKey : k # a => next[k] = map[k]
  PROVE  Money(map) \in Int /\ Money(next) = Money(map) - map[a] + next[a]
<1> DEFINE S == {k \in UserKey : map[k] # NoValue}
<1>1. NoValue \notin Nat
  BY TrieAssumption
<1>2. S = {k \in UserKey : next[k] # NoValue} /\ a \in S
  BY <1>1
<1>3. \A k \in S : map[k] \in Int /\ next[k] \in Int
  <2> TAKE k \in S
  <2>1. map[k] \in Nat \cup {NoValue} /\ map[k] # NoValue /\ next[k] \in Nat \cup {NoValue}
    BY DEF Maps
  <2>2. next[k] # NoValue
    BY <1>1, <2>1
  <2> QED BY <2>1, <2>2
<1>4. IsFiniteSet(S)
  <2>1. S \in SUBSET UserKey
    OBVIOUS
  <2> QED BY <2>1, WorkloadAssumption, FS_Subset
<1>5. Money(map) = SumFunctionOnSet(map, S) /\ Money(next) = SumFunctionOnSet(next, S)
  BY <1>2 DEF Money
<1> HIDE DEF S
<1>6. \A k \in S : k # a => map[k] = next[k]
  BY DEF S
<1> QED BY <1>2, <1>3, <1>4, <1>5, <1>6, SumChanges

(* Where the version before was committed, it is the newest. *)
LEMMA NewestIsBefore ==
  ASSUME WorkTypes, Follows, Lawful(plan), PaysAfterReads(plan), NEW i \in Sends(plan),
         NEW n \in Nat, at = n, i - 2 <= n,
         \A c \in Commits(plan) : ~(i < c /\ c < n)
  PROVE  /\ plan[i].version - 1 \in Committed
         /\ \A w \in Committed : w <= plan[i].version - 1
         /\ Newest = snapshots[plan[i].version - 1]
<1>1. plan \in Seq(Call)
  BY PlanTypes DEF WorkTypes
<1>2. /\ \A j \in Writes(plan) : j \in Nat /\ plan[j].version \in Nat
      /\ \A c \in Commits(plan) : c \in Nat /\ plan[c].version \in Versions
      /\ \A c \in Commits(plan) : c \notin Writes(plan)
      /\ i \in Writes(plan) /\ Versions \subseteq Nat
  BY <1>1, Positions, TrieAssumption DEF Versions, Sends
<1>3. PICK c \in Commits(plan) : c < i - 2 /\ Effective(plan, c) /\ plan[c].version = plan[i].version - 1
  BY DEF PaysAfterReads, SendsAt
<1>4. c < at
  BY <1>2, <1>3
<1>5. plan[i].version - 1 \in Committed
  BY <1>2, <1>3, <1>4 DEF Follows
<1>6. ASSUME NEW w \in Committed PROVE w <= plan[i].version - 1
  <2>1. w \in Versions
    BY DEF Committed
  <2>2. PICK d \in Commits(plan) : d < at /\ Effective(plan, d) /\ plan[d].version = w
    BY <2>1 DEF Follows
  <2>3. d < i
    BY <1>2, <2>2
  <2>4. plan[d].version < plan[i].version
    BY <1>2, <2>2, <2>3 DEF Lawful, Numbered
  <2> QED BY <1>2, <2>1, <2>2, <2>4
<1>7. Committed \in SUBSET Nat
  BY <1>2 DEF Committed
<1>8. (CHOOSE u \in Committed : \A w \in Committed : w <= u) = plan[i].version - 1
  BY <1>5, <1>6, <1>7, Chosen
<1> QED BY <1>5, <1>6, <1>8 DEF Newest

(* The answer to the read of a balance. *)
LEMMA BalanceIsNewest ==
  ASSUME WorkTypes, Follows, Keeps, Lawful(plan), PaysAfterReads(plan), NEW i \in Sends(plan),
         at = i - 2 \/ at = i - 1, reply # None
  PROVE  reply.value = Newest[plan[at].key]
<1>1. /\ at \in Nat /\ i \in Nat /\ plan \in Seq(Call)
      /\ \A c \in Commits(plan) : c \in Nat /\ plan[c].version \in Nat
      /\ plan[i].version \in Nat
  BY PlanTypes, Positions, TrieAssumption DEF WorkTypes, Sends, Versions, Runs
<1>2. /\ plan[i].version - 1 \in Committed
      /\ \A w \in Committed : w <= plan[i].version - 1
      /\ Newest = snapshots[plan[i].version - 1]
  <2>1. \A c \in Commits(plan) : ~(i < c /\ c < at)
    BY <1>1
  <2>2. i - 2 <= at
    BY <1>1
  <2> QED BY <1>1, <2>1, <2>2, NewestIsBefore
<1>3. /\ plan[at].version = plan[i].version - 1
      /\ reply.version = plan[at].version /\ reply.key = plan[at].key
  BY DEF PaysAfterReads, SendsAt, WorkTypes, Replied
<1>4. horizon <= plan[i].version - 1
  <2>1. CASE horizon = 0
    <3>1. plan[i].version - 1 \in Nat
      BY <1>2, TrieAssumption DEF Committed, Versions
    <3> QED BY <2>1, <3>1
  <2>2. ASSUME NEW c \in Commits(plan), c < at, Effective(plan, c), plan[c].version = horizon
        PROVE  horizon <= plan[i].version - 1
    <3>1. plan[c].version \in Versions
      BY <1>1, Positions
    <3>2. horizon \in Committed
      BY <2>2, <3>1 DEF Follows
    <3> QED BY <1>2, <3>2
  <2> QED BY <2>1, <2>2 DEF Keeps, HorizonFollows
<1>5. snapshots[plan[i].version - 1] # None
  BY <1>2 DEF Committed
<1>6. horizon \in Nat
  BY TrieAssumption DEF WorkTypes, TrieTypes
<1> QED BY <1>1, <1>2, <1>3, <1>4, <1>5, <1>6 DEF Keeps, ReplyExact

LEMMA SettleStep ==
  ASSUME WorkTypes, BalancesAreNumbers, Ordered(plan), Follows, DoSettle
  PROVE  /\ at \in Settling(plan) /\ at' = at + 1 /\ Value = Nat
         /\ UNCHANGED <<plan, snapshots, horizon, answers, reply, aborted>>
         /\ answers[1] \in Nat /\ answers[2] \in Nat
         /\ plan[at].side \in {"send", "recv"}
         /\ Balance(answers[1], answers[2], plan[at].side) \in Nat
         /\ put_cache' = [put_cache EXCEPT ![plan[at].key] =
                           Balance(answers[1], answers[2], plan[at].side)]
<1>1. Runs /\ at \in DOMAIN plan /\ Operation \in Call /\ plan[at].op = "settle" /\ Operation = plan[at]
  BY Running DEF WorkTypes, DoSettle, Doing, Operation
<1>2. at \in Settling(plan) /\ at \in Writes(plan)
  BY <1>1 DEF Settling, Writes
<1>3. Value = Nat
  BY <1>1 DEF BalancesAreNumbers, Settles, Runs
<1>4. answers[1] \in Nat /\ answers[2] \in Nat
  BY <1>3 DEF DoSettle, WorkTypes, Answered2, Answer
<1>5. plan[at].side \in {"send", "recv"}
  BY <1>1, Calls
<1>6. Balance(answers[1], answers[2], plan[at].side) \in Nat
  BY <1>4, BalanceIsNumber
<1>7. ~Refuses(plan[at].version) /\ NoValue \notin Nat
  BY <1>2, <1>3, NotRefused, TrieAssumption
<1>8. TriePut(plan[at].version, plan[at].key, Balance(answers[1], answers[2], plan[at].side))
  BY <1>1 DEF DoSettle
<1>9. /\ put_cache' = [put_cache EXCEPT ![plan[at].key] =
                       Balance(answers[1], answers[2], plan[at].side)]
      /\ UNCHANGED <<snapshots, horizon>>
  BY <1>6, <1>7, <1>8 DEF TriePut
<1> QED BY <1>2, <1>3, <1>4, <1>5, <1>6, <1>9 DEF DoSettle, Done, run, results

(* The writes gathered with a payment. *)
LEMMA GatheredPay ==
  ASSUME NEW p \in Seq(Call), Ordered(p), Lawful(p), Paying(p), NEW n \in Settling(p),
         NEW j, Gathered(p, j, n)
  PROVE  j \in Settling(p) /\ p[j].version = p[n].version
<1>1. /\ j \in Writes(p) /\ n \in Writes(p) /\ n \in Nat /\ j \in Nat /\ j < n
      /\ p[j].version \in Nat /\ p[n].version \in Nat
      /\ \A c \in Commits(p) : c \in Nat /\ c \notin Writes(p)
  BY Positions, TrieAssumption DEF Gathered, Settling, Versions
<1>2. PICK i \in Sends(p) : (i = n \/ i = n - 1) /\ p[i].version = p[n].version /\ i \in Nat
  <2>1. p[n].side \in {"send", "recv"}
    BY Positions, Calls DEF Settling
  <2>2. CASE p[n].side = "send"
    BY <1>1, <2>2 DEF Sends, Settling
  <2>3. CASE p[n].side = "recv"
    <3>1. n - 1 \in Sends(p)
      BY <1>1, <2>3 DEF Paying, Receives, Settling
    <3>2. n - 1 \in Nat /\ (n - 1) + 1 = n
      BY <1>1, <3>1, Positions DEF Sends
    <3> QED BY <3>1, <3>2 DEF Paying, PaysAfterReads, SendsAt
  <2> QED BY <2>1, <2>2, <2>3
<1>3. PICK c \in Commits(p) : c < i - 2 /\ Effective(p, c) /\ p[c].version = p[i].version - 1
  BY DEF Paying, PaysAfterReads, SendsAt
<1>4. c < j
  BY <1>1, <1>2, <1>3 DEF Gathered
<1>5. p[c].version < p[j].version
  BY <1>1, <1>3, <1>4 DEF Lawful, Numbered
<1>6. p[j].version <= p[n].version
  BY <1>1 DEF Ordered
<1>7. p[j].version = p[n].version
  BY <1>1, <1>2, <1>3, <1>5, <1>6
<1> QED BY <1>1, <1>7 DEF Paying

(* The account that is settled next has its balance of the version before. *)
LEMMA BatchOnlyPays ==
  ASSUME WorkTypes, Follows, Purses(plan), BatchKeepsMoney, at \in Settling(plan),
         PaidOnce(plan[at].version)
  PROVE  /\ Over(Newest, put_cache)[plan[at].key] = Newest[plan[at].key]
         /\ \/ /\ Money(Over(Newest, put_cache)) \in Int
               /\ Money(Over(Newest, put_cache)) = Money(Newest) - Owed
            \/ Over(Newest, put_cache) = Newest /\ at \in Sends(plan) /\ Owed = 0
<1>1. /\ plan \in Seq(Call) /\ at \in Writes(plan) /\ at \in Nat /\ plan[at].key \in UserKey
      /\ \A c \in Commits(plan) : c \in Nat
      /\ plan[at].side \in {"send", "recv"}
  BY PlanTypes, Positions, Calls DEF WorkTypes, Settling
<1>2. ASSUME NEW j, Gathered(plan, j, at)
      PROVE  /\ j \in Settling(plan) /\ plan[j].version = plan[at].version
             /\ plan[j].key # plan[at].key
  <2>1. j \in Settling(plan) /\ plan[j].version = plan[at].version /\ j < at
    BY <1>1, <1>2, GatheredPay DEF Purses, Gathered
  <2>2. j # at /\ j \in OfKind("settle") /\ at \in OfKind("settle")
    BY <2>1, <1>1, Positions DEF Settling, OfKind, Writes
  <2> QED BY <2>1, <2>2 DEF PaidOnce
<1>3. put_cache[plan[at].key] = None
  BY <1>1, <1>2 DEF Follows
<1>4. Over(Newest, put_cache)[plan[at].key] = Newest[plan[at].key]
  BY <1>1, <1>3 DEF Over
<1>5. CASE \E j : Gathered(plan, j, at)
  BY <1>2, <1>4, <1>5 DEF BatchKeepsMoney
<1>6. CASE ~ \E j : Gathered(plan, j, at)
  <2>1. at \in Sends(plan)
    <3> SUFFICES ASSUME at \in Receives(plan) PROVE FALSE
      BY <1>1 DEF Sends, Receives, Settling
    <3>1. at - 1 \in Sends(plan)
      BY DEF Purses, Paying
    <3>2. at - 1 \in Writes(plan) /\ at - 1 < at
      BY <1>1, <3>1 DEF Sends
    <3> QED BY <1>1, <1>6, <3>2 DEF Gathered
  <2>2. at \notin Receives(plan)
    BY <2>1 DEF Sends, Receives
  <2>3. \A k \in UserKey : put_cache[k] = None
    BY <1>6 DEF Follows
  <2>4. Newest \in Maps
    BY NewestIsTyped DEF WorkTypes
  <2>5. Over(Newest, put_cache) = Newest
    BY <2>3, <2>4 DEF Over, Maps
  <2> QED BY <1>4, <2>1, <2>2, <2>5 DEF Owed
<1> QED BY <1>5, <1>6

LEMMA MoneyNewest ==
  ASSUME Value = Nat, WorkTypes, NEW a \in UserKey, Newest[a] \in Nat
  PROVE  Money(Newest) \in Int
<1>1. Newest \in Maps
  BY NewestIsTyped DEF WorkTypes
<1> QED BY <1>1, MoneyChanges

(* Positions of a payment. *)
LEMMA PayPlaces ==
  ASSUME NEW p \in Seq(Call), Paying(p)
  PROVE  /\ \A i \in Sends(p) : /\ i \in Nat /\ i \in Settling(p) /\ i \notin Receives(p)
                                /\ i - 2 \in Nat /\ i - 1 \in Nat /\ i + 1 \in Receives(p)
                                /\ i - 1 \notin Receives(p) /\ i - 2 \notin Receives(p)
         /\ \A i \in Receives(p) : i \in Nat /\ i \in Settling(p) /\ i - 1 \in Sends(p)
                                   /\ i + 1 \notin Receives(p) /\ i + 1 \notin Sends(p)
         /\ Settling(p) = Sends(p) \cup Receives(p)
<1>1. /\ \A i \in Writes(p) : i \in Nat
      /\ Gets(p) \cap Writes(p) = {} /\ \A i \in Gets(p) : i \in Nat
  BY Positions
<1>2. ASSUME NEW i \in Sends(p)
      PROVE  /\ i \in Nat /\ i \in Settling(p) /\ i \notin Receives(p)
             /\ i - 2 \in Nat /\ i - 1 \in Nat /\ i + 1 \in Receives(p)
             /\ i - 1 \notin Receives(p) /\ i - 2 \notin Receives(p)
  BY <1>1 DEF Sends, Receives, Settling, Paying, PaysAfterReads, SendsAt
<1>3. ASSUME NEW i \in Receives(p)
      PROVE  i \in Nat /\ i \in Settling(p) /\ i - 1 \in Sends(p)
             /\ i + 1 \notin Receives(p) /\ i + 1 \notin Sends(p)
  <2>1. i \in Nat /\ i \in Settling(p) /\ i - 1 \in Sends(p) /\ (i + 1) - 1 = i
    BY <1>1 DEF Receives, Settling, Paying
  <2>2. i + 1 \notin Receives(p)
    <3> SUFFICES ASSUME i + 1 \in Receives(p) PROVE FALSE
      OBVIOUS
    <3>1. i \in Sends(p)
      BY <2>1 DEF Paying
    <3> QED BY <3>1 DEF Sends, Receives
  <2>3. i + 1 \notin Sends(p)
    <3> SUFFICES ASSUME i + 1 \in Sends(p) PROVE FALSE
      OBVIOUS
    <3> QED BY <1>2, <2>1
  <2> QED BY <2>1, <2>2, <2>3
<1>4. Settling(p) = Sends(p) \cup Receives(p)
  <2>1. \A i \in Settling(p) : p[i].side \in {"send", "recv"}
    BY Positions, Calls DEF Settling
  <2> QED BY <2>1 DEF Sends, Receives, Settling
<1> QED BY <1>2, <1>3, <1>4

LEMMA PurseSettles ==
  ASSUME WorkTypes, BalancesAreNumbers, Follows, Purses(plan), BalancesRead, BatchKeepsMoney,
         DoSettle
  PROVE  BalancesRead' /\ BatchKeepsMoney'
<1> DEFINE n == at
           k == plan[n].key
           x == Balance(answers[1], answers[2], plan[n].side)
           old == Over(Newest, put_cache)
           new == Over(Newest, put_cache')
<1>1. /\ n \in Settling(plan) /\ at' = n + 1 /\ Value = Nat
      /\ UNCHANGED <<plan, snapshots, horizon, answers, reply, aborted>>
      /\ answers[1] \in Nat /\ answers[2] \in Nat
      /\ x \in Nat /\ put_cache' = [put_cache EXCEPT ![k] = x]
  BY SettleStep DEF Purses
<1>2. Newest' = Newest /\ plan' = plan
  BY <1>1 DEF Newest, Committed
<1>3. /\ plan \in Seq(Call) /\ n \in Nat /\ n \in Writes(plan) /\ k \in UserKey
      /\ Paying(plan) /\ Ordered(plan) /\ Lawful(plan)
  BY <1>1, PlanTypes, Positions DEF WorkTypes, Settling, Purses
<1>4. BalancesRead'
  <2>1. ASSUME NEW i \in Sends(plan)
        PROVE  /\ n + 1 = i - 1 => answers[2] = Newest[plan[i].key]
               /\ n + 1 = i \/ n + 1 = i + 1 =>
                    answers[1] = Newest[plan[i].key] /\ answers[2] = Newest[plan[i + 1].key]
    <3>1. i - 2 \in Gets(plan) /\ i - 1 \in Gets(plan) /\ i \in Nat
      BY <1>3, PayPlaces DEF Paying, PaysAfterReads, SendsAt
    <3>2. n \notin Gets(plan)
      BY <1>3, Positions
    <3>3. n # i - 2 /\ n # i - 1
      BY <3>1, <3>2
    <3> QED BY <1>3, <3>1, <3>3 DEF BalancesRead
  <2> QED BY <1>1, <1>2, <2>1 DEF BalancesRead
<1>5. ASSUME PaidOnce(plan[n].version)
      PROVE  /\ Money(Newest) \in Int /\ Money(new) \in Int
             /\ Money(new) = Money(Newest) - (IF n + 1 \in Receives(plan) /\ answers[1] # 0 THEN 1 ELSE 0)
  <2>1. /\ old[k] = Newest[k]
        /\ \/ Money(old) \in Int /\ Money(old) = Money(Newest) - Owed
           \/ old = Newest /\ n \in Sends(plan) /\ Owed = 0
    BY <1>1, <1>5, BatchOnlyPays
  <2>2. old \in Maps /\ new \in Maps
    <3>1. put_cache' \in [UserKey -> Value \cup {NoValue, None}]
      BY <1>1 DEF WorkTypes, TrieTypes
    <3> QED BY <3>1, NewestIsTyped, OverIsMap DEF WorkTypes, TrieTypes
  <2>3. new[k] = x /\ \A l \in UserKey : l # k => new[l] = old[l]
    <3>1. x # None /\ put_cache'[k] = x /\ \A l \in UserKey : l # k => put_cache'[l] = put_cache[l]
      BY <1>1, <1>3, TrieAssumption DEF WorkTypes, TrieTypes
    <3> QED BY <1>3, <3>1 DEF Over
  <2>4. x \in Nat
    BY <1>1
  <2> HIDE DEF x, old, new
  <2>5. CASE n \in Sends(plan)
    <3>1. Newest[k] = answers[1] /\ plan[n].side = "send"
      BY <2>5 DEF BalancesRead, Sends
    <3>2. n + 1 \in Receives(plan) /\ n \notin Receives(plan)
      BY <1>3, <2>5, PayPlaces
    <3>3. Money(old) \in Int /\ Money(new) = Money(old) - answers[1] + x
      <4>1. old[k] = answers[1] /\ old[k] \in Nat /\ new[k] = x
        BY <1>1, <2>1, <2>3, <3>1
      <4>2. \A l \in UserKey : l # k => new[l] = old[l]
        BY <2>3
      <4>3. Money(old) \in Int /\ Money(new) = Money(old) - old[k] + new[k]
        BY <1>1, <1>3, <2>2, <2>4, <4>1, <4>2, MoneyChanges
      <4> QED BY <4>1, <4>3
    <3>4. Money(old) = Money(Newest)
      <4>1. Money(Newest) \in Int
        BY <1>1, <1>3, <3>1, MoneyNewest
      <4>2. Owed = 0
        BY <3>2 DEF Owed
      <4> QED BY <2>1, <4>1, <4>2
    <3>5. x = answers[1] - (IF answers[1] # 0 THEN 1 ELSE 0)
      BY <1>1, <3>1 DEF Balance, x
    <3>6. Money(Newest) \in Int
      BY <1>1, <1>3, <3>1, MoneyNewest
    <3> QED BY <1>1, <3>2, <3>3, <3>4, <3>5, <3>6
  <2>6. CASE n \in Receives(plan)
    <3>1. /\ n - 1 \in Sends(plan) /\ n - 1 \in Nat /\ (n - 1) + 1 = n
          /\ n + 1 \notin Receives(plan) /\ n \notin Sends(plan)
      BY <1>3, <2>6, PayPlaces
    <3>2. Newest[k] = answers[2] /\ plan[n].side = "recv"
      BY <2>6, <3>1 DEF BalancesRead, Receives
    <3>3. Money(old) \in Int /\ Money(new) = Money(old) - answers[2] + x
      <4>1. old[k] = answers[2] /\ old[k] \in Nat /\ new[k] = x
        BY <1>1, <2>1, <2>3, <3>2
      <4>2. \A l \in UserKey : l # k => new[l] = old[l]
        BY <2>3
      <4>3. Money(old) \in Int /\ Money(new) = Money(old) - old[k] + new[k]
        BY <1>1, <1>3, <2>2, <2>4, <4>1, <4>2, MoneyChanges
      <4> QED BY <4>1, <4>3
    <3>4. Money(old) = Money(Newest) - (IF answers[1] # 0 THEN 1 ELSE 0)
      BY <2>1, <2>6, <3>1 DEF Owed
    <3>5. x = answers[2] + (IF answers[1] # 0 THEN 1 ELSE 0)
      BY <1>1, <3>2 DEF Balance, x
    <3>6. Money(Newest) \in Int
      BY <1>1, <1>3, <3>2, MoneyNewest
    <3> QED BY <1>1, <3>1, <3>3, <3>4, <3>5, <3>6
  <2> QED BY <1>1, <1>3, <2>5, <2>6, PayPlaces DEF new
<1>6. BatchKeepsMoney'
  <2>1. ASSUME NEW i \in Settling(plan), Gathered(plan, i, n + 1), PaidOnce(plan[i].version)
        PROVE  PaidOnce(plan[n].version)
    <3>1. Gathered(plan, i, n) \/ i = n
      BY <1>3, <2>1, NextGathered, Positions DEF Writes
    <3> QED BY <1>1, <1>3, <2>1, <3>1, GatheredPay
  <2>2. Owed' = IF n + 1 \in Receives(plan) /\ answers[1] # 0 THEN 1 ELSE 0
    BY <1>1 DEF Owed
  <2>3. Money(Over(Newest, put_cache))' = Money(new) /\ Money(Newest)' = Money(Newest)
    BY <1>2 DEF Money, Over
  <2>4. \A i \in Settling(plan) : PaidOnce(plan[i].version)' <=> PaidOnce(plan[i].version)
    BY <1>2 DEF PaidOnce, OfKind
  <2> HIDE DEF new
  <2> QED BY <1>1, <1>2, <1>5, <2>1, <2>2, <2>3, <2>4 DEF BatchKeepsMoney
<1> QED BY <1>4, <1>6

(* Steps between payments. *)
LEMMA NotPaying ==
  ASSUME WorkTypes, Purses(plan), BalancesRead, at \notin Settling(plan), at \notin Gets(plan),
         at' \in {at, at + 1}, UNCHANGED plan, Newest' = Newest, answers' = answers
  PROVE  BalancesRead' /\ Owed = 0 /\ (at' # at => Owed' = 0)
<1>1. plan \in Seq(Call) /\ at \in Nat /\ Paying(plan)
  BY PlanTypes DEF WorkTypes, Runs, Purses
<1>2. ASSUME NEW i \in Sends(plan)
      PROVE  i - 2 \in Gets(plan) /\ i - 1 \in Gets(plan) /\ i \in Settling(plan) /\ i \in Nat
             /\ i + 1 \in Settling(plan)
  BY <1>1, PayPlaces DEF Paying, PaysAfterReads, SendsAt
<1>3. \A i \in Sends(plan) : at # i - 2 /\ at # i - 1 /\ at # i /\ at # i + 1
  BY <1>2
<1>4. ASSUME NEW i \in Sends(plan) PROVE at' # i - 1 /\ at' # i /\ at' # i + 1
  BY <1>1, <1>2, <1>3
<1>5. BalancesRead'
  BY <1>4 DEF BalancesRead
<1>6. at \notin Receives(plan)
  BY <1>1, PayPlaces
<1>7. at' # at => at' \notin Receives(plan)
  <2> SUFFICES ASSUME at' = at + 1, at + 1 \in Receives(plan) PROVE FALSE
    OBVIOUS
  <2>1. at \in Sends(plan)
    BY <1>1 DEF Paying
  <2> QED BY <1>2, <2>1
<1> QED BY <1>5, <1>6, <1>7 DEF Owed

LEMMA PurseWrites ==
  ASSUME WorkTypes, Follows, Purses(plan), BalancesRead, NEW x, WriteStep(x), at \notin Settling(plan)
  PROVE  BalancesRead' /\ BatchKeepsMoney'
<1>1. /\ at \in Writes(plan) /\ plan \in Seq(Call) /\ at' = at + 1
      /\ UNCHANGED <<plan, snapshots, answers>>
  BY PlanTypes DEF WorkTypes, WriteStep
<1>2. at \notin Gets(plan) /\ at \in Nat /\ at \in DOMAIN plan
  BY <1>1, Positions DEF Writes
<1>3. BalancesRead'
  <2>1. Newest' = Newest
    BY <1>1 DEF Newest, Committed
  <2> QED BY <1>1, <1>2, <2>1, NotPaying
<1>4. \A i \in Settling(plan) : ~Gathered(plan, i, at + 1)
  <2> SUFFICES ASSUME NEW i \in Settling(plan), Gathered(plan, i, at + 1) PROVE FALSE
    OBVIOUS
  <2>1. Gathered(plan, i, at)
    BY <1>1, <1>2, NextGathered
  <2> QED BY <1>1, <2>1 DEF Purses, Paying
<1>5. BatchKeepsMoney'
  BY <1>1, <1>4 DEF BatchKeepsMoney
<1> QED BY <1>3, <1>5

LEMMA PurseReads ==
  ASSUME WorkTypes, Follows, Keeps, Purses(plan), BalancesRead, BatchKeepsMoney,
         DoGet \/ Answered \/ DoScan
  PROVE  BalancesRead' /\ BatchKeepsMoney'
<1>1. /\ plan \in Seq(Call) /\ at \in Nat /\ Paying(plan) /\ at \in DOMAIN plan
      /\ at \notin Writes(plan) /\ at \notin Commits(plan) /\ at' \in {at, at + 1}
      /\ UNCHANGED <<plan, put_cache, snapshots>>
  BY PlanReads, PlanTypes DEF WorkTypes, Runs, Purses, ReadStep, Stays
<1>2. Newest' = Newest /\ Over(Newest, put_cache)' = Over(Newest, put_cache)
  BY <1>1 DEF Newest, Committed, Over
<1>3. at \notin Receives(plan) /\ at' \notin Receives(plan)
  <2>1. at \notin Receives(plan) /\ at \notin Sends(plan)
    BY <1>1 DEF Receives, Sends
  <2>2. at + 1 \notin Receives(plan)
    <3> SUFFICES ASSUME at + 1 \in Receives(plan) PROVE FALSE
      OBVIOUS
    <3> QED BY <1>1, <2>1 DEF Paying
  <2> QED BY <1>1, <2>1, <2>2
<1>4. BatchKeepsMoney'
  <2>1. \A i : Gathered(plan, i, at') <=> Gathered(plan, i, at)
    BY <1>1, NextGathered
  <2>2. Owed = 0 /\ Owed' = 0
    BY <1>1, <1>3 DEF Owed
  <2>3. \A i : PaidOnce(plan[i].version)' <=> PaidOnce(plan[i].version)
    BY <1>1 DEF PaidOnce, OfKind
  <2>4. /\ Money(Over(Newest, put_cache))' = Money(Over(Newest, put_cache))
        /\ Money(Newest)' = Money(Newest)
    BY <1>2 DEF Money
  <2> QED BY <1>1, <2>1, <2>2, <2>3, <2>4 DEF BatchKeepsMoney
<1>5. BalancesRead'
  <2>1. CASE DoGet
    <3>1. at' = at /\ answers' = answers
      BY <2>1 DEF DoGet, results
    <3> QED BY <1>1, <1>2, <3>1 DEF BalancesRead
  <2>2. CASE DoScan
    <3>1. answers' = answers /\ at' \in {at, at + 1}
      BY <1>1, <2>2 DEF DoScan, results
    <3>2. at \notin Gets(plan) /\ at \notin Settling(plan)
      BY <1>1, <2>2 DEF DoScan, Doing, Operation, Gets, Settling
    <3> QED BY <1>1, <1>2, <3>1, <3>2, NotPaying
  <2>3. CASE Answered
    <3>1. answers' = <<answers[2], reply.value>> /\ at' = at + 1 /\ reply # None
      BY <2>3 DEF Answered, Done
    <3>2. ASSUME NEW i \in Sends(plan)
          PROVE  /\ at' = i - 1 => reply.value = Newest[plan[i].key]
                 /\ at' = i => /\ answers[2] = Newest[plan[i].key]
                               /\ reply.value = Newest[plan[i + 1].key]
                 /\ at' # i + 1
      <4>1. i \in Nat /\ i \in Writes(plan)
        BY <1>1, Positions DEF Sends
      <4>2. plan[i - 2].key = plan[i].key /\ plan[i - 1].key = plan[i + 1].key
        BY <1>1 DEF Paying, PaysAfterReads, SendsAt
      <4>3. at = i - 2 \/ at = i - 1 => reply.value = Newest[plan[at].key]
        BY <1>1, <3>1, BalanceIsNewest DEF Purses, Paying
      <4>4. at # i
        BY <1>1, <4>1
      <4>5. at = i - 1 => answers[2] = Newest[plan[i].key]
        BY DEF BalancesRead
      <4>6. at' = at + 1 /\ at \in Nat
        BY <1>1, <3>1
      <4>7. ASSUME at' = i - 1 PROVE reply.value = Newest[plan[i].key]
        <5>1. at = i - 2
          BY <4>1, <4>6, <4>7
        <5> QED BY <4>2, <4>3, <5>1
      <4>8. ASSUME at' = i
            PROVE  answers[2] = Newest[plan[i].key] /\ reply.value = Newest[plan[i + 1].key]
        <5>1. at = i - 1
          BY <4>1, <4>6, <4>8
        <5> QED BY <4>2, <4>3, <4>5, <5>1
      <4>9. at' # i + 1
        BY <4>1, <4>4, <4>6
      <4> QED BY <4>7, <4>8, <4>9
    <3>3. answers'[1] = answers[2] /\ answers'[2] = reply.value
      BY <3>1
    <3> QED BY <1>1, <1>2, <3>2, <3>3 DEF BalancesRead
  <2> QED BY <2>1, <2>2, <2>3
<1> QED BY <1>4, <1>5

LEMMA SameMaps ==
  ASSUME Conserved, UNCHANGED <<plan, snapshots>>
  PROVE  Conserved'
<1>1. /\ Committed' = Committed /\ OfKind("settle")' = OfKind("settle")
      /\ \A v \in Versions : PaidOnce(v)' <=> PaidOnce(v)
      /\ \A v : Money(snapshots[v])' = Money(snapshots[v])
  BY DEF Committed, OfKind, PaidOnce, Money
<1>2. Committed \subseteq Versions
  BY DEF Committed
<1> QED BY <1>1, <1>2 DEF Conserved

LEMMA PurseCommits ==
  ASSUME WorkTypes, Follows, Purses(plan), BalancesRead, BatchKeepsMoney, Conserved, CommitStep
  PROVE  BalancesRead' /\ BatchKeepsMoney' /\ Conserved'
<1> DEFINE n == at
           w == plan[n].version
<1>1. /\ plan \in Seq(Call) /\ n \in DOMAIN plan /\ n \in Nat /\ n \in Commits(plan)
      /\ n \notin Writes(plan) /\ n \notin Gets(plan) /\ w \in Versions
      /\ plan' = plan /\ at' = n + 1 /\ answers' = answers /\ TrieCommit(w)
  BY PlanTypes, Positions DEF WorkTypes, CommitStep, Commits
<1>2. \A i : ~Gathered(plan, i, n + 1)
  BY <1>1, NextGathered
<1>3. BatchKeepsMoney'
  BY <1>1, <1>2 DEF BatchKeepsMoney
<1>4. Paying(plan) /\ Lawful(plan) /\ Versions \subseteq Nat
  BY TrieAssumption DEF Purses, Versions
<1>5. BalancesRead'
  <2>1. ASSUME NEW i \in Sends(plan) PROVE n + 1 # i - 1 /\ n + 1 # i /\ n + 1 # i + 1
    <3>1. i - 2 \in Gets(plan) /\ i - 1 \in Gets(plan) /\ i \in Writes(plan) /\ i \in Nat
      BY <1>1, <1>4, PayPlaces DEF Paying, PaysAfterReads, SendsAt, Sends
    <3>2. n # i - 2 /\ n # i - 1 /\ n # i
      BY <1>1, <3>1
    <3> QED BY <1>1, <3>1, <3>2
  <2> QED BY <1>1, <2>1 DEF BalancesRead
<1>6. CASE put_cache = EmptyPutCache
  <2>1. snapshots' = snapshots
    BY <1>1, <1>6 DEF TrieCommit, trie
  <2>2. Conserved'
    BY <1>1, <2>1, SameMaps
  <2> QED BY <1>3, <1>5, <2>2
<1>7. CASE put_cache # EmptyPutCache
  <2>1. Effective(plan, n) /\ \A v \in Committed : v < w
    BY <1>4, <1>7, LawfulCommit
  <2>2. /\ Newest' = Over(Newest, put_cache) /\ snapshots'[w] = Over(Newest, put_cache)
        /\ \A v \in Versions : v # w => snapshots'[v] = snapshots[v]
    BY <1>1, <1>7, <2>1, NewestAfter
  <2>3. ASSUME NEW v \in Versions, snapshots'[v] # None, NEW i \in OfKind("settle"),
               plan[i].version = v, PaidOnce(v)
        PROVE  Money(snapshots'[v]) = Money(snapshots'[v - 1])
    <3>1. i \in Settling(plan)
      BY DEF OfKind, Settling, Writes
    <3>2. CASE v # w
      <4>1. v \in Committed /\ v < w /\ v - 1 # w
        BY <1>1, <1>4, <2>1, <2>2, <2>3, <3>2 DEF Committed
      <4>2. v - 1 \in Versions
        <5>1. v >= 1
          BY <1>4, <2>3, <3>1 DEF Lawful, Settling
        <5> QED BY <5>1, TrieAssumption DEF Versions
      <4>3. Money(snapshots[v]) = Money(snapshots[v - 1])
        BY <2>3, <4>1 DEF Conserved
      <4> QED BY <2>2, <3>2, <4>1, <4>2, <4>3
    <3>3. CASE v = w
      <4>1. PICK j \in Writes(plan) : Gathered(plan, j, n) /\ plan[j].version = w
        BY <1>1, <1>4, <2>1 DEF Lawful, Numbered
      <4>2. j \in Settling(plan)
        BY <1>4, <2>3, <3>1, <3>3, <4>1 DEF Paying
      <4>3. Money(Over(Newest, put_cache)) = Money(Newest)
        <5>1. Money(Newest) \in Int /\ Money(Over(Newest, put_cache)) = Money(Newest) - Owed
          BY <2>3, <3>3, <4>1, <4>2 DEF BatchKeepsMoney
        <5>2. Owed = 0
          BY <1>1 DEF Owed, Receives
        <5> QED BY <5>1, <5>2
      <4>4. Newest = snapshots[w - 1] /\ w - 1 \in Committed
        <5>1. PICK s \in Sends(plan) : (s = j \/ s = j - 1) /\ plan[s].version = w /\ s \in Nat
          <6>1. CASE j \in Sends(plan)
            BY <1>1, <1>4, <4>1, <6>1, PayPlaces
          <6>2. CASE j \in Receives(plan)
            <7>1. j - 1 \in Sends(plan) /\ j - 1 \in Nat /\ (j - 1) + 1 = j
              BY <1>1, <1>4, <6>2, PayPlaces
            <7>2. plan[j - 1].version = plan[j].version
              BY <1>4, <7>1 DEF Paying, PaysAfterReads, SendsAt
            <7> QED BY <4>1, <7>1, <7>2
          <6> QED BY <1>1, <1>4, <4>2, <6>1, <6>2, PayPlaces
        <5>2. j \in Nat /\ j < n /\ \A c \in Commits(plan) : c \in Nat /\ c \notin Writes(plan)
          BY <1>1, <4>1, Positions DEF Gathered
        <5>3. \A c \in Commits(plan) : ~(s < c /\ c < n)
          BY <4>1, <5>1, <5>2 DEF Gathered
        <5>4. s - 2 <= n
          BY <1>1, <5>1, <5>2
        <5> QED BY <1>1, <1>4, <5>1, <5>3, <5>4, NewestIsBefore DEF Paying
      <4>5. snapshots'[w - 1] = snapshots[w - 1]
        <5>1. w \in Nat
          BY <1>1, <1>4
        <5>2. w - 1 # w
          BY <5>1
        <5>3. w - 1 \in Versions
          BY <4>4 DEF Committed
        <5> QED BY <2>2, <5>2, <5>3
      <4> QED BY <2>2, <3>3, <4>3, <4>4, <4>5
    <3> QED BY <3>2, <3>3
  <2>4. Conserved'
    BY <1>1, <2>3 DEF Conserved, Committed, PaidOnce, OfKind, Money
  <2> QED BY <1>3, <1>5, <2>4
<1> QED BY <1>6, <1>7

LEMMA PurseInit == WorkloadInit /\ WorkTypes => (Conserved /\ (Purses(plan) => BalancesRead /\ BatchKeepsMoney))
<1> SUFFICES ASSUME WorkloadInit, WorkTypes
             PROVE  Conserved /\ (Purses(plan) => BalancesRead /\ BatchKeepsMoney)
  OBVIOUS
<1>1. plan \in Seq(Call) /\ at = 1 /\ Committed = {}
  BY PlanTypes DEF WorkloadInit, WorkTypes, TrieInit, Committed
<1>2. Conserved
  BY <1>1 DEF Conserved
<1>3. ASSUME Purses(plan) PROVE BalancesRead /\ BatchKeepsMoney
  <2>1. \A i \in Sends(plan) : i \in Nat /\ i - 2 \in Gets(plan)
    BY <1>1, <1>3, PayPlaces DEF Purses, Paying, PaysAfterReads, SendsAt
  <2>2. \A i \in Gets(plan) : i \in Nat /\ i >= 1
    BY <1>1 DEF Gets
  <2>3. \A i \in Sends(plan) : i >= 3
    BY <2>1, <2>2
  <2>4. BalancesRead
    BY <1>1, <2>1, <2>3 DEF BalancesRead
  <2>5. \A i \in Writes(plan) : i \in Nat /\ i >= 1
    BY <1>1 DEF Writes
  <2>6. BatchKeepsMoney
    BY <1>1, <2>5 DEF BatchKeepsMoney, Gathered
  <2> QED BY <2>4, <2>6
<1> QED BY <1>2, <1>3

LEMMA NothingPaid ==
  ASSUME Conserved, UNCHANGED workloadVars
  PROVE  /\ Conserved'
         /\ BalancesRead => BalancesRead'
         /\ BatchKeepsMoney => BatchKeepsMoney'
<1>1. UNCHANGED <<plan, snapshots, put_cache, at, answers>>
  BY DEF workloadVars, trie, run, results
<1>2. Newest' = Newest
  BY <1>1 DEF Newest, Committed
<1>3. /\ Money(Newest)' = Money(Newest)
      /\ Money(Over(Newest, put_cache))' = Money(Over(Newest, put_cache))
  BY <1>1, <1>2 DEF Money, Over
<1>4. Owed' = Owed /\ \A i : PaidOnce(plan[i].version)' <=> PaidOnce(plan[i].version)
  BY <1>1 DEF Owed, PaidOnce, OfKind
<1>5. BalancesRead => BalancesRead'
  BY <1>1, <1>2 DEF BalancesRead
<1>6. BatchKeepsMoney => BatchKeepsMoney'
  BY <1>1, <1>3, <1>4 DEF BatchKeepsMoney
<1> QED BY <1>1, <1>5, <1>6, SameMaps

PurseInv ==
  /\ KeepInv
  /\ Purses(plan) => Conserved /\ (~aborted => BalancesRead /\ BatchKeepsMoney)

LEMMA PurseSteps ==
  ASSUME PurseInv, BalancesAreNumbers, [WorkloadNext]_workloadVars
  PROVE  PurseInv'
<1>1. KeepInv' /\ plan' = plan
  BY KeepSteps, PlanStays DEF PurseInv
<1>2. ASSUME Purses(plan)
      PROVE  Conserved' /\ (~aborted' => BalancesRead' /\ BatchKeepsMoney')
  <2>1. CASE UNCHANGED workloadVars
    <3>1. aborted' = aborted
      BY <2>1 DEF workloadVars, results
    <3> QED BY <1>2, <2>1, <3>1, NothingPaid DEF PurseInv
  <2>2. CASE WorkloadNext
    <3>1. WorkTypes /\ AbortedEnds /\ Ordered(plan) /\ Lawful(plan) /\ Paying(plan)
      BY <1>2 DEF PurseInv, KeepInv, FollowInv, Purses
    <3>2. ~aborted
      BY <2>2, <3>1, AbortedStays
    <3>3. Follows /\ Keeps /\ Conserved /\ BalancesRead /\ BatchKeepsMoney
      BY <1>2, <3>1, <3>2 DEF PurseInv, KeepInv, FollowInv
    <3>4. CASE DoSettle
      <4>1. UNCHANGED <<plan, snapshots>>
        BY <3>1, <3>3, <3>4, SettleStep
      <4> QED BY <1>2, <3>1, <3>3, <3>4, <4>1, PurseSettles, SameMaps
    <3>5. CASE DoPut \/ DoDelete
      <4>1. PICK x : WriteStep(x)
        BY <3>1, <3>3, <3>5, PlanWrites
      <4>2. at \notin Settling(plan)
        BY <3>5 DEF DoPut, DoDelete, Doing, Operation, Settling
      <4>3. UNCHANGED <<plan, snapshots>>
        BY <4>1 DEF WriteStep
      <4> QED BY <1>2, <3>1, <3>3, <4>1, <4>2, <4>3, PurseWrites, SameMaps
    <3>6. CASE DoCommit
      BY <1>2, <3>1, <3>3, <3>6, PlanCommits, PurseCommits
    <3>7. CASE DoGet \/ Answered \/ DoScan
      <4>1. UNCHANGED <<plan, snapshots>>
        BY <3>1, <3>7, PlanReads DEF ReadStep, Stays
      <4> QED BY <1>2, <3>1, <3>3, <3>7, <4>1, PurseReads, SameMaps
    <3>8. CASE Abort
      <4>1. UNCHANGED <<plan, snapshots>> /\ aborted'
        BY <3>1, <3>8, PlanAborts DEF AbortStep, Stays
      <4> QED BY <3>3, <4>1, SameMaps
    <3> QED BY <2>2, <3>4, <3>5, <3>6, <3>7, <3>8 DEF WorkloadNext
  <2> QED BY <2>1, <2>2
<1>3. Purses(plan)' <=> Purses(plan)
  BY <1>1
<1> QED BY <1>1, <1>2, <1>3 DEF PurseInv

(* Money stays the same where every plan that settles is one of payments.   *)
LEMMA ConservedHolds ==
  ASSUME BalancesAreNumbers,
         \A name \in DOMAIN Programs : \A p \in Programs[name] : Settles(p) => Purses(p)
  PROVE  WorkloadSpec => []Conserved
<1>1. WorkloadInit => PurseInv
  <2> SUFFICES ASSUME WorkloadInit PROVE PurseInv
    OBVIOUS
  <2>1. KeepInv
    BY WorkInitTypes, FollowsInit, KeepsInit DEF KeepInv, FollowInv, AbortedEnds, WorkloadInit
  <2> QED BY <2>1, WorkInitTypes, PurseInit DEF PurseInv
<1>2. PurseInv /\ [WorkloadNext]_workloadVars => PurseInv'
  BY PurseSteps
<1>3. PurseInv => Conserved
  <2> SUFFICES ASSUME PurseInv PROVE Conserved
    OBVIOUS
  <2>1. program \in DOMAIN Programs /\ plan \in Programs[program]
    BY DEF PurseInv, KeepInv, FollowInv, WorkTypes, Runs
  <2>2. CASE Settles(plan)
    BY <2>1, <2>2 DEF PurseInv
  <2>3. CASE ~Settles(plan)
    BY <2>3 DEF Conserved, Settles, OfKind
  <2> QED BY <2>2, <2>3
<1> QED BY <1>1, <1>2, <1>3, PTL DEF WorkloadSpec

-----------------------------------------------------------------------------
(* The payments of simple_payment: settled under the versions after m, and  *)
(* each after its reads.  Such plans can be put one after the other.        *)
Pays(p, m) ==
  /\ \A i \in Sends(p) : SendsAt(p, i)
  /\ \A i \in Receives(p) : i - 1 \in Sends(p)
  /\ \A j \in Writes(p) : p[j].op = "settle" <=> p[j].version > m

LEMMA PaysOn ==
  ASSUME NEW m \in Int, NEW p \in Seq(Op), NEW b \in Seq(Op), Pays(p, m), Pays(b, m)
  PROVE  p \o b \in Seq(Op) /\ Pays(p \o b, m)
<1>1. PICK q : q = p \o b
  OBVIOUS
<1>2. q \in Seq(Op) /\ Joined(q, p, b) /\ Len(p) \in Nat /\ Len(b) \in Nat
  BY <1>1, Joins, Places
<1>3. /\ Sends(p) \cup Receives(p) \cup Writes(p) \cup Gets(p) \subseteq 1..Len(p)
      /\ Sends(b) \cup Receives(b) \cup Writes(b) \cup Gets(b) \subseteq 1..Len(b)
      /\ Sends(q) \cup Receives(q) \cup Writes(q) \subseteq 1..Len(q)
  BY <1>2, Places DEF Sends, Receives
<1>4. \A i \in 1..Len(p) : /\ q[i] = p[i]
                           /\ i \in Writes(q) <=> i \in Writes(p)
                           /\ i \in Gets(q) <=> i \in Gets(p)
                           /\ i \in Sends(q) <=> i \in Sends(p)
                           /\ i \in Receives(q) <=> i \in Receives(p)
  BY <1>2 DEF Joined, Sends, Receives
<1>5. \A i \in 1..Len(b) : /\ q[Len(p) + i] = b[i]
                           /\ Len(p) + i \in Writes(q) <=> i \in Writes(b)
                           /\ Len(p) + i \in Gets(q) <=> i \in Gets(b)
                           /\ Len(p) + i \in Sends(q) <=> i \in Sends(b)
                           /\ Len(p) + i \in Receives(q) <=> i \in Receives(b)
  BY <1>2 DEF Joined, Sends, Receives
<1>6. \A i \in 1..Len(q) : i \in 1..Len(p) \/ \E l \in 1..Len(b) : i = Len(p) + l
  BY <1>2 DEF Joined
<1>7. ASSUME NEW i \in Sends(q) PROVE SendsAt(q, i)
  <2>1. CASE i \in 1..Len(p)
    <3>1. i \in Sends(p) /\ SendsAt(p, i)
      BY <1>4, <2>1, <1>7 DEF Pays
    <3>2. /\ i - 2 \in Gets(p) /\ i - 1 \in Gets(p) /\ i + 1 \in Receives(p)
          /\ i - 2 \in 1..Len(p) /\ i - 1 \in 1..Len(p) /\ i + 1 \in 1..Len(p)
      BY <1>3, <3>1 DEF SendsAt
    <3>3. /\ i - 2 \in Gets(q) /\ i - 1 \in Gets(q) /\ i + 1 \in Receives(q)
          /\ q[i - 2] = p[i - 2] /\ q[i - 1] = p[i - 1] /\ q[i + 1] = p[i + 1] /\ q[i] = p[i]
      BY <1>4, <2>1, <3>2
    <3> QED BY <3>1, <3>3 DEF SendsAt
  <2>2. ASSUME NEW l \in 1..Len(b), i = Len(p) + l PROVE SendsAt(q, i)
    <3>1. l \in Sends(b) /\ SendsAt(b, l)
      BY <1>5, <2>2, <1>7 DEF Pays
    <3>2. /\ l - 2 \in Gets(b) /\ l - 1 \in Gets(b) /\ l + 1 \in Receives(b)
          /\ l - 2 \in 1..Len(b) /\ l - 1 \in 1..Len(b) /\ l + 1 \in 1..Len(b)
      BY <1>3, <3>1 DEF SendsAt
    <3>3. i - 2 = Len(p) + (l - 2) /\ i - 1 = Len(p) + (l - 1) /\ i + 1 = Len(p) + (l + 1)
      BY <1>2, <2>2
    <3>4. /\ i - 2 \in Gets(q) /\ i - 1 \in Gets(q) /\ i + 1 \in Receives(q)
          /\ q[i - 2] = b[l - 2] /\ q[i - 1] = b[l - 1] /\ q[i + 1] = b[l + 1] /\ q[i] = b[l]
      BY <1>5, <2>2, <3>2, <3>3
    <3> QED BY <3>1, <3>4 DEF SendsAt
  <2> QED BY <1>3, <1>6, <2>1, <2>2
<1>8. ASSUME NEW i \in Receives(q) PROVE i - 1 \in Sends(q)
  <2>1. CASE i \in 1..Len(p)
    <3>1. i - 1 \in Sends(p) /\ i - 1 \in 1..Len(p)
      BY <1>3, <1>4, <2>1, <1>8 DEF Pays
    <3> QED BY <1>4, <3>1
  <2>2. ASSUME NEW l \in 1..Len(b), i = Len(p) + l PROVE i - 1 \in Sends(q)
    <3>1. l - 1 \in Sends(b) /\ l - 1 \in 1..Len(b)
      BY <1>3, <1>5, <2>2, <1>8 DEF Pays
    <3>2. i - 1 = Len(p) + (l - 1)
      BY <1>2, <2>2
    <3> QED BY <1>5, <3>1, <3>2
  <2> QED BY <1>3, <1>6, <2>1, <2>2
<1>9. ASSUME NEW j \in Writes(q) PROVE q[j].op = "settle" <=> q[j].version > m
  <2>1. CASE j \in 1..Len(p)
    BY <1>4, <2>1, <1>9 DEF Pays
  <2>2. ASSUME NEW l \in 1..Len(b), j = Len(p) + l PROVE q[j].op = "settle" <=> q[j].version > m
    BY <1>5, <2>2, <1>9 DEF Pays
  <2> QED BY <1>3, <1>6, <2>1, <2>2
<1> QED BY <1>1, <1>2, <1>7, <1>8, <1>9 DEF Pays

LEMMA PaysAll ==
  ASSUME NEW m \in Int, NEW n \in Nat, NEW s \in [1..n -> Seq(Op)], \A j \in 1..n : Pays(s[j], m)
  PROVE  B!FlattenSeq(s) \in Seq(Op) /\ Pays(B!FlattenSeq(s), m)
<1> DEFINE P == {x \in Nat \X Seq(Op) : Pays(x[2], m)}
<1>1. <<0, <<>>>> \in P
  <2>1. PICK e \in Seq(Op) : e = <<>>
    BY NoOps
  <2>2. DOMAIN e = {}
    BY <2>1
  <2>3. Pays(e, m)
    BY <2>2 DEF Pays, Sends, Receives, Writes
  <2>4. <<0, e>> \in P
    BY <2>3
  <2> QED BY <2>1, <2>4
<1>2. ASSUME NEW j \in 0..(n - 1), NEW q \in Seq(Op), <<j, q>> \in P
      PROVE  <<j + 1, q \o s[j + 1]>> \in P
  <2>1. j + 1 \in Nat /\ j + 1 \in 1..n /\ Pays(q, m) /\ s[j + 1] \in Seq(Op)
    BY <1>2
  <2>2. q \o s[j + 1] \in Seq(Op) /\ Pays(q \o s[j + 1], m)
    BY <2>1, PaysOn
  <2> QED BY <2>1, <2>2
<1> HIDE DEF P
<1>3. B!FlattenSeq(s) \in Seq(Op) /\ <<n, B!FlattenSeq(s)>> \in P
  BY <1>1, <1>2, FlattenInduct
<1> QED BY <1>3 DEF P

LEMMA PaymentPays ==
  ASSUME NEW m \in Nat, NEW v \in Nat, v > m, NEW pay \in [send : Keys, recv : Keys]
  PROVE  B!Payment(v, pay) \in Seq(Op) /\ Pays(B!Payment(v, pay), m)
<1>1. PICK b : b = B!Payment(v, pay)
  OBVIOUS
<1>2. PICK w \in Nat : w = v - 1
  OBVIOUS
<1>3. pay.send \in Keys /\ pay.recv \in Keys
  OBVIOUS
<1>4. /\ DOMAIN b = {1, 2, 3, 4} /\ Len(b) = 4
      /\ b[1] = B!Read(w, pay.send) /\ b[2] = B!Read(w, pay.recv)
      /\ b[3] = B!Settle(v, pay.send, "send") /\ b[4] = B!Settle(v, pay.recv, "recv")
  <2>1. b = <<B!Read(w, pay.send), B!Read(w, pay.recv),
              B!Settle(v, pay.send, "send"), B!Settle(v, pay.recv, "recv")>>
    BY <1>1, <1>2 DEF B!Payment
  <2> QED BY <2>1
<1>5. /\ b[1] \in Op /\ b[1].op = "get" /\ b[1].key = pay.send /\ b[1].version = w
      /\ b[2] \in Op /\ b[2].op = "get" /\ b[2].key = pay.recv /\ b[2].version = w
  BY <1>3, <1>4 DEF B!Read, B!Get, Op, Expectable
<1>6. /\ b[3] \in Op /\ b[3].op = "settle" /\ b[3].side = "send" /\ b[3].key = pay.send
      /\ b[3].version = v
      /\ b[4] \in Op /\ b[4].op = "settle" /\ b[4].side = "recv" /\ b[4].key = pay.recv
      /\ b[4].version = v
  BY <1>3, <1>4 DEF B!Settle, Op
<1>7. b \in Seq(Op)
  <2>1. b = <<b[1], b[2], b[3], b[4]>>
    BY <1>1, <1>2, <1>4 DEF B!Payment
  <2>2. <<b[1], b[2], b[3], b[4]>> \in Seq(Op)
    BY <1>5, <1>6
  <2> QED BY <2>1, <2>2
<1>8. Gets(b) = {1, 2} /\ Writes(b) = {3, 4} /\ Sends(b) = {3} /\ Receives(b) = {4}
  <2>1. Gets(b) = {1, 2}
    BY <1>4, <1>5, <1>6 DEF Gets
  <2>2. Writes(b) = {3, 4}
    BY <1>4, <1>5, <1>6 DEF Writes
  <2>3. Sends(b) = {3}
    BY <1>6, <2>2 DEF Sends
  <2>4. Receives(b) = {4}
    BY <1>6, <2>2 DEF Receives
  <2> QED BY <2>1, <2>2, <2>3, <2>4
<1>9. SendsAt(b, 3)
  <2>1. 3 - 2 = 1 /\ 3 - 1 = 2 /\ 3 + 1 = 4
    OBVIOUS
  <2> QED BY <1>2, <1>5, <1>6, <1>8, <2>1 DEF SendsAt
<1>10. 4 - 1 = 3
  OBVIOUS
<1>11. Pays(b, m)
  BY <1>6, <1>8, <1>9, <1>10 DEF Pays
<1> QED BY <1>1, <1>7, <1>11

LEMMA StillPays ==
  ASSUME NEW m \in Nat, NEW p \in Seq(Op),
         \A j \in Writes(p) : p[j].op # "settle" /\ p[j].version <= m
  PROVE  Pays(p, m)
<1>1. Sends(p) = {} /\ Receives(p) = {}
  BY DEF Sends, Receives
<1>2. \A j \in Writes(p) : p[j].version \in Nat
  BY Places
<1> QED BY <1>1, <1>2 DEF Pays

LEMMA ClosedPays ==
  ASSUME NEW m \in Nat, NEW b \in Seq(Op), Pays(b, m), NEW v \in Nat
  PROVE  Closed(b, v) \in Seq(Op) /\ Pays(Closed(b, v), m)
<1>1. PICK c : c = <<B!Commit(v)>>
  OBVIOUS
<1>2. c \in Seq(Op) /\ Writes(c) = {}
  BY <1>1, CommitOf
<1>3. Pays(c, m) /\ m \in Int
  BY <1>2, StillPays
<1>4. b \o c \in Seq(Op) /\ Pays(b \o c, m)
  BY <1>2, <1>3, PaysOn
<1> QED BY <1>1, <1>4 DEF Closed

LEMMA PaymentPurses ==
  ASSUME Opening \in Value, NEW num_load \in Nat \ {0}, NEW batch \in Nat \ {0},
         NEW txns \in Seq(Transfers)
  PROVE  Purses(B!SimplePayment(num_load, batch, txns))
<1> DEFINE n == Len(txns)
           opened == Opened(num_load, batch)
           paid == Paid(num_load, txns)
<1>1. n \in Nat /\ num_load \in Nat /\ num_load \in Int /\ \A j \in 1..n : txns[j] \in Transfers
  OBVIOUS
<1>2. ASSUME NEW j \in 1..num_load
      PROVE  Closed(opened[j], 0 + j) \in Seq(Op) /\ Pays(Closed(opened[j], 0 + j), num_load)
  <2>1. PICK h \in Nat : h = j - 1
    OBVIOUS
  <2>2. PICK b : b = opened[j]
    OBVIOUS
  <2>3. h + 1 = j /\ 0 + j = j /\ j \in Nat /\ j <= num_load /\ (j - 1) * batch \in Int
    BY <2>1
  <2>4. b = [i \in 1..batch |-> B!Put(h + 1, (j - 1) * batch + i, Opening)]
    BY <2>2, <2>3 DEF Opened
  <2>5. Block(b, 1, h)
    BY <2>3, <2>4, OpeningsAreBlock
  <2>6. b \in Seq(Op) /\ Commits(b) = {} /\ DOMAIN b = 1..batch /\ Pays(b, num_load)
    <3>1. b \in Seq(Op) /\ Commits(b) = {} /\ \A m \in Writes(b) : b[m].version = h + 1
      BY <2>5 DEF Block
    <3>2. DOMAIN b = 1..batch /\ \A m \in 1..batch : b[m].op = "put"
      BY <2>4 DEF B!Put
    <3>3. \A m \in Writes(b) : b[m].op # "settle" /\ b[m].version <= num_load
      BY <2>3, <3>1, <3>2 DEF Writes
    <3> QED BY <3>1, <3>2, <3>3, StillPays
  <2>7. Closed(b, j) \in Seq(Op) /\ Pays(Closed(b, j), num_load)
    BY <2>3, <2>6, ClosedPays
  <2> QED BY <2>2, <2>3, <2>7
<1>3. ASSUME NEW j \in 1..n
      PROVE  /\ Closed(paid[j], num_load + j) \in Seq(Op)
             /\ Pays(Closed(paid[j], num_load + j), num_load)
  <2>1. PICK v \in Nat : v = num_load + j
    OBVIOUS
  <2>2. PICK pays : pays = txns[j]
    OBVIOUS
  <2>3. PICK R : R = [send : Keys, recv : Keys]
    OBVIOUS
  <2>4. pays \in Seq(R)
    <3>1. pays \in Transfers
      BY <1>1, <2>2
    <3> QED BY <2>3, <3>1 DEF Transfers
  <2>5. v > num_load
    BY <1>1, <2>1
  <2>6. PICK s : s = [i \in 1..Len(pays) |-> B!Payment(v, pays[i])]
    OBVIOUS
  <2>7. Len(pays) \in Nat /\ \A i \in 1..Len(pays) : pays[i] \in R
    BY <2>4
  <2>8. \A i \in 1..Len(pays) : s[i] \in Seq(Op) /\ Pays(s[i], num_load)
    <3> TAKE i \in 1..Len(pays)
    <3>1. s[i] = B!Payment(v, pays[i])
      BY <2>6
    <3>2. pays[i] \in [send : Keys, recv : Keys]
      BY <2>3, <2>7
    <3> QED BY <1>1, <2>5, <3>1, <3>2, PaymentPays
  <2>9. s \in [1..Len(pays) -> Seq(Op)]
    BY <2>6, <2>8
  <2>10. paid[j] = B!FlattenSeq(s)
    BY <2>1, <2>2, <2>6 DEF Paid, Payments
  <2>11. paid[j] \in Seq(Op) /\ Pays(paid[j], num_load)
    BY <1>1, <2>7, <2>8, <2>9, <2>10, PaysAll
  <2> HIDE DEF paid
  <2>12. Closed(paid[j], v) \in Seq(Op) /\ Pays(Closed(paid[j], v), num_load)
    BY <1>1, <2>11, ClosedPays
  <2> QED BY <2>1, <2>12
<1> HIDE DEF opened, paid
<1>4. PICK p : p = B!SimplePayment(num_load, batch, txns)
  OBVIOUS
<1>5. p \in Seq(Op) /\ Pays(p, num_load)
  <2>1. PICK a : a = Sequel(0, num_load, opened)
    OBVIOUS
  <2>2. PICK b : b = Sequel(num_load, n, paid)
    OBVIOUS
  <2>3. a \in Seq(Op) /\ Pays(a, num_load)
    <3>1. PICK s : s = [j \in 1..num_load |-> Closed(opened[j], 0 + j)]
      OBVIOUS
    <3>2. s \in [1..num_load -> Seq(Op)] /\ \A j \in 1..num_load : Pays(s[j], num_load)
      BY <1>2, <3>1
    <3> QED BY <1>1, <2>1, <3>1, <3>2, PaysAll DEF Sequel
  <2>4. b \in Seq(Op) /\ Pays(b, num_load)
    <3>1. PICK s : s = [j \in 1..n |-> Closed(paid[j], num_load + j)]
      OBVIOUS
    <3>2. s \in [1..n -> Seq(Op)] /\ \A j \in 1..n : Pays(s[j], num_load)
      BY <1>3, <3>1
    <3> QED BY <1>1, <2>2, <3>1, <3>2, PaysAll DEF Sequel
  <2>5. p = a \o b
    BY <1>4, <2>1, <2>2, PaymentBlocks DEF opened, paid
  <2> QED BY <1>1, <2>3, <2>4, <2>5, PaysOn
<1>6. Ordered(p) /\ Lawful(p) /\ ReadsAfterCommits(p)
  <2>1. Timed(p, 1, num_load + n) /\ num_load + n \in Int /\ 1 \in Nat /\ 1 >= 1
    BY <1>1, <1>4, PaymentIsTimed
  <2> QED BY <2>1, TimedIsLawful
<1>7. PaysAfterReads(p)
  <2>1. ASSUME NEW i \in Sends(p)
        PROVE  SendsAt(p, i)
               /\ \E c \in Commits(p) : c < i - 2 /\ Effective(p, c) /\ p[c].version = p[i].version - 1
    <3>1. SendsAt(p, i)
      BY <1>5 DEF Pays
    <3>2. i - 2 \in Gets(p) /\ p[i - 2].version = p[i].version - 1
      BY <3>1 DEF SendsAt
    <3>3. PICK c \in Commits(p) : c < i - 2 /\ Effective(p, c) /\ p[c].version = p[i - 2].version
      BY <1>6, <3>2 DEF ReadsAfterCommits
    <3> QED BY <3>1, <3>2, <3>3
  <2> QED BY <2>1 DEF PaysAfterReads
<1>8. ASSUME NEW i \in Settling(p), NEW j \in Writes(p),
             Gathered(p, i, j) \/ p[j].version = p[i].version
      PROVE  j \in Settling(p)
  <2>1. i \in Writes(p) /\ p[i].version > num_load /\ p[i].version \in Nat /\ p[j].version \in Nat
    BY <1>5, Places DEF Pays, Settling, Writes
  <2>2. p[i].version <= p[j].version
    BY <1>6, <1>8, <2>1 DEF Ordered, Gathered
  <2>3. p[j].version > num_load
    BY <2>1, <2>2
  <2> QED BY <1>5, <2>3 DEF Pays, Settling
<1>9. Paying(p)
  BY <1>5, <1>7, <1>8 DEF Paying, Pays
<1> QED BY <1>4, <1>6, <1>9 DEF Purses

-----------------------------------------------------------------------------
(* The other programs settle nothing. *)
Still == {o \in Op : o.op # "settle"}

LEMMA StillSettlesNothing ==
  ASSUME NEW p \in Seq(Still)
  PROVE  p \in Seq(Op) /\ ~Settles(p)
<1>1. DOMAIN p = 1..Len(p) /\ \A i \in 1..Len(p) : p[i] \in Still
  <2> HIDE DEF Still
  <2> QED OBVIOUS
<1>2. p \in Seq(Op)
  <2>1. Still \subseteq Op
    BY DEF Still
  <2> HIDE DEF Still
  <2> QED BY <2>1
<1> QED BY <1>1, <1>2 DEF Still, Settles

LEMMA StillBlocks ==
  ASSUME NEW task \in Task, NEW j \in Nat
  PROVE  /\ Closed(B!PutTask(j, task), j) \in Seq(Still) /\ B!GetTask(j, task) \in Seq(Still)
         /\ Closed(B!PutTask(j, task), j) \o B!GetTask(j, task) \in Seq(Still)
         /\ (Closed(B!PutTask(j, task), j) \o B!GetTask(j, task)) \o <<B!Commit(j)>> \in Seq(Still)
<1>1. PICK b : b = B!PutTask(j, task)
  OBVIOUS
<1>2. PICK g : g = B!GetTask(j, task)
  OBVIOUS
<1>3. PICK c : c = B!Commit(j)
  OBVIOUS
<1>4. c \in Still
  BY <1>3, CommitOf DEF Still
<1>5. b \in Seq(Still)
  <2>1. b \in Seq(Op) /\ \A m \in 1..Len(b) : b[m].op = "put"
    BY <1>1, PutsOf
  <2>2. \A m \in 1..Len(b) : b[m] \in Still
    BY <2>1 DEF Still
  <2> HIDE DEF Still
  <2> QED BY <2>1, <2>2
<1>6. g \in Seq(Still)
  <2>1. g \in Seq(Op) /\ Gets(g) = 1..Len(g)
    BY <1>2, GetsOf
  <2>2. \A m \in 1..Len(g) : g[m] \in Still
    BY <2>1 DEF Still, Gets
  <2> HIDE DEF Still
  <2> QED BY <2>1, <2>2
<1>7. PICK d : d = b \o <<c>>
  OBVIOUS
<1>8. d \in Seq(Still) /\ d \o g \in Seq(Still) /\ (d \o g) \o <<c>> \in Seq(Still)
  BY <1>4, <1>5, <1>6, <1>7
<1> QED BY <1>1, <1>2, <1>3, <1>6, <1>7, <1>8 DEF Closed

LEMMA TestsSettleNothing ==
  ASSUME NEW tasks \in Seq(Task)
  PROVE  /\ ~Settles(B!GetPut(tasks)) /\ ~Settles(B!PutGetInterHashedKey(tasks))
         /\ \A order \in [1..Len(tasks) -> 1..Len(tasks)] :
              ~Settles(B!PutAll(tasks) \o B!GetAll(tasks, order))
<1> DEFINE n == Len(tasks)
           Puts(j) == Closed(B!PutTask(j, tasks[j]), j)
           Both(j) == Puts(j) \o B!GetTask(j, tasks[j])
<1>1. n \in Nat /\ n - 1 + 1 = n /\ \A j \in 1..n : tasks[j] \in Task /\ 1 + j - 1 = j /\ j \in Nat
  OBVIOUS
<1>2. ~Settles(B!GetPut(tasks))
  <2>1. PICK s : s = [j \in 1..n |-> Both(j) \o <<B!Commit(j)>>]
    OBVIOUS
  <2>2. B!GetPut(tasks) = B!FlattenSeq(s)
    BY <1>1, <2>1 DEF B!GetPut, B!Loop, Closed
  <2>3. s \in [1..n -> Seq(Still)]
    BY <1>1, <2>1, StillBlocks
  <2> QED BY <1>1, <2>2, <2>3, FlattenTyped, StillSettlesNothing
<1>3. ~Settles(B!PutGetInterHashedKey(tasks))
  <2>1. PICK s : s = [j \in 1..n |-> Both(j)]
    OBVIOUS
  <2>2. B!PutGetInterHashedKey(tasks) = B!FlattenSeq(s)
    BY <1>1, <2>1 DEF B!PutGetInterHashedKey, B!Loop, Closed
  <2>3. s \in [1..n -> Seq(Still)]
    BY <1>1, <2>1, StillBlocks
  <2> QED BY <1>1, <2>2, <2>3, FlattenTyped, StillSettlesNothing
<1>4. ASSUME NEW order \in [1..n -> 1..n]
      PROVE  ~Settles(B!PutAll(tasks) \o B!GetAll(tasks, order))
  <2>1. PICK s : s = [j \in 1..n |-> Puts(j)]
    OBVIOUS
  <2>2. B!PutAll(tasks) = B!FlattenSeq(s)
    BY <1>1, <2>1 DEF B!PutAll, B!Loop, Closed
  <2>3. s \in [1..n -> Seq(Still)]
    BY <1>1, <2>1, StillBlocks
  <2>4. PICK g : g = [j \in 1..n |-> B!GetTask(order[j], tasks[order[j]])]
    OBVIOUS
  <2>5. B!GetAll(tasks, order) = B!FlattenSeq(g)
    BY <1>1, <2>4 DEF B!GetAll, B!Loop
  <2>6. g \in [1..n -> Seq(Still)]
    <3>1. \A j \in 1..n : order[j] \in 1..n
      BY <1>4
    <3> QED BY <1>1, <2>4, <3>1, StillBlocks
  <2>7. B!FlattenSeq(s) \in Seq(Still) /\ B!FlattenSeq(g) \in Seq(Still)
    BY <1>1, <2>3, <2>6, FlattenTyped
  <2>8. B!FlattenSeq(s) \o B!FlattenSeq(g) \in Seq(Still)
    BY <2>7
  <2> QED BY <2>2, <2>5, <2>8, StillSettlesNothing
<1> QED BY <1>2, <1>3, <1>4

LEMMA SimpleSettlesNothing ==
  ASSUME NEW one, NEW two
  PROVE  ~Settles(B!Simple(one, two))
<1>1. PICK p : p = B!Simple(one, two)
  OBVIOUS
<1>2. \A i \in DOMAIN p : p[i].op \in {"put", "commit", "get", "delete"}
  BY <1>1 DEF B!Simple, B!Put, B!Get, B!Delete, B!Commit
<1> QED BY <1>1, <1>2 DEF Settles

LEMMA TraceSettlesNothing ==
  ASSUME NEW trace
  PROVE  ~Settles(B!TraceReplay(trace))
<1>1. PICK p : p = B!TraceReplay(trace)
  OBVIOUS
<1>2. \A i \in DOMAIN p : p[i].op \in {"get", "put"}
  BY <1>1 DEF B!TraceReplay, B!Read, B!Get, B!Put
<1> QED BY <1>1, <1>2 DEF Settles

LEMMA TimedSettlesNothing ==
  ASSUME NEW p, NEW hi, Timed(p, 0, hi)
  PROVE  ~Settles(p)
<1>1. \A i \in Writes(p) : p[i].op = "put"
  BY DEF Timed
<1> QED BY <1>1 DEF Settles, Writes

-----------------------------------------------------------------------------
(* Folds over a sequence, which are folds over the sets of its indices.     *)

LEMMA MaxIs ==
  ASSUME NEW n \in Nat, NEW s \in SUBSET (0..n), s # {}
  PROVE  B!Max(s) \in s /\ \A x \in s : x <= B!Max(s)
<1>1. PICK m \in s : \A x \in s : x <= m
  BY Greatest
<1>2. \E y \in s : \A x \in s : y >= x
  BY <1>1
<1> DEFINE M == CHOOSE y \in s : \A x \in s : y >= x
<1>3. M \in s /\ \A x \in s : M >= x
  BY <1>2
<1>4. B!Max(s) = M
  BY DEF B!Max
<1> HIDE DEF M
<1> QED BY <1>3, <1>4

(* What every step of a fold keeps holds in the end. *)
LEMMA FoldStays ==
  ASSUME NEW P, NEW n \in Nat, NEW f, <<{}, f[{}]>> \in P,
         \A s \in SUBSET (1..n) :
           s # {} /\ <<s \ {B!Max(s)}, f[s \ {B!Max(s)}]>> \in P => <<s, f[s]>> \in P
  PROVE  \A s \in SUBSET (1..n) : <<s, f[s]>> \in P
<1> DEFINE S == {m \in Nat : m <= n => \A s \in SUBSET (1..m) : <<s, f[s]>> \in P}
<1>1. 0 \in S
  <2>1. ASSUME NEW s \in SUBSET (1..0) PROVE <<s, f[s]>> \in P
    <3>1. s = {}
      OBVIOUS
    <3> QED BY <3>1
  <2> QED BY <2>1
<1>2. ASSUME NEW m \in Nat, m \in S PROVE m + 1 \in S
  <2>1. ASSUME m + 1 <= n, NEW s \in SUBSET (1..(m + 1)) PROVE <<s, f[s]>> \in P
    <3>1. \A t \in SUBSET (1..m) : <<t, f[t]>> \in P
      BY <1>2, <2>1
    <3>2. CASE s = {}
      BY <3>2
    <3>3. CASE s # {}
      <4>1. s \in SUBSET (0..(m + 1)) /\ m + 1 \in Nat
        OBVIOUS
      <4>2. PICK x : x = B!Max(s) /\ x \in s /\ \A y \in s : y <= x
        BY <3>3, <4>1, MaxIs
      <4>3. ASSUME NEW y \in s, y # x PROVE y \in 1..m
        BY <4>2, <4>3
      <4>4. s \ {x} \in SUBSET (1..m)
        BY <4>3
      <4>5. s \in SUBSET (1..n)
        BY <2>1
      <4> QED BY <3>1, <3>3, <4>2, <4>4, <4>5
    <3> QED BY <3>2, <3>3
  <2>2. m + 1 \in Nat
    OBVIOUS
  <2> QED BY <2>1, <2>2
<1> HIDE DEF S
<1>3. \A m \in Nat : m \in S
  BY <1>1, <1>2, Induct
<1> QED BY <1>3 DEF S

(* G folds the steps A, of the result so far and an index, over the indices. *)
Folds(G, base, A, n) ==
  G = [s \in SUBSET (1..n) |->
        IF s = {} THEN base ELSE A[<<G[s \ {B!Max(s)}], B!Max(s)>>]]

LEMMA FoldExists ==
  ASSUME NEW base, NEW A
  PROVE  \A n \in Nat : \E G : Folds(G, base, A, n)
<1> DEFINE S == {n \in Nat : \E G : Folds(G, base, A, n)}
<1>1. 0 \in S
  <2>1. PICK G : G = [s \in SUBSET (1..0) |-> base]
    OBVIOUS
  <2>2. \A s \in SUBSET (1..0) : s = {}
    OBVIOUS
  <2>3. G = [s \in SUBSET (1..0) |->
              IF s = {} THEN base ELSE A[<<G[s \ {B!Max(s)}], B!Max(s)>>]]
    BY <2>1, <2>2
  <2>4. \E F : Folds(F, base, A, 0)
    BY <2>3 DEF Folds
  <2> QED BY <2>4
<1>2. ASSUME NEW n \in Nat, n \in S PROVE n + 1 \in S
  <2>1. PICK F : F = [s \in SUBSET (1..n) |->
                       IF s = {} THEN base ELSE A[<<F[s \ {B!Max(s)}], B!Max(s)>>]]
    BY <1>2 DEF Folds
  <2>2. PICK G : G = [s \in SUBSET (1..(n + 1)) |->
                       IF n + 1 \in s THEN A[<<F[s \ {n + 1}], n + 1>>] ELSE F[s]]
    OBVIOUS
  <2>3. ASSUME NEW s \in SUBSET (1..(n + 1))
        PROVE  G[s] = IF s = {} THEN base ELSE A[<<G[s \ {B!Max(s)}], B!Max(s)>>]
    <3>1. CASE s = {}
      <4>1. s \in SUBSET (1..n) /\ n + 1 \notin s
        BY <3>1
      <4> QED BY <2>1, <2>2, <3>1, <4>1
    <3>2. CASE s # {}
      <4>1. s \in SUBSET (0..(n + 1)) /\ n + 1 \in Nat
        OBVIOUS
      <4>2. PICK x : x = B!Max(s) /\ x \in s /\ \A y \in s : y <= x
        BY <3>2, <4>1, MaxIs
      <4>3. s \ {x} \in SUBSET (1..n) /\ s \ {x} \in SUBSET (1..(n + 1)) /\ n + 1 \notin s \ {x}
        <5>1. ASSUME NEW y \in s, y # x PROVE y \in 1..n /\ y # n + 1
          BY <4>2, <5>1
        <5> QED BY <5>1
      <4>4. G[s \ {x}] = F[s \ {x}]
        BY <2>2, <4>3
      <4>5. CASE n + 1 \in s
        <5>1. x = n + 1
          BY <4>2, <4>5
        <5> QED BY <2>2, <3>2, <4>2, <4>4, <4>5, <5>1
      <4>6. CASE n + 1 \notin s
        <5>1. s \in SUBSET (1..n)
          <6> SUFFICES ASSUME NEW y \in s PROVE y \in 1..n
            OBVIOUS
          <6> QED BY <4>6
        <5>2. G[s] = F[s]
          BY <2>2, <4>6
        <5>3. F[s] = A[<<F[s \ {x}], x>>]
          BY <2>1, <3>2, <4>2, <5>1
        <5> QED BY <3>2, <4>2, <4>4, <5>2, <5>3
      <4> QED BY <4>5, <4>6
    <3> QED BY <3>1, <3>2
  <2>4. G = [s \in SUBSET (1..(n + 1)) |->
              IF s = {} THEN base ELSE A[<<G[s \ {B!Max(s)}], B!Max(s)>>]]
    BY <2>2, <2>3
  <2>5. \E H : Folds(H, base, A, n + 1)
    BY <2>4 DEF Folds
  <2>6. n + 1 \in Nat
    OBVIOUS
  <2> QED BY <2>5, <2>6
<1> HIDE DEF S
<1>3. \A n \in Nat : n \in S
  BY <1>1, <1>2, Induct
<1> QED BY <1>3 DEF S

(* A fold that stays in a set exists in it. *)
LEMMA FoldWithin ==
  ASSUME NEW D, NEW base \in D, NEW n \in Nat, NEW A \in [D \X (1..n) -> D]
  PROVE  \E G : /\ Folds(G, base, A, n)
                /\ \A s \in SUBSET (1..n) : G[s] \in D
                /\ \A s \in SUBSET (1..n) : s # {} => B!Max(s) \in 1..n
<1>1. PICK G : Folds(G, base, A, n)
  BY FoldExists
<1>0. G = [s \in SUBSET (1..n) |->
            IF s = {} THEN base ELSE A[<<G[s \ {B!Max(s)}], B!Max(s)>>]]
  BY <1>1 DEF Folds
<1>2. ASSUME NEW s \in SUBSET (1..n), s # {} PROVE B!Max(s) \in 1..n
  <2>1. s \in SUBSET (0..n)
    OBVIOUS
  <2>2. B!Max(s) \in s
    BY <1>2, <2>1, MaxIs
  <2> QED BY <2>2
<1>3. G[{}] \in D
  <2>1. {} \in SUBSET (1..n)
    OBVIOUS
  <2> QED BY <1>0, <2>1
<1>4. ASSUME NEW s \in SUBSET (1..n), s # {}, G[s \ {B!Max(s)}] \in D PROVE G[s] \in D
  <2>1. G[s] = A[<<G[s \ {B!Max(s)}], B!Max(s)>>]
    BY <1>0, <1>4
  <2>2. B!Max(s) \in 1..n
    BY <1>2, <1>4
  <2> QED BY <1>4, <2>1, <2>2
<1>5. \A s \in SUBSET (1..n) : G[s] \in D
  <2> DEFINE P == {x \in (SUBSET (1..n)) \X {G[s] : s \in SUBSET (1..n)} : x[2] \in D}
  <2>1. \A s \in SUBSET (1..n) : <<s, G[s]>> \in P <=> G[s] \in D
    OBVIOUS
  <2>2. {} \in SUBSET (1..n) /\ \A s \in SUBSET (1..n) : s \ {B!Max(s)} \in SUBSET (1..n)
    OBVIOUS
  <2> HIDE DEF P
  <2>3. \A s \in SUBSET (1..n) : <<s, G[s]>> \in P
    BY <1>3, <1>4, <2>1, <2>2, FoldStays
  <2> QED BY <2>1, <2>3
<1> QED BY <1>1, <1>2, <1>5

-----------------------------------------------------------------------------
(* The database of scaleBenchmark, which has put to every version before    *)
(* the next one.                                                            *)
Database == {db \in [version : Nat, plan : Seq(Op)] : Timed(db.plan, 0, db.version - 1)}

LEMMA DatabaseOf ==
  ASSUME NEW v \in Nat, NEW p \in Seq(Op), NEW h, h = v - 1, Timed(p, 0, h)
  PROVE  [version |-> v, plan |-> p] \in Database
<1>1. PICK db : db = [version |-> v, plan |-> p]
  OBVIOUS
<1>2. db \in [version : Nat, plan : Seq(Op)] /\ db.version = v /\ db.plan = p
  BY <1>1
<1>3. Timed(db.plan, 0, db.version - 1)
  BY <1>2
<1> QED BY <1>1, <1>2, <1>3 DEF Database

LEMMA BaseData ==
  ASSUME Fill \in Value, NEW db \in Database, NEW first \in Int, NEW count \in Nat,
         NEW batch \in Nat \ {0}
  PROVE  B!WriteBaseData(db, first, count, batch) \in Database
<1> DEFINE n == (count + batch - 1) \div batch
           size(i) == IF count - (i - 1) * batch < batch THEN count - (i - 1) * batch
                      ELSE batch
           keys == [i \in 1..n |-> B!From(first + (i - 1) * batch, size(i))]
<1>1. PICK h : h = db.version - 1
  OBVIOUS
<1>2. /\ db.version \in Nat /\ h \in Int /\ h >= -1 /\ h + 1 = db.version
      /\ db.plan \in Seq(Op) /\ Timed(db.plan, 0, h)
  BY <1>1 DEF Database
<1>3. n \in Nat /\ n * batch <= count + batch - 1
  OBVIOUS
<1>4. ASSUME NEW i \in 1..n PROVE keys[i] \in Named
  <2> HIDE DEF n
  <2>1. i \in Nat /\ i >= 1 /\ i <= n /\ batch \in Nat /\ batch > 0 /\ n \in Nat
    BY <1>3
  <2>2. (i - 1) * batch \in Nat /\ n * batch \in Nat
    BY <2>1
  <2>3. i * batch <= n * batch
    BY <2>1
  <2>4. i * batch = (i - 1) * batch + batch
    BY <2>1
  <2>5. count - (i - 1) * batch > 0
    BY <1>3, <2>1, <2>2, <2>3, <2>4
  <2>6. size(i) \in Nat /\ size(i) > 0
    BY <2>1, <2>2, <2>5
  <2>7. first + (i - 1) * batch \in Int
    BY <2>2
  <2>8. keys[i] = B!From(first + (i - 1) * batch, size(i))
    OBVIOUS
  <2> HIDE DEF keys, size
  <2> QED BY <2>6, <2>7, <2>8, Counted
<1>5. B!Loop(1, n, LAMBDA i :
        B!Batch(db.version + i - 1, B!From(first + (i - 1) * batch, size(i))))
      = Batches(h, n, keys)
  <2> HIDE DEF n
  <2>1. \A j \in 1..n : /\ 1 + j - 1 = j /\ db.version + (1 + j - 1) - 1 = h + j
                        /\ keys[j] = B!From(first + (j - 1) * batch, size(j))
    BY <1>2, <1>3
  <2>2. n - 1 + 1 = n
    BY <1>3
  <2>3. [j \in 1..n |-> B!Batch(db.version + (1 + j - 1) - 1,
                                 B!From(first + ((1 + j - 1) - 1) * batch, size(1 + j - 1)))]
        = [j \in 1..n |-> B!Batch(h + j, keys[j])]
    <3> HIDE DEF keys, size
    <3> QED BY <2>1
  <2> QED BY <2>2, <2>3 DEF B!Loop, Batches
<1>6. PICK b \in Seq(Op) : b = Batches(h, n, keys) /\ Timed(db.plan \o b, 0, h + n)
  <2> HIDE DEF n
  <2>1. keys \in [1..n -> Named]
    BY <1>4
  <2> HIDE DEF keys
  <2> QED BY <1>2, <1>3, <2>1, TimedBatches
<1>7. PICK v : v = db.version + n
  OBVIOUS
<1>8. v \in Nat /\ v - 1 = h + n
  <2> HIDE DEF n
  <2> QED BY <1>2, <1>3, <1>7
<1>9. B!WriteBaseData(db, first, count, batch) = [version |-> v, plan |-> db.plan \o b]
  BY <1>5, <1>6, <1>7 DEF B!WriteBaseData
<1>10. db.plan \o b \in Seq(Op)
  BY <1>2
<1>11. PICK g : g = h + n /\ Timed(db.plan \o b, 0, g) /\ g = v - 1
  BY <1>6, <1>8
<1> HIDE DEF n, keys
<1> QED BY <1>8, <1>9, <1>10, <1>11, DatabaseOf

LEMMA BatchTested ==
  ASSUME Fill \in Value, NEW db \in Database, NEW written \in Named, NEW read \in Seq(Keys)
  PROVE  B!TestBatchRead(B!TestBatchWrite(db, written), read) \in Database
<1>1. PICK h : h = db.version - 1
  OBVIOUS
<1>2. /\ db.version \in Nat /\ h \in Int /\ h >= -1 /\ h + 1 = db.version
      /\ db.plan \in Seq(Op) /\ Timed(db.plan, 0, h)
  BY <1>1 DEF Database
<1>3. PICK b \in Seq(Op) : b = B!Batch(h + 1, written) /\ Timed(db.plan \o b, 0, h + 1)
  BY <1>2, TimedBatch
<1>4. PICK v \in Nat : v = db.version
  BY <1>2
<1>5. B!TestBatchWrite(db, written) = [version |-> v + 1, plan |-> db.plan \o b]
  BY <1>2, <1>3, <1>4 DEF B!TestBatchWrite
<1>6. PICK r : r = B!Reads(v, read)
  OBVIOUS
<1>7. v \in 0..v
  OBVIOUS
<1>8. r \in Seq(Lookups(v))
  BY <1>6, <1>7, ReadsAreLookups
<1>9. PICK q : q = db.plan \o b
  OBVIOUS
<1>10. q \in Seq(Op) /\ Timed(q, 0, v)
  BY <1>2, <1>3, <1>4, <1>9
<1>11. r \in Seq(Op) /\ Timed(q \o r, 0, v)
  BY <1>8, <1>10, TimedLookups
<1>12. B!TestBatchRead(B!TestBatchWrite(db, written), read)
       = [version |-> v + 1, plan |-> q \o r]
  <2>1. PICK w : w = v + 1 /\ w - 1 = v
    OBVIOUS
  <2>2. PICK d : d = B!TestBatchWrite(db, written) /\ d = [version |-> w, plan |-> q]
    BY <1>5, <1>9, <2>1
  <2>3. d.version - 1 = v /\ d.plan = q
    BY <2>1, <2>2
  <2>4. [d EXCEPT !.plan = d.plan \o B!Reads(d.version - 1, read)]
        = [version |-> w, plan |-> q \o r]
    <3>1. d.plan \o B!Reads(d.version - 1, read) = q \o r
      BY <1>6, <2>3
    <3>2. PICK x : x = q \o r /\ x = d.plan \o B!Reads(d.version - 1, read)
      BY <3>1
    <3>3. [d EXCEPT !.plan = x] = [version |-> w, plan |-> x]
      BY <2>2
    <3> QED BY <3>2, <3>3
  <2> QED BY <2>1, <2>2, <2>4 DEF B!TestBatchRead
<1>13. q \o r \in Seq(Op) /\ v + 1 \in Nat /\ v + 1 - 1 = v
  BY <1>10, <1>11
<1>14. [version |-> v + 1, plan |-> q \o r] \in Database
  <2>1. PICK w \in Nat : w = v + 1 /\ v = w - 1
    BY <1>13
  <2>2. PICK x \in Seq(Op) : x = q \o r /\ Timed(x, 0, v)
    BY <1>11, <1>13
  <2>3. [version |-> w, plan |-> x] \in Database
    BY <2>1, <2>2, DatabaseOf
  <2> QED BY <2>1, <2>2, <2>3
<1> QED BY <1>12, <1>14

(* Data sizes that grow. *)
Growing == {s \in Seq(Nat) : \A i \in 1..Len(s) : s[i] > (IF i = 1 THEN 0 ELSE s[i - 1])}

LEMMA ScaleIsTimed ==
  ASSUME Fill \in Value, NEW sizes \in Growing, NEW batch \in Nat \ {0},
         NEW written \in [1..Len(sizes) -> Named], NEW read \in [1..Len(sizes) -> Seq(Keys)]
  PROVE  \E hi \in Int : hi >= -1 /\ Timed(B!ScaleBenchmark(sizes, batch, written, read), 0, hi)
<1> DEFINE n == Len(sizes)
           ord == B!InOrder(sizes)
           old(i) == IF i = 1 THEN 0 ELSE sizes[i - 1]
           Scaled(db, i) ==
             B!TestBatchRead(B!TestBatchWrite(
               B!WriteBaseData(db, old(i) + 1, sizes[i] - old(i), batch), written[i]), read[i])
<1>1. PICK base : base = [version |-> 0, plan |-> <<>>]
  OBVIOUS
<1>2. base \in Database
  <2>1. PICK e \in Seq(Op) : e = <<>>
    BY NoOps
  <2>2. Timed(e, 0, 0 - 1)
    <3>1. 0 \in Nat
      OBVIOUS
    <3> QED BY <2>1, <3>1, NotTimedYet
  <2> QED BY <1>1, <2>1, <2>2 DEF Database
<1>3. n \in Nat /\ DOMAIN sizes = 1..n /\ \A i \in 1..n : ord[i] = i
  BY DEF Growing, B!InOrder
<1>4. ASSUME NEW db \in Database, NEW i \in 1..n PROVE Scaled(db, i) \in Database
  <2>1. sizes[i] \in Nat /\ sizes[i] > old(i) /\ old(i) \in Nat
    <3>1. i # 1 => i - 1 \in 1..n
      BY <1>3
    <3> QED BY <1>3, <3>1 DEF Growing
  <2>2. old(i) + 1 \in Int /\ sizes[i] - old(i) \in Nat
    BY <2>1
  <2>3. written[i] \in Named /\ read[i] \in Seq(Keys)
    OBVIOUS
  <2> HIDE DEF old
  <2> QED BY <2>2, <2>3, BaseData, BatchTested
<1> HIDE DEF Scaled, ord
<1> DEFINE A == [x \in Database \X (1..n) |-> Scaled(x[1], ord[x[2]])]
<1>5. A \in [Database \X (1..n) -> Database]
  BY <1>3, <1>4
<1>6. PICK F : /\ Folds(F, base, A, n)
               /\ \A s \in SUBSET (1..n) : F[s] \in Database
               /\ \A s \in SUBSET (1..n) : s # {} => B!Max(s) \in 1..n
  <2> HIDE DEF A
  <2> QED BY <1>2, <1>3, <1>5, FoldWithin
<1> DEFINE Right(G) == G = [s \in SUBSET (1..n) |->
                             IF s = {} THEN base
                             ELSE Scaled(G[s \ {B!Max(s)}], ord[B!Max(s)])]
<1>7. Right(F)
  <2>1. \A s \in SUBSET (1..n) : s \ {B!Max(s)} \in SUBSET (1..n)
    OBVIOUS
  <2>2. ASSUME NEW s \in SUBSET (1..n), s # {}
        PROVE  A[<<F[s \ {B!Max(s)}], B!Max(s)>>] = Scaled(F[s \ {B!Max(s)}], ord[B!Max(s)])
    BY <1>6, <2>1, <2>2
  <2> HIDE DEF A
  <2> QED BY <1>6, <2>2 DEF Folds
<1>8. PICK R : R = (CHOOSE G : Right(G)) /\ Right(R)
  <2> HIDE DEF Right
  <2> QED BY <1>7
<1>9. \A s \in SUBSET (1..n) : R[s] \in Database
  <2> DEFINE P == (SUBSET (1..n)) \X Database
  <2>1. <<{}, R[{}]>> \in P
    <3>1. R[{}] = base
      BY <1>8
    <3> QED BY <1>2, <3>1
  <2>2. ASSUME NEW s \in SUBSET (1..n), s # {}, <<s \ {B!Max(s)}, R[s \ {B!Max(s)}]>> \in P
        PROVE  <<s, R[s]>> \in P
    <3>1. PICK x : x = s \ {B!Max(s)}
      OBVIOUS
    <3>2. R[x] \in Database /\ B!Max(s) \in 1..n /\ ord[B!Max(s)] \in 1..n
      BY <1>3, <1>6, <2>2, <3>1
    <3>3. R[s] = Scaled(R[x], ord[B!Max(s)])
      BY <1>8, <2>2, <3>1
    <3> QED BY <1>4, <3>2, <3>3
  <2> HIDE DEF P
  <2>3. \A s \in SUBSET (1..n) : <<s, R[s]>> \in P
    BY <1>3, <2>1, <2>2, FoldStays
  <2> QED BY <2>3 DEF P
<1>10. B!ScaleBenchmark(sizes, batch, written, read) = R[1..n].plan
  <2>1. DOMAIN ord = 1..n
    BY <1>3 DEF ord, B!InOrder
  <2> QED BY <1>1, <1>8, <2>1 DEF B!ScaleBenchmark, B!FoldLeft, B!MapThenFoldSet, Scaled, ord
<1>11. R[1..n] \in Database
  BY <1>9
<1> QED BY <1>10, <1>11 DEF Database

-----------------------------------------------------------------------------
(* The KVBuffer of ycsb_simple.  A version that is noted is put to by noted *)
(* puts only, and a noted get is at the last version committed before it,   *)
(* or at one that never is committed.                                       *)
NotedPut(p, i) == i \in Writes(p) /\ p[i].op = "put" /\ p[i].noted
NotedAlone(p, v) == \A j \in Writes(p) : p[j].version = v => NotedPut(p, j)
NotesNewest(p, g) ==
  /\ \E c \in Commits(p) : c < g /\ Effective(p, c) /\ p[c].version = p[g].version
  /\ \A d \in Commits(p) : d < g /\ Effective(p, d) => p[d].version <= p[g].version
Noting(p) ==
  /\ Ordered(p) /\ Lawful(p)
  /\ \A i \in Writes(p) : NotedPut(p, i) => NotedAlone(p, p[i].version)
  /\ \A g \in Gets(p) : p[g].noted /\ Reached(p, p[g].version) => NotesNewest(p, g)

(* What is noted of a version that some commit reaches is in its map, or in *)
(* the batch that becomes its map.                                          *)
Kept(v, k) == v \in Committed /\ buffer[v][k] = snapshots[v][k]
ToCome(v, k) ==
  /\ v \notin Committed /\ v = current_version
  /\ buffer[v][k] = put_cache[k] /\ NotedAlone(plan, v)
NotesFollow ==
  \A v \in Versions, k \in UserKey :
    Reached(plan, v) /\ buffer[v][k] # None => Kept(v, k) \/ ToCome(v, k)

LEMMA NotesWrite ==
  ASSUME WorkTypes, Follows, Noting(plan), NotesFollow, NEW x, WriteStep(x),
         buffer' = IF NotedPut(plan, at) THEN BufferPut(plan[at].version, plan[at].key, x)
                   ELSE buffer
  PROVE  NotesFollow'
<1> DEFINE n == at
           w == plan[n].version
           a == plan[n].key
<1>1. /\ plan \in Seq(Call) /\ n \in Writes(plan) /\ n \in Nat /\ n \in DOMAIN plan
      /\ w \in Versions /\ a \in UserKey /\ n \notin Commits(plan)
  BY PlanTypes, Positions DEF WorkTypes, WriteStep, Writes
<1>2. /\ current_version' = w /\ snapshots' = snapshots /\ plan' = plan
      /\ put_cache' = [put_cache EXCEPT ![a] = x]
  BY DEF WriteStep
<1>3. /\ \A c \in Commits(plan) : c \in Nat /\ plan[c].version \in Nat
      /\ w \in Nat /\ current_version \in Nat
  BY <1>1, Positions, TrieAssumption DEF WorkTypes, TrieTypes, Versions
<1>4. w \notin Committed
  <2> SUFFICES ASSUME w \in Committed PROVE FALSE
    OBVIOUS
  <2>1. PICK c \in Commits(plan) : c < n /\ Effective(plan, c) /\ plan[c].version = w
    BY <1>1 DEF Follows
  <2>2. plan[c].version < w
    BY <1>1, <2>1 DEF Noting, Lawful, Numbered
  <2> QED BY <1>3, <2>1, <2>2
<1>5. ASSUME NEW v \in Versions, NEW k \in UserKey, Reached(plan, v), buffer'[v][k] # None
      PROVE  Kept(v, k)' \/ ToCome(v, k)'
  <2>1. CASE NotedPut(plan, n) /\ v = w /\ k = a
    <3>1. buffer'[v][k] = x
      BY <1>1, <2>1 DEF WorkTypes, ResultTypes, BufferPut
    <3>2. put_cache'[k] = x
      BY <1>1, <1>2, <2>1 DEF WorkTypes, TrieTypes
    <3>3. NotedAlone(plan, v)
      BY <1>1, <2>1 DEF Noting
    <3> QED BY <1>2, <1>4, <2>1, <3>1, <3>2, <3>3 DEF ToCome, Committed
  <2>2. CASE ~(NotedPut(plan, n) /\ v = w /\ k = a)
    <3>1. buffer'[v][k] = buffer[v][k]
      BY <1>1, <2>2 DEF WorkTypes, ResultTypes, BufferPut
    <3>2. CASE Kept(v, k)
      BY <1>2, <3>1, <3>2 DEF Kept, Committed
    <3>3. CASE ToCome(v, k)
      <4>1. PICK c \in Commits(plan) : Effective(plan, c) /\ plan[c].version = v
        BY <1>5 DEF Reached
      <4>2. ~(c < n)
        BY <3>3, <4>1 DEF Follows, ToCome
      <4>3. n < c
        BY <1>1, <1>3, <4>1, <4>2
      <4>4. w <= v
        BY <1>1, <4>1, <4>3 DEF Noting, Lawful, Numbered
      <4>5. v = current_version /\ ~Refuses(w)
        BY <1>1, <3>3, NotRefused DEF ToCome, Noting
      <4>6. w = v
        BY <1>3, <4>4, <4>5 DEF Refuses
      <4>7. NotedPut(plan, n)
        BY <1>1, <3>3, <4>6 DEF ToCome, NotedAlone
      <4>8. put_cache'[k] = put_cache[k]
        BY <1>1, <1>2, <2>2, <4>6, <4>7 DEF WorkTypes, TrieTypes
      <4> QED BY <1>2, <3>1, <3>3, <4>6, <4>8 DEF ToCome, Committed
    <3> QED BY <1>5, <3>1, <3>2, <3>3 DEF NotesFollow
  <2> QED BY <2>1, <2>2
<1> QED BY <1>2, <1>5 DEF NotesFollow

LEMMA NotesCommit ==
  ASSUME WorkTypes, Follows, Noting(plan), NotesFollow, CommitStep
  PROVE  NotesFollow'
<1> DEFINE w == plan[at].version
<1>1. plan \in Seq(Call) /\ w \in Versions /\ UNCHANGED <<plan, buffer>> /\ TrieCommit(w)
  BY PlanTypes, Positions DEF WorkTypes, CommitStep
<1>2. CASE put_cache = EmptyPutCache
  BY <1>1, <1>2 DEF TrieCommit, trie, NotesFollow, Kept, ToCome, Committed
<1>3. CASE put_cache # EmptyPutCache
  <2>1. (\A u \in Committed : u < w) /\ w = current_version
    BY <1>3, LawfulCommit DEF Noting
  <2>2. /\ snapshots'[w] = Over(Newest, put_cache)
        /\ \A u \in Versions : u # w => snapshots'[u] = snapshots[u]
    BY <1>1, <1>3, <2>1, NewestAfter
  <2>3. Over(Newest, put_cache) # None
    <3>1. Over(Newest, put_cache) \in Maps
      BY NewestIsTyped, OverIsMap DEF WorkTypes, TrieTypes
    <3> QED BY <3>1, TrieAssumption DEF Maps
  <2>4. ASSUME NEW v \in Versions, NEW k \in UserKey, Reached(plan, v), buffer[v][k] # None
        PROVE  v \in Committed' /\ buffer[v][k] = snapshots'[v][k]
    <3>1. CASE Kept(v, k)
      <4>1. v # w
        BY <2>1, <3>1, TrieAssumption DEF Kept, Versions
      <4> QED BY <2>2, <3>1, <4>1 DEF Kept, Committed
    <3>2. CASE ToCome(v, k)
      <4>1. v = w /\ put_cache[k] = buffer[v][k]
        BY <2>1, <3>2 DEF ToCome
      <4>2. Over(Newest, put_cache)[k] = put_cache[k]
        BY <2>4, <4>1 DEF Over
      <4> QED BY <2>2, <2>3, <4>1, <4>2 DEF Committed
    <3> QED BY <2>4, <3>1, <3>2 DEF NotesFollow
  <2> QED BY <1>1, <2>4 DEF NotesFollow, Kept
<1> QED BY <1>2, <1>3

LEMMA NotesRead ==
  ASSUME WorkTypes, Follows, Keeps, Noting(plan), NotesFollow, Answered
  PROVE  NotesFollow'
<1> DEFINE n == at
           w == plan[n].version
           a == plan[n].key
<1>1. /\ plan \in Seq(Call) /\ n \in Gets(plan) /\ n \in Nat /\ w \in Versions /\ a \in UserKey
      /\ UNCHANGED <<plan, current_version, put_cache, snapshots, horizon>>
  <2>1. n \in Gets(plan) \/ DoScan
    BY PlanReads
  <2>2. reply # None
    BY DEF Answered
  <2>3. n \in Gets(plan)
    BY <2>1, <2>2 DEF DoScan, Doing
  <2> QED BY <2>3, PlanTypes, Positions DEF WorkTypes, Answered, trie, run
<1>2. /\ reply.version = w /\ reply.key = a /\ reply # None
      /\ buffer' = IF plan[n].noted THEN BufferPut(w, a, reply.value) ELSE buffer
  BY DEF Answered, Note, Operation, WorkTypes, Replied
<1>3. ASSUME plan[n].noted, Reached(plan, w)
      PROVE  w \in Committed /\ reply.value = snapshots[w][a]
  <2>1. NotesNewest(plan, n)
    BY <1>1, <1>3 DEF Noting
  <2>2. w \in Committed
    BY <1>1, <2>1 DEF Follows, NotesNewest
  <2>3. horizon <= w
    <3>1. w \in Nat
      BY <1>1, TrieAssumption DEF Versions
    <3> QED BY <2>1, <3>1 DEF Keeps, HorizonFollows, NotesNewest
  <2>4. reply.version >= horizon
    BY <1>1, <1>2, <2>3, TrieAssumption DEF WorkTypes, TrieTypes, Versions
  <2> QED BY <1>2, <2>2, <2>4 DEF Keeps, ReplyExact, Committed
<1>4. ASSUME NEW v \in Versions, NEW k \in UserKey, Reached(plan, v), buffer'[v][k] # None
      PROVE  Kept(v, k)' \/ ToCome(v, k)'
  <2>1. CASE plan[n].noted /\ v = w /\ k = a
    <3>1. buffer'[v][k] = reply.value
      BY <1>1, <1>2, <2>1 DEF WorkTypes, ResultTypes, BufferPut
    <3> QED BY <1>1, <1>3, <1>4, <2>1, <3>1 DEF Kept, Committed
  <2>2. CASE ~(plan[n].noted /\ v = w /\ k = a)
    <3>1. buffer'[v][k] = buffer[v][k]
      BY <1>1, <1>2, <2>2 DEF WorkTypes, ResultTypes, BufferPut
    <3> QED BY <1>1, <1>4, <3>1 DEF NotesFollow, Kept, ToCome, Committed
  <2> QED BY <2>1, <2>2
<1> QED BY <1>1, <1>4 DEF NotesFollow

LEMMA NotesStay ==
  ASSUME NotesFollow, UNCHANGED <<plan, buffer, current_version, put_cache, snapshots>>
  PROVE  NotesFollow'
BY DEF NotesFollow, Kept, ToCome, Committed

(* Also when the program was aborted. *)
CommitsReached == \A v \in Committed : Reached(plan, v)
LEMMA FollowsReaches ==
  ASSUME Follows
  PROVE  CommitsReached
BY DEF Follows, CommitsReached, Committed, Reached

NoteInv == KeepInv /\ (Noting(plan) => NotesFollow /\ CommitsReached)

LEMMA NoteSteps ==
  ASSUME NoteInv, BalancesAreNumbers, [WorkloadNext]_workloadVars
  PROVE  NoteInv'
<1>1. KeepInv' /\ plan' = plan
  BY KeepSteps, PlanStays DEF NoteInv
<1>2. ASSUME Noting(plan) PROVE NotesFollow'
  <2>1. CASE UNCHANGED workloadVars
    BY <1>2, <2>1, NotesStay DEF NoteInv, workloadVars, trie, run, results
  <2>2. CASE WorkloadNext
    <3>1. WorkTypes /\ AbortedEnds /\ Ordered(plan) /\ Lawful(plan) /\ NotesFollow
      BY <1>2 DEF NoteInv, KeepInv, FollowInv, Noting
    <3>2. ~aborted
      BY <2>2, <3>1, AbortedStays
    <3>3. Follows /\ Keeps
      BY <3>1, <3>2 DEF NoteInv, KeepInv, FollowInv
    <3>4. CASE DoPut \/ DoDelete \/ DoSettle
      <4>1. PICK x : WriteStep(x)
        BY <3>1, <3>3, <3>4, PlanWrites
      <4>2. at \in Writes(plan) /\ Operation = plan[at]
        BY <4>1 DEF WriteStep, Operation
      <4>3. buffer' = IF NotedPut(plan, at)
                        THEN BufferPut(plan[at].version, plan[at].key, x) ELSE buffer
        <5>1. CASE DoPut
          <6>1. plan[at].op = "put"
            BY <4>2, <5>1 DEF DoPut, Doing
          <6>2. plan[at].value \in Value /\ plan[at].value # Carried /\ x = plan[at].value
            BY <3>1, <4>1, <4>2, <6>1, WorkloadAssumption DEF Ordered, WriteStep, Put2
          <6>3. Note(plan[at].value)
            BY <4>2, <5>1, <6>2 DEF DoPut
          <6> QED BY <4>2, <6>1, <6>2, <6>3 DEF Note, NotedPut
        <5>2. CASE DoDelete \/ DoSettle
          BY <4>2, <5>2 DEF DoDelete, DoSettle, Doing, NotedPut, results
        <5> QED BY <3>4, <5>1, <5>2
      <4> QED BY <1>2, <3>1, <3>3, <4>1, <4>3, NotesWrite
    <3>5. CASE DoCommit
      BY <1>2, <3>1, <3>3, <3>5, PlanCommits, NotesCommit
    <3>6. CASE Answered
      BY <1>2, <3>1, <3>3, <3>6, NotesRead
    <3>7. CASE DoGet \/ DoScan \/ Abort
      BY <3>1, <3>7, NotesStay DEF DoGet, DoScan, Abort, trie, run, results
    <3> QED BY <2>2, <3>4, <3>5, <3>6, <3>7 DEF WorkloadNext
  <2> QED BY <2>1, <2>2
<1>3. ASSUME Noting(plan) PROVE CommitsReached'
  <2>1. Ordered(plan)' /\ WorkTypes /\ AbortedEnds
    BY <1>1, <1>3 DEF Noting, NoteInv, KeepInv, FollowInv
  <2>2. CASE ~aborted'
    <3>1. Follows'
      BY <1>1, <2>1, <2>2 DEF KeepInv, FollowInv
    <3> QED BY <3>1, FollowsReaches, PTL
  <2>3. CASE aborted'
    <3>1. snapshots' = snapshots
      <4>1. CASE UNCHANGED workloadVars
        BY <4>1 DEF workloadVars, trie
      <4>2. CASE WorkloadNext
        <5>1. ~aborted
          BY <2>1, <4>2, AbortedStays
        <5>2. Abort
          BY <2>3, <4>2, <5>1 DEF WorkloadNext, DoPut, DoDelete, DoCommit, DoGet, Answered, DoScan,
             DoSettle, run, results
        <5> QED BY <5>2 DEF Abort, trie
      <4> QED BY <4>1, <4>2
    <3> QED BY <1>1, <1>3, <3>1 DEF NoteInv, CommitsReached, Committed
  <2> QED BY <2>2, <2>3
<1>4. Noting(plan)' <=> Noting(plan)
  BY <1>1
<1> QED BY <1>1, <1>2, <1>3, <1>4 DEF NoteInv

(* What ycsb_simple noted is what its versions hold.                        *)
LEMMA BufferExactHolds ==
  ASSUME BalancesAreNumbers,
         \A name \in DOMAIN Programs : \A p \in Programs[name] :
           name = "ycsb_simple" => Noting(p)
  PROVE  WorkloadSpec => []BufferExact
<1>1. WorkloadInit => NoteInv
  <2> SUFFICES ASSUME WorkloadInit PROVE NoteInv
    OBVIOUS
  <2>1. KeepInv
    BY WorkInitTypes, FollowsInit, KeepsInit DEF KeepInv, FollowInv, AbortedEnds, WorkloadInit
  <2>2. NotesFollow
    BY DEF NotesFollow, WorkloadInit, Buffered
  <2>3. CommitsReached
    BY DEF WorkloadInit, TrieInit, CommitsReached, Committed
  <2> QED BY <2>1, <2>2, <2>3 DEF NoteInv
<1>2. NoteInv /\ [WorkloadNext]_workloadVars => NoteInv'
  BY NoteSteps
<1>3. NoteInv => BufferExact
  <2> SUFFICES ASSUME NoteInv, program = "ycsb_simple", NEW v \in Committed, NEW k \in UserKey
               PROVE  buffer[v][k] \in {None, snapshots[v][k]}
    BY DEF BufferExact
  <2>1. /\ program \in DOMAIN Programs /\ plan \in Programs[program] /\ NotesFollow
        /\ CommitsReached /\ v \in Versions
    BY DEF NoteInv, KeepInv, FollowInv, WorkTypes, Runs, Committed
  <2>2. Reached(plan, v)
    BY <2>1 DEF CommitsReached
  <2> QED BY <2>1, <2>2 DEF NotesFollow, Kept, ToCome
<1> QED BY <1>1, <1>2, <1>3, PTL DEF WorkloadSpec

-----------------------------------------------------------------------------
(* Plans that grow operation by operation.                                  *)
Added(p, o, ops) == IF o.op \in ops THEN {Len(p) + 1} ELSE {}
Grown(q, p, o) ==
  /\ q \in Seq(Op) /\ Len(q) = Len(p) + 1 /\ q[Len(p) + 1] = o
  /\ \A i \in 1..Len(p) : q[i] = p[i]
  /\ Writes(q) = Writes(p) \cup Added(p, o, {"put", "delete", "settle"})
  /\ Commits(q) = Commits(p) \cup Added(p, o, {"commit"})
  /\ Gets(q) = Gets(p) \cup Added(p, o, {"get"})
  /\ \A i : \A n \in 1..(Len(p) + 1) : Gathered(q, i, n) <=> Gathered(p, i, n)
  /\ \A c \in 1..Len(p) : Effective(q, c) <=> Effective(p, c)

LEMMA Grows ==
  ASSUME NEW p \in Seq(Op), NEW o \in Op
  PROVE  Grown(Append(p, o), p, o)
<1> DEFINE n == Len(p)
<1>1. PICK b : b = <<o>> /\ b \in Seq(Op) /\ Len(b) = 1 /\ b[1] = o
  <2>1. <<o>> \in Seq(Op) /\ Len(<<o>>) = 1 /\ <<o>>[1] = o
    OBVIOUS
  <2> QED BY <2>1
<1>2. PICK q : q = Append(p, o) /\ q = p \o b
  <2>1. PICK q : q = Append(p, o)
    OBVIOUS
  <2>2. PICK r : r = p \o b
    OBVIOUS
  <2>3. q \in Seq(Op) /\ r \in Seq(Op) /\ n \in Nat /\ Len(q) = n + 1 /\ Len(r) = n + 1
    BY <1>1, <2>1, <2>2
  <2>4. ASSUME NEW i \in 1..(n + 1) PROVE q[i] = r[i]
    <3>1. CASE i = n + 1
      <4>1. q[n + 1] = o /\ r[n + 1] = b[1]
        BY <1>1, <2>1, <2>2
      <4> QED BY <1>1, <3>1, <4>1
    <3>2. CASE i \in 1..n
      BY <1>1, <2>1, <2>2, <3>2
    <3> QED BY <2>3, <3>1, <3>2
  <2>5. q = r
    BY <2>3, <2>4
  <2> QED BY <2>1, <2>2, <2>5
<1>3. /\ Writes(b) = IF o.op \in {"put", "delete", "settle"} THEN {1} ELSE {}
      /\ Commits(b) = IF o.op = "commit" THEN {1} ELSE {}
      /\ Gets(b) = IF o.op = "get" THEN {1} ELSE {}
  BY <1>1, OneOp
<1>4. q \in Seq(Op) /\ Joined(q, p, b)
  BY <1>1, <1>2, Joins
<1>5. /\ \A i : \A m \in 1..(n + 1) : Gathered(q, i, m) <=> Gathered(p, i, m)
      /\ \A c \in 1..n : Effective(q, c) <=> Effective(p, c)
  BY <1>1, <1>4, Before
<1>6. /\ n \in Nat /\ Len(q) = n + 1 /\ q[n + 1] = o
      /\ Writes(p) \subseteq 1..n /\ Commits(p) \subseteq 1..n /\ Gets(p) \subseteq 1..n
      /\ Writes(q) \subseteq 1..(n + 1) /\ Commits(q) \subseteq 1..(n + 1)
      /\ Gets(q) \subseteq 1..(n + 1)
  BY <1>1, <1>4, Places DEF Joined
<1>7. /\ \A i \in 1..n : /\ i \in Writes(q) <=> i \in Writes(p)
                         /\ i \in Commits(q) <=> i \in Commits(p)
                         /\ i \in Gets(q) <=> i \in Gets(p)
      /\ n + 1 \in Writes(q) <=> o.op \in {"put", "delete", "settle"}
      /\ n + 1 \in Commits(q) <=> o.op = "commit"
      /\ n + 1 \in Gets(q) <=> o.op = "get"
      /\ \A i \in 1..n : q[i] = p[i]
      /\ \A i \in 1..(n + 1) : i \in 1..n \/ i = n + 1
  BY <1>1, <1>3, <1>4, <1>6 DEF Joined
<1>8. /\ Writes(q) = Writes(p) \cup Added(p, o, {"put", "delete", "settle"})
      /\ Commits(q) = Commits(p) \cup Added(p, o, {"commit"})
      /\ Gets(q) = Gets(p) \cup Added(p, o, {"get"})
  BY <1>6, <1>7 DEF Added
<1> QED BY <1>2, <1>4, <1>5, <1>6, <1>7, <1>8 DEF Grown

(* Puts under versions up to v, commits under versions up to hi; some of    *)
(* the puts may still be gathered.                                          *)
Going(p, hi, v) ==
  /\ p \in Seq(Op) /\ Ordered(p) /\ Lawful(p)
  /\ \A i \in Writes(p) : p[i].version <= v
  /\ \A c \in Commits(p) : Effective(p, c) => p[c].version <= hi
HasPut(p, v) == \E i \in Writes(p) : Gathered(p, i, Len(p) + 1) /\ p[i].version = v

LEMMA GoingMore ==
  ASSUME NEW p, NEW hi \in Int, NEW v \in Int, NEW h \in Int, NEW u \in Int,
         Going(p, hi, v), hi <= h, v <= u
  PROVE  Going(p, h, u)
<1>1. p \in Seq(Op)
  BY DEF Going
<1>2. \A i \in Writes(p) \cup Commits(p) : p[i].version \in Nat
  BY <1>1, Places
<1> QED BY <1>2 DEF Going

LEMMA GoingPut ==
  ASSUME NEW p, NEW hi \in Int, NEW v \in Int, Going(p, hi, v),
         NEW o \in Op, o.op = "put", o.value \in Value, o.version >= 1,
         v <= o.version, hi < o.version, NEW q, Grown(q, p, o)
  PROVE  Going(q, hi, o.version) /\ HasPut(q, o.version)
<1> DEFINE n == Len(p)
<1>1. p \in Seq(Op) /\ q \in Seq(Op) /\ n \in Nat /\ Len(q) = n + 1 /\ q[n + 1] = o
  BY DEF Going, Grown
<1>2. /\ Writes(p) \subseteq 1..n /\ Commits(p) \subseteq 1..n
      /\ \A i \in Writes(p) \cup Commits(p) : p[i].version \in Nat /\ i \in Nat
  BY <1>1, Places
<1>3. /\ Writes(q) = Writes(p) \cup {n + 1} /\ Commits(q) = Commits(p)
      /\ \A i \in 1..n : q[i] = p[i]
      /\ \A i : \A c \in Commits(p) : Gathered(q, i, c) <=> Gathered(p, i, c)
      /\ \A c \in Commits(p) : Effective(q, c) <=> Effective(p, c)
      /\ \A i \in Writes(p) \cup Commits(p) : q[i] = p[i] /\ i < n + 1
  BY <1>1, <1>2 DEF Grown, Added
<1>4. o.version \in Nat
  BY <1>1, Places
<1>5. Ordered(q)
  <2>1. \A i \in Writes(q) : q[i].op = "put" => q[i].value \in Value
    BY <1>1, <1>3 DEF Going, Ordered
  <2>2. ASSUME NEW i \in Writes(q), NEW j \in Writes(q), i < j
        PROVE  q[i].version <= q[j].version
    <3>1. CASE j = n + 1
      <4>1. i \in Writes(p)
        BY <1>2, <1>3, <2>2, <3>1
      <4>2. p[i].version <= v /\ p[i].version \in Nat /\ q[i] = p[i]
        BY <1>2, <1>3, <4>1 DEF Going
      <4> QED BY <1>1, <1>4, <3>1, <4>2
    <3>2. CASE j \in Writes(p)
      <4>1. i \in Writes(p)
        BY <1>2, <1>3, <2>2, <3>2
      <4> QED BY <1>3, <2>2, <3>2, <4>1 DEF Going, Ordered
    <3> QED BY <1>3, <3>1, <3>2
  <2> QED BY <2>1, <2>2 DEF Ordered
<1>6. Lawful(q)
  <2>1. \A i \in Writes(q) : q[i].version >= 1
    BY <1>1, <1>3 DEF Going, Lawful
  <2>2. ASSUME NEW c \in Commits(q), Effective(q, c)
        PROVE  /\ \A i \in Writes(q) : i < c => q[i].version <= q[c].version
               /\ \E i \in Writes(q) : Gathered(q, i, c) /\ q[i].version = q[c].version
               /\ \A i \in Writes(q) : c < i => q[c].version < q[i].version
    <3>1. c \in Commits(p) /\ Effective(p, c) /\ q[c] = p[c] /\ c < n + 1 /\ c \in Nat
      BY <1>2, <1>3, <2>2
    <3>2. /\ \A i \in Writes(p) : i < c => p[i].version <= p[c].version
          /\ \E i \in Writes(p) : Gathered(p, i, c) /\ p[i].version = p[c].version
          /\ \A i \in Writes(p) : c < i => p[c].version < p[i].version
      BY <3>1 DEF Going, Lawful, Numbered
    <3>3. p[c].version < o.version
      BY <1>2, <1>4, <3>1 DEF Going
    <3>4. \A i \in Writes(q) : i < c => i \in Writes(p)
      BY <1>1, <1>3, <3>1
    <3>5. \A i \in Writes(q) : i < c => q[i].version <= q[c].version
      BY <1>3, <3>1, <3>2, <3>4
    <3>6. \E i \in Writes(q) : Gathered(q, i, c) /\ q[i].version = q[c].version
      BY <1>3, <3>1, <3>2
    <3>7. \A i \in Writes(q) : c < i => q[c].version < q[i].version
      BY <1>1, <1>3, <3>1, <3>2, <3>3
    <3> QED BY <3>5, <3>6, <3>7
  <2> QED BY <2>1, <2>2 DEF Lawful, Numbered
<1>7. \A i \in Writes(q) : q[i].version <= o.version
  <2>1. \A i \in Writes(p) : p[i].version <= v /\ p[i].version \in Nat
    BY <1>2 DEF Going
  <2> QED BY <1>1, <1>3, <1>4, <2>1
<1>8. \A c \in Commits(q) : Effective(q, c) => q[c].version <= hi
  BY <1>3 DEF Going
<1>9. HasPut(q, o.version)
  <2>1. n + 1 \in Writes(q) /\ Len(q) + 1 = n + 2 /\ n + 1 < n + 2
    BY <1>1, <1>3
  <2>2. \A c \in Commits(q) : ~(n + 1 < c)
    BY <1>2, <1>3
  <2> QED BY <1>1, <2>1, <2>2 DEF HasPut, Gathered
<1> QED BY <1>1, <1>5, <1>6, <1>7, <1>8, <1>9 DEF Going

LEMMA GoingQuiet ==
  ASSUME NEW p, NEW hi \in Int, NEW v \in Int, Going(p, hi, v),
         NEW o \in Op, o.op \in {"get", "scan"}, NEW q, Grown(q, p, o)
  PROVE  Going(q, hi, v) /\ \A u : HasPut(p, u) => HasPut(q, u)
<1> DEFINE n == Len(p)
<1>1. p \in Seq(Op) /\ q \in Seq(Op) /\ n \in Nat /\ Len(q) = n + 1
  BY DEF Going, Grown
<1>2. /\ Writes(p) \subseteq 1..n /\ Commits(p) \subseteq 1..n
      /\ \A i \in Writes(p) \cup Commits(p) : i \in Nat
  BY <1>1, Places
<1>3. /\ Writes(q) = Writes(p) /\ Commits(q) = Commits(p)
      /\ \A i : \A c \in Commits(p) : Gathered(q, i, c) <=> Gathered(p, i, c)
      /\ \A c \in Commits(p) : Effective(q, c) <=> Effective(p, c)
      /\ \A i \in Writes(p) \cup Commits(p) : q[i] = p[i]
  BY <1>1, <1>2 DEF Grown, Added
<1>4. Ordered(q) /\ Lawful(q)
  BY <1>3 DEF Going, Ordered, Lawful, Numbered
<1>5. ASSUME NEW u, HasPut(p, u) PROVE HasPut(q, u)
  <2>1. PICK i \in Writes(p) : Gathered(p, i, n + 1) /\ p[i].version = u
    BY <1>5 DEF HasPut
  <2>2. i < n + 2 /\ Len(q) + 1 = n + 2 /\ \A c \in Commits(p) : ~(i < c)
    BY <1>1, <1>2, <2>1 DEF Gathered
  <2>3. Gathered(q, i, n + 2)
    BY <1>3, <2>1, <2>2 DEF Gathered
  <2> QED BY <1>3, <2>1, <2>2, <2>3 DEF HasPut
<1> QED BY <1>1, <1>3, <1>4, <1>5 DEF Going

LEMMA GoingCommit ==
  ASSUME NEW p, NEW hi \in Int, NEW v \in Int, Going(p, hi, v), hi <= v, HasPut(p, v),
         NEW o \in Op, o.op = "commit", o.version = v, NEW q, Grown(q, p, o)
  PROVE  Going(q, v, v)
<1> DEFINE n == Len(p)
<1>1. p \in Seq(Op) /\ q \in Seq(Op) /\ n \in Nat /\ Len(q) = n + 1 /\ q[n + 1] = o
  BY DEF Going, Grown
<1>2. /\ Writes(p) \subseteq 1..n /\ Commits(p) \subseteq 1..n
      /\ \A i \in Writes(p) \cup Commits(p) : p[i].version \in Nat /\ i \in Nat
  BY <1>1, Places
<1>3. /\ Writes(q) = Writes(p) /\ Commits(q) = Commits(p) \cup {n + 1}
      /\ \A i : \A c \in Commits(p) \cup {n + 1} : Gathered(q, i, c) <=> Gathered(p, i, c)
      /\ \A c \in Commits(p) : Effective(q, c) <=> Effective(p, c)
      /\ \A i \in Writes(p) \cup Commits(p) : q[i] = p[i] /\ i < n + 1
  BY <1>1, <1>2 DEF Grown, Added
<1>4. Ordered(q)
  BY <1>3 DEF Going, Ordered
<1>5. Lawful(q)
  <2>1. \A i \in Writes(q) : q[i].version >= 1
    BY <1>3 DEF Going, Lawful
  <2>2. ASSUME NEW c \in Commits(q), Effective(q, c)
        PROVE  /\ \A i \in Writes(q) : i < c => q[i].version <= q[c].version
               /\ \E i \in Writes(q) : Gathered(q, i, c) /\ q[i].version = q[c].version
               /\ \A i \in Writes(q) : c < i => q[c].version < q[i].version
    <3>1. CASE c \in Commits(p)
      <4>1. Effective(p, c)
        BY <1>3, <2>2, <3>1
      <4>2. /\ \A i \in Writes(p) : i < c => p[i].version <= p[c].version
            /\ \E i \in Writes(p) : Gathered(p, i, c) /\ p[i].version = p[c].version
            /\ \A i \in Writes(p) : c < i => p[c].version < p[i].version
        BY <3>1, <4>1 DEF Going, Lawful, Numbered
      <4> QED BY <1>3, <3>1, <4>2
    <3>2. CASE c = n + 1
      <4>1. PICK i \in Writes(p) : Gathered(p, i, n + 1) /\ p[i].version = v
        BY DEF HasPut
      <4>2. \A j \in Writes(q) : q[j].version <= v /\ ~(n + 1 < j)
        BY <1>1, <1>2, <1>3 DEF Going
      <4> QED BY <1>1, <1>3, <3>2, <4>1, <4>2
    <3> QED BY <1>3, <3>1, <3>2
  <2> QED BY <2>1, <2>2 DEF Lawful, Numbered
<1>6. \A i \in Writes(q) : q[i].version <= v
  BY <1>3 DEF Going
<1>7. ASSUME NEW c \in Commits(q), Effective(q, c) PROVE q[c].version <= v
  <2>1. CASE c \in Commits(p)
    <3>1. p[c].version <= hi /\ p[c].version \in Nat /\ q[c] = p[c]
      BY <1>2, <1>3, <1>7, <2>1 DEF Going
    <3> QED BY <3>1
  <2>2. CASE c = n + 1
    BY <1>1, <2>2
  <2> QED BY <1>3, <2>1, <2>2
<1> QED BY <1>1, <1>4, <1>5, <1>6, <1>7 DEF Going

-----------------------------------------------------------------------------
(* Records are loaded under version v, those before it were committed; no   *)
(* put is noted yet.                                                        *)
Loads(p, v) ==
  /\ v >= 1 /\ Going(p, v - 1, v)
  /\ Gets(p) = {} /\ \A i \in Writes(p) : ~NotedPut(p, i)

LEMMA LoadPut ==
  ASSUME NEW v \in Nat, NEW p, Loads(p, v), Fill \in Value, NEW k \in Keys
  PROVE  LET q == Append(p, B!Put(v, k, Fill)) IN Loads(q, v) /\ HasPut(q, v)
<1>1. PICK o : o = B!Put(v, k, Fill)
  OBVIOUS
<1>2. o \in Op /\ o.op = "put" /\ o.version = v /\ o.value = Fill /\ ~o.noted
  BY <1>1 DEF B!Put, Op, Asked
<1>3. PICK q : q = Append(p, o)
  OBVIOUS
<1>4. p \in Seq(Op) /\ Grown(q, p, o) /\ Len(p) \in Nat
  BY <1>2, <1>3, Grows DEF Loads, Going
<1>5. PICK h \in Int : h = v - 1 /\ h < v
  OBVIOUS
<1>6. Going(q, h, v) /\ HasPut(q, v)
  <2>1. Going(p, h, v) /\ v >= 1
    BY <1>5 DEF Loads
  <2> QED BY <1>2, <1>4, <1>5, <2>1, GoingPut
<1>7. Gets(q) = {}
  BY <1>2, <1>4 DEF Loads, Grown, Added
<1>8. \A i \in Writes(q) : ~NotedPut(q, i)
  <2>1. \A i \in Writes(p) : i \in 1..Len(p)
    BY <1>4, Places
  <2>2. \A i \in Writes(q) : i = Len(p) + 1 \/ i \in Writes(p)
    BY <1>4 DEF Grown, Added
  <2>3. \A i \in Writes(p) : q[i] = p[i] /\ ~NotedPut(p, i)
    BY <1>4, <2>1 DEF Grown, Loads
  <2> QED BY <1>2, <1>4, <2>2, <2>3 DEF NotedPut, Grown
<1> QED BY <1>1, <1>3, <1>5, <1>6, <1>7, <1>8 DEF Loads

LEMMA LoadCommit ==
  ASSUME NEW v \in Nat, NEW p, Loads(p, v), HasPut(p, v)
  PROVE  LET q == Append(p, B!Commit(v))
         IN /\ Going(q, v, v) /\ Loads(q, v + 1)
            /\ Gets(q) = {} /\ \A i \in Writes(q) : ~NotedPut(q, i)
<1>1. PICK o : o = B!Commit(v)
  OBVIOUS
<1>2. o \in Op /\ o.op = "commit" /\ o.version = v
  BY <1>1, CommitOf
<1>3. PICK q : q = Append(p, o)
  OBVIOUS
<1>4. p \in Seq(Op) /\ Grown(q, p, o) /\ Len(p) \in Nat
  BY <1>2, <1>3, Grows DEF Loads, Going
<1>5. PICK h \in Int : h = v - 1 /\ h <= v
  OBVIOUS
<1>6. Going(q, v, v)
  <2>1. Going(p, h, v) /\ v \in Int
    BY <1>5 DEF Loads
  <2> QED BY <1>2, <1>4, <1>5, <2>1, GoingCommit
<1>7. Gets(q) = {}
  BY <1>2, <1>4 DEF Loads, Grown, Added
<1>8. \A i \in Writes(q) : ~NotedPut(q, i)
  <2>1. \A i \in Writes(p) : i \in 1..Len(p)
    BY <1>4, Places
  <2>2. \A i \in Writes(q) : i \in Writes(p)
    BY <1>2, <1>4 DEF Grown, Added
  <2>3. \A i \in Writes(p) : q[i] = p[i] /\ ~NotedPut(p, i)
    BY <1>4, <2>1 DEF Grown, Loads
  <2> QED BY <2>2, <2>3 DEF NotedPut
<1>9. Loads(q, v + 1)
  <2>1. PICK u \in Int : u = v + 1 /\ v <= u /\ u - 1 = v /\ u >= 1
    OBVIOUS
  <2>2. Going(q, v, u)
    BY <1>6, <2>1, GoingMore
  <2> QED BY <1>7, <1>8, <2>1, <2>2 DEF Loads
<1> QED BY <1>1, <1>3, <1>6, <1>7, <1>8, <1>9

(* A transaction notes gets at version v and puts at the one after it.      *)
Transacts(p, v) ==
  /\ Going(p, v, v + 1) /\ NotedAlone(p, v + 1)
  /\ \A i \in Writes(p) : NotedPut(p, i) => NotedAlone(p, p[i].version)
  /\ \A g \in Gets(p) : p[g].noted =>
       p[g].version <= v /\ (Reached(p, p[g].version) => NotesNewest(p, g))

LEMMA TransactsNote ==
  ASSUME NEW v \in Nat, NEW p, Transacts(p, v)
  PROVE  Noting(p)
BY DEF Transacts, Going, Noting

LEMMA TransactsAfterLoad ==
  ASSUME NEW v \in Nat, NEW p, Going(p, v, v), Gets(p) = {},
         \A i \in Writes(p) : ~NotedPut(p, i)
  PROVE  Transacts(p, v)
<1>1. PICK u \in Int : u = v + 1 /\ v <= u /\ v < u
  OBVIOUS
<1>2. Going(p, v, u)
  BY <1>1, GoingMore
<1>3. NotedAlone(p, u)
  <2>1. p \in Seq(Op)
    BY DEF Going
  <2>2. \A i \in Writes(p) : p[i].version \in Nat /\ p[i].version <= v
    BY <2>1, Places DEF Going
  <2> QED BY <1>1, <2>2 DEF NotedAlone
<1> QED BY <1>1, <1>2, <1>3 DEF Transacts

(* A noted get keeps what it noted while no commit follows but of versions  *)
(* after it.                                                                *)
LEMMA NotesStayNewest ==
  ASSUME NEW p \in Seq(Op), NEW o \in Op, NEW q, Grown(q, p, o), NEW g \in Gets(p),
         o.op = "commit" => o.version > p[g].version,
         Reached(p, p[g].version) => NotesNewest(p, g),
         Reached(q, q[g].version)
  PROVE  NotesNewest(q, g)
<1> DEFINE n == Len(p)
<1>1. /\ n \in Nat /\ q[n + 1] = o /\ g \in 1..n /\ g \in Nat
      /\ Commits(p) \subseteq 1..n /\ \A c \in Commits(p) : c \in Nat
  BY Places DEF Grown
<1>2. /\ q[g] = p[g] /\ \A c \in Commits(p) : q[c] = p[c] /\ (Effective(q, c) <=> Effective(p, c))
      /\ \A c \in Commits(q) : c \in Commits(p) \/ (c = n + 1 /\ o.op = "commit")
      /\ Commits(p) \subseteq Commits(q)
  BY <1>1 DEF Grown, Added
<1>3. PICK c \in Commits(q) : Effective(q, c) /\ q[c].version = q[g].version
  BY DEF Reached
<1>4. c \in Commits(p)
  <2>1. p[g].version \in Nat
    BY <1>1, Places
  <2> QED BY <1>1, <1>2, <1>3, <2>1
<1>5. NotesNewest(p, g)
  BY <1>2, <1>3, <1>4 DEF Reached
<1>6. \A d \in Commits(q) : d < g => d \in Commits(p)
  BY <1>1, <1>2
<1> QED BY <1>2, <1>5, <1>6 DEF NotesNewest

LEMMA TransactPut ==
  ASSUME NEW v \in Nat, NEW p, Transacts(p, v), NEW k \in Keys, NEW x \in Value
  PROVE  LET q == Append(p, B!Noted(B!Put(v + 1, k, x)))
         IN Transacts(q, v) /\ HasPut(q, v + 1)
<1>1. PICK u \in Nat : u = v + 1 /\ u >= 1 /\ v < u /\ u <= u
  OBVIOUS
<1>2. PICK o : o = B!Noted(B!Put(v + 1, k, x))
  OBVIOUS
<1>3. o \in Op /\ o.op = "put" /\ o.version = u /\ o.value = x /\ o.noted
  BY <1>1, <1>2 DEF B!Noted, B!Put, Op, Asked
<1>4. PICK q : q = Append(p, o)
  OBVIOUS
<1>5. /\ p \in Seq(Op) /\ Grown(q, p, o) /\ Len(p) \in Nat /\ Going(p, v, u)
      /\ NotedAlone(p, u)
  BY <1>1, <1>3, <1>4, Grows DEF Transacts, Going
<1>6. Going(q, v, u) /\ HasPut(q, u)
  BY <1>1, <1>3, <1>5, GoingPut
<1>7. /\ \A i \in Writes(p) : q[i] = p[i] /\ i \in Writes(q)
      /\ \A i \in Writes(q) : i \in Writes(p) \/ i = Len(p) + 1
      /\ q[Len(p) + 1] = o /\ Len(p) + 1 \in Writes(q)
      /\ Gets(q) = Gets(p) /\ \A g \in Gets(p) : q[g] = p[g]
  <2>1. Writes(p) \subseteq 1..Len(p) /\ Gets(p) \subseteq 1..Len(p)
    BY <1>5, Places
  <2> QED BY <1>3, <1>5, <2>1 DEF Grown, Added
<1>8. NotedAlone(q, u)
  BY <1>3, <1>5, <1>7 DEF NotedAlone, NotedPut
<1>9. ASSUME NEW i \in Writes(q), NotedPut(q, i) PROVE NotedAlone(q, q[i].version)
  <2>1. CASE q[i].version = u
    BY <1>8, <2>1
  <2>2. CASE q[i].version # u
    <3>1. i \in Writes(p) /\ NotedPut(p, i)
      BY <1>3, <1>7, <1>9, <2>2 DEF NotedPut
    <3>2. NotedAlone(p, p[i].version)
      BY <3>1 DEF Transacts
    <3> QED BY <1>3, <1>7, <2>2, <3>1, <3>2 DEF NotedAlone, NotedPut
  <2> QED BY <2>1, <2>2
<1>10. ASSUME NEW g \in Gets(q), q[g].noted
       PROVE  q[g].version <= v /\ (Reached(q, q[g].version) => NotesNewest(q, g))
  <2>1. g \in Gets(p) /\ p[g].noted /\ q[g] = p[g]
    BY <1>7, <1>10
  <2> QED BY <1>3, <1>5, <2>1, NotesStayNewest DEF Transacts
<1> QED BY <1>1, <1>2, <1>4, <1>6, <1>8, <1>9, <1>10 DEF Transacts

LEMMA TransactRead ==
  ASSUME NEW v \in Nat, NEW p, Transacts(p, v), NEW o \in Op,
         o.op = "scan" \/ (o.op = "get" /\ o.version = v)
  PROVE  LET q == Append(p, o)
         IN Transacts(q, v) /\ (HasPut(p, v + 1) => HasPut(q, v + 1))
<1>1. PICK u \in Nat : u = v + 1
  OBVIOUS
<1>2. PICK q : q = Append(p, o)
  OBVIOUS
<1>3. /\ p \in Seq(Op) /\ Grown(q, p, o) /\ Len(p) \in Nat /\ Going(p, v, u)
      /\ NotedAlone(p, u)
  BY <1>1, <1>2, Grows DEF Transacts, Going
<1>4. Going(q, v, u) /\ (HasPut(p, u) => HasPut(q, u))
  BY <1>3, GoingQuiet
<1>5. /\ Writes(q) = Writes(p) /\ Commits(q) = Commits(p)
      /\ \A i \in Writes(p) \cup Commits(p) \cup Gets(p) : q[i] = p[i] /\ i < Len(p) + 1
      /\ \A i \in Gets(q) : i \in Gets(p) \/ (i = Len(p) + 1 /\ o.op = "get")
      /\ \A c \in Commits(p) : Effective(q, c) <=> Effective(p, c)
      /\ q[Len(p) + 1] = o
  <2>1. /\ Writes(p) \subseteq 1..Len(p) /\ Gets(p) \subseteq 1..Len(p)
        /\ Commits(p) \subseteq 1..Len(p)
    BY <1>3, Places
  <2> QED BY <1>3, <2>1 DEF Grown, Added
<1>6. \A w : NotedAlone(p, w) => NotedAlone(q, w)
  BY <1>5 DEF NotedAlone, NotedPut
<1>7. ASSUME NEW i \in Writes(q), NotedPut(q, i) PROVE NotedAlone(q, q[i].version)
  <2>1. i \in Writes(p) /\ NotedPut(p, i) /\ q[i] = p[i]
    BY <1>5, <1>7 DEF NotedPut
  <2> QED BY <1>6, <2>1 DEF Transacts
<1>8. ASSUME NEW g \in Gets(q), q[g].noted
      PROVE  q[g].version <= v /\ (Reached(q, q[g].version) => NotesNewest(q, g))
  <2>1. CASE g \in Gets(p)
    <3>1. p[g].noted /\ q[g] = p[g]
      BY <1>5, <1>8, <2>1
    <3> QED BY <1>3, <2>1, <3>1, NotesStayNewest DEF Transacts
  <2>2. CASE g = Len(p) + 1 /\ o.op = "get"
    <3>1. q[g].version = v
      BY <1>5, <2>2
    <3>2. \A d \in Commits(q) : Effective(q, d) => q[d].version <= v
      BY <1>4 DEF Going
    <3>3. \A d \in Commits(q) : d < g
      BY <1>5, <2>2
    <3> QED BY <3>1, <3>2, <3>3 DEF Reached, NotesNewest
  <2> QED BY <1>5, <2>1, <2>2
<1> QED BY <1>1, <1>2, <1>3, <1>4, <1>6, <1>7, <1>8 DEF Transacts

LEMMA TransactCommit ==
  ASSUME NEW v \in Nat, NEW p, Transacts(p, v), HasPut(p, v + 1)
  PROVE  Transacts(Append(p, B!Commit(v + 1)), v + 1)
<1>1. PICK u \in Nat : u = v + 1 /\ v <= u /\ v < u
  OBVIOUS
<1>2. PICK o : o = B!Commit(u)
  OBVIOUS
<1>3. o \in Op /\ o.op = "commit" /\ o.version = u
  BY <1>2, CommitOf
<1>4. PICK q : q = Append(p, o)
  OBVIOUS
<1>5. p \in Seq(Op) /\ Grown(q, p, o) /\ Len(p) \in Nat /\ Going(p, v, u) /\ HasPut(p, u)
  BY <1>1, <1>3, <1>4, Grows DEF Transacts, Going
<1>6. Going(q, u, u)
  BY <1>1, <1>3, <1>5, GoingCommit
<1>7. PICK w \in Int : w = u + 1 /\ u <= w /\ u < w
  OBVIOUS
<1>8. Going(q, u, w)
  BY <1>6, <1>7, GoingMore
<1>9. Writes(q) = Writes(p) /\ Gets(q) = Gets(p) /\ \A i \in Writes(p) \cup Gets(p) : q[i] = p[i]
  <2>1. Writes(p) \subseteq 1..Len(p) /\ Gets(p) \subseteq 1..Len(p)
    BY <1>5, Places
  <2> QED BY <1>3, <1>5, <2>1 DEF Grown, Added
<1>10. NotedAlone(q, w)
  <2>1. q \in Seq(Op)
    BY <1>5 DEF Grown
  <2>2. \A i \in Writes(q) : q[i].version \in Nat /\ q[i].version <= u
    BY <1>6, <2>1, Places DEF Going
  <2> QED BY <1>7, <2>2 DEF NotedAlone
<1>11. ASSUME NEW i \in Writes(q), NotedPut(q, i) PROVE NotedAlone(q, q[i].version)
  <2>1. i \in Writes(p) /\ NotedPut(p, i) /\ q[i] = p[i]
    BY <1>9, <1>11 DEF NotedPut
  <2>2. NotedAlone(p, p[i].version)
    BY <2>1 DEF Transacts
  <2> QED BY <1>9, <2>1, <2>2 DEF NotedAlone, NotedPut
<1>12. ASSUME NEW g \in Gets(q), q[g].noted
       PROVE  q[g].version <= u /\ (Reached(q, q[g].version) => NotesNewest(q, g))
  <2>1. g \in Gets(p) /\ p[g].noted /\ q[g] = p[g] /\ p[g].version \in Nat
    <3>1. g \in Gets(p) /\ q[g] = p[g]
      BY <1>9, <1>12
    <3>2. p[g].version \in Nat
      BY <1>5, <3>1, Places
    <3> QED BY <1>12, <3>1, <3>2
  <2>2. p[g].version <= v
    BY <2>1 DEF Transacts
  <2>3. o.version > p[g].version /\ q[g].version <= u
    BY <1>1, <1>3, <2>1, <2>2
  <2> QED BY <1>3, <1>5, <2>1, <2>3, NotesStayNewest DEF Transacts
<1> QED BY <1>1, <1>2, <1>4, <1>7, <1>8, <1>10, <1>11, <1>12 DEF Transacts

-----------------------------------------------------------------------------
(* Operations that expect nothing and settle nothing. *)
Mild == {o \in Op : o.op # "settle" /\ (o.op = "get" => o.value = None)}

LEMMA MildPlans ==
  ASSUME NEW p \in Seq(Mild)
  PROVE  p \in Seq(Op) /\ ExpectsNothing(p) /\ ~Settles(p)
<1>1. DOMAIN p = 1..Len(p) /\ \A i \in 1..Len(p) : p[i] \in Mild
  OBVIOUS
<1>2. p \in Seq(Op)
  <2>1. Mild \subseteq Op
    BY DEF Mild
  <2> QED BY <2>1
<1>3. ExpectsNothing(p) /\ ~Settles(p)
  BY <1>1 DEF Mild, ExpectsNothing, Settles, Gets
<1> QED BY <1>2, <1>3

LEMMA MildAppend ==
  ASSUME NEW p \in Seq(Mild), NEW o \in Mild
  PROVE  \E q \in Seq(Mild) : q = Append(p, o)
<1>1. PICK M : M = Mild
  OBVIOUS
<1>2. p \in Seq(M) /\ o \in M
  BY <1>1
<1>3. Append(p, o) \in Seq(M)
  BY <1>2
<1> QED BY <1>1, <1>3

(* The batches of loading. *)
Loader == {d \in [version : Nat, plan : Seq(Mild)] : Loads(d.plan, d.version)}
Loaded(d, i, batch) ==
  LET put == Append(d.plan, B!Put(d.version, i, Fill))
  IN IF B!EndsBatch(i, batch)
       THEN [version |-> d.version + 1, plan |-> Append(put, B!Commit(d.version))]
     ELSE [d EXCEPT !.plan = put]

LEMMA LoaderOf ==
  ASSUME NEW v \in Nat, NEW p \in Seq(Mild), Loads(p, v)
  PROVE  [version |-> v, plan |-> p] \in Loader
<1>1. PICK d : d = [version |-> v, plan |-> p]
  OBVIOUS
<1>2. d \in [version : Nat, plan : Seq(Mild)] /\ d.version = v /\ d.plan = p
  BY <1>1
<1> QED BY <1>1, <1>2 DEF Loader

LEMMA LoadedIsLoader ==
  ASSUME Fill \in Value, NEW d \in Loader, NEW i \in Int, NEW batch
  PROVE  /\ Loaded(d, i, batch) \in Loader
         /\ ~B!EndsBatch(i, batch) =>
              HasPut(Loaded(d, i, batch).plan, Loaded(d, i, batch).version)
<1>1. PICK v \in Nat : v = d.version
  BY DEF Loader
<1>2. PICK p \in Seq(Mild) : p = d.plan
  BY DEF Loader
<1>3. Loads(p, v) /\ d = [version |-> v, plan |-> p]
  BY <1>1, <1>2 DEF Loader
<1>4. PICK o : o = B!Put(v, i, Fill)
  OBVIOUS
<1>5. o \in Mild /\ i \in Keys
  BY <1>4 DEF B!Put, Op, Asked, Keys, Mild
<1>6. PICK q \in Seq(Mild) : q = Append(p, o)
  BY <1>5, MildAppend
<1>7. Loads(q, v) /\ HasPut(q, v)
  BY <1>3, <1>4, <1>5, <1>6, LoadPut
<1>8. PICK c : c = B!Commit(v)
  OBVIOUS
<1>9. c \in Mild
  BY <1>8, CommitOf DEF Mild
<1>10. PICK r \in Seq(Mild) : r = Append(q, c)
  BY <1>9, MildAppend
<1>11. Loads(r, v + 1)
  BY <1>7, <1>8, <1>10, LoadCommit
<1>12. CASE B!EndsBatch(i, batch)
  <2>1. Loaded(d, i, batch) = [version |-> v + 1, plan |-> r]
    BY <1>1, <1>2, <1>4, <1>6, <1>8, <1>10, <1>12 DEF Loaded
  <2>2. PICK w \in Nat : w = v + 1
    OBVIOUS
  <2> QED BY <1>11, <1>12, <2>1, <2>2, LoaderOf
<1>13. CASE ~B!EndsBatch(i, batch)
  <2>1. Loaded(d, i, batch) = [version |-> v, plan |-> q]
    <3>1. Loaded(d, i, batch) = [d EXCEPT !.plan = q]
      BY <1>1, <1>2, <1>4, <1>6, <1>13 DEF Loaded
    <3> QED BY <1>3, <3>1
  <2> QED BY <1>7, <2>1, LoaderOf
<1> QED BY <1>12, <1>13

LEMMA LoadingTransacts ==
  ASSUME Fill \in Value, NEW records \in Nat \ {0}, NEW batch \in Nat \ {0}
  PROVE  /\ B!Loading(records, batch) \in [version : Nat, plan : Seq(Mild)]
         /\ Transacts(B!Loading(records, batch).plan, B!Loading(records, batch).version)
<1> DEFINE n == records
           keys == B!From(0, records)
<1>1. PICK base : base = [version |-> 1, plan |-> <<>>]
  OBVIOUS
<1>2. base \in Loader
  <2>1. PICK e : e = <<>>
    OBVIOUS
  <2>2. e \in Seq(Mild) /\ e \in Seq(Op) /\ DOMAIN e = {}
    BY <2>1
  <2>3. Writes(e) = {} /\ Commits(e) = {} /\ Gets(e) = {}
    BY <2>2 DEF Writes, Commits, Gets
  <2>4. 1 \in Nat /\ Loads(e, 1)
    BY <2>2, <2>3 DEF Loads, Going, Ordered, Lawful, Numbered
  <2> QED BY <1>1, <2>1, <2>2, <2>4, LoaderOf
<1>3. n \in Nat /\ DOMAIN keys = 1..n /\ \A i \in 1..n : keys[i] = i - 1 /\ keys[i] \in Int
  BY DEF B!From
<1>4. ASSUME NEW d \in Loader, NEW i \in 1..n
      PROVE  /\ Loaded(d, keys[i], batch) \in Loader
             /\ ~B!EndsBatch(keys[i], batch) =>
                  HasPut(Loaded(d, keys[i], batch).plan, Loaded(d, keys[i], batch).version)
  BY <1>3, LoadedIsLoader
<1> HIDE DEF keys
<1> DEFINE A == [x \in Loader \X (1..n) |-> Loaded(x[1], keys[x[2]], batch)]
<1>5. A \in [Loader \X (1..n) -> Loader]
  BY <1>4
<1>6. PICK F : /\ Folds(F, base, A, n)
               /\ \A s \in SUBSET (1..n) : F[s] \in Loader
               /\ \A s \in SUBSET (1..n) : s # {} => B!Max(s) \in 1..n
  <2> HIDE DEF A
  <2> QED BY <1>2, <1>3, <1>5, FoldWithin
<1> DEFINE Right(G) == G = [s \in SUBSET (DOMAIN keys) |->
                             IF s = {} THEN [version |-> 1, plan |-> <<>>]
                             ELSE Loaded(G[s \ {B!Max(s)}], keys[B!Max(s)], batch)]
<1>7. Right(F)
  <2>1. \A s \in SUBSET (1..n) : s \ {B!Max(s)} \in SUBSET (1..n)
    OBVIOUS
  <2>2. ASSUME NEW s \in SUBSET (1..n), s # {}
        PROVE  A[<<F[s \ {B!Max(s)}], B!Max(s)>>]
               = Loaded(F[s \ {B!Max(s)}], keys[B!Max(s)], batch)
    BY <1>6, <2>1, <2>2
  <2> HIDE DEF A
  <2> QED BY <1>1, <1>3, <1>6, <2>2 DEF Folds
<1>8. PICK R : R = (CHOOSE G : Right(G)) /\ Right(R)
  <2> HIDE DEF Right
  <2> QED BY <1>7
<1>9. PICK all : all = R[1..n] /\ all = R[DOMAIN keys]
  BY <1>3
<1>10. /\ all \in Loader
       /\ ~B!EndsBatch(keys[n], batch) => HasPut(all.plan, all.version)
  <2> DEFINE Fine(s, d) == s # {} /\ ~B!EndsBatch(keys[B!Max(s)], batch) =>
                             HasPut(d.plan, d.version)
             P == {x \in (SUBSET (1..n)) \X Loader : Fine(x[1], x[2])}
  <2>0. \A d : \A s \in SUBSET (1..n) : <<s, d>> \in P <=> d \in Loader /\ Fine(s, d)
    <3> HIDE DEF Fine
    <3> QED OBVIOUS
  <2>1. <<{}, R[{}]>> \in P
    <3>1. R[{}] = base
      BY <1>1, <1>8
    <3> QED BY <1>2, <2>0, <3>1
  <2>2. ASSUME NEW s \in SUBSET (1..n), s # {}, <<s \ {B!Max(s)}, R[s \ {B!Max(s)}]>> \in P
        PROVE  <<s, R[s]>> \in P
    <3>1. PICK x : x = s \ {B!Max(s)}
      OBVIOUS
    <3>2. R[x] \in Loader /\ B!Max(s) \in 1..n
      BY <1>6, <2>0, <2>2, <3>1
    <3>3. R[s] = Loaded(R[x], keys[B!Max(s)], batch)
      BY <1>3, <1>8, <2>2, <3>1
    <3> HIDE DEF P
    <3> QED BY <1>4, <2>0, <3>2, <3>3
  <2> HIDE DEF P
  <2>3. \A s \in SUBSET (1..n) : <<s, R[s]>> \in P
    BY <1>3, <2>1, <2>2, FoldStays
  <2>4. 1..n # {} /\ B!Max(1..n) = n
    <3>1. 1..n \in SUBSET (0..n) /\ n \in 1..n /\ n \in Nat
      OBVIOUS
    <3>2. B!Max(1..n) \in 1..n /\ n <= B!Max(1..n)
      BY <3>1, MaxIs
    <3> QED BY <3>1, <3>2
  <2> QED BY <1>9, <2>0, <2>3, <2>4
<1> HIDE DEF A
<1> DEFINE Folded == (CHOOSE G : Right(G))[DOMAIN keys]
<1>11. B!Loading(records, batch)
       = IF (records - 1) % batch # 0
         THEN [all EXCEPT !.plan = Append(all.plan, B!Commit(all.version))] ELSE all
  <2>1. B!Loading(records, batch)
        = IF (records - 1) % batch # 0
          THEN [Folded EXCEPT !.plan = Append(@, B!Commit(Folded.version))] ELSE Folded
    BY DEF B!Loading, B!FoldLeft, B!MapThenFoldSet, Loaded, keys
  <2>2. Folded = all
    BY <1>8, <1>9
  <2> HIDE DEF Folded
  <2> QED BY <2>1, <2>2
<1> HIDE DEF Right, Folded
<1>12. PICK v \in Nat : v = all.version
  BY <1>10 DEF Loader
<1>13. PICK p \in Seq(Mild) : p = all.plan
  BY <1>10 DEF Loader
<1>14. Loads(p, v) /\ all = [version |-> v, plan |-> p]
  BY <1>10, <1>12, <1>13 DEF Loader
<1>15. CASE (records - 1) % batch # 0
  <2>1. ~B!EndsBatch(keys[n], batch)
    <3>1. keys[n] = records - 1
      BY <1>3
    <3> QED BY <1>15, <3>1 DEF B!EndsBatch
  <2>2. HasPut(p, v)
    BY <1>10, <1>12, <1>13, <2>1
  <2>3. PICK c : c = B!Commit(v)
    OBVIOUS
  <2>4. c \in Mild
    BY <2>3, CommitOf DEF Mild
  <2>5. PICK q \in Seq(Mild) : q = Append(p, c)
    BY <2>4, MildAppend
  <2>6. Going(q, v, v) /\ Gets(q) = {} /\ \A i \in Writes(q) : ~NotedPut(q, i)
    BY <1>14, <2>2, <2>3, <2>5, LoadCommit
  <2>7. Transacts(q, v)
    BY <2>6, TransactsAfterLoad
  <2>8. B!Loading(records, batch) = [version |-> v, plan |-> q]
    <3>1. B!Loading(records, batch) = [all EXCEPT !.plan = q]
      BY <1>11, <1>12, <1>13, <1>15, <2>3, <2>5
    <3> QED BY <1>14, <3>1
  <2> QED BY <2>7, <2>8
<1>16. CASE ~((records - 1) % batch # 0)
  <2>1. B!Loading(records, batch) = [version |-> v, plan |-> p]
    BY <1>11, <1>14, <1>16
  <2>2. PICK h \in Int : h = v - 1 /\ h <= v
    OBVIOUS
  <2>3. Going(p, h, v)
    BY <1>14, <2>2 DEF Loads
  <2>4. Going(p, v, v)
    BY <2>2, <2>3, GoingMore
  <2>5. Transacts(p, v)
    BY <1>14, <2>4, TransactsAfterLoad DEF Loads
  <2> QED BY <2>1, <2>5
<1> QED BY <1>15, <1>16

-----------------------------------------------------------------------------
(* The locals of transaction(), and what it is asked to do.                 *)
Locals ==
  [version : Nat, plan : Seq(Mild), put_count : Nat, ver : Nat, k : Keys, v : Asked,
   last : Int]
Request ==
  [kind : {"READ", "UPDATE", "INSERT", "SCAN", "READMODIFYWRITE"}, key : Keys, value : Value]
Transacted(s) ==
  Transacts(s.plan, s.version) /\ (s.put_count > 0 => HasPut(s.plan, s.version + 1))

LEMMA LocalTypes ==
  ASSUME NEW s \in Locals
  PROVE  /\ s.version \in Nat /\ s.plan \in Seq(Mild) /\ s.put_count \in Nat
         /\ s.ver \in Nat /\ s.k \in Keys /\ s.v \in Asked /\ s.last \in Int
BY DEF Locals

LEMMA MildOps ==
  ASSUME NEW v \in Nat, NEW k \in Keys
  PROVE  /\ B!Noted(B!Read(v, k)) \in Mild /\ B!Scan(v) \in Mild /\ B!Commit(v) \in Mild
         /\ \A x \in Asked : B!Noted(B!Put(v, k, x)) \in Mild
         /\ B!Noted(B!Read(v, k)).op = "get" /\ B!Noted(B!Read(v, k)).version = v
         /\ B!Scan(v).op = "scan"
<1>1. PICK r : r = B!Noted(B!Read(v, k))
  OBVIOUS
<1>2. r \in Op /\ r.op = "get" /\ r.version = v /\ r.value = None
  BY <1>1 DEF B!Noted, B!Read, B!Get, Op, Expectable
<1>3. B!Scan(v) \in Mild /\ B!Scan(v).op = "scan"
  BY DEF B!Scan, Mild, Op
<1>4. B!Commit(v) \in Mild
  BY DEF B!Commit, Mild, Op
<1>5. ASSUME NEW x \in Asked PROVE B!Noted(B!Put(v, k, x)) \in Mild
  <2>1. PICK w : w = B!Noted(B!Put(v, k, x))
    OBVIOUS
  <2>2. w \in Op /\ w.op = "put"
    BY <2>1 DEF B!Noted, B!Put, Op
  <2> QED BY <2>1, <2>2 DEF Mild
<1>6. r \in Mild
  BY <1>2 DEF Mild
<1> QED BY <1>1, <1>2, <1>3, <1>4, <1>5, <1>6

LEMMA ReadKeeps ==
  ASSUME NEW s \in Locals, NEW k \in Keys
  PROVE  /\ B!ReadOp(s, k) \in Locals
         /\ Transacted(s) => Transacted(B!ReadOp(s, k))
<1>1. PICK o \in Mild : o = B!Noted(B!Read(s.version, k)) /\ o.op = "get" /\ o.version = s.version
  BY LocalTypes, MildOps
<1>2. PICK q \in Seq(Mild) : q = Append(s.plan, o)
  BY LocalTypes, MildAppend
<1>3. PICK t : t = B!ReadOp(s, k)
  OBVIOUS
<1>4. t = [s EXCEPT !.ver = s.version, !.k = k, !.v = NoValue, !.plan = q]
  BY <1>1, <1>2, <1>3 DEF B!ReadOp
<1>5. t \in Locals /\ t.version = s.version /\ t.put_count = s.put_count /\ t.plan = q
  BY <1>4, LocalTypes DEF Locals, Asked
<1>6. ASSUME Transacted(s) PROVE Transacted(t)
  <2>1. o \in Op
    BY DEF Mild
  <2> QED BY <1>1, <1>2, <1>5, <1>6, <2>1, LocalTypes, TransactRead DEF Transacted
<1> QED BY <1>3, <1>5, <1>6

LEMMA ScanKeeps ==
  ASSUME NEW s \in Locals, NEW k \in Keys
  PROVE  /\ B!ScanOp(s, k) \in Locals
         /\ Transacted(s) => Transacted(B!ScanOp(s, k))
<1>1. PICK o \in Mild : o = B!Scan(s.version) /\ o.op = "scan"
  BY LocalTypes, MildOps
<1>2. PICK q \in Seq(Mild) : q = Append(s.plan, o)
  BY LocalTypes, MildAppend
<1>3. PICK t : t = B!ScanOp(s, k)
  OBVIOUS
<1>4. t = [s EXCEPT !.ver = s.version, !.k = k, !.plan = q]
  BY <1>1, <1>2, <1>3 DEF B!ScanOp
<1>5. t \in Locals /\ t.version = s.version /\ t.put_count = s.put_count /\ t.plan = q
  BY <1>4, LocalTypes DEF Locals
<1>6. ASSUME Transacted(s) PROVE Transacted(t)
  <2>1. o \in Op
    BY DEF Mild
  <2> QED BY <1>1, <1>2, <1>5, <1>6, <2>1, LocalTypes, TransactRead DEF Transacted
<1> QED BY <1>3, <1>5, <1>6

LEMMA UpdateKeeps ==
  ASSUME NEW s \in Locals, NEW k \in Keys, NEW x \in Value
  PROVE  /\ B!UpdateOp(s, k, x) \in Locals
         /\ Transacted(s) => Transacted(B!UpdateOp(s, k, x))
<1>1. PICK u \in Nat : u = s.version + 1
  BY LocalTypes
<1>2. x \in Asked
  BY DEF Asked
<1>3. PICK o \in Mild : o = B!Noted(B!Put(u, k, x))
  BY <1>2, MildOps
<1>4. PICK q \in Seq(Mild) : q = Append(s.plan, o)
  BY LocalTypes, MildAppend
<1>5. PICK t : t = B!UpdateOp(s, k, x)
  OBVIOUS
<1>0. PICK c \in Nat : c = s.put_count + 1
  BY LocalTypes
<1>6. t = [s EXCEPT !.ver = u, !.k = k, !.v = x, !.put_count = c, !.plan = q]
  BY <1>0, <1>1, <1>3, <1>4, <1>5 DEF B!UpdateOp
<1>7. t \in Locals /\ t.version = s.version /\ t.plan = q
  BY <1>2, <1>6 DEF Locals
<1>8. ASSUME Transacted(s) PROVE Transacted(t)
  <2>1. Transacts(q, s.version) /\ HasPut(q, s.version + 1)
    BY <1>1, <1>3, <1>4, <1>8, LocalTypes, TransactPut DEF Transacted
  <2> QED BY <1>7, <2>1 DEF Transacted
<1> QED BY <1>5, <1>7, <1>8

LEMMA InsertKeeps ==
  ASSUME NEW s \in Locals, NEW x \in Value
  PROVE  /\ B!InsertOp(s, x) \in Locals
         /\ Transacted(s) => Transacted(B!InsertOp(s, x))
<1>1. PICK n \in Int : n = s.last + 1 /\ n \in Keys
  BY LocalTypes DEF Keys
<1>2. PICK u : u = B!UpdateOp(s, n, x) /\ u \in Locals
  BY <1>1, UpdateKeeps
<1>3. PICK t : t = B!InsertOp(s, x)
  OBVIOUS
<1>0. PICK l \in Int : l = u.last + 1
  BY <1>2, LocalTypes
<1>4. t = [u EXCEPT !.last = l]
  BY <1>0, <1>1, <1>2, <1>3 DEF B!InsertOp
<1>5. t \in Locals /\ t.version = u.version /\ t.plan = u.plan /\ t.put_count = u.put_count
  BY <1>2, <1>4 DEF Locals
<1>6. ASSUME Transacted(s) PROVE Transacted(t)
  <2>1. Transacted(u)
    BY <1>1, <1>2, <1>6, UpdateKeeps
  <2> QED BY <1>5, <2>1 DEF Transacted
<1> QED BY <1>3, <1>5, <1>6

LEMMA ModifyKeeps ==
  ASSUME NEW s \in Locals
  PROVE  B!ReadModifyWriteOp(s) \in Locals
<1>1. PICK u \in Nat : u = s.ver + 1
  BY LocalTypes
<1>2. PICK a \in Mild : a = B!Noted(B!Read(s.ver, s.k))
  BY LocalTypes, MildOps
<1>3. PICK b \in Mild : b = B!Noted(B!Put(u, s.k, s.v))
  BY LocalTypes, MildOps
<1>4. PICK q : q = s.plan \o <<a, b>>
  OBVIOUS
<1>5. q \in Seq(Mild)
  <2>1. PICK M : M = Mild
    OBVIOUS
  <2>2. PICK p \in Seq(M) : p = s.plan
    BY <2>1, LocalTypes
  <2>3. a \in M /\ b \in M
    BY <2>1
  <2>4. p \o <<a, b>> \in Seq(M)
    BY <2>3
  <2> QED BY <1>4, <2>1, <2>2, <2>4
<1>6. B!ReadModifyWriteOp(s) = [s EXCEPT !.v = Carried, !.plan = q]
  BY <1>1, <1>2, <1>3, <1>4 DEF B!ReadModifyWriteOp
<1> QED BY <1>5, <1>6, LocalTypes DEF Locals, Asked

LEMMA CommitKeeps ==
  ASSUME NEW s \in Locals
  PROVE  /\ B!CommitOp(s) \in Locals
         /\ Transacted(s) /\ s.put_count > 0 => Transacted(B!CommitOp(s))
<1>1. PICK u \in Nat : u = s.version + 1
  BY LocalTypes
<1>2. PICK o \in Mild : o = B!Commit(u)
  BY LocalTypes, MildOps
<1>3. PICK q \in Seq(Mild) : q = Append(s.plan, o)
  BY LocalTypes, MildAppend
<1>4. PICK t : t = B!CommitOp(s)
  OBVIOUS
<1>0. PICK z \in Nat : z = 0 /\ ~(z > 0)
  OBVIOUS
<1>5. t = [s EXCEPT !.version = u, !.put_count = z, !.plan = q]
  BY <1>0, <1>1, <1>2, <1>3, <1>4 DEF B!CommitOp
<1>6. t \in Locals /\ t.version = u /\ t.plan = q /\ t.put_count = z
  BY <1>5 DEF Locals
<1>7. ASSUME Transacted(s), s.put_count > 0 PROVE Transacted(t)
  <2>1. Transacts(q, u)
    BY <1>1, <1>2, <1>3, <1>7, LocalTypes, TransactCommit DEF Transacted
  <2> QED BY <1>0, <1>6, <2>1 DEF Transacted
<1> QED BY <1>4, <1>6, <1>7

Rounded(s, batch) == IF s.put_count > 0 /\ s.put_count % batch = 0 THEN B!CommitOp(s) ELSE s

LEMMA TransactionKeeps ==
  ASSUME NEW s \in Locals, NEW o \in Request, NEW batch
  PROVE  /\ B!Transaction(s, o, batch) \in Locals
         /\ Transacted(s) /\ o.kind # "READMODIFYWRITE" =>
              Transacted(B!Transaction(s, o, batch))
<1>1. o.key \in Keys /\ o.value \in Value
      /\ o.kind \in {"READ", "UPDATE", "INSERT", "SCAN", "READMODIFYWRITE"}
  BY DEF Request
<1>2. ASSUME NEW t \in Locals
      PROVE  /\ Rounded(t, batch) \in Locals
             /\ Transacted(t) => Transacted(Rounded(t, batch))
  BY CommitKeeps DEF Rounded
<1>3. CASE o.kind = "READ"
  <2>1. B!Transaction(s, o, batch) = Rounded(B!ReadOp(s, o.key), batch)
    BY <1>3 DEF B!Transaction, Rounded
  <2> QED BY <1>1, <1>2, <2>1, ReadKeeps
<1>4. CASE o.kind = "UPDATE"
  <2>1. B!Transaction(s, o, batch) = Rounded(B!UpdateOp(s, o.key, o.value), batch)
    BY <1>4 DEF B!Transaction, Rounded
  <2> QED BY <1>1, <1>2, <2>1, UpdateKeeps
<1>5. CASE o.kind = "INSERT"
  <2>1. B!Transaction(s, o, batch) = Rounded(B!InsertOp(s, o.value), batch)
    BY <1>5 DEF B!Transaction, Rounded
  <2> QED BY <1>1, <1>2, <2>1, InsertKeeps
<1>6. CASE o.kind = "SCAN"
  <2>1. B!Transaction(s, o, batch) = Rounded(B!ScanOp(s, o.key), batch)
    BY <1>6 DEF B!Transaction, Rounded
  <2> QED BY <1>1, <1>2, <2>1, ScanKeeps
<1>7. CASE o.kind = "READMODIFYWRITE"
  <2>1. B!Transaction(s, o, batch) = Rounded(B!ReadModifyWriteOp(s), batch)
    BY <1>7 DEF B!Transaction, Rounded
  <2> QED BY <1>2, <1>7, <2>1, ModifyKeeps
<1> QED BY <1>1, <1>3, <1>4, <1>5, <1>6, <1>7

(* What transaction() begins with.                                          *)
LEMMA StartTransacts ==
  ASSUME Fill \in Value, NEW records \in Nat \ {0}, NEW batch \in Nat \ {0}
  PROVE  LET load == B!Loading(records, batch)
             start == [version |-> load.version, plan |-> load.plan, put_count |-> 0,
                       ver |-> 0, k |-> 0, v |-> NoValue, last |-> records - 1]
         IN start \in Locals /\ Transacted(start)
<1>1. PICK load : load = B!Loading(records, batch)
  OBVIOUS
<1>2. load \in [version : Nat, plan : Seq(Mild)] /\ Transacts(load.plan, load.version)
  BY <1>1, LoadingTransacts
<1>3. PICK a \in Nat : a = load.version
  BY <1>2
<1>4. PICK p \in Seq(Mild) : p = load.plan
  BY <1>2
<1>5. PICK z \in Nat : z = 0 /\ z \in Keys /\ ~(z > 0)
  BY DEF Keys
<1>6. PICK l \in Int : l = records - 1
  OBVIOUS
<1>7. PICK s : s = [version |-> a, plan |-> p, put_count |-> z, ver |-> z, k |-> z,
                    v |-> NoValue, last |-> l]
  OBVIOUS
<1>8. s \in Locals /\ s.version = a /\ s.plan = p /\ s.put_count = z
  BY <1>5, <1>7 DEF Locals, Asked
<1>9. Transacted(s)
  BY <1>2, <1>3, <1>4, <1>5, <1>8 DEF Transacted
<1> QED BY <1>1, <1>3, <1>4, <1>5, <1>6, <1>7, <1>8, <1>9

(* The plan of ycsb_simple, with or without READMODIFYWRITE.                *)
LEMMA YcsbNotes ==
  ASSUME Fill \in Value, NEW records \in Nat \ {0}, NEW batch \in Nat \ {0},
         NEW operations \in Seq(Request)
  PROVE  /\ B!YcsbSimple(records, batch, operations) \in Seq(Mild)
         /\ (\A i \in DOMAIN operations : operations[i].kind # "READMODIFYWRITE") =>
              Noting(B!YcsbSimple(records, batch, operations))
<1> DEFINE n == Len(operations)
           Plain == \A i \in DOMAIN operations : operations[i].kind # "READMODIFYWRITE"
           D == {s \in Locals : Plain => Transacted(s)}
           base == [version |-> B!Loading(records, batch).version,
                    plan |-> B!Loading(records, batch).plan, put_count |-> 0,
                    ver |-> 0, k |-> 0, v |-> NoValue, last |-> records - 1]
<1>1. base \in D
  BY StartTransacts
<1>2. n \in Nat /\ DOMAIN operations = 1..n /\ \A i \in 1..n : operations[i] \in Request
  OBVIOUS
<1>3. ASSUME NEW s \in D, NEW i \in 1..n
      PROVE  B!Transaction(s, operations[i], batch) \in D
  BY <1>2, TransactionKeeps
<1> HIDE DEF base, D
<1> DEFINE A == [x \in D \X (1..n) |-> B!Transaction(x[1], operations[x[2]], batch)]
<1>4. A \in [D \X (1..n) -> D]
  BY <1>3
<1>5. PICK F : /\ Folds(F, base, A, n)
               /\ \A s \in SUBSET (1..n) : F[s] \in D
               /\ \A s \in SUBSET (1..n) : s # {} => B!Max(s) \in 1..n
  <2> HIDE DEF A
  <2> QED BY <1>1, <1>2, <1>4, FoldWithin
<1> DEFINE Right(G) == G = [s \in SUBSET (DOMAIN operations) |->
                             IF s = {} THEN base
                             ELSE B!Transaction(G[s \ {B!Max(s)}], operations[B!Max(s)], batch)]
<1>6. Right(F)
  <2>1. \A s \in SUBSET (1..n) : s \ {B!Max(s)} \in SUBSET (1..n)
    OBVIOUS
  <2>2. ASSUME NEW s \in SUBSET (1..n), s # {}
        PROVE  A[<<F[s \ {B!Max(s)}], B!Max(s)>>]
               = B!Transaction(F[s \ {B!Max(s)}], operations[B!Max(s)], batch)
    BY <1>5, <2>1, <2>2
  <2> HIDE DEF A
  <2> QED BY <1>2, <1>5, <2>2 DEF Folds
<1> HIDE DEF A
<1>7. PICK R : R = (CHOOSE G : Right(G)) /\ Right(R)
  <2> HIDE DEF Right
  <2> QED BY <1>6
<1>8. \A s \in SUBSET (1..n) : R[s] \in D
  <2> DEFINE P == (SUBSET (1..n)) \X D
  <2>1. <<{}, R[{}]>> \in P
    <3>1. R[{}] = base
      BY <1>7
    <3> QED BY <1>1, <3>1
  <2>2. ASSUME NEW s \in SUBSET (1..n), s # {}, <<s \ {B!Max(s)}, R[s \ {B!Max(s)}]>> \in P
        PROVE  <<s, R[s]>> \in P
    <3>1. PICK x : x = s \ {B!Max(s)}
      OBVIOUS
    <3>2. R[x] \in D /\ B!Max(s) \in 1..n
      BY <1>5, <2>2, <3>1
    <3>3. R[s] = B!Transaction(R[x], operations[B!Max(s)], batch)
      BY <1>2, <1>7, <2>2, <3>1
    <3> HIDE DEF Right
    <3> QED BY <1>3, <3>2, <3>3
  <2> HIDE DEF P
  <2>3. \A s \in SUBSET (1..n) : <<s, R[s]>> \in P
    BY <1>2, <2>1, <2>2, FoldStays
  <2> QED BY <2>3 DEF P
<1> DEFINE Folded == (CHOOSE G : Right(G))[DOMAIN operations]
<1>9. B!YcsbSimple(records, batch, operations)
      = IF Folded.put_count > 0 THEN B!CommitOp(Folded).plan ELSE Folded.plan
  BY DEF B!YcsbSimple, B!FoldLeft, B!MapThenFoldSet, base
<1>10. PICK done \in D : done = Folded
  BY <1>2, <1>7, <1>8
<1> HIDE DEF Right, Folded
<1>11. PICK p : p = B!YcsbSimple(records, batch, operations)
  OBVIOUS
<1>12. done \in Locals /\ (Plain => Transacted(done))
  BY DEF D
<1>13. CASE done.put_count > 0
  <2>1. p = B!CommitOp(done).plan
    BY <1>9, <1>10, <1>11, <1>13
  <2>2. B!CommitOp(done) \in Locals /\ (Plain => Transacted(B!CommitOp(done)))
    BY <1>12, <1>13, CommitKeeps
  <2> HIDE DEF Plain
  <2>3. p \in Seq(Mild) /\ (Plain => Noting(p))
    BY <2>1, <2>2, LocalTypes, TransactsNote DEF Transacted
  <2> QED BY <1>11, <2>3 DEF Plain
<1>14. CASE ~(done.put_count > 0)
  <2>1. p = done.plan
    BY <1>9, <1>10, <1>11, <1>14
  <2> HIDE DEF Plain
  <2>2. p \in Seq(Mild) /\ (Plain => Noting(p))
    BY <1>12, <2>1, LocalTypes, TransactsNote DEF Transacted
  <2> QED BY <1>11, <2>2 DEF Plain
<1> QED BY <1>13, <1>14

-----------------------------------------------------------------------------
(* The programs: what their options and their generators may be.  A key     *)
(* that no version holds is left out by WorkloadAssumption, with the plans  *)
(* that have more versions than MaxVersion.                                 *)
Tasks == Seq(Task)
Positive == Nat \ {0}
Reordered == {x \in Tasks \X UNION {[1..n -> 1..n] : n \in Nat} :
                x[2] \in [1..Len(x[1]) -> 1..Len(x[1])]}
Scales ==
  {x \in Growing \X Positive \X (UNION {[1..n -> Named] : n \in Nat})
         \X (UNION {[1..n -> Seq(Keys)] : n \in Nat}) :
     x[3] \in [1..Len(x[1]) -> Named] /\ x[4] \in [1..Len(x[1]) -> Seq(Keys)]}
PlainRequest == {o \in Request : o.kind # "READMODIFYWRITE"}

Families ==
  [get_put |-> {B!GetPut(t) : t \in Tasks},
   put_get_inter_hashed_key |-> {B!PutGetInterHashedKey(t) : t \in Tasks},
   get_put_2 |-> {B!GetPut2(t) : t \in Tasks},
   get_put_hashed_key |-> {B!GetPutHashedKey(t) : t \in Tasks},
   put_get_hist_count |-> {B!PutGetHistCount(x[1], x[2]) : x \in Reordered},
   put_get_hist_random |-> {B!PutGetHistRandom(x[1], x[2]) : x \in Reordered},
   simple |-> {B!Simple(x[1], x[2]) : x \in Value \X Value},
   updateBenchmark |-> {B!UpdateBenchmark(x[1], x[2]) : x \in Nat \X Positive},
   microBenchmark |-> {B!MicroBenchmark(x[1], x[2], x[3], x[4]) :
                         x \in Nat \X Positive \X Seq(Named) \X Seq(Keys)},
   microseqBenchmark |-> {B!MicroSeqBenchmark(x[1], x[2], x[3], x[4]) :
                            x \in Nat \X Positive \X Nat \X Positive},
   rangeBenchmark |-> {B!RangeBenchmark(x[1], x[2], x[3], x[4]) :
                         x \in Nat \X Positive \X Seq(Nat) \X Int},
   lineageBenchmarkV1 |-> {B!LineageBenchmarkV1(x[1], x[2], x[3], x[4], x[5], x[6]) :
                             x \in Nat \X Positive \X Nat \X Named \X Nat \X (Nat \cup {None})},
   lineageBenchmarkV2 |-> {B!LineageBenchmarkV2(x[1], x[2], x[3], x[4], x[5]) :
                             x \in Nat \X Nat \X Named \X Nat \X (Nat \cup {None})},
   simple_payment |-> {B!SimplePayment(x[1], x[2], x[3]) :
                         x \in Positive \X Positive \X Seq(Transfers)},
   trace_replay |-> {B!TraceReplay(t) : t \in Seq([op : {"BatchGet", "put"}, key : Keys])},
   scaleBenchmark |-> {B!ScaleBenchmark(x[1], x[2], x[3], x[4]) : x \in Scales},
   ycsb_simple |-> {B!YcsbSimple(x[1], x[2], x[3]) :
                      x \in Positive \X Positive \X Seq(PlainRequest)},
   ycsb_modify |-> {B!YcsbSimple(x[1], x[2], x[3]) :
                      x \in Positive \X Positive \X Seq(Request)}]

(* What the theorems about all plans ask of a plan of the program. *)
Sound(name, p) ==
  /\ ExpectsNothing(p) \/ Answerable(p)
  /\ name \in Newly => ReadsNewest(p)
  /\ name \notin NotReading => Ordered(p) /\ ReadsAfterCommits(p)
  /\ name # "ycsb_modify" =>
       \/ Ordered(p) /\ Lawful(p)
       \/ \E i \in DOMAIN p : p[i].op \in {"put", "delete"} /\ p[i].version = 0
  /\ Settles(p) => Purses(p)
  /\ name = "ycsb_simple" => Noting(p)

LEMMA TestedIsSound ==
  ASSUME NEW name, name # "ycsb_simple", NEW p, NEW hi \in Nat, Tested(p, hi), name \in Newly => ReadsNewest(p),
         ~Settles(p)
  PROVE  Sound(name, p)
BY TestedIsLawful DEF Sound, Answerable

LEMMA TimedIsSound ==
  ASSUME NEW name, name \notin Newly, name # "ycsb_simple", NEW p, NEW lo \in Nat, NEW hi \in Int, Timed(p, lo, hi),
         lo = 0 \/ Purses(p)
  PROVE  Sound(name, p)
<1>1. lo = 0 \/ lo >= 1
  OBVIOUS
<1>2. hi < 0 \/ hi >= 0
  OBVIOUS
<1>3. Settles(p) => Purses(p)
  BY <1>1, TimedSettlesNothing
<1> QED BY <1>1, <1>2, <1>3, TimedIsLawful DEF Sound

LEMMA TestsAreSound ==
  ASSUME NEW tasks \in Tasks
  PROVE  /\ Sound("get_put", B!GetPut(tasks))
         /\ Sound("put_get_inter_hashed_key", B!PutGetInterHashedKey(tasks))
         /\ Sound("get_put_2", B!GetPut2(tasks))
         /\ Sound("get_put_hashed_key", B!GetPutHashedKey(tasks))
<1>1. Len(tasks) \in Nat /\ DOMAIN tasks = 1..Len(tasks) /\ tasks \in Seq(Task)
  BY DEF Tasks
<1>2. Sound("get_put", B!GetPut(tasks))
  BY <1>1, GetPutIsTested, TestsSettleNothing, TestedIsSound
<1>3. Sound("put_get_inter_hashed_key", B!PutGetInterHashedKey(tasks))
  BY <1>1, PutGetInterIsTested, TestsSettleNothing, TestedIsSound
<1>4. B!InOrder(tasks) \in [1..Len(tasks) -> 1..Len(tasks)]
  BY <1>1 DEF B!InOrder
<1>5. /\ Tested(B!PutAll(tasks) \o B!GetAll(tasks, B!InOrder(tasks)), Len(tasks))
      /\ ~Settles(B!PutAll(tasks) \o B!GetAll(tasks, B!InOrder(tasks)))
  BY <1>1, <1>4, PutAllGetAll, TestsSettleNothing
<1>6. "get_put_2" \notin Newly /\ "get_put_hashed_key" \notin Newly
  BY DEF Newly
<1> QED BY <1>1, <1>2, <1>3, <1>5, <1>6, TestedIsSound DEF B!GetPut2, B!GetPutHashedKey

LEMMA HistoriesAreSound ==
  ASSUME NEW x \in Reordered
  PROVE  /\ Sound("put_get_hist_count", B!PutGetHistCount(x[1], x[2]))
         /\ Sound("put_get_hist_random", B!PutGetHistRandom(x[1], x[2]))
<1>1. x[1] \in Seq(Task) /\ x[2] \in [1..Len(x[1]) -> 1..Len(x[1])] /\ Len(x[1]) \in Nat
  BY DEF Reordered, Tasks
<1>2. /\ Tested(B!PutAll(x[1]) \o B!GetAll(x[1], x[2]), Len(x[1]))
      /\ ~Settles(B!PutAll(x[1]) \o B!GetAll(x[1], x[2]))
  BY <1>1, PutAllGetAll, TestsSettleNothing
<1>3. "put_get_hist_count" \notin Newly /\ "put_get_hist_random" \notin Newly
  BY DEF Newly
<1> QED BY <1>1, <1>2, <1>3, TestedIsSound DEF B!PutGetHistCount, B!PutGetHistRandom

LEMMA FamiliesAreSound ==
  ASSUME Fill \in Value, Opening \in Value
  PROVE  \A name \in DOMAIN Families : \A p \in Families[name] : Sound(name, p)
<1>1. \A p \in Families["get_put"] : Sound("get_put", p)
  BY TestsAreSound DEF Families
<1>2. \A p \in Families["put_get_inter_hashed_key"] : Sound("put_get_inter_hashed_key", p)
  BY TestsAreSound DEF Families
<1>3. \A p \in Families["get_put_2"] : Sound("get_put_2", p)
  BY TestsAreSound DEF Families
<1>4. \A p \in Families["get_put_hashed_key"] : Sound("get_put_hashed_key", p)
  BY TestsAreSound DEF Families
<1>5. \A p \in Families["put_get_hist_count"] : Sound("put_get_hist_count", p)
  BY HistoriesAreSound DEF Families
<1>6. \A p \in Families["put_get_hist_random"] : Sound("put_get_hist_random", p)
  BY HistoriesAreSound DEF Families
<1>7. \A p \in Families["simple"] : Sound("simple", p)
  <2>1. \A x \in Value \X Value : x[1] \in Value /\ x[2] \in Value
    OBVIOUS
  <2>2. "simple" \notin Newly
    BY DEF Newly
  <2>3. \A x \in Value \X Value : Sound("simple", B!Simple(x[1], x[2]))
    BY <2>1, <2>2, SimpleIsTested, SimpleSettlesNothing DEF Sound, Answerable
  <2> QED BY <2>3 DEF Families
<1>8. \A p \in Families["updateBenchmark"] : Sound("updateBenchmark", p)
  <2>1. ASSUME NEW x \in Nat \X Positive
        PROVE  Sound("updateBenchmark", B!UpdateBenchmark(x[1], x[2]))
    <3>1. x[1] \in Nat /\ x[2] \in Nat \ {0} /\ 0 \in Nat
      BY DEF Positive
    <3>2. Timed(B!UpdateBenchmark(x[1], x[2]), 0, x[1])
      BY <3>1, LoadIsTimed DEF B!UpdateBenchmark
    <3> QED BY <3>1, <3>2, TimedIsSound DEF Newly
  <2> QED BY <2>1 DEF Families
<1>9. \A p \in Families["microBenchmark"] : Sound("microBenchmark", p)
  <2>1. ASSUME NEW x \in Nat \X Positive \X Seq(Named) \X Seq(Keys)
        PROVE  Sound("microBenchmark", B!MicroBenchmark(x[1], x[2], x[3], x[4]))
    <3>1. x[1] \in Nat /\ x[2] \in Nat \ {0} /\ x[3] \in Seq(Named) /\ x[4] \in Seq(Keys) /\ 0 \in Nat
      BY DEF Positive
    <3>2. Timed(B!MicroBenchmark(x[1], x[2], x[3], x[4]), 0, x[1] + Len(x[3]))
      BY <3>1, MicroIsTimed
    <3>3. x[1] + Len(x[3]) \in Nat
      BY <3>1
    <3> QED BY <3>1, <3>2, <3>3, TimedIsSound DEF Newly
  <2> QED BY <2>1 DEF Families
<1>10. \A p \in Families["microseqBenchmark"] : Sound("microseqBenchmark", p)
  <2>1. ASSUME NEW x \in Nat \X Positive \X Nat \X Positive
        PROVE  Sound("microseqBenchmark", B!MicroSeqBenchmark(x[1], x[2], x[3], x[4]))
    <3>1. x[1] \in Nat /\ x[2] \in Nat \ {0} /\ x[3] \in Nat /\ x[4] \in Nat \ {0} /\ 0 \in Nat
      BY DEF Positive
    <3>2. Timed(B!MicroSeqBenchmark(x[1], x[2], x[3], x[4]), 0, x[1] + x[3])
      BY <3>1, MicroSeqIsTimed
    <3>3. x[1] + x[3] \in Nat
      BY <3>1
    <3> QED BY <3>1, <3>2, <3>3, TimedIsSound DEF Newly
  <2> QED BY <2>1 DEF Families
<1>11. \A p \in Families["rangeBenchmark"] : Sound("rangeBenchmark", p)
  <2>1. ASSUME NEW x \in Nat \X Positive \X Seq(Nat) \X Int
        PROVE  Sound("rangeBenchmark", B!RangeBenchmark(x[1], x[2], x[3], x[4]))
    <3>1. x[1] \in Nat /\ x[2] \in Nat \ {0} /\ x[3] \in Seq(Nat) /\ x[4] \in Int /\ 0 \in Nat
      BY DEF Positive
    <3>2. Timed(B!RangeBenchmark(x[1], x[2], x[3], x[4]), 0, x[1])
      BY <3>1, RangeIsTimed
    <3> QED BY <3>1, <3>2, TimedIsSound DEF Newly
  <2> QED BY <2>1 DEF Families
<1>12. \A p \in Families["lineageBenchmarkV1"] : Sound("lineageBenchmarkV1", p)
  <2>1. ASSUME NEW x \in Nat \X Positive \X Nat \X Named \X Nat \X (Nat \cup {None})
        PROVE  Sound("lineageBenchmarkV1", B!LineageBenchmarkV1(x[1], x[2], x[3], x[4], x[5], x[6]))
    <3>1. /\ x[1] \in Nat /\ x[2] \in Nat \ {0} /\ x[3] \in Nat /\ x[4] \in Named
          /\ x[5] \in Nat /\ x[6] \in Nat \cup {None} /\ 0 \in Nat
      BY DEF Positive
    <3>2. Timed(B!LineageBenchmarkV1(x[1], x[2], x[3], x[4], x[5], x[6]), 0, x[1] + x[3])
      BY <3>1, LineageV1IsTimed
    <3>3. x[1] + x[3] \in Nat
      BY <3>1
    <3> QED BY <3>1, <3>2, <3>3, TimedIsSound DEF Newly
  <2> QED BY <2>1 DEF Families
<1>13. \A p \in Families["lineageBenchmarkV2"] : Sound("lineageBenchmarkV2", p)
  <2>1. ASSUME NEW x \in Nat \X Nat \X Named \X Nat \X (Nat \cup {None})
        PROVE  Sound("lineageBenchmarkV2", B!LineageBenchmarkV2(x[1], x[2], x[3], x[4], x[5]))
    <3>1. /\ x[1] \in Nat /\ x[2] \in Nat /\ x[3] \in Named
          /\ x[4] \in Nat /\ x[5] \in Nat \cup {None} /\ 0 \in Nat
      OBVIOUS
    <3>2. Timed(B!LineageBenchmarkV2(x[1], x[2], x[3], x[4], x[5]), 0, x[1] + x[2])
      BY <3>1, LineageV2IsTimed
    <3>3. x[1] + x[2] \in Nat
      BY <3>1
    <3> QED BY <3>1, <3>2, <3>3, TimedIsSound DEF Newly
  <2> QED BY <2>1 DEF Families
<1>14. \A p \in Families["simple_payment"] : Sound("simple_payment", p)
  <2>1. ASSUME NEW x \in Positive \X Positive \X Seq(Transfers)
        PROVE  Sound("simple_payment", B!SimplePayment(x[1], x[2], x[3]))
    <3>1. /\ x[1] \in Nat \ {0} /\ x[2] \in Nat \ {0} /\ x[3] \in Seq(Transfers) /\ 1 \in Nat
      BY DEF Positive
    <3>2. /\ Timed(B!SimplePayment(x[1], x[2], x[3]), 1, x[1] + Len(x[3]))
          /\ Purses(B!SimplePayment(x[1], x[2], x[3]))
      BY <3>1, PaymentIsTimed, PaymentPurses
    <3>3. x[1] + Len(x[3]) \in Nat
      BY <3>1
    <3> QED BY <3>1, <3>2, <3>3, TimedIsSound DEF Newly
  <2> QED BY <2>1 DEF Families
<1>15. \A p \in Families["trace_replay"] : Sound("trace_replay", p)
  <2>1. ASSUME NEW t \in Seq([op : {"BatchGet", "put"}, key : Keys])
        PROVE  Sound("trace_replay", B!TraceReplay(t))
    BY TraceIsAnswerable, TraceSettlesNothing DEF Sound, NotReading, Newly
  <2> QED BY <2>1 DEF Families
<1>16. \A p \in Families["scaleBenchmark"] : Sound("scaleBenchmark", p)
  <2>1. ASSUME NEW x \in Scales
        PROVE  Sound("scaleBenchmark", B!ScaleBenchmark(x[1], x[2], x[3], x[4]))
    <3>1. /\ x[1] \in Growing /\ x[2] \in Nat \ {0} /\ x[3] \in [1..Len(x[1]) -> Named]
          /\ x[4] \in [1..Len(x[1]) -> Seq(Keys)] /\ 0 \in Nat
      BY DEF Scales, Positive
    <3>2. PICK hi \in Int : Timed(B!ScaleBenchmark(x[1], x[2], x[3], x[4]), 0, hi)
      BY <3>1, ScaleIsTimed
    <3> QED BY <3>1, <3>2, TimedIsSound DEF Newly
  <2> QED BY <2>1 DEF Families
<1>17. \A p \in Families["ycsb_simple"] : Sound("ycsb_simple", p)
  <2>1. ASSUME NEW x \in Positive \X Positive \X Seq(PlainRequest)
        PROVE  Sound("ycsb_simple", B!YcsbSimple(x[1], x[2], x[3]))
    <3>1. x[1] \in Nat \ {0} /\ x[2] \in Nat \ {0} /\ x[3] \in Seq(PlainRequest)
      BY DEF Positive
    <3>2. PICK ops : ops = x[3]
      OBVIOUS
    <3>3. /\ ops \in Seq(Request)
          /\ \A i \in DOMAIN ops : ops[i].kind # "READMODIFYWRITE"
      <4>1. PlainRequest \subseteq Request
        BY DEF PlainRequest
      <4>2. \A i \in DOMAIN ops : ops[i] \in PlainRequest
        BY <3>1, <3>2
      <4> QED BY <3>1, <3>2, <4>1, <4>2 DEF PlainRequest
    <3>4. PICK p : p = B!YcsbSimple(x[1], x[2], ops)
      OBVIOUS
    <3>5. p \in Seq(Mild) /\ Noting(p)
      BY <3>1, <3>3, <3>4, YcsbNotes
    <3> QED BY <3>2, <3>4, <3>5, MildPlans DEF Sound, Noting, NotReading, Newly
  <2> QED BY <2>1 DEF Families
<1>18. \A p \in Families["ycsb_modify"] : Sound("ycsb_modify", p)
  <2>1. ASSUME NEW x \in Positive \X Positive \X Seq(Request)
        PROVE  Sound("ycsb_modify", B!YcsbSimple(x[1], x[2], x[3]))
    <3>1. x[1] \in Nat \ {0} /\ x[2] \in Nat \ {0} /\ x[3] \in Seq(Request)
      BY DEF Positive
    <3>2. PICK p : p = B!YcsbSimple(x[1], x[2], x[3])
      OBVIOUS
    <3>3. p \in Seq(Mild)
      BY <3>1, <3>2, YcsbNotes
    <3> QED BY <3>2, <3>3, MildPlans DEF Sound, NotReading, Newly
  <2> QED BY <2>1 DEF Families
<1>19. DOMAIN Families =
         {"get_put", "put_get_inter_hashed_key", "get_put_2", "get_put_hashed_key",
          "put_get_hist_count", "put_get_hist_random", "simple", "updateBenchmark",
          "microBenchmark", "microseqBenchmark", "rangeBenchmark", "lineageBenchmarkV1",
          "lineageBenchmarkV2", "simple_payment", "trace_replay", "scaleBenchmark",
          "ycsb_simple", "ycsb_modify"}
  BY DEF Families
<1> QED BY <1>1, <1>2, <1>3, <1>4, <1>5, <1>6, <1>7, <1>8, <1>9, <1>10, <1>11, <1>12, <1>13,
           <1>14, <1>15, <1>16, <1>17, <1>18, <1>19

ProgramsOfFamilies ==
  /\ Fill \in Value /\ Opening \in Value
  /\ DOMAIN Programs \subseteq DOMAIN Families
  /\ \A name \in DOMAIN Programs : Programs[name] \subseteq Families[name]

LEMMA ProgramsAreSound ==
  ASSUME ProgramsOfFamilies
  PROVE  \A name \in DOMAIN Programs : \A p \in Programs[name] : Sound(name, p)
BY FamiliesAreSound DEF ProgramsOfFamilies

(* Every get of the programs is at a version that was committed, for all    *)
(* options, keys and values, of every program but those ReadsCommitted      *)
(* names; in particular the versions that microBenchmark, rangeBenchmark    *)
(* and both lineageBenchmarks reach by stepping back from their counter.    *)
THEOREM ProgramsReadCommits ==
  ASSUME BalancesAreNumbers, ProgramsOfFamilies
  PROVE  WorkloadSpec => []ReadsCommitted
<1>1. \A name \in DOMAIN Programs \ NotReading : \A p \in Programs[name] :
        Ordered(p) /\ ReadsAfterCommits(p)
  BY ProgramsAreSound DEF Sound
<1> QED BY <1>1, ReadsAreCommitted

(* wrong_cnt of the put and get tests, for all tasks of any length: only    *)
(* reads below the horizon of a checkpoint are counted, and nothing at all  *)
(* where a version is read before the next is committed.                    *)
THEOREM ProgramsCountRight ==
  ASSUME BalancesAreNumbers, ProgramsOfFamilies
  PROVE  WorkloadSpec => []WrongIsRight
<1>1. \A name \in DOMAIN Programs : \A p \in Programs[name] :
        /\ ExpectsNothing(p) \/ Answerable(p)
        /\ name \in Newly => ReadsNewest(p)
  BY ProgramsAreSound DEF Sound
<1> QED BY <1>1, WrongIsRightHolds

(* Every call the programs make is one the versioned map promises to        *)
(* answer, but for those that begin at version 0 and READMODIFYWRITE.       *)
THEOREM ProgramsCallLawfully ==
  ASSUME BalancesAreNumbers, ProgramsOfFamilies
  PROVE  WorkloadSpec => CallsLawful
<1>1. \A name \in DOMAIN Programs \ {"ycsb_modify"} : \A p \in Programs[name] :
        \/ Ordered(p) /\ Lawful(p)
        \/ \E i \in DOMAIN p : p[i].op \in {"put", "delete"} /\ p[i].version = 0
  BY ProgramsAreSound DEF Sound
<1> QED BY <1>1, CallsAreLawful

(* The payments of simple_payment neither make nor lose money, whatever the *)
(* transactions and however many accounts: a version in which no account    *)
(* pays or is paid twice has the money of the version before.  A balance is *)
(* read at the version before and that is the newest one until the batch is *)
(* committed; what is taken from the sender is owed to the receiver until   *)
(* the next put.  The other programs pay nothing.                           *)
THEOREM ProgramsConserveMoney ==
  ASSUME BalancesAreNumbers, ProgramsOfFamilies
  PROVE  WorkloadSpec => []Conserved
<1>1. \A name \in DOMAIN Programs : \A p \in Programs[name] : Settles(p) => Purses(p)
  BY ProgramsAreSound DEF Sound
<1> QED BY <1>1, ConservedHolds

(* The verification of ycsb_simple finds nothing wrong, whatever is read,   *)
(* updated, inserted and scanned: each pair it noted is in the map of its   *)
(* version once that is committed.  What it read it noted at the last       *)
(* version committed, also when the loading ended at a version it does not  *)
(* commit, and every put of the version of a transaction is noted, so that  *)
(* none of them can be followed by one that is not.                         *)
THEOREM ProgramsNoteRight ==
  ASSUME BalancesAreNumbers, ProgramsOfFamilies
  PROVE  WorkloadSpec => []BufferExact
<1>1. \A name \in DOMAIN Programs : \A p \in Programs[name] :
        name = "ycsb_simple" => Noting(p)
  BY ProgramsAreSound DEF Sound
<1> QED BY <1>1, BufferExactHolds

=============================================================================
