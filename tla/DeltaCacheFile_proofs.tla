------------------------ MODULE DeltaCacheFile_proofs ------------------------
(***************************************************************************)
(* Proofs about DeltaCacheFile: the file gives back what the last flush    *)
(* was to leave in it, and a page comes back with a last page key of its   *)
(* own, for any number of pages, slots and sessions.                       *)
(*                                                                         *)
(* The invariant follows the file through a flush.  Before it, the file    *)
(* ends with an index block that names the page of every head filed and    *)
(* nothing else (Good).  While pages are written, those not yet written    *)
(* are the cached ones in unwritten, all the others lie where              *)
(* pid_to_offset has them and two never overlap (FlushOK).  After the cut  *)
(* they still do, but for the last unit of one, which is padding           *)
(* (IndexOK); the index block put behind them makes the file good again.   *)
(***************************************************************************)
EXTENDS DeltaCacheFile, FiniteSetTheorems, WellFoundedInduction, TLAPS

(* A non-empty bounded set of naturals has a greatest element: what every   *)
(* CHOOSE of a last rests on.                                               *)
LEMMA Greatest ==
  ASSUME NEW N \in Nat, NEW S \in SUBSET (0..N), S # {}
  PROVE  \E m \in S : \A k \in S : k <= m
<1> DEFINE D == {N - x : x \in S}
           R == OpToRel(<, Nat)
<1>1. \A x \in S : N - x \in Nat
  OBVIOUS
<1>2. D \in SUBSET Nat /\ D # {}
  BY <1>1
<1>3. IsWellFoundedOn(R, Nat)
  BY NatLessThanWellFounded
<1>4. \A r : r \in R <=> r \in Nat \X Nat /\ r[1] < r[2]
  BY DEF OpToRel
<1> HIDE DEF R
<1>5. PICK d \in D : \A e \in D : ~ (<<e, d>> \in R)
  <2> HIDE DEF D
  <2> QED BY <1>2, <1>3, WFMin
<1>6. \A e \in D : ~ (e < d)
  BY <1>2, <1>4, <1>5
<1>7. PICK m \in S : d = N - m
  BY <1>5
<1>8. \A k \in S : ~ (N - k < N - m)
  BY <1>6, <1>7
<1>9. \A k \in S : k \in 0..N
  OBVIOUS
<1> QED BY <1>8, <1>9

Names == Pid \cup {Strange}

(* Units, and files as sequences of them. *)
Units ==
  [tag : {"zero"}] \cup [tag : {"page"}, key : LastKey]
  \cup [tag : {"entry"}, pid : Names, offset : Offset]
  \cup [tag : {"size"}, size : Nat]

(* No two pages overlap. *)
Apart(offsets) ==
  \A p, q \in Pid :
    p # q /\ offsets[p] # None /\ offsets[q] # None =>
      offsets[p] + PageUnits <= offsets[q] \/ offsets[q] + PageUnits <= offsets[p]

(* The unit of content of a page with this key is at the offset. *)
Holds(f, o, key) == o < Len(f) /\ f[o + 1] = PageUnit(key)
HeadOf(p, heads) == [pid |-> p, version |-> heads[p]]

(* The file ends with an index block of the pages of these heads. *)
Good(f, heads) ==
  /\ f \in Seq(Units) /\ f # <<>>
  /\ f[Len(f)].tag = "size" /\ Readable(f)
  /\ OffsetsIn(f) \in [Names -> Offset \cup {None}]
  /\ OffsetsIn(f)[Strange] = None /\ Apart(OffsetsIn(f))
  /\ \A p \in Pid : OffsetsIn(f)[p] = None <=> heads[p] = None
  /\ \A p \in Pid : OffsetsIn(f)[p] # None =>
       /\ OffsetsIn(f)[p] + PageUnits <= Len(f) - SizeAtEnd(f)
       /\ Holds(f, OffsetsIn(f)[p], HeadOf(p, heads))

-----------------------------------------------------------------------------
(* The invariant.                                                          *)

CacheOK ==
  /\ cache \in [Pid -> LastKey \cup {None}]
  /\ \A p \in Cached : cache[p].pid = p
  /\ Cardinality(Cached) <= max_size

TypesOK ==
  /\ phase \in {"closed", "open", "pages", "index", "failed"}
  /\ spoilt \in BOOLEAN
  /\ pid_to_offset \in [Names -> Offset \cup {None}]
  /\ pid_to_last_pagekey \in [Pid -> Versions \cup {None}]
  /\ filed \in [Pid -> Versions \cup {None}]
  /\ unwritten \in Seq(Pid)
  /\ unwritten # <<>> => phase = "pages"
  /\ phase = "closed" => pid_to_offset = NoOffsets /\ Cached = {}
  /\ phase = "failed" => spoilt
  /\ ~spoilt => file \in Seq(Units) \/ (phase = "closed" /\ file = None)

(* A flush that wrote no page yet can be cut short without harm. *)
Untouched ==
  /\ ~spoilt /\ file # <<>> /\ ~(phase = "closed" /\ file = None)
  /\ \/ phase \in {"closed", "open"}
     \/ phase = "pages" /\ Len(unwritten) = Cardinality(Cached)
StillGood == Untouched => Good(file, filed)

OpenOK ==
  phase = "open" =>
    /\ ~spoilt => \/ pid_to_offset = NoOffsets
                  \/ file # <<>> /\ pid_to_offset = OffsetsIn(file)
    /\ spoilt => \/ pid_to_offset = NoOffsets
                 \/ file = <<>> /\ \A p \in Names : pid_to_offset[p] \in {None, 0, PageUnits}
    /\ ~spoilt => \A p \in Pid : pid_to_offset[p] # None => p \in named

(* The key a page has in the file once the flush is over. *)
KeyOf(p) == IF p \in Cached THEN cache[p] ELSE HeadOf(p, filed)

Placed ==
  /\ pid_to_offset[Strange] = None /\ Apart(pid_to_offset)
  /\ \A p \in Cached : pid_to_offset[p] # None
  /\ \A p \in Pid \ Cached : pid_to_offset[p] # None => filed[p] # None

FlushOK ==
  phase = "pages" =>
    /\ \A i \in DOMAIN unwritten : unwritten[i] \in Cached /\ pid_to_offset[unwritten[i]] # None
    /\ \A i, j \in DOMAIN unwritten : unwritten[i] = unwritten[j] => i = j
    /\ Len(unwritten) <= Cardinality(Cached)
    /\ ~spoilt =>
         /\ Placed
         /\ \A p \in Pid : pid_to_offset[p] # None =>
              \/ \E i \in DOMAIN unwritten : unwritten[i] = p
              \/ /\ pid_to_offset[p] + PageUnits <= Len(file)
                 /\ Holds(file, pid_to_offset[p], KeyOf(p))
         /\ file # <<>> => SizeAtEnd(file) \in Nat /\ SizeAtEnd(file) < Len(file)

IndexOK ==
  phase = "index" /\ ~spoilt =>
    /\ Placed
    /\ \A p \in Pid : pid_to_offset[p] # None =>
         /\ pid_to_offset[p] + PageUnits <= Len(file) + 1
         /\ Holds(file, pid_to_offset[p], KeyOf(p))

Inv == CacheOK /\ TypesOK /\ StillGood /\ OpenOK /\ FlushOK /\ IndexOK /\ HeadKept

-----------------------------------------------------------------------------
(* The operators of the module.                                            *)

(* Offsets are naturals up to a bound, and the pids are finitely many. *)
LEMMA Sizes ==
  /\ IsFiniteSet(Pid) /\ Cardinality(Pid) \in Nat
  /\ \E B \in Nat : Offset = 0..B
  /\ Offset \subseteq Nat /\ 0 \in Offset /\ None \notin Offset
  /\ PageUnits \in Nat /\ PageUnits >= 2
<1>1. IsFiniteSet(Pid) /\ PageUnits \in Nat /\ PageUnits >= 2 /\ MaxUnits \in Nat
  BY CacheFileAssumption
<1>2. Cardinality(Pid) \in Nat
  BY <1>1, FS_CardinalityType
<1>3. \A c \in Nat : PageUnits * (c + 1) \in Nat
  BY <1>1
<1>4. PICK B \in Nat : B = MaxUnits + PageUnits * (Cardinality(Pid) + 1)
  BY <1>1, <1>2, <1>3
<1>5. Offset = 0..B
  BY <1>4 DEF Offset
<1>6. Offset \subseteq Nat /\ 0 \in Offset /\ None \notin Offset
  BY <1>5, CacheFileAssumption
<1> QED
  BY <1>1, <1>2, <1>5, <1>6

LEMMA Versioned ==
  /\ Strange \notin Pid /\ None \notin Names /\ None \notin Versions
  /\ Versions \subseteq Nat /\ 0 \in Versions
BY CacheFileAssumption DEF Names, Versions

(* A cached page is not None, so that Cached is as finite as Pid. *)
LEMMA CachedFinite ==
  /\ IsFiniteSet(Cached) /\ Cardinality(Cached) \in Nat
  /\ Cardinality(Cached) <= Cardinality(Pid)
BY Sizes, FS_Subset, FS_CardinalityType DEF Cached

(* The greatest of two. *)
LEMMA MaxOfTwo ==
  ASSUME NEW a \in Nat, NEW b \in Nat
  PROVE  /\ Max({a, b}) \in Nat /\ a <= Max({a, b}) /\ b <= Max({a, b})
         /\ Max({a, b}) \in {a, b}
<1>1. \E x \in {a, b} : \A y \in {a, b} : x >= y
  OBVIOUS
<1>2. Max({a, b}) \in {a, b} /\ \A y \in {a, b} : Max({a, b}) >= y
  BY <1>1 DEF Max
<1> QED BY <1>2

(* A new offset is one page behind the greatest, if there is one. *)
LEMMA NextIsBehind ==
  ASSUME NEW offsets \in [Names -> Offset \cup {None}]
  PROVE  /\ NextOffset(offsets) \in Nat
         /\ \A p \in Names : offsets[p] # None =>
              offsets[p] + PageUnits <= NextOffset(offsets)
         /\ \/ NextOffset(offsets) = 0
            \/ \E p \in Names : /\ offsets[p] # None
                                /\ NextOffset(offsets) = offsets[p] + PageUnits
<1> DEFINE given == OffsetsOf(offsets)
<1>1. PICK B \in Nat : given \subseteq 0..B
  BY Sizes DEF OffsetsOf
<1>2. \A p \in Names : offsets[p] # None => offsets[p] \in given
  BY DEF OffsetsOf
<1>3. \A o \in given : \E p \in Names : offsets[p] = o /\ offsets[p] # None
  BY DEF OffsetsOf
<1>4. CASE given = {}
  BY <1>2, <1>4, Sizes DEF NextOffset
<1>5. CASE given # {}
  <2> HIDE DEF given
  <2>1. \E m \in given : \A k \in given : k <= m
    BY <1>1, <1>5, Greatest
  <2>2. \E m \in given : \A k \in given : m >= k
    BY <1>1, <2>1
  <2>3. PICK m \in given : m = Max(given) /\ \A k \in given : m >= k
    BY <2>2 DEF Max
  <2>4. NextOffset(offsets) = m + PageUnits
    BY <1>5, <2>3 DEF NextOffset, given
  <2>5. m \in Nat /\ PageUnits \in Nat
    BY <1>1, <2>3, Sizes
  <2>6. \A p \in Names : offsets[p] # None => offsets[p] \in Nat /\ offsets[p] <= m
    <3>1. \A k \in given : k \in Nat /\ k <= m
      BY <1>1, <2>3
    <3> QED BY <1>2, <3>1
  <2>7. \A x \in Nat : x <= m => x + PageUnits <= m + PageUnits
    BY <2>5
  <2>8. m + PageUnits \in Nat
    BY <2>5
  <2>9. \E p \in Names : offsets[p] # None /\ m = offsets[p]
    BY <1>3, <2>3
  <2> QED BY <2>4, <2>6, <2>7, <2>8, <2>9
<1> QED BY <1>4, <1>5

(* An injective enumeration as long as the set leaves nothing out. *)
LEMMA CountsAll ==
  ASSUME NEW S, IsFiniteSet(S), NEW f \in [1..Cardinality(S) -> S],
         \A i, j \in 1..Cardinality(S) : f[i] = f[j] => i = j
  PROVE  \A x \in S : \E i \in 1..Cardinality(S) : f[i] = x
<1> DEFINE n == Cardinality(S)
<1>1. n \in Nat
  BY FS_CardinalityType
<1>2. IsFiniteSet(1..n) /\ Cardinality(1..n) = n
  BY <1>1, FS_Interval
<1>3. f \in Injection(1..n, S)
  BY DEF Injection, IsInjective
<1>4. f \in Surjection(1..n, S)
  BY <1>2, <1>3, FS_Injection
<1> QED BY <1>4 DEF Surjection

(* What a unit is by its tag. *)
LEMMA UnitFacts ==
  ASSUME NEW u \in Units
  PROVE  /\ u.tag = "size" => u.size \in Nat
         /\ u.tag = "entry" => u.pid \in Names /\ u.offset \in Nat
         /\ u.tag = "page" => u.key \in LastKey
<1>1. CASE u \in [tag : {"zero"}]
  BY <1>1
<1>2. CASE u \in [tag : {"page"}, key : LastKey]
  BY <1>2
<1>3. CASE u \in [tag : {"entry"}, pid : Names, offset : Offset]
  BY <1>3, Sizes
<1>4. CASE u \in [tag : {"size"}, size : Nat]
  BY <1>4
<1> QED BY <1>1, <1>2, <1>3, <1>4 DEF Units

LEMMA MadeUnits ==
  /\ Zero \in Units /\ Zero.tag = "zero"
  /\ \A key \in LastKey :
       /\ PageUnit(key) \in Units /\ PageUnit(key).tag = "page"
       /\ PageUnit(key).key = key
  /\ \A p \in Names, o \in Offset :
       /\ Entry(p, o) \in Units /\ Entry(p, o).tag = "entry"
       /\ Entry(p, o).pid = p /\ Entry(p, o).offset = o
  /\ \A n \in Nat :
       SizeUnit(n) \in Units /\ SizeUnit(n).tag = "size" /\ SizeUnit(n).size = n
BY DEF Zero, PageUnit, Entry, SizeUnit, Units

(* Two sequences joined. *)
LEMMA Joined ==
  ASSUME NEW S, NEW s \in Seq(S), NEW r \in Seq(S)
  PROVE  /\ s \o r \in Seq(S) /\ Len(s \o r) = Len(s) + Len(r)
         /\ \A i \in 1..Len(s) : (s \o r)[i] = s[i]
         /\ \A i \in 1..Len(r) : (s \o r)[Len(s) + i] = r[i]
OBVIOUS

(* A page is one unit of content, and zeros. *)
LEMMA PageFacts ==
  ASSUME NEW key \in LastKey
  PROVE  /\ PageOf(key) \in Seq(Units) /\ Len(PageOf(key)) = PageUnits
         /\ PageOf(key)[1] = PageUnit(key)
         /\ \A i \in 2..PageUnits : PageOf(key)[i] = Zero
<1> DEFINE head == <<PageUnit(key)>>
           zeros == [i \in 1..(PageUnits - 1) |-> Zero]
<1>1. PageUnits - 1 \in Nat
  BY Sizes
<1>2. head \in Seq(Units) /\ Len(head) = 1 /\ head[1] = PageUnit(key)
  BY MadeUnits
<1>3. /\ zeros \in Seq(Units) /\ Len(zeros) = PageUnits - 1
      /\ \A i \in 1..(PageUnits - 1) : zeros[i] = Zero
  BY <1>1, MadeUnits
<1>4. PageOf(key) = head \o zeros
  BY DEF PageOf
<1> HIDE DEF head, zeros
<1>5. /\ PageOf(key) \in Seq(Units) /\ Len(PageOf(key)) = 1 + (PageUnits - 1)
      /\ \A i \in 1..1 : PageOf(key)[i] = head[i]
      /\ \A i \in 1..(PageUnits - 1) : PageOf(key)[1 + i] = zeros[i]
  <2>1. head \in Seq(Units) /\ zeros \in Seq(Units)
    BY <1>2, <1>3
  <2>2. /\ head \o zeros \in Seq(Units) /\ Len(head \o zeros) = Len(head) + Len(zeros)
        /\ \A i \in 1..Len(head) : (head \o zeros)[i] = head[i]
        /\ \A i \in 1..Len(zeros) : (head \o zeros)[Len(head) + i] = zeros[i]
    BY <2>1, Joined
  <2> QED BY <1>2, <1>3, <1>4, <2>2
<1>6. PageOf(key)[1] = PageUnit(key) /\ 1 + (PageUnits - 1) = PageUnits
  BY <1>1, <1>2, <1>5, Sizes
<1>7. ASSUME NEW i \in 2..PageUnits PROVE PageOf(key)[i] = Zero
  <2>1. i - 1 \in 1..(PageUnits - 1) /\ 1 + (i - 1) = i
    BY Sizes
  <2> QED BY <1>3, <1>5, <2>1
<1> QED BY <1>5, <1>6, <1>7

(* A page written into a file leaves what lies outside of it, and the file *)
(* ends as before or with a zero.                                          *)
PageWritten(g, f, o, key) ==
  /\ g \in Seq(Units) /\ o + PageUnits <= Len(g) /\ Len(f) <= Len(g)
  /\ g[o + 1] = PageUnit(key)
  /\ \A j \in 1..Len(f) : j <= o \/ o + PageUnits < j => g[j] = f[j]
  /\ \/ g[Len(g)] = Zero
     \/ Len(g) = Len(f) /\ g[Len(g)] = f[Len(f)]

LEMMA WritesPage ==
  ASSUME NEW f \in Seq(Units), NEW o \in Nat, NEW key \in LastKey
  PROVE  PageWritten(Written(f, o, PageOf(key)), f, o, key)
<1> SUFFICES ASSUME NEW g, g = Written(f, o, PageOf(key)) PROVE PageWritten(g, f, o, key)
  OBVIOUS
<1> USE DEF PageWritten
<1> DEFINE units == PageOf(key)
           L == Max({Len(f), o + Len(units)})
<1>1. /\ units \in Seq(Units) /\ Len(units) = PageUnits
      /\ units[1] = PageUnit(key) /\ \A i \in 2..PageUnits : units[i] = Zero
  BY PageFacts
<1>2. Len(f) \in Nat /\ PageUnits \in Nat /\ PageUnits >= 2
  BY Sizes
<1>3. PICK m \in Nat : /\ m = L /\ Len(f) <= m /\ o + PageUnits <= m
                       /\ m = Len(f) \/ m = o + PageUnits
  <2>1. o + Len(units) = o + PageUnits /\ o + PageUnits \in Nat
    BY <1>1, <1>2
  <2> HIDE DEF units
  <2> QED BY <1>2, <2>1, MaxOfTwo
<1> DEFINE at(i) == IF i \in (o + 1)..(o + PageUnits) THEN units[i - o]
                    ELSE IF i <= Len(f) THEN f[i] ELSE Zero
<1>4. g = [i \in 1..m |-> at(i)]
  BY <1>1, <1>3 DEF Written
<1> HIDE DEF units, L
<1>5. \A i \in 1..m : at(i) \in Units
  <2> SUFFICES ASSUME NEW i \in 1..m PROVE at(i) \in Units
    OBVIOUS
  <2>1. CASE i \in (o + 1)..(o + PageUnits)
    <3>1. i - o \in 1..PageUnits
      BY <1>2, <2>1
    <3>2. units[i - o] \in Units
      BY <1>1, <3>1
    <3> QED BY <2>1, <3>2
  <2>2. CASE i \notin (o + 1)..(o + PageUnits) /\ i <= Len(f)
    <3>1. f[i] \in Units
      BY <1>2, <2>2
    <3> QED BY <2>2, <3>1
  <2>3. CASE i \notin (o + 1)..(o + PageUnits) /\ ~(i <= Len(f))
    BY <2>3, MadeUnits
  <2> QED BY <2>1, <2>2, <2>3
<1>6. g \in Seq(Units) /\ Len(g) = m /\ \A i \in 1..m : g[i] = at(i)
  <2> HIDE DEF at
  <2> QED BY <1>4, <1>5
<1>7. g[o + 1] = PageUnit(key)
  <2>1. o + 1 \in 1..m /\ o + 1 \in (o + 1)..(o + PageUnits) /\ (o + 1) - o = 1
    BY <1>2, <1>3
  <2> QED BY <1>1, <1>6, <2>1
<1>8. ASSUME NEW j \in 1..Len(f), j <= o \/ o + PageUnits < j PROVE g[j] = f[j]
  <2>1. j \in 1..m /\ j \notin (o + 1)..(o + PageUnits) /\ j <= Len(f)
    BY <1>2, <1>3, <1>8
  <2> QED BY <1>6, <2>1
<1>9. CASE m = o + PageUnits
  <2>1. m \in 1..m /\ m \in (o + 1)..(o + PageUnits) /\ m - o = PageUnits
        /\ PageUnits \in 2..PageUnits
    BY <1>2, <1>9
  <2>2. g[m] = Zero
    BY <1>1, <1>6, <2>1
  <2> QED BY <1>3, <1>6, <1>7, <1>8, <2>2
<1>10. CASE m # o + PageUnits
  <2>1. m = Len(f) /\ m \in 1..Len(f) /\ o + PageUnits < m
    BY <1>2, <1>3, <1>10
  <2> QED BY <1>3, <1>6, <1>7, <1>8, <2>1
<1> QED BY <1>9, <1>10

(* An index block put behind a file gives the offsets back. *)
LEMMA Enumerated ==
  ASSUME NEW S, IsFiniteSet(S)
  PROVE  /\ SetToSeq(S) \in [1..Cardinality(S) -> S]
         /\ \A i, j \in 1..Cardinality(S) : SetToSeq(S)[i] = SetToSeq(S)[j] => i = j
         /\ \A x \in S : \E i \in 1..Cardinality(S) : SetToSeq(S)[i] = x
<1>1. PICK f : f \in Bijection(1..Cardinality(S), S)
  BY FS_CardinalityType DEF ExistsBijection
<1>2. f \in [1..Cardinality(S) -> S] /\ IsInjective(f)
  BY <1>1 DEF Bijection, Injection
<1>3. SetToSeq(S) \in [1..Cardinality(S) -> S] /\ IsInjective(SetToSeq(S))
  BY <1>2 DEF SetToSeq
<1>4. \A i, j \in 1..Cardinality(S) : SetToSeq(S)[i] = SetToSeq(S)[j] => i = j
  BY <1>3 DEF IsInjective
<1> QED
  BY <1>3, <1>4, CountsAll

Appended(g, f, block, u) ==
  /\ g \in Seq(Units) /\ Len(g) = Len(f) + Len(block) + 1 /\ g[Len(g)] = u
  /\ \A j \in 1..Len(f) : g[j] = f[j]
  /\ \A i \in 1..Len(block) : g[Len(f) + i] = block[i]

LEMMA JoinedThree ==
  ASSUME NEW f \in Seq(Units), NEW block \in Seq(Units), NEW u \in Units
  PROVE  Appended(f \o block \o <<u>>, f, block, u)
<1> DEFINE S == Units
           n == Len(block)
           g == f \o block \o <<u>>
           h == f \o block
           last == <<u>>
<1>0. Len(f) \in Nat /\ n \in Nat
  OBVIOUS
<1>1. /\ h \in Seq(S) /\ Len(h) = Len(f) + n
      /\ \A j \in 1..Len(f) : h[j] = f[j]
      /\ \A i \in 1..n : h[Len(f) + i] = block[i]
  OBVIOUS
<1>2. last \in Seq(S) /\ Len(last) = 1 /\ last[1] = u /\ g = h \o last
  OBVIOUS
<1> HIDE DEF S, n, g, h, last
<1>3. /\ g \in Seq(S) /\ Len(g) = Len(h) + Len(last)
      /\ \A j \in 1..Len(h) : g[j] = h[j]
      /\ \A i \in 1..Len(last) : g[Len(h) + i] = last[i]
  <2>1. h \in Seq(S) /\ last \in Seq(S)
    BY <1>1, <1>2
  <2>2. /\ h \o last \in Seq(S) /\ Len(h \o last) = Len(h) + Len(last)
        /\ \A j \in 1..Len(h) : (h \o last)[j] = h[j]
        /\ \A i \in 1..Len(last) : (h \o last)[Len(h) + i] = last[i]
    BY <2>1, Joined
  <2> QED BY <1>2, <2>2
<1>4. Len(g) = Len(f) + n + 1 /\ Len(h) + 1 = Len(g)
  BY <1>1, <1>2, <1>3
<1>5. g[Len(g)] = u
  <2>1. 1 \in 1..Len(last)
    BY <1>2
  <2> QED BY <1>2, <1>3, <1>4, <2>1
<1>6. \A j \in 1..Len(f) : j \in 1..Len(h)
  BY <1>0, <1>1
<1>7. \A i \in 1..n : Len(f) + i \in 1..Len(h)
  BY <1>0, <1>1
<1>8. \A j \in 1..Len(f) : g[j] = f[j]
  BY <1>1, <1>3, <1>6
<1>9. \A i \in 1..n : g[Len(f) + i] = block[i]
  BY <1>1, <1>3, <1>7
<1>10. g \in Seq(S)
  BY <1>3
<1> QED BY <1>4, <1>5, <1>8, <1>9, <1>10 DEF Appended, S, n, g

(* The block that the size at the end of a file leads to. *)
LEMMA BlockAtEnd ==
  ASSUME NEW g \in Seq(Units), NEW m \in Nat, NEW n \in Nat, Len(g) = m + n + 1,
         g[Len(g)].tag = "size", g[Len(g)].size = n
  PROVE  /\ SizeAtEnd(g) = n /\ Len(g) - SizeAtEnd(g) = m + 1
         /\ SizeAtEnd(g) < Len(g)
         /\ DOMAIN IndexBlock(g) = 1..n
         /\ \A i \in 1..n : IndexBlock(g)[i] = g[m + i]
<1>1. SizeAtEnd(g) = n
  BY DEF SizeAtEnd, Last
<1>2. Len(g) - n = m + 1 /\ Len(g) - 1 = m + n /\ n < Len(g)
  OBVIOUS
<1>3. IndexBlock(g) = SubSeq(g, m + 1, m + n)
  BY <1>1, <1>2 DEF IndexBlock
<1>4. SubSeq(g, m + 1, m + n) = [i \in 1..n |-> g[m + i]]
  <2>1. (m + n) - (m + 1) + 1 = n
    OBVIOUS
  <2>2. \A i \in 1..n : g[(m + 1) + i - 1] = g[m + i]
    <3>1. \A i \in 1..n : (m + 1) + i - 1 = m + i
      OBVIOUS
    <3> QED BY <3>1
  <2> QED BY <2>1, <2>2, Len(g) = m + n + 1
<1>5. DOMAIN IndexBlock(g) = 1..n /\ \A i \in 1..n : IndexBlock(g)[i] = g[m + i]
  BY <1>3, <1>4
<1> QED BY <1>1, <1>2, <1>5

(* Entries with a pid each give the offset of each. *)
Lists(g, n, order, offsets) ==
  /\ DOMAIN IndexBlock(g) = 1..n
  /\ \A i \in 1..n : /\ order[i] \in Names /\ offsets[order[i]] # None
                     /\ IndexBlock(g)[i].pid = order[i]
                     /\ IndexBlock(g)[i].offset = offsets[order[i]]
  /\ \A i, j \in 1..n : order[i] = order[j] => i = j
  /\ \A p \in Names : offsets[p] # None => \E i \in 1..n : order[i] = p

LEMMA EntriesGiveOffsets ==
  ASSUME NEW g, NEW n \in Nat, NEW offsets \in [Names -> Offset \cup {None}],
         NEW order, Lists(g, n, order, offsets)
  PROVE  OffsetsIn(g) = offsets
<1> USE DEF Lists
<1> DEFINE here(p) == {i \in DOMAIN IndexBlock(g) : IndexBlock(g)[i].pid = p}
           read(p) == IF here(p) = {} THEN None ELSE IndexBlock(g)[Max(here(p))].offset
<1>1. \A p, i : i \in here(p) <=> i \in 1..n /\ order[i] = p
  OBVIOUS
<1>2. ASSUME NEW p \in Names PROVE read(p) = offsets[p]
  <2> HIDE DEF here
  <2>1. CASE offsets[p] = None
    <3>1. \A i : i \notin here(p)
      BY <1>1, <2>1
    <3>2. here(p) = {}
      BY <3>1
    <3> QED BY <2>1, <3>2
  <2>2. CASE offsets[p] # None
    <3>1. PICK i \in 1..n : order[i] = p
      BY <2>2
    <3>2. \A j : j \in here(p) <=> j = i
      BY <1>1, <3>1
    <3>3. here(p) = {i}
      BY <3>2
    <3>4. Max({i}) = i
      <4>1. i >= i
        OBVIOUS
      <4>2. \E x \in {i} : \A y \in {i} : x >= y
        BY <4>1
      <4>3. Max({i}) \in {i}
        BY <4>2 DEF Max
      <4> QED BY <4>3
    <3>5. read(p) = IndexBlock(g)[i].offset
      BY <3>3, <3>4
    <3> QED BY <3>1, <3>5
  <2> QED BY <2>1, <2>2
<1>3. OffsetsIn(g) = [p \in Names |-> read(p)]
  BY DEF OffsetsIn, Names
<1> HIDE DEF read
<1> QED BY <1>2, <1>3

LEMMA IndexGivesBack ==
  ASSUME NEW f \in Seq(Units), NEW offsets \in [Names -> Offset \cup {None}]
  PROVE  LET entries == {p \in Names : offsets[p] # None}
             order == SetToSeq(entries)
             g == f \o [i \in DOMAIN order |-> Entry(order[i], offsets[order[i]])]
                    \o <<SizeUnit(IndexSize(entries))>>
         IN  /\ g \in Seq(Units) /\ g # <<>> /\ g[Len(g)].tag = "size"
             /\ Readable(g) /\ OffsetsIn(g) = offsets
             /\ Len(g) - SizeAtEnd(g) = Len(f) + 1 /\ Len(f) <= Len(g)
             /\ \A j \in 1..Len(f) : g[j] = f[j]
<1> DEFINE entries == {p \in Names : offsets[p] # None}
           order == SetToSeq(entries)
           n == Cardinality(entries)
           block == [i \in 1..n |-> Entry(order[i], offsets[order[i]])]
           g == f \o block \o <<SizeUnit(n)>>
<1>0. Len(f) \in Nat
  OBVIOUS
<1>1. IsFiniteSet(entries)
  <2>1. IsFiniteSet(Names)
    BY Sizes, FS_AddElement DEF Names
  <2> QED BY <2>1, FS_Subset
<1>2. n \in Nat
  BY <1>1, FS_CardinalityType
<1>3. /\ order \in [1..n -> entries]
      /\ \A i, j \in 1..n : order[i] = order[j] => i = j
      /\ \A x \in entries : \E i \in 1..n : order[i] = x
  <2> HIDE DEF entries
  <2> QED BY <1>1, Enumerated
<1>4. g = f \o [i \in DOMAIN order |-> Entry(order[i], offsets[order[i]])]
            \o <<SizeUnit(IndexSize(entries))>>
  <2>1. DOMAIN order = 1..n
    BY <1>3
  <2> HIDE DEF entries, order
  <2> QED BY <2>1 DEF IndexSize
<1>5. \A x \in entries : x \in Names /\ offsets[x] \in Offset /\ offsets[x] # None
  BY Sizes
<1>6. \A p \in Names : offsets[p] # None => p \in entries
  OBVIOUS
<1> HIDE DEF entries, order, n
<1>7. \A i \in 1..n : order[i] \in Names /\ offsets[order[i]] \in Offset /\ offsets[order[i]] # None
  BY <1>3, <1>5
<1>8. \A i \in 1..n : Entry(order[i], offsets[order[i]]) \in Units
  BY <1>7, MadeUnits
<1>9. block \in Seq(Units) /\ Len(block) = n
  BY <1>2, <1>8
<1>10. \A i \in 1..n : /\ block[i].tag = "entry" /\ block[i].pid = order[i]
                       /\ block[i].offset = offsets[order[i]]
  BY <1>7, MadeUnits
<1>11. SizeUnit(n) \in Units /\ SizeUnit(n).tag = "size" /\ SizeUnit(n).size = n
  BY <1>2, MadeUnits
<1> HIDE DEF block
<1>12. /\ g \in Seq(Units) /\ Len(g) = Len(f) + n + 1 /\ g[Len(g)] = SizeUnit(n)
       /\ \A j \in 1..Len(f) : g[j] = f[j]
       /\ \A i \in 1..n : g[Len(f) + i] = block[i]
  <2>1. Appended(g, f, block, SizeUnit(n))
    BY <1>9, <1>11, JoinedThree
  <2> HIDE DEF g
  <2> QED BY <1>9, <2>1 DEF Appended
<1> HIDE DEF g
<1>13. /\ Len(g) - SizeAtEnd(g) = Len(f) + 1 /\ SizeAtEnd(g) < Len(g)
       /\ DOMAIN IndexBlock(g) = 1..n
       /\ \A i \in 1..n : IndexBlock(g)[i] = g[Len(f) + i]
  <2>1. g[Len(g)].tag = "size" /\ g[Len(g)].size = n
    BY <1>11, <1>12
  <2> QED BY <1>0, <1>2, <1>12, <2>1, BlockAtEnd
<1>14. \A i \in 1..n : IndexBlock(g)[i] = block[i]
  BY <1>12, <1>13
<1>15. Readable(g)
  BY <1>10, <1>13, <1>14 DEF Readable
<1>16. OffsetsIn(g) = offsets
  <2>1. \A i \in 1..n : /\ order[i] \in Names /\ offsets[order[i]] # None
                        /\ IndexBlock(g)[i].pid = order[i]
                        /\ IndexBlock(g)[i].offset = offsets[order[i]]
    BY <1>7, <1>10, <1>14
  <2>2. \A p \in Names : offsets[p] # None => \E i \in 1..n : order[i] = p
    BY <1>3, <1>6
  <2>3. /\ DOMAIN IndexBlock(g) = 1..n
        /\ \A i, j \in 1..n : order[i] = order[j] => i = j
    BY <1>3, <1>13
  <2>4. Lists(g, n, order, offsets)
    BY <2>1, <2>2, <2>3 DEF Lists
  <2> QED BY <1>2, <2>4, EntriesGiveOffsets
<1>17. g # <<>> /\ Len(f) <= Len(g)
  BY <1>0, <1>2, <1>12
<1>18. g[Len(g)].tag = "size"
  BY <1>11, <1>12
<1>19. /\ g \in Seq(Units) /\ g # <<>> /\ g[Len(g)].tag = "size"
       /\ Readable(g) /\ OffsetsIn(g) = offsets
       /\ Len(g) - SizeAtEnd(g) = Len(f) + 1 /\ Len(f) <= Len(g)
       /\ \A j \in 1..Len(f) : g[j] = f[j]
  BY <1>12, <1>13, <1>15, <1>16, <1>17, <1>18
<1> QED BY <1>4, <1>19 DEF entries, order

(* A file cut short keeps its beginning. *)
LEMMA Truncated ==
  ASSUME NEW f \in Seq(Units), NEW c \in Nat, c <= Len(f),
         NEW g, g = SubSeq(f, 1, Len(f) - c)
  PROVE  /\ g \in Seq(Units) /\ Len(g) = Len(f) - c
         /\ \A j \in 1..Len(g) : g[j] = f[j]
OBVIOUS

(* The offsets of a flush: the pages written follow each other, behind     *)
(* all the others.                                                         *)
LEMMA Pages ==
  /\ \A a \in Nat : a * PageUnits \in Nat
  /\ \A a, b \in Nat : a < b => a * PageUnits + PageUnits <= b * PageUnits
<1>1. PageUnits \in Nat
  BY Sizes
<1>2. \A a \in Nat : a * PageUnits \in Nat
  BY <1>1
<1>3. ASSUME NEW a \in Nat, NEW b \in Nat, a < b
      PROVE  a * PageUnits + PageUnits <= b * PageUnits
  <2>1. PICK d \in Nat : b = a + 1 + d
    <3>1. b - a - 1 \in Nat /\ b = a + 1 + (b - a - 1)
      BY <1>3
    <3> QED BY <3>1
  <2>2. b * PageUnits = a * PageUnits + PageUnits + d * PageUnits
    BY <1>1, <2>1
  <2>3. a * PageUnits \in Nat /\ d * PageUnits \in Nat
    BY <1>2, <2>1
  <2> QED BY <1>1, <2>2, <2>3
<1> QED BY <1>2, <1>3

LEMMA OrderFacts ==
  ASSUME NEW order \in SetToAllKPermutations(Cached),
         Len(order) = Cardinality(Cached)
  PROVE  /\ order \in Seq(Cached) /\ Len(order) \in Nat
         /\ \A i, j \in DOMAIN order : order[i] = order[j] => i = j
         /\ ToSet(order) = Cached
<1>1. PICK S \in SUBSET Cached : order \in SetToSeqs(S)
  BY DEF SetToAllKPermutations
<1>2. IsFiniteSet(S) /\ IsFiniteSet(Cached) /\ Cardinality(S) \in Nat
  BY <1>1, CachedFinite, FS_Subset, FS_CardinalityType
<1>3. /\ order \in [1..Cardinality(S) -> S]
      /\ \A i, j \in 1..Cardinality(S) : i # j => order[i] # order[j]
  BY <1>1 DEF SetToSeqs
<1>4. Len(order) = Cardinality(S) /\ DOMAIN order = 1..Cardinality(S)
  BY <1>2, <1>3
<1>5. S = Cached
  BY <1>2, <1>4, FS_Subset
<1>6. order \in Seq(Cached)
  BY <1>2, <1>3, <1>5
<1>7. \A i, j \in DOMAIN order : order[i] = order[j] => i = j
  BY <1>3, <1>4
<1>8. \A p \in Cached : \E i \in 1..Cardinality(S) : order[i] = p
  <2>1. \A i, j \in 1..Cardinality(S) : order[i] = order[j] => i = j
    BY <1>3
  <2> QED BY <1>2, <1>3, <1>5, <2>1, CountsAll
<1>9. ToSet(order) = Cached
  BY <1>3, <1>4, <1>5, <1>8 DEF ToSet
<1> QED BY <1>2, <1>4, <1>6, <1>7, <1>9

LEMMA PreparedOffsets ==
  ASSUME NEW order \in SetToAllKPermutations(Cached),
         Len(order) = Cardinality(Cached),
         pid_to_offset \in [Names -> Offset \cup {None}]
  PROVE  LET first == NextOffset(pid_to_offset)
             new == prepareForBatchWrite(order)
         IN  /\ \A i \in DOMAIN order : new[order[i]] = first + (i - 1) * PageUnits
             /\ \A p \in Names \ Cached : new[p] = pid_to_offset[p]
             /\ \A p \in Cached : \E i \in DOMAIN order :
                  order[i] = p /\ new[p] = first + (i - 1) * PageUnits
             /\ DOMAIN new = Names
<1> DEFINE first == NextOffset(pid_to_offset)
           new == prepareForBatchWrite(order)
           turn(p) == CHOOSE i \in DOMAIN order : order[i] = p
<1>1. /\ order \in Seq(Cached)
      /\ \A i, j \in DOMAIN order : order[i] = order[j] => i = j
      /\ ToSet(order) = Cached
  BY OrderFacts
<1>2. new = [p \in Names |-> IF p \in Cached THEN first + (turn(p) - 1) * PageUnits
                             ELSE pid_to_offset[p]]
  BY <1>1 DEF prepareForBatchWrite
<1>3. \A i \in DOMAIN order : order[i] \in Cached /\ order[i] \in Names
  BY <1>1 DEF Cached, Names
<1>4. \A i \in DOMAIN order : turn(order[i]) = i
  BY <1>1
<1>5. \A p \in Cached : \E i \in DOMAIN order : order[i] = p
  BY <1>1 DEF ToSet
<1> HIDE DEF turn, first, new
<1>6. \A i \in DOMAIN order : new[order[i]] = first + (i - 1) * PageUnits
  BY <1>2, <1>3, <1>4
<1>7. \A p \in Names \ Cached : new[p] = pid_to_offset[p]
  BY <1>2
<1>8. \A p \in Cached : \E i \in DOMAIN order :
        order[i] = p /\ new[p] = first + (i - 1) * PageUnits
  BY <1>5, <1>6
<1>9. DOMAIN new = Names
  BY <1>2
<1> QED BY <1>6, <1>7, <1>8, <1>9 DEF first, new

-----------------------------------------------------------------------------
(* The steps.                                                              *)

LEMMA OnePage == PageUnits \in Offset
<1>1. /\ PageUnits \in Nat /\ MaxUnits \in Nat /\ Cardinality(Pid) \in Nat
  BY Sizes, CacheFileAssumption
<1>2. PageUnits * (Cardinality(Pid) + 1) = Cardinality(Pid) * PageUnits + PageUnits
  BY <1>1
<1>3. Cardinality(Pid) * PageUnits \in Nat
  BY <1>1, Pages
<1> QED BY <1>1, <1>2, <1>3 DEF Offset

(* In a good file every page named is whole and has its head. *)
LEMMA GoodHolds ==
  ASSUME NEW f, NEW heads \in [Pid -> Versions \cup {None}], Good(f, heads),
         NEW p \in Pid, OffsetsIn(f)[p] # None
  PROVE  /\ Whole(f, OffsetsIn(f)[p]) /\ heads[p] \in Versions
         /\ PageAt(f, OffsetsIn(f)[p]) = HeadOf(p, heads)
         /\ HeadOf(p, heads) \in LastKey
<1> DEFINE o == OffsetsIn(f)[p]
           n == SizeAtEnd(f)
<1>1. /\ f \in Seq(Units) /\ f # <<>> /\ f[Len(f)].tag = "size"
      /\ o + PageUnits <= Len(f) - n /\ Holds(f, o, HeadOf(p, heads))
      /\ o \in Offset
  BY Sizes DEF Good, Names
<1>2. heads[p] \in Versions
  BY DEF Good
<1>3. HeadOf(p, heads) \in LastKey
  BY <1>2 DEF HeadOf, LastKey
<1>4. n \in Nat
  <2>1. f[Len(f)] \in Units
    BY <1>1
  <2> QED BY <1>1, <2>1, UnitFacts DEF SizeAtEnd, Last
<1>5. Whole(f, o)
  <2>1. o \in Nat /\ PageUnits \in Nat /\ Len(f) \in Nat
    BY <1>1, Sizes
  <2> HIDE DEF o, n
  <2> QED BY <1>1, <1>4, <2>1 DEF Whole
<1>6. PageAt(f, o) = HeadOf(p, heads)
  <2> HIDE DEF o
  <2> QED BY <1>1, <1>3, MadeUnits DEF PageAt, Holds
<1> QED BY <1>2, <1>3, <1>5, <1>6

LEMMA GoodTypes ==
  ASSUME NEW f, NEW heads, Good(f, heads)
  PROVE  f \in Seq(Units) /\ OffsetsIn(f) \in [Names -> Offset \cup {None}]
BY DEF Good

LEMMA InitInv == Init => Inv
<1> SUFFICES ASSUME Init PROVE Inv
  OBVIOUS
<1> USE DEF Init, Unset
<1>1. Cached = {}
  BY DEF Cached
<1>2. CacheOK
  <2>1. Cardinality(Cached) = 0
    BY <1>1, FS_EmptySet
  <2>2. cache \in [Pid -> LastKey \cup {None}]
    OBVIOUS
  <2> QED BY <1>1, <2>1, <2>2, CacheFileAssumption DEF CacheOK
<1>3. TypesOK
  <2>1. pid_to_offset = NoOffsets /\ NoOffsets \in [Names -> Offset \cup {None}]
    BY DEF NoOffsets, Names
  <2>2. /\ pid_to_last_pagekey \in [Pid -> Versions \cup {None}]
        /\ filed \in [Pid -> Versions \cup {None}]
    OBVIOUS
  <2>3. unwritten = <<>> /\ unwritten \in Seq(Pid)
    OBVIOUS
  <2>4. spoilt \in BOOLEAN /\ phase = "closed" /\ file = None
    OBVIOUS
  <2> HIDE DEF Init, Unset
  <2> QED BY <1>1, <2>1, <2>2, <2>3, <2>4 DEF TypesOK
<1> QED
  BY <1>1, <1>2, <1>3 DEF Inv, StillGood, Untouched, OpenOK, FlushOK, IndexOK, HeadKept

LEMMA OpenInv == ASSUME Inv, Open PROVE Inv'
<1>0. /\ CacheOK /\ TypesOK /\ StillGood /\ phase = "closed" /\ ~spoilt
      /\ UNCHANGED <<cache, pid_to_last_pagekey, closing, unwritten, filed>>
      /\ named' = {p \in Pid : pid_to_offset'[p] # None}
  BY DEF Inv, Open
<1>1. Cached' = Cached /\ Cached = {} /\ unwritten = <<>>
  BY <1>0 DEF Cached, TypesOK
<1>2. CacheOK'
  BY <1>0, <1>1 DEF CacheOK
<1>3. NoOffsets \in [Names -> Offset \cup {None}]
  BY DEF NoOffsets, Unset, Names
<1>4. \/ /\ file = None /\ file' = <<>> /\ phase' = "open" /\ spoilt' = spoilt
         /\ pid_to_offset' = NoOffsets
      \/ /\ file = <<>> /\ file' = file /\ ReadNothing
      \/ /\ file \notin {None, <<>>} /\ file' = file /\ spoilt' = spoilt
         /\ phase' = IF Readable(file) THEN "open" ELSE "failed"
         /\ pid_to_offset' = IF Readable(file) THEN OffsetsIn(file) ELSE NoOffsets
  BY <1>0 DEF Open, readIndexBlock, TypesOK
<1>5. \/ /\ phase' = "open" /\ spoilt' = FALSE /\ file' = <<>> /\ pid_to_offset' = NoOffsets
      \/ /\ phase' = "failed" /\ spoilt' = TRUE /\ file' = <<>> /\ pid_to_offset' = NoOffsets
      \/ /\ phase' = "open" /\ spoilt' = TRUE /\ file' = <<>>
         /\ pid_to_offset' \in [Names -> Offset \cup {None}]
         /\ \A p \in Names : pid_to_offset'[p] \in {None, 0, PageUnits}
      \/ /\ phase' = "open" /\ spoilt' = FALSE /\ Good(file, filed) /\ file' = file
         /\ pid_to_offset' = OffsetsIn(file) /\ file # <<>>
  <2>1. CASE file = None /\ file' = <<>> /\ phase' = "open" /\ spoilt' = spoilt
             /\ pid_to_offset' = NoOffsets
    BY <1>0, <2>1 DEF TypesOK
  <2>2. CASE file = <<>> /\ file' = file /\ ReadNothing
    <3>1. CASE pid_to_offset' = NoOffsets /\ phase' = "open" /\ spoilt' = spoilt
      BY <1>0, <2>2, <3>1 DEF TypesOK
    <3>2. CASE phase' = "failed" /\ spoilt' = TRUE /\ pid_to_offset' = NoOffsets
      BY <2>2, <3>2
    <3>3. CASE /\ \E p \in {Root, Strange}, o \in {0, PageUnits} :
                    pid_to_offset' = [NoOffsets EXCEPT ![p] = o]
               /\ phase' = "open" /\ spoilt' = TRUE
      <4>1. PICK p \in {Root, Strange}, o \in {0, PageUnits} :
              pid_to_offset' = [NoOffsets EXCEPT ![p] = o]
        BY <3>3
      <4>2. p \in Names /\ o \in Offset
        BY OnePage, Sizes, CacheFileAssumption DEF Names
      <4>3. \A q \in Names : NoOffsets[q] = None
        BY DEF NoOffsets, Unset, Names
      <4> QED BY <1>3, <2>2, <3>3, <4>1, <4>2, <4>3
    <3> QED BY <2>2, <3>1, <3>2, <3>3 DEF ReadNothing
  <2>3. CASE /\ file \notin {None, <<>>} /\ file' = file /\ spoilt' = spoilt
             /\ phase' = IF Readable(file) THEN "open" ELSE "failed"
             /\ pid_to_offset' = IF Readable(file) THEN OffsetsIn(file) ELSE NoOffsets
    <3>1. Good(file, filed)
      BY <1>0, <2>3 DEF StillGood, Untouched
    <3>2. Readable(file)
      BY <3>1 DEF Good
    <3> QED BY <1>0, <2>3, <3>1, <3>2
  <2> QED BY <1>4, <2>1, <2>2, <2>3
<1>6. pid_to_offset' \in [Names -> Offset \cup {None}]
  BY <1>3, <1>5, GoodTypes
<1>7. ~spoilt' => file' \in Seq(Units)
  <2>1. <<>> \in Seq(Units)
    OBVIOUS
  <2> QED BY <1>5, <2>1, GoodTypes
<1>8. phase' \in {"open", "failed"} /\ spoilt' \in BOOLEAN
      /\ (phase' = "failed" => spoilt')
  BY <1>5
<1>9. TypesOK'
  BY <1>0, <1>1, <1>6, <1>7, <1>8 DEF TypesOK
<1>10. StillGood'
  BY <1>0, <1>5, <1>8 DEF StillGood, Untouched
<1>11. OpenOK'
  <2>1. \A p \in Pid : pid_to_offset'[p] # None => p \in named'
    BY <1>0
  <2> QED BY <1>5, <2>1 DEF OpenOK
<1> QED
  BY <1>1, <1>2, <1>8, <1>9, <1>10, <1>11 DEF Inv, FlushOK, IndexOK, HeadKept

(* What a page that is not cached is loaded as. *)
LEMMA LoadsHead ==
  ASSUME Inv, phase = "open", NEW p \in Pid, cache[p] = None
  PROVE  /\ pid_to_offset[p] # None /\ ~Whole(file, pid_to_offset[p]) => spoilt
         /\ ~(pid_to_offset[p] # None /\ ~Whole(file, pid_to_offset[p])) =>
              /\ Loaded(p) \in LastKey /\ Loaded(p).pid = p
              /\ ~spoilt =>
                   \/ p \in named /\ Loaded(p).version = filed[p]
                   \/ Loaded(p).version = IF pid_to_last_pagekey[p] = None THEN 0
                                          ELSE pid_to_last_pagekey[p]
<1>0. TypesOK /\ StillGood /\ OpenOK
  BY DEF Inv
<1>1. CASE pid_to_offset[p] = None
  <2> DEFINE v == IF pid_to_last_pagekey[p] = None THEN 0 ELSE pid_to_last_pagekey[p]
  <2>1. v \in Versions
    BY <1>0, Versioned DEF TypesOK
  <2>2. Loaded(p) = [pid |-> p, version |-> v]
    BY <1>1 DEF Loaded
  <2> HIDE DEF v
  <2>3. Loaded(p) \in LastKey /\ Loaded(p).pid = p /\ Loaded(p).version = v
    BY <2>1, <2>2 DEF LastKey
  <2> QED BY <1>1, <2>3 DEF v
<1>2. CASE pid_to_offset[p] # None /\ ~spoilt
  <2>1. pid_to_offset = OffsetsIn(file) /\ file # <<>> /\ p \in named
    BY <1>0, <1>2 DEF OpenOK, NoOffsets, Unset
  <2>2. Good(file, filed)
    BY <1>0, <1>2, <2>1 DEF StillGood, Untouched
  <2>3. filed \in [Pid -> Versions \cup {None}]
    BY <1>0 DEF TypesOK
  <2>4. /\ Whole(file, pid_to_offset[p]) /\ PageAt(file, pid_to_offset[p]) = HeadOf(p, filed)
        /\ HeadOf(p, filed) \in LastKey
    BY <1>2, <2>1, <2>2, <2>3, GoodHolds
  <2>5. Loaded(p) = HeadOf(p, filed)
    BY <1>2, <2>4 DEF Loaded
  <2>6. HeadOf(p, filed).pid = p /\ HeadOf(p, filed).version = filed[p]
    BY DEF HeadOf
  <2> QED BY <1>2, <2>1, <2>4, <2>5, <2>6
<1>3. CASE pid_to_offset[p] # None /\ spoilt
  <2>1. file = <<>> /\ pid_to_offset[p] \in {0, PageUnits}
    BY <1>0, <1>3 DEF OpenOK, NoOffsets, Unset, Names
  <2>2. ~Whole(file, pid_to_offset[p])
    <3>1. Len(<<>>) = 0
      OBVIOUS
    <3> QED BY <2>1, <3>1, Sizes DEF Whole
  <2> QED BY <1>3, <2>2
<1> QED BY <1>0, <1>1, <1>2, <1>3 DEF TypesOK

LEMMA GetInv == ASSUME Inv, NEW p \in Pid, Get(p) PROVE Inv'
<1>0. /\ CacheOK /\ TypesOK /\ StillGood /\ OpenOK /\ HeadKept /\ phase = "open"
      /\ cache[p] = None
      /\ UNCHANGED <<file, pid_to_offset, pid_to_last_pagekey, closing, unwritten,
                     sessions, filed, named, spoilt>>
  BY DEF Inv, Get
<1>1. PICK victim \in Victims :
        LET kept == [q \in Pid |-> IF q = victim THEN None ELSE cache[q]]
        IN IF pid_to_offset[p] # None /\ ~Whole(file, pid_to_offset[p])
           THEN phase' = "failed" /\ cache' = kept
           ELSE cache' = [kept EXCEPT ![p] = Loaded(p)] /\ phase' = phase
  BY DEF Get
<1>2. /\ phase' = "open" \/ (phase' = "failed" /\ spoilt)
      /\ cache' \in [Pid -> LastKey \cup {None}]
      /\ \A q \in Pid : cache'[q] # None =>
           \/ cache'[q] = cache[q] /\ q # victim
           \/ /\ q = p /\ cache'[q] \in LastKey /\ cache'[q].pid = q
              /\ ~spoilt =>
                   \/ q \in named /\ cache'[q].version = filed[q]
                   \/ cache'[q].version = IF pid_to_last_pagekey[q] = None THEN 0
                                          ELSE pid_to_last_pagekey[q]
  <2> DEFINE kept == [q \in Pid |-> IF q = victim THEN None ELSE cache[q]]
  <2>1. /\ kept \in [Pid -> LastKey \cup {None}]
        /\ \A q \in Pid : kept[q] # None => kept[q] = cache[q] /\ q # victim
    BY <1>0 DEF CacheOK
  <2>2. CASE pid_to_offset[p] # None /\ ~Whole(file, pid_to_offset[p])
    <3>1. phase' = "failed" /\ cache' = kept
      BY <1>1, <2>2
    <3> HIDE DEF kept
    <3> QED BY <1>0, <2>1, <2>2, <3>1, LoadsHead
  <2>3. CASE ~(pid_to_offset[p] # None /\ ~Whole(file, pid_to_offset[p]))
    <3>1. phase' = "open" /\ cache' = [kept EXCEPT ![p] = Loaded(p)]
      BY <1>0, <1>1, <2>3
    <3>2. /\ Loaded(p) \in LastKey /\ Loaded(p).pid = p
          /\ ~spoilt =>
               \/ p \in named /\ Loaded(p).version = filed[p]
               \/ Loaded(p).version = IF pid_to_last_pagekey[p] = None THEN 0
                                      ELSE pid_to_last_pagekey[p]
      BY <1>0, <2>3, LoadsHead
    <3> HIDE DEF kept
    <3>3. /\ cache' \in [Pid -> LastKey \cup {None}]
          /\ cache'[p] = Loaded(p)
          /\ \A q \in Pid : q # p => cache'[q] = kept[q]
      BY <2>1, <3>1, <3>2
    <3> QED BY <2>1, <3>1, <3>2, <3>3
  <2> QED BY <2>2, <2>3
<1>3. Cached' \subseteq (Cached \ {victim}) \cup {p}
  BY <1>2 DEF Cached
<1>4. IsFiniteSet(Cached') /\ Cardinality(Cached') <= max_size
  <2> DEFINE rest == Cached \ {victim}
  <2>0. IsFiniteSet(Cached) /\ Cardinality(Cached) \in Nat /\ max_size \in Nat \ {0}
        /\ Cardinality(Cached) <= max_size
    BY <1>0, CachedFinite, CacheFileAssumption DEF CacheOK
  <2>1. IsFiniteSet(rest) /\ Cardinality(rest) \in Nat /\ Cardinality(rest) + 1 <= max_size
    <3>1. CASE Cardinality(Cached) >= max_size
      <4>1. victim \in Cached
        BY <3>1 DEF Victims
      <4>2. IsFiniteSet(rest) /\ Cardinality(rest) = Cardinality(Cached) - 1
        BY <2>0, <4>1, FS_RemoveElement
      <4>3. Cardinality(rest) \in Nat
        BY <4>2, FS_CardinalityType
      <4> HIDE DEF rest
      <4> QED BY <2>0, <4>2, <4>3
    <3>2. CASE ~(Cardinality(Cached) >= max_size)
      <4>1. IsFiniteSet(rest) /\ Cardinality(rest) <= Cardinality(Cached)
        BY <2>0, FS_Subset
      <4>2. Cardinality(rest) \in Nat
        BY <4>1, FS_CardinalityType
      <4> HIDE DEF rest
      <4> QED BY <2>0, <3>2, <4>1, <4>2
    <3> QED BY <3>1, <3>2
  <2> HIDE DEF rest
  <2>2. /\ IsFiniteSet(rest \cup {p})
        /\ Cardinality(rest \cup {p}) = IF p \in rest THEN Cardinality(rest)
                                        ELSE Cardinality(rest) + 1
    BY <2>1, FS_AddElement
  <2>3. Cardinality(rest \cup {p}) <= max_size /\ Cardinality(rest \cup {p}) \in Nat
    BY <2>0, <2>1, <2>2
  <2>4. Cached' \subseteq rest \cup {p}
    BY <1>3 DEF rest
  <2>5. IsFiniteSet(Cached') /\ Cardinality(Cached') <= Cardinality(rest \cup {p})
    BY <2>2, <2>4, FS_Subset
  <2>6. Cardinality(Cached') \in Nat
    BY <2>5, FS_CardinalityType
  <2> QED BY <2>0, <2>3, <2>5, <2>6
<1>5. CacheOK'
  BY <1>0, <1>2, <1>4 DEF CacheOK, Cached
<1>6. TypesOK'
  BY <1>0, <1>2 DEF TypesOK
<1>7. StillGood'
  BY <1>0, <1>2 DEF StillGood, Untouched
<1>8. OpenOK'
  BY <1>0, <1>2 DEF OpenOK
<1>9. HeadKept'
  <2> SUFFICES ASSUME ~spoilt, NEW q \in Pid, cache'[q] # None
               PROVE  LET stored == IF pid_to_last_pagekey[q] = None THEN 0
                                    ELSE pid_to_last_pagekey[q]
                      IN /\ cache'[q].pid = q
                         /\ q \notin named => cache'[q].version = stored
                         /\ q \in named => cache'[q].version \in {0, stored, filed[q]}
    BY <1>0 DEF HeadKept, Cached
  <2>1. CASE cache'[q] = cache[q]
    BY <1>0, <2>1 DEF HeadKept, Cached
  <2> QED BY <1>2, <2>1
<1> QED
  BY <1>2, <1>5, <1>6, <1>7, <1>8, <1>9, <1>0 DEF Inv, FlushOK, IndexOK

LEMMA StoreInv ==
  ASSUME Inv, NEW p \in Pid, NEW v \in Versions, Store(p, v)
  PROVE  Inv'
<1> DEFINE key == [pid |-> p, version |-> v]
<1>0. /\ CacheOK /\ TypesOK /\ StillGood /\ OpenOK /\ HeadKept /\ phase = "open"
      /\ cache[p] # None /\ cache' = [cache EXCEPT ![p] = key]
      /\ pid_to_last_pagekey' = [pid_to_last_pagekey EXCEPT ![p] = v]
      /\ UNCHANGED <<file, pid_to_offset, phase, closing, unwritten, sessions, filed,
                     named, spoilt>>
  BY DEF Inv, Store
<1>1. key \in LastKey /\ key.pid = p /\ key.version = v
  BY DEF LastKey
<1> HIDE DEF key
<1>2. /\ cache' \in [Pid -> LastKey \cup {None}] /\ cache'[p] = key
      /\ \A q \in Pid : q # p => cache'[q] = cache[q]
  BY <1>0, <1>1 DEF CacheOK
<1>3. Cached' \subseteq Cached
  BY <1>0, <1>2 DEF Cached
<1>4. Cardinality(Cached') <= max_size
  <2>1. IsFiniteSet(Cached') /\ Cardinality(Cached') <= Cardinality(Cached)
    BY <1>3, CachedFinite, FS_Subset
  <2>2. /\ Cardinality(Cached') \in Nat /\ Cardinality(Cached) \in Nat
        /\ max_size \in Nat /\ Cardinality(Cached) <= max_size
    BY <1>0, <2>1, CachedFinite, FS_CardinalityType, CacheFileAssumption DEF CacheOK
  <2> QED BY <2>1, <2>2
<1>5. \A q \in Cached' : cache'[q].pid = q
  BY <1>0, <1>1, <1>2, <1>3 DEF CacheOK
<1>6. CacheOK'
  BY <1>2, <1>4, <1>5 DEF CacheOK
<1>7. /\ pid_to_last_pagekey' \in [Pid -> Versions \cup {None}]
      /\ pid_to_last_pagekey'[p] = v /\ v # None
      /\ \A q \in Pid : q # p => pid_to_last_pagekey'[q] = pid_to_last_pagekey[q]
  BY <1>0, Versioned DEF TypesOK
<1>8. TypesOK'
  BY <1>0, <1>7 DEF TypesOK
<1>9. StillGood'
  BY <1>0 DEF StillGood, Untouched
<1>10. OpenOK'
  BY <1>0 DEF OpenOK
<1>11. HeadKept'
  <2> SUFFICES ASSUME ~spoilt, NEW q \in Pid, q \in Cached'
               PROVE  LET stored == IF pid_to_last_pagekey'[q] = None THEN 0
                                    ELSE pid_to_last_pagekey'[q]
                      IN /\ cache'[q].pid = q
                         /\ q \notin named => cache'[q].version = stored
                         /\ q \in named => cache'[q].version \in {0, stored, filed[q]}
    BY <1>0 DEF HeadKept, Cached
  <2>1. CASE q = p
    BY <1>1, <1>2, <1>7, <2>1
  <2>2. CASE q # p
    <3>1. q \in Cached
      BY <1>3
    <3> QED BY <1>0, <1>2, <1>7, <2>2, <3>1 DEF HeadKept
  <2> QED BY <2>1, <2>2
<1> QED
  BY <1>0, <1>6, <1>8, <1>9, <1>10, <1>11 DEF Inv, FlushOK, IndexOK

(* The offsets a flush gives are in the file's bounds, and its pages apart. *)
LEMMA FlushOffsets ==
  ASSUME Inv, phase = "open", file = <<>> \/ Len(file) <= MaxUnits,
         NEW order \in SetToAllKPermutations(Cached), Len(order) = Cardinality(Cached),
         NEW new, new = prepareForBatchWrite(order)
  PROVE  /\ new \in [Names -> Offset \cup {None}]
         /\ \A p \in Cached : new[p] # None
         /\ \A p \in Names \ Cached : new[p] = pid_to_offset[p]
         /\ Apart(pid_to_offset) => Apart(new)
<1> DEFINE first == NextOffset(pid_to_offset)
<1>0. TypesOK /\ OpenOK /\ StillGood
  BY DEF Inv
<1>1. pid_to_offset \in [Names -> Offset \cup {None}]
  BY <1>0 DEF TypesOK
<1>2. /\ \A p \in Names \ Cached : new[p] = pid_to_offset[p]
      /\ \A p \in Cached : \E i \in DOMAIN order :
           order[i] = p /\ new[p] = first + (i - 1) * PageUnits
      /\ new \in [Names -> {new[p] : p \in Names}]
  <2>1. DOMAIN new = Names /\ new = [p \in DOMAIN new |-> new[p]]
    BY <1>1, PreparedOffsets DEF prepareForBatchWrite
  <2> QED BY <1>1, <2>1, PreparedOffsets
<1>3. /\ first \in Nat
      /\ \A p \in Names : pid_to_offset[p] # None => pid_to_offset[p] + PageUnits <= first
      /\ \/ first = 0
         \/ \E p \in Names : pid_to_offset[p] # None /\ first = pid_to_offset[p] + PageUnits
  BY <1>1, NextIsBehind
<1> HIDE DEF first
<1>4. first = 0 \/ first <= MaxUnits \/ first <= PageUnits + PageUnits
  <2> SUFFICES ASSUME NEW p \in Names, pid_to_offset[p] # None,
                      first = pid_to_offset[p] + PageUnits
               PROVE  first <= MaxUnits \/ first <= PageUnits + PageUnits
    BY <1>3
  <2>1. pid_to_offset # NoOffsets
    BY DEF NoOffsets, Unset, Names
  <2>2. CASE spoilt
    <3>1. pid_to_offset[p] = 0 \/ pid_to_offset[p] = PageUnits
      BY <1>0, <2>1, <2>2 DEF OpenOK
    <3> QED BY <3>1, Sizes
  <2>3. CASE ~spoilt
    <3>1. pid_to_offset = OffsetsIn(file) /\ file # <<>>
      BY <1>0, <2>1, <2>3 DEF OpenOK
    <3>2. Good(file, filed)
      BY <1>0, <2>3, <3>1 DEF StillGood, Untouched
    <3>3. p \in Pid
      BY <3>1, <3>2 DEF Good, Names
    <3>4. Whole(file, pid_to_offset[p])
      BY <1>0, <3>1, <3>2, <3>3, GoodHolds DEF TypesOK
    <3>5. Len(file) \in Nat /\ MaxUnits \in Nat /\ Len(file) <= MaxUnits
      BY <3>1, <3>2, CacheFileAssumption DEF Good
    <3> QED BY <1>3, <3>4, <3>5 DEF Whole
  <2> QED BY <1>0, <2>2, <2>3 DEF TypesOK
<1>5. /\ order \in Seq(Cached) /\ Len(order) \in Nat
      /\ DOMAIN order = 1..Len(order)
      /\ \A i, j \in DOMAIN order : order[i] = order[j] => i = j
  BY OrderFacts
<1>6. \A i \in DOMAIN order : i \in Nat /\ i - 1 \in Nat /\ i - 1 < Cardinality(Pid)
  BY <1>5, CachedFinite, Sizes
<1>7. \A i \in DOMAIN order : first + (i - 1) * PageUnits \in Offset
  <2> SUFFICES ASSUME NEW i \in DOMAIN order
               PROVE  first + (i - 1) * PageUnits \in Offset
    OBVIOUS
  <2>1. PICK a \in Nat, c \in Nat :
          /\ a = (i - 1) * PageUnits /\ c = Cardinality(Pid) * PageUnits
          /\ a + PageUnits <= c
    BY <1>6, Pages, Sizes
  <2>2. PageUnits * (Cardinality(Pid) + 1) = c + PageUnits
    BY <2>1, Sizes
  <2>3. PageUnits \in Nat /\ MaxUnits \in Nat /\ first \in Nat
        /\ a \in Nat /\ c \in Nat /\ a + PageUnits <= c
    BY <1>3, <2>1, Sizes, CacheFileAssumption
  <2>4. first + a \in 0..(MaxUnits + (c + PageUnits))
    BY ONLY <1>4, <2>3
  <2> QED BY <2>1, <2>2, <2>4 DEF Offset
<1>8. \A p \in Cached : new[p] \in Offset /\ new[p] # None
  BY <1>2, <1>7, Sizes
<1>9. new \in [Names -> Offset \cup {None}]
  <2>1. \A p \in Names : new[p] \in Offset \cup {None}
    BY <1>1, <1>2, <1>8
  <2> QED BY <1>2, <2>1
<1>10. ASSUME Apart(pid_to_offset), NEW p \in Pid, NEW q \in Pid, p # q,
              new[p] # None, new[q] # None
       PROVE  new[p] + PageUnits <= new[q] \/ new[q] + PageUnits <= new[p]
  <2>0. p \in Names /\ q \in Names /\ PageUnits \in Nat
    BY Sizes DEF Names
  <2>1. \A a, b \in Names : /\ a \notin Cached /\ pid_to_offset[a] # None /\ b \in Cached
          => new[a] + PageUnits <= new[b]
    <3> SUFFICES ASSUME NEW a \in Names, NEW b \in Names, a \notin Cached,
                        pid_to_offset[a] # None, b \in Cached
                 PROVE  new[a] + PageUnits <= new[b]
      OBVIOUS
    <3>1. PICK i \in DOMAIN order : new[b] = first + (i - 1) * PageUnits
      BY <1>2
    <3>2. (i - 1) * PageUnits \in Nat
      BY <1>6, Pages
    <3>3. new[a] = pid_to_offset[a] /\ pid_to_offset[a] \in Nat
          /\ pid_to_offset[a] + PageUnits <= first
      BY <1>1, <1>2, <1>3, Sizes
    <3> QED BY <1>3, <2>0, <3>1, <3>2, <3>3
  <2>2. CASE p \in Cached /\ q \in Cached
    <3>1. PICK i \in DOMAIN order : order[i] = p /\ new[p] = first + (i - 1) * PageUnits
      BY <1>2, <2>2
    <3>2. PICK j \in DOMAIN order : order[j] = q /\ new[q] = first + (j - 1) * PageUnits
      BY <1>2, <2>2
    <3>3. i # j
      BY <1>10, <3>1, <3>2
    <3>4. i \in Nat /\ i - 1 \in Nat /\ j \in Nat /\ j - 1 \in Nat
      BY <1>6
    <3>5. PICK a \in Nat, b \in Nat :
            /\ a = (i - 1) * PageUnits /\ b = (j - 1) * PageUnits
            /\ a + PageUnits <= b \/ b + PageUnits <= a
      <4>1. i - 1 < j - 1 \/ j - 1 < i - 1
        BY <3>3, <3>4
      <4>2. /\ (i - 1) * PageUnits \in Nat /\ (j - 1) * PageUnits \in Nat
            /\ \/ (i - 1) * PageUnits + PageUnits <= (j - 1) * PageUnits
               \/ (j - 1) * PageUnits + PageUnits <= (i - 1) * PageUnits
        BY <3>4, <4>1, Pages
      <4> QED BY <4>2
    <3>6. first \in Nat /\ PageUnits \in Nat /\ a \in Nat /\ b \in Nat
      BY <1>3, <2>0
    <3>7. first + a + PageUnits <= first + b \/ first + b + PageUnits <= first + a
      BY ONLY <3>5, <3>6
    <3> QED BY <3>1, <3>2, <3>5, <3>7
  <2>3. CASE p \notin Cached /\ q \in Cached
    BY <1>2, <1>10, <2>0, <2>1, <2>3
  <2>4. CASE p \in Cached /\ q \notin Cached
    BY <1>2, <1>10, <2>0, <2>1, <2>4
  <2>5. CASE p \notin Cached /\ q \notin Cached
    BY <1>2, <1>10, <2>0, <2>5 DEF Apart
  <2> QED BY <2>2, <2>3, <2>4, <2>5
<1> QED
  BY <1>2, <1>8, <1>9, <1>10 DEF Apart

LEMMA FlushInv ==
  ASSUME Inv, NEW order \in SetToAllKPermutations(Cached), NEW last \in BOOLEAN,
         Len(order) = Cardinality(Cached), FlushToDisk(order, last)
  PROVE  Inv'
<1>0. /\ CacheOK /\ TypesOK /\ StillGood /\ OpenOK /\ HeadKept /\ phase = "open"
      /\ file = <<>> \/ Len(file) <= MaxUnits
      /\ phase' = "pages" /\ unwritten' = order
      /\ pid_to_offset' = prepareForBatchWrite(order)
      /\ UNCHANGED <<file, cache, pid_to_last_pagekey, sessions, filed, named, spoilt>>
  BY DEF Inv, FlushToDisk
<1>1. /\ pid_to_offset' \in [Names -> Offset \cup {None}]
      /\ \A p \in Cached : pid_to_offset'[p] # None
      /\ \A p \in Names \ Cached : pid_to_offset'[p] = pid_to_offset[p]
      /\ Apart(pid_to_offset) => Apart(pid_to_offset')
  <2>1. PICK new : new = prepareForBatchWrite(order)
    OBVIOUS
  <2>2. /\ new \in [Names -> Offset \cup {None}]
        /\ \A p \in Cached : new[p] # None
        /\ \A p \in Names \ Cached : new[p] = pid_to_offset[p]
        /\ Apart(pid_to_offset) => Apart(new)
    BY <1>0, <2>1, FlushOffsets
  <2>3. pid_to_offset' = new
    BY <1>0, <2>1
  <2> QED BY <2>2, <2>3
<1>2. /\ order \in Seq(Cached) /\ Len(order) \in Nat
      /\ \A i, j \in DOMAIN order : order[i] = order[j] => i = j
      /\ \A i \in DOMAIN order : order[i] \in Cached
      /\ \A p \in Cached : \E i \in DOMAIN order : order[i] = p
  BY OrderFacts DEF ToSet
<1>3. Cached' = Cached /\ CacheOK'
  BY <1>0 DEF Cached, CacheOK
<1>4. TypesOK'
  <2>1. order \in Seq(Pid)
    BY <1>2 DEF Cached
  <2> QED BY <1>0, <1>1, <2>1 DEF TypesOK
<1>5. StillGood'
  BY <1>0 DEF StillGood, Untouched
<1>6. ASSUME ~spoilt
      PROVE  /\ pid_to_offset[Strange] = None /\ Apart(pid_to_offset)
             /\ \A p \in Pid : pid_to_offset[p] # None =>
                  /\ filed[p] # None
                  /\ pid_to_offset[p] + PageUnits <= Len(file)
                  /\ Holds(file, pid_to_offset[p], HeadOf(p, filed))
             /\ file # <<>> => SizeAtEnd(file) \in Nat /\ SizeAtEnd(file) < Len(file)
  <2>1. file # <<>> => Good(file, filed)
    BY <1>0, <1>6 DEF StillGood, Untouched
  <2>2. file # <<>> => SizeAtEnd(file) \in Nat /\ SizeAtEnd(file) < Len(file)
    <3> SUFFICES ASSUME file # <<>> PROVE SizeAtEnd(file) \in Nat /\ SizeAtEnd(file) < Len(file)
      OBVIOUS
    <3>1. /\ file \in Seq(Units) /\ file[Len(file)].tag = "size" /\ Readable(file)
      BY <2>1 DEF Good
    <3>2. file[Len(file)] \in Units
      BY <3>1
    <3>3. SizeAtEnd(file) \in Nat
      BY <3>1, <3>2, UnitFacts DEF SizeAtEnd, Last
    <3> QED BY <3>1, <3>3 DEF Readable
  <2>3. CASE pid_to_offset = NoOffsets
    <3>1. \A p \in Names : pid_to_offset[p] = None
      BY <2>3 DEF NoOffsets, Unset, Names
    <3> QED BY <2>2, <3>1 DEF Apart, Names
  <2>4. CASE file # <<>> /\ pid_to_offset = OffsetsIn(file)
    <3>1. ASSUME NEW p \in Pid, pid_to_offset[p] # None
          PROVE  /\ filed[p] # None /\ pid_to_offset[p] + PageUnits <= Len(file)
                 /\ Holds(file, pid_to_offset[p], HeadOf(p, filed))
      <4>1. Good(file, filed)
        BY <2>1, <2>4
      <4>2. filed \in [Pid -> Versions \cup {None}]
        BY <1>0 DEF TypesOK
      <4>3. Whole(file, pid_to_offset[p])
        BY <2>4, <3>1, <4>1, <4>2, GoodHolds
      <4> QED BY <2>4, <3>1, <4>1, <4>3 DEF Good, Whole
    <3> QED BY <2>1, <2>2, <2>4, <3>1 DEF Good
  <2> QED BY <1>0, <1>6, <2>3, <2>4 DEF OpenOK
<1>7. FlushOK'
  <2>1. ASSUME ~spoilt PROVE Placed'
    <3>1. Strange \in Names \ Cached
      BY Versioned DEF Names, Cached
    <3>2. \A p \in Pid \ Cached : p \in Names \ Cached
      BY DEF Names
    <3> QED BY <1>0, <1>1, <1>3, <1>6, <2>1, <3>1, <3>2 DEF Placed
  <2>2. ASSUME ~spoilt, NEW p \in Pid, pid_to_offset'[p] # None
        PROVE  \/ \E i \in DOMAIN order : order[i] = p
               \/ /\ pid_to_offset'[p] + PageUnits <= Len(file)
                  /\ Holds(file, pid_to_offset'[p], KeyOf(p)')
    <3>1. CASE p \in Cached
      BY <1>2, <3>1
    <3>2. CASE p \notin Cached
      <4>1. pid_to_offset'[p] = pid_to_offset[p]
        BY <1>1, <3>2 DEF Names
      <4>2. KeyOf(p)' = HeadOf(p, filed)
        BY <1>0, <1>3, <3>2 DEF KeyOf, HeadOf
      <4> QED BY <1>6, <2>2, <4>1, <4>2
    <3> QED BY <3>1, <3>2
  <2>3. Len(order) <= Cardinality(Cached)
    BY <1>2
  <2>4. \A i \in DOMAIN order : order[i] \in Cached /\ pid_to_offset'[order[i]] # None
    BY <1>1, <1>2
  <2> QED BY <1>0, <1>2, <1>3, <1>6, <2>1, <2>2, <2>3, <2>4 DEF FlushOK
<1>8. HeadKept'
  BY <1>0, <1>3 DEF HeadKept
<1> QED BY <1>0, <1>3, <1>4, <1>5, <1>7, <1>8 DEF Inv, OpenOK, IndexOK

LEMMA WritePageInv == ASSUME Inv, WritePage PROVE Inv'
<1> DEFINE p == Head(unwritten)
           o == pid_to_offset[p]
<1>0. /\ CacheOK /\ TypesOK /\ FlushOK /\ HeadKept /\ phase = "pages" /\ unwritten # <<>>
      /\ file' = Written(file, o, PageOf(cache[p])) /\ unwritten' = Tail(unwritten)
      /\ UNCHANGED <<pid_to_offset, cache, pid_to_last_pagekey, phase, closing, sessions,
                     filed, named, spoilt>>
  BY DEF Inv, WritePage
<1>1. /\ unwritten \in Seq(Pid) /\ p = unwritten[1] /\ 1 \in DOMAIN unwritten
      /\ Tail(unwritten) \in Seq(Pid) /\ Len(Tail(unwritten)) = Len(unwritten) - 1
      /\ \A i \in DOMAIN Tail(unwritten) :
           i + 1 \in DOMAIN unwritten /\ Tail(unwritten)[i] = unwritten[i + 1]
      /\ \A i \in DOMAIN unwritten : i = 1 \/
           (i - 1 \in DOMAIN Tail(unwritten) /\ Tail(unwritten)[i - 1] = unwritten[i])
  BY <1>0 DEF TypesOK
<1>2. /\ \A i \in DOMAIN unwritten : unwritten[i] \in Cached /\ pid_to_offset[unwritten[i]] # None
      /\ \A i, j \in DOMAIN unwritten : unwritten[i] = unwritten[j] => i = j
      /\ Len(unwritten) <= Cardinality(Cached)
  BY <1>0 DEF FlushOK
<1>3. /\ p \in Cached /\ p \in Pid /\ o \in Offset /\ o \in Nat /\ o # None
      /\ cache[p] \in LastKey
  BY <1>0, <1>1, <1>2, Sizes DEF TypesOK, CacheOK, Cached, Names
<1> HIDE DEF p, o
<1>4. Cached' = Cached /\ CacheOK'
  BY <1>0 DEF Cached, CacheOK
<1>5. ASSUME ~spoilt
      PROVE  /\ file' \in Seq(Units) /\ o + PageUnits <= Len(file')
             /\ Len(file) <= Len(file') /\ file'[o + 1] = PageUnit(cache[p])
             /\ \A j \in 1..Len(file) : j <= o \/ o + PageUnits < j => file'[j] = file[j]
             /\ \/ file'[Len(file')] = Zero
                \/ Len(file') = Len(file) /\ file'[Len(file')] = file[Len(file)]
             /\ file \in Seq(Units) /\ Len(file) \in Nat /\ Len(file') \in Nat
  <2>1. file \in Seq(Units)
    BY <1>0, <1>5 DEF TypesOK
  <2>2. PICK g : g = Written(file, o, PageOf(cache[p]))
    OBVIOUS
  <2>3. /\ g \in Seq(Units) /\ o + PageUnits <= Len(g)
        /\ Len(file) <= Len(g) /\ g[o + 1] = PageUnit(cache[p])
        /\ \A j \in 1..Len(file) : j <= o \/ o + PageUnits < j => g[j] = file[j]
        /\ \/ g[Len(g)] = Zero
           \/ Len(g) = Len(file) /\ g[Len(g)] = file[Len(file)]
    <3>1. PageWritten(g, file, o, cache[p])
      BY <1>3, <2>1, <2>2, WritesPage
    <3> QED BY <3>1 DEF PageWritten
  <2>4. file' = g
    BY <1>0, <2>2
  <2>5. Len(file) \in Nat /\ Len(g) \in Nat
    BY <2>1, <2>3
  <2> QED BY <2>1, <2>3, <2>4, <2>5
<1>6. TypesOK'
  BY <1>0, <1>1, <1>4, <1>5 DEF TypesOK
<1>7. Len(unwritten') \in Nat /\ Len(unwritten') < Cardinality(Cached')
  <2>1. Len(unwritten) \in Nat /\ Len(unwritten) # 0
    BY <1>0, <1>1
  <2> QED BY <1>0, <1>1, <1>2, <1>4, <2>1, CachedFinite
<1>8. StillGood'
  BY <1>0, <1>7, <1>4, CachedFinite DEF StillGood, Untouched
<1>9. ASSUME ~spoilt, NEW q \in Pid, pid_to_offset[q] # None
      PROVE  \/ \E i \in DOMAIN unwritten' : unwritten'[i] = q
             \/ /\ pid_to_offset[q] + PageUnits <= Len(file')
                /\ Holds(file', pid_to_offset[q], KeyOf(q)')
  <2>0. KeyOf(q)' = KeyOf(q)
    BY <1>0, <1>4 DEF KeyOf, HeadOf
  <2>1. CASE q = p
    <3>1. KeyOf(q) = cache[p]
      BY <1>3, <2>1 DEF KeyOf
    <3>2. o < Len(file')
      BY <1>3, <1>5, <1>9, Sizes
    <3>3. Holds(file', o, cache[p])
      BY <1>5, <1>9, <3>2 DEF Holds
    <3>4. pid_to_offset[q] = o
      BY <2>1 DEF o
    <3> QED BY <1>5, <1>9, <2>0, <3>1, <3>3, <3>4
  <2>2. CASE q # p /\ \E i \in DOMAIN unwritten : unwritten[i] = q
    <3>1. PICK i \in DOMAIN unwritten : unwritten[i] = q
      BY <2>2
    <3>2. i # 1
      BY <1>1, <2>2, <3>1
    <3> QED BY <1>0, <1>1, <3>1, <3>2
  <2>3. CASE /\ q # p
             /\ pid_to_offset[q] + PageUnits <= Len(file)
             /\ Holds(file, pid_to_offset[q], KeyOf(q))
    <3>1. pid_to_offset[q] \in Nat
      BY <1>0, <1>9, Sizes DEF TypesOK, Names
    <3>2. Apart(pid_to_offset)
      BY <1>0, <1>9 DEF FlushOK, Placed
    <3>3. pid_to_offset[q] + PageUnits <= o \/ o + PageUnits <= pid_to_offset[q]
      BY <1>3, <1>9, <2>3, <3>2 DEF Apart, o
    <3>4. PICK x \in Nat : x = pid_to_offset[q]
      BY <3>1
    <3>5. /\ x < Len(file) /\ x + 1 \in 1..Len(file) /\ (x + 1 <= o \/ o + PageUnits < x + 1)
          /\ x + PageUnits <= Len(file') /\ x < Len(file')
      <4>1. PageUnits \in Nat /\ PageUnits >= 2 /\ Len(file) \in Nat /\ Len(file') \in Nat
            /\ Len(file) <= Len(file') /\ x + PageUnits <= Len(file)
        BY <1>5, <1>9, <2>3, <3>4, Sizes
      <4>2. x + PageUnits <= o \/ o + PageUnits <= x
        BY <3>3, <3>4
      <4> QED BY ONLY <1>3, <4>1, <4>2, x \in Nat
    <3>6. file'[x + 1] = file[x + 1]
      BY <1>5, <1>9, <3>5
    <3>7. Holds(file', x, KeyOf(q))
      BY <2>3, <3>4, <3>5, <3>6 DEF Holds
    <3> QED BY <2>0, <3>4, <3>5, <3>7
  <2> QED BY <1>0, <1>9, <2>1, <2>2, <2>3 DEF FlushOK
<1>10. ASSUME ~spoilt PROVE SizeAtEnd(file') \in Nat /\ SizeAtEnd(file') < Len(file')
  <2>0. Len(file') \in Nat /\ 0 < Len(file')
    BY <1>3, <1>5, <1>10, Sizes
  <2>1. CASE file'[Len(file')] = Zero
    <3>1. SizeAtEnd(file') = 0
      BY <2>1, MadeUnits DEF SizeAtEnd, Last
    <3> QED BY <2>0, <3>1
  <2>2. CASE Len(file') = Len(file) /\ file'[Len(file')] = file[Len(file)]
    <3>1. SizeAtEnd(file') = SizeAtEnd(file)
      BY <2>2 DEF SizeAtEnd, Last
    <3>2. file # <<>>
      BY <2>0, <2>2
    <3> QED BY <1>0, <1>10, <2>2, <3>1, <3>2 DEF FlushOK
  <2> QED BY <1>5, <1>10, <2>1, <2>2
<1>11. FlushOK'
  <2>1. \A i \in DOMAIN unwritten' :
          unwritten'[i] \in Cached /\ pid_to_offset[unwritten'[i]] # None
    BY <1>0, <1>1, <1>2
  <2>2. \A i, j \in DOMAIN unwritten' : unwritten'[i] = unwritten'[j] => i = j
    <3> SUFFICES ASSUME NEW i \in DOMAIN unwritten', NEW j \in DOMAIN unwritten',
                        unwritten'[i] = unwritten'[j]
                 PROVE  i = j
      OBVIOUS
    <3>1. i + 1 = j + 1
      BY <1>0, <1>1, <1>2
    <3>2. i \in Nat /\ j \in Nat
      BY <1>0, <1>1
    <3> QED BY <3>1, <3>2
  <2>3. Len(unwritten') <= Cardinality(Cached')
    BY <1>4, <1>7, CachedFinite
  <2>4. ~spoilt => Placed'
    BY <1>0, <1>4 DEF FlushOK, Placed
  <2> QED BY <1>0, <1>4, <1>9, <1>10, <2>1, <2>2, <2>3, <2>4 DEF FlushOK
<1>12. HeadKept'
  BY <1>0, <1>4 DEF HeadKept
<1> QED BY <1>0, <1>4, <1>6, <1>8, <1>11, <1>12 DEF Inv, OpenOK, IndexOK

(* A crash before the first page is written leaves the file as it was. *)
LEMMA CrashInv == ASSUME Inv, Crash PROVE Inv'
<1>0. /\ CacheOK /\ TypesOK /\ StillGood /\ FlushOK /\ phase # "closed"
      /\ phase' = "closed" /\ unwritten' = <<>> /\ pid_to_offset' = NoOffsets
      /\ cache' = Unset(Pid) /\ pid_to_last_pagekey' = Unset(Pid)
      /\ spoilt' = (spoilt \/ phase = "index"
                    \/ (phase = "pages" /\ Len(unwritten) < Cardinality(Cached)))
      /\ UNCHANGED <<file, closing, sessions, filed, named>>
  BY DEF Inv, Crash
<1>1. Cached' = {}
  BY <1>0 DEF Cached, Unset
<1>2. CacheOK'
  <2>1. cache' \in [Pid -> LastKey \cup {None}]
    BY <1>0 DEF Unset
  <2>2. Cardinality(Cached') = 0
    BY <1>1, FS_EmptySet
  <2> QED BY <1>1, <2>1, <2>2, CacheFileAssumption DEF CacheOK
<1>3. spoilt' \in BOOLEAN /\ (~spoilt' => ~spoilt)
  BY <1>0 DEF TypesOK
<1>4. TypesOK'
  <2>1. NoOffsets \in [Names -> Offset \cup {None}] /\ NoOffsets' = NoOffsets
    BY DEF NoOffsets, Unset, Names
  <2>2. pid_to_last_pagekey' \in [Pid -> Versions \cup {None}]
    BY <1>0 DEF Unset
  <2>3. <<>> \in Seq(Pid)
    OBVIOUS
  <2> QED BY <1>0, <1>1, <1>3, <2>1, <2>2, <2>3 DEF TypesOK
<1>5. StillGood'
  <2> SUFFICES ASSUME Untouched' PROVE Good(file, filed)
    BY <1>0 DEF StillGood
  <2>1. ~spoilt' /\ file # <<>>
    BY <1>0 DEF Untouched
  <2>2. ~spoilt /\ phase # "index" /\ ~(phase = "pages" /\ Len(unwritten) < Cardinality(Cached))
    BY <1>0, <2>1
  <2>3. phase = "open" \/ phase = "pages"
    BY <1>0, <2>2 DEF TypesOK
  <2>4. phase = "pages" => Len(unwritten) = Cardinality(Cached)
    <3>1. Len(unwritten) \in Nat /\ Cardinality(Cached) \in Nat
      BY <1>0, CachedFinite DEF TypesOK
    <3>2. phase = "pages" => Len(unwritten) <= Cardinality(Cached)
      BY <1>0 DEF FlushOK
    <3> QED BY <2>2, <3>1, <3>2
  <2>5. Untouched
    BY <1>0, <2>1, <2>2, <2>3, <2>4 DEF Untouched
  <2> QED BY <1>0, <2>5 DEF StillGood
<1> QED
  BY <1>0, <1>1, <1>2, <1>4, <1>5 DEF Inv, OpenOK, FlushOK, IndexOK, HeadKept

(* The cut takes no page's content as long as it takes only the padding of *)
(* one page.                                                               *)
LEMMA TruncateInv == ASSUME Inv, TruncateFile PROVE Inv'
<1> DEFINE n == SizeAtEnd(file)
<1>0. /\ CacheOK /\ TypesOK /\ FlushOK /\ HeadKept /\ phase = "pages" /\ unwritten = <<>>
      /\ \/ file = <<>> /\ phase' = "index" /\ UNCHANGED <<file, spoilt>>
         \/ /\ file # <<>> /\ UnitsCut(file) > Len(file)
            /\ phase' = "failed" /\ UNCHANGED <<file, spoilt>>
         \/ /\ file # <<>> /\ ~(UnitsCut(file) > Len(file))
            /\ file' = SubSeq(file, 1, Len(file) - UnitsCut(file))
            /\ spoilt' = (spoilt \/ CutsPages) /\ phase' = "index"
      /\ UNCHANGED <<pid_to_offset, cache, pid_to_last_pagekey, closing, unwritten,
                     sessions, filed, named>>
  BY DEF Inv, TruncateFile
<1>1. Cached' = Cached /\ CacheOK' /\ (~spoilt' => ~spoilt) /\ spoilt' \in BOOLEAN
  BY <1>0 DEF Cached, CacheOK, TypesOK
<1>2. ASSUME ~spoilt
      PROVE  /\ file \in Seq(Units) /\ Placed
             /\ \A p \in Pid : pid_to_offset[p] # None =>
                  /\ pid_to_offset[p] \in Nat
                  /\ pid_to_offset[p] + PageUnits <= Len(file)
                  /\ Holds(file, pid_to_offset[p], KeyOf(p))
             /\ file # <<>> => n \in Nat /\ n < Len(file)
  <2>1. \A p \in Pid : pid_to_offset[p] # None => pid_to_offset[p] \in Nat
    BY <1>0, Sizes DEF TypesOK, Names
  <2>2. DOMAIN unwritten = {}
    BY <1>0
  <2> QED BY <1>0, <1>2, <2>1, <2>2 DEF FlushOK, TypesOK
<1>3. CASE file = <<>> /\ phase' = "index" /\ UNCHANGED <<file, spoilt>>
  <2>1. ASSUME ~spoilt, NEW p \in Pid PROVE pid_to_offset[p] = None
    <3>1. Len(file) = 0 /\ PageUnits \in Nat /\ PageUnits >= 2
      BY <1>3, Sizes
    <3> QED BY <1>2, <2>1, <3>1
  <2>2. IndexOK'
    BY <1>0, <1>1, <1>2, <1>3, <2>1 DEF IndexOK, Placed
  <2>3. TypesOK'
    BY <1>0, <1>1, <1>3 DEF TypesOK
  <2> QED BY <1>0, <1>1, <1>3, <2>2, <2>3
          DEF Inv, StillGood, Untouched, OpenOK, FlushOK, HeadKept
<1>4. CASE /\ file # <<>> /\ UnitsCut(file) > Len(file)
           /\ phase' = "failed" /\ UNCHANGED <<file, spoilt>>
  <2>1. spoilt
    <3> SUFFICES ASSUME ~spoilt PROVE FALSE
      BY <1>0 DEF TypesOK
    <3>1. Len(file) \in Nat /\ n \in Nat /\ n < Len(file) /\ n + 1 > Len(file)
      BY <1>2, <1>4 DEF UnitsCut
    <3> HIDE DEF n
    <3> QED BY ONLY <3>1
  <2>2. TypesOK'
    BY <1>0, <1>1, <1>4, <2>1 DEF TypesOK
  <2> QED BY <1>0, <1>1, <1>4, <2>2
          DEF Inv, StillGood, Untouched, OpenOK, FlushOK, IndexOK, HeadKept
<1>5. CASE /\ file # <<>> /\ ~(UnitsCut(file) > Len(file))
           /\ file' = SubSeq(file, 1, Len(file) - UnitsCut(file))
           /\ spoilt' = (spoilt \/ CutsPages) /\ phase' = "index"
  <2>1. ASSUME ~spoilt'
        PROVE  /\ file' \in Seq(Units) /\ Len(file') = Len(file) - (n + 1)
               /\ \A j \in 1..Len(file') : file'[j] = file[j]
    <3>1. ~spoilt
      BY <1>1, <2>1
    <3>2. file \in Seq(Units) /\ Len(file) \in Nat /\ n \in Nat /\ n < Len(file)
      BY <1>2, <1>5, <3>1
    <3>3. PICK c \in Nat : c = n + 1 /\ c <= Len(file)
      <4> HIDE DEF n
      <4> QED BY <3>2
    <3>4. PICK g : g = SubSeq(file, 1, Len(file) - c)
      OBVIOUS
    <3>5. /\ g \in Seq(Units) /\ Len(g) = Len(file) - c
          /\ \A j \in 1..Len(g) : g[j] = file[j]
      BY <3>2, <3>3, <3>4, Truncated
    <3>6. file' = g
      BY <1>5, <3>3, <3>4 DEF UnitsCut
    <3> QED BY <3>3, <3>5, <3>6
  <2>2. ASSUME ~spoilt', NEW p \in Pid, pid_to_offset[p] # None
        PROVE  /\ pid_to_offset[p] + PageUnits <= Len(file') + 1
               /\ Holds(file', pid_to_offset[p], KeyOf(p)')
    <3>1. ~spoilt /\ ~CutsPages /\ file # <<>>
      BY <1>1, <1>5, <2>2
    <3>2. KeyOf(p)' = KeyOf(p)
      BY <1>0, <1>1 DEF KeyOf, HeadOf
    <3>3. PICK x \in Nat : x = pid_to_offset[p]
      BY <1>2, <2>2, <3>1
    <3>4. ~(x + PageUnits > Len(file) - n)
      BY <2>2, <3>1, <3>3 DEF CutsPages
    <3>5. PICK m \in Nat : m = n
      BY <1>2, <3>1
    <3>6. /\ x \in Nat /\ PageUnits \in Nat /\ PageUnits >= 2 /\ Len(file) \in Nat
          /\ m \in Nat /\ m < Len(file) /\ Len(file') = Len(file) - (m + 1)
          /\ ~(x + PageUnits > Len(file) - m)
      <4>1. Len(file) \in Nat
        BY <1>2, <3>1
      <4> QED BY <1>2, <2>1, <2>2, <3>1, <3>3, <3>4, <3>5, <4>1, Sizes
    <3>7. x + PageUnits <= Len(file') + 1 /\ x < Len(file') /\ x + 1 \in 1..Len(file')
      BY ONLY <3>6
    <3>8. file'[x + 1] = file[x + 1]
      BY <2>1, <2>2, <3>7
    <3>9. Holds(file, x, KeyOf(p))
      BY <1>2, <2>2, <3>1, <3>3
    <3>10. Holds(file', x, KeyOf(p))
      BY <3>7, <3>8, <3>9 DEF Holds
    <3> QED BY <3>2, <3>3, <3>7, <3>10
  <2>3. IndexOK'
    BY <1>0, <1>1, <1>2, <2>2 DEF IndexOK, Placed
  <2>4. TypesOK'
    BY <1>0, <1>1, <1>5, <2>1 DEF TypesOK
  <2> QED BY <1>0, <1>1, <1>5, <2>3, <2>4
          DEF Inv, StillGood, Untouched, OpenOK, FlushOK, HeadKept
<1> QED BY <1>0, <1>3, <1>4, <1>5

(* The index block makes the file good for the heads it files. *)
IndexPut(g, f, offsets) ==
  /\ g \in Seq(Units) /\ g # <<>> /\ g[Len(g)].tag = "size"
  /\ Readable(g) /\ OffsetsIn(g) = offsets
  /\ Len(g) - SizeAtEnd(g) = Len(f) + 1 /\ Len(f) <= Len(g)
  /\ \A j \in 1..Len(f) : g[j] = f[j]

LEMMA AppendInv == ASSUME Inv, AppendIndex PROVE Inv'
<1> DEFINE entries == {p \in DOMAIN pid_to_offset : pid_to_offset[p] # None}
<1>0. /\ CacheOK /\ TypesOK /\ IndexOK /\ HeadKept /\ phase = "index"
      /\ pid_to_offset' = NoOffsets
      /\ filed' = [p \in Pid |-> IF cache[p] # None THEN cache[p].version
                                 ELSE IF p \in entries THEN filed[p] ELSE None]
      /\ \/ /\ phase' = "closed" /\ cache' = Unset(Pid)
            /\ pid_to_last_pagekey' = Unset(Pid)
         \/ phase' = "open" /\ UNCHANGED <<cache, pid_to_last_pagekey>>
      /\ UNCHANGED <<closing, unwritten, sessions, named, spoilt>>
  BY DEF Inv, AppendIndex
<1>1. /\ pid_to_offset \in [Names -> Offset \cup {None}]
      /\ filed \in [Pid -> Versions \cup {None}] /\ spoilt \in BOOLEAN
      /\ unwritten = <<>>
  BY <1>0 DEF TypesOK
<1>2. \A p \in Cached : /\ p \in Pid /\ cache[p] # None /\ cache[p] \in LastKey
                        /\ cache[p].version \in Versions
                        /\ cache[p] = [pid |-> p, version |-> cache[p].version]
  BY <1>0 DEF CacheOK, Cached, LastKey
<1>3. \A p \in Pid : /\ p \in Cached => filed'[p] = cache[p].version
                     /\ p \notin Cached => /\ pid_to_offset[p] # None => filed'[p] = filed[p]
                                           /\ pid_to_offset[p] = None => filed'[p] = None
  BY <1>0, <1>1 DEF Cached, Names
<1>4. filed' \in [Pid -> Versions \cup {None}]
  <2>1. \A p \in Pid : filed'[p] \in Versions \cup {None}
    BY <1>1, <1>2, <1>3
  <2> QED BY <1>0, <2>1
<1>5. CacheOK' /\ (Cached' = {} \/ (Cached' = Cached /\ phase' = "open" /\ cache' = cache))
  <2>1. CASE phase' = "closed" /\ cache' = Unset(Pid)
    <3>1. Cached' = {}
      BY <2>1 DEF Cached, Unset
    <3>2. cache' \in [Pid -> LastKey \cup {None}]
      BY <2>1 DEF Unset
    <3>3. Cardinality(Cached') = 0
      BY <3>1, FS_EmptySet
    <3> QED BY <3>1, <3>2, <3>3, CacheFileAssumption DEF CacheOK
  <2>2. CASE phase' = "open" /\ cache' = cache
    BY <1>0, <2>2 DEF CacheOK, Cached
  <2> QED BY <1>0, <2>1, <2>2
<1>6. ASSUME ~spoilt PROVE IndexPut(file', file, pid_to_offset) /\ file \in Seq(Units)
  <2>1. file \in Seq(Units)
    BY <1>0, <1>6 DEF TypesOK
  <2>2. DOMAIN pid_to_offset = Names
    BY <1>1
  <2>3. PICK g :
          g = LET names == {p \in Names : pid_to_offset[p] # None}
                  order == SetToSeq(names)
              IN file \o [i \in DOMAIN order |-> Entry(order[i], pid_to_offset[order[i]])]
                      \o <<SizeUnit(IndexSize(names))>>
    OBVIOUS
  <2>4. IndexPut(g, file, pid_to_offset)
    BY <1>1, <2>1, <2>3, IndexGivesBack DEF IndexPut
  <2>5. file' = g
    BY <2>2, <2>3 DEF AppendIndex
  <2> QED BY <2>1, <2>4, <2>5
<1>7. ASSUME ~spoilt PROVE Good(file', filed')
  <2>1. /\ file' \in Seq(Units) /\ file' # <<>> /\ file'[Len(file')].tag = "size"
        /\ Readable(file') /\ OffsetsIn(file') = pid_to_offset
        /\ Len(file') - SizeAtEnd(file') = Len(file) + 1 /\ Len(file) <= Len(file')
        /\ \A j \in 1..Len(file) : file'[j] = file[j]
        /\ Len(file) \in Nat /\ Len(file') \in Nat
    BY <1>6, <1>7 DEF IndexPut
  <2>2. /\ Placed
        /\ \A p \in Pid : pid_to_offset[p] # None =>
             /\ pid_to_offset[p] + PageUnits <= Len(file) + 1
             /\ Holds(file, pid_to_offset[p], KeyOf(p))
    BY <1>0, <1>7 DEF IndexOK
  <2>3. ASSUME NEW p \in Pid
        PROVE  pid_to_offset[p] = None <=> filed'[p] = None
    <3>1. \A v \in Versions : v # None
      BY Versioned
    <3> QED BY <1>2, <1>3, <2>2, <3>1 DEF Placed
  <2>4. ASSUME NEW p \in Pid, pid_to_offset[p] # None
        PROVE  Holds(file', pid_to_offset[p], HeadOf(p, filed'))
    <3>1. HeadOf(p, filed') = KeyOf(p)
      BY <1>2, <1>3, <2>4 DEF HeadOf, KeyOf
    <3>2. PICK x \in Nat : x = pid_to_offset[p]
      BY <1>1, <2>4, Sizes DEF Names
    <3>3. x < Len(file) /\ file[x + 1] = PageUnit(KeyOf(p))
      BY <2>2, <2>4, <3>2 DEF Holds
    <3>4. x + 1 \in 1..Len(file) /\ x < Len(file')
      BY <2>1, <3>3
    <3>5. file'[x + 1] = file[x + 1]
      BY <2>1, <3>4
    <3> QED BY <3>1, <3>2, <3>3, <3>4, <3>5 DEF Holds
  <2>5. Apart(pid_to_offset) /\ pid_to_offset[Strange] = None
    BY <2>2 DEF Placed
  <2> QED BY <1>1, <2>1, <2>2, <2>3, <2>4, <2>5 DEF Good
<1>8. TypesOK'
  <2>1. NoOffsets \in [Names -> Offset \cup {None}] /\ NoOffsets' = NoOffsets
    BY DEF NoOffsets, Unset, Names
  <2>2. pid_to_last_pagekey' \in [Pid -> Versions \cup {None}]
    BY <1>0 DEF TypesOK, Unset
  <2>3. ~spoilt' => file' \in Seq(Units)
    BY <1>0, <1>7 DEF Good
  <2>4. phase' = "closed" => Cached' = {}
    BY <1>5
  <2> QED BY <1>0, <1>1, <1>4, <2>1, <2>2, <2>3, <2>4 DEF TypesOK
<1>9. OpenOK'
  <2>1. \A p \in Pid : pid_to_offset'[p] = None
    BY <1>0 DEF NoOffsets, Unset
  <2>2. NoOffsets' = NoOffsets
    BY DEF NoOffsets, Unset
  <2> QED BY <1>0, <2>1, <2>2 DEF OpenOK
<1>10. HeadKept'
  <2>1. CASE Cached' = {}
    BY <2>1 DEF HeadKept
  <2>2. CASE Cached' = Cached /\ phase' = "open" /\ cache' = cache
    <3>1. pid_to_last_pagekey' = pid_to_last_pagekey /\ named' = named /\ spoilt' = spoilt
      BY <1>0, <2>2
    <3>2. \A p \in Cached : filed'[p] = cache[p].version
      BY <1>2, <1>3
    <3> QED BY <1>0, <2>2, <3>1, <3>2 DEF HeadKept
  <2> QED BY <1>5, <2>1, <2>2
<1>11. StillGood'
  BY <1>0, <1>7 DEF StillGood, Untouched
<1> QED
  BY <1>0, <1>5, <1>8, <1>9, <1>10, <1>11 DEF Inv, FlushOK, IndexOK

LEMMA NextInv == Inv /\ [Next]_vars => Inv'
<1> SUFFICES ASSUME Inv, [Next]_vars PROVE Inv'
  OBVIOUS
<1>1. CASE Open
  BY <1>1, OpenInv
<1>2. CASE \E p \in Pid : Get(p)
  BY <1>2, GetInv
<1>3. CASE \E p \in Pid, v \in Versions : Store(p, v)
  BY <1>3, StoreInv
<1>4. CASE \E order \in SetToAllKPermutations(Cached), last \in BOOLEAN :
             Len(order) = Cardinality(Cached) /\ FlushToDisk(order, last)
  BY <1>4, FlushInv
<1>5. CASE WritePage
  BY <1>5, WritePageInv
<1>6. CASE TruncateFile
  BY <1>6, TruncateInv
<1>7. CASE AppendIndex
  BY <1>7, AppendInv
<1>8. CASE Crash
  BY <1>8, CrashInv
<1>9. CASE UNCHANGED vars
  <2>1. Cached' = Cached
    BY <1>9 DEF vars, Cached
  <2>2. /\ CacheOK' /\ TypesOK' /\ OpenOK' /\ HeadKept'
    <3>1. NoOffsets' = NoOffsets
      BY DEF NoOffsets, Unset
    <3>2. CacheOK'
      BY <1>9, <2>1 DEF vars, Inv, CacheOK
    <3>3. TypesOK'
      BY <1>9, <2>1, <3>1 DEF vars, Inv, TypesOK
    <3>4. OpenOK'
      BY <1>9, <3>1 DEF vars, Inv, OpenOK
    <3>5. HeadKept'
      BY <1>9, <2>1 DEF vars, Inv, HeadKept
    <3> QED BY <3>2, <3>3, <3>4, <3>5
  <2>3. Untouched' => Untouched
    BY <1>9, <2>1 DEF vars, Untouched
  <2>4. StillGood'
    BY <1>9, <2>3 DEF vars, Inv, StillGood
  <2>5. (Placed => Placed') /\ \A p : KeyOf(p)' = KeyOf(p)
    BY <1>9, <2>1 DEF vars, Placed, KeyOf, HeadOf
  <2>6. FlushOK'
    BY <1>9, <2>1, <2>5 DEF vars, Inv, FlushOK
  <2>7. IndexOK'
    BY <1>9, <2>5 DEF vars, Inv, IndexOK
  <2> QED BY <2>2, <2>4, <2>6, <2>7 DEF Inv
<1> QED
  BY <1>1, <1>2, <1>3, <1>4, <1>5, <1>6, <1>7, <1>8, <1>9 DEF Next

LEMMA InvHolds == Spec => []Inv
<1> HIDE DEF Inv
<1> QED BY InitInv, NextInv, PTL DEF Spec

-----------------------------------------------------------------------------
(* The properties.                                                         *)

(* In every reachable state of the pool and its file: every offset lies in *)
(* the bounds of Offset, whatever was flushed and read back; at most       *)
(* max_size pages are cached; the key of a cached page is one of its own   *)
(* kind; a flush under way has an offset for every page it still has to    *)
(* write; and a closed store keeps nothing in memory.                      *)
THEOREM CacheFileTypes == Spec => []CacheFileTypeOK
<1>1. Inv => CacheFileTypeOK
  <2> SUFFICES ASSUME Inv PROVE CacheFileTypeOK
    OBVIOUS
  <2>1. CacheOK /\ TypesOK /\ FlushOK
    BY DEF Inv
  <2>2. \A i \in DOMAIN unwritten : pid_to_offset[unwritten[i]] # None
    <3>1. CASE phase = "pages"
      BY <2>1, <3>1 DEF FlushOK
    <3>2. CASE phase # "pages"
      BY <2>1, <3>2 DEF TypesOK
    <3> QED BY <3>1, <3>2
  <2> QED BY <2>1, <2>2 DEF CacheFileTypeOK, CacheOK, TypesOK, Names
<1> HIDE DEF Inv
<1> QED BY <1>1, InvHolds, PTL

(* delta_cache.dat gives back what the last flush was to leave in it:      *)
(* outside a flush its index block can be read, names the pages of exactly *)
(* the heads filed, and each is found whole at its offset with the last    *)
(* page key it had; through every overwriting of the old index block, the  *)
(* cut of writeIndexBlock, and crashes before the first page of a flush.   *)
THEOREM FileStaysExact == Spec => []FileExact
<1>1. Inv => FileExact
  <2> SUFFICES ASSUME Inv PROVE FileExact
    OBVIOUS
  <2>1. phase = "failed" => spoilt
    BY DEF Inv, TypesOK
  <2>2. ASSUME ~spoilt, phase \in {"closed", "open"}, file \notin {None, <<>>}
        PROVE  Good(file, filed) /\ filed \in [Pid -> Versions \cup {None}]
    BY <2>2 DEF Inv, StillGood, Untouched, TypesOK
  <2>3. ASSUME ~spoilt, phase \in {"closed", "open"}, file \notin {None, <<>>}, NEW p \in Pid
        PROVE  IF filed[p] = None THEN OffsetsIn(file)[p] = None
               ELSE /\ OffsetsIn(file)[p] # None /\ Whole(file, OffsetsIn(file)[p])
                    /\ PageAt(file, OffsetsIn(file)[p]) = [pid |-> p, version |-> filed[p]]
    <3>1. Good(file, filed) /\ filed \in [Pid -> Versions \cup {None}]
      BY <2>2, <2>3
    <3>2. OffsetsIn(file)[p] = None <=> filed[p] = None
      BY <3>1 DEF Good
    <3>3. CASE filed[p] = None
      BY <3>2, <3>3
    <3>4. CASE filed[p] # None
      <4>1. /\ Whole(file, OffsetsIn(file)[p])
            /\ PageAt(file, OffsetsIn(file)[p]) = HeadOf(p, filed)
        BY <3>1, <3>2, <3>4, GoodHolds
      <4> QED BY <3>2, <3>4, <4>1 DEF HeadOf
    <3> QED BY <3>3, <3>4
  <2>4. ASSUME ~spoilt, phase \in {"closed", "open"}, file \notin {None, <<>>}
        PROVE  Readable(file)
    BY <2>2, <2>4 DEF Good
  <2> QED BY <2>1, <2>3, <2>4 DEF FileExact
<1> HIDE DEF Inv
<1> QED BY <1>1, InvHolds, PTL

(* A cached page has a last page key of its own, and the last one stored,  *)
(* however often it was evicted and made again, unless the file named it   *)
(* when the store was opened: then it may also be as the file has it, or   *)
(* as if it had never been frozen.                                         *)
THEOREM HeadsAreKept == Spec => []HeadKept
<1>1. Inv => HeadKept
  BY DEF Inv
<1> HIDE DEF Inv
<1> QED BY <1>1, InvHolds, PTL

=============================================================================
