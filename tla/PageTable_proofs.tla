--------------------------- MODULE PageTable_proofs ---------------------------
(* Proofs about PageTable, for every set of pids, every block size and      *)
(* every number of pages: lookup is exact at every step of every flush.     *)
EXTENDS PageTable, WellFoundedInduction, TLAPS

(* A non-empty set of naturals has a least element, a bounded one also a    *)
(* greatest: what every CHOOSE of a first or a last rests on.               *)
LEMMA Least ==
  ASSUME NEW S \in SUBSET Nat, S # {}
  PROVE  \E m \in S : \A k \in S : m <= k
<1> DEFINE R == OpToRel(<, Nat)
<1>1. IsWellFoundedOn(R, Nat)
  BY NatLessThanWellFounded
<1>2. \A r : r \in R <=> r \in Nat \X Nat /\ r[1] < r[2]
  BY DEF OpToRel
<1> HIDE DEF R
<1>3. PICK x \in S : \A y \in S : ~ (<<y, x>> \in R)
  BY <1>1, WFMin
<1>4. \A y \in S : ~ (y < x)
  BY <1>2, <1>3
<1> QED
  BY <1>4

LEMMA Greatest ==
  ASSUME NEW N \in Nat, NEW S \in SUBSET (0..N), S # {}
  PROVE  \E m \in S : \A k \in S : k <= m
<1> DEFINE D == {N - x : x \in S}
<1>1. D # {}
  OBVIOUS
<1>2. \A x \in S : N - x \in Nat
  OBVIOUS
<1>3. D \in SUBSET Nat
  BY <1>2
<1>4. PICK d \in D : \A e \in D : d <= e
  <2> HIDE DEF D
  <2> QED BY <1>1, <1>3, Least
<1>5. PICK m \in S : d = N - m
  BY <1>4
<1>6. \A k \in S : N - m <= N - k
  BY <1>4, <1>5
<1> QED
  BY <1>6

(* Pages are in increasing key order. *)
Sorted(pages) ==
  \A i, j \in DOMAIN pages : i < j => Less(pages[i].pagekey, pages[j].pagekey)

(* All pages of one sequence come before all pages of another. *)
Before(pages, later) ==
  \A i \in DOMAIN pages, j \in DOMAIN later :
    Less(pages[i].pagekey, later[j].pagekey)

(* A block's mappings point at pages that have the keys they name, the     *)
(* first of them at the first page.                                        *)
BlockOK(block, data) ==
  \A i \in DOMAIN block :
    /\ block[i].location \in DOMAIN data
    /\ block[i].pagekey = data[block[i].location].pagekey
    /\ block[1].location <= block[i].location

(* The blocks of a file, and the block being filled, partition its pages   *)
(* in order.                                                               *)
BlocksOK(file) ==
  \A b \in DOMAIN file.blocks :
    file.blocks[b] # <<>> /\ BlockOK(file.blocks[b], file.data)
Ordered(file) ==
  /\ \A b, c \in DOMAIN file.blocks : b < c =>
       \A i \in DOMAIN file.blocks[b], j \in DOMAIN file.blocks[c] :
         file.blocks[b][i].location < file.blocks[c][j].location
  /\ \A b \in DOMAIN file.blocks :
       \A i \in DOMAIN file.blocks[b], j \in DOMAIN file.block :
         file.blocks[b][i].location < file.block[j].location
Covers(file) ==
  \A n \in DOMAIN file.data :
    \/ \E i \in DOMAIN file.block : file.block[i].location = n
    \/ \E b \in DOMAIN file.blocks : \E i \in DOMAIN file.blocks[b] :
         file.blocks[b][i].location = n
Layout(file) ==
  /\ BlocksOK(file) /\ BlockOK(file.block, file.data)
  /\ Ordered(file) /\ Covers(file)
  /\ file.data # <<>> => file.block # <<>>

(* A finished file. *)
FileOK(f) ==
  /\ Sorted(f.data) /\ f.data # <<>>
  /\ BlocksOK(f)
  /\ Ordered([blocks |-> f.blocks, block |-> <<>>])
  /\ Covers([data |-> f.data, blocks |-> f.blocks, block |-> <<>>])
  /\ f.lookup = LookupOf(f.blocks)
  /\ f.min = f.data[1].pagekey /\ f.max = f.data[Len(f.data)].pagekey

(* The pages of a sequence are as they were given. *)
AsGiven(pages) ==
  \A i \in DOMAIN pages : given[pages[i].pagekey] = pages[i].data

PagesInv ==
  /\ Sorted(buffer) /\ AsGiven(buffer)
  /\ \A f \in DOMAIN index_files :
       /\ FileOK(index_files[f]) /\ AsGiven(index_files[f].data)
       /\ Before(index_files[f].data, buffer)
  /\ \A f, g \in DOMAIN index_files :
       f < g => Before(index_files[f].data, index_files[g].data)
NothingLost ==
  \A k \in Key : given[k] # None =>
    \/ InBuffer(k) # {}
    \/ \E f \in DOMAIN index_files : \E i \in DOMAIN index_files[f].data :
         index_files[f].data[i].pagekey = k
FlushInv ==
  /\ phase = "idle" => out = Blank
  /\ phase \in {"pages", "lookup"} =>
       /\ buffer # <<>> /\ Len(out.data) <= Len(buffer)
       /\ \A i \in DOMAIN out.data : out.data[i] = buffer[i]
  /\ phase = "pages" => Layout(out)
  /\ phase = "lookup" =>
       /\ out.block = <<>> /\ Len(out.data) = Len(buffer)
       /\ BlocksOK(out) /\ Ordered(out) /\ Covers(out)
Inv == TypeOK /\ PagesInv /\ NothingLost /\ FlushInv
     /\ \A k \in Key : given[k] # None => k.version >= FirstVersion

-----------------------------------------------------------------------------
(* Keys are totally ordered where it matters. *)
LEMMA KeyFields ==
  ASSUME NEW k \in Key
  PROVE  k.version \in Nat /\ k.pid \in Nat
<1>1. k.version \in 0..MaxVersion /\ k.pid \in Pid
  BY DEF Key
<1>2. MaxVersion \in Nat /\ Pid \in SUBSET Nat
  BY ConstantsAssumption
<1>3. k.version \in Nat
  BY <1>1, <1>2
<1>4. k.pid \in Nat
  BY <1>1, <1>2
<1> QED
  BY <1>3, <1>4

LEMMA KeyOrder ==
  ASSUME NEW a \in Key, NEW b \in Key, NEW c \in Key
  PROVE  /\ ~Less(a, a)
         /\ Less(a, b) => ~AtMost(b, a)
         /\ Less(a, b) /\ AtMost(b, c) => Less(a, c)
         /\ AtMost(a, b) /\ Less(b, c) => Less(a, c)
<1> DEFINE Rank(k) == IF k.delta THEN 1 ELSE 0
<1>1. \A k \in Key : k.version \in Nat /\ Rank(k) \in Nat /\ k.pid \in Nat
  BY KeyFields
<1>2. \A k, l \in Key :
        /\ k.delta = l.delta <=> Rank(k) = Rank(l)
        /\ (~k.delta /\ l.delta) <=> Rank(k) < Rank(l)
  BY DEF Key
<1>3. \A k, l \in Key :
        Less(k, l) <=> \/ k.version < l.version
                       \/ k.version = l.version /\ Rank(k) < Rank(l)
                       \/ /\ k.version = l.version /\ Rank(k) = Rank(l)
                          /\ k.pid < l.pid
  BY <1>2 DEF Less
<1> HIDE DEF Rank
<1>4. ~Less(a, a) /\ (Less(a, b) => ~Less(b, a))
  BY <1>1, <1>3
<1>5. Less(a, b) /\ Less(b, c) => Less(a, c)
  BY <1>1, <1>3
<1> QED
  BY <1>4, <1>5 DEF AtMost

LEMMA SortedKeysDiffer ==
  ASSUME NEW pages \in Seq(Page), Sorted(pages),
         NEW i \in DOMAIN pages, NEW j \in DOMAIN pages
  PROVE  /\ pages[i].pagekey = pages[j].pagekey => i = j
         /\ i <= j => AtMost(pages[i].pagekey, pages[j].pagekey)
<1>1. pages[i].pagekey \in Key /\ pages[j].pagekey \in Key
  <2>1. pages[i] \in Page /\ pages[j] \in Page
    OBVIOUS
  <2> QED
    BY <2>1 DEF Page
<1>2. i \in Nat /\ j \in Nat
  OBVIOUS
<1>3. CASE i = j
  BY <1>3 DEF AtMost
<1>4. CASE i < j
  <2>1. Less(pages[i].pagekey, pages[j].pagekey)
    BY <1>4 DEF Sorted
  <2> QED
    BY <1>1, <1>2, <1>4, <2>1, KeyOrder DEF AtMost
<1>5. CASE j < i
  <2>1. Less(pages[j].pagekey, pages[i].pagekey)
    BY <1>5 DEF Sorted
  <2> QED
    BY <1>1, <1>2, <1>5, <2>1, KeyOrder DEF AtMost
<1> QED
  BY <1>2, <1>3, <1>4, <1>5

(* The CHOOSE of First and of Last. *)
LEMMA FirstLast ==
  ASSUME NEW N \in Nat, NEW S \in SUBSET (1..N), S # {}
  PROVE  /\ First(S) \in S /\ \A j \in S : First(S) <= j
         /\ Last(S) \in S /\ \A j \in S : j <= Last(S)
<1>1. S \in SUBSET Nat /\ S \in SUBSET (0..N)
  OBVIOUS
<1>2. \E m \in S : \A k \in S : m <= k
  BY <1>1, Least
<1>3. \E m \in S : \A k \in S : k <= m
  BY <1>1, Greatest
<1> QED
  BY <1>2, <1>3 DEF First, Last

(* A finished file answers a key with its page, or with nothing when none  *)
(* of its pages has the key.                                               *)
LEMMA FoundInFile ==
  ASSUME NEW f \in IndexFile, FileOK(f), NEW n \in DOMAIN f.data
  PROVE  readPageFromIndexFile(f, f.data[n].pagekey) = f.data[n]
<1> DEFINE k == f.data[n].pagekey
           below == NotAbove(f, k)
           c == Last(below)
           found == MappingsOf(f.blocks[c], k)
<1>1. /\ f.data \in Seq(Page) /\ f.blocks \in Seq(Seq(Mapping))
      /\ f.lookup \in Seq(Key) /\ f.data[n] \in Page /\ k \in Key
  <2>1. /\ f.data \in Seq(Page) /\ f.blocks \in Seq(Seq(Mapping))
        /\ f.lookup \in Seq(Key)
    BY DEF IndexFile
  <2>2. f.data[n] \in Page
    BY <2>1
  <2> QED
    BY <2>1, <2>2 DEF Page
<1>2. PICK b \in DOMAIN f.blocks : \E i \in DOMAIN f.blocks[b] :
        f.blocks[b][i].location = n
  BY DEF FileOK, Covers
<1>3. PICK i \in DOMAIN f.blocks[b] : f.blocks[b][i].location = n
  BY <1>2
<1>4. \A d \in DOMAIN f.blocks :
        /\ f.blocks[d] \in Seq(Mapping) /\ f.blocks[d] # <<>>
        /\ 1 \in DOMAIN f.blocks[d]
        /\ f.blocks[d][1].location \in DOMAIN f.data
        /\ f.lookup[d] = f.data[f.blocks[d][1].location].pagekey
        /\ d \in DOMAIN f.lookup /\ f.lookup[d] \in Key
  BY <1>1 DEF FileOK, BlocksOK, BlockOK, LookupOf, IndexFile, Page
<1>5. DOMAIN f.lookup = DOMAIN f.blocks
  BY <1>1 DEF FileOK, LookupOf
<1>6. b \in below
  <2>1. f.blocks[b][1].location <= n
    <3>1. BlockOK(f.blocks[b], f.data)
      BY <1>2 DEF FileOK, BlocksOK
    <3> QED
      BY <1>3, <3>1 DEF BlockOK
  <2>2. AtMost(f.lookup[b], k)
    BY <1>1, <1>2, <1>4, <2>1, SortedKeysDiffer DEF FileOK
  <2> QED
    BY <1>2, <1>5, <2>2 DEF NotAbove
<1>7. below \in SUBSET (1..Len(f.blocks)) /\ Len(f.blocks) \in Nat
  BY <1>1, <1>5 DEF NotAbove
<1>8. c \in below /\ b <= c /\ c \in DOMAIN f.blocks
  BY <1>1, <1>6, <1>7, FirstLast
<1>9. c = b
  <2>1. SUFFICES ASSUME b < c PROVE FALSE
    BY <1>1, <1>2, <1>8
  <2>2. n < f.blocks[c][1].location
    BY <1>2, <1>3, <1>4, <1>8, <2>1 DEF FileOK, Ordered
  <2>3. Less(k, f.lookup[c])
    BY <1>1, <1>4, <1>8, <2>2 DEF FileOK, Sorted
  <2>4. AtMost(f.lookup[c], k)
    BY <1>8 DEF NotAbove
  <2> QED
    BY <1>1, <1>4, <1>8, <2>3, <2>4, KeyOrder
<1>10. i \in found
  <2>1. f.blocks[b][i].pagekey = k
    BY <1>2, <1>3 DEF FileOK, BlocksOK, BlockOK
  <2> QED
    BY <1>3, <1>9, <2>1 DEF MappingsOf
<1>11. found \in SUBSET (1..Len(f.blocks[b])) /\ Len(f.blocks[b]) \in Nat
  BY <1>2, <1>4, <1>9 DEF MappingsOf
<1>12. First(found) \in found
  BY <1>10, <1>11, FirstLast
<1> DEFINE mapping == f.blocks[c][First(found)]
<1>13. mapping.pagekey = k /\ mapping.location \in DOMAIN f.data
       /\ mapping.pagekey = f.data[mapping.location].pagekey
  BY <1>8, <1>12 DEF MappingsOf, FileOK, BlocksOK, BlockOK
<1>14. mapping.location = n
  BY <1>1, <1>13, SortedKeysDiffer DEF FileOK
<1>15. below # {} /\ found # {}
  BY <1>6, <1>10
<1>16. readPageFromIndexFile(f, k) =
         [pagekey |-> mapping.pagekey, data |-> f.data[mapping.location].data]
  BY <1>15 DEF readPageFromIndexFile
<1>17. f.data[n] = [pagekey |-> k, data |-> f.data[n].data]
  BY <1>1 DEF Page
<1> QED
  BY <1>13, <1>14, <1>16, <1>17

LEMMA AbsentFromFile ==
  ASSUME NEW f \in IndexFile, FileOK(f), NEW k \in Key,
         \A n \in DOMAIN f.data : f.data[n].pagekey # k
  PROVE  readPageFromIndexFile(f, k) = None
<1> DEFINE below == NotAbove(f, k)
           found == MappingsOf(f.blocks[Last(below)], k)
<1>1. /\ f.blocks \in Seq(Seq(Mapping)) /\ f.lookup \in Seq(Key)
  BY DEF IndexFile
<1>2. SUFFICES ASSUME below # {} PROVE found = {}
  BY DEF readPageFromIndexFile
<1>3. DOMAIN f.lookup = DOMAIN f.blocks
  BY <1>1 DEF FileOK, LookupOf
<1>4. below \in SUBSET (1..Len(f.blocks)) /\ Len(f.blocks) \in Nat
  BY <1>1, <1>3 DEF NotAbove
<1>5. Last(below) \in DOMAIN f.blocks
  <2>1. Last(below) \in below
    BY <1>2, <1>4, FirstLast
  <2> QED
    BY <1>3, <2>1 DEF NotAbove
<1> DEFINE block == f.blocks[Last(below)]
<1>6. BlockOK(block, f.data)
  BY <1>5 DEF FileOK, BlocksOK
<1>7. \A i \in DOMAIN block : block[i].pagekey # k
  BY <1>6 DEF BlockOK
<1> QED
  BY <1>7 DEF MappingsOf

(* The invariant makes lookup exact. *)
LEMMA InvLookupExact ==
  ASSUME FirstVersion > 0, Inv
  PROVE  LookupExact
<1>1. /\ buffer \in Seq(Page) /\ index_files \in Seq(IndexFile)
      /\ given \in [Key -> Data \cup {None}]
  BY DEF Inv, TypeOK
<1>2. SUFFICES ASSUME NEW k \in Key PROVE pageLookup(k) = Given(k)
  BY DEF LookupExact
<1>3. CASE InBuffer(k) # {}
  <2> DEFINE i == First(InBuffer(k))
  <2>1. InBuffer(k) \in SUBSET (1..Len(buffer)) /\ Len(buffer) \in Nat
    BY <1>1 DEF InBuffer
  <2>2. i \in InBuffer(k)
    BY <1>3, <2>1, FirstLast
  <2>3. i \in DOMAIN buffer /\ buffer[i].pagekey = k
    BY <2>2 DEF InBuffer
  <2>4. buffer[i] \in Page /\ buffer[i].data = given[k]
    BY <1>1, <2>3 DEF Inv, PagesInv, AsGiven
  <2>5. given[k] # None /\ buffer[i] = [pagekey |-> k, data |-> given[k]]
    BY <2>3, <2>4, NoneAssumption DEF Page
  <2>6. k.version # 0
    <3>1. k.version >= FirstVersion
      BY <2>5 DEF Inv
    <3> QED
      BY <3>1, KeyFields, ConstantsAssumption
  <2> QED
    BY <1>3, <2>5, <2>6 DEF pageLookup, Given
<1>4. CASE InBuffer(k) = {} /\ given[k] # None
  <2>1. PICK f \in DOMAIN index_files : \E n \in DOMAIN index_files[f].data :
          index_files[f].data[n].pagekey = k
    BY <1>4 DEF Inv, NothingLost
  <2>2. PICK n \in DOMAIN index_files[f].data :
          index_files[f].data[n].pagekey = k
    BY <2>1
  <2> DEFINE file(g) == index_files[g]
  <2>3. \A g \in DOMAIN index_files :
          /\ file(g) \in IndexFile /\ FileOK(file(g)) /\ file(g).data \in Seq(Page)
          /\ 1 \in DOMAIN file(g).data
          /\ Len(file(g).data) \in DOMAIN file(g).data
          /\ file(g).min \in Key /\ file(g).max \in Key
          /\ file(g).min = file(g).data[1].pagekey
          /\ file(g).max = file(g).data[Len(file(g).data)].pagekey
    <3> SUFFICES ASSUME NEW g \in DOMAIN index_files
                 PROVE  /\ file(g) \in IndexFile /\ FileOK(file(g))
                        /\ file(g).data \in Seq(Page)
                        /\ 1 \in DOMAIN file(g).data
                        /\ Len(file(g).data) \in DOMAIN file(g).data
                        /\ file(g).min \in Key /\ file(g).max \in Key
                        /\ file(g).min = file(g).data[1].pagekey
                        /\ file(g).max = file(g).data[Len(file(g).data)].pagekey
      OBVIOUS
    <3>1. file(g) \in IndexFile /\ FileOK(file(g))
      BY <1>1 DEF Inv, PagesInv
    <3>2. /\ file(g).data \in Seq(Page)
          /\ file(g).min \in Key /\ file(g).max \in Key
      BY <3>1 DEF IndexFile
    <3> QED
      BY <3>1, <3>2 DEF FileOK
  <2>4. f \in Covering(k)
    <3>1. AtMost(file(f).min, k) /\ AtMost(k, file(f).max)
      <4>1. Sorted(file(f).data) /\ file(f).data \in Seq(Page)
        BY <2>1, <2>3 DEF FileOK
      <4>2. 1 <= n /\ n <= Len(file(f).data) /\ n \in DOMAIN file(f).data
        BY <2>2, <4>1
      <4>3. /\ AtMost(file(f).data[1].pagekey, file(f).data[n].pagekey)
            /\ AtMost(file(f).data[n].pagekey,
                      file(f).data[Len(file(f).data)].pagekey)
        BY <2>1, <2>3, <4>1, <4>2, SortedKeysDiffer
      <4> QED
        BY <2>1, <2>2, <2>3, <4>3
    <3> QED
      BY <2>1, <3>1 DEF Covering
  <2>5. ASSUME NEW g \in Covering(k)
        PROVE  g = f
    <3>1. /\ g \in DOMAIN index_files
          /\ AtMost(file(g).min, k) /\ AtMost(k, file(g).max)
      BY DEF Covering
    <3>2. ASSUME g < f PROVE FALSE
      <4>1. Less(file(g).max, k)
        <5>1. Before(file(g).data, file(f).data)
          BY <2>1, <3>1, <3>2 DEF Inv, PagesInv
        <5> QED
          BY <2>2, <2>3, <3>1, <5>1 DEF Before
      <4> QED
        BY <2>3, <3>1, <4>1, KeyOrder
    <3>3. ASSUME f < g PROVE FALSE
      <4>1. Less(k, file(g).min)
        <5>1. Before(file(f).data, file(g).data)
          BY <2>1, <3>1, <3>3 DEF Inv, PagesInv
        <5> QED
          BY <2>2, <2>3, <3>1, <5>1 DEF Before
      <4> QED
        BY <2>3, <3>1, <4>1, KeyOrder
    <3> QED
      BY <1>1, <2>1, <3>1, <3>2, <3>3
  <2>6. First(Covering(k)) = f
    <3>1. Covering(k) \in SUBSET (1..Len(index_files)) /\ Len(index_files) \in Nat
      BY <1>1 DEF Covering
    <3>2. First(Covering(k)) \in Covering(k)
      BY <2>4, <3>1, FirstLast
    <3> QED
      BY <2>5, <3>2
  <2>7. readPageFromIndexFile(file(f), k) = file(f).data[n]
    BY <2>1, <2>2, <2>3, FoundInFile
  <2>8. file(f).data[n] = [pagekey |-> k, data |-> given[k]]
    <3>1. file(f).data[n] \in Page
      BY <2>1, <2>2, <2>3
    <3>2. given[k] = file(f).data[n].data
      BY <2>1, <2>2 DEF Inv, PagesInv, AsGiven
    <3> QED
      BY <2>2, <3>1, <3>2 DEF Page
  <2>9. k.version # 0
    <3>1. k.version >= FirstVersion
      BY <1>4 DEF Inv
    <3> QED
      BY <3>1, KeyFields, ConstantsAssumption
  <2> QED
    BY <1>4, <2>4, <2>6, <2>7, <2>8, <2>9 DEF pageLookup, Given
<1>5. CASE InBuffer(k) = {} /\ given[k] = None
  <2>1. ASSUME Covering(k) # {}
        PROVE  readPageFromIndexFile(index_files[First(Covering(k))], k) = None
    <3> DEFINE g == First(Covering(k))
    <3>1. Covering(k) \in SUBSET (1..Len(index_files)) /\ Len(index_files) \in Nat
      BY <1>1 DEF Covering
    <3>2. g \in DOMAIN index_files
      BY <2>1, <3>1, FirstLast DEF Covering
    <3>3. /\ index_files[g] \in IndexFile /\ FileOK(index_files[g])
          /\ AsGiven(index_files[g].data)
      BY <1>1, <3>2 DEF Inv, PagesInv
    <3>4. index_files[g].data \in Seq(Page)
      BY <3>3 DEF IndexFile
    <3>5. \A n \in DOMAIN index_files[g].data :
            index_files[g].data[n].pagekey # k
      <4> SUFFICES ASSUME NEW n \in DOMAIN index_files[g].data,
                          index_files[g].data[n].pagekey = k
                   PROVE  FALSE
        OBVIOUS
      <4>1. index_files[g].data[n] \in Page
        BY <3>4
      <4>2. index_files[g].data[n].data = None
        BY <1>5, <3>3 DEF AsGiven
      <4> QED
        BY <4>1, <4>2, NoneAssumption DEF Page
    <3> QED
      BY <3>3, <3>5, AbsentFromFile
  <2> QED
    BY <1>5, <2>1 DEF pageLookup, Given
<1> QED
  BY <1>3, <1>4, <1>5

-----------------------------------------------------------------------------
(* The steps keep the invariant. *)

OutFile == [data : Seq(Page), blocks : Seq(Seq(Mapping)), block : Seq(Mapping)]

LEMMA BlankLayout == Blank \in OutFile /\ Layout(Blank)
BY DEF Blank, OutFile, Layout, BlocksOK, BlockOK, Ordered, Covers

(* A page added at the end of the file, with its mapping, keeps the blocks *)
(* in order and covering: in a block of its own...                         *)
PageAdded(file, page, m, g) ==
  /\ g.data = Append(file.data, page)
  /\ m.location = Len(file.data) + 1 /\ m.pagekey = page.pagekey

LEMMA NewBlockLayout ==
  ASSUME NEW file \in OutFile, Layout(file), file.block # <<>>,
         NEW page \in Page, NEW m \in Mapping, NEW g \in OutFile,
         PageAdded(file, page, m, g),
         g.blocks = Append(file.blocks, file.block), g.block = <<m>>
  PROVE  Layout(g)
<1> DEFINE N == Len(file.data)
<1>1. /\ file.data \in Seq(Page) /\ file.blocks \in Seq(Seq(Mapping))
      /\ file.block \in Seq(Mapping) /\ N \in Nat
  BY DEF OutFile
<1>2. m.location = N + 1 /\ m.pagekey = page.pagekey
  BY DEF PageAdded
<1>3. /\ DOMAIN g.data = 1..(N + 1) /\ DOMAIN file.data = 1..N
      /\ g.data[N + 1] = page
      /\ \A n \in DOMAIN file.data : n \in DOMAIN g.data /\ g.data[n] = file.data[n]
  <2>1. g.data = Append(file.data, page)
    BY DEF PageAdded
  <2> QED
    BY <1>1, <2>1
<1>4. \A block : BlockOK(block, file.data) => BlockOK(block, g.data)
  BY <1>3 DEF BlockOK
<1>5. /\ \A b \in DOMAIN file.blocks :
           /\ file.blocks[b] \in Seq(Mapping) /\ file.blocks[b] # <<>>
           /\ BlockOK(file.blocks[b], file.data)
      /\ BlockOK(file.block, file.data)
      /\ Ordered(file) /\ Covers(file)
  BY <1>1 DEF Layout, BlocksOK
<1> DEFINE B == Len(file.blocks)
<1>6. /\ DOMAIN g.blocks = 1..(B + 1) /\ DOMAIN file.blocks = 1..B /\ B \in Nat
      /\ g.blocks[B + 1] = file.block
      /\ \A b \in 1..B : g.blocks[b] = file.blocks[b]
  BY <1>1
<1>7. BlocksOK(g)
  <2> SUFFICES ASSUME NEW b \in DOMAIN g.blocks
               PROVE  g.blocks[b] # <<>> /\ BlockOK(g.blocks[b], g.data)
    BY DEF BlocksOK
  <2>1. CASE b = B + 1
    BY <1>4, <1>5, <1>6, <2>1
  <2>2. CASE b \in 1..B
    BY <1>4, <1>5, <1>6, <2>2
  <2> QED
    BY <1>6, <2>1, <2>2
<1>8. BlockOK(g.block, g.data) /\ DOMAIN g.block = {1} /\ g.block[1] = m
  <2>1. DOMAIN g.block = {1} /\ g.block[1] = m
    OBVIOUS
  <2> QED
    BY <1>1, <1>2, <1>3, <2>1 DEF BlockOK
<1>9. \A block : BlockOK(block, file.data) =>
         \A i \in DOMAIN block : block[i].location \in 1..N
  BY <1>3 DEF BlockOK
<1>10. Ordered(g)
  <2>1. ASSUME NEW b \in DOMAIN g.blocks, NEW c \in DOMAIN g.blocks, b < c,
               NEW i \in DOMAIN g.blocks[b], NEW j \in DOMAIN g.blocks[c]
        PROVE  g.blocks[b][i].location < g.blocks[c][j].location
    <3>1. b \in 1..B /\ (c \in 1..B \/ c = B + 1)
      <4>1. B \in Nat /\ b \in 1..(B + 1) /\ c \in 1..(B + 1) /\ b < c
        BY <1>6, <2>1
      <4> HIDE DEF B
      <4> QED
        BY SMTT(30), <4>1
    <3>2. g.blocks[b] = file.blocks[b] /\ b \in DOMAIN file.blocks
      BY <1>6, <3>1
    <3>3. CASE c \in 1..B
      <4>1. g.blocks[c] = file.blocks[c] /\ c \in DOMAIN file.blocks
        BY <1>6, <3>3
      <4> HIDE DEF B
      <4> QED
        BY <1>5, <2>1, <3>2, <4>1 DEF Ordered
    <3>4. CASE c = B + 1
      <4>1. g.blocks[c] = file.block
        BY <1>6, <3>4
      <4> HIDE DEF B
      <4> QED
        BY <1>5, <2>1, <3>2, <4>1 DEF Ordered
    <3> QED
      BY <3>1, <3>3, <3>4
  <2>2. ASSUME NEW b \in DOMAIN g.blocks,
               NEW i \in DOMAIN g.blocks[b], NEW j \in DOMAIN g.block
        PROVE  g.blocks[b][i].location < g.block[j].location
    <3>1. g.block[j].location = N + 1
      BY <1>2, <1>8
    <3>2. g.blocks[b][i].location \in 1..N
      BY <1>5, <1>6, <1>9
    <3> QED
      BY SMTT(30), <1>1, <3>1, <3>2
  <2> QED
    BY <2>1, <2>2 DEF Ordered
<1>11. Covers(g)
  <2> SUFFICES ASSUME NEW n \in DOMAIN g.data
               PROVE  \/ \E i \in DOMAIN g.block : g.block[i].location = n
                      \/ \E b \in DOMAIN g.blocks : \E i \in DOMAIN g.blocks[b] :
                           g.blocks[b][i].location = n
    BY DEF Covers
  <2>1. CASE n = N + 1
    BY <1>2, <1>8, <2>1
  <2>2. CASE n \in DOMAIN file.data
    <3>1. CASE \E i \in DOMAIN file.block : file.block[i].location = n
      BY SMTT(30), <1>6, <3>1
    <3>2. CASE \E b \in DOMAIN file.blocks : \E i \in DOMAIN file.blocks[b] :
                 file.blocks[b][i].location = n
      <4>1. PICK b \in 1..B : \E i \in DOMAIN file.blocks[b] :
                                 file.blocks[b][i].location = n
        BY <1>6, <3>2
      <4>2. b \in DOMAIN g.blocks /\ g.blocks[b] = file.blocks[b]
        <5>1. B \in Nat /\ b \in 1..B
          BY <1>6
        <5>2. b \in 1..(B + 1)
          BY <5>1
        <5> QED
          BY <1>6, <5>1, <5>2
      <4> HIDE DEF B
      <4> QED
        BY <4>1, <4>2
    <3> QED
      BY <1>5, <2>2, <3>1, <3>2 DEF Covers
  <2> QED
    BY <1>1, <1>3, <2>1, <2>2
<1>12. g.block # <<>>
  BY <1>8
<1> QED
  BY <1>3, <1>7, <1>8, <1>10, <1>11, <1>12 DEF Layout

(* ... or in the block being filled. *)
LEMMA SameBlockLayout ==
  ASSUME NEW file \in OutFile, Layout(file),
         NEW page \in Page, NEW m \in Mapping, NEW g \in OutFile,
         PageAdded(file, page, m, g),
         g.blocks = file.blocks, g.block = Append(file.block, m)
  PROVE  Layout(g)
<1> DEFINE N == Len(file.data)
<1>1. /\ file.data \in Seq(Page) /\ file.blocks \in Seq(Seq(Mapping))
      /\ file.block \in Seq(Mapping) /\ N \in Nat
  BY DEF OutFile
<1>2. m.location = N + 1 /\ m.pagekey = page.pagekey
  BY DEF PageAdded
<1>3. /\ DOMAIN g.data = 1..(N + 1) /\ DOMAIN file.data = 1..N
      /\ g.data[N + 1] = page
      /\ \A n \in DOMAIN file.data : n \in DOMAIN g.data /\ g.data[n] = file.data[n]
  <2>1. g.data = Append(file.data, page)
    BY DEF PageAdded
  <2> QED
    BY <1>1, <2>1
<1>4. \A block : BlockOK(block, file.data) => BlockOK(block, g.data)
  BY <1>3 DEF BlockOK
<1>5. /\ \A b \in DOMAIN file.blocks :
           /\ file.blocks[b] \in Seq(Mapping) /\ file.blocks[b] # <<>>
           /\ BlockOK(file.blocks[b], file.data)
      /\ BlockOK(file.block, file.data)
      /\ Ordered(file) /\ Covers(file)
  BY <1>1 DEF Layout, BlocksOK
<1> DEFINE L == Len(file.block)
<1>6. /\ DOMAIN g.block = 1..(L + 1) /\ DOMAIN file.block = 1..L /\ L \in Nat
      /\ g.block[L + 1] = m
      /\ \A i \in 1..L : g.block[i] = file.block[i]
  BY <1>1
<1>7. BlocksOK(g)
  BY <1>4, <1>5 DEF BlocksOK
<1>8. BlockOK(g.block, g.data)
  <2> SUFFICES ASSUME NEW i \in DOMAIN g.block
               PROVE  /\ g.block[i].location \in DOMAIN g.data
                      /\ g.block[i].pagekey = g.data[g.block[i].location].pagekey
                      /\ g.block[1].location <= g.block[i].location
    BY DEF BlockOK
  <2>1. ASSUME NEW j \in 1..L
        PROVE  /\ g.block[j].location \in 1..N
               /\ g.block[j].pagekey = g.data[g.block[j].location].pagekey
               /\ g.block[1].location <= g.block[j].location
    <3>1. /\ g.block[j] = file.block[j] /\ j \in DOMAIN file.block
          /\ 1 \in 1..L /\ g.block[1] = file.block[1]
      BY <1>6
    <3>2. /\ file.block[j].location \in DOMAIN file.data
          /\ file.block[j].pagekey = file.data[file.block[j].location].pagekey
          /\ file.block[1].location <= file.block[j].location
      BY <1>5, <3>1 DEF BlockOK
    <3> QED
      BY <1>3, <3>1, <3>2
  <2>2. CASE i \in 1..L
    BY <1>1, <1>3, <2>1, <2>2
  <2>3. CASE i = L + 1
    <3>1. /\ g.block[i].location = N + 1
          /\ g.block[i].pagekey = g.data[N + 1].pagekey
      BY <1>2, <1>3, <1>6, <2>3
    <3>2. g.block[1].location <= N + 1
      <4>1. CASE L = 0
        BY <1>1, <2>3, <3>1, <4>1
      <4>2. CASE 1 \in 1..L
        BY <1>1, <2>1, <4>2
      <4> QED
        BY <1>6, <4>1, <4>2
    <3> QED
      BY <1>1, <1>3, <3>1, <3>2
  <2> QED
    BY <1>6, <2>2, <2>3
<1>9. Ordered(g)
  <2>1. ASSUME NEW b \in DOMAIN g.blocks,
               NEW i \in DOMAIN g.blocks[b], NEW j \in DOMAIN g.block
        PROVE  g.blocks[b][i].location < g.block[j].location
    <3>1. CASE j \in 1..L
      BY <1>5, <1>6, <3>1 DEF Ordered
    <3>2. CASE j = L + 1
      <4>1. g.blocks[b][i].location \in 1..N
        BY <1>3, <1>5 DEF BlockOK
      <4>2. g.block[j].location = N + 1
        BY <1>2, <1>6, <3>2
      <4>3. N \in Nat
        BY <1>1
      <4> QED
        BY SMTT(30), <4>1, <4>2, <4>3
    <3> QED
      BY <1>6, <3>1, <3>2
  <2> QED
    BY <1>5, <2>1 DEF Ordered
<1>10. Covers(g)
  <2> SUFFICES ASSUME NEW n \in DOMAIN g.data
               PROVE  \/ \E i \in DOMAIN g.block : g.block[i].location = n
                      \/ \E b \in DOMAIN g.blocks : \E i \in DOMAIN g.blocks[b] :
                           g.blocks[b][i].location = n
    BY DEF Covers
  <2>1. CASE n = N + 1
    BY <1>2, <1>6, <2>1
  <2>2. CASE n \in DOMAIN file.data
    <3>1. CASE \E i \in DOMAIN file.block : file.block[i].location = n
      BY <1>6, <3>1
    <3>2. CASE \E b \in DOMAIN file.blocks : \E i \in DOMAIN file.blocks[b] :
                 file.blocks[b][i].location = n
      BY <3>2
    <3> QED
      BY <1>5, <2>2, <3>1, <3>2 DEF Covers
  <2> QED
    BY <1>1, <1>3, <2>1, <2>2
<1>11. g.block # <<>>
  BY <1>6
<1> QED
  BY <1>3, <1>7, <1>8, <1>9, <1>10, <1>11 DEF Layout

LEMMA AddMappingLayout ==
  ASSUME NEW file \in OutFile, Layout(file), NEW page \in Page
  PROVE  LET m == [pagekey |-> page.pagekey, location |-> Location(file)]
             g == AddMapping([file EXCEPT !.data = Append(@, page)], m)
         IN  g \in OutFile /\ Layout(g) /\ g.data = Append(file.data, page)
<1> DEFINE m == [pagekey |-> page.pagekey, location |-> Location(file)]
           h == [file EXCEPT !.data = Append(@, page)]
           g == AddMapping(h, m)
<1> SUFFICES g \in OutFile /\ Layout(g) /\ g.data = Append(file.data, page)
  OBVIOUS
<1>1. /\ file.data \in Seq(Page) /\ file.blocks \in Seq(Seq(Mapping))
      /\ file.block \in Seq(Mapping)
  BY DEF OutFile
<1>2. /\ m \in Mapping /\ m.location = Len(file.data) + 1
      /\ m.pagekey = page.pagekey
  BY <1>1 DEF Mapping, Location, Page
<1> HIDE DEF m, g
<1>3. /\ h \in OutFile /\ h.data = Append(file.data, page)
      /\ h.blocks = file.blocks /\ h.block = file.block
  <2>1. Append(file.data, page) \in Seq(Page)
    BY <1>1
  <2> DEFINE data == Append(file.data, page)
  <2>2. data \in Seq(Page) /\ h = [file EXCEPT !.data = data]
    BY <2>1
  <2> HIDE DEF data, h
  <2>3. /\ h \in OutFile /\ h.data = data
        /\ h.blocks = file.blocks /\ h.block = file.block
    BY <1>1, <2>2 DEF OutFile
  <2> QED
    BY <2>3 DEF data
<1> HIDE DEF h
<1>4. CASE Len(h.block) >= BlockEntries
  <2> DEFINE blocks == Append(h.blocks, h.block)
             block == <<m>>
  <2>1. g = [h EXCEPT !.blocks = blocks, !.block = block]
    BY <1>4 DEF AddMapping, g
  <2>2. blocks \in Seq(Seq(Mapping)) /\ block \in Seq(Mapping)
    BY <1>1, <1>2, <1>3
  <2>3. g \in OutFile /\ g.data = h.data /\ g.blocks = blocks /\ g.block = block
    <3> HIDE DEF blocks, block
    <3> QED
      BY <1>3, <2>1, <2>2 DEF OutFile
  <2>4. file.block # <<>>
    BY <1>1, <1>3, <1>4, ConstantsAssumption
  <2>5. PageAdded(file, page, m, g)
    BY <1>2, <1>3, <2>3 DEF PageAdded
  <2>6. Layout(g)
    BY <1>2, <1>3, <2>3, <2>4, <2>5, NewBlockLayout
  <2> QED
    BY <1>3, <2>3, <2>6
<1>5. CASE ~(Len(h.block) >= BlockEntries)
  <2> DEFINE block == Append(h.block, m)
  <2>1. g = [h EXCEPT !.block = block]
    BY <1>5 DEF AddMapping, g
  <2>2. block \in Seq(Mapping)
    BY <1>1, <1>2, <1>3
  <2>3. /\ g \in OutFile /\ g.data = h.data
        /\ g.blocks = h.blocks /\ g.block = block
    <3> HIDE DEF block
    <3> QED
      BY <1>3, <2>1, <2>2 DEF OutFile
  <2>4. PageAdded(file, page, m, g)
    BY <1>2, <1>3, <2>3 DEF PageAdded
  <2>5. Layout(g)
    BY <1>2, <1>3, <2>3, <2>4, SameBlockLayout
  <2> QED
    BY <1>3, <2>3, <2>5
<1> QED
  BY <1>4, <1>5

LEMMA InitInv == Init => Inv
<1> SUFFICES ASSUME Init PROVE Inv
  OBVIOUS
<1>1. TypeOK
  BY BlankLayout DEF Init, TypeOK, OutFile
<1>2. PagesInv
  BY DEF Init, PagesInv, Sorted, AsGiven
<1>3. NothingLost /\ \A k \in Key : given[k] # None => k.version >= FirstVersion
  BY DEF Init, NothingLost
<1>4. FlushInv
  BY DEF Init, FlushInv
<1> QED
  BY <1>1, <1>2, <1>3, <1>4 DEF Inv

LEMMA StorePageKeeps ==
  ASSUME Inv, NEW k \in Key, NEW d \in Data, StorePage(k, d)
  PROVE  Inv'
<1> DEFINE N == Len(buffer)
           page == [pagekey |-> k, data |-> d]
<1>1. /\ buffer \in Seq(Page) /\ index_files \in Seq(IndexFile)
      /\ given \in [Key -> Data \cup {None}]
      /\ phase = "idle" /\ InOrder(k)
      /\ buffer' = Append(buffer, page) /\ given' = [given EXCEPT ![k] = d]
      /\ index_files' = index_files /\ out' = out
      /\ out = Blank /\ phase' \in {"pages", "idle"}
  BY DEF Inv, TypeOK, FlushInv, StorePage
<1>2. /\ page \in Page /\ buffer' \in Seq(Page)
      /\ N \in Nat /\ DOMAIN buffer = 1..N /\ DOMAIN buffer' = 1..(N + 1)
      /\ buffer'[N + 1] = page /\ \A i \in 1..N : buffer'[i] = buffer[i]
      /\ Len(buffer') = N + 1
  <2>1. page \in Page
    BY DEF Page
  <2> HIDE DEF page
  <2> QED
    BY <1>1, <2>1
<1>3. \A j \in Key : given[j] # None => Less(j, k)
  BY <1>1 DEF InOrder
<1>4. given[k] = None
  BY <1>3, KeyOrder
<1>5. /\ given'[k] = d /\ d # None
      /\ \A j \in Key : given[j] # None => given'[j] = given[j]
      /\ \A j \in Key : given'[j] # None => j = k \/ given[j] # None
  BY <1>1, <1>4, NoneAssumption
<1>6. ASSUME NEW pages \in Seq(Page), AsGiven(pages)
      PROVE  \A i \in DOMAIN pages : /\ pages[i].pagekey \in Key
                                     /\ given[pages[i].pagekey] # None
                                     /\ given[pages[i].pagekey] = pages[i].data
                                     /\ Less(pages[i].pagekey, k)
  <2> SUFFICES ASSUME NEW i \in DOMAIN pages
               PROVE  /\ pages[i].pagekey \in Key
                      /\ given[pages[i].pagekey] # None
                      /\ given[pages[i].pagekey] = pages[i].data
                      /\ Less(pages[i].pagekey, k)
    OBVIOUS
  <2>1. pages[i] \in Page
    OBVIOUS
  <2>2. pages[i].pagekey \in Key /\ pages[i].data \in Data
    BY <2>1 DEF Page
  <2>3. given[pages[i].pagekey] = pages[i].data
    BY <1>6 DEF AsGiven
  <2> QED
    BY <1>3, <2>2, <2>3, NoneAssumption
<1>7. TypeOK'
  <2>1. given' \in [Key -> Data \cup {None}]
    BY <1>1
  <2>2. out' \in [data : Seq(Page), blocks : Seq(Seq(Mapping)),
                  block : Seq(Mapping)]
    BY <1>1 DEF Inv, TypeOK
  <2> QED
    BY <1>1, <1>2, <2>1, <2>2 DEF TypeOK
<1>8. PagesInv'
  <2>1. \A i \in DOMAIN buffer :
          /\ buffer[i].pagekey \in Key /\ given[buffer[i].pagekey] # None
          /\ given[buffer[i].pagekey] = buffer[i].data
          /\ Less(buffer[i].pagekey, k)
    BY <1>1, <1>6 DEF Inv, PagesInv
  <2>2. Sorted(buffer')
    <3> SUFFICES ASSUME NEW i \in 1..(N + 1), NEW j \in 1..(N + 1), i < j
                 PROVE  Less(buffer'[i].pagekey, buffer'[j].pagekey)
      BY <1>2 DEF Sorted
    <3>1. i \in 1..N
      BY <1>2
    <3>2. CASE j = N + 1
      BY <1>2, <2>1, <3>1, <3>2
    <3>3. CASE j \in 1..N
      BY <1>2, <3>1, <3>3 DEF Inv, PagesInv, Sorted
    <3> QED
      BY <1>2, <3>2, <3>3
  <2>3. AsGiven(buffer)'
    <3> SUFFICES ASSUME NEW i \in 1..(N + 1)
                 PROVE  given'[buffer'[i].pagekey] = buffer'[i].data
      BY <1>2 DEF AsGiven
    <3>1. CASE i = N + 1
      BY <1>2, <1>5, <3>1
    <3>2. CASE i \in 1..N
      BY <1>2, <1>5, <2>1, <3>2
    <3> QED
      BY <1>2, <3>1, <3>2
  <2>4. ASSUME NEW f \in DOMAIN index_files
        PROVE  /\ FileOK(index_files[f]) /\ AsGiven(index_files[f].data)'
               /\ Before(index_files[f].data, buffer')
    <3>1. /\ FileOK(index_files[f]) /\ AsGiven(index_files[f].data)
          /\ Before(index_files[f].data, buffer)
      BY DEF Inv, PagesInv
    <3>2. index_files[f].data \in Seq(Page)
      <4>1. index_files[f] \in IndexFile
        BY <1>1
      <4> QED
        BY <4>1 DEF IndexFile
    <3> DEFINE data == index_files[f].data
    <3>3. \A i \in DOMAIN data :
            /\ data[i].pagekey \in Key /\ given[data[i].pagekey] # None
            /\ given[data[i].pagekey] = data[i].data
            /\ Less(data[i].pagekey, k)
      BY <1>6, <3>1, <3>2
    <3>4. AsGiven(data)'
      BY <1>1, <1>5, <3>3 DEF AsGiven
    <3>5. Before(data, buffer')
      <4> SUFFICES ASSUME NEW i \in DOMAIN data, NEW j \in 1..(N + 1)
                   PROVE  Less(data[i].pagekey, buffer'[j].pagekey)
        BY <1>2 DEF Before
      <4>1. CASE j = N + 1
        BY <1>2, <3>3, <4>1
      <4>2. CASE j \in 1..N
        BY <1>2, <3>1, <4>2 DEF Before
      <4> QED
        BY <1>2, <4>1, <4>2
    <3> QED
      BY <3>1, <3>4, <3>5
  <2> QED
    BY <1>1, <2>2, <2>3, <2>4 DEF Inv, PagesInv, AsGiven
<1>9. NothingLost'
  <2> SUFFICES ASSUME NEW j \in Key, given'[j] # None
               PROVE  \/ InBuffer(j)' # {}
                      \/ \E f \in DOMAIN index_files :
                           \E i \in DOMAIN index_files[f].data :
                             index_files[f].data[i].pagekey = j
    BY <1>1 DEF NothingLost
  <2>1. CASE j = k
    BY <1>2, <2>1 DEF InBuffer
  <2>2. CASE given[j] # None /\ InBuffer(j) # {}
    BY <1>2, <2>2 DEF InBuffer
  <2> QED
    BY <1>5, <2>1, <2>2 DEF Inv, NothingLost
<1>10. FlushInv'
  <2>1. /\ out'.data = <<>> /\ Layout(out') /\ Len(out'.data) = 0
    BY <1>1, BlankLayout DEF Blank
  <2>2. buffer' # <<>> /\ Len(out'.data) <= Len(buffer') /\ DOMAIN out'.data = {}
    BY <1>2, <2>1
  <2> QED
    BY <1>1, <2>1, <2>2 DEF FlushInv
<1>11. \A j \in Key : given'[j] # None => j.version >= FirstVersion
  BY <1>1, <1>5 DEF Inv, InOrder
<1> QED
  BY <1>7, <1>8, <1>9, <1>10, <1>11 DEF Inv

LEMMA FlushKeeps == Inv /\ Flush => Inv'
<1> SUFFICES ASSUME Inv, Flush PROVE Inv'
  OBVIOUS
<1>1. /\ phase = "idle" /\ phase' = "pages" /\ buffer # <<>>
      /\ UNCHANGED <<buffer, index_files, out, given>> /\ out = Blank
      /\ buffer \in Seq(Page)
  BY DEF Inv, FlushInv, Flush, TypeOK
<1>2. TypeOK'
  BY <1>1 DEF Inv, TypeOK
<1>3. PagesInv' /\ NothingLost'
      /\ \A k \in Key : given'[k] # None => k.version >= FirstVersion
  BY <1>1 DEF Inv, PagesInv, AsGiven, NothingLost, InBuffer
<1>4. FlushInv'
  <2>1. Layout(out') /\ Len(out'.data) = 0 /\ DOMAIN out'.data = {}
    BY <1>1, BlankLayout DEF Blank
  <2>2. Len(out'.data) <= Len(buffer')
    BY <1>1, <2>1
  <2> QED
    BY <1>1, <2>1, <2>2 DEF FlushInv
<1> QED
  BY <1>2, <1>3, <1>4 DEF Inv

LEMMA WritePageKeeps == Inv /\ WritePage => Inv'
<1> SUFFICES ASSUME Inv, WritePage PROVE Inv'
  OBVIOUS
<1> DEFINE N == Len(out.data)
           page == buffer[N + 1]
<1>1. /\ phase = "pages" /\ N < Len(buffer)
      /\ UNCHANGED <<buffer, index_files, phase, given>>
      /\ out' = AddMapping([out EXCEPT !.data = Append(@, page)],
                  [pagekey |-> page.pagekey, location |-> Location(out)])
      /\ buffer \in Seq(Page) /\ out \in OutFile /\ Layout(out)
      /\ buffer # <<>> /\ \A i \in DOMAIN out.data : out.data[i] = buffer[i]
  BY DEF Inv, TypeOK, FlushInv, WritePage, OutFile
<1>2. page \in Page /\ N \in Nat /\ out.data \in Seq(Page)
  BY <1>1 DEF OutFile
<1>3. out' \in OutFile /\ Layout(out') /\ out'.data = Append(out.data, page)
  BY <1>1, <1>2, AddMappingLayout
<1>4. /\ Len(out'.data) <= Len(buffer)
      /\ \A i \in DOMAIN out'.data : out'.data[i] = buffer[i]
  <2>1. /\ DOMAIN out'.data = 1..(N + 1) /\ Len(out'.data) = N + 1
        /\ out'.data[N + 1] = page
        /\ \A i \in 1..N : out'.data[i] = out.data[i]
    BY <1>2, <1>3
  <2>2. \A i \in 1..N : out.data[i] = buffer[i]
    BY <1>1, <1>2
  <2>3. Len(buffer) \in Nat /\ N + 1 <= Len(buffer)
    BY <1>1, <1>2
  <2> QED
    BY <1>2, <2>1, <2>2, <2>3
<1>5. TypeOK'
  BY <1>1, <1>3 DEF Inv, TypeOK, OutFile
<1>6. PagesInv' /\ NothingLost'
      /\ \A k \in Key : given'[k] # None => k.version >= FirstVersion
  BY <1>1 DEF Inv, PagesInv, AsGiven, NothingLost, InBuffer
<1>7. FlushInv'
  BY <1>1, <1>3, <1>4 DEF FlushInv
<1> QED
  BY <1>5, <1>6, <1>7 DEF Inv

LEMMA WriteIndexBlocksKeeps == Inv /\ WriteIndexBlocks => Inv'
<1> SUFFICES ASSUME Inv, WriteIndexBlocks PROVE Inv'
  OBVIOUS
<1> DEFINE B == Len(out.blocks)
           closed == Append(out.blocks, out.block)
<1>1. /\ phase = "pages" /\ phase' \in {"lookup", "failed"}
      /\ Len(out.data) = Len(buffer)
      /\ UNCHANGED <<buffer, index_files, given>>
      /\ out' = [out EXCEPT !.blocks = closed, !.block = <<>>]
      /\ out \in OutFile /\ buffer \in Seq(Page) /\ buffer # <<>> /\ Layout(out)
      /\ \A i \in DOMAIN out.data : out.data[i] = buffer[i]
  BY DEF Inv, TypeOK, FlushInv, WriteIndexBlocks, Closed, OutFile
<1>2. /\ out.data \in Seq(Page) /\ out.blocks \in Seq(Seq(Mapping))
      /\ out.block \in Seq(Mapping)
  BY <1>1 DEF OutFile
<1>3. /\ closed \in Seq(Seq(Mapping)) /\ DOMAIN closed = 1..(B + 1) /\ B \in Nat
      /\ DOMAIN out.blocks = 1..B
      /\ closed[B + 1] = out.block /\ \A b \in 1..B : closed[b] = out.blocks[b]
  BY <1>2
<1> HIDE DEF closed
<1>nat. B \in Nat
  BY <1>3
<1>4. /\ out' \in OutFile /\ out'.data = out.data
      /\ out'.blocks = closed /\ out'.block = <<>>
  <2>1. <<>> \in Seq(Mapping)
    OBVIOUS
  <2>2. /\ out \in OutFile /\ closed \in Seq(Seq(Mapping))
        /\ out' = [out EXCEPT !.blocks = closed, !.block = <<>>]
    BY <1>1, <1>3
  <2> QED
    BY <2>1, <2>2 DEF OutFile
<1>5. out.block # <<>>
  BY <1>1, <1>2 DEF Layout
<1>6. BlocksOK(out')
  <2> SUFFICES ASSUME NEW b \in 1..(B + 1)
               PROVE  closed[b] # <<>> /\ BlockOK(closed[b], out.data)
    BY <1>3, <1>4 DEF BlocksOK
  <2>1. CASE b = B + 1
    BY <1>1, <1>3, <1>5, <2>1 DEF Layout
  <2>2. CASE b \in 1..B
    BY <1>1, <1>3, <2>2 DEF Layout, BlocksOK
  <2> QED
    BY <1>3, <2>1, <2>2
<1>7. Ordered(out')
  <2>1. ASSUME NEW b \in 1..(B + 1), NEW c \in 1..(B + 1), b < c,
               NEW i \in DOMAIN closed[b], NEW j \in DOMAIN closed[c]
        PROVE  closed[b][i].location < closed[c][j].location
    <3>1. b \in 1..B /\ (c \in 1..B \/ c = B + 1)
      <4>1. B \in Nat /\ b \in Nat /\ c \in Nat /\ 1 <= b /\ c <= B + 1 /\ b < c
        BY <1>nat, <2>1
      <4> HIDE DEF B
      <4>2. b <= B /\ (c <= B \/ c = B + 1) /\ 1 <= c
        BY SMTT(30), <4>1
      <4> QED
        BY <4>1, <4>2
    <3> QED
      <4>1. Ordered(out) /\ closed[b] = out.blocks[b] /\ b \in DOMAIN out.blocks
        BY <1>1, <1>3, <3>1 DEF Layout
      <4>2. CASE c \in 1..B
        <5>1. closed[c] = out.blocks[c] /\ c \in DOMAIN out.blocks
          BY <1>3, <4>2
        <5> QED
          BY <2>1, <4>1, <5>1 DEF Ordered
      <4>3. CASE c = B + 1
        BY <1>3, <2>1, <4>1, <4>3 DEF Ordered
      <4> QED
        BY <3>1, <4>2, <4>3
  <2>2. /\ out'.blocks = closed /\ out'.block = <<>>
        /\ DOMAIN out'.blocks = 1..(B + 1)
    BY <1>3, <1>4
  <2>3. DOMAIN <<>> = {}
    OBVIOUS
  <2> HIDE DEF B
  <2> QED
    BY <2>1, <2>2, <2>3 DEF Ordered
<1>8. Covers(out')
  <2> SUFFICES ASSUME NEW n \in DOMAIN out.data
               PROVE  \E b \in 1..(B + 1) : \E i \in DOMAIN closed[b] :
                        closed[b][i].location = n
    <3>1. /\ out'.blocks = closed /\ DOMAIN closed = 1..(B + 1)
          /\ out'.data = out.data /\ out'.block = <<>>
      BY <1>3, <1>4
    <3> HIDE DEF B
    <3> QED
      BY <3>1 DEF Covers
  <2>1. CASE \E i \in DOMAIN out.block : out.block[i].location = n
    <3>1. B + 1 \in 1..(B + 1)
      BY <1>nat
    <3>2. \E i \in DOMAIN closed[B + 1] : closed[B + 1][i].location = n
      BY <1>3, <2>1
    <3> HIDE DEF B
    <3> QED
      BY <3>1, <3>2
  <2>2. CASE \E b \in DOMAIN out.blocks : \E i \in DOMAIN out.blocks[b] :
               out.blocks[b][i].location = n
    <3>1. PICK b \in 1..B : \E i \in DOMAIN out.blocks[b] :
                               out.blocks[b][i].location = n
      BY <1>3, <2>2
    <3>2. closed[b] = out.blocks[b]
      BY <1>3, <3>1
    <3>3. b \in 1..(B + 1)
      BY <1>nat, <3>1
    <3>4. \E i \in DOMAIN closed[b] : closed[b][i].location = n
      BY <3>1, <3>2
    <3> HIDE DEF B
    <3> QED
      BY <3>3, <3>4
  <2> QED
    BY <1>1, <2>1, <2>2 DEF Layout, Covers
<1>9. TypeOK'
  BY <1>1, <1>4 DEF Inv, TypeOK, OutFile
<1>10. PagesInv' /\ NothingLost'
       /\ \A k \in Key : given'[k] # None => k.version >= FirstVersion
  BY <1>1 DEF Inv, PagesInv, AsGiven, NothingLost, InBuffer
<1>11. FlushInv'
  <2>1. Len(out'.data) <= Len(buffer)
    BY <1>1, <1>2, <1>4
  <2> QED
    BY <1>1, <1>4, <1>6, <1>7, <1>8, <2>1 DEF FlushInv
<1> QED
  BY <1>9, <1>10, <1>11 DEF Inv

LEMMA WriteLookupBlockKeeps == Inv /\ WriteLookupBlock => Inv'
<1> SUFFICES ASSUME Inv, WriteLookupBlock PROVE Inv'
  OBVIOUS
<1> DEFINE N == Len(buffer)
           F == Len(index_files)
           file == [min |-> Interval(buffer)[1], max |-> Interval(buffer)[2],
                    data |-> out.data, blocks |-> out.blocks,
                    lookup |-> LookupOf(out.blocks)]
<1>1. /\ phase = "lookup" /\ out' = Blank /\ given' = given
      /\ out \in OutFile /\ buffer \in Seq(Page) /\ buffer # <<>>
      /\ index_files \in Seq(IndexFile)
      /\ out.block = <<>> /\ Len(out.data) = N
      /\ \A i \in DOMAIN out.data : out.data[i] = buffer[i]
      /\ BlocksOK(out) /\ Ordered(out) /\ Covers(out)
  BY DEF Inv, TypeOK, FlushInv, WriteLookupBlock, OutFile
<1>2. CASE ~Fits(LookupOf(out.blocks))
  <2>1. phase' = "failed" /\ UNCHANGED <<buffer, index_files>>
    BY <1>2 DEF WriteLookupBlock
  <2>2. TypeOK'
    BY <1>1, <2>1, BlankLayout DEF Inv, TypeOK, OutFile
  <2>3. PagesInv' /\ NothingLost'
        /\ \A k \in Key : given'[k] # None => k.version >= FirstVersion
    BY <1>1, <2>1 DEF Inv, PagesInv, AsGiven, NothingLost, InBuffer
  <2>4. FlushInv'
    BY <2>1 DEF FlushInv
  <2> QED
    BY <2>2, <2>3, <2>4 DEF Inv
<1>3. CASE Fits(LookupOf(out.blocks))
  <2>1. /\ index_files' = Append(index_files, file)
        /\ buffer' = <<>> /\ phase' = "idle"
    BY <1>3 DEF WriteLookupBlock
  <2>2. /\ out.data \in Seq(Page) /\ out.blocks \in Seq(Seq(Mapping))
        /\ N \in Nat /\ N >= 1 /\ DOMAIN buffer = 1..N /\ DOMAIN out.data = 1..N
    BY <1>1 DEF OutFile
  <2>3. out.data = buffer
    <3>1. /\ out.data \in [1..N -> Page] /\ buffer \in [1..N -> Page]
          /\ \A i \in 1..N : out.data[i] = buffer[i]
      BY <1>1, <2>2
    <3> QED
      BY <3>1
  <2>4. /\ \A b \in DOMAIN out.blocks :
             /\ out.blocks[b] \in Seq(Mapping) /\ out.blocks[b] # <<>>
             /\ out.blocks[b][1] \in Mapping
        /\ LookupOf(out.blocks) \in Seq(Key)
    <3>1. \A b \in DOMAIN out.blocks :
             /\ out.blocks[b] \in Seq(Mapping) /\ out.blocks[b] # <<>>
             /\ out.blocks[b][1] \in Mapping
      BY <1>1, <2>2 DEF BlocksOK
    <3>2. \A b \in DOMAIN out.blocks : out.blocks[b][1].pagekey \in Key
      BY <3>1 DEF Mapping
    <3>3. DOMAIN out.blocks = 1..Len(out.blocks) /\ Len(out.blocks) \in Nat
      BY <2>2
    <3>4. LookupOf(out.blocks) \in [1..Len(out.blocks) -> Key]
      BY <3>2, <3>3 DEF LookupOf
    <3> QED
      BY <3>1, <3>3, <3>4
  <2>5. /\ file.min = buffer[1].pagekey /\ file.max = buffer[N].pagekey
        /\ file.data = buffer /\ file.blocks = out.blocks
        /\ file.lookup = LookupOf(out.blocks)
    BY <2>3 DEF Interval
  <2>6. file \in IndexFile
    <3>1. buffer[1] \in Page /\ buffer[N] \in Page
      BY <1>1, <2>2
    <3>2. buffer[1].pagekey \in Key /\ buffer[N].pagekey \in Key
      BY <3>1 DEF Page
    <3> DEFINE lookup == LookupOf(out.blocks)
    <3>3. file = [min |-> buffer[1].pagekey, max |-> buffer[N].pagekey,
                  data |-> out.data, blocks |-> out.blocks, lookup |-> lookup]
      BY DEF Interval
    <3>4. lookup \in Seq(Key)
      BY <2>4
    <3> HIDE DEF file, lookup
    <3> QED
      BY <2>2, <3>2, <3>3, <3>4 DEF IndexFile
  <2> HIDE DEF file
  <2>7. FileOK(file)
    <3>1. Sorted(file.data) /\ file.data # <<>>
      BY <1>1, <2>5 DEF Inv, PagesInv
    <3>2. BlocksOK(file)
      BY <1>1, <2>3, <2>5 DEF BlocksOK
    <3>3. Ordered([blocks |-> file.blocks, block |-> <<>>])
      BY <1>1, <2>5 DEF Ordered
    <3>4. Covers([data |-> file.data, blocks |-> file.blocks, block |-> <<>>])
      BY <1>1, <2>3, <2>5 DEF Covers
    <3> QED
      BY <2>5, <3>1, <3>2, <3>3, <3>4 DEF FileOK
  <2>8. /\ F \in Nat /\ DOMAIN index_files = 1..F /\ DOMAIN index_files' = 1..(F + 1)
        /\ index_files'[F + 1] = file
        /\ \A f \in 1..F : index_files'[f] = index_files[f]
        /\ index_files' \in Seq(IndexFile)
    BY <1>1, <2>1, <2>6
  <2>9. TypeOK'
    <3>1. buffer' \in Seq(Page)
      BY <2>1
    <3> QED
      BY <1>1, <2>1, <2>8, <3>1, BlankLayout DEF Inv, TypeOK, OutFile
  <2>10. PagesInv'
    <3>1. Sorted(buffer') /\ AsGiven(buffer)'
      BY <2>1 DEF Sorted, AsGiven
    <3>2. ASSUME NEW f \in 1..(F + 1)
          PROVE  /\ FileOK(index_files'[f]) /\ AsGiven(index_files[f].data)'
                 /\ Before(index_files'[f].data, buffer')
      <4>1. CASE f \in 1..F
        BY <1>1, <2>1, <2>8, <4>1 DEF Inv, PagesInv, AsGiven, Before
      <4>2. CASE f = F + 1
        BY <1>1, <2>1, <2>5, <2>7, <2>8, <4>2 DEF Inv, PagesInv, AsGiven, Before
      <4> QED
        BY <2>8, <4>1, <4>2
    <3>3. ASSUME NEW f \in 1..(F + 1), NEW g \in 1..(F + 1), f < g
          PROVE  Before(index_files'[f].data, index_files'[g].data)
      <4>1. f \in 1..F
        BY <2>8, <3>3
      <4>2. CASE g \in 1..F
        BY <2>8, <3>3, <4>1, <4>2 DEF Inv, PagesInv
      <4>3. CASE g = F + 1
        BY <2>5, <2>8, <4>1, <4>3 DEF Inv, PagesInv
      <4> QED
        BY <2>8, <4>2, <4>3
    <3> QED
      BY <2>8, <3>1, <3>2, <3>3 DEF PagesInv
  <2>11. NothingLost'
    <3> SUFFICES ASSUME NEW k \in Key, given[k] # None
                 PROVE  \E f \in 1..(F + 1) : \E i \in DOMAIN index_files'[f].data :
                          index_files'[f].data[i].pagekey = k
      BY <1>1, <2>8 DEF NothingLost
    <3>1. CASE InBuffer(k) # {}
      BY <2>5, <2>8, <3>1 DEF InBuffer
    <3>2. CASE \E f \in DOMAIN index_files : \E i \in DOMAIN index_files[f].data :
                 index_files[f].data[i].pagekey = k
      BY <2>8, <3>2
    <3> QED
      BY <3>1, <3>2 DEF Inv, NothingLost
  <2>12. FlushInv'
    BY <1>1, <2>1 DEF FlushInv
  <2>13. \A k \in Key : given'[k] # None => k.version >= FirstVersion
    BY <1>1 DEF Inv
  <2> QED
    BY <2>9, <2>10, <2>11, <2>12, <2>13 DEF Inv
<1> QED
  BY <1>2, <1>3

LEMMA NextKeeps == Inv /\ [Next]_vars => Inv'
<1> SUFFICES ASSUME Inv, [Next]_vars PROVE Inv'
  OBVIOUS
<1>1. CASE \E k \in Key, d \in Data : StorePage(k, d)
  BY <1>1, StorePageKeeps
<1>2. CASE Flush
  BY <1>2, FlushKeeps
<1>3. CASE WritePage
  BY <1>3, WritePageKeeps
<1>4. CASE WriteIndexBlocks
  BY <1>4, WriteIndexBlocksKeeps
<1>5. CASE WriteLookupBlock
  BY <1>5, WriteLookupBlockKeeps
<1>6. CASE UNCHANGED vars
  BY <1>6 DEF vars, Inv, TypeOK, PagesInv, AsGiven, NothingLost, InBuffer, FlushInv
<1> QED
  BY <1>1, <1>2, <1>3, <1>4, <1>5, <1>6 DEF Next, FlushStep

-----------------------------------------------------------------------------
(* The state keeps its types: the buffer and every index file LSVPS::Flush  *)
(* writes are sequences of whole pages, mappings and keys.                  *)
THEOREM TypeCorrect == Spec => []TypeOK
<1>1. Inv => TypeOK
  BY DEF Inv
<1> QED
  BY <1>1, InitInv, NextKeeps, PTL DEF Spec

(* For callers that start at version 1 or later, LSVPS::pageLookup answers *)
(* every key with the page StorePage was given for it, and with nothing    *)
(* when it was given none: at every step of a flush, for every block size. *)
THEOREM LookupIsExact ==
  ASSUME FirstVersion > 0
  PROVE  Spec => []LookupExact
<1>1. Inv => LookupExact
  BY InvLookupExact
<1> QED
  BY <1>1, InitInv, NextKeeps, PTL DEF Spec

(* The table implements the map the trie relies on: a step stores one page *)
(* under a key that had none, or changes no answer of pageLookup.          *)
THEOREM ImplementsMap ==
  ASSUME FirstVersion > 0
  PROVE  Spec => Implements
<1>1. Inv => LookupExact
  BY InvLookupExact
<1>2. Inv' => LookupExact'
  BY <1>1, PTL
<1>3. Init => Map!Init
  <2> SUFFICES ASSUME Init PROVE Map!Init
    OBVIOUS
  <2>1. LookupExact
    BY InitInv, InvLookupExact
  <2>2. \A k \in Key : pageLookup(k) = None
    BY <2>1 DEF LookupExact, Given, Init
  <2> QED
    BY <2>2 DEF Map!Init, Lookups
<1>4. Inv /\ [Next]_vars => [Map!Next]_Lookups
  <2> SUFFICES ASSUME Inv, [Next]_vars PROVE Map!Next \/ Lookups' = Lookups
    OBVIOUS
  <2>1. LookupExact /\ LookupExact'
    BY <1>1, <1>2, NextKeeps
  <2>2. \A k \in Key : /\ Lookups[k] = Given(k)
                       /\ Lookups'[k] = Given(k)'
    BY <2>1 DEF Lookups, LookupExact
  <2>3. CASE given' = given
    <3>1. \A k \in Key : pageLookup(k)' = pageLookup(k)
      BY <2>1, <2>3 DEF LookupExact, Given
    <3> QED
      BY <3>1 DEF Lookups
  <2>4. CASE \E k \in Key, d \in Data : StorePage(k, d)
    <3>1. PICK k \in Key, d \in Data : StorePage(k, d)
      BY <2>4
    <3>2. /\ given' = [given EXCEPT ![k] = d] /\ InOrder(k)
          /\ given \in [Key -> Data \cup {None}]
      BY <3>1 DEF StorePage, Inv, TypeOK
    <3>3. given[k] = None
      BY <3>2, KeyOrder DEF InOrder
    <3>4. /\ Given(k) = None
          /\ Given(k)' = [pagekey |-> k, data |-> d]
          /\ \A j \in Key \ {k} : Given(j)' = Given(j)
      BY <3>2, <3>3, NoneAssumption DEF Given
    <3>5. [pagekey |-> k, data |-> d] \in Page
      BY DEF Page
    <3>6. Map!StorePage(k)
      BY <2>2, <3>4, <3>5 DEF Map!StorePage
    <3> QED
      BY <3>6 DEF Map!Next
  <2>5. given' = given \/ \E k \in Key, d \in Data : StorePage(k, d)
    BY DEF Next, FlushStep, Flush, WritePage, WriteIndexBlocks, WriteLookupBlock,
           vars
  <2> QED
    BY <2>3, <2>4, <2>5
<1> QED
  BY <1>3, <1>4, InitInv, NextKeeps, PTL DEF Spec, Implements, Map!Spec
=============================================================================
