------------------------- MODULE MerkleTrie_proofs -------------------------
(***************************************************************************)
(* Proofs about MerkleTrie, for every set of nibbles and keys, any values  *)
(* and any number of commits.                                              *)
(***************************************************************************)
EXTENDS MerkleTrie, WellFoundedInduction, TLAPS

(* A non-empty set of naturals has a least element. *)
LEMMA Least ==
  ASSUME NEW S \in SUBSET Nat, S # {}
  PROVE  \E m \in S : \A k \in S : m <= k
<1> DEFINE R == OpToRel(<, Nat)
<1>1. IsWellFoundedOn(R, Nat)
  BY NatLessThanWellFounded
<1>2. \A r : r \in R <=> r \in Nat \X Nat /\ r[1] < r[2]
  BY DEF OpToRel
<1> HIDE DEF R
<1>3. PICK x \in S : \A y \in S : ~ (<<y, x>> \in R)
  BY <1>1, WFMin
<1>4. \A y \in S : ~ (y < x)
  BY <1>2, <1>3
<1> QED
  BY <1>4

-----------------------------------------------------------------------------
(* Recursive definitions.  Each has the values its equation says, shown by *)
(* taking the least argument at which it would not.                        *)

(* The pages on the way of a replay. *)
IsReplay(f, page, list, n) ==
  f = [m \in 0..n |-> IF m = 0 THEN page ELSE UpdateDeltaItem(f[m - 1], list[m])]

LEMMA ReplaysExist ==
  ASSUME NEW page, NEW list, NEW n \in Nat
  PROVE  \E f : IsReplay(f, page, list, n)
<1> DEFINE S == {m \in Nat : ~ \E f : IsReplay(f, page, list, m)}
<1> SUFFICES ASSUME S # {} PROVE FALSE
  OBVIOUS
<1>1. PICK m \in S : \A k \in S : m <= k
  <2> HIDE DEF S
  <2>1. S \in SUBSET Nat
    BY DEF S
  <2> QED BY <2>1, Least
<1>2. m \in Nat /\ ~ \E f : IsReplay(f, page, list, m)
  BY <1>1
<1>3. CASE m = 0
  <2> DEFINE f == [x \in 0..0 |-> page]
  <2>1. IsReplay(f, page, list, 0)
    BY DEF IsReplay
  <2> QED BY <1>2, <1>3, <2>1
<1>4. CASE m # 0
  <2>1. m - 1 \in Nat /\ m - 1 < m
    BY <1>2, <1>4
  <2>2. PICK g : IsReplay(g, page, list, m - 1)
    BY <1>1, <2>1
  <2> DEFINE f == [x \in 0..m |-> IF x = m THEN UpdateDeltaItem(g[m - 1], list[m]) ELSE g[x]]
  <2>3. \A x \in 0..m : f[x] = IF x = 0 THEN page ELSE UpdateDeltaItem(f[x - 1], list[x])
    <3> SUFFICES ASSUME NEW x \in 0..m
                 PROVE  f[x] = IF x = 0 THEN page ELSE UpdateDeltaItem(f[x - 1], list[x])
      OBVIOUS
    <3>1. CASE x = m
      <4>1. f[m] = UpdateDeltaItem(g[m - 1], list[m]) /\ f[m - 1] = g[m - 1]
        BY <1>2, <1>4, <2>1
      <4> HIDE DEF f
      <4> QED BY <1>4, <3>1, <4>1
    <3>2. CASE x # m
      <4>1. x \in 0..(m - 1) /\ (x # 0 => x - 1 \in 0..(m - 1)) /\ x - 1 # m
        BY <1>2, <2>1, <3>2
      <4>2. f[x] = g[x] /\ (x # 0 => f[x - 1] = g[x - 1])
        BY <3>2, <4>1, <1>2
      <4>3. g[x] = IF x = 0 THEN page ELSE UpdateDeltaItem(g[x - 1], list[x])
        BY <2>2, <4>1 DEF IsReplay
      <4> HIDE DEF f
      <4> QED BY <4>2, <4>3
    <3> QED BY <3>1, <3>2
  <2>4. f = [x \in 0..m |-> f[x]]
    OBVIOUS
  <2>5. IsReplay(f, page, list, m)
    <3> HIDE DEF f
    <3>1. [x \in 0..m |-> f[x]] =
          [x \in 0..m |-> IF x = 0 THEN page ELSE UpdateDeltaItem(f[x - 1], list[x])]
      BY <2>3
    <3> QED BY <2>4, <3>1 DEF IsReplay
  <2> QED BY <1>2, <2>5
<1> QED BY <1>3, <1>4

LEMMA ReplayIs ==
  ASSUME NEW page, NEW list, Len(list) \in Nat
  PROVE  \E f : IsReplay(f, page, list, Len(list)) /\ Replayed(page, list) = f[Len(list)]
<1> DEFINE after == CHOOSE f : f = [m \in 0..Len(list) |->
                      IF m = 0 THEN page ELSE UpdateDeltaItem(f[m - 1], list[m])]
<1>1. \E f : f = [m \in 0..Len(list) |->
               IF m = 0 THEN page ELSE UpdateDeltaItem(f[m - 1], list[m])]
  <2>1. PICK f : IsReplay(f, page, list, Len(list))
    BY ReplaysExist
  <2> QED BY <2>1 DEF IsReplay
<1>2. after = [m \in 0..Len(list) |->
               IF m = 0 THEN page ELSE UpdateDeltaItem(after[m - 1], list[m])]
  BY <1>1
<1>3. Replayed(page, list) = after[Len(list)]
  BY DEF Replayed
<1> HIDE DEF after
<1>4. IsReplay(after, page, list, Len(list))
  BY <1>2 DEF IsReplay
<1> QED BY <1>3, <1>4

(* Two replays of lists with a common beginning agree on it. *)
SameUpTo(n, list, other) == \A i \in 1..n : list[i] = other[i]

LEMMA ReplaysAgree ==
  ASSUME NEW page, NEW list, NEW other, NEW n \in Nat, NEW m \in Nat, n <= m,
         SameUpTo(n, list, other),
         NEW f, IsReplay(f, page, list, n), NEW g, IsReplay(g, page, other, m)
  PROVE  \A x \in 0..n : f[x] = g[x]
<1> DEFINE S == {x \in 0..n : f[x] # g[x]}
<1> SUFFICES ASSUME S # {} PROVE FALSE
  OBVIOUS
<1>1. PICK x \in S : \A k \in S : x <= k
  <2> HIDE DEF S
  <2>1. S \in SUBSET Nat
    BY DEF S
  <2> QED BY <2>1, Least
<1>2. x \in 0..n /\ f[x] # g[x] /\ x \in 0..m
  BY <1>1
<1>3. /\ f[x] = IF x = 0 THEN page ELSE UpdateDeltaItem(f[x - 1], list[x])
      /\ g[x] = IF x = 0 THEN page ELSE UpdateDeltaItem(g[x - 1], other[x])
  BY <1>2 DEF IsReplay
<1>4. CASE x # 0
  <2>1. x - 1 \in 0..n /\ x - 1 < x /\ x \in 1..n
    BY <1>2, <1>4
  <2>2. f[x - 1] = g[x - 1]
    BY <1>1, <2>1
  <2>3. list[x] = other[x]
    BY <2>1 DEF SameUpTo
  <2> QED BY <1>2, <1>3, <1>4, <2>2, <2>3
<1> QED BY <1>2, <1>3, <1>4

(* A replay of nothing, and of one item more. *)
IsSeq(list) == \E S : list \in Seq(S)

LEMMA ReplayNothing == ASSUME NEW page PROVE Replayed(page, Empty) = page
<1>1. Len(Empty) = 0 /\ Len(Empty) \in Nat
  BY DEF Empty
<1>2. PICK f : IsReplay(f, page, Empty, 0) /\ Replayed(page, Empty) = f[0]
  BY <1>1, ReplayIs
<1> QED BY <1>2 DEF IsReplay

LEMMA ReplayOneMore ==
  ASSUME NEW page, NEW list, IsSeq(list), NEW item
  PROVE  /\ IsSeq(Append(list, item))
         /\ Replayed(page, Append(list, item)) = UpdateDeltaItem(Replayed(page, list), item)
<1> DEFINE longer == Append(list, item)
           n == Len(list)
<1>1. PICK S : list \in Seq(S)
  BY DEF IsSeq
<1>2. list \in Seq(S \cup {item})
  BY <1>1
<1>3. /\ longer \in Seq(S \cup {item}) /\ n \in Nat /\ Len(longer) = n + 1
      /\ longer[n + 1] = item /\ \A i \in 1..n : list[i] = longer[i]
  BY <1>2
<1> HIDE DEF longer, n
<1>4. PICK f : IsReplay(f, page, list, n) /\ Replayed(page, list) = f[n]
  BY <1>3, ReplayIs DEF n
<1>5. PICK g : IsReplay(g, page, longer, n + 1) /\ Replayed(page, longer) = g[n + 1]
  <2>1. Len(longer) \in Nat
    BY <1>3
  <2> QED BY <1>3, <2>1, ReplayIs
<1>6. f[n] = g[n]
  <2>1. n + 1 \in Nat /\ n <= n + 1 /\ n \in 0..n
    BY <1>3
  <2>2. SameUpTo(n, list, longer)
    BY <1>3 DEF SameUpTo
  <2>3. \A x \in 0..n : f[x] = g[x]
    BY <1>3, <1>4, <1>5, <2>1, <2>2, ReplaysAgree
  <2> QED BY <2>1, <2>3
<1>7. g[n + 1] = UpdateDeltaItem(g[n], item)
  <2>1. n + 1 \in 0..(n + 1) /\ n + 1 # 0 /\ (n + 1) - 1 = n
    BY <1>3
  <2>2. g[n + 1] = UpdateDeltaItem(g[(n + 1) - 1], longer[n + 1])
    BY <1>5, <2>1 DEF IsReplay
  <2> QED BY <1>3, <2>1, <2>2
<1> QED BY <1>3, <1>4, <1>5, <1>6, <1>7 DEF IsSeq, longer

-----------------------------------------------------------------------------
(* Nodes, pages and items: what they look like, up to a version v.         *)

IsLeafNode(n, v) ==
  /\ n = [version |-> n.version, location |-> n.location, hash |-> n.hash]
  /\ n.version \in 0..v /\ n.location \in 0..v

IsIndex(n, v) ==
  /\ n = [version |-> n.version, hash |-> n.hash, bitmap |-> n.bitmap,
          child_version |-> n.child_version, child_hash |-> n.child_hash]
  /\ n.version \in 0..v /\ n.bitmap \in SUBSET Nibble
  /\ n.child_version \in [Nibble -> 0..v]
  /\ n.child_hash = [i \in Nibble |-> n.child_hash[i]]

IsChild(i, n, v) == IF <<i>> \in Key THEN IsLeafNode(n, v) ELSE IsIndex(n, v)

IsRootPage(page, v) ==
  /\ page = [node |-> page.node, child |-> page.child]
  /\ IsIndex(page.node, v)
  /\ page.child = [i \in Nibble |-> page.child[i]]
  /\ \A i \in Nibble : page.child[i] = None \/ IsChild(i, page.child[i], v)

IsLeafItem(item, v) ==
  /\ item = [at |-> item.at, version |-> item.version, hash |-> item.hash,
             location |-> item.location]
  /\ item.version \in 0..v /\ item.location \in 0..v

IsIndexItem(item, v) ==
  /\ item = [at |-> item.at, version |-> item.version, hash |-> item.hash,
             index |-> item.index, child_hash |-> item.child_hash]
  /\ item.version \in 0..v /\ item.index \in Nibble

(* An item of the root page is one of its root node or of a child. *)
IsRootItem(item, v) ==
  \/ item.at = 0 /\ IsIndexItem(item, v)
  \/ \E i \in Nibble : /\ item.at = i + 1
                       /\ IF <<i>> \in Key THEN IsLeafItem(item, v)
                          ELSE IsIndexItem(item, v)

-----------------------------------------------------------------------------
(* The invariant.                                                          *)

(* Two index nodes, leaves or pages that differ in nothing but what a file *)
(* loses: hashes, and of a root node also the versions of its children.    *)
SameLeaf(x, y) == x.version = y.version /\ x.location = y.location
SameRoot(x, y) == x.version = y.version /\ x.bitmap = y.bitmap
SameIndex(x, y) == SameRoot(x, y) /\ x.child_version = y.child_version
SameChild(i, x, y) ==
  /\ x = None <=> y = None
  /\ x # None => IF <<i>> \in Key THEN SameLeaf(x, y) ELSE SameIndex(x, y)
SameRootPage(x, y) ==
  /\ SameRoot(x.node, y.node)
  /\ \A i \in Nibble : SameChild(i, x.child[i], y.child[i])

IsPage(p, page, v) ==
  \/ page = None
  \/ IF p = Root THEN IsRootPage(page, v) ELSE IsLeafNode(page, v)
IsItem(p, item, v) ==
  IF p = Root THEN IsRootItem(item, v) ELSE IsLeafItem(item, v) /\ item.at = 0
SamePage(p, x, y) ==
  /\ x = None <=> y = None
  /\ x # None => IF p = Root THEN SameRootPage(x, y) ELSE SameLeaf(x, y)

(* A page in the cache, and how it is rebuilt from what is in the files. *)
AreItems(p, list, v) == \A n \in 1..Len(list) : IsItem(p, list[n], v)
PageOK(p, page, below, list, v, lost) ==
  /\ IsPage(p, page, v) /\ IsPage(p, below, v) /\ IsSeq(list) /\ AreItems(p, list, v)
  /\ IsPage(p, Replayed(below, list), v) /\ SamePage(p, page, Replayed(below, list))
  /\ lost \/ page = Replayed(below, list)

(* A key that was ever written has its leaf, of the version that wrote it, *)
(* and the nodes above it; a node has bits for nothing else.  (The pages m *)
(* in the cache, and vals as the history of the keys.)                     *)
HasLeaf(leaf, v) == leaf.version = v /\ leaf.location = v
KeyOK(k, m, vals, v) ==
  /\ vals[k] = [value |-> vals[k].value, version |-> vals[k].version]
  /\ vals[k].value \in Strings /\ vals[k].version \in 0..v
  /\ vals[k].version = 0 => vals[k].value = Empty
  /\ vals[k].version # 0 => m[Root] # None /\ m[Root].child[k[1]] # None
  /\ k \in Paged => (vals[k].version # 0 <=> m[k] # None)
  /\ k \in Paged /\ m[k] # None => HasLeaf(m[k], vals[k].version)
  /\ k \notin Paged /\ m[Root] # None /\ m[Root].child[k[1]] # None =>
       vals[k].version # 0 /\ HasLeaf(m[Root].child[k[1]], vals[k].version)

Present(page) == {i \in Nibble : page.child[i] # None}
Below(i, m) == {j \in Nibble : <<i, j>> \in Paged /\ m[<<i, j>>] # None}
ChildOK(i, child, m) ==
  /\ child.bitmap = Below(i, m)
  /\ \A j \in Below(i, m) : child.child_version[j] = m[<<i, j>>].version
TreeOK(m) ==
  m[Root] # None =>
    /\ m[Root].node.bitmap = Present(m[Root])
    /\ \A i \in Present(m[Root]) : <<i>> \notin Key => ChildOK(i, m[Root].child[i], m)

(* The hashes of the pages, until a page is read from a file. *)
HashOf(node) == IF node = None THEN Empty ELSE node.hash
ValueHash(value) == IF value = Empty THEN Empty ELSE HashFunction(value)
NodeHashed(node) == node.hash = HashFunction(Concatenated(node.child_hash))
ChildHashed(i, child, m) ==
  /\ NodeHashed(child)
  /\ \A j \in Nibble : child.child_hash[j] =
       IF <<i, j>> \in Paged THEN HashOf(m[<<i, j>>]) ELSE Empty
LeafHashed(k, m, vals) ==
  /\ k \in Paged /\ m[k] # None => m[k].hash = ValueHash(vals[k].value)
  /\ k \notin Paged /\ m[Root] # None /\ m[Root].child[k[1]] # None =>
       m[Root].child[k[1]].hash = ValueHash(vals[k].value)
RootHashed(m) ==
  m[Root] # None =>
    /\ NodeHashed(m[Root].node)
    /\ \A i \in Nibble : m[Root].node.child_hash[i] = HashOf(m[Root].child[i])
    /\ \A i \in Present(m[Root]) : <<i>> \notin Key => ChildHashed(i, m[Root].child[i], m)
HashesOK(m, vals) == (\A k \in Key : LeafHashed(k, m, vals)) /\ RootHashed(m)

MerkleInv ==
  /\ version \in Versions /\ filed \in BOOLEAN
  /\ pending \in SUBSET Key /\ (pending # {} => version > 0)
  /\ mem = [p \in Pid |-> mem[p]] /\ base = [p \in Pid |-> base[p]]
  /\ items = [p \in Pid |-> items[p]] /\ values = [k \in Key |-> values[k]]
  /\ \A p \in Pid : PageOK(p, mem[p], base[p], items[p], version, filed)
  /\ \A k \in Key : KeyOK(k, mem, values, version)
  /\ TreeOK(mem)
  /\ filed \/ HashesOK(mem, values)

-----------------------------------------------------------------------------
(* Nodes. *)

LEMMA Kinds ==
  ASSUME NEW n, NEW v
  PROVE  /\ IsLeafNode(n, v) => IsLeaf(n) /\ n # None
         /\ IsIndex(n, v) => ~IsLeaf(n) /\ n # None
         /\ IsRootPage(n, v) => ~IsLeaf(n) /\ n # None
         /\ IsLeafItem(n, v) => IsLeaf(n)
         /\ IsIndexItem(n, v) => ~IsLeaf(n)
<1> USE DEF IsLeaf, None
<1>1. IsLeafNode(n, v) => IsLeaf(n) /\ n # None
  <2> SUFFICES ASSUME NEW a, NEW b, NEW c, n = [version |-> a, location |-> b, hash |-> c]
               PROVE  IsLeaf(n) /\ n # None
    BY DEF IsLeafNode
  <2>1. "location" \in DOMAIN n
    OBVIOUS
  <2>2. DOMAIN None = {"null"}
    OBVIOUS
  <2> QED BY <2>1, <2>2
<1>2. IsIndex(n, v) => ~IsLeaf(n) /\ n # None
  <2> SUFFICES ASSUME NEW a, NEW b, NEW c, NEW d, NEW e,
                      n = [version |-> a, hash |-> b, bitmap |-> c,
                           child_version |-> d, child_hash |-> e]
               PROVE  ~IsLeaf(n) /\ n # None
    BY DEF IsIndex
  <2>1. DOMAIN n = {"version", "hash", "bitmap", "child_version", "child_hash"}
    OBVIOUS
  <2>2. DOMAIN None = {"null"}
    OBVIOUS
  <2> QED BY <2>1, <2>2
<1>3. IsRootPage(n, v) => ~IsLeaf(n) /\ n # None
  <2> SUFFICES ASSUME NEW a, NEW b, n = [node |-> a, child |-> b]
               PROVE  ~IsLeaf(n) /\ n # None
    BY DEF IsRootPage
  <2>1. DOMAIN n = {"node", "child"} /\ DOMAIN None = {"null"}
    OBVIOUS
  <2> QED BY <2>1
<1>4. IsLeafItem(n, v) => IsLeaf(n)
  <2> SUFFICES ASSUME NEW a, NEW b, NEW c, NEW d,
                      n = [at |-> a, version |-> b, hash |-> c, location |-> d]
               PROVE  IsLeaf(n)
    BY DEF IsLeafItem
  <2> QED OBVIOUS
<1>5. IsIndexItem(n, v) => ~IsLeaf(n)
  <2> SUFFICES ASSUME NEW a, NEW b, NEW c, NEW d, NEW e,
                      n = [at |-> a, version |-> b, hash |-> c, index |-> d, child_hash |-> e]
               PROVE  ~IsLeaf(n)
    BY DEF IsIndexItem
  <2>1. DOMAIN n = {"at", "version", "hash", "index", "child_hash"}
    OBVIOUS
  <2> QED BY <2>1
<1> QED BY <1>1, <1>2, <1>3, <1>4, <1>5

(* Versions that are in use stay in use. *)
LEMMA Later ==
  ASSUME NEW v \in Nat, NEW w \in Nat, v <= w, NEW n
  PROVE  /\ IsLeafNode(n, v) => IsLeafNode(n, w)
         /\ IsIndex(n, v) => IsIndex(n, w)
         /\ \A i : IsChild(i, n, v) => IsChild(i, n, w)
         /\ IsRootPage(n, v) => IsRootPage(n, w)
         /\ IsLeafItem(n, v) => IsLeafItem(n, w)
         /\ IsRootItem(n, v) => IsRootItem(n, w)
<1>1. 0..v \subseteq 0..w
  OBVIOUS
<1>2. [Nibble -> 0..v] \subseteq [Nibble -> 0..w]
  BY <1>1
<1>3. \A x : IsLeafNode(x, v) => IsLeafNode(x, w)
  BY <1>1 DEF IsLeafNode
<1>4. \A x : IsIndex(x, v) => IsIndex(x, w)
  BY <1>1, <1>2 DEF IsIndex
<1>5. \A i, x : IsChild(i, x, v) => IsChild(i, x, w)
  BY <1>3, <1>4 DEF IsChild
<1>6. IsRootPage(n, v) => IsRootPage(n, w)
  BY <1>4, <1>5 DEF IsRootPage
<1>7. IsLeafItem(n, v) => IsLeafItem(n, w)
  BY <1>1 DEF IsLeafItem
<1>8. IsIndexItem(n, v) => IsIndexItem(n, w)
  BY <1>1 DEF IsIndexItem
<1>9. IsRootItem(n, v) => IsRootItem(n, w)
  BY <1>7, <1>8 DEF IsRootItem
<1> QED BY <1>3, <1>4, <1>5, <1>6, <1>7, <1>9

(* A new index node, and the two ways an index node changes. *)
LEMMA NewNode == ASSUME NEW v \in Nat PROVE IsIndex(IndexNode, v)
  BY DEF IsIndex, IndexNode

(* An index node by its fields. *)
Node(a, b, c, d, e) ==
  [version |-> a, hash |-> b, bitmap |-> c, child_version |-> d, child_hash |-> e]

WithVersion(n, x) == [n EXCEPT !.version = x]
WithHash(n, x) == [n EXCEPT !.hash = x]
WithBitmap(n, x) == [n EXCEPT !.bitmap = x]
WithVersions(n, x) == [n EXCEPT !.child_version = x]
WithHashes(n, x) == [n EXCEPT !.child_hash = x]

LEMMA FieldSet ==
  ASSUME NEW a, NEW b, NEW c, NEW d, NEW e, NEW x
  PROVE  LET n == Node(a, b, c, d, e)
         IN /\ WithVersion(n, x) = Node(x, b, c, d, e)
            /\ WithHash(n, x) = Node(a, x, c, d, e)
            /\ WithBitmap(n, x) = Node(a, b, x, d, e)
            /\ WithVersions(n, x) = Node(a, b, c, x, e)
            /\ WithHashes(n, x) = Node(a, b, c, d, x)
<1>1. PICK n : n = Node(a, b, c, d, e)
  OBVIOUS
<1>2. WithVersion(n, x) = Node(x, b, c, d, e)
  BY <1>1 DEF Node, WithVersion
<1>3. WithHash(n, x) = Node(a, x, c, d, e)
  BY <1>1 DEF Node, WithHash
<1>4. WithBitmap(n, x) = Node(a, b, x, d, e)
  BY <1>1 DEF Node, WithBitmap
<1>5. WithVersions(n, x) = Node(a, b, c, x, e)
  BY <1>1 DEF Node, WithVersions
<1>6. WithHashes(n, x) = Node(a, b, c, d, x)
  BY <1>1 DEF Node, WithHashes
<1> QED BY <1>1, <1>2, <1>3, <1>4, <1>5, <1>6

LEMMA FieldsOf ==
  ASSUME NEW a, NEW b, NEW c, NEW d, NEW e
  PROVE  LET n == Node(a, b, c, d, e)
         IN /\ n.version = a /\ n.hash = b /\ n.bitmap = c
            /\ n.child_version = d /\ n.child_hash = e
  BY DEF Node

LEMMA Fields ==
  ASSUME NEW v, NEW n, IsIndex(n, v)
  PROVE  n = Node(n.version, n.hash, n.bitmap, n.child_version, n.child_hash)
  BY DEF IsIndex, Node

(* An index node of version u and with hash h, of n with another child. *)
IsMade(m, n, u, h, i, w, hash) ==
  m = Node(u, h, n.bitmap \cup {i}, [n.child_version EXCEPT ![i] = w],
           [n.child_hash EXCEPT ![i] = hash])

HasMade(m, n, u, h, i, w, hash) ==
  /\ m.version = u /\ m.hash = h
  /\ m.bitmap = n.bitmap \cup {i}
  /\ m.child_version = [n.child_version EXCEPT ![i] = w]
  /\ m.child_hash = [n.child_hash EXCEPT ![i] = hash]

LEMMA ChildSet ==
  ASSUME NEW v, NEW n, IsIndex(n, v), NEW u, NEW h, NEW i, NEW w, NEW hash
  PROVE  IsMade(SetChild(WithHash(WithVersion(n, u), h), i, w, hash), n, u, h, i, w, hash)
<1>1. PICK a, b, c, d, e : /\ n = Node(a, b, c, d, e)
                           /\ c = n.bitmap /\ d = n.child_version /\ e = n.child_hash
  BY Fields
<1>2. PICK k : k = WithHash(WithVersion(n, u), h)
  OBVIOUS
<1>3. k = Node(u, h, c, d, e)
  <2>1. WithVersion(Node(a, b, c, d, e), u) = Node(u, b, c, d, e)
    BY FieldSet
  <2>2. WithHash(Node(u, b, c, d, e), h) = Node(u, h, c, d, e)
    BY FieldSet
  <2> QED BY <1>1, <1>2, <2>1, <2>2
<1>4. PICK p, q, r : p = c \cup {i} /\ q = [d EXCEPT ![i] = w] /\ r = [e EXCEPT ![i] = hash]
  OBVIOUS
<1>5. SetChild(k, i, w, hash) =
        WithHashes(WithVersions(WithBitmap(k, k.bitmap \cup {i}), q), r)
  <2>1. /\ WithBitmap(k, p) = Node(u, h, p, d, e)
        /\ Node(u, h, p, d, e).child_version = d
        /\ WithVersions(Node(u, h, p, d, e), q) = Node(u, h, p, q, e)
        /\ Node(u, h, p, q, e).child_hash = e
        /\ k.bitmap = c
    BY <1>3, FieldSet, FieldsOf
  <2> QED BY <1>4, <2>1 DEF SetChild, WithBitmap, WithVersions, WithHashes
<1>6. k.bitmap = c
  BY <1>3, FieldsOf
<1>7. SetChild(k, i, w, hash) = Node(u, h, p, q, r)
  BY <1>3, <1>4, <1>5, <1>6, FieldSet
<1> QED BY <1>1, <1>2, <1>4, <1>7 DEF IsMade

LEMMA IndexMade ==
  ASSUME NEW v \in Nat, NEW n, IsIndex(n, v), NEW u \in 0..v, NEW h,
         NEW i \in Nibble, NEW w \in 0..v, NEW hash, NEW m,
         IsMade(m, n, u, h, i, w, hash)
  PROVE  IsIndex(m, v) /\ HasMade(m, n, u, h, i, w, hash)
<1>1. n.bitmap \cup {i} \in SUBSET Nibble
  BY DEF IsIndex
<1>2. [n.child_version EXCEPT ![i] = w] \in [Nibble -> 0..v]
  BY DEF IsIndex
<1>3. PICK c : c = [n.child_hash EXCEPT ![i] = hash]
  OBVIOUS
<1>4. c = [j \in Nibble |-> c[j]]
  <2>1. n.child_hash = [j \in Nibble |-> n.child_hash[j]]
    BY DEF IsIndex
  <2> QED BY <1>3, <2>1
<1>5. /\ m.version = u /\ m.hash = h /\ m.bitmap = n.bitmap \cup {i}
      /\ m.child_version = [n.child_version EXCEPT ![i] = w] /\ m.child_hash = c
  BY <1>3, FieldsOf DEF IsMade
<1>6. m = Node(m.version, m.hash, m.bitmap, m.child_version, m.child_hash)
  BY <1>3, <1>5 DEF IsMade
<1>7. IsIndex(m, v)
  BY <1>1, <1>2, <1>4, <1>5, <1>6 DEF IsIndex, Node
<1> QED BY <1>3, <1>5, <1>7 DEF HasMade

(* What an update, and what a delta item, makes of an index node. *)
IsChanged(m, n, v, i, hash) ==
  /\ m.version = v /\ NodeHashed(m)
  /\ m.bitmap = n.bitmap \cup {i}
  /\ m.child_version = [n.child_version EXCEPT ![i] = v]
  /\ m.child_hash = [n.child_hash EXCEPT ![i] = hash]

LEMMA IndexUpdated ==
  ASSUME NEW v \in Nat, NEW n, IsIndex(n, v), NEW i \in Nibble, NEW hash
  PROVE  /\ IsIndex(UpdateIndex(n, v, i, hash), v)
         /\ IsChanged(UpdateIndex(n, v, i, hash), n, v, i, hash)
<1>1. PICK k : k = SetChild(WithVersion(n, v), i, v, hash)
  OBVIOUS
<1>2. IsMade(k, n, v, n.hash, i, v, hash)
  <2>1. WithVersion(n, v) = WithHash(WithVersion(n, v), n.hash)
    <3>1. n = Node(n.version, n.hash, n.bitmap, n.child_version, n.child_hash)
      BY Fields
    <3>2. WithVersion(n, v) = Node(v, n.hash, n.bitmap, n.child_version, n.child_hash)
      BY <3>1, FieldSet
    <3> QED BY <3>2, FieldSet
  <2>2. IsMade(SetChild(WithHash(WithVersion(n, v), n.hash), i, v, hash),
               n, v, n.hash, i, v, hash)
    BY ChildSet
  <2> QED BY <1>1, <2>1, <2>2
<1>3. PICK p, q, r : /\ k = Node(v, n.hash, p, q, r) /\ p = n.bitmap \cup {i}
                     /\ q = [n.child_version EXCEPT ![i] = v]
                     /\ r = [n.child_hash EXCEPT ![i] = hash]
  BY <1>2 DEF IsMade
<1>4. PICK h : h = HashFunction(Concatenated(r))
  OBVIOUS
<1>5. PICK m : m = UpdateIndex(n, v, i, hash)
  OBVIOUS
<1>6. IsMade(m, n, v, h, i, v, hash)
  <2>1. m = WithHash(k, HashFunction(Concatenated(k.child_hash)))
    BY <1>1, <1>5 DEF UpdateIndex, WithHash, WithVersion
  <2>2. m = Node(v, h, p, q, r)
    <3>1. k.child_hash = r
      BY <1>3, FieldsOf
    <3>2. WithHash(Node(v, n.hash, p, q, r), h) = Node(v, h, p, q, r)
      BY FieldSet
    <3> QED BY <1>3, <1>4, <2>1, <3>1, <3>2
  <2> QED BY <1>3, <2>2 DEF IsMade
<1>7. v \in 0..v
  OBVIOUS
<1>8. IsIndex(m, v) /\ HasMade(m, n, v, h, i, v, hash)
  BY <1>6, <1>7, IndexMade
<1>9. NodeHashed(m)
  BY <1>3, <1>4, <1>8 DEF NodeHashed, HasMade
<1> QED BY <1>5, <1>8, <1>9 DEF HasMade, IsChanged

LEMMA ItemApplied ==
  ASSUME NEW v \in Nat, NEW n, IsIndex(n, v), NEW item,
         item.version \in 0..v, item.index \in Nibble
  PROVE  LET m == ItemOnIndex(n, item)
         IN /\ IsIndex(m, v)
            /\ HasMade(m, n, item.version, item.hash, item.index, item.version,
                       item.child_hash)
<1>1. PICK m : m = ItemOnIndex(n, item)
  OBVIOUS
<1>2. IsMade(m, n, item.version, item.hash, item.index, item.version, item.child_hash)
  <2>1. m = SetChild(WithHash(WithVersion(n, item.version), item.hash),
                     item.index, item.version, item.child_hash)
    BY <1>1 DEF ItemOnIndex, WithHash, WithVersion
  <2> QED BY <2>1, ChildSet
<1>3. /\ IsIndex(m, v)
      /\ HasMade(m, n, item.version, item.hash, item.index, item.version, item.child_hash)
  BY <1>2, IndexMade
<1> QED BY <1>1, <1>3

(* Index nodes with the same fields are the same. *)
LEMMA IndexEqual ==
  ASSUME NEW v, NEW n, NEW m, IsIndex(n, v), IsIndex(m, v), SameIndex(n, m),
         n.hash = m.hash, n.child_hash = m.child_hash
  PROVE  n = m
  BY DEF IsIndex, SameIndex, SameRoot

(* The item of an update makes the node of the update, also of a node that *)
(* has the bit already.                                                    *)
LEMMA ItemOfUpdate ==
  ASSUME NEW v \in Nat, NEW n, IsIndex(n, v), NEW i \in Nibble, NEW hash, NEW at,
         NEW o, IsIndex(o, v), o.bitmap \cup {i} = n.bitmap \cup {i},
         o.child_version = n.child_version, o.child_hash = n.child_hash
  PROVE  LET m == UpdateIndex(n, v, i, hash)
             item == IndexItem(at, m, i)
         IN IsIndexItem(item, v) /\ item.at = at /\ ItemOnIndex(o, item) = m
<1>1. PICK m : m = UpdateIndex(n, v, i, hash)
  OBVIOUS
<1>2. /\ IsIndex(m, v) /\ m.version = v
      /\ m.bitmap = n.bitmap \cup {i}
      /\ m.child_version = [n.child_version EXCEPT ![i] = v]
      /\ m.child_hash = [n.child_hash EXCEPT ![i] = hash]
  <2>1. IsIndex(m, v) /\ IsChanged(m, n, v, i, hash)
    BY <1>1, IndexUpdated
  <2> QED BY <2>1 DEF IsChanged
<1>3. m.child_hash[i] = hash
  <2>1. n.child_hash = [j \in Nibble |-> n.child_hash[j]]
    BY DEF IsIndex
  <2> QED BY <1>2, <2>1
<1>4. PICK item : item = IndexItem(at, m, i)
  OBVIOUS
<1>5. /\ item.at = at /\ item.version = v /\ item.hash = m.hash /\ item.index = i
      /\ item.child_hash = hash
  BY <1>2, <1>3, <1>4 DEF IndexItem
<1>6. IsIndexItem(item, v)
  BY <1>2, <1>4, <1>5 DEF IsIndexItem, IndexItem
<1>7. PICK k : k = ItemOnIndex(o, item)
  OBVIOUS
<1>8. /\ IsIndex(k, v) /\ k.version = v /\ k.hash = m.hash
      /\ k.bitmap = n.bitmap \cup {i}
      /\ k.child_version = [n.child_version EXCEPT ![i] = v]
      /\ k.child_hash = [n.child_hash EXCEPT ![i] = hash]
  <2>1. item.version \in 0..v /\ item.index \in Nibble
    BY <1>5
  <2>2. /\ IsIndex(k, v)
        /\ HasMade(k, o, item.version, item.hash, item.index, item.version, item.child_hash)
    BY <1>7, <2>1, ItemApplied
  <2> QED BY <1>5, <2>2 DEF HasMade
<1>9. k = m
  BY <1>2, <1>8, IndexEqual DEF SameIndex, SameRoot
<1> QED BY <1>1, <1>4, <1>5, <1>6, <1>7, <1>9

-----------------------------------------------------------------------------
(* Pages and items.                                                        *)

LEMMA Keys ==
  /\ Root \notin Paged /\ Root \in Pid /\ Paged \subseteq Key /\ Paged \subseteq Pid
  /\ \A p \in Pid : p = Root \/ p \in Paged
  /\ \A k \in Key : /\ k[1] \in Nibble
                    /\ k \in Paged => /\ Len(k) = 2 /\ k[2] \in Nibble
                                      /\ k = <<k[1], k[2]>> /\ <<k[1]>> \notin Key
                    /\ k \notin Paged => Len(k) = 1 /\ k = <<k[1]>>
  /\ \A i : <<i>> \in Key => /\ i \in Nibble /\ <<i>> \notin Paged
                             /\ \A k \in Key : k[1] = i => k = <<i>>
  /\ \A i, j : <<i, j>> \in Paged => i \in Nibble /\ j \in Nibble
<1>1. \A k \in Key : \/ \E i, j \in Nibble : k = <<i, j>>
                     \/ \E i \in Nibble : k = <<i>>
  <2>1. \A k \in Key : k \in Nibble \X Nibble \/ k \in {<<i>> : i \in Nibble}
    BY MerkleAssumption
  <2>2. \A k \in Nibble \X Nibble : \E i, j \in Nibble : k = <<i, j>>
    OBVIOUS
  <2>3. \A k \in {<<i>> : i \in Nibble} : \E i \in Nibble : k = <<i>>
    OBVIOUS
  <2> QED BY <2>1, <2>2, <2>3, Zenon
<1>2. \A k, l \in Key : k[1] = l[1] => Len(k) = Len(l)
  BY MerkleAssumption
<1>3. \A k \in Key : \/ \E i, j \in Nibble : k = <<i, j>> /\ k[1] = i /\ k[2] = j /\ Len(k) = 2
                     \/ \E i \in Nibble : k = <<i>> /\ k[1] = i /\ Len(k) = 1
  BY <1>1
<1>4. Root \notin Paged /\ Root \in Pid /\ Paged \subseteq Key /\ Paged \subseteq Pid
  BY DEF Root, Paged, Pid
<1>5. \A p \in Pid : p = Root \/ p \in Paged
  BY DEF Pid
<1>6. \A i : Len(<<i>>) = 1 /\ <<i>>[1] = i
  OBVIOUS
<1>7. ASSUME NEW k \in Key
      PROVE  /\ k[1] \in Nibble
             /\ k \in Paged => /\ Len(k) = 2 /\ k[2] \in Nibble
                               /\ k = <<k[1], k[2]>> /\ <<k[1]>> \notin Key
             /\ k \notin Paged => Len(k) = 1 /\ k = <<k[1]>>
  <2>1. CASE \E i, j \in Nibble : k = <<i, j>> /\ k[1] = i /\ k[2] = j /\ Len(k) = 2
    <3>1. <<k[1]>> \notin Key
      BY <1>2, <1>6, <2>1
    <3> QED BY <2>1, <3>1 DEF Paged
  <2>2. CASE \E i \in Nibble : k = <<i>> /\ k[1] = i /\ Len(k) = 1
    BY <2>2 DEF Paged
  <2> QED BY <1>3, <2>1, <2>2
<1>8. ASSUME NEW i, <<i>> \in Key
      PROVE  /\ i \in Nibble /\ <<i>> \notin Paged
             /\ \A k \in Key : k[1] = i => k = <<i>>
  <2>1. <<i>> \notin Paged /\ i \in Nibble
    BY <1>6, <1>7, <1>8 DEF Paged
  <2>2. ASSUME NEW k \in Key, k[1] = i PROVE k = <<i>>
    <3>1. Len(k) = 1
      BY <1>2, <1>6, <1>8, <2>2
    <3>2. k \notin Paged
      BY <3>1 DEF Paged
    <3> QED BY <1>7, <2>2, <3>2
  <2> QED BY <2>1, <2>2
<1>9. ASSUME NEW i, NEW j, <<i, j>> \in Paged PROVE i \in Nibble /\ j \in Nibble
  <2>1. <<i, j>>[1] = i /\ <<i, j>>[2] = j
    OBVIOUS
  <2> QED BY <1>4, <1>7, <1>9, <2>1
<1> QED BY <1>4, <1>5, <1>7, <1>8, <1>9

(* A page or child that is not there is a blank one. *)
Blank(page) == IF page = None THEN IndexPage ELSE page
BlankNode(child) == IF child = None THEN IndexNode ELSE child

LEMMA NewPage ==
  ASSUME NEW v \in Nat
  PROVE  /\ IsRootPage(IndexPage, v) /\ IndexPage.node = IndexNode
         /\ \A i \in Nibble : IndexPage.child[i] = None
<1>1. /\ IndexPage = [node |-> IndexPage.node, child |-> IndexPage.child]
      /\ IndexPage.child = [i \in Nibble |-> None] /\ IndexPage.node = IndexNode
  BY DEF IndexPage
<1>2. \A i \in Nibble : IndexPage.child[i] = None
  BY <1>1
<1>3. IndexPage.child = [i \in Nibble |-> IndexPage.child[i]]
  BY <1>1
<1> QED BY <1>1, <1>2, <1>3, NewNode DEF IsRootPage

(* A page of the root with one child and the node changed. *)
WithChild(page, i, child) == [page.child EXCEPT ![i] = child]

LEMMA PageMade ==
  ASSUME NEW v \in Nat, NEW page, IsRootPage(page, v), NEW i \in Nibble,
         NEW node, IsIndex(node, v), NEW child, IsChild(i, child, v), NEW new,
         new = [node |-> node, child |-> WithChild(page, i, child)]
  PROVE  /\ IsRootPage(new, v) /\ new.node = node /\ new.child[i] = child
         /\ \A j \in Nibble \ {i} : new.child[j] = page.child[j]
<1>1. new.node = node /\ new.child = WithChild(page, i, child)
  OBVIOUS
<1>2. page.child = [j \in Nibble |-> page.child[j]]
  BY DEF IsRootPage
<1>3. new.child = [j \in Nibble |-> IF j = i THEN child ELSE page.child[j]]
  BY <1>1, <1>2 DEF WithChild
<1>4. new.child[i] = child /\ \A j \in Nibble \ {i} : new.child[j] = page.child[j]
  BY <1>3
<1>5. new.child = [j \in Nibble |-> new.child[j]]
  BY <1>3
<1>6. new = [node |-> new.node, child |-> new.child]
  BY <1>1
<1>7. \A j \in Nibble : new.child[j] = None \/ IsChild(j, new.child[j], v)
  BY <1>4 DEF IsRootPage
<1> QED BY <1>1, <1>4, <1>5, <1>6, <1>7 DEF IsRootPage

(* Pages of the root with the same node and children are the same. *)
LEMMA PageEqual ==
  ASSUME NEW v, NEW x, NEW y, IsRootPage(x, v), IsRootPage(y, v), x.node = y.node,
         \A i \in Nibble : x.child[i] = y.child[i]
  PROVE  x = y
<1>1. x.child = y.child
  <2>1. x.child = [i \in Nibble |-> x.child[i]] /\ y.child = [i \in Nibble |-> y.child[i]]
    BY DEF IsRootPage
  <2>2. [i \in Nibble |-> x.child[i]] = [i \in Nibble |-> y.child[i]]
    OBVIOUS
  <2> QED BY <2>1, <2>2
<1> QED BY <1>1 DEF IsRootPage

(* A delta item on a page of the root. *)
LEMMA ItemOnRoot ==
  ASSUME NEW v \in Nat, NEW page, page = None \/ IsRootPage(page, v),
         NEW item, IsIndexItem(item, v), item.at = 0
  PROVE  LET new == UpdateDeltaItem(page, item)
         IN /\ IsRootPage(new, v)
            /\ new.node = ItemOnIndex(Blank(page).node, item)
            /\ new.child = Blank(page).child
<1>1. PICK blank : blank = Blank(page) /\ IsRootPage(blank, v)
  BY NewPage DEF Blank
<1>2. ~IsLeaf(item)
  BY Kinds
<1>3. PICK node : node = ItemOnIndex(blank.node, item)
  OBVIOUS
<1>4. UpdateDeltaItem(page, item) = [node |-> node, child |-> blank.child]
  <2>1. blank = [node |-> blank.node, child |-> blank.child]
    BY <1>1 DEF IsRootPage
  <2>2. [blank EXCEPT !.node = ItemOnIndex(blank.node, item)] =
          [node |-> node, child |-> blank.child]
    BY <1>3, <2>1
  <2>3. UpdateDeltaItem(page, item) = [blank EXCEPT !.node = ItemOnIndex(blank.node, item)]
    BY <1>1, <1>2 DEF UpdateDeltaItem, Blank
  <2> QED BY <2>2, <2>3
<1>5. IsIndex(node, v)
  <2>1. IsIndex(blank.node, v)
    BY <1>1 DEF IsRootPage
  <2>2. item.version \in 0..v /\ item.index \in Nibble
    BY DEF IsIndexItem
  <2> QED BY <1>3, <2>1, <2>2, ItemApplied
<1>6. PICK new : new = [node |-> node, child |-> blank.child]
  OBVIOUS
<1>7. new.node = node /\ new.child = blank.child
  BY <1>6
<1>8. IsRootPage(new, v)
  BY <1>1, <1>5, <1>6, <1>7 DEF IsRootPage
<1> QED BY <1>1, <1>3, <1>4, <1>6, <1>7, <1>8

IsChildPut(new, page, i, item) ==
  /\ new.node = WithBitmap(page.node, page.node.bitmap \cup {i})
  /\ new.child[i] = IF <<i>> \in Key THEN ItemOnLeaf(item)
                    ELSE ItemOnIndex(BlankNode(page.child[i]), item)
  /\ \A j \in Nibble \ {i} : new.child[j] = page.child[j]

LEMMA ItemOnAChild ==
  ASSUME NEW v \in Nat, NEW page, page = None \/ IsRootPage(page, v),
         NEW item, NEW i \in Nibble, item.at = i + 1,
         IF <<i>> \in Key THEN IsLeafItem(item, v) ELSE IsIndexItem(item, v)
  PROVE  /\ IsRootPage(UpdateDeltaItem(page, item), v)
         /\ IsChildPut(UpdateDeltaItem(page, item), Blank(page), i, item)
<1>1. PICK blank : blank = Blank(page) /\ IsRootPage(blank, v)
  BY NewPage DEF Blank
<1>2. IsLeaf(item) <=> <<i>> \in Key
  BY Kinds
<1>3. item.at # 0 /\ item.at - 1 = i
  <2>1. i \in Nat
    BY MerkleAssumption
  <2> QED BY <2>1
<1>4. PICK node : node = WithBitmap(blank.node, blank.node.bitmap \cup {i})
  OBVIOUS
<1>5. PICK child : child = ItemOnChild(blank.child[i], item)
  OBVIOUS
<1>6. child = IF <<i>> \in Key THEN ItemOnLeaf(item)
              ELSE ItemOnIndex(BlankNode(blank.child[i]), item)
  BY <1>2, <1>5 DEF ItemOnChild, BlankNode
<1>7. IsIndex(node, v)
  <2>1. IsIndex(blank.node, v)
    BY <1>1 DEF IsRootPage
  <2>2. PICK b : b = blank.node.bitmap \cup {i} /\ b \in SUBSET Nibble
    <3>1. blank.node.bitmap \cup {i} \in SUBSET Nibble
      BY <2>1 DEF IsIndex
    <3> QED BY <3>1
  <2>3. node = Node(blank.node.version, blank.node.hash, b,
                    blank.node.child_version, blank.node.child_hash)
    BY <1>4, <2>1, <2>2, Fields, FieldSet
  <2>4. /\ node.version = blank.node.version /\ node.hash = blank.node.hash
        /\ node.bitmap = b /\ node.child_version = blank.node.child_version
        /\ node.child_hash = blank.node.child_hash
    BY <2>3, FieldsOf
  <2> QED BY <2>1, <2>2, <2>3, <2>4 DEF IsIndex, Node
<1>8. IsChild(i, child, v)
  <2>1. CASE <<i>> \in Key
    <3>1. child = [version |-> item.version, location |-> item.location, hash |-> item.hash]
      BY <1>6, <2>1 DEF ItemOnLeaf
    <3>2. item.version \in 0..v /\ item.location \in 0..v
      BY <2>1 DEF IsLeafItem
    <3>3. child.version = item.version /\ child.location = item.location /\ child.hash = item.hash
      BY <3>1
    <3> QED BY <2>1, <3>1, <3>2, <3>3 DEF IsChild, IsLeafNode
  <2>2. CASE <<i>> \notin Key
    <3>1. IsIndex(BlankNode(blank.child[i]), v)
      BY <1>1, <2>2, NewNode DEF BlankNode, IsRootPage, IsChild
    <3>2. item.version \in 0..v /\ item.index \in Nibble
      BY <2>2 DEF IsIndexItem
    <3> QED BY <1>6, <2>2, <3>1, <3>2, ItemApplied DEF IsChild
  <2> QED BY <2>1, <2>2
<1>9. PICK new : new = [node |-> node, child |-> WithChild(blank, i, child)]
  OBVIOUS
<1>10. UpdateDeltaItem(page, item) = new
  BY <1>1, <1>3, <1>4, <1>5, <1>9 DEF UpdateDeltaItem, Blank, WithBitmap, WithChild
<1>11. /\ IsRootPage(new, v) /\ new.node = node /\ new.child[i] = child
       /\ \A j \in Nibble \ {i} : new.child[j] = blank.child[j]
  BY <1>1, <1>7, <1>8, <1>9, PageMade
<1> QED BY <1>1, <1>4, <1>6, <1>10, <1>11 DEF IsChildPut

(* An item makes a page of what is there, and pages that differ in nothing *)
(* but what a file loses are made pages that do so too.                    *)
SameItem(x, y) ==
  /\ x.at = y.at /\ x.version = y.version
  /\ IsLeaf(x) => x.location = y.location
  /\ ~IsLeaf(x) => x.index = y.index

LEMMA ItemOnPage ==
  ASSUME NEW v \in Nat, NEW p \in Pid, NEW page, IsPage(p, page, v),
         NEW item, IsItem(p, item, v)
  PROVE  IsPage(p, UpdateDeltaItem(page, item), v) /\ UpdateDeltaItem(page, item) # None
<1>1. PICK new : new = UpdateDeltaItem(page, item)
  OBVIOUS
<1>2. CASE p = Root
  <2>1. page = None \/ IsRootPage(page, v)
    BY <1>2 DEF IsPage
  <2>2. IsRootItem(item, v)
    BY <1>2 DEF IsItem
  <2>3. IsRootPage(new, v)
    <3>1. CASE item.at = 0 /\ IsIndexItem(item, v)
      BY <1>1, <2>1, <3>1, ItemOnRoot
    <3>2. CASE \E i \in Nibble : /\ item.at = i + 1
                                 /\ IF <<i>> \in Key THEN IsLeafItem(item, v)
                                    ELSE IsIndexItem(item, v)
      <4>1. PICK i \in Nibble : /\ item.at = i + 1
                                /\ IF <<i>> \in Key THEN IsLeafItem(item, v)
                                   ELSE IsIndexItem(item, v)
        BY <3>2
      <4> QED BY <1>1, <2>1, <4>1, ItemOnAChild
    <3> QED BY <2>2, <3>1, <3>2 DEF IsRootItem
  <2> QED BY <1>1, <1>2, <2>3, Kinds DEF IsPage
<1>3. CASE p # Root
  <2>1. IsLeafItem(item, v) /\ item.at = 0 /\ IsLeaf(item)
    BY <1>3, Kinds DEF IsItem
  <2>2. new = [version |-> item.version, location |-> item.location, hash |-> item.hash]
    BY <1>1, <2>1 DEF UpdateDeltaItem, ItemOnLeaf
  <2>3. IsLeafNode(new, v)
    <3>1. new.version = item.version /\ new.location = item.location /\ new.hash = item.hash
      BY <2>2
    <3> QED BY <2>1, <2>2, <3>1 DEF IsLeafNode, IsLeafItem
  <2> QED BY <1>1, <1>3, <2>3, Kinds DEF IsPage
<1> QED BY <1>2, <1>3

(* The same item on two index nodes. *)
LEMMA SameItemApplied ==
  ASSUME NEW v \in Nat, NEW n, IsIndex(n, v), NEW m, IsIndex(m, v), NEW x, NEW y,
         IsIndexItem(x, v), IsIndexItem(y, v), SameItem(x, y)
  PROVE  /\ SameRoot(n, m) => SameRoot(ItemOnIndex(n, x), ItemOnIndex(m, y))
         /\ SameIndex(n, m) => SameIndex(ItemOnIndex(n, x), ItemOnIndex(m, y))
<1>1. x.version = y.version /\ x.index = y.index
  BY Kinds DEF SameItem
<1>2. /\ x.version \in 0..v /\ x.index \in Nibble
      /\ y.version \in 0..v /\ y.index \in Nibble
  BY DEF IsIndexItem
<1>3. PICK a, b : a = ItemOnIndex(n, x) /\ b = ItemOnIndex(m, y)
  OBVIOUS
<1>4. /\ a.version = x.version /\ a.bitmap = n.bitmap \cup {x.index}
      /\ a.child_version = [n.child_version EXCEPT ![x.index] = x.version]
  <2>1. HasMade(a, n, x.version, x.hash, x.index, x.version, x.child_hash)
    BY <1>2, <1>3, ItemApplied
  <2> QED BY <2>1 DEF HasMade
<1>5. /\ b.version = y.version /\ b.bitmap = m.bitmap \cup {y.index}
      /\ b.child_version = [m.child_version EXCEPT ![y.index] = y.version]
  <2>1. HasMade(b, m, y.version, y.hash, y.index, y.version, y.child_hash)
    BY <1>2, <1>3, ItemApplied
  <2> QED BY <2>1 DEF HasMade
<1> QED BY <1>1, <1>3, <1>4, <1>5 DEF SameRoot, SameIndex

LEMMA SameBlank ==
  ASSUME NEW v \in Nat, NEW x, NEW y, IsPage(Root, x, v), IsPage(Root, y, v),
         SamePage(Root, x, y)
  PROVE  /\ IsRootPage(Blank(x), v) /\ IsRootPage(Blank(y), v)
         /\ SameRootPage(Blank(x), Blank(y))
<1>1. IsRootPage(Blank(x), v) /\ IsRootPage(Blank(y), v)
  BY NewPage DEF IsPage, Blank
<1>2. SameRootPage(IndexPage, IndexPage)
  BY NewPage DEF SameRootPage, SameRoot, SameChild
<1> QED BY <1>1, <1>2 DEF SamePage, Blank

LEMMA SameItemOnRoot ==
  ASSUME NEW v \in Nat, NEW x, NEW y, IsPage(Root, x, v), IsPage(Root, y, v),
         SamePage(Root, x, y), NEW item, IsRootItem(item, v),
         NEW other, IsRootItem(other, v), SameItem(item, other)
  PROVE  SameRootPage(UpdateDeltaItem(x, item), UpdateDeltaItem(y, other))
<1>1. PICK a, b : a = UpdateDeltaItem(x, item) /\ b = UpdateDeltaItem(y, other)
  OBVIOUS
<1>2. PICK p, q : p = Blank(x) /\ q = Blank(y)
  OBVIOUS
<1>3. IsRootPage(p, v) /\ IsRootPage(q, v) /\ SameRootPage(p, q)
  BY <1>2, SameBlank
<1>4. /\ x = None \/ IsRootPage(x, v)
      /\ y = None \/ IsRootPage(y, v)
  BY DEF IsPage
<1>5. item.at = other.at /\ \A i \in Nibble : i + 1 # 0
  <2>1. \A i \in Nibble : i \in Nat
    BY MerkleAssumption
  <2> QED BY <2>1 DEF SameItem
<1>6. CASE item.at = 0
  <2>1. other.at = 0 /\ IsIndexItem(item, v) /\ IsIndexItem(other, v)
    BY <1>5, <1>6 DEF IsRootItem
  <2>2. a.node = ItemOnIndex(p.node, item) /\ a.child = p.child
    BY <1>1, <1>2, <1>4, <1>6, <2>1, ItemOnRoot
  <2>3. b.node = ItemOnIndex(q.node, other) /\ b.child = q.child
    BY <1>1, <1>2, <1>4, <1>6, <2>1, ItemOnRoot
  <2>4. IsIndex(p.node, v) /\ IsIndex(q.node, v) /\ SameRoot(p.node, q.node)
    BY <1>3 DEF IsRootPage, SameRootPage
  <2>5. SameRoot(a.node, b.node)
    BY <2>1, <2>2, <2>3, <2>4, SameItemApplied
  <2> QED BY <1>1, <1>3, <2>2, <2>3, <2>5 DEF SameRootPage
<1>7. CASE item.at # 0
  <2>1. PICK i \in Nibble : /\ item.at = i + 1
                            /\ IF <<i>> \in Key THEN IsLeafItem(item, v)
                               ELSE IsIndexItem(item, v)
    BY <1>7 DEF IsRootItem
  <2>2. other.at = i + 1
    BY <1>5, <2>1
  <2>3. IF <<i>> \in Key THEN IsLeafItem(other, v) ELSE IsIndexItem(other, v)
    <3>1. PICK j \in Nibble : /\ other.at = j + 1
                              /\ IF <<j>> \in Key THEN IsLeafItem(other, v)
                                 ELSE IsIndexItem(other, v)
      BY <1>5, <1>7 DEF IsRootItem
    <3>2. i = j
      <4>1. i \in Nat /\ j \in Nat
        BY MerkleAssumption
      <4> QED BY <2>2, <3>1, <4>1
    <3> QED BY <3>1, <3>2
  <2>4. /\ a.node = WithBitmap(p.node, p.node.bitmap \cup {i})
        /\ a.child[i] = IF <<i>> \in Key THEN ItemOnLeaf(item)
                        ELSE ItemOnIndex(BlankNode(p.child[i]), item)
        /\ \A j \in Nibble \ {i} : a.child[j] = p.child[j]
    <3>1. IsChildPut(a, p, i, item)
      BY <1>1, <1>2, <1>4, <2>1, ItemOnAChild
    <3> QED BY <3>1 DEF IsChildPut
  <2>5. /\ b.node = WithBitmap(q.node, q.node.bitmap \cup {i})
        /\ b.child[i] = IF <<i>> \in Key THEN ItemOnLeaf(other)
                        ELSE ItemOnIndex(BlankNode(q.child[i]), other)
        /\ \A j \in Nibble \ {i} : b.child[j] = q.child[j]
    <3>1. IsChildPut(b, q, i, other)
      BY <1>1, <1>2, <1>4, <2>2, <2>3, ItemOnAChild
    <3> QED BY <3>1 DEF IsChildPut
  <2>6. SameRoot(a.node, b.node)
    <3>1. IsIndex(p.node, v) /\ IsIndex(q.node, v) /\ SameRoot(p.node, q.node)
      BY <1>3 DEF IsRootPage, SameRootPage
    <3>2. PICK c : c = p.node.bitmap \cup {i}
      OBVIOUS
    <3>3. c = q.node.bitmap \cup {i}
      BY <3>1, <3>2 DEF SameRoot
    <3>4. a.node = Node(p.node.version, p.node.hash, c, p.node.child_version, p.node.child_hash)
      BY <2>4, <3>1, <3>2, Fields, FieldSet
    <3>5. b.node = Node(q.node.version, q.node.hash, c, q.node.child_version, q.node.child_hash)
      BY <2>5, <3>1, <3>3, Fields, FieldSet
    <3> QED BY <3>1, <3>4, <3>5, FieldsOf DEF SameRoot
  <2>7. SameChild(i, a.child[i], b.child[i])
    <3>1. CASE <<i>> \in Key
      <4>1. a.child[i] = ItemOnLeaf(item) /\ b.child[i] = ItemOnLeaf(other)
        BY <2>4, <2>5, <3>1
      <4>2. SameLeaf(ItemOnLeaf(item), ItemOnLeaf(other))
        BY <2>1, <3>1, Kinds DEF SameItem, SameLeaf, ItemOnLeaf
      <4>3. ItemOnLeaf(item) # None /\ ItemOnLeaf(other) # None
        <5>1. \A u : "location" \in DOMAIN ItemOnLeaf(u)
          BY DEF ItemOnLeaf
        <5>2. DOMAIN None = {"null"}
          BY DEF None
        <5> QED BY <5>1, <5>2
      <4> QED BY <3>1, <4>1, <4>2, <4>3 DEF SameChild
    <3>2. CASE <<i>> \notin Key
      <4>1. PICK m, n : m = BlankNode(p.child[i]) /\ n = BlankNode(q.child[i])
        OBVIOUS
      <4>2. IsIndex(m, v) /\ IsIndex(n, v)
        BY <1>3, <3>2, <4>1, NewNode DEF BlankNode, IsRootPage, IsChild
      <4>3. SameIndex(m, n)
        BY <1>3, <3>2, <4>1 DEF BlankNode, SameRootPage, SameChild, SameIndex, SameRoot
      <4>4. SameIndex(ItemOnIndex(m, item), ItemOnIndex(n, other))
        BY <2>1, <2>3, <3>2, <4>2, <4>3, SameItemApplied
      <4>5. ItemOnIndex(m, item) # None /\ ItemOnIndex(n, other) # None
        <5>1. /\ item.version \in 0..v /\ item.index \in Nibble
              /\ other.version \in 0..v /\ other.index \in Nibble
          BY <2>1, <2>3, <3>2 DEF IsIndexItem
        <5>2. IsIndex(ItemOnIndex(m, item), v) /\ IsIndex(ItemOnIndex(n, other), v)
          BY <4>2, <5>1, ItemApplied
        <5> QED BY <5>2, Kinds
      <4> QED BY <2>4, <2>5, <3>2, <4>1, <4>4, <4>5 DEF SameChild
    <3> QED BY <3>1, <3>2
  <2>8. \A j \in Nibble : SameChild(j, a.child[j], b.child[j])
    BY <1>3, <2>4, <2>5, <2>7 DEF SameRootPage
  <2> QED BY <1>1, <2>6, <2>8 DEF SameRootPage
<1> QED BY <1>6, <1>7

LEMMA SameItemOnPage ==
  ASSUME NEW v \in Nat, NEW p \in Pid, NEW x, NEW y, IsPage(p, x, v), IsPage(p, y, v),
         SamePage(p, x, y), NEW item, IsItem(p, item, v),
         NEW other, IsItem(p, other, v), SameItem(item, other)
  PROVE  SamePage(p, UpdateDeltaItem(x, item), UpdateDeltaItem(y, other))
<1>1. UpdateDeltaItem(x, item) # None /\ UpdateDeltaItem(y, other) # None
  BY ItemOnPage
<1>2. CASE p = Root
  <2>1. SameRootPage(UpdateDeltaItem(x, item), UpdateDeltaItem(y, other))
    BY <1>2, SameItemOnRoot DEF IsItem
  <2> QED BY <1>1, <1>2, <2>1 DEF SamePage
<1>3. CASE p # Root
  <2>1. /\ IsLeafItem(item, v) /\ item.at = 0 /\ IsLeaf(item)
        /\ IsLeafItem(other, v) /\ other.at = 0 /\ IsLeaf(other)
    BY <1>3, Kinds DEF IsItem
  <2>2. UpdateDeltaItem(x, item) = ItemOnLeaf(item) /\ UpdateDeltaItem(y, other) = ItemOnLeaf(other)
    BY <2>1 DEF UpdateDeltaItem
  <2>3. SameLeaf(ItemOnLeaf(item), ItemOnLeaf(other))
    BY <2>1 DEF SameItem, SameLeaf, ItemOnLeaf
  <2> QED BY <1>1, <1>3, <2>2, <2>3 DEF SamePage
<1> QED BY <1>2, <1>3

-----------------------------------------------------------------------------
(* Reading back what was written to a file.                                *)

LEMMA LeafRead ==
  ASSUME NEW v \in Nat, NEW n, IsLeafNode(n, v)
  PROVE  IsLeafNode(ReadNode(n), v) /\ SameLeaf(n, ReadNode(n))
<1>1. IsLeaf(n)
  BY Kinds
<1>2. PICK h : h = Padded(n.hash)
  OBVIOUS
<1>3. ReadNode(n) = [n EXCEPT !.hash = h]
  BY <1>1, <1>2 DEF ReadNode
<1>4. ReadNode(n) = [version |-> n.version, location |-> n.location, hash |-> h]
  BY <1>3 DEF IsLeafNode
<1> QED BY <1>4 DEF IsLeafNode, SameLeaf

LEMMA IndexRead ==
  ASSUME NEW v \in Nat, NEW n, IsIndex(n, v)
  PROVE  /\ IsIndex(ReadNode(n), v) /\ SameIndex(n, ReadNode(n))
         /\ IsIndex(AddChildren(ReadNode(n)), v) /\ SameRoot(n, AddChildren(ReadNode(n)))
<1>1. ~IsLeaf(n)
  BY Kinds
<1>2. PICK h, c : /\ h = Padded(n.hash)
                  /\ c = [i \in Nibble |-> IF i \in n.bitmap THEN Padded(n.child_hash[i]) ELSE Empty]
  OBVIOUS
<1>3. PICK m : m = ReadNode(n)
  OBVIOUS
<1>4. m = WithHashes(WithHash(n, h), c)
  <2>1. n = Node(n.version, n.hash, n.bitmap, n.child_version, n.child_hash)
    BY Fields
  <2>2. WithHash(n, h).bitmap = n.bitmap /\ WithHash(n, h).child_hash = n.child_hash
    BY <2>1, FieldSet, FieldsOf
  <2> QED BY <1>1, <1>2, <1>3, <2>2 DEF ReadNode, WithHash, WithHashes
<1>5. m = Node(n.version, h, n.bitmap, n.child_version, c)
  <2>1. n = Node(n.version, n.hash, n.bitmap, n.child_version, n.child_hash)
    BY Fields
  <2>2. WithHash(n, h) = Node(n.version, h, n.bitmap, n.child_version, n.child_hash)
    BY <2>1, FieldSet
  <2> QED BY <1>4, <2>2, FieldSet
<1>6. /\ m.version = n.version /\ m.hash = h /\ m.bitmap = n.bitmap
      /\ m.child_version = n.child_version /\ m.child_hash = c
  BY <1>5, FieldsOf
<1>7. c = [i \in Nibble |-> c[i]]
  BY <1>2
<1>8. IsIndex(m, v) /\ SameIndex(n, m)
  BY <1>5, <1>6, <1>7 DEF IsIndex, SameIndex, SameRoot, Node
<1>9. PICK d, e : d = [i \in Nibble |-> 0] /\ e = [i \in Nibble |-> Empty]
  OBVIOUS
<1>10. PICK r : r = AddChildren(m)
  OBVIOUS
<1>11. r = Node(n.version, h, n.bitmap, d, e)
  <2>1. r = WithHashes(WithVersions(m, d), e)
    BY <1>9, <1>10 DEF AddChildren, WithVersions, WithHashes
  <2>2. WithVersions(m, d) = Node(n.version, h, n.bitmap, d, c)
    BY <1>5, FieldSet
  <2> QED BY <2>1, <2>2, FieldSet
<1>12. /\ r.version = n.version /\ r.hash = h /\ r.bitmap = n.bitmap
       /\ r.child_version = d /\ r.child_hash = e
  BY <1>11, FieldsOf
<1>13. d \in [Nibble -> 0..v] /\ e = [i \in Nibble |-> e[i]]
  BY <1>9
<1>14. IsIndex(r, v) /\ SameRoot(n, r)
  BY <1>11, <1>12, <1>13 DEF IsIndex, SameRoot, Node
<1> QED BY <1>3, <1>8, <1>10, <1>14

LEMMA PageRead ==
  ASSUME NEW v \in Nat, NEW p \in Pid, NEW page, IsPage(p, page, v)
  PROVE  IsPage(p, ReadPage(page), v) /\ SamePage(p, page, ReadPage(page))
<1>1. CASE page = None
  BY <1>1 DEF ReadPage, IsPage, SamePage
<1>2. CASE page # None /\ p = Root
  <2>1. IsRootPage(page, v) /\ ~IsLeaf(page)
    BY <1>2, Kinds DEF IsPage
  <2>2. PICK new : new = ReadPage(page)
    OBVIOUS
  <2>3. PICK node, child :
          /\ node = AddChildren(ReadNode(page.node))
          /\ child = [i \in Nibble |-> IF page.child[i] = None THEN None
                                       ELSE ReadNode(page.child[i])]
    OBVIOUS
  <2>4. new = [node |-> node, child |-> child]
    BY <1>2, <2>1, <2>2, <2>3 DEF ReadPage
  <2>5. new.node = node /\ new.child = child
    BY <2>4
  <2>6. IsIndex(node, v) /\ SameRoot(page.node, node)
    BY <2>1, <2>3, IndexRead DEF IsRootPage
  <2>7. ASSUME NEW i \in Nibble
        PROVE  /\ child[i] = None \/ IsChild(i, child[i], v)
               /\ SameChild(i, page.child[i], child[i])
    <3>1. CASE page.child[i] = None
      BY <2>3, <3>1 DEF SameChild
    <3>2. CASE page.child[i] # None
      <4>1. child[i] = ReadNode(page.child[i]) /\ IsChild(i, page.child[i], v)
        BY <2>1, <2>3, <3>2 DEF IsRootPage
      <4>2. CASE <<i>> \in Key
        <5>1. IsLeafNode(child[i], v) /\ SameLeaf(page.child[i], child[i])
          BY <4>1, <4>2, LeafRead DEF IsChild
        <5> QED BY <3>2, <4>2, <5>1, Kinds DEF IsChild, SameChild
      <4>3. CASE <<i>> \notin Key
        <5>1. IsIndex(child[i], v) /\ SameIndex(page.child[i], child[i])
          BY <4>1, <4>3, IndexRead DEF IsChild
        <5> QED BY <3>2, <4>3, <5>1, Kinds DEF IsChild, SameChild
      <4> QED BY <4>2, <4>3
    <3> QED BY <3>1, <3>2
  <2>8. IsRootPage(new, v)
    <3>1. child = [i \in Nibble |-> child[i]]
      BY <2>3
    <3> QED BY <2>4, <2>5, <2>6, <2>7, <3>1 DEF IsRootPage
  <2>9. SameRootPage(page, new)
    BY <2>5, <2>6, <2>7 DEF SameRootPage
  <2> QED BY <1>2, <2>2, <2>8, <2>9, Kinds DEF IsPage, SamePage
<1>3. CASE page # None /\ p # Root
  <2>1. IsLeafNode(page, v) /\ IsLeaf(page)
    BY <1>3, Kinds DEF IsPage
  <2>2. ReadPage(page) = ReadNode(page)
    BY <1>3, <2>1 DEF ReadPage
  <2>3. IsLeafNode(ReadNode(page), v) /\ SameLeaf(page, ReadNode(page))
    BY <2>1, LeafRead
  <2> QED BY <1>3, <2>2, <2>3, Kinds DEF IsPage, SamePage
<1> QED BY <1>1, <1>2, <1>3

LEMMA ItemRead ==
  ASSUME NEW v \in Nat, NEW p \in Pid, NEW item, IsItem(p, item, v)
  PROVE  IsItem(p, ReadItem(item), v) /\ SameItem(item, ReadItem(item))
<1>1. ASSUME IsLeafItem(item, v)
      PROVE  /\ IsLeafItem(ReadItem(item), v) /\ SameItem(item, ReadItem(item))
             /\ ReadItem(item).at = item.at
  <2>1. IsLeaf(item)
    BY <1>1, Kinds
  <2>2. PICK h : h = Padded(item.hash)
    OBVIOUS
  <2>3. ReadItem(item) = [item EXCEPT !.hash = h]
    BY <2>1, <2>2 DEF ReadItem
  <2>4. ReadItem(item) = [at |-> item.at, version |-> item.version, hash |-> h,
                          location |-> item.location]
    BY <1>1, <2>3 DEF IsLeafItem
  <2>5. /\ ReadItem(item).at = item.at /\ ReadItem(item).version = item.version
        /\ ReadItem(item).hash = h /\ ReadItem(item).location = item.location
    BY <2>4
  <2> QED BY <1>1, <2>1, <2>4, <2>5 DEF IsLeafItem, SameItem
<1>2. ASSUME IsIndexItem(item, v)
      PROVE  /\ IsIndexItem(ReadItem(item), v) /\ SameItem(item, ReadItem(item))
             /\ ReadItem(item).at = item.at
  <2>1. ~IsLeaf(item)
    BY <1>2, Kinds
  <2>2. PICK h, c : h = Padded(item.hash) /\ c = Padded(item.child_hash)
    OBVIOUS
  <2>3. item = [at |-> item.at, version |-> item.version, hash |-> item.hash,
                index |-> item.index, child_hash |-> item.child_hash]
    BY <1>2 DEF IsIndexItem
  <2>4. [item EXCEPT !.hash = h] =
          [at |-> item.at, version |-> item.version, hash |-> h,
           index |-> item.index, child_hash |-> item.child_hash]
    BY <2>3
  <2>5. ReadItem(item) = [[item EXCEPT !.hash = h] EXCEPT !.child_hash = c]
    BY <2>1, <2>2, <2>4 DEF ReadItem
  <2>6. ReadItem(item) = [at |-> item.at, version |-> item.version, hash |-> h,
                          index |-> item.index, child_hash |-> c]
    BY <2>4, <2>5
  <2>7. /\ ReadItem(item).at = item.at /\ ReadItem(item).version = item.version
        /\ ReadItem(item).hash = h /\ ReadItem(item).index = item.index
        /\ ReadItem(item).child_hash = c
    BY <2>6
  <2> QED BY <1>2, <2>1, <2>6, <2>7 DEF IsIndexItem, SameItem
<1> QED BY <1>1, <1>2 DEF IsItem, IsRootItem

(* Rebuilding a page from what a file gives back: the same page up to what *)
(* a file loses.                                                           *)
ReadItems(list) == [n \in DOMAIN list |-> ReadItem(list[n])]

LEMMA ReplayedFromFile ==
  ASSUME NEW v \in Nat, NEW p \in Pid, NEW page, IsPage(p, page, v),
         NEW list, IsSeq(list), AreItems(p, list, v)
  PROVE  /\ IsSeq(ReadItems(list)) /\ AreItems(p, ReadItems(list), v)
         /\ IsPage(p, Replayed(ReadPage(page), ReadItems(list)), v)
         /\ SamePage(p, Replayed(page, list), Replayed(ReadPage(page), ReadItems(list)))
<1>1. PICK n \in Nat : n = Len(list) /\ DOMAIN list = 1..n
  BY DEF IsSeq
<1>2. PICK other : other = ReadItems(list)
  OBVIOUS
<1>3. /\ IsSeq(other) /\ Len(other) = n
      /\ \A i \in 1..n : other[i] = ReadItem(list[i])
  <2>1. other = [i \in 1..n |-> ReadItem(list[i])]
    BY <1>1, <1>2 DEF ReadItems
  <2>2. other \in Seq({ReadItem(list[i]) : i \in 1..n})
    BY <2>1
  <2>3. Len(other) = n
    BY <2>1
  <2> QED BY <2>1, <2>2, <2>3 DEF IsSeq
<1>4. \A i \in 1..n : /\ IsItem(p, list[i], v) /\ IsItem(p, other[i], v)
                      /\ SameItem(list[i], other[i])
  BY <1>1, <1>3, ItemRead DEF AreItems
<1>5. PICK f : IsReplay(f, page, list, n) /\ Replayed(page, list) = f[n]
  BY <1>1, ReplayIs
<1>6. PICK g : IsReplay(g, ReadPage(page), other, n) /\ Replayed(ReadPage(page), other) = g[n]
  BY <1>3, ReplayIs
<1> DEFINE Good(m) == /\ IsPage(p, f[m], v) /\ IsPage(p, g[m], v)
                      /\ SamePage(p, f[m], g[m])
           S == {m \in 0..n : ~Good(m)}
<1>7. S = {}
  <2> SUFFICES ASSUME S # {} PROVE FALSE
    OBVIOUS
  <2>1. PICK m \in S : \A k \in S : m <= k
    <3> HIDE DEF S
    <3>1. S \in SUBSET Nat
      BY DEF S
    <3> QED BY <3>1, Least
  <2>2. m \in 0..n /\ ~Good(m)
    BY <2>1
  <2>3. /\ f[m] = IF m = 0 THEN page ELSE UpdateDeltaItem(f[m - 1], list[m])
        /\ g[m] = IF m = 0 THEN ReadPage(page) ELSE UpdateDeltaItem(g[m - 1], other[m])
    BY <1>5, <1>6, <2>2 DEF IsReplay
  <2>4. CASE m = 0
    <3>1. f[m] = page /\ g[m] = ReadPage(page)
      BY <2>3, <2>4
    <3> QED BY <2>2, <3>1, PageRead
  <2>5. CASE m # 0
    <3>1. m - 1 \in 0..n /\ m - 1 < m /\ m \in 1..n
      BY <2>2, <2>5
    <3>2. Good(m - 1)
      BY <2>1, <3>1
    <3>3. PICK a, b, x, y : /\ a = f[m - 1] /\ b = g[m - 1] /\ x = list[m] /\ y = other[m]
      OBVIOUS
    <3>4. f[m] = UpdateDeltaItem(a, x) /\ g[m] = UpdateDeltaItem(b, y)
      BY <2>3, <2>5, <3>3
    <3>5. IsItem(p, x, v) /\ IsItem(p, y, v) /\ SameItem(x, y)
      BY <1>4, <3>1, <3>3
    <3>6. IsPage(p, a, v) /\ IsPage(p, b, v) /\ SamePage(p, a, b)
      BY <3>2, <3>3
    <3>7. Good(m)
      BY <3>4, <3>5, <3>6, ItemOnPage, SameItemOnPage
    <3> QED BY <2>2, <3>7
  <2> QED BY <2>4, <2>5
<1>8. Good(n)
  BY <1>7
<1>9. AreItems(p, other, v)
  BY <1>3, <1>4 DEF AreItems
<1> QED BY <1>2, <1>3, <1>5, <1>6, <1>8, <1>9

-----------------------------------------------------------------------------
(* An update of the root page, and its items.                              *)

LEMMA LeafMade ==
  ASSUME NEW v \in Nat, NEW value, NEW at
  PROVE  LET leaf == UpdateLeaf(v, value)
             item == LeafItem(at, leaf)
         IN /\ IsLeafNode(leaf, v) /\ leaf.version = v /\ leaf.location = v
            /\ leaf.hash = IF value = Empty THEN Empty ELSE HashFunction(value)
            /\ IsLeafItem(item, v) /\ item.at = at /\ ItemOnLeaf(item) = leaf
<1>1. PICK h : h = IF value = Empty THEN Empty ELSE HashFunction(value)
  OBVIOUS
<1>2. PICK leaf : leaf = UpdateLeaf(v, value)
  OBVIOUS
<1>3. leaf = [version |-> v, location |-> v, hash |-> h]
  BY <1>1, <1>2 DEF UpdateLeaf
<1>4. leaf.version = v /\ leaf.location = v /\ leaf.hash = h
  BY <1>3
<1>5. PICK item : item = LeafItem(at, leaf)
  OBVIOUS
<1>6. item = [at |-> at, version |-> v, hash |-> h, location |-> v]
  BY <1>4, <1>5 DEF LeafItem
<1>7. item.at = at /\ item.version = v /\ item.hash = h /\ item.location = v
  BY <1>6
<1>8. ItemOnLeaf(item) = leaf
  BY <1>3, <1>7 DEF ItemOnLeaf
<1>9. v \in 0..v
  OBVIOUS
<1> QED BY <1>1, <1>2, <1>3, <1>4, <1>5, <1>6, <1>7, <1>8, <1>9 DEF IsLeafNode, IsLeafItem

(* What an update of the root page makes of it. *)
IsUpdated(new, page, v, key, value, hash) ==
  /\ new.child[key[1]] =
       IF key \in Paged THEN UpdateIndex(BlankNode(page.child[key[1]]), v, key[2], hash)
       ELSE UpdateLeaf(v, value)
  /\ \A j \in Nibble \ {key[1]} : new.child[j] = page.child[j]
  /\ new.node = UpdateIndex(page.node, v, key[1], new.child[key[1]].hash)

LEMMA RootUpdated ==
  ASSUME NEW v \in Nat, NEW page, IsRootPage(page, v), NEW key \in Key, NEW value, NEW hash
  PROVE  LET update == UpdatePage(page, v, key, value, hash)
         IN /\ IsRootPage(update.page, v)
            /\ IsUpdated(update.page, page, v, key, value, hash)
            /\ \E a, b : /\ update.items = <<a, b>>
                         /\ IsRootItem(a, v) /\ IsRootItem(b, v)
                         /\ UpdateDeltaItem(UpdateDeltaItem(page, a), b) = update.page
<1>1. PICK i \in Nibble : i = key[1]
  BY Keys
<1>2. /\ key \in Paged => Len(key) # 1 /\ key[2] \in Nibble /\ <<i>> \notin Key
      /\ key \notin Paged => Len(key) = 1 /\ <<i>> \in Key
  BY <1>1, Keys
<1>3. PICK child : child = IF key \in Paged THEN UpdateIndex(BlankNode(page.child[i]), v, key[2], hash)
                           ELSE UpdateLeaf(v, value)
  OBVIOUS
<1>4. PICK node : node = UpdateIndex(page.node, v, i, child.hash)
  OBVIOUS
<1>5. PICK new : new = [node |-> node, child |-> WithChild(page, i, child)]
  OBVIOUS
<1>6. PICK a : a = IF key \in Paged THEN IndexItem(i + 1, child, key[2]) ELSE LeafItem(i + 1, child)
  OBVIOUS
<1>7. PICK b : b = IndexItem(0, node, i)
  OBVIOUS
<1>8. UpdatePage(page, v, key, value, hash) = [page |-> new, items |-> <<a, b>>]
  BY <1>1, <1>2, <1>3, <1>4, <1>5, <1>6, <1>7 DEF UpdatePage, BlankNode, WithChild
<1>9. IsIndex(page.node, v)
  BY DEF IsRootPage
<1>10. key \in Paged => IsIndex(BlankNode(page.child[i]), v)
  BY <1>2, NewNode DEF BlankNode, IsRootPage, IsChild
<1>11. IsIndex(node, v)
  BY <1>4, <1>9, IndexUpdated
<1>12. IsChild(i, child, v)
  <2>1. CASE key \in Paged
    <3>1. IsIndex(child, v)
      BY <1>2, <1>3, <1>10, <2>1, IndexUpdated
    <3> QED BY <1>2, <2>1, <3>1 DEF IsChild
  <2>2. CASE key \notin Paged
    <3>1. IsLeafNode(child, v)
      BY <1>3, <2>2, LeafMade
    <3> QED BY <1>2, <2>2, <3>1 DEF IsChild
  <2> QED BY <2>1, <2>2
<1>13. /\ IsRootPage(new, v) /\ new.node = node /\ new.child[i] = child
       /\ \A j \in Nibble \ {i} : new.child[j] = page.child[j]
  BY <1>5, <1>11, <1>12, PageMade
<1>14. IsUpdated(new, page, v, key, value, hash)
  BY <1>1, <1>3, <1>4, <1>13 DEF IsUpdated
<1>15. /\ a.at = i + 1
       /\ IF <<i>> \in Key THEN IsLeafItem(a, v) ELSE IsIndexItem(a, v)
       /\ child = IF <<i>> \in Key THEN ItemOnLeaf(a)
                  ELSE ItemOnIndex(BlankNode(page.child[i]), a)
  <2>1. CASE key \in Paged
    <3>1. PICK j \in Nibble : j = key[2]
      BY <1>2, <2>1
    <3>5. PICK o : o = BlankNode(page.child[i])
      OBVIOUS
    <3>2. child = UpdateIndex(o, v, j, hash) /\ a = IndexItem(i + 1, child, j) /\ IsIndex(o, v)
      BY <1>3, <1>6, <1>10, <2>1, <3>1, <3>5
    <3>3. IsIndexItem(a, v) /\ a.at = i + 1 /\ ItemOnIndex(o, a) = child
      BY <3>2, ItemOfUpdate
    <3> QED BY <1>2, <2>1, <3>5, <3>3
  <2>2. CASE key \notin Paged
    <3>1. child = UpdateLeaf(v, value) /\ a = LeafItem(i + 1, child)
      BY <1>3, <1>6, <2>2
    <3>2. IsLeafItem(a, v) /\ a.at = i + 1 /\ ItemOnLeaf(a) = child
      BY <3>1, LeafMade
    <3> QED BY <1>2, <2>2, <3>2
  <2> QED BY <2>1, <2>2
<1>16. PICK half : half = UpdateDeltaItem(page, a)
  OBVIOUS
<1>17. Blank(page) = page
  BY Kinds DEF Blank
<1>18. IsRootPage(half, v) /\ IsChildPut(half, page, i, a)
  BY <1>15, <1>16, <1>17, ItemOnAChild
<1>19. /\ half.child[i] = child
       /\ \A j \in Nibble \ {i} : half.child[j] = page.child[j]
       /\ half.node = WithBitmap(page.node, page.node.bitmap \cup {i})
  BY <1>15, <1>18 DEF IsChildPut
<1>20. IsIndexItem(b, v) /\ b.at = 0 /\ ItemOnIndex(half.node, b) = node
  <2>1. IsIndex(half.node, v)
    BY <1>18 DEF IsRootPage
  <2>2. half.node = Node(page.node.version, page.node.hash, page.node.bitmap \cup {i},
                         page.node.child_version, page.node.child_hash)
    <3>1. PICK c : c = page.node.bitmap \cup {i}
      OBVIOUS
    <3> QED BY <1>9, <1>19, <3>1, Fields, FieldSet
  <2>3. /\ half.node.bitmap = page.node.bitmap \cup {i}
        /\ half.node.child_version = page.node.child_version
        /\ half.node.child_hash = page.node.child_hash
    BY <2>2, FieldsOf
  <2>4. half.node.bitmap \cup {i} = page.node.bitmap \cup {i}
    BY <2>3
  <2> QED BY <1>4, <1>7, <1>9, <2>1, <2>3, <2>4, ItemOfUpdate
<1>21. PICK full : full = UpdateDeltaItem(half, b)
  OBVIOUS
<1>22. IsRootPage(full, v) /\ full.node = node /\ full.child = half.child
  <2>1. Blank(half) = half
    BY <1>18, Kinds DEF Blank
  <2> QED BY <1>18, <1>20, <1>21, <2>1, ItemOnRoot
<1>23. full = new
  <2>1. \A j \in Nibble : full.child[j] = new.child[j]
    BY <1>13, <1>19, <1>22
  <2> QED BY <1>13, <1>22, <2>1, PageEqual
<1>24. IsRootItem(a, v) /\ IsRootItem(b, v)
  BY <1>15, <1>20 DEF IsRootItem
<1>25. PICK update : update = UpdatePage(page, v, key, value, hash)
  OBVIOUS
<1>26. update.page = new /\ update.items = <<a, b>>
  BY <1>8, <1>25
<1> QED BY <1>13, <1>14, <1>16, <1>21, <1>23, <1>24, <1>25, <1>26

(* An item makes the same of a page that is not there and of a blank one. *)
LEMMA ItemOnBlank ==
  ASSUME NEW v, NEW page, NEW item, IsRootItem(item, v)
  PROVE  UpdateDeltaItem(Blank(page), item) = UpdateDeltaItem(page, item)
<1>1. IndexPage # None
  BY NewPage, Kinds
<1>2. ~(item.at = 0 /\ IsLeaf(item))
  <2>1. \A i \in Nibble : i + 1 # 0
    BY MerkleAssumption
  <2> QED BY <2>1, Kinds DEF IsRootItem
<1>3. Blank(Blank(page)) = Blank(page)
  BY <1>1 DEF Blank
<1> QED BY <1>2, <1>3 DEF UpdateDeltaItem, Blank

-----------------------------------------------------------------------------
(* What the actions do to a page.                                          *)

LEMMA ReadLater ==
  ASSUME NEW v \in Nat, NEW w \in Nat, v <= w, NEW p \in Pid, NEW page, NEW below,
         NEW list, NEW lost, PageOK(p, page, below, list, v, lost)
  PROVE  PageOK(p, page, below, list, w, lost)
<1>1. \A x : IsPage(p, x, v) => IsPage(p, x, w)
  BY Later DEF IsPage
<1>2. \A x : IsItem(p, x, v) => IsItem(p, x, w)
  BY Later DEF IsItem
<1> QED BY <1>1, <1>2 DEF PageOK, AreItems

(* One item more, of which the page is what it makes of the page. *)
LEMMA ItemAppended ==
  ASSUME NEW v \in Nat, NEW p \in Pid, NEW page, NEW below, NEW list, NEW lost,
         PageOK(p, page, below, list, v, lost), NEW item, IsItem(p, item, v)
  PROVE  PageOK(p, UpdateDeltaItem(page, item), below, Append(list, item), v, lost)
<1>1. PICK rebuilt : rebuilt = Replayed(below, list)
  OBVIOUS
<1>2. PICK longer : longer = Append(list, item)
  OBVIOUS
<1>3. IsSeq(longer) /\ Replayed(below, longer) = UpdateDeltaItem(rebuilt, item)
  BY <1>1, <1>2, ReplayOneMore DEF PageOK
<1>4. AreItems(p, longer, v)
  <2>1. PICK S : list \in Seq(S)
    BY DEF PageOK, IsSeq
  <2>2. Len(longer) = Len(list) + 1 /\ Len(list) \in Nat
    BY <1>2, <2>1
  <2>3. ASSUME NEW n \in 1..Len(longer) PROVE IsItem(p, longer[n], v)
    <3>1. CASE n = Len(list) + 1
      BY <1>2, <2>1, <3>1
    <3>2. CASE n # Len(list) + 1
      <4>1. n \in 1..Len(list)
        BY <2>2, <3>2
      <4>2. longer[n] = list[n]
        BY <1>2, <2>1, <4>1
      <4> QED BY <4>1, <4>2 DEF PageOK, AreItems
    <3> QED BY <3>1, <3>2
  <2> QED BY <2>3 DEF AreItems
<1>5. /\ IsPage(p, page, v) /\ IsPage(p, rebuilt, v) /\ SamePage(p, page, rebuilt)
      /\ lost \/ page = rebuilt
  BY <1>1 DEF PageOK
<1>6. /\ IsPage(p, UpdateDeltaItem(page, item), v)
      /\ IsPage(p, UpdateDeltaItem(rebuilt, item), v)
  BY <1>5, ItemOnPage
<1>7. SamePage(p, UpdateDeltaItem(page, item), UpdateDeltaItem(rebuilt, item))
  BY <1>5, SameItemOnPage DEF SameItem
<1> QED BY <1>2, <1>3, <1>4, <1>5, <1>6, <1>7 DEF PageOK

LEMMA LeafPageUpdated ==
  ASSUME NEW v \in Nat, NEW p \in Paged, NEW page, NEW below, NEW list, NEW lost,
         PageOK(p, page, below, list, v, lost), NEW value
  PROVE  PageOK(p, UpdateLeaf(v, value), below, Append(list, LeafItem(0, UpdateLeaf(v, value))),
                v, lost)
<1>1. PICK leaf, item : leaf = UpdateLeaf(v, value) /\ item = LeafItem(0, leaf)
  OBVIOUS
<1>2. IsLeafItem(item, v) /\ item.at = 0 /\ ItemOnLeaf(item) = leaf /\ IsLeaf(item)
  BY <1>1, LeafMade, Kinds
<1>3. UpdateDeltaItem(page, item) = leaf
  BY <1>2 DEF UpdateDeltaItem
<1>4. p \in Pid /\ IsItem(p, item, v)
  BY <1>2, Keys DEF IsItem
<1> QED BY <1>1, <1>3, <1>4, ItemAppended

LEMMA RootPageUpdated ==
  ASSUME NEW v \in Nat, NEW page, NEW below, NEW list, NEW lost,
         PageOK(Root, page, below, list, v, lost), NEW key \in Key, NEW value, NEW hash
  PROVE  LET update == UpdatePage(Blank(page), v, key, value, hash)
         IN PageOK(Root, update.page, below, list \o update.items, v, lost)
<1>1. PICK update : update = UpdatePage(Blank(page), v, key, value, hash)
  OBVIOUS
<1>2. IsRootPage(Blank(page), v)
  BY NewPage DEF PageOK, IsPage, Blank
<1>3. PICK a, b : /\ update.items = <<a, b>>
                  /\ IsRootItem(a, v) /\ IsRootItem(b, v)
                  /\ UpdateDeltaItem(UpdateDeltaItem(Blank(page), a), b) = update.page
  BY <1>1, <1>2, RootUpdated
<1>4. UpdateDeltaItem(UpdateDeltaItem(page, a), b) = update.page
  BY <1>3, ItemOnBlank
<1>5. IsItem(Root, a, v) /\ IsItem(Root, b, v) /\ Root \in Pid
  BY <1>3, Keys DEF IsItem
<1>6. PICK one, first : one = UpdateDeltaItem(page, a) /\ first = Append(list, a)
  OBVIOUS
<1>7. PageOK(Root, one, below, first, v, lost)
  BY <1>5, <1>6, ItemAppended
<1>8. PageOK(Root, UpdateDeltaItem(one, b), below, Append(first, b), v, lost)
  BY <1>5, <1>7, ItemAppended
<1>9. Append(first, b) = list \o update.items
  <2>1. PICK S : list \in Seq(S)
    BY DEF PageOK, IsSeq
  <2>2. list \in Seq(S \cup {a, b})
    BY <2>1
  <2>3. Append(Append(list, a), b) = list \o <<a, b>>
    BY <2>2
  <2> QED BY <1>3, <1>6, <2>3
<1> QED BY <1>1, <1>4, <1>6, <1>8, <1>9

LEMMA PageCheckpointed ==
  ASSUME NEW v \in Nat, NEW p \in Pid, NEW page, NEW below, NEW list, NEW lost,
         PageOK(p, page, below, list, v, lost)
  PROVE  PageOK(p, page, page, Empty, v, lost)
<1>1. Replayed(page, Empty) = page
  BY ReplayNothing
<1>2. IsSeq(Empty) /\ AreItems(p, Empty, v)
  <2>1. Empty \in Seq({})
    BY DEF Empty
  <2>2. 1..Len(Empty) = {}
    BY DEF Empty
  <2> QED BY <2>1, <2>2 DEF IsSeq, AreItems
<1>3. SamePage(p, page, page)
  BY DEF SamePage, SameRootPage, SameRoot, SameChild, SameLeaf, SameIndex
<1> QED BY <1>1, <1>2, <1>3 DEF PageOK

LEMMA PageFlushed ==
  ASSUME NEW v \in Nat, NEW p \in Pid, NEW page, NEW below, NEW list, NEW lost,
         PageOK(p, page, below, list, v, lost)
  PROVE  PageOK(p, page, ReadPage(below), ReadItems(list), v, TRUE)
<1>1. /\ IsSeq(ReadItems(list)) /\ AreItems(p, ReadItems(list), v)
      /\ IsPage(p, Replayed(ReadPage(below), ReadItems(list)), v)
      /\ SamePage(p, Replayed(below, list), Replayed(ReadPage(below), ReadItems(list)))
  BY ReplayedFromFile DEF PageOK
<1>2. IsPage(p, ReadPage(below), v)
  BY PageRead DEF PageOK
<1>3. ASSUME NEW x, NEW y, NEW z, SamePage(p, x, y), SamePage(p, y, z)
      PROVE  SamePage(p, x, z)
  BY <1>3 DEF SamePage, SameRootPage, SameRoot, SameChild, SameLeaf, SameIndex
<1> QED BY <1>1, <1>2, <1>3 DEF PageOK

LEMMA PageReloaded ==
  ASSUME NEW v \in Nat, NEW p \in Pid, NEW page, NEW below, NEW list, NEW lost,
         PageOK(p, page, below, list, v, lost)
  PROVE  PageOK(p, Replayed(below, list), below, list, v, lost)
<1>1. \A x : SamePage(p, x, x)
  BY DEF SamePage, SameRootPage, SameRoot, SameChild, SameLeaf, SameIndex
<1> QED BY <1>1 DEF PageOK

-----------------------------------------------------------------------------
(* What the actions do to the tree.                                        *)

(* Pages that differ in nothing but what a file loses are as good. *)
LEMMA TreeReloaded ==
  ASSUME NEW m, NEW n, \A p \in Pid : SamePage(p, m[p], n[p]),
         NEW vals, NEW v, \A k \in Key : KeyOK(k, m, vals, v), TreeOK(m)
  PROVE  (\A k \in Key : KeyOK(k, n, vals, v)) /\ TreeOK(n)
<1>1. SamePage(Root, m[Root], n[Root]) /\ \A k \in Paged : SamePage(k, m[k], n[k])
  BY Keys
<1>2. /\ m[Root] = None <=> n[Root] = None
      /\ m[Root] # None => SameRootPage(m[Root], n[Root])
  BY <1>1 DEF SamePage
<1>3. \A k \in Paged : /\ m[k] = None <=> n[k] = None
                       /\ m[k] # None => SameLeaf(m[k], n[k])
  BY <1>1, Keys DEF SamePage
<1>4. m[Root] # None => \A i \in Nibble : SameChild(i, m[Root].child[i], n[Root].child[i])
  BY <1>2 DEF SameRootPage
<1>5. ASSUME NEW k \in Key PROVE KeyOK(k, n, vals, v)
  <2>1. KeyOK(k, m, vals, v) /\ k[1] \in Nibble
    BY Keys
  <2>2. k \notin Paged => <<k[1]>> \in Key
    BY Keys
  <2>3. m[Root] # None => /\ m[Root].child[k[1]] = None <=> n[Root].child[k[1]] = None
                          /\ k \notin Paged /\ m[Root].child[k[1]] # None =>
                               SameLeaf(m[Root].child[k[1]], n[Root].child[k[1]])
    BY <1>4, <2>1, <2>2 DEF SameChild
  <2> QED BY <1>2, <1>3, <2>1, <2>3 DEF KeyOK, HasLeaf, SameLeaf
<1>6. TreeOK(n)
  <2> SUFFICES ASSUME n[Root] # None
               PROVE  /\ n[Root].node.bitmap = Present(n[Root])
                      /\ \A i \in Present(n[Root]) : <<i>> \notin Key => ChildOK(i, n[Root].child[i], n)
    BY DEF TreeOK
  <2>1. m[Root] # None /\ SameRoot(m[Root].node, n[Root].node)
    BY <1>2 DEF SameRootPage
  <2>2. Present(m[Root]) = Present(n[Root])
    BY <1>4, <2>1 DEF Present, SameChild
  <2>3. n[Root].node.bitmap = Present(n[Root])
    BY <2>1, <2>2 DEF TreeOK, SameRoot
  <2>4. ASSUME NEW i \in Present(n[Root]), <<i>> \notin Key
        PROVE  ChildOK(i, n[Root].child[i], n)
    <3>1. i \in Nibble /\ i \in Present(m[Root]) /\ m[Root].child[i] # None
      BY <2>2, <2>4 DEF Present
    <3>2. ChildOK(i, m[Root].child[i], m)
      BY <2>1, <2>4, <3>1 DEF TreeOK
    <3>3. SameIndex(m[Root].child[i], n[Root].child[i])
      BY <1>4, <2>1, <2>4, <3>1 DEF SameChild
    <3>4. Below(i, m) = Below(i, n)
      BY <1>3 DEF Below
    <3>5. \A j \in Below(i, m) : m[<<i, j>>].version = n[<<i, j>>].version
      BY <1>3 DEF Below, SameLeaf
    <3> QED BY <3>2, <3>3, <3>4, <3>5 DEF ChildOK, SameIndex, SameRoot
  <2> QED BY <2>3, <2>4
<1> QED BY <1>5, <1>6

(* The same of the root page, or of a blank one. *)
ChildHashes(i, child, m) ==
  \A j \in Nibble : child.child_hash[j] =
    IF <<i, j>> \in Paged THEN HashOf(m[<<i, j>>]) ELSE Empty
BlankOK(m) ==
  LET page == Blank(m[Root])
  IN /\ page.node.bitmap = Present(page)
     /\ \A i \in Nibble : <<i>> \notin Key => ChildOK(i, BlankNode(page.child[i]), m)
BlankHashed(m) ==
  LET page == Blank(m[Root])
  IN /\ \A i \in Nibble : page.node.child_hash[i] = HashOf(page.child[i])
     /\ \A i \in Nibble : <<i>> \notin Key => ChildHashes(i, BlankNode(page.child[i]), m)

LEMMA BlankIsOK ==
  ASSUME NEW m, NEW vals, NEW v, \A k \in Key : KeyOK(k, m, vals, v), TreeOK(m)
  PROVE  BlankOK(m) /\ (HashesOK(m, vals) => BlankHashed(m))
<1>1. PICK page : page = Blank(m[Root])
  OBVIOUS
<1>2. /\ m[Root] # None => page = m[Root]
      /\ m[Root] = None => /\ page.node = IndexNode
                           /\ \A i \in Nibble : page.child[i] = None
  BY <1>1, NewPage DEF Blank
<1>3. IndexNode = Node(0, Empty, {}, [i \in Nibble |-> 0], [i \in Nibble |-> Empty])
  BY DEF IndexNode, Node
<1>4. IndexNode.bitmap = {} /\ IndexNode.child_hash = [i \in Nibble |-> Empty]
  BY DEF IndexNode
<1>5. page.node.bitmap = Present(page)
  BY <1>2, <1>4 DEF TreeOK, Present
<1>6. ASSUME NEW i \in Nibble, <<i>> \notin Key, page.child[i] = None
      PROVE  \A j \in Nibble : <<i, j>> \in Paged => m[<<i, j>>] = None
  <2> SUFFICES ASSUME NEW j \in Nibble, <<i, j>> \in Paged, m[<<i, j>>] # None
               PROVE  FALSE
    OBVIOUS
  <2>1. <<i, j>> \in Key /\ <<i, j>>[1] = i
    BY Keys
  <2>2. KeyOK(<<i, j>>, m, vals, v)
    BY <2>1
  <2>3. m[Root] # None /\ m[Root].child[i] # None
    BY <2>1, <2>2 DEF KeyOK
  <2> QED BY <1>2, <1>6, <2>3
<1>7. ASSUME NEW i \in Nibble, <<i>> \notin Key
      PROVE  ChildOK(i, BlankNode(page.child[i]), m)
  <2>1. CASE page.child[i] = None
    <3>1. Below(i, m) = {}
      BY <1>6, <1>7, <2>1 DEF Below
    <3> QED BY <1>4, <2>1, <3>1 DEF ChildOK, BlankNode
  <2>2. CASE page.child[i] # None
    BY <1>2, <1>7, <2>2 DEF BlankNode, TreeOK, Present
  <2> QED BY <2>1, <2>2
<1>8. ASSUME HashesOK(m, vals)
      PROVE  /\ \A i \in Nibble : page.node.child_hash[i] = HashOf(page.child[i])
             /\ \A i \in Nibble : <<i>> \notin Key => ChildHashes(i, BlankNode(page.child[i]), m)
  <2>1. RootHashed(m)
    BY <1>8 DEF HashesOK
  <2>2. ASSUME NEW i \in Nibble PROVE page.node.child_hash[i] = HashOf(page.child[i])
    BY <1>2, <1>4, <2>1 DEF RootHashed, HashOf
  <2>3. ASSUME NEW i \in Nibble, <<i>> \notin Key
        PROVE  ChildHashes(i, BlankNode(page.child[i]), m)
    <3>1. CASE page.child[i] = None
      BY <1>4, <1>6, <2>3, <3>1 DEF ChildHashes, BlankNode, HashOf
    <3>2. CASE page.child[i] # None
      BY <1>2, <2>1, <2>3, <3>2 DEF BlankNode, RootHashed, Present, ChildHashed, ChildHashes
    <3> QED BY <3>1, <3>2
  <2> QED BY <2>2, <2>3
<1> QED BY <1>1, <1>5, <1>7, <1>8 DEF BlankOK, BlankHashed

(* The pages, and the history, after the update of a key. *)
AfterUpdate(n, m, key, leaf, new) ==
  n = [p \in Pid |-> IF p = Root THEN new ELSE IF p = key THEN leaf ELSE m[p]]

LEMMA PagesAfter ==
  ASSUME NEW m, NEW n, NEW key \in Key, NEW leaf, NEW new, AfterUpdate(n, m, key, leaf, new)
  PROVE  /\ n[Root] = new /\ (key \in Paged => n[key] = leaf)
         /\ \A k \in Paged : k # key => n[k] = m[k]
<1>1. \A p \in Pid : n[p] = IF p = Root THEN new ELSE IF p = key THEN leaf ELSE m[p]
  BY DEF AfterUpdate
<1> QED BY <1>1, Keys

LEMMA KeysUpdated ==
  ASSUME NEW v \in Nat, v # 0, NEW m, NEW vals, vals = [k \in Key |-> vals[k]],
         \A k \in Key : KeyOK(k, m, vals, v), IsPage(Root, m[Root], v),
         NEW key \in Key, NEW value \in Strings, NEW new, NEW hash,
         IsRootPage(new, v), IsUpdated(new, Blank(m[Root]), v, key, value, hash),
         NEW n, AfterUpdate(n, m, key, UpdateLeaf(v, value), new),
         NEW now, now = [vals EXCEPT ![key] = [value |-> value, version |-> v]]
  PROVE  /\ \A k \in Key : KeyOK(k, n, now, v)
         /\ \A k \in Key : now[k] = IF k = key THEN [value |-> value, version |-> v] ELSE vals[k]
<1>1. \A k \in Key : now[k] = IF k = key THEN [value |-> value, version |-> v] ELSE vals[k]
  OBVIOUS
<1>2. PICK leaf : leaf = UpdateLeaf(v, value)
  OBVIOUS
<1>3. leaf.version = v /\ leaf.location = v /\ leaf # None
  BY <1>2, LeafMade, Kinds
<1>4. n[Root] = new /\ (key \in Paged => n[key] = leaf) /\ \A k \in Paged : k # key => n[k] = m[k]
  BY <1>2, PagesAfter
<1>5. new # None
  BY Kinds
<1>6. PICK i \in Nibble : i = key[1]
  BY Keys
<1>7. PICK old : old = Blank(m[Root])
  OBVIOUS
<1>8. /\ key \notin Paged => new.child[i] = leaf
      /\ \A j \in Nibble \ {i} : new.child[j] = old.child[j]
  BY <1>2, <1>6, <1>7 DEF IsUpdated
<1>9. new.child[i] # None
  <2>1. CASE key \in Paged
    <3>1. <<i>> \notin Key /\ key[2] \in Nibble
      BY <1>6, <2>1, Keys
    <3>2. IsRootPage(old, v)
      BY <1>7, NewPage DEF IsPage, Blank
    <3>3. IsIndex(BlankNode(old.child[i]), v)
      BY <3>1, <3>2, NewNode DEF BlankNode, IsRootPage, IsChild
    <3>4. IsIndex(UpdateIndex(BlankNode(old.child[i]), v, key[2], hash), v)
      BY <3>1, <3>3, IndexUpdated
    <3> QED BY <1>6, <1>7, <2>1, <3>4, Kinds DEF IsUpdated
  <2>2. CASE key \notin Paged
    BY <1>3, <1>8, <2>2
  <2> QED BY <2>1, <2>2
<1>10. ASSUME NEW k \in Key PROVE KeyOK(k, n, now, v)
  <2>1. CASE k = key
    <3>1. now[k] = [value |-> value, version |-> v]
      BY <1>1, <2>1
    <3>2. now[k].value = value /\ now[k].version = v
      BY <3>1
    <3>3. v \in 0..v
      OBVIOUS
    <3> QED BY <1>3, <1>4, <1>5, <1>6, <1>8, <1>9, <2>1, <3>1, <3>2, <3>3 DEF KeyOK, HasLeaf
  <2>2. CASE k # key
    <3>1. now[k] = vals[k] /\ KeyOK(k, m, vals, v) /\ k[1] \in Nibble
      BY <1>1, <2>2, Keys
    <3>2. k \in Paged => n[k] = m[k]
      BY <1>4, <2>2
    <3>3. m[Root] # None /\ m[Root].child[k[1]] # None => new.child[k[1]] # None
      <4>1. CASE k[1] = i
        BY <1>9, <4>1
      <4>2. CASE k[1] # i
        BY <1>7, <1>8, <3>1, <4>2 DEF Blank
      <4> QED BY <4>1, <4>2
    <3>4. k \notin Paged /\ new.child[k[1]] # None =>
            /\ m[Root] # None /\ m[Root].child[k[1]] # None
            /\ new.child[k[1]] = m[Root].child[k[1]]
      <4> SUFFICES ASSUME k \notin Paged, new.child[k[1]] # None
                   PROVE  /\ m[Root] # None /\ m[Root].child[k[1]] # None
                          /\ new.child[k[1]] = m[Root].child[k[1]]
        OBVIOUS
      <4>1. k[1] # i
        BY <1>6, <2>2, Keys
      <4>2. new.child[k[1]] = old.child[k[1]]
        BY <1>8, <3>1, <4>1
      <4> QED BY <1>7, <3>1, <4>2, NewPage DEF Blank
    <3> QED BY <1>4, <1>5, <3>1, <3>2, <3>3, <3>4 DEF KeyOK
  <2> QED BY <2>1, <2>2
<1> QED BY <1>1, <1>10

LEMMA TreeUpdated ==
  ASSUME NEW v \in Nat, NEW m, BlankOK(m), IsPage(Root, m[Root], v),
         NEW key \in Key, NEW value, NEW new, NEW hash,
         IsRootPage(new, v), IsUpdated(new, Blank(m[Root]), v, key, value, hash),
         NEW n, AfterUpdate(n, m, key, UpdateLeaf(v, value), new)
  PROVE  TreeOK(n)
<1>1. PICK leaf, old : leaf = UpdateLeaf(v, value) /\ old = Blank(m[Root])
  OBVIOUS
<1>2. leaf.version = v /\ leaf # None
  BY <1>1, LeafMade, Kinds
<1>3. n[Root] = new /\ (key \in Paged => n[key] = leaf) /\ \A k \in Paged : k # key => n[k] = m[k]
  BY <1>1, PagesAfter
<1>4. PICK i \in Nibble : i = key[1]
  BY Keys
<1>5. IsRootPage(old, v)
  BY <1>1, NewPage DEF IsPage, Blank
<1>6. PICK child : child = new.child[i]
  OBVIOUS
<1>7. /\ child = IF key \in Paged THEN UpdateIndex(BlankNode(old.child[i]), v, key[2], hash)
                 ELSE leaf
      /\ \A j \in Nibble \ {i} : new.child[j] = old.child[j]
      /\ new.node = UpdateIndex(old.node, v, i, child.hash)
  BY <1>1, <1>4, <1>6 DEF IsUpdated
<1>8. key \in Paged => /\ <<i>> \notin Key /\ key[2] \in Nibble /\ key = <<i, key[2]>>
                       /\ IsIndex(BlankNode(old.child[i]), v)
  BY <1>4, <1>5, Keys, NewNode DEF BlankNode, IsRootPage, IsChild
<1>9. child # None
  <2>1. CASE key \in Paged
    <3>1. IsIndex(child, v)
      BY <1>7, <1>8, <2>1, IndexUpdated
    <3> QED BY <3>1, Kinds
  <2> QED BY <1>2, <1>7, <2>1
<1>10. new.node.bitmap = Present(new)
  <2>1. new.node.bitmap = old.node.bitmap \cup {i}
    <3>1. IsIndex(old.node, v)
      BY <1>5 DEF IsRootPage
    <3>2. IsChanged(new.node, old.node, v, i, child.hash)
      BY <1>7, <3>1, IndexUpdated
    <3> QED BY <3>2 DEF IsChanged
  <2>2. old.node.bitmap = Present(old)
    BY <1>1 DEF BlankOK
  <2>3. Present(new) = Present(old) \cup {i}
    BY <1>6, <1>7, <1>9 DEF Present
  <2> QED BY <2>1, <2>2, <2>3
<1>11. ASSUME NEW j \in Present(new), <<j>> \notin Key
       PROVE  ChildOK(j, new.child[j], n)
  <2>1. j \in Nibble /\ new.child[j] # None
    BY DEF Present
  <2>2. ChildOK(j, BlankNode(old.child[j]), m)
    BY <1>1, <1>11, <2>1 DEF BlankOK
  <2>3. CASE j = i
    <3>1. key \in Paged
      BY <1>4, <1>11, <2>3, Keys
    <3>2. PICK l \in Nibble : l = key[2]
      BY <1>8, <3>1
    <3>3. PICK blank : blank = BlankNode(old.child[i])
      OBVIOUS
    <3>4. /\ child.bitmap = blank.bitmap \cup {l}
          /\ child.child_version = [blank.child_version EXCEPT ![l] = v]
      <4>1. IsChanged(child, blank, v, l, hash)
        BY <1>7, <1>8, <3>1, <3>2, <3>3, IndexUpdated
      <4> QED BY <4>1 DEF IsChanged
    <3>5. key = <<i, l>> /\ n[<<i, l>>] = leaf /\ <<i, l>> \in Paged
      BY <1>3, <1>8, <3>1, <3>2
    <3>6. \A k \in Nibble \ {l} : <<i, k>> \in Paged => n[<<i, k>>] = m[<<i, k>>]
      BY <1>3, <3>5
    <3>7. Below(i, n) = Below(i, m) \cup {l}
      BY <1>2, <3>5, <3>6 DEF Below
    <3>8. ASSUME NEW k \in Below(i, n) PROVE child.child_version[k] = n[<<i, k>>].version
      <4>1. blank.child_version \in [Nibble -> 0..v] /\ k \in Nibble
        BY <1>8, <3>1, <3>3, <3>8 DEF IsIndex, Below
      <4>2. CASE k = l
        BY <1>2, <3>4, <3>5, <4>1, <4>2
      <4>3. CASE k # l
        <5>1. k \in Below(i, m) /\ n[<<i, k>>] = m[<<i, k>>]
          BY <3>6, <3>7, <3>8, <4>3 DEF Below
        <5>2. child.child_version[k] = blank.child_version[k]
          BY <3>4, <4>1, <4>3
        <5> QED BY <2>2, <2>3, <3>3, <5>1, <5>2 DEF ChildOK
      <4> QED BY <4>2, <4>3
    <3>9. child.bitmap = Below(i, n)
      BY <2>2, <2>3, <3>3, <3>4, <3>7 DEF ChildOK
    <3> QED BY <1>6, <2>3, <3>8, <3>9 DEF ChildOK
  <2>4. CASE j # i
    <3>1. new.child[j] = old.child[j] /\ BlankNode(old.child[j]) = new.child[j]
      BY <1>7, <2>1, <2>4 DEF BlankNode
    <3>2. \A k \in Nibble : <<j, k>> \in Paged => n[<<j, k>>] = m[<<j, k>>]
      <4> SUFFICES ASSUME NEW k \in Nibble, <<j, k>> \in Paged PROVE n[<<j, k>>] = m[<<j, k>>]
        OBVIOUS
      <4>1. <<j, k>>[1] = j
        OBVIOUS
      <4>2. <<j, k>> # key
        BY <1>4, <2>4, <4>1
      <4> QED BY <1>3, <4>2
    <3>3. Below(j, n) = Below(j, m)
      BY <3>2 DEF Below
    <3>4. \A k \in Below(j, n) : n[<<j, k>>] = m[<<j, k>>]
      BY <3>2 DEF Below
    <3> QED BY <2>2, <3>1, <3>3, <3>4 DEF ChildOK
  <2> QED BY <2>3, <2>4
<1> QED BY <1>3, <1>10, <1>11 DEF TreeOK

LEMMA HashesUpdated ==
  ASSUME NEW v \in Nat, NEW m, NEW vals, HashesOK(m, vals), BlankHashed(m),
         IsPage(Root, m[Root], v), NEW key \in Key, NEW value, NEW new,
         IsRootPage(new, v),
         IsUpdated(new, Blank(m[Root]), v, key, value,
                   IF key \in Paged THEN UpdateLeaf(v, value).hash ELSE Empty),
         NEW n, AfterUpdate(n, m, key, UpdateLeaf(v, value), new),
         NEW now, \A k \in Key : now[k] = IF k = key THEN [value |-> value, version |-> v]
                                         ELSE vals[k]
  PROVE  HashesOK(n, now)
<1>1. PICK leaf, old : leaf = UpdateLeaf(v, value) /\ old = Blank(m[Root])
  OBVIOUS
<1>2. leaf.hash = ValueHash(value) /\ leaf # None
  BY <1>1, LeafMade, Kinds DEF ValueHash
<1>3. n[Root] = new /\ (key \in Paged => n[key] = leaf) /\ \A k \in Paged : k # key => n[k] = m[k]
  BY <1>1, PagesAfter
<1>4. PICK i \in Nibble : i = key[1]
  BY Keys
<1>5. IsRootPage(old, v)
  BY <1>1, NewPage DEF IsPage, Blank
<1>6. PICK child : child = new.child[i]
  OBVIOUS
<1>7. /\ key \in Paged => child = UpdateIndex(BlankNode(old.child[i]), v, key[2], leaf.hash)
      /\ key \notin Paged => child = leaf
      /\ \A j \in Nibble \ {i} : new.child[j] = old.child[j]
      /\ new.node = UpdateIndex(old.node, v, i, child.hash)
  BY <1>1, <1>4, <1>6 DEF IsUpdated
<1>8. key \in Paged => /\ <<i>> \notin Key /\ key[2] \in Nibble /\ key = <<i, key[2]>>
                       /\ IsIndex(BlankNode(old.child[i]), v)
  BY <1>4, <1>5, Keys, NewNode DEF BlankNode, IsRootPage, IsChild
<1>9. child # None
  <2>1. CASE key \in Paged
    <3>1. IsIndex(child, v)
      BY <1>7, <1>8, <2>1, IndexUpdated
    <3> QED BY <3>1, Kinds
  <2> QED BY <1>2, <1>7, <2>1
<1>10. ASSUME NEW k \in Key PROVE LeafHashed(k, n, now)
  <2>1. CASE k = key
    <3>1. now[k].value = value
      BY <2>1
    <3> QED BY <1>2, <1>3, <1>4, <1>6, <1>7, <2>1, <3>1 DEF LeafHashed
  <2>2. CASE k # key
    <3>1. now[k] = vals[k] /\ LeafHashed(k, m, vals) /\ k[1] \in Nibble
      BY <2>2, Keys DEF HashesOK
    <3>2. k \in Paged => n[k] = m[k]
      BY <1>3, <2>2
    <3>3. k \notin Paged /\ new.child[k[1]] # None =>
            /\ m[Root] # None /\ m[Root].child[k[1]] # None
            /\ new.child[k[1]] = m[Root].child[k[1]]
      <4> SUFFICES ASSUME k \notin Paged, new.child[k[1]] # None
                   PROVE  /\ m[Root] # None /\ m[Root].child[k[1]] # None
                          /\ new.child[k[1]] = m[Root].child[k[1]]
        OBVIOUS
      <4>1. k[1] # i
        <5>1. k = <<k[1]>> /\ <<k[1]>> \in Key
          BY Keys
        <5>2. k[1] = key[1] => key = <<k[1]>>
          BY <5>1, Keys
        <5> QED BY <1>4, <2>2, <5>1, <5>2
      <4>2. new.child[k[1]] = old.child[k[1]]
        BY <1>7, <3>1, <4>1
      <4> QED BY <1>1, <3>1, <4>2, NewPage DEF Blank
    <3> QED BY <1>3, <3>1, <3>2, <3>3 DEF LeafHashed
  <2> QED BY <2>1, <2>2
<1>11. NodeHashed(new.node) /\ \A j \in Nibble : new.node.child_hash[j] = HashOf(new.child[j])
  <2>1. IsIndex(old.node, v)
    BY <1>5 DEF IsRootPage
  <2>2. IsChanged(new.node, old.node, v, i, child.hash)
    BY <1>7, <2>1, IndexUpdated
  <2>3. old.node.child_hash = [j \in Nibble |-> old.node.child_hash[j]]
    BY <2>1 DEF IsIndex
  <2>4. \A j \in Nibble : new.node.child_hash[j] =
          IF j = i THEN child.hash ELSE old.node.child_hash[j]
    BY <2>2, <2>3 DEF IsChanged
  <2>5. \A j \in Nibble : old.node.child_hash[j] = HashOf(old.child[j])
    BY <1>1 DEF BlankHashed
  <2> QED BY <1>6, <1>7, <1>9, <2>2, <2>4, <2>5 DEF IsChanged, HashOf
<1>12. ASSUME NEW j \in Present(new), <<j>> \notin Key
       PROVE  ChildHashed(j, new.child[j], n)
  <2>1. j \in Nibble /\ new.child[j] # None
    BY DEF Present
  <2>2. ChildHashes(j, BlankNode(old.child[j]), m)
    BY <1>1, <1>12, <2>1 DEF BlankHashed
  <2>3. CASE j = i
    <3>1. key \in Paged
      BY <1>4, <1>12, <2>3, Keys
    <3>2. PICK l \in Nibble : l = key[2]
      BY <1>8, <3>1
    <3>3. PICK blank : blank = BlankNode(old.child[i])
      OBVIOUS
    <3>4. IsChanged(child, blank, v, l, leaf.hash)
      BY <1>7, <1>8, <3>1, <3>2, <3>3, IndexUpdated
    <3>5. blank.child_hash = [k \in Nibble |-> blank.child_hash[k]]
      BY <1>8, <3>1, <3>3 DEF IsIndex
    <3>6. \A k \in Nibble : child.child_hash[k] = IF k = l THEN leaf.hash ELSE blank.child_hash[k]
      BY <3>4, <3>5 DEF IsChanged
    <3>7. key = <<i, l>> /\ n[<<i, l>>] = leaf /\ <<i, l>> \in Paged
      BY <1>3, <1>8, <3>1, <3>2
    <3>8. \A k \in Nibble \ {l} : <<i, k>> \in Paged => n[<<i, k>>] = m[<<i, k>>]
      BY <1>3, <3>7
    <3>9. \A k \in Nibble : child.child_hash[k] =
            IF <<i, k>> \in Paged THEN HashOf(n[<<i, k>>]) ELSE Empty
      BY <1>2, <2>2, <2>3, <3>3, <3>6, <3>7, <3>8 DEF ChildHashes, HashOf
    <3> QED BY <1>6, <2>3, <3>4, <3>9 DEF ChildHashed, IsChanged
  <2>4. CASE j # i
    <3>1. new.child[j] = old.child[j] /\ BlankNode(old.child[j]) = new.child[j]
      BY <1>7, <2>1, <2>4 DEF BlankNode
    <3>2. \A k \in Nibble : <<j, k>> \in Paged => n[<<j, k>>] = m[<<j, k>>]
      <4> SUFFICES ASSUME NEW k \in Nibble, <<j, k>> \in Paged PROVE n[<<j, k>>] = m[<<j, k>>]
        OBVIOUS
      <4>1. <<j, k>>[1] = j
        OBVIOUS
      <4>2. <<j, k>> # key
        BY <1>4, <2>4, <4>1
      <4> QED BY <1>3, <4>2
    <3>3. m[Root] # None /\ new.child[j] = m[Root].child[j] /\ j \in Present(m[Root])
      BY <1>1, <2>1, <3>1, NewPage DEF Blank, Present
    <3>4. NodeHashed(new.child[j])
      BY <1>12, <3>3 DEF HashesOK, RootHashed, ChildHashed
    <3>5. \A k \in Nibble : new.child[j].child_hash[k] =
            IF <<j, k>> \in Paged THEN HashOf(n[<<j, k>>]) ELSE Empty
      BY <2>2, <3>1, <3>2 DEF ChildHashes
    <3> QED BY <3>4, <3>5 DEF ChildHashed
  <2> QED BY <2>3, <2>4
<1>13. RootHashed(n)
  BY <1>3, <1>11, <1>12 DEF RootHashed
<1> QED BY <1>10, <1>13 DEF HashesOK

-----------------------------------------------------------------------------
(* The invariant is inductive.                                             *)

LEMMA InitInv == MerkleInit => MerkleInv
<1> SUFFICES ASSUME MerkleInit PROVE MerkleInv
  OBVIOUS
<1>1. /\ version = 0 /\ pending = {} /\ filed = FALSE
      /\ mem = [p \in Pid |-> None] /\ base = [p \in Pid |-> None]
      /\ items = [p \in Pid |-> Empty]
      /\ values = [k \in Key |-> [value |-> Empty, version |-> 0]]
  BY DEF MerkleInit
<1>2. /\ \A p \in Pid : mem[p] = None /\ base[p] = None /\ items[p] = Empty
      /\ \A k \in Key : values[k] = [value |-> Empty, version |-> 0]
  BY <1>1
<1>3. version \in Versions /\ filed \in BOOLEAN /\ pending \in SUBSET Key /\ (pending # {} => version > 0)
  <2>1. 0 \in 0..MaxVersion
    BY MerkleAssumption
  <2> QED BY <1>1, <2>1 DEF Versions
<1>4. /\ mem = [p \in Pid |-> mem[p]] /\ base = [p \in Pid |-> base[p]]
      /\ items = [p \in Pid |-> items[p]] /\ values = [k \in Key |-> values[k]]
  BY <1>1, <1>2
<1>5. ASSUME NEW p \in Pid PROVE PageOK(p, mem[p], base[p], items[p], version, filed)
  <2>1. Replayed(None, Empty) = None
    BY ReplayNothing
  <2>2. IsSeq(Empty) /\ AreItems(p, Empty, 0)
    <3>1. Empty \in Seq({}) /\ 1..Len(Empty) = {}
      BY DEF Empty
    <3> QED BY <3>1 DEF IsSeq, AreItems
  <2>3. PageOK(p, None, None, Empty, 0, FALSE)
    BY <2>1, <2>2 DEF PageOK, IsPage, SamePage
  <2> QED BY <1>1, <1>2, <2>3
<1>6. ASSUME NEW k \in Key PROVE KeyOK(k, mem, values, version)
  <2>1. values[k].value = Empty /\ values[k].version = 0
    BY <1>2
  <2>2. mem[Root] = None /\ (k \in Paged => mem[k] = None)
    BY <1>2, Keys
  <2> QED BY <1>1, <1>2, <2>1, <2>2 DEF KeyOK, Strings
<1>7. mem[Root] = None
  BY <1>2, Keys
<1>8. TreeOK(mem)
  BY <1>7 DEF TreeOK
<1>9. HashesOK(mem, values)
  BY <1>2, <1>7, Keys DEF HashesOK, LeafHashed, RootHashed
<1> QED BY <1>3, <1>4, <1>5, <1>6, <1>8, <1>9 DEF MerkleInv

LEMMA CommitInv ==
  ASSUME MerkleInv, NEW keys \in SUBSET Key, Commit(keys)
  PROVE  MerkleInv'
<1>1. /\ version' = version + 1 /\ pending' = keys /\ version < MaxVersion
      /\ mem' = mem /\ base' = base /\ items' = items /\ values' = values /\ filed' = filed
  BY DEF Commit
<1>2. PICK v \in Nat, w \in Nat : v = version /\ w = version' /\ v <= w /\ w > 0
  BY <1>1, MerkleAssumption DEF MerkleInv, Versions
<1>3. version' \in Versions
  BY <1>1, <1>2, MerkleAssumption DEF Versions, MerkleInv
<1>4. ASSUME NEW p \in Pid PROVE PageOK(p, mem[p], base[p], items[p], w, filed)
  <2>1. PageOK(p, mem[p], base[p], items[p], v, filed)
    BY <1>2 DEF MerkleInv
  <2> QED BY <1>2, <2>1, ReadLater
<1>5. ASSUME NEW k \in Key PROVE KeyOK(k, mem, values, w)
  <2>1. KeyOK(k, mem, values, v)
    BY <1>2 DEF MerkleInv
  <2>2. 0..v \subseteq 0..w
    BY <1>2
  <2> QED BY <2>1, <2>2 DEF KeyOK
<1> QED BY <1>1, <1>2, <1>3, <1>4, <1>5 DEF MerkleInv

LEMMA UpdateKeyInv ==
  ASSUME MerkleInv, NEW key \in Key, NEW value \in Strings, UpdateKey(key, value)
  PROVE  MerkleInv'
<1>1. PICK leaf, hash : /\ leaf = UpdateLeaf(version, value)
                        /\ hash = IF key \in Paged THEN leaf.hash ELSE Empty
  OBVIOUS
<1>2. PICK update : update = UpdatePage(Blank(mem[Root]), version, key, value, hash)
  OBVIOUS
<1>3. /\ key \in pending /\ pending' = pending \ {key}
      /\ mem' = [p \in Pid |-> IF p = Root THEN update.page
                               ELSE IF p = key THEN leaf ELSE mem[p]]
      /\ items' = [p \in Pid |->
           IF p = Root THEN items[p] \o update.items
           ELSE IF p = key THEN Append(items[p], LeafItem(0, leaf))
           ELSE items[p]]
      /\ values' = [values EXCEPT ![key] = [value |-> value, version |-> version]]
      /\ version' = version /\ base' = base /\ filed' = filed
  BY <1>1, <1>2 DEF UpdateKey, Blank
<1>4. PICK v \in Nat : v = version /\ v # 0
  <2>1. version \in Nat /\ version > 0
    BY <1>3, MerkleAssumption DEF MerkleInv, Versions
  <2> QED BY <2>1
<1>5. /\ \A p \in Pid : PageOK(p, mem[p], base[p], items[p], v, filed)
      /\ \A k \in Key : KeyOK(k, mem, values, v)
      /\ TreeOK(mem) /\ (filed \/ HashesOK(mem, values))
      /\ values = [k \in Key |-> values[k]]
  BY <1>4 DEF MerkleInv
<1>6. PICK m, n, vals, now, new : /\ m = mem /\ n = mem' /\ vals = values /\ now = values'
                                  /\ new = update.page
  OBVIOUS
<1>7. IsPage(Root, m[Root], v)
  BY <1>5, <1>6, Keys DEF PageOK
<1>8. IsRootPage(Blank(m[Root]), v)
  BY <1>7, NewPage DEF IsPage, Blank
<1>9. IsRootPage(new, v) /\ IsUpdated(new, Blank(m[Root]), v, key, value, hash)
  BY <1>2, <1>4, <1>6, <1>8, RootUpdated
<1>10. AfterUpdate(n, m, key, UpdateLeaf(v, value), new)
  BY <1>1, <1>3, <1>4, <1>6 DEF AfterUpdate
<1>11. now = [vals EXCEPT ![key] = [value |-> value, version |-> v]]
  BY <1>3, <1>4, <1>6
<1>12. vals = [k \in Key |-> vals[k]] /\ \A k \in Key : KeyOK(k, m, vals, v)
  BY <1>5, <1>6
<1>13. /\ \A k \in Key : KeyOK(k, n, now, v)
       /\ \A k \in Key : now[k] = IF k = key THEN [value |-> value, version |-> v] ELSE vals[k]
  BY <1>4, <1>7, <1>9, <1>10, <1>11, <1>12, KeysUpdated
<1>14. BlankOK(m) /\ (HashesOK(m, vals) => BlankHashed(m))
  BY <1>5, <1>6, <1>12, BlankIsOK
<1>15. TreeOK(n)
  BY <1>7, <1>9, <1>10, <1>14, TreeUpdated
<1>16. filed \/ HashesOK(n, now)
  <2> SUFFICES ASSUME ~filed PROVE HashesOK(n, now)
    OBVIOUS
  <2>1. HashesOK(m, vals) /\ BlankHashed(m)
    BY <1>5, <1>6, <1>14
  <2>2. hash = IF key \in Paged THEN UpdateLeaf(v, value).hash ELSE Empty
    BY <1>1, <1>4
  <2>3. IsUpdated(new, Blank(m[Root]), v, key, value,
                  IF key \in Paged THEN UpdateLeaf(v, value).hash ELSE Empty)
    BY <1>9, <2>2
  <2> QED BY <1>7, <1>9, <1>10, <1>13, <2>1, <2>3, HashesUpdated
<1>17. ASSUME NEW p \in Pid PROVE PageOK(p, mem'[p], base[p], items'[p], v, filed)
  <2>1. PageOK(p, mem[p], base[p], items[p], v, filed)
    BY <1>5
  <2>2. CASE p = Root
    <3>1. mem'[p] = update.page /\ items'[p] = items[p] \o update.items
      BY <1>3, <2>2
    <3>2. PICK page, below, list, lost : /\ page = mem[p] /\ below = base[p]
                                         /\ list = items[p] /\ lost = filed
      OBVIOUS
    <3>3. PageOK(Root, page, below, list, v, lost)
      BY <2>1, <2>2, <3>2
    <3>4. update = UpdatePage(Blank(page), v, key, value, hash)
      BY <1>2, <1>4, <2>2, <3>2
    <3>5. PageOK(Root, update.page, below, list \o update.items, v, lost)
      BY <3>3, <3>4, RootPageUpdated
    <3> QED BY <2>2, <3>1, <3>2, <3>5
  <2>3. CASE p # Root /\ p = key
    <3>1. mem'[p] = leaf /\ items'[p] = Append(items[p], LeafItem(0, leaf))
      BY <1>3, <2>3
    <3>2. PICK page, below, list, lost : /\ page = mem[p] /\ below = base[p]
                                         /\ list = items[p] /\ lost = filed
      OBVIOUS
    <3>3. PageOK(p, page, below, list, v, lost) /\ p \in Paged
      BY <2>1, <2>3, <3>2, Keys
    <3>4. PageOK(p, UpdateLeaf(v, value), below,
                 Append(list, LeafItem(0, UpdateLeaf(v, value))), v, lost)
      BY <3>3, LeafPageUpdated
    <3> QED BY <1>1, <1>4, <3>1, <3>2, <3>4
  <2>4. CASE p # Root /\ p # key
    <3>1. mem'[p] = mem[p] /\ items'[p] = items[p]
      BY <1>3, <2>4
    <3> QED BY <2>1, <3>1
  <2> QED BY <2>2, <2>3, <2>4
<1>18. /\ mem' = [p \in Pid |-> mem'[p]] /\ items' = [p \in Pid |-> items'[p]]
       /\ values' = [k \in Key |-> values'[k]]
  <2>1. mem' = [p \in Pid |-> mem'[p]]
    BY <1>3
  <2>2. items' = [p \in Pid |-> items'[p]]
    BY <1>3
  <2>3. values' = [k \in Key |-> values'[k]]
    BY <1>3, <1>5
  <2> QED BY <2>1, <2>2, <2>3
<1>19. /\ \A p \in Pid : PageOK(p, mem'[p], base'[p], items'[p], version', filed')
       /\ \A k \in Key : KeyOK(k, mem', values', version')
       /\ TreeOK(mem') /\ (filed' \/ HashesOK(mem', values'))
  BY <1>3, <1>4, <1>6, <1>13, <1>15, <1>16, <1>17
<1>20. /\ version' \in Versions /\ filed' \in BOOLEAN
       /\ pending' \in SUBSET Key /\ (pending' # {} => version' > 0)
       /\ base' = [p \in Pid |-> base'[p]]
  BY <1>3 DEF MerkleInv
<1> QED BY <1>18, <1>19, <1>20 DEF MerkleInv

LEMMA CheckpointInv ==
  ASSUME MerkleInv, NEW p \in Pid, Checkpoint(p)
  PROVE  MerkleInv'
<1>1. /\ base' = [base EXCEPT ![p] = mem[p]] /\ items' = [items EXCEPT ![p] = Empty]
      /\ version' = version /\ pending' = pending /\ mem' = mem /\ values' = values
      /\ filed' = filed
  BY DEF Checkpoint
<1>2. base = [q \in Pid |-> base[q]] /\ items = [q \in Pid |-> items[q]]
  BY DEF MerkleInv
<1>3. base' = [q \in Pid |-> base'[q]] /\ items' = [q \in Pid |-> items'[q]]
  BY <1>1, <1>2
<1>4. \A q \in Pid : /\ base'[q] = IF q = p THEN mem[p] ELSE base[q]
                     /\ items'[q] = IF q = p THEN Empty ELSE items[q]
  BY <1>1, <1>2
<1>5. PICK v \in Nat : v = version
  BY MerkleAssumption DEF MerkleInv, Versions
<1>6. ASSUME NEW q \in Pid PROVE PageOK(q, mem[q], base'[q], items'[q], v, filed)
  <2>1. PageOK(q, mem[q], base[q], items[q], v, filed)
    BY <1>5 DEF MerkleInv
  <2>2. PageOK(q, mem[q], mem[q], Empty, v, filed)
    BY <2>1, PageCheckpointed
  <2> QED BY <1>4, <2>1, <2>2
<1> QED BY <1>1, <1>3, <1>5, <1>6 DEF MerkleInv

LEMMA FlushInv == ASSUME MerkleInv, Flush PROVE MerkleInv'
<1>1. /\ base' = [p \in Pid |-> ReadPage(base[p])]
      /\ items' = [p \in Pid |-> ReadItems(items[p])]
      /\ version' = version /\ pending' = pending /\ mem' = mem /\ values' = values
      /\ filed' = TRUE
  BY DEF Flush, ReadItems
<1>2. base' = [q \in Pid |-> base'[q]] /\ items' = [q \in Pid |-> items'[q]]
  BY <1>1
<1>3. \A q \in Pid : base'[q] = ReadPage(base[q]) /\ items'[q] = ReadItems(items[q])
  BY <1>1
<1>4. PICK v \in Nat : v = version
  BY MerkleAssumption DEF MerkleInv, Versions
<1>5. ASSUME NEW q \in Pid PROVE PageOK(q, mem[q], base'[q], items'[q], v, TRUE)
  <2>1. PageOK(q, mem[q], base[q], items[q], v, filed)
    BY <1>4 DEF MerkleInv
  <2> QED BY <1>3, <2>1, PageFlushed
<1> QED BY <1>1, <1>2, <1>4, <1>5 DEF MerkleInv

LEMMA ReloadInv ==
  ASSUME MerkleInv, NEW p \in Pid, Reload(p)
  PROVE  MerkleInv'
<1>1. /\ mem' = [mem EXCEPT ![p] = Replayed(base[p], items[p])]
      /\ version' = version /\ pending' = pending /\ base' = base /\ items' = items
      /\ values' = values /\ filed' = filed
  BY DEF Reload
<1>2. mem = [q \in Pid |-> mem[q]]
  BY DEF MerkleInv
<1>3. mem' = [q \in Pid |-> mem'[q]]
  BY <1>1, <1>2
<1>4. \A q \in Pid : mem'[q] = IF q = p THEN Replayed(base[p], items[p]) ELSE mem[q]
  BY <1>1, <1>2
<1>5. PICK v \in Nat : v = version
  BY MerkleAssumption DEF MerkleInv, Versions
<1>6. \A q \in Pid : PageOK(q, mem[q], base[q], items[q], v, filed)
  BY <1>5 DEF MerkleInv
<1>7. ASSUME NEW q \in Pid PROVE PageOK(q, mem'[q], base[q], items[q], v, filed)
  <2>1. PageOK(q, Replayed(base[q], items[q]), base[q], items[q], v, filed)
    BY <1>6, PageReloaded
  <2> QED BY <1>4, <1>6, <2>1
<1>8. ASSUME NEW q \in Pid PROVE SamePage(q, mem[q], mem'[q])
  <2>1. SamePage(q, mem[q], Replayed(base[q], items[q]))
    BY <1>6 DEF PageOK
  <2>2. SamePage(q, mem[q], mem[q])
    BY DEF SamePage, SameRootPage, SameRoot, SameChild, SameLeaf, SameIndex
  <2> QED BY <1>4, <2>1, <2>2
<1>9. PICK m, n, vals : m = mem /\ n = mem' /\ vals = values
  OBVIOUS
<1>10. (\A k \in Key : KeyOK(k, n, vals, v)) /\ TreeOK(n)
  <2>1. (\A k \in Key : KeyOK(k, m, vals, v)) /\ TreeOK(m)
    BY <1>5, <1>9 DEF MerkleInv
  <2>2. \A q \in Pid : SamePage(q, m[q], n[q])
    BY <1>8, <1>9
  <2> QED BY <2>1, <2>2, TreeReloaded
<1>11. filed \/ HashesOK(mem', values)
  <2> SUFFICES ASSUME ~filed PROVE HashesOK(mem', values)
    OBVIOUS
  <2>1. mem[p] = Replayed(base[p], items[p])
    BY <1>6 DEF PageOK
  <2>2. mem' = mem
    BY <1>1, <1>2, <2>1
  <2> QED BY <2>2 DEF MerkleInv
<1> QED BY <1>1, <1>3, <1>5, <1>7, <1>9, <1>10, <1>11 DEF MerkleInv

LEMMA NextInv == MerkleInv /\ [MerkleNext]_merkleVars => MerkleInv'
<1> SUFFICES ASSUME MerkleInv, [MerkleNext]_merkleVars PROVE MerkleInv'
  OBVIOUS
<1>1. ASSUME NEW keys \in SUBSET Key \ {{}}, Commit(keys) PROVE MerkleInv'
  BY <1>1, CommitInv
<1>2. ASSUME NEW key \in Key, NEW value \in Strings, UpdateKey(key, value) PROVE MerkleInv'
  BY <1>2, UpdateKeyInv
<1>3. ASSUME NEW p \in Pid, Checkpoint(p) PROVE MerkleInv'
  BY <1>3, CheckpointInv
<1>4. ASSUME NEW p \in Pid, Reload(p) PROVE MerkleInv'
  BY <1>4, ReloadInv
<1>5. CASE Flush
  BY <1>5, FlushInv
<1>6. CASE UNCHANGED merkleVars
  BY <1>6 DEF MerkleInv, merkleVars
<1> QED BY <1>1, <1>2, <1>3, <1>4, <1>5, <1>6 DEF MerkleNext

(* Every reachable state satisfies the invariant. *)
THEOREM MerkleInvariant == MerkleSpec => []MerkleInv
<1> QED BY InitInv, NextInv, PTL DEF MerkleSpec

-----------------------------------------------------------------------------
(* What the invariant says of the pages in the cache.                      *)

LEMMA RootPage ==
  ASSUME MerkleInv, mem[Root] # None
  PROVE  /\ IsRootPage(mem[Root], version) /\ version \in Nat
         /\ mem[Root].node.bitmap = Present(mem[Root])
         /\ \A i \in Present(mem[Root]) :
              /\ i \in Nibble /\ mem[Root].child[i] # None
              /\ <<i>> \in Key => IsLeaf(mem[Root].child[i])
              /\ <<i>> \notin Key => /\ ~IsLeaf(mem[Root].child[i])
                                     /\ IsIndex(mem[Root].child[i], version)
                                     /\ ChildOK(i, mem[Root].child[i], mem)
<1>1. PageOK(Root, mem[Root], base[Root], items[Root], version, filed) /\ version \in Nat
  BY Keys, MerkleAssumption DEF MerkleInv, Versions
<1>2. IsRootPage(mem[Root], version)
  BY <1>1 DEF PageOK, IsPage
<1>3. TreeOK(mem)
  BY DEF MerkleInv
<1>4. ASSUME NEW i \in Present(mem[Root])
      PROVE  /\ i \in Nibble /\ mem[Root].child[i] # None
             /\ <<i>> \in Key => IsLeaf(mem[Root].child[i])
             /\ <<i>> \notin Key => /\ ~IsLeaf(mem[Root].child[i])
                                    /\ IsIndex(mem[Root].child[i], version)
                                    /\ ChildOK(i, mem[Root].child[i], mem)
  <2>1. i \in Nibble /\ mem[Root].child[i] # None
    BY DEF Present
  <2>2. IsChild(i, mem[Root].child[i], version)
    BY <1>2, <2>1 DEF IsRootPage
  <2>3. <<i>> \notin Key => ChildOK(i, mem[Root].child[i], mem)
    BY <1>3 DEF TreeOK
  <2> QED BY <2>1, <2>2, <2>3, Kinds DEF IsChild
<1> QED BY <1>1, <1>2, <1>3, <1>4 DEF TreeOK

LEMMA LeafPages ==
  ASSUME MerkleInv, NEW k \in Paged, mem[k] # None
  PROVE  IsLeafNode(mem[k], version)
<1>1. PageOK(k, mem[k], base[k], items[k], version, filed) /\ k # Root
  BY Keys DEF MerkleInv
<1> QED BY <1>1 DEF PageOK, IsPage

LEMMA InvTypes == MerkleInv => MerkleTypeOK
<1> SUFFICES ASSUME MerkleInv PROVE MerkleTypeOK
  OBVIOUS
<1>1. version \in Versions /\ filed \in BOOLEAN
  BY DEF MerkleInv
<1>2. \A k \in Key : values[k].version \in 0..version
  BY DEF MerkleInv, KeyOK
<1>3. ASSUME NEW k \in Paged, mem[k] # None PROVE LeafOK(mem[k], version)
  BY <1>3, LeafPages DEF IsLeafNode, LeafOK
<1>4. ASSUME mem[Root] # None
      PROVE  LET page == mem[Root]
                 present == {i \in Nibble : page.child[i] # None}
             IN /\ IndexNodeOK(page.node, present, version)
                /\ \A i \in present :
                     IF IsLeaf(page.child[i]) THEN LeafOK(page.child[i], version)
                     ELSE IndexNodeOK(page.child[i],
                            {j \in Nibble : <<i, j>> \in Paged /\ mem[<<i, j>>] # None},
                            version)
  <2>1. PICK page : page = mem[Root]
    OBVIOUS
  <2>2. IndexNodeOK(page.node, Present(page), version)
    <3>1. IsIndex(page.node, version) /\ page.node.bitmap = Present(page)
      BY <1>4, <2>1, RootPage DEF IsRootPage
    <3> QED BY <3>1 DEF IsIndex, IndexNodeOK
  <2>3. ASSUME NEW i \in Present(page)
        PROVE  IF IsLeaf(page.child[i]) THEN LeafOK(page.child[i], version)
               ELSE IndexNodeOK(page.child[i], Below(i, mem), version)
    <3>1. /\ i \in Nibble /\ page.child[i] # None
          /\ <<i>> \in Key => IsLeaf(page.child[i])
          /\ <<i>> \notin Key => /\ ~IsLeaf(page.child[i])
                                 /\ IsIndex(page.child[i], version)
                                 /\ ChildOK(i, page.child[i], mem)
      BY <1>4, <2>1, RootPage
    <3>2. CASE <<i>> \in Key
      <4>1. IsLeafNode(page.child[i], version)
        BY <1>4, <2>1, <3>1, <3>2, RootPage DEF IsRootPage, IsChild
      <4> QED BY <3>1, <3>2, <4>1 DEF IsLeafNode, LeafOK
    <3>3. CASE <<i>> \notin Key
      BY <3>1, <3>3 DEF IsIndex, ChildOK, IndexNodeOK
    <3> QED BY <3>2, <3>3
  <2> QED BY <2>1, <2>2, <2>3 DEF Present, Below
<1> QED BY <1>1, <1>2, <1>3, <1>4 DEF MerkleTypeOK

(* A key leads to its leaf, and that to its value. *)
LEMMA Found ==
  ASSUME MerkleInv, NEW k \in Key
  PROVE  /\ values[k].version = 0 => Leaf(k) = None
         /\ values[k].version # 0 =>
              /\ Leaf(k) # None /\ Leaf(k).location = values[k].version
              /\ Leaf(k) = IF k \in Paged THEN mem[k] ELSE mem[Root].child[k[1]]
              /\ mem[Root] # None /\ k[1] \in Present(mem[Root])
<1>1. KeyOK(k, mem, values, version)
  BY DEF MerkleInv
<1>2. k[1] \in Nibble /\ (k \in Paged <=> Len(k) # 1)
  <2>1. (k \in Paged => Len(k) = 2) /\ (k \notin Paged => Len(k) = 1) /\ k[1] \in Nibble
    BY Keys
  <2> QED BY <2>1
<1>3. CASE mem[Root] = None
  BY <1>1, <1>3 DEF Leaf, KeyOK
<1>4. CASE mem[Root] # None /\ mem[Root].child[k[1]] = None
  <2>1. k[1] \notin mem[Root].node.bitmap
    BY <1>4, RootPage DEF Present
  <2> QED BY <1>1, <1>4, <2>1 DEF Leaf, KeyOK
<1>5. CASE mem[Root] # None /\ mem[Root].child[k[1]] # None
  <2>1. k[1] \in mem[Root].node.bitmap /\ k[1] \in Present(mem[Root])
    BY <1>2, <1>5, RootPage DEF Present
  <2>2. CASE k \notin Paged
    <3>1. Leaf(k) = mem[Root].child[k[1]]
      BY <1>2, <1>5, <2>1, <2>2 DEF Leaf
    <3> QED BY <1>1, <1>5, <2>1, <2>2, <3>1 DEF KeyOK, HasLeaf
  <2>3. CASE k \in Paged
    <3>1. Leaf(k) = GetPage(k, mem[Root].child[k[1]].child_version[k[2]])
      BY <1>2, <1>5, <2>1, <2>3 DEF Leaf
    <3>2. CASE mem[k] = None
      BY <1>1, <2>3, <3>1, <3>2 DEF KeyOK, GetPage
    <3>3. CASE mem[k] # None
      <4>1. k[2] \in Nibble /\ k = <<k[1], k[2]>> /\ <<k[1]>> \notin Key
        BY <2>3, Keys
      <4>2. k[2] \in Below(k[1], mem)
        BY <2>3, <3>3, <4>1 DEF Below
      <4>3. ChildOK(k[1], mem[Root].child[k[1]], mem)
        BY <1>5, <2>1, <4>1, RootPage
      <4>4. mem[Root].child[k[1]].child_version[k[2]] = mem[k].version
        BY <4>1, <4>2, <4>3 DEF ChildOK
      <4>5. Leaf(k) = mem[k]
        BY <3>1, <3>3, <4>4 DEF GetPage
      <4> QED BY <1>1, <1>5, <2>1, <2>3, <3>3, <4>5 DEF KeyOK, HasLeaf
    <3> QED BY <3>2, <3>3
  <2> QED BY <2>2, <2>3
<1> QED BY <1>3, <1>4, <1>5

LEMMA InvPaths == MerkleInv => PathsLeadToValues
<1> SUFFICES ASSUME MerkleInv, NEW k \in Key PROVE Get(k) = values[k].value
  BY DEF PathsLeadToValues
<1>1. values[k].version = 0 => values[k].value = Empty
  BY DEF MerkleInv, KeyOK
<1> QED BY <1>1, Found DEF Get, ReadValue

LEMMA InvRebuilt == MerkleInv => RebuiltExact
  BY DEF MerkleInv, PageOK, RebuiltExact

(* Every page in the cache is well formed. *)
THEOREM MerkleTypes == MerkleSpec => []MerkleTypeOK
  BY MerkleInvariant, InvTypes, PTL

(* Whatever was checkpointed, flushed, read back and rebuilt, each key     *)
(* leads to its value.                                                     *)
THEOREM PathsKept == MerkleSpec => []PathsLeadToValues
  BY MerkleInvariant, InvPaths, PTL

(* A page is rebuilt exactly from its base page and delta items, as long   *)
(* as no page was read from a file.                                        *)
THEOREM RebuildIsExact == MerkleSpec => []RebuiltExact
  BY MerkleInvariant, InvRebuilt, PTL

-----------------------------------------------------------------------------
(* Proofs of one and of two steps.                                         *)

IsClimb(f, hash, proofs, n) ==
  f = [m \in 0..n |-> IF m = 0 THEN hash ELSE HashUp(f[m - 1], proofs[m])]

LEMMA Climbs ==
  ASSUME NEW hash, NEW proofs, NEW n \in {1, 2}, Len(proofs) = n
  PROVE  /\ HashAfter(hash, proofs, 0) = hash
         /\ HashAfter(hash, proofs, 1) = HashUp(hash, proofs[1])
         /\ n = 2 => HashAfter(hash, proofs, 2) = HashUp(HashUp(hash, proofs[1]), proofs[2])
<1> DEFINE after == CHOOSE f : f = [m \in 0..Len(proofs) |->
                      IF m = 0 THEN hash ELSE HashUp(f[m - 1], proofs[m])]
<1>1. \E f : IsClimb(f, hash, proofs, n)
  <2>1. PICK one : one = HashUp(hash, proofs[1])
    OBVIOUS
  <2>2. PICK two : two = HashUp(one, proofs[2])
    OBVIOUS
  <2>3. PICK f : f = [m \in 0..n |-> IF m = 0 THEN hash ELSE IF m = 1 THEN one ELSE two]
    OBVIOUS
  <2>4. f[0] = hash /\ f[1] = one /\ (n = 2 => f[2] = two)
    <3>1. 0 \in 0..n /\ 1 \in 0..n /\ (n = 2 => 2 \in 0..n)
      OBVIOUS
    <3> QED BY <2>3, <3>1
  <2>5. ASSUME NEW m \in 0..n
        PROVE  f[m] = IF m = 0 THEN hash ELSE HashUp(f[m - 1], proofs[m])
    <3>1. m = 0 \/ m = 1 \/ (m = 2 /\ n = 2)
      OBVIOUS
    <3>2. CASE m = 0
      BY <2>4, <3>2
    <3>3. CASE m = 1
      <4>1. m - 1 = 0 /\ m # 0
        BY <3>3
      <4> QED BY <2>1, <2>4, <3>3, <4>1
    <3>4. CASE m = 2 /\ n = 2
      <4>1. m - 1 = 1 /\ m # 0
        BY <3>4
      <4> QED BY <2>2, <2>4, <3>4, <4>1
    <3> QED BY <3>1, <3>2, <3>3, <3>4
  <2>6. f = [m \in 0..n |-> f[m]]
    BY <2>3
  <2>7. [m \in 0..n |-> f[m]] =
        [m \in 0..n |-> IF m = 0 THEN hash ELSE HashUp(f[m - 1], proofs[m])]
    BY <2>5
  <2> QED BY <2>6, <2>7 DEF IsClimb
<1>2. IsClimb(after, hash, proofs, n)
  BY <1>1 DEF IsClimb
<1>3. \A m : HashAfter(hash, proofs, m) = after[m]
  BY DEF HashAfter
<1> HIDE DEF after
<1>4. /\ 0 \in 0..n /\ 1 \in 0..n /\ 1 - 1 = 0 /\ 1 # 0
      /\ n = 2 => (2 \in 0..n /\ 2 - 1 = 1 /\ 2 # 0)
  OBVIOUS
<1>5. \A m \in 0..n : after[m] = IF m = 0 THEN hash ELSE HashUp(after[m - 1], proofs[m])
  <2>1. after = [m \in 0..n |-> IF m = 0 THEN hash ELSE HashUp(after[m - 1], proofs[m])]
    BY <1>2 DEF IsClimb
  <2> QED BY <2>1
<1>6. after[0] = hash
  BY <1>4, <1>5
<1>7. after[1] = HashUp(hash, proofs[1])
  <2>1. after[1] = HashUp(after[1 - 1], proofs[1])
    BY <1>4, <1>5
  <2> QED BY <1>4, <1>6, <2>1
<1>8. n = 2 => after[2] = HashUp(HashUp(hash, proofs[1]), proofs[2])
  <2> SUFFICES ASSUME n = 2 PROVE after[2] = HashUp(HashUp(hash, proofs[1]), proofs[2])
    OBVIOUS
  <2>1. after[2] = HashUp(after[2 - 1], proofs[2])
    BY <1>4, <1>5
  <2> QED BY <1>4, <1>7, <2>1
<1> QED BY <1>3, <1>6, <1>7, <1>8

(* One level up from the hash that a node keeps of its child. *)
LEMMA UpIsHash ==
  ASSUME NEW v, NEW n, IsIndex(n, v), NodeHashed(n), NEW i \in Nibble
  PROVE  HashUp(n.child_hash[i], GetNodeProof(n, i)) = n.hash
<1>1. PICK proof : proof = GetNodeProof(n, i)
  OBVIOUS
<1>2. proof.index = i /\ proof.sibling_hash = n.child_hash
  BY <1>1 DEF GetNodeProof
<1>3. PICK c, h : c = n.child_hash /\ h = c[i]
  OBVIOUS
<1>4. [c EXCEPT ![i] = h] = c
  <2>1. c = [j \in Nibble |-> c[j]]
    BY <1>3 DEF IsIndex
  <2> QED BY <1>3, <2>1
<1>5. HashUp(h, proof) = HashFunction(Concatenated(c))
  BY <1>2, <1>3, <1>4 DEF HashUp
<1> QED BY <1>1, <1>3, <1>5 DEF NodeHashed

(* What GetProof gathers for a key that is found. *)
LEMMA ProofOfFound ==
  ASSUME MerkleInv, NEW k \in Key, values[k].version # 0
  PROVE  LET proof == GetProof(k)
             first == GetNodeProof(mem[Root].node, k[1])
         IN /\ proof.value = values[k].value
            /\ proof.proofs =
                 IF k \in Paged THEN <<GetNodeProof(mem[Root].child[k[1]], k[2]), first>>
                 ELSE <<first>>
<1>1. Leaf(k) # None /\ mem[Root] # None /\ k[1] \in mem[Root].node.bitmap
  BY Found, RootPage
<1>2. PICK one, two : /\ one = GetNodeProof(mem[Root].node, k[1])
                      /\ two = GetNodeProof(mem[Root].child[k[1]], k[2])
  OBVIOUS
<1>3. Reverse(<<one>>) = <<one>> /\ Reverse(<<one, two>>) = <<two, one>>
  <2>1. Reverse(<<one>>) = <<one>>
    <3>1. Reverse(<<one>>) = [i \in 1..1 |-> <<one>>[(1 - i) + 1]]
      BY DEF Reverse
    <3>2. \A i \in 1..1 : <<one>>[(1 - i) + 1] = one
      OBVIOUS
    <3> QED BY <3>1, <3>2
  <2>2. Reverse(<<one, two>>) = <<two, one>>
    <3>1. Reverse(<<one, two>>) = [i \in 1..2 |-> <<one, two>>[(2 - i) + 1]]
      BY DEF Reverse
    <3>2. \A i \in 1..2 : <<one, two>>[(2 - i) + 1] = <<two, one>>[i]
      OBVIOUS
    <3> QED BY <3>1, <3>2
  <2> QED BY <2>1, <2>2
<1>4. PICK proof : proof = GetProof(k)
  OBVIOUS
<1>5. /\ k \in Paged => Len(k) = 2
      /\ k \notin Paged => Len(k) = 1
  BY Keys
<1>6. Get(k) = values[k].value
  BY InvPaths DEF PathsLeadToValues
<1>7. CASE k \in Paged
  <2>1. Len(k) # 1
    BY <1>5, <1>7
  <2>2. proof = [value |-> Get(k), proofs |-> Reverse(<<one, two>>)]
    BY <1>1, <1>2, <1>4, <2>1 DEF GetProof
  <2> QED BY <1>2, <1>3, <1>4, <1>6, <1>7, <2>2
<1>8. CASE k \notin Paged
  <2>1. proof = [value |-> Get(k), proofs |-> Reverse(<<one>>)]
    BY <1>1, <1>2, <1>4, <1>5, <1>8 DEF GetProof
  <2> QED BY <1>2, <1>3, <1>4, <1>6, <1>8, <2>1
<1> QED BY <1>7, <1>8

(* The hashes on the path of a key, as long as none was lost. *)
LEMMA PathHashed ==
  ASSUME MerkleInv, ~filed, NEW k \in Key, values[k].version # 0
  PROVE  /\ IsIndex(mem[Root].node, version) /\ NodeHashed(mem[Root].node)
         /\ k[1] \in Nibble
         /\ mem[Root].node.child_hash[k[1]] = mem[Root].child[k[1]].hash
         /\ Leaf(k).hash = ValueHash(values[k].value)
         /\ k \notin Paged => Leaf(k) = mem[Root].child[k[1]]
         /\ k \in Paged =>
              /\ k[2] \in Nibble /\ k = <<k[1], k[2]>>
              /\ IsIndex(mem[Root].child[k[1]], version) /\ NodeHashed(mem[Root].child[k[1]])
              /\ mem[Root].child[k[1]].child_hash[k[2]] = Leaf(k).hash
<1>1. /\ Leaf(k) = IF k \in Paged THEN mem[k] ELSE mem[Root].child[k[1]]
      /\ Leaf(k) # None /\ mem[Root] # None /\ k[1] \in Present(mem[Root])
  BY Found
<1>2. /\ IsRootPage(mem[Root], version)
      /\ k[1] \in Nibble /\ mem[Root].child[k[1]] # None
      /\ <<k[1]>> \notin Key => IsIndex(mem[Root].child[k[1]], version)
  BY <1>1, RootPage
<1>3. RootHashed(mem) /\ LeafHashed(k, mem, values)
  BY DEF MerkleInv, HashesOK
<1>4. Leaf(k).hash = ValueHash(values[k].value)
  BY <1>1, <1>3 DEF LeafHashed
<1>5. /\ IsIndex(mem[Root].node, version) /\ NodeHashed(mem[Root].node)
      /\ mem[Root].node.child_hash[k[1]] = mem[Root].child[k[1]].hash
  BY <1>1, <1>2, <1>3 DEF IsRootPage, RootHashed, HashOf
<1>6. ASSUME k \in Paged
      PROVE  /\ k[2] \in Nibble /\ k = <<k[1], k[2]>>
             /\ IsIndex(mem[Root].child[k[1]], version) /\ NodeHashed(mem[Root].child[k[1]])
             /\ mem[Root].child[k[1]].child_hash[k[2]] = Leaf(k).hash
  <2>1. k[2] \in Nibble /\ k = <<k[1], k[2]>> /\ <<k[1]>> \notin Key
    BY <1>6, Keys
  <2>2. ChildHashed(k[1], mem[Root].child[k[1]], mem)
    BY <1>1, <1>3, <2>1 DEF RootHashed
  <2>3. mem[Root].child[k[1]].child_hash[k[2]] = HashOf(mem[k])
    BY <1>6, <2>1, <2>2 DEF ChildHashed
  <2> QED BY <1>1, <1>2, <1>6, <2>1, <2>2, <2>3 DEF ChildHashed, HashOf
<1> QED BY <1>1, <1>2, <1>4, <1>5, <1>6

LEMMA InvProofs == MerkleInv => ProofVerifies
<1> SUFFICES ASSUME MerkleInv, ~filed, NEW k \in Key, values[k].value # Empty
             PROVE  /\ Verify(values[k].value, GetRootHash, GetProof(k).proofs)
                    /\ LetusProof(k) =
                         IF Len(k) = 1 THEN <<Leaf(k).hash>>
                         ELSE <<Leaf(k).hash, mem[Root].child[k[1]].hash>>
  BY DEF ProofVerifies
<1>1. values[k].version # 0
  BY DEF MerkleInv, KeyOK
<1>2. PICK proof, list, hash, root, child :
        /\ proof = GetProof(k) /\ list = proof.proofs /\ hash = HashFunction(values[k].value)
        /\ root = mem[Root].node /\ child = mem[Root].child[k[1]]
  OBVIOUS
<1>3. /\ proof.value = values[k].value
      /\ list = IF k \in Paged THEN <<GetNodeProof(child, k[2]), GetNodeProof(root, k[1])>>
                ELSE <<GetNodeProof(root, k[1])>>
  BY <1>1, <1>2, ProofOfFound
<1>4. Leaf(k).hash = hash /\ k[1] \in Nibble
  BY <1>1, <1>2, PathHashed DEF ValueHash
<1>5. HashUp(child.hash, GetNodeProof(root, k[1])) = root.hash
  <2>1. IsIndex(root, version) /\ NodeHashed(root) /\ root.child_hash[k[1]] = child.hash
    BY <1>1, <1>2, PathHashed
  <2>2. HashUp(root.child_hash[k[1]], GetNodeProof(root, k[1])) = root.hash
    BY <1>4, <2>1, UpIsHash
  <2> QED BY <2>1, <2>2
<1>6. GetRootHash = root.hash
  BY <1>2 DEF GetRootHash
<1>7. CASE k \in Paged
  <2>1. PICK one, two : one = GetNodeProof(child, k[2]) /\ two = GetNodeProof(root, k[1])
    OBVIOUS
  <2>2. list = <<one, two>> /\ Len(list) = 2 /\ list[1] = one /\ list[2] = two
        /\ DOMAIN list = 1..2
    BY <1>3, <1>7, <2>1
  <2>3. HashUp(hash, one) = child.hash
    <3>1. /\ k[2] \in Nibble /\ IsIndex(child, version) /\ NodeHashed(child)
          /\ child.child_hash[k[2]] = hash
      BY <1>1, <1>2, <1>4, <1>7, PathHashed
    <3>2. HashUp(child.child_hash[k[2]], one) = child.hash
      BY <2>1, <3>1, UpIsHash
    <3> QED BY <3>1, <3>2
  <2>4. /\ HashAfter(hash, list, 0) = hash
        /\ HashAfter(hash, list, 1) = child.hash
        /\ HashAfter(hash, list, 2) = root.hash
    <3>1. 2 \in {1, 2}
      OBVIOUS
    <3>2. /\ HashAfter(hash, list, 0) = hash
          /\ HashAfter(hash, list, 1) = HashUp(hash, list[1])
          /\ HashAfter(hash, list, 2) = HashUp(HashUp(hash, list[1]), list[2])
      BY <2>2, <3>1, Climbs
    <3> QED BY <1>5, <2>1, <2>2, <2>3, <3>2
  <2>5. Verify(values[k].value, GetRootHash, GetProof(k).proofs)
    BY <1>2, <1>6, <2>2, <2>4 DEF Verify
  <2>6. LetusProof(k) = <<hash, child.hash>>
    <3>1. LetusProof(k) = [n \in 1..2 |-> HashAfter(hash, list, n - 1)]
      BY <1>2, <1>3, <2>2 DEF LetusProof
    <3>2. \A n \in 1..2 : HashAfter(hash, list, n - 1) = <<hash, child.hash>>[n]
      <4> SUFFICES ASSUME NEW n \in 1..2
                   PROVE  HashAfter(hash, list, n - 1) = <<hash, child.hash>>[n]
        OBVIOUS
      <4>1. (n = 1 /\ n - 1 = 0) \/ (n = 2 /\ n - 1 = 1)
        OBVIOUS
      <4> QED BY <2>4, <4>1
    <3>3. <<hash, child.hash>> = [n \in 1..2 |-> <<hash, child.hash>>[n]]
      OBVIOUS
    <3> QED BY <3>1, <3>2, <3>3
  <2>7. Len(k) # 1
    BY <1>7 DEF Paged
  <2> QED BY <1>2, <1>4, <2>5, <2>6, <2>7
<1>8. CASE k \notin Paged
  <2>1. PICK one : one = GetNodeProof(root, k[1])
    OBVIOUS
  <2>2. list = <<one>> /\ Len(list) = 1 /\ list[1] = one /\ DOMAIN list = 1..1
    BY <1>3, <1>8, <2>1
  <2>3. child.hash = hash /\ Len(k) = 1
    BY <1>1, <1>2, <1>4, <1>8, PathHashed, Keys
  <2>4. HashAfter(hash, list, 0) = hash /\ HashAfter(hash, list, 1) = root.hash
    <3>1. 1 \in {1, 2}
      OBVIOUS
    <3>2. HashAfter(hash, list, 0) = hash /\ HashAfter(hash, list, 1) = HashUp(hash, list[1])
      BY <2>2, <3>1, Climbs
    <3> QED BY <1>5, <2>1, <2>2, <2>3, <3>2
  <2>5. Verify(values[k].value, GetRootHash, GetProof(k).proofs)
    BY <1>2, <1>6, <2>2, <2>4 DEF Verify
  <2>6. LetusProof(k) = <<hash>>
    <3>1. LetusProof(k) = [n \in 1..1 |-> HashAfter(hash, list, n - 1)]
      BY <1>2, <1>3, <2>2 DEF LetusProof
    <3>2. \A n \in 1..1 : n - 1 = 0
      OBVIOUS
    <3>3. LetusProof(k) = [n \in 1..1 |-> hash]
      BY <2>4, <3>1, <3>2
    <3> QED BY <3>3
  <2> QED BY <1>4, <2>3, <2>5, <2>6
<1> QED BY <1>7, <1>8

(* The proof of a key that has a value verifies it. *)
THEOREM ProofsVerify == MerkleSpec => []ProofVerifies
  BY MerkleInvariant, InvProofs, PTL

(* What RecursiveVerify computes for the page of a key is the hash the     *)
(* page has, if the page is of this version and its value not deleted.     *)
LEMMA PageVerified ==
  ASSUME MerkleInv, ~filed, NEW k \in Paged, mem[k] # None,
         values[k].version = version, values[k].value # Empty,
         k[1] < 10, k[2] < 10
  PROVE  VerifiedPage(k) = mem[k].hash
<1>1. KeyOK(k, mem, values, version) /\ LeafHashed(k, mem, values) /\ k \in Key
  BY Keys DEF MerkleInv, HashesOK
<1>2. mem[k].version = version /\ mem[k].location = version
  BY <1>1 DEF KeyOK, HasLeaf
<1>3. mem[k].hash = HashFunction(values[k].value)
  BY <1>1 DEF LeafHashed, ValueHash
<1>4. GetPage(k, version) = mem[k] /\ ReadValue(k, mem[k].location) = values[k].value
  BY <1>2 DEF GetPage, ReadValue
<1>5. ~(k[1] > 9) /\ ~(k[2] > 9)
  <2>1. k[1] \in Nibble /\ k[2] \in Nibble
    BY <1>1, Keys
  <2>2. k[1] \in 0..15 /\ k[2] \in 0..15
    BY <2>1, MerkleAssumption
  <2> QED BY <2>2
<1>6. mem[k] # None
  OBVIOUS
<1> QED BY <1>3, <1>4, <1>5, <1>6 DEF VerifiedPage

LEMMA InvTree == MerkleInv => TreeVerifies
<1> SUFFICES ASSUME MerkleInv, mem[Root] # None, ~filed,
                    \A k \in Key : values[k].version > 0 =>
                      /\ values[k].value # Empty
                      /\ k \in Paged => k[1] < 10 /\ k[2] < 10 /\ values[k].version = version
             PROVE  RecursiveVerify = GetRootHash
  BY DEF TreeVerifies
<1>1. PICK root : root = mem[Root]
  OBVIOUS
<1>2. /\ IsRootPage(root, version) /\ IsIndex(root.node, version)
      /\ root.node.bitmap = Present(root) /\ Present(root) \subseteq Nibble
  BY <1>1, RootPage DEF IsRootPage
<1>3. /\ NodeHashed(root.node)
      /\ \A i \in Nibble : root.node.child_hash[i] = HashOf(root.child[i])
      /\ \A i \in Present(root) : <<i>> \notin Key => ChildHashed(i, root.child[i], mem)
  BY <1>1 DEF MerkleInv, HashesOK, RootHashed
<1>4. ASSUME NEW k \in Key
      PROVE  /\ values[k].version \in Nat
             /\ KeyOK(k, mem, values, version) /\ LeafHashed(k, mem, values)
  <2>1. KeyOK(k, mem, values, version) /\ LeafHashed(k, mem, values)
    BY DEF MerkleInv, HashesOK
  <2>2. values[k].version \in 0..version
    BY <2>1 DEF KeyOK
  <2> QED BY <1>1, <2>1, <2>2, RootPage
<1> DEFINE below(i) == [j \in Nibble |->
             IF j \in root.child[i].bitmap THEN VerifiedPage(<<i, j>>) ELSE Empty]
           above(i) == IF i \notin root.node.bitmap THEN Empty
             ELSE IF IsLeaf(root.child[i])
               THEN HashFunction(ReadValue(<<i>>, root.child[i].location))
             ELSE HashFunction(Concatenated(below(i)))
<1>5. ASSUME NEW i \in Nibble PROVE above(i) = root.node.child_hash[i]
  <2>1. CASE i \notin Present(root)
    BY <1>2, <1>3, <2>1 DEF Present, HashOf
  <2>2. CASE i \in Present(root) /\ <<i>> \in Key
    <3>1. PICK k : k = <<i>>
      OBVIOUS
    <3>2. k \in Key /\ k \notin Paged /\ k[1] = i /\ root.child[i] # None
      BY <2>2, <3>1, Keys DEF Present
    <3>3. values[k].version # 0 /\ root.child[i].location = values[k].version
      BY <1>1, <1>4, <3>2 DEF KeyOK, HasLeaf
    <3>4. root.child[i].hash = HashFunction(values[k].value)
      <4>1. values[k].value # Empty
        BY <1>4, <3>2, <3>3
      <4>2. LeafHashed(k, mem, values)
        BY <1>4, <3>2
      <4> QED BY <1>1, <3>2, <4>1, <4>2 DEF LeafHashed, ValueHash
    <3>5. IsLeaf(root.child[i])
      BY <1>1, <2>2, RootPage
    <3>6. above(i) = HashFunction(values[k].value)
      BY <1>2, <2>2, <3>1, <3>3, <3>5 DEF ReadValue
    <3> QED BY <1>3, <3>2, <3>4, <3>6 DEF HashOf
  <2>3. CASE i \in Present(root) /\ <<i>> \notin Key
    <3>1. PICK child : child = root.child[i]
      OBVIOUS
    <3>2. /\ child # None /\ ~IsLeaf(child) /\ IsIndex(child, version)
          /\ child.bitmap = Below(i, mem) /\ ChildHashed(i, child, mem)
      BY <1>1, <1>3, <2>3, <3>1, RootPage DEF ChildOK
    <3>3. ASSUME NEW j \in Nibble
          PROVE  (IF j \in child.bitmap THEN VerifiedPage(<<i, j>>) ELSE Empty)
                   = child.child_hash[j]
      <4>1. PICK k : k = <<i, j>>
        OBVIOUS
      <4>2. child.child_hash[j] = IF k \in Paged THEN HashOf(mem[k]) ELSE Empty
        BY <3>2, <4>1 DEF ChildHashed
      <4>3. CASE j \in child.bitmap
        <5>1. k \in Paged /\ k \in Key /\ mem[k] # None
          BY <3>2, <4>1, <4>3, Keys DEF Below
        <5>2. values[k].version > 0
          <6>1. KeyOK(k, mem, values, version) /\ values[k].version \in Nat
            BY <1>4, <5>1
          <6>2. values[k].version # 0
            BY <5>1, <6>1 DEF KeyOK
          <6> QED BY <6>1, <6>2
        <5>3. VerifiedPage(k) = mem[k].hash
          BY <5>1, <5>2, PageVerified
        <5> QED BY <4>1, <4>2, <4>3, <5>1, <5>3 DEF HashOf
      <4>4. CASE j \notin child.bitmap
        <5>1. k \in Paged => mem[k] = None
          BY <3>2, <4>1, <4>4 DEF Below
        <5> QED BY <4>2, <4>4, <5>1 DEF HashOf
      <4> QED BY <4>3, <4>4
    <3>4. below(i) = child.child_hash
      <4>1. child.child_hash = [j \in Nibble |-> child.child_hash[j]]
        BY <3>2 DEF IsIndex
      <4>2. below(i) = [j \in Nibble |-> child.child_hash[j]]
        BY <3>1, <3>3
      <4> QED BY <4>1, <4>2
    <3>5. above(i) = child.hash
      <4> HIDE DEF below
      <4>1. child.hash = HashFunction(Concatenated(child.child_hash))
        BY <3>2 DEF ChildHashed, NodeHashed
      <4> QED BY <1>2, <2>3, <3>1, <3>2, <3>4, <4>1
    <3> QED BY <1>3, <3>1, <3>2, <3>5 DEF HashOf
  <2> QED BY <2>1, <2>2, <2>3
<1>6. [i \in Nibble |-> above(i)] = root.node.child_hash
  <2> HIDE DEF above
  <2>1. root.node.child_hash = [i \in Nibble |-> root.node.child_hash[i]]
    BY <1>2 DEF IsIndex
  <2> QED BY <1>5, <2>1
<1>7. RecursiveVerify = HashFunction(Concatenated([i \in Nibble |-> above(i)]))
  BY <1>1 DEF RecursiveVerify
<1> HIDE DEF above
<1> QED BY <1>1, <1>3, <1>6, <1>7 DEF NodeHashed, GetRootHash

(* The check of a whole version finds the root hash. *)
THEOREM TreeIsVerified == MerkleSpec => []TreeVerifies
  BY MerkleInvariant, InvTree, PTL

-----------------------------------------------------------------------------
(* What a concatenation of hashes tells of them.  Each is the empty string *)
(* or one token.                                                           *)

LEMMA UpTo16 ==
  ASSUME NEW S, 0 \in S, \A n \in 0..15 : n \in S => n + 1 \in S
  PROVE  \A n \in 0..16 : n \in S
<1> DEFINE D == {n \in 0..16 : n \notin S}
<1> SUFFICES ASSUME D # {} PROVE FALSE
  OBVIOUS
<1>1. PICK n \in D : \A k \in D : n <= k
  <2> HIDE DEF D
  <2>1. D \in SUBSET Nat
    BY DEF D
  <2> QED BY <2>1, Least
<1>2. n \in 0..16 /\ n \notin S /\ n # 0
  BY <1>1
<1>3. n - 1 \in 0..15 /\ n - 1 \notin D /\ (n - 1) + 1 = n
  BY <1>1, <1>2
<1> QED BY <1>2, <1>3

Joined(c, n) ==
  LET upTo[m \in 0..16] ==
        IF m = 0 THEN Empty
        ELSE IF m - 1 \in Nibble THEN upTo[m - 1] \o c[m - 1]
        ELSE upTo[m - 1]
  IN upTo[n]
NextJoined(s, c, m) == IF m \in Nibble THEN s \o c[m] ELSE s
IsJoin(f, c, n) ==
  f = [m \in 0..n |-> IF m = 0 THEN Empty ELSE NextJoined(f[m - 1], c, m - 1)]

LEMMA JoinsExist ==
  ASSUME NEW c
  PROVE  \E f : IsJoin(f, c, 16)
<1> DEFINE S == {n \in 0..16 : \E f : IsJoin(f, c, n)}
<1>1. 0 \in S
  <2> DEFINE f == [x \in 0..0 |-> Empty]
  <2>1. IsJoin(f, c, 0)
    BY DEF IsJoin
  <2> QED BY <2>1
<1>2. ASSUME NEW n \in 0..15, n \in S PROVE n + 1 \in S
  <2>1. PICK g : IsJoin(g, c, n)
    BY <1>2
  <2> DEFINE f == [x \in 0..(n + 1) |-> IF x = n + 1 THEN NextJoined(g[n], c, n) ELSE g[x]]
  <2>2. \A x \in 0..(n + 1) : f[x] = IF x = 0 THEN Empty ELSE NextJoined(f[x - 1], c, x - 1)
    <3> SUFFICES ASSUME NEW x \in 0..(n + 1)
                 PROVE  f[x] = IF x = 0 THEN Empty ELSE NextJoined(f[x - 1], c, x - 1)
      OBVIOUS
    <3>1. CASE x = n + 1
      <4>1. f[n + 1] = NextJoined(g[n], c, n) /\ f[n] = g[n] /\ x - 1 = n /\ x # 0
        BY <3>1
      <4> HIDE DEF f
      <4> QED BY <3>1, <4>1
    <3>2. CASE x # n + 1
      <4>1. x \in 0..n /\ (x # 0 => x - 1 \in 0..n) /\ x - 1 # n + 1
        BY <3>2
      <4>2. f[x] = g[x] /\ (x # 0 => f[x - 1] = g[x - 1])
        BY <3>2, <4>1
      <4>3. g[x] = IF x = 0 THEN Empty ELSE NextJoined(g[x - 1], c, x - 1)
        BY <2>1, <4>1 DEF IsJoin
      <4> HIDE DEF f
      <4> QED BY <4>2, <4>3
    <3> QED BY <3>1, <3>2
  <2>3. f = [x \in 0..(n + 1) |-> f[x]]
    OBVIOUS
  <2>4. IsJoin(f, c, n + 1)
    <3> HIDE DEF f
    <3>1. [x \in 0..(n + 1) |-> f[x]] =
          [x \in 0..(n + 1) |-> IF x = 0 THEN Empty ELSE NextJoined(f[x - 1], c, x - 1)]
      BY <2>2
    <3> QED BY <2>3, <3>1 DEF IsJoin
  <2>5. n + 1 \in 0..16
    OBVIOUS
  <2> QED BY <2>4, <2>5
<1>3. 16 \in 0..16
  OBVIOUS
<1>4. 16 \in S
  <2> HIDE DEF S
  <2> QED BY <1>1, <1>2, <1>3, UpTo16
<1> QED BY <1>4

LEMMA JoinedIs ==
  ASSUME NEW c
  PROVE  /\ Concatenated(c) = Joined(c, 16) /\ Joined(c, 0) = Empty
         /\ \A n \in 0..15 : Joined(c, n + 1) = NextJoined(Joined(c, n), c, n)
<1> DEFINE f == CHOOSE f : f = [m \in 0..16 |->
                  IF m = 0 THEN Empty
                  ELSE IF m - 1 \in Nibble THEN f[m - 1] \o c[m - 1]
                  ELSE f[m - 1]]
<1>1. \E g : g = [m \in 0..16 |->
                  IF m = 0 THEN Empty
                  ELSE IF m - 1 \in Nibble THEN g[m - 1] \o c[m - 1]
                  ELSE g[m - 1]]
  <2>1. PICK g : IsJoin(g, c, 16)
    BY JoinsExist
  <2> QED BY <2>1 DEF IsJoin, NextJoined
<1>2. f = [m \in 0..16 |->
                  IF m = 0 THEN Empty
                  ELSE IF m - 1 \in Nibble THEN f[m - 1] \o c[m - 1]
                  ELSE f[m - 1]]
  BY <1>1
<1>3. Concatenated(c) = f[16] /\ \A n : Joined(c, n) = f[n]
  BY DEF Concatenated, Joined
<1> HIDE DEF f
<1>4. IsJoin(f, c, 16)
  BY <1>2 DEF IsJoin, NextJoined
<1>5. f[0] = Empty
  BY <1>4 DEF IsJoin
<1>6. ASSUME NEW n \in 0..15 PROVE f[n + 1] = NextJoined(f[n], c, n)
  <2>1. n + 1 \in 0..16 /\ n + 1 # 0 /\ (n + 1) - 1 = n
    OBVIOUS
  <2>2. f[n + 1] = NextJoined(f[(n + 1) - 1], c, (n + 1) - 1)
    BY <1>4, <2>1 DEF IsJoin
  <2> QED BY <2>1, <2>2
<1> QED BY <1>3, <1>5, <1>6

LEMMA Joins ==
  ASSUME NEW T, NEW s \in Seq(T), NEW t \in Seq(T)
  PROVE  /\ Len(s) \in Nat /\ Len(t) \in Nat /\ s \o t \in Seq(T)
         /\ Len(s \o t) = Len(s) + Len(t)
         /\ \A m \in 1..Len(s) : (s \o t)[m] = s[m]
         /\ Len(t) = 1 => (s \o t)[Len(s) + 1] = t[1]
  OBVIOUS

(* Lengths of strings with the same beginning, and with the same end. *)
LEMMA SameBeginning ==
  ASSUME NEW T, NEW s \in Seq(T), NEW x \in Seq(T), NEW y \in Seq(T)
  PROVE  Len(s \o x) + Len(y) = Len(s \o y) + Len(x)
<1>1. PICK n, m, l, a, b : /\ n = Len(s) /\ m = Len(x) /\ l = Len(y)
                           /\ a = Len(s \o x) /\ b = Len(s \o y)
  OBVIOUS
<1>2. n \in Nat /\ m \in Nat /\ l \in Nat /\ a = n + m /\ b = n + l
  BY <1>1, Joins
<1>3. a + l = b + m
  BY <1>2
<1> QED BY <1>1, <1>3

DifferBy(s, t, p, q) == Len(s) + p = Len(t) + q

LEMMA SameEnd ==
  ASSUME NEW T, NEW s \in Seq(T), NEW t \in Seq(T), NEW x \in Seq(T),
         NEW p \in Nat, NEW q \in Nat, DifferBy(s, t, p, q)
  PROVE  DifferBy(s \o x, t \o x, p, q)
<1>1. PICK n, m, l, a, b : /\ n = Len(s) /\ m = Len(t) /\ l = Len(x)
                           /\ a = Len(s \o x) /\ b = Len(t \o x)
  OBVIOUS
<1>2. /\ n \in Nat /\ m \in Nat /\ l \in Nat /\ a = n + l /\ b = m + l
      /\ n + p = m + q
  BY <1>1, Joins DEF DifferBy
<1>3. a + p = b + q
  BY <1>2
<1> QED BY <1>1, <1>3 DEF DifferBy

IsHash(h) == h = Empty \/ \E t : h = <<t>>
AreHashes(c) == \A i \in Nibble : IsHash(c[i])
Tokens(c) == {c[i][1] : i \in {j \in Nibble : c[j] # Empty}}

LEMMA HashSequence ==
  ASSUME NEW c, AreHashes(c), NEW T, Tokens(c) \subseteq T, NEW i \in Nibble
  PROVE  /\ c[i] \in Seq(T) /\ Len(c[i]) \in {0, 1}
         /\ c[i] # Empty => Len(c[i]) = 1 /\ c[i] = <<c[i][1]>> /\ c[i][1] \in T
         /\ c[i] = Empty => Len(c[i]) = 0
<1>1. CASE c[i] = Empty
  BY <1>1 DEF Empty
<1>2. CASE c[i] # Empty
  <2>1. PICK t : c[i] = <<t>>
    BY <1>2 DEF AreHashes, IsHash
  <2>2. c[i][1] = t
    BY <2>1
  <2>3. t \in T
    BY <1>2, <2>2 DEF Tokens
  <2>4. <<t>> \in Seq(T) /\ Len(<<t>>) = 1
    BY <2>3
  <2> QED BY <1>2, <2>1, <2>2, <2>3, <2>4
<1> QED BY <1>1, <1>2

LEMMA JoinedTokens ==
  ASSUME NEW c, AreHashes(c), NEW T, Tokens(c) \subseteq T
  PROVE  \A n \in 0..16 : Joined(c, n) \in Seq(T)
<1> DEFINE S == {n \in 0..16 : Joined(c, n) \in Seq(T)}
<1>1. 0 \in S
  <2>1. Joined(c, 0) = Empty
    BY JoinedIs
  <2>2. Empty \in Seq(T) /\ 0 \in 0..16
    BY DEF Empty
  <2> QED BY <2>1, <2>2
<1>2. ASSUME NEW n \in 0..15, n \in S PROVE n + 1 \in S
  <2>1. n + 1 \in 0..16 /\ Joined(c, n + 1) = NextJoined(Joined(c, n), c, n)
    BY JoinedIs
  <2>2. PICK s : s = Joined(c, n)
    OBVIOUS
  <2>3. s \in Seq(T)
    BY <1>2, <2>2
  <2>4. n \in Nibble => s \o c[n] \in Seq(T)
    BY <2>3, HashSequence
  <2>5. Joined(c, n + 1) \in Seq(T)
    BY <2>1, <2>2, <2>3, <2>4 DEF NextJoined
  <2> QED BY <2>1, <2>5
<1> HIDE DEF S
<1>3. \A n \in 0..16 : n \in S
  BY <1>1, <1>2, UpTo16
<1> QED BY <1>3 DEF S

(* A hash that is not empty keeps its place. *)
LEMMA JoinedAt ==
  ASSUME NEW c, AreHashes(c), NEW i \in Nibble, c[i] # Empty
  PROVE  /\ Len(Joined(c, i)) + 1 \in 1..Len(Concatenated(c))
         /\ Concatenated(c)[Len(Joined(c, i)) + 1] = c[i][1]
<1>1. PICK T : T = Tokens(c)
  OBVIOUS
<1>2. PICK m : m = Len(Joined(c, i)) + 1
  OBVIOUS
<1>3. i \in 0..15
  BY MerkleAssumption
<1> DEFINE S == {n \in 0..16 : i < n => /\ m \in 1..Len(Joined(c, n))
                                        /\ Joined(c, n)[m] = c[i][1]}
<1>4. 0 \in S
  BY <1>3
<1>5. ASSUME NEW n \in 0..15, n \in S PROVE n + 1 \in S
  <2>1. n + 1 \in 0..16 /\ n \in 0..16 /\ Joined(c, n + 1) = NextJoined(Joined(c, n), c, n)
    BY JoinedIs
  <2>2. PICK s : s = Joined(c, n)
    OBVIOUS
  <2>3. s \in Seq(T) /\ Len(s) \in Nat
    <3>1. s \in Seq(T)
      BY <1>1, <2>1, <2>2, JoinedTokens
    <3> QED BY <3>1
  <2>4. n \in Nibble => c[n] \in Seq(T) /\ Len(c[n]) \in {0, 1}
    BY <1>1, HashSequence
  <2>5. CASE n < i
    BY <1>3, <2>1, <2>5
  <2>6. CASE n = i
    <3>1. Len(c[n]) = 1
      BY <1>1, <2>6, HashSequence
    <3>2. Joined(c, n + 1) = s \o c[n] /\ m = Len(s) + 1
      BY <1>2, <2>1, <2>2, <2>6 DEF NextJoined
    <3>3. Len(s \o c[n]) = Len(s) + 1 /\ (s \o c[n])[Len(s) + 1] = c[n][1]
      <4>1. PICK x : x = c[n]
        OBVIOUS
      <4>2. x \in Seq(T) /\ Len(x) = 1
        BY <2>4, <2>6, <3>1, <4>1
      <4>3. Len(s \o x) = Len(s) + Len(x) /\ (s \o x)[Len(s) + 1] = x[1]
        BY <2>3, <4>2, Joins
      <4> QED BY <4>1, <4>2, <4>3
    <3>4. m \in 1..Len(s \o c[n])
      BY <2>3, <3>2, <3>3
    <3> QED BY <2>1, <2>6, <3>2, <3>3, <3>4
  <2>7. CASE i < n
    <3>1. m \in 1..Len(s) /\ s[m] = c[i][1]
      BY <1>5, <2>2, <2>7
    <3>2. CASE n \in Nibble
      <4>1. m \in 1..Len(s \o c[n]) /\ (s \o c[n])[m] = s[m]
        BY <2>3, <2>4, <3>1, <3>2
      <4>2. Joined(c, n + 1) = s \o c[n]
        BY <2>1, <2>2, <3>2 DEF NextJoined
      <4> QED BY <2>1, <3>1, <4>1, <4>2
    <3>3. CASE n \notin Nibble
      BY <2>1, <2>2, <3>1, <3>3 DEF NextJoined
    <3> QED BY <3>2, <3>3
  <2> QED BY <1>3, <2>5, <2>6, <2>7
<1>6. 16 \in S
  <2> HIDE DEF S
  <2>1. 16 \in 0..16
    OBVIOUS
  <2> QED BY <1>4, <1>5, <2>1, UpTo16
<1>7. 16 > i
  BY <1>3
<1>8. m \in 1..Len(Joined(c, 16)) /\ Joined(c, 16)[m] = c[i][1]
  BY <1>6, <1>7
<1> QED BY <1>2, <1>8, JoinedIs

(* Two lists of hashes that differ in one place at most... *)
SameBut(i, c, d) == \A j \in Nibble : j # i => c[j] = d[j]

LEMMA JoinedBefore ==
  ASSUME NEW c, NEW d, NEW i \in Nibble, SameBut(i, c, d)
  PROVE  Joined(c, i) = Joined(d, i)
<1>1. i \in 0..15
  BY MerkleAssumption
<1> DEFINE S == {n \in 0..16 : n <= i => Joined(c, n) = Joined(d, n)}
<1>2. 0 \in S
  BY JoinedIs
<1>3. ASSUME NEW n \in 0..15, n \in S PROVE n + 1 \in S
  <2>1. /\ Joined(c, n + 1) = NextJoined(Joined(c, n), c, n)
        /\ Joined(d, n + 1) = NextJoined(Joined(d, n), d, n)
        /\ n + 1 \in 0..16
    BY JoinedIs
  <2>2. SUFFICES ASSUME n + 1 <= i PROVE Joined(c, n + 1) = Joined(d, n + 1)
    BY <2>1
  <2>3. n <= i /\ n # i
    BY <1>1, <2>2
  <2> QED BY <1>3, <2>1, <2>3 DEF NextJoined, SameBut
<1>4. i \in S
  <2> HIDE DEF S
  <2>1. i \in 0..16
    BY <1>1
  <2> QED BY <1>2, <1>3, <2>1, UpTo16
<1> QED BY <1>1, <1>4

(* ... have concatenations that differ in length as the two hashes do... *)
LEMMA JoinedLengths ==
  ASSUME NEW c, NEW d, AreHashes(c), AreHashes(d), NEW i \in Nibble, SameBut(i, c, d)
  PROVE  Len(Concatenated(c)) + Len(d[i]) = Len(Concatenated(d)) + Len(c[i])
<1>1. PICK T : T = Tokens(c) \cup Tokens(d)
  OBVIOUS
<1>2. i \in 0..15
  BY MerkleAssumption
<1>3. /\ \A n \in 0..16 : Joined(c, n) \in Seq(T) /\ Joined(d, n) \in Seq(T)
      /\ \A j \in Nibble : c[j] \in Seq(T) /\ d[j] \in Seq(T)
  <2>1. Tokens(c) \subseteq T /\ Tokens(d) \subseteq T
    BY <1>1
  <2> QED BY <2>1, JoinedTokens, HashSequence
<1> DEFINE S == {n \in 0..16 : i < n =>
                   Len(Joined(c, n)) + Len(d[i]) = Len(Joined(d, n)) + Len(c[i])}
<1>4. 0 \in S
  BY <1>2
<1>5. ASSUME NEW n \in 0..15, n \in S PROVE n + 1 \in S
  <2>1. /\ Joined(c, n + 1) = NextJoined(Joined(c, n), c, n)
        /\ Joined(d, n + 1) = NextJoined(Joined(d, n), d, n)
        /\ n + 1 \in 0..16 /\ n \in 0..16
    BY JoinedIs
  <2>2. PICK s, t : s = Joined(c, n) /\ t = Joined(d, n)
    OBVIOUS
  <2>3. s \in Seq(T) /\ t \in Seq(T)
    BY <1>3, <2>1, <2>2
  <2>4. Len(c[i]) \in Nat /\ Len(d[i]) \in Nat
    <3>1. c[i] \in Seq(T) /\ d[i] \in Seq(T)
      BY <1>3
    <3> QED BY <3>1, Joins
  <2>6. CASE n < i
    BY <1>2, <2>1, <2>6
  <2>7. CASE n = i
    <3>1. s = t
      BY <2>2, <2>7, JoinedBefore
    <3>2. Joined(c, n + 1) = s \o c[i] /\ Joined(d, n + 1) = t \o d[i]
      BY <2>1, <2>2, <2>7 DEF NextJoined
    <3>3. Len(s \o c[i]) + Len(d[i]) = Len(t \o d[i]) + Len(c[i])
      <4>1. c[i] \in Seq(T) /\ d[i] \in Seq(T)
        BY <1>3
      <4> QED BY <2>3, <3>1, <4>1, SameBeginning
    <3> QED BY <2>1, <3>2, <3>3
  <2>8. CASE i < n
    <3>1. Len(s) + Len(d[i]) = Len(t) + Len(c[i])
      BY <1>5, <2>2, <2>8
    <3>2. CASE n \in Nibble
      <4>1. c[n] = d[n]
        BY <1>2, <2>8, <3>2 DEF SameBut
      <4>2. Len(s \o c[n]) + Len(d[i]) = Len(t \o d[n]) + Len(c[i])
        <5>1. PICK x : x = c[n]
          OBVIOUS
        <5>2. x \in Seq(T) /\ x = d[n]
          BY <1>3, <3>2, <4>1, <5>1
        <5>3. PICK p, q : p = Len(d[i]) /\ q = Len(c[i])
          OBVIOUS
        <5>4. p \in Nat /\ q \in Nat /\ DifferBy(s, t, p, q)
          BY <2>4, <3>1, <5>3 DEF DifferBy
        <5>5. DifferBy(s \o x, t \o x, p, q)
          BY <2>3, <5>2, <5>4, SameEnd
        <5> QED BY <5>1, <5>2, <5>3, <5>5 DEF DifferBy
      <4>3. Joined(c, n + 1) = s \o c[n] /\ Joined(d, n + 1) = t \o d[n]
        BY <2>1, <2>2, <3>2 DEF NextJoined
      <4> QED BY <2>1, <4>2, <4>3
    <3>3. CASE n \notin Nibble
      <4>1. Joined(c, n + 1) = s /\ Joined(d, n + 1) = t
        BY <2>1, <2>2, <3>3 DEF NextJoined
      <4> QED BY <2>1, <3>1, <4>1
    <3> QED BY <3>2, <3>3
  <2> QED BY <1>2, <2>6, <2>7, <2>8
<1>6. 16 \in S
  <2> HIDE DEF S
  <2>1. 16 \in 0..16
    OBVIOUS
  <2> QED BY <1>4, <1>5, <2>1, UpTo16
<1>7. Len(Joined(c, 16)) + Len(d[i]) = Len(Joined(d, 16)) + Len(c[i])
  BY <1>2, <1>6
<1> QED BY <1>7, JoinedIs

(* ... and are the same only if the two hashes are. *)
LEMMA OneHashTells ==
  ASSUME NEW c, NEW d, AreHashes(c), AreHashes(d), NEW i \in Nibble, SameBut(i, c, d),
         Concatenated(c) = Concatenated(d)
  PROVE  c[i] = d[i]
<1>1. /\ Len(c[i]) \in {0, 1} /\ (c[i] # Empty => Len(c[i]) = 1 /\ c[i] = <<c[i][1]>>)
      /\ c[i] = Empty => Len(c[i]) = 0
  BY HashSequence
<1>2. /\ Len(d[i]) \in {0, 1} /\ (d[i] # Empty => Len(d[i]) = 1 /\ d[i] = <<d[i][1]>>)
      /\ d[i] = Empty => Len(d[i]) = 0
  BY HashSequence
<1>3. Len(Concatenated(c)) \in Nat
  <2>1. Joined(c, 16) \in Seq(Tokens(c))
    BY JoinedTokens
  <2> QED BY <2>1, JoinedIs
<1>4. Len(c[i]) = Len(d[i])
  <2>1. Len(Concatenated(c)) + Len(d[i]) = Len(Concatenated(d)) + Len(c[i])
    BY JoinedLengths
  <2> QED BY <1>1, <1>2, <1>3, <2>1
<1>5. CASE c[i] = Empty
  BY <1>1, <1>2, <1>4, <1>5
<1>6. CASE c[i] # Empty
  <2>1. d[i] # Empty
    BY <1>1, <1>2, <1>4, <1>6
  <2>2. c[i][1] = d[i][1]
    BY <1>6, <2>1, JoinedAt, JoinedBefore
  <2> QED BY <1>1, <1>2, <1>6, <2>1, <2>2
<1> QED BY <1>5, <1>6

(* Every token of a concatenation is a hash in it. *)
LEMMA TokenIsHash ==
  ASSUME NEW c, AreHashes(c), NEW m \in 1..Len(Concatenated(c))
  PROVE  \E j \in Nibble : c[j] = <<Concatenated(c)[m]>>
<1>1. Concatenated(c) \in Seq(Tokens(c))
  <2>1. Joined(c, 16) \in Seq(Tokens(c))
    BY JoinedTokens
  <2> QED BY <2>1, JoinedIs
<1>2. Concatenated(c)[m] \in Tokens(c)
  BY <1>1
<1>3. PICK j \in Nibble : c[j] # Empty /\ Concatenated(c)[m] = c[j][1]
  BY <1>2 DEF Tokens
<1> QED BY <1>3, HashSequence

(* Different strings have different hashes, and no value is one or made of *)
(* them.                                                                   *)
IsDigest(h) == h = Empty \/ \E s : h = HashFunction(s)
IsValueHash(h) == h = Empty \/ \E x : h = HashFunction(Text(x))
AreDigests(c) == \A i \in Nibble : IsDigest(c[i])

LEMMA Hashed ==
  ASSUME NEW s, NEW t
  PROVE  /\ HashFunction(s) # Empty /\ Len(HashFunction(s)) = 1
         /\ HashFunction(s) = <<HashFunction(s)[1]>>
         /\ HashFunction(s) = HashFunction(t) => s = t
         /\ HashFunction(s) # Text(t)
<1>1. PICK a, b, c : a = [sha1 |-> s] /\ b = [sha1 |-> t] /\ c = [text |-> t]
  OBVIOUS
<1>2. HashFunction(s) = <<a>> /\ HashFunction(t) = <<b>> /\ Text(t) = <<c>>
  BY <1>1 DEF HashFunction, Text
<1>3. a = b => s = t
  <2>1. a.sha1 = s /\ b.sha1 = t
    BY <1>1
  <2> QED BY <2>1
<1>4. a # c
  <2>1. DOMAIN a = {"sha1"} /\ DOMAIN c = {"text"}
    BY <1>1
  <2> QED BY <2>1
<1>5. /\ <<a>> # <<>> /\ Len(<<a>>) = 1 /\ <<a>>[1] = a
      /\ <<a>> = <<b>> => a = b
      /\ <<a>> = <<c>> => a = c
  <2>1. <<a>>[1] = a /\ <<b>>[1] = b /\ <<c>>[1] = c /\ Len(<<a>>) = 1 /\ Len(<<>>) = 0
    OBVIOUS
  <2> QED BY <2>1
<1> QED BY <1>2, <1>3, <1>4, <1>5 DEF Empty

LEMMA Digests ==
  /\ \A h : IsValueHash(h) => IsDigest(h)
  /\ \A c : AreDigests(c) => AreHashes(c)
  /\ \A value \in Strings : IsValueHash(ValueHash(value))
<1>1. \A h : IsValueHash(h) => IsDigest(h)
  BY DEF IsValueHash, IsDigest
<1>2. \A h : IsDigest(h) => IsHash(h)
  BY Hashed DEF IsDigest, IsHash
<1>3. ASSUME NEW value \in Strings PROVE IsValueHash(ValueHash(value))
  <2>1. value = Empty \/ \E x : value = Text(x)
    BY DEF Strings
  <2> QED BY <2>1 DEF IsValueHash, ValueHash
<1> QED BY <1>1, <1>2, <1>3 DEF AreDigests, AreHashes

LEMMA NotText ==
  ASSUME NEW c, AreDigests(c), NEW x
  PROVE  Concatenated(c) # Text(x)
<1> SUFFICES ASSUME Concatenated(c) = Text(x) PROVE FALSE
  OBVIOUS
<1>1. 1 \in 1..Len(Concatenated(c)) /\ Text(x) = <<Concatenated(c)[1]>>
  <2>1. Len(Text(x)) = 1 /\ Text(x) = <<Text(x)[1]>>
    BY DEF Text
  <2> QED BY <2>1
<1>2. PICK j \in Nibble : c[j] = Text(x)
  <2>1. AreHashes(c)
    BY Digests
  <2> QED BY <1>1, <2>1, TokenIsHash
<1>3. Text(x) # Empty
  BY DEF Text, Empty
<1> QED BY <1>2, <1>3, Hashed DEF AreDigests, IsDigest

(* One level up from another hash than the node keeps of its child.        *)
LEMMA UpTells ==
  ASSUME NEW v, NEW n, IsIndex(n, v), NodeHashed(n), AreDigests(n.child_hash),
         NEW i \in Nibble, NEW h, IsDigest(h), HashUp(h, GetNodeProof(n, i)) = n.hash
  PROVE  n.child_hash[i] = h
<1>1. PICK c, d : c = n.child_hash /\ d = [n.child_hash EXCEPT ![i] = h]
  OBVIOUS
<1>2. c = [j \in Nibble |-> c[j]]
  BY <1>1 DEF IsIndex
<1>3. d[i] = h /\ \A j \in Nibble : j # i => d[j] = c[j]
  BY <1>1, <1>2
<1>4. AreHashes(c) /\ AreHashes(d) /\ SameBut(i, d, c)
  BY <1>1, <1>3, Digests DEF AreDigests, SameBut
<1>5. HashFunction(Concatenated(d)) = HashFunction(Concatenated(c))
  BY <1>1 DEF HashUp, GetNodeProof, NodeHashed
<1>6. Concatenated(d) = Concatenated(c)
  BY <1>5, Hashed
<1>7. d[i] = c[i]
  BY <1>4, <1>6, OneHashTells
<1> QED BY <1>1, <1>3, <1>7

(* The hashes that the nodes keep.                                         *)
LEMMA KeptHashes ==
  ASSUME MerkleInv, ~filed, mem[Root] # None
  PROVE  /\ IsIndex(mem[Root].node, version) /\ NodeHashed(mem[Root].node)
         /\ AreDigests(mem[Root].node.child_hash)
         /\ \A i \in Nibble : LET h == mem[Root].node.child_hash[i]
                                  child == mem[Root].child[i]
                              IN \/ IsValueHash(h)
                                 \/ /\ i \in Present(mem[Root]) /\ <<i>> \notin Key
                                    /\ h = HashFunction(Concatenated(child.child_hash))
         /\ \A i \in Present(mem[Root]) : <<i>> \notin Key =>
              /\ IsIndex(mem[Root].child[i], version) /\ NodeHashed(mem[Root].child[i])
              /\ AreDigests(mem[Root].child[i].child_hash)
              /\ \A j \in Nibble : IsValueHash(mem[Root].child[i].child_hash[j])
<1>1. PICK page, root : page = mem[Root] /\ root = page.node
  OBVIOUS
<1>2. IsIndex(root, version)
  BY <1>1, RootPage DEF IsRootPage
<1>3. /\ NodeHashed(root)
      /\ \A i \in Nibble : root.child_hash[i] = HashOf(page.child[i])
      /\ \A i \in Present(page) : <<i>> \notin Key => ChildHashed(i, page.child[i], mem)
  BY <1>1 DEF MerkleInv, HashesOK, RootHashed
<1>4. \A k \in Key : LeafHashed(k, mem, values) /\ IsValueHash(ValueHash(values[k].value))
  <2>1. \A k \in Key : LeafHashed(k, mem, values) /\ values[k].value \in Strings
    BY DEF MerkleInv, HashesOK, KeyOK
  <2> QED BY <2>1, Digests
<1>5. ASSUME NEW i \in Present(page), <<i>> \notin Key
      PROVE  /\ IsIndex(page.child[i], version) /\ NodeHashed(page.child[i])
             /\ \A j \in Nibble : IsValueHash(page.child[i].child_hash[j])
  <2>1. ChildHashed(i, page.child[i], mem)
    BY <1>3, <1>5
  <2>2. ASSUME NEW j \in Nibble PROVE IsValueHash(page.child[i].child_hash[j])
    <3>1. PICK k : k = <<i, j>>
      OBVIOUS
    <3>2. page.child[i].child_hash[j] = IF k \in Paged THEN HashOf(mem[k]) ELSE Empty
      BY <2>1, <3>1 DEF ChildHashed
    <3>3. CASE k \in Paged /\ mem[k] # None
      <4>1. k \in Key
        BY <3>3, Keys
      <4> QED BY <1>4, <3>2, <3>3, <4>1 DEF HashOf, LeafHashed
    <3>4. CASE ~(k \in Paged /\ mem[k] # None)
      BY <3>2, <3>4 DEF HashOf, IsValueHash
    <3> QED BY <3>3, <3>4
  <2>3. IsIndex(page.child[i], version)
    BY <1>1, <1>5, RootPage
  <2> QED BY <2>1, <2>2, <2>3 DEF ChildHashed
<1>6. ASSUME NEW i \in Nibble
      PROVE  \/ IsValueHash(root.child_hash[i])
             \/ /\ i \in Present(page) /\ <<i>> \notin Key
                /\ root.child_hash[i] = HashFunction(Concatenated(page.child[i].child_hash))
  <2>1. root.child_hash[i] = HashOf(page.child[i])
    BY <1>3
  <2>2. CASE page.child[i] = None
    BY <2>1, <2>2 DEF HashOf, IsValueHash
  <2>3. CASE page.child[i] # None /\ <<i>> \in Key
    <3>1. PICK k : k = <<i>>
      OBVIOUS
    <3>2. k \in Key /\ k \notin Paged /\ k[1] = i
      BY <2>3, <3>1, Keys
    <3> QED BY <1>1, <1>4, <2>1, <2>3, <3>2 DEF LeafHashed, HashOf
  <2>4. CASE page.child[i] # None /\ <<i>> \notin Key
    <3>1. i \in Present(page)
      BY <2>4 DEF Present
    <3> QED BY <1>5, <2>1, <2>4, <3>1 DEF HashOf, NodeHashed
  <2> QED BY <2>2, <2>3, <2>4
<1>7. AreDigests(root.child_hash)
  BY <1>6, Digests DEF AreDigests, IsDigest
<1>8. \A i \in Present(page) : <<i>> \notin Key => AreDigests(page.child[i].child_hash)
  BY <1>5, Digests DEF AreDigests
<1> QED BY <1>1, <1>2, <1>3, <1>5, <1>6, <1>7, <1>8

LEMMA ClimbNone == ASSUME NEW hash PROVE HashAfter(hash, <<>>, 0) = hash
<1> DEFINE after == CHOOSE f : f = [m \in 0..0 |->
                      IF m = 0 THEN hash ELSE HashUp(f[m - 1], <<>>[m])]
<1>1. \E f : f = [m \in 0..0 |-> IF m = 0 THEN hash ELSE HashUp(f[m - 1], <<>>[m])]
  <2>1. PICK f : f = [m \in 0..0 |-> hash]
    OBVIOUS
  <2>2. [m \in 0..0 |-> hash] = [m \in 0..0 |-> IF m = 0 THEN hash ELSE HashUp(f[m - 1], <<>>[m])]
    <3>1. \A m \in 0..0 : m = 0
      OBVIOUS
    <3> QED BY <3>1
  <2> QED BY <2>1, <2>2
<1>2. after = [m \in 0..0 |-> IF m = 0 THEN hash ELSE HashUp(after[m - 1], <<>>[m])]
  BY <1>1
<1>3. HashAfter(hash, <<>>, 0) = after[0]
  BY DEF HashAfter
<1> HIDE DEF after
<1> QED BY <1>2, <1>3

(* A key that is found. *)
LEMMA SoundWhenFound ==
  ASSUME MerkleInv, ~filed, mem[Root] # None, NEW k \in Key, NEW value \in Strings,
         values[k].version # 0, Verify(value, GetRootHash, GetProof(k).proofs)
  PROVE  value = values[k].value /\ value # Empty
<1>1. PICK list, hash, root, child :
        /\ list = GetProof(k).proofs /\ hash = HashFunction(value)
        /\ root = mem[Root].node /\ child = mem[Root].child[k[1]]
  OBVIOUS
<1>2. list = IF k \in Paged THEN <<GetNodeProof(child, k[2]), GetNodeProof(root, k[1])>>
             ELSE <<GetNodeProof(root, k[1])>>
  BY <1>1, ProofOfFound
<1>3. /\ k[1] \in Nibble /\ root.child_hash[k[1]] = child.hash
      /\ k \notin Paged => child.hash = ValueHash(values[k].value)
      /\ k \in Paged => /\ k[2] \in Nibble /\ <<k[1]>> \notin Key /\ k[1] \in Present(mem[Root])
                        /\ child.child_hash[k[2]] = ValueHash(values[k].value)
  <2>1. <<k[1]>> \notin Key \/ k \notin Paged
    BY Keys
  <2>2. k[1] \in Present(mem[Root])
    BY Found
  <2> QED BY <1>1, <2>1, <2>2, PathHashed
<1>4. IsIndex(root, version) /\ NodeHashed(root) /\ AreDigests(root.child_hash)
  BY <1>1, KeptHashes
<1>5. HashAfter(hash, list, Len(list)) = root.hash /\ IsDigest(hash)
  BY <1>1 DEF Verify, GetRootHash, IsDigest
<1>6. hash = ValueHash(values[k].value)
  <2>1. CASE k \in Paged
    <3>1. PICK one, two : one = GetNodeProof(child, k[2]) /\ two = GetNodeProof(root, k[1])
      OBVIOUS
    <3>2. PICK up : up = HashUp(hash, one)
      OBVIOUS
    <3>3. list = <<one, two>> /\ Len(list) = 2 /\ list[1] = one /\ list[2] = two
      BY <1>2, <2>1, <3>1
    <3>4. HashUp(up, two) = root.hash
      <4>1. 2 \in {1, 2}
        OBVIOUS
      <4>2. HashAfter(hash, list, 2) = HashUp(HashUp(hash, list[1]), list[2])
        BY <3>3, <4>1, Climbs
      <4> QED BY <1>5, <3>2, <3>3, <4>2
    <3>5. IsDigest(up)
      BY <3>2 DEF HashUp, IsDigest
    <3>6. child.hash = up
      <4>1. root.child_hash[k[1]] = up
        BY <1>3, <1>4, <3>1, <3>4, <3>5, UpTells
      <4> QED BY <1>3, <4>1
    <3>7. IsIndex(child, version) /\ NodeHashed(child) /\ AreDigests(child.child_hash)
      BY <1>1, <1>3, <2>1, KeptHashes
    <3>8. HashUp(hash, GetNodeProof(child, k[2])) = child.hash
      BY <3>1, <3>2, <3>6
    <3>9. child.child_hash[k[2]] = hash
      BY <1>3, <1>5, <2>1, <3>7, <3>8, UpTells
    <3> QED BY <1>3, <2>1, <3>9
  <2>2. CASE k \notin Paged
    <3>1. PICK one : one = GetNodeProof(root, k[1])
      OBVIOUS
    <3>2. list = <<one>> /\ Len(list) = 1 /\ list[1] = one
      BY <1>2, <2>2, <3>1
    <3>3. HashUp(hash, one) = root.hash
      <4>1. 1 \in {1, 2}
        OBVIOUS
      <4>2. HashAfter(hash, list, 1) = HashUp(hash, list[1])
        BY <3>2, <4>1, Climbs
      <4> QED BY <1>5, <3>2, <4>2
    <3>4. HashUp(hash, GetNodeProof(root, k[1])) = root.hash
      BY <3>1, <3>3
    <3>5. root.child_hash[k[1]] = hash
      BY <1>3, <1>4, <1>5, <3>4, UpTells
    <3> QED BY <1>3, <2>2, <3>5
  <2> QED BY <2>1, <2>2
<1>7. values[k].value # Empty
  BY <1>1, <1>6, Hashed DEF ValueHash
<1> QED BY <1>1, <1>6, <1>7, Hashed DEF ValueHash

(* A path that ends above an index node of the root page: GetProof leaves  *)
(* its steps in the order from the root down, and no hash goes up it to    *)
(* the root hash.                                                          *)
LEMMA NoWayUp ==
  ASSUME MerkleInv, ~filed, mem[Root] # None, NEW i \in Present(mem[Root]), <<i>> \notin Key,
         NEW j \in Nibble, mem[Root].child[i].child_hash[j] = Empty,
         NEW string,
         HashUp(HashUp(HashFunction(string), GetNodeProof(mem[Root].node, i)),
                GetNodeProof(mem[Root].child[i], j)) = mem[Root].node.hash
  PROVE  FALSE
<1>1. PICK root, child, h : /\ root = mem[Root].node /\ child = mem[Root].child[i]
                            /\ h = HashFunction(string)
  OBVIOUS
<1>2. /\ IsIndex(root, version) /\ NodeHashed(root) /\ AreDigests(root.child_hash)
      /\ IsIndex(child, version) /\ NodeHashed(child) /\ AreDigests(child.child_hash)
      /\ i \in Nibble
  BY <1>1, KeptHashes DEF Present
<1>3. PICK r, c, s, u, d :
        /\ r = root.child_hash /\ s = [r EXCEPT ![i] = h] /\ u = HashFunction(Concatenated(s))
        /\ c = child.child_hash /\ d = [c EXCEPT ![j] = u]
  OBVIOUS
<1>4. /\ s[i] = h /\ \A n \in Nibble : n # i => s[n] = r[n]
      /\ d[j] = u /\ \A n \in Nibble : n # j => d[n] = c[n]
  <2>1. r = [n \in Nibble |-> r[n]] /\ c = [n \in Nibble |-> c[n]]
    BY <1>2, <1>3 DEF IsIndex
  <2> QED BY <1>2, <1>3, <2>1
<1>5. AreDigests(r) /\ AreDigests(s) /\ AreDigests(c) /\ AreDigests(d)
  BY <1>1, <1>2, <1>3, <1>4 DEF AreDigests, IsDigest
<1>6. AreHashes(r) /\ AreHashes(s) /\ AreHashes(c) /\ AreHashes(d)
  BY <1>5, Digests
<1>7. Concatenated(d) = Concatenated(r)
  <2>1. HashUp(h, GetNodeProof(root, i)) = u
    BY <1>3 DEF HashUp, GetNodeProof
  <2>2. HashUp(u, GetNodeProof(child, j)) = HashFunction(Concatenated(d))
    BY <1>3 DEF HashUp, GetNodeProof
  <2>3. HashFunction(Concatenated(d)) = HashFunction(Concatenated(r))
    BY <1>1, <1>2, <1>3, <2>1, <2>2 DEF NodeHashed
  <2> QED BY <2>3, Hashed
<1>8. u # Empty /\ u = <<u[1]>> /\ \A x : u # HashFunction(Text(x))
  <2>1. u # Empty /\ u = <<u[1]>>
    BY <1>3, Hashed
  <2>2. \A x : u # HashFunction(Text(x))
    BY <1>3, <1>5, Hashed, NotText
  <2> QED BY <2>1, <2>2
<1>9. PICK n \in Nibble : r[n] = u
  <2>1. PICK m : m = Len(Joined(d, j)) + 1
    OBVIOUS
  <2>2. m \in 1..Len(Concatenated(d)) /\ Concatenated(d)[m] = u[1]
    BY <1>4, <1>6, <1>8, <2>1, JoinedAt
  <2>3. PICK n \in Nibble : r[n] = <<Concatenated(r)[m]>>
    BY <1>6, <1>7, <2>2, TokenIsHash
  <2> QED BY <1>7, <1>8, <2>2, <2>3
<1>10. /\ n \in Present(mem[Root]) /\ <<n>> \notin Key
       /\ u = HashFunction(Concatenated(mem[Root].child[n].child_hash))
  <2>1. ~IsValueHash(r[n])
    BY <1>8, <1>9 DEF IsValueHash
  <2> QED BY <1>1, <1>3, <1>9, <2>1, KeptHashes
<1>11. PICK e : e = mem[Root].child[n].child_hash
  OBVIOUS
<1>12. /\ Concatenated(e) = Concatenated(s)
       /\ AreHashes(e) /\ \A m \in Nibble : IsValueHash(e[m])
  <2>1. AreDigests(e) /\ \A m \in Nibble : IsValueHash(e[m])
    BY <1>10, <1>11, KeptHashes
  <2>2. Concatenated(e) = Concatenated(s)
    BY <1>3, <1>10, <1>11, Hashed
  <2> QED BY <2>1, <2>2, Digests
<1>13. CASE n # i
  <2>1. s[n] = u
    BY <1>4, <1>9, <1>13
  <2>2. PICK m : m = Len(Joined(s, n)) + 1
    OBVIOUS
  <2>3. m \in 1..Len(Concatenated(s)) /\ Concatenated(s)[m] = u[1]
    BY <1>6, <1>8, <2>1, <2>2, JoinedAt
  <2>4. PICK l \in Nibble : e[l] = <<Concatenated(e)[m]>>
    BY <1>12, <2>3, TokenIsHash
  <2>5. e[l] = u
    BY <1>8, <1>12, <2>3, <2>4
  <2> QED BY <1>8, <1>12, <2>5 DEF IsValueHash
<1>14. CASE n = i
  <2>1. e = c /\ r[i] = u /\ c[j] = Empty
    BY <1>1, <1>3, <1>9, <1>11, <1>14
  <2>2. Len(u) = 1 /\ Len(h) = 1 /\ Len(c[j]) = 0
    BY <1>1, <1>3, <2>1, Hashed DEF Empty
  <2>3. SameBut(i, s, r) /\ SameBut(j, d, c)
    BY <1>4 DEF SameBut
  <2>4. PICK x, y, z : /\ x = Len(Concatenated(s)) /\ y = Len(Concatenated(r))
                       /\ z = Len(Concatenated(d))
    OBVIOUS
  <2>5. x + Len(r[i]) = y + Len(s[i])
    BY <1>2, <1>6, <2>3, <2>4, JoinedLengths
  <2>6. z + Len(c[j]) = Len(Concatenated(c)) + Len(d[j])
    BY <1>6, <2>3, <2>4, JoinedLengths
  <2>7. Len(Concatenated(c)) = x /\ z = y
    BY <1>7, <1>12, <2>1, <2>4
  <2>8. x + 1 = y + 1 /\ z + 0 = x + 1
    BY <1>4, <2>1, <2>2, <2>5, <2>6, <2>7
  <2>9. x \in Nat /\ y \in Nat /\ z \in Nat
    <3>1. /\ Joined(s, 16) \in Seq(Tokens(s)) /\ Joined(r, 16) \in Seq(Tokens(r))
          /\ Joined(d, 16) \in Seq(Tokens(d))
      BY <1>6, JoinedTokens
    <3>2. /\ Len(Joined(s, 16)) \in Nat /\ Len(Joined(r, 16)) \in Nat
          /\ Len(Joined(d, 16)) \in Nat
      BY <3>1
    <3> QED BY <2>4, <3>2, JoinedIs
  <2> QED BY <2>7, <2>8, <2>9
<1> QED BY <1>13, <1>14

(* A key that was never written. *)
LEMMA SoundWhenNotFound ==
  ASSUME MerkleInv, ~filed, mem[Root] # None, NEW k \in Key, NEW value \in Strings,
         values[k].version = 0, value # Empty, Verify(value, GetRootHash, GetProof(k).proofs)
  PROVE  FALSE
<1>1. PICK list, hash, root, child :
        /\ list = GetProof(k).proofs /\ hash = HashFunction(value)
        /\ root = mem[Root].node /\ child = mem[Root].child[k[1]]
  OBVIOUS
<1>2. /\ IsIndex(root, version) /\ NodeHashed(root) /\ AreDigests(root.child_hash)
      /\ root.bitmap = Present(mem[Root])
  BY <1>1, KeptHashes, RootPage
<1>3. HashAfter(hash, list, Len(list)) = root.hash
  BY <1>1 DEF Verify, GetRootHash
<1>4. Leaf(k) = None /\ KeyOK(k, mem, values, version)
  BY Found DEF MerkleInv
<1>5. CASE k[1] \notin root.bitmap
  <2>1. list = <<>> /\ Len(list) = 0
    <3>1. list = <<>>
      BY <1>1, <1>4, <1>5 DEF GetProof
    <3> QED BY <3>1
  <2>2. hash = root.hash
    BY <1>3, <2>1, ClimbNone
  <2>3. value = Concatenated(root.child_hash)
    BY <1>1, <1>2, <2>2, Hashed DEF NodeHashed
  <2>4. PICK x \in Value : value = Text(x)
    BY DEF Strings
  <2> QED BY <1>2, <2>3, <2>4, NotText
<1>6. CASE k[1] \in root.bitmap
  <2>1. k[1] \in Present(mem[Root]) /\ child # None
    BY <1>1, <1>2, <1>6 DEF Present
  <2>2. k \in Paged
    BY <1>1, <1>4, <2>1 DEF KeyOK
  <2>3. Len(k) # 1 /\ k[2] \in Nibble /\ k = <<k[1], k[2]>> /\ <<k[1]>> \notin Key
    BY <2>2, Keys
  <2>4. PICK one, two : one = GetNodeProof(root, k[1]) /\ two = GetNodeProof(child, k[2])
    OBVIOUS
  <2>5. list = <<one, two>> /\ Len(list) = 2 /\ list[1] = one /\ list[2] = two
    <3>1. list = <<one, two>>
      BY <1>1, <1>4, <1>6, <2>3, <2>4 DEF GetProof
    <3> QED BY <3>1
  <2>6. HashUp(HashUp(hash, one), two) = root.hash
    <3>1. 2 \in {1, 2}
      OBVIOUS
    <3>2. HashAfter(hash, list, 2) = HashUp(HashUp(hash, list[1]), list[2])
      BY <2>5, <3>1, Climbs
    <3> QED BY <1>3, <2>5, <3>2
  <2>7. child.child_hash[k[2]] = Empty
    <3>1. mem[k] = None
      BY <1>4, <2>2 DEF KeyOK
    <3>2. ChildHashed(k[1], child, mem)
      BY <1>1, <2>1, <2>3 DEF MerkleInv, HashesOK, RootHashed
    <3> QED BY <2>2, <2>3, <3>1, <3>2 DEF ChildHashed, HashOf
  <2> QED BY <1>1, <2>1, <2>3, <2>4, <2>6, <2>7, NoWayUp
<1> QED BY <1>5, <1>6

LEMMA InvSound == MerkleInv => VerifySound
<1> SUFFICES ASSUME MerkleInv, ~filed, mem[Root] # None, NEW k \in Key, NEW value \in Strings,
                    Verify(value, GetRootHash, GetProof(k).proofs)
             PROVE  \/ value = values[k].value /\ value # Empty
                    \/ value = Empty /\ values[k].version = 0
  BY DEF VerifySound
<1>1. CASE values[k].version # 0
  BY <1>1, SoundWhenFound
<1>2. CASE values[k].version = 0
  BY <1>2, SoundWhenNotFound
<1> QED BY <1>1, <1>2

(* Nothing but the value of a key verifies with the proof given for it. *)
THEOREM VerifyIsSound == MerkleSpec => []VerifySound
  BY MerkleInvariant, InvSound, PTL

=============================================================================
