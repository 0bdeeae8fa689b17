----------------------- MODULE ActiveDeltaPages_proofs -----------------------
(* Proofs about ActiveDeltaPages, for every set of pids, pool size, delta   *)
(* page capacity, checkpoint interval and number of updates.                *)
EXTENDS ActiveDeltaPages, FiniteSetTheorems, TLAPS

(* The last Get's slot is still its page's, and is the one being updated. *)
HandedOwn ==
  /\ handed # None => cache[handed.pid] = handed.pos
  /\ call # None => handed # None /\ call.pid = handed.pid
(* Only the page being updated holds items. *)
Quiet == \A i \in Pos : page_pool[i].count # 0 => call # None /\ i = handed.pos
(* Store never meets a page with items, so the file stays empty. *)
DiskUnused == \A p \in Pid : delta_cache[p] = None
Counted == \A i \in Pos : page_pool[i].bcount < Tb
(* The last page key of p, as kept beside the pool. *)
HeadOf(p) ==
  IF pid_to_last_pagekey[p] # None THEN pid_to_last_pagekey[p]
  ELSE Promise!DeltaKey(p, 0)
(* A cached page that is not being updated has the key kept for it. *)
HeadsKept ==
  \A p \in Cached : (call # None /\ call.pid = p) \/ page_pool[cache[p]].last = HeadOf(p)

Inv == /\ TypeOK /\ OneOwner /\ HandedOwn /\ Quiet /\ DiskUnused
       /\ Counted /\ HeadsKept

-----------------------------------------------------------------------------
(* What a page load and an update return. *)

LEMMA Constants ==
  /\ max_size \in Nat /\ 0 < max_size /\ Root \in Pid /\ IsFiniteSet(Pid)
  /\ Td \in Nat /\ 0 < Td /\ Tb \in Nat /\ 0 < Tb
  /\ MaxVersion \in Nat /\ MaxUpdates \in Nat
  /\ \A p \in Pid : Weight[p] \in Nat /\ 0 < Weight[p]
<1>1. max_size \in Nat /\ 0 < max_size /\ Root \in Pid /\ IsFiniteSet(Pid)
  BY PoolAssumption
<1>2. Td \in Nat /\ 0 < Td
  BY PoolAssumption
<1>3. Tb \in Nat /\ 0 < Tb /\ MaxVersion \in Nat /\ MaxUpdates \in Nat
  BY PoolAssumption
<1>4. ASSUME NEW p \in Pid PROVE Weight[p] \in Nat /\ 0 < Weight[p]
  <2>1. Weight[p] \in {1, 2}
    BY PoolAssumption
  <2> QED
    BY <2>1
<1> QED
  BY <1>1, <1>2, <1>3, <1>4

LEMMA KeyTypes ==
  ASSUME NEW p \in Pid, NEW v \in Promise!Versions
  PROVE  Promise!DeltaKey(p, v) \in Promise!Key /\ Promise!BaseKey(p, v) \in Promise!Key
BY DEF Promise!DeltaKey, Promise!BaseKey, Promise!Key

LEMMA LoadedIs ==
  ASSUME TypeOK, DiskUnused, NEW p \in Pid, NEW b \in Nat
  PROVE  /\ Loaded(p, b) = [last |-> HeadOf(p), count |-> 0, bcount |-> b]
         /\ HeadOf(p) \in Promise!Key
         /\ Loaded(p, b) \in Promise!Page
<1>1. 0 \in Promise!Versions
  BY Constants DEF Promise!Versions
<1>2. HeadOf(p) \in Promise!Key
  BY <1>1, KeyTypes DEF HeadOf, TypeOK
<1>3. Loaded(p, b) = [last |-> HeadOf(p), count |-> 0, bcount |-> b]
  BY DEF Loaded, HeadOf, DiskUnused, Promise!DeltaKey
<1> QED
  BY <1>2, <1>3 DEF Promise!Page

LEMMA OpenedType ==
  ASSUME NEW a \in Promise!Page, NEW c \in Promise!Call, a.bcount < Tb
  PROVE  Promise!Opened(a, c) \in Promise!Page /\ Promise!Opened(a, c).bcount < Tb
<1>1. Promise!DeltaKey(c.pid, c.version) \in Promise!Key
  BY KeyTypes DEF Promise!Call
<1> QED
  BY <1>1 DEF Promise!Opened, Promise!Cleared, Promise!Page

LEMMA UpdatedType ==
  ASSUME NEW a \in Promise!Page, NEW c \in Promise!Call, a.bcount < Tb
  PROVE  Promise!Updated(a, c) \in Promise!Page /\ Promise!Updated(a, c).bcount < Tb
<1> DEFINE w == Weight[c.pid]
           dk == Promise!DeltaKey(c.pid, c.version)
           bk == Promise!BaseKey(c.pid, c.version)
           g == [last |-> a.last, count |-> a.count + w, bcount |-> a.bcount + w]
           r == IF g.count >= Td
                THEN [last |-> dk, count |-> 0, bcount |-> g.bcount] ELSE g
<1>1. w \in Nat /\ Tb \in Nat /\ 0 < Tb
  BY Constants DEF Promise!Call
<1>2. dk \in Promise!Key /\ bk \in Promise!Key
  BY KeyTypes DEF Promise!Call
<1>3. a.last \in Promise!Key /\ a.count \in Nat /\ a.bcount \in Nat
      /\ a = [last |-> a.last, count |-> a.count, bcount |-> a.bcount]
  BY DEF Promise!Page
<1>5. Promise!Updated(a, c) =
        IF c.exceed THEN a
        ELSE IF r.bcount >= Tb
          THEN [last |-> bk, count |-> r.count, bcount |-> 0]
        ELSE r
  BY DEF Promise!Updated, Promise!FreezeDue, Promise!CheckpointDue,
     Promise!Cleared, Promise!Checkpointed
<1>6. g \in Promise!Page
  BY <1>1, <1>3 DEF Promise!Page
<1>7. r \in Promise!Page
  BY <1>2, <1>6 DEF Promise!Page
<1> QED
  BY <1>1, <1>2, <1>5, <1>7 DEF Promise!Page

LEMMA ClosedType ==
  ASSUME NEW a \in Promise!Page, NEW c \in Promise!Call, a.bcount < Tb
  PROVE  /\ Promise!Closed(a, c) \in Promise!Page
         /\ Promise!Closed(a, c).bcount < Tb /\ Promise!Closed(a, c).count = 0
<1> DEFINE dk == Promise!DeltaKey(c.pid, c.version)
           bk == Promise!BaseKey(c.pid, c.version)
           r == IF c.exceed THEN [last |-> bk, count |-> a.count, bcount |-> 0] ELSE a
<1>1. dk \in Promise!Key /\ bk \in Promise!Key /\ Tb \in Nat /\ 0 < Tb
  BY KeyTypes, Constants DEF Promise!Call
<1>2. a.last \in Promise!Key /\ a.count \in Nat /\ a.bcount \in Nat
      /\ a = [last |-> a.last, count |-> a.count, bcount |-> a.bcount]
  BY DEF Promise!Page
<1>3. r \in Promise!Page /\ r.bcount < Tb
  BY <1>1, <1>2 DEF Promise!Page
<1>4. Promise!Closed(a, c) =
        IF r.count # 0 THEN [last |-> dk, count |-> 0, bcount |-> r.bcount] ELSE r
  BY DEF Promise!Closed, Promise!Checkpointed, Promise!Cleared
<1> QED
  BY <1>1, <1>3, <1>4 DEF Promise!Page

-----------------------------------------------------------------------------
(* The free queue. *)

(* With room in the cache the queue is not empty: otherwise the cached     *)
(* pids, fewer than the slots, would own them all.                         *)
LEMMA RoomMeansFree ==
  ASSUME TypeOK, OneOwner, Cardinality(Cached) < max_size
  PROVE  free_pages # <<>>
<1> SUFFICES ASSUME free_pages = <<>> PROVE FALSE
  OBVIOUS
<1> DEFINE f == [p \in Cached |-> cache[p]]
<1>1. \A i \in Pos : \E p \in Cached : cache[p] = i
  <2>1. Slots = {}
    BY DEF Slots
  <2> QED
    BY <2>1 DEF OneOwner
<1>2. f \in Surjection(Cached, Pos)
  <2>1. f \in [Cached -> Pos]
    BY DEF Cached, TypeOK
  <2>2. \A i \in Pos : \E p \in Cached : f[p] = i
    BY <1>1
  <2> QED
    BY <2>1, <2>2 DEF Surjection
<1>3. IsFiniteSet(Cached)
  BY Constants, FS_Subset DEF Cached
<1>4. Cardinality(Pos) <= Cardinality(Cached)
  BY <1>2, <1>3, FS_Surjection
<1>5. Cardinality(Pos) = max_size
  BY Constants, FS_Interval DEF Pos
<1> QED
  BY <1>3, <1>4, <1>5, Constants, FS_CardinalityType

(* Once the victim's slot is back in the queue, the queue holds each slot  *)
(* that no remaining cached pid owns, once.                                *)
LEMMA ReleasedOwners ==
  ASSUME TypeOK, OneOwner, NEW victim \in Victims
  PROVE  LET q == Released(victim)
         IN /\ q \in Seq(Pos) /\ Len(q) > 0
            /\ \A m, n \in 1..Len(q) : q[m] = q[n] => m = n
            /\ \A i \in Pos : (\E p \in Cached \ {victim} : cache[p] = i)
                               # (\E m \in 1..Len(q) : q[m] = i)
<1>1. CASE victim = None
  <2>1. Cardinality(Cached) < max_size
    <3>1. None \notin Cached
      BY NoneAssumption DEF Cached
    <3>2. IsFiniteSet(Cached)
      BY Constants, FS_Subset DEF Cached
    <3> QED
      BY <1>1, <3>1, <3>2, Constants, FS_CardinalityType DEF Victims
  <2>2. free_pages # <<>>
    BY <2>1, RoomMeansFree
  <2>3. Released(victim) = free_pages /\ Cached \ {victim} = Cached
    BY <1>1, NoneAssumption DEF Released, Cached
  <2>4. free_pages \in Seq(Pos) /\ Len(free_pages) \in Nat
    BY DEF TypeOK
  <2>5. Len(free_pages) > 0
    BY <2>2, <2>4
  <2>6. \A m, n \in 1..Len(free_pages) : free_pages[m] = free_pages[n] => m = n
    BY DEF OneOwner, Slots
  <2>7. \A i \in Pos : (\E p \in Cached : cache[p] = i)
                      # (\E m \in 1..Len(free_pages) : free_pages[m] = i)
    BY DEF OneOwner, Slots
  <2> QED
    BY <2>3, <2>4, <2>5, <2>6, <2>7, Zenon
<1>2. CASE victim # None
  <2> DEFINE i0 == cache[victim]
             q == Append(free_pages, i0)
  <2>1. victim \in Cached /\ i0 \in Pos
    BY <1>2 DEF Victims, Cached, TypeOK
  <2>2. Released(victim) = q
    BY <1>2 DEF Released
  <2>3. /\ q \in Seq(Pos) /\ Len(q) = Len(free_pages) + 1 /\ Len(free_pages) \in Nat
        /\ q[Len(q)] = i0 /\ \A m \in 1..Len(free_pages) : q[m] = free_pages[m]
    BY <2>1 DEF TypeOK
  <2>4. \A m \in Slots : free_pages[m] # i0
    BY <2>1 DEF OneOwner
  <2>5. \A p \in Cached \ {victim} : cache[p] # i0
    BY <2>1 DEF OneOwner
  <2> HIDE DEF i0, q
  <2>6. \A m, n \in 1..Len(q) : q[m] = q[n] => m = n
    BY <2>3, <2>4 DEF OneOwner, Slots
  <2>7. ASSUME NEW i \in Pos
        PROVE  (\E p \in Cached \ {victim} : cache[p] = i) # (\E m \in 1..Len(q) : q[m] = i)
    <3>1. CASE i = i0
      <4>1. \E m \in 1..Len(q) : q[m] = i
        BY <2>3, <3>1
      <4>2. ~ \E p \in Cached \ {victim} : cache[p] = i
        BY <2>5, <3>1
      <4> QED
        BY <4>1, <4>2
    <3>2. CASE i # i0
      <4>1. (\E m \in 1..Len(q) : q[m] = i) <=> (\E m \in Slots : free_pages[m] = i)
        BY <2>3, <3>2 DEF Slots
      <4>2. (\E p \in Cached \ {victim} : cache[p] = i) <=> (\E p \in Cached : cache[p] = i)
        BY <3>2 DEF i0
      <4>3. (\E p \in Cached : cache[p] = i) # (\E m \in Slots : free_pages[m] = i)
        BY DEF OneOwner
      <4> QED
        BY <4>1, <4>2, <4>3
    <3> QED
      BY <3>1, <3>2
  <2> QED
    BY <2>2, <2>3, <2>6, <2>7
<1> QED
  BY <1>1, <1>2

-----------------------------------------------------------------------------
(* The invariant. *)

LEMMA InitInv == Init => Inv
<1> SUFFICES ASSUME Init PROVE Inv
  OBVIOUS
<1>1. 0 \in Promise!Versions /\ Promise!NewPage(Root) \in Promise!Page
      /\ Promise!NewPage(Root).count = 0 /\ Promise!NewPage(Root).bcount = 0
  BY Constants, KeyTypes DEF Promise!Versions, Promise!NewPage, Promise!Page
<1>2. free_pages \in Seq(Pos) /\ Len(free_pages) = max_size
      /\ \A m \in 1..max_size : free_pages[m] = m - 1
  BY Constants DEF Init, Pos
<1>3. TypeOK
  BY <1>1, <1>2 DEF Init, TypeOK
<1>4. Cached = {}
  BY DEF Cached, Init
<1>5. OneOwner
  <2>1. ASSUME NEW i \in Pos PROVE \E m \in Slots : free_pages[m] = i
    <3>1. i + 1 \in 1..max_size /\ (i + 1) - 1 = i
      BY Constants DEF Pos
    <3> QED
      BY <1>2, <3>1 DEF Slots
  <2>2. \A m, n \in Slots : free_pages[m] = free_pages[n] => m = n
    BY <1>2, Constants DEF Slots
  <2> QED
    BY <1>4, <2>1, <2>2 DEF OneOwner
<1>6. HandedOwn /\ DiskUnused /\ HeadsKept
  BY <1>4 DEF Init, HandedOwn, DiskUnused, HeadsKept
<1>7. Quiet /\ Counted
  BY <1>1, Constants DEF Init, Quiet, Counted
<1> QED
  BY <1>3, <1>5, <1>6, <1>7 DEF Inv

LEMMA GetCachedKeeps ==
  ASSUME Inv, NEW p \in Pid, GetCached(p)
  PROVE  Inv'
<1>1. /\ handed' = [pid |-> p, pos |-> cache[p]] /\ call = None /\ cache[p] # None
      /\ UNCHANGED <<page_pool, free_pages, cache, pid_to_last_pagekey, delta_cache,
                     call, since>>
  BY DEF GetCached
<1>2. cache[p] \in Pos
  BY <1>1 DEF Inv, TypeOK
<1>3. TypeOK'
  BY <1>1, <1>2 DEF Inv, TypeOK
<1>4. HandedOwn'
  BY <1>1 DEF HandedOwn
<1>5. Quiet'
  BY <1>1 DEF Inv, Quiet
<1> QED
  BY <1>1, <1>3, <1>4, <1>5
  DEF Inv, OneOwner, Cached, Slots, DiskUnused, Counted, HeadsKept, HeadOf

LEMMA GetLoadedStep ==
  ASSUME Inv, NEW p \in Pid, NEW victim \in Pid \cup {None}, GetLoaded(p, victim)
  PROVE  /\ \E i \in Pos :
              /\ handed' = [pid |-> p, pos |-> i]
              /\ cache' = [q \in Pid |-> IF q = p THEN i
                                        ELSE IF q = victim THEN None ELSE cache[q]]
              /\ \A q \in Cached \ {victim} : cache[q] # i
              /\ page_pool' \in [Pos -> Promise!Page]
              /\ page_pool'[i].last = HeadOf(p) /\ page_pool'[i].count = 0
              /\ page_pool'[i].bcount \in 0..(Tb - 1)
              /\ \A j \in Pos \ {i} : page_pool'[j] = page_pool[j]
              /\ OneOwner' /\ free_pages' \in Seq(Pos)
         /\ call = None /\ cache[p] = None
         /\ victim # p
         /\ UNCHANGED <<pid_to_last_pagekey, delta_cache, call, since>>
<1> DEFINE q == Released(victim)
           i == Head(q)
<1>1. /\ call = None /\ cache[p] = None /\ victim \in Victims
      /\ page_pool' = [Swept(victim) EXCEPT ![i] = Loaded(p, @.bcount)]
      /\ free_pages' = Tail(q)
      /\ cache' = Reassigned(p, victim, i)
      /\ handed' = [pid |-> p, pos |-> i]
      /\ UNCHANGED <<pid_to_last_pagekey, delta_cache, call, since>>
  BY DEF GetLoaded
<1>2. /\ q \in Seq(Pos) /\ Len(q) > 0
      /\ \A m, n \in 1..Len(q) : q[m] = q[n] => m = n
      /\ \A j \in Pos : (\E r \in Cached \ {victim} : cache[r] = j)
                         # (\E m \in 1..Len(q) : q[m] = j)
  BY <1>1, ReleasedOwners DEF Inv
<1> HIDE DEF q
<1>3. i = q[1] /\ i \in Pos /\ Len(q) \in Nat /\ 1 \in 1..Len(q)
  BY <1>2
<1>4. /\ Tail(q) \in Seq(Pos) /\ Len(Tail(q)) = Len(q) - 1
      /\ \A m \in 1..Len(Tail(q)) : Tail(q)[m] = q[m + 1]
  BY <1>2, <1>3
<1> HIDE DEF i
<1>5. victim # p
  BY <1>1, NoneAssumption DEF Victims, Cached
<1>6. \A r \in Cached \ {victim} : cache[r] # i
  BY <1>2, <1>3
<1>7. Swept(victim) = page_pool
  <2>1. CASE victim = None
    BY <2>1 DEF Swept
  <2>2. CASE victim # None
    <3> DEFINE c == cache[victim]
    <3>1. victim \in Cached
      BY <1>1, <2>2 DEF Victims
    <3>2. c \in Pos
      BY <3>1 DEF Cached, Inv, TypeOK
    <3>3. page_pool[c] \in Promise!Page /\ page_pool[c].count = 0
      BY <1>1, <3>2 DEF Inv, TypeOK, Quiet
    <3>4. [page_pool[c] EXCEPT !.count = 0] = page_pool[c]
      BY <3>3 DEF Promise!Page
    <3>5. Swept(victim) = [page_pool EXCEPT ![c] = [page_pool[c] EXCEPT !.count = 0]]
      BY <2>2 DEF Swept
    <3>6. page_pool \in [Pos -> Promise!Page]
      BY DEF Inv, TypeOK
    <3> HIDE DEF c
    <3> QED
      BY <3>2, <3>4, <3>5, <3>6
  <2> QED
    BY <2>1, <2>2
<1>8. /\ page_pool[i] \in Promise!Page /\ page_pool[i].bcount \in Nat
      /\ page_pool[i].bcount < Tb /\ Tb \in Nat
  BY <1>3, Constants DEF Inv, TypeOK, Counted, Promise!Page
<1>9. /\ page_pool' = [page_pool EXCEPT ![i] = Loaded(p, page_pool[i].bcount)]
      /\ Loaded(p, page_pool[i].bcount)
           = [last |-> HeadOf(p), count |-> 0, bcount |-> page_pool[i].bcount]
      /\ Loaded(p, page_pool[i].bcount) \in Promise!Page
  BY <1>1, <1>7, <1>8, LoadedIs DEF Inv
<1>10. /\ page_pool' \in [Pos -> Promise!Page]
       /\ page_pool'[i].last = HeadOf(p) /\ page_pool'[i].count = 0
       /\ page_pool'[i].bcount \in 0..(Tb - 1)
       /\ \A j \in Pos \ {i} : page_pool'[j] = page_pool[j]
  <2>1. page_pool \in [Pos -> Promise!Page]
    BY DEF Inv, TypeOK
  <2> QED
    BY <1>3, <1>8, <1>9, <2>1
<1>11. cache' = [r \in Pid |-> IF r = p THEN i
                               ELSE IF r = victim THEN None ELSE cache[r]]
  BY <1>1 DEF Reassigned
<1>12. Cached' = (Cached \ {victim}) \cup {p} /\ p \notin Cached
       /\ cache'[p] = i /\ \A r \in Cached \ {victim} : cache'[r] = cache[r]
  BY <1>1, <1>3, <1>5, <1>11, NoneAssumption DEF Cached
<1>13. OneOwner'
  <2>1. \A r, t \in Cached' : cache'[r] = cache'[t] => r = t
    BY <1>6, <1>12 DEF Inv, OneOwner
  <2>2. Slots' = 1..(Len(q) - 1) /\ \A m \in Slots' : free_pages'[m] = q[m + 1]
    BY <1>1, <1>4 DEF Slots
  <2>3. \A m, n \in Slots' : free_pages'[m] = free_pages'[n] => m = n
    BY <1>2, <1>3, <2>2
  <2>4. ASSUME NEW j \in Pos
        PROVE  (\E r \in Cached' : cache'[r] = j) # (\E m \in Slots' : free_pages'[m] = j)
    <3>1. CASE j = i
      <4>1. \E r \in Cached' : cache'[r] = j
        BY <1>12, <3>1
      <4>2. ~ \E m \in Slots' : free_pages'[m] = j
        <5>1. \A m \in Slots' : q[m + 1] # q[1]
          BY <1>2, <1>3, <2>2
        <5> QED
          BY <1>3, <2>2, <3>1, <5>1
      <4> QED
        BY <4>1, <4>2
    <3>2. CASE j # i
      <4>1. (\E r \in Cached' : cache'[r] = j)
              <=> (\E r \in Cached \ {victim} : cache[r] = j)
        BY <1>12, <3>2
      <4>2. (\E m \in Slots' : free_pages'[m] = j) <=> (\E m \in 1..Len(q) : q[m] = j)
        <5>1. ASSUME NEW m \in 1..Len(q), q[m] = j
              PROVE  \E n \in Slots' : free_pages'[n] = j
          <6>1. m # 1
            BY <1>3, <3>2, <5>1
          <6>2. m - 1 \in Slots' /\ (m - 1) + 1 = m
            BY <1>3, <2>2, <6>1
          <6> QED
            BY <2>2, <5>1, <6>2
        <5>2. ASSUME NEW m \in Slots', free_pages'[m] = j
              PROVE  \E n \in 1..Len(q) : q[n] = j
          <6>1. m + 1 \in 1..Len(q)
            BY <1>3, <2>2
          <6> QED
            BY <2>2, <5>2, <6>1
        <5> QED
          BY <5>1, <5>2
      <4> QED
        BY <1>2, <4>1, <4>2
    <3> QED
      BY <3>1, <3>2
  <2> QED
    BY <2>1, <2>3, <2>4 DEF OneOwner, Pos
<1> QED
  BY <1>1, <1>3, <1>4, <1>5, <1>6, <1>10, <1>11, <1>13

LEMMA GetLoadedKeeps ==
  ASSUME Inv, NEW p \in Pid, NEW victim \in Pid \cup {None}, GetLoaded(p, victim)
  PROVE  Inv'
<1>1. PICK i \in Pos :
        /\ handed' = [pid |-> p, pos |-> i]
        /\ cache' = [q \in Pid |-> IF q = p THEN i
                                  ELSE IF q = victim THEN None ELSE cache[q]]
        /\ \A q \in Cached \ {victim} : cache[q] # i
        /\ page_pool' \in [Pos -> Promise!Page]
        /\ page_pool'[i].last = HeadOf(p) /\ page_pool'[i].count = 0
        /\ page_pool'[i].bcount \in 0..(Tb - 1)
        /\ \A j \in Pos \ {i} : page_pool'[j] = page_pool[j]
        /\ OneOwner' /\ free_pages' \in Seq(Pos)
  BY GetLoadedStep
<1>2. call = None /\ cache[p] = None /\ victim # p
      /\ UNCHANGED <<pid_to_last_pagekey, delta_cache, call, since>>
  BY GetLoadedStep
<1>3. TypeOK'
  <2>1. cache' \in [Pid -> Pos \cup {None}]
    BY <1>1 DEF Inv, TypeOK
  <2> QED
    BY <1>1, <1>2, <2>1 DEF Inv, TypeOK
<1>4. HandedOwn'
  BY <1>1, <1>2 DEF HandedOwn
<1>5. Quiet'
  BY <1>1, <1>2 DEF Inv, Quiet
<1>6. Counted'
  BY <1>1, Constants DEF Inv, Counted
<1>7. HeadsKept'
  <2> SUFFICES ASSUME NEW q \in Cached'
               PROVE  page_pool'[cache'[q]].last = HeadOf(q)'
    BY DEF HeadsKept
  <2>1. q \in Pid /\ HeadOf(q)' = HeadOf(q)
    BY <1>2 DEF Cached, HeadOf
  <2>2. CASE q = p
    BY <1>1, <2>1, <2>2
  <2>3. CASE q # p
    <3>1. q \in Cached \ {victim} /\ cache'[q] = cache[q] /\ cache[q] \in Pos
      BY <1>1, <2>1, <2>3 DEF Cached, Inv, TypeOK
    <3> QED
      BY <1>1, <1>2, <2>1, <3>1 DEF Inv, HeadsKept
  <2> QED
    BY <2>2, <2>3
<1> QED
  BY <1>1, <1>2, <1>3, <1>4, <1>5, <1>6, <1>7 DEF Inv, DiskUnused

(* A step that writes x to the page in hand and leaves the slots alone. *)
LEMMA WriteKeeps ==
  ASSUME Inv, handed # None, NEW x \in Promise!Page, x.bcount < Tb,
         page_pool' = [page_pool EXCEPT ![handed.pos] = x],
         UNCHANGED <<free_pages, cache, delta_cache, handed>>,
         call' # None => call'.pid = handed.pid,
         call' = None => x.count = 0,
         call' \in Promise!Call \cup {None}, since' \in [Pid -> Nat],
         \/ pid_to_last_pagekey' = pid_to_last_pagekey /\ call' # None
         \/ /\ pid_to_last_pagekey'
                  = [pid_to_last_pagekey EXCEPT ![handed.pid] = x.last]
            /\ call' = None /\ call # None
  PROVE  Inv'
<1>1. /\ handed \in [pid : Pid, pos : Pos] /\ handed.pid \in Pid /\ handed.pos \in Pos
      /\ cache[handed.pid] = handed.pos
  BY DEF Inv, TypeOK, HandedOwn
<1>2. x.last \in Promise!Key /\ x.last # None
  BY NoneAssumption DEF Promise!Page
<1>3. /\ page_pool \in [Pos -> Promise!Page] /\ page_pool' \in [Pos -> Promise!Page]
      /\ page_pool'[handed.pos] = x
      /\ \A i \in Pos \ {handed.pos} : page_pool'[i] = page_pool[i]
  BY <1>1 DEF Inv, TypeOK
<1>4. TypeOK'
  <2>1. pid_to_last_pagekey' \in [Pid -> Promise!Key \cup {None}]
    BY <1>1, <1>2 DEF Inv, TypeOK
  <2> QED
    BY <1>3, <2>1 DEF Inv, TypeOK
<1>5. OneOwner' /\ DiskUnused'
  BY DEF Inv, OneOwner, Cached, Slots, DiskUnused
<1>6. HandedOwn'
  BY DEF Inv, HandedOwn
<1>7. Quiet'
  BY <1>3 DEF Inv, Quiet, HandedOwn
<1>8. Counted'
  BY <1>3 DEF Inv, Counted
<1>9. HeadsKept'
  <2> SUFFICES ASSUME NEW q \in Cached', ~(call' # None /\ call'.pid = q)
               PROVE  page_pool'[cache'[q]].last = HeadOf(q)'
    BY DEF HeadsKept
  <2>1. q \in Cached /\ q \in Pid /\ cache[q] \in Pos /\ cache'[q] = cache[q]
    BY DEF Cached, Inv, TypeOK
  <2>2. CASE q = handed.pid
    <3>1. call' = None
      BY <2>2
    <3>2. pid_to_last_pagekey'[q] = x.last
      BY <1>1, <2>2, <3>1 DEF Inv, TypeOK
    <3> QED
      BY <1>1, <1>2, <1>3, <2>1, <2>2, <3>2 DEF HeadOf
  <2>3. CASE q # handed.pid
    <3>1. handed.pid \in Cached /\ cache[q] # handed.pos
      BY <1>1, <2>1, <2>3, NoneAssumption DEF Cached, Inv, OneOwner
    <3>2. pid_to_last_pagekey'[q] = pid_to_last_pagekey[q]
      BY <1>1, <2>1, <2>3 DEF Inv, TypeOK
    <3>3. HeadOf(q)' = HeadOf(q)
      BY <3>2 DEF HeadOf
    <3>4. page_pool[cache[q]].last = HeadOf(q)
      BY <2>1, <2>3 DEF Inv, HeadsKept, HandedOwn
    <3> QED
      BY <1>3, <2>1, <3>1, <3>3, <3>4
  <2> QED
    BY <2>2, <2>3
<1> QED
  BY <1>4, <1>5, <1>6, <1>7, <1>8, <1>9 DEF Inv

(* What each step of CalcRootHash writes through the pointer. *)
LEMMA HandedPage ==
  ASSUME Inv, handed # None
  PROVE  /\ handed.pid \in Pid /\ handed.pos \in Pos /\ cache[handed.pid] = handed.pos
         /\ Page = page_pool[handed.pos] /\ Page \in Promise!Page /\ Page.bcount < Tb
         /\ Page = ActiveOf(handed.pid)
<1>1. handed \in [pid : Pid, pos : Pos] /\ handed.pid \in Pid /\ handed.pos \in Pos
      /\ cache[handed.pid] = handed.pos
  BY DEF Inv, TypeOK, HandedOwn
<1>2. page_pool[handed.pos] \in Promise!Page /\ page_pool[handed.pos].bcount < Tb
  BY <1>1 DEF Inv, TypeOK, Counted
<1>3. cache[handed.pid] # None
  BY <1>1, NoneAssumption
<1> QED
  BY <1>1, <1>2, <1>3 DEF Page, ActiveOf

LEMMA BeginKeeps ==
  ASSUME Inv, NEW v \in Promise!Versions, NEW n \in 1..MaxUpdates, Begin(v, n)
  PROVE  Inv' /\ call' \in Promise!Call
<1>1. /\ handed # None
      /\ call' = [pid |-> handed.pid, version |-> v,
                  exceed |-> Promise!Exceeds(Page, n), left |-> n]
      /\ page_pool' = [page_pool EXCEPT ![handed.pos] = Promise!Opened(@, call')]
      /\ UNCHANGED <<free_pages, cache, pid_to_last_pagekey, delta_cache, handed, since>>
  BY DEF Begin
<1>2. /\ handed.pid \in Pid /\ Page = page_pool[handed.pos]
      /\ Page \in Promise!Page /\ Page.bcount < Tb
  BY <1>1, HandedPage
<1>3. call' \in Promise!Call
  <2>1. n \in 0..MaxUpdates
    BY Constants
  <2>2. Promise!Exceeds(Page, n) \in BOOLEAN
    BY DEF Promise!Exceeds
  <2> QED
    BY <1>1, <1>2, <2>1, <2>2 DEF Promise!Call
<1>4. call' # None
  BY <1>3, NoneAssumption
<1>5. Promise!Opened(Page, call') \in Promise!Page /\ Promise!Opened(Page, call').bcount < Tb
  BY <1>2, <1>3, OpenedType
<1>6. page_pool' = [page_pool EXCEPT ![handed.pos] = Promise!Opened(Page, call')]
  BY <1>1, <1>2
<1>7. call'.pid = handed.pid
  BY <1>1
<1>8. since' \in [Pid -> Nat]
  BY <1>1 DEF Inv, TypeOK
<1>9. Inv'
  BY <1>1, <1>3, <1>4, <1>5, <1>6, <1>7, <1>8, WriteKeeps
<1> QED
  BY <1>3, <1>9

LEMMA UpdateKeeps == Inv /\ Update => Inv'
<1> SUFFICES ASSUME Inv, Update PROVE Inv'
  OBVIOUS
<1>1. /\ call # None /\ call.left > 0 /\ handed # None /\ call.pid = handed.pid
      /\ call' = [call EXCEPT !.left = @ - 1]
      /\ page_pool' = [page_pool EXCEPT ![handed.pos] = Promise!Updated(@, call)]
      /\ since' = [since EXCEPT ![call.pid] =
                     IF ~call.exceed /\ page_pool'[handed.pos].bcount = 0 THEN 0
                     ELSE @ + Weight[call.pid]]
      /\ UNCHANGED <<free_pages, cache, pid_to_last_pagekey, delta_cache, handed>>
  BY DEF Inv, HandedOwn, Update
<1>2. /\ handed.pid \in Pid /\ Page = page_pool[handed.pos]
      /\ Page \in Promise!Page /\ Page.bcount < Tb
  BY <1>1, HandedPage
<1>3. call \in Promise!Call
  BY <1>1 DEF Inv, TypeOK
<1>4. call' \in Promise!Call /\ call'.pid = call.pid
  BY <1>1, <1>3, Constants DEF Promise!Call
<1>5. Promise!Updated(Page, call) \in Promise!Page /\ Promise!Updated(Page, call).bcount < Tb
  BY <1>2, <1>3, UpdatedType
<1>6. page_pool' = [page_pool EXCEPT ![handed.pos] = Promise!Updated(Page, call)]
  BY <1>1, <1>2
<1>7. since' \in [Pid -> Nat]
  <2> DEFINE w == Weight[call.pid]
             n == IF ~call.exceed /\ page_pool'[handed.pos].bcount = 0 THEN 0
                  ELSE since[call.pid] + w
  <2>1. since \in [Pid -> Nat] /\ call.pid \in Pid /\ w \in Nat
    BY <1>1, <1>2, Constants DEF Inv, TypeOK
  <2>2. n \in Nat
    BY <2>1
  <2>3. since' = [since EXCEPT ![call.pid] = n]
    BY <1>1
  <2> HIDE DEF n
  <2> QED
    BY <2>1, <2>2, <2>3
<1>8. call' # None
  BY <1>4, NoneAssumption
<1> QED
  BY <1>1, <1>4, <1>5, <1>6, <1>7, <1>8, WriteKeeps

(* The page stored is empty: Store keeps its key beside the pool. *)
LEMMA EndStep ==
  ASSUME Inv, End
  PROVE  /\ handed # None /\ call # None /\ call.pid = handed.pid /\ call.left = 0
         /\ call \in Promise!Call /\ call' = None
         /\ page_pool' = [page_pool EXCEPT ![handed.pos] = Promise!Closed(Page, call)]
         /\ Promise!Closed(Page, call) \in Promise!Page
         /\ Promise!Closed(Page, call).count = 0
         /\ Promise!Closed(Page, call).bcount < Tb
         /\ pid_to_last_pagekey' = [pid_to_last_pagekey EXCEPT ![handed.pid] =
                                      Promise!Closed(Page, call).last]
         /\ since' = [since EXCEPT ![call.pid] = IF call.exceed THEN 0 ELSE @]
         /\ UNCHANGED <<free_pages, cache, delta_cache, handed>>
<1>1. /\ call # None /\ call.left = 0 /\ handed # None /\ call.pid = handed.pid
      /\ call' = None
      /\ page_pool' = [page_pool EXCEPT ![handed.pos] = Promise!Closed(@, call)]
      /\ Store(call.pid, page_pool'[handed.pos])
      /\ since' = [since EXCEPT ![call.pid] = IF call.exceed THEN 0 ELSE @]
      /\ UNCHANGED <<free_pages, cache, handed>>
  BY DEF Inv, HandedOwn, End
<1>2. /\ handed.pos \in Pos /\ Page = page_pool[handed.pos]
      /\ Page \in Promise!Page /\ Page.bcount < Tb
  BY <1>1, HandedPage
<1>3. call \in Promise!Call
  BY <1>1 DEF Inv, TypeOK
<1>4. /\ Promise!Closed(Page, call) \in Promise!Page
      /\ Promise!Closed(Page, call).count = 0 /\ Promise!Closed(Page, call).bcount < Tb
  BY <1>2, <1>3, ClosedType
<1>5. page_pool' = [page_pool EXCEPT ![handed.pos] = Promise!Closed(Page, call)]
      /\ page_pool'[handed.pos] = Promise!Closed(Page, call)
  BY <1>1, <1>2 DEF Inv, TypeOK
<1> QED
  BY <1>1, <1>3, <1>4, <1>5 DEF Store

LEMMA EndKeeps == Inv /\ End => Inv'
<1> SUFFICES ASSUME Inv, End PROVE Inv'
  OBVIOUS
<1>1. since' \in [Pid -> Nat]
  <2>1. since \in [Pid -> Nat]
    BY DEF Inv, TypeOK
  <2>2. since' = [since EXCEPT ![call.pid] = IF call.exceed THEN 0 ELSE @]
    BY EndStep
  <2>3. call.pid \in Pid
    BY EndStep DEF Promise!Call
  <2>4. (IF call.exceed THEN 0 ELSE since[call.pid]) \in Nat
    BY <2>1, <2>3
  <2> QED
    BY <2>1, <2>2, <2>4
<1> QED
  BY <1>1, EndStep, WriteKeeps

LEMMA NextKeeps == Inv /\ [Next]_vars => Inv'
<1> SUFFICES ASSUME Inv, [Next]_vars PROVE Inv'
  OBVIOUS
<1>1. CASE \E p \in Pid : GetCached(p)
  BY <1>1, GetCachedKeeps
<1>2. CASE \E p \in Pid, victim \in Pid \cup {None} : GetLoaded(p, victim)
  BY <1>2, GetLoadedKeeps
<1>3. CASE \E v \in Promise!Versions, n \in 1..MaxUpdates : Begin(v, n)
  BY <1>3, BeginKeeps
<1>4. CASE Update
  BY <1>4, UpdateKeeps
<1>5. CASE End
  BY <1>5, EndKeeps
<1>6. CASE UNCHANGED vars
  BY <1>6 DEF vars, Inv, TypeOK, OneOwner, Cached, Slots, HandedOwn, Quiet, DiskUnused,
     Counted, HeadsKept, HeadOf
<1> QED
  BY <1>1, <1>2, <1>3, <1>4, <1>5, <1>6 DEF Next

LEMMA Invariance == Spec => []Inv
BY InitInv, NextKeeps, PTL DEF Spec

(* The pool's state keeps its types, for every pool and every set of pids. *)
THEOREM TypeCorrect == Spec => []TypeOK
<1>1. Inv => TypeOK
  BY DEF Inv
<1> QED
  BY <1>1, Invariance, PTL

(* No two pages ever share a slot and no slot is lost: the bookkeeping of  *)
(* Get and evictIfNeeded, for every order of loads and evictions.          *)
THEOREM SlotsHaveOneOwner == Spec => []OneOwner
<1>1. Inv => OneOwner
  BY DEF Inv
<1> QED
  BY <1>1, Invariance, PTL

-----------------------------------------------------------------------------
(* The refinement. *)

LEMMA ActiveType ==
  ASSUME Inv, NEW p \in Pid
  PROVE  /\ ActiveOf(p) \in Promise!Page /\ Active[p] = ActiveOf(p)
         /\ p \notin Cached =>
              ActiveOf(p) = [last |-> HeadOf(p), count |-> 0, bcount |-> 0]
<1>1. Active[p] = ActiveOf(p)
  BY DEF Active
<1>2. CASE p \in Cached
  <2>1. cache[p] \in Pos /\ cache[p] # None
    BY <1>2 DEF Cached, Inv, TypeOK
  <2> QED
    BY <1>1, <1>2, <2>1 DEF ActiveOf, Inv, TypeOK
<1>3. CASE p \notin Cached
  <2>1. ActiveOf(p) = Loaded(p, 0)
    BY <1>3 DEF Cached, ActiveOf
  <2>2. Loaded(p, 0) = [last |-> HeadOf(p), count |-> 0, bcount |-> 0]
        /\ Loaded(p, 0) \in Promise!Page
    BY LoadedIs DEF Inv
  <2> QED
    BY <1>1, <2>1, <2>2
<1> QED
  BY <1>2, <1>3

(* Writing the page in hand is writing that pid's page, and no other's. *)
LEMMA WriteMaps ==
  ASSUME Inv, Inv', handed # None, NEW x,
         page_pool' = [page_pool EXCEPT ![handed.pos] = x],
         UNCHANGED cache,
         \A q \in Pid \ {handed.pid} : pid_to_last_pagekey'[q] = pid_to_last_pagekey[q]
  PROVE  Active' = [Active EXCEPT ![handed.pid] = x]
<1>1. handed.pid \in Pid /\ handed.pos \in Pos /\ cache[handed.pid] = handed.pos
      /\ handed.pos # None
  BY HandedPage, NoneAssumption
<1>2. page_pool'[handed.pos] = x
      /\ \A i \in Pos \ {handed.pos} : page_pool'[i] = page_pool[i]
  BY <1>1 DEF Inv, TypeOK
<1>3. ASSUME NEW q \in Pid
      PROVE  ActiveOf(q)' = IF q = handed.pid THEN x ELSE ActiveOf(q)
  <2>1. CASE q = handed.pid
    BY <1>1, <1>2, <2>1 DEF ActiveOf
  <2>2. CASE q # handed.pid /\ cache[q] # None
    <3>1. cache[q] \in Pos /\ cache[q] # handed.pos
      BY <1>1, <2>2 DEF Inv, TypeOK, OneOwner, Cached
    <3> QED
      BY <1>2, <2>2, <3>1 DEF ActiveOf
  <2>3. CASE q # handed.pid /\ cache[q] = None
    <3>1. ActiveOf(q) = [last |-> HeadOf(q), count |-> 0, bcount |-> 0]
      BY <2>3, ActiveType DEF Cached
    <3>2. delta_cache'[q] = None /\ cache'[q] = None
      BY <2>3 DEF Inv, DiskUnused
    <3>3. ActiveOf(q)' = [last |-> HeadOf(q)', count |-> 0, bcount |-> 0]
      BY <3>2 DEF ActiveOf, Loaded, HeadOf, Promise!DeltaKey
    <3>4. HeadOf(q)' = HeadOf(q)
      BY <2>3 DEF HeadOf
    <3> QED
      BY <2>3, <3>1, <3>3, <3>4
  <2> QED
    BY <2>1, <2>2, <2>3
<1> QED
  BY <1>3 DEF Active

LEMMA InitMaps == Init => Promise!Init
<1> SUFFICES ASSUME Init PROVE Promise!Init
  OBVIOUS
<1>1. ASSUME NEW p \in Pid PROVE ActiveOf(p) = Promise!NewPage(p)
  BY DEF Init, ActiveOf, Loaded, Promise!NewPage, Promise!DeltaKey
<1> QED
  BY <1>1 DEF Init, Active, Promise!Init

(* Loading a page, and evicting another for it, recounts at most. *)
LEMMA LoadMaps ==
  ASSUME Inv, Inv', NEW p \in Pid, NEW victim \in Pid \cup {None}, GetLoaded(p, victim)
  PROVE  Promise!Recount
<1>1. PICK i \in Pos :
        /\ handed' = [pid |-> p, pos |-> i]
        /\ cache' = [q \in Pid |-> IF q = p THEN i
                                  ELSE IF q = victim THEN None ELSE cache[q]]
        /\ \A q \in Cached \ {victim} : cache[q] # i
        /\ page_pool' \in [Pos -> Promise!Page]
        /\ page_pool'[i].last = HeadOf(p) /\ page_pool'[i].count = 0
        /\ page_pool'[i].bcount \in 0..(Tb - 1)
        /\ \A j \in Pos \ {i} : page_pool'[j] = page_pool[j]
        /\ OneOwner' /\ free_pages' \in Seq(Pos)
  BY GetLoadedStep
<1>2. call = None /\ cache[p] = None /\ victim # p
      /\ UNCHANGED <<pid_to_last_pagekey, delta_cache, call, since>>
  BY GetLoadedStep
<1>3. i # None /\ 0 \in 0..(Tb - 1)
  BY NoneAssumption, Constants
<1>4. ASSUME NEW q \in Pid
      PROVE  Promise!Recounted(ActiveOf(q), ActiveOf(q)')
  <2>1. HeadOf(q)' = HeadOf(q)
    BY <1>2 DEF HeadOf
  <2>2. CASE q = p
    <3>1. ActiveOf(q) = [last |-> HeadOf(p), count |-> 0, bcount |-> 0]
      BY <1>2, <2>2, ActiveType DEF Cached
    <3>2. ActiveOf(q)' = page_pool'[i] /\ page_pool'[i] \in Promise!Page
      BY <1>1, <1>3, <2>2 DEF ActiveOf
    <3>3. page_pool'[i]
            = [last |-> HeadOf(p), count |-> 0, bcount |-> page_pool'[i].bcount]
      BY <1>1, <3>2 DEF Promise!Page
    <3> QED
      BY <1>1, <3>1, <3>2, <3>3 DEF Promise!Recounted
  <2>3. CASE q # p /\ q = victim
    <3>1. cache'[q] = None /\ delta_cache'[q] = None
      BY <1>1, <2>3 DEF Inv, DiskUnused
    <3>2. ActiveOf(q)' = [last |-> HeadOf(q), count |-> 0, bcount |-> 0]
      BY <2>1, <3>1 DEF ActiveOf, Loaded, HeadOf, Promise!DeltaKey
    <3>3. ActiveOf(q).last = HeadOf(q) /\ ActiveOf(q).count = 0
      <4>1. CASE q \in Cached
        <5>1. cache[q] \in Pos /\ cache[q] # None
          BY <4>1 DEF Cached, Inv, TypeOK
        <5> QED
          BY <1>2, <4>1, <5>1 DEF ActiveOf, Inv, Quiet, HeadsKept
      <4>2. CASE q \notin Cached
        BY <4>2, ActiveType
      <4> QED
        BY <4>1, <4>2
    <3> QED
      BY <1>3, <3>2, <3>3 DEF Promise!Recounted
  <2>4. CASE q # p /\ q # victim
    <3>1. cache'[q] = cache[q]
      BY <1>1, <2>4
    <3>2. CASE cache[q] # None
      <4>1. cache[q] \in Pos /\ cache[q] # i
        BY <1>1, <2>4, <3>2 DEF Cached, Inv, TypeOK
      <4> QED
        BY <1>1, <3>1, <3>2, <4>1 DEF ActiveOf, Promise!Recounted
    <3>3. CASE cache[q] = None
      BY <1>2, <3>1, <3>3 DEF ActiveOf, Loaded, Promise!Recounted
    <3> QED
      BY <3>2, <3>3
  <2> QED
    BY <2>2, <2>3, <2>4
<1>5. Active' = [q \in Pid |-> Active'[q]]
      /\ \A q \in Pid : Active[q] = ActiveOf(q) /\ Active'[q] = ActiveOf(q)'
  BY DEF Active
<1> QED
  BY <1>2, <1>4, <1>5 DEF Promise!Recount

LEMMA BeginMaps ==
  ASSUME Inv, Inv', NEW v \in Promise!Versions, NEW n \in 1..MaxUpdates, Begin(v, n)
  PROVE  \E p \in Pid : Promise!Begin(p, v, n)
<1>1. /\ handed # None /\ call = None /\ v > Page.last.version
      /\ call' = [pid |-> handed.pid, version |-> v,
                  exceed |-> Promise!Exceeds(Page, n), left |-> n]
      /\ page_pool' = [page_pool EXCEPT ![handed.pos] = Promise!Opened(@, call')]
      /\ UNCHANGED <<free_pages, cache, pid_to_last_pagekey, delta_cache, handed, since>>
  BY DEF Begin
<1>2. handed.pid \in Pid /\ Page = page_pool[handed.pos] /\ Page = ActiveOf(handed.pid)
      /\ Active[handed.pid] = Page
  BY <1>1, HandedPage, ActiveType
<1>3. Active' = [Active EXCEPT ![handed.pid] = Promise!Opened(Page, call')]
  BY <1>1, <1>2, WriteMaps
<1>4. Active' = [Active EXCEPT ![handed.pid] = Promise!Opened(@, call')]
  BY <1>2, <1>3
<1> QED
  BY <1>1, <1>2, <1>4 DEF Promise!Begin

LEMMA UpdateMaps ==
  ASSUME Inv, Inv', Update
  PROVE  Promise!Update
<1>1. /\ call # None /\ call.left > 0 /\ handed # None /\ call.pid = handed.pid
      /\ call' = [call EXCEPT !.left = @ - 1]
      /\ page_pool' = [page_pool EXCEPT ![handed.pos] = Promise!Updated(@, call)]
      /\ UNCHANGED <<free_pages, cache, pid_to_last_pagekey, delta_cache, handed>>
  BY DEF Inv, HandedOwn, Update
<1>2. handed.pid \in Pid /\ Page = page_pool[handed.pos] /\ Active[handed.pid] = Page
  BY <1>1, HandedPage, ActiveType
<1>3. Active' = [Active EXCEPT ![handed.pid] = Promise!Updated(Page, call)]
  BY <1>1, <1>2, WriteMaps
<1>4. Active' = [Active EXCEPT ![call.pid] = Promise!Updated(@, call)]
  BY <1>1, <1>2, <1>3
<1> QED
  BY <1>1, <1>4 DEF Promise!Update

LEMMA EndMaps ==
  ASSUME Inv, Inv', End
  PROVE  Promise!End
<1>1. /\ handed # None /\ call # None /\ call.pid = handed.pid /\ call.left = 0
      /\ call' = None
      /\ page_pool' = [page_pool EXCEPT ![handed.pos] = Promise!Closed(Page, call)]
      /\ pid_to_last_pagekey' = [pid_to_last_pagekey EXCEPT ![handed.pid] =
                                   Promise!Closed(Page, call).last]
      /\ UNCHANGED <<free_pages, cache, delta_cache, handed>>
  BY EndStep
<1>2. handed.pid \in Pid /\ Active[handed.pid] = Page
  BY <1>1, HandedPage, ActiveType
<1>3. \A q \in Pid \ {handed.pid} : pid_to_last_pagekey'[q] = pid_to_last_pagekey[q]
  BY <1>1 DEF Inv, TypeOK
<1>4. Active' = [Active EXCEPT ![handed.pid] = Promise!Closed(Page, call)]
  BY <1>1, <1>3, WriteMaps
<1>5. Active' = [Active EXCEPT ![call.pid] = Promise!Closed(@, call)]
  BY <1>1, <1>2, <1>4
<1> QED
  BY <1>1, <1>5 DEF Promise!End

LEMMA NextMaps == Inv /\ Inv' /\ [Next]_vars => [Promise!Next]_(Promise!vars)
<1> SUFFICES ASSUME Inv, Inv', [Next]_vars PROVE [Promise!Next]_(Promise!vars)
  OBVIOUS
<1>1. CASE \E p \in Pid : GetCached(p)
  BY <1>1 DEF GetCached, Promise!vars, Active, ActiveOf, Loaded
<1>2. CASE \E p \in Pid, victim \in Pid \cup {None} : GetLoaded(p, victim)
  BY <1>2, LoadMaps DEF Promise!Next
<1>3. CASE \E v \in Promise!Versions, n \in 1..MaxUpdates : Begin(v, n)
  BY <1>3, BeginMaps DEF Promise!Next
<1>4. CASE Update
  BY <1>4, UpdateMaps DEF Promise!Next
<1>5. CASE End
  BY <1>5, EndMaps DEF Promise!Next
<1>6. CASE UNCHANGED vars
  BY <1>6 DEF vars, Promise!vars, Active, ActiveOf, Loaded
<1> QED
  BY <1>1, <1>2, <1>3, <1>4, <1>5, <1>6 DEF Next

(* Evicting and reloading pages is invisible to CalcRootHash but for the   *)
(* update counts: the pool implements one delta page per pid.              *)
THEOREM PoolImplementsPromise == Spec => Implements
BY InitMaps, NextMaps, Invariance, PTL DEF Spec, Implements, Promise!Spec

=============================================================================
