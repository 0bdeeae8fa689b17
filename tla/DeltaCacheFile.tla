--------------------------- MODULE DeltaCacheFile ---------------------------
(***************************************************************************)
(* delta_cache.dat, in which the pool of active delta pages outlives the   *)
(* process: FlushToDisk writes every cached page and then an index block,  *)
(* whose size ends the file; the constructor reads that block; Get reads a *)
(* page the block named.  Module ActiveDeltaPages has the pool itself, in  *)
(* one session on a fresh directory.                                       *)
(*                                                                         *)
(* Between commits a page holds no items: it is its last page key, here a  *)
(* pid and a version.  The file is a sequence of units: a page is one unit *)
(* of content and zeros (SerializeTo clears the page first), an entry of   *)
(* the index block one unit, its size one unit.  Every step of a flush may *)
(* be the last one of the process.                                         *)
(***************************************************************************)
EXTENDS Integers, SequencesExt, FiniteSetsExt

CONSTANTS
  Pid,          \* page identifiers
  Root,         \* the empty pid
  Strange,      \* a pid no page has
  max_size,     \* slots of the pool
  PageUnits,    \* PAGE_SIZE in units
  MaxVersion,   \* BOUND: the greatest version committed
  MaxSessions,  \* BOUND: how often the store is opened, if never spoilt
  MaxUnits,     \* BOUND: no flush begins on a longer file
  None

ASSUME CacheFileAssumption ==
  /\ Root \in Pid /\ Strange \notin Pid /\ IsFiniteSet(Pid)
  /\ max_size \in Nat \ {0} /\ PageUnits \in Nat \ {0, 1}
  /\ MaxVersion \in Nat /\ MaxSessions \in Nat /\ MaxUnits \in Nat
  /\ None \notin Pid \cup {Strange} \cup Nat

Versions == 0..MaxVersion

VARIABLES
  file,                 \* the units of delta_cache.dat, None before it exists
  pid_to_offset,        \* pid_to_offset_, None where it has no entry
  cache,                \* the last page key of every cached page
  pid_to_last_pagekey,  \* the version of the last page key stored
  phase,                \* what the process is doing
  closing,              \* whether the flush is the one of the destructor
  unwritten,            \* the pids whose pages FlushToDisk still has to write
  sessions,             \* how often the store was opened
  filed,                \* history: the heads the last flush was to leave behind
  named,                \* history: the pids the index named when it was read
  spoilt                \* history: something the code does not guard against

vars == <<file, pid_to_offset, cache, pid_to_last_pagekey, phase, closing,
          unwritten, sessions, filed, named, spoilt>>

-----------------------------------------------------------------------------
(* Units. *)

Offset == 0..(MaxUnits + PageUnits * (Cardinality(Pid) + 1))
LastKey == [pid : Pid, version : Versions]
Junk == [pid |-> Strange, version |-> 0]  \* what is no page reads as
Zero == [tag |-> "zero"]
PageUnit(key) == [tag |-> "page", key |-> key]
Entry(p, o) == [tag |-> "entry", pid |-> p, offset |-> o]
SizeUnit(n) == [tag |-> "size", size |-> n]
PageOf(key) == <<PageUnit(key)>> \o [i \in 1..(PageUnits - 1) |-> Zero]

Unset(set) == [p \in set |-> None]
NoOffsets == Unset(Pid \cup {Strange})
Cached == {p \in Pid : cache[p] # None}

(* The last eight bytes of a file, read as a size: zeros, the size of an   *)
(* index block, or else the offset that ends an entry.                     *)
SizeAtEnd(f) ==
  LET unit == Last(f)
  IN CASE unit.tag = "size"  -> unit.size
       [] unit.tag = "entry" -> unit.offset
       [] OTHER              -> 0

(* The units before the size, as many as it says. *)
IndexBlock(f) == SubSeq(f, Len(f) - SizeAtEnd(f), Len(f) - 1)
Readable(f) ==
  /\ SizeAtEnd(f) < Len(f)
  /\ \A i \in DOMAIN IndexBlock(f) : IndexBlock(f)[i].tag = "entry"
OffsetsIn(f) ==
  [p \in Pid \cup {Strange} |->
     LET here == {i \in DOMAIN IndexBlock(f) : IndexBlock(f)[i].pid = p}
     IN IF here = {} THEN None ELSE IndexBlock(f)[Max(here)].offset]

(* A page read at an offset, if the file goes that far. *)
Whole(f, o) == o + PageUnits <= Len(f)
PageAt(f, o) == IF f[o + 1].tag = "page" THEN f[o + 1].key ELSE Junk

(* Writing beyond the end of a file leaves a hole of zeros. *)
Written(f, o, units) ==
  [i \in 1..Max({Len(f), o + Len(units)}) |->
     IF i \in (o + 1)..(o + Len(units)) THEN units[i - o]
     ELSE IF i <= Len(f) THEN f[i] ELSE Zero]

-----------------------------------------------------------------------------
Init ==
  /\ file = None /\ pid_to_offset = NoOffsets
  /\ cache = Unset(Pid) /\ pid_to_last_pagekey = Unset(Pid)
  /\ phase = "closed" /\ closing = FALSE /\ unwritten = <<>>
  /\ sessions = 0
  /\ filed = Unset(Pid) /\ named = {} /\ spoilt = FALSE

(* readIndexBlock of an empty file takes the size from a variable that was *)
(* never set: no entry is read, or one of nothing, or the constructor      *)
(* throws.                                                                 *)
ReadNothing ==
  \/ /\ pid_to_offset' = NoOffsets /\ phase' = "open" /\ UNCHANGED spoilt
  \/ /\ phase' = "failed" /\ spoilt' = TRUE /\ pid_to_offset' = NoOffsets
  \/ /\ \E p \in {Root, Strange}, o \in {0, PageUnits} :
          pid_to_offset' = [NoOffsets EXCEPT ![p] = o]
     /\ phase' = "open" /\ spoilt' = TRUE

readIndexBlock ==
  IF file = <<>> THEN ReadNothing
  ELSE /\ phase' = IF Readable(file) THEN "open" ELSE "failed"
       /\ pid_to_offset' = IF Readable(file) THEN OffsetsIn(file) ELSE NoOffsets
       /\ UNCHANGED spoilt

Open ==
  /\ phase = "closed" /\ sessions < MaxSessions /\ ~spoilt
  /\ sessions' = sessions + 1
  /\ IF file = None
     THEN /\ file' = <<>> /\ phase' = "open" /\ UNCHANGED <<pid_to_offset, spoilt>>
     ELSE readIndexBlock /\ UNCHANGED file
  /\ named' = {p \in Pid : pid_to_offset'[p] # None}
  /\ UNCHANGED <<cache, pid_to_last_pagekey, closing, unwritten, filed>>

(* The page Get makes of p: the one in the file if the index names it, or  *)
(* an empty one with the last page key stored in this session.             *)
MutantLoaded(p) ==
  IF pid_to_offset[p] # None THEN PageAt(file, pid_to_offset[p])
  ELSE [pid |-> p, version |-> 0]
Loaded(p) ==
  IF pid_to_offset[p] # None THEN PageAt(file, pid_to_offset[p])
  ELSE [pid |-> p,
        version |-> IF pid_to_last_pagekey[p] = None THEN 0
                    ELSE pid_to_last_pagekey[p]]

(* evictIfNeeded takes the first entry of an unordered map: any victim. *)
MutantVictims == IF Cardinality(Cached) > max_size THEN Cached ELSE {None}
Victims == IF Cardinality(Cached) >= max_size THEN Cached ELSE {None}

(* A page that is not cached is loaded; a page cut short throws.           *)
Get(p) ==
  /\ phase = "open" /\ cache[p] = None
  /\ \E victim \in Victims :
       LET kept == [q \in Pid |-> IF q = victim THEN None ELSE cache[q]]
       IN IF pid_to_offset[p] # None /\ ~Whole(file, pid_to_offset[p])
          THEN phase' = "failed" /\ cache' = kept
          ELSE cache' = [kept EXCEPT ![p] = Loaded(p)] /\ UNCHANGED phase
  /\ UNCHANGED <<file, pid_to_offset, pid_to_last_pagekey, closing, unwritten,
                 sessions, filed, named, spoilt>>

(* CalcRootHash froze the page at version v and gives it to Store: its     *)
(* entry in pid_to_offset_ stays as it is.                                 *)
Store(p, v) ==
  /\ phase = "open" /\ cache[p] # None /\ v > cache[p].version
  /\ cache' = [cache EXCEPT ![p] = [pid |-> p, version |-> v]]
  /\ pid_to_last_pagekey' = [pid_to_last_pagekey EXCEPT ![p] = v]
  /\ UNCHANGED <<file, pid_to_offset, phase, closing, unwritten, sessions, filed,
                 named, spoilt>>

-----------------------------------------------------------------------------
(* FlushToDisk, of LSVPS::Flush or of the destructor.                      *)

(* Every cached page gets a new offset, behind all the others: the greatest *)
(* is always the one given last, so that they follow each other page by     *)
(* page in the order of the map.                                            *)
OffsetsOf(f) == {f[p] : p \in DOMAIN f} \ {None}
MutantNextOffset(offsets) ==
  IF OffsetsOf(offsets) = {} THEN 0 ELSE Max(OffsetsOf(offsets))
NextOffset(offsets) ==
  IF OffsetsOf(offsets) = {} THEN 0 ELSE Max(OffsetsOf(offsets)) + PageUnits
prepareForBatchWrite(order) ==
  LET turn(p) == CHOOSE i \in DOMAIN order : order[i] = p
  IN [p \in DOMAIN pid_to_offset |->
        IF p \in ToSet(order)
        THEN NextOffset(pid_to_offset) + (turn(p) - 1) * PageUnits
        ELSE pid_to_offset[p]]

FlushToDisk(order, last) ==
  /\ phase = "open" /\ (file = <<>> \/ Len(file) <= MaxUnits)
  /\ phase' = "pages" /\ closing' = last /\ unwritten' = order
  /\ pid_to_offset' = prepareForBatchWrite(order)
  /\ UNCHANGED <<file, cache, pid_to_last_pagekey, sessions, filed, named, spoilt>>

WritePage ==
  /\ phase = "pages" /\ unwritten # <<>>
  /\ LET p == Head(unwritten)
     IN file' = Written(file, pid_to_offset[p], PageOf(cache[p]))
  /\ unwritten' = Tail(unwritten)
  /\ UNCHANGED <<pid_to_offset, cache, pid_to_last_pagekey, phase, closing, sessions,
                 filed, named, spoilt>>

(* writeIndexBlock first cuts the index block it takes to be at the end of *)
(* the file.  After new pages that is a page with its zeros; but an old    *)
(* block longer than the new pages is still there behind them, and the     *)
(* cut takes the pages before it.                                          *)
UnitsCut(f) == SizeAtEnd(f) + 1
CutsPages ==
  \E p \in Pid : /\ pid_to_offset[p] # None
                 /\ pid_to_offset[p] + PageUnits > Len(file) - SizeAtEnd(file)
TruncateFile ==
  /\ phase = "pages" /\ unwritten = <<>>
  /\ IF file = <<>> THEN phase' = "index" /\ UNCHANGED <<file, spoilt>>
     ELSE IF UnitsCut(file) > Len(file)
       THEN phase' = "failed" /\ UNCHANGED <<file, spoilt>>
     ELSE /\ file' = SubSeq(file, 1, Len(file) - UnitsCut(file))
          /\ spoilt' = (spoilt \/ CutsPages) /\ phase' = "index"
  /\ UNCHANGED <<pid_to_offset, cache, pid_to_last_pagekey, closing, unwritten,
                 sessions, filed, named>>

(* The new index block and its size; the offsets are forgotten with it.    *)
IndexSize(entries) == Cardinality(entries)
AppendIndex ==
  LET entries == {p \in DOMAIN pid_to_offset : pid_to_offset[p] # None}
      order == SetToSeq(entries)
  IN /\ phase = "index"
     /\ file' = file \o [i \in DOMAIN order |-> Entry(order[i], pid_to_offset[order[i]])]
                     \o <<SizeUnit(IndexSize(entries))>>
     /\ pid_to_offset' = NoOffsets
     /\ filed' = [p \in Pid |-> IF cache[p] # None THEN cache[p].version
                                ELSE IF p \in entries THEN filed[p] ELSE None]
     /\ IF closing
        THEN phase' = "closed" /\ cache' = Unset(Pid) /\ pid_to_last_pagekey' = Unset(Pid)
        ELSE phase' = "open" /\ UNCHANGED <<cache, pid_to_last_pagekey>>
     /\ UNCHANGED <<closing, unwritten, sessions, named, spoilt>>

(* The process stops, or the exception it threw ends it. *)
Crash ==
  /\ phase # "closed"
  /\ phase' = "closed" /\ unwritten' = <<>>
  /\ pid_to_offset' = NoOffsets
  /\ cache' = Unset(Pid) /\ pid_to_last_pagekey' = Unset(Pid)
  /\ spoilt' = (spoilt \/ phase = "index"
                \/ (phase = "pages" /\ Len(unwritten) < Cardinality(Cached)))
  /\ UNCHANGED <<file, closing, sessions, filed, named>>

Next ==
  \/ Open
  \/ \E p \in Pid : Get(p)
  \/ \E p \in Pid, v \in Versions : Store(p, v)
  \/ \E order \in SetToAllKPermutations(Cached), last \in BOOLEAN :
       Len(order) = Cardinality(Cached) /\ FlushToDisk(order, last)
  \/ WritePage \/ TruncateFile \/ AppendIndex
  \/ Crash

Spec == Init /\ [][Next]_vars

-----------------------------------------------------------------------------
(* Properties.                                                             *)

(* The shape of the state; a flush under way has an offset for every page  *)
(* it still has to write, and a closed store keeps nothing in memory.      *)
CacheFileTypeOK ==
  /\ phase \in {"closed", "open", "pages", "index", "failed"}
  /\ pid_to_offset \in [Pid \cup {Strange} -> Offset \cup {None}]
  /\ cache \in [Pid -> LastKey \cup {Junk, None}]
  /\ Cardinality(Cached) <= max_size
  /\ pid_to_last_pagekey \in [Pid -> Versions \cup {None}]
  /\ \A i \in DOMAIN unwritten : pid_to_offset[unwritten[i]] # None
  /\ filed \in [Pid -> Versions \cup {None}]
  /\ phase = "closed" => pid_to_offset = NoOffsets /\ Cached = {}

(* Outside a flush the file gives back what the last flush was to leave in *)
(* it: the last page key of every page cached then, of every page of the   *)
(* sessions before that was not cached, and of no other; through whatever  *)
(* was overwritten and cut, and although the first flush cuts the end of a *)
(* page.  Not so once a process stopped inside a flush, read an empty file *)
(* as an index block, or cut pages for an index block; and no call throws  *)
(* before that.                                                            *)
FileExact ==
  /\ phase = "failed" => spoilt
  /\ (~spoilt /\ phase \in {"closed", "open"} /\ file \notin {None, <<>>}) =>
       /\ Readable(file)
       /\ \A p \in Pid :
            LET o == OffsetsIn(file)[p]
            IN IF filed[p] = None THEN o = None
               ELSE /\ o # None /\ Whole(file, o)
                    /\ PageAt(file, o) = [pid |-> p, version |-> filed[p]]

(* A page is only ever loaded with a last page key of its own, and with    *)
(* the last one stored, however often it was evicted in between.  Not so   *)
(* of a page the file named when the store was opened: Store leaves the    *)
(* entry, so that it comes back as the file has it, or, after a flush      *)
(* which forgets the entries, as if it had never been frozen.              *)
HeadKept ==
  ~spoilt => \A p \in Cached :
    LET stored == IF pid_to_last_pagekey[p] = None THEN 0 ELSE pid_to_last_pagekey[p]
    IN /\ cache[p].pid = p
       /\ p \notin named => cache[p].version = stored
       /\ p \in named => cache[p].version \in {0, stored, filed[p]}
=============================================================================
