------------------------------ MODULE PageTable ------------------------------
(***************************************************************************)
(* The page table of LSVPS: pages wait in the buffer of MemIndexTable and  *)
(* move, a full buffer at a time, to index files that are searched by key  *)
(* interval, lookup block and index block.                                 *)
(*                                                                         *)
(* A page is its key and its data.  The location of a page in a file is    *)
(* its rank there (the code's byte offsets are strictly increasing), the   *)
(* location of an index block its rank (blocks are padded to one size).    *)
(* Pids are numbers, ordered as the strings are; tid is 0 everywhere.      *)
(* Writing a file is a sequence of steps: each of them may be the last one *)
(* the program takes.                                                      *)
(***************************************************************************)
EXTENDS Integers, Sequences, FiniteSetsExt

CONSTANTS
  Pid,           \* page identifiers
  FirstVersion,  \* the least version a caller commits
  MaxVersion,    \* BOUND: the greatest version a caller commits
  Data,          \* contents of a page
  BlockEntries,  \* MAPPINGS_PER_BLOCK, the mappings of an index block
  BlockBytes,    \* INDEXBLOCK_SIZE and BLOCK_SIZE
  EntryBytes,    \* EntryBytes[p]: a serialized mapping whose page key names p
  CountBytes,    \* the entry count that precedes the entries of a block
  None           \* the null pointer

ASSUME ConstantsAssumption ==
  /\ Pid \subseteq Nat /\ FirstVersion \in Nat /\ MaxVersion \in Nat
  /\ BlockEntries \in Nat \ {0} /\ BlockBytes \in Nat /\ CountBytes \in Nat
  /\ EntryBytes \in [Pid -> Nat]

VARIABLES
  buffer,       \* MemIndexTable::buffer_
  index_files,  \* LSVPS::index_files_ with the content of each file
  out,          \* writeToStorage: the file being written
  phase,        \* where Flush is: "idle" outside it, "failed" after a throw
  given         \* history: the pages passed to StorePage, by key

vars == <<buffer, index_files, out, phase, given>>

-----------------------------------------------------------------------------
(* Data.  A base page sorts before the delta page of the same version.     *)

Key == [version : 0..MaxVersion, delta : BOOLEAN, pid : Pid]
Page == [pagekey : Key, data : Data]

ASSUME NoneAssumption == None \notin Page /\ None \notin Data

Less(a, b) ==
  \/ a.version < b.version
  \/ a.version = b.version /\ ~a.delta /\ b.delta
  \/ a.version = b.version /\ a.delta = b.delta /\ a.pid < b.pid
AtMost(a, b) == a = b \/ Less(a, b)

Mapping == [pagekey : Key, location : Nat \ {0}]
Blank == [data |-> <<>>, blocks |-> <<>>, block |-> <<>>]

MaxSize == BlockEntries * BlockEntries
IsFull(pages) == Len(pages) >= MaxSize

(* The bytes a block takes before padding. *)
Bytes(keys) ==
  CountBytes +
  MapThenSumSet(LAMBDA i : EntryBytes[keys[i].pid], DOMAIN keys)
Fits(keys) == Bytes(keys) <= BlockBytes

-----------------------------------------------------------------------------
(* Lookup. *)

First(S) == CHOOSE i \in S : \A j \in S : i <= j
Last(S) == CHOOSE i \in S : \A j \in S : j <= i

(* The entry std::upper_bound finds, minus one. *)
MutantLowerBound(file, k) ==
  {b \in DOMAIN file.lookup : Less(file.lookup[b], k)}
NotAbove(file, k) == {b \in DOMAIN file.lookup : AtMost(file.lookup[b], k)}

MappingsOf(block, k) == {i \in DOMAIN block : block[i].pagekey = k}

readPageFromIndexFile(file, k) ==
  LET below == NotAbove(file, k)
      block == file.blocks[Last(below)]
      found == MappingsOf(block, k)
      mapping == block[First(found)]
  IN IF below = {} \/ found = {} THEN None
     ELSE [pagekey |-> mapping.pagekey,
           data |-> file.data[mapping.location].data]

InBuffer(k) == {i \in DOMAIN buffer : buffer[i].pagekey = k}

Covering(k) ==
  {f \in DOMAIN index_files :
     AtMost(index_files[f].min, k) /\ AtMost(k, index_files[f].max)}

pageLookup(k) ==
  IF k.version = 0 THEN None
  ELSE IF InBuffer(k) # {} THEN buffer[First(InBuffer(k))]
  ELSE IF Covering(k) = {} THEN None
  ELSE readPageFromIndexFile(index_files[First(Covering(k))], k)

-----------------------------------------------------------------------------
Init ==
  /\ buffer = <<>> /\ index_files = <<>>
  /\ out = Blank /\ phase = "idle"
  /\ given = [k \in Key |-> None]

(* The trie stores the pages of a commit in key order (page_cache_ is a     *)
(* sorted map), and the versions it commits increase.                      *)
InOrder(k) ==
  /\ k.version >= FirstVersion
  /\ \A j \in Key : given[j] # None => Less(j, k)

(* StorePage: the page joins the buffer; a full buffer is flushed at once. *)
StorePage(k, d) ==
  /\ phase = "idle" /\ InOrder(k)
  /\ buffer' = Append(buffer, [pagekey |-> k, data |-> d])
  /\ phase' = IF IsFull(buffer') THEN "pages" ELSE "idle"
  /\ given' = [given EXCEPT ![k] = d]
  /\ UNCHANGED <<index_files, out>>

(* LSVPS::Flush, at any time between two calls; an empty buffer is left. *)
Flush ==
  /\ phase = "idle" /\ buffer # <<>>
  /\ phase' = "pages"
  /\ UNCHANGED <<buffer, index_files, out, given>>

(* AddMapping starts a new block when the current one is full. *)
AddMapping(file, m) ==
  IF Len(file.block) >= BlockEntries
  THEN [file EXCEPT !.blocks = Append(@, file.block), !.block = <<m>>]
  ELSE [file EXCEPT !.block = Append(@, m)]

(* The location of the page that goes to the file next. *)
MutantLocation(file) == Len(file.data)
Location(file) == Len(file.data) + 1

(* One page goes to the file and its location to the index blocks. *)
WritePage ==
  /\ phase = "pages" /\ Len(out.data) < Len(buffer)
  /\ LET page == buffer[Len(out.data) + 1]
         file == [out EXCEPT !.data = Append(@, page)]
     IN out' = AddMapping(file, [pagekey |-> page.pagekey, location |-> Location(out)])
  /\ UNCHANGED <<buffer, index_files, phase, given>>

(* The last block is closed, and the index blocks are written: a block     *)
(* that does not fit its page makes writeToStorage throw.                  *)
Closed(file) == Append(file.blocks, file.block)
KeysOf(block) == [i \in DOMAIN block |-> block[i].pagekey]
MutantEmptiesBufferFirst ==
  /\ phase = "pages" /\ Len(out.data) = Len(buffer)
  /\ out' = [out EXCEPT !.blocks = Closed(out), !.block = <<>>]
  /\ phase' = IF \A b \in DOMAIN Closed(out) : Fits(KeysOf(Closed(out)[b]))
               THEN "lookup" ELSE "failed"
  /\ buffer' = IF phase' = "failed" THEN <<>> ELSE buffer
  /\ UNCHANGED <<index_files, given>>
WriteIndexBlocks ==
  /\ phase = "pages" /\ Len(out.data) = Len(buffer)
  /\ out' = [out EXCEPT !.blocks = Closed(out), !.block = <<>>]
  /\ phase' = IF \A b \in DOMAIN Closed(out) : Fits(KeysOf(Closed(out)[b]))
               THEN "lookup" ELSE "failed"
  /\ UNCHANGED <<buffer, index_files, given>>

(* The lookup block holds the first key of every index block. *)
LookupOf(blocks) == [b \in DOMAIN blocks |-> blocks[b][1].pagekey]
Interval(pages) == <<pages[1].pagekey, pages[Len(pages)].pagekey>>

(* The lookup block ends the file; the file becomes an index file of the   *)
(* store and the buffer starts again.  Or the lookup block does not fit.   *)
WriteLookupBlock ==
  /\ phase = "lookup"
  /\ IF Fits(LookupOf(out.blocks))
     THEN /\ index_files' =
               Append(index_files,
                      [min |-> Interval(buffer)[1], max |-> Interval(buffer)[2],
                       data |-> out.data, blocks |-> out.blocks,
                       lookup |-> LookupOf(out.blocks)])
          /\ buffer' = <<>> /\ phase' = "idle"
     ELSE phase' = "failed" /\ UNCHANGED <<index_files, buffer>>
  /\ out' = Blank
  /\ UNCHANGED given

FlushStep == WritePage \/ WriteIndexBlocks \/ WriteLookupBlock

Next ==
  \/ \E k \in Key, d \in Data : StorePage(k, d)
  \/ Flush
  \/ FlushStep

Spec == Init /\ [][Next]_vars

-----------------------------------------------------------------------------
(* Properties. *)

IndexFile == [min : Key, max : Key, data : Seq(Page), blocks : Seq(Seq(Mapping)),
              lookup : Seq(Key)]

(* Every variable keeps to its declared shape. *)
TypeOK ==
  /\ buffer \in Seq(Page)
  /\ index_files \in Seq(IndexFile)
  /\ out \in [data : Seq(Page), blocks : Seq(Seq(Mapping)), block : Seq(Mapping)]
  /\ phase \in {"idle", "pages", "lookup", "failed"}
  /\ given \in [Key -> Data \cup {None}]

Lookups == [k \in Key |-> pageLookup(k)]
Given(k) == IF given[k] = None THEN None ELSE [pagekey |-> k, data |-> given[k]]

(* At every step, a flush that is under way or has thrown included,        *)
(* pageLookup finds every page ever passed to StorePage, with the content  *)
(* it had then, and nothing under any other key: whichever of the buffer,  *)
(* the files, their index blocks the page is in.                           *)
LookupExact == \A k \in Key : pageLookup(k) = Given(k)

(* The table is a map that only grows: a step adds the page stored, or     *)
(* changes no lookup.                                                      *)
Map == INSTANCE PageMap WITH stored <- Lookups
Implements == Map!Spec
=============================================================================
