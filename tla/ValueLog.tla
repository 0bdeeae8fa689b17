------------------------------- MODULE ValueLog -------------------------------
(***************************************************************************)
(* The value log of LETUS (class VDLS): records are copied into the mapped *)
(* data file at the current offset, a file that cannot take a record is    *)
(* left for the next one, and a value is read back through a second        *)
(* mapping by the location its write returned.                             *)
(*                                                                         *)
(* A record is its value and the size of what precedes the value (version, *)
(* key, commas, newline).  A byte of a file is its record and its rank in  *)
(* it.  Files outlive the process; everything else starts again with it.   *)
(***************************************************************************)
EXTENDS Integers

CONSTANTS
  Value,        \* the values of keys
  ValueSize,    \* ValueSize[v]: bytes of v
  Line,         \* Line[v]: v up to its first newline
  HeaderSize,   \* bytes of a record besides its value
  MaxFileSize,  \* MaxFileSize
  MaxFileID,    \* BOUND: the last data file
  MaxOpens,     \* BOUND: how often the log is opened
  None          \* no file, no byte, no reply; what a damaged record reads as

ASSUME ConstantsAssumption ==
  /\ ValueSize \in [Value -> Nat] /\ Line \in [Value -> Value]
  /\ HeaderSize \subseteq Nat \ {0}
  /\ MaxFileSize \in Nat /\ MaxFileID \in Nat /\ MaxOpens \in Nat
  /\ \A v \in Value, h \in HeaderSize : h + ValueSize[v] <= MaxFileSize

VARIABLES
  current_fileID, current_offset,  \* where the next record goes
  write_map,        \* the file mapped for writing
  read_map,         \* the file mapped for reading
  read_map_fileID,  \* the file ReadValue believes is mapped for reading
  content,          \* the bytes of every data file
  located,          \* history: what this session's writes returned, with the value
  reply,            \* the last ReadValue: the value written, the value read
  opens             \* how often the log was opened

vars == <<current_fileID, current_offset, write_map, read_map, read_map_fileID,
          content, located, reply, opens>>

-----------------------------------------------------------------------------
(* Data. *)

FileID == 0..MaxFileID
Offset == 0..MaxFileSize
Record == [header : HeaderSize, value : Value]
RecordSize(r) == r.header + ValueSize[r.value]
Byte == Record \X Offset
Location == [fileID : FileID, offset : Offset, size : Offset]

ASSUME NoneAssumption ==
  None \notin Byte /\ None \notin FileID /\ None \notin Value

Within(loc) == loc.offset..(loc.offset + loc.size - 1)

(* The file with the record copied to a location. *)
Copied(file, loc, r) ==
  [o \in Offset |-> IF o \in Within(loc) THEN <<r, o - loc.offset>> ELSE file[o]]
Holds(file, loc, r) ==
  /\ loc.size = RecordSize(r)
  /\ \A o \in Within(loc) : file[o] = <<r, o - loc.offset>>

(* What a location of a file reads as. *)
ValueAt(file, loc) ==
  IF \E r \in Record : Holds(file, loc, r)
  THEN Line[(CHOOSE r \in Record : Holds(file, loc, r)).value]
  ELSE None

-----------------------------------------------------------------------------
Init ==
  /\ current_fileID = 0 /\ current_offset = 0
  /\ write_map = 0
  /\ read_map = None /\ read_map_fileID = None
  /\ content = [f \in FileID |-> [o \in Offset |-> None]]
  /\ located = {} /\ reply = None /\ opens = 1

(* A record that does not fit the current file. *)
MutantRollsLate(r) == current_offset > MaxFileSize
Rolls(r) == current_offset + RecordSize(r) > MaxFileSize

(* Where the record goes, and the log is afterwards. *)
MutantForgetsHeader(r) ==
  [fileID |-> IF Rolls(r) THEN current_fileID + 1 ELSE current_fileID,
   offset |-> IF Rolls(r) THEN 0 ELSE current_offset,
   size |-> ValueSize[r.value]]
Place(r) ==
  [fileID |-> IF Rolls(r) THEN current_fileID + 1 ELSE current_fileID,
   offset |-> IF Rolls(r) THEN 0 ELSE current_offset,
   size |-> RecordSize(r)]

WriteValue(r) ==
  /\ Place(r).fileID \in FileID
  /\ current_fileID' = Place(r).fileID
  /\ current_offset' = Place(r).offset + Place(r).size
  /\ write_map' = IF Rolls(r) THEN current_fileID' ELSE write_map
  /\ content' = [content EXCEPT ![write_map'] = Copied(@, Place(r), r)]
  /\ located' = located \cup {[loc |-> Place(r), value |-> r.value]}
  /\ UNCHANGED <<read_map, read_map_fileID, reply, opens>>

(* ReadValue maps another file when the location is not in the mapped one. *)
MutantStaleMap(fileID) == read_map = None
MustMap(fileID) == fileID # read_map_fileID

ReadValue(l) ==
  /\ read_map' = IF MustMap(l.loc.fileID) THEN l.loc.fileID ELSE read_map
  /\ read_map_fileID' = l.loc.fileID
  /\ reply' = [written |-> l.value, read |-> ValueAt(content[read_map'], l.loc)]
  /\ UNCHANGED <<current_fileID, current_offset, write_map, content, located, opens>>

(* The process ends and the log is opened again on the same directory. *)
Reopen ==
  /\ opens < MaxOpens /\ opens' = opens + 1
  /\ current_fileID' = 0 /\ current_offset' = 0
  /\ write_map' = 0
  /\ read_map' = None /\ read_map_fileID' = None
  /\ located' = {} /\ reply' = None
  /\ UNCHANGED content

Next ==
  \/ \E r \in Record : WriteValue(r)
  \/ \E l \in located : ReadValue(l)
  \/ Reopen

Spec == Init /\ [][Next]_vars

-----------------------------------------------------------------------------
(* Properties. *)

(* Every variable keeps to its declared shape. *)
TypeOK ==
  /\ current_fileID \in FileID /\ current_offset \in Offset
  /\ write_map \in FileID
  /\ read_map \in FileID \cup {None} /\ read_map_fileID \in FileID \cup {None}
  /\ content \in [FileID -> [Offset -> Byte \cup {None}]]
  /\ located \subseteq [loc : Location, value : Value]
  /\ reply \in [written : Value, read : Value \cup {None}] \cup {None}
  /\ opens \in Nat

(* ReadValue gives back the value that was written, whatever was written   *)
(* and read in between, in whichever files: no later record overlaps it    *)
(* and the mapping read from is the file of the location.                  *)
ReadBack == reply # None => reply.read = reply.written

(* The log only grows: a byte once written keeps its value.                *)
AppendOnly ==
  [][\A f \in FileID, o \in Offset :
       content[f][o] # None => content'[f][o] = content[f][o]]_vars

=============================================================================
