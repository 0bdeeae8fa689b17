--------------------------- MODULE ValueLog_proofs ---------------------------
(* Proofs about ValueLog, for all values, record sizes, file sizes and      *)
(* numbers of sessions.                                                     *)
EXTENDS ValueLog, TLAPS

(* A location ends before the place of the next record. *)
Behind(loc) ==
  \/ loc.fileID < current_fileID
  \/ loc.fileID = current_fileID /\ loc.offset + loc.size <= current_offset

BehindNext(loc) ==
  \/ loc.fileID < current_fileID'
  \/ loc.fileID = current_fileID' /\ loc.offset + loc.size <= current_offset'

(* The mappings are the files they are taken for, and every located record *)
(* is whole in its file, behind the current offset.                        *)
Mapped == write_map = current_fileID /\ read_map = read_map_fileID
Located ==
  \A l \in located :
    /\ Behind(l.loc)
    /\ \E r \in Record : r.value = l.value /\ Holds(content[l.loc.fileID], l.loc, r)
Inv == TypeOK /\ Mapped /\ Located

LEMMA SizeIsPositive ==
  ASSUME NEW r \in Record
  PROVE  /\ RecordSize(r) \in Nat /\ 0 < RecordSize(r) /\ RecordSize(r) <= MaxFileSize
         /\ r.value \in Value
<1>1. r.header \in HeaderSize /\ r.value \in Value
  BY DEF Record
<1>2. r.header + ValueSize[r.value] <= MaxFileSize
  BY <1>1, ConstantsAssumption
<1>3. r.header \in Nat /\ 0 < r.header
  <2>1. HeaderSize \subseteq Nat \ {0}
    BY ConstantsAssumption
  <2>2. r.header \in Nat \ {0}
    BY <1>1, <2>1
  <2>3. \A n \in Nat \ {0} : n \in Nat /\ 0 < n
    BY SMT
  <2> QED
    BY <2>2, <2>3
<1>4. ValueSize[r.value] \in Nat
  <2>1. ValueSize \in [Value -> Nat]
    BY ConstantsAssumption
  <2> QED
    BY <1>1, <2>1
<1> QED
  BY <1>1, <1>2, <1>3, <1>4 DEF RecordSize

(* A whole record reads as its value. *)
LEMMA HeldIsRead ==
  ASSUME NEW loc \in Location, NEW file, NEW r \in Record, Holds(file, loc, r)
  PROVE  ValueAt(file, loc) = Line[r.value]
<1> DEFINE q == CHOOSE x \in Record : Holds(file, loc, x)
<1>1. q \in Record /\ Holds(file, loc, q)
  OBVIOUS
<1>2. loc.offset \in Nat /\ loc.size \in Nat /\ 0 < loc.size
  BY SizeIsPositive, ConstantsAssumption DEF Location, Offset, Holds
<1>3. loc.offset \in Within(loc)
  BY <1>2 DEF Within
<1>4. file[loc.offset] = <<r, loc.offset - loc.offset>>
      /\ file[loc.offset] = <<q, loc.offset - loc.offset>>
  BY <1>1, <1>3 DEF Holds
<1>5. q = r
  BY <1>4
<1> QED
  BY <1>5 DEF ValueAt

LEMMA PlaceType ==
  ASSUME TypeOK, NEW r \in Record, Place(r).fileID \in FileID
  PROVE  /\ Place(r) \in Location /\ Place(r).size = RecordSize(r)
         /\ Place(r).offset \in Nat /\ Place(r).size \in Nat
         /\ Place(r).offset + Place(r).size \in Offset
         /\ \/ /\ Place(r).fileID = current_fileID + 1 /\ Rolls(r)
               /\ Place(r).offset = 0
            \/ /\ Place(r).fileID = current_fileID /\ ~Rolls(r)
               /\ Place(r).offset = current_offset
<1>1. /\ RecordSize(r) \in Nat /\ RecordSize(r) <= MaxFileSize
      /\ MaxFileSize \in Nat /\ MaxFileID \in Nat
  BY SizeIsPositive, ConstantsAssumption
<1>2. current_offset \in 0..MaxFileSize /\ current_fileID \in 0..MaxFileID
  BY DEF TypeOK, Offset, FileID
<1>3. CASE Rolls(r)
  <2>1. Place(r) = [fileID |-> current_fileID + 1, offset |-> 0, size |-> RecordSize(r)]
    BY <1>3 DEF Place
  <2> QED
    BY <1>1, <1>2, <1>3, <2>1 DEF Location, Offset
<1>4. CASE ~Rolls(r)
  <2>1. Place(r) = [fileID |-> current_fileID, offset |-> current_offset,
                    size |-> RecordSize(r)]
    BY <1>4 DEF Place
  <2>2. current_offset + RecordSize(r) <= MaxFileSize
    BY <1>1, <1>2, <1>4 DEF Rolls
  <2> QED
    BY <1>1, <1>2, <1>4, <2>1, <2>2 DEF Location, Offset
<1> QED
  BY <1>3, <1>4

-----------------------------------------------------------------------------
LEMMA InitInv == Init => Inv
<1> SUFFICES ASSUME Init PROVE Inv
  OBVIOUS
<1>1. 0 \in FileID /\ 0 \in Offset
  BY ConstantsAssumption DEF FileID, Offset
<1>2. TypeOK
  BY <1>1 DEF Init, TypeOK
<1> QED
  BY <1>2 DEF Init, Inv, Mapped, Located

LEMMA WriteKeeps ==
  ASSUME Inv, NEW r \in Record, WriteValue(r)
  PROVE  Inv'
<1> DEFINE loc == Place(r)
<1>1. /\ TypeOK /\ loc.fileID \in FileID
      /\ current_fileID' = loc.fileID /\ current_offset' = loc.offset + loc.size
      /\ write_map' = IF Rolls(r) THEN current_fileID' ELSE write_map
      /\ content' = [content EXCEPT ![write_map'] = Copied(@, loc, r)]
      /\ located' = located \cup {[loc |-> loc, value |-> r.value]}
      /\ UNCHANGED <<read_map, read_map_fileID, reply, opens>>
      /\ write_map = current_fileID /\ read_map = read_map_fileID
  BY DEF Inv, Mapped, WriteValue
<1>2. /\ loc \in Location /\ loc.size = RecordSize(r)
      /\ loc.offset \in Nat /\ loc.size \in Nat /\ loc.offset + loc.size \in Offset
      /\ \/ loc.fileID = current_fileID + 1 /\ Rolls(r) /\ loc.offset = 0
         \/ loc.fileID = current_fileID /\ ~Rolls(r) /\ loc.offset = current_offset
  BY <1>1, PlaceType
<1>3. write_map' = loc.fileID
  BY <1>1, <1>2
<1>4. current_fileID \in Nat /\ current_offset \in Nat /\ loc.fileID \in Nat
  BY <1>1, <1>2, ConstantsAssumption DEF TypeOK, FileID, Offset
<1> HIDE DEF loc
<1>5. Within(loc) \subseteq Offset /\ \A o \in Within(loc) : o - loc.offset \in Offset
  BY <1>2, ConstantsAssumption DEF Within, Offset
<1>6. /\ \A f \in FileID \ {loc.fileID} : content'[f] = content[f]
      /\ content'[loc.fileID] = Copied(content[loc.fileID], loc, r)
      /\ content' \in [FileID -> [Offset -> Byte \cup {None}]]
  <2>1. Copied(content[loc.fileID], loc, r) \in [Offset -> Byte \cup {None}]
    BY <1>1, <1>5 DEF TypeOK, Copied, Byte
  <2> QED
    BY <1>1, <1>3, <2>1 DEF TypeOK
<1>7. TypeOK'
  <2>1. r.value \in Value
    BY SizeIsPositive
  <2> QED
    BY <1>1, <1>2, <1>3, <1>6, <2>1 DEF TypeOK
<1>8. Holds(content'[loc.fileID], loc, r)
  BY <1>2, <1>5, <1>6 DEF Holds, Copied
<1>9. ASSUME NEW l \in located
      PROVE  /\ BehindNext(l.loc)
             /\ \E q \in Record : /\ q.value = l.value
                                 /\ Holds(content'[l.loc.fileID], l.loc, q)
  <2>1. /\ l.loc \in Location /\ l.loc.fileID \in FileID /\ l.loc.fileID \in Nat
        /\ l.loc.offset \in Nat /\ l.loc.size \in Nat
    <3>1. l.loc \in Location
      BY <1>1 DEF TypeOK
    <3> QED
      BY <3>1, ConstantsAssumption DEF Location, FileID, Offset
  <2>2. PICK q \in Record :
          q.value = l.value /\ Holds(content[l.loc.fileID], l.loc, q)
    BY DEF Inv, Located
  <2>3. Behind(l.loc)
    BY DEF Inv, Located
  <2>4. BehindNext(l.loc)
    BY <1>1, <1>2, <1>4, <2>1, <2>3 DEF Behind, BehindNext
  <2>5. Holds(content'[l.loc.fileID], l.loc, q)
    <3>1. CASE l.loc.fileID # loc.fileID
      BY <1>6, <2>1, <2>2, <3>1
    <3>2. CASE l.loc.fileID = loc.fileID
      <4>1. l.loc.offset + l.loc.size <= loc.offset
        BY <1>2, <1>4, <2>1, <2>3, <3>2 DEF Behind
      <4>2. l.loc.offset + l.loc.size - 1 < loc.offset
        BY <1>2, <2>1, <4>1
      <4>3. \A o \in Within(l.loc) : o \in Offset /\ o \notin Within(loc)
        <5>1. loc.offset <= MaxFileSize /\ MaxFileSize \in Nat
          BY <1>2, ConstantsAssumption DEF Offset
        <5> QED
          BY <1>2, <2>1, <4>2, <5>1 DEF Within, Offset
      <4>4. \A o \in Within(l.loc) : content'[l.loc.fileID][o] = content[l.loc.fileID][o]
        BY <1>6, <3>2, <4>3 DEF Copied
      <4> QED
        BY <2>2, <4>4 DEF Holds
    <3> QED
      BY <3>1, <3>2
  <2> QED
    BY <2>2, <2>4, <2>5
<1>10. BehindNext(loc)
  BY <1>1, <1>2, <1>4 DEF BehindNext
<1>11. Located'
  <2> SUFFICES ASSUME NEW l \in located'
               PROVE  /\ BehindNext(l.loc)
                      /\ \E q \in Record : /\ q.value = l.value
                                          /\ Holds(content'[l.loc.fileID], l.loc, q)
    BY DEF Located, Behind, BehindNext
  <2>1. CASE l \in located
    BY <1>9, <2>1
  <2>2. CASE l = [loc |-> loc, value |-> r.value]
    BY <1>8, <1>10, <2>2
  <2> QED
    BY <1>1, <2>1, <2>2
<1> QED
  BY <1>1, <1>3, <1>7, <1>11 DEF Inv, Mapped

LEMMA ReadKeeps ==
  ASSUME Inv, NEW l \in located, ReadValue(l)
  PROVE  Inv'
<1>1. /\ read_map' = l.loc.fileID /\ read_map_fileID' = l.loc.fileID
      /\ reply' = [written |-> l.value, read |-> ValueAt(content[read_map'], l.loc)]
      /\ UNCHANGED <<current_fileID, current_offset, write_map, content, located,
                     opens>>
  BY DEF Inv, Mapped, ReadValue, MustMap
<1>2. l.loc \in Location /\ l.loc.fileID \in FileID /\ l.value \in Value
  <2>1. l \in [loc : Location, value : Value]
    BY DEF Inv, TypeOK
  <2> QED
    BY <2>1 DEF Location
<1>3. ValueAt(content[read_map'], l.loc) \in Value \cup {None}
  <2>1. PICK r \in Record : /\ r.value = l.value
                           /\ Holds(content[l.loc.fileID], l.loc, r)
    BY DEF Inv, Located
  <2> QED
    BY <1>1, <1>2, <2>1, HeldIsRead, ConstantsAssumption
<1>4. TypeOK'
  BY <1>1, <1>2, <1>3 DEF Inv, TypeOK
<1>5. Located'
  BY <1>1 DEF Inv, Located, Behind
<1> QED
  BY <1>1, <1>4, <1>5 DEF Inv, Mapped

LEMMA ReopenKeeps == Inv /\ Reopen => Inv'
<1> SUFFICES ASSUME Inv, Reopen PROVE Inv'
  OBVIOUS
<1>1. 0 \in FileID /\ 0 \in Offset
  BY ConstantsAssumption DEF FileID, Offset
<1>2. TypeOK'
  BY <1>1, ConstantsAssumption DEF Inv, TypeOK, Reopen
<1> QED
  BY <1>2 DEF Inv, Mapped, Located, Reopen

LEMMA NextKeeps == Inv /\ [Next]_vars => Inv'
<1> SUFFICES ASSUME Inv, [Next]_vars PROVE Inv'
  OBVIOUS
<1>1. CASE \E r \in Record : WriteValue(r)
  BY <1>1, WriteKeeps
<1>2. CASE \E l \in located : ReadValue(l)
  BY <1>2, ReadKeeps
<1>3. CASE Reopen
  BY <1>3, ReopenKeeps
<1>4. CASE UNCHANGED vars
  BY <1>4 DEF vars, Inv, TypeOK, Mapped, Located, Behind
<1> QED
  BY <1>1, <1>2, <1>3, <1>4 DEF Next

(* The log's state keeps its types. *)
THEOREM TypeCorrect == Spec => []TypeOK
<1>1. Inv => TypeOK
  BY DEF Inv
<1> QED
  BY <1>1, InitInv, NextKeeps, PTL DEF Spec

(* What a read answers is what was written, when no value has a newline:   *)
(* VDLS::ReadValue after any number of writes, reads, files and sessions.  *)
Answered == reply # None => reply.read = Line[reply.written]

LEMMA NextAnswered == Inv /\ Answered /\ [Next]_vars => Answered'
<1> SUFFICES ASSUME Inv, Answered, [Next]_vars PROVE Answered'
  OBVIOUS
<1>1. CASE \E r \in Record : WriteValue(r)
  BY <1>1 DEF WriteValue, Answered
<1>2. ASSUME NEW l \in located, ReadValue(l) PROVE Answered'
  <2>1. PICK r \in Record : /\ r.value = l.value
                           /\ Holds(content[l.loc.fileID], l.loc, r)
    BY DEF Inv, Located
  <2>2. l.loc \in Location
    BY DEF Inv, TypeOK
  <2>3. read_map' = l.loc.fileID
    BY <1>2 DEF Inv, Mapped, ReadValue, MustMap
  <2>4. ValueAt(content[read_map'], l.loc) = Line[l.value]
    BY <2>1, <2>2, <2>3, HeldIsRead
  <2> QED
    BY <1>2, <2>4 DEF ReadValue, Answered
<1>3. CASE Reopen
  BY <1>3 DEF Reopen, Answered
<1>4. CASE UNCHANGED vars
  BY <1>4 DEF vars, Answered
<1> QED
  BY <1>1, <1>2, <1>3, <1>4 DEF Next

THEOREM ReadsBack ==
  ASSUME \A v \in Value : Line[v] = v
  PROVE  Spec => []ReadBack
<1>1. Init => Answered
  BY DEF Init, Answered
<1>2. Inv /\ Answered => ReadBack
  BY NoneAssumption DEF Inv, TypeOK, Answered, ReadBack
<1> QED
  BY <1>1, <1>2, InitInv, NextKeeps, NextAnswered, PTL DEF Spec

-----------------------------------------------------------------------------
(* Within one session nothing lies at or after the current offset. *)
Unwritten ==
  \A f \in FileID, o \in Offset :
    f > current_fileID \/ (f = current_fileID /\ o >= current_offset)
      => content[f][o] = None
Session == opens = 1 /\ Unwritten

LEMMA NextUnwritten ==
  ASSUME MaxOpens = 1, Inv, Session, [Next]_vars
  PROVE  /\ Session'
         /\ \A f \in FileID, o \in Offset :
              content[f][o] # None => content'[f][o] = content[f][o]
<1>1. ASSUME NEW r \in Record, WriteValue(r)
      PROVE  /\ Session'
             /\ \A f \in FileID, o \in Offset :
                  content[f][o] # None => content'[f][o] = content[f][o]
  <2> DEFINE loc == Place(r)
  <2>1. /\ TypeOK /\ loc.fileID \in FileID /\ write_map = current_fileID
        /\ current_fileID' = loc.fileID /\ current_offset' = loc.offset + loc.size
        /\ write_map' = IF Rolls(r) THEN current_fileID' ELSE write_map
        /\ content' = [content EXCEPT ![write_map'] = Copied(@, loc, r)]
        /\ opens' = opens
    BY <1>1 DEF Inv, Mapped, WriteValue
  <2>2. /\ loc.offset \in Nat /\ loc.size \in Nat
        /\ \/ loc.fileID = current_fileID + 1 /\ Rolls(r) /\ loc.offset = 0
           \/ loc.fileID = current_fileID /\ ~Rolls(r) /\ loc.offset = current_offset
    BY <2>1, PlaceType
  <2>3. write_map' = loc.fileID
    BY <2>1, <2>2
  <2> HIDE DEF loc
  <2>4. current_fileID \in Nat /\ current_offset \in Nat /\ loc.fileID \in Nat
        /\ FileID \subseteq Nat /\ Offset \subseteq Nat
    BY <2>1, ConstantsAssumption DEF TypeOK, FileID, Offset
  <2>5. \A f \in FileID, o \in Offset :
          \/ content'[f][o] = content[f][o]
          \/ f = loc.fileID /\ o \in Within(loc)
    BY <2>1, <2>3 DEF TypeOK, Copied
  <2>6. \A o \in Within(loc) : loc.offset <= o /\ o < loc.offset + loc.size
    BY <2>2 DEF Within
  <2>7. ASSUME NEW f \in FileID, NEW o \in Offset, content[f][o] # None
        PROVE  content'[f][o] = content[f][o]
    <3>1. ~(f = loc.fileID /\ o \in Within(loc))
      BY <2>2, <2>4, <2>6, <2>7 DEF Session, Unwritten
    <3> QED
      BY <2>5, <3>1
  <2>8. ASSUME NEW f \in FileID, NEW o \in Offset,
               f > loc.fileID \/ (f = loc.fileID /\ o >= loc.offset + loc.size)
        PROVE  content'[f][o] = None
    <3>1. ~(f = loc.fileID /\ o \in Within(loc))
      BY <2>2, <2>4, <2>6, <2>8
    <3>2. f > current_fileID \/ (f = current_fileID /\ o >= current_offset)
      BY <2>2, <2>4, <2>8
    <3> QED
      BY <2>5, <3>1, <3>2 DEF Session, Unwritten
  <2>9. Unwritten'
    BY <2>1, <2>8 DEF Unwritten
  <2> QED
    BY <2>1, <2>7, <2>9 DEF Session
<1>2. CASE \E l \in located : ReadValue(l)
  BY <1>2 DEF ReadValue, Session, Unwritten
<1>3. CASE Reopen
  BY <1>3 DEF Reopen, Session
<1>4. CASE UNCHANGED vars
  BY <1>4 DEF vars, Session, Unwritten
<1> QED
  BY <1>1, <1>2, <1>3, <1>4 DEF Next

(* Until the process ends, the log is append-only: WriteValue changes no    *)
(* byte that was written before.                                           *)
THEOREM SessionAppendsOnly ==
  ASSUME MaxOpens = 1
  PROVE  Spec => AppendOnly
<1>1. Init => Session
  BY DEF Init, Session, Unwritten
<1>2. Inv /\ Session /\ [Next]_vars =>
        /\ Session'
        /\ [\A f \in FileID, o \in Offset :
              content[f][o] # None => content'[f][o] = content[f][o]]_vars
  BY NextUnwritten
<1> QED
  BY <1>1, <1>2, InitInv, NextKeeps, PTL DEF Spec, AppendOnly
=============================================================================
