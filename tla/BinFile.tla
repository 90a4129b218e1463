------------------------------ MODULE BinFile ------------------------------
(***************************************************************************)
(* binFile (C_Plus_Plus/store/serialize.hpp): typed lines of objects, kept *)
(* in memory, read whole when the file is opened and written whole by      *)
(* save() or the destructor, through a temporary file that is renamed over *)
(* the old one.  A program opens, edits and saves the file; any step of a  *)
(* save may fail, the program may die, and the power may be cut.           *)
(*                                                                         *)
(* A file is its header bytes and the bits of its body.  The body is       *)
(* padded with zeros to whole bytes (ByteBits).                            *)
(***************************************************************************)
EXTENDS BinCodec

CONSTANTS
  ByteBits,     \* 8 in C++
  Data,         \* objects a caller pushes
  MaxLines,     \* bound: lines of a file
  MaxObjects,   \* bound: objects of a file
  MaxItems      \* the most items of a line that can be written (2^32 - 1)

ASSUME FileAssumption ==
  /\ ByteBits \in Nat \ {0}
  /\ MaxLines \in Nat /\ MaxItems \in Nat
  /\ Countable(MaxItems)
  /\ \A o \in Data : IsObject(o)

VARIABLES
  file,      \* the binFile: its lines' types, its lines, _objectAmount and _dirty
  disk,      \* what the name refers to: a file, or Absent
  temp,      \* the same of <name>.tmp
  stage,        \* "closed", "open", or the stage of a save
  after,     \* "open" or "closed": where the save under way leads ("open" if there is none)
  saved,     \* history: the lines of the file under the name, or a marker
  durable,   \* is the data of that file on the medium?
  old        \* the file that the directory on the medium still leads to: none, or another

fileVars == <<file, disk, temp, stage, after, saved, durable, old>>

Header == <<241, 177, 1, 0>>      \* MAGIC, low byte first, VERSION, reserved
Absent == [head |-> <<-1>>, body |-> <<>>]
Empty  == [types |-> <<>>, rows |-> <<>>]
Corrupt == [types |-> <<none>>, rows |-> <<>>]

\* The places of objects in lines, and how many there are.
Places(rows) == UNION {{i} \X DOMAIN rows[i] : i \in DOMAIN rows}
objects(rows) == Cardinality(Places(rows))

whatIsTypeAt(line) == IF line \in DOMAIN file.types THEN file.types[line] ELSE none
-----------------------------------------------------------------------------
(* The whole file as bits *)

Padded(bits) == bits \o [i \in 1..(-Len(bits)) % ByteBits |-> 0]

\* Row zero is the lines' types, ended by none.
Body(types, rows) ==
  FlattenSeq([i \in DOMAIN types |-> writeUint(types[i], TypeBits)])
    \o writeUint(none, TypeBits)
    \o FlattenSeq([i \in DOMAIN rows |->
         writeUint(Len(rows[i]), CountBits)
           \o FlattenSeq([j \in DOMAIN rows[i] |-> writeAlternative(rows[i][j])])])

Image(types, rows) == [head |-> Header, body |-> Padded(Body(types, rows))]

\* Row zero: the types before the first none, if there is one.
ReadTypes(in) ==
  LET TypeAt(i) == readUint(in, (i - 1) * TypeBits, TypeBits)[2]
      ends == {i \in 1..(Len(in) \div TypeBits) : TypeAt(i) = none}
  IN  IF ends = {} THEN nullopt
      ELSE <<Min(ends) * TypeBits, [i \in 1..(Min(ends) - 1) |-> TypeAt(i)]>>

\* A line of a type, and the lines for the types in turn.
ReadLine(t, in, at) ==
  ReadCounted([c \in Cursors(in) |-> readAlternative(t, in, c)], minBits(t), in, at)

ReadLines(types, in, at) ==
  ReadEach([k \in DOMAIN types |-> [c \in Cursors(in) |-> ReadLine(types[k], in, c)]], at)

\* Less than a byte is left, all zeros.
OnlyPadding(rest) == Len(rest) < ByteBits /\ 1 \notin ToSet(rest)

\* load: the lines of a file, or Corrupt (it throws).  All is read before the
\* object is touched.
load(f) ==
  LET all == Then(ReadTypes(f.body), LAMBDA c, types :
               Then(ReadLines(types, f.body, c), LAMBDA d, rows :
                 IF OnlyPadding(SubSeq(f.body, d + 1, Len(f.body)))
                 THEN <<d, [types |-> types, rows |-> rows]>> ELSE nullopt))
  IN  IF f.head = Header /\ Some(all) THEN all[2] ELSE Corrupt

\* What a program finds under the name: a missing file is an empty one.
Found == IF disk = Absent THEN Empty ELSE load(disk)
-----------------------------------------------------------------------------
Closed == [types |-> <<>>, rows |-> <<>>, amount |-> 0, dirty |-> FALSE]

FileInit ==
  /\ file = Closed
  /\ disk = Absent
  /\ temp = Absent
  /\ stage = "closed"
  /\ after = "open"
  /\ saved = Empty
  /\ durable = TRUE
  /\ old = {}

Edit(types, rows, amount) ==
  /\ file' = [types |-> types, rows |-> rows, amount |-> amount, dirty |-> TRUE]
  /\ UNCHANGED <<disk, temp, stage, after, saved, durable, old>>

(* The constructor: an existing file is read, and refused if corrupt.        *)
OpenFile ==
  /\ stage = "closed"
  /\ \E found \in {Found} \ {Corrupt} :
       file' = [types |-> found.types, rows |-> found.rows,
                amount |-> objects(found.rows), dirty |-> FALSE]
  /\ stage' = "open"
  /\ UNCHANGED <<disk, temp, after, saved, durable, old>>

(* push: false on a missing line, or on another type than the line's.        *)
push(line, o) ==
  /\ stage = "open"
  /\ whatIsTypeAt(line) = o[1]
  /\ file.amount < MaxObjects
  /\ Edit(file.types, [file.rows EXCEPT ![line] = Append(@, o)], file.amount + 1)

pushNewLine(o) ==
  /\ stage = "open"
  /\ Len(file.rows) < MaxLines /\ file.amount < MaxObjects
  /\ Edit(Append(file.types, o[1]), Append(file.rows, <<o>>), file.amount + 1)

replaceObject(line, i, o) ==
  /\ stage = "open"
  /\ whatIsTypeAt(line) = o[1]
  /\ i \in DOMAIN file.rows[line]
  /\ Edit(file.types, [file.rows EXCEPT ![line][i] = o], file.amount)

(* The line stays, also when it is empty. *)
removeObject(line, i) ==
  /\ stage = "open"
  /\ line \in DOMAIN file.rows /\ i \in DOMAIN file.rows[line]
  /\ Edit(file.types, [file.rows EXCEPT ![line] = RemoveAt(@, i)], file.amount - 1)

\* Faulty variant: the last line's type is erased, not the deleted line's.
deleteLineMistyped(line) ==
  /\ stage = "open"
  /\ line \in DOMAIN file.rows
  /\ Edit(Front(file.types), RemoveAt(file.rows, line), file.amount - Len(file.rows[line]))

deleteLine(line) ==
  /\ stage = "open"
  /\ line \in DOMAIN file.rows
  /\ Edit(RemoveAt(file.types, line), RemoveAt(file.rows, line),
          file.amount - Len(file.rows[line]))

(* save() begins; so do, if anything changed, the destructor and the move    *)
(* assignment, after which the object is gone.  writeCount throws before     *)
(* anything is written, and the destructor swallows that.                    *)
Save(next) ==
  /\ stage = "open"
  /\ stage' = IF next = "closed" /\ ~file.dirty THEN "closed"
           ELSE IF \E row \in ToSet(file.rows) : Len(row) > MaxItems THEN next
           ELSE "encoded"
  /\ after' = IF stage' = "encoded" THEN next ELSE "open"
  /\ file' = IF stage' = "closed" THEN Closed ELSE file
  /\ UNCHANGED <<disk, temp, saved, durable, old>>

\* save() returns, without a temporary file left.
Return ==
  /\ temp' = Absent
  /\ stage' = after
  /\ file' = IF after = "closed" THEN Closed ELSE file
  /\ after' = "open"
  /\ UNCHANGED <<disk, saved, durable, old>>

(* <name>.tmp cannot be opened: false. *)
TempFails ==
  /\ stage = "encoded"
  /\ Return

(* It is truncated, and the bytes go to it, none, some or all so far.        *)
WriteTemp ==
  /\ stage = "encoded"
  /\ LET all == Image(file.types, file.rows) IN
     \E written \in {[head |-> <<>>, body |-> <<>>], [all EXCEPT !.body = <<>>], all} :
       /\ temp' = written
       /\ stage' = IF written = all THEN "flushed" ELSE "writing"
  /\ UNCHANGED <<file, disk, after, saved, durable, old>>

\* Faulty variant: the stream is not looked at after the flush.
FlushUnchecked ==
  /\ stage = "writing"
  /\ stage' = "flushed"
  /\ UNCHANGED <<file, disk, temp, after, saved, durable, old>>

(* The stream has failed: the temporary file is removed, false.              *)
FlushFails ==
  /\ stage = "writing"
  /\ Return

(* The rest of the bytes follows. *)
Flush ==
  /\ stage = "writing"
  /\ temp' = Image(file.types, file.rows)
  /\ stage' = "flushed"
  /\ UNCHANGED <<file, disk, after, saved, durable, old>>

\* The name is taken from a file, in the system's memory only: no directory is
\* ever synced.
Unlinked == old' = IF old = {} THEN {[disk |-> disk, saved |-> saved, durable |-> durable]} ELSE old

(* The rename makes the new file the one under the name; its data was        *)
(* flushed to the system and never synced.                                   *)
RenameTemp ==
  /\ stage = "flushed"
  /\ Unlinked
  /\ disk' = temp
  /\ temp' = Absent
  /\ saved' = [types |-> file.types, rows |-> file.rows]
  /\ durable' = FALSE
  /\ stage' = after
  /\ file' = IF after = "closed" THEN Closed ELSE [file EXCEPT !.dirty = FALSE]
  /\ after' = "open"

(* The rename fails: the temporary file is removed, false. *)
RenameTempFails ==
  /\ stage = "flushed"
  /\ Return

(* The program dies.  What it leaves of <name>.tmp the next save truncates,  *)
(* so the leftover is not kept.                                              *)
FileCrash ==
  /\ stage # "closed"
  /\ stage' = "closed"
  /\ file' = Closed
  /\ temp' = Absent
  /\ after' = "open"
  /\ UNCHANGED <<disk, saved, durable, old>>

(* The system writes the data back, and the directory, in any order.         *)
WriteBack ==
  /\ ~durable
  /\ durable' = TRUE
  /\ UNCHANGED <<file, disk, temp, stage, after, saved, old>>

WriteBackEntry ==
  /\ old # {}
  /\ old' = {}
  /\ UNCHANGED <<file, disk, temp, stage, after, saved, durable>>

\* What is left of a file of which only the first bytes were written back.
Cut(f, n) ==
  IF n < Len(f.head) THEN [head |-> SubSeq(f.head, 1, n), body |-> <<>>]
  ELSE [f EXCEPT !.body = SubSeq(@, 1, (n - Len(f.head)) * ByteBits)]

\* A file of which only some first bytes, not all, were written back.
Shortened(f) ==
  \E n \in 0..(Len(f.head) + Len(f.body) \div ByteBits - 1) : disk' = Cut(f, n) /\ saved' = Corrupt

(* The power is cut.  The name leads to where the directory on the medium    *)
(* leads: the earlier file, if the rename was not written back, or the new   *)
(* one; of either, if its data was not, some first bytes may be left.        *)
FilePowerCut ==
  /\ \/ \E f \in old : \/ disk' = f.disk /\ saved' = f.saved
                       \/ ~f.durable /\ Shortened(f.disk)
     \/ old = {} /\ ~durable /\ Shortened(disk)
  /\ durable' = TRUE
  /\ old' = {}
  /\ stage' = "closed"
  /\ file' = Closed
  /\ temp' = Absent
  /\ after' = "open"

(* The user removes a file that does not open. *)
Discard ==
  /\ stage = "closed"
  /\ Found = Corrupt
  /\ Unlinked
  /\ disk' = Absent
  /\ saved' = Empty
  /\ UNCHANGED <<file, temp, stage, after, durable>>

FileNext ==
  \/ OpenFile
  \/ \E o \in Data : \/ pushNewLine(o)
                     \/ \E line \in 1..MaxLines :
                          push(line, o) \/ \E i \in 1..MaxObjects : replaceObject(line, i, o)
  \/ \E line \in 1..MaxLines : deleteLine(line) \/ \E i \in 1..MaxObjects : removeObject(line, i)
  \/ \E next \in {"open", "closed"} : Save(next)
  \/ TempFails
  \/ WriteTemp
  \/ FlushFails
  \/ Flush
  \/ RenameTemp
  \/ RenameTempFails
  \/ FileCrash
  \/ WriteBack
  \/ WriteBackEntry
  \/ FilePowerCut
  \/ Discard

FileSpec == FileInit /\ [][FileNext]_fileVars
-----------------------------------------------------------------------------
\* The lines that save() writes: of objects of their type, and none too long.
Sheets ==
  {s \in [types : BoundedSeq({o[1] : o \in Data}, MaxLines),
          rows : BoundedSeq(BoundedSeq(Data, MaxItems), MaxLines)] :
     /\ Len(s.types) = Len(s.rows)
     /\ \A i \in DOMAIN s.rows : \A j \in DOMAIN s.rows[i] : s.rows[i][j][1] = s.types[i]}

(* What the properties below rely on: lines that a save writes are read back *)
(* from their image, and of a part of it nothing is read.                    *)
CodecSound ==
  \A s \in Sheets : LET f == Image(s.types, s.rows) IN
    /\ load(f) = s
    /\ \A n \in 0..(Len(f.head) + Len(f.body) \div ByteBits - 1) : load(Cut(f, n)) = Corrupt

(* Whatever fails or dies in the middle of a save, the name leads to the     *)
(* lines of the last save that got as far as the rename.  A power cut, since *)
(* neither the file nor the directory is ever synced, may take that save     *)
(* back: then the name leads to the lines of an earlier save, whole, or to   *)
(* a part of a file, which is refused - never to lines that were not saved.  *)
SavedOrRefused == Found = saved

(* An open file without unsaved changes holds what opening it again would    *)
(* read - every edit, also one that moves lines or empties them, survives    *)
(* the trip through row zero and the counts - and the amount it reports is   *)
(* that of its objects.                                                      *)
CleanMeansSaved ==
  stage = "open" =>
    /\ file.amount = objects(file.rows)
    /\ ~file.dirty => Found = [types |-> file.types, rows |-> file.rows]
=============================================================================
