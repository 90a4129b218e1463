------------------------------- MODULE Vault -------------------------------
(***************************************************************************)
(* One writable fixed_data_vault (rust/src/store/fixedDataStorage.rs): an  *)
(* append-only file of equally wide rows, shared by the threads of one     *)
(* process.  A thread reserves a row with a fetch-add, writes it at its    *)
(* own offset with no lock held, syncs it when the policy is each_write,   *)
(* and folds it into the in-memory index "latest value per field".  Reads  *)
(* take no lock on the file.  The process may be killed and the machine    *)
(* may lose power at any step; whether a sync reaches the medium depends   *)
(* on the machine (FullSync), and so does what a power cut can take.       *)
(*                                                                         *)
(* A row image is a sequence of columns: column 0 is the presence bitmap,  *)
(* column f the data of field f, and, with row checksums on, the last      *)
(* column is the checksum.  The kernel copies a row column by column, so   *)
(* half-written rows exist and can be read.                                *)
(***************************************************************************)
EXTENDS Integers

CONSTANTS
  Threads,    \* threads sharing the Arc<fixed_data_vault>
  NF,         \* number of fields in the layout
  Values,     \* values a field can hold
  Zero,       \* the value whose bits are all zero
  Absent,     \* "this field does not exist in the entry"
  Entries,    \* entries the callers append
  Nothing,    \* read_row's None: past the end, or a hole
  Corrupt,    \* read_row's Err: the checksum does not match
  Checksum,   \* settings.row_checksum, as the header recorded it
  SyncEach,   \* settings.sync = each_write (FALSE: on_flush)
  FullSync,   \* sync_data reaches the medium (FALSE, as on macOS: the drive's cache)
  SkipRebuild,\* do openers also turn settings.rebuild_index_on_open off?
  LiveRebuild,\* do threads call rebuild_index on the shared handle?
  Readers,    \* threads that call read_row
  MaxRow      \* bound: rows the model ever reserves

Fields  == 1..NF
Rows    == 0..(MaxRow - 1)
SumCol  == NF + 1
LastCol == IF Checksum THEN SumCol ELSE NF
Cols    == 0..LastCol
AllEntries == [Fields -> Values \cup {Absent}]

ASSUME VaultAssumption ==
  /\ NF \in Nat \ {0}
  /\ MaxRow \in Nat
  /\ Zero \in Values
  /\ Absent \notin Values
  /\ Entries \subseteq AllEntries
  /\ Nothing \notin AllEntries
  /\ Corrupt \notin AllEntries \cup {Nothing}
  /\ Checksum \in BOOLEAN
  /\ SyncEach \in BOOLEAN
  /\ FullSync \in BOOLEAN
  /\ SkipRebuild \in BOOLEAN
  /\ LiveRebuild \in BOOLEAN
  /\ Readers \subseteq Threads

VARIABLES
  bytes,     \* the file as the kernel shows it: row -> row image
  fileRows,  \* whole rows covered by the file's length: row_count()
  durBytes,  \* what a power cut cannot take away
  durRows,
  mode,      \* "closed", "opening" (open() is rebuilding) or "open"
  nextRow,   \* the reservation counter
  index,     \* field -> [row, val]: the latest value and the row it is from
  th,        \* what each thread is doing inside the vault
  acked,     \* history: row -> entry whose append returned Ok
  promised,  \* history: rows the caller was told a power cut does not take
  indexFrom  \* history: the first row that the index was to know of

diskVars == <<bytes, fileRows, durBytes, durRows>>
histVars == <<acked, promised, indexFrom>>
vars     == <<diskVars, mode, nextRow, index, th, histVars>>

-----------------------------------------------------------------------------
(* Row images: column 0 is bits, column f is data[f], column SumCol is sum. *)

Payloads  == [bits : SUBSET Fields, data : [Fields -> Values]]
Payload(b) == [bits |-> b.bits, data |-> b.data]

\* The checksum is taken as perfect: it names the payload it was computed from.
\* {} is the byte 0x00, which row_checksum never produces.
RowImages == [bits : SUBSET Fields, data : [Fields -> Values], sum : SUBSET Payloads]

\* A row of the file nobody has written: the kernel reads it back as zeros.
ZeroRow == [bits |-> {}, data |-> [f \in Fields |-> Zero], sum |-> {}]

\* An absent field leaves its presence bit 0 and its data slot zeroed.
EncodePayload(e) ==
  [bits |-> {f \in Fields : e[f] # Absent},
   data |-> [f \in Fields |-> IF e[f] = Absent THEN Zero ELSE e[f]]]

Encode(e) ==
  [bits |-> EncodePayload(e).bits, data |-> EncodePayload(e).data,
   sum  |-> IF Checksum THEN {EncodePayload(e)} ELSE {}]

Decode(b) == [f \in Fields |-> IF f \in b.bits THEN b.data[f] ELSE Absent]

\* Faulty variant: the stored checksum is tested for presence, not compared.
ParseRowUncompared(b) == IF Checksum /\ b.sum = {} THEN Nothing ELSE Decode(b)

\* What read_row makes of one row's bytes.
ParseRow(b) ==
  IF Checksum /\ b.sum = {} THEN Nothing
  ELSE IF Checksum /\ b.sum # {Payload(b)} THEN Corrupt
  ELSE Decode(b)

\* The columns cs of one image laid over another.
Overlay(old, new, cs) ==
  [bits |-> IF 0 \in cs THEN new.bits ELSE old.bits,
   data |-> [f \in Fields |-> IF f \in cs THEN new.data[f] ELSE old.data[f]],
   sum  |-> IF SumCol \in cs THEN new.sum ELSE old.sum]

-----------------------------------------------------------------------------
(* The index *)

NoSlot     == [row |-> -1, val |-> Absent]
EmptyIndex == [f \in Fields |-> NoSlot]

\* Faulty variant: whoever reaches the lock last wins.
MergeLastComer(ix, r, e) ==
  [f \in Fields |-> IF e[f] # Absent THEN [row |-> r, val |-> e[f]] ELSE ix[f]]

\* Faulty variant: an absent field clears the slot.
MergeClearing(ix, r, e) ==
  [f \in Fields |-> IF r > ix[f].row THEN [row |-> r, val |-> e[f]] ELSE ix[f]]

\* Highest row wins, an absent field never overwrites.
MergeInto(ix, r, e) ==
  [f \in Fields |-> IF e[f] # Absent /\ r > ix[f].row
                    THEN [row |-> r, val |-> e[f]] ELSE ix[f]]

\* The replay's treatment of a row: holes and corrupt rows are skipped.
ReplayRow(ix, r, b) ==
  IF ParseRow(b) \in {Nothing, Corrupt} THEN ix ELSE MergeInto(ix, r, ParseRow(b))

-----------------------------------------------------------------------------
Idle      == [pc |-> "idle"]
Become(t, s) == th' = [th EXCEPT ![t] = s]

Init ==
  /\ bytes = [r \in Rows |-> ZeroRow]
  /\ fileRows = 0
  /\ durBytes = bytes
  /\ durRows = 0
  /\ mode = "closed"
  /\ nextRow = 0
  /\ index = EmptyIndex
  /\ th = [t \in Threads |-> Idle]
  /\ acked = [r \in Rows |-> Nothing]
  /\ promised = {}
  /\ indexFrom = 0

(* append: validate and encode, then fetch_add. *)
Reserve(t, e) ==
  /\ mode = "open"
  /\ th[t] = Idle
  /\ nextRow < MaxRow
  /\ nextRow' = nextRow + 1
  /\ Become(t, [pc |-> "write", row |-> nextRow, ent |-> e, col |-> 0])
  /\ UNCHANGED <<diskVars, mode, index, histVars>>

\* The file grows to cover the last byte written, and never shrinks.
RowsCovering(r, c) ==
  LET n == IF c = LastCol THEN r + 1 ELSE r
  IN  IF n > fileRows THEN n ELSE fileRows

(* append: the next piece of the write_all_at. *)
WriteColumn(t) ==
  /\ th[t].pc = "write"
  /\ LET w == th[t] IN
       /\ bytes' = [bytes EXCEPT ![w.row] = Overlay(@, Encode(w.ent), {w.col})]
       /\ fileRows' = RowsCovering(w.row, w.col)
       /\ Become(t, IF w.col < LastCol THEN [w EXCEPT !.col = @ + 1]
                    ELSE [w EXCEPT !.pc = IF SyncEach THEN "sync" ELSE "merge"])
  /\ UNCHANGED <<durBytes, durRows, mode, nextRow, index, histVars>>

\* Faulty variant: the error is dropped and the row is merged all the same.
AppendIgnoresError(t) ==
  /\ th[t].pc \in {"write", "sync"}
  /\ Become(t, [th[t] EXCEPT !.pc = "merge"])
  /\ UNCHANGED <<diskVars, mode, nextRow, index, histVars>>

\* Faulty variant: a failed append gives its row index back.
AppendGivesBack(t) ==
  /\ th[t].pc \in {"write", "sync"}
  /\ Become(t, Idle)
  /\ nextRow' = nextRow - 1
  /\ UNCHANGED <<diskVars, mode, index, histVars>>

(* append: write_all_at or sync_data returns an error; the row index is     *)
(* spent and whatever was written stays in the file.                        *)
AppendFails(t) ==
  /\ th[t].pc \in {"write", "sync"}
  /\ Become(t, Idle)
  /\ UNCHANGED <<diskVars, mode, nextRow, index, histVars>>

\* sync_data: everything written so far, by any thread, becomes durable - or
\* gets no further than the drive's cache, of which a power cut takes what it likes.
SyncData ==
  IF FullSync THEN durBytes' = bytes /\ durRows' = fileRows
  ELSE UNCHANGED <<durBytes, durRows>>

\* The caller is told that these rows are synced; where a sync does not reach
\* the medium, append's doc promises them to a killed process only.
Promise(rows) == promised' = IF FullSync THEN promised \cup rows ELSE promised

\* Faulty variant: the row is merged without waiting for the sync.
SyncSkipped(t) ==
  /\ th[t].pc = "sync"
  /\ Become(t, [th[t] EXCEPT !.pc = "merge"])
  /\ UNCHANGED <<diskVars, mode, nextRow, index, histVars>>

Sync(t) ==
  /\ th[t].pc = "sync"
  /\ SyncData
  /\ Become(t, [th[t] EXCEPT !.pc = "merge"])
  /\ UNCHANGED <<bytes, fileRows, mode, nextRow, index, histVars>>

(* append: merge_into_index under the index's write lock, then Ok(row). *)
Merge(t) ==
  /\ th[t].pc = "merge"
  /\ index' = MergeInto(index, th[t].row, th[t].ent)
  /\ acked' = [acked EXCEPT ![th[t].row] = th[t].ent]
  /\ Promise(IF SyncEach THEN {th[t].row} ELSE {})
  /\ Become(t, Idle)
  /\ UNCHANGED <<diskVars, mode, nextRow, indexFrom>>

\* Faulty variant: flush returns without syncing.
FlushSkipped(t) ==
  /\ mode = "open"
  /\ th[t] = Idle
  /\ Promise({r \in Rows : acked[r] # Nothing})
  /\ UNCHANGED <<diskVars, mode, nextRow, index, th, acked, indexFrom>>

(* flush: rows acknowledged before it are durable once it returns. *)
Flush(t) ==
  /\ mode = "open"
  /\ th[t] = Idle
  /\ SyncData
  /\ Promise({r \in Rows : acked[r] # Nothing})
  /\ UNCHANGED <<bytes, fileRows, mode, nextRow, index, th, acked, indexFrom>>

(* read_row of a row the file covers ("must" is history: the entry that     *)
(* had been acknowledged for it when the call began).                       *)
StartRead(t, r) ==
  /\ mode = "open"
  /\ t \in Readers
  /\ th[t] = Idle
  /\ r < fileRows
  /\ Become(t, [pc |-> "read", row |-> r, col |-> 0, buf |-> ZeroRow,
                must |-> acked[r]])
  /\ UNCHANGED <<diskVars, mode, nextRow, index, histVars>>

\* The buffer after the next piece of a positional read.
Fetched(s) == Overlay(s.buf, bytes[s.row], {s.col})

FetchRead(t) ==
  /\ th[t].pc = "read"
  /\ LET s == th[t] IN
       Become(t, [pc |-> IF s.col = LastCol THEN "got" ELSE "read", row |-> s.row,
                  col |-> s.col + 1, buf |-> Fetched(s), must |-> s.must])
  /\ UNCHANGED <<diskVars, mode, nextRow, index, histVars>>

FinishRead(t) ==
  /\ th[t].pc = "got"
  /\ Become(t, Idle)
  /\ UNCHANGED <<diskVars, mode, nextRow, index, histVars>>

\* rebuild_index fixes the number of rows it replays before it reads any.
BeginScan(t) ==
  Become(t, [pc |-> IF fileRows = 0 THEN "install" ELSE "scan", row |-> 0, col |-> 0,
             buf |-> ZeroRow, rows |-> fileRows, fresh |-> EmptyIndex])

StartRebuild(t) ==
  /\ LiveRebuild
  /\ mode = "open"
  /\ th[t] = Idle
  /\ BeginScan(t)
  /\ UNCHANGED <<diskVars, mode, nextRow, index, histVars>>

(* rebuild_index: the next piece of a row; a complete row is replayed. *)
FetchScan(t) ==
  /\ th[t].pc = "scan"
  /\ LET s == th[t] IN
       Become(t, IF s.col < LastCol
                 THEN [pc |-> "scan", row |-> s.row, col |-> s.col + 1,
                       buf |-> Fetched(s), rows |-> s.rows, fresh |-> s.fresh]
                 ELSE [pc |-> IF s.row + 1 = s.rows THEN "install" ELSE "scan",
                       row |-> s.row + 1, col |-> 0, buf |-> ZeroRow, rows |-> s.rows,
                       fresh |-> ReplayRow(s.fresh, s.row, Fetched(s))])
  /\ UNCHANGED <<diskVars, mode, nextRow, index, histVars>>

(* rebuild_index: the fresh index replaces the shared one, and open()       *)
(* returns the handle if it is open() that rebuilds.                        *)
Install(t) ==
  /\ th[t].pc = "install"
  /\ index' = th[t].fresh
  /\ indexFrom' = 0
  /\ mode' = "open"
  /\ Become(t, Idle)
  /\ UNCHANGED <<diskVars, nextRow, acked, promised>>

-----------------------------------------------------------------------------
\* Faulty variant: the counter is not reset from the file's length.
OpenAtZero(t) ==
  /\ mode = "closed"
  /\ mode' = "opening"
  /\ nextRow' = 0
  /\ index' = EmptyIndex
  /\ BeginScan(t)
  /\ UNCHANGED <<diskVars, histVars>>

\* Faulty variant: a torn tail row is counted as a row.
OpenRoundsUp(t) ==
  /\ mode = "closed"
  /\ mode' = "opening"
  /\ nextRow' = fileRows + 1
  /\ index' = EmptyIndex
  /\ BeginScan(t)
  /\ UNCHANGED <<diskVars, histVars>>

(* open: the next row is derived from the file's length, then the index is  *)
(* rebuilt by the opening thread before anyone else has the handle ...      *)
Open(t) ==
  /\ mode = "closed"
  /\ mode' = "opening"
  /\ nextRow' = fileRows
  /\ index' = EmptyIndex
  /\ BeginScan(t)
  /\ UNCHANGED <<diskVars, histVars>>

(* ... or stays empty, with rebuild_index_on_open off.                       *)
OpenUnindexed ==
  /\ SkipRebuild
  /\ mode = "closed"
  /\ mode' = "open"
  /\ nextRow' = fileRows
  /\ index' = EmptyIndex
  /\ indexFrom' = fileRows
  /\ UNCHANGED <<diskVars, th, acked, promised>>

\* Everything the process held in memory is gone.
LoseProcess ==
  /\ mode' = "closed"
  /\ nextRow' = 0
  /\ index' = EmptyIndex
  /\ indexFrom' = 0
  /\ th' = [t \in Threads |-> Idle]

(* Drop: the last handle goes away; its sync_data may fail unseen. *)
Close ==
  /\ mode = "open"
  /\ \A t \in Threads : th[t] = Idle
  /\ SyncData \/ UNCHANGED <<durBytes, durRows>>
  /\ LoseProcess
  /\ UNCHANGED <<bytes, fileRows, acked, promised>>

(* The process is killed: the kernel keeps what was written. *)
Crash ==
  /\ mode # "closed"
  /\ LoseProcess
  /\ UNCHANGED <<diskVars, acked, promised>>

\* Columns whose last write no sync has covered.
Unsynced ==
  {p \in Rows \X Cols : Overlay(durBytes[p[1]], bytes[p[1]], {p[2]}) # durBytes[p[1]]}

(* Power is lost: every unsynced column, and the unsynced growth of the     *)
(* file, may each be lost; bytes past the surviving length are gone.        *)
PowerCut ==
  \E n \in durRows..fileRows, kept \in SUBSET Unsynced :
    /\ \A p \in kept : p[1] < n \/ (p[1] = n /\ p[2] # LastCol)
    /\ bytes' = [r \in Rows |->
                   Overlay(durBytes[r], bytes[r], {c \in Cols : <<r, c>> \in kept})]
    /\ fileRows' = n
    /\ durBytes' = bytes'
    /\ durRows' = n
    /\ LoseProcess
    /\ acked' = [r \in Rows |-> IF r \in promised THEN acked[r] ELSE Nothing]
    /\ UNCHANGED promised

Next ==
  \/ \E t \in Threads :
       \/ \E e \in Entries : Reserve(t, e)
       \/ WriteColumn(t)
       \/ AppendFails(t)
       \/ Sync(t)
       \/ Merge(t)
       \/ Flush(t)
       \/ \E r \in Rows : StartRead(t, r)
       \/ FetchRead(t)
       \/ FinishRead(t)
       \/ StartRebuild(t)
       \/ FetchScan(t)
       \/ Install(t)
       \/ Open(t)
  \/ OpenUnindexed
  \/ Close
  \/ Crash
  \/ PowerCut

Spec == Init /\ [][Next]_vars
-----------------------------------------------------------------------------
(* Properties *)

IndexTypes == [Fields -> [row : Rows \cup {-1}, val : Values \cup {Absent}]]

Writing  == [pc : {"write", "sync", "merge"}, row : Rows, ent : Entries, col : Cols]
Reading  == [pc : {"read", "got"}, row : Rows, col : 0..(LastCol + 1),
             buf : RowImages, must : AllEntries \cup {Nothing}]
Scanning == [pc : {"scan", "install"}, row : 0..MaxRow, col : Cols,
             buf : RowImages, rows : 0..MaxRow, fresh : IndexTypes]

(* Every variable holds a value of its type: the row images, the durable     *)
(* copy, the reservation counter, the index and each thread's locals.        *)
TypeOK ==
  /\ bytes \in [Rows -> RowImages]
  /\ durBytes \in [Rows -> RowImages]
  /\ fileRows \in 0..MaxRow
  /\ durRows \in 0..MaxRow
  /\ mode \in {"closed", "opening", "open"}
  /\ nextRow \in 0..MaxRow
  /\ index \in IndexTypes
  /\ th \in [Threads -> {Idle} \cup Writing \cup Reading \cup Scanning]
  /\ acked \in [Rows -> Entries \cup {Nothing}]
  /\ promised \subseteq Rows
  /\ indexFrom \in 0..MaxRow

InAppend(t) == th[t].pc \in {"write", "sync", "merge"}

(* No row is handed out twice: two appends in flight never share a row, and  *)
(* no append writes into a row whose append already returned Ok - also after *)
(* restarts, where open() derives the next row from the file's length.       *)
RowsNeverShared ==
  /\ \A t, u \in Threads :
       t # u /\ InAppend(t) /\ InAppend(u) => th[t].row # th[u].row
  /\ \A t \in Threads : InAppend(t) => acked[th[t].row] = Nothing

(* A row whose append returned Ok is whole in the file and reads back as     *)
(* exactly the entry appended, whatever other threads do, across kills of    *)
(* the process and torn rows left behind by earlier ones.                    *)
AckedOnFile ==
  \A r \in Rows : acked[r] # Nothing =>
    r < fileRows /\ ParseRow(bytes[r]) = acked[r]

(* Where a sync reaches the medium, a row promised durable (append under     *)
(* each_write, or an append followed by flush) is whole in what a power cut  *)
(* leaves, so no row of a later run of the process can take its place.       *)
(* Elsewhere nothing is promised of a power cut, and what append's doc still *)
(* says, that the row survives the process, is AckedOnFile.                  *)
PromisedDurable ==
  \A r \in promised :
    acked[r] # Nothing /\ r < durRows /\ durBytes[r] = Encode(acked[r])

(* The rows the counter has handed out always cover the rows on disk         *)
(* (reserved_rows "always >= row_count"), for the handle that writes.        *)
ReservedCoverFile == mode # "closed" => fileRows <= nextRow

(* The inductive invariant behind AckedOnFile, PromisedDurable and           *)
(* RowsNeverShared.                                                          *)

\* Images a and b agree in column c.
SameColumn(a, b, c) ==
  /\ c = 0 => a.bits = b.bits
  /\ c \in Fields => a.data[c] = b.data[c]
  /\ c = SumCol => a.sum = b.sum

\* What an append in flight has already put into its row.
WrittenSoFar(t) ==
  /\ th[t].pc = "write" =>
       \A c \in 0..(th[t].col - 1) : SameColumn(bytes[th[t].row], Encode(th[t].ent), c)
  /\ th[t].pc \in {"sync", "merge"} =>
       bytes[th[t].row] = Encode(th[t].ent) /\ th[t].row < fileRows
  /\ th[t].pc = "merge" /\ SyncEach /\ FullSync =>
       durBytes[th[t].row] = Encode(th[t].ent) /\ th[t].row < durRows

AppendsInv ==
  \A t \in Threads : InAppend(t) =>
    /\ mode = "open"
    /\ th[t].row < nextRow
    /\ acked[th[t].row] = Nothing
    /\ WrittenSoFar(t)

AckedInv ==
  \A r \in Rows : acked[r] # Nothing =>
    r < fileRows /\ bytes[r] = Encode(acked[r])

\* Nobody is inside a closed vault; a scan is at a row it has to replay, a read
\* at a column it has to fetch.
CursorsInv ==
  \A t \in Threads :
    /\ th[t] # Idle => mode # "closed"
    /\ th[t].pc = "scan" => th[t].row < th[t].rows
    /\ th[t].pc = "read" => th[t].col <= LastCol

NoSumsInv == ~Checksum => \A r \in Rows : bytes[r].sum = {} /\ durBytes[r].sum = {}

(* Every row an append is writing is below the counter, unacknowledged and   *)
(* holds the columns written so far; acknowledged and promised rows hold     *)
(* their entry, in the file and in its durable copy.                         *)
IInv ==
  /\ TypeOK
  /\ RowsNeverShared
  /\ AppendsInv
  /\ AckedInv
  /\ PromisedDurable
  /\ ReservedCoverFile
  /\ durRows <= fileRows
  /\ CursorsInv
  /\ NoSumsInv

(* read_row, racing the append of the same row, never returns a row that is  *)
(* part old and part new: it returns what one append wrote to the row, and   *)
(* a row acknowledged before the call is returned in full.                   *)
ReadsAreWhole ==
  \A t \in Threads : th[t].pc = "got" =>
    LET got == ParseRow(th[t].buf) IN
      /\ got \notin {Nothing, Corrupt} => got = ParseRow(bytes[th[t].row])
      /\ th[t].must # Nothing => got = th[t].must

(* latest_at never invents a value: the index names a row of the file that   *)
(* holds this field with this value, and is neither a hole nor torn.         *)
IndexSound ==
  \A f \in Fields : index[f] # NoSlot =>
    LET got == ParseRow(bytes[index[f].row]) IN
      got \notin {Nothing, Corrupt} /\ got[f] = index[f].val /\ got[f] # Absent

(* Once append has returned, latest_at answers with that row or a later one  *)
(* that sets the field: merges out of row order included, and, unless the    *)
(* opener skipped the rebuild, all rows of earlier runs of the process.      *)
IndexCurrent ==
  mode = "open" =>
    \A r \in Rows, f \in Fields :
      r >= indexFrom /\ acked[r] # Nothing /\ acked[r][f] # Absent => index[f].row >= r

(* While the vault stays open, the row a field's latest value comes from     *)
(* never goes backwards: a merge that lost the race changes nothing.         *)
IndexAdvances ==
  [][mode = "open" /\ mode' = "open" =>
       \A f \in Fields : index'[f].row >= index[f].row]_vars

\* Row r, with image b, as the log shows it when the file has n rows.
ShownAs(r, n, b) ==
  IF r < n /\ ParseRow(b) # Corrupt THEN ParseRow(b) ELSE Nothing

\* The log of rows as read_row shows it.
Shown == [r \in Rows |-> ShownAs(r, fileRows, bytes[r])]

(* ... and how it stands for the abstract log. *)
Log == INSTANCE VaultLog WITH log <- Shown, safe <- promised

(* With row checksums, the file is an append-only log: rows appear whole and *)
(* once, never change, and only a power cut takes rows away, never a         *)
(* promised one.                                                             *)
ImplementsLog == Log!Spec
=============================================================================
