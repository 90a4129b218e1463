---------------------------- MODULE VaultProofs ----------------------------
(***************************************************************************)
(* Proofs about Vault: the invariant IInv is inductive, for any number of  *)
(* threads, fields, values and rows, either sync policy, with or without   *)
(* row checksums and live rebuilds, through errors, kills and power cuts.  *)
(* With row checksums, ReadInv adds what readers and rebuilds see of a     *)
(* file others write, and the vault implements VaultLog.  Without live     *)
(* rebuilds, CurrentInv adds that the index keeps up with the appends.     *)
(***************************************************************************)
EXTENDS Vault, TLAPS

-----------------------------------------------------------------------------
(* Row images *)

(* Laying columns of one row image over another gives a row image.           *)
LEMMA OverlayType ==
  ASSUME NEW a \in RowImages, NEW b \in RowImages, NEW cs
  PROVE  Overlay(a, b, cs) \in RowImages
BY DEF RowImages, Overlay

(* Laying columns of an image over itself changes nothing.                   *)
LEMMA OverlaySame ==
  ASSUME NEW a \in RowImages, NEW cs
  PROVE  Overlay(a, a, cs) = a
BY DEF RowImages, Overlay

(* The image append writes is a row image, and so is a row nobody wrote.     *)
LEMMA EncodeType ==
  ASSUME NEW e \in AllEntries
  PROVE  Encode(e) \in RowImages /\ EncodePayload(e) \in Payloads
<1> USE VaultAssumption
<1>1. EncodePayload(e) \in Payloads
  BY DEF EncodePayload, Payloads, AllEntries
<1>2. EncodePayload(e).bits \in SUBSET Fields /\ EncodePayload(e).data \in [Fields -> Values]
  BY <1>1 DEF Payloads
<1> QED
  BY <1>1, <1>2 DEF Encode, RowImages

LEMMA ZeroRowType == ZeroRow \in RowImages
BY VaultAssumption DEF ZeroRow, RowImages

(* read_row makes of any image a hole, an error or an entry.                 *)
LEMMA ParseRowType ==
  ASSUME NEW b \in RowImages
  PROVE  ParseRow(b) \in AllEntries \cup {Nothing, Corrupt}
<1>1. Decode(b) \in AllEntries
  BY DEF Decode, AllEntries, RowImages
<1> QED
  BY <1>1 DEF ParseRow

(* What append encodes, read_row decodes: presence bits and zeroed slots     *)
(* bring back every field, absent ones included, and the checksum matches.   *)
LEMMA ParseEncode ==
  ASSUME NEW e \in AllEntries
  PROVE  ParseRow(Encode(e)) = e
<1> USE VaultAssumption
<1>1. Encode(e).sum = IF Checksum THEN {EncodePayload(e)} ELSE {}
  BY DEF Encode
<1>2. Payload(Encode(e)) = EncodePayload(e)
  BY DEF Payload, Encode, EncodePayload
<1>3. Decode(Encode(e)) = [f \in Fields |-> e[f]]
  BY DEF Decode, Encode, EncodePayload, AllEntries
<1>4. e = [f \in Fields |-> e[f]]
  BY DEF AllEntries
<1> QED
  BY <1>1, <1>2, <1>3, <1>4 DEF ParseRow

(* After a column is written, it agrees with the image being written, and    *)
(* the columns that agreed before still do.                                  *)
LEMMA ColumnWritten ==
  ASSUME NEW a \in RowImages, NEW b \in RowImages, NEW c \in Cols
  PROVE  /\ SameColumn(Overlay(a, b, {c}), b, c)
         /\ \A d \in Cols : SameColumn(a, b, d) => SameColumn(Overlay(a, b, {c}), b, d)
BY DEF SameColumn, Overlay, RowImages

(* An image that agrees in every column is the image written.                *)
LEMMA AllColumnsWritten ==
  ASSUME NEW a \in RowImages, NEW b \in RowImages,
         \A c \in Cols : SameColumn(a, b, c),
         ~Checksum => a.sum = {} /\ b.sum = {}
  PROVE  a = b
<1> USE VaultAssumption
<1>1. Fields \subseteq Cols /\ 0 \in Cols /\ (Checksum => SumCol \in Cols)
  BY DEF Fields, Cols, LastCol, SumCol
<1>2. a.bits = b.bits
  BY <1>1 DEF SameColumn
<1>3. \A f \in Fields : a.data[f] = b.data[f]
  BY <1>1 DEF SameColumn
<1>4. a.data = b.data
  BY <1>3 DEF RowImages
<1>5. a.sum = b.sum
  BY <1>1 DEF SameColumn
<1> QED
  BY <1>2, <1>4, <1>5 DEF RowImages

-----------------------------------------------------------------------------
(* Types *)

(* Merging and replaying keep the index an index.                            *)
LEMMA IndexType ==
  ASSUME NEW ix \in IndexTypes, NEW r \in Rows
  PROVE  /\ EmptyIndex \in IndexTypes
         /\ \A e \in AllEntries : MergeInto(ix, r, e) \in IndexTypes
         /\ \A b \in RowImages : ReplayRow(ix, r, b) \in IndexTypes
<1>1. EmptyIndex \in IndexTypes
  BY DEF EmptyIndex, NoSlot, IndexTypes
<1>2. \A e \in AllEntries : MergeInto(ix, r, e) \in IndexTypes
  BY DEF MergeInto, IndexTypes, AllEntries
<1>3. ASSUME NEW b \in RowImages
      PROVE  ReplayRow(ix, r, b) \in IndexTypes
  BY <1>2, ParseRowType DEF ReplayRow
<1> QED
  BY <1>1, <1>2, <1>3

(* A thread's label says which locals it has.                                *)
LEMMA ThreadTypes ==
  ASSUME TypeOK, NEW t \in Threads
  PROVE  /\ th[t].pc \in {"write", "sync", "merge"} => th[t] \in Writing
         /\ th[t].pc \in {"read", "got"} => th[t] \in Reading
         /\ th[t].pc \in {"scan", "install"} => th[t] \in Scanning
         /\ th[t].pc \in {"idle", "write", "sync", "merge", "read", "got", "scan", "install"}
BY DEF TypeOK, Idle, Writing, Reading, Scanning

(* A thread that changes its locals for well-typed ones leaves the others.   *)
LEMMA BecomeType ==
  ASSUME TypeOK, NEW t \in Threads, NEW s, Become(t, s),
         s \in {Idle} \cup Writing \cup Reading \cup Scanning
  PROVE  /\ th' \in [Threads -> {Idle} \cup Writing \cup Reading \cup Scanning]
         /\ th'[t] = s
         /\ \A u \in Threads \ {t} : th'[u] = th[u]
BY DEF TypeOK, Become

LEMMA BeginScanType ==
  ASSUME TypeOK, NEW t \in Threads, BeginScan(t)
  PROVE  /\ th' \in [Threads -> {Idle} \cup Writing \cup Reading \cup Scanning]
         /\ \A u \in Threads \ {t} : th'[u] = th[u]
         /\ th'[t].pc \in {"scan", "install"}
         /\ th'[t].pc = "scan" => th'[t].row < th'[t].rows
<1> DEFINE s == [pc |-> IF fileRows = 0 THEN "install" ELSE "scan", row |-> 0, col |-> 0,
                 buf |-> ZeroRow, rows |-> fileRows, fresh |-> EmptyIndex]
<1>1. 0 \in Cols /\ 0 \in 0..MaxRow /\ fileRows \in 0..MaxRow
  BY VaultAssumption DEF TypeOK, Cols, LastCol, SumCol
<1>2. EmptyIndex \in IndexTypes
  BY DEF EmptyIndex, NoSlot, IndexTypes
<1>3. s \in Scanning
  BY <1>1, <1>2, ZeroRowType DEF Scanning
<1>4. Become(t, s)
  BY DEF BeginScan
<1>5. /\ th' \in [Threads -> {Idle} \cup Writing \cup Reading \cup Scanning]
      /\ th'[t] = s
      /\ \A u \in Threads \ {t} : th'[u] = th[u]
  BY <1>3, <1>4, BecomeType
<1>6. s.pc \in {"scan", "install"} /\ (s.pc = "scan" => s.row < s.rows)
  BY <1>1
<1> QED
  BY <1>5, <1>6

-----------------------------------------------------------------------------
(* Steps that leave the file, the counter and the history alone *)

(* A thread that moves on outside an append disturbs nothing but its own     *)
(* locals.                                                                   *)
LEMMA QuietStep ==
  ASSUME IInv, TypeOK', NEW t \in Threads,
         \A u \in Threads \ {t} : th'[u] = th[u],
         th'[t].pc \notin {"write", "sync", "merge"},
         UNCHANGED <<bytes, fileRows, durBytes, durRows, nextRow, acked, promised>>,
         mode # "closed" /\ mode' # "closed", mode = "open" => mode' = "open",
         th'[t].pc = "scan" => th'[t].row < th'[t].rows,
         th'[t].pc = "read" => th'[t].col <= LastCol
  PROVE  IInv'
<1>1. \A u \in Threads : InAppend(u)' => u # t /\ InAppend(u) /\ th'[u] = th[u]
  BY DEF InAppend
<1>2. RowsNeverShared'
  BY <1>1 DEF IInv, RowsNeverShared
<1>3. AppendsInv'
  BY <1>1 DEF IInv, AppendsInv, WrittenSoFar
<1>4. AckedInv' /\ PromisedDurable' /\ ReservedCoverFile' /\ (durRows <= fileRows)' /\ NoSumsInv'
  BY DEF IInv, AckedInv, PromisedDurable, ReservedCoverFile, NoSumsInv
<1>5. CursorsInv'
  BY DEF IInv, CursorsInv
<1> QED
  BY <1>2, <1>3, <1>4, <1>5 DEF IInv

(* read_row begins: the row is covered by the file.                          *)
LEMMA StartReadStep ==
  ASSUME IInv, NEW t \in Threads, NEW r \in Rows, StartRead(t, r)
  PROVE  IInv'
<1> DEFINE s == [pc |-> "read", row |-> r, col |-> 0, buf |-> ZeroRow, must |-> acked[r]]
<1>1. TypeOK
  BY DEF IInv
<1>2. s \in Reading /\ 0 <= LastCol
  BY <1>1, ZeroRowType, VaultAssumption DEF TypeOK, Reading, LastCol, SumCol
<1>3. Become(t, s)
  BY DEF StartRead
<1>4. /\ th' \in [Threads -> {Idle} \cup Writing \cup Reading \cup Scanning]
      /\ th'[t] = s
      /\ \A u \in Threads \ {t} : th'[u] = th[u]
  BY <1>1, <1>2, <1>3, BecomeType
<1>5. TypeOK'
  BY <1>1, <1>4 DEF TypeOK, StartRead, diskVars, histVars
<1> QED
  BY <1>2, <1>4, <1>5, QuietStep DEF StartRead, diskVars, histVars

(* The next piece of a row is read.                                          *)
LEMMA FetchReadStep ==
  ASSUME IInv, NEW t \in Threads, FetchRead(t)
  PROVE  IInv'
<1> DEFINE s == [pc |-> IF th[t].col = LastCol THEN "got" ELSE "read", row |-> th[t].row,
                 col |-> th[t].col + 1, buf |-> Fetched(th[t]), must |-> th[t].must]
<1>1. TypeOK /\ th[t].pc = "read"
  BY DEF IInv, FetchRead
<1>2. th[t] \in Reading /\ th[t].col <= LastCol /\ mode # "closed"
  BY <1>1, ThreadTypes DEF IInv, CursorsInv, Idle
<1>3. Fetched(th[t]) \in RowImages
  BY <1>1, <1>2, OverlayType DEF Fetched, Reading, TypeOK
<1>4. LastCol \in Nat
  BY VaultAssumption DEF LastCol, SumCol
<1>5. /\ s \in Reading
      /\ s.pc \in {"read", "got"}
      /\ s.pc = "read" => s.col <= LastCol
  BY <1>2, <1>3, <1>4 DEF Reading
<1>6. Become(t, s)
  BY DEF FetchRead
<1>7. /\ th' \in [Threads -> {Idle} \cup Writing \cup Reading \cup Scanning]
      /\ th'[t] = s
      /\ \A u \in Threads \ {t} : th'[u] = th[u]
  BY <1>1, <1>5, <1>6, BecomeType
<1>8. TypeOK'
  BY <1>1, <1>7 DEF TypeOK, FetchRead, diskVars, histVars
<1> QED
  BY <1>2, <1>5, <1>7, <1>8, QuietStep DEF FetchRead, diskVars, histVars

(* A read returns, or an append fails: the thread is idle again.             *)
LEMMA ToIdleStep ==
  ASSUME IInv, NEW t \in Threads, FinishRead(t) \/ AppendFails(t)
  PROVE  IInv'
<1>1. TypeOK /\ th[t] # Idle /\ Become(t, Idle)
  BY DEF IInv, FinishRead, AppendFails, Idle
<1>2. /\ th' \in [Threads -> {Idle} \cup Writing \cup Reading \cup Scanning]
      /\ th'[t] = Idle
      /\ \A u \in Threads \ {t} : th'[u] = th[u]
  BY <1>1, BecomeType
<1>3. UNCHANGED <<bytes, fileRows, durBytes, durRows, mode, nextRow, index, acked, promised, indexFrom>>
  BY DEF FinishRead, AppendFails, diskVars, histVars
<1>4. TypeOK'
  BY <1>1, <1>2, <1>3 DEF TypeOK
<1>5. mode # "closed"
  BY <1>1 DEF IInv, CursorsInv
<1> QED
  BY <1>2, <1>3, <1>4, <1>5, QuietStep DEF Idle

(* rebuild_index begins on a live handle.                                    *)
LEMMA StartRebuildStep ==
  ASSUME IInv, NEW t \in Threads, StartRebuild(t)
  PROVE  IInv'
<1>1. TypeOK /\ BeginScan(t) /\ mode = "open"
  BY DEF IInv, StartRebuild
<1>2. UNCHANGED <<bytes, fileRows, durBytes, durRows, mode, nextRow, index, acked, promised, indexFrom>>
  BY DEF StartRebuild, diskVars, histVars
<1>3. /\ th' \in [Threads -> {Idle} \cup Writing \cup Reading \cup Scanning]
      /\ \A u \in Threads \ {t} : th'[u] = th[u]
      /\ th'[t].pc \in {"scan", "install"}
      /\ th'[t].pc = "scan" => th'[t].row < th'[t].rows
  BY <1>1, BeginScanType
<1>4. TypeOK'
  BY <1>1, <1>2, <1>3 DEF TypeOK
<1> QED
  BY <1>1, <1>2, <1>3, <1>4, QuietStep

(* rebuild_index reads the next piece of a row, and replays a whole one.     *)
LEMMA FetchScanStep ==
  ASSUME IInv, NEW t \in Threads, FetchScan(t)
  PROVE  IInv'
<1> DEFINE s == th[t]
           more == [pc |-> "scan", row |-> s.row, col |-> s.col + 1,
                    buf |-> Fetched(s), rows |-> s.rows, fresh |-> s.fresh]
           replayed == [pc |-> IF s.row + 1 = s.rows THEN "install" ELSE "scan",
                        row |-> s.row + 1, col |-> 0, buf |-> ZeroRow, rows |-> s.rows,
                        fresh |-> ReplayRow(s.fresh, s.row, Fetched(s))]
<1>1. TypeOK /\ s.pc = "scan"
  BY DEF IInv, FetchScan
<1>2. s \in Scanning /\ s.row < s.rows /\ mode # "closed"
  BY <1>1, ThreadTypes DEF IInv, CursorsInv, Idle
<1>3. s.row \in Rows
  BY <1>2, VaultAssumption DEF Scanning, Rows
<1>4. Fetched(s) \in RowImages
  BY <1>1, <1>2, <1>3, OverlayType DEF Fetched, Scanning, TypeOK
<1>5. ReplayRow(s.fresh, s.row, Fetched(s)) \in IndexTypes
  BY <1>2, <1>3, <1>4, IndexType DEF Scanning
<1>6. LastCol \in Nat /\ 0 \in Cols
  BY VaultAssumption DEF LastCol, SumCol, Cols
<1>7. s.col < LastCol => more \in Scanning /\ more.pc = "scan" /\ more.row < more.rows
  BY <1>1, <1>2, <1>4, <1>6 DEF Scanning, Cols
<1>8. /\ replayed \in Scanning
      /\ replayed.pc = "scan" => replayed.row < replayed.rows
  BY <1>2, <1>5, <1>6, ZeroRowType, VaultAssumption DEF Scanning
<1>9. PICK n \in {more, replayed} :
        Become(t, n) /\ n \in Scanning /\ (n.pc = "scan" => n.row < n.rows)
  BY <1>7, <1>8 DEF FetchScan
<1>10. /\ th' \in [Threads -> {Idle} \cup Writing \cup Reading \cup Scanning]
       /\ th'[t] = n
       /\ \A u \in Threads \ {t} : th'[u] = th[u]
  BY <1>1, <1>9, BecomeType
<1>11. UNCHANGED <<bytes, fileRows, durBytes, durRows, mode, nextRow, index, acked, promised, indexFrom>>
  BY DEF FetchScan, diskVars, histVars
<1>12. TypeOK'
  BY <1>1, <1>10, <1>11 DEF TypeOK
<1>13. th'[t].pc \in {"scan", "install"}
  BY <1>9, <1>10 DEF Scanning
<1> QED
  BY <1>2, <1>9, <1>10, <1>11, <1>12, <1>13, QuietStep

(* The fresh index replaces the shared one.                                  *)
LEMMA InstallStep ==
  ASSUME IInv, NEW t \in Threads, Install(t)
  PROVE  IInv'
<1>1. TypeOK /\ th[t].pc = "install" /\ Become(t, Idle)
  BY DEF IInv, Install
<1>2. th[t] \in Scanning /\ mode # "closed"
  BY <1>1, ThreadTypes DEF IInv, CursorsInv, Idle
<1>3. /\ th' \in [Threads -> {Idle} \cup Writing \cup Reading \cup Scanning]
      /\ th'[t] = Idle
      /\ \A u \in Threads \ {t} : th'[u] = th[u]
  BY <1>1, BecomeType
<1>4. index' \in IndexTypes /\ mode' = "open" /\ indexFrom' \in 0..MaxRow
  BY <1>2, VaultAssumption DEF Install, Scanning
<1>5. UNCHANGED <<bytes, fileRows, durBytes, durRows, nextRow, acked, promised>>
  BY DEF Install, diskVars, histVars
<1>6. TypeOK'
  BY <1>1, <1>3, <1>4, <1>5 DEF TypeOK
<1> QED
  BY <1>2, <1>3, <1>4, <1>5, <1>6, QuietStep DEF Idle

-----------------------------------------------------------------------------
(* The steps of an append *)

(* A row is reserved: the counter has handed it to nobody else, and no row   *)
(* at or above the counter is acknowledged.                                  *)
LEMMA ReserveStep ==
  ASSUME IInv, NEW t \in Threads, NEW e \in Entries, Reserve(t, e)
  PROVE  IInv'
<1> DEFINE s == [pc |-> "write", row |-> nextRow, ent |-> e, col |-> 0]
<1>1. TypeOK /\ mode = "open" /\ th[t] = Idle
  BY DEF IInv, Reserve
<1>2. nextRow \in Rows /\ 0 \in Cols /\ s \in Writing
  BY <1>1, VaultAssumption DEF TypeOK, Reserve, Rows, Cols, LastCol, SumCol, Writing
<1>3. Become(t, s) /\ nextRow' = nextRow + 1
  BY DEF Reserve
<1>4. /\ th' \in [Threads -> {Idle} \cup Writing \cup Reading \cup Scanning]
      /\ th'[t] = s
      /\ \A u \in Threads \ {t} : th'[u] = th[u]
  BY <1>1, <1>2, <1>3, BecomeType
<1>5. UNCHANGED <<bytes, fileRows, durBytes, durRows, mode, index, acked, promised, indexFrom>>
  BY DEF Reserve, diskVars, histVars
<1>6. nextRow \in Nat /\ nextRow' \in 0..MaxRow /\ fileRows \in Nat /\ fileRows <= nextRow
  BY <1>1, <1>2, <1>3, VaultAssumption DEF TypeOK, Rows, IInv, ReservedCoverFile
<1>7. TypeOK'
  BY <1>1, <1>4, <1>5, <1>6 DEF TypeOK
<1>8. acked[nextRow] = Nothing
  BY <1>2, <1>6 DEF IInv, AckedInv
<1>9. \A u \in Threads \ {t} : InAppend(u)' => InAppend(u) /\ th[u].row < nextRow
  BY <1>4 DEF InAppend, IInv, AppendsInv
<1>10. AppendsInv'
  <2> SUFFICES ASSUME NEW u \in Threads, InAppend(u)'
               PROVE  /\ mode' = "open"
                      /\ th'[u].row < nextRow'
                      /\ acked'[th'[u].row] = Nothing
                      /\ WrittenSoFar(u)'
    BY DEF AppendsInv
  <2>1. CASE u = t
    BY <2>1, <1>1, <1>3, <1>4, <1>5, <1>6, <1>8 DEF WrittenSoFar
  <2>2. CASE u # t
    <3>1. InAppend(u) /\ th'[u] = th[u] /\ th[u] \in Writing
      BY <2>2, <1>1, <1>4, <1>9, ThreadTypes DEF InAppend
    <3>2. th[u].row < nextRow' /\ acked[th[u].row] = Nothing /\ WrittenSoFar(u)
      BY <3>1, <1>3, <1>6, <1>9, <2>2, VaultAssumption DEF IInv, AppendsInv, Writing, Rows
    <3> QED
      BY <3>1, <3>2, <1>1, <1>5 DEF WrittenSoFar
  <2> QED
    BY <2>1, <2>2
<1>11. RowsNeverShared'
  <2>1. \A u, w \in Threads :
          u # w /\ InAppend(u)' /\ InAppend(w)' => th'[u].row # th'[w].row
    BY <1>4, <1>6, <1>9 DEF IInv, RowsNeverShared
  <2>2. \A u \in Threads : InAppend(u)' => acked'[th'[u].row] = Nothing
    BY <1>10 DEF AppendsInv
  <2> QED
    BY <2>1, <2>2 DEF RowsNeverShared
<1>12. AckedInv' /\ PromisedDurable' /\ (durRows <= fileRows)' /\ NoSumsInv'
  BY <1>5 DEF IInv, AckedInv, PromisedDurable, NoSumsInv
<1>13. ReservedCoverFile'
  BY <1>3, <1>5, <1>6 DEF ReservedCoverFile
<1>14. CursorsInv'
  BY <1>1, <1>4, <1>5 DEF IInv, CursorsInv
<1> QED
  BY <1>7, <1>10, <1>11, <1>12, <1>13, <1>14 DEF IInv

(* A column is written: only this append's row changes, which is nobody      *)
(* else's and not acknowledged, and with the last column the row is whole.   *)
LEMMA WriteColumnStep ==
  ASSUME IInv, NEW t \in Threads, WriteColumn(t)
  PROVE  IInv'
<1> DEFINE w == th[t]
           img == Encode(w.ent)
           s == IF w.col < LastCol THEN [w EXCEPT !.col = @ + 1]
                ELSE [w EXCEPT !.pc = IF SyncEach THEN "sync" ELSE "merge"]
<1>1. TypeOK /\ w.pc = "write" /\ InAppend(t)
  BY DEF IInv, WriteColumn, InAppend
<1>2. w \in Writing /\ w.row \in Rows /\ w.col \in Cols /\ w.ent \in AllEntries
  BY <1>1, ThreadTypes, VaultAssumption DEF Writing
<1>3. LastCol \in Nat /\ Cols = 0..LastCol /\ Rows \subseteq Nat
  BY VaultAssumption DEF LastCol, SumCol, Cols, Rows
<1>4. img \in RowImages /\ bytes[w.row] \in RowImages
  BY <1>1, <1>2, EncodeType DEF TypeOK
<1>5. /\ mode = "open"
      /\ w.row < nextRow
      /\ acked[w.row] = Nothing
      /\ \A c \in 0..(w.col - 1) : SameColumn(bytes[w.row], img, c)
  BY <1>1 DEF IInv, AppendsInv, WrittenSoFar
<1>6. /\ s \in Writing
      /\ s.row = w.row /\ s.ent = w.ent
      /\ s.pc = "write" => s.col = w.col + 1 /\ w.col < LastCol
      /\ s.pc \in {"sync", "merge"} => w.col = LastCol
      /\ s.pc = "merge" => ~SyncEach
  <2>1. CASE w.col < LastCol
    BY <2>1, <1>1, <1>2, <1>3 DEF Writing
  <2>2. CASE ~(w.col < LastCol)
    BY <2>2, <1>1, <1>2, <1>3 DEF Writing
  <2> QED
    BY <2>1, <2>2
<1>7. Become(t, s)
  BY DEF WriteColumn
<1>8. /\ th' \in [Threads -> {Idle} \cup Writing \cup Reading \cup Scanning]
      /\ th'[t] = s
      /\ \A u \in Threads \ {t} : th'[u] = th[u]
  BY <1>1, <1>6, <1>7, BecomeType
<1>9. UNCHANGED <<durBytes, durRows, mode, nextRow, index, acked, promised, indexFrom>>
  BY DEF WriteColumn, histVars
<1>10. bytes' = [bytes EXCEPT ![w.row] = Overlay(bytes[w.row], img, {w.col})]
  BY DEF WriteColumn
<1>11. /\ bytes' \in [Rows -> RowImages]
       /\ bytes'[w.row] = Overlay(bytes[w.row], img, {w.col})
       /\ \A r \in Rows \ {w.row} : bytes'[r] = bytes[r]
  BY <1>1, <1>2, <1>4, <1>10, OverlayType DEF TypeOK
<1>12. /\ fileRows' \in 0..MaxRow
       /\ fileRows <= fileRows' /\ fileRows' <= nextRow
       /\ w.col = LastCol => w.row < fileRows'
  BY <1>1, <1>2, <1>3, <1>5, VaultAssumption
     DEF WriteColumn, RowsCovering, TypeOK, Rows, IInv, ReservedCoverFile
<1>13. TypeOK'
  BY <1>1, <1>8, <1>9, <1>11, <1>12 DEF TypeOK
<1>14. \A c \in 0..w.col : SameColumn(bytes'[w.row], img, c)
  <2>1. SameColumn(bytes'[w.row], img, w.col)
    BY <1>2, <1>4, <1>11, ColumnWritten
  <2>2. ASSUME NEW c \in 0..(w.col - 1)
        PROVE  SameColumn(bytes'[w.row], img, c)
    <3>1. c \in Cols /\ SameColumn(bytes[w.row], img, c)
      BY <1>2, <1>3, <1>5
    <3> QED
      BY <3>1, <1>2, <1>4, <1>11, ColumnWritten
  <2> QED
    BY <2>1, <2>2, <1>2, <1>3
<1>15. ~Checksum => img.sum = {} /\ bytes'[w.row].sum = {}
  BY <1>2, <1>11 DEF Encode, Overlay, IInv, NoSumsInv
<1>16. w.col = LastCol => bytes'[w.row] = img
  BY <1>2, <1>3, <1>4, <1>11, <1>14, <1>15, AllColumnsWritten
<1>17. \A u \in Threads \ {t} : InAppend(u)' => InAppend(u) /\ th[u].row # w.row
  BY <1>1, <1>8 DEF InAppend, IInv, RowsNeverShared
<1>18. AppendsInv'
  <2> SUFFICES ASSUME NEW u \in Threads, InAppend(u)'
               PROVE  /\ mode' = "open"
                      /\ th'[u].row < nextRow'
                      /\ acked'[th'[u].row] = Nothing
                      /\ WrittenSoFar(u)'
    BY DEF AppendsInv
  <2>1. CASE u = t
    <3>1. s.pc = "write" => \A c \in 0..(s.col - 1) : SameColumn(bytes'[w.row], img, c)
      BY <1>2, <1>3, <1>6, <1>14
    <3>2. WrittenSoFar(t)'
      BY <3>1, <1>6, <1>8, <1>12, <1>16 DEF WrittenSoFar
    <3> QED
      BY <2>1, <3>2, <1>5, <1>6, <1>8, <1>9
  <2>2. CASE u # t
    <3>1. InAppend(u) /\ th'[u] = th[u] /\ th[u].row # w.row
      BY <2>2, <1>8, <1>17
    <3>2. th[u] \in Writing /\ th[u].row \in Rows
      BY <3>1, <1>1, ThreadTypes DEF InAppend, Writing
    <3>3. bytes'[th[u].row] = bytes[th[u].row]
      BY <3>1, <3>2, <1>11
    <3>4. /\ mode = "open" /\ th[u].row < nextRow /\ acked[th[u].row] = Nothing
          /\ WrittenSoFar(u)
      BY <3>1 DEF IInv, AppendsInv
    <3>5. th[u].row < fileRows => th[u].row < fileRows'
      BY <3>2, <1>1, <1>12, VaultAssumption DEF TypeOK, Rows
    <3>6. WrittenSoFar(u)'
      BY <3>1, <3>3, <3>4, <3>5, <1>9 DEF WrittenSoFar
    <3> QED
      BY <3>1, <3>4, <3>6, <1>9
  <2> QED
    BY <2>1, <2>2
<1>19. RowsNeverShared'
  <2>1. \A u \in Threads : InAppend(u)' => InAppend(u) /\ th'[u].row = th[u].row
    BY <1>1, <1>6, <1>8, <1>17
  <2> QED
    BY <2>1, <1>9 DEF IInv, RowsNeverShared
<1>20. AckedInv'
  <2> SUFFICES ASSUME NEW r \in Rows, acked'[r] # Nothing
               PROVE  r < fileRows' /\ bytes'[r] = Encode(acked'[r])
    BY DEF AckedInv
  <2>1. r < fileRows /\ bytes[r] = Encode(acked[r]) /\ acked'[r] = acked[r] /\ r # w.row
    BY <1>5, <1>9 DEF IInv, AckedInv
  <2>2. bytes'[r] = bytes[r]
    BY <1>11, <2>1
  <2>3. r < fileRows'
    BY <2>1, <1>1, <1>3, <1>12, VaultAssumption DEF TypeOK
  <2> QED
    BY <2>1, <2>2, <2>3
<1>21. PromisedDurable' /\ CursorsInv'
  BY <1>5, <1>6, <1>8, <1>9 DEF IInv, PromisedDurable, CursorsInv, Writing
<1>22. ReservedCoverFile' /\ (durRows <= fileRows)'
  BY <1>1, <1>9, <1>12 DEF IInv, ReservedCoverFile, TypeOK
<1>23. NoSumsInv'
  BY <1>9, <1>11, <1>15 DEF IInv, NoSumsInv
<1> QED
  BY <1>13, <1>18, <1>19, <1>20, <1>21, <1>22, <1>23 DEF IInv

(* fdatasync makes the file as it is durable, rows promised earlier and the  *)
(* caller's row among them.                                                  *)
LEMMA SyncStep ==
  ASSUME IInv, NEW t \in Threads, Sync(t)
  PROVE  IInv'
<1> DEFINE w == th[t]
           s == [w EXCEPT !.pc = "merge"]
<1>1. TypeOK /\ w.pc = "sync" /\ InAppend(t)
  BY DEF IInv, Sync, InAppend
<1>2. w \in Writing
  BY <1>1, ThreadTypes
<1>3. s \in Writing /\ s.pc = "merge" /\ s.row = w.row /\ s.ent = w.ent
  BY <1>2 DEF Writing
<1>4. Become(t, s)
  BY DEF Sync
<1>5. /\ th' \in [Threads -> {Idle} \cup Writing \cup Reading \cup Scanning]
      /\ th'[t] = s
      /\ \A u \in Threads \ {t} : th'[u] = th[u]
  BY <1>1, <1>3, <1>4, BecomeType
<1>6. /\ IF FullSync THEN durBytes' = bytes /\ durRows' = fileRows
         ELSE UNCHANGED <<durBytes, durRows>>
      /\ UNCHANGED <<bytes, fileRows, mode, nextRow, index, acked, promised, indexFrom>>
  BY DEF Sync, SyncData, histVars
<1>7. TypeOK'
  BY <1>1, <1>5, <1>6 DEF TypeOK
<1>8. \A u \in Threads : InAppend(u)' => InAppend(u) /\ th'[u].row = th[u].row
  BY <1>1, <1>3, <1>5 DEF InAppend
<1>9. AppendsInv'
  <2> SUFFICES ASSUME NEW u \in Threads, InAppend(u)'
               PROVE  /\ mode' = "open"
                      /\ th'[u].row < nextRow'
                      /\ acked'[th'[u].row] = Nothing
                      /\ WrittenSoFar(u)'
    BY DEF AppendsInv
  <2>1. /\ mode = "open" /\ th[u].row < nextRow /\ acked[th[u].row] = Nothing
        /\ WrittenSoFar(u)
    BY <1>8 DEF IInv, AppendsInv
  <2>2. WrittenSoFar(u)'
    <3>1. CASE u = t
      BY <3>1, <2>1, <1>1, <1>3, <1>5, <1>6 DEF WrittenSoFar
    <3>2. CASE u # t
      BY <3>2, <2>1, <1>5, <1>6 DEF WrittenSoFar
    <3> QED
      BY <3>1, <3>2
  <2> QED
    BY <2>1, <2>2, <1>6, <1>8
<1>10. RowsNeverShared'
  BY <1>6, <1>8 DEF IInv, RowsNeverShared
<1>11. PromisedDurable'
  BY <1>1, <1>6 DEF IInv, PromisedDurable, AckedInv, TypeOK
<1>12. AckedInv' /\ ReservedCoverFile' /\ NoSumsInv'
  BY <1>6 DEF IInv, AckedInv, ReservedCoverFile, NoSumsInv
<1>13. CursorsInv'
  <2>1. mode = "open"
    BY <1>1 DEF IInv, AppendsInv
  <2> QED
    BY <2>1, <1>3, <1>5, <1>6 DEF IInv, CursorsInv
<1>14. (durRows <= fileRows)'
  BY <1>1, <1>6, VaultAssumption DEF IInv, TypeOK
<1> QED
  BY <1>7, <1>9, <1>10, <1>11, <1>12, <1>13, <1>14 DEF IInv

(* append returns: its row is whole in the file, and durable if synced.      *)
LEMMA MergeStep ==
  ASSUME IInv, NEW t \in Threads, Merge(t)
  PROVE  IInv'
<1> DEFINE w == th[t]
<1>1. TypeOK /\ w.pc = "merge" /\ InAppend(t)
  BY DEF IInv, Merge, InAppend
<1>2. w \in Writing /\ w.row \in Rows /\ w.ent \in Entries /\ w.ent \in AllEntries
  BY <1>1, ThreadTypes, VaultAssumption DEF Writing
<1>3. /\ mode = "open"
      /\ bytes[w.row] = Encode(w.ent) /\ w.row < fileRows
      /\ SyncEach /\ FullSync => durBytes[w.row] = Encode(w.ent) /\ w.row < durRows
  BY <1>1 DEF IInv, AppendsInv, WrittenSoFar
<1>4. Become(t, Idle)
  BY DEF Merge
<1>5. /\ th' \in [Threads -> {Idle} \cup Writing \cup Reading \cup Scanning]
      /\ th'[t] = Idle
      /\ \A u \in Threads \ {t} : th'[u] = th[u]
  BY <1>1, <1>4, BecomeType
<1>6. /\ acked' = [acked EXCEPT ![w.row] = w.ent]
      /\ promised' = IF SyncEach /\ FullSync THEN promised \cup {w.row} ELSE promised
      /\ UNCHANGED <<bytes, fileRows, durBytes, durRows, mode, nextRow, indexFrom>>
  BY DEF Merge, Promise, diskVars
<1>7. acked'[w.row] = w.ent /\ \A r \in Rows \ {w.row} : acked'[r] = acked[r]
  BY <1>1, <1>2, <1>6 DEF TypeOK
<1>8. index' \in IndexTypes
  BY <1>1, <1>2, IndexType DEF Merge, TypeOK
<1>9. TypeOK'
  BY <1>1, <1>2, <1>5, <1>6, <1>8 DEF TypeOK
<1>10. \A u \in Threads : InAppend(u)' =>
         u # t /\ InAppend(u) /\ th'[u] = th[u] /\ th[u].row \in Rows \ {w.row}
  <2> SUFFICES ASSUME NEW u \in Threads, InAppend(u)'
               PROVE  u # t /\ InAppend(u) /\ th'[u] = th[u] /\ th[u].row \in Rows \ {w.row}
    OBVIOUS
  <2>1. u # t /\ InAppend(u) /\ th'[u] = th[u]
    BY <1>5 DEF InAppend, Idle
  <2>2. th[u].row \in Rows
    BY <2>1, <1>1, ThreadTypes DEF InAppend, Writing
  <2>3. th[u].row # w.row
    BY <2>1, <1>1 DEF IInv, RowsNeverShared
  <2> QED
    BY <2>1, <2>2, <2>3
<1>11. AppendsInv'
  BY <1>6, <1>7, <1>10 DEF IInv, AppendsInv, WrittenSoFar
<1>12. RowsNeverShared'
  BY <1>7, <1>10 DEF IInv, RowsNeverShared
<1>13. AckedInv'
  BY <1>3, <1>6, <1>7 DEF IInv, AckedInv
<1>14. w.ent # Nothing
  BY <1>2, VaultAssumption
<1>15. PromisedDurable'
  <2> SUFFICES ASSUME NEW r \in promised'
               PROVE  acked'[r] # Nothing /\ r < durRows /\ durBytes[r] = Encode(acked'[r])
    BY <1>6 DEF PromisedDurable
  <2>1. CASE r = w.row
    <3>1. acked[w.row] = Nothing
      BY <1>1 DEF IInv, RowsNeverShared
    <3>2. SyncEach /\ FullSync
      BY <2>1, <3>1, <1>6 DEF IInv, PromisedDurable
    <3> QED
      BY <2>1, <3>2, <1>3, <1>7, <1>14
  <2>2. CASE r # w.row
    <3>1. r \in promised /\ r \in Rows
      BY <2>2, <1>1, <1>6 DEF TypeOK
    <3> QED
      BY <2>2, <3>1, <1>7 DEF IInv, PromisedDurable
  <2> QED
    BY <2>1, <2>2
<1>16. ReservedCoverFile' /\ NoSumsInv' /\ (durRows <= fileRows)' /\ CursorsInv'
  BY <1>5, <1>6 DEF IInv, ReservedCoverFile, NoSumsInv, CursorsInv, Idle
<1> QED
  BY <1>9, <1>11, <1>12, <1>13, <1>15, <1>16 DEF IInv

(* flush: every acknowledged row is whole in the file it makes durable.      *)
LEMMA FlushStep ==
  ASSUME IInv, NEW t \in Threads, Flush(t)
  PROVE  IInv'
<1>1. /\ TypeOK
      /\ IF FullSync
         THEN /\ durBytes' = bytes /\ durRows' = fileRows
              /\ promised' = promised \cup {r \in Rows : acked[r] # Nothing}
         ELSE UNCHANGED <<durBytes, durRows, promised>>
      /\ UNCHANGED <<bytes, fileRows, mode, nextRow, index, th, acked, indexFrom>>
  BY DEF IInv, Flush, SyncData, Promise
<1>2. TypeOK'
  BY <1>1 DEF TypeOK
<1>3. PromisedDurable'
  BY <1>1 DEF IInv, PromisedDurable, AckedInv, TypeOK
<1>4. AppendsInv' /\ RowsNeverShared'
  BY <1>1 DEF IInv, AppendsInv, WrittenSoFar, RowsNeverShared, InAppend
<1>5. AckedInv' /\ ReservedCoverFile' /\ NoSumsInv' /\ CursorsInv'
  BY <1>1 DEF IInv, AckedInv, ReservedCoverFile, NoSumsInv, CursorsInv
<1>6. (durRows <= fileRows)'
  BY <1>1 DEF IInv, TypeOK
<1> QED
  BY <1>2, <1>3, <1>4, <1>5, <1>6 DEF IInv

-----------------------------------------------------------------------------
(* Opening, closing and losing the process *)

\* No thread is inside an append.
NobodyAppends == \A t \in Threads : ~InAppend(t)

(* With nobody appending, the invariant is what it says of the file, its     *)
(* durable copy and the acknowledged rows.                                   *)
LEMMA NobodyInside ==
  ASSUME TypeOK', NobodyAppends', AckedInv', PromisedDurable', ReservedCoverFile',
         (durRows <= fileRows)', CursorsInv', NoSumsInv'
  PROVE  IInv'
<1>1. AppendsInv'
  BY DEF AppendsInv, NobodyAppends
<1>2. RowsNeverShared'
  BY DEF RowsNeverShared, NobodyAppends
<1> QED
  BY <1>1, <1>2 DEF IInv

(* open takes the next row from the file's length.                           *)
LEMMA OpenStep ==
  ASSUME IInv, NEW t \in Threads, Open(t)
  PROVE  IInv'
<1>1. TypeOK /\ BeginScan(t) /\ mode = "closed" /\ \A u \in Threads : th[u] = Idle
  BY DEF IInv, Open, CursorsInv
<1>2. /\ th' \in [Threads -> {Idle} \cup Writing \cup Reading \cup Scanning]
      /\ \A u \in Threads \ {t} : th'[u] = th[u]
      /\ th'[t].pc \in {"scan", "install"}
      /\ th'[t].pc = "scan" => th'[t].row < th'[t].rows
  BY <1>1, BeginScanType
<1>3. /\ UNCHANGED <<bytes, fileRows, durBytes, durRows, acked, promised, indexFrom>>
      /\ mode' = "opening" /\ nextRow' = fileRows /\ index' = EmptyIndex
  BY DEF Open, diskVars, histVars
<1>4. EmptyIndex \in IndexTypes
  BY DEF EmptyIndex, NoSlot, IndexTypes
<1>5. TypeOK'
  BY <1>1, <1>2, <1>3, <1>4 DEF TypeOK
<1>6. \A u \in Threads : th'[u].pc \in {"idle", "scan", "install"}
  BY <1>1, <1>2 DEF Idle
<1>7. NobodyAppends'
  BY <1>6 DEF NobodyAppends, InAppend
<1>8. CursorsInv'
  BY <1>1, <1>2, <1>3, <1>6 DEF CursorsInv, Idle
<1>9. AckedInv' /\ PromisedDurable' /\ NoSumsInv' /\ (durRows <= fileRows)'
  BY <1>3 DEF IInv, AckedInv, PromisedDurable, NoSumsInv
<1>10. ReservedCoverFile'
  BY <1>1, <1>3, VaultAssumption DEF ReservedCoverFile, TypeOK
<1> QED
  BY <1>5, <1>7, <1>8, <1>9, <1>10, NobodyInside

(* open with the rebuild turned off: the handle is there at once.            *)
LEMMA OpenUnindexedStep ==
  ASSUME IInv, OpenUnindexed
  PROVE  IInv'
<1>1. TypeOK /\ \A u \in Threads : th[u] = Idle
  BY DEF IInv, OpenUnindexed, CursorsInv
<1>2. /\ UNCHANGED <<bytes, fileRows, durBytes, durRows, th, acked, promised>>
      /\ mode' = "open" /\ nextRow' = fileRows /\ indexFrom' = fileRows
      /\ index' = EmptyIndex
  BY DEF OpenUnindexed, diskVars
<1>3. EmptyIndex \in IndexTypes
  BY DEF EmptyIndex, NoSlot, IndexTypes
<1>4. TypeOK'
  BY <1>1, <1>2, <1>3 DEF TypeOK
<1>5. NobodyAppends' /\ CursorsInv'
  BY <1>1, <1>2 DEF NobodyAppends, InAppend, CursorsInv, Idle
<1>6. AckedInv' /\ PromisedDurable' /\ NoSumsInv' /\ (durRows <= fileRows)'
  BY <1>2 DEF IInv, AckedInv, PromisedDurable, NoSumsInv
<1>7. ReservedCoverFile'
  BY <1>1, <1>2, VaultAssumption DEF ReservedCoverFile, TypeOK
<1> QED
  BY <1>4, <1>5, <1>6, <1>7, NobodyInside

(* When the process is gone, nobody is inside the vault.                     *)
LEMMA ProcessLost ==
  ASSUME LoseProcess
  PROVE  /\ mode' = "closed" /\ nextRow' = 0 /\ index' \in IndexTypes /\ indexFrom' = 0
         /\ th' \in [Threads -> {Idle} \cup Writing \cup Reading \cup Scanning]
         /\ NobodyAppends' /\ CursorsInv' /\ ReservedCoverFile'
<1>1. index' \in IndexTypes
  BY DEF LoseProcess, EmptyIndex, NoSlot, IndexTypes
<1>2. /\ mode' = "closed" /\ nextRow' = 0 /\ indexFrom' = 0
      /\ th' = [t \in Threads |-> Idle]
  BY DEF LoseProcess
<1> QED
  BY <1>1, <1>2 DEF NobodyAppends, InAppend, CursorsInv, ReservedCoverFile, Idle

(* A close, or a kill, keeps the file; a close may also sync it.             *)
LEMMA ProcessEndsStep ==
  ASSUME IInv, Close \/ Crash
  PROVE  IInv'
<1>1. /\ TypeOK /\ LoseProcess
      /\ UNCHANGED <<bytes, fileRows, acked, promised>>
      /\ SyncData \/ UNCHANGED <<durBytes, durRows>>
  BY DEF IInv, Close, Crash, diskVars, histVars
<1>2. TypeOK'
  BY <1>1, ProcessLost, VaultAssumption DEF TypeOK, SyncData
<1>3. AckedInv'
  BY <1>1 DEF IInv, AckedInv
<1>4. PromisedDurable'
  BY <1>1 DEF IInv, PromisedDurable, AckedInv, SyncData, TypeOK
<1>5. NoSumsInv' /\ (durRows <= fileRows)'
  BY <1>1, VaultAssumption DEF IInv, NoSumsInv, SyncData, TypeOK
<1> QED
  BY <1>1, <1>2, <1>3, <1>4, <1>5, ProcessLost, NobodyInside

(* A power cut: a promised row is the same in the file and in its durable    *)
(* copy, so whichever columns survive, the row does.                         *)
LEMMA PowerCutStep ==
  ASSUME IInv, PowerCut
  PROVE  IInv'
<1>1. TypeOK /\ LoseProcess /\ promised' = promised
  BY DEF IInv, PowerCut
<1>2. acked' = [r \in Rows |-> IF r \in promised THEN acked[r] ELSE Nothing]
  BY DEF PowerCut
<1>3. PICK n \in durRows..fileRows, kept \in SUBSET Unsynced :
        /\ bytes' = [r \in Rows |->
                       Overlay(durBytes[r], bytes[r], {c \in Cols : <<r, c>> \in kept})]
        /\ fileRows' = n
        /\ durBytes' = bytes'
        /\ durRows' = n
  BY DEF PowerCut
<1>4. bytes' \in [Rows -> RowImages]
  BY <1>1, <1>3, OverlayType DEF TypeOK
<1>5. n \in 0..MaxRow /\ durRows <= n
  BY <1>1, <1>3, VaultAssumption DEF TypeOK
<1>6. TypeOK'
  BY <1>1, <1>2, <1>3, <1>4, <1>5, ProcessLost, VaultAssumption DEF TypeOK
<1>7. ASSUME NEW r \in promised
      PROVE  /\ r \in Rows
             /\ acked'[r] = acked[r] /\ acked[r] # Nothing
             /\ r < n
             /\ bytes'[r] = Encode(acked[r])
  <2>1. r \in Rows /\ acked[r] # Nothing /\ r < durRows /\ durBytes[r] = Encode(acked[r])
    BY <1>1 DEF IInv, PromisedDurable, TypeOK
  <2>2. bytes[r] = Encode(acked[r]) /\ durBytes[r] \in RowImages
    BY <2>1, <1>1 DEF IInv, AckedInv, TypeOK
  <2>3. bytes'[r] = durBytes[r]
    BY <2>1, <2>2, <1>3, OverlaySame
  <2> QED
    BY <2>1, <2>3, <1>1, <1>2, <1>5, VaultAssumption DEF TypeOK, Rows
<1>8. AckedInv' /\ PromisedDurable'
  BY <1>1, <1>2, <1>3, <1>7 DEF AckedInv, PromisedDurable
<1>9. NoSumsInv'
  BY <1>3 DEF IInv, NoSumsInv, Overlay
<1>10. (durRows <= fileRows)'
  BY <1>3, <1>5
<1> QED
  BY <1>1, <1>6, <1>8, <1>9, <1>10, ProcessLost, NobodyInside

-----------------------------------------------------------------------------
(* The theorems *)

(* A new vault satisfies the invariant.                                      *)
LEMMA InitInv == Init => IInv
<1> SUFFICES ASSUME Init PROVE IInv
  OBVIOUS
<1>1. TypeOK
  BY ZeroRowType, VaultAssumption
     DEF Init, TypeOK, EmptyIndex, NoSlot, IndexTypes, Idle, histVars
<1>2. \A t \in Threads : th[t] = Idle /\ ~InAppend(t)
  BY DEF Init, InAppend, Idle
<1> QED
  BY <1>1, <1>2 DEF Init, IInv, RowsNeverShared, AppendsInv, AckedInv, PromisedDurable,
     ReservedCoverFile, CursorsInv, NoSumsInv, ZeroRow, Idle

(* Every step of the vault, its threads and its surroundings preserves it.   *)
LEMMA NextInv == IInv /\ [Next]_vars => IInv'
<1> SUFFICES ASSUME IInv, [Next]_vars PROVE IInv'
  OBVIOUS
<1>1. CASE UNCHANGED vars
  BY <1>1 DEF vars, diskVars, histVars, IInv, TypeOK, RowsNeverShared, AppendsInv,
     WrittenSoFar, InAppend, AckedInv, PromisedDurable, ReservedCoverFile, CursorsInv,
     NoSumsInv
<1>2. ASSUME NEW t \in Threads, NEW e \in Entries, Reserve(t, e) PROVE IInv'
  BY <1>2, ReserveStep
<1>3. ASSUME NEW t \in Threads, WriteColumn(t) PROVE IInv'
  BY <1>3, WriteColumnStep
<1>4. ASSUME NEW t \in Threads, AppendFails(t) \/ FinishRead(t) PROVE IInv'
  BY <1>4, ToIdleStep
<1>5. ASSUME NEW t \in Threads, Sync(t) PROVE IInv'
  BY <1>5, SyncStep
<1>6. ASSUME NEW t \in Threads, Merge(t) PROVE IInv'
  BY <1>6, MergeStep
<1>7. ASSUME NEW t \in Threads, Flush(t) PROVE IInv'
  BY <1>7, FlushStep
<1>8. ASSUME NEW t \in Threads, NEW r \in Rows, StartRead(t, r) PROVE IInv'
  BY <1>8, StartReadStep
<1>9. ASSUME NEW t \in Threads, FetchRead(t) PROVE IInv'
  BY <1>9, FetchReadStep
<1>10. ASSUME NEW t \in Threads, StartRebuild(t) PROVE IInv'
  BY <1>10, StartRebuildStep
<1>11. ASSUME NEW t \in Threads, FetchScan(t) PROVE IInv'
  BY <1>11, FetchScanStep
<1>12. ASSUME NEW t \in Threads, Install(t) PROVE IInv'
  BY <1>12, InstallStep
<1>13. ASSUME NEW t \in Threads, Open(t) PROVE IInv'
  BY <1>13, OpenStep
<1>14. CASE Close \/ Crash
  BY <1>14, ProcessEndsStep
<1>15. CASE PowerCut
  BY <1>15, PowerCutStep
<1>16. CASE OpenUnindexed
  BY <1>16, OpenUnindexedStep
<1> QED
  BY <1>1, <1>2, <1>3, <1>4, <1>5, <1>6, <1>7, <1>8, <1>9, <1>10, <1>11, <1>12, <1>13,
     <1>14, <1>15, <1>16 DEF Next

(* The invariant holds in every reachable state of every vault.              *)
THEOREM VaultInvariant == Spec => []IInv
<1> QED
  BY InitInv, NextInv, PTL DEF Spec

(* Every variable always holds a value of its type.                          *)
THEOREM VaultTypes == Spec => []TypeOK
<1>1. IInv => TypeOK
  BY DEF IInv
<1> QED
  BY <1>1, VaultInvariant, PTL

(* No row is ever handed out twice, or written again once acknowledged.      *)
THEOREM RowsAreNeverShared == Spec => []RowsNeverShared
<1>1. IInv => RowsNeverShared
  BY DEF IInv
<1> QED
  BY <1>1, VaultInvariant, PTL

(* A row whose append returned Ok reads back as the entry appended.          *)
THEOREM AckedRowsReadBack == Spec => []AckedOnFile
<1>1. IInv => AckedOnFile
  <2> SUFFICES ASSUME IInv, NEW r \in Rows, acked[r] # Nothing
               PROVE  r < fileRows /\ ParseRow(bytes[r]) = acked[r]
    BY DEF AckedOnFile
  <2>1. acked[r] \in AllEntries
    BY VaultAssumption DEF IInv, TypeOK
  <2>2. r < fileRows /\ bytes[r] = Encode(acked[r])
    BY DEF IInv, AckedInv
  <2> QED
    BY <2>1, <2>2, ParseEncode
<1> QED
  BY <1>1, VaultInvariant, PTL

(* A row promised durable survives any power cut.                            *)
THEOREM PromisedRowsAreDurable == Spec => []PromisedDurable
<1>1. IInv => PromisedDurable
  BY DEF IInv
<1> QED
  BY <1>1, VaultInvariant, PTL

(* The counter of the writing handle covers the rows of the file.            *)
THEOREM ReservedRowsCoverFile == Spec => []ReservedCoverFile
<1>1. IInv => ReservedCoverFile
  BY DEF IInv
<1> QED
  BY <1>1, VaultInvariant, PTL

-----------------------------------------------------------------------------
(* With row checksums: what readers and rebuilds see of a file others write *)

Readable(b) == ParseRow(b) \notin {Nothing, Corrupt}

\* A row whose checksum, if it has one, matches.
Whole(b) == b.sum \in {{}, {Payload(b)}}

\* The checksum is the last of a row to be written, and to become durable.
SumsLast ==
  /\ \A r \in Rows :
       /\ r >= fileRows => bytes[r].sum = {}
       /\ r >= durRows => durBytes[r].sum = {}
  /\ \A t \in Threads : th[t].pc = "write" => bytes[th[t].row].sum = {}

\* A row that differs from its durable copy got its checksum from an append.
DurableRows ==
  \A r \in Rows : durBytes[r] = bytes[r] \/ (durBytes[r].sum = {} /\ Whole(bytes[r]))

\* What a step other than a power cut does to the rows.
Settled ==
  \A r \in Rows : bytes'[r] = bytes[r] \/ (bytes[r].sum = {} /\ Whole(bytes'[r]))

(* A row that can be read has its checksum, and what it reads as is its      *)
(* payload.                                                                  *)
LEMMA ReadableRow ==
  ASSUME Checksum, NEW b \in RowImages
  PROVE  Readable(b) <=> b.sum = {Payload(b)}
<1>1. Decode(b) \in AllEntries
  BY DEF Decode, AllEntries, RowImages
<1> QED  BY <1>1, VaultAssumption DEF Readable, ParseRow

(* An image append writes is whole.                                          *)
LEMMA EncodeWhole ==
  ASSUME NEW e \in AllEntries
  PROVE  Whole(Encode(e)) /\ (Checksum => Encode(e).sum # {})
BY DEF Whole, Encode, Payload, EncodePayload

(* A column is written: the row had no checksum, and has none yet or is the  *)
(* entry's image.                                                            *)
LEMMA ColumnStep ==
  ASSUME IInv, IInv', SumsLast, Checksum, NEW t \in Threads, WriteColumn(t)
  PROVE  /\ th[t].row \in Rows /\ th[t].ent \in AllEntries
         /\ \A r \in Rows \ {th[t].row} : bytes'[r] = bytes[r]
         /\ bytes[th[t].row].sum = {}
         /\ \/ bytes'[th[t].row].sum = {} /\ th'[t].pc = "write"
            \/ /\ bytes'[th[t].row] = Encode(th[t].ent) /\ th[t].row < fileRows'
               /\ th'[t].pc # "write"
         /\ th'[t].row = th[t].row
         /\ th'[t].pc \in {"write", "sync", "merge"}
         /\ \A u \in Threads \ {t} : th'[u] = th[u]
         /\ fileRows \in Int /\ fileRows' \in Int /\ fileRows <= fileRows'
         /\ UNCHANGED <<durBytes, durRows, mode, nextRow, index, acked, promised>>
<1> DEFINE w == th[t]
           s == IF w.col < LastCol THEN [w EXCEPT !.col = @ + 1]
                ELSE [w EXCEPT !.pc = IF SyncEach THEN "sync" ELSE "merge"]
<1>1. TypeOK /\ w.pc = "write"
  BY DEF IInv, WriteColumn
<1>2. w \in Writing /\ w.row \in Rows /\ w.ent \in AllEntries /\ w.col \in Cols
  BY <1>1, ThreadTypes, VaultAssumption DEF Writing
<1>3. th'[t] = s /\ \A u \in Threads \ {t} : th'[u] = th[u]
  BY <1>1 DEF WriteColumn, Become, TypeOK
<1>4. /\ s.row = w.row /\ s.ent = w.ent
      /\ w.col < LastCol => s.pc = "write"
      /\ ~(w.col < LastCol) => s.pc \in {"sync", "merge"}
  BY <1>1, <1>2 DEF Writing
<1>5. /\ bytes'[w.row] = Overlay(bytes[w.row], Encode(w.ent), {w.col})
      /\ \A r \in Rows \ {w.row} : bytes'[r] = bytes[r]
  BY <1>1, <1>2 DEF WriteColumn, TypeOK
<1>6. bytes[w.row].sum = {}
  BY <1>1 DEF SumsLast
<1>7. w.col < LastCol => bytes'[w.row].sum = {}
  <2>1. w.col < LastCol => w.col # SumCol
    BY <1>2, VaultAssumption DEF LastCol, SumCol, Cols
  <2> QED  BY <2>1, <1>5, <1>6 DEF Overlay
<1>8. ASSUME ~(w.col < LastCol)
      PROVE  bytes'[w.row] = Encode(w.ent) /\ w.row < fileRows'
  <2>1. s.pc \in {"sync", "merge"} /\ s.row = w.row /\ s.ent = w.ent
    BY <1>4, <1>8
  <2> HIDE DEF s
  <2>2. th'[t].pc \in {"sync", "merge"} /\ InAppend(t)'
    BY <1>3, <2>1 DEF InAppend
  <2>3. WrittenSoFar(t)'
    BY <2>2 DEF IInv, AppendsInv
  <2>4. bytes'[th'[t].row] = Encode(th'[t].ent) /\ th'[t].row < fileRows'
    BY <2>2, <2>3 DEF WrittenSoFar
  <2> QED  BY <1>3, <2>1, <2>4
<1>9. fileRows \in Int /\ fileRows' \in Int /\ fileRows <= fileRows'
  BY <1>1, <1>2, VaultAssumption DEF WriteColumn, RowsCovering, TypeOK, Rows
<1>10. UNCHANGED <<durBytes, durRows, mode, nextRow, index, acked, promised>>
  BY DEF WriteColumn, histVars
<1> HIDE DEF s
<1> QED  BY <1>2, <1>3, <1>4, <1>5, <1>6, <1>7, <1>8, <1>9, <1>10

(* Of all steps only a column's write and a power cut change the file; the   *)
(* others may sync it, and an append begins at the counter.                  *)
LEMMA FileSteps ==
  ASSUME IInv, [Next]_vars
  PROVE  \/ \E t \in Threads : WriteColumn(t)
         \/ PowerCut
         \/ /\ UNCHANGED <<bytes, fileRows>>
            /\ UNCHANGED <<durBytes, durRows>> \/ SyncData
            /\ \A u \in Threads : th'[u].pc = "write" =>
                 th'[u] = th[u] \/ (mode = "open" /\ th'[u].row = nextRow /\ nextRow \in Rows)
<1> USE DEF diskVars, histVars
<1>1. TypeOK
  BY DEF IInv
<1> DEFINE Quiet == /\ UNCHANGED <<bytes, fileRows>>
                    /\ UNCHANGED <<durBytes, durRows>> \/ SyncData
           Same == \A u \in Threads : th'[u].pc = "write" => th'[u] = th[u]
<1>2. CASE UNCHANGED vars
  BY <1>2 DEF vars
<1>3. ASSUME NEW t \in Threads, NEW e \in Entries, Reserve(t, e)
      PROVE  Quiet /\ \A u \in Threads : th'[u].pc = "write" =>
               th'[u] = th[u] \/ (mode = "open" /\ th'[u].row = nextRow /\ nextRow \in Rows)
  BY <1>1, <1>3, VaultAssumption DEF Reserve, Become, TypeOK, Rows
<1>4. ASSUME NEW t \in Threads, AppendFails(t) \/ FinishRead(t) PROVE Quiet /\ Same
  BY <1>1, <1>4 DEF AppendFails, FinishRead, Become, TypeOK, Idle
<1>5. ASSUME NEW t \in Threads, Sync(t) PROVE Quiet /\ Same
  <2>1. th' = [th EXCEPT ![t] = [th[t] EXCEPT !.pc = "merge"]] /\ th[t] \in Writing
    BY <1>1, <1>5, ThreadTypes DEF Sync, Become
  <2>2. [th[t] EXCEPT !.pc = "merge"].pc = "merge"
    BY <2>1 DEF Writing
  <2> QED  BY <1>1, <1>5, <2>1, <2>2 DEF Sync, TypeOK
<1>6. ASSUME NEW t \in Threads, Merge(t) \/ Flush(t) PROVE Quiet /\ Same
  BY <1>1, <1>6 DEF Merge, Flush, Become, TypeOK, Idle
<1>7. ASSUME NEW t \in Threads, NEW r \in Rows, StartRead(t, r) PROVE Quiet /\ Same
  BY <1>1, <1>7 DEF StartRead, Become, TypeOK
<1>8. ASSUME NEW t \in Threads, FetchRead(t) PROVE Quiet /\ Same
  BY <1>1, <1>8 DEF FetchRead, Become, TypeOK
<1>9. ASSUME NEW t \in Threads, FetchScan(t) PROVE Quiet /\ Same
  BY <1>1, <1>9 DEF FetchScan, Become, TypeOK
<1>10. ASSUME NEW t \in Threads, StartRebuild(t) \/ Open(t) PROVE Quiet /\ Same
  BY <1>1, <1>10 DEF StartRebuild, Open, BeginScan, Become, TypeOK
<1>11. ASSUME NEW t \in Threads, Install(t) PROVE Quiet /\ Same
  BY <1>1, <1>11 DEF Install, Become, TypeOK, Idle
<1>12. CASE Close \/ Crash \/ OpenUnindexed
  BY <1>12 DEF Close, Crash, OpenUnindexed, LoseProcess, Idle
<1> HIDE DEF Quiet
<1>13. Quiet => UNCHANGED <<bytes, fileRows>> /\ (UNCHANGED <<durBytes, durRows>> \/ SyncData)
  BY DEF Quiet
<1> QED
  BY <1>2, <1>3, <1>4, <1>5, <1>6, <1>7, <1>8, <1>9, <1>10, <1>11, <1>12, <1>13 DEF Next

(* The checksum column is the last of a row in the file and in its durable   *)
(* copy, after every step.                                                   *)
LEMMA SumsLastNext ==
  ASSUME IInv, IInv', SumsLast, Checksum, [Next]_vars
  PROVE  SumsLast'
<1>1. ASSUME NEW t \in Threads, WriteColumn(t) PROVE SumsLast'
  <2> USE <1>1, ColumnStep
  <2>1. ASSUME NEW r \in Rows, r >= fileRows' PROVE bytes'[r].sum = {}
    <3>1. r >= fileRows
      BY <2>1, VaultAssumption DEF Rows
    <3>2. CASE r = th[t].row
      BY <2>1, <3>2, VaultAssumption DEF Rows
    <3>3. CASE r # th[t].row
      BY <3>1, <3>3 DEF SumsLast
    <3> QED  BY <3>2, <3>3
  <2>2. ASSUME NEW r \in Rows, r >= durRows' PROVE durBytes'[r].sum = {}
    BY <2>2 DEF SumsLast
  <2>3. ASSUME NEW u \in Threads, th'[u].pc = "write" PROVE bytes'[th'[u].row].sum = {}
    <3>1. CASE u = t
      BY <2>3, <3>1
    <3>2. CASE u # t
      <4>1. InAppend(u)' /\ InAppend(t)'
        BY <2>3 DEF InAppend
      <4>2. th'[u].row # th'[t].row
        BY <3>2, <4>1 DEF IInv, RowsNeverShared
      <4>3. th[u] = th'[u] /\ th[u].row \in Rows
        BY <2>3, <3>2, ThreadTypes DEF IInv, Writing
      <4> QED  BY <2>3, <4>2, <4>3 DEF SumsLast
    <3> QED  BY <3>1, <3>2
  <2> QED  BY <2>1, <2>2, <2>3 DEF SumsLast
<1>2. CASE PowerCut
  <2>1. PICK n \in durRows..fileRows, kept \in SUBSET Unsynced :
          /\ \A p \in kept : p[1] < n \/ (p[1] = n /\ p[2] # LastCol)
          /\ bytes' = [r \in Rows |->
                         Overlay(durBytes[r], bytes[r], {c \in Cols : <<r, c>> \in kept})]
          /\ fileRows' = n /\ durBytes' = bytes' /\ durRows' = n
    BY <1>2 DEF PowerCut
  <2>2. n \in Int /\ durRows \in Int /\ durRows <= n
    BY <2>1 DEF IInv, TypeOK
  <2>3. ASSUME NEW r \in Rows, r >= n PROVE bytes'[r].sum = {}
    <3>1. durBytes[r].sum = {}
      BY <2>2, <2>3, VaultAssumption DEF SumsLast, Rows
    <3>2. <<r, SumCol>> \notin kept
      <4> SUFFICES ASSUME <<r, SumCol>> \in kept PROVE FALSE
        OBVIOUS
      <4>1. r < n \/ (r = n /\ SumCol # LastCol)
        BY <2>1
      <4> QED  BY <2>2, <2>3, <4>1, VaultAssumption DEF LastCol, Rows
    <3> QED  BY <2>1, <3>1, <3>2 DEF Overlay
  <2>4. \A u \in Threads : th'[u].pc # "write"
    BY <1>2 DEF PowerCut, LoseProcess, Idle
  <2> QED  BY <2>1, <2>3, <2>4 DEF SumsLast
<1>3. CASE /\ UNCHANGED <<bytes, fileRows>>
           /\ UNCHANGED <<durBytes, durRows>> \/ SyncData
           /\ \A u \in Threads : th'[u].pc = "write" =>
                th'[u] = th[u] \/ (mode = "open" /\ th'[u].row = nextRow /\ nextRow \in Rows)
  <2>1. \A r \in Rows : /\ r >= fileRows' => bytes'[r].sum = {}
                        /\ r >= durRows' => durBytes'[r].sum = {}
    BY <1>3 DEF SumsLast, SyncData
  <2>2. ASSUME NEW u \in Threads, th'[u].pc = "write" PROVE bytes'[th'[u].row].sum = {}
    <3>1. CASE th'[u] = th[u]
      BY <1>3, <2>2, <3>1 DEF SumsLast
    <3>2. CASE mode = "open" /\ th'[u].row = nextRow /\ nextRow \in Rows
      <4>1. nextRow >= fileRows
        BY <3>2 DEF IInv, ReservedCoverFile, TypeOK
      <4> QED  BY <1>3, <3>2, <4>1 DEF SumsLast
    <3> QED  BY <1>3, <2>2, <3>1, <3>2
  <2> QED  BY <2>1, <2>2 DEF SumsLast
<1> QED  BY <1>1, <1>2, <1>3, FileSteps

(* No step but a power cut changes a row that has its checksum.              *)
LEMMA StepsSettle ==
  ASSUME IInv, IInv', SumsLast, Checksum, [Next]_vars, ~PowerCut
  PROVE  Settled
<1>1. ASSUME NEW t \in Threads, WriteColumn(t) PROVE Settled
  BY <1>1, ColumnStep, EncodeWhole DEF Settled, Whole
<1> QED  BY <1>1, FileSteps DEF Settled

(* A row and its durable copy, after every step.                             *)
LEMMA DurableRowsNext ==
  ASSUME IInv, IInv', SumsLast, DurableRows, Checksum, [Next]_vars
  PROVE  DurableRows'
<1>1. CASE PowerCut
  <2>1. durBytes' = bytes'
    BY <1>1 DEF PowerCut
  <2> QED  BY <2>1 DEF DurableRows
<1>2. CASE ~PowerCut
  <2>1. Settled
    BY <1>2, StepsSettle
  <2>2. UNCHANGED durBytes \/ durBytes' = bytes'
    <3>1. ASSUME NEW t \in Threads, WriteColumn(t) PROVE UNCHANGED durBytes
      BY <3>1, ColumnStep
    <3> QED  BY <1>2, <3>1, FileSteps DEF SyncData
  <2>3. CASE durBytes' = bytes'
    BY <2>3 DEF DurableRows
  <2>4. CASE UNCHANGED durBytes
    <3> SUFFICES ASSUME NEW r \in Rows
                 PROVE  durBytes'[r] = bytes'[r] \/ (durBytes'[r].sum = {} /\ Whole(bytes'[r]))
      BY DEF DurableRows
    <3>1. CASE bytes'[r] = bytes[r]
      BY <2>4, <3>1 DEF DurableRows
    <3>2. CASE bytes[r].sum = {} /\ Whole(bytes'[r])
      BY <2>4, <3>2 DEF DurableRows
    <3> QED  BY <2>1, <3>1, <3>2 DEF Settled
  <2> QED  BY <2>2, <2>3, <2>4
<1> QED  BY <1>1, <1>2

\* The slots of index ix that are taken name rows of the file b that can be read
\* and hold the field with the slot's value.
SoundIn(ix, b) ==
  \A f \in Fields : ix[f] # NoSlot =>
    /\ ix[f].row \in Rows
    /\ Readable(b[ix[f].row])
    /\ ParseRow(b[ix[f].row])[f] = ix[f].val /\ ix[f].val # Absent

\* What a read or a scan has fetched is as the file has it, unless the row was
\* written meanwhile, and is then whole or without its checksum.
Buffered(t) ==
  th[t].pc \in {"read", "scan"} =>
    \/ \A c \in 0..(th[t].col - 1) : SameColumn(th[t].buf, bytes[th[t].row], c)
    \/ Whole(bytes[th[t].row])

\* What a read of an acknowledged row has fetched is the row.
Due(t) ==
  th[t].pc \in {"read", "got"} /\ th[t].must # Nothing =>
    /\ acked[th[t].row] = th[t].must
    /\ \A c \in 0..(th[t].col - 1) : SameColumn(th[t].buf, Encode(th[t].must), c)
    /\ th[t].pc = "got" => th[t].col = LastCol + 1

\* What a read returns is the row.
Returned(t) ==
  th[t].pc = "got" /\ Readable(th[t].buf) => ParseRow(th[t].buf) = ParseRow(bytes[th[t].row])

\* What a rebuild has replayed is sound.
Replayed(t) == th[t].pc \in {"scan", "install"} => SoundIn(th[t].fresh, bytes)

Watching(t) == Buffered(t) /\ Due(t) /\ Returned(t) /\ Replayed(t)

ReadInv ==
  /\ SumsLast
  /\ DurableRows
  /\ SoundIn(index, bytes)
  /\ \A t \in Threads : Watching(t)

(* A sound index stays sound while no row that has its checksum changes.     *)
LEMMA SoundStays ==
  ASSUME Checksum, NEW STATE ix, TypeOK, TypeOK', Settled, SoundIn(ix, bytes)
  PROVE  SoundIn(ix, bytes')
<1> SUFFICES ASSUME NEW f \in Fields, ix[f] # NoSlot
             PROVE  /\ ix[f].row \in Rows
                    /\ Readable(bytes'[ix[f].row])
                    /\ ParseRow(bytes'[ix[f].row])[f] = ix[f].val /\ ix[f].val # Absent
  BY DEF SoundIn
<1>1. /\ ix[f].row \in Rows
      /\ Readable(bytes[ix[f].row])
      /\ ParseRow(bytes[ix[f].row])[f] = ix[f].val /\ ix[f].val # Absent
  BY DEF SoundIn
<1>2. bytes[ix[f].row].sum # {}
  BY <1>1, ReadableRow DEF TypeOK
<1>3. bytes'[ix[f].row] = bytes[ix[f].row]
  BY <1>1, <1>2 DEF Settled
<1> QED  BY <1>1, <1>3

(* Merging a row that reads as the entry merged keeps an index sound.        *)
LEMMA SoundMerge ==
  ASSUME NEW STATE ix, NEW STATE b, NEW STATE r, NEW STATE e,
         ix \in IndexTypes, SoundIn(ix, b), r \in Rows, e \in AllEntries, ParseRow(b[r]) = e
  PROVE  SoundIn(MergeInto(ix, r, e), b)
<1>1. e \notin {Nothing, Corrupt}
  BY VaultAssumption
<1>2. \A f \in Fields : MergeInto(ix, r, e)[f] = IF e[f] # Absent /\ r > ix[f].row
                                               THEN [row |-> r, val |-> e[f]] ELSE ix[f]
  BY DEF MergeInto
<1> SUFFICES ASSUME NEW f \in Fields, MergeInto(ix, r, e)[f] # NoSlot
             PROVE  LET slot == MergeInto(ix, r, e)[f] IN
                    /\ slot.row \in Rows
                    /\ Readable(b[slot.row])
                    /\ ParseRow(b[slot.row])[f] = slot.val /\ slot.val # Absent
  BY DEF SoundIn
<1>3. CASE e[f] # Absent /\ r > ix[f].row
  <2> DEFINE slot == MergeInto(ix, r, e)[f]
  <2>1. slot = [row |-> r, val |-> e[f]]
    BY <1>2, <1>3, Zenon
  <2> HIDE DEF slot
  <2>2. slot.row = r /\ slot.val = e[f]
    BY <2>1
  <2>3. Readable(b[r]) /\ ParseRow(b[r])[f] = e[f]
    BY <1>1 DEF Readable
  <2> QED  BY <1>3, <2>3, <2>2 DEF slot
<1>4. CASE ~(e[f] # Absent /\ r > ix[f].row)
  BY <1>2, <1>4 DEF SoundIn
<1> QED  BY <1>3, <1>4

(* The last column read is the checksum: if it matches what was read before, *)
(* that is what the row holds.                                               *)
LEMMA LastColumnTells ==
  ASSUME Checksum, NEW STATE a, NEW STATE b, a \in RowImages, b \in RowImages,
         (\A c \in 0..(LastCol - 1) : SameColumn(a, b, c)) \/ Whole(b),
         Readable(Overlay(a, b, {LastCol}))
  PROVE  ParseRow(Overlay(a, b, {LastCol})) = ParseRow(b)
<1> DEFINE o == Overlay(a, b, {LastCol})
<1>1. LastCol = SumCol /\ SumCol = NF + 1 /\ Fields = 1..NF /\ NF \in Nat
  BY VaultAssumption DEF LastCol, SumCol, Fields
<1>2. 0 \notin {LastCol} /\ Fields \cap {LastCol} = {}
  BY <1>1
<1>3. o.bits = a.bits /\ o.sum = b.sum
  BY <1>1, <1>2 DEF Overlay
<1>4. o.data = a.data
  BY <1>2 DEF Overlay, RowImages
<1>5. o \in RowImages
  BY OverlayType
<1>6. o.sum = {Payload(o)}
  BY <1>5, ReadableRow
<1>7. Payload(o) = Payload(b)
  <2>1. CASE \A c \in 0..(LastCol - 1) : SameColumn(a, b, c)
    <3>1. 0 \in 0..(LastCol - 1) /\ Fields \subseteq 0..(LastCol - 1)
      BY <1>1
    <3>2. a.bits = b.bits /\ \A f \in Fields : a.data[f] = b.data[f]
      BY <2>1, <3>1 DEF SameColumn
    <3>3. a.data = b.data
      BY <3>2 DEF RowImages
    <3> QED  BY <1>3, <1>4, <3>2, <3>3 DEF Payload
  <2>2. CASE Whole(b)
    BY <1>3, <1>6, <2>2 DEF Whole
  <2> QED  BY <2>1, <2>2
<1>8. o.bits = b.bits /\ o.data = b.data
  BY <1>7 DEF Payload
<1> HIDE DEF o
<1>9. ParseRow(o) = ParseRow(b)
  BY <1>3, <1>7, <1>8 DEF ParseRow, Decode
<1> QED  BY <1>9 DEF o

(* A thread that does not move keeps what it knows while others work.        *)
LEMMA WatchingStays ==
  ASSUME Checksum, IInv, IInv', Settled, NEW t \in Threads, th'[t] = th[t], Watching(t),
         \A r \in Rows : acked[r] # Nothing => acked'[r] = acked[r]
  PROVE  Watching(t)'
<1>1. TypeOK /\ TypeOK'
  BY DEF IInv
<1>2. th[t].pc \in {"read", "got", "scan"} => th[t].row \in Rows
  BY <1>1, ThreadTypes, VaultAssumption DEF Reading, Scanning, Rows, IInv, CursorsInv
<1>3. Buffered(t)'
  <2> SUFFICES ASSUME th[t].pc \in {"read", "scan"}
               PROVE  \/ \A c \in 0..(th[t].col - 1) : SameColumn(th[t].buf, bytes'[th[t].row], c)
                      \/ Whole(bytes'[th[t].row])
    BY DEF Buffered
  <2> QED  BY <1>2 DEF Watching, Buffered, Settled
<1>4. Due(t)'
  <2> SUFFICES ASSUME th[t].pc \in {"read", "got"}, th[t].must # Nothing
               PROVE  acked'[th[t].row] = acked[th[t].row]
    BY DEF Due, Watching
  <2> QED  BY <1>2 DEF Watching, Due
<1>5. Returned(t)'
  <2> SUFFICES ASSUME th[t].pc = "got", Readable(th[t].buf)
               PROVE  ParseRow(bytes'[th[t].row]) = ParseRow(bytes[th[t].row])
    BY DEF Returned, Watching
  <2>1. Readable(bytes[th[t].row])
    BY DEF Watching, Returned, Readable
  <2>2. bytes[th[t].row].sum # {}
    BY <1>1, <1>2, <2>1, ReadableRow DEF TypeOK
  <2> QED  BY <1>2, <2>2 DEF Settled
<1>6. Replayed(t)'
  <2> SUFFICES ASSUME th[t].pc \in {"scan", "install"}
               PROVE  SoundIn(th[t].fresh, bytes')
    BY DEF Replayed
  <2>1. SoundIn(th[t].fresh, bytes)
    BY DEF Watching, Replayed
  <2> QED  BY <1>1, <2>1, SoundStays
<1> QED  BY <1>3, <1>4, <1>5, <1>6 DEF Watching

(* A read fetches its next column.                                           *)
LEMMA FetchReadWatched ==
  ASSUME Checksum, IInv, ReadInv, NEW t \in Threads, FetchRead(t)
  PROVE  Watching(t)'
<1> DEFINE w == th[t]
           s == [pc |-> IF w.col = LastCol THEN "got" ELSE "read", row |-> w.row,
                 col |-> w.col + 1, buf |-> Fetched(w), must |-> w.must]
           b == bytes[w.row]
<1>1. TypeOK /\ w.pc = "read" /\ bytes' = bytes /\ acked' = acked
  BY DEF IInv, FetchRead, diskVars, histVars
<1>2. w \in Reading /\ w.row \in Rows /\ w.col \in Cols /\ w.buf \in RowImages
  <2>1. w \in Reading /\ w.col <= LastCol
    BY <1>1, ThreadTypes DEF IInv, CursorsInv
  <2> QED  BY <2>1, VaultAssumption DEF Reading, Cols, LastCol, SumCol
<1>3. b \in RowImages
  BY <1>1, <1>2 DEF TypeOK
<1>4. th'[t] = s
  BY <1>1 DEF FetchRead, Become, TypeOK
<1>5. Fetched(w) = Overlay(w.buf, b, {w.col})
  BY DEF Fetched
<1>6. Buffered(t) /\ Due(t)
  BY DEF ReadInv, Watching
<1>7. LastCol \in Nat
  BY VaultAssumption DEF LastCol, SumCol
<1>8. /\ th'[t].pc = IF w.col = LastCol THEN "got" ELSE "read"
      /\ th'[t].row = w.row /\ th'[t].buf = Fetched(w) /\ th'[t].must = w.must
      /\ th'[t].col = w.col + 1 /\ th'[t].col - 1 = w.col
  BY <1>2, <1>4, <1>7 DEF Cols
<1>9. \A img \in RowImages :
        /\ \A c \in 0..(w.col - 1) : SameColumn(w.buf, img, c)
        /\ b = img
        => \A c \in 0..w.col : SameColumn(Fetched(w), img, c)
  <2> TAKE img \in RowImages
  <2> HAVE (\A c \in 0..(w.col - 1) : SameColumn(w.buf, img, c)) /\ b = img
  <2> SUFFICES ASSUME NEW c \in 0..w.col PROVE SameColumn(Fetched(w), img, c)
    OBVIOUS
  <2>1. c \in Cols /\ (c = w.col \/ c \in 0..(w.col - 1))
    BY <1>2, <1>7 DEF Cols
  <2> QED  BY <1>2, <1>5, <2>1, ColumnWritten
<1>10. Buffered(t)'
  <2>1. (\A c \in 0..(w.col - 1) : SameColumn(w.buf, b, c)) \/ Whole(b)
    BY <1>1, <1>6 DEF Buffered
  <2>2. (\A c \in 0..w.col : SameColumn(Fetched(w), b, c)) \/ Whole(b)
    BY <1>3, <1>9, <2>1
  <2> QED  BY <1>1, <1>8, <2>2 DEF Buffered
<1>11. Due(t)'
  <2> SUFFICES ASSUME w.must # Nothing
               PROVE  /\ acked[w.row] = w.must
                      /\ \A c \in 0..w.col : SameColumn(Fetched(w), Encode(w.must), c)
    BY <1>1, <1>8 DEF Due
  <2>1. acked[w.row] = w.must /\ \A c \in 0..(w.col - 1) : SameColumn(w.buf, Encode(w.must), c)
    BY <1>1, <1>6 DEF Due
  <2>2. b = Encode(w.must)
    BY <1>2, <2>1 DEF IInv, AckedInv
  <2> QED  BY <1>3, <1>9, <2>1, <2>2
<1>12. Returned(t)'
  <2> SUFFICES ASSUME w.col = LastCol, Readable(Fetched(w))
               PROVE  ParseRow(Fetched(w)) = ParseRow(b)
    BY <1>1, <1>4 DEF Returned
  <2>1. (\A c \in 0..(LastCol - 1) : SameColumn(w.buf, b, c)) \/ Whole(b)
    BY <1>1, <1>6 DEF Buffered
  <2> QED  BY <1>2, <1>3, <1>5, <2>1, LastColumnTells
<1>13. Replayed(t)'
  BY <1>4 DEF Replayed
<1> QED  BY <1>10, <1>11, <1>12, <1>13 DEF Watching

(* A rebuild fetches its next column, or replays a row.                      *)
LEMMA FetchScanWatched ==
  ASSUME Checksum, IInv, ReadInv, NEW t \in Threads, FetchScan(t)
  PROVE  Watching(t)'
<1> DEFINE w == th[t]
           b == bytes[w.row]
           more == [pc |-> "scan", row |-> w.row, col |-> w.col + 1,
                    buf |-> Fetched(w), rows |-> w.rows, fresh |-> w.fresh]
           replayed == [pc |-> IF w.row + 1 = w.rows THEN "install" ELSE "scan",
                        row |-> w.row + 1, col |-> 0, buf |-> ZeroRow, rows |-> w.rows,
                        fresh |-> ReplayRow(w.fresh, w.row, Fetched(w))]
<1>1. TypeOK /\ w.pc = "scan" /\ bytes' = bytes
  BY DEF IInv, FetchScan, diskVars
<1>2. /\ w \in Scanning /\ w.row \in Rows /\ w.col \in Cols /\ w.buf \in RowImages
      /\ w.fresh \in IndexTypes
  <2>1. w \in Scanning /\ w.row < w.rows
    BY <1>1, ThreadTypes DEF IInv, CursorsInv
  <2> QED  BY <2>1, VaultAssumption DEF Scanning, Rows
<1>3. b \in RowImages /\ Fetched(w) = Overlay(w.buf, b, {w.col})
  BY <1>1, <1>2 DEF TypeOK, Fetched
<1>4. Buffered(t) /\ SoundIn(w.fresh, bytes)
  BY <1>1 DEF ReadInv, Watching, Replayed
<1>5. (\A c \in 0..(w.col - 1) : SameColumn(w.buf, b, c)) \/ Whole(b)
  BY <1>1, <1>4 DEF Buffered
<1>6. LastCol \in Nat
  BY VaultAssumption DEF LastCol, SumCol
<1>7. CASE w.col < LastCol
  <2>1. th'[t] = more
    BY <1>1, <1>7 DEF FetchScan, Become, TypeOK
  <2>2. ASSUME \A c \in 0..(w.col - 1) : SameColumn(w.buf, b, c), NEW c \in 0..w.col
        PROVE  SameColumn(Fetched(w), b, c)
    <3>1. c \in Cols /\ (c = w.col \/ c \in 0..(w.col - 1))
      BY <1>2, <1>6 DEF Cols
    <3> QED  BY <1>2, <1>3, <2>2, <3>1, ColumnWritten
  <2>3. Buffered(t)'
    <3>1. /\ th'[t].pc = "scan" /\ th'[t].row = w.row /\ th'[t].buf = Fetched(w)
          /\ th'[t].col - 1 = w.col
      BY <1>2, <1>6, <2>1 DEF Cols
    <3> QED  BY <1>1, <1>5, <2>2, <3>1 DEF Buffered
  <2> QED  BY <1>1, <1>4, <2>1, <2>3 DEF Watching, Due, Returned, Replayed
<1>8. CASE ~(w.col < LastCol)
  <2>1. th'[t] = replayed /\ w.col = LastCol
    BY <1>1, <1>2, <1>6, <1>8 DEF FetchScan, Become, TypeOK, Cols
  <2>2. SoundIn(ReplayRow(w.fresh, w.row, Fetched(w)), bytes)
    <3>1. CASE ~Readable(Fetched(w))
      BY <1>4, <3>1 DEF ReplayRow, Readable
    <3>2. CASE Readable(Fetched(w))
      <4> DEFINE e == ParseRow(Fetched(w))
      <4>1. e = ParseRow(b)
        <5>1. w.col = LastCol
          BY <2>1
        <5>2. Fetched(w) = Overlay(w.buf, b, {LastCol})
          BY <1>3, <5>1
        <5>3. (\A c \in 0..(LastCol - 1) : SameColumn(w.buf, b, c)) \/ Whole(b)
          BY <1>5, <5>1
        <5>4. Readable(Overlay(w.buf, b, {LastCol}))
          BY <3>2, <5>2
        <5> HIDE DEF b
        <5> QED  BY <1>2, <1>3, <5>2, <5>3, <5>4, LastColumnTells
      <4>2. e \in AllEntries
        <5>1. Fetched(w) \in RowImages
          BY <1>2, <1>3, OverlayType
        <5> QED  BY <3>2, <5>1, ParseRowType DEF Readable
      <4>3. ReplayRow(w.fresh, w.row, Fetched(w)) = MergeInto(w.fresh, w.row, e)
        BY <3>2 DEF ReplayRow, Readable
      <4> HIDE DEF e
      <4> QED  BY <1>2, <1>4, <4>1, <4>2, <4>3, SoundMerge
    <3> QED  BY <3>1, <3>2
  <2>3. Replayed(t)'
    BY <1>1, <2>1, <2>2 DEF Replayed
  <2>4. Buffered(t)'
    BY <2>1 DEF Buffered
  <2> QED  BY <2>1, <2>3, <2>4 DEF Watching, Due, Returned
<1> QED  BY <1>7, <1>8

(* A read or a rebuild begins with nothing fetched.                          *)
LEMMA StartsWatched ==
  ASSUME TypeOK, NEW t \in Threads,
         (\E r \in Rows : StartRead(t, r)) \/ StartRebuild(t) \/ Open(t)
  PROVE  Watching(t)'
<1>1. acked' = acked
  BY DEF StartRead, StartRebuild, Open, histVars
<1>2. CASE \E r \in Rows : StartRead(t, r)
  <2>1. PICK r \in Rows : StartRead(t, r)
    BY <1>2
  <2>2. th'[t] = [pc |-> "read", row |-> r, col |-> 0, buf |-> ZeroRow, must |-> acked[r]]
    BY <2>1 DEF StartRead, Become, TypeOK
  <2> QED  BY <1>1, <2>2 DEF Watching, Buffered, Due, Returned, Replayed
<1>3. CASE BeginScan(t)
  <2>1. th'[t] = [pc |-> IF fileRows = 0 THEN "install" ELSE "scan", row |-> 0, col |-> 0,
                  buf |-> ZeroRow, rows |-> fileRows, fresh |-> EmptyIndex]
    BY <1>3 DEF BeginScan, Become, TypeOK
  <2>2. \A b : SoundIn(EmptyIndex, b)
    BY DEF SoundIn, EmptyIndex
  <2> QED  BY <2>1, <2>2 DEF Watching, Buffered, Due, Returned, Replayed
<1> QED  BY <1>2, <1>3 DEF StartRebuild, Open

(* The index after a step: a merged row is in the file, a fresh index has    *)
(* been replayed from it, and a new process has none.                        *)
LEMMA IndexStaysSound ==
  ASSUME Checksum, IInv, IInv', ReadInv, Settled, [Next]_vars, ~PowerCut
  PROVE  SoundIn(index', bytes')
<1> USE DEF diskVars, histVars
<1>1. TypeOK /\ TypeOK' /\ SoundIn(index, bytes)
  BY DEF IInv, ReadInv
<1>2. CASE index' = index
  BY <1>1, <1>2, SoundStays
<1>3. ASSUME NEW t \in Threads, Merge(t) PROVE SoundIn(index', bytes')
  <2>1. /\ th[t] \in Writing /\ th[t].row \in Rows /\ th[t].ent \in AllEntries
        /\ bytes[th[t].row] = Encode(th[t].ent)
    BY <1>1, <1>3, ThreadTypes, VaultAssumption
       DEF Merge, Writing, IInv, AppendsInv, WrittenSoFar, InAppend
  <2>2. ParseRow(bytes[th[t].row]) = th[t].ent
    BY <2>1, ParseEncode
  <2>3. index \in IndexTypes
    BY <1>1 DEF TypeOK
  <2>4. SoundIn(MergeInto(index, th[t].row, th[t].ent), bytes)
    BY <1>1, <2>1, <2>2, <2>3, SoundMerge
  <2> QED  BY <1>3, <2>4 DEF Merge
<1>4. ASSUME NEW t \in Threads, Install(t) PROVE SoundIn(index', bytes')
  BY <1>4 DEF Install, ReadInv, Watching, Replayed
<1>5. CASE index' = EmptyIndex
  BY <1>5 DEF SoundIn, EmptyIndex
<1>6. CASE Close \/ Crash \/ OpenUnindexed
  BY <1>5, <1>6 DEF Close, Crash, OpenUnindexed, LoseProcess
<1>7. ASSUME NEW t \in Threads, Open(t) PROVE SoundIn(index', bytes')
  BY <1>5, <1>7 DEF Open
<1>8. CASE UNCHANGED vars
  BY <1>2, <1>8 DEF vars
<1>9. ASSUME NEW t \in Threads,
             \/ \E e \in Entries : Reserve(t, e)
             \/ WriteColumn(t) \/ AppendFails(t) \/ Sync(t) \/ Flush(t)
             \/ \E r \in Rows : StartRead(t, r)
             \/ FetchRead(t) \/ FinishRead(t) \/ StartRebuild(t) \/ FetchScan(t)
      PROVE  index' = index
  BY <1>9 DEF Reserve, WriteColumn, AppendFails, Sync, Flush, StartRead, FetchRead, FinishRead,
     StartRebuild, FetchScan
<1> QED  BY <1>2, <1>3, <1>4, <1>6, <1>7, <1>8, <1>9 DEF Next

(* An acknowledged row stays acknowledged but for a power cut.               *)
LEMMA AckedStays ==
  ASSUME IInv, [Next]_vars, ~PowerCut
  PROVE  \A r \in Rows : acked[r] # Nothing => acked'[r] = acked[r]
<1> USE DEF diskVars, histVars
<1>1. ASSUME NEW t \in Threads, Merge(t)
      PROVE  \A r \in Rows : acked[r] # Nothing => acked'[r] = acked[r]
  BY <1>1 DEF Merge, IInv, TypeOK, AppendsInv, InAppend
<1>2. CASE UNCHANGED acked
  BY <1>2
<1>3. ASSUME NEW t \in Threads,
             \/ \E e \in Entries : Reserve(t, e)
             \/ WriteColumn(t) \/ AppendFails(t) \/ Sync(t) \/ Flush(t)
             \/ \E r \in Rows : StartRead(t, r)
             \/ FetchRead(t) \/ FinishRead(t) \/ StartRebuild(t) \/ FetchScan(t)
             \/ Install(t) \/ Open(t)
      PROVE  UNCHANGED acked
  BY <1>3 DEF Reserve, WriteColumn, AppendFails, Sync, Flush, StartRead, FetchRead, FinishRead,
     StartRebuild, FetchScan, Install, Open
<1>4. CASE Close \/ Crash \/ OpenUnindexed \/ UNCHANGED vars
  BY <1>4 DEF Close, Crash, OpenUnindexed, vars
<1> QED  BY <1>1, <1>2, <1>3, <1>4 DEF Next

(* Every thread but the one that moves stays; the one that moves reads,      *)
(* scans, or does neither.                                                   *)
LEMMA ThreadsStayWatched ==
  ASSUME Checksum, IInv, IInv', ReadInv, Settled, [Next]_vars, ~PowerCut, NEW u \in Threads
  PROVE  Watching(u)'
<1> DEFINE Away == th'[u].pc \notin {"read", "got", "scan", "install"}
<1>1. CASE th'[u] = th[u]
  <2>1. \A r \in Rows : acked[r] # Nothing => acked'[r] = acked[r]
    BY AckedStays
  <2> QED  BY <1>1, <2>1, WatchingStays DEF ReadInv
<1>2. CASE Away
  BY <1>2 DEF Watching, Buffered, Due, Returned, Replayed
<1>3. TypeOK
  BY DEF IInv
<1>4. ASSUME NEW t \in Threads, (\E e \in Entries : Reserve(t, e)) \/ AppendFails(t) \/ Merge(t)
                                \/ FinishRead(t) \/ Install(t) \/ Flush(t)
      PROVE  th'[u] = th[u] \/ Away
  BY <1>3, <1>4 DEF Reserve, AppendFails, Merge, FinishRead, Install, Flush, Become, TypeOK, Idle
<1>5. ASSUME NEW t \in Threads, WriteColumn(t)
      PROVE  th'[u] = th[u] \/ Away
  BY <1>5, ColumnStep DEF ReadInv
<1>6. ASSUME NEW t \in Threads, Sync(t)
      PROVE  th'[u] = th[u] \/ Away
  <2>1. th' = [th EXCEPT ![t] = [th[t] EXCEPT !.pc = "merge"]] /\ th[t] \in Writing
    BY <1>3, <1>6, ThreadTypes DEF Sync, Become
  <2>2. [th[t] EXCEPT !.pc = "merge"].pc = "merge"
    BY <2>1 DEF Writing
  <2> QED  BY <1>3, <2>1, <2>2 DEF TypeOK
<1>7. ASSUME NEW t \in Threads, \/ \E r \in Rows : StartRead(t, r)
                                \/ FetchRead(t) \/ FetchScan(t) \/ StartRebuild(t) \/ Open(t)
      PROVE  th'[u] = th[u] \/ Watching(u)'
  <2>1. CASE u # t
    BY <1>3, <1>7, <2>1
       DEF StartRead, FetchRead, FetchScan, StartRebuild, Open, BeginScan, Become, TypeOK
  <2>2. CASE u = t
    BY <1>3, <1>7, <2>2, StartsWatched, FetchReadWatched, FetchScanWatched
  <2> QED  BY <2>1, <2>2
<1>8. ASSUME Close \/ Crash PROVE Away
  <2>1. th' = [t \in Threads |-> Idle]
    BY <1>8 DEF Close, Crash, LoseProcess
  <2> QED  BY <2>1 DEF Idle
<1>9. ASSUME UNCHANGED vars \/ OpenUnindexed PROVE th'[u] = th[u]
  BY <1>9 DEF vars, OpenUnindexed
<1> HIDE DEF Away
<1> QED  BY <1>1, <1>2, <1>4, <1>5, <1>6, <1>7, <1>8, <1>9 DEF Next

LEMMA ReadInvNext ==
  ASSUME Checksum, IInv, IInv', ReadInv, [Next]_vars
  PROVE  ReadInv'
<1>1. SumsLast' /\ DurableRows'
  BY SumsLastNext, DurableRowsNext DEF ReadInv
<1>2. CASE PowerCut
  <2>1. /\ index' = EmptyIndex
        /\ th' = [t \in Threads |-> Idle]
    BY <1>2 DEF PowerCut, LoseProcess
  <2>2. SoundIn(index', bytes')
    BY <2>1 DEF SoundIn, EmptyIndex
  <2>3. \A t \in Threads : Watching(t)'
    BY <2>1 DEF Watching, Buffered, Due, Returned, Replayed, Idle
  <2> QED  BY <1>1, <2>2, <2>3 DEF ReadInv
<1>3. CASE ~PowerCut
  <2>1. Settled
    BY <1>3, StepsSettle DEF ReadInv
  <2>2. SoundIn(index', bytes')
    BY <1>3, <2>1, IndexStaysSound
  <2>3. \A t \in Threads : Watching(t)'
    BY <1>3, <2>1, ThreadsStayWatched
  <2> QED  BY <1>1, <2>2, <2>3 DEF ReadInv
<1> QED  BY <1>2, <1>3

(* With row checksums, what reads, rebuilds and the index rely on holds in   *)
(* every reachable state.                                                    *)
THEOREM ReadInvariant ==
  ASSUME Checksum
  PROVE  Spec => []ReadInv
<1>1. Init => ReadInv
  <2> SUFFICES ASSUME Init PROVE ReadInv
    OBVIOUS
  <2>1. SumsLast /\ DurableRows
    BY DEF Init, SumsLast, DurableRows, ZeroRow, Idle
  <2>2. SoundIn(index, bytes)
    BY DEF Init, SoundIn, EmptyIndex
  <2>3. \A t \in Threads : Watching(t)
    BY DEF Init, Watching, Buffered, Due, Returned, Replayed, Idle
  <2> QED  BY <2>1, <2>2, <2>3 DEF ReadInv
<1>2. IInv /\ IInv' /\ ReadInv /\ [Next]_vars => ReadInv'
  BY ReadInvNext
<1> QED  BY <1>1, <1>2, VaultInvariant, PTL DEF Spec

(* latest_at never invents a value, live rebuilds and torn rows included.    *)
THEOREM IndexIsSound ==
  ASSUME Checksum
  PROVE  Spec => []IndexSound
<1>1. ReadInv => IndexSound
  BY DEF ReadInv, SoundIn, IndexSound, Readable
<1> QED  BY <1>1, ReadInvariant, PTL

(* read_row never returns a row that is part old and part new, and returns a *)
(* row acknowledged before it began in full.                                 *)
THEOREM ReadsReturnWholeRows ==
  ASSUME Checksum
  PROVE  Spec => []ReadsAreWhole
<1>1. ASSUME IInv, ReadInv PROVE ReadsAreWhole
  <2> SUFFICES ASSUME NEW t \in Threads, th[t].pc = "got"
               PROVE  LET got == ParseRow(th[t].buf) IN
                        /\ got \notin {Nothing, Corrupt} => got = ParseRow(bytes[th[t].row])
                        /\ th[t].must # Nothing => got = th[t].must
    BY DEF ReadsAreWhole
  <2>1. Returned(t) /\ Due(t)
    BY <1>1 DEF ReadInv, Watching
  <2>2. ASSUME th[t].must # Nothing PROVE ParseRow(th[t].buf) = th[t].must
    <3>1. th[t] \in Reading
      BY <1>1, ThreadTypes DEF IInv
    <3>2. th[t].must \in AllEntries /\ th[t].buf \in RowImages
      BY <2>2, <3>1 DEF Reading
    <3>3. th[t].col - 1 = LastCol
      BY <2>1, <2>2, VaultAssumption DEF Due, LastCol, SumCol
    <3>4. \A c \in Cols : SameColumn(th[t].buf, Encode(th[t].must), c)
      BY <2>1, <2>2, <3>3 DEF Due, Cols
    <3>5. th[t].buf = Encode(th[t].must)
      BY <3>2, <3>4, EncodeType, AllColumnsWritten
    <3> QED  BY <3>2, <3>5, ParseEncode
  <2> QED  BY <2>1, <2>2 DEF Returned, Readable
<1> QED  BY <1>1, VaultInvariant, ReadInvariant, PTL

-----------------------------------------------------------------------------
(* With row checksums, the file is an append-only log                       *)

(* A row is in the log if the file covers it and it can be read.             *)
LEMMA ShownRow ==
  ASSUME Checksum, NEW r, NEW n, NEW b \in RowImages
  PROVE  /\ r < n /\ Readable(b) => ShownAs(r, n, b) = ParseRow(b)
         /\ ~(r < n /\ Readable(b)) => ShownAs(r, n, b) = Nothing
         /\ b.sum = {} => ShownAs(r, n, b) = Nothing
<1>1. b.sum = {} => ParseRow(b) = Nothing
  BY DEF ParseRow
<1> QED  BY <1>1, VaultAssumption DEF ShownAs, Readable

(* An entry in a covered row is shown as it is.                              *)
LEMMA ShownEntry ==
  ASSUME NEW e \in AllEntries, NEW r, NEW n, r < n
  PROVE  ShownAs(r, n, Encode(e)) = e /\ e # Nothing
BY ParseEncode, VaultAssumption DEF ShownAs

(* Promises are kept.                                                        *)
LEMMA PromisesStay ==
  ASSUME [Next]_vars
  PROVE  promised \subseteq promised'
<1> USE DEF diskVars, histVars
<1>1. ASSUME NEW t \in Threads, Merge(t) \/ Flush(t) PROVE promised \subseteq promised'
  BY <1>1 DEF Merge, Flush, Promise
<1>2. ASSUME NEW t \in Threads,
             \/ \E e \in Entries : Reserve(t, e)
             \/ WriteColumn(t) \/ AppendFails(t) \/ Sync(t)
             \/ \E r \in Rows : StartRead(t, r)
             \/ FetchRead(t) \/ FinishRead(t) \/ StartRebuild(t) \/ FetchScan(t)
             \/ Install(t) \/ Open(t)
      PROVE  UNCHANGED promised
  BY <1>2 DEF Reserve, WriteColumn, AppendFails, Sync, StartRead, FetchRead, FinishRead,
     StartRebuild, FetchScan, Install, Open
<1>3. CASE Close \/ Crash \/ PowerCut \/ OpenUnindexed \/ UNCHANGED vars
  BY <1>3 DEF Close, Crash, PowerCut, OpenUnindexed, vars
<1> QED  BY <1>1, <1>2, <1>3 DEF Next

(* What a power cut leaves of a row that can be read is the row.             *)
LEMMA PowerCutShows ==
  ASSUME Checksum, IInv, IInv', ReadInv, PowerCut, NEW r \in Rows
  PROVE  /\ Shown'[r] \in {Shown[r], Nothing}
         /\ r \in promised => Shown'[r] = Shown[r]
<1>1. PICK n \in durRows..fileRows, kept \in SUBSET Unsynced :
        /\ bytes' = [q \in Rows |->
                       Overlay(durBytes[q], bytes[q], {c \in Cols : <<q, c>> \in kept})]
        /\ fileRows' = n
  BY DEF PowerCut
<1>2. r < fileRows' => r < fileRows
  BY <1>1, VaultAssumption DEF IInv, TypeOK, Rows
<1>3. ASSUME r < fileRows', Readable(bytes'[r])
      PROVE  ParseRow(bytes'[r]) = ParseRow(bytes[r])
  <2> DEFINE cs == {c \in Cols : <<r, c>> \in kept}
             o == Overlay(durBytes[r], bytes[r], cs)
  <2>1. bytes'[r] = o /\ o \in RowImages /\ bytes[r] \in RowImages /\ durBytes[r] \in RowImages
    BY <1>1 DEF IInv, TypeOK
  <2>2. o.sum = {Payload(o)}
    BY <1>3, <2>1, ReadableRow
  <2>3. CASE durBytes[r] = bytes[r]
    BY <2>1, <2>3, OverlaySame
  <2>4. CASE durBytes[r].sum = {} /\ Whole(bytes[r])
    <3>1. o.sum \in {durBytes[r].sum, bytes[r].sum}
      BY DEF Overlay
    <3>2. bytes[r].sum = {Payload(o)} /\ Payload(bytes[r]) = Payload(o)
      BY <2>2, <2>4, <3>1 DEF Whole
    <3>3. /\ bytes[r].bits = o.bits /\ bytes[r].data = o.data /\ bytes[r].sum = o.sum
      BY <2>2, <3>2 DEF Payload
    <3> HIDE DEF o
    <3> QED  BY <2>1, <3>2, <3>3 DEF ParseRow, Decode
  <2> QED  BY <2>3, <2>4 DEF ReadInv, DurableRows
<1>4. Shown'[r] \in {Shown[r], Nothing}
  <2>1. bytes[r] \in RowImages /\ bytes'[r] \in RowImages
    BY DEF IInv, TypeOK
  <2>2. Shown[r] = ShownAs(r, fileRows, bytes[r]) /\ Shown'[r] = ShownAs(r, fileRows', bytes'[r])
    BY DEF Shown
  <2>3. CASE r < fileRows' /\ Readable(bytes'[r])
    <3>1. r < fileRows /\ Readable(bytes[r])
      BY <1>2, <1>3, <2>3 DEF Readable
    <3> QED  BY <1>3, <2>1, <2>2, <2>3, <3>1, ShownRow
  <2>4. CASE ~(r < fileRows' /\ Readable(bytes'[r]))
    BY <2>1, <2>2, <2>4, ShownRow
  <2> QED  BY <2>3, <2>4
<1>5. r \in promised => Shown'[r] = Shown[r]
  <2> SUFFICES ASSUME r \in promised PROVE Shown'[r] = Shown[r]
    OBVIOUS
  <2>1. r \in promised' /\ acked'[r] = acked[r]
    BY DEF PowerCut
  <2>2. acked[r] # Nothing /\ acked[r] \in AllEntries
    BY VaultAssumption DEF IInv, TypeOK, PromisedDurable
  <2>3. /\ r < fileRows /\ bytes[r] = Encode(acked[r])
        /\ r < fileRows' /\ bytes'[r] = Encode(acked[r])
    BY <2>1, <2>2 DEF IInv, AckedInv
  <2> QED  BY <2>2, <2>3, ShownEntry DEF Shown
<1> QED  BY <1>4, <1>5

(* Every step of the vault is a step of the log or leaves it as it is.       *)
LEMMA LogNext ==
  ASSUME Checksum, IInv, IInv', ReadInv, [Next]_vars
  PROVE  [Log!Next]_<<Shown, promised>>
<1>1. TypeOK /\ TypeOK'
  BY DEF IInv
<1>2. ASSUME NEW t \in Threads, WriteColumn(t)
      PROVE  [Log!Next]_<<Shown, promised>>
  <2> DEFINE w == th[t]
  <2> USE <1>2, ColumnStep DEF ReadInv
  <2>1. \A r \in Rows \ {w.row} : Shown'[r] = Shown[r]
    <3> SUFFICES ASSUME NEW r \in Rows \ {w.row}
                 PROVE  Shown'[r] = Shown[r]
      OBVIOUS
    <3>1. bytes'[r] = bytes[r] /\ bytes[r] \in RowImages
      BY <1>1 DEF TypeOK
    <3>2. CASE r < fileRows
      <4>1. r < fileRows'
        BY <3>2, VaultAssumption DEF Rows
      <4> QED  BY <3>1, <3>2, <4>1 DEF Shown, ShownAs
    <3>3. CASE ~(r < fileRows)
      <4>1. bytes[r].sum = {}
        BY <3>3, VaultAssumption DEF SumsLast, Rows
      <4> QED  BY <3>1, <4>1, ShownRow DEF Shown
    <3> QED  BY <3>2, <3>3
  <2>2. /\ w.row \in Rows /\ Shown[w.row] = Nothing
        /\ bytes[w.row] \in RowImages /\ bytes'[w.row] \in RowImages
    BY <1>1, ShownRow DEF TypeOK, Shown
  <2>3. Shown \in [Rows -> {Shown[r] : r \in Rows}] /\ DOMAIN Shown = Rows /\ DOMAIN Shown' = Rows
    BY DEF Shown
  <2>4. CASE bytes'[w.row].sum = {}
    <3>1. Shown'[w.row] = Nothing
      BY <2>2, <2>4, ShownRow DEF Shown
    <3>2. \A r \in Rows : Shown'[r] = Shown[r]
      BY <2>1, <2>2, <3>1
    <3>3. Shown' = Shown
      BY <3>2 DEF Shown
    <3> QED  BY <3>3
  <2>5. CASE bytes'[w.row] = Encode(w.ent) /\ w.row < fileRows'
    <3>1. Shown'[w.row] = w.ent /\ w.ent \in AllEntries
      BY <2>2, <2>5, ShownEntry DEF Shown
    <3>2. Shown' = [Shown EXCEPT ![w.row] = w.ent]
      BY <2>1, <2>2, <3>1 DEF Shown
    <3>3. Log!Land(w.row, w.ent)
      BY <2>2, <3>2 DEF Log!Land
    <3> QED  BY <2>2, <3>1, <3>3 DEF Log!Next
  <2> QED  BY <2>4, <2>5
<1>3. CASE PowerCut
  <2> DEFINE lost == {r \in Rows : Shown'[r] # Shown[r]}
  <2>1. promised' = promised
    BY <1>3 DEF PowerCut
  <2>2. lost \cap promised = {}
    BY <1>3, PowerCutShows
  <2>3. \A r \in Rows : Shown'[r] = IF r \in lost THEN Nothing ELSE Shown[r]
    BY <1>3, PowerCutShows
  <2>4. Shown' = [r \in Rows |-> IF r \in lost THEN Nothing ELSE Shown[r]]
    BY <2>3 DEF Shown
  <2> HIDE DEF lost
  <2>5. Log!Lose(lost)
    BY <2>1, <2>2, <2>4 DEF Log!Lose
  <2> QED  BY <2>5 DEF Log!Next, lost
<1>4. CASE UNCHANGED <<bytes, fileRows>>
  <2>1. Shown' = Shown
    BY <1>4 DEF Shown
  <2>2. promised' = promised \cup promised'
    BY PromisesStay
  <2>3. promised' \subseteq {r \in Rows : Shown[r] # Nothing}
    <3> SUFFICES ASSUME NEW r \in promised' PROVE r \in Rows /\ Shown[r] # Nothing
      OBVIOUS
    <3>1. r \in Rows /\ acked'[r] # Nothing /\ acked'[r] \in AllEntries
      BY VaultAssumption DEF IInv, TypeOK, PromisedDurable
    <3>2. r < fileRows' /\ bytes'[r] = Encode(acked'[r])
      BY <3>1 DEF IInv, AckedInv
    <3> QED  BY <1>4, <3>1, <3>2, ShownEntry DEF Shown
  <2>4. Log!Secure(promised')
    BY <2>1, <2>2, <2>3 DEF Log!Secure, Log!Landed
  <2>5. promised' \in SUBSET Rows
    BY <2>3
  <2> QED  BY <2>4, <2>5 DEF Log!Next
<1> QED  BY <1>2, <1>3, <1>4, FileSteps

(* With row checksums the vault implements the abstract append-only log.     *)
THEOREM VaultImplementsLog ==
  ASSUME Checksum
  PROVE  Spec => ImplementsLog
<1>1. Init => Log!Init
  <2> SUFFICES ASSUME Init PROVE Log!Init
    OBVIOUS
  <2>1. promised = {} /\ \A r \in Rows : ~(r < fileRows)
    BY VaultAssumption DEF Init, Rows
  <2> QED  BY <2>1 DEF Log!Init, Shown, ShownAs
<1>2. IInv /\ IInv' /\ ReadInv /\ [Next]_vars => [Log!Next]_<<Shown, promised>>
  BY LogNext
<1> QED
  BY <1>1, <1>2, VaultInvariant, ReadInvariant, PTL DEF Spec, ImplementsLog, Log!Spec

-----------------------------------------------------------------------------
(* Without live rebuilds: the index is never behind an acknowledged row      *)

\* Index ix answers for the rows from m on and below n that a acknowledges.
Covers(ix, a, m, n) ==
  \A r \in Rows, f \in Fields :
    r >= m /\ r < n /\ a[r] # Nothing /\ a[r][f] # Absent => ix[f].row >= r

Scans(t) == th[t].pc \in {"scan", "install"}

\* The scan of open() covers the rows it is past; nothing it reads changes.
Catching(t) ==
  Scans(t) =>
    /\ mode = "opening"
    /\ th[t].rows = fileRows
    /\ th[t].pc = "install" => th[t].row = th[t].rows
    /\ Covers(th[t].fresh, acked, 0, th[t].row)
    /\ th[t].pc = "scan" =>
         /\ ~Checksum => th[t].buf.sum = {}
         /\ acked[th[t].row] # Nothing =>
              \A c \in 0..(th[t].col - 1) : SameColumn(th[t].buf, Encode(acked[th[t].row]), c)

CurrentInv ==
  /\ \A t \in Threads : Catching(t)
  /\ \A t, u \in Threads : Scans(t) /\ Scans(u) => t = u
  /\ mode = "open" => Covers(index, acked, indexFrom, fileRows)

(* Merging never takes a slot to a lower row, and covers the row merged.     *)
LEMMA MergeAdvances ==
  ASSUME NEW ix \in IndexTypes, NEW r \in Rows, NEW e, NEW f \in Fields
  PROVE  /\ ix[f].row \in Int
         /\ MergeInto(ix, r, e)[f].row \in Int
         /\ MergeInto(ix, r, e)[f].row >= ix[f].row
         /\ e[f] # Absent => MergeInto(ix, r, e)[f].row >= r
<1>1. ix[f].row \in Int /\ r \in Int
  BY DEF IndexTypes, Rows
<1>2. MergeInto(ix, r, e)[f] = IF e[f] # Absent /\ r > ix[f].row
                               THEN [row |-> r, val |-> e[f]] ELSE ix[f]
  BY DEF MergeInto
<1>3. MergeInto(ix, r, e)[f].row = IF e[f] # Absent /\ r > ix[f].row THEN r ELSE ix[f].row
  BY <1>2
<1> QED  BY <1>1, <1>3

(* A merge, when nobody scans.                                               *)
LEMMA CurrentMerge ==
  ASSUME IInv, CurrentInv, NEW t \in Threads, Merge(t)
  PROVE  CurrentInv'
<1> DEFINE w == th[t]
<1>1. TypeOK /\ w \in Writing /\ w.row \in Rows /\ mode = "open" /\ index \in IndexTypes
  BY ThreadTypes DEF IInv, AppendsInv, InAppend, Merge, Writing, TypeOK
<1>2. \A u \in Threads : ~Scans(u)
  BY <1>1 DEF CurrentInv, Catching
<1>3. \A u \in Threads : ~Scans(u)'
  BY <1>1, <1>2 DEF Merge, Become, TypeOK, Scans, Idle
<1>4. /\ index' = MergeInto(index, w.row, w.ent) /\ mode' = mode /\ fileRows' = fileRows
      /\ indexFrom' = indexFrom
      /\ \A r \in Rows : acked'[r] = IF r = w.row THEN w.ent ELSE acked[r]
  BY <1>1 DEF Merge, diskVars, TypeOK
<1>5. Covers(index', acked', indexFrom', fileRows')
  <2> SUFFICES ASSUME NEW r \in Rows, NEW f \in Fields,
                      r >= indexFrom, r < fileRows, acked'[r] # Nothing, acked'[r][f] # Absent
               PROVE  index'[f].row >= r
    BY <1>4 DEF Covers
  <2>1. CASE r = w.row
    BY <1>1, <1>4, <2>1, MergeAdvances
  <2>2. CASE r # w.row
    <3>1. index[f].row >= r
      BY <1>1, <1>4, <2>2 DEF CurrentInv, Covers
    <3>2. index'[f].row >= index[f].row /\ index'[f].row \in Int /\ index[f].row \in Int
      BY <1>1, <1>4, MergeAdvances
    <3> QED  BY <3>1, <3>2 DEF Rows
  <2> QED  BY <2>1, <2>2
<1> QED  BY <1>3, <1>5 DEF CurrentInv, Catching

(* open()'s scan fetches a column, or replays a row.                         *)
LEMMA CurrentScan ==
  ASSUME IInv, CurrentInv, NEW t \in Threads, FetchScan(t)
  PROVE  CurrentInv'
<1> DEFINE w == th[t]
           b == bytes[w.row]
           more == [pc |-> "scan", row |-> w.row, col |-> w.col + 1,
                    buf |-> Fetched(w), rows |-> w.rows, fresh |-> w.fresh]
           replayed == [pc |-> IF w.row + 1 = w.rows THEN "install" ELSE "scan",
                        row |-> w.row + 1, col |-> 0, buf |-> ZeroRow, rows |-> w.rows,
                        fresh |-> ReplayRow(w.fresh, w.row, Fetched(w))]
<1>1. /\ TypeOK /\ w.pc = "scan"
      /\ UNCHANGED <<bytes, fileRows, mode, index, acked, indexFrom>>
  BY DEF IInv, FetchScan, diskVars, histVars
<1>2. /\ w \in Scanning /\ w.row \in Rows /\ w.col \in Cols /\ w.buf \in RowImages
      /\ w.fresh \in IndexTypes
  <2>1. w \in Scanning /\ w.row < w.rows
    BY <1>1, ThreadTypes DEF IInv, CursorsInv
  <2> QED  BY <2>1, VaultAssumption DEF Scanning, Rows
<1>3. /\ b \in RowImages /\ Fetched(w) = Overlay(w.buf, b, {w.col})
      /\ Fetched(w) \in RowImages
  BY <1>1, <1>2, OverlayType DEF TypeOK, Fetched
<1>4. LastCol \in Nat
  BY VaultAssumption DEF LastCol, SumCol
<1>5. /\ mode = "opening" /\ w.rows = fileRows
      /\ Covers(w.fresh, acked, 0, w.row)
      /\ ~Checksum => w.buf.sum = {}
      /\ acked[w.row] # Nothing => \A c \in 0..(w.col - 1) : SameColumn(w.buf, Encode(acked[w.row]), c)
  BY <1>1 DEF CurrentInv, Catching, Scans
<1>6. ~Checksum => Fetched(w).sum = {}
  BY <1>2, <1>3, <1>5 DEF IInv, NoSumsInv, Overlay
<1>7. ASSUME acked[w.row] # Nothing
      PROVE  /\ acked[w.row] \in AllEntries
             /\ \A c \in 0..w.col : SameColumn(Fetched(w), Encode(acked[w.row]), c)
  <2>1. b = Encode(acked[w.row])
    BY <1>2, <1>7 DEF IInv, AckedInv
  <2>2. acked[w.row] \in AllEntries
    BY <1>1, <1>2, <1>7, VaultAssumption DEF TypeOK
  <2>3. ASSUME NEW c \in 0..w.col PROVE SameColumn(Fetched(w), b, c)
    <3>1. c \in Cols /\ (c = w.col \/ c \in 0..(w.col - 1))
      BY <1>2, <1>4 DEF Cols
    <3> QED  BY <1>2, <1>3, <1>5, <1>7, <2>1, <3>1, ColumnWritten
  <2> QED  BY <2>1, <2>2, <2>3
<1>8. Catching(t)'
  <2>1. CASE w.col < LastCol
    <3>1. th'[t] = more
      BY <1>1, <2>1 DEF FetchScan, Become, TypeOK
    <3>2. /\ th'[t].pc = "scan" /\ th'[t].row = w.row /\ th'[t].buf = Fetched(w)
          /\ th'[t].col - 1 = w.col /\ th'[t].rows = w.rows /\ th'[t].fresh = w.fresh
      BY <1>2, <1>4, <3>1 DEF Cols
    <3> QED  BY <1>1, <1>5, <1>6, <1>7, <3>2 DEF Catching
  <2>2. CASE ~(w.col < LastCol)
    <3>1. th'[t] = replayed /\ w.col = LastCol
      BY <1>1, <1>2, <1>4, <2>2 DEF FetchScan, Become, TypeOK, Cols
    <3>2. ASSUME acked[w.row] # Nothing
          PROVE  ReplayRow(w.fresh, w.row, Fetched(w)) = MergeInto(w.fresh, w.row, acked[w.row])
      <4>1. \A c \in Cols : SameColumn(Fetched(w), Encode(acked[w.row]), c)
        BY <1>7, <3>1, <3>2 DEF Cols
      <4>2. ~Checksum => Encode(acked[w.row]).sum = {}
        BY DEF Encode
      <4>3. Fetched(w) = Encode(acked[w.row])
        BY <1>3, <1>6, <1>7, <3>2, <4>1, <4>2, EncodeType, AllColumnsWritten
      <4> QED  BY <1>7, <3>2, <4>3, ParseEncode, VaultAssumption DEF ReplayRow
    <3>3. Covers(ReplayRow(w.fresh, w.row, Fetched(w)), acked, 0, w.row + 1)
      <4> SUFFICES ASSUME NEW r \in Rows, NEW f \in Fields,
                          r < w.row + 1, acked[r] # Nothing, acked[r][f] # Absent
                   PROVE  ReplayRow(w.fresh, w.row, Fetched(w))[f].row >= r
        BY DEF Covers
      <4>1. CASE r = w.row
        BY <1>2, <3>2, <4>1, MergeAdvances
      <4>2. CASE r # w.row
        <5>1. w.fresh[f].row >= r /\ r \in Int
          BY <1>2, <1>5, <4>2 DEF Covers, Rows
        <5>2. /\ ReplayRow(w.fresh, w.row, Fetched(w))[f].row >= w.fresh[f].row
              /\ ReplayRow(w.fresh, w.row, Fetched(w))[f].row \in Int /\ w.fresh[f].row \in Int
          BY <1>2, MergeAdvances DEF ReplayRow
        <5> QED  BY <5>1, <5>2
      <4> QED  BY <4>1, <4>2
    <3>4. /\ th'[t].pc = (IF w.row + 1 = w.rows THEN "install" ELSE "scan")
          /\ th'[t].row = w.row + 1 /\ th'[t].buf = ZeroRow
          /\ th'[t].col = 0 /\ th'[t].rows = w.rows
          /\ th'[t].fresh = ReplayRow(w.fresh, w.row, Fetched(w))
      BY <3>1
    <3> QED  BY <1>1, <1>5, <3>3, <3>4 DEF Catching, ZeroRow
  <2> QED  BY <2>1, <2>2
<1>9. \A u \in Threads \ {t} : th'[u] = th[u] /\ ~Scans(u)
  BY <1>1 DEF FetchScan, Become, TypeOK, CurrentInv, Scans
<1> QED  BY <1>1, <1>5, <1>8, <1>9 DEF CurrentInv, Catching, Scans

(* A step of another thread leaves open()'s scan and the index as they are.  *)
LEMMA CurrentElsewhere ==
  ASSUME IInv, CurrentInv, UNCHANGED <<mode, index, acked, indexFrom>>,
         UNCHANGED fileRows \/ mode = "open",
         \A u \in Threads : Scans(u)' => th'[u] = th[u]
  PROVE  CurrentInv'
<1>1. \A u \in Threads : Scans(u)' => Scans(u)
  BY DEF Scans
<1>2. \A u \in Threads : Catching(u)'
  BY <1>1 DEF CurrentInv, Catching
<1>3. mode = "open" => Covers(index, acked, indexFrom, fileRows')
  BY DEF CurrentInv, Covers, IInv, AckedInv
<1>4. \A t, u \in Threads : Scans(t)' /\ Scans(u)' => t = u
  BY <1>1 DEF CurrentInv
<1> QED  BY <1>2, <1>3, <1>4 DEF CurrentInv

LEMMA CurrentNext ==
  ASSUME ~LiveRebuild, IInv, CurrentInv, [Next]_vars
  PROVE  CurrentInv'
<1> USE DEF diskVars, histVars
<1>1. TypeOK
  BY DEF IInv
<1>2. ASSUME NEW t \in Threads, WriteColumn(t)
      PROVE  CurrentInv'
  <2> DEFINE w == th[t]
             s == IF w.col < LastCol THEN [w EXCEPT !.col = @ + 1]
                  ELSE [w EXCEPT !.pc = IF SyncEach THEN "sync" ELSE "merge"]
  <2>1. w \in Writing /\ mode = "open"
    BY <1>1, <1>2, ThreadTypes DEF WriteColumn, IInv, AppendsInv, InAppend
  <2>2. s.pc \in {"write", "sync", "merge"}
    BY <1>2, <2>1 DEF WriteColumn, Writing
  <2>3. th'[t] = s /\ \A u \in Threads \ {t} : th'[u] = th[u]
    BY <1>1, <1>2 DEF WriteColumn, Become, TypeOK
  <2> HIDE DEF s
  <2>4. \A u \in Threads : Scans(u)' => th'[u] = th[u]
    BY <2>2, <2>3 DEF Scans
  <2> QED  BY <1>2, <2>1, <2>4, CurrentElsewhere DEF WriteColumn
<1>3. ASSUME NEW t \in Threads, Sync(t)
      PROVE  CurrentInv'
  <2>1. th' = [th EXCEPT ![t] = [th[t] EXCEPT !.pc = "merge"]] /\ th[t] \in Writing
    BY <1>1, <1>3, ThreadTypes DEF Sync, Become
  <2>2. [th[t] EXCEPT !.pc = "merge"].pc = "merge"
    BY <2>1 DEF Writing
  <2>3. \A u \in Threads : Scans(u)' => th'[u] = th[u]
    BY <1>1, <2>1, <2>2 DEF Scans, TypeOK
  <2> QED  BY <1>3, <2>3, CurrentElsewhere DEF Sync, SyncData
<1>4. ASSUME NEW t \in Threads, \/ \E e \in Entries : Reserve(t, e)
                                \/ AppendFails(t) \/ Flush(t) \/ FinishRead(t)
                                \/ \E r \in Rows : StartRead(t, r)
                                \/ FetchRead(t)
      PROVE  CurrentInv'
  <2>1. \A u \in Threads : Scans(u)' => th'[u] = th[u]
    BY <1>1, <1>4 DEF Reserve, AppendFails, Flush, FinishRead, StartRead, FetchRead, Become,
       Scans, Idle, TypeOK
  <2>2. UNCHANGED <<mode, index, acked, indexFrom, fileRows>>
    BY <1>4 DEF Reserve, AppendFails, Flush, FinishRead, StartRead, FetchRead
  <2> QED  BY <2>1, <2>2, CurrentElsewhere
<1>5. CASE UNCHANGED vars
  BY <1>5, CurrentElsewhere DEF vars
<1>6. ASSUME NEW t \in Threads, Install(t)
      PROVE  CurrentInv'
  <2>1. Covers(th[t].fresh, acked, 0, fileRows)
    BY <1>6 DEF Install, CurrentInv, Catching, Scans
  <2>2. \A u \in Threads : ~Scans(u)'
    BY <1>1, <1>6 DEF Install, CurrentInv, Scans, Become, TypeOK, Idle
  <2> QED  BY <1>6, <2>1, <2>2 DEF Install, CurrentInv, Catching
<1>7. ASSUME NEW t \in Threads, Open(t)
      PROVE  CurrentInv'
  <2>1. \A u \in Threads : th[u] = Idle
    BY <1>7 DEF Open, IInv, CursorsInv
  <2>2. /\ \A u \in Threads \ {t} : th'[u] = Idle
        /\ th'[t] = [pc |-> IF fileRows = 0 THEN "install" ELSE "scan", row |-> 0, col |-> 0,
                     buf |-> ZeroRow, rows |-> fileRows, fresh |-> EmptyIndex]
    BY <1>1, <1>7, <2>1 DEF Open, BeginScan, Become, TypeOK
  <2>3. \A u \in Threads : Scans(u)' => u = t
    BY <2>2 DEF Scans, Idle
  <2>4. \A ix, a : Covers(ix, a, 0, 0)
    BY DEF Covers, Rows
  <2>5. Catching(t)'
    BY <1>7, <2>2, <2>4 DEF Catching, Open, ZeroRow
  <2> QED  BY <1>7, <2>3, <2>5 DEF Open, CurrentInv, Catching
<1>8. CASE Close \/ Crash \/ PowerCut
  <2>1. mode' = "closed" /\ th' = [t \in Threads |-> Idle]
    BY <1>8 DEF Close, Crash, PowerCut, LoseProcess
  <2> QED  BY <2>1 DEF CurrentInv, Catching, Scans, Idle
<1>9. ASSUME NEW t \in Threads PROVE ~StartRebuild(t)
  BY DEF StartRebuild
<1>10. CASE OpenUnindexed
  <2>1. \A u \in Threads : th'[u] = Idle
    BY <1>10 DEF OpenUnindexed, IInv, CursorsInv
  <2>2. Covers(index', acked', fileRows, fileRows)
    BY <1>1 DEF Covers, TypeOK, Rows
  <2> QED  BY <1>10, <2>1, <2>2 DEF OpenUnindexed, CurrentInv, Catching, Scans, Idle
<1> QED  BY <1>2, <1>3, <1>4, <1>5, <1>6, <1>7, <1>8, <1>9, <1>10, CurrentMerge, CurrentScan DEF Next

LEMMA CurrentInvariant ==
  ASSUME ~LiveRebuild
  PROVE  Spec => []CurrentInv
<1>1. Init => CurrentInv
  BY DEF Init, CurrentInv, Catching, Scans, Idle
<1>2. IInv /\ CurrentInv /\ [Next]_vars => CurrentInv'
  BY CurrentNext
<1> QED  BY <1>1, <1>2, VaultInvariant, PTL DEF Spec

(* Once append has returned, latest_at answers with that row or a later one. *)
THEOREM IndexIsCurrent ==
  ASSUME ~LiveRebuild
  PROVE  Spec => []IndexCurrent
<1>1. IInv /\ CurrentInv => IndexCurrent
  BY DEF IInv, AckedInv, CurrentInv, Covers, IndexCurrent
<1> QED  BY <1>1, VaultInvariant, CurrentInvariant, PTL

(* While the vault stays open, no slot of the index goes back to an earlier  *)
(* row.                                                                      *)
THEOREM IndexNeverGoesBack ==
  ASSUME ~LiveRebuild
  PROVE  Spec => IndexAdvances
<1> DEFINE Forward ==
      mode = "open" /\ mode' = "open" => \A f \in Fields : index'[f].row >= index[f].row
<1>1. ASSUME IInv, CurrentInv, [Next]_vars
      PROVE  Forward
  <2> USE <1>1 DEF diskVars, histVars
  <2>1. TypeOK /\ \A f \in Fields : index[f].row \in Int
    BY DEF IInv, TypeOK, IndexTypes, Rows
  <2>2. CASE index' = index
    BY <2>1, <2>2
  <2>3. ASSUME NEW t \in Threads, Merge(t) PROVE Forward
    <3>1. th[t].row \in Rows
      BY <2>1, <2>3, ThreadTypes DEF Merge, Writing
    <3> QED  BY <2>1, <2>3, <3>1, MergeAdvances DEF Merge, TypeOK
  <2>4. ASSUME NEW t \in Threads, Install(t) PROVE mode # "open"
    BY <2>4 DEF Install, CurrentInv, Catching, Scans
  <2>5. (\E t \in Threads : Open(t)) \/ OpenUnindexed => mode # "open"
    BY DEF Open, OpenUnindexed
  <2>6. CASE Close \/ Crash \/ PowerCut
    BY <2>6 DEF Close, Crash, PowerCut, LoseProcess
  <2>7. ASSUME NEW t \in Threads,
               \/ \E e \in Entries : Reserve(t, e)
               \/ WriteColumn(t) \/ AppendFails(t) \/ Sync(t) \/ Flush(t)
               \/ \E r \in Rows : StartRead(t, r)
               \/ FetchRead(t) \/ FinishRead(t) \/ StartRebuild(t) \/ FetchScan(t)
        PROVE  index' = index
    BY <2>7 DEF Reserve, WriteColumn, AppendFails, Sync, Flush, StartRead, FetchRead, FinishRead,
       StartRebuild, FetchScan
  <2>8. CASE UNCHANGED vars
    BY <2>2, <2>8 DEF vars
  <2> HIDE DEF Forward
  <2>9. mode # "open" => Forward
    BY DEF Forward
  <2> QED  BY <2>2, <2>3, <2>4, <2>5, <2>6, <2>7, <2>8, <2>9 DEF Next
<1>2. IInv /\ CurrentInv /\ [Next]_vars => [Forward]_vars
  BY <1>1
<1> QED  BY <1>2, VaultInvariant, CurrentInvariant, PTL DEF Spec, IndexAdvances
=============================================================================
