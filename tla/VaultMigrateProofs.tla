------------------------- MODULE VaultMigrateProofs -------------------------
(***************************************************************************)
(* Theorems about a migration: the acknowledged rows stay reachable by the *)
(* vault's name, and the copy that is renamed over it is exact.            *)
(***************************************************************************)
EXTENDS VaultMigrate, WellFoundedInduction, TLAPS

\* The name leads to the new file only from the rename on; a handle that is in
\* use can be on the old file then, but not on the new one before.
PathInv ==
  /\ path = "old" => durPath = "old"
  /\ path = "old" /\ pc # "down" => handle = "old"
  /\ pc \in {"copy", "rename"} => path = "old"
  /\ pc \in {"syncdir", "reopen"} => path = "new"
  /\ path = "new" \/ pc = "rename" => synced

\* The copy is exact as far as it has come.
CopiedSoFar ==
  pc = "copy" =>
    /\ \A r \in misread : r < done
    /\ \A r \in Rows : rows["new"][r] = IF r >= done THEN Unwritten
                                        ELSE IF r \in misread THEN Blank
                                        ELSE rows["old"][r]

\* What the old file holds while a power cut can bring it back.
OldHolds ==
  durPath = "old" =>
    \A r \in Rows \ stray : acked[r] # Unwritten => rows["old"][r] = acked[r]

\* What the new file holds once the name leads to it.
NewHolds ==
  path = "new" =>
    \A r \in Rows \ (stray \cup misread) : acked[r] # Unwritten => rows["new"][r] = acked[r]

MigrateInv == TypeOK /\ PathInv /\ CopiedSoFar /\ CopyIsExact /\ OldHolds /\ NewHolds

LEMMA Constants == Blank # Unwritten /\ Blank \notin Values /\ Unwritten \notin Values /\ MaxRow \in Nat
BY VaultMigrateAssumption

(* A set of rows that is not empty has a last one. *)
LEMMA LastRow ==
  ASSUME NEW S \in SUBSET Rows, S # {}
  PROVE  \E r \in S : \A q \in S : q <= r
<1> DEFINE Above == {MaxRow - r : r \in S}
<1>1. Above \subseteq Nat
  <2>1. \A r \in S : MaxRow - r \in Nat
    BY Constants DEF Rows
  <2> QED  BY <2>1
<1>2. PICK d \in Above : \A e \in Above : ~ (<<e, d>> \in OpToRel(<, Nat))
  <2>1. Above # {}
    OBVIOUS
  <2> HIDE DEF Above
  <2> QED  BY <1>1, <2>1, NatLessThanWellFounded, WFMin
<1>3. ASSUME NEW e \in Above PROVE d <= e
  <2>1. d \in Nat /\ e \in Nat
    BY <1>1
  <2>2. ~ (e < d)
    BY <1>2, <2>1 DEF OpToRel
  <2> QED  BY <2>1, <2>2
<1>4. PICK r \in S : d = MaxRow - r
  OBVIOUS
<1>5. ASSUME NEW q \in S PROVE q <= r
  <2>1. MaxRow - q \in Above
    OBVIOUS
  <2>2. MaxRow - r <= MaxRow - q
    BY <1>3, <1>4, <2>1
  <2> HIDE DEF Above
  <2>3. q \in Int /\ r \in Int
    BY DEF Rows
  <2> QED  BY <2>2, <2>3, Constants
<1> QED  BY <1>5

(* The file ends at the row count. *)
LEMMA RowCountIsEnd ==
  ASSUME TypeOK, NEW f \in Inodes
  PROVE  /\ RowCount(f) \in 0..MaxRow
         /\ \A q \in Rows : q >= RowCount(f) => rows[f][q] = Unwritten
<1> DEFINE S == {r \in Rows : rows[f][r] # Unwritten}
           Last(r) == rows[f][r] # Unwritten /\ \A q \in Rows : q > r => rows[f][q] = Unwritten
<1>1. CASE S = {}
  BY <1>1, Constants DEF RowCount
<1>2. CASE S # {}
  <2>1. PICK r \in S : \A q \in S : q <= r
    <3> HIDE DEF S
    <3>1. S \in SUBSET Rows
      BY DEF S
    <3> QED  BY <1>2, <3>1, LastRow
  <2>2. \E r1 \in Rows : Last(r1)
    BY <2>1 DEF Rows
  <2> DEFINE l == CHOOSE r1 \in Rows : Last(r1)
  <2>3. l \in Rows /\ Last(l)
    BY <2>2
  <2>4. RowCount(f) = 1 + l
    BY <1>2 DEF RowCount
  <2> HIDE DEF l
  <2> QED  BY <2>3, <2>4, Constants DEF Rows
<1> QED  BY <1>1, <1>2

(* What the name leads to. *)
LEMMA InvImpliesReachable ==
  ASSUME MigrateInv
  PROVE  AckedReachable
BY DEF MigrateInv, TypeOK, PathInv, OldHolds, NewHolds, AckedReachable, Lost, Inodes

LEMMA InvInit ==
  ASSUME Init
  PROVE  MigrateInv
<1>1. TypeOK
  <2>1. NoFile \in Contents
    BY DEF Contents, NoFile
  <2>2. rows \in [Inodes -> Contents]
    BY <2>1 DEF Init
  <2>3. acked \in [Rows -> Values \cup {Unwritten}]
    BY DEF Init
  <2>4. /\ path \in Inodes /\ durPath \in Inodes /\ handle \in Inodes /\ synced \in BOOLEAN
        /\ tmp \subseteq Pids /\ pid \in Pids /\ pc = "ready"
        /\ stray \subseteq Rows /\ misread \subseteq Rows
    BY DEF Init, Inodes
  <2>5. done \in 0..MaxRow
    BY Constants DEF Init
  <2> QED  BY <2>2, <2>3, <2>4, <2>5 DEF TypeOK
<1>2. PathInv /\ CopiedSoFar /\ CopyIsExact /\ OldHolds /\ NewHolds
  BY DEF Init, PathInv, CopiedSoFar, CopyIsExact, OldHolds, NewHolds
<1> QED  BY <1>1, <1>2 DEF MigrateInv

(* A row is appended to the handle's file, beyond its end.                   *)
LEMMA InvAppend ==
  ASSUME MigrateInv, NEW v \in Values, AppendRow(v) \/ AppendPastHole(v)
  PROVE  MigrateInv'
<1> DEFINE n == RowCount(handle)
<1>1. PICK r, before :
        /\ pc = "ready"
        /\ AppendAt(r, v, before)
        /\ r \in Rows
        /\ before \in Contents
        /\ \A q \in Rows : before[q] # rows[handle][q] => rows[handle][q] = Unwritten
        /\ UNCHANGED <<path, synced, tmp, pid, handle, pc, done, misread>>
  <2>1. n \in 0..MaxRow /\ \A q \in Rows : q >= n => rows[handle][q] = Unwritten
    BY RowCountIsEnd DEF MigrateInv, TypeOK
  <2>2. rows[handle] \in Contents
    BY DEF MigrateInv, TypeOK
  <2>3. CASE AppendRow(v)
    <3> HIDE DEF n
    <3>1. AppendAt(n, v, rows[handle])
      BY <2>3 DEF AppendRow, n
    <3>2. n \in Rows
      BY <2>1, <3>1, Constants DEF AppendAt, Rows
    <3> QED  BY <2>2, <2>1, <2>3, <3>1, <3>2, Constants DEF AppendRow, Rows
  <2>4. CASE AppendPastHole(v)
    <3>1. n < MaxRow - 1 /\ AppendAt(n + 1, v, [rows[handle] EXCEPT ![n] = Blank])
      BY <2>4 DEF AppendPastHole
    <3> HIDE DEF n
    <3>2. [rows[handle] EXCEPT ![n] = Blank] \in Contents
      BY <2>2 DEF Contents
    <3>3. \A q \in Rows : [rows[handle] EXCEPT ![n] = Blank][q] # rows[handle][q]
                            => rows[handle][q] = Unwritten
      BY <2>1, <2>2, Constants DEF Contents, Rows
    <3>4. n + 1 \in Rows
      BY <2>1, <3>1, Constants DEF Rows
    <3> QED  BY <2>4, <3>1, <3>2, <3>3, <3>4 DEF AppendPastHole
  <2> QED  BY <2>3, <2>4
<1> HIDE DEF n
<1>2. TypeOK'
  BY <1>1, Constants DEF MigrateInv, TypeOK, AppendAt, Contents
<1>3. PathInv' /\ CopiedSoFar' /\ CopyIsExact'
  BY <1>1 DEF MigrateInv, TypeOK, PathInv, CopiedSoFar, CopyIsExact, AppendAt
<1>4. \A f \in Inodes, q \in Rows :
        rows'[f][q] = IF f # handle THEN rows[f][q] ELSE IF q = r THEN v ELSE before[q]
  BY <1>1 DEF MigrateInv, TypeOK, AppendAt, Contents
<1>5. \A q \in Rows : acked'[q] = IF q = r THEN v ELSE acked[q]
  BY <1>1 DEF MigrateInv, TypeOK, AppendAt
<1>6. OldHolds'
  <2> SUFFICES ASSUME durPath' = "old", NEW q \in Rows \ stray', acked'[q] # Unwritten
               PROVE  rows'["old"][q] = acked'[q]
    BY DEF OldHolds
  <2>1. durPath = "old"
    BY <1>1 DEF AppendAt, MigrateInv, PathInv
  <2>2. handle = path => path = "old"
    BY <1>1 DEF AppendAt
  <2>3. CASE q = r
    <3>1. handle = path
      BY <1>1, <2>3 DEF AppendAt
    <3> QED  BY <1>4, <1>5, <2>2, <2>3, <3>1 DEF Inodes
  <2>4. CASE q # r
    <3>1. q \notin stray /\ acked[q] # Unwritten
      BY <1>1, <1>5, <2>4 DEF AppendAt
    <3>2. rows["old"][q] = acked[q]
      BY <2>1, <3>1 DEF MigrateInv, OldHolds
    <3> QED  BY <1>1, <1>4, <1>5, <2>4, <3>1, <3>2 DEF Inodes
  <2> QED  BY <2>3, <2>4
<1>7. NewHolds'
  <2> SUFFICES ASSUME path' = "new", NEW q \in Rows \ (stray' \cup misread'),
                      acked'[q] # Unwritten
               PROVE  rows'["new"][q] = acked'[q]
    BY DEF NewHolds
  <2>1. path = "new" /\ misread' = misread
    BY <1>1
  <2>2. CASE q = r
    <3>1. handle = "new"
      BY <1>1, <2>1, <2>2 DEF AppendAt
    <3> QED  BY <1>4, <1>5, <2>2, <3>1 DEF Inodes
  <2>3. CASE q # r
    <3>1. q \notin stray \cup misread /\ acked[q] # Unwritten
      BY <1>1, <1>5, <2>1, <2>3 DEF AppendAt
    <3>2. rows["new"][q] = acked[q]
      BY <2>1, <3>1 DEF MigrateInv, NewHolds
    <3> QED  BY <1>1, <1>4, <1>5, <2>3, <3>1, <3>2 DEF Inodes
  <2> QED  BY <2>2, <2>3
<1> QED  BY <1>2, <1>3, <1>6, <1>7 DEF MigrateInv

(* A migration begins with an empty file, or not at all.                     *)
LEMMA InvBegin ==
  ASSUME MigrateInv, Begin \/ BeginOnLeftover
  PROVE  MigrateInv'
<1>1. CASE Begin
  <2>1. NoFile \in Contents
    BY DEF NoFile, Contents
  <2>2. TypeOK'
    <3>1. done' \in 0..MaxRow
      BY <1>1, Constants DEF Begin
    <3>2. rows' \in [Inodes -> Contents]
      BY <1>1, <2>1 DEF MigrateInv, TypeOK, Begin
    <3> QED  BY <1>1, <3>1, <3>2 DEF MigrateInv, TypeOK, Begin
  <2>3. \A r \in Rows : rows'["new"][r] = Unwritten /\ rows'["old"] = rows["old"]
    BY <1>1 DEF MigrateInv, TypeOK, Begin, NoFile, Inodes
  <2>4. CopiedSoFar'
    BY <1>1, <2>3 DEF Begin, CopiedSoFar, Rows
  <2>5. PathInv' /\ CopyIsExact' /\ OldHolds' /\ NewHolds'
    BY <1>1, <2>3 DEF Begin, MigrateInv, PathInv, CopyIsExact, OldHolds, NewHolds
  <2> QED  BY <2>2, <2>4, <2>5 DEF MigrateInv
<1>2. CASE BeginOnLeftover
  BY <1>2 DEF BeginOnLeftover, MigrateInv, TypeOK, PathInv, CopiedSoFar, CopyIsExact,
     OldHolds, NewHolds
<1> QED  BY <1>1, <1>2

(* One more row is copied, or given up.                                      *)
LEMMA InvCopy ==
  ASSUME MigrateInv, Copy \/ CopyUnread
  PROVE  MigrateInv'
<1> DEFINE c == rows'["new"][done]
<1>1. done \in Rows /\ done' = done + 1 /\ done + 1 \in 0..MaxRow
  <2>1. RowCount("old") \in 0..MaxRow
    BY RowCountIsEnd DEF MigrateInv, Inodes
  <2>2. done < RowCount("old") /\ done' = done + 1 /\ done \in 0..MaxRow
    BY DEF Copy, CopyUnread, MigrateInv, TypeOK
  <2> QED  BY <2>1, <2>2, Constants DEF Rows
<1>2. /\ pc = "copy" /\ path = "old" /\ durPath = "old"
      /\ UNCHANGED <<path, durPath, synced, tmp, pid, handle, pc, acked, stray>>
      /\ misread' \in {misread, misread \cup {done}}
      /\ c \in Values \cup {Blank, Unwritten}
      /\ c = IF done \in misread' THEN Blank ELSE rows["old"][done]
      /\ rows' = [rows EXCEPT !["new"][done] = c]
  <2>1. CASE Copy
    <3>1. rows["old"][done] \in Values \cup {Blank, Unwritten}
      BY <1>1 DEF MigrateInv, TypeOK, Contents, Inodes
    <3>2. c = rows["old"][done]
      BY <1>1, <2>1 DEF Copy, MigrateInv, TypeOK, Contents, Inodes
    <3>3. done \notin misread
      BY <1>1, <2>1 DEF Copy, MigrateInv, CopiedSoFar, Rows
    <3> HIDE DEF c
    <3> QED  BY <2>1, <3>1, <3>2, <3>3 DEF Copy, MigrateInv, PathInv
  <2>2. CASE CopyUnread
    <3>1. c = Blank
      BY <1>1, <2>2 DEF CopyUnread, MigrateInv, TypeOK, Contents, Inodes
    <3> HIDE DEF c
    <3> QED  BY <2>2, <3>1 DEF CopyUnread, MigrateInv, PathInv
  <2> QED  BY <2>1, <2>2
<1> HIDE DEF c
<1>3. TypeOK'
  BY <1>1, <1>2 DEF MigrateInv, TypeOK, Contents, Inodes
<1>4. /\ rows'["old"] = rows["old"]
      /\ \A r \in Rows : rows'["new"][r] = IF r = done THEN c ELSE rows["new"][r]
  BY <1>1, <1>2 DEF MigrateInv, TypeOK, Contents, Inodes
<1>5. CopiedSoFar'
  <2>1. /\ \A r \in misread : r < done
        /\ \A r \in Rows : rows["new"][r] = IF r >= done THEN Unwritten
                                            ELSE IF r \in misread THEN Blank
                                            ELSE rows["old"][r]
    BY <1>2 DEF MigrateInv, CopiedSoFar
  <2>2. misread \subseteq Rows
    BY DEF MigrateInv, TypeOK
  <2>3. \A r \in misread' : r < done'
    BY <1>1, <1>2, <2>1, <2>2 DEF Rows
  <2>4. ASSUME NEW r \in Rows
        PROVE  rows'["new"][r] = IF r >= done' THEN Unwritten
                                 ELSE IF r \in misread' THEN Blank
                                 ELSE rows'["old"][r]
    <3>1. CASE r = done
      BY <1>1, <1>2, <1>4, <3>1 DEF Rows
    <3>2. CASE r # done
      BY <1>1, <1>2, <1>4, <2>1, <3>2 DEF Rows
    <3> QED  BY <3>1, <3>2
  <2> QED  BY <2>3, <2>4 DEF CopiedSoFar
<1>6. PathInv' /\ CopyIsExact' /\ OldHolds' /\ NewHolds'
  BY <1>2, <1>4 DEF MigrateInv, PathInv, CopyIsExact, OldHolds, NewHolds
<1> QED  BY <1>3, <1>5, <1>6 DEF MigrateInv

(* The copy is complete when it has come to the row count.                   *)
LEMMA InvSyncCopy ==
  ASSUME MigrateInv, SyncCopy
  PROVE  MigrateInv'
<1>1. TypeOK' /\ PathInv' /\ CopiedSoFar' /\ OldHolds' /\ NewHolds'
  BY DEF SyncCopy, MigrateInv, TypeOK, PathInv, CopiedSoFar, OldHolds, NewHolds
<1>2. CopyIsExact'
  <2>1. \A q \in Rows : q >= done => rows["old"][q] = Unwritten
    BY RowCountIsEnd DEF SyncCopy, MigrateInv, Inodes
  <2>2. \A r \in Rows : rows["new"][r] = IF r \in misread THEN Blank ELSE rows["old"][r]
    BY <2>1 DEF SyncCopy, MigrateInv, TypeOK, CopiedSoFar, Rows
  <2>3. rows["new"] \in Contents
    BY DEF MigrateInv, TypeOK, Inodes
  <2>4. rows["new"] = [r \in Rows |-> IF r \in misread THEN Blank ELSE rows["old"][r]]
    BY <2>2, <2>3 DEF Contents
  <2> QED  BY <2>4 DEF SyncCopy, CopyIsExact
<1> QED  BY <1>1, <1>2 DEF MigrateInv

(* The name goes over to the copy; a power cut may still take it back.       *)
LEMMA InvRename ==
  ASSUME MigrateInv, Rename
  PROVE  MigrateInv'
<1>1. TypeOK' /\ PathInv' /\ CopiedSoFar' /\ CopyIsExact' /\ OldHolds'
  BY DEF Rename, MigrateInv, TypeOK, PathInv, CopiedSoFar, CopyIsExact, OldHolds, Inodes
<1>2. NewHolds'
  <2>1. \A r \in Rows \ misread : rows["new"][r] = rows["old"][r]
    BY DEF Rename, MigrateInv, CopyIsExact
  <2>2. \A r \in Rows \ stray : acked[r] # Unwritten => rows["old"][r] = acked[r]
    BY DEF Rename, MigrateInv, PathInv, OldHolds
  <2> QED  BY <2>1, <2>2 DEF Rename, NewHolds
<1> QED  BY <1>1, <1>2 DEF MigrateInv

(* The rest of migrate, its failures, and the end of a process.              *)
LEMMA InvRest ==
  ASSUME MigrateInv,
         CopyFails \/ RenameFails \/ SyncDir \/ Reopen \/ ReopenError \/ Crash \/ Open
  PROVE  MigrateInv'
<1>1. UNCHANGED <<rows, path, synced, acked, stray, misread, done>>
  BY DEF CopyFails, RenameFails, SyncDir, Reopen, ReopenError, Crash, Open
<1>2. /\ pc' \in {"ready", "reopen", "down"}
      /\ durPath' \in {durPath, path}
      /\ pid' \in Pids /\ tmp' \subseteq Pids /\ handle' \in Inodes
  BY DEF CopyFails, RenameFails, SyncDir, Reopen, ReopenError, Crash, Open, MigrateInv, TypeOK
<1>3. TypeOK'
  BY <1>1, <1>2 DEF MigrateInv, TypeOK
<1>4. PathInv'
  BY DEF CopyFails, RenameFails, SyncDir, Reopen, ReopenError, Crash, Open, MigrateInv, PathInv,
     TypeOK, Inodes
<1>5. CopiedSoFar' /\ CopyIsExact' /\ NewHolds'
  BY <1>1, <1>2 DEF MigrateInv, CopiedSoFar, CopyIsExact, NewHolds
<1>6. OldHolds'
  <2>1. durPath' = "old" => durPath = "old"
    BY <1>2 DEF MigrateInv, PathInv
  <2> QED  BY <1>1, <2>1 DEF MigrateInv, OldHolds
<1> QED  BY <1>3, <1>4, <1>5, <1>6 DEF MigrateInv

(* What a power cut takes from the copy was not yet relied on.               *)
LEMMA InvPowerCut ==
  ASSUME MigrateInv, PowerCut
  PROVE  MigrateInv'
<1>1. /\ pc' = "down" /\ path' = durPath
      /\ UNCHANGED <<durPath, synced, tmp, pid, handle, done, acked, stray, misread>>
  BY DEF PowerCut
<1>2. PICK lost \in IF synced THEN {{}} ELSE SUBSET Rows :
        rows' = [rows EXCEPT !["new"] = [r \in Rows |->
                  IF r \in lost /\ @[r] # Unwritten THEN Blank ELSE @[r]]]
  BY DEF PowerCut
<1>3. /\ rows' \in [Inodes -> Contents]
      /\ rows'["old"] = rows["old"]
      /\ synced => \A r \in Rows : rows'["new"][r] = rows["new"][r]
  BY <1>2 DEF MigrateInv, TypeOK, Inodes, Contents
<1>4. TypeOK'
  BY <1>1, <1>3 DEF MigrateInv, TypeOK
<1>5. PathInv' /\ CopiedSoFar' /\ CopyIsExact' /\ OldHolds'
  BY <1>1, <1>3 DEF MigrateInv, TypeOK, PathInv, CopiedSoFar, CopyIsExact, OldHolds, Inodes
<1>6. NewHolds'
  BY <1>1, <1>3 DEF MigrateInv, TypeOK, PathInv, NewHolds, Inodes
<1> QED  BY <1>4, <1>5, <1>6 DEF MigrateInv

(* Every step keeps the invariant.                                           *)
THEOREM MigrateInvariant == Spec => []MigrateInv
<1>1. MigrateInv /\ [Next]_vars => MigrateInv'
  <2> SUFFICES ASSUME MigrateInv, [Next]_vars
               PROVE  MigrateInv'
    OBVIOUS
  <2>1. CASE UNCHANGED vars
    BY <2>1 DEF vars, MigrateInv, TypeOK, PathInv, CopiedSoFar, CopyIsExact, OldHolds, NewHolds
  <2>2. ASSUME NEW v \in Values, AppendRow(v) \/ AppendPastHole(v)
        PROVE  MigrateInv'
    BY <2>2, InvAppend
  <2> QED  BY <2>1, <2>2, InvBegin, InvCopy, InvSyncCopy, InvRename, InvRest, InvPowerCut DEF Next
<1> QED  BY InvInit, <1>1, PTL DEF Spec

(* Type correctness.                                                         *)
THEOREM MigrateTypes == Spec => []TypeOK
<1>1. MigrateInv => TypeOK
  BY DEF MigrateInv
<1> QED  BY <1>1, MigrateInvariant, PTL

(* Whatever fails, dies or loses power during a migration, a row whose       *)
(* append returned Ok is at its index in the file the vault's name leads to, *)
(* but for appends to an unlinked file and rows that could not be read.      *)
THEOREM AckedRowsStayReachable == Spec => []AckedReachable
<1>1. MigrateInv => AckedReachable
  BY InvImpliesReachable
<1> QED  BY <1>1, MigrateInvariant, PTL

(* The file about to be renamed over the vault is an exact copy of it, holes *)
(* included, but for rows that could not be read.                            *)
THEOREM RenamedCopyIsExact == Spec => []CopyIsExact
<1>1. MigrateInv => CopyIsExact
  BY DEF MigrateInv
<1> QED  BY <1>1, MigrateInvariant, PTL
=============================================================================
