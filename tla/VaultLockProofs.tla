-------------------------- MODULE VaultLockProofs --------------------------
(***************************************************************************)
(* Proofs about VaultLock: with the sidecar on, for any number of          *)
(* processes and rows, there is one writer at a time, and an acknowledged  *)
(* row stays unless create() empties the file of an open writer.           *)
(***************************************************************************)
EXTENDS VaultLock, TLAPS

\* A process in the middle of an append has counted its row.
Counted == \A p \in Procs : pc[p] = "writing" => next[p] > 0

(* The invariant holds of a path nobody has opened.                          *)
LEMMA InitInv == Init => IInv
<1> SUFFICES ASSUME Init PROVE IInv
  OBVIOUS
<1>1. TypeOK
  <2>1. len \in 0..MaxRow /\ next \in [Procs -> 0..MaxRow]
    BY VaultLockAssumption DEF Init
  <2>2. acked \subseteq Procs \X Rows
    BY DEF Init
  <2>3. rows \in [Rows -> Procs \cup {NoOne}] /\ lock \in Procs \cup {NoOne}
    BY DEF Init
  <2>4. header \in {"none", "bad", "good"} /\ blanked \in BOOLEAN
    BY DEF Init
  <2>5. pc \in [Procs -> {"idle", "opening", "reader", "dead"} \cup Opening \cup Handles]
    BY DEF Init
  <2> QED
    BY <2>1, <2>2, <2>3, <2>4, <2>5 DEF TypeOK
<1>2. Writers = {} /\ lock = NoOne
  BY DEF Init, Writers, Opening, Handles
<1>3. WriterInv /\ Counted
  BY DEF Init, WriterInv, Handles, Counted
<1> QED
  BY <1>1, <1>2, <1>3 DEF IInv, OneWriter, Counted

(* A step of a process, or of the operator, keeps every variable typed.      *)
LEMMA TypeStep == TypeOK /\ Counted /\ [Next]_vars => TypeOK' /\ Counted'
<1> SUFFICES ASSUME TypeOK, Counted, [Next]_vars PROVE TypeOK' /\ Counted'
  OBVIOUS
<1> USE VaultLockAssumption DEF TypeOK, Counted, Goto, Opening, Handles, file
<1>1. CASE UNCHANGED vars
  BY <1>1 DEF vars
<1>2. ASSUME NEW p \in Procs, BeginOpen(p) PROVE TypeOK' /\ Counted'
  BY <1>2 DEF BeginOpen
<1>3. ASSUME NEW p \in Procs, BeginCreate(p) PROVE TypeOK' /\ Counted'
  BY <1>3 DEF BeginCreate
<1>4. ASSUME NEW p \in Procs, Acquire(p) PROVE TypeOK' /\ Counted'
  BY <1>4 DEF Acquire
<1>5. ASSUME NEW p \in Procs, OpenFile(p) PROVE TypeOK' /\ Counted'
  BY <1>5 DEF OpenFile
<1>6. ASSUME NEW p \in Procs, OpenFails(p) PROVE TypeOK' /\ Counted'
  BY <1>6 DEF OpenFails, Release
<1>7. ASSUME NEW p \in Procs, BeginStamp(p) \/ Stamp(p) PROVE TypeOK' /\ Counted'
  BY <1>7 DEF BeginStamp, Stamp
<1>8. ASSUME NEW p \in Procs, Size(p) PROVE TypeOK' /\ Counted'
  BY <1>8 DEF Size
<1>9. ASSUME NEW p \in Procs, Reserve(p) PROVE TypeOK' /\ Counted'
  BY <1>9 DEF Reserve
<1>10. ASSUME NEW p \in Procs, WriteRow(p) PROVE TypeOK' /\ Counted'
  BY <1>10 DEF WriteRow, Rows
<1>11. ASSUME NEW p \in Procs, WriteFails(p) \/ Crash(p) PROVE TypeOK' /\ Counted'
  BY <1>11 DEF WriteFails, Crash
<1>12. ASSUME NEW p \in Procs, Close(p) PROVE TypeOK' /\ Counted'
  BY <1>12 DEF Close, Release
<1>13. ASSUME NEW p \in Procs, OpenReadOnly(p) PROVE TypeOK' /\ Counted'
  BY <1>13 DEF OpenReadOnly
<1>14. ASSUME NEW p \in Procs, CloseReader(p) PROVE TypeOK' /\ Counted'
  BY <1>14 DEF CloseReader
<1>15. CASE DeleteStaleLock
  BY <1>15 DEF DeleteStaleLock
<1> QED
  BY <1>1, <1>2, <1>3, <1>4, <1>5, <1>6, <1>7, <1>8, <1>9, <1>10, <1>11, <1>12, <1>13,
     <1>14, <1>15 DEF Next

(* The sidecar names the one process past the lock, or a dead one.           *)
LEMMA LockStep == TypeOK /\ OneWriter /\ [Next]_vars => OneWriter'
<1> SUFFICES ASSUME TypeOK, OneWriter, [Next]_vars, FileLock
             PROVE  OneWriter'
  BY DEF OneWriter
<1> USE VaultLockAssumption DEF TypeOK, OneWriter, Writers, Goto, Opening, Handles, file
<1>1. CASE UNCHANGED vars
  BY <1>1 DEF vars
<1>2. ASSUME NEW p \in Procs, BeginOpen(p) \/ BeginCreate(p) PROVE OneWriter'
  BY <1>2 DEF BeginOpen, BeginCreate
<1>3. ASSUME NEW p \in Procs, Acquire(p) PROVE OneWriter'
  BY <1>3 DEF Acquire
<1>4. ASSUME NEW p \in Procs, OpenFile(p) \/ BeginStamp(p) \/ Stamp(p) \/ Size(p)
      PROVE  OneWriter'
  BY <1>4 DEF OpenFile, BeginStamp, Stamp, Size
<1>5. ASSUME NEW p \in Procs, OpenFails(p) \/ Close(p) PROVE OneWriter'
  BY <1>5 DEF OpenFails, Close, Release
<1>6. ASSUME NEW p \in Procs, Reserve(p) \/ WriteRow(p) \/ WriteFails(p) PROVE OneWriter'
  BY <1>6 DEF Reserve, WriteRow, WriteFails
<1>7. ASSUME NEW p \in Procs, Crash(p) PROVE OneWriter'
  BY <1>7 DEF Crash
<1>8. ASSUME NEW p \in Procs, OpenReadOnly(p) \/ CloseReader(p) PROVE OneWriter'
  BY <1>8 DEF OpenReadOnly, CloseReader
<1>9. CASE DeleteStaleLock
  BY <1>9 DEF DeleteStaleLock
<1> QED
  BY <1>1, <1>2, <1>3, <1>4, <1>5, <1>6, <1>7, <1>8, <1>9 DEF Next

(* What the one writer knows of the file stays true: nobody else writes, and *)
(* its own rows lie at or above the file's length.                           *)
LEMMA FileStep ==
  IInv /\ [Next]_vars /\ FileLock /\ ~blanked' => WriterInv'
<1> SUFFICES ASSUME IInv, [Next]_vars, FileLock, ~blanked'
             PROVE  WriterInv'
  OBVIOUS
<1>1. TypeOK /\ OneWriter /\ Counted
  BY DEF IInv, Counted
<1>2. \A p, q \in Procs : p \in Writers /\ q \in Writers => p = q
  BY <1>1 DEF OneWriter
<1>3. ~blanked /\ WriterInv
  <2>1. ~blanked
    BY DEF Next, vars, BeginOpen, BeginCreate, Acquire, OpenFile, OpenFails, BeginStamp,
       Stamp, Size, Reserve, WriteRow, WriteFails, Close, Crash, OpenReadOnly,
       CloseReader, DeleteStaleLock
  <2> QED
    BY <2>1 DEF IInv
<1> USE <1>1, <1>2, <1>3, VaultLockAssumption
    DEF WriterInv, Writers, Goto, Opening, Handles, file, TypeOK
<1>4. CASE UNCHANGED vars
  BY <1>4 DEF vars
<1>5. ASSUME NEW p \in Procs, BeginOpen(p) PROVE WriterInv'
  BY <1>5 DEF BeginOpen
<1>6. ASSUME NEW p \in Procs, BeginCreate(p) PROVE WriterInv'
  BY <1>6 DEF BeginCreate
<1>7. ASSUME NEW p \in Procs, Acquire(p) PROVE WriterInv'
  BY <1>7 DEF Acquire
<1>8. ASSUME NEW p \in Procs, OpenFile(p) PROVE WriterInv'
  BY <1>8 DEF OpenFile
<1>9. ASSUME NEW p \in Procs, OpenFails(p) PROVE WriterInv'
  BY <1>9 DEF OpenFails, Release
<1>10. ASSUME NEW p \in Procs, BeginStamp(p) PROVE WriterInv'
  BY <1>10 DEF BeginStamp
<1>11. ASSUME NEW p \in Procs, Stamp(p) PROVE WriterInv'
  BY <1>11 DEF Stamp
<1>12. ASSUME NEW p \in Procs, Size(p) PROVE WriterInv'
  BY <1>12 DEF Size
<1>13. ASSUME NEW p \in Procs, Reserve(p) PROVE WriterInv'
  BY <1>13 DEF Reserve
<1>14. ASSUME NEW p \in Procs, WriteRow(p) PROVE WriterInv'
  BY <1>14 DEF WriteRow, Rows, Counted
<1>15. ASSUME NEW p \in Procs, WriteFails(p) PROVE WriterInv'
  BY <1>15 DEF WriteFails
<1>16. ASSUME NEW p \in Procs, Close(p) \/ Crash(p) PROVE WriterInv'
  BY <1>16 DEF Close, Crash, Release
<1>17. ASSUME NEW p \in Procs, OpenReadOnly(p) \/ CloseReader(p) PROVE WriterInv'
  BY <1>17 DEF OpenReadOnly, CloseReader
<1>18. CASE DeleteStaleLock
  BY <1>18 DEF DeleteStaleLock
<1> QED
  BY <1>4, <1>5, <1>6, <1>7, <1>8, <1>9, <1>10, <1>11, <1>12, <1>13, <1>14, <1>15, <1>16,
     <1>17, <1>18 DEF Next

-----------------------------------------------------------------------------
(* The theorems *)

(* The invariant holds in every reachable state, for any number of processes. *)
THEOREM LockInvariant == Spec => []IInv
<1>1. IInv /\ [Next]_vars => IInv'
  BY TypeStep, LockStep, FileStep DEF IInv, Counted
<1> QED
  BY <1>1, InitInv, PTL DEF Spec

(* Every variable always holds a value of its type.                          *)
THEOREM LockTypes == Spec => []TypeOK
<1>1. IInv => TypeOK
  BY DEF IInv
<1> QED
  BY <1>1, LockInvariant, PTL

(* There is one writer at a time, the one the sidecar names.                 *)
THEOREM OneWriterAtATime == Spec => []OneWriter
<1>1. IInv => OneWriter
  BY DEF IInv
<1> QED
  BY <1>1, LockInvariant, PTL

(* An acknowledged row stays, unless create() empties an open writer's file. *)
THEOREM AckedRowsStay == Spec => []AckedIntact
<1>1. IInv => AckedIntact
  BY DEF IInv, AckedIntact, WriterInv
<1> QED
  BY <1>1, LockInvariant, PTL
=============================================================================
