----------------------------- MODULE VaultLock -----------------------------
(***************************************************************************)
(* Processes that open the same vault path                                 *)
(* (rust/src/store/fixedDataStorage.rs: open, create, vault_lock).  A      *)
(* writer takes the <vault>.lock sidecar before it opens the file and      *)
(* removes it when the handle is dropped; a process that dies leaves it,   *)
(* and an operator deletes the sidecar of a dead process.  create()        *)
(* truncates the file before it calls open().  A process is one pid: once  *)
(* dead it does not come back.                                             *)
(***************************************************************************)
EXTENDS Integers, FiniteSets

CONSTANTS
  Procs,
  NoOne,
  FileLock,   \* settings.file_lock
  MaxRow      \* bound: rows in the file

Rows == 0..(MaxRow - 1)

ASSUME VaultLockAssumption ==
  /\ NoOne \notin Procs
  /\ FileLock \in BOOLEAN
  /\ MaxRow \in Nat

VARIABLES
  header,   \* "none" (the file is empty), "bad" (not a header) or "good"
  rows,     \* row -> the process whose row it is, or NoOne
  len,      \* rows the file's length covers
  lock,     \* the process the sidecar belongs to, or NoOne
  pc,       \* process -> where it is in open(), or what handle it has
  next,     \* process -> its handle's next_row
  acked,    \* history: <<process, row>> of every append that returned Ok
  blanked   \* history: has create() emptied the file of an open writer?

file == <<header, rows, len>>
vars == <<file, lock, pc, next, acked, blanked>>

Opening == {"locked", "stamping", "sizing"}
Handles == {"ready", "writing"}
Writers == {p \in Procs : pc[p] \in Opening \cup Handles}

Goto(p, label) == pc' = [pc EXCEPT ![p] = label]

Init ==
  /\ header = "none"
  /\ rows = [r \in Rows |-> NoOne]
  /\ len = 0
  /\ lock = NoOne
  /\ pc = [p \in Procs |-> "idle"]
  /\ next = [p \in Procs |-> 0]
  /\ acked = {}
  /\ blanked = FALSE

-----------------------------------------------------------------------------
(* open(path): nothing is touched before the lock is taken. *)
BeginOpen(p) ==
  /\ pc[p] = "idle"
  /\ Goto(p, "opening")
  /\ UNCHANGED <<file, lock, next, acked, blanked>>

(* create(path): the file is truncated, which disowns every row, then open() *)
(* runs.                                                                     *)
BeginCreate(p) ==
  /\ pc[p] = "idle"
  /\ header' = "none"
  /\ rows' = [r \in Rows |-> NoOne]
  /\ len' = 0
  /\ acked' = {}
  /\ blanked' = (blanked \/ Writers # {})
  /\ Goto(p, "opening")
  /\ UNCHANGED <<lock, next>>

\* Faulty variant: the sidecar's existence is tested, and it is made, in two
\* steps; a second process may have passed the test as well.
AcquireUntested(p) ==
  /\ pc[p] = "opening"
  /\ Goto(p, "locked")
  /\ lock' = p
  /\ UNCHANGED <<file, next, acked, blanked>>

(* vault_lock::acquire: create_new makes the sidecar, or the open is refused. *)
Acquire(p) ==
  /\ pc[p] = "opening"
  /\ IF FileLock /\ lock # NoOne
     THEN Goto(p, "idle") /\ UNCHANGED lock
     ELSE Goto(p, "locked") /\ lock' = IF FileLock THEN p ELSE lock
  /\ UNCHANGED <<file, next, acked, blanked>>

\* The sidecar is removed, whoever made it.
Release == lock' = IF FileLock THEN NoOne ELSE lock

(* open: the file is opened (created) and its length read; an empty one is   *)
(* to be stamped, a header is decoded.                                       *)
OpenFile(p) ==
  /\ pc[p] = "locked"
  /\ \/ header = "none" /\ Goto(p, "stamping")
     \/ header = "good" /\ Goto(p, "sizing")
  /\ UNCHANGED <<file, lock, next, acked, blanked>>

\* Faulty variant: an error after the lock was taken leaves the sidecar.
OpenFailsLeaking(p) ==
  /\ pc[p] \in Opening
  /\ Goto(p, "idle")
  /\ UNCHANGED <<file, lock, next, acked, blanked>>

(* open returns an error: the header does not decode (the file is not empty  *)
(* and not a vault, or of another format), or an I/O call fails.  The local  *)
(* that holds the lock is dropped.                                           *)
OpenFails(p) ==
  /\ pc[p] \in Opening
  /\ Goto(p, "idle")
  /\ Release
  /\ UNCHANGED <<file, next, acked, blanked>>

(* open: the first bytes of the header reach the file... *)
BeginStamp(p) ==
  /\ pc[p] = "stamping"
  /\ header' = "bad"
  /\ UNCHANGED <<rows, len, lock, pc, next, acked, blanked>>

(* ...and the whole header is written and synced. *)
Stamp(p) ==
  /\ pc[p] = "stamping"
  /\ header' = "good"
  /\ Goto(p, "sizing")
  /\ UNCHANGED <<rows, len, lock, next, acked, blanked>>

\* Faulty variant: a torn tail row is counted as a row.
SizeRoundsUp(p) ==
  /\ pc[p] = "sizing"
  /\ next' = [next EXCEPT ![p] = len + 1]
  /\ Goto(p, "ready")
  /\ UNCHANGED <<file, lock, acked, blanked>>

(* reset_next_row, and the handle is returned. *)
Size(p) ==
  /\ pc[p] = "sizing"
  /\ next' = [next EXCEPT ![p] = len]
  /\ Goto(p, "ready")
  /\ UNCHANGED <<file, lock, acked, blanked>>

(* append: fetch_add on this process's own counter... *)
Reserve(p) ==
  /\ pc[p] = "ready"
  /\ next[p] < MaxRow
  /\ next' = [next EXCEPT ![p] = @ + 1]
  /\ Goto(p, "writing")
  /\ UNCHANGED <<file, lock, acked, blanked>>

(* ...then the row is written at its offset, header or no header. *)
WriteRow(p) ==
  /\ pc[p] = "writing"
  /\ LET r == next[p] - 1 IN
       /\ rows' = [rows EXCEPT ![r] = p]
       /\ len' = IF r + 1 > len THEN r + 1 ELSE len
       /\ acked' = acked \cup {<<p, r>>}
  /\ header' = IF header = "none" THEN "bad" ELSE header
  /\ Goto(p, "ready")
  /\ UNCHANGED <<lock, next, blanked>>

(* append returns an error; the row index is spent. *)
WriteFails(p) ==
  /\ pc[p] = "writing"
  /\ Goto(p, "ready")
  /\ UNCHANGED <<file, lock, next, acked, blanked>>

(* Drop: the file is closed, then the sidecar is removed. *)
Close(p) ==
  /\ pc[p] = "ready"
  /\ Goto(p, "idle")
  /\ Release
  /\ UNCHANGED <<file, next, acked, blanked>>

(* The process dies; a sidecar it holds stays. *)
Crash(p) ==
  /\ pc[p] \notin {"idle", "dead"}
  /\ Goto(p, "dead")
  /\ UNCHANGED <<file, lock, next, acked, blanked>>

(* The operator deletes the sidecar the error message named, having seen     *)
(* that its process is not running.                                          *)
DeleteStaleLock ==
  /\ lock # NoOne
  /\ pc[lock] = "dead"
  /\ lock' = NoOne
  /\ UNCHANGED <<file, pc, next, acked, blanked>>

(* open with read_only: no lock; an empty or headerless file is refused. *)
OpenReadOnly(p) ==
  /\ pc[p] = "idle"
  /\ header = "good"
  /\ next' = [next EXCEPT ![p] = len]
  /\ Goto(p, "reader")
  /\ UNCHANGED <<file, lock, acked, blanked>>

CloseReader(p) ==
  /\ pc[p] = "reader"
  /\ Goto(p, "idle")
  /\ UNCHANGED <<file, lock, next, acked, blanked>>

Next ==
  \/ \E p \in Procs :
       \/ BeginOpen(p)
       \/ BeginCreate(p)
       \/ Acquire(p)
       \/ OpenFile(p)
       \/ OpenFails(p)
       \/ BeginStamp(p)
       \/ Stamp(p)
       \/ Size(p)
       \/ Reserve(p)
       \/ WriteRow(p)
       \/ WriteFails(p)
       \/ Close(p)
       \/ Crash(p)
       \/ OpenReadOnly(p)
       \/ CloseReader(p)
  \/ DeleteStaleLock

Spec == Init /\ [][Next]_vars

-----------------------------------------------------------------------------
(* Properties *)

(* Every variable holds a value of its type. *)
TypeOK ==
  /\ header \in {"none", "bad", "good"}
  /\ rows \in [Rows -> Procs \cup {NoOne}]
  /\ len \in 0..MaxRow
  /\ lock \in Procs \cup {NoOne}
  /\ pc \in [Procs -> {"idle", "opening", "reader", "dead"} \cup Opening \cup Handles]
  /\ next \in [Procs -> 0..MaxRow]
  /\ acked \subseteq Procs \X Rows
  /\ blanked \in BOOLEAN

(* With the sidecar on, at most one process is past the lock: it is the one  *)
(* the sidecar names.  Failed opens, deaths and the operator's deletions     *)
(* included, no sidecar is left by a live process without a handle.          *)
OneWriter ==
  FileLock =>
    /\ \A p \in Writers : lock = p
    /\ lock # NoOne => lock \in Writers \/ pc[lock] = "dead"

(* Unless create() empties the file of an open writer, a row whose append    *)
(* returned Ok, in the file as it was last created, stays that process's     *)
(* row, in a file that can be opened: no second writer, reader, death or     *)
(* restart overwrites it.                                                    *)
AckedIntact ==
  FileLock /\ ~blanked =>
    \A a \in acked : header = "good" /\ a[2] < len /\ rows[a[2]] = a[1]

\* The only writer has the only valid header and a counter that no acknowledged
\* row lies above; nothing is acknowledged in a file without a header.
WriterInv ==
  /\ \A p \in Procs :
       /\ pc[p] = "stamping" => acked = {}
       /\ pc[p] \in Handles \cup {"sizing"} => header = "good"
       /\ pc[p] = "ready" => len <= next[p]
       /\ pc[p] = "writing" => len < next[p]
  /\ \A a \in acked : header = "good" /\ a[2] < len /\ rows[a[2]] = a[1]

(* The inductive invariant behind OneWriter and AckedIntact: besides the     *)
(* lock's, what the one writer knows of the file.                            *)
IInv ==
  /\ TypeOK
  /\ \A p \in Procs : pc[p] = "writing" => next[p] > 0
  /\ OneWriter
  /\ FileLock /\ ~blanked => WriterInv

(* Only the process that holds the lock changes the file under an open       *)
(* writer: its header stays and its rows are not taken away.                 *)
OpenFileNotBlanked ==
  [][\A p \in Procs :
       pc[p] \in Handles /\ pc'[p] \in Handles =>
         (header = "good" => header' = "good") /\ len' >= len]_vars
=============================================================================
