---------------------------- MODULE VaultMigrate ----------------------------
(***************************************************************************)
(* fixed_data_vault::migrate (rust/src/store/fixedDataStorage.rs): the     *)
(* rows are copied into a temporary file in the new layout, which is then  *)
(* synced and renamed over the vault; the handle is reopened.  One writer  *)
(* process at a time runs it, with exclusive access to its handle (&mut    *)
(* self), and appends before and after.  Any step may fail, be killed or   *)
(* lose power.                                                             *)
(*                                                                         *)
(* An inode is "old" (old layout) or "new" (the migrated file).  A row's   *)
(* contents are the values of the old layout's fields, which the new       *)
(* layout keeps; a hole, a corrupt row and an all-absent row are Blank.    *)
(* Appends are synced before they return (each_write), and every sync is   *)
(* taken to reach the medium, as in Vault with FullSync.                   *)
(***************************************************************************)
EXTENDS Integers

CONSTANTS
  Values,      \* contents of an appended row
  Blank,       \* a hole, or a row with every field absent
  Unwritten,   \* beyond the end of the file
  MaxRow,      \* bound: rows in a file
  Pids         \* process ids, which the system uses again

Rows   == 0..(MaxRow - 1)
Inodes == {"old", "new"}
Contents == [Rows -> Values \cup {Blank, Unwritten}]

ASSUME VaultMigrateAssumption ==
  /\ Blank # Unwritten
  /\ {Blank, Unwritten} \cap Values = {}
  /\ MaxRow \in Nat
  /\ Pids # {}

VARIABLES
  rows,      \* inode -> row -> its contents
  path,      \* the inode the vault's name refers to
  durPath,   \* the same, as a power cut would leave it
  synced,    \* is everything in the new inode durable?
  tmp,       \* processes (their pids) whose temporary name exists
  pid,       \* the current process
  handle,    \* the inode the open handle refers to
  pc,        \* "down", "ready" or the stage of migrate
  done,      \* rows copied so far
  acked,     \* history: row -> contents whose append last returned Ok
  stray,     \* history: the rows of acked that went to an unlinked file
  misread    \* history: the rows the last migration could not read

vars == <<rows, path, durPath, synced, tmp, pid, handle, pc, done, acked, stray, misread>>

\* row_count(): the file's length in rows.
RowCount(f) ==
  IF \A r \in Rows : rows[f][r] = Unwritten THEN 0
  ELSE 1 + CHOOSE r \in Rows :
             rows[f][r] # Unwritten /\ \A q \in Rows : q > r => rows[f][q] = Unwritten

NoFile == [r \in Rows |-> Unwritten]

Init ==
  /\ rows = [f \in Inodes |-> NoFile]
  /\ path = "old"
  /\ durPath = "old"
  /\ synced = FALSE
  /\ tmp = {}
  /\ pid \in Pids
  /\ handle = "old"
  /\ pc = "ready"
  /\ done = 0
  /\ acked = [r \in Rows |-> Unwritten]
  /\ stray = {}
  /\ misread = {}

\* Row r of the handle's file is written and synced; syncing a file also makes
\* its present name durable, as a journalling file system does.
AppendAt(r, v, before) ==
  /\ r < MaxRow
  /\ rows' = [rows EXCEPT ![handle] = [before EXCEPT ![r] = v]]
  /\ acked' = [acked EXCEPT ![r] = v]
  /\ stray' = IF handle = path THEN stray \ {r} ELSE stray \cup {r}
  /\ durPath' = IF handle = path THEN path ELSE durPath

(* append, in the layout and at the row count the handle knows. *)
AppendRow(v) ==
  /\ pc = "ready"
  /\ AppendAt(RowCount(handle), v, rows[handle])
  /\ UNCHANGED <<path, synced, tmp, pid, handle, pc, done, misread>>

(* append after one that reserved a row and failed before writing it: the    *)
(* file keeps a zero-filled gap.                                             *)
AppendPastHole(v) ==
  /\ pc = "ready"
  /\ LET n == RowCount(handle) IN
       /\ n < MaxRow - 1
       /\ AppendAt(n + 1, v, [rows[handle] EXCEPT ![n] = Blank])
  /\ UNCHANGED <<path, synced, tmp, pid, handle, pc, done, misread>>

(* migrate: the checks pass, the layouts differ, and the temporary file,     *)
(* named after the pid, is made with create_new.  (A file is migrated once:  *)
(* bound.)                                                                   *)
Begin ==
  /\ pc = "ready"
  /\ path = "old"
  /\ pid \notin tmp
  /\ tmp' = tmp \cup {pid}
  /\ rows' = [rows EXCEPT !["new"] = NoFile]
  /\ synced' = FALSE
  /\ pc' = "copy"
  /\ done' = 0
  /\ misread' = {}
  /\ UNCHANGED <<path, durPath, pid, handle, acked, stray>>

(* create_new finds a leftover of that name: migrate returns the error - and *)
(* removes the file, as after any error of write_migrated.                   *)
BeginOnLeftover ==
  /\ pc = "ready"
  /\ path = "old"
  /\ pid \in tmp
  /\ tmp' = tmp \ {pid}
  /\ UNCHANGED <<rows, path, durPath, synced, pid, handle, pc, done, acked, stray, misread>>

\* Faulty variant: the row cursor is advanced twice.
CopySkipping ==
  /\ pc = "copy"
  /\ done < RowCount("old")
  /\ rows' = [rows EXCEPT !["new"][done] = rows["old"][done]]
  /\ done' = done + 2
  /\ UNCHANGED <<path, durPath, synced, tmp, pid, handle, pc, acked, stray, misread>>

\* Faulty variant: holes are left out, and later rows move up.
CopyCompacting ==
  /\ pc = "copy"
  /\ done < RowCount("old")
  /\ rows' = IF rows["old"][done] = Blank THEN rows
             ELSE [rows EXCEPT !["new"][RowCount("new")] = rows["old"][done]]
  /\ done' = done + 1
  /\ UNCHANGED <<path, durPath, synced, tmp, pid, handle, pc, acked, stray, misread>>

(* write_migrated: the next row; a hole or a corrupt row becomes an          *)
(* all-absent row.                                                           *)
Copy ==
  /\ pc = "copy"
  /\ done < RowCount("old")
  /\ rows' = [rows EXCEPT !["new"][done] = rows["old"][done]]
  /\ done' = done + 1
  /\ UNCHANGED <<path, durPath, synced, tmp, pid, handle, pc, acked, stray, misread>>

(* read_row(..).unwrap_or(None): so does a row whose read fails.             *)
CopyUnread ==
  /\ pc = "copy"
  /\ done < RowCount("old")
  /\ rows' = [rows EXCEPT !["new"][done] = Blank]
  /\ done' = done + 1
  /\ misread' = misread \cup {done}
  /\ UNCHANGED <<path, durPath, synced, tmp, pid, handle, pc, acked, stray>>

\* Faulty variant: the copy is not synced before the rename.
SyncCopySkipped ==
  /\ pc = "copy"
  /\ done = RowCount("old")
  /\ pc' = "rename"
  /\ UNCHANGED <<rows, path, durPath, synced, tmp, pid, handle, done, acked, stray, misread>>

(* write_migrated: out.sync_all(). *)
SyncCopy ==
  /\ pc = "copy"
  /\ done = RowCount("old")
  /\ synced' = TRUE
  /\ pc' = "rename"
  /\ UNCHANGED <<rows, path, durPath, tmp, pid, handle, done, acked, stray, misread>>

(* Any error before the rename: the temporary file is removed. *)
CopyFails ==
  /\ pc = "copy"
  /\ tmp' = tmp \ {pid}
  /\ pc' = "ready"
  /\ UNCHANGED <<rows, path, durPath, synced, pid, handle, done, acked, stray, misread>>

(* fs::rename: the name refers to the new inode, durably or not yet. *)
Rename ==
  /\ pc = "rename"
  /\ path' = "new"
  /\ tmp' = tmp \ {pid}
  /\ durPath' \in {durPath, "new"}
  /\ pc' = "syncdir"
  /\ UNCHANGED <<rows, synced, pid, handle, done, acked, stray, misread>>

(* fs::rename fails: the error is returned, the temporary file stays. *)
RenameFails ==
  /\ pc = "rename"
  /\ pc' = "ready"
  /\ UNCHANGED <<rows, path, durPath, synced, tmp, pid, handle, done, acked, stray, misread>>

(* The directory is synced, best effort. *)
SyncDir ==
  /\ pc = "syncdir"
  /\ durPath' \in {durPath, path}
  /\ pc' = "reopen"
  /\ UNCHANGED <<rows, path, synced, tmp, pid, handle, done, acked, stray, misread>>

(* The handle is replaced by one on the renamed file, with its layout, its   *)
(* row count and a rebuilt index.                                            *)
Reopen ==
  /\ pc = "reopen"
  /\ handle' = path
  /\ pc' = "ready"
  /\ UNCHANGED <<rows, path, durPath, synced, tmp, pid, done, acked, stray, misread>>

(* open_vault_file(..)? returns early: handle and layout are still the old.  *)
ReopenError ==
  /\ pc = "reopen"
  /\ pc' = "ready"
  /\ UNCHANGED <<rows, path, durPath, synced, tmp, pid, handle, done, acked, stray, misread>>

(* The process dies, or ends. *)
Crash ==
  /\ pc # "down"
  /\ pc' = "down"
  /\ UNCHANGED <<rows, path, durPath, synced, tmp, pid, handle, done, acked, stray, misread>>

(* Power is lost: an unsynced rename and unsynced copied rows may be lost.   *)
PowerCut ==
  /\ pc # "down"
  /\ pc' = "down"
  /\ path' = durPath
  /\ \E lost \in IF synced THEN {{}} ELSE SUBSET Rows :
       rows' = [rows EXCEPT !["new"] = [r \in Rows |->
                 IF r \in lost /\ @[r] # Unwritten THEN Blank ELSE @[r]]]
  /\ UNCHANGED <<durPath, synced, tmp, pid, handle, done, acked, stray, misread>>

(* A new process opens the vault by its name: the header decides the layout. *)
Open ==
  /\ pc = "down"
  /\ pid' \in Pids
  /\ handle' = path
  /\ pc' = "ready"
  /\ UNCHANGED <<rows, path, durPath, synced, tmp, done, acked, stray, misread>>

Next ==
  \/ \E v \in Values : AppendRow(v) \/ AppendPastHole(v)
  \/ Begin
  \/ BeginOnLeftover
  \/ Copy
  \/ CopyUnread
  \/ SyncCopy
  \/ CopyFails
  \/ Rename
  \/ RenameFails
  \/ SyncDir
  \/ Reopen
  \/ ReopenError
  \/ Crash
  \/ PowerCut
  \/ Open

Spec == Init /\ [][Next]_vars
-----------------------------------------------------------------------------
(* Properties *)

(* Every variable holds a value of its type. *)
TypeOK ==
  /\ rows \in [Inodes -> Contents]
  /\ path \in Inodes
  /\ durPath \in Inodes
  /\ synced \in BOOLEAN
  /\ tmp \subseteq Pids
  /\ pid \in Pids
  /\ handle \in Inodes
  /\ pc \in {"down", "ready", "copy", "rename", "syncdir", "reopen"}
  /\ done \in 0..MaxRow
  /\ acked \in [Rows -> Values \cup {Unwritten}]
  /\ stray \subseteq Rows
  /\ misread \subseteq Rows

\* The rows the vault's name cannot be expected to lead to.
Lost == stray \cup IF path = "new" THEN misread ELSE {}

(* Whatever fails, dies or loses power during a migration, the vault's name  *)
(* leads to a file in which every row whose append returned Ok is at its     *)
(* index with its values - unless the append went to an unlinked file, or    *)
(* the migration could not read the row.                                     *)
AckedReachable ==
  \A r \in Rows \ Lost : acked[r] # Unwritten => rows[path][r] = acked[r]

(* The file about to be renamed over the vault holds the same rows at the    *)
(* same indices: no row gained or lost, holes included, but for rows that    *)
(* could not be read.                                                        *)
CopyIsExact ==
  pc = "rename" =>
    rows["new"] = [r \in Rows |-> IF r \in misread THEN Blank ELSE rows["old"][r]]

(* No append goes to a file that is no longer the one under the vault's name. *)
NoStrayAppend == stray = {}
=============================================================================
