# A TLA+ development of bstd

bstd is a small "better standard library": header-only C++ (containers that
several threads may share, tree and serialization templates, logging, encoding,
encryption, a periodic background task), a Rust crate whose largest part is an
append-only record store (`fixed_data_vault`), and one C/assembly routine. This
directory holds TLA+ models of the parts where order, concurrency and failure
decide correctness, the TLC configurations that check them, and TLAPS proofs.

Paths below are relative to the repository; `V`, `Q` and `P` stand for

- `V` = `rust/src/store/fixedDataStorage.rs`
- `Q` = `C_Plus_Plus/data_structure/threadsafe/tsQueue.hpp`
- `P` = `C_Plus_Plus/system/periodic.hpp`

Run a configuration with `tlc -config MCVault_each.cfg MCVault.tla`, check
proofs with `tlapm VaultProofs.tla`.

## 1. Inventory

| component | state | operations | hard behaviour | what makes it correct |
|---|---|---|---|---|
| **fixed_data_vault** (`V`) | the file (header, equally wide rows), an atomic `next_row`, an `RwLock`ed index "latest value per field", settings | `append`, `flush`, `read_row`, `rebuild_index`, `open`, `drop` | appends of several threads write without a lock; readers race them; a kill leaves torn rows and holes; a power cut loses unsynced pages | a row is never handed out twice; `Ok` means on file, and durable when promised, on a machine whose syncs reach the medium; reads are whole; the index is neither wrong nor late |
| its **lock and creation** (`V`) | the `<vault>.lock` sidecar, the file's header, one `next_row` per process | `create`, `open`, read-only `open`, `drop`, deleting a stale sidecar | several processes, deaths while holding the lock, early error returns | one writer; no row of a live vault is overwritten |
| its **migration** (`V`) | old and new inode, temporary file, the handle | `migrate`, `write_migrated`, `append` around it | copy, fsync, rename, directory fsync, reopen: each can fail, be killed or lose power | the name always leads to every acknowledged row |
| vault header and layout codec | - (pure) | `build`, `encode_header`, `decode_header`, `check_prefix` | truncated or foreign headers | what is encoded decodes, anything else is refused |
| **ts::Queue** (`Q`) | circular buffer of optionals, `_front`, `_count`, `_closed`, a `shared_mutex`, a condition variable | `push` (one, many), `tryPush`, `pop`, `tryPop`, `waitPop`, `close`, `clear`, `reserve`, `resetCapacity`, comparisons | notifies after the unlock, spurious wakeups, throwing moves, wrap-around and growth | first in first out; no lost wakeup; `close` releases everybody |
| **PeriodicTask** (`P`) | `_stop`, `_changed`, `_interval`, a mutex, a condition variable, the thread, `_joinMtx` | `run` (the worker), `stop`, `setInterval` | several threads stop at once; a request between the predicate and the wait; `work` calls the object itself | no tick after `stop` returned; no request lost; one join |
| **ts::Hashmap, ts::Stack** | a map or vector behind one `shared_mutex` | insert/update/erase/extract, push/pop, `merge`, `swap`, snapshots, comparisons | two objects locked together in either order, the same object twice; work element by element under the lock | each call atomic, no circle of waits |
| **ts::Trie** | nodes with counts, two running counts | add, remove one or all, find, counts, words | removal prunes nodes other words run through | it holds its words as often as they were added, and no other node |
| ts::Vector | vector behind one `shared_mutex` | all of std::vector's | writers that take the shared lock; members that lock twice; `popBack` of an empty vector | - (the locking is broken, section 6) |
| ts::BinaryTree, binTree | unfinished | - | - | - |
| **avlTree** | nodes with parents and heights | insert, erase, clear, copy, iteration | rotations; an erase that moves the successor and rebalances from elsewhere | sorted, balanced, complete, links up and down agree |
| **BTree** | nodes of bounded degree | Insert, Contains, move | splits that cascade, repeated keys | sorted, bounded, complete, all leaves equally deep |
| **serialization, binFile** | an object; an object list and its file | the objects' own operations, readers and writers; load, push, replace, remove, save | damaged files; errors, kills and power cuts in a save | round trip; old or new contents, after a power cut those of some save, or a refusal |
| **Logger** | a text file, a line counter | write, clearLast, reindex, restart | messages with line breaks, deaths in an entry, writes that fail unnoticed | after such an entry the next start or clearLast makes the numbers those of the lines again |
| **BitBuffer, writeBin** | packed bits, a file | push, assign, encode, write, read | widths at a byte's end, the padding of the last byte | it reads as what was put in |
| variable-length integers, conversions | - | pack, unpack, convert | - | - |
| **Huffman encoding** | a tree, a code table | build, serialize, rebuild, decode | ties, one-character inputs | decodable, as short as possible |
| AES-256 CTR | key schedule, counter | encrypt, decrypt | - | - |
| **autoCorrect**, numFormat | a dictionary | add, fix; formatting | look-ahead at the ends, the window of lengths | the answer is in the dictionary and within the budget |
| BitString, parser, hash (Rust) | - | pure functions | index bounds | - |
| hardware, timeKeeper, errors, umbrella header, float sum | - | queries, texts, one loop | - | - |

Components in bold are modelled.

Most components do not call each other: a program composes them. The interactions
that matter are inside one component - threads sharing a vault, a queue, a map or
a task object; two maps or stacks locked by one call; processes sharing a vault's
path; the file system under a vault, a binFile or a log. The objects of
serialize.hpp are written to BitBuffers, of which `BinCodec` uses only that they
are sequences of bits, which is what `BitBuffer` shows of them.

The hazards, each at its line and with the properties that watch it, are in
`PROJECT.json`.

## 2. Modules

| module | models | extends / instantiates |
|---|---|---|
| `Vault` | one writable vault, its threads and the machine under it | instantiates `VaultLog` |
| `VaultLog` | abstract: an append-only log with durability | - |
| `VaultLock` | processes opening, creating and writing one path | - |
| `VaultMigrate` | a migration and the appends around it | - |
| `TsQueue` | ts::Queue, its buffer and its condition variable | instantiates `WorkQueue` |
| `WorkQueue` | abstract: a closable first-in-first-out queue | - |
| `PeriodicTask` | the worker and the callers of the task object | - |
| `TwoLocks` | the locks of calls that need one or two objects | - |
| `TsHashmap`, `TsStack` | the members of ts::Hashmap and ts::Stack, and the comparisons of ts::Queue | extend `TwoLocks` |
| `TsTrie` | ts::Trie | - |
| `AvlTree`, `BTree` | the two search trees | - |
| `BinCodec` | how objects become bits and back | extends `Binary` |
| `BinObject` | one object in memory under its own operations | extends `BinCodec` |
| `BinFile` | a binFile, its file and the machine under it | extends `BinCodec` |
| `Logger` | Logger and IndexedFileReader | - |
| `Binary` | shifts, masks and the bits of numbers | - |
| `BitBuffer` | BitBuffer and writeBin | extends `Binary` |
| `Huffman` | huffmanTree | - |
| `AutoCorrect` | autoCorrectFilter | - |
| `VaultProofs`, `VaultLockProofs`, `VaultMigrateProofs`, `TsQueueProofs` | theorems | extend their component |
| `ThreadsProofs` | theorems about PeriodicTask, the locks, ts::Hashmap, ts::Stack and ts::Trie | extends `PeriodicTask`, `TsHashmap`, `TsStack`, `TsTrie` |
| `LoopTheorems` | lemmas: loops by induction, shifts, masks and bits | extends `Binary` |
| `AlgorithmsProofs` | theorems about BitBuffer, writeBin and autoCorrectFilter | extends `BitBuffer`, `AutoCorrect`, `LoopTheorems` |
| `FilesProofs` | theorems about the object encoding, binFile and Logger | extends `BinFile`, `BinObject`, `Logger`, `LoopTheorems` |
| `MCVault`, `MCVaultLock`, `MCVaultMigrate`, `MCTsQueue`, `MCPeriodicTask` | TLC instances | extend their component |
| `MCFiles` | TLC instance of what lives in files: one run in which the component in `focus` is chosen in the initial state and runs alone | extends `VaultMigrate`, `BinFile`, `BinObject`, `Logger` |
| `MCContainers` | the same for what lives in memory | extends `TsHashmap`, `TsStack`, `TsTrie`, `BitBuffer`, `AutoCorrect`, instantiates the other three |

`Vault` and `VaultLock` split one source file by question: `Vault` has one
process, whose threads interleave inside `append`, `read_row` and
`rebuild_index`, on a file whose bytes can be half written and half durable.
`VaultLock` has many processes, each sequential, on a file whose rows carry only
their owner. `VaultMigrate` has one process after another and two inodes.

`MCFiles` and `MCContainers` hold several components that have nothing to do with
each other. `focus` says which one a behaviour is of; the others stay as they begin.
The modules with theorems are extended, so that a run checks the very property a
theorem states: their operators therefore have names that do not clash (`FileInit`,
`LogInit`, `TrieInit`, ...). The others are instances: their variables are `x1`,
`x2`, ..., `Off` while unused, and a property `focus = "avl" => ...` is that
component's.

Operators named as a *faulty variant* in a comment (`OpenAtZero`,
`NotifyAllWakesOne`, ...) are not part of the system: each is a definition as a
plausible mistake would have made it, and putting it in the place of the real
one makes TLC find a property violated. They show that the properties see that
mistake.

### Vault

| model | code |
|---|---|
| `bytes`, `fileRows` | the file as `pread` shows it; `fileRows` is `row_count()` (943-954), the length in whole rows |
| `durBytes`, `durRows` | what a power cut cannot take |
| `nextRow` | `next_row`, the atomic reservation counter |
| `index` | `RwLock<Vec<fixed_data_slot>>` |
| `th[t]` | where thread t is inside `append`, `read_row` or `rebuild_index`, and its locals |
| `acked`, `promised` | history: appends that returned `Ok`, rows said to be durable |

`Reserve`, `WriteColumn`*, `Sync`, `Merge` are `append` (992-1027); `AppendFails`
is its `?` at the write or the sync. `Flush` is `flush`, `StartRead`, `FetchRead`*,
`FinishRead` are `read_row` (1084-1111), `StartRebuild`, `FetchScan`*, `Install`
are `rebuild_index` (1194-1258), which `Open` also runs before it hands out the
handle - unless the opener turned `rebuild_index_on_open` off (884, its setter 191-196):
`OpenUnindexed` leaves the index empty, as the test at 2449-2468 asserts. `indexFrom` is
then the first row the index is to know of, until a `rebuild_index` replays the whole
file; `IndexCurrent` speaks of those rows. `SkipRebuild` says whether such openers are in
the model. `Close` is `Drop`; `Crash` and `PowerCut` are the system's.

A row image is a sequence of columns - presence bitmap, one per field, checksum -
and a write or a read moves one column at a time, so every half-written row a
reader could meet exists. An append that never writes leaves a hole: zeros. The
one-byte checksum is a perfect one, the payload it was computed from; that a real
one lets one torn row in 255 through is arithmetic, not behaviour.

A `PowerCut` keeps any set of unsynced columns and any length between the
durable and the present one, and drops every in-memory state. A synced row is
kept. The history forgets acknowledged rows nobody called durable.

What "synced" means is the machine's affair, and a constant. With `FullSync`,
`sync_data` leaves the file on the medium. Without it a sync gets no further than the
drive's cache, and a power cut may take any part of what was synced: append's doc
(992-996) says that this is so on macOS, the target named at 1386 ("it survives a
process crash, not a power cut"). Then no row is promised to survive a power cut
(`Promise`), and `PromisedDurable` is about no row: it is a statement about machines
whose syncs reach the medium, and the runs that check it have `FullSync` TRUE. What
holds on either machine is that an acknowledged row stays whole on file through errors
and kills (`AckedOnFile`), that no row is handed out twice, and that the file is a
`VaultLog`, of which a power cut may take what was not promised. The theorems are for
both values of the constant.

### VaultLock

`BeginOpen`/`Acquire`/`OpenFile`/`BeginStamp`/`Stamp`/`Size` are the steps of `open`
(788-888) around `vault_lock::acquire` (1541-1573); `OpenFails` is each early
return after the lock was taken, where the local holding the lock is dropped.
`BeginCreate` is the truncating open of `create` (891-911), *before* the lock.
`Reserve`, `WriteRow`, `WriteFails` are an append on this process's own counter.
`Close` is `Drop` for the vault and the lock. `DeleteStaleLock` is the operator
who follows the advice of the error text after the process died. A process that
dies does not come back: process ids are not reused in this module.

### VaultMigrate

`Begin` to `Reopen` are the steps of `migrate` (1265-1325) and `write_migrated`
(1327-1372) in their order; `BeginOnLeftover`, `CopyUnread`, `CopyFails`,
`RenameFails`, `ReopenError` their failures. Appends happen between migrations,
through the handle, `AppendPastHole` after a failed one. Process ids are reused.
A row is one value, a hole, or unwritten: the layout's fields are `Vault`'s matter.

Assumptions: a sync reaches the medium (`Vault`'s `FullSync`), so what follows about
power cuts is not claimed for macOS; and when `append` syncs a file, its present name becomes durable too
(the rename and the file's data share the journal). Without it a power cut may
undo the rename under an acknowledged append even if nothing else fails, for the
directory's fsync is best effort (1310-1317).

### TsQueue

A critical section is one step, a notify one of its own after the unlock (that is
where the code has it). `pc[t]` says whether t is idle, on the way to a notify,
blocked on the condition variable, or woken and about to take the lock again.
`PushThrows`, `PushManyThrows`, `TakeThrows` are the exits of a throwing move; for
them the elements are taken to be copyable, so that `move_if_noexcept` makes a
relocation that throws change nothing (with move-only elements that throw, the
standard gives no guarantee to keep).

### PeriodicTask

`worker` is the position in `run` (65-82), `place[c]` that of a caller. Time is
abstract: a wait may time out at any moment, and only `KeepsTicking` assumes that
it ever must. `TestThread` reads `_thread` without a lock (46): while another
caller's `join()` is writing it, either outcome is allowed. `work` may call
`stop()` and `setInterval()`; throwing is like returning (69-72).

The constructor is one step, so a `work` that calls `stop()` before the new
`std::thread` is assigned is not in the model.

### TwoLocks, TsHashmap, TsStack

A call is its name, its object, the other object (or the same again) and its
arguments. `Call` defers the locks, `LockFirst` and `TrySecond` take them as
`std::lock` does - block on one, try the other, back off and start with that one -
or one alone when both objects are the same (`readBoth`, `writeBoth` of
tsHashmap.hpp:55-76 and their twins in tsStack.hpp and tsQueue.hpp). That algorithm is
the common one of the standard libraries; the standard asks only that it does not
deadlock. Then the body works on one element at a time (`Visits`, `Steps`, `Effect`),
so another thread could come between two elements if the locks let it;
`Outcome`, recorded when the locks are held, is what the call would do as one
step, written without the loop. What a call has gathered so far (`got`) is a set: of
pairs for a map, whose members promise no order, and of at most one item or verdict for a stack.
`MapCallsAssumption` and `StackCallsAssumption` say which calls there are. Bucket
counts and capacities are not in the model.

### TsTrie, AvlTree, BTree

A member of ts::Trie holds the one mutex throughout, so it is one step. A node is
named by its path; the order of children does not matter to any member. `Erased` is
what the way back of `removeHelper_unlocked` (172-211) erases, said without its
recursion: a node goes if it and every node below it on the way to the word are
`Dead`, for a parent asks its child first. A dead node has lost its children, so
`countSubtree_unlocked` takes one from the count for each.

An avlTree node is named by its value and keeps left, right, parent and height, each
assigned where the code assigns it, so that a link left behind shows. `Rotate`
is both rotations by side; `rebalanceUp` climbs by the parents. The iterator
(`Successor`) climbs by them too, and `listAllDFS` is what it visits.

A BTree is a term: a node is its keys and its children. `Adopt` and `split` move
keys and children as tree arrays do in bTree.hpp:56-118; a node that owns the moved children twice,
or loses them, could not be written as a term and is not a question here.

### BinCodec, BinObject, BinFile

Readers and writers are operators over sequences of bits and a cursor, as in
serialize.hpp; `nullopt` is a reader's refusal. The widths of payloads,
characters and counts are constants, so that TLC can hand a reader every bit
sequence of a length: the code's control depends on which width is read where,
never on its number. A loop of reads is a function from the turn to what was read so
far (`ReadEach`), and a reader that such a loop calls a function of the cursor.
`IsObject` says which values the classes can hold, so that a run or a theorem starts
from those. `BinObject` builds objects by their operations and by readers
from arbitrary bits. The objects of a binFile are counted at their `Places` (line and
position), and `Sheets` are the lines a save accepts. `BinFile` keeps typed lines, and `save` is its steps:
temporary file, bytes, flush, rename, each of which may fail. Only some of a
partly written temporary file's lengths are in the model (nothing, the header,
all), since it is removed or truncated before it is used.

Nobody syncs the file before the rename, or the directory after it (1748-1761). `durable`
says whether the system has written the file's data back (`WriteBack`), and `old` keeps
the file that the directory on the medium still leads to as long as the rename has not
been (`WriteBackEntry`), in whatever order it does that; after several saves `old` is the
earliest of their files not yet replaced on the medium. A `FilePowerCut` therefore
brings back an earlier save's lines, or leaves any shorter beginning of whichever file it
finds, if its data was not written back. A rename that reaches the medium only after the
next one was made leads to the same as one that reached it before. A file with a hole
of zeros in its middle, which other file systems may leave, is not modelled - nothing in
the format would notice one in every case, as it has no checksum.

### Logger

A line of the file is the number its entry begins with, or `Foreign`: the rest of a
message with line breaks. A torn last line, from a death or a failed write in the middle
of an entry, runs on into the next entry, which is then no line of its own. `Written` is
an entry that got into the file whole, or only `InPart` (149-151 do not look at the
stream, so a full disk loses what it loses); `_logCount` goes up by one in either case.

So the counter and the lines drift apart, in either direction: a message with line breaks
adds more lines than one, a lost entry none, and an entry on a torn line none of its own.
`drift` says that this has happened to the Logger at hand. It ends with the Logger, whose
successor counts the file's lines (118-120) - and drifts at once if it begins on a torn
one - and with `clearLast`, which counts them too (168).
`NumbersAreLines` is an action property about every line that comes into the file while
there is no drift, so also about the lines after foreign ones. While there is drift, the
class comment's "stamped with its line index" (14) and the comment at 151 do not hold
(Observed divergences).

### BitBuffer, Huffman, AutoCorrect

BitBuffer's bytes are numbers and the operators do the code's shifts and masks as
arithmetic; the width of a byte is a constant. `given` is the history of the bits put
in. A loop is a function of the number of its turns (`PushBits`, `from`), without a
recursive operator, so that it can be reasoned about. Huffman's `Merge` takes any of the nodes that the priority queue could have on top.
AutoCorrect's grid is of lower-case letters, and `findLetterDistance` folds both its
letters first (`tolower`, any function on characters), so two spellings of a letter are
0 apart; the walk itself compares by that distance (98-99).
`Cost` is `fixHelper`'s walk by two cursors, turn by turn; `CanBecome`,
its reference, says whether edits at the same prices make one word of another within
a budget: it keeps everything any edits reach.

## 3. Runs

| run | configuration | shows |
|---|---|---|
| `vault_each` | `MCVault_each` | Two threads, two rows, two fields (one append leaves out a field), checksums, each_write, syncs that reach the medium (`FullSync`); errors, kills and power cuts everywhere, openers that rebuild the index and openers that do not (`SkipRebuild`). `RowsNeverShared`, `AckedOnFile`, `PromisedDurable`; the index is never behind an acknowledged row it was to know of (`IndexCurrent`) and never goes back (`IndexAdvances`); the whole refines the append-only log (`ImplementsLog`). |
| `vault_read` | `MCVault_read` | The same vault, one field, under on_flush, with readers and live rebuilds on both threads. No torn row is ever returned or indexed (`ReadsAreWhole`, `IndexSound`), and `flush` keeps its promise where a sync reaches the medium (`PromisedDurable`). |
| `vault_rebuild` | `MCVault_rebuild` | *Violation.* `rebuild_index` on a shared handle drops rows merged meanwhile; every opener rebuilds. |
| `lock_safe` | `MCVaultLock_safe` | Three processes, two rows. One writer, no leaked sidecar (`OneWriter`), acknowledged rows stay unless the next run's defect struck (`AckedIntact`). |
| `lock_blanked` | `MCVaultLock_blanked` | *Violation.* `create` empties a file another process is writing. |
| `files_kept` | `MCFiles_kept` | *Migration*: two values, three rows, two process ids. Every acknowledged row is reachable by the vault's name after any failure (`AckedReachable`); the copy renamed over it is exact (`CopyIsExact`). *Objects*: whatever was built, or read from any of the bit strings up to 11 bits (alone and behind the head of a map of two entries), reads back as itself from what it writes (`ReadsBack`). *binFile*: two lines, two objects (a number and a map); the name leads to the last lines whose save got as far as the rename, after a power cut to those of some save, and what a power cut shortened is refused (`SavedOrRefused`); an unchanged open file is the one on disk (`CleanMeansSaved`). *Logger*: four lines, one line break, files that were not numbered by their lines before; while nothing has made the counter drift, an entry's number is its line (`NumbersAreLines`). |
| `migrate_stray` | `MCVaultMigrate_stray` | *Violation.* After a failed reopen the handle appends to the unlinked file. |
| `queue_fifo` | `MCTsQueue_fifo` | Two threads, two items, at most four in the queue, capacities from 0, moves that throw. The ring is exact (`RingExact`) and refines the abstract queue (`ImplementsQueue`). |
| `queue_live` | `MCTsQueue_live` | Three threads, at most two items, no throws. `NoLostWakeup`, `NulloptOnlyWhenDrained`, and, under fairness, `CloseReleases` and `ConsumersProgress`. |
| `queue_throw` | `MCTsQueue_throw` | *Violation.* A throwing move loses a wakeup. |
| `periodic_live` | `MCPeriodicTask_live` | Three callers, two intervals, two changes of the interval. `NoTickAfterStop`, `JoinedOnce`, `IntervalNotLost`, `StopNotLost`; under fairness `StopEndsTask`, `StopReturns` and, with a clock, `KeepsTicking`. |
| `containers_hold` | `MCContainers_hold` | *Hashmap, Stack*: two threads, two objects, every member, the two-object ones over every pair: `CallsAreAtomic`, `WaitsEnd`. *avlTree*: any subset of twelve values by any inserts and erases: `SortedAndBalanced`. *BTree*: orders 3, 4, 5, nine keys of four values: `BalancedAndSorted`. *Trie*: six words that begin like each other, twice each: `HoldsItsWords`. *Huffman*: all frequencies 0-2 of four characters, 1-3 of three, one character, two sets of five: `DecodesBack`, `NoShorterCode`. *BitBuffer*: `BitsAreHeld`. *autoCorrect*: five words, nine strings, three sensitivities: `FixIsHonest`. |

A type invariant is checked with a component only where no deeper property holds
the types (`VaultMigrate`); elsewhere types are theorems (section 4).

### Bounds

- **Vault.** `MaxRow` = 2 bounds rows per history, not per run of the process: a
  restart that finds fewer rows starts again from there. Two rows and two threads
  are enough for every pair of appends (same row, neighbours, one finished and one
  in flight) and for a row before and after a restart; nothing in the code relates
  three rows. One field plus bitmap and checksum gives three columns, so a row can
  be torn in each place; the second field of `vault_each` is what partial entries
  need. Vaults without checksums, or whose syncs do not reach the medium, are in no run
  that passes: the theorems cover them. The theorems remove all these bounds.
- **VaultLock.** Three processes: a holder, one that is refused, and one that is
  dead or arrives later. Two rows: one acknowledged and one after it.
- **VaultMigrate.** Three rows allow a hole between two rows; one migration at a
  time and one successful migration (`path = "old"`); a second migration is the
  same code with other layouts. Two pids make a leftover of one's own and of
  another's.
- **TsQueue.** `MaxCount` bounds the items. Growth from an empty buffer, doubling,
  growth while wrapped and `reserve` all happen below four items; three threads
  give a pusher, a blocked consumer and one that overtakes.
- **PeriodicTask.** Three callers: one joins, one waits for `_joinMtx`, one reads
  `_thread`. `MaxChanges` bounds the calls of `setInterval`; `KeepsTicking`
  depends on the bound (a caller that changes the interval for ever, faster than
  it elapses, starves the task), the others do not.

- **TsHashmap, TsStack.** Two objects and two threads make every circle of two; the
  theorems say the same of any number. Maps of two keys and stacks of two items give
  bodies of two steps, between which the other thread could come.
- **AvlTree.** Twelve values: the smallest tree in which an erase rebalances at two
  heights has twelve nodes. A copy is made of trees up to five values (`MaxCopied`).
- **BTree.** Nine keys give three levels at order 3 and splits of inner nodes.
- **BinObject.** Eleven arbitrary bits are enough for a reader to accept two elements of a
  vec or one entry of a map, and to be refused at each later boundary.
- **BinFile.** A line emptied, a line deleted before another, a full file: two lines.
  Two saves in flight to the medium need no third file, as the directory on it leads to one.
- **Logger.** Four lines: one before the accident, the accident's, and an entry with a
  line break after the counter was set right.
- **BitBuffer.** Bytes of two bits; three bits cross a byte's end, as nine would.
- **AutoCorrect.** Four letters of the grid with their real distances, a capital and a digit;
  a word of the dictionary in two spellings.

`CHECK_DEADLOCK FALSE` stands where the system may stop for good: every process
dead (`VaultLock`), or the file full at its bound with nothing left to do
(`VaultMigrate`, alone and in `MCFiles`). `containers_hold` checks deadlock.

Symmetry is used over threads, processes and pids, in runs that check only safety;
the liveness runs have none.

### Fairness

- `TsQueue`: a thread that left its critical section reaches its notify, and a
  woken thread gets the lock back. The code holds the lock across no blocking
  call, so this asks only that threads are scheduled and that the shared_mutex is
  not withheld from one thread for ever. Nobody is forced to push, pop or close.
- `PeriodicTask`: the worker is scheduled and `work` returns; a call of `stop()` or
  `setInterval()` that began goes on. No fairness for the time-out: `StopEndsTask`
  and `StopReturns` hold even if a wait never times out. `KeepsTicking` has the
  clock as its premise (`ClockAdvances`): the deadline of a wait is fixed once and
  a spurious wakeup does not move it.

### Observed divergences

Shown by a run: the four violations above.

Seen while modelling, noted here only:

- `V:956-957` says `reserved_rows` is "Always `>=` row_count". A read-only handle's
  counter is set at open while `row_count` reads the length of a file another
  process extends. `ReservedCoverFile` states it for the writing handle, where it
  is a theorem.
- `V:1328-1329` says a leftover temporary file is "an error to look at, not
  something to silently clobber"; `create_new` does refuse it, and then the error
  path of `migrate` (1304) removes it (`BeginOnLeftover`).
- `V:1344-1345`: "A hole or a corrupt row" becomes an all-absent row, and so does,
  through `unwrap_or(None)`, a row whose read failed. `misread` records these rows
  and `AckedReachable` excepts them.
- `P:46` reads `_thread` outside `_joinMtx` while another caller's `join()` may be
  writing it: a data race, modelled as either outcome. Both outcomes are harmless
  (`JoinedOnce`, `NoTickAfterStop`).
- V:992-996, append's doc, says that under `each_write` a row "survives a process crash,
  not a power cut" on macOS, while the variant's name, flush's doc (1048-1050: "the only
  thing that makes writes durable") and the copy's `sync_all` in `migrate` (1370) are
  written as if a sync were durable. The model has both machines (`FullSync`); the
  promise to survive a power cut is claimed for one of them.
- serialize.hpp:1717-1719 says of `save` that "a crash mid-save leaves the old file
  intact instead of half of the new one". Of a crash of the program that is so. A power
  cut after a save that returned true may leave a part of the new file, which every later
  open refuses, or bring the lines of an earlier save back, as neither file nor directory is
  synced. `SavedOrRefused` says just this.
- log.hpp:14 says each entry is "stamped with its line index", and 151 counts
  `++_logCount; //physical line count`, but it does so once per message: a message with line
  breaks makes the numbers lag behind the lines, an entry on a torn line or one that a full
  disk lost (149-151 do not look at the stream) makes them run ahead, until the next
  start or `clearLast`. `NumbersAreLines` speaks of the entries outside that time.
- autoCorrect.hpp:98-99 compares letters "case-insensitive", so all spellings of a word are
  at cost 0 and the first in the dictionary wins (202-217): with "The" added before "the",
  `fix("the")` answers "The", though "the" is a word of the dictionary. `FixIsHonest` says
  that the answer is some spelling of it. Likewise a word with a digit need not be kept,
  as a digit is `kMaxDistance` from itself.
- encode.hpp:319 gives a single character a tree with one child, `serialize` sends it, and the other
  constructor refuses it as "Truncated tree bitstream". `DecodesBack` says so: only
  trees of one character are refused.
- A `BitBuffer` pushed to itself (bitBuffer.hpp:132) does not end, as the loop's bound grows;
  the model pushes the bits of another buffer.
- encode.hpp carries an older copy of BitBuffer, whose `operator+=` pushes a whole byte; huffmanTree
  uses only what the two share.
- `fixHelper`'s greedy walk (autoCorrect.hpp:93) may count more
  than the least number of edits; `FixIsHonest` says that it never counts fewer.
- A crash while `open` stamps a new file leaves a non-empty file without a valid
  header (`header = "bad"`), which every later open refuses.

## 4. Proofs

All for arbitrary constants under the modules' named assumptions, checked by TLAPS.

| module | theorems |
|---|---|
| `VaultProofs` | `VaultInvariant`, `VaultTypes`, `RowsAreNeverShared`, `AckedRowsReadBack`, `PromisedRowsAreDurable`, `ReservedRowsCoverFile`; with row checksums `ReadInvariant`, `IndexIsSound`, `ReadsReturnWholeRows`, `VaultImplementsLog`; without live rebuilds `IndexIsCurrent`, `IndexNeverGoesBack` |
| `VaultLockProofs` | `LockInvariant`, `LockTypes`, `OneWriterAtATime`, `AckedRowsStay` |
| `VaultMigrateProofs` | `MigrateInvariant`, `MigrateTypes`, `AckedRowsStayReachable`, `RenamedCopyIsExact` |
| `TsQueueProofs` | `QueueTypes`, `RingIsExact`, `QueueRefinesWorkQueue`, `WakeupsAreNotLost`, `NulloptMeansDrained` |
| `ThreadsProofs` | `TaskInvariant`, `NothingTicksAfterStop`, `OneCallerJoins`, `IntervalsAreNotLost`, `StopsAreNotLost` (PeriodicTask); `MapInvariant`, `MapCallsDoNotDeadlock`, `MapBodiesAreApart`, `MapCallsAreAtomic`; `StackInvariant`, `StackCallsDoNotDeadlock`, `StackBodiesAreApart`, `StackCallsAreAtomic`; `TrieInvariant`, `TrieHoldsItsWords` |
| `FilesProofs` | `EntriesAreNumbered` (Logger); `ObjectsReadBack`, `CodecIsSound` (object encoding); `FileInvariant`, `FileIsSavedOrRefused`, `CleanFileIsSaved` (binFile) |
| `AlgorithmsProofs` | `BitsInvariant`, `BitsAreAlwaysHeld`; `CorrectInvariant`, `FixIsAlwaysHonest` |

**Vault.** None of `RowsNeverShared`, `AckedOnFile`, `PromisedDurable` is inductive.
The strengthening `IInv` says what an append in flight has done: the row it
reserved is below the counter, nobody else's and not acknowledged; the columns
before its cursor hold its entry (`WrittenSoFar`), all of them once it is past the
write, and the durable copy too once it is past the sync. With it an
acknowledgement makes `AckedInv` true, and no later write can touch the row since
writers only hold unacknowledged rows. A restart needs `AckedInv`'s `r < fileRows`
and `ReservedCoverFile`: the counter restarts at the length, above all acknowledged
rows. A power cut needs `PromisedDurable`, as acknowledged rows that survive are
the promised ones. `NoSumsInv` is for vaults without checksums, where the checksum
column must be empty in every image for images equal in all columns to be equal.

`FullSync` and `SkipRebuild` are any Booleans. Where a sync does not reach the medium
`promised` stays empty (`Promise`), the durable copy stays behind, and a power cut leaves of
the acknowledged rows those it happens to; the rest of the argument, and `AckedOnFile`,
does not depend on it, since what survives is what the counter starts from.

`ReadInv`, assuming row checksums, is about those who look on. The checksum is the
last column an append writes and the last a power cut can find written
(`SumsLast`), so a row that has one is its append's final image and changes no more
unless power fails. A buffer being filled agrees, column by column, with the row as
it is now, unless the row has been finished meanwhile (`Buffered`); the checksum
is also the last column fetched, and if it matches, the buffer is that final image
(`LastColumnTells`, `Returned`). A row that was acknowledged before the read began
cannot change at all (`Due`). What a scan has replayed is in the rows below its
cursor (`Replayed`), hence `IndexSound`. For `ImplementsLog` a row of the abstract
log is what the row would be read as (`ShownAs`): it lands with the column that
completes it, and a power cut that leaves another row than it found leaves an
unreadable one or the durable copy (`DurableRows`), never a promised row's.

`CurrentInv`, assuming that only `open` rebuilds, is the argument the code's comment
makes: one scan, by one thread, before anybody appends. `Covers` says what an index
answers for; the scan covers the rows it is past, and with nothing changing under
it, all of them when it is installed. After that only `Merge` touches the index,
which compares row numbers. An opener that skips the rebuild starts an empty index and
sets `indexFrom` to the rows it finds, and the same argument holds of the rows after
them. With live rebuilds it is false (`vault_rebuild`).

**VaultLock.** `OneWriter` is inductive given types; `AckedIntact` is not: `WriterInv`
adds what the one writer knows (a valid header once past `stamping`, a counter
above the file), which survives other processes only because they are not past
the lock. It is claimed for histories in which `create` has not emptied an open
writer's file, the defect `lock_blanked` shows.

**VaultMigrate.** `MigrateInv` says which file can be under the name and what it holds. As
long as a power cut can bring the old inode back, the old file holds the
acknowledged rows durably (`OldHolds`); once renamed, the new one holds them
(`NewHolds`), because the copy was exact (`CopyIsExact`) and synced before the rename. The copy is
exact since it is so for the rows copied so far (`CopiedSoFar`), and nobody appends
meanwhile. That the number of rows found in a file is the place after its last
written row (`RowCountIsEnd`) needs a greatest element of a bounded set of numbers, taken from
well-foundedness, as induction is out of reach.

**TwoLocks.** `LocksInv`: a thread holds objects of its call only, and none while it
blocks on a mutex; that is the whole of `std::lock`'s argument and of a single lock's.
`HoldersDoNotWait` follows, and `WaitsEnd` for both containers. `ModeInv` adds that an
exclusive lock is held alone and that a body has all its call needs, so two
bodies with an object in common both only read (`BodiesApart`). The theorems take any
set of calls on any objects.

`CallsAreAtomic` relates a call's last step to what was recorded when it had its
locks. `MapOnCourse` and `StackOnCourse` say it of every step in between: `MapRest`
(`StackRest`) is what the objects and the result come to if the steps left are run
from here, and it is still the recorded `Outcome`. Each visit keeps it (a visited
pair or item moves from what is left to what is done); a visit of another thread
cannot change it, as `BodiesApart` keeps that thread off the objects. When no step is
left, `MapRest` is the objects and the result themselves. `MapRest` is written
without the loop, so the proof needs no induction over the steps: that is also why
results are sets. For a comparison the place of the first difference is a least
element, from well-foundedness.

**TsQueue.** `RingInv`, types and `RingExact`, is inductive. `Behind(n, f, j)` is how far
slot `j` lies behind the front; a few lemmas about `%` turn the code's index
arithmetic into it, and from there each helper has one lemma: `StoredExact` (items
put behind the back), `RelocatedExact`, `PutBackExact` (growth, then storing: the
contents are the old ones followed by the new), `DropFrontExact`, `EmptyRing`. They
give the new `Contents` as a sequence, so that each action is a step of `WorkQueue` or
none. `WakeInv`, types and `NoLostWakeup`, is inductive on its own, by counting woken
threads and pending `notify_one`s; it and `NulloptMeansDrained` assume that moving an
element does not throw - with throwing moves `queue_throw` refutes the first.

**PeriodicTask.** The callers inside `_joinMtx` are equal to each other, a caller past
the join and a thread no longer joinable have seen the worker end; `Cardinality`
comes in only at the end (`JoinsAtMostOnce`). `IntervalNotLost` and `StopNotLost` are
inductive with the types: the worker tests and blocks in one critical section.

**Logger.** `LogInv`: a Logger that has not drifted has no torn line before it, and its
counter is the number of lines. An entry that gets into the file whole keeps that, unless it
brings line breaks; every other outcome of a write sets `drift`; and the constructor and
`clearLast` count. What a step then puts behind the last line is the entry's number and
foreign lines, in whole or in part (`AppendedLines`, `EntryComes`). The theorem takes any
file to begin with, numbered or not.

**binFile.** `FileInv` holds a save's steps together: once the lines were encoded they
are lines a save accepts, at the flush the temporary file is their image, and what
the last rename gave the name is `saved`; until it is durable, `saved` still is lines
and the file their image, which a power cut may cut short. The earlier file that the
directory may still lead to was under the name once, so the same was known of it
(`Known`), and it keeps: an unlinked file does not change (`UnlinkedIsKnown`); a part of
either is refused (`ShortenedIsCorrupt`). In memory, the amount counts the
rows' objects through every edit (`InMemory`): pushes into a new or an emptied line,
replacements, removals and deleted lines each move `Places` by a bijection. What a
rename and a power cut need of the encoding is `CodecSound`: lines a save accepts
read back from their image, and no beginning of the image is read as anything.

**Object encoding.** `CodecIsSound` proves that, and `ObjectsReadBack` the round trip of
every object, for any widths (`CodecAssumption`: no payload narrower than a bin8's, and
a count no narrower than a bin8). Each kind of object has three lemmas, from
numbers up to a whole file: what it writes are bits, and at least `minBits` of them
(`VecBits`); wherever those bits are `Ahead`, the reader returns the object and the
cursor after them (`VecReads`); and what the reader accepts of some bits is an object of
its class, and is read alike from any bits that begin with these (`VecSettles`). The loops are
inductions over the elements (`EachReads`, `EachSettles`); `fitsCount` never refuses what was
written, since each element takes its `minBits` (`CountedReads`). A file cut short is
refused because of the third lemma: what was read of the part would be read of the whole
too, up to the same cursor, but the whole ends further on (`PartFails`). `ObjectInv`, that
an object is one of its class, is kept by every operation, and a reader's
result is one by the third lemma again. Sets of entries are written in some fixed
order, of which only that it lists each once is used (`OrderIs`).

**ts::Trie.** `TrieInv`: the nodes are the paths of the words held (`TreeOf`), and a
node's count is how often its word is held, so that adding is adding one path. For
`remove` the lemmas on prefixes show that the erased nodes are exactly those of the
word's path that no other word runs through. None that a word runs through goes
(`WordsAreKept`): that word ends on the path or leaves it at a last common node, whose
next node it keeps alive (`Fork`, by well-foundedness). And one that stays has
below it on the path such an end or such a child, hence a word (`KeptHaveWords`).
The counts are cardinalities of finite sets, of
nodes and of occurrences. Words are sequences over any set of letters.

**Loops.** What a loop computes is shown by induction over its turns. The library's
induction theorems take a predicate, which the provers cannot instantiate; `Induction`
takes a set instead - the numbers a statement holds of - and comes from
well-foundedness. `LoopRuns` is the other half: a function given by its value at 0
and a step is really there. `LoopTheorems` has both, and from them what shifts and masks
do (`ShiftFacts`, `MaskFacts`, `BitFacts`).

**BitBuffer.** `Holds(b, bits)`: the buffer has just the bytes its bits take, and each
place of them reads as a bit, or as 0 after the last. Every operation keeps it for the
bits with what it adds (`PushBitHolds`, `PushBitsHold`, `PushByteHolds`, `AssignHolds`,
...); the zeros past the end are what `push` needs, as it only ever sets bits, and what
`writeBin` needs, as it writes whole bytes. Adding or taking away a mask changes
one bit (`FlipBit`): the digits below it are untouched since what is added is a multiple
of their weight, those above since no carry leaves the bit. Bit `r` of byte `q` is bit `N * q + r` of
all (`PlaceIs`), for any width `N` of a byte. A file's bytes unpack to the bits sent
(`UnpackCat`, `UnpackSub` for what is read back).

**autoCorrectFilter.** Each turn of the greedy walk is one or more edits at the price it
charges (`TurnMoves`), so what it reached is within the reach of `CanBecome` after as many
edits as letters were passed; the end gap, letter by letter, too. The best match is the
best of the candidates seen so far (`IsBest`), and the pool has every dictionary word
whose length the sensitivity allows; any other word's tail alone costs more than that.
The proof asks of the keyboard's grid that only the same letters are 0 apart, and of the
folding of case only that it maps characters to characters: what the walk takes for the same
is then the same after folding, and a string that is a dictionary word in another spelling
costs nothing, so that whatever wins costs nothing either and is a spelling of it too.

**Only model-checked.** Liveness (`CloseReleases`, `ConsumersProgress`, `StopEndsTask`,
`StopReturns`, `KeepsTicking`) is beyond the prover.
`SortedAndBalanced` (avlTree), `BalancedAndSorted` (BTree), `DecodesBack` and
`NoShorterCode` (Huffman) are about recursive operators on trees, which the prover does
not take: they are checked on the instances of section 3.

## 5. Order of work, and what is left

The vault came first, as the component that promises most and meets most failures;
then the queue and the task, whose interleavings no test reaches; then locks on two
objects, what is kept in files, and the containers and algorithms one thread uses.
A model was checked before anything about it was proved, and so were the
strengthened invariants of the vault, the queue and the task.

Left, in order of weight:

1. The vault's header and layout codec (`build`, `encode_header`, `decode_header`,
   `check_prefix`): a header is accepted by exactly the schema that wrote it. The
   modules start where this check has passed or failed (`header = "bad"`).
2. The variable-length integers, `BitString` and AES' counter, as operators against
   reference definitions.
3. Repeated migrations, and a migration composed with `VaultLock`'s processes.

## 6. Not modelled

- Formatting, error texts, hardware and time queries, the float sum: no state and
  nothing that could go wrong in an order.
- `ts::BinaryTree` and `binTree.hpp` are unfinished in the source.
- `ts::Vector`: its writers take the shared lock (tsVector.hpp:115) and some members lock the
  same `shared_mutex` twice (161). Both are undefined behaviour of `std::vector` and
  `std::shared_mutex`, after which no property can be stated.
- The vault's header and layout codec, the variable-length integers and number
  conversions, `numFormat`, `BitString`, the parser and the hash: pure functions of
  their input, without an order of events (section 5 lists those worth checking).
- The arithmetic of AES, and the 8-bit arithmetic of the vault's checksum.
- A power cut that leaves a hole of zeros within a binFile (section 2).
- A `writeBinary` that fails: it returns false and leaves what of the file it leaves
  (writeBin.hpp:87-92), and keeps no state of its own.
- The construction of a `PeriodicTask` while its own work calls `stop()` (section 2).
- Windows' `seek_read` and `seek_write` under a mutex: the vault's positional I/O is the Unix one.
- fsync errors swallowed by the kernel on a shared descriptor: a failed sync fails
  the append that called it.
