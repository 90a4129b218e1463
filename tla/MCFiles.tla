------------------------------- MODULE MCFiles -------------------------------
(***************************************************************************)
(* What lives in files, for TLC: the migration of a vault, binFile and the *)
(* bits of its objects, and the Logger, in one run in which the component  *)
(* in focus is chosen at the start.  The others stay as they begin.        *)
(***************************************************************************)
EXTENDS VaultMigrate, BinFile, BinObject, Logger, TLC

CONSTANTS v, w, p1, p2

VARIABLE focus

PidSymmetry == Permutations(Pids)
-----------------------------------------------------------------------------
(* Objects: scalars of each width, strings, a pair; the readers also get all *)
(* bit strings of a length, alone and behind the head of a map of two.       *)
Scalars ==
  {<<B8, 0, 3>>, <<B8, 2, 1>>, <<B32, 3, 5>>, <<B64, 1, 9>>, <<STR, <<1>>>>, <<STR, <<>>>>,
   <<PAIR, <<B8, 1, 0>>, <<STR, <<2>>>>>>}

\* The head of a map of bytes to bytes with two entries, and of the first entry.
Heads == {<<>>, <<0, 0, 0,  0, 0, 0,  0, 1, 0, 0,  0, 0, 1, 0,  0, 0, 0, 1>>}

Widths == <<2, 3, 4>>

(* binFile: a byte and a map of a string, up to two objects on two lines.    *)
Pushed == {<<B8, 0, 3>>, <<MAP, B8, STR, {<<<<B8, 2, 1>>, <<STR, <<2>>>>>>}>>}

ASSUME CodecSound

(* Logger: files of earlier runs, one with a message of two lines and one    *)
(* whose numbers are not its lines.                                          *)
Levels == {"WARNING", "LOW", "MED", "HIGH"}
Silenced == {{}, {"WARNING"}, {"WARNING", "LOW"}, Levels}
Logs == {<<>>, <<0>>, <<0, Foreign>>, <<1, 1>>}
-----------------------------------------------------------------------------
NoLog == lines = <<>> /\ torn = FALSE /\ LogInit

FilesInit ==
  /\ Init /\ FileInit
  /\ \/ focus \in {"migrate", "file"} /\ object = EmptyString /\ NoLog
     \/ focus = "object" /\ ObjectInit /\ NoLog
     \/ focus = "log" /\ object = EmptyString /\ LogInit

\* The component in focus takes a step, and leaves the other variables alone.
MigrateStep == focus = "migrate" /\ Next /\ UNCHANGED <<focus, object, fileVars, logVars>>
ObjectStep == focus = "object" /\ ObjectNext /\ UNCHANGED <<focus, vars, fileVars, logVars>>
FileStep == focus = "file" /\ FileNext /\ UNCHANGED <<focus, object, vars, logVars>>
LogStep == focus = "log" /\ LogNext /\ UNCHANGED <<focus, object, vars, fileVars>>

FilesNext == MigrateStep \/ ObjectStep \/ FileStep \/ LogStep

FilesSpec == FilesInit /\ [][FilesNext]_<<focus, object, vars, fileVars, logVars>>
==============================================================================
