------------------------------- MODULE Logger ------------------------------
(***************************************************************************)
(* Logger and IndexedFileReader (C_Plus_Plus/store/log.hpp): numbered      *)
(* entries appended to a text file, several runs of the program one after  *)
(* the other.  Every member holds the Logger's mutex, so a member is one   *)
(* step.  A line of the file is the number its entry begins with, or       *)
(* Foreign: the rest of a message with line breaks, or text that is not    *)
(* one entry.                                                              *)
(***************************************************************************)
EXTENDS Integers, Sequences

CONSTANTS
  Foreign,
  Severities, \* WARNING, LOW, MED, HIGH
  Silences,   \* the sets of severities that editWrites silences
  MaxBreaks,  \* bound: line breaks in a message
  MaxLogLines,   \* bound: lines of the file, and the numbers in it
  Beginnings  \* the lines of the file before the first run: any text

ASSUME LogAssumption == Beginnings \subseteq Seq(Nat \cup {Foreign})

VARIABLES
  lines,      \* the file
  torn,       \* its last line has no line end
  alive,      \* there is a Logger
  logCount,   \* _logCount
  silenced,   \* the severities that canBeWritten refuses
  drift       \* history: the Logger began on a torn line, or wrote a message with
              \* line breaks or only a part of an entry, and has cleared none since

logVars == <<lines, torn, alive, logCount, silenced, drift>>

\* The file after an entry with this number and this many line breaks: a torn
\* line runs on into the entry.
Appended(number, breaks) ==
  LET rest == [i \in 1..breaks |-> Foreign] IN
  IF torn THEN [lines EXCEPT ![Len(lines)] = Foreign] \o rest
  ELSE Append(lines, number) \o rest

\* What is in the file if an entry does not get there whole: nothing of it, some
\* lines, or some and the next in part, of which the number may be all there.
InPart(number, breaks) ==
  \/ UNCHANGED <<lines, torn>>
  \/ \E k \in 0..(breaks - 1) : lines' = Appended(number, k) /\ torn' = FALSE
  \/ \E k \in 0..breaks : lines' \in {Appended(number, k), Appended(Foreign, k)} /\ torn' = TRUE

\* reindex and line_count: getline also returns a last line without an end.
line_count == Len(lines)
-----------------------------------------------------------------------------
LogInit ==
  /\ lines \in Beginnings
  /\ torn \in {t \in BOOLEAN : t => lines # <<>>}
  /\ alive = FALSE
  /\ logCount = 0
  /\ silenced = {}
  /\ drift = FALSE

\* The stream is not looked at after an entry is written: _logCount goes on
\* whether it is in the file or not.
Written(number, breaks) ==
  /\ \/ lines' = Appended(number, breaks) /\ torn' = FALSE
        /\ drift' = ((alive /\ drift) \/ torn \/ breaks > 0)
     \/ InPart(number, breaks) /\ drift' = TRUE
  /\ logCount' = number + 1

(* The constructor resumes the numbering of an existing file.                *)
Construct ==
  /\ ~alive /\ line_count < MaxLogLines
  /\ Written(line_count, 0)
  /\ alive' = TRUE
  /\ silenced' = {}

editWrites(s) ==
  /\ alive
  /\ silenced' = s
  /\ UNCHANGED <<lines, torn, alive, logCount, drift>>

write(severity, breaks) ==
  /\ alive /\ line_count + breaks < MaxLogLines /\ logCount < MaxLogLines
  /\ severity \notin silenced
  /\ Written(logCount, breaks)
  /\ UNCHANGED <<alive, silenced>>

\* remove_last_line: the file is cut where its last line begins.
remove_last_line ==
  /\ lines' = IF lines = <<>> THEN <<>> ELSE SubSeq(lines, 1, Len(lines) - 1)
  /\ torn' = FALSE

\* Faulty variant: the numbering goes on after the line that was removed.
clearLastStale ==
  /\ alive
  /\ remove_last_line
  /\ drift' = FALSE
  /\ UNCHANGED <<alive, logCount, silenced>>

clearLast ==
  /\ alive
  /\ remove_last_line
  /\ logCount' = Len(lines')
  /\ drift' = FALSE
  /\ UNCHANGED <<alive, silenced>>

\* The program is no more.
Gone == alive' = FALSE /\ logCount' = 0 /\ silenced' = {} /\ drift' = FALSE

(* The program ends, or dies while an entry, its first or another, is        *)
(* written.                                                                  *)
Exit ==
  /\ alive
  /\ Gone
  /\ UNCHANGED <<lines, torn>>

LogCrash(breaks) ==
  /\ line_count + breaks < MaxLogLines
  /\ \/ alive /\ InPart(logCount, breaks)
     \/ ~alive /\ InPart(line_count, 0)
  /\ Gone

(* Between two runs somebody moves the log away. *)
Rotate ==
  /\ ~alive
  /\ lines' = <<>> /\ torn' = FALSE
  /\ UNCHANGED <<alive, logCount, silenced, drift>>

LogNext ==
  \/ Construct \/ clearLast \/ Exit \/ Rotate
  \/ \E s \in Silences : editWrites(s)
  \/ \E b \in 0..MaxBreaks : LogCrash(b) \/ \E s \in Severities : write(s, b)

LogSpec == LogInit /\ [][LogNext]_logVars
-----------------------------------------------------------------------------
(* Whatever an earlier run, a crash within an entry, a failed write or a     *)
(* message with line breaks has left in the file, an entry that goes into it *)
(* after the next start on a whole line, or after the next clearLast, has    *)
(* the number of its line.  The code counts entries where the file's lines   *)
(* count, so between such an accident and that start or clearLast its        *)
(* numbers may be other ones (drift).                                        *)
NumbersAreLines ==
  [][~drift => \A n \in Len(lines) + 1 .. Len(lines') : lines'[n] \in {n - 1, Foreign}]_logVars
=============================================================================
