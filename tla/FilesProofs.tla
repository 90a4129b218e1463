----------------------------- MODULE FilesProofs -----------------------------
(***************************************************************************)
(* Theorems about what is kept in files: an object reads back from its     *)
(* bits, the name of a binFile leads to lines that were saved, and the     *)
(* number of a log entry is its line while nothing has drifted.            *)
(***************************************************************************)
EXTENDS BinFile, BinObject, Logger, LoopTheorems, FiniteSetTheorems, SequenceTheorems, TLAPS
-----------------------------------------------------------------------------
(* The Logger *)

\* What a line of a log can be.
Entries == Nat \cup {Foreign}

\* As long as nothing has drifted, the next number is the next line.
LogInv ==
  /\ lines \in Seq(Entries)
  /\ torn \in BOOLEAN /\ alive \in BOOLEAN /\ drift \in BOOLEAN
  /\ torn => lines # <<>>
  /\ alive => logCount \in Nat
  /\ alive /\ ~drift => ~torn /\ logCount = Len(lines)

\* The lines that come into the file begin with a number only if it is theirs.
OwnNumbers == \A n \in Len(lines) + 1 .. Len(lines') : lines'[n] \in {n - 1, Foreign}

(* An entry is one line more, or none on a torn line, and as many foreign    *)
(* lines as it has line breaks.                                              *)
LEMMA AppendedLines ==
  ASSUME lines \in Seq(Entries), torn \in BOOLEAN, torn => lines # <<>>,
         NEW number \in Entries, NEW breaks \in Nat
  PROVE  LET a == Appended(number, breaks) IN
           /\ a \in Seq(Entries) /\ Len(a) >= 1
           /\ ~torn => Len(a) = Len(lines) + 1 + breaks
           /\ \A n \in Len(lines) + 1 .. Len(a) :
                a[n] = Foreign \/ (n = Len(lines) + 1 /\ a[n] = number)
<1> DEFINE rest == [i \in 1..breaks |-> Foreign]
           kept == IF torn THEN [lines EXCEPT ![Len(lines)] = Foreign] ELSE Append(lines, number)
           a == kept \o rest
<1>1. a = Appended(number, breaks)
  BY DEF Appended
<1>2. rest \in Seq(Entries) /\ Len(rest) = breaks /\ \A i \in 1..breaks : rest[i] = Foreign
  <2>1. rest \in [1..breaks -> Entries]
    BY DEF Entries
  <2> QED  BY <2>1, LenProperties
<1>3. /\ kept \in Seq(Entries)
      /\ Len(kept) = IF torn THEN Len(lines) ELSE Len(lines) + 1
      /\ Len(kept) >= 1
      /\ \A i \in 1..Len(kept) : i < Len(kept) => i \in 1..Len(lines) /\ kept[i] = lines[i]
      /\ kept[Len(kept)] = IF torn THEN Foreign ELSE number
  BY DEF Entries
<1> HIDE DEF rest, kept
<1>4. /\ a \in Seq(Entries)
      /\ Len(a) = Len(kept) + breaks
      /\ \A i \in 1..Len(kept) : a[i] = kept[i]
      /\ \A i \in Len(kept) + 1 .. Len(a) : a[i] = Foreign
  <2>1. kept \in Seq(Entries) /\ rest \in Seq(Entries)
    BY <1>2, <1>3
  <2>2. /\ a \in Seq(Entries) /\ Len(a) = Len(kept) + Len(rest)
        /\ \A i \in 1..Len(kept) : a[i] = kept[i]
        /\ \A i \in Len(kept) + 1 .. Len(kept) + Len(rest) : a[i] = rest[i - Len(kept)]
    BY <2>1
  <2>3. Len(kept) \in Nat /\ Len(rest) = breaks
    BY <1>2, <2>1
  <2> HIDE DEF a
  <2>4. \A i \in Len(kept) + 1 .. Len(kept) + breaks : i - Len(kept) \in 1..breaks
    BY <2>3
  <2> QED  BY <1>2, <2>2, <2>3, <2>4
<1> HIDE DEF a
<1>5. Len(a) >= 1 /\ (~torn => Len(a) = Len(lines) + 1 + breaks)
  BY <1>3, <1>4
<1>6. ASSUME NEW n \in Len(lines) + 1 .. Len(a)
      PROVE  a[n] = Foreign \/ (n = Len(lines) + 1 /\ a[n] = number)
  <2>1. Len(lines) \in Nat /\ Len(kept) \in Nat /\ Len(a) \in Nat
    BY <1>3, <1>4
  <2>2. CASE n > Len(kept)
    BY <1>4, <2>1, <2>2
  <2>3. CASE ~(n > Len(kept))
    <3>1. ~torn /\ n = Len(kept) /\ n = Len(lines) + 1 /\ n \in 1..Len(kept)
      BY <1>3, <2>1, <2>3
    <3> QED  BY <1>3, <1>4, <3>1
  <2> QED  BY <2>2, <2>3
<1> QED  BY <1>1, <1>4, <1>5, <1>6

(* Whole or in part, an entry that has the number of its line brings no      *)
(* other number into the file.                                               *)
LEMMA EntryComes ==
  ASSUME lines \in Seq(Entries), torn \in BOOLEAN, torn => lines # <<>>,
         NEW number \in Nat, NEW breaks \in Nat,
         (lines' = Appended(number, breaks) /\ torn' = FALSE) \/ InPart(number, breaks)
  PROVE  /\ lines' \in Seq(Entries) /\ torn' \in BOOLEAN
         /\ torn' => lines' # <<>>
         /\ number = Len(lines) => OwnNumbers
<1>1. ASSUME NEW first \in {number, Foreign}, NEW k \in Nat, lines' = Appended(first, k)
      PROVE  /\ lines' \in Seq(Entries) /\ lines' # <<>>
             /\ number = Len(lines) => OwnNumbers
  <2>1. first \in Entries
    BY DEF Entries
  <2>2. /\ lines' \in Seq(Entries) /\ Len(lines') >= 1
        /\ \A n \in Len(lines) + 1 .. Len(lines') :
             lines'[n] = Foreign \/ (n = Len(lines) + 1 /\ lines'[n] = first)
    BY <1>1, <2>1, AppendedLines
  <2>3. lines' # <<>> /\ Len(lines) \in Nat
    BY <2>2
  <2>4. ASSUME number = Len(lines), NEW n \in Len(lines) + 1 .. Len(lines')
        PROVE  lines'[n] \in {n - 1, Foreign}
    BY <2>2, <2>3, <2>4
  <2> QED  BY <2>2, <2>3, <2>4 DEF OwnNumbers
<1>2. CASE UNCHANGED <<lines, torn>>
  <2>1. Len(lines) \in Nat /\ OwnNumbers
    BY <1>2 DEF OwnNumbers
  <2> QED  BY <1>2, <2>1
<1>3. CASE lines' = Appended(number, breaks) /\ torn' = FALSE
  BY <1>1, <1>3
<1>4. CASE \E k \in 0..(breaks - 1) : lines' = Appended(number, k) /\ torn' = FALSE
  <2>1. PICK k \in 0..(breaks - 1) : lines' = Appended(number, k) /\ torn' = FALSE
    BY <1>4
  <2>2. k \in Nat
    OBVIOUS
  <2> QED  BY <1>1, <2>1, <2>2
<1>5. CASE \E k \in 0..breaks :
             lines' \in {Appended(number, k), Appended(Foreign, k)} /\ torn' = TRUE
  <2>1. PICK k \in 0..breaks :
             lines' \in {Appended(number, k), Appended(Foreign, k)} /\ torn' = TRUE
    BY <1>5
  <2>2. k \in Nat
    OBVIOUS
  <2> QED  BY <1>1, <2>1, <2>2
<1> QED  BY <1>2, <1>3, <1>4, <1>5 DEF InPart

(* A sequence without its last element. *)
LEMMA WithoutLast ==
  ASSUME NEW E, NEW s \in Seq(E), s # <<>>
  PROVE  /\ SubSeq(s, 1, Len(s) - 1) \in Seq(E)
         /\ Len(SubSeq(s, 1, Len(s) - 1)) = Len(s) - 1
         /\ \A i \in 1..Len(s) - 1 : SubSeq(s, 1, Len(s) - 1)[i] = s[i]
<1>1. Len(s) \in Nat /\ Len(s) >= 1 /\ \A i \in 1..Len(s) : s[i] \in E
  OBVIOUS
<1>2. PICK n \in Nat : n = Len(s) - 1
  BY <1>1
<1>3. /\ SubSeq(s, 1, n) \in Seq(E)
      /\ Len(SubSeq(s, 1, n)) = n
      /\ \A i \in 1..n : SubSeq(s, 1, n)[i] = s[i]
  BY <1>1, <1>2
<1> QED  BY <1>2, <1>3

(* A step keeps the invariant, and brings no other number into the file      *)
(* unless something has drifted.                                             *)
LEMMA LogInvNext ==
  ASSUME LogInv, [LogNext]_logVars
  PROVE  LogInv' /\ (~drift => OwnNumbers)
<1> USE DEF LogInv
<1>0. Len(lines) \in Nat
  OBVIOUS
<1>1. CASE Construct
  <2>1. ~alive /\ alive' = TRUE /\ Written(Len(lines), 0) /\ 0 \in Nat
    BY <1>1 DEF Construct, line_count
  <2>2. /\ lines' \in Seq(Entries) /\ torn' \in BOOLEAN /\ (torn' => lines' # <<>>)
        /\ OwnNumbers
    BY <1>0, <2>1, EntryComes DEF Written
  <2>3. logCount' = Len(lines) + 1 /\ drift' \in BOOLEAN
    BY <2>1 DEF Written
  <2>4. ASSUME ~drift' PROVE ~torn' /\ logCount' = Len(lines')
    <3>1. lines' = Appended(Len(lines), 0) /\ torn' = FALSE /\ ~torn
      BY <2>1, <2>4 DEF Written
    <3>2. Len(lines) \in Entries
      BY <1>0 DEF Entries
    <3>3. Len(lines') = Len(lines) + 1 + 0
      BY <3>1, <3>2, AppendedLines
    <3> QED  BY <1>0, <2>3, <3>1, <3>3
  <2> QED  BY <1>0, <2>1, <2>2, <2>3, <2>4
<1>2. CASE clearLast
  <2>1. alive' = alive /\ drift' = FALSE /\ torn' = FALSE /\ logCount' = Len(lines')
    BY <1>2 DEF clearLast, remove_last_line
  <2>2. lines' \in Seq(Entries) /\ Len(lines') \in Nat /\ Len(lines') <= Len(lines)
    <3>1. CASE lines = <<>>
      BY <1>2, <3>1 DEF clearLast, remove_last_line
    <3>2. CASE lines # <<>>
      <4>1. lines' = SubSeq(lines, 1, Len(lines) - 1)
        BY <1>2, <3>2 DEF clearLast, remove_last_line
      <4>2. lines' \in Seq(Entries) /\ Len(lines') = Len(lines) - 1
        BY <3>2, <4>1, WithoutLast
      <4> QED  BY <1>0, <4>2
    <3> QED  BY <3>1, <3>2
  <2>3. OwnNumbers
    BY <1>0, <2>2 DEF OwnNumbers
  <2> QED  BY <2>1, <2>2, <2>3
<1>3. CASE Exit
  <2>1. UNCHANGED <<lines, torn>> /\ alive' = FALSE /\ drift' = FALSE
    BY <1>3 DEF Exit, Gone
  <2>2. OwnNumbers
    BY <1>0, <2>1 DEF OwnNumbers
  <2> QED  BY <2>1, <2>2
<1>4. CASE Rotate
  <2>1. lines' = <<>> /\ torn' = FALSE /\ alive' = alive /\ ~alive /\ drift' = drift
    BY <1>4 DEF Rotate
  <2>2. <<>> \in Seq(Entries) /\ OwnNumbers
    BY <1>0, <2>1 DEF OwnNumbers
  <2> QED  BY <2>1, <2>2
<1>5. ASSUME NEW s \in Silences, editWrites(s) PROVE LogInv' /\ OwnNumbers
  BY <1>0, <1>5 DEF editWrites, OwnNumbers
<1>6. ASSUME NEW b \in 0..MaxBreaks, LogCrash(b) PROVE LogInv' /\ (~drift => OwnNumbers)
  <2>1. b \in Nat /\ 0 \in Nat
    OBVIOUS
  <2>2. alive' = FALSE /\ drift' = FALSE
    BY <1>6 DEF LogCrash, Gone
  <2>3. CASE alive /\ InPart(logCount, b)
    <3>1. /\ lines' \in Seq(Entries) /\ torn' \in BOOLEAN /\ (torn' => lines' # <<>>)
          /\ logCount = Len(lines) => OwnNumbers
      BY <2>1, <2>3, EntryComes
    <3> QED  BY <2>2, <2>3, <3>1
  <2>4. CASE InPart(Len(lines), 0)
    <3>1. /\ lines' \in Seq(Entries) /\ torn' \in BOOLEAN /\ (torn' => lines' # <<>>)
          /\ OwnNumbers
      BY <1>0, <2>1, <2>4, EntryComes
    <3> QED  BY <2>2, <3>1
  <2> QED  BY <1>6, <2>3, <2>4 DEF LogCrash, line_count
<1>7. ASSUME NEW b \in 0..MaxBreaks, NEW s \in Severities, write(s, b)
      PROVE  LogInv' /\ (~drift => OwnNumbers)
  <2>1. alive /\ alive' = alive /\ Written(logCount, b) /\ b \in Nat /\ logCount \in Nat
    BY <1>7 DEF write
  <2>2. /\ lines' \in Seq(Entries) /\ torn' \in BOOLEAN /\ (torn' => lines' # <<>>)
        /\ logCount = Len(lines) => OwnNumbers
    BY <2>1, EntryComes DEF Written
  <2>3. logCount' = logCount + 1 /\ drift' \in BOOLEAN
    BY <2>1 DEF Written
  <2>4. ASSUME ~drift' PROVE ~torn' /\ logCount' = Len(lines')
    <3>1. lines' = Appended(logCount, b) /\ torn' = FALSE /\ ~torn /\ ~drift /\ ~(b > 0)
      BY <2>1, <2>4 DEF Written
    <3>2. logCount = Len(lines) /\ logCount \in Entries /\ b = 0
      BY <2>1, <3>1 DEF Entries
    <3>3. Len(lines') = Len(lines) + 1 + b
      BY <2>1, <3>1, <3>2, AppendedLines
    <3> QED  BY <1>0, <2>3, <3>1, <3>2, <3>3
  <2> QED  BY <2>1, <2>2, <2>3, <2>4
<1>8. CASE UNCHANGED logVars
  BY <1>0, <1>8 DEF logVars, OwnNumbers
<1> QED  BY <1>1, <1>2, <1>3, <1>4, <1>5, <1>6, <1>7, <1>8 DEF LogNext

(* An entry's number is its line, whatever an earlier run, a crash within an *)
(* entry, a failed write or a message with line breaks has left in the file, *)
(* from the next start on a whole line or the next clearLast on: for every   *)
(* text that the file held before the first run.                             *)
THEOREM EntriesAreNumbered == LogSpec => NumbersAreLines
<1>1. LogInit => LogInv
  BY LogAssumption DEF LogInit, LogInv, Entries
<1>2. LogInv /\ [LogNext]_logVars => LogInv'
  BY LogInvNext
<1>3. LogInv /\ [LogNext]_logVars =>
        [~drift => \A n \in Len(lines) + 1 .. Len(lines') : lines'[n] \in {n - 1, Foreign}]_logVars
  BY LogInvNext DEF OwnNumbers
<1> QED  BY <1>1, <1>2, <1>3, PTL DEF LogSpec, NumbersAreLines
-----------------------------------------------------------------------------
(* Bits and readers                                                          *)
(*                                                                           *)
(* From numbers up to the lines of a file, each kind of thing has a lemma    *)
(* ...Bits: what is written of it are bits, and enough of them; one ...Reads:*)
(* where these bits are ahead, the reader returns it and the cursor after    *)
(* them; and one ...Settles: what a reader accepts is of its kind, and is    *)
(* read alike from any bits that begin with those it was read from.          *)

Bit == {0, 1}

\* Bits that are next in `in` from a cursor on.
Ahead(in, at, bits) ==
  /\ at \in Nat /\ at + Len(bits) <= Len(in)
  /\ \A i \in 1..Len(bits) : in[at + i] = bits[i]

\* Bits that `more` bits begin with.
Begins(in, more) ==
  /\ in \in Seq(Bit) /\ more \in Seq(Bit)
  /\ Len(in) <= Len(more) /\ \A i \in 1..Len(in) : more[i] = in[i]

\* What was read from `in` is read from longer bits too.
Settled(r, r2, in, at) == Some(r) => r2 = r /\ r = <<r[1], r[2]>> /\ r[1] \in at..Len(in)

LEMMA Successes ==
  /\ ~Some(nullopt)
  /\ \A c \in Nat : \A x : Some(<<c, x>>)
BY DEF Some, nullopt

LEMMA AheadSplits ==
  ASSUME NEW in, NEW at \in Nat, NEW a \in Seq(Bit), NEW b \in Seq(Bit), Len(in) \in Nat,
         Ahead(in, at, a \o b)
  PROVE  Ahead(in, at, a) /\ at + Len(a) \in Nat /\ Ahead(in, at + Len(a), b)
<1> DEFINE n == Len(a)
           m == Len(b)
<1>1. n \in Nat /\ m \in Nat /\ Len(a \o b) = n + m
  OBVIOUS
<1>2. at + n + m <= Len(in)
  BY <1>1 DEF Ahead
<1>3. ASSUME NEW i \in 1..n PROVE in[at + i] = a[i]
  <2>1. i \in 1..Len(a \o b) /\ (a \o b)[i] = a[i]
    BY <1>1
  <2> QED  BY <2>1 DEF Ahead
<1>4. ASSUME NEW i \in 1..m PROVE in[at + n + i] = b[i]
  <2>1. n + i \in 1..Len(a \o b) /\ (a \o b)[n + i] = b[i] /\ at + (n + i) = at + n + i
    BY <1>1
  <2> QED  BY <2>1 DEF Ahead
<1>5. Ahead(in, at, a)
  BY <1>1, <1>2, <1>3 DEF Ahead
<1> QED  BY <1>1, <1>2, <1>4, <1>5 DEF Ahead
-----------------------------------------------------------------------------
(* Numbers *)

\* The bits of a number, from a cursor on, added up.
Sums(value, in, at, n) ==
  value[0] = 0 /\ \A i \in 1..n : value[i] = value[i - 1] + in[at + i] * mask(i - 1)

LEMMA UintSums ==
  ASSUME NEW in \in Seq(Bit), NEW at \in Nat, NEW n \in Nat, at + n <= Len(in)
  PROVE  \E value \in [0..n -> Int] :
           Sums(value, in, at, n) /\ readUint(in, at, n) = <<at + n, value[n]>>
<1> DEFINE F(f) == f = [i \in 0..n |-> IF i = 0 THEN 0 ELSE f[i - 1] + in[at + i] * mask(i - 1)]
           step == [i \in 1..n |-> [x \in Int |-> x + in[at + i] * mask(i - 1)]]
<1>1. ASSUME NEW i \in 1..n PROVE in[at + i] \in Bit /\ mask(i - 1) \in Nat
                                  /\ in[at + i] * mask(i - 1) \in Int
  <2>1. at + i \in 1..Len(in) /\ i - 1 \in Nat
    OBVIOUS
  <2>2. in[at + i] \in Bit
    BY <2>1
  <2>3. mask(i - 1) \in Nat
    BY <2>1, MaskFacts
  <2> QED  BY <2>2, <2>3 DEF Bit
<1>2. \E f : F(f)
  <2>1. step \in [1..n -> [Int -> Int]]
    BY <1>1
  <2>2. PICK f \in [0..n -> Int] : Runs(f, 0, step, n)
    <3>1. 0 \in Int
      OBVIOUS
    <3> HIDE DEF step
    <3> QED  BY <2>1, <3>1, LoopRuns
  <2>3. ASSUME NEW i \in 0..n
        PROVE  f[i] = IF i = 0 THEN 0 ELSE f[i - 1] + in[at + i] * mask(i - 1)
    <3>1. i # 0 => i \in 1..n /\ f[i - 1] \in Int
      OBVIOUS
    <3> QED  BY <2>2, <3>1 DEF Runs
  <2>4. F(f)
    BY <2>3
  <2> QED  BY <2>4
<1> DEFINE value == CHOOSE f : F(f)
<1>3. F(value)
  <2> HIDE DEF F
  <2> QED  BY <1>2
<1>4. readUint(in, at, n) = <<at + n, value[n]>>
  <2>1. ~(Len(in) - at < n)
    OBVIOUS
  <2> QED  BY <2>1 DEF readUint
<1> HIDE DEF value
<1>5. Sums(value, in, at, n)
  BY <1>3 DEF Sums
<1>6. \A i \in 0..n : value[i] \in Int
  <2>1. \A i \in 1..n : value[i - 1] \in Int => value[i] \in Int
    BY <1>1, <1>5 DEF Sums
  <2>2. value[0] \in Int
    BY <1>5 DEF Sums
  <2> QED  BY <2>1, <2>2, LoopInvariant
<1>7. value \in [0..n -> Int]
  BY <1>3, <1>6
<1> QED  BY <1>4, <1>5, <1>7

(* A number read fits its bits, and is read the same where more follows.     *)
LEMMA UintIsRead ==
  ASSUME NEW in, NEW more, Begins(in, more), NEW at \in Nat, NEW n \in Nat,
         Some(readUint(in, at, n))
  PROVE  /\ readUint(more, at, n) = readUint(in, at, n)
         /\ readUint(in, at, n) = <<at + n, readUint(in, at, n)[2]>>
         /\ at + n \in at..Len(in)
         /\ readUint(in, at, n)[2] \in Unsigned(n)
<1>1. Len(in) \in Nat /\ Len(more) \in Nat /\ in \in Seq(Bit) /\ more \in Seq(Bit)
  BY DEF Begins
<1>2. at + n <= Len(in) /\ at + n <= Len(more)
  <2>1. ~(Len(in) - at < n)
    BY Successes DEF readUint
  <2> QED  BY <1>1, <2>1 DEF Begins
<1>3. PICK f \in [0..n -> Int] : Sums(f, in, at, n) /\ readUint(in, at, n) = <<at + n, f[n]>>
  BY <1>1, <1>2, UintSums
<1>4. PICK g \in [0..n -> Int] : Sums(g, more, at, n) /\ readUint(more, at, n) = <<at + n, g[n]>>
  BY <1>1, <1>2, UintSums
<1>5. ASSUME NEW i \in 1..n
      PROVE  more[at + i] = in[at + i] /\ in[at + i] \in Bit /\ mask(i - 1) \in Nat
             /\ mask(i - 1) > 0 /\ mask(i) = 2 * mask(i - 1)
  <2>1. at + i \in 1..Len(in) /\ i - 1 \in Nat /\ (i - 1) + 1 = i
    BY <1>1, <1>2
  <2>2. mask(i) = 2 * mask(i - 1) /\ mask(i - 1) \in Nat /\ mask(i - 1) > 0
    BY <2>1, MaskFacts
  <2>3. more[at + i] = in[at + i]
    BY <2>1 DEF Begins
  <2>4. in[at + i] \in Bit
    BY <1>1, <2>1
  <2> QED  BY <2>2, <2>3, <2>4
<1> DEFINE S == {i \in 0..n : f[i] = g[i] /\ f[i] \in 0..(mask(i) - 1)}
<1>6. 0 \in S
  <2>1. f[0] = 0 /\ g[0] = 0 /\ mask(0) = 1 /\ 0 \in 0..n
    BY <1>3, <1>4, MaskFacts DEF Sums
  <2> QED  BY <2>1
<1>7. ASSUME NEW i \in 0..(n - 1), i \in S PROVE i + 1 \in S
  <2>1. i + 1 \in 1..n /\ (i + 1) - 1 = i /\ i + 1 \in 0..n
    OBVIOUS
  <2>2. f[i + 1] = f[i] + in[at + (i + 1)] * mask(i) /\ g[i + 1] = g[i] + more[at + (i + 1)] * mask(i)
    BY <1>3, <1>4, <2>1 DEF Sums
  <2>3. /\ more[at + (i + 1)] = in[at + (i + 1)] /\ in[at + (i + 1)] \in {0, 1}
        /\ mask(i) \in Nat /\ mask(i) > 0 /\ mask(i + 1) = 2 * mask(i)
    BY <1>5, <2>1 DEF Bit
  <2>4. f[i] = g[i] /\ f[i] \in 0..(mask(i) - 1)
    BY <1>7
  <2>5. f[i + 1] = g[i + 1]
    BY <2>2, <2>3, <2>4
  <2>6. f[i + 1] \in 0..(mask(i + 1) - 1)
    <3>1. CASE in[at + (i + 1)] = 0
      BY <3>1, <2>2, <2>3, <2>4
    <3>2. CASE in[at + (i + 1)] = 1
      <4>1. 1 * mask(i) = mask(i)
        BY <2>3
      <4>2. f[i + 1] = f[i] + mask(i)
        BY <2>2, <3>2, <4>1
      <4> DEFINE m == mask(i)
                 a == f[i]
      <4>3. m \in Nat /\ a \in 0..(m - 1) /\ mask(i + 1) = 2 * m /\ f[i + 1] = a + m
        BY <2>3, <2>4, <4>2
      <4> HIDE DEF m, a
      <4>4. a + m \in 0..(2 * m - 1)
        BY <4>3
      <4> QED  BY <4>3, <4>4
    <3> QED  BY <3>1, <3>2, <2>3
  <2> QED  BY <2>1, <2>5, <2>6
<1>8. n \in S
  <2> HIDE DEF S
  <2>1. \A i \in 0..n : i \in S
    BY <1>6, <1>7, InductionTo
  <2> QED  BY <2>1
<1> QED  BY <1>1, <1>2, <1>3, <1>4, <1>8 DEF Unsigned

(* A number that fits its bits is read from what was written of it.          *)
LEMMA UintReadsBack ==
  ASSUME NEW in \in Seq(Bit), NEW at \in Nat, NEW n \in Nat, NEW v \in Unsigned(n)
  PROVE  /\ writeUint(v, n) \in Seq(Bit) /\ Len(writeUint(v, n)) = n
         /\ Ahead(in, at, writeUint(v, n)) =>
              readUint(in, at, n) = <<at + n, v>> /\ at + n \in Nat
<1>1. mask(n) \in Nat /\ v \in Int /\ v \in 0..(mask(n) - 1)
  BY MaskFacts DEF Unsigned
<1>2. ASSUME NEW i \in 1..n PROVE BitOf(v, i - 1) \in Bit
  <2>1. i - 1 \in Nat
    OBVIOUS
  <2> QED  BY <1>1, <2>1, BitFacts DEF Bit
<1>3. writeUint(v, n) \in [1..n -> Bit] /\ \A i \in 1..n : writeUint(v, n)[i] = BitOf(v, i - 1)
  BY <1>2 DEF writeUint
<1>4. writeUint(v, n) \in Seq(Bit) /\ Len(writeUint(v, n)) = n
  BY <1>3, LenProperties
<1>5. ASSUME Ahead(in, at, writeUint(v, n))
      PROVE  readUint(in, at, n) = <<at + n, v>>
  <2>1. at + n <= Len(in) /\ \A i \in 1..n : in[at + i] = BitOf(v, i - 1)
    BY <1>3, <1>4, <1>5 DEF Ahead
  <2>2. PICK f \in [0..n -> Int] : Sums(f, in, at, n) /\ readUint(in, at, n) = <<at + n, f[n]>>
    BY <2>1, UintSums
  <2> DEFINE S == {i \in 0..n : v = mask(i) * shiftRight(v, i) + f[i] /\ f[i] \in 0..(mask(i) - 1)}
  <2>3. 0 \in S
    <3>1. shiftRight(v, 0) = v /\ mask(0) = 1 /\ f[0] = 0
      BY <1>1, <2>2, ShiftFacts, MaskFacts DEF Sums
    <3> QED  BY <1>1, <3>1
  <2>4. ASSUME NEW i \in 0..(n - 1), i \in S PROVE i + 1 \in S
    <3> DEFINE m == mask(i)
               s == shiftRight(v, i + 1)
               b == BitOf(v, i)
    <3>1. i \in Nat /\ i + 1 \in 1..n /\ (i + 1) - 1 = i /\ i + 1 \in 0..n
      OBVIOUS
    <3>2. f[i + 1] = f[i] + b * m
      BY <2>1, <2>2, <3>1 DEF Sums
    <3>3. m \in Nat /\ m > 0 /\ mask(i + 1) = 2 * m
      BY <3>1, MaskFacts
    <3>4. b \in {0, 1} /\ shiftRight(v, i) = 2 * s + b /\ s \in Int
      <4>1. s \in Int
        BY <1>1, <3>1, ShiftFacts
      <4> QED  BY <1>1, <3>1, <4>1, BitFacts
    <3>5. v = m * shiftRight(v, i) + f[i] /\ f[i] \in 0..(m - 1)
      BY <2>4
    <3> HIDE DEF m, s, b
    <3>6. f[i + 1] \in 0..(2 * m - 1)
      <4>1. CASE b = 0
        BY <4>1, <3>2, <3>3, <3>5
      <4>2. CASE b = 1
        BY <4>2, <3>2, <3>3, <3>5
      <4> QED  BY <4>1, <4>2, <3>4
    <3>7. v = (2 * m) * s + f[i + 1]
      <4>1. m * (2 * s + b) = (2 * m) * s + b * m
        BY <3>3, <3>4
      <4>2. (2 * m) * s \in Int /\ b * m \in Int /\ f[i] \in Int
        BY <3>3, <3>4, <3>5
      <4> QED  BY <4>1, <4>2, <3>2, <3>4, <3>5
    <3> QED  BY <3>1, <3>3, <3>6, <3>7 DEF s
  <2>5. n \in S
    <3> HIDE DEF S
    <3>1. \A i \in 0..n : i \in S
      BY <2>3, <2>4, InductionTo
    <3> QED  BY <3>1
  <2>6. f[n] = v
    <3> DEFINE s == shiftRight(v, n)
               m == mask(n)
               x == f[n]
    <3>1. s \in Int /\ m \in Nat /\ m > 0
      BY <1>1, ShiftFacts, MaskFacts
    <3>2. v = m * s + x /\ x \in 0..(m - 1) /\ v \in 0..(m - 1)
      BY <1>1, <2>5
    <3> HIDE DEF s, m, x
    <3> DEFINE p == m * s
    <3>3. p \in Int /\ v = p + x
      BY <3>1, <3>2
    <3>4. s >= 1 => p >= m
      BY <3>1
    <3>5. s <= -1 => p <= -m
      <4> SUFFICES ASSUME s <= -1 PROVE p <= -m
        OBVIOUS
      <4>1. -1 - s \in Nat
        BY <3>1
      <4>2. m * (-1 - s) >= 0
        BY <3>1, <4>1
      <4>3. m * (-1 - s) = -m - p
        BY <3>1
      <4> QED  BY <3>1, <3>3, <4>2, <4>3
    <3>6. s = 0 => p = 0
      BY <3>1
    <3> HIDE DEF p
    <3>7. s = 0
      BY <3>1, <3>2, <3>3, <3>4, <3>5
    <3>8. x = v
      BY <3>1, <3>2, <3>3, <3>6, <3>7
    <3> QED  BY <3>8 DEF x
  <2> QED  BY <2>2, <2>6
<1> QED  BY <1>4, <1>5
-----------------------------------------------------------------------------
(* Loops of readers *)

\* Part by part, and where each part ends.
PartsEnd(ends, at, parts) ==
  /\ ends \in [0..Len(parts) -> Nat] /\ ends[0] = at
  /\ \A k \in 1..Len(parts) : ends[k] = ends[k - 1] + Len(parts[k])

LEMMA ConcatIs ==
  ASSUME NEW S, NEW a \in Seq(S), NEW b \in Seq(S)
  PROVE  /\ Len(a) \in Nat /\ Len(b) \in Nat
         /\ a \o b \in Seq(S) /\ Len(a \o b) = Len(a) + Len(b)
         /\ \A i \in 1..Len(a) : (a \o b)[i] = a[i]
         /\ \A i \in 1..Len(b) : (a \o b)[Len(a) + i] = b[i]
  OBVIOUS

LEMMA Regroup ==
  ASSUME NEW a \in Seq(Bit), NEW b \in Seq(Bit), NEW c \in Seq(Bit)
  PROVE  (a \o b) \o c = a \o (b \o c)
BY ConcatAssociative

LEMMA JoinRuns ==
  ASSUME NEW parts \in Seq(Seq(Bit))
  PROVE  \E f \in [0..Len(parts) -> Seq(Bit)] :
           /\ f[0] = <<>> /\ f[Len(parts)] = FlattenSeq(parts)
           /\ \A k \in 1..Len(parts) : f[k] = f[k - 1] \o parts[k]
<1> DEFINE n == Len(parts)
           step == [k \in 1..n |-> [x \in Seq(Bit) |-> x \o parts[k]]]
           F(g) == g = [i \in 1..n |-> IF i = 1 THEN parts[i] ELSE g[i - 1] \o parts[i]]
<1>1. n \in Nat /\ \A k \in 1..n : parts[k] \in Seq(Bit)
  OBVIOUS
<1>0. 0 \in 0..n /\ n \in 0..n
  BY <1>1
<1> HIDE DEF n
<1>2. PICK f \in [0..n -> Seq(Bit)] : Runs(f, <<>>, step, n)
  <2>1. step \in [1..n -> [Seq(Bit) -> Seq(Bit)]]
    BY <1>1
  <2>2. <<>> \in Seq(Bit)
    OBVIOUS
  <2> HIDE DEF step
  <2> QED  BY <1>1, <2>1, <2>2, LoopRuns
<1>3. f[0] = <<>> /\ \A k \in 1..n : f[k] = f[k - 1] \o parts[k]
  <2>1. ASSUME NEW k \in 1..n PROVE f[k] = f[k - 1] \o parts[k]
    <3>1. k \in 0..n /\ k # 0 /\ k - 1 \in 0..n
      BY <1>1
    <3>2. f[k - 1] \in Seq(Bit)
      BY <1>2, <3>1
    <3>3. f[k] = step[k][f[k - 1]]
      BY <1>2, <3>1 DEF Runs
    <3> QED  BY <3>2, <3>3
  <2>2. f[0] = <<>>
    BY <1>0, <1>2 DEF Runs
  <2> QED  BY <2>1, <2>2
<1>4. CASE n = 0
  <2>1. FlattenSeq(parts) = <<>>
    BY <1>4 DEF FlattenSeq, n
  <2> QED  BY <1>2, <1>3, <1>4, <2>1 DEF n
<1>5. CASE n # 0
  <2>1. F([i \in 1..n |-> f[i]])
    <3>1. ASSUME NEW i \in 1..n
          PROVE  f[i] = IF i = 1 THEN parts[i] ELSE [j \in 1..n |-> f[j]][i - 1] \o parts[i]
      <4>1. CASE i = 1
        <5>0. 1 \in 1..n /\ 1 - 1 = 0
          BY <4>1
        <5>1. f[1] = <<>> \o parts[1] /\ parts[1] \in Seq(Bit)
          BY <1>1, <1>3, <5>0
        <5>2. <<>> \o parts[1] = parts[1]
          BY <5>1
        <5> QED  BY <4>1, <5>1, <5>2
      <4>2. CASE i # 1
        <5>1. i - 1 \in 1..n
          BY <1>1, <4>2
        <5> QED  BY <1>3, <4>2, <5>1
      <4> QED  BY <4>1, <4>2
    <3> QED  BY <3>1
  <2> DEFINE flatten == CHOOSE g : F(g)
  <2>2. F(flatten)
    <3> HIDE DEF F
    <3> QED  BY <2>1
  <2>3. FlattenSeq(parts) = flatten[n]
    BY <1>5 DEF FlattenSeq, n
  <2> HIDE DEF flatten
  <2> DEFINE S == {k \in 0..n : k # 0 => flatten[k] = f[k]}
  <2>4. ASSUME NEW k \in 0..(n - 1), k \in S PROVE k + 1 \in S
    <3>1. k + 1 \in 1..n /\ (k + 1) - 1 = k /\ k + 1 \in 0..n
      BY <1>1
    <3>2. f[k + 1] = f[k] \o parts[k + 1]
      BY <1>3, <3>1
    <3>3. CASE k = 0
      <4>0. 1 \in 1..n /\ k + 1 = 1
        BY <3>1, <3>3
      <4>1. flatten[1] = parts[1] /\ f[1] = <<>> \o parts[1] /\ parts[1] \in Seq(Bit)
        BY <1>1, <1>3, <2>2, <3>2, <3>3, <4>0
      <4>2. <<>> \o parts[1] = parts[1]
        BY <4>1
      <4> QED  BY <3>1, <3>3, <4>1, <4>2
    <3>4. CASE k # 0
      <4>1. flatten[k + 1] = flatten[k] \o parts[k + 1] /\ flatten[k] = f[k]
        <5>1. k + 1 # 1
          BY <3>4
        <5>2. flatten[k + 1] = flatten[(k + 1) - 1] \o parts[k + 1]
          BY <2>2, <3>1, <5>1
        <5> QED  BY <2>4, <3>1, <3>4, <5>2
      <4> QED  BY <3>1, <3>2, <4>1
    <3> QED  BY <3>3, <3>4
  <2>5. n \in S
    <3>1. 0 \in S
      BY <1>1
    <3> HIDE DEF S
    <3>2. \A k \in 0..n : k \in S
      BY <1>1, <2>4, <3>1, InductionTo
    <3> QED  BY <1>1, <3>2
  <2>6. flatten[n] = f[n]
    BY <1>5, <2>5
  <2> QED  BY <1>2, <1>3, <2>3, <2>6 DEF n
<1> QED  BY <1>4, <1>5

\* The parts are where they end in what they were joined to.
PartsIn(ends, parts, joined) ==
  \A k \in 1..Len(parts) :
    /\ ends[k] <= ends[Len(parts)]
    /\ \A i \in 1..Len(parts[k]) : joined[ends[k - 1] + i] = parts[k][i]

\* The parts of a joined sequence, the lengths summed up.
LEMMA JoinIsParts ==
  ASSUME NEW parts \in Seq(Seq(Bit))
  PROVE  /\ FlattenSeq(parts) \in Seq(Bit)
         /\ \E ends : /\ PartsEnd(ends, 0, parts)
                      /\ Len(FlattenSeq(parts)) = ends[Len(parts)]
                      /\ PartsIn(ends, parts, FlattenSeq(parts))
<1> DEFINE n == Len(parts)
<1>1. n \in Nat /\ \A k \in 1..n : parts[k] \in Seq(Bit) /\ Len(parts[k]) \in Nat
  OBVIOUS
<1> HIDE DEF n
<1>2. PICK f \in [0..n -> Seq(Bit)] :
        /\ f[0] = <<>> /\ f[n] = FlattenSeq(parts)
        /\ \A k \in 1..n : f[k] = f[k - 1] \o parts[k]
  BY JoinRuns DEF n
<1> DEFINE ends == [k \in 0..n |-> Len(f[k])]
<1>3. \A k \in 0..n : f[k] \in Seq(Bit) /\ Len(f[k]) \in Nat
  BY <1>2
<1>4. ends \in [0..n -> Nat] /\ \A k \in 0..n : f[k] \in Seq(Bit) /\ ends[k] = Len(f[k]) /\ ends[k] \in Nat
  BY <1>3
<1> HIDE DEF ends
<1>5. ASSUME NEW k \in 0..(n - 1)
      PROVE  /\ k + 1 \in 1..n /\ k + 1 \in 0..n /\ k \in 0..n /\ (k + 1) - 1 = k
             /\ ends[k + 1] = ends[k] + Len(parts[k + 1])
             /\ \A i \in 1..ends[k] : f[k + 1][i] = f[k][i]
             /\ \A i \in 1..Len(parts[k + 1]) : f[k + 1][ends[k] + i] = parts[k + 1][i]
  <2>1. k + 1 \in 1..n /\ k + 1 \in 0..n /\ k \in 0..n /\ (k + 1) - 1 = k
    BY <1>1
  <2>2. f[k + 1] = f[k] \o parts[k + 1] /\ f[k] \in Seq(Bit) /\ parts[k + 1] \in Seq(Bit)
    BY <1>1, <1>2, <1>4, <2>1
  <2>3. ends[k] = Len(f[k]) /\ ends[k + 1] = Len(f[k + 1])
    BY <1>4, <2>1
  <2> DEFINE a == f[k]
             b == parts[k + 1]
  <2>0. a \in Seq(Bit) /\ b \in Seq(Bit) /\ f[k + 1] = a \o b /\ ends[k] = Len(a)
    BY <2>2, <2>3
  <2> HIDE DEF a, b
  <2>7. /\ Len(a \o b) = Len(a) + Len(b)
        /\ \A i \in 1..Len(a) : (a \o b)[i] = a[i]
        /\ \A i \in 1..Len(b) : (a \o b)[Len(a) + i] = b[i]
    BY <2>0, ConcatIs
  <2>4. \A i \in 1..ends[k] : f[k + 1][i] = f[k][i]
    BY <2>0, <2>7 DEF a
  <2>5. \A i \in 1..Len(parts[k + 1]) : f[k + 1][ends[k] + i] = parts[k + 1][i]
    BY <2>0, <2>7 DEF b
  <2>6. ends[k + 1] = ends[k] + Len(parts[k + 1])
    BY <2>0, <2>3, <2>7 DEF b
  <2> QED  BY <2>1, <2>4, <2>5, <2>6
<1>6. PartsEnd(ends, 0, parts)
  <2>1. ends[0] = 0
    <3>1. 0 \in 0..n /\ Len(<<>>) = 0
      BY <1>1
    <3> QED  BY <1>2, <1>4, <3>1
  <2>2. ASSUME NEW k \in 1..n PROVE ends[k] = ends[k - 1] + Len(parts[k])
    <3>1. k - 1 \in 0..(n - 1) /\ (k - 1) + 1 = k
      BY <1>1
    <3> QED  BY <1>5, <3>1
  <2> QED  BY <1>4, <2>1, <2>2 DEF PartsEnd, n
<1> DEFINE S == {k \in 0..n : \A j \in 1..k :
                   /\ ends[j] <= ends[k]
                   /\ \A i \in 1..Len(parts[j]) : f[k][ends[j - 1] + i] = parts[j][i]}
<1>7. 0 \in S
  BY <1>1
<1>8. ASSUME NEW k \in 0..(n - 1), k \in S PROVE k + 1 \in S
  <2>1. ASSUME NEW j \in 1..(k + 1)
        PROVE  /\ ends[j] <= ends[k + 1]
               /\ \A i \in 1..Len(parts[j]) : f[k + 1][ends[j - 1] + i] = parts[j][i]
    <3>1. j \in 1..n /\ j - 1 \in 0..n /\ j \in 0..n /\ Len(parts[j]) \in Nat
      BY <1>1
    <3>2. CASE j = k + 1
      <4>1. ends[k + 1] \in Nat /\ (k + 1) - 1 = k
        <5>1. k \in Nat /\ k + 1 \in 0..n
          BY <1>5
        <5> QED  BY <1>4, <5>1
      <4>2. ends[k + 1] <= ends[k + 1]
        BY <4>1
      <4> QED  BY <1>5, <3>2, <4>1, <4>2
    <3>3. CASE j # k + 1
      <4>1. j \in 1..k
        BY <3>3
      <4>2. ends[j] <= ends[k] /\ \A i \in 1..Len(parts[j]) : f[k][ends[j - 1] + i] = parts[j][i]
        BY <1>8, <4>1
      <4>3. ends[k + 1] >= ends[k] /\ ends[k] \in Nat /\ ends[k + 1] \in Nat /\ ends[j] \in Nat
        <5>1. Len(parts[k + 1]) \in Nat /\ k + 1 \in 0..n /\ k \in 0..n
          BY <1>1, <1>5
        <5> QED  BY <1>4, <1>5, <3>1, <5>1
      <4>4. ends[j] = ends[j - 1] + Len(parts[j]) /\ ends[j - 1] \in Nat
        BY <1>4, <1>6, <3>1 DEF PartsEnd, n
      <4>5. ASSUME NEW i \in 1..Len(parts[j]) PROVE f[k + 1][ends[j - 1] + i] = parts[j][i]
        <5>1. ends[j - 1] + i \in 1..ends[k]
          <6>1. i \in Nat /\ i >= 1 /\ i <= Len(parts[j]) /\ Len(parts[j]) \in Nat
            BY <3>1
          <6>2. ends[j - 1] + i >= 1 /\ ends[j - 1] + i <= ends[j]
            BY <4>4, <6>1
          <6>3. ends[j] <= ends[k] /\ ends[j - 1] + i \in Nat
            BY <4>2, <4>4, <6>1
          <6> QED  BY <4>3, <6>2, <6>3
        <5>2. f[k + 1][ends[j - 1] + i] = f[k][ends[j - 1] + i]
          BY <1>5, <5>1
        <5> QED  BY <4>2, <5>2
      <4>6. ends[j] <= ends[k + 1]
        BY <4>2, <4>3
      <4> QED  BY <4>5, <4>6
    <3> QED  BY <3>2, <3>3
  <2> QED  BY <1>5, <2>1
<1>9. n \in S
  <2> HIDE DEF S
  <2>1. \A k \in 0..n : k \in S
    BY <1>1, <1>7, <1>8, InductionTo
  <2> QED  BY <1>1, <2>1
<1>10. f[n] = FlattenSeq(parts) /\ f[n] \in Seq(Bit) /\ ends[n] = Len(f[n])
  BY <1>1, <1>2, <1>4
<1>11. PartsIn(ends, parts, f[n])
  BY <1>9 DEF PartsIn, n
<1> QED  BY <1>6, <1>10, <1>11 DEF n

(* Where joined parts are ahead, so is each part.                            *)
LEMMA PartsAhead ==
  ASSUME NEW in, Len(in) \in Nat, NEW at \in Nat, NEW parts \in Seq(Seq(Bit)),
         Ahead(in, at, FlattenSeq(parts))
  PROVE  \E ends : /\ PartsEnd(ends, at, parts)
                   /\ ends[Len(parts)] = at + Len(FlattenSeq(parts))
                   /\ ends[Len(parts)] <= Len(in)
                   /\ \A k \in 1..Len(parts) :
                        ends[k] <= Len(in) /\ Ahead(in, ends[k - 1], parts[k])
<1> DEFINE n == Len(parts)
           joined == FlattenSeq(parts)
<1>1. n \in Nat /\ \A k \in 1..n : parts[k] \in Seq(Bit) /\ Len(parts[k]) \in Nat
  OBVIOUS
<1>2. joined \in Seq(Bit) /\ Len(joined) \in Nat
  BY JoinIsParts
<1> HIDE DEF n, joined
<1>12. PICK e : PartsEnd(e, 0, parts) /\ Len(joined) = e[n] /\ PartsIn(e, parts, joined)
  BY JoinIsParts DEF n, joined
<1>3. /\ PartsEnd(e, 0, parts) /\ Len(joined) = e[n]
      /\ \A k \in 1..n :
           /\ e[k] <= e[n]
           /\ \A i \in 1..Len(parts[k]) : joined[e[k - 1] + i] = parts[k][i]
  BY <1>12 DEF PartsIn, n
<1>4. \A k \in 0..n : e[k] \in Nat
  BY <1>3 DEF PartsEnd, n
<1>5. \A k \in 1..n : e[k] = e[k - 1] + Len(parts[k])
  BY <1>3 DEF PartsEnd, n
<1> DEFINE ends == [k \in 0..n |-> at + e[k]]
<1>6. \A k \in 0..n : ends[k] = at + e[k] /\ ends[k] \in Nat
  BY <1>4
<1>7. ends \in [0..n -> Nat]
  BY <1>4
<1> HIDE DEF ends
<1>8. ends[0] = at
  BY <1>1, <1>3, <1>6 DEF PartsEnd
<1>9. at + Len(joined) <= Len(in) /\ \A i \in 1..Len(joined) : in[at + i] = joined[i]
  BY DEF Ahead, joined
<1>10. ASSUME NEW k \in 1..n
       PROVE  /\ ends[k] = ends[k - 1] + Len(parts[k]) /\ ends[k] <= Len(in)
              /\ Ahead(in, ends[k - 1], parts[k])
  <2>1. k \in 0..n /\ k - 1 \in 0..n /\ n \in 0..n /\ Len(parts[k]) \in Nat
    BY <1>1
  <2>2. e[k] \in Nat /\ e[k - 1] \in Nat /\ e[n] \in Nat /\ e[k] = e[k - 1] + Len(parts[k])
        /\ e[k] <= e[n]
    BY <1>3, <1>4, <1>5, <2>1
  <2>3. ends[k] = at + e[k] /\ ends[k - 1] = at + e[k - 1] /\ ends[k - 1] \in Nat
    BY <1>6, <2>1
  <2>6. Len(joined) = e[n] /\ at + e[n] <= Len(in)
    BY <1>3, <1>9
  <2> DEFINE x == e[k - 1]
             y == e[k]
             z == e[n]
             l == Len(parts[k])
  <2>7. /\ x \in Nat /\ y \in Nat /\ z \in Nat /\ l \in Nat
        /\ y = x + l /\ y <= z /\ Len(joined) = z /\ at + z <= Len(in)
        /\ ends[k] = at + y /\ ends[k - 1] = at + x
    BY <2>1, <2>2, <2>3, <2>6
  <2> HIDE DEF x, y, z, l
  <2>8. ends[k] <= Len(in) /\ ends[k] = ends[k - 1] + l
    BY <2>7
  <2>4. ends[k] <= Len(in) /\ ends[k] = ends[k - 1] + Len(parts[k])
    BY <2>8 DEF l
  <2>5. ASSUME NEW i \in 1..Len(parts[k]) PROVE in[ends[k - 1] + i] = parts[k][i]
    <3>1. e[k - 1] + i \in 1..Len(joined) /\ ends[k - 1] + i = at + (e[k - 1] + i)
      <4>1. i \in 1..l
        BY DEF l
      <4>2. x + i \in 1..Len(joined) /\ ends[k - 1] + i = at + (x + i)
        BY <2>7, <4>1
      <4> QED  BY <4>2 DEF x
    <3>2. in[at + (e[k - 1] + i)] = joined[e[k - 1] + i]
      BY <1>9, <3>1
    <3> QED  BY <1>3, <3>1, <3>2
  <2> QED  BY <2>3, <2>4, <2>5 DEF Ahead
<1>11. ends[n] = at + Len(joined) /\ ends[n] <= Len(in)
  BY <1>1, <1>3, <1>6, <1>9
<1> QED  BY <1>7, <1>8, <1>10, <1>11 DEF PartsEnd, n, joined

\* Parts of at least m bits are together at least as long as their number times m.
LEMMA JoinedIsLong ==
  ASSUME NEW parts \in Seq(Seq(Bit)), NEW m \in Nat, \A k \in 1..Len(parts) : Len(parts[k]) >= m
  PROVE  Len(FlattenSeq(parts)) >= m * Len(parts)
<1> DEFINE n == Len(parts)
<1>1. n \in Nat /\ \A k \in 1..n : Len(parts[k]) \in Nat /\ Len(parts[k]) >= m
  OBVIOUS
<1>2. PICK e : PartsEnd(e, 0, parts) /\ Len(FlattenSeq(parts)) = e[n]
  BY JoinIsParts
<1>3. /\ e[0] = 0 /\ \A k \in 0..n : e[k] \in Nat
      /\ \A k \in 1..n : e[k] = e[k - 1] + Len(parts[k])
  BY <1>2 DEF PartsEnd
<1> HIDE DEF n
<1> DEFINE S == {k \in 0..n : e[k] >= m * k}
<1>4. 0 \in S
  BY <1>1, <1>3
<1>5. ASSUME NEW k \in 0..(n - 1), k \in S PROVE k + 1 \in S
  <2>1. k + 1 \in 1..n /\ k + 1 \in 0..n /\ k \in 0..n /\ (k + 1) - 1 = k
    BY <1>1
  <2>2. e[k + 1] = e[k] + Len(parts[k + 1]) /\ Len(parts[k + 1]) \in Nat /\ Len(parts[k + 1]) >= m
        /\ e[k] \in Nat /\ e[k] >= m * k
    BY <1>1, <1>3, <1>5, <2>1
  <2>3. m * (k + 1) = m * k + m /\ m * k \in Nat
    BY <2>1
  <2>4. e[k + 1] >= m * (k + 1)
    BY <2>2, <2>3
  <2> QED  BY <2>1, <2>4
<1>6. n \in S
  <2> HIDE DEF S
  <2>1. \A k \in 0..n : k \in S
    BY <1>1, <1>4, <1>5, InductionTo
  <2> QED  BY <1>1, <2>1
<1> QED  BY <1>2, <1>6 DEF n

\* A reader moves its cursor on, to l at most, whenever it reads something.
Moves(reader, l) ==
  \A c \in 0..l : Some(reader[c]) => /\ reader[c] = <<reader[c][1], reader[c][2]>>
                                     /\ reader[c][1] \in c..l

AllMove(readers, l) == \A k \in 1..Len(readers) : Moves(readers[k], l)

\* One turn of a loop of readers.
Turn(reader, r) ==
  Then(r, LAMBDA c, all : Then(reader[c], LAMBDA d, one : <<d, Append(all, one)>>))

Turns(got, readers, at) ==
  got[0] = <<at, <<>>>> /\ \A k \in 1..Len(readers) : got[k] = Turn(readers[k], got[k - 1])

LEMMA TurnIs ==
  ASSUME NEW reader, NEW c \in Nat, NEW all
  PROVE  Turn(reader, <<c, all>>) =
           IF Some(reader[c]) THEN <<reader[c][1], Append(all, reader[c][2])>> ELSE nullopt
BY Successes DEF Turn, Then

LEMMA TurnOfNone == ASSUME NEW reader PROVE Turn(reader, nullopt) = nullopt
BY Successes DEF Turn, Then

LEMMA EachRuns ==
  ASSUME NEW l \in Nat, NEW S, NEW readers \in Seq(S), AllMove(readers, l),
         NEW at \in 0..l
  PROVE  \E got : Turns(got, readers, at) /\ ReadEach(readers, at) = got[Len(readers)]
<1> DEFINE n == Len(readers)
           V == {readers[k][c][2] : k \in 1..n, c \in 0..l}
           T == ((0..l) \X Seq(V)) \cup {nullopt}
           step == [k \in 1..n |-> [r \in T |-> Turn(readers[k], r)]]
           F(g) == g = [k \in 0..n |-> IF k = 0 THEN <<at, <<>>>> ELSE Turn(readers[k], g[k - 1])]
<1>1. n \in Nat
  OBVIOUS
<1>2. \A k \in 1..n : \A c \in 0..l : readers[k][c][2] \in V
  OBVIOUS
<1> HIDE DEF n, V
<1>3. /\ \A c \in 0..l : \A all \in Seq(V) : <<c, all>> \in T
      /\ nullopt \in T
      /\ \A r \in T : r # nullopt => \E c \in 0..l : \E all \in Seq(V) : r = <<c, all>>
  OBVIOUS
<1> HIDE DEF T
<1>4. ASSUME NEW k \in 1..n, NEW r \in T PROVE Turn(readers[k], r) \in T
  <2>1. CASE r = nullopt
    BY <1>3, <2>1, TurnOfNone
  <2>2. CASE r # nullopt
    <3>1. PICK c \in 0..l, all \in Seq(V) : r = <<c, all>>
      BY <1>3, <2>2
    <3> DEFINE x == readers[k][c]
    <3>2. Turn(readers[k], r) = IF Some(x) THEN <<x[1], Append(all, x[2])>> ELSE nullopt
      <4>1. c \in Nat
        OBVIOUS
      <4> QED  BY <3>1, <4>1, TurnIs
    <3>3. CASE Some(x)
      <4>1. x[1] \in c..l
        BY <3>3 DEF AllMove, Moves, n
      <4>2. x[1] \in 0..l
        BY <4>1
      <4>3. x[2] \in V
        BY <1>2
      <4> HIDE DEF x
      <4>4. Append(all, x[2]) \in Seq(V)
        BY <4>3
      <4>5. <<x[1], Append(all, x[2])>> \in T
        BY <1>3, <4>2, <4>4
      <4> QED  BY <3>2, <3>3, <4>5
    <3>4. CASE ~Some(x)
      BY <1>3, <3>2, <3>4
    <3> QED  BY <3>3, <3>4
  <2> QED  BY <2>1, <2>2
<1> DEFINE a == <<at, <<>>>>
<1>5. a \in T
  <2>1. <<>> \in Seq(V)
    OBVIOUS
  <2> QED  BY <1>3, <2>1
<1>10. PICK f \in [0..n -> T] : Runs(f, a, step, n)
  <2>1. step \in [1..n -> [T -> T]]
    BY <1>4
  <2> HIDE DEF step, a
  <2> QED  BY <1>1, <1>5, <2>1, LoopRuns
<1>11. \E g : F(g)
  <2>1. ASSUME NEW k \in 0..n
        PROVE  f[k] = IF k = 0 THEN a ELSE Turn(readers[k], f[k - 1])
    <3>1. k # 0 => k \in 1..n /\ k - 1 \in 0..n
      BY <1>1
    <3>2. k # 0 => f[k - 1] \in T
      BY <1>10, <3>1
    <3>3. f[k] = IF k = 0 THEN a ELSE step[k][f[k - 1]]
      BY <1>10 DEF Runs
    <3>4. k # 0 => step[k][f[k - 1]] = Turn(readers[k], f[k - 1])
      BY <3>1, <3>2
    <3> HIDE DEF step, a
    <3> QED  BY <3>3, <3>4
  <2>2. f = [k \in 0..n |-> IF k = 0 THEN a ELSE Turn(readers[k], f[k - 1])]
    <3> HIDE DEF a
    <3> QED  BY <1>10, <2>1
  <2> QED  BY <2>2
<1> DEFINE got == CHOOSE g : F(g)
<1>6. F(got)
  <2> HIDE DEF F
  <2> QED  BY <1>11
<1>7. ReadEach(readers, at) = got[n]
  BY DEF ReadEach, Turn, n
<1> HIDE DEF got
<1>8. got[0] = <<at, <<>>>>
  <2>1. 0 \in 0..n
    BY <1>1
  <2> QED  BY <1>6, <2>1
<1>9. ASSUME NEW k \in 1..n PROVE got[k] = Turn(readers[k], got[k - 1])
  <2>1. k \in 0..n /\ k # 0
    BY <1>1
  <2> QED  BY <1>6, <2>1
<1> QED  BY <1>7, <1>8, <1>9 DEF Turns, n

\* Readers that read things one after another.
Chain(readers, ends, xs, l) ==
  /\ Len(xs) = Len(readers) /\ xs \in Seq(ToSet(xs))
  /\ \A k \in 0..Len(readers) : ends[k] \in 0..l
  /\ \A k \in 1..Len(readers) : readers[k][ends[k - 1]] = <<ends[k], xs[k]>>

(* Readers that read one thing after another read all of them.               *)
LEMMA EachReads ==
  ASSUME NEW l \in Nat, NEW S, NEW readers \in Seq(S), AllMove(readers, l),
         NEW ends, NEW xs, Chain(readers, ends, xs, l)
  PROVE  ReadEach(readers, ends[0]) = <<ends[Len(readers)], xs>>
<1> DEFINE n == Len(readers)
           V == ToSet(xs)
<1>1. n \in Nat /\ Len(xs) = n /\ xs \in Seq(V)
  BY DEF Chain
<1>2. 0 \in 0..n /\ ends[0] \in 0..l
  BY <1>1 DEF Chain
<1>3. PICK got : Turns(got, readers, ends[0]) /\ ReadEach(readers, ends[0]) = got[n]
  BY <1>2, EachRuns
<1>8. \A k \in 0..n : ends[k] \in 0..l
  BY DEF Chain
<1>9. \A k \in 1..n : readers[k][ends[k - 1]] = <<ends[k], xs[k]>>
  BY DEF Chain
<1> HIDE DEF n, V
<1> DEFINE P == {k \in 0..n : got[k] = <<ends[k], SubSeq(xs, 1, k)>>}
<1>4. 0 \in P
  <2>1. SubSeq(xs, 1, 0) = <<>>
    BY <1>1
  <2> QED  BY <1>2, <1>3, <2>1 DEF Turns
<1>5. ASSUME NEW k \in 0..(n - 1), k \in P PROVE k + 1 \in P
  <2>1. k + 1 \in 1..n /\ k + 1 \in 0..n /\ k \in 0..n /\ (k + 1) - 1 = k
    BY <1>1
  <2>2. got[k + 1] = Turn(readers[k + 1], got[k])
    BY <1>3, <2>1 DEF Turns, n
  <2>3. readers[k + 1][ends[k]] = <<ends[k + 1], xs[k + 1]>> /\ ends[k] \in Nat /\ ends[k + 1] \in Nat
    <3>1. ends[k] \in 0..l /\ ends[k + 1] \in 0..l
      BY <1>8, <2>1
    <3>2. readers[k + 1][ends[(k + 1) - 1]] = <<ends[k + 1], xs[k + 1]>>
      BY <1>9, <2>1
    <3> QED  BY <2>1, <3>1, <3>2
  <2> DEFINE c == ends[k]
             x == readers[k + 1][c]
             all == SubSeq(xs, 1, k)
  <2>4. got[k] = <<c, all>>
    BY <1>5
  <2>5. Turn(readers[k + 1], <<c, all>>) = IF Some(x) THEN <<x[1], Append(all, x[2])>> ELSE nullopt
    BY <2>3, TurnIs
  <2>6. Some(x) /\ x[1] = ends[k + 1] /\ x[2] = xs[k + 1]
    <3>1. x = <<ends[k + 1], xs[k + 1]>>
      BY <2>3
    <3> HIDE DEF x
    <3> QED  BY <2>3, <3>1, Successes
  <2>7. Append(all, xs[k + 1]) = SubSeq(xs, 1, k + 1)
    BY <1>1, <2>1
  <2> HIDE DEF all, x, c
  <2>8. got[k + 1] = <<ends[k + 1], SubSeq(xs, 1, k + 1)>>
    BY <2>2, <2>4, <2>5, <2>6, <2>7
  <2> QED  BY <2>1, <2>8
<1>6. n \in P
  <2> HIDE DEF P
  <2>1. \A k \in 0..n : k \in P
    BY <1>1, <1>4, <1>5, InductionTo
  <2> QED  BY <1>1, <2>1
<1>7. SubSeq(xs, 1, n) = xs
  BY <1>1
<1> QED  BY <1>3, <1>6, <1>7 DEF n

\* A loop of readers from a cursor on has read k things so far, each one a V.
Fine(r, k, at, l, V) ==
  r = <<r[1], r[2]>> /\ r[1] \in at..l /\ r[2] \in Seq(V) /\ Len(r[2]) = k

\* It has just read the k-th.
Follows(reader, r, s, k) ==
  reader[r[1]] = <<s[1], s[2][k]>> /\ \A j \in 1..(k - 1) : s[2][j] = r[2][j]

LEMMA TurnFollows ==
  ASSUME NEW l \in Nat, NEW at \in Nat, NEW k \in Nat, NEW V, NEW reader, Moves(reader, l),
         \A c \in 0..l : reader[c][2] \in V,
         NEW r, Fine(r, k, at, l, V), NEW s, s = Turn(reader, r), s # nullopt
  PROVE  Fine(s, k + 1, at, l, V) /\ Follows(reader, r, s, k + 1)
<1> DEFINE c == r[1]
           all == r[2]
           x == reader[c]
<1>1. r = <<c, all>> /\ c \in at..l /\ c \in 0..l /\ c \in Nat /\ all \in Seq(V) /\ Len(all) = k
  BY DEF Fine
<1>2. x[2] \in V
  BY <1>1
<1> HIDE DEF c, all
<1>3. Turn(reader, <<c, all>>) = IF Some(x) THEN <<x[1], Append(all, x[2])>> ELSE nullopt
  BY <1>1, TurnIs
<1>4. Some(x) /\ s = <<x[1], Append(all, x[2])>>
  BY <1>1, <1>3
<1>5. x = <<x[1], x[2]>> /\ x[1] \in c..l
  BY <1>1, <1>4 DEF Moves
<1> HIDE DEF x
<1>6. s[1] = x[1] /\ s[2] = Append(all, x[2])
  BY <1>4
<1>7. s[1] \in at..l
  BY <1>1, <1>5, <1>6
<1>8. /\ Append(all, x[2]) \in Seq(V) /\ Len(Append(all, x[2])) = k + 1
      /\ Append(all, x[2])[k + 1] = x[2]
      /\ \A j \in 1..k : Append(all, x[2])[j] = all[j]
  BY <1>1, <1>2
<1>9. Fine(s, k + 1, at, l, V)
  BY <1>4, <1>6, <1>7, <1>8 DEF Fine
<1>10. reader[r[1]] = <<s[1], s[2][k + 1]>>
  BY <1>5, <1>6, <1>8 DEF x, c
<1>11. \A j \in 1..((k + 1) - 1) : s[2][j] = r[2][j]
  <2>1. (k + 1) - 1 = k
    OBVIOUS
  <2> QED  BY <1>6, <1>8, <2>1 DEF all
<1> QED  BY <1>9, <1>10, <1>11 DEF Follows

(* And if a loop of readers reads anything, it was read by one after another. *)
LEMMA EachIs ==
  ASSUME NEW l \in Nat, NEW S, NEW readers \in Seq(S), AllMove(readers, l),
         NEW at \in 0..l, Some(ReadEach(readers, at))
  PROVE  \E ends, xs : /\ Chain(readers, ends, xs, l)
                       /\ ends[0] = at /\ ends[Len(readers)] \in at..l
                       /\ ReadEach(readers, at) = <<ends[Len(readers)], xs>>
<1> DEFINE n == Len(readers)
           V == {readers[k][c][2] : k \in 1..n, c \in 0..l}
<1>1. n \in Nat
  OBVIOUS
<1>2. PICK got : Turns(got, readers, at) /\ ReadEach(readers, at) = got[n]
  BY EachRuns
<1> HIDE DEF n
<1>3. \A k \in 1..n : \A c \in 0..l : readers[k][c][2] \in V
  OBVIOUS
<1> HIDE DEF V
<1> DEFINE Fits(k) == Fine(got[k], k, at, l, V)
           After(k) == Follows(readers[k], got[k - 1], got[k], k)
           P == {k \in 0..n : got[k] = nullopt \/ (Fits(k) /\ \A j \in 1..k : Fits(j) /\ After(j))}
<1>4. Fits(0)
  <2>1. got[0] = <<at, <<>>>> /\ <<>> \in Seq(V) /\ Len(<<>>) = 0 /\ at \in at..l
    BY <1>2 DEF Turns
  <2>2. got[0][1] = at /\ got[0][2] = <<>>
    BY <2>1
  <2> QED  BY <2>1, <2>2 DEF Fine
<1>5. 0 \in P
  <2>1. 0 \in 0..n /\ 1..0 = {}
    BY <1>1
  <2> HIDE DEF Fits, After
  <2> QED  BY <1>4, <2>1
<1>6. ASSUME NEW k \in 0..(n - 1), k \in P PROVE k + 1 \in P
  <2>1. k + 1 \in 1..n /\ k + 1 \in 0..n /\ k \in 0..n /\ (k + 1) - 1 = k /\ k \in Nat
    BY <1>1
  <2>2. got[k + 1] = Turn(readers[k + 1], got[k])
    BY <1>2, <2>1 DEF Turns, n
  <2>3. CASE got[k] = nullopt
    <3>1. got[k + 1] = nullopt
      BY <2>2, <2>3, TurnOfNone
    <3> HIDE DEF Fits, After
    <3> QED  BY <2>1, <3>1
  <2>4. CASE got[k] # nullopt
    <3>1. Fits(k) /\ \A j \in 1..k : Fits(j) /\ After(j)
      <4> HIDE DEF Fits, After
      <4> QED  BY <1>6, <2>4
    <3>2. CASE got[k + 1] = nullopt
      <4> HIDE DEF Fits, After
      <4> QED  BY <2>1, <3>2
    <3>3. CASE got[k + 1] # nullopt
      <4>1. Moves(readers[k + 1], l) /\ at \in Nat /\ \A c \in 0..l : readers[k + 1][c][2] \in V
        BY <1>3, <2>1 DEF AllMove, n
      <4>2. Fine(got[k], k, at, l, V)
        BY <3>1
      <4>3. Fine(got[k + 1], k + 1, at, l, V) /\ Follows(readers[k + 1], got[k], got[k + 1], k + 1)
        BY <2>1, <2>2, <3>3, <4>1, <4>2, TurnFollows
      <4>4. Fits(k + 1) /\ After(k + 1)
        BY <2>1, <4>3
      <4>5. \A j \in 1..(k + 1) : j \in 1..k \/ j = k + 1
        BY <2>1
      <4> HIDE DEF Fits, After
      <4> QED  BY <2>1, <3>1, <4>4, <4>5
    <3> QED  BY <3>2, <3>3
  <2> QED  BY <2>3, <2>4
<1>7. n \in P
  <2> HIDE DEF P
  <2>1. \A k \in 0..n : k \in P
    BY <1>1, <1>5, <1>6, InductionTo
  <2> QED  BY <1>1, <2>1
<1>8. Fits(n) /\ \A j \in 1..n : Fits(j) /\ After(j)
  <2>1. got[n] # nullopt
    BY <1>2, Successes
  <2> HIDE DEF Fits, After
  <2> QED  BY <1>7, <2>1
<1>9. /\ \A k \in 0..n : Fine(got[k], k, at, l, V)
      /\ \A k \in 1..n : Follows(readers[k], got[k - 1], got[k], k)
  <2>1. \A k \in 0..n : k = 0 \/ k \in 1..n
    BY <1>1
  <2> QED  BY <1>4, <1>8, <2>1
<1> DEFINE ends == [k \in 0..n |-> got[k][1]]
           xs == got[n][2]
<1>10. n \in 0..n /\ 0 \in 0..n /\ \A k \in 0..n : ends[k] = got[k][1]
  BY <1>1
<1> HIDE DEF ends
<1>11. xs \in Seq(V) /\ Len(xs) = n /\ got[n] = <<ends[n], xs>>
  BY <1>9, <1>10 DEF Fine
<1>12. ends[0] = at
  <2>1. got[0][1] = at
    BY <1>2 DEF Turns
  <2> QED  BY <1>10, <2>1
<1>13. \A k \in 0..n : ends[k] \in at..l
  BY <1>9, <1>10 DEF Fine
\* An item stays where it was read to.
<1>14. ASSUME NEW k \in 1..n PROVE xs[k] = got[k][2][k]
  <2> DEFINE Q == {m \in 0..n : m >= k => got[m][2][k] = got[k][2][k]}
  <2>1. 0 \in Q
    BY <1>1
  <2>2. ASSUME NEW m \in 0..(n - 1), m \in Q PROVE m + 1 \in Q
    <3>1. m + 1 \in 1..n /\ m + 1 \in 0..n /\ (m + 1) - 1 = m
      BY <1>1
    <3>2. \A j \in 1..m : got[m + 1][2][j] = got[m][2][j]
      BY <1>9, <3>1 DEF Follows
    <3>3. m + 1 >= k => m + 1 = k \/ (k \in 1..m /\ m >= k)
      BY <1>1
    <3>4. k \in 1..m /\ m >= k => got[m + 1][2][k] = got[k][2][k]
      BY <2>2, <3>2
    <3> QED  BY <3>1, <3>3, <3>4
  <2>3. n \in Q
    <3> HIDE DEF Q
    <3>1. \A m \in 0..n : m \in Q
      BY <1>1, <2>1, <2>2, InductionTo
    <3> QED  BY <1>1, <3>1
  <2>4. n >= k
    BY <1>1
  <2> QED  BY <2>3, <2>4
<1>15. ASSUME NEW k \in 1..n PROVE readers[k][ends[k - 1]] = <<ends[k], xs[k]>>
  <2>1. k - 1 \in 0..n /\ k \in 0..n
    BY <1>1
  <2>2. ends[k - 1] = got[k - 1][1] /\ ends[k] = got[k][1]
    BY <1>10, <2>1
  <2>3. readers[k][got[k - 1][1]] = <<got[k][1], got[k][2][k]>>
    BY <1>9 DEF Follows
  <2> HIDE DEF xs
  <2> QED  BY <1>14, <2>2, <2>3
<1>16. xs \in Seq(ToSet(xs))
  <2> HIDE DEF xs
  <2> QED  BY <1>11 DEF ToSet
<1> HIDE DEF xs
<1>17. \A k \in 0..n : ends[k] \in 0..l
  <2> SUFFICES ASSUME NEW k \in 0..n PROVE ends[k] \in 0..l
    OBVIOUS
  <2>1. ends[k] \in at..l
    BY <1>13
  <2> QED  BY <2>1
<1>18. Chain(readers, ends, xs, l)
  BY <1>11, <1>15, <1>16, <1>17 DEF Chain, n
<1>19. ends[n] \in at..l
  BY <1>10, <1>13
<1> QED  BY <1>2, <1>11, <1>12, <1>18, <1>19 DEF n
-----------------------------------------------------------------------------
(* A count and what is counted *)

LEMMA FitsIs ==
  ASSUME NEW a \in Nat, NEW m \in Nat \ {0}, NEW n \in Nat
  PROVE  n <= a \div m <=> m * n <= a
<1> DEFINE q == a \div m
           r == a % m
<1>1. q \in Nat /\ r \in 0..(m - 1) /\ a = m * q + r
  OBVIOUS
<1> HIDE DEF q, r
<1>2. ASSUME n <= q PROVE m * n <= a
  <2>1. q - n \in Nat
    BY <1>1, <1>2
  <2>2. m * (q - n) >= 0
    BY <2>1
  <2>3. m * (q - n) = m * q - m * n
    BY <1>1
  <2> QED  BY <1>1, <2>2, <2>3
<1>3. ASSUME q < n PROVE a < m * n
  <2>1. n - (q + 1) \in Nat
    BY <1>1, <1>3
  <2>2. m * (n - (q + 1)) >= 0
    BY <2>1
  <2>3. m * (n - (q + 1)) = m * n - m * q - m
    BY <1>1
  <2> QED  BY <1>1, <2>2, <2>3
<1>4. m * n \in Int
  OBVIOUS
<1>5. n <= q <=> m * n <= a
  BY <1>1, <1>2, <1>3, <1>4
<1> QED  BY <1>5 DEF q

LEMMA SeqOfItself == ASSUME NEW V, NEW s \in Seq(V) PROVE s \in Seq(ToSet(s))
BY DEF ToSet

LEMMA UnsignedIs ==
  ASSUME NEW n \in Nat, NEW v
  PROVE  v \in Unsigned(n) <=> v \in Nat /\ v < mask(n)
<1>1. mask(n) \in Nat
  BY MaskFacts
<1> QED  BY <1>1 DEF Unsigned

LEMMA WidthsAreNat ==
  /\ CharBits \in Nat \ {0} /\ CountBits \in Nat /\ CountBits > 0
  /\ \A t \in {B8, B32, B64} : PayloadBits[t + 1] \in Nat /\ PayloadBits[t + 1] >= PayloadBits[1]
  /\ PayloadBits[1] \in Nat /\ PayloadBits[1] > 0
  /\ HeaderBits + PayloadBits[1] <= CountBits
BY CodecAssumption DEF B8, B32, B64, HeaderBits

\* What parts encode, a reader reads.
Decodes(read, in, xs, parts) ==
  \A k \in 1..Len(xs) : \A c \in Nat : Ahead(in, c, parts[k]) => read[c] = <<c + Len(parts[k]), xs[k]>>

\* Parts of at least m bits.
Wide(parts, m) == \A k \in 1..Len(parts) : Len(parts[k]) >= m

\* Where the one reader reads something, the other reads the same.
Agree(read, read2, l) == \A c \in 0..l : Some(read[c]) => read2[c] = read[c]

\* Things that a reader reads, each somewhere.
FoundIn(xs, read, l) == \A k \in 1..Len(xs) : \E c \in 0..l : Some(read[c]) /\ xs[k] = read[c][2]

LEMMA UintBits ==
  ASSUME NEW n \in Nat, NEW v \in Unsigned(n)
  PROVE  writeUint(v, n) \in Seq(Bit) /\ Len(writeUint(v, n)) = n
<1>1. <<>> \in Seq(Bit) /\ 0 \in Nat
  OBVIOUS
<1> QED  BY <1>1, UintReadsBack

(* What was written with its count before it is read back with it.           *)
LEMMA CountedReads ==
  ASSUME NEW in \in Seq(Bit), NEW at \in Nat, NEW read, Moves(read, Len(in)), NEW m \in Nat \ {0},
         NEW V, NEW xs \in Seq(V), Countable(Len(xs)),
         NEW parts \in Seq(Seq(Bit)), Len(parts) = Len(xs),
         Wide(parts, m), Decodes(read, in, xs, parts),
         Ahead(in, at, writeUint(Len(xs), CountBits) \o FlattenSeq(parts))
  PROVE  ReadCounted(read, m, in, at) = <<at + CountBits + Len(FlattenSeq(parts)), xs>>
<1> DEFINE n == Len(xs)
           l == Len(in)
           count == writeUint(n, CountBits)
           joined == FlattenSeq(parts)
           c == at + CountBits
           readers == [k \in 1..n |-> read]
<1>1. n \in Nat /\ l \in Nat /\ CountBits \in Nat /\ c \in Nat /\ n \in Unsigned(CountBits)
  <2>1. n \in Nat /\ l \in Nat
    OBVIOUS
  <2>2. CountBits \in Nat
    BY WidthsAreNat
  <2> HIDE DEF n, l
  <2>3. n \in Unsigned(CountBits)
    BY <2>1, <2>2, UnsignedIs DEF Countable, n
  <2> QED  BY <2>1, <2>2, <2>3
<1>2. joined \in Seq(Bit) /\ Len(joined) \in Nat
  BY JoinIsParts
<1>3. count \in Seq(Bit) /\ Len(count) = CountBits
  BY <1>1, UintReadsBack
<1>4. Ahead(in, at, count) /\ Ahead(in, c, joined)
  <2> HIDE DEF count, joined, n, l
  <2>1. Len(in) \in Nat
    OBVIOUS
  <2>2. Ahead(in, at, count \o joined)
    BY DEF count, joined, n
  <2> QED  BY <1>2, <1>3, <2>1, <2>2, AheadSplits
<1>5. readUint(in, at, CountBits) = <<c, n>>
  BY <1>1, <1>4, UintReadsBack
<1>6. PICK ends : /\ PartsEnd(ends, c, parts) /\ ends[Len(parts)] = c + Len(joined)
                  /\ ends[Len(parts)] <= l
                  /\ \A k \in 1..Len(parts) : ends[k] <= l /\ Ahead(in, ends[k - 1], parts[k])
  <2>1. Len(in) \in Nat
    OBVIOUS
  <2> HIDE DEF c
  <2> QED  BY <1>1, <1>4, <2>1, PartsAhead
<1> HIDE DEF n, l, joined, c, count
<1>7. fitsCount(in, c, n, m)
  <2>1. Len(joined) >= m * n
    BY JoinedIsLong DEF n, joined, Wide
  <2>2. c + Len(joined) <= l
    BY <1>4 DEF Ahead, l
  <2>3. l - c \in Nat /\ m * n \in Nat /\ m * n <= l - c
    BY <1>1, <1>2, <2>1, <2>2
  <2>4. n <= (l - c) \div m
    BY <1>1, <2>3, FitsIs
  <2> QED  BY <2>4 DEF fitsCount, l
<1>8. readers \in Seq({read}) /\ Len(readers) = n /\ \A k \in 1..n : readers[k] = read
  BY <1>1
<1> HIDE DEF readers
<1>9. /\ ends[0] = c
      /\ \A k \in 1..n : /\ ends[k] <= l /\ Ahead(in, ends[k - 1], parts[k])
                         /\ ends[k] = ends[k - 1] + Len(parts[k])
      /\ \A k \in 0..n : ends[k] \in Nat
      /\ ends[n] = c + Len(joined)
  BY <1>6 DEF PartsEnd, n
<1>10. ASSUME NEW k \in 0..n PROVE ends[k] \in 0..l
  <2>1. ends[k] \in Nat
    BY <1>9
  <2>2. ends[k] <= l
    <3>1. CASE k = 0
      <4>1. c <= l
        BY <1>1, <1>2, <1>4 DEF Ahead, l
      <4> QED  BY <1>9, <3>1, <4>1
    <3>2. CASE k # 0
      <4>1. k \in 1..n
        BY <1>1, <3>2
      <4> QED  BY <1>9, <4>1
    <3> QED  BY <3>1, <3>2
  <2> QED  BY <1>1, <2>1, <2>2
<1>11. ASSUME NEW k \in 1..n PROVE readers[k][ends[k - 1]] = <<ends[k], xs[k]>>
  <2>1. k - 1 \in 0..n /\ k \in 1..Len(xs)
    BY <1>1 DEF n
  <2>2. ends[k - 1] \in Nat /\ Ahead(in, ends[k - 1], parts[k]) /\ ends[k] = ends[k - 1] + Len(parts[k])
    BY <1>9, <2>1
  <2>3. read[ends[k - 1]] = <<ends[k - 1] + Len(parts[k]), xs[k]>>
    BY <2>1, <2>2 DEF Decodes
  <2> QED  BY <1>8, <2>2, <2>3
<1>12. ReadEach(readers, ends[0]) = <<ends[n], xs>>
  <2>1. AllMove(readers, l)
    BY <1>8 DEF AllMove, l
  <2>2. Len(xs) = Len(readers) /\ xs \in Seq(ToSet(xs))
    BY <1>8, SeqOfItself DEF n
  <2>3. \A k \in 0..Len(readers) : ends[k] \in 0..l
    BY <1>8, <1>10
  <2>4. \A k \in 1..Len(readers) : readers[k][ends[k - 1]] = <<ends[k], xs[k]>>
    BY <1>8, <1>11
  <2>5. Chain(readers, ends, xs, l)
    BY <2>2, <2>3, <2>4 DEF Chain
  <2>6. ReadEach(readers, ends[0]) = <<ends[Len(readers)], xs>>
    BY <1>1, <1>8, <2>1, <2>5, EachReads
  <2> QED  BY <1>8, <2>6
<1>13. ReadCounted(read, m, in, at) = ReadEach(readers, c)
  <2>1. Some(<<c, n>>)
    BY <1>1, Successes
  <2> QED  BY <1>5, <1>7, <2>1 DEF ReadCounted, Then, readers
<1> QED  BY <1>9, <1>12, <1>13 DEF c, joined

\* Readers that agree, one by one.
AllAgree(readers, readers2, l) ==
  /\ Len(readers2) = Len(readers)
  /\ \A k \in 1..Len(readers) : Agree(readers[k], readers2[k], l)

\* Things that the readers read, each somewhere.
EachFound(xs, readers, l) ==
  /\ xs \in Seq(ToSet(xs)) /\ Len(xs) = Len(readers)
  /\ \A k \in 1..Len(readers) : \E c \in 0..l : Some(readers[k][c]) /\ xs[k] = readers[k][c][2]

(* What a loop of readers reads, it reads where more follows.                *)
LEMMA EachSettles ==
  ASSUME NEW in, NEW more, Begins(in, more), NEW at \in 0..Len(in),
         NEW S, NEW readers \in Seq(S), AllMove(readers, Len(in)),
         NEW S2, NEW readers2 \in Seq(S2), AllMove(readers2, Len(more)),
         AllAgree(readers, readers2, Len(in)),
         NEW r, r = ReadEach(readers, at), Some(r)
  PROVE  Settled(r, ReadEach(readers2, at), in, at) /\ EachFound(r[2], readers, Len(in))
<1> DEFINE l == Len(in)
           l2 == Len(more)
           n == Len(readers)
<1>1. l \in Nat /\ l2 \in Nat /\ l <= l2 /\ n \in Nat /\ Len(readers2) = n
  BY DEF Begins, AllAgree
<1> HIDE DEF l, l2, n
<1>2. PICK ends, xs : /\ Chain(readers, ends, xs, l)
                      /\ ends[0] = at /\ ends[n] \in at..l
                      /\ r = <<ends[n], xs>>
  BY <1>1, EachIs DEF l, n
<1>3. /\ Len(xs) = n /\ xs \in Seq(ToSet(xs))
      /\ \A k \in 0..n : ends[k] \in 0..l
      /\ \A k \in 1..n : readers[k][ends[k - 1]] = <<ends[k], xs[k]>>
  BY <1>2 DEF Chain, n
<1>4. ASSUME NEW k \in 0..n PROVE ends[k] \in 0..l /\ ends[k] \in 0..l2 /\ ends[k] \in Nat
  <2>1. ends[k] \in 0..l
    BY <1>3
  <2> QED  BY <1>1, <2>1
<1>5. ASSUME NEW k \in 1..n
      PROVE  /\ ends[k - 1] \in 0..l /\ Some(readers[k][ends[k - 1]])
             /\ readers2[k][ends[k - 1]] = <<ends[k], xs[k]>>
             /\ xs[k] = readers[k][ends[k - 1]][2]
  <2>1. k - 1 \in 0..n /\ k \in 0..n
    BY <1>1
  <2>2. ends[k - 1] \in 0..l /\ ends[k] \in Nat
    BY <1>4, <2>1
  <2>3. Some(<<ends[k], xs[k]>>)
    BY <2>2, Successes
  <2>4. readers[k][ends[k - 1]] = <<ends[k], xs[k]>>
    BY <1>3
  <2>5. readers2[k][ends[k - 1]] = readers[k][ends[k - 1]]
    <3>1. Agree(readers[k], readers2[k], l)
      BY DEF AllAgree, n, l
    <3> QED  BY <2>2, <2>3, <2>4, <3>1 DEF Agree
  <2>6. <<ends[k], xs[k]>>[2] = xs[k]
    OBVIOUS
  <2> QED  BY <2>2, <2>3, <2>4, <2>5, <2>6
<1>6. ReadEach(readers2, at) = r
  <2>1. Chain(readers2, ends, xs, l2)
    BY <1>1, <1>3, <1>4, <1>5 DEF Chain
  <2>2. ReadEach(readers2, ends[0]) = <<ends[n], xs>>
    BY <1>1, <2>1, EachReads DEF l2
  <2> QED  BY <1>2, <2>2
<1>7. r[1] = ends[n] /\ r[2] = xs
  BY <1>2
<1>8. Settled(r, ReadEach(readers2, at), in, at)
  BY <1>2, <1>6, <1>7 DEF Settled, l
<1>9. EachFound(xs, readers, Len(in))
  BY <1>3, <1>5 DEF EachFound, l, n
<1> QED  BY <1>7, <1>8, <1>9

(* What is read with its count is as many things as it says, and it is read  *)
(* the same where more follows.                                              *)
LEMMA CountedSettles ==
  ASSUME NEW in, NEW more, Begins(in, more), NEW at \in 0..Len(in), NEW m \in Nat \ {0},
         NEW read, NEW read2, Moves(read, Len(in)), Moves(read2, Len(more)),
         Agree(read, read2, Len(in)),
         NEW r, r = ReadCounted(read, m, in, at), Some(r)
  PROVE  /\ Settled(r, ReadCounted(read2, m, more, at), in, at)
         /\ r[2] \in Seq(ToSet(r[2])) /\ Countable(Len(r[2]))
         /\ FoundIn(r[2], read, Len(in))
<1> DEFINE l == Len(in)
           l2 == Len(more)
           u == readUint(in, at, CountBits)
           c == at + CountBits
           n == u[2]
           readers == [k \in 1..n |-> read]
           readers2 == [k \in 1..n |-> read2]
<1>1. l \in Nat /\ l2 \in Nat /\ l <= l2 /\ CountBits \in Nat /\ at \in Nat
  BY WidthsAreNat DEF Begins
<1>2. Some(u) /\ fitsCount(in, u[1], n, m) /\ r = ReadEach(readers, u[1])
  BY Successes DEF ReadCounted, Then
<1>3. /\ readUint(more, at, CountBits) = u /\ u = <<c, n>> /\ c \in at..l /\ n \in Unsigned(CountBits)
  BY <1>1, <1>2, UintIsRead
<1> HIDE DEF l, l2, u, n, c
<1>4. n \in Nat /\ Countable(n) /\ u[1] = c /\ c \in 0..l /\ c \in 0..l2
  <2>1. n \in Nat /\ Countable(n)
    BY <1>1, <1>3, UnsignedIs DEF Countable
  <2>2. u[1] = c
    BY <1>3
  <2>3. c \in 0..l /\ c \in 0..l2
    BY <1>1, <1>3
  <2> QED  BY <2>1, <2>2, <2>3
<1>5. fitsCount(more, c, n, m)
  <2>1. n <= (l - c) \div m
    BY <1>2, <1>4 DEF fitsCount, l
  <2>2. l - c \in Nat /\ l2 - c \in Nat /\ l - c <= l2 - c
    BY <1>1, <1>4
  <2>3. m * n <= l - c /\ m * n \in Nat
    BY <1>4, <2>1, <2>2, FitsIs
  <2>4. m * n <= l2 - c
    BY <2>2, <2>3
  <2>5. n <= (l2 - c) \div m
    BY <1>4, <2>2, <2>4, FitsIs
  <2> QED  BY <2>5 DEF fitsCount, l2
<1>6. /\ readers \in Seq({read}) /\ Len(readers) = n /\ \A k \in 1..n : readers[k] = read
      /\ readers2 \in Seq({read2}) /\ Len(readers2) = n /\ \A k \in 1..n : readers2[k] = read2
  BY <1>4
<1>7. ReadCounted(read2, m, more, at) = ReadEach(readers2, c)
  BY <1>2, <1>3, <1>4, <1>5 DEF ReadCounted, Then
<1> HIDE DEF readers, readers2
<1>8. r = ReadEach(readers, c)
  BY <1>2, <1>4
<1>9. Settled(r, ReadEach(readers2, c), in, c) /\ EachFound(r[2], readers, l)
  <2>1. AllMove(readers, l) /\ AllMove(readers2, l2) /\ AllAgree(readers, readers2, l)
    BY <1>6 DEF AllMove, AllAgree, l, l2
  <2> QED  BY <1>4, <1>6, <1>8, <2>1, EachSettles DEF l, l2
<1>10. Settled(r, ReadCounted(read2, m, more, at), in, at)
  <2>1. ReadEach(readers2, c) = r /\ r = <<r[1], r[2]>> /\ r[1] \in c..l
    BY <1>9 DEF Settled, l
  <2>2. r[1] \in at..l
    BY <1>1, <1>3, <2>1
  <2> QED  BY <1>7, <2>1, <2>2 DEF Settled, l
<1>11. r[2] \in Seq(ToSet(r[2])) /\ Len(r[2]) = n /\ FoundIn(r[2], read, Len(in))
  BY <1>6, <1>9 DEF EachFound, FoundIn, l
<1> QED  BY <1>4, <1>10, <1>11
-----------------------------------------------------------------------------
(* Leaves *)

LEMMA SameBegins == ASSUME NEW in \in Seq(Bit) PROVE Begins(in, in)
BY DEF Begins

LEMMA Codes ==
  /\ B8 = 0 /\ B32 = 1 /\ B64 = 2 /\ STR = 3 /\ PAIR = 4 /\ VEC = 5 /\ MAP = 6 /\ none = 7
  /\ Leaves = {0, 1, 2, 3} /\ Items = {0, 1, 2, 3, 4} /\ Objects = {0, 1, 2, 3, 4, 5, 6}
  /\ Leaves \ {STR} = {0, 1, 2}
BY DEF B8, B32, B64, STR, PAIR, VEC, MAP, none, Leaves, Items, Objects

\* A number of each type fits its bits.
LEMMA TypesFit == TypeBits \in Nat /\ Unsigned(TypeBits) = 0..7
<1>1. mask(0) = 1 /\ mask(1) = 2 * mask(0) /\ mask(2) = 2 * mask(1) /\ mask(3) = 2 * mask(2)
  <2>1. mask(0 + 1) = 2 * mask(0) /\ mask(1 + 1) = 2 * mask(1) /\ mask(2 + 1) = 2 * mask(2)
    BY 0 \in Nat, 1 \in Nat, 2 \in Nat, MaskFacts
  <2>2. 0 + 1 = 1 /\ 1 + 1 = 2 /\ 2 + 1 = 3
    OBVIOUS
  <2> QED  BY <2>1, <2>2, MaskFacts
<1>2. mask(3) = 8
  BY <1>1
<1> QED  BY <1>2 DEF Unsigned, TypeBits

LEMMA ScalarIs ==
  ASSUME NEW t \in {0, 1, 2}, NEW h, NEW p
  PROVE  from_bitset(t, h, p) = nullopt \/ from_bitset(t, h, p) = <<t, h, p>>
BY Codes DEF from_bitset, from_bitset8, from_bitset32, from_bitset64, bin8, bin32, bin64

LEMMA ScalarBits ==
  ASSUME NEW o, IsScalar(o)
  PROVE  /\ o[1] \in {0, 1, 2} /\ o = <<o[1], o[2], o[3]>>
         /\ o[2] \in Unsigned(HeaderBits) /\ o[3] \in Unsigned(PayloadBits[o[1] + 1])
         /\ writeScalar(o) \in Seq(Bit) /\ Len(writeScalar(o)) = HeaderBits + PayloadBits[o[1] + 1]
<1>1. /\ o[1] \in {0, 1, 2} /\ o = from_bitset(o[1], o[2], o[3])
      /\ o[2] \in Unsigned(HeaderBits) /\ o[3] \in Unsigned(PayloadBits[o[1] + 1])
  BY Codes DEF IsScalar
<1>2. o = <<o[1], o[2], o[3]>>
  <2>1. o # nullopt
    BY <1>1 DEF nullopt
  <2> QED  BY <1>1, <2>1, ScalarIs
<1>3. HeaderBits \in Nat /\ PayloadBits[o[1] + 1] \in Nat
  BY <1>1, WidthsAreNat, Codes DEF HeaderBits
<1> DEFINE a == writeUint(o[2], HeaderBits)
           b == writeUint(o[3], PayloadBits[o[1] + 1])
<1>4. a \in Seq(Bit) /\ Len(a) = HeaderBits
  BY <1>1, <1>3, UintBits
<1>5. b \in Seq(Bit) /\ Len(b) = PayloadBits[o[1] + 1]
  BY <1>1, <1>3, UintBits
<1>6. writeScalar(o) = a \o b
  BY DEF writeScalar
<1> HIDE DEF a, b
<1>7. a \o b \in Seq(Bit) /\ Len(a \o b) = Len(a) + Len(b)
  BY <1>4, <1>5, ConcatIs
<1> QED  BY <1>1, <1>2, <1>4, <1>5, <1>6, <1>7

LEMMA ScalarReads ==
  ASSUME NEW in \in Seq(Bit), NEW at \in Nat, NEW o, IsScalar(o), Ahead(in, at, writeScalar(o))
  PROVE  readScalar(o[1], in, at) = <<at + Len(writeScalar(o)), o>>
<1> DEFINE t == o[1]
           w == PayloadBits[t + 1]
           a == writeUint(o[2], HeaderBits)
           b == writeUint(o[3], w)
           c == at + HeaderBits
<1>1. /\ t \in {0, 1, 2} /\ o[2] \in Unsigned(HeaderBits) /\ o[3] \in Unsigned(w)
      /\ Len(writeScalar(o)) = HeaderBits + w
  BY ScalarBits
<1>2. HeaderBits \in Nat /\ w \in Nat /\ c \in Nat /\ Len(in) \in Nat
  BY <1>1, WidthsAreNat, Codes DEF HeaderBits
<1>3. a \in Seq(Bit) /\ Len(a) = HeaderBits /\ b \in Seq(Bit)
  BY <1>1, <1>2, UintReadsBack
<1>4. Ahead(in, at, a) /\ Ahead(in, c, b)
  <2>1. Ahead(in, at, a \o b)
    BY DEF writeScalar
  <2> HIDE DEF a, b
  <2> QED  BY <1>2, <1>3, <2>1, AheadSplits
<1>5. readUint(in, at, HeaderBits) = <<c, o[2]>>
  BY <1>1, <1>2, <1>4, UintReadsBack
<1>6. readUint(in, c, w) = <<c + w, o[3]>> /\ c + w \in Nat
  <2> HIDE DEF c, w
  <2> QED  BY <1>1, <1>2, <1>4, UintReadsBack
<1>7. o = from_bitset(t, o[2], o[3]) /\ Some(o)
  BY <1>1 DEF IsScalar, Some
<1> HIDE DEF t, w, a, b, c
<1>8. Some(<<c, o[2]>>) /\ Some(<<c + w, o[3]>>)
  BY <1>2, <1>6, Successes
<1>9. readScalar(t, in, at) = <<c + w, o>>
  BY <1>5, <1>6, <1>7, <1>8 DEF readScalar, Then, w
<1>10. c + w = at + (HeaderBits + w)
  BY <1>2 DEF c
<1> QED  BY <1>1, <1>9, <1>10 DEF t, w

LEMMA ScalarSettles ==
  ASSUME NEW in, NEW more, Begins(in, more), NEW at \in 0..Len(in), NEW t \in {0, 1, 2},
         NEW r, r = readScalar(t, in, at), Some(r)
  PROVE  Settled(r, readScalar(t, more, at), in, at) /\ IsScalar(r[2]) /\ r[2][1] = t
<1> DEFINE w == PayloadBits[t + 1]
           u == readUint(in, at, HeaderBits)
           c == at + HeaderBits
           v == readUint(in, c, w)
           o == from_bitset(t, u[2], v[2])
<1>1. HeaderBits \in Nat /\ w \in Nat /\ Len(in) \in Nat /\ at \in Nat
  BY WidthsAreNat, Codes DEF HeaderBits, Begins
<1>2. Some(u)
  BY Successes DEF readScalar, Then
<1>3. /\ readUint(more, at, HeaderBits) = u /\ u = <<c, u[2]>> /\ c \in at..Len(in)
      /\ u[2] \in Unsigned(HeaderBits)
  BY <1>1, <1>2, UintIsRead
<1>4. u[1] = c /\ c \in Nat
  BY <1>1, <1>3
<1> HIDE DEF u, c, w
<1>5. Some(v) /\ Some(o) /\ r = <<v[1], o>>
  BY <1>2, <1>4, Successes DEF readScalar, Then, u, w
<1>6. readUint(more, c, w) = v /\ v = <<c + w, v[2]>> /\ c + w \in c..Len(in) /\ v[2] \in Unsigned(w)
  <2> HIDE DEF o
  <2> QED  BY <1>1, <1>4, <1>5, UintIsRead
<1> HIDE DEF v
<1>7. readScalar(t, more, at) = <<v[1], o>>
  BY <1>2, <1>3, <1>4, <1>5, <1>6 DEF readScalar, Then, w
<1>8. o = <<t, u[2], v[2]>>
  <2>1. o # nullopt
    BY <1>5, Successes
  <2> QED  BY <2>1, ScalarIs
<1>9. IsScalar(o) /\ o[1] = t
  <2>1. o[1] = t /\ o[2] = u[2] /\ o[3] = v[2] /\ t \in Leaves \ {STR}
    BY <1>8, Codes
  <2>2. o = from_bitset(o[1], o[2], o[3])
    BY <2>1
  <2> HIDE DEF o
  <2> QED  BY <1>3, <1>6, <2>1, <2>2 DEF IsScalar, w
<1> HIDE DEF o
<1>10. v[1] \in at..Len(in)
  <2>1. v[1] = c + w
    BY <1>6
  <2> QED  BY <1>1, <1>3, <1>6, <2>1
<1> QED  BY <1>5, <1>7, <1>9, <1>10 DEF Settled
-----------------------------------------------------------------------------
(* Strings *)

CharReader(in) == [c \in Cursors(in) |-> readUint(in, c, CharBits)]

LEMMA CharsMove ==
  ASSUME NEW in, NEW more, Begins(in, more)
  PROVE  /\ Moves(CharReader(in), Len(in))
         /\ \A c \in 0..Len(in) : Some(CharReader(in)[c]) =>
              CharReader(more)[c] = CharReader(in)[c] /\ CharReader(in)[c][2] \in Unsigned(CharBits)
<1>1. CharBits \in Nat /\ Len(in) \in Nat /\ Len(more) \in Nat /\ Len(in) <= Len(more)
  BY WidthsAreNat DEF Begins
<1> SUFFICES ASSUME NEW c \in 0..Len(in), Some(CharReader(in)[c])
             PROVE  /\ CharReader(in)[c] = <<CharReader(in)[c][1], CharReader(in)[c][2]>>
                    /\ CharReader(in)[c][1] \in c..Len(in)
                    /\ CharReader(more)[c] = CharReader(in)[c]
                    /\ CharReader(in)[c][2] \in Unsigned(CharBits)
  BY DEF Moves
<1> DEFINE r == readUint(in, c, CharBits)
<1>2. CharReader(in)[c] = r /\ CharReader(more)[c] = readUint(more, c, CharBits) /\ c \in Nat
  BY <1>1 DEF CharReader, Cursors
<1>3. Some(r)
  BY <1>2
<1>4. /\ readUint(more, c, CharBits) = r /\ r = <<c + CharBits, r[2]>> /\ c + CharBits \in c..Len(in)
      /\ r[2] \in Unsigned(CharBits)
  BY <1>1, <1>2, <1>3, UintIsRead
<1> HIDE DEF r
<1>5. r[1] = c + CharBits
  BY <1>4
<1> QED  BY <1>2, <1>4, <1>5

CharParts(chars) == [i \in DOMAIN chars |-> writeUint(chars[i], CharBits)]

LEMMA CharPartsAre ==
  ASSUME NEW chars \in Seq(Unsigned(CharBits))
  PROVE  /\ CharParts(chars) \in Seq(Seq(Bit)) /\ Len(CharParts(chars)) = Len(chars)
         /\ \A k \in 1..Len(chars) : CharParts(chars)[k] = writeUint(chars[k], CharBits)
                                     /\ Len(CharParts(chars)[k]) = CharBits
<1> DEFINE n == Len(chars)
           V == Unsigned(CharBits)
<1>1. n \in Nat /\ DOMAIN chars = 1..n /\ \A k \in 1..n : chars[k] \in V
  BY DEF V
<1> HIDE DEF n, V
<1>2. ASSUME NEW k \in 1..n
      PROVE  writeUint(chars[k], CharBits) \in Seq(Bit) /\ Len(writeUint(chars[k], CharBits)) = CharBits
  BY <1>1, WidthsAreNat, UintBits DEF V
<1>3. CharParts(chars) = [k \in 1..n |-> writeUint(chars[k], CharBits)]
  BY <1>1 DEF CharParts
<1>4. CharParts(chars) \in [1..n -> Seq(Bit)]
  BY <1>2, <1>3
<1>5. CharParts(chars) \in Seq(Seq(Bit)) /\ Len(CharParts(chars)) = n
  BY <1>1, <1>4, LenProperties
<1> QED  BY <1>2, <1>3, <1>5 DEF n

LEMMA StringBits ==
  ASSUME NEW o, IsString(o)
  PROVE  /\ o = <<STR, o[2]>> /\ o[2] \in Seq(Unsigned(CharBits)) /\ Countable(Len(o[2]))
         /\ writeString(o) = writeUint(Len(o[2]), CountBits) \o FlattenSeq(CharParts(o[2]))
         /\ writeString(o) \in Seq(Bit)
         /\ Len(writeString(o)) = CountBits + Len(FlattenSeq(CharParts(o[2])))
         /\ Len(writeString(o)) >= CountBits
<1>1. o = <<STR, o[2]>> /\ o[2] \in Seq(Unsigned(CharBits)) /\ Countable(Len(o[2]))
  BY DEF IsString
<1> DEFINE a == writeUint(Len(o[2]), CountBits)
           b == FlattenSeq(CharParts(o[2]))
<1>2. writeString(o) = a \o b
  BY DEF writeString, CharParts
<1>3. a \in Seq(Bit) /\ Len(a) = CountBits
  <2>1. Len(o[2]) \in Nat
    BY <1>1
  <2>2. Len(o[2]) \in Unsigned(CountBits)
    BY <1>1, <2>1, WidthsAreNat, UnsignedIs DEF Countable
  <2> QED  BY <2>2, WidthsAreNat, UintBits
<1>4. b \in Seq(Bit) /\ Len(b) \in Nat
  BY <1>1, CharPartsAre, JoinIsParts
<1> HIDE DEF a, b
<1>5. a \o b \in Seq(Bit) /\ Len(a \o b) = Len(a) + Len(b)
  BY <1>3, <1>4, ConcatIs
<1>6. Len(a \o b) >= CountBits
  BY <1>3, <1>4, <1>5, WidthsAreNat
<1> QED  BY <1>1, <1>2, <1>3, <1>5, <1>6 DEF a, b

LEMMA StringReads ==
  ASSUME NEW in \in Seq(Bit), NEW at \in Nat, NEW o, IsString(o), Ahead(in, at, writeString(o))
  PROVE  readString(in, at) = <<at + Len(writeString(o)), o>>
<1> DEFINE chars == o[2]
           parts == CharParts(chars)
           V == Unsigned(CharBits)
           read == CharReader(in)
<1>1. o = <<STR, chars>> /\ chars \in Seq(V) /\ Countable(Len(chars))
  BY StringBits
<1>2. Ahead(in, at, writeUint(Len(chars), CountBits) \o FlattenSeq(parts))
  BY StringBits
<1>3. Len(writeString(o)) = CountBits + Len(FlattenSeq(parts))
  BY StringBits
<1>4. /\ parts \in Seq(Seq(Bit)) /\ Len(parts) = Len(chars)
      /\ \A k \in 1..Len(chars) : parts[k] = writeUint(chars[k], CharBits) /\ Len(parts[k]) = CharBits
  BY <1>1, CharPartsAre
<1>5. Moves(read, Len(in))
  BY SameBegins, CharsMove
<1>6. Decodes(read, in, chars, parts)
  <2> SUFFICES ASSUME NEW k \in 1..Len(chars), NEW c \in Nat, Ahead(in, c, parts[k])
               PROVE  read[c] = <<c + Len(parts[k]), chars[k]>>
    BY DEF Decodes
  <2>1. chars[k] \in V /\ CharBits \in Nat
    BY <1>1, WidthsAreNat
  <2>2. readUint(in, c, CharBits) = <<c + CharBits, chars[k]>>
    BY <1>4, <2>1, UintReadsBack
  <2>3. c \in Cursors(in)
    <3>1. c + CharBits <= Len(in)
      BY <1>4 DEF Ahead
    <3> QED  BY <2>1, <3>1 DEF Cursors
  <2> QED  BY <1>4, <2>2, <2>3 DEF CharReader
<1> HIDE DEF chars, parts, V, read
<1>7. ReadCounted(read, CharBits, in, at) = <<at + CountBits + Len(FlattenSeq(parts)), chars>>
  <2>1. Wide(parts, CharBits)
    BY <1>4, WidthsAreNat DEF Wide
  <2> QED  BY <1>1, <1>2, <1>4, <1>5, <1>6, <2>1, WidthsAreNat, CountedReads
<1>8. Len(FlattenSeq(parts)) \in Nat
  BY <1>4, JoinIsParts
<1> DEFINE d == at + CountBits + Len(FlattenSeq(parts))
<1>9. d \in Nat /\ d = at + Len(writeString(o))
  BY <1>3, <1>8, WidthsAreNat
<1>10. Some(<<d, chars>>)
  BY <1>9, Successes
<1> HIDE DEF d
<1>11. readString(in, at) = <<d, <<STR, chars>>>>
  <2>1. ReadCounted(read, CharBits, in, at) = <<d, chars>>
    BY <1>7 DEF d
  <2> QED  BY <1>10, <2>1 DEF readString, Then, CharReader, read
<1> QED  BY <1>1, <1>9, <1>11

LEMMA StringSettles ==
  ASSUME NEW in, NEW more, Begins(in, more), NEW at \in 0..Len(in),
         NEW r, r = readString(in, at), Some(r)
  PROVE  Settled(r, readString(more, at), in, at) /\ IsString(r[2]) /\ r[2][1] = STR
<1> DEFINE s == ReadCounted(CharReader(in), CharBits, in, at)
           s2 == ReadCounted(CharReader(more), CharBits, more, at)
           V == Unsigned(CharBits)
<1>1. Some(s) /\ r = <<s[1], <<STR, s[2]>>>>
  BY Successes DEF readString, Then, CharReader
<1>2. Begins(more, more)
  BY SameBegins DEF Begins
<1>3. /\ Settled(s, s2, in, at) /\ s[2] \in Seq(ToSet(s[2])) /\ Countable(Len(s[2]))
      /\ FoundIn(s[2], CharReader(in), Len(in))
  <2>1. /\ Moves(CharReader(in), Len(in)) /\ Moves(CharReader(more), Len(more))
        /\ Agree(CharReader(in), CharReader(more), Len(in))
    BY <1>2, CharsMove DEF Agree
  <2> QED  BY <1>1, <2>1, WidthsAreNat, CountedSettles
<1>4. readString(more, at) = IF Some(s2) THEN <<s2[1], <<STR, s2[2]>>>> ELSE nullopt
  BY DEF readString, Then, CharReader
<1>5. \A k \in 1..Len(s[2]) : s[2][k] \in V
  BY <1>3, CharsMove DEF FoundIn
<1> HIDE DEF s, s2, V
<1>6. s2 = s /\ s[1] \in at..Len(in)
  BY <1>1, <1>3 DEF Settled
<1>7. readString(more, at) = r
  BY <1>1, <1>4, <1>6
<1>8. s[2] \in Seq(V)
  <2> DEFINE x == s[2]
             n == Len(x)
             W == ToSet(x)
  <2>1. x \in Seq(W) /\ \A k \in 1..n : x[k] \in V
    BY <1>3, <1>5
  <2> HIDE DEF x, W
  <2> QED  BY <2>1 DEF x
<1>9. r[2] = <<STR, s[2]>> /\ r[1] = s[1] /\ r[2][1] = STR /\ r[2][2] = s[2]
  BY <1>1
<1>10. IsString(r[2])
  BY <1>3, <1>8, <1>9 DEF IsString, V
<1>11. r = <<r[1], r[2]>>
  BY <1>1, <1>9
<1> QED  BY <1>6, <1>7, <1>9, <1>10, <1>11 DEF Settled

LEMMA MinBitsAre ==
  /\ \A t \in {0, 1, 2} : minBits(t) = HeaderBits + PayloadBits[t + 1]
  /\ minBits(3) = CountBits /\ minBits(4) = 2 * (TypeBits + HeaderBits + PayloadBits[1])
  /\ \A t \in {0, 1, 2, 3} : minBits(t) \in Nat /\ minBits(t) >= HeaderBits + PayloadBits[1]
  /\ \A t \in {0, 1, 2, 3, 4} : minBits(t) \in Nat \ {0}
<1>1. \A t \in {0, 1, 2} : minBits(t) = HeaderBits + PayloadBits[t + 1]
  BY Codes DEF minBits
<1>2. minBits(3) = CountBits /\ minBits(4) = 2 * (TypeBits + HeaderBits + PayloadBits[1])
  BY Codes DEF minBits
<1>3. \A t \in {0, 1, 2} : PayloadBits[t + 1] \in Nat /\ PayloadBits[t + 1] >= PayloadBits[1]
  BY WidthsAreNat, Codes
<1>4. /\ CountBits \in Nat /\ CountBits > 0 /\ PayloadBits[1] \in Nat /\ PayloadBits[1] > 0
      /\ HeaderBits + PayloadBits[1] <= CountBits
      /\ HeaderBits \in Nat /\ HeaderBits > 0 /\ TypeBits \in Nat
  BY WidthsAreNat DEF HeaderBits, TypeBits
<1>5. ASSUME NEW t \in {0, 1, 2} PROVE minBits(t) \in Nat /\ minBits(t) >= HeaderBits + PayloadBits[1]
  BY <1>1, <1>3, <1>4
<1>6. \A t \in {0, 1, 2, 3} : minBits(t) \in Nat /\ minBits(t) >= HeaderBits + PayloadBits[1]
  BY <1>2, <1>4, <1>5
<1>7. \A t \in {0, 1, 2, 3, 4} : minBits(t) \in Nat \ {0}
  BY <1>2, <1>4, <1>6
<1> QED  BY <1>1, <1>2, <1>6, <1>7

LEMMA LeafBits ==
  ASSUME NEW o, IsLeaf(o)
  PROVE  /\ o[1] \in Leaves /\ writeLeaf(o) \in Seq(Bit)
         /\ Len(writeLeaf(o)) >= minBits(o[1])
<1>1. CASE o[1] = STR
  <2>1. IsString(o) /\ writeLeaf(o) = writeString(o)
    BY <1>1 DEF IsLeaf, writeLeaf
  <2>2. minBits(o[1]) = CountBits /\ o[1] \in Leaves
    BY <1>1, Codes, MinBitsAre
  <2> QED  BY <2>1, <2>2, StringBits
<1>2. CASE o[1] # STR
  <2>1. IsScalar(o) /\ writeLeaf(o) = writeScalar(o)
    BY <1>2 DEF IsLeaf, writeLeaf
  <2>2. /\ o[1] \in {0, 1, 2} /\ writeLeaf(o) \in Seq(Bit)
        /\ Len(writeLeaf(o)) = HeaderBits + PayloadBits[o[1] + 1]
    BY <2>1, ScalarBits
  <2>3. minBits(o[1]) = Len(writeLeaf(o)) /\ o[1] \in Leaves /\ Len(writeLeaf(o)) \in Nat
    BY <2>2, Codes, MinBitsAre
  <2> QED  BY <2>2, <2>3
<1> QED  BY <1>1, <1>2

LEMMA LeafReads ==
  ASSUME NEW in \in Seq(Bit), NEW at \in Nat, NEW o, IsLeaf(o), Ahead(in, at, writeLeaf(o))
  PROVE  readLeaf(o[1], in, at) = <<at + Len(writeLeaf(o)), o>>
<1>1. CASE o[1] = STR
  <2>1. IsString(o) /\ writeLeaf(o) = writeString(o) /\ readLeaf(o[1], in, at) = readString(in, at)
    BY <1>1 DEF IsLeaf, writeLeaf, readLeaf
  <2> QED  BY <2>1, StringReads
<1>2. CASE o[1] # STR
  <2>1. IsScalar(o) /\ writeLeaf(o) = writeScalar(o) /\ o[1] \in Leaves \ {STR}
    BY <1>2 DEF IsLeaf, writeLeaf, IsScalar
  <2>2. readLeaf(o[1], in, at) = readScalar(o[1], in, at)
    BY <1>2, <2>1 DEF readLeaf
  <2> QED  BY <2>1, <2>2, ScalarReads
<1> QED  BY <1>1, <1>2

LEMMA LeafSettles ==
  ASSUME NEW in, NEW more, Begins(in, more), NEW at \in 0..Len(in), NEW t,
         NEW r, r = readLeaf(t, in, at), Some(r)
  PROVE  Settled(r, readLeaf(t, more, at), in, at) /\ IsLeaf(r[2]) /\ r[2][1] = t
<1>1. CASE t = STR
  <2>1. r = readString(in, at) /\ readLeaf(t, more, at) = readString(more, at)
    BY <1>1 DEF readLeaf
  <2>2. Settled(r, readString(more, at), in, at) /\ IsString(r[2]) /\ r[2][1] = STR
    BY <2>1, StringSettles
  <2> QED  BY <1>1, <2>1, <2>2 DEF IsLeaf
<1>2. CASE t \in Leaves \ {STR}
  <2>1. r = readScalar(t, in, at) /\ readLeaf(t, more, at) = readScalar(t, more, at)
    BY <1>2 DEF readLeaf
  <2>2. t \in {0, 1, 2} /\ t # STR
    BY <1>2, Codes
  <2>3. Settled(r, readScalar(t, more, at), in, at) /\ IsScalar(r[2]) /\ r[2][1] = t
    BY <2>1, <2>2, ScalarSettles
  <2> QED  BY <2>1, <2>2, <2>3 DEF IsLeaf
<1>3. CASE t # STR /\ t \notin Leaves \ {STR}
  BY <1>3, Successes DEF readLeaf
<1> QED  BY <1>1, <1>2, <1>3
-----------------------------------------------------------------------------
(* Pairs *)

\* A leaf, and its type before it.
HalfOf(o) == writeUint(o[1], TypeBits) \o writeLeaf(o)

LEMMA HalfBits ==
  ASSUME NEW o, IsLeaf(o)
  PROVE  /\ o[1] \in Unsigned(TypeBits)
         /\ writeUint(o[1], TypeBits) \in Seq(Bit) /\ Len(writeUint(o[1], TypeBits)) = TypeBits
         /\ writeLeaf(o) \in Seq(Bit)
         /\ HalfOf(o) \in Seq(Bit) /\ Len(HalfOf(o)) = TypeBits + Len(writeLeaf(o))
         /\ Len(HalfOf(o)) >= TypeBits + HeaderBits + PayloadBits[1]
<1>1. o[1] \in {0, 1, 2, 3} /\ writeLeaf(o) \in Seq(Bit) /\ Len(writeLeaf(o)) >= minBits(o[1])
  BY LeafBits, Codes
<1>2. o[1] \in Unsigned(TypeBits)
  BY <1>1, TypesFit
<1> DEFINE a == writeUint(o[1], TypeBits)
           b == writeLeaf(o)
<1>3. TypeBits \in Nat /\ a \in Seq(Bit) /\ Len(a) = TypeBits
  <2>1. TypeBits \in Nat
    BY DEF TypeBits
  <2> QED  BY <1>2, <2>1, UintBits
<1>4. a \o b \in Seq(Bit) /\ Len(a \o b) = Len(a) + Len(b)
  <2> HIDE DEF a, b
  <2> QED  BY <1>1, <1>3, ConcatIs DEF b
<1>5. Len(a \o b) >= TypeBits + HeaderBits + PayloadBits[1]
  <2>1. /\ minBits(o[1]) \in Nat /\ minBits(o[1]) >= HeaderBits + PayloadBits[1]
        /\ PayloadBits[1] \in Nat /\ HeaderBits \in Nat
    BY <1>1, MinBitsAre, WidthsAreNat DEF HeaderBits
  <2>2. Len(b) \in Nat /\ Len(b) >= minBits(o[1])
    BY <1>1
  <2>3. Len(a \o b) = TypeBits + Len(b)
    BY <1>3, <1>4
  <2> HIDE DEF a, b
  <2> QED  BY <1>3, <2>1, <2>2, <2>3
<1>6. HalfOf(o) = a \o b
  BY DEF HalfOf
<1> QED  BY <1>1, <1>2, <1>3, <1>4, <1>5, <1>6

LEMMA HalfReads ==
  ASSUME NEW in \in Seq(Bit), NEW at \in Nat, NEW o, IsLeaf(o), Ahead(in, at, HalfOf(o))
  PROVE  readHalf(in, at) = <<at + Len(HalfOf(o)), o>>
<1> DEFINE t == o[1]
           a == writeUint(t, TypeBits)
           b == writeLeaf(o)
           c == at + TypeBits
<1>1. /\ t \in Unsigned(TypeBits) /\ a \in Seq(Bit) /\ Len(a) = TypeBits
      /\ b \in Seq(Bit) /\ Len(HalfOf(o)) = TypeBits + Len(b)
  BY HalfBits
<1>2. TypeBits \in Nat /\ Len(in) \in Nat /\ c \in Nat
  BY DEF TypeBits
<1>3. Ahead(in, at, a) /\ Ahead(in, c, b)
  <2>1. Ahead(in, at, a \o b)
    BY DEF HalfOf
  <2> HIDE DEF a, b
  <2> QED  BY <1>1, <1>2, <2>1, AheadSplits
<1>4. readUint(in, at, TypeBits) = <<c, t>>
  BY <1>1, <1>2, <1>3, UintReadsBack
<1>5. readLeaf(t, in, c) = <<c + Len(b), o>>
  BY <1>2, <1>3, LeafReads
<1>6. Some(<<c, t>>)
  BY <1>2, Successes
<1> HIDE DEF t, a, b
<1>7. c + Len(b) = at + Len(HalfOf(o))
  BY <1>1, <1>2
<1> HIDE DEF c
<1> QED  BY <1>4, <1>5, <1>6, <1>7 DEF readHalf, Then

LEMMA HalfSettles ==
  ASSUME NEW in, NEW more, Begins(in, more), NEW at \in 0..Len(in),
         NEW r, r = readHalf(in, at), Some(r)
  PROVE  Settled(r, readHalf(more, at), in, at) /\ IsLeaf(r[2])
<1> DEFINE u == readUint(in, at, TypeBits)
           c == at + TypeBits
<1>1. TypeBits \in Nat /\ Len(in) \in Nat /\ at \in Nat
  BY DEF TypeBits, Begins
<1>2. Some(u) /\ r = readLeaf(u[2], in, u[1])
  BY Successes DEF readHalf, Then
<1>3. readUint(more, at, TypeBits) = u /\ u = <<c, u[2]>> /\ c \in at..Len(in)
  BY <1>1, <1>2, UintIsRead
<1> HIDE DEF u, c
<1>4. u[1] = c /\ c \in 0..Len(in)
  BY <1>1, <1>3
<1>5. readHalf(more, at) = readLeaf(u[2], more, c)
  BY <1>2, <1>3, <1>4 DEF readHalf, Then
<1>6. Settled(r, readLeaf(u[2], more, c), in, c) /\ IsLeaf(r[2])
  BY <1>2, <1>4, LeafSettles
<1>7. r[1] \in at..Len(in)
  BY <1>1, <1>3, <1>6 DEF Settled
<1> QED  BY <1>5, <1>6, <1>7 DEF Settled

LEMMA PairBits ==
  ASSUME NEW o, IsPair(o)
  PROVE  /\ IsLeaf(o[2]) /\ IsLeaf(o[3]) /\ o = <<PAIR, o[2], o[3]>>
         /\ writePair(o) = HalfOf(o[2]) \o HalfOf(o[3])
         /\ writePair(o) \in Seq(Bit) /\ Len(writePair(o)) = Len(HalfOf(o[2])) + Len(HalfOf(o[3]))
         /\ Len(writePair(o)) >= minBits(PAIR)
<1>1. IsLeaf(o[2]) /\ IsLeaf(o[3]) /\ o = <<PAIR, o[2], o[3]>>
  BY DEF IsPair
<1> DEFINE a == writeUint(o[2][1], TypeBits)
           b == writeLeaf(o[2])
           c == writeUint(o[3][1], TypeBits)
           d == writeLeaf(o[3])
           x == HalfOf(o[2])
           y == HalfOf(o[3])
<1>2. /\ a \in Seq(Bit) /\ b \in Seq(Bit) /\ c \in Seq(Bit) /\ d \in Seq(Bit)
      /\ x \in Seq(Bit) /\ y \in Seq(Bit)
      /\ Len(x) >= TypeBits + HeaderBits + PayloadBits[1] /\ Len(y) >= TypeBits + HeaderBits + PayloadBits[1]
  BY <1>1, HalfBits
<1>3. writePair(o) = a \o b \o c \o d /\ x = a \o b /\ y = c \o d
  BY DEF writePair, HalfOf
<1> HIDE DEF a, b, c, d, x, y
<1>4. writePair(o) = x \o y
  <2>1. (x \o c) \o d = x \o (c \o d)
    <3>1. x \in Seq(Bit) /\ c \in Seq(Bit) /\ d \in Seq(Bit)
      BY <1>2
    <3> QED  BY <3>1, Regroup, Zenon
  <2> QED  BY <1>3, <2>1
<1>5. Len(x) \in Nat /\ Len(y) \in Nat /\ x \o y \in Seq(Bit) /\ Len(x \o y) = Len(x) + Len(y)
  BY <1>2, ConcatIs
<1>6. Len(x \o y) >= minBits(PAIR)
  <2>1. TypeBits \in Nat /\ HeaderBits \in Nat /\ PayloadBits[1] \in Nat
    BY WidthsAreNat DEF TypeBits, HeaderBits
  <2>2. minBits(PAIR) = 2 * (TypeBits + HeaderBits + PayloadBits[1])
    BY Codes, MinBitsAre
  <2> QED  BY <1>2, <1>5, <2>1, <2>2
<1> QED  BY <1>1, <1>4, <1>5, <1>6 DEF x, y

LEMMA PairReads ==
  ASSUME NEW in \in Seq(Bit), NEW at \in Nat, NEW o, IsPair(o), Ahead(in, at, writePair(o))
  PROVE  readPair(in, at) = <<at + Len(writePair(o)), o>>
<1> DEFINE x == HalfOf(o[2])
           y == HalfOf(o[3])
           c == at + Len(x)
           d == c + Len(y)
<1>1. /\ IsLeaf(o[2]) /\ IsLeaf(o[3]) /\ o = <<PAIR, o[2], o[3]>>
      /\ Len(writePair(o)) = Len(x) + Len(y) /\ Ahead(in, at, x \o y)
  BY PairBits
<1>2. x \in Seq(Bit) /\ y \in Seq(Bit)
  BY <1>1, HalfBits
<1>3. Len(in) \in Nat
  OBVIOUS
<1>4. Ahead(in, at, x) /\ c \in Nat /\ Ahead(in, c, y)
  <2> HIDE DEF x, y
  <2> QED  BY <1>1, <1>2, <1>3, AheadSplits
<1>5. readHalf(in, at) = <<c, o[2]>>
  BY <1>1, <1>4, HalfReads
<1>6. readHalf(in, c) = <<d, o[3]>>
  <2> HIDE DEF c
  <2> QED  BY <1>1, <1>4, HalfReads
<1>7. d \in Nat /\ d = at + Len(writePair(o))
  <2>1. Len(x) \in Nat /\ Len(y) \in Nat
    BY <1>2
  <2> HIDE DEF x, y
  <2> QED  BY <1>1, <2>1
<1>8. Some(<<c, o[2]>>) /\ Some(<<d, o[3]>>)
  BY <1>4, <1>7, Successes
<1> HIDE DEF c, d
<1> DEFINE first == o[2]
           second == o[3]
<1>9. readHalf(in, at) = <<c, first>> /\ readHalf(in, c) = <<d, second>>
  BY <1>5, <1>6
<1>10. o = <<PAIR, first, second>>
  BY <1>1
<1> HIDE DEF first, second
<1> DEFINE u == <<c, first>>
           v == <<d, second>>
<1>13. Some(u) /\ u[1] = c /\ u[2] = first /\ Some(v) /\ v[1] = d /\ v[2] = second
  BY <1>8 DEF first, second
<1>14. readHalf(in, at) = u /\ readHalf(in, c) = v
  BY <1>9
<1> HIDE DEF u, v
<1>11. readPair(in, at) = <<d, <<PAIR, first, second>>>>
  BY <1>13, <1>14 DEF readPair, Then
<1>12. readPair(in, at) = <<d, o>>
  BY <1>10, <1>11
<1> QED  BY <1>7, <1>12

LEMMA PairSettles ==
  ASSUME NEW in, NEW more, Begins(in, more), NEW at \in 0..Len(in),
         NEW r, r = readPair(in, at), Some(r)
  PROVE  Settled(r, readPair(more, at), in, at) /\ IsPair(r[2]) /\ r[2][1] = PAIR
<1> DEFINE u == readHalf(in, at)
           c == u[1]
           v == readHalf(in, c)
<1>1. Len(in) \in Nat /\ at \in Nat
  BY DEF Begins
<1>2. Some(u) /\ Some(v) /\ r = <<v[1], <<PAIR, u[2], v[2]>>>>
  BY Successes DEF readPair, Then
<1>3. Settled(u, readHalf(more, at), in, at) /\ IsLeaf(u[2])
  BY <1>2, HalfSettles
<1>4. readHalf(more, at) = u /\ c \in at..Len(in) /\ c \in 0..Len(in)
  BY <1>1, <1>2, <1>3 DEF Settled
<1> HIDE DEF u, c
<1>5. Settled(v, readHalf(more, c), in, c) /\ IsLeaf(v[2])
  BY <1>2, <1>4, HalfSettles
<1> HIDE DEF v
<1>6. readHalf(more, c) = v /\ v[1] \in at..Len(in)
  <2>1. readHalf(more, c) = v /\ v[1] \in c..Len(in)
    BY <1>2, <1>5 DEF Settled
  <2> QED  BY <1>1, <1>4, <2>1
<1>7. readPair(more, at) = r
  BY <1>2, <1>4, <1>6 DEF readPair, Then, c
<1>8. r[1] = v[1] /\ r[2] = <<PAIR, u[2], v[2]>> /\ r = <<r[1], r[2]>>
  BY <1>2
<1>9. r[2][1] = PAIR /\ r[2][2] = u[2] /\ r[2][3] = v[2]
  BY <1>8
<1> QED  BY <1>3, <1>5, <1>6, <1>7, <1>8, <1>9 DEF Settled, IsPair
-----------------------------------------------------------------------------
(* Items *)

LEMMA ItemBits ==
  ASSUME NEW o, IsItem(o)
  PROVE  /\ o[1] \in Items /\ writeItem(o) \in Seq(Bit)
         /\ Len(writeItem(o)) >= minBits(o[1])
<1>1. CASE o[1] = PAIR
  <2>1. IsPair(o) /\ writeItem(o) = writePair(o) /\ o[1] \in Items
    BY <1>1, Codes DEF IsItem, writeItem
  <2> QED  BY <1>1, <2>1, PairBits
<1>2. CASE o[1] # PAIR
  <2>1. IsLeaf(o) /\ writeItem(o) = writeLeaf(o)
    BY <1>2 DEF IsItem, writeItem
  <2> QED  BY <2>1, LeafBits, Codes
<1> QED  BY <1>1, <1>2

LEMMA ItemReads ==
  ASSUME NEW in \in Seq(Bit), NEW at \in Nat, NEW o, IsItem(o), Ahead(in, at, writeItem(o))
  PROVE  readItem(o[1], in, at) = <<at + Len(writeItem(o)), o>>
<1>1. CASE o[1] = PAIR
  <2>1. IsPair(o) /\ writeItem(o) = writePair(o) /\ readItem(o[1], in, at) = readPair(in, at)
    BY <1>1 DEF IsItem, writeItem, readItem
  <2> QED  BY <2>1, PairReads
<1>2. CASE o[1] # PAIR
  <2>1. IsLeaf(o) /\ writeItem(o) = writeLeaf(o) /\ readItem(o[1], in, at) = readLeaf(o[1], in, at)
    BY <1>2 DEF IsItem, writeItem, readItem
  <2> QED  BY <2>1, LeafReads
<1> QED  BY <1>1, <1>2

LEMMA ItemSettles ==
  ASSUME NEW in, NEW more, Begins(in, more), NEW at \in 0..Len(in), NEW t,
         NEW r, r = readItem(t, in, at), Some(r)
  PROVE  Settled(r, readItem(t, more, at), in, at) /\ IsItem(r[2]) /\ r[2][1] = t
<1>1. CASE t = PAIR
  <2>1. r = readPair(in, at) /\ readItem(t, more, at) = readPair(more, at)
    BY <1>1 DEF readItem
  <2>2. Settled(r, readPair(more, at), in, at) /\ IsPair(r[2]) /\ r[2][1] = PAIR
    BY <2>1, PairSettles
  <2> QED  BY <1>1, <2>1, <2>2 DEF IsItem
<1>2. CASE t # PAIR
  <2>1. r = readLeaf(t, in, at) /\ readItem(t, more, at) = readLeaf(t, more, at)
    BY <1>2 DEF readItem
  <2>2. Settled(r, readLeaf(t, more, at), in, at) /\ IsLeaf(r[2]) /\ r[2][1] = t
    BY <2>1, LeafSettles
  <2> QED  BY <1>2, <2>1, <2>2 DEF IsItem
<1> QED  BY <1>1, <1>2
-----------------------------------------------------------------------------
(* Vectors *)

LEMMA NoPartsJoin ==
  ASSUME NEW parts \in Seq(Seq(Bit)), Len(parts) = 0
  PROVE  FlattenSeq(parts) \in Seq(Bit) /\ Len(FlattenSeq(parts)) = 0
BY JoinIsParts DEF PartsEnd

LEMMA NoneReads ==
  ASSUME NEW in \in Seq(Bit), NEW at \in Nat, NEW empty, Ahead(in, at, writeUint(0, CountBits))
  PROVE  readNone(in, at, empty) = <<at + CountBits, empty>>
<1> DEFINE c == at + CountBits
<1>1. CountBits \in Nat /\ c \in Nat
  BY WidthsAreNat
<1>2. 0 \in Unsigned(CountBits)
  BY <1>1, 0 \in Nat, MaskFacts, UnsignedIs
<1>3. readUint(in, at, CountBits) = <<c, 0>>
  BY <1>1, <1>2, UintReadsBack
<1>4. Some(<<c, 0>>)
  BY <1>1, Successes
<1> HIDE DEF c
<1> QED  BY <1>3, <1>4 DEF readNone, Then, c

LEMMA NoneSettles ==
  ASSUME NEW in, NEW more, Begins(in, more), NEW at \in 0..Len(in), NEW empty,
         NEW r, r = readNone(in, at, empty), Some(r)
  PROVE  Settled(r, readNone(more, at, empty), in, at) /\ r[2] = empty
<1> DEFINE u == readUint(in, at, CountBits)
           c == at + CountBits
<1>1. CountBits \in Nat /\ Len(in) \in Nat /\ at \in Nat
  BY WidthsAreNat DEF Begins
<1>2. Some(u) /\ u[2] = 0 /\ r = <<u[1], empty>>
  BY Successes DEF readNone, Then
<1>3. readUint(more, at, CountBits) = u /\ u = <<c, u[2]>> /\ c \in at..Len(in)
  BY <1>1, <1>2, UintIsRead
<1> HIDE DEF u, c
<1>4. readNone(more, at, empty) = r /\ r[1] = u[1] /\ r[2] = empty /\ u[1] = c
  BY <1>2, <1>3 DEF readNone, Then
<1>5. r = <<r[1], r[2]>> /\ r[1] \in at..Len(in)
  BY <1>2, <1>3, <1>4
<1> QED  BY <1>4, <1>5 DEF Settled

ItemReader(t, in) == [d \in Cursors(in) |-> readItem(t, in, d)]

LEMMA ItemsMove ==
  ASSUME NEW in, NEW more, Begins(in, more), NEW t
  PROVE  /\ Moves(ItemReader(t, in), Len(in))
         /\ Agree(ItemReader(t, in), ItemReader(t, more), Len(in))
         /\ \A c \in 0..Len(in) : Some(ItemReader(t, in)[c]) =>
              IsItem(ItemReader(t, in)[c][2]) /\ ItemReader(t, in)[c][2][1] = t
<1>1. Len(in) \in Nat /\ Len(more) \in Nat /\ Len(in) <= Len(more)
  BY DEF Begins
<1> SUFFICES ASSUME NEW c \in 0..Len(in), Some(ItemReader(t, in)[c])
             PROVE  /\ ItemReader(t, in)[c] = <<ItemReader(t, in)[c][1], ItemReader(t, in)[c][2]>>
                    /\ ItemReader(t, in)[c][1] \in c..Len(in)
                    /\ ItemReader(t, more)[c] = ItemReader(t, in)[c]
                    /\ IsItem(ItemReader(t, in)[c][2]) /\ ItemReader(t, in)[c][2][1] = t
  BY DEF Moves, Agree
<1> DEFINE r == readItem(t, in, c)
<1>2. ItemReader(t, in)[c] = r /\ ItemReader(t, more)[c] = readItem(t, more, c)
  BY <1>1 DEF ItemReader, Cursors
<1>3. Some(r)
  BY <1>2
<1>4. Settled(r, readItem(t, more, c), in, c) /\ IsItem(r[2]) /\ r[2][1] = t
  BY <1>3, ItemSettles
<1> HIDE DEF r
<1> QED  BY <1>2, <1>3, <1>4 DEF Settled

ItemParts(items) == [i \in DOMAIN items |-> writeItem(items[i])]

AllItems(items, t) == \A i \in 1..Len(items) : IsItem(items[i]) /\ items[i][1] = t

LEMMA ItemPartsAre ==
  ASSUME NEW V, NEW items \in Seq(V), NEW t, AllItems(items, t)
  PROVE  /\ ItemParts(items) \in Seq(Seq(Bit)) /\ Len(ItemParts(items)) = Len(items)
         /\ Wide(ItemParts(items), minBits(t))
         /\ \A k \in 1..Len(items) : ItemParts(items)[k] = writeItem(items[k])
<1> DEFINE n == Len(items)
<1>1. n \in Nat /\ DOMAIN items = 1..n
  OBVIOUS
<1>2. ASSUME NEW k \in 1..n
      PROVE  writeItem(items[k]) \in Seq(Bit) /\ Len(writeItem(items[k])) >= minBits(t)
  <2>1. IsItem(items[k]) /\ items[k][1] = t
    BY DEF AllItems
  <2> QED  BY <2>1, ItemBits
<1> HIDE DEF n
<1>3. ItemParts(items) = [k \in 1..n |-> writeItem(items[k])]
  BY <1>1 DEF ItemParts
<1>4. ItemParts(items) \in [1..n -> Seq(Bit)]
  BY <1>2, <1>3
<1>5. ItemParts(items) \in Seq(Seq(Bit)) /\ Len(ItemParts(items)) = n
  BY <1>1, <1>4, LenProperties
<1> QED  BY <1>2, <1>3, <1>5 DEF n, Wide

\* What follows the type of a vector.
ElementsOf(t, r) == Then(r, LAMBDA d, elements : <<d, <<VEC, t, elements>>>>)

LEMMA VecIs ==
  ASSUME NEW in, NEW at, NEW u, u = readUint(in, at, TypeBits), Some(u), NEW t, t = u[2]
  PROVE  /\ t = none => readVec(in, at) = readNone(in, u[1], <<VEC, none, <<>>>>)
         /\ t \in Items => readVec(in, at) =
              ElementsOf(t, ReadCounted(ItemReader(t, in), minBits(t), in, u[1]))
         /\ t # none /\ t \notin Items => readVec(in, at) = nullopt
<1>1. CASE t = none
  <2>1. t \notin Items
    BY <1>1, Codes
  <2> QED  BY <1>1, <2>1 DEF readVec, Then
<1>2. CASE t \in Items
  <2>1. t # none
    BY <1>2, Codes
  <2> QED  BY <1>2, <2>1 DEF readVec, Then, ItemReader, ElementsOf
<1>3. CASE t # none /\ t \notin Items
  BY <1>3 DEF readVec, Then
<1> QED  BY <1>1, <1>2, <1>3

LEMMA ElementsAre ==
  ASSUME NEW t, NEW d \in Nat, NEW x
  PROVE  ElementsOf(t, <<d, x>>) = <<d, <<VEC, t, x>>>>
BY Successes DEF ElementsOf, Then

LEMMA VecBits ==
  ASSUME NEW o, IsVec(o)
  PROVE  LET a == writeUint(o[2], TypeBits)
             b == writeUint(Len(o[3]), CountBits)
             joined == FlattenSeq(ItemParts(o[3]))
         IN  /\ o = <<VEC, o[2], o[3]>> /\ o[3] \in Seq(ToSet(o[3])) /\ Countable(Len(o[3]))
             /\ AllItems(o[3], o[2])
             /\ o[2] \in Items \/ (o[2] = none /\ o[3] = <<>>)
             /\ o[2] \in Unsigned(TypeBits)
             /\ a \in Seq(Bit) /\ Len(a) = TypeBits /\ b \in Seq(Bit) /\ Len(b) = CountBits
             /\ joined \in Seq(Bit)
             /\ writeVec(o) = a \o (b \o joined)
             /\ writeVec(o) \in Seq(Bit)
             /\ Len(writeVec(o)) = TypeBits + CountBits + Len(joined)
<1> DEFINE a == writeUint(o[2], TypeBits)
           b == writeUint(Len(o[3]), CountBits)
           joined == FlattenSeq(ItemParts(o[3]))
<1>1. /\ o = <<VEC, o[2], o[3]>> /\ o[3] \in Seq(ToSet(o[3])) /\ Countable(Len(o[3]))
      /\ o[2] \in Items \/ (o[2] = none /\ o[3] = <<>>)
  BY DEF IsVec
<1>2. AllItems(o[3], o[2])
  <2>1. DOMAIN o[3] = 1..Len(o[3])
    BY <1>1
  <2> QED  BY <2>1 DEF IsVec, AllItems
<1>3. o[2] \in Unsigned(TypeBits)
  BY <1>1, Codes, TypesFit
<1>4. a \in Seq(Bit) /\ Len(a) = TypeBits
  <2>1. TypeBits \in Nat
    BY DEF TypeBits
  <2> QED  BY <1>3, <2>1, UintBits
<1>5. b \in Seq(Bit) /\ Len(b) = CountBits
  <2>1. Len(o[3]) \in Nat
    BY <1>1
  <2>2. Len(o[3]) \in Unsigned(CountBits)
    BY <1>1, <2>1, WidthsAreNat, UnsignedIs DEF Countable
  <2> QED  BY <2>2, WidthsAreNat, UintBits
<1>6. joined \in Seq(Bit)
  <2>1. ItemParts(o[3]) \in Seq(Seq(Bit))
    BY <1>1, <1>2, ItemPartsAre
  <2> QED  BY <2>1, JoinIsParts
<1>7. writeVec(o) = (a \o b) \o joined
  BY DEF writeVec, ItemParts
<1> HIDE DEF a, b, joined
<1>8. (a \o b) \o joined = a \o (b \o joined)
  BY <1>4, <1>5, <1>6, Regroup, Zenon
<1>9. b \o joined \in Seq(Bit) /\ Len(b \o joined) = CountBits + Len(joined) /\ Len(joined) \in Nat
  BY <1>5, <1>6, ConcatIs
<1>10. a \o (b \o joined) \in Seq(Bit) /\ Len(a \o (b \o joined)) = TypeBits + (CountBits + Len(joined))
  <2> DEFINE rest == b \o joined
  <2>1. rest \in Seq(Bit) /\ Len(rest) = CountBits + Len(joined)
    BY <1>9
  <2> HIDE DEF rest
  <2>2. a \o rest \in Seq(Bit) /\ Len(a \o rest) = Len(a) + Len(rest)
    BY <1>4, <2>1, ConcatIs
  <2>3. Len(a) + Len(rest) = TypeBits + (CountBits + Len(joined))
    BY <1>4, <2>1
  <2> QED  BY <2>2, <2>3 DEF rest
<1>11. TypeBits + (CountBits + Len(joined)) = TypeBits + CountBits + Len(joined)
  BY <1>9, WidthsAreNat DEF TypeBits
<1> QED  BY <1>1, <1>2, <1>3, <1>4, <1>5, <1>6, <1>7, <1>8, <1>10, <1>11 DEF a, b, joined

LEMMA VecReads ==
  ASSUME NEW in \in Seq(Bit), NEW at \in Nat, NEW o, IsVec(o), Ahead(in, at, writeVec(o))
  PROVE  readVec(in, at) = <<at + Len(writeVec(o)), o>>
<1> DEFINE t == o[2]
           items == o[3]
           parts == ItemParts(items)
           joined == FlattenSeq(parts)
           a == writeUint(t, TypeBits)
           b == writeUint(Len(items), CountBits)
           c == at + TypeBits
           read == ItemReader(t, in)
           V == ToSet(items)
           d == at + Len(writeVec(o))
<1>1. /\ o = <<VEC, t, items>> /\ items \in Seq(V) /\ Countable(Len(items))
      /\ AllItems(items, t)
      /\ t \in Items \/ (t = none /\ items = <<>>)
      /\ t \in Unsigned(TypeBits)
      /\ a \in Seq(Bit) /\ Len(a) = TypeBits /\ b \in Seq(Bit) /\ Len(b) = CountBits
      /\ joined \in Seq(Bit)
      /\ writeVec(o) = a \o (b \o joined)
      /\ Len(writeVec(o)) = TypeBits + CountBits + Len(joined)
  BY VecBits
<1>2. TypeBits \in Nat /\ CountBits \in Nat /\ c \in Nat /\ Len(in) \in Nat
  BY WidthsAreNat DEF TypeBits
<1>3. Ahead(in, at, a) /\ Ahead(in, c, b \o joined)
  <2>1. Ahead(in, at, a \o (b \o joined))
    BY <1>1
  <2>2. b \o joined \in Seq(Bit)
    BY <1>1, ConcatIs
  <2> HIDE DEF a, b, joined
  <2> QED  BY <1>1, <1>2, <2>1, <2>2, AheadSplits
<1>4. readUint(in, at, TypeBits) = <<c, t>>
  BY <1>1, <1>2, <1>3, UintReadsBack
<1>5. Some(<<c, t>>)
  BY <1>2, Successes
<1>6. /\ parts \in Seq(Seq(Bit)) /\ Len(parts) = Len(items)
      /\ Wide(parts, minBits(t))
      /\ \A k \in 1..Len(items) : parts[k] = writeItem(items[k])
  BY <1>1, ItemPartsAre
<1>7. d = c + CountBits + Len(joined) /\ d \in Nat
  <2>1. Len(joined) \in Nat
    BY <1>1
  <2> HIDE DEF joined, a, b
  <2> QED  BY <1>1, <1>2, <2>1
<1>8. CASE t = none /\ items = <<>>
  <2>1. Ahead(in, c, b)
    <3> HIDE DEF b, joined, c
    <3> QED  BY <1>1, <1>2, <1>3, AheadSplits
  <2>2. Len(items) = 0
    BY <1>8
  <2>3. Len(joined) = 0
    BY <1>6, <2>2, NoPartsJoin
  <2>4. readNone(in, c, <<VEC, none, <<>>>>) = <<c + CountBits, <<VEC, none, <<>>>>>>
    <3>1. Ahead(in, c, writeUint(0, CountBits))
      BY <2>1, <2>2
    <3> HIDE DEF c
    <3> QED  BY <1>2, <3>1, NoneReads
  <2>5. c + CountBits = d
    <3> HIDE DEF c, d
    <3> QED  BY <1>2, <1>7, <2>3
  <2>6. <<VEC, none, <<>>>> = o
    BY <1>1, <1>8
  <2> HIDE DEF c, d, t
  <2>7. readVec(in, at) = readNone(in, c, <<VEC, none, <<>>>>)
    BY <1>4, <1>5, <1>8, VecIs
  <2> QED  BY <2>4, <2>5, <2>6, <2>7 DEF d
<1>9. CASE t \in Items
  <2>1. t \in {0, 1, 2, 3, 4} /\ t # none
    BY <1>9, Codes
  <2>2. minBits(t) \in Nat \ {0}
    BY <2>1, MinBitsAre
  <2>3. Moves(read, Len(in))
    BY SameBegins, ItemsMove
  <2>4. Decodes(read, in, items, parts)
    <3> SUFFICES ASSUME NEW k \in 1..Len(items), NEW e \in Nat, Ahead(in, e, parts[k])
                 PROVE  read[e] = <<e + Len(parts[k]), items[k]>>
      BY DEF Decodes
    <3>1. IsItem(items[k]) /\ items[k][1] = t
      BY <1>1 DEF AllItems
    <3>2. parts[k] = writeItem(items[k])
      BY <1>6
    <3>3. readItem(t, in, e) = <<e + Len(parts[k]), items[k]>>
      BY <3>1, <3>2, ItemReads
    <3>4. e \in Cursors(in)
      <4>1. Len(parts[k]) \in Nat
        BY <1>6
      <4>2. e + Len(parts[k]) <= Len(in)
        BY DEF Ahead
      <4> HIDE DEF parts
      <4> QED  BY <1>2, <4>1, <4>2 DEF Cursors
    <3> QED  BY <3>3, <3>4 DEF ItemReader
  <2> HIDE DEF items, parts, read, V, c, t
  <2>5. ReadCounted(read, minBits(t), in, c) = <<d, items>>
    <3>2. Ahead(in, c, writeUint(Len(items), CountBits) \o FlattenSeq(parts))
      BY <1>3
    <3>3. ReadCounted(read, minBits(t), in, c) = <<c + CountBits + Len(FlattenSeq(parts)), items>>
      BY <1>1, <1>2, <1>6, <2>2, <2>3, <2>4, <3>2, CountedReads, SMTT(30)
    <3> QED  BY <1>7, <3>3
  <2> HIDE DEF d
  <2>6. readVec(in, at) = ElementsOf(t, <<d, items>>)
    BY <1>4, <1>5, <1>9, <2>5, VecIs DEF read
  <2>7. readVec(in, at) = <<d, <<VEC, t, items>>>>
    BY <1>7, <2>6, ElementsAre
  <2>8. o = <<VEC, t, items>>
    BY <1>1
  <2>9. readVec(in, at) = <<d, o>>
    BY <2>7, <2>8
  <2> QED  BY <2>9 DEF d
<1> QED  BY <1>1, <1>8, <1>9

LEMMA VecSettles ==
  ASSUME NEW in, NEW more, Begins(in, more), NEW at \in 0..Len(in),
         NEW r, r = readVec(in, at), Some(r)
  PROVE  Settled(r, readVec(more, at), in, at) /\ IsVec(r[2]) /\ r[2][1] = VEC
<1> DEFINE u == readUint(in, at, TypeBits)
           c == at + TypeBits
           t == u[2]
           empty == <<VEC, none, <<>>>>
<1>1. TypeBits \in Nat /\ Len(in) \in Nat /\ at \in Nat
  BY DEF Begins, TypeBits
<1>2. Some(u)
  BY Successes DEF readVec, Then
<1>3. readUint(more, at, TypeBits) = u /\ u = <<c, t>> /\ c \in at..Len(in)
  BY <1>1, <1>2, UintIsRead
<1>4. u[1] = c /\ c \in 0..Len(in)
  BY <1>1, <1>3
<1> HIDE DEF u, c, t
<1>5. CASE t = none
  <2>1. r = readNone(in, c, empty) /\ readVec(more, at) = readNone(more, c, empty)
    BY <1>2, <1>3, <1>4, <1>5, VecIs DEF t, u
  <2> HIDE DEF empty
  <2>2. Settled(r, readNone(more, c, empty), in, c) /\ r[2] = empty
    BY <1>4, <2>1, NoneSettles
  <2>3. Settled(r, readVec(more, at), in, at)
    BY <1>1, <1>3, <2>1, <2>2 DEF Settled
  <2>4. IsVec(empty) /\ empty[1] = VEC
    <3>1. /\ empty[1] = VEC /\ empty[2] = none /\ empty[3] = <<>> /\ empty = <<VEC, none, <<>>>>
      BY DEF empty
    <3>2. <<>> \in Seq(ToSet(<<>>)) /\ Len(<<>>) = 0 /\ DOMAIN <<>> = {}
      OBVIOUS
    <3>3. Countable(0)
      BY WidthsAreNat, MaskFacts DEF Countable
    <3> QED  BY <3>1, <3>2, <3>3 DEF IsVec
  <2> QED  BY <2>2, <2>3, <2>4
<1>6. CASE t \in Items
  <2> DEFINE s == ReadCounted(ItemReader(t, in), minBits(t), in, c)
             s2 == ReadCounted(ItemReader(t, more), minBits(t), more, c)
             x == s[2]
  <2>1. t \in {0, 1, 2, 3, 4} /\ t # none
    BY <1>6, Codes
  <2>2. minBits(t) \in Nat \ {0}
    BY <2>1, MinBitsAre
  <2>3. r = ElementsOf(t, s) /\ readVec(more, at) = ElementsOf(t, s2)
    <3>1. r = ElementsOf(t, s)
      BY <1>2, <1>4, <1>6, VecIs DEF t, u
    <3>2. readVec(more, at) = ElementsOf(t, s2)
      BY <1>2, <1>3, <1>4, <1>6, VecIs DEF t
    <3> QED  BY <3>1, <3>2
  <2>5. Some(s) /\ r = <<s[1], <<VEC, t, x>>>>
    <3> HIDE DEF s
    <3> QED  BY <2>3, Successes DEF ElementsOf, Then
  <2>6. /\ Settled(s, s2, in, c) /\ x \in Seq(ToSet(x)) /\ Countable(Len(x))
        /\ FoundIn(x, ItemReader(t, in), Len(in))
    <3>1. Begins(more, more)
      BY SameBegins DEF Begins
    <3>2. /\ Moves(ItemReader(t, in), Len(in)) /\ Moves(ItemReader(t, more), Len(more))
          /\ Agree(ItemReader(t, in), ItemReader(t, more), Len(in))
      BY <3>1, ItemsMove
    <3> QED  BY <1>4, <2>2, <2>5, <3>2, CountedSettles
  <2>7. \A i \in 1..Len(x) : IsItem(x[i]) /\ x[i][1] = t
    BY <2>6, ItemsMove DEF FoundIn
  <2> HIDE DEF s, s2, x
  <2>8. s2 = s /\ s[1] \in at..Len(in)
    <3>1. s2 = s /\ s[1] \in c..Len(in)
      BY <2>5, <2>6 DEF Settled
    <3> QED  BY <1>1, <1>3, <3>1
  <2>9. readVec(more, at) = r
    BY <2>3, <2>8
  <2>10. r[1] = s[1] /\ r[2] = <<VEC, t, x>> /\ r = <<r[1], r[2]>>
    BY <2>5
  <2> DEFINE o == <<VEC, t, x>>
  <2>11. o[1] = VEC /\ o[2] = t /\ o[3] = x /\ o = <<VEC, t, x>>
    OBVIOUS
  <2> HIDE DEF o
  <2>12. IsVec(o)
    <3>1. DOMAIN x = 1..Len(x)
      BY <2>6
    <3>2. o = <<VEC, o[2], o[3]>>
      BY <2>11
    <3> QED  BY <1>6, <2>6, <2>7, <2>11, <3>1, <3>2 DEF IsVec
  <2> QED  BY <2>8, <2>9, <2>10, <2>11, <2>12 DEF Settled, o
<1>7. CASE t # none /\ t \notin Items
  <2>1. r = nullopt
    BY <1>2, <1>7, VecIs DEF t, u
  <2> QED  BY <2>1, Successes
<1> QED  BY <1>5, <1>6, <1>7
-----------------------------------------------------------------------------
(* Maps *)

IsEntry(e, kt, vt) ==
  /\ e = <<e[1], e[2]>>
  /\ IsLeaf(e[1]) /\ e[1][1] = kt
  /\ IsItem(e[2]) /\ e[2][1] = vt

EntryBits(e) == writeItem(e[1]) \o writeItem(e[2])

LEMMA LeafIsItem ==
  ASSUME NEW o, IsLeaf(o)
  PROVE  IsItem(o) /\ writeItem(o) = writeLeaf(o)
<1>1. o[1] # PAIR
  BY LeafBits, Codes
<1> QED  BY <1>1 DEF IsItem, writeItem

LEMMA EntryBitsAre ==
  ASSUME NEW kt, NEW vt, NEW e, IsEntry(e, kt, vt)
  PROVE  /\ kt \in Leaves /\ vt \in Items
         /\ writeItem(e[1]) \in Seq(Bit) /\ writeItem(e[2]) \in Seq(Bit)
         /\ EntryBits(e) \in Seq(Bit)
         /\ Len(EntryBits(e)) = Len(writeItem(e[1])) + Len(writeItem(e[2]))
         /\ Len(EntryBits(e)) >= minBits(kt) + minBits(vt)
<1>1. IsLeaf(e[1]) /\ e[1][1] = kt /\ IsItem(e[2]) /\ e[2][1] = vt
  BY DEF IsEntry
<1> DEFINE a == writeItem(e[1])
           b == writeItem(e[2])
<1>2. kt \in Leaves /\ a \in Seq(Bit) /\ Len(a) >= minBits(kt)
  BY <1>1, LeafIsItem, LeafBits
<1>3. vt \in Items /\ b \in Seq(Bit) /\ Len(b) >= minBits(vt)
  BY <1>1, ItemBits
<1>4. minBits(kt) \in Nat /\ minBits(vt) \in Nat
  BY <1>2, <1>3, Codes, MinBitsAre
<1> HIDE DEF a, b
<1>5. Len(a) \in Nat /\ Len(b) \in Nat /\ a \o b \in Seq(Bit) /\ Len(a \o b) = Len(a) + Len(b)
  BY <1>2, <1>3, ConcatIs
<1>6. Len(a \o b) >= minBits(kt) + minBits(vt)
  BY <1>2, <1>3, <1>4, <1>5
<1> QED  BY <1>2, <1>3, <1>5, <1>6 DEF EntryBits, a, b

LEMMA EntryReads ==
  ASSUME NEW in \in Seq(Bit), NEW at \in Nat, NEW kt, NEW vt, NEW e, IsEntry(e, kt, vt),
         Ahead(in, at, EntryBits(e))
  PROVE  readEntry(kt, vt, in, at) = <<at + Len(EntryBits(e)), e>>
<1> DEFINE key == e[1]
           value == e[2]
           x == writeItem(key)
           y == writeItem(value)
           c == at + Len(x)
           d == c + Len(y)
<1>1. /\ IsLeaf(key) /\ key[1] = kt /\ IsItem(value) /\ value[1] = vt /\ e = <<key, value>>
  BY DEF IsEntry
<1>2. /\ x \in Seq(Bit) /\ y \in Seq(Bit) /\ Len(EntryBits(e)) = Len(x) + Len(y)
      /\ Ahead(in, at, x \o y)
  <2>1. Ahead(in, at, x \o y)
    BY DEF EntryBits
  <2> QED  BY <2>1, EntryBitsAre
<1>3. Len(in) \in Nat /\ Len(x) \in Nat /\ Len(y) \in Nat
  BY <1>2
<1>4. Ahead(in, at, x) /\ c \in Nat /\ Ahead(in, c, y)
  <2> HIDE DEF x, y
  <2> QED  BY <1>2, <1>3, AheadSplits
<1>5. readLeaf(kt, in, at) = <<c, key>>
  <2>1. x = writeLeaf(key)
    BY <1>1, LeafIsItem
  <2>2. Ahead(in, at, writeLeaf(key))
    BY <1>4, <2>1
  <2> HIDE DEF key
  <2>3. readLeaf(key[1], in, at) = <<at + Len(writeLeaf(key)), key>>
    BY <1>1, <2>2, LeafReads
  <2> HIDE DEF x
  <2> QED  BY <1>1, <2>1, <2>3
<1>6. readItem(vt, in, c) = <<d, value>>
  <2> HIDE DEF c, value
  <2> QED  BY <1>1, <1>4, ItemReads
<1>7. d \in Nat /\ d = at + Len(EntryBits(e))
  <2> HIDE DEF x, y
  <2> QED  BY <1>2, <1>3
<1> DEFINE u == <<c, key>>
           v == <<d, value>>
<1>8. Some(u) /\ u[1] = c /\ u[2] = key /\ Some(v) /\ v[1] = d /\ v[2] = value
  BY <1>4, <1>7, Successes
<1>9. readLeaf(kt, in, at) = u /\ readItem(vt, in, c) = v
  BY <1>5, <1>6
<1> HIDE DEF u, v, c, d, key, value
<1>10. readEntry(kt, vt, in, at) = <<d, <<key, value>>>>
  BY <1>8, <1>9 DEF readEntry, Then
<1>11. readEntry(kt, vt, in, at) = <<d, e>>
  BY <1>1, <1>10
<1> QED  BY <1>7, <1>11

LEMMA EntrySettles ==
  ASSUME NEW in, NEW more, Begins(in, more), NEW at \in 0..Len(in), NEW kt, NEW vt,
         NEW r, r = readEntry(kt, vt, in, at), Some(r)
  PROVE  Settled(r, readEntry(kt, vt, more, at), in, at) /\ IsEntry(r[2], kt, vt)
<1> DEFINE u == readLeaf(kt, in, at)
           c == u[1]
           v == readItem(vt, in, c)
<1>1. Len(in) \in Nat /\ at \in Nat
  BY DEF Begins
<1>2. Some(u) /\ Some(v) /\ r = <<v[1], <<u[2], v[2]>>>>
  BY Successes DEF readEntry, Then
<1>3. Settled(u, readLeaf(kt, more, at), in, at) /\ IsLeaf(u[2]) /\ u[2][1] = kt
  BY <1>2, LeafSettles
<1>4. readLeaf(kt, more, at) = u /\ c \in at..Len(in) /\ c \in 0..Len(in)
  BY <1>1, <1>2, <1>3 DEF Settled
<1> HIDE DEF u, c
<1>5. Settled(v, readItem(vt, more, c), in, c) /\ IsItem(v[2]) /\ v[2][1] = vt
  BY <1>2, <1>4, ItemSettles
<1> HIDE DEF v
<1>6. readItem(vt, more, c) = v /\ v[1] \in at..Len(in)
  <2>1. readItem(vt, more, c) = v /\ v[1] \in c..Len(in)
    BY <1>2, <1>5 DEF Settled
  <2> QED  BY <1>1, <1>4, <2>1
<1>7. readEntry(kt, vt, more, at) = r
  BY <1>2, <1>4, <1>6 DEF readEntry, Then, c
<1>8. r[1] = v[1] /\ r[2] = <<u[2], v[2]>> /\ r = <<r[1], r[2]>>
  BY <1>2
<1>9. r[2][1] = u[2] /\ r[2][2] = v[2]
  BY <1>8
<1> QED  BY <1>3, <1>5, <1>6, <1>7, <1>8, <1>9 DEF Settled, IsEntry

MapReader(kt, vt, in) == [e \in Cursors(in) |-> readEntry(kt, vt, in, e)]

LEMMA EntriesMove ==
  ASSUME NEW in, NEW more, Begins(in, more), NEW kt, NEW vt
  PROVE  /\ Moves(MapReader(kt, vt, in), Len(in))
         /\ Agree(MapReader(kt, vt, in), MapReader(kt, vt, more), Len(in))
         /\ \A c \in 0..Len(in) : Some(MapReader(kt, vt, in)[c]) =>
              IsEntry(MapReader(kt, vt, in)[c][2], kt, vt)
<1>1. Len(in) \in Nat /\ Len(more) \in Nat /\ Len(in) <= Len(more)
  BY DEF Begins
<1> DEFINE read == MapReader(kt, vt, in)
<1> SUFFICES ASSUME NEW c \in 0..Len(in), Some(read[c])
             PROVE  /\ read[c] = <<read[c][1], read[c][2]>> /\ read[c][1] \in c..Len(in)
                    /\ MapReader(kt, vt, more)[c] = read[c]
                    /\ IsEntry(read[c][2], kt, vt)
  BY DEF Moves, Agree
<1> DEFINE r == readEntry(kt, vt, in, c)
<1>2. read[c] = r /\ MapReader(kt, vt, more)[c] = readEntry(kt, vt, more, c)
  BY <1>1 DEF MapReader, Cursors
<1>3. Some(r)
  BY <1>2
<1>4. Settled(r, readEntry(kt, vt, more, c), in, c) /\ IsEntry(r[2], kt, vt)
  BY <1>3, EntrySettles
<1> HIDE DEF r, read
<1> QED  BY <1>2, <1>3, <1>4 DEF Settled

EntryParts(entries) == [i \in 1..Len(entries) |-> EntryBits(entries[i])]

AllEntries(entries, kt, vt) == \A i \in 1..Len(entries) : IsEntry(entries[i], kt, vt)

LEMMA EntryPartsAre ==
  ASSUME NEW V, NEW entries \in Seq(V), NEW kt, NEW vt, AllEntries(entries, kt, vt)
  PROVE  /\ EntryParts(entries) \in Seq(Seq(Bit)) /\ Len(EntryParts(entries)) = Len(entries)
         /\ Wide(EntryParts(entries), minBits(kt) + minBits(vt))
         /\ \A k \in 1..Len(entries) : EntryParts(entries)[k] = EntryBits(entries[k])
<1> DEFINE n == Len(entries)
<1>1. n \in Nat
  OBVIOUS
<1>2. ASSUME NEW k \in 1..n
      PROVE  EntryBits(entries[k]) \in Seq(Bit) /\ Len(EntryBits(entries[k])) >= minBits(kt) + minBits(vt)
  <2>1. IsEntry(entries[k], kt, vt)
    BY DEF AllEntries
  <2> QED  BY <2>1, EntryBitsAre
<1> HIDE DEF n
<1>3. EntryParts(entries) = [k \in 1..n |-> EntryBits(entries[k])]
  BY DEF EntryParts, n
<1>4. EntryParts(entries) \in [1..n -> Seq(Bit)]
  BY <1>2, <1>3
<1>5. EntryParts(entries) \in Seq(Seq(Bit)) /\ Len(EntryParts(entries)) = n
  BY <1>1, <1>4, LenProperties
<1> QED  BY <1>2, <1>3, <1>5 DEF n, Wide

(* A set in some order: each element once. *)
LEMMA OrderIs ==
  ASSUME NEW S, IsFiniteSet(S)
  PROVE  /\ Cardinality(S) \in Nat /\ SetToSeq(S) \in Seq(S) /\ Len(SetToSeq(S)) = Cardinality(S)
         /\ \A i, j \in 1..Cardinality(S) : SetToSeq(S)[i] = SetToSeq(S)[j] => i = j
         /\ ToSet(SetToSeq(S)) = S
<1> DEFINE n == Cardinality(S)
           N == 1..n
<1>1. n \in Nat /\ ExistsBijection(N, S)
  BY FS_CardinalityType
<1>2. IsFiniteSet(N) /\ Cardinality(N) = n
  BY <1>1, FS_Interval
<1>3. \E f \in [N -> S] : IsInjective(f)
  BY <1>1 DEF ExistsBijection, Bijection, Injection
<1> DEFINE s == SetToSeq(S)
<1>4. s \in [N -> S] /\ IsInjective(s)
  BY <1>3 DEF SetToSeq
<1> HIDE DEF s, N, n
<1>5. s \in Injection(N, S) /\ \A i, j \in N : s[i] = s[j] => i = j
  BY <1>4 DEF Injection, IsInjective
<1>6. s \in Surjection(N, S)
  BY <1>2, <1>5, FS_Injection DEF n
<1>7. DOMAIN s = N /\ \A e \in S : \E i \in N : s[i] = e
  BY <1>4, <1>6 DEF Surjection
<1>8. ToSet(s) = S
  BY <1>4, <1>7 DEF ToSet
<1>9. s \in Seq(S) /\ Len(s) = n
  BY <1>1, <1>4, LenProperties DEF N
<1> QED  BY <1>1, <1>5, <1>8, <1>9 DEF s, N, n

\* What follows the types of a map.
EntriesOf(kt, vt, r) ==
  Then(r, LAMBDA e, entries :
    IF KeysDistinct(entries) THEN <<e, <<MAP, kt, vt, ToSet(entries)>>>> ELSE nullopt)

MapRest(kt, vt, in, d) ==
  CASE kt = none /\ vt = none -> readNone(in, d, <<MAP, none, none, {}>>)
    [] kt \in Leaves /\ vt \in Items ->
         EntriesOf(kt, vt, ReadCounted(MapReader(kt, vt, in), minBits(kt) + minBits(vt), in, d))
    [] OTHER -> nullopt

LEMMA MapRestIs ==
  ASSUME NEW kt, NEW vt, NEW in, NEW d
  PROVE  /\ kt = none /\ vt = none =>
              MapRest(kt, vt, in, d) = readNone(in, d, <<MAP, none, none, {}>>)
         /\ kt \in Leaves /\ vt \in Items =>
              MapRest(kt, vt, in, d) =
                EntriesOf(kt, vt, ReadCounted(MapReader(kt, vt, in), minBits(kt) + minBits(vt), in, d))
         /\ ~(kt = none /\ vt = none) /\ ~(kt \in Leaves /\ vt \in Items) =>
              MapRest(kt, vt, in, d) = nullopt
<1>1. CASE kt = none /\ vt = none
  <2>1. ~(kt \in Leaves /\ vt \in Items)
    BY <1>1, Codes
  <2> QED  BY <1>1, <2>1 DEF MapRest
<1>2. CASE kt \in Leaves /\ vt \in Items
  <2>1. ~(kt = none /\ vt = none)
    BY <1>2, Codes
  <2> QED  BY <1>2, <2>1 DEF MapRest
<1>3. CASE ~(kt = none /\ vt = none) /\ ~(kt \in Leaves /\ vt \in Items)
  BY <1>3 DEF MapRest
<1> QED  BY <1>1, <1>2, <1>3

LEMMA MapIs ==
  ASSUME NEW in, NEW at,
         NEW u, u = readUint(in, at, TypeBits), NEW v, v = readUint(in, u[1], TypeBits)
  PROVE  readMap(in, at) =
           IF Some(u) THEN IF Some(v) THEN MapRest(u[2], v[2], in, v[1]) ELSE nullopt ELSE nullopt
BY DEF readMap, Then, MapRest, EntriesOf, MapReader

LEMMA EntriesAre ==
  ASSUME NEW kt, NEW vt, NEW d \in Nat, NEW x, KeysDistinct(x)
  PROVE  EntriesOf(kt, vt, <<d, x>>) = <<d, <<MAP, kt, vt, ToSet(x)>>>>
<1> DEFINE r == <<d, x>>
<1>1. Some(r) /\ r[1] = d /\ r[2] = x
  BY Successes
<1> HIDE DEF r
<1>2. EntriesOf(kt, vt, r) = <<d, <<MAP, kt, vt, ToSet(x)>>>>
  BY <1>1 DEF EntriesOf, Then
<1> QED  BY <1>2 DEF r

LEMMA MapBits ==
  ASSUME NEW o, IsMap(o)
  PROVE  LET n == Cardinality(o[4])
             entries == SetToSeq(o[4])
             a == writeUint(o[2], TypeBits)
             k == writeUint(o[3], TypeBits)
             b == writeUint(n, CountBits)
             joined == FlattenSeq(EntryParts(entries))
         IN  /\ o = <<MAP, o[2], o[3], o[4]>>
             /\ n \in Nat /\ Countable(n)
             /\ entries \in Seq(o[4]) /\ Len(entries) = n /\ ToSet(entries) = o[4]
             /\ KeysDistinct(entries)
             /\ AllEntries(entries, o[2], o[3])
             /\ (o[2] \in Leaves /\ o[3] \in Items) \/ (o[2] = none /\ o[3] = none /\ n = 0)
             /\ o[2] \in Unsigned(TypeBits) /\ o[3] \in Unsigned(TypeBits)
             /\ a \in Seq(Bit) /\ Len(a) = TypeBits /\ k \in Seq(Bit) /\ Len(k) = TypeBits
             /\ b \in Seq(Bit) /\ Len(b) = CountBits
             /\ joined \in Seq(Bit)
             /\ writeMap(o) = a \o (k \o (b \o joined))
             /\ writeMap(o) \in Seq(Bit)
             /\ Len(writeMap(o)) = TypeBits + TypeBits + CountBits + Len(joined)
<1> DEFINE S == o[4]
           n == Cardinality(S)
           entries == SetToSeq(S)
           a == writeUint(o[2], TypeBits)
           k == writeUint(o[3], TypeBits)
           b == writeUint(n, CountBits)
           joined == FlattenSeq(EntryParts(entries))
<1>1. /\ o = <<MAP, o[2], o[3], S>> /\ IsFiniteSet(S) /\ Countable(n)
      /\ (o[2] \in Leaves /\ o[3] \in Items) \/ (o[2] = none /\ o[3] = none /\ S = {})
      /\ \A e \in S : IsEntry(e, o[2], o[3])
      /\ \A e, f \in S : e[1] = f[1] => e = f
  BY DEF IsMap, IsEntry
<1>2. /\ n \in Nat /\ entries \in Seq(S) /\ Len(entries) = n /\ ToSet(entries) = S
      /\ \A i, j \in 1..n : entries[i] = entries[j] => i = j
  BY <1>1, OrderIs
<1>3. (o[2] \in Leaves /\ o[3] \in Items) \/ (o[2] = none /\ o[3] = none /\ n = 0)
  BY <1>1, FS_EmptySet
<1> HIDE DEF n, entries
<1>4. AllEntries(entries, o[2], o[3])
  <2>1. \A i \in 1..Len(entries) : entries[i] \in S
    BY <1>2
  <2> QED  BY <1>1, <2>1 DEF AllEntries
<1>5. KeysDistinct(entries)
  <2>1. DOMAIN entries = 1..n /\ \A i \in 1..n : entries[i] \in S
    BY <1>2
  <2> HIDE DEF S
  <2> QED  BY <1>1, <1>2, <2>1 DEF KeysDistinct
<1>6. o[2] \in Unsigned(TypeBits) /\ o[3] \in Unsigned(TypeBits)
  BY <1>3, Codes, TypesFit
<1>7. a \in Seq(Bit) /\ Len(a) = TypeBits /\ k \in Seq(Bit) /\ Len(k) = TypeBits
  <2>1. TypeBits \in Nat
    BY DEF TypeBits
  <2> QED  BY <1>6, <2>1, UintBits
<1>8. b \in Seq(Bit) /\ Len(b) = CountBits
  <2>1. n \in Unsigned(CountBits)
    BY <1>1, <1>2, WidthsAreNat, UnsignedIs DEF Countable
  <2> QED  BY <2>1, WidthsAreNat, UintBits
<1>9. joined \in Seq(Bit)
  <2>1. EntryParts(entries) \in Seq(Seq(Bit))
    BY <1>2, <1>4, EntryPartsAre
  <2> QED  BY <2>1, JoinIsParts
<1>10. writeMap(o) = ((a \o k) \o b) \o joined
  <2>1. EntryParts(entries) = [i \in 1..n |-> writeItem(entries[i][1]) \o writeItem(entries[i][2])]
    BY <1>2 DEF EntryParts, EntryBits
  <2> QED  BY <2>1 DEF writeMap, n, entries
<1> HIDE DEF a, b, k, joined
<1> DEFINE bj == b \o joined
           kbj == k \o bj
<1>11. bj \in Seq(Bit) /\ Len(bj) = Len(b) + Len(joined) /\ Len(joined) \in Nat
  BY <1>8, <1>9, ConcatIs
<1>12. ((a \o k) \o b) \o joined = (a \o k) \o bj
  <2> DEFINE ak == a \o k
  <2>1. ak \in Seq(Bit)
    BY <1>7, ConcatIs
  <2> HIDE DEF ak
  <2>2. (ak \o b) \o joined = ak \o bj
    BY <1>8, <1>9, <2>1, Regroup, Zenon
  <2> QED  BY <2>2 DEF ak
<1> HIDE DEF bj
<1>13. kbj \in Seq(Bit) /\ Len(kbj) = Len(k) + Len(bj)
  BY <1>7, <1>11, ConcatIs
<1>14. (a \o k) \o bj = a \o kbj
  BY <1>7, <1>11, Regroup, Zenon
<1> HIDE DEF kbj
<1>15. a \o kbj \in Seq(Bit) /\ Len(a \o kbj) = Len(a) + Len(kbj)
  BY <1>7, <1>13, ConcatIs
<1>16. writeMap(o) = a \o kbj
  BY <1>10, <1>12, <1>14
<1>17. Len(a) + Len(kbj) = TypeBits + TypeBits + CountBits + Len(joined)
  BY <1>7, <1>8, <1>11, <1>13, WidthsAreNat DEF TypeBits
<1>18. writeMap(o) \in Seq(Bit) /\ Len(writeMap(o)) = TypeBits + TypeBits + CountBits + Len(joined)
  BY <1>15, <1>16, <1>17
<1> QED  BY <1>1, <1>2, <1>3, <1>4, <1>5, <1>6, <1>7, <1>8, <1>9, <1>16, <1>18
            DEF n, entries, a, b, k, joined, bj, kbj

LEMMA MapReads ==
  ASSUME NEW in \in Seq(Bit), NEW at \in Nat, NEW o, IsMap(o), Ahead(in, at, writeMap(o))
  PROVE  readMap(in, at) = <<at + Len(writeMap(o)), o>>
<1> DEFINE kt == o[2]
           vt == o[3]
           S == o[4]
           n == Cardinality(S)
           entries == SetToSeq(S)
           parts == EntryParts(entries)
           joined == FlattenSeq(parts)
           a == writeUint(kt, TypeBits)
           k == writeUint(vt, TypeBits)
           b == writeUint(n, CountBits)
           c == at + TypeBits
           d == c + TypeBits
           read == MapReader(kt, vt, in)
           m == minBits(kt) + minBits(vt)
           end == at + Len(writeMap(o))
<1>1. /\ o = <<MAP, kt, vt, S>> /\ n \in Nat /\ Countable(n)
      /\ entries \in Seq(S) /\ Len(entries) = n /\ ToSet(entries) = S
      /\ KeysDistinct(entries)
      /\ AllEntries(entries, kt, vt)
      /\ (kt \in Leaves /\ vt \in Items) \/ (kt = none /\ vt = none /\ n = 0)
      /\ kt \in Unsigned(TypeBits) /\ vt \in Unsigned(TypeBits)
      /\ a \in Seq(Bit) /\ Len(a) = TypeBits /\ k \in Seq(Bit) /\ Len(k) = TypeBits
      /\ b \in Seq(Bit) /\ Len(b) = CountBits
      /\ joined \in Seq(Bit)
      /\ writeMap(o) = a \o (k \o (b \o joined))
      /\ Len(writeMap(o)) = TypeBits + TypeBits + CountBits + Len(joined)
  BY MapBits
<1>2. /\ parts \in Seq(Seq(Bit)) /\ Len(parts) = n /\ Wide(parts, m)
      /\ \A i \in 1..n : parts[i] = EntryBits(entries[i])
  BY <1>1, EntryPartsAre
<1>3. TypeBits \in Nat /\ CountBits \in Nat /\ c \in Nat /\ d \in Nat /\ Len(in) \in Nat
  BY WidthsAreNat DEF TypeBits
<1>4. end = d + CountBits + Len(joined) /\ end \in Nat
  <2>1. Len(joined) \in Nat
    BY <1>1
  <2> HIDE DEF joined, a, b, k
  <2> QED  BY <1>1, <1>3, <2>1
<1>5. Ahead(in, at, a) /\ Ahead(in, c, k) /\ Ahead(in, d, b \o joined)
  <2> DEFINE bj == b \o joined
             kbj == k \o bj
  <2>1. bj \in Seq(Bit)
    BY <1>1, ConcatIs
  <2>2. Ahead(in, at, a \o kbj)
    BY <1>1
  <2> HIDE DEF a, b, k, joined, bj
  <2>3. kbj \in Seq(Bit)
    BY <1>1, <2>1, ConcatIs
  <2>4. Ahead(in, at, a) /\ Ahead(in, c, kbj)
    <3> HIDE DEF kbj
    <3> QED  BY <1>1, <1>3, <2>2, <2>3, AheadSplits
  <2> HIDE DEF c
  <2>5. Ahead(in, c, k) /\ Ahead(in, d, bj)
    BY <1>1, <1>3, <2>1, <2>4, AheadSplits
  <2> QED  BY <2>4, <2>5 DEF bj
<1>6. readUint(in, at, TypeBits) = <<c, kt>>
  BY <1>1, <1>3, <1>5, UintReadsBack
<1>7. readUint(in, c, TypeBits) = <<d, vt>>
  <2> HIDE DEF c
  <2> QED  BY <1>1, <1>3, <1>5, UintReadsBack
<1>8. readMap(in, at) = MapRest(kt, vt, in, d)
  <2> DEFINE u == <<c, kt>>
             v == <<d, vt>>
  <2>1. Some(u) /\ u[1] = c /\ u[2] = kt /\ Some(v) /\ v[1] = d /\ v[2] = vt
    BY <1>3, Successes
  <2>2. u = readUint(in, at, TypeBits) /\ v = readUint(in, c, TypeBits)
    BY <1>6, <1>7
  <2> HIDE DEF u, v, c, d
  <2> QED  BY <2>1, <2>2, MapIs
<1>9. CASE kt = none /\ vt = none /\ n = 0
  <2> DEFINE empty == <<MAP, none, none, {}>>
  <2>1. Ahead(in, d, b)
    <3> HIDE DEF b, joined, d
    <3> QED  BY <1>1, <1>3, <1>5, AheadSplits
  <2>2. Len(joined) = 0
    BY <1>2, <1>9, NoPartsJoin
  <2>3. readNone(in, d, empty) = <<d + CountBits, empty>>
    <3>1. Ahead(in, d, writeUint(0, CountBits))
      BY <1>9, <2>1
    <3> HIDE DEF d, empty
    <3> QED  BY <1>3, <3>1, NoneReads
  <2>4. d + CountBits = end
    <3> HIDE DEF d, end
    <3> QED  BY <1>3, <1>4, <2>2
  <2>5. S = {}
    <3>1. ToSet(entries) = {}
      <4> HIDE DEF entries, n
      <4>1. DOMAIN entries = {}
        BY <1>1, <1>9
      <4> QED  BY <4>1 DEF ToSet
    <3> QED  BY <1>1, <3>1
  <2>6. o = empty
    <3> HIDE DEF entries, parts, joined, a, b, k, n
    <3>1. o = <<MAP, kt, vt, S>>
      BY <1>1
    <3> QED  BY <1>9, <2>5, <3>1
  <2>7. MapRest(kt, vt, in, d) = readNone(in, d, empty)
    <3> HIDE DEF kt, vt, d
    <3> QED  BY <1>9, MapRestIs
  <2> HIDE DEF d, end, empty
  <2> QED  BY <1>8, <2>3, <2>4, <2>6, <2>7 DEF end
<1>10. CASE kt \in Leaves /\ vt \in Items
  <2>1. m \in Nat \ {0}
    <3>1. kt \in {0, 1, 2, 3} /\ kt \in {0, 1, 2, 3, 4} /\ vt \in {0, 1, 2, 3, 4}
      BY <1>10, Codes
    <3>2. minBits(kt) \in Nat \ {0} /\ minBits(vt) \in Nat \ {0}
      BY <3>1, MinBitsAre
    <3> QED  BY <3>2
  <2>2. Moves(read, Len(in))
    BY SameBegins, EntriesMove
  <2>3. Decodes(read, in, entries, parts)
    <3> SUFFICES ASSUME NEW i \in 1..n, NEW e \in Nat, Ahead(in, e, parts[i])
                 PROVE  read[e] = <<e + Len(parts[i]), entries[i]>>
      BY <1>1 DEF Decodes
    <3>1. IsEntry(entries[i], kt, vt) /\ parts[i] = EntryBits(entries[i])
      BY <1>1, <1>2 DEF AllEntries
    <3> HIDE DEF entries, parts, kt, vt
    <3>2. readEntry(kt, vt, in, e) = <<e + Len(parts[i]), entries[i]>>
      BY <3>1, EntryReads
    <3>3. e \in Cursors(in)
      <4>1. Len(parts[i]) \in Nat
        BY <3>1, EntryBitsAre
      <4>2. e + Len(parts[i]) <= Len(in)
        BY DEF Ahead
      <4> QED  BY <1>3, <4>1, <4>2 DEF Cursors
    <3> QED  BY <3>2, <3>3 DEF MapReader
  <2>4. Ahead(in, d, writeUint(Len(entries), CountBits) \o FlattenSeq(parts))
    BY <1>1, <1>5
  <2> HIDE DEF entries, parts, read, S, m, n, d, kt, vt
  <2>5. ReadCounted(read, m, in, d) = <<end, entries>>
    <3>1. Len(parts) = Len(entries) /\ Countable(Len(entries))
      BY <1>1, <1>2
    <3>2. ReadCounted(read, m, in, d) = <<d + CountBits + Len(FlattenSeq(parts)), entries>>
      BY <1>1, <1>2, <1>3, <2>1, <2>2, <2>3, <2>4, <3>1, CountedReads, SMTT(30)
    <3> QED  BY <1>4, <3>2
  <2> HIDE DEF end
  <2>6. MapRest(kt, vt, in, d) = EntriesOf(kt, vt, <<end, entries>>)
    BY <1>10, <2>5, MapRestIs DEF read, m
  <2>7. EntriesOf(kt, vt, <<end, entries>>) = <<end, <<MAP, kt, vt, S>>>>
    <3>1. KeysDistinct(entries) /\ ToSet(entries) = S /\ end \in Nat
      BY <1>1, <1>4
    <3> HIDE DEF kt, vt, entries, S
    <3> QED  BY <3>1, EntriesAre
  <2>8. o = <<MAP, kt, vt, S>>
    BY <1>1
  <2>9. readMap(in, at) = <<end, o>>
    BY <1>8, <2>6, <2>7, <2>8
  <2> QED  BY <2>9 DEF end
<1> QED  BY <1>1, <1>9, <1>10

\* What was read as a map's entries makes a map.
LEMMA EntriesMakeMap ==
  ASSUME NEW kt \in Leaves, NEW vt \in Items, NEW x, x \in Seq(ToSet(x)), Countable(Len(x)),
         KeysDistinct(x), AllEntries(x, kt, vt)
  PROVE  IsMap(<<MAP, kt, vt, ToSet(x)>>)
<1> DEFINE S == ToSet(x)
           n == Len(x)
           o == <<MAP, kt, vt, S>>
<1>1. n \in Nat /\ DOMAIN x = 1..n /\ x \in [1..n -> S] /\ \A e \in S : \E i \in 1..n : e = x[i]
  BY DEF ToSet
<1>2. o[1] = MAP /\ o[2] = kt /\ o[3] = vt /\ o[4] = S
  OBVIOUS
<1> HIDE DEF S, n
<1>3. IsFiniteSet(S) /\ Cardinality(S) \in Nat /\ Cardinality(S) <= n
  <2>1. x \in Surjection(1..n, S)
    BY <1>1 DEF Surjection
  <2>2. IsFiniteSet(1..n) /\ Cardinality(1..n) = n
    BY <1>1, FS_Interval
  <2>3. IsFiniteSet(S) /\ Cardinality(S) <= n
    BY <2>1, <2>2, FS_Surjection
  <2> QED  BY <2>3, FS_CardinalityType
<1>4. Countable(Cardinality(S))
  <2>1. n < mask(CountBits) /\ mask(CountBits) \in Nat
    BY WidthsAreNat, MaskFacts DEF Countable, n
  <2> QED  BY <1>1, <1>3, <2>1 DEF Countable
<1>5. \A e \in S : IsEntry(e, kt, vt)
  BY <1>1 DEF AllEntries, n
<1>6. \A e, f \in S : e[1] = f[1] => e = f
  BY <1>1 DEF KeysDistinct
<1>7. o = <<MAP, o[2], o[3], o[4]>>
  BY <1>2
<1> HIDE DEF o
<1>8. IsMap(o)
  BY <1>2, <1>3, <1>4, <1>5, <1>6, <1>7 DEF IsMap, IsEntry
<1> QED  BY <1>8 DEF o, S

LEMMA MapRestSettles ==
  ASSUME NEW in, NEW more, Begins(in, more), NEW at \in 0..Len(in), NEW kt, NEW vt,
         NEW r, r = MapRest(kt, vt, in, at), Some(r)
  PROVE  Settled(r, MapRest(kt, vt, more, at), in, at) /\ IsMap(r[2]) /\ r[2][1] = MAP
<1> DEFINE empty == <<MAP, none, none, {}>>
<1>1. CASE kt = none /\ vt = none
  <2>1. r = readNone(in, at, empty) /\ MapRest(kt, vt, more, at) = readNone(more, at, empty)
    BY <1>1, MapRestIs
  <2>2. IsMap(empty) /\ empty[1] = MAP
    <3>1. /\ empty[1] = MAP /\ empty[2] = none /\ empty[3] = none /\ empty[4] = {}
          /\ empty = <<MAP, none, none, {}>>
      OBVIOUS
    <3>2. IsFiniteSet({}) /\ Cardinality({}) = 0 /\ Countable(0)
      BY FS_EmptySet, WidthsAreNat, MaskFacts DEF Countable
    <3> HIDE DEF empty
    <3> QED  BY <3>1, <3>2 DEF IsMap
  <2> HIDE DEF empty
  <2>3. Settled(r, readNone(more, at, empty), in, at) /\ r[2] = empty
    BY <2>1, NoneSettles
  <2> QED  BY <2>1, <2>2, <2>3
<1>2. CASE kt \in Leaves /\ vt \in Items
  <2> DEFINE m == minBits(kt) + minBits(vt)
             s == ReadCounted(MapReader(kt, vt, in), m, in, at)
             s2 == ReadCounted(MapReader(kt, vt, more), m, more, at)
             x == s[2]
  <2>1. m \in Nat \ {0}
    <3>1. kt \in {0, 1, 2, 3, 4} /\ vt \in {0, 1, 2, 3, 4}
      BY <1>2, Codes
    <3>2. minBits(kt) \in Nat \ {0} /\ minBits(vt) \in Nat \ {0}
      BY <3>1, MinBitsAre
    <3> QED  BY <3>2
  <2>2. r = EntriesOf(kt, vt, s) /\ MapRest(kt, vt, more, at) = EntriesOf(kt, vt, s2)
    BY <1>2, MapRestIs
  <2>3. Some(s) /\ KeysDistinct(x) /\ r = <<s[1], <<MAP, kt, vt, ToSet(x)>>>>
    <3> HIDE DEF s
    <3> QED  BY <2>2, Successes DEF EntriesOf, Then
  <2>4. /\ Settled(s, s2, in, at) /\ x \in Seq(ToSet(x)) /\ Countable(Len(x))
        /\ FoundIn(x, MapReader(kt, vt, in), Len(in))
    <3>1. Begins(more, more)
      BY SameBegins DEF Begins
    <3>2. /\ Moves(MapReader(kt, vt, in), Len(in)) /\ Moves(MapReader(kt, vt, more), Len(more))
          /\ Agree(MapReader(kt, vt, in), MapReader(kt, vt, more), Len(in))
      BY <3>1, EntriesMove
    <3> HIDE DEF m
    <3> QED  BY <2>1, <2>3, <3>2, CountedSettles
  <2>5. AllEntries(x, kt, vt)
    BY <2>4, EntriesMove DEF FoundIn, AllEntries
  <2> HIDE DEF s, s2, x
  <2>6. s2 = s /\ s[1] \in at..Len(in)
    BY <2>3, <2>4 DEF Settled
  <2>7. MapRest(kt, vt, more, at) = r
    BY <2>2, <2>6
  <2> DEFINE o == <<MAP, kt, vt, ToSet(x)>>
  <2>8. IsMap(o) /\ o[1] = MAP
    BY <1>2, <2>3, <2>4, <2>5, EntriesMakeMap
  <2> HIDE DEF o
  <2>9. r[1] = s[1] /\ r[2] = o /\ r = <<r[1], r[2]>>
    BY <2>3 DEF o
  <2> QED  BY <2>6, <2>7, <2>8, <2>9 DEF Settled
<1>3. CASE ~(kt = none /\ vt = none) /\ ~(kt \in Leaves /\ vt \in Items)
  BY <1>3, MapRestIs, Successes
<1> QED  BY <1>1, <1>2, <1>3

LEMMA MapSettles ==
  ASSUME NEW in, NEW more, Begins(in, more), NEW at \in 0..Len(in),
         NEW r, r = readMap(in, at), Some(r)
  PROVE  Settled(r, readMap(more, at), in, at) /\ IsMap(r[2]) /\ r[2][1] = MAP
<1> DEFINE u == readUint(in, at, TypeBits)
           c == u[1]
           v == readUint(in, c, TypeBits)
           d == v[1]
<1>1. TypeBits \in Nat /\ Len(in) \in Nat /\ at \in Nat
  BY DEF Begins, TypeBits
<1>2. Some(u) /\ Some(v) /\ r = MapRest(u[2], v[2], in, d)
  BY MapIs, Successes
<1>3. readUint(more, at, TypeBits) = u /\ u = <<at + TypeBits, u[2]>> /\ at + TypeBits \in at..Len(in)
  BY <1>1, <1>2, UintIsRead
<1> HIDE DEF u
<1>4. c = at + TypeBits /\ c \in Nat /\ c \in at..Len(in)
  <2>1. c = at + TypeBits
    BY <1>3
  <2> QED  BY <1>1, <1>3, <2>1
<1> HIDE DEF c
<1>5. readUint(more, c, TypeBits) = v /\ v = <<c + TypeBits, v[2]>> /\ c + TypeBits \in c..Len(in)
  BY <1>1, <1>2, <1>4, UintIsRead
<1> HIDE DEF v
<1>6. d \in at..Len(in) /\ d \in 0..Len(in)
  <2>1. d = c + TypeBits
    BY <1>5
  <2> QED  BY <1>1, <1>4, <1>5, <2>1
<1>7. readMap(more, at) = MapRest(u[2], v[2], more, d)
  BY <1>2, <1>3, <1>5, MapIs DEF c, d
<1> HIDE DEF d
<1>8. Settled(r, MapRest(u[2], v[2], more, d), in, d) /\ IsMap(r[2]) /\ r[2][1] = MAP
  BY <1>2, <1>6, MapRestSettles
<1>9. r[1] \in at..Len(in)
  BY <1>1, <1>2, <1>6, <1>8 DEF Settled
<1> QED  BY <1>7, <1>8, <1>9 DEF Settled
-----------------------------------------------------------------------------
(* Any object *)

\* Which alternative an object and a type are.
LEMMA AlternativeIs ==
  ASSUME NEW t
  PROVE  /\ t \in Items \/ t = VEC \/ t = MAP \/ (t \notin Items /\ t # VEC /\ t # MAP)
         /\ \A in, at : /\ t \in Items => readAlternative(t, in, at) = readItem(t, in, at)
                        /\ t = VEC => readAlternative(t, in, at) = readVec(in, at)
                        /\ t = MAP => readAlternative(t, in, at) = readMap(in, at)
                        /\ t \notin Items /\ t # VEC /\ t # MAP =>
                             readAlternative(t, in, at) = nullopt
         /\ \A o : o[1] = t =>
              /\ t \in Items => IsObject(o) = IsItem(o) /\ writeAlternative(o) = writeItem(o)
              /\ t = VEC => IsObject(o) = IsVec(o) /\ writeAlternative(o) = writeVec(o)
              /\ t = MAP => IsObject(o) = IsMap(o) /\ writeAlternative(o) = writeMap(o)
              /\ t \notin Items /\ t # VEC /\ t # MAP => ~IsObject(o)
<1>1. CASE t \in Items
  <2>1. t # VEC /\ t # MAP
    BY <1>1, Codes
  <2> QED  BY <1>1, <2>1 DEF readAlternative, IsObject, writeAlternative
<1>2. CASE t = VEC
  <2>1. t \notin Items /\ t # MAP
    BY <1>2, Codes
  <2> QED  BY <1>2, <2>1 DEF readAlternative, IsObject, writeAlternative
<1>3. CASE t = MAP
  <2>1. t \notin Items /\ t # VEC
    BY <1>3, Codes
  <2> QED  BY <1>3, <2>1 DEF readAlternative, IsObject, writeAlternative
<1>4. CASE t \notin Items /\ t # VEC /\ t # MAP
  BY <1>4 DEF readAlternative, IsObject, writeAlternative
<1> QED  BY <1>1, <1>2, <1>3, <1>4

(* What was written of an object is read back as it.                         *)
LEMMA ObjectReads ==
  ASSUME NEW o, IsObject(o)
  PROVE  /\ o[1] \in Objects /\ writeAlternative(o) \in Seq(Bit)
         /\ Len(writeAlternative(o)) >= minBits(o[1])
         /\ \A in \in Seq(Bit) : \A at \in Nat :
              Ahead(in, at, writeAlternative(o)) =>
                readAlternative(o[1], in, at) = <<at + Len(writeAlternative(o)), o>>
<1> DEFINE t == o[1]
<1>1. CASE t \in Items
  <2>1. IsItem(o) /\ writeAlternative(o) = writeItem(o) /\ t \in Objects
    BY <1>1, AlternativeIs DEF Objects
  <2>2. \A in, at : readAlternative(t, in, at) = readItem(t, in, at)
    BY <1>1, AlternativeIs
  <2>3. ASSUME NEW in \in Seq(Bit), NEW at \in Nat, Ahead(in, at, writeItem(o))
        PROVE  readAlternative(t, in, at) = <<at + Len(writeItem(o)), o>>
    BY <2>1, <2>2, <2>3, ItemReads
  <2> QED  BY <2>1, <2>3, ItemBits
<1>2. CASE t = VEC
  <2>1. IsVec(o) /\ writeAlternative(o) = writeVec(o) /\ t \in Objects /\ t = 5
    BY <1>2, AlternativeIs, Codes
  <2>2. \A in, at : readAlternative(t, in, at) = readVec(in, at)
    BY <1>2, AlternativeIs
  <2>3. ASSUME NEW in \in Seq(Bit), NEW at \in Nat, Ahead(in, at, writeVec(o))
        PROVE  readAlternative(t, in, at) = <<at + Len(writeVec(o)), o>>
    BY <2>1, <2>2, <2>3, VecReads
  <2>4. Len(writeVec(o)) >= minBits(t) /\ writeVec(o) \in Seq(Bit)
    <3> DEFINE l == Len(FlattenSeq(ItemParts(o[3])))
    <3>1. Len(writeVec(o)) = TypeBits + CountBits + l /\ l \in Nat /\ writeVec(o) \in Seq(Bit)
      BY <2>1, VecBits
    <3>2. minBits(5) = TypeBits + CountBits
      BY Codes DEF minBits
    <3> HIDE DEF l, t
    <3> QED  BY <2>1, <3>1, <3>2, WidthsAreNat DEF TypeBits
  <2> QED  BY <2>1, <2>3, <2>4
<1>3. CASE t = MAP
  <2>1. IsMap(o) /\ writeAlternative(o) = writeMap(o) /\ t \in Objects /\ t = 6
    BY <1>3, AlternativeIs, Codes
  <2>2. \A in, at : readAlternative(t, in, at) = readMap(in, at)
    BY <1>3, AlternativeIs
  <2>3. ASSUME NEW in \in Seq(Bit), NEW at \in Nat, Ahead(in, at, writeMap(o))
        PROVE  readAlternative(t, in, at) = <<at + Len(writeMap(o)), o>>
    BY <2>1, <2>2, <2>3, MapReads
  <2>4. Len(writeMap(o)) >= minBits(t) /\ writeMap(o) \in Seq(Bit)
    <3> DEFINE l == Len(FlattenSeq(EntryParts(SetToSeq(o[4]))))
    <3>1. Len(writeMap(o)) = TypeBits + TypeBits + CountBits + l /\ l \in Nat /\ writeMap(o) \in Seq(Bit)
      BY <2>1, MapBits
    <3>2. minBits(6) = 2 * TypeBits + CountBits
      BY Codes DEF minBits
    <3> HIDE DEF l, t
    <3> QED  BY <2>1, <3>1, <3>2, WidthsAreNat DEF TypeBits
  <2> QED  BY <2>1, <2>3, <2>4
<1>4. CASE t \notin Items /\ t # VEC /\ t # MAP
  BY <1>4, AlternativeIs
<1> HIDE DEF t
<1> QED  BY <1>1, <1>2, <1>3, <1>4

(* What is read as an object is one, and is read the same where more follows. *)
LEMMA ObjectSettles ==
  ASSUME NEW in, NEW more, Begins(in, more), NEW at \in 0..Len(in), NEW t,
         NEW r, r = readAlternative(t, in, at), Some(r)
  PROVE  Settled(r, readAlternative(t, more, at), in, at) /\ IsObject(r[2]) /\ r[2][1] = t
<1>1. CASE t \in Items
  <2>1. r = readItem(t, in, at) /\ readAlternative(t, more, at) = readItem(t, more, at)
    BY <1>1, AlternativeIs
  <2>2. Settled(r, readItem(t, more, at), in, at) /\ IsItem(r[2]) /\ r[2][1] = t
    BY <2>1, ItemSettles
  <2> QED  BY <1>1, <2>1, <2>2, AlternativeIs
<1>2. CASE t = VEC
  <2>1. r = readVec(in, at) /\ readAlternative(t, more, at) = readVec(more, at)
    BY <1>2, AlternativeIs
  <2>2. Settled(r, readVec(more, at), in, at) /\ IsVec(r[2]) /\ r[2][1] = VEC
    BY <2>1, VecSettles
  <2> QED  BY <1>2, <2>1, <2>2, AlternativeIs
<1>3. CASE t = MAP
  <2>1. r = readMap(in, at) /\ readAlternative(t, more, at) = readMap(more, at)
    BY <1>3, AlternativeIs
  <2>2. Settled(r, readMap(more, at), in, at) /\ IsMap(r[2]) /\ r[2][1] = MAP
    BY <2>1, MapSettles
  <2> QED  BY <1>3, <2>1, <2>2, AlternativeIs
<1>4. CASE t \notin Items /\ t # VEC /\ t # MAP
  BY <1>4, AlternativeIs, Successes
<1> QED  BY <1>1, <1>2, <1>3, <1>4
-----------------------------------------------------------------------------
(* A line of objects *)

ObjectReader(t, in) == [c \in Cursors(in) |-> readAlternative(t, in, c)]

LEMMA ObjectsMove ==
  ASSUME NEW in, NEW more, Begins(in, more), NEW t
  PROVE  /\ Moves(ObjectReader(t, in), Len(in))
         /\ Agree(ObjectReader(t, in), ObjectReader(t, more), Len(in))
<1>1. Len(in) \in Nat /\ Len(more) \in Nat /\ Len(in) <= Len(more)
  BY DEF Begins
<1> DEFINE read == ObjectReader(t, in)
<1> SUFFICES ASSUME NEW c \in 0..Len(in), Some(read[c])
             PROVE  /\ read[c] = <<read[c][1], read[c][2]>> /\ read[c][1] \in c..Len(in)
                    /\ ObjectReader(t, more)[c] = read[c]
  BY DEF Moves, Agree
<1> DEFINE r == readAlternative(t, in, c)
<1>2. read[c] = r /\ ObjectReader(t, more)[c] = readAlternative(t, more, c)
  BY <1>1 DEF ObjectReader, Cursors
<1>3. Some(r)
  BY <1>2
<1>4. Settled(r, readAlternative(t, more, c), in, c)
  BY <1>3, ObjectSettles
<1> HIDE DEF r, read
<1> QED  BY <1>2, <1>3, <1>4 DEF Settled

LEMMA ObjectMinBits == \A t \in Objects : minBits(t) \in Nat \ {0}
<1>1. minBits(5) = TypeBits + CountBits /\ minBits(6) = 2 * TypeBits + CountBits
  BY Codes DEF minBits
<1>2. TypeBits \in Nat /\ CountBits \in Nat /\ CountBits > 0
  BY WidthsAreNat DEF TypeBits
<1>3. minBits(5) \in Nat \ {0} /\ minBits(6) \in Nat \ {0}
  BY <1>1, <1>2
<1> QED  BY <1>3, MinBitsAre, Codes

LEMMA LineSettles ==
  ASSUME NEW in, NEW more, Begins(in, more), NEW at \in 0..Len(in), NEW t \in Objects,
         NEW r, r = ReadLine(t, in, at), Some(r)
  PROVE  Settled(r, ReadLine(t, more, at), in, at)
<1> DEFINE read == ObjectReader(t, in)
           read2 == ObjectReader(t, more)
           m == minBits(t)
<1>1. r = ReadCounted(read, m, in, at) /\ ReadLine(t, more, at) = ReadCounted(read2, m, more, at)
  BY DEF ReadLine, ObjectReader
<1>2. m \in Nat \ {0}
  BY ObjectMinBits
<1>3. Begins(more, more)
  BY SameBegins DEF Begins
<1>4. Moves(read, Len(in)) /\ Moves(read2, Len(more)) /\ Agree(read, read2, Len(in))
  BY <1>3, ObjectsMove
<1> HIDE DEF read, read2, m
<1> QED  BY <1>1, <1>2, <1>4, CountedSettles

\* A line that can be written, of objects of a type.
IsRow(row, t) ==
  /\ row \in Seq(ToSet(row)) /\ Countable(Len(row))
  /\ \A j \in 1..Len(row) : IsObject(row[j]) /\ row[j][1] = t

ObjectParts(row) == [j \in DOMAIN row |-> writeAlternative(row[j])]

RowBits(row) == writeUint(Len(row), CountBits) \o FlattenSeq(ObjectParts(row))

LEMMA RowBitsAre ==
  ASSUME NEW row, NEW t \in Objects, IsRow(row, t)
  PROVE  /\ ObjectParts(row) \in Seq(Seq(Bit)) /\ Len(ObjectParts(row)) = Len(row)
         /\ Wide(ObjectParts(row), minBits(t))
         /\ \A j \in 1..Len(row) : ObjectParts(row)[j] = writeAlternative(row[j])
         /\ RowBits(row) \in Seq(Bit)
         /\ Len(RowBits(row)) = CountBits + Len(FlattenSeq(ObjectParts(row)))
<1> DEFINE n == Len(row)
           parts == ObjectParts(row)
<1>1. n \in Nat /\ DOMAIN row = 1..n
  BY DEF IsRow
<1>2. ASSUME NEW j \in 1..n
      PROVE  writeAlternative(row[j]) \in Seq(Bit) /\ Len(writeAlternative(row[j])) >= minBits(t)
  <2>1. IsObject(row[j]) /\ row[j][1] = t
    BY DEF IsRow
  <2> QED  BY <2>1, ObjectReads
<1>3. n \in Unsigned(CountBits)
  <2> HIDE DEF n
  <2> QED  BY <1>1, WidthsAreNat, UnsignedIs DEF IsRow, Countable, n
<1> HIDE DEF n
<1>4. parts = [j \in 1..n |-> writeAlternative(row[j])]
  BY <1>1 DEF ObjectParts
<1>5. parts \in [1..n -> Seq(Bit)]
  BY <1>2, <1>4
<1>6. parts \in Seq(Seq(Bit)) /\ Len(parts) = n
  BY <1>1, <1>5, LenProperties
<1>7. \A j \in 1..n : parts[j] = writeAlternative(row[j])
  BY <1>4
<1> HIDE DEF parts
<1> DEFINE a == writeUint(n, CountBits)
           b == FlattenSeq(parts)
<1>8. a \in Seq(Bit) /\ Len(a) = CountBits
  BY <1>3, WidthsAreNat, UintBits
<1>9. b \in Seq(Bit)
  BY <1>6, JoinIsParts
<1>10. RowBits(row) = a \o b
  BY DEF RowBits, n, parts
<1> HIDE DEF a, b
<1>11. a \o b \in Seq(Bit) /\ Len(a \o b) = Len(a) + Len(b)
  BY <1>8, <1>9, ConcatIs
<1>12. Wide(parts, minBits(t))
  BY <1>2, <1>6, <1>7 DEF Wide
<1>13. RowBits(row) \in Seq(Bit) /\ Len(RowBits(row)) = CountBits + Len(b)
  BY <1>8, <1>10, <1>11
<1> QED  BY <1>6, <1>7, <1>12, <1>13 DEF n, parts, b

LEMMA RowReads ==
  ASSUME NEW in \in Seq(Bit), NEW at \in Nat, NEW row, NEW t \in Objects, IsRow(row, t),
         Ahead(in, at, RowBits(row))
  PROVE  ReadLine(t, in, at) = <<at + Len(RowBits(row)), row>>
<1> DEFINE parts == ObjectParts(row)
           read == ObjectReader(t, in)
           m == minBits(t)
           V == ToSet(row)
<1>1. row \in Seq(V) /\ Countable(Len(row))
  BY DEF IsRow
<1>2. /\ parts \in Seq(Seq(Bit)) /\ Len(parts) = Len(row) /\ Wide(parts, m)
      /\ \A j \in 1..Len(row) : parts[j] = writeAlternative(row[j])
      /\ Len(RowBits(row)) = CountBits + Len(FlattenSeq(parts))
  BY RowBitsAre
<1>3. m \in Nat \ {0}
  BY ObjectMinBits
<1>4. Moves(read, Len(in))
  BY SameBegins, ObjectsMove
<1>5. Decodes(read, in, row, parts)
  <2> SUFFICES ASSUME NEW k \in 1..Len(row), NEW c \in Nat, Ahead(in, c, parts[k])
               PROVE  read[c] = <<c + Len(parts[k]), row[k]>>
    BY DEF Decodes
  <2>1. IsObject(row[k]) /\ row[k][1] = t /\ parts[k] = writeAlternative(row[k])
    BY <1>2 DEF IsRow
  <2>2. readAlternative(t, in, c) = <<c + Len(parts[k]), row[k]>> /\ Len(parts[k]) \in Nat
    BY <2>1, ObjectReads
  <2>3. c \in Cursors(in)
    <3>1. c + Len(parts[k]) <= Len(in) /\ Len(in) \in Nat
      BY DEF Ahead
    <3> HIDE DEF parts
    <3> QED  BY <2>2, <3>1 DEF Cursors
  <2> HIDE DEF parts
  <2> QED  BY <2>2, <2>3 DEF ObjectReader
<1>6. Ahead(in, at, writeUint(Len(row), CountBits) \o FlattenSeq(parts))
  BY DEF RowBits
<1>7. Len(FlattenSeq(parts)) \in Nat
  BY <1>2, JoinIsParts
<1>8. ReadLine(t, in, at) = ReadCounted(read, m, in, at)
  BY DEF ReadLine, ObjectReader
<1> HIDE DEF parts, read, m, V
<1>9. ReadLine(t, in, at) = <<at + CountBits + Len(FlattenSeq(parts)), row>>
  BY <1>1, <1>2, <1>3, <1>4, <1>5, <1>6, <1>8, CountedReads
<1> DEFINE l == Len(FlattenSeq(parts))
           lr == Len(RowBits(row))
<1>10. l \in Nat /\ lr = CountBits + l /\ CountBits \in Nat
  BY <1>2, <1>7, WidthsAreNat
<1> HIDE DEF l, lr
<1>11. at + CountBits + l = at + lr
  BY <1>10
<1> QED  BY <1>9, <1>11 DEF l, lr
-----------------------------------------------------------------------------
(* The lines of a file *)

LineReader(t, in) == [c \in Cursors(in) |-> ReadLine(t, in, c)]

LineReaders(types, in) == [k \in DOMAIN types |-> LineReader(types[k], in)]

LEMMA LinesMove ==
  ASSUME NEW in, NEW more, Begins(in, more), NEW t \in Objects
  PROVE  /\ Moves(LineReader(t, in), Len(in))
         /\ Agree(LineReader(t, in), LineReader(t, more), Len(in))
<1>1. Len(in) \in Nat /\ Len(more) \in Nat /\ Len(in) <= Len(more)
  BY DEF Begins
<1> DEFINE read == LineReader(t, in)
<1> SUFFICES ASSUME NEW c \in 0..Len(in), Some(read[c])
             PROVE  /\ read[c] = <<read[c][1], read[c][2]>> /\ read[c][1] \in c..Len(in)
                    /\ LineReader(t, more)[c] = read[c]
  BY DEF Moves, Agree
<1> DEFINE r == ReadLine(t, in, c)
<1>2. read[c] = r /\ LineReader(t, more)[c] = ReadLine(t, more, c)
  BY <1>1 DEF LineReader, Cursors
<1>3. Some(r)
  BY <1>2
<1>4. Settled(r, ReadLine(t, more, c), in, c)
  BY <1>3, LineSettles
<1> HIDE DEF r, read
<1> QED  BY <1>2, <1>3, <1>4 DEF Settled

LEMMA LineReadersAre ==
  ASSUME NEW in \in Seq(Bit), NEW types \in Seq(Objects)
  PROVE  /\ LineReaders(types, in) \in Seq(ToSet(LineReaders(types, in)))
         /\ Len(LineReaders(types, in)) = Len(types)
         /\ \A k \in 1..Len(types) : LineReaders(types, in)[k] = LineReader(types[k], in)
         /\ AllMove(LineReaders(types, in), Len(in))
         /\ \A at : ReadLines(types, in, at) = ReadEach(LineReaders(types, in), at)
<1> DEFINE n == Len(types)
           readers == LineReaders(types, in)
           R == {LineReader(types[k], in) : k \in 1..n}
<1>1. n \in Nat /\ DOMAIN types = 1..n /\ \A k \in 1..n : types[k] \in Objects
  OBVIOUS
<1>2. readers = [k \in 1..n |-> LineReader(types[k], in)]
  BY <1>1 DEF LineReaders
<1>3. readers \in [1..n -> R]
  BY <1>2
<1>4. \A k \in 1..n : readers[k] = LineReader(types[k], in)
  BY <1>2
<1>5. \A at : ReadLines(types, in, at) = ReadEach(readers, at)
  BY DEF ReadLines, LineReaders, LineReader
<1> HIDE DEF n, readers, R
<1>6. readers \in Seq(R) /\ Len(readers) = n
  BY <1>1, <1>3, LenProperties
<1>7. readers \in Seq(ToSet(readers))
  BY <1>6, SeqOfItself
<1>8. AllMove(readers, Len(in))
  BY <1>1, <1>4, <1>6, SameBegins, LinesMove DEF AllMove
<1> QED  BY <1>4, <1>5, <1>6, <1>7, <1>8 DEF n, readers

LEMMA LinesSettle ==
  ASSUME NEW in, NEW more, Begins(in, more), NEW at \in 0..Len(in), NEW types \in Seq(Objects),
         NEW r, r = ReadLines(types, in, at), Some(r)
  PROVE  Settled(r, ReadLines(types, more, at), in, at)
<1> DEFINE x == LineReaders(types, in)
           y == LineReaders(types, more)
           n == Len(types)
<1>1. in \in Seq(Bit) /\ more \in Seq(Bit)
  BY DEF Begins
<1>2. /\ x \in Seq(ToSet(x)) /\ Len(x) = n /\ AllMove(x, Len(in)) /\ r = ReadEach(x, at)
      /\ \A k \in 1..n : x[k] = LineReader(types[k], in)
  BY <1>1, LineReadersAre
<1>3. /\ y \in Seq(ToSet(y)) /\ Len(y) = n /\ AllMove(y, Len(more))
      /\ ReadLines(types, more, at) = ReadEach(y, at)
      /\ \A k \in 1..n : y[k] = LineReader(types[k], more)
  BY <1>1, LineReadersAre
<1>4. \A k \in 1..n : types[k] \in Objects
  OBVIOUS
<1> HIDE DEF x, y, n
<1>5. AllAgree(x, y, Len(in))
  BY <1>2, <1>3, <1>4, LinesMove DEF AllAgree
<1> QED  BY <1>2, <1>3, <1>5, EachSettles

\* Lines that can be written.
Writable(types, rows) ==
  /\ types \in Seq(Objects) /\ rows \in Seq(ToSet(rows)) /\ Len(types) = Len(rows)
  /\ \A i \in 1..Len(rows) : IsRow(rows[i], types[i])

RowParts(rows) == [i \in DOMAIN rows |-> RowBits(rows[i])]

LEMMA RowPartsAre ==
  ASSUME NEW types, NEW rows, Writable(types, rows)
  PROVE  /\ RowParts(rows) \in Seq(Seq(Bit)) /\ Len(RowParts(rows)) = Len(rows)
         /\ \A i \in 1..Len(rows) : RowParts(rows)[i] = RowBits(rows[i])
<1> DEFINE n == Len(rows)
<1>1. n \in Nat /\ DOMAIN rows = 1..n
  BY DEF Writable
<1>2. ASSUME NEW i \in 1..n PROVE RowBits(rows[i]) \in Seq(Bit)
  <2>1. types[i] \in Objects /\ IsRow(rows[i], types[i])
    BY DEF Writable
  <2> QED  BY <2>1, RowBitsAre
<1> HIDE DEF n
<1>3. RowParts(rows) = [i \in 1..n |-> RowBits(rows[i])]
  BY <1>1 DEF RowParts
<1>4. RowParts(rows) \in [1..n -> Seq(Bit)]
  BY <1>2, <1>3
<1>5. RowParts(rows) \in Seq(Seq(Bit)) /\ Len(RowParts(rows)) = n
  BY <1>1, <1>4, LenProperties
<1> QED  BY <1>3, <1>5 DEF n

(* The lines that were written are read for their types.                     *)
LEMMA LinesRead ==
  ASSUME NEW in \in Seq(Bit), NEW at \in Nat, NEW types, NEW rows, Writable(types, rows),
         Ahead(in, at, FlattenSeq(RowParts(rows)))
  PROVE  ReadLines(types, in, at) = <<at + Len(FlattenSeq(RowParts(rows))), rows>>
<1> DEFINE parts == RowParts(rows)
           joined == FlattenSeq(parts)
           n == Len(rows)
           l == Len(in)
           readers == LineReaders(types, in)
<1>1. /\ parts \in Seq(Seq(Bit)) /\ Len(parts) = n
      /\ \A i \in 1..n : parts[i] = RowBits(rows[i])
  BY RowPartsAre
<1>2. n \in Nat /\ l \in Nat /\ types \in Seq(Objects) /\ Len(types) = n /\ rows \in Seq(ToSet(rows))
  BY DEF Writable
<1>3. PICK ends : /\ PartsEnd(ends, at, parts) /\ ends[n] = at + Len(joined) /\ ends[n] <= l
                  /\ \A k \in 1..n : ends[k] <= l /\ Ahead(in, ends[k - 1], parts[k])
  <2>1. \E ends : /\ PartsEnd(ends, at, parts)
                  /\ ends[Len(parts)] = at + Len(FlattenSeq(parts))
                  /\ ends[Len(parts)] <= Len(in)
                  /\ \A k \in 1..Len(parts) : ends[k] <= Len(in) /\ Ahead(in, ends[k - 1], parts[k])
    <3> HIDE DEF parts
    <3> QED  BY <1>1, <1>2, PartsAhead DEF parts
  <2> QED  BY <1>1, <2>1
<1>4. /\ readers \in Seq(ToSet(readers)) /\ Len(readers) = n /\ AllMove(readers, l)
      /\ ReadLines(types, in, at) = ReadEach(readers, at)
      /\ \A k \in 1..n : readers[k] = LineReader(types[k], in)
  BY <1>2, LineReadersAre
<1> HIDE DEF parts, joined, readers, n, l
<1>5. /\ ends[0] = at
      /\ \A k \in 1..n : ends[k] = ends[k - 1] + Len(parts[k])
      /\ \A k \in 0..n : ends[k] \in Nat
  BY <1>1, <1>3 DEF PartsEnd
<1>6. ASSUME NEW k \in 0..n PROVE ends[k] \in 0..l
  <2>1. ends[k] \in Nat
    BY <1>5
  <2>2. CASE k = 0
    <3>1. at <= l
      <4>1. at + Len(joined) <= l /\ Len(joined) \in Nat
        BY <1>1, <1>3, JoinIsParts DEF joined
      <4> QED  BY <1>2, <4>1
    <3> QED  BY <1>2, <1>5, <2>1, <2>2, <3>1
  <2>3. CASE k # 0
    <3>1. k \in 1..n
      BY <1>2, <2>3
    <3> QED  BY <1>2, <1>3, <2>1, <3>1
  <2> QED  BY <2>2, <2>3
<1>7. ASSUME NEW k \in 1..n PROVE readers[k][ends[k - 1]] = <<ends[k], rows[k]>>
  <2>1. k - 1 \in 0..n /\ types[k] \in Objects
    BY <1>2
  <2>2. ends[k - 1] \in Nat /\ ends[k - 1] \in 0..l
    BY <1>5, <1>6, <2>1
  <2>3. IsRow(rows[k], types[k]) /\ parts[k] = RowBits(rows[k])
    BY <1>1 DEF Writable, n
  <2>4. Ahead(in, ends[k - 1], RowBits(rows[k]))
    BY <1>3, <2>3
  <2>5. ReadLine(types[k], in, ends[k - 1]) = <<ends[k - 1] + Len(RowBits(rows[k])), rows[k]>>
    <3> DEFINE c == ends[k - 1]
               t == types[k]
               row == rows[k]
    <3>1. c \in Nat /\ t \in Objects /\ IsRow(row, t) /\ Ahead(in, c, RowBits(row))
      BY <2>1, <2>2, <2>3, <2>4
    <3> HIDE DEF c, t, row
    <3>2. ReadLine(t, in, c) = <<c + Len(RowBits(row)), row>>
      BY <3>1, RowReads
    <3> QED  BY <3>2 DEF c, t, row
  <2>6. ends[k] = ends[k - 1] + Len(RowBits(rows[k]))
    BY <1>5, <2>3
  <2> QED  BY <1>4, <2>2, <2>5, <2>6 DEF LineReader, Cursors, l
<1>8. Chain(readers, ends, rows, l)
  BY <1>2, <1>4, <1>6, <1>7 DEF Chain, n
<1>9. ReadEach(readers, ends[0]) = <<ends[n], rows>>
  BY <1>2, <1>4, <1>8, EachReads DEF l
<1> QED  BY <1>3, <1>4, <1>5, <1>9 DEF joined, parts
-----------------------------------------------------------------------------
(* Row zero *)

LEMMA LeastOf ==
  ASSUME NEW S, S \subseteq Nat
  PROVE  /\ \A m \in S : (\A i \in S : m <= i) => Min(S) = m
         /\ S # {} => Min(S) \in S /\ \A i \in S : Min(S) <= i
<1>1. ASSUME S # {} PROVE \E m \in S : \A i \in S : m <= i
  <2>1. PICK m \in S : \A i \in S : ~ (<<i, m>> \in OpToRel(<, Nat))
    BY <1>1, NatLessThanWellFounded, WFMin
  <2>2. ASSUME NEW i \in S PROVE m <= i
    <3>1. i \in Nat /\ m \in Nat
      OBVIOUS
    <3>2. ~(i < m)
      BY <2>1, <3>1 DEF OpToRel
    <3> QED  BY <3>1, <3>2
  <2> QED  BY <2>2
<1>2. ASSUME S # {} PROVE Min(S) \in S /\ \A i \in S : Min(S) <= i
  BY <1>1, <1>2 DEF Min
<1>3. ASSUME NEW m \in S, \A i \in S : m <= i PROVE Min(S) = m
  <2>1. Min(S) \in S /\ Min(S) <= m
    BY <1>2
  <2>2. m <= Min(S)
    BY <1>3, <2>1
  <2>3. Min(S) \in Nat /\ m \in Nat
    BY <2>1
  <2> HIDE DEF Min
  <2> QED  BY <2>1, <2>2, <2>3
<1> QED  BY <1>2, <1>3

TypeAt(in, i) == readUint(in, (i - 1) * TypeBits, TypeBits)[2]

\* Where the bits hold an end of the types.
TypeEnds(in) == {i \in 1..(Len(in) \div TypeBits) : TypeAt(in, i) = none}

LEMMA TypePlaces ==
  ASSUME NEW l \in Nat, NEW i \in Nat, i > 0
  PROVE  /\ i \in 1..(l \div TypeBits) <=> i * TypeBits <= l
         /\ (i - 1) * TypeBits \in Nat /\ (i - 1) * TypeBits + TypeBits = i * TypeBits
<1>1. TypeBits = 3
  BY DEF TypeBits
<1>2. i <= l \div 3 <=> 3 * i <= l
  BY 3 \in Nat \ {0}, FitsIs
<1>3. l \div 3 \in Nat
  OBVIOUS
<1>4. 3 * i = i * 3 /\ (i - 1) * 3 \in Nat /\ (i - 1) * 3 + 3 = i * 3
  OBVIOUS
<1>5. i \in 1..(l \div 3) <=> i * 3 <= l
  BY <1>2, <1>3, <1>4
<1> QED  BY <1>1, <1>4, <1>5

LEMMA TypeAtIs ==
  ASSUME NEW in, NEW more, Begins(in, more), NEW i \in 1..(Len(in) \div TypeBits)
  PROVE  i \in 1..(Len(more) \div TypeBits) /\ TypeAt(more, i) = TypeAt(in, i) /\ TypeAt(in, i) \in 0..7
<1> DEFINE at == (i - 1) * TypeBits
           l == Len(in)
           l2 == Len(more)
<1>1. l \in Nat /\ l2 \in Nat /\ l <= l2 /\ i \in Nat /\ i > 0 /\ in \in Seq(Bit)
  BY DEF Begins
<1>2. i * TypeBits <= l /\ at \in Nat /\ at + TypeBits = i * TypeBits
  <2> HIDE DEF l
  <2> QED  BY <1>1, TypePlaces DEF l
<1>3. i * TypeBits \in Nat /\ i * TypeBits <= l2
  <2> HIDE DEF l, l2
  <2> QED  BY <1>1, <1>2, TypesFit
<1>4. i \in 1..(Len(more) \div TypeBits)
  BY <1>1, <1>3, TypePlaces
<1> HIDE DEF at, l, l2
<1>5. Some(readUint(in, at, TypeBits))
  <2>1. at + TypeBits <= Len(in)
    BY <1>2 DEF l
  <2>2. \E x : readUint(in, at, TypeBits) = <<at + TypeBits, x>>
    BY <1>1, <1>2, <2>1, TypesFit, UintSums
  <2>3. at + TypeBits \in Nat
    BY <1>2, TypesFit
  <2> QED  BY <2>2, <2>3, Successes
<1>6. readUint(more, at, TypeBits) = readUint(in, at, TypeBits) /\ readUint(in, at, TypeBits)[2] \in 0..7
  BY <1>2, <1>5, TypesFit, UintIsRead
<1> QED  BY <1>4, <1>6 DEF TypeAt, at

\* The first m - 1 types, and then none.
FirstTypes(in, m) == <<m * TypeBits, [i \in 1..(m - 1) |-> TypeAt(in, i)]>>

LEMMA TypesAre ==
  ASSUME NEW in \in Seq(Bit)
  PROVE  /\ TypeEnds(in) \subseteq Nat
         /\ TypeEnds(in) = {} => ReadTypes(in) = nullopt
         /\ \A m \in TypeEnds(in) : (\A i \in TypeEnds(in) : m <= i) => ReadTypes(in) = FirstTypes(in, m)
         /\ TypeEnds(in) # {} => \E m \in TypeEnds(in) : \A i \in TypeEnds(in) : m <= i
<1> DEFINE E == TypeEnds(in)
<1>1. E \subseteq Nat
  BY DEF TypeEnds
<1>2. ReadTypes(in) = IF E = {} THEN nullopt ELSE FirstTypes(in, Min(E))
  BY DEF ReadTypes, TypeEnds, TypeAt, FirstTypes
<1> HIDE DEF E
<1>3. /\ \A m \in E : (\A i \in E : m <= i) => Min(E) = m
      /\ E # {} => Min(E) \in E /\ \A i \in E : Min(E) <= i
  BY <1>1, LeastOf
<1>4. ASSUME NEW m \in E, \A i \in E : m <= i PROVE ReadTypes(in) = FirstTypes(in, m)
  BY <1>2, <1>3, <1>4
<1> QED  BY <1>1, <1>2, <1>3, <1>4 DEF E

(* The types that are read from bits are read from longer ones too.          *)
LEMMA TypesSettle ==
  ASSUME NEW in, NEW more, Begins(in, more), NEW r, r = ReadTypes(in), Some(r)
  PROVE  Settled(r, ReadTypes(more), in, 0) /\ r[2] \in Seq(Objects)
<1>1. in \in Seq(Bit) /\ more \in Seq(Bit) /\ Len(in) \in Nat
  BY DEF Begins
<1>2. TypeEnds(in) # {}
  BY <1>1, TypesAre, Successes
<1>3. PICK m \in TypeEnds(in) : \A i \in TypeEnds(in) : m <= i
  BY <1>1, <1>2, TypesAre
<1>4. r = FirstTypes(in, m)
  BY <1>1, <1>3, TypesAre
<1>5. m \in 1..(Len(in) \div TypeBits) /\ TypeAt(in, m) = none /\ m \in Nat /\ m > 0
  BY DEF TypeEnds
<1>6. m * TypeBits \in 0..Len(in)
  BY <1>1, <1>5, TypePlaces, TypesFit
<1>7. ASSUME NEW i \in 1..m PROVE i \in 1..(Len(in) \div TypeBits) /\ i \in Nat
  <2>1. Len(in) \div TypeBits \in Int
    BY <1>1 DEF TypeBits
  <2> QED  BY <1>5, <2>1
<1>8. ASSUME NEW i \in 1..(m - 1) PROVE TypeAt(in, i) \in Objects /\ TypeAt(more, i) = TypeAt(in, i)
  <2>1. i \in 1..m /\ ~(m <= i)
    BY <1>5
  <2>2. i \in 1..(Len(in) \div TypeBits) /\ TypeAt(in, i) # none
    BY <1>3, <1>7, <2>1 DEF TypeEnds
  <2>3. TypeAt(in, i) \in 0..7 /\ TypeAt(more, i) = TypeAt(in, i)
    BY <2>2, TypeAtIs
  <2> QED  BY <2>2, <2>3, Codes
<1>9. m \in TypeEnds(more)
  BY <1>5, TypeAtIs DEF TypeEnds
<1>10. ASSUME NEW i \in TypeEnds(more) PROVE m <= i
  <2>1. i \in Nat /\ i > 0 /\ TypeAt(more, i) = none
    BY DEF TypeEnds
  <2>2. ASSUME i < m PROVE FALSE
    <3>1. i \in 1..(m - 1) /\ i \in 1..m
      BY <1>5, <2>1, <2>2
    <3>2. i \in TypeEnds(in)
      BY <1>7, <1>8, <2>1, <3>1 DEF TypeEnds
    <3> QED  BY <1>3, <1>5, <2>1, <2>2, <3>2
  <2> QED  BY <1>5, <2>1, <2>2
<1>11. ReadTypes(more) = FirstTypes(more, m)
  BY <1>1, <1>9, <1>10, TypesAre
<1>12. FirstTypes(more, m) = FirstTypes(in, m)
  BY <1>8 DEF FirstTypes
<1> DEFINE types == [i \in 1..(m - 1) |-> TypeAt(in, i)]
<1>13. types \in Seq(Objects)
  <2>1. types \in [1..(m - 1) -> Objects] /\ m - 1 \in Nat
    BY <1>5, <1>8
  <2> QED  BY <2>1
<1> HIDE DEF types
<1>14. r = <<m * TypeBits, types>>
  BY <1>4 DEF FirstTypes, types
<1>15. r[1] = m * TypeBits /\ r[2] = types /\ r = <<r[1], r[2]>>
  BY <1>14
<1> QED  BY <1>4, <1>6, <1>11, <1>12, <1>13, <1>15 DEF Settled
-----------------------------------------------------------------------------
(* The body of a file *)

TypeParts(types) == [i \in DOMAIN types |-> writeUint(types[i], TypeBits)]

LEMMA TypePartsAre ==
  ASSUME NEW types \in Seq(Objects)
  PROVE  /\ TypeParts(types) \in Seq(Seq(Bit)) /\ Len(TypeParts(types)) = Len(types)
         /\ \A i \in 1..Len(types) :
              TypeParts(types)[i] = writeUint(types[i], TypeBits) /\ Len(TypeParts(types)[i]) = TypeBits
<1> DEFINE n == Len(types)
<1>1. n \in Nat /\ DOMAIN types = 1..n /\ \A i \in 1..n : types[i] \in Objects
  OBVIOUS
<1> HIDE DEF n
<1>2. ASSUME NEW i \in 1..n
      PROVE  writeUint(types[i], TypeBits) \in Seq(Bit) /\ Len(writeUint(types[i], TypeBits)) = TypeBits
  <2>1. types[i] \in Unsigned(TypeBits)
    BY <1>1, Codes, TypesFit
  <2> QED  BY <2>1, TypesFit, UintBits
<1>3. TypeParts(types) = [i \in 1..n |-> writeUint(types[i], TypeBits)]
  BY <1>1 DEF TypeParts
<1>4. TypeParts(types) \in [1..n -> Seq(Bit)]
  BY <1>2, <1>3
<1>5. TypeParts(types) \in Seq(Seq(Bit)) /\ Len(TypeParts(types)) = n
  BY <1>1, <1>4, LenProperties
<1> QED  BY <1>2, <1>3, <1>5 DEF n

LEMMA BodyIs ==
  ASSUME NEW types, NEW rows, Writable(types, rows)
  PROVE  LET a == FlattenSeq(TypeParts(types))
             b == writeUint(none, TypeBits)
             joined == FlattenSeq(RowParts(rows))
         IN  /\ a \in Seq(Bit) /\ b \in Seq(Bit) /\ Len(b) = TypeBits /\ joined \in Seq(Bit)
             /\ Body(types, rows) = a \o (b \o joined)
             /\ Body(types, rows) \in Seq(Bit)
             /\ Len(Body(types, rows)) = Len(a) + TypeBits + Len(joined)
<1> DEFINE a == FlattenSeq(TypeParts(types))
           b == writeUint(none, TypeBits)
           joined == FlattenSeq(RowParts(rows))
<1>1. a \in Seq(Bit)
  <2>1. TypeParts(types) \in Seq(Seq(Bit))
    BY TypePartsAre DEF Writable
  <2> QED  BY <2>1, JoinIsParts
<1>2. b \in Seq(Bit) /\ Len(b) = TypeBits
  <2>1. none \in Unsigned(TypeBits)
    BY Codes, TypesFit
  <2> QED  BY <2>1, TypesFit, UintBits
<1>3. joined \in Seq(Bit)
  BY RowPartsAre, JoinIsParts
<1>4. Body(types, rows) = (a \o b) \o joined
  BY DEF Body, TypeParts, RowParts, RowBits, ObjectParts
<1> HIDE DEF a, b, joined
<1> DEFINE bj == b \o joined
<1>5. bj \in Seq(Bit) /\ Len(bj) = Len(b) + Len(joined) /\ Len(joined) \in Nat /\ Len(a) \in Nat
  BY <1>1, <1>2, <1>3, ConcatIs
<1>6. (a \o b) \o joined = a \o bj
  BY <1>1, <1>2, <1>3, Regroup, Zenon
<1> HIDE DEF bj
<1>7. a \o bj \in Seq(Bit) /\ Len(a \o bj) = Len(a) + Len(bj)
  BY <1>1, <1>5, ConcatIs
<1>8. Len(a) + Len(bj) = Len(a) + TypeBits + Len(joined)
  BY <1>2, <1>5, TypesFit
<1> QED  BY <1>1, <1>2, <1>3, <1>4, <1>6, <1>7, <1>8 DEF a, b, joined, bj

(* Row zero and the lines are read from what was written of them.            *)
LEMMA BodyReads ==
  ASSUME NEW in \in Seq(Bit), NEW types, NEW rows, Writable(types, rows),
         Ahead(in, 0, Body(types, rows))
  PROVE  \E c \in 0..Len(in) : /\ ReadTypes(in) = <<c, types>>
                               /\ ReadLines(types, in, c) = <<Len(Body(types, rows)), rows>>
<1> DEFINE parts == TypeParts(types)
           a == FlattenSeq(parts)
           b == writeUint(none, TypeBits)
           joined == FlattenSeq(RowParts(rows))
           n == Len(types)
           at == Len(a)
           c == at + TypeBits
<1>1. /\ a \in Seq(Bit) /\ b \in Seq(Bit) /\ Len(b) = TypeBits /\ joined \in Seq(Bit)
      /\ Ahead(in, 0, a \o (b \o joined))
      /\ Len(Body(types, rows)) = Len(a) + TypeBits + Len(joined)
  BY BodyIs
<1>2. /\ types \in Seq(Objects) /\ n \in Nat /\ at \in Nat /\ c \in Nat
      /\ Len(in) \in Nat /\ Len(joined) \in Nat
  BY <1>1, TypesFit DEF Writable
<1>3. Ahead(in, 0, a) /\ Ahead(in, at, b) /\ Ahead(in, c, joined)
  <2> DEFINE bj == b \o joined
  <2>1. bj \in Seq(Bit) /\ Ahead(in, 0, a \o bj)
    BY <1>1, ConcatIs
  <2> HIDE DEF a, b, bj, joined
  <2>2. Ahead(in, 0, a) /\ 0 + Len(a) \in Nat /\ Ahead(in, 0 + Len(a), bj)
    BY <1>1, <1>2, <2>1, 0 \in Nat, AheadSplits
  <2>3. 0 + Len(a) = at
    BY <1>2
  <2> HIDE DEF at
  <2>4. Ahead(in, at, b) /\ Ahead(in, c, joined)
    <3>1. Ahead(in, at, b \o joined)
      BY <2>2, <2>3 DEF bj
    <3> QED  BY <1>1, <1>2, <3>1, AheadSplits
  <2> QED  BY <2>2, <2>4
<1>4. /\ parts \in Seq(Seq(Bit)) /\ Len(parts) = n
      /\ \A i \in 1..n : parts[i] = writeUint(types[i], TypeBits) /\ Len(parts[i]) = TypeBits
  BY <1>2, TypePartsAre
<1>5. PICK ends : /\ PartsEnd(ends, 0, parts) /\ ends[n] = 0 + at
                  /\ \A k \in 1..n : Ahead(in, ends[k - 1], parts[k])
  <2>1. \E ends : /\ PartsEnd(ends, 0, parts)
                  /\ ends[Len(parts)] = 0 + Len(FlattenSeq(parts))
                  /\ ends[Len(parts)] <= Len(in)
                  /\ \A k \in 1..Len(parts) : ends[k] <= Len(in) /\ Ahead(in, ends[k - 1], parts[k])
    <3> HIDE DEF parts
    <3> QED  BY <1>2, <1>3, <1>4, 0 \in Nat, PartsAhead DEF a
  <2> QED  BY <1>4, <2>1
<1> HIDE DEF n, parts, a, b, joined
<1>6. \A k \in 0..n : ends[k] = k * TypeBits
  <2> DEFINE P == {k \in 0..n : ends[k] = k * TypeBits}
  <2>1. 0 \in P
    BY <1>2, <1>5, TypesFit DEF PartsEnd
  <2>2. ASSUME NEW k \in 0..(n - 1), k \in P PROVE k + 1 \in P
    <3>1. k + 1 \in 1..n /\ k + 1 \in 0..n /\ (k + 1) - 1 = k /\ k \in Nat
      BY <1>2
    <3>2. ends[k + 1] = ends[k] + TypeBits
      BY <1>4, <1>5, <3>1 DEF PartsEnd
    <3>3. k * TypeBits + TypeBits = (k + 1) * TypeBits
      BY <3>1 DEF TypeBits
    <3> QED  BY <2>2, <3>1, <3>2, <3>3
  <2> HIDE DEF P
  <2>3. \A k \in 0..n : k \in P
    BY <1>2, <2>1, <2>2, InductionTo
  <2> QED  BY <2>3 DEF P
<1>7. at = n * TypeBits /\ c = (n + 1) * TypeBits
  <2>1. 0 + at = at /\ ends[n] = n * TypeBits
    BY <1>2, <1>6
  <2>2. n * TypeBits + TypeBits = (n + 1) * TypeBits
    BY <1>2 DEF TypeBits
  <2> HIDE DEF at
  <2> QED  BY <1>5, <2>1, <2>2
<1>8. ASSUME NEW i \in 1..n PROVE TypeAt(in, i) = types[i] /\ types[i] \in Objects
  <2>1. i - 1 \in 0..n /\ types[i] \in Objects
    BY <1>2 DEF n
  <2>2. Ahead(in, (i - 1) * TypeBits, writeUint(types[i], TypeBits))
    BY <1>4, <1>5, <1>6, <2>1
  <2>3. (i - 1) * TypeBits \in Nat /\ types[i] \in Unsigned(TypeBits)
    BY <2>1, <2>2, Codes, TypesFit DEF Ahead
  <2>4. readUint(in, (i - 1) * TypeBits, TypeBits) = <<(i - 1) * TypeBits + TypeBits, types[i]>>
    <3> DEFINE j == (i - 1) * TypeBits
               v == types[i]
    <3>1. Ahead(in, j, writeUint(v, TypeBits)) /\ j \in Nat /\ v \in Unsigned(TypeBits)
      BY <2>2, <2>3
    <3> HIDE DEF j, v
    <3>2. readUint(in, j, TypeBits) = <<j + TypeBits, v>>
      BY <3>1, TypesFit, UintReadsBack
    <3> QED  BY <3>2 DEF j, v
  <2> QED  BY <2>1, <2>4 DEF TypeAt
<1>9. c <= Len(in)
  BY <1>1, <1>3 DEF Ahead
<1>10. TypeAt(in, n + 1) = none
  <2>1. (n + 1) - 1 = n
    BY <1>2
  <2>2. none \in Unsigned(TypeBits)
    BY Codes, TypesFit
  <2> HIDE DEF at, c
  <2>3. readUint(in, at, TypeBits) = <<at + TypeBits, none>>
    BY <1>2, <1>3, <2>2, TypesFit, UintReadsBack DEF b
  <2> QED  BY <1>7, <2>1, <2>3 DEF TypeAt
<1>11. n + 1 \in TypeEnds(in)
  <2>1. n + 1 \in Nat /\ n + 1 > 0 /\ (n + 1) * TypeBits <= Len(in)
    BY <1>2, <1>7, <1>9
  <2>2. n + 1 \in 1..(Len(in) \div TypeBits)
    BY <1>2, <2>1, TypePlaces
  <2> QED  BY <1>10, <2>2 DEF TypeEnds
<1>12. ASSUME NEW i \in TypeEnds(in) PROVE n + 1 <= i
  <2>1. i \in Nat /\ i > 0 /\ TypeAt(in, i) = none
    BY DEF TypeEnds
  <2>2. none \notin Objects
    BY Codes
  <2>3. i \notin 1..n
    BY <1>8, <2>1, <2>2
  <2> QED  BY <1>2, <2>1, <2>3
<1>13. ReadTypes(in) = FirstTypes(in, n + 1)
  BY <1>11, <1>12, TypesAre
<1>14. FirstTypes(in, n + 1) = <<c, types>>
  <2>1. (n + 1) - 1 = n
    BY <1>2
  <2>2. [i \in 1..n |-> TypeAt(in, i)] = types
    BY <1>2, <1>8 DEF n
  <2> HIDE DEF c
  <2> QED  BY <1>7, <2>1, <2>2 DEF FirstTypes
<1>15. ReadLines(types, in, c) = <<c + Len(joined), rows>>
  <2> HIDE DEF c
  <2> QED  BY <1>2, <1>3, LinesRead DEF joined
<1>16. c + Len(joined) = Len(Body(types, rows)) /\ c \in 0..Len(in)
  <2>1. Len(Body(types, rows)) = at + TypeBits + Len(joined)
    BY <1>1
  <2> QED  BY <1>2, <1>9, <2>1
<1> HIDE DEF c
<1> QED  BY <1>13, <1>14, <1>15, <1>16
-----------------------------------------------------------------------------
(* The bytes of a file *)

\* The lines that were read, unless more than padding is left; and all of a file.
UpToPadding(in, types, r) ==
  Then(r, LAMBDA d, rows :
    IF OnlyPadding(SubSeq(in, d + 1, Len(in)))
    THEN <<d, [types |-> types, rows |-> rows]>> ELSE nullopt)

AllOf(in) == Then(ReadTypes(in), LAMBDA c, types : UpToPadding(in, types, ReadLines(types, in, c)))

LEMMA LoadIs ==
  ASSUME NEW f
  PROVE  load(f) = IF f.head = Header /\ Some(AllOf(f.body)) THEN AllOf(f.body)[2] ELSE Corrupt
BY DEF load, AllOf, UpToPadding

(* A body that ends in padding is read whole. *)
LEMMA WholeReads ==
  ASSUME NEW in \in Seq(Bit), NEW types, NEW rows, Writable(types, rows),
         Ahead(in, 0, Body(types, rows)), OnlyPadding(SubSeq(in, Len(Body(types, rows)) + 1, Len(in)))
  PROVE  AllOf(in) = <<Len(Body(types, rows)), [types |-> types, rows |-> rows]>>
<1> DEFINE n == Len(Body(types, rows))
           t == ReadTypes(in)
           s == [types |-> types, rows |-> rows]
<1>1. PICK c \in 0..Len(in) : t = <<c, types>> /\ ReadLines(types, in, c) = <<n, rows>>
  BY BodyReads
<1> DEFINE r == ReadLines(types, in, c)
<1>2. n \in Nat /\ c \in Nat
  BY <1>1, BodyIs
<1>3. Some(t) /\ t[1] = c /\ t[2] = types /\ Some(r) /\ r[1] = n /\ r[2] = rows
  BY <1>1, <1>2, Successes
<1> HIDE DEF t
<1>4. AllOf(in) = UpToPadding(in, types, ReadLines(types, in, c))
  BY <1>3 DEF AllOf, Then, t
<1> HIDE DEF r, n
<1>5. UpToPadding(in, types, r) = <<n, s>>
  BY <1>3 DEF UpToPadding, Then, n
<1> QED  BY <1>4, <1>5 DEF r, n

(* Of bits that stop within the body of a file nothing is read. *)
LEMMA PartFails ==
  ASSUME NEW in, NEW more, Begins(in, more), NEW types, NEW rows, Writable(types, rows),
         Ahead(more, 0, Body(types, rows)), Len(in) < Len(Body(types, rows))
  PROVE  ~Some(AllOf(in))
<1> SUFFICES ASSUME Some(AllOf(in)) PROVE FALSE
  OBVIOUS
<1> DEFINE n == Len(Body(types, rows))
           t == ReadTypes(in)
<1>1. more \in Seq(Bit) /\ Len(in) \in Nat /\ n \in Nat
  BY BodyIs DEF Begins
<1>2. PICK c \in 0..Len(more) : /\ ReadTypes(more) = <<c, types>>
                               /\ ReadLines(types, more, c) = <<n, rows>>
  BY <1>1, BodyReads
<1>3. Some(t)
  BY Successes DEF AllOf, Then
<1>4. Settled(t, ReadTypes(more), in, 0)
  BY <1>3, TypesSettle
<1>5. t[1] = c /\ t[2] = types /\ c \in 0..Len(in)
  BY <1>2, <1>3, <1>4 DEF Settled
<1> HIDE DEF t
<1>6. AllOf(in) = UpToPadding(in, types, ReadLines(types, in, c))
  BY <1>3, <1>5 DEF AllOf, Then, t
<1> DEFINE r == ReadLines(types, in, c)
<1>7. Some(r)
  BY <1>6, Successes DEF UpToPadding, Then
<1>8. types \in Seq(Objects)
  BY DEF Writable
<1>9. Settled(r, ReadLines(types, more, c), in, c)
  BY <1>5, <1>7, <1>8, LinesSettle
<1> HIDE DEF r, n
<1>10. r[1] = n /\ r[1] \in c..Len(in)
  BY <1>2, <1>7, <1>9 DEF Settled
<1>11. c \in Nat /\ n <= Len(in)
  BY <1>1, <1>5, <1>10
<1> QED  BY <1>1, <1>11 DEF n

(* Padding completes the last byte with zeros. *)
LEMMA PaddedIs ==
  ASSUME NEW bits \in Seq(Bit)
  PROVE  /\ Padded(bits) \in Seq(Bit) /\ Ahead(Padded(bits), 0, bits)
         /\ Len(Padded(bits)) < Len(bits) + ByteBits
         /\ OnlyPadding(SubSeq(Padded(bits), Len(bits) + 1, Len(Padded(bits))))
<1> DEFINE n == Len(bits)
           p == (-n) % ByteBits
           pad == [i \in 1..p |-> 0]
           all == bits \o pad
<1>1. n \in Nat /\ ByteBits \in Nat /\ ByteBits > 0
  BY FileAssumption
<1>2. p \in 0..(ByteBits - 1) /\ p \in Nat
  <2>1. -n \in Int
    BY <1>1
  <2> DEFINE k == -n
  <2>2. k \in Int
    BY <2>1
  <2> HIDE DEF k
  <2>3. k % ByteBits \in 0..(ByteBits - 1)
    BY <1>1, <2>2
  <2> QED  BY <1>1, <2>3 DEF k
<1>3. pad \in Seq(Bit) /\ Len(pad) = p /\ \A i \in 1..p : pad[i] = 0
  <2> HIDE DEF p
  <2>1. pad \in [1..p -> Bit]
    BY DEF Bit
  <2> QED  BY <1>2, <2>1, LenProperties
<1>4. Padded(bits) = all
  BY DEF Padded
<1> HIDE DEF p, pad
<1>5. /\ all \in Seq(Bit) /\ Len(all) = n + p
      /\ \A i \in 1..n : all[i] = bits[i]
      /\ \A i \in 1..p : all[n + i] = 0
  <2>1. /\ all \in Seq(Bit) /\ Len(all) = n + Len(pad)
        /\ \A i \in 1..n : all[i] = bits[i]
        /\ \A i \in 1..Len(pad) : all[n + i] = pad[i]
    <3>1. pad \in Seq(Bit) /\ bits \in Seq(Bit)
      BY <1>3
    <3> QED  BY <3>1, ConcatIs
  <2> HIDE DEF all, n
  <2> QED  BY <1>3, <2>1
<1> HIDE DEF all
<1>6. Ahead(all, 0, bits)
  <2>1. \A i \in 1..n : 0 + i = i
    BY <1>1
  <2>2. 0 + n <= Len(all) /\ 0 \in Nat
    BY <1>1, <1>2, <1>5
  <2> QED  BY <1>5, <2>1, <2>2 DEF Ahead
<1> DEFINE rest == SubSeq(all, n + 1, Len(all))
<1>7. Len(rest) = p /\ rest \in Seq(Bit) /\ \A i \in 1..p : rest[i] = 0
  <2>1. \A i \in (n + 1)..(n + p) : i \in 1..Len(all)
    BY <1>1, <1>2, <1>5
  <2>2. rest = [i \in 1..p |-> all[n + i]]
    <3>1. (n + p) - (n + 1) + 1 = p /\ \A i \in 1..p : (n + 1) + i - 1 = n + i
      BY <1>1, <1>2
    <3> HIDE DEF n
    <3> QED  BY <1>1, <1>2, <1>5, <3>1
  <2> HIDE DEF rest
  <2>3. rest \in [1..p -> Bit] /\ \A i \in 1..p : rest[i] = 0
    BY <1>5, <2>2 DEF Bit
  <2> QED  BY <1>2, <2>3, LenProperties
<1> HIDE DEF rest
<1>8. OnlyPadding(rest)
  <2>1. 1 \notin ToSet(rest)
    <3>1. DOMAIN rest = 1..p
      BY <1>7
    <3> QED  BY <1>7, <3>1 DEF ToSet
  <2> QED  BY <1>1, <1>2, <1>7, <2>1 DEF OnlyPadding
<1> QED  BY <1>1, <1>2, <1>4, <1>5, <1>6, <1>8 DEF rest

(* The image of lines is read back. *)
LEMMA ImageReads ==
  ASSUME NEW types, NEW rows, Writable(types, rows)
  PROVE  load(Image(types, rows)) = [types |-> types, rows |-> rows]
<1> DEFINE b == Body(types, rows)
           in == Padded(b)
           s == [types |-> types, rows |-> rows]
<1>1. b \in Seq(Bit) /\ Len(b) \in Nat
  BY BodyIs
<1>2. in \in Seq(Bit) /\ Ahead(in, 0, b) /\ OnlyPadding(SubSeq(in, Len(b) + 1, Len(in)))
  BY <1>1, PaddedIs
<1> HIDE DEF in
<1>3. AllOf(in) = <<Len(b), s>>
  BY <1>2, WholeReads
<1> HIDE DEF b, s
<1>4. Some(AllOf(in)) /\ AllOf(in)[2] = s
  BY <1>1, <1>3, Successes
<1>5. Image(types, rows).head = Header /\ Image(types, rows).body = in
  BY DEF Image, in, b
<1> QED  BY <1>4, <1>5, LoadIs DEF s

(* What a power cut leaves of an image is refused. *)
LEMMA CutIsRefused ==
  ASSUME NEW types, NEW rows, Writable(types, rows),
         NEW n \in 0..(Len(Image(types, rows).head) + Len(Image(types, rows).body) \div ByteBits - 1)
  PROVE  load(Cut(Image(types, rows), n)) = Corrupt
<1> DEFINE b == Body(types, rows)
           more == Padded(b)
           f == [head |-> Header, body |-> more]
           l == Len(more)
           q == l \div ByteBits
<1>1. b \in Seq(Bit) /\ Len(b) \in Nat
  BY BodyIs
<1>2. more \in Seq(Bit) /\ l \in Nat /\ Ahead(more, 0, b) /\ l < Len(b) + ByteBits
  BY <1>1, PaddedIs
<1>3. Image(types, rows) = f
  BY DEF Image
<1> HIDE DEF more, b
<1>4. f.head = Header /\ f.body = more /\ Len(Header) = 4
  BY DEF Header
<1>5. ByteBits \in Nat /\ ByteBits > 0 /\ q \in Int /\ ByteBits * q <= l
  <2>1. ByteBits \in Nat \ {0}
    BY FileAssumption
  <2> HIDE DEF l
  <2>2. q \in Nat
    BY <1>2, <2>1
  <2>3. q <= l \div ByteBits
    BY <2>2
  <2> HIDE DEF q
  <2>4. ByteBits * q <= l
    BY <1>2, <2>1, <2>2, <2>3, FitsIs
  <2> QED  BY <2>1, <2>2, <2>4
<1>6. n \in Nat /\ n <= 4 + q - 1
  <2>1. n \in 0..(4 + q - 1)
    BY <1>3, <1>4
  <2> HIDE DEF q
  <2> QED  BY <1>5, <2>1
<1> HIDE DEF q, l, f
<1>7. CASE n < 4
  <2>1. Cut(f, n).head = SubSeq(Header, 1, n)
    BY <1>4, <1>7 DEF Cut
  <2>2. SubSeq(Header, 1, n) # Header
    <3>1. Header \in Seq(Nat)
      BY DEF Header
    <3>2. Len(SubSeq(Header, 1, n)) = n
      BY <1>4, <1>6, <1>7, <3>1
    <3> DEFINE h == SubSeq(Header, 1, n)
    <3>3. Len(h) # Len(Header)
      BY <1>4, <1>6, <1>7, <3>2
    <3> HIDE DEF h
    <3> QED  BY <3>3 DEF h
  <2> QED  BY <1>3, <1>4, <2>1, <2>2, LoadIs
<1>8. CASE ~(n < 4)
  <2> DEFINE m == (n - 4) * ByteBits
             in == SubSeq(more, 1, m)
  <2>1. Cut(f, n).body = in
    <3>1. Cut(f, n) = [f EXCEPT !.body = SubSeq(@, 1, m)]
      BY <1>4, <1>8 DEF Cut
    <3> HIDE DEF m
    <3> QED  BY <3>1 DEF f
  <2>2. m \in Nat /\ m < Len(b) /\ m <= l
    <3>1. n - 4 \in Nat /\ n - 4 <= q - 1 /\ q - 1 \in Nat
      BY <1>5, <1>6, <1>8
    <3>2. m \in Nat /\ m <= (q - 1) * ByteBits
      BY <1>5, <3>1
    <3>3. (q - 1) * ByteBits = ByteBits * q - ByteBits
      BY <1>5
    <3>4. ByteBits * q \in Int
      BY <1>5
    <3> HIDE DEF m
    <3> QED  BY <1>1, <1>2, <1>5, <3>2, <3>3, <3>4
  <2> HIDE DEF m
  <2>3. /\ in \in Seq(Bit) /\ Len(in) = m /\ \A i \in 1..m : more[i] = in[i]
    <3>1. m <= Len(more)
      BY <2>2 DEF l
    <3> QED  BY <1>2, <2>2, <3>1
  <2> HIDE DEF in
  <2>4. Begins(in, more)
    BY <1>2, <2>2, <2>3 DEF Begins, l
  <2>5. ~Some(AllOf(in))
    BY <1>2, <2>2, <2>3, <2>4, PartFails DEF b
  <2> QED  BY <1>3, <2>1, <2>5, LoadIs
<1> QED  BY <1>7, <1>8
-----------------------------------------------------------------------------
(* The objects of a binFile's lines *)

\* How long the lines are, and the places that lines this long have.
Widths(rows) == [i \in 1..Len(rows) |-> Len(rows[i])]
HasPlace(w, i, j) == i \in DOMAIN w /\ j \in 1..w[i]

LEMMA WidthsType ==
  ASSUME NEW S, NEW rows \in Seq(Seq(S))
  PROVE  /\ Len(rows) \in Nat
         /\ \A i \in 1..Len(rows) : rows[i] \in Seq(S) /\ Len(rows[i]) \in Nat
         /\ Widths(rows) \in [1..Len(rows) -> Nat]
         /\ \A i \in 1..Len(rows) : Widths(rows)[i] = Len(rows[i])
<1>1. Len(rows) \in Nat /\ \A i \in 1..Len(rows) : rows[i] \in Seq(S)
  OBVIOUS
<1>2. \A i \in 1..Len(rows) : Len(rows[i]) \in Nat
  BY <1>1
<1> QED  BY <1>1, <1>2 DEF Widths

(* A place is a line and an item of it. *)
LEMMA PlaceOf ==
  ASSUME NEW S, NEW rows \in Seq(Seq(S))
  PROVE  /\ \A p \in Places(rows) : \E i, j : p = <<i, j>>
         /\ \A i, j : <<i, j>> \in Places(rows) <=> HasPlace(Widths(rows), i, j)
<1>1. DOMAIN rows = 1..Len(rows) /\ \A i \in 1..Len(rows) : DOMAIN rows[i] = 1..Len(rows[i])
  OBVIOUS
<1>2. ASSUME NEW p \in Places(rows)
      PROVE  \E i \in 1..Len(rows) : \E j \in 1..Len(rows[i]) : p = <<i, j>>
  <2>1. PICK i \in 1..Len(rows) : p \in {i} \X (1..Len(rows[i]))
    BY <1>1 DEF Places
  <2> QED  BY <2>1
<1>3. ASSUME NEW i \in 1..Len(rows), NEW j \in 1..Len(rows[i])
      PROVE  <<i, j>> \in Places(rows)
  <2>1. <<i, j>> \in {i} \X DOMAIN rows[i]
    BY <1>1
  <2> QED  BY <1>1, <2>1 DEF Places
<1>4. ASSUME NEW i, NEW j
      PROVE  HasPlace(Widths(rows), i, j) <=> i \in 1..Len(rows) /\ j \in 1..Len(rows[i])
  BY DEF Widths, HasPlace
<1>5. ASSUME NEW i, NEW j PROVE <<i, j>> \in Places(rows) <=> HasPlace(Widths(rows), i, j)
  <2>1. <<i, j>> \in Places(rows) => i \in 1..Len(rows) /\ j \in 1..Len(rows[i])
    BY <1>2
  <2> QED  BY <1>3, <1>4, <2>1
<1> QED  BY <1>2, <1>5

(* They are finite, so an amount is a number. *)
LEMMA AmountIsNat ==
  ASSUME NEW S, NEW rows \in Seq(Seq(S))
  PROVE  IsFiniteSet(Places(rows)) /\ objects(rows) \in Nat
<1> DEFINE f == [i \in 1..Len(rows) |-> {i} \X DOMAIN rows[i]]
           T == {{i} \X DOMAIN rows[i] : i \in 1..Len(rows)}
<1>1. DOMAIN rows = 1..Len(rows) /\ Len(rows) \in Nat
      /\ \A i \in 1..Len(rows) : DOMAIN rows[i] = 1..Len(rows[i]) /\ Len(rows[i]) \in Nat
  OBVIOUS
<1>2. IsFiniteSet(T)
  <2>1. IsFiniteSet(1..Len(rows))
    BY <1>1, FS_Interval
  <2>2. f \in [1..Len(rows) -> T] /\ \A U \in T : \E i \in 1..Len(rows) : f[i] = U
    OBVIOUS
  <2> HIDE DEF f, T
  <2>3. f \in Surjection(1..Len(rows), T)
    BY <2>2 DEF Surjection
  <2> QED  BY <2>1, <2>3, FS_Surjection
<1>3. ASSUME NEW U \in T PROVE IsFiniteSet(U)
  <2>1. PICK i \in 1..Len(rows) : U = {i} \X (1..Len(rows[i]))
    BY <1>1
  <2>2. IsFiniteSet({i})
    BY FS_Singleton
  <2>3. IsFiniteSet(1..Len(rows[i]))
    <3>1. 1 \in Int /\ Len(rows[i]) \in Int
      BY <1>1
    <3> QED  BY <3>1, FS_Interval
  <2> QED  BY <2>1, <2>2, <2>3, FS_Product
<1>4. Places(rows) = UNION T
  BY <1>1 DEF Places
<1> HIDE DEF T
<1>5. IsFiniteSet(Places(rows))
  BY <1>2, <1>3, <1>4, FS_UNION
<1> QED  BY <1>5, FS_CardinalityType DEF objects

(* Lines that are as many and as long have as many objects.                  *)
LEMMA SameShape ==
  ASSUME NEW S, NEW r \in Seq(Seq(S)), NEW q \in Seq(Seq(S)), Widths(r) = Widths(q)
  PROVE  objects(r) = objects(q)
<1>1. Places(r) \subseteq Places(q)
  BY PlaceOf
<1>2. Places(q) \subseteq Places(r)
  BY PlaceOf
<1>3. Places(r) = Places(q)
  BY <1>1, <1>2
<1> QED  BY <1>3 DEF objects

\* Lines of the widths v have one place more than those of the widths w.
OnePlaceMore(v, w, l, n) ==
  /\ ~HasPlace(w, l, n)
  /\ \A i, j : HasPlace(v, i, j) <=> (i = l /\ j = n) \/ HasPlace(w, i, j)

(* Lines that have one more place have one more object.                      *)
LEMMA OneMore ==
  ASSUME NEW S, NEW r \in Seq(Seq(S)), NEW q \in Seq(Seq(S)), NEW l, NEW n,
         OnePlaceMore(Widths(q), Widths(r), l, n)
  PROVE  objects(q) = objects(r) + 1
<1>1. \A p \in Places(q) : p \in Places(r) \/ p = <<l, n>>
  BY PlaceOf DEF OnePlaceMore
<1>2. \A p \in Places(r) : p \in Places(q)
  BY PlaceOf DEF OnePlaceMore
<1>3. <<l, n>> \in Places(q) /\ <<l, n>> \notin Places(r)
  BY PlaceOf DEF OnePlaceMore
<1>4. Places(q) = Places(r) \cup {<<l, n>>}
  BY <1>1, <1>2, <1>3
<1>5. IsFiniteSet(Places(r))
  BY AmountIsNat
<1> QED  BY <1>3, <1>4, <1>5, FS_AddElement DEF objects

\* Line l of q is longer by one than that of r.
LongerAt(l, r, q) == Widths(q) = [Widths(r) EXCEPT ![l] = @ + 1]

(* A line that gets longer by one has one more. *)
LEMMA Longer ==
  ASSUME NEW S, NEW r \in Seq(Seq(S)), NEW q \in Seq(Seq(S)), NEW l \in 1..Len(r),
         LongerAt(l, r, q)
  PROVE  objects(q) = objects(r) + 1
<1>1. PICK n, w : n = Len(r) /\ w = Widths(r)
  OBVIOUS
<1>2. n \in Nat /\ w \in [1..n -> Nat] /\ l \in 1..n /\ Widths(q) = [w EXCEPT ![l] = @ + 1]
  BY <1>1, WidthsType DEF LongerAt
<1>3. ~HasPlace(w, l, w[l] + 1)
  BY <1>2 DEF HasPlace
<1>4. ASSUME NEW i, NEW j
      PROVE  HasPlace(Widths(q), i, j) <=> (i = l /\ j = w[l] + 1) \/ HasPlace(w, i, j)
  <2>1. CASE i = l
    <3>1. w[l] \in Nat
      BY <1>2
    <3>2. j \in 1..w[l] + 1 <=> j = w[l] + 1 \/ j \in 1..w[l]
      BY <3>1
    <3>3. Widths(q)[l] = w[l] + 1 /\ l \in DOMAIN Widths(q) /\ l \in DOMAIN w
      BY <1>2
    <3> QED  BY <2>1, <3>2, <3>3 DEF HasPlace
  <2>2. CASE i # l
    BY <1>2, <2>2 DEF HasPlace
  <2> QED  BY <2>1, <2>2
<1>5. OnePlaceMore(Widths(q), w, l, w[l] + 1)
  BY <1>3, <1>4 DEF OnePlaceMore
<1>6. PICK k : OnePlaceMore(Widths(q), Widths(r), l, k)
  BY <1>1, <1>5
<1> QED  BY <1>6, OneMore

(* A line of one object has one more. *)
LEMMA OneLineMore ==
  ASSUME NEW S, NEW r \in Seq(Seq(S)), NEW q \in Seq(Seq(S)), NEW n, n = Len(r),
         Len(q) = n + 1, Len(q[n + 1]) = 1, \A i \in 1..n : q[i] = r[i]
  PROVE  objects(q) = objects(r) + 1
<1>1. PICK v, w : v = Widths(q) /\ w = Widths(r)
  OBVIOUS
<1>2. n \in Nat /\ w \in [1..n -> Nat] /\ v \in [1..n + 1 -> Nat]
  BY <1>1, WidthsType
<1>3. v[n + 1] = 1 /\ \A i \in 1..n : v[i] = w[i]
  <2>1. n + 1 \in 1..n + 1 /\ \A i \in 1..n : i \in 1..n + 1
    BY <1>2
  <2>2. \A i \in 1..n : Len(r[i]) = w[i]
    BY <1>1, WidthsType
  <2>3. \A i \in 1..n + 1 : Len(q[i]) = v[i]
    BY <1>1, WidthsType
  <2> QED  BY <2>1, <2>2, <2>3
<1>4. ~HasPlace(w, n + 1, 1)
  BY <1>2 DEF HasPlace
<1>5. ASSUME NEW i, NEW j
      PROVE  HasPlace(v, i, j) <=> (i = n + 1 /\ j = 1) \/ HasPlace(w, i, j)
  <2>1. CASE i \in 1..n
    BY <1>2, <1>3, <2>1 DEF HasPlace
  <2>2. CASE i = n + 1
    BY <1>2, <1>3, <2>2 DEF HasPlace
  <2>3. CASE i \notin 1..n + 1
    BY <1>2, <2>3 DEF HasPlace
  <2> QED  BY <1>2, <2>1, <2>2, <2>3
<1>6. OnePlaceMore(v, w, n + 1, 1)
  BY <1>4, <1>5 DEF OnePlaceMore
<1> QED  BY <1>1, <1>6, OneMore

\* Where line i of the rest was before line l was deleted.
Up(l, i) == IF i < l THEN i ELSE i + 1

\* The widths v of m lines are those of n lines, w, without line l.
Shifted(l, n, w, m, v) ==
  /\ n \in Nat /\ m \in Nat /\ m = n - 1 /\ l \in 1..n
  /\ w \in [1..n -> Nat] /\ v \in [1..m -> Nat]
  /\ \A i \in 1..m : v[i] = w[Up(l, i)]

(* Deleting a line moves the places behind it. *)
LEMMA Moved ==
  ASSUME NEW l, NEW n, NEW w, NEW m, NEW v, Shifted(l, n, w, m, v)
  PROVE  /\ \A i, j : HasPlace(v, i, j) => HasPlace(w, Up(l, i), j) /\ Up(l, i) # l /\ i \in Int
         /\ \A i, j : HasPlace(w, i, j) /\ i # l => \E h : Up(l, h) = i /\ HasPlace(v, h, j)
         /\ \A i, h \in Int : Up(l, i) = Up(l, h) => i = h
<1> USE DEF Shifted
<1>1. ASSUME NEW i, NEW j, HasPlace(v, i, j)
      PROVE  HasPlace(w, Up(l, i), j) /\ Up(l, i) # l /\ i \in Int
  <2>1. i \in 1..m /\ j \in 1..v[i]
    BY <1>1 DEF HasPlace
  <2>2. Up(l, i) \in 1..n /\ Up(l, i) # l
    BY <2>1 DEF Up
  <2> QED  BY <2>1, <2>2 DEF HasPlace
<1>2. ASSUME NEW i, NEW j, HasPlace(w, i, j), i # l
      PROVE  \E h : Up(l, h) = i /\ HasPlace(v, h, j)
  <2>1. i \in 1..n /\ j \in 1..w[i]
    BY <1>2 DEF HasPlace
  <2>2. PICK h \in 1..m : Up(l, h) = i
    <3>1. CASE i < l
      <4>1. i \in 1..m /\ Up(l, i) = i
        BY <2>1, <3>1 DEF Up
      <4> QED  BY <4>1
    <3>2. CASE i > l
      <4>1. i - 1 \in 1..m /\ Up(l, i - 1) = i
        BY <2>1, <3>2 DEF Up
      <4> QED  BY <4>1
    <3> QED  BY <1>2, <2>1, <3>1, <3>2
  <2>3. v[h] = w[i]
    BY <2>2
  <2> QED  BY <2>1, <2>2, <2>3 DEF HasPlace
<1>3. \A i, h \in Int : Up(l, i) = Up(l, h) => i = h
  BY DEF Up
<1> QED  BY <1>1, <1>2, <1>3

\* The lines q are the lines r without line l.
DeletedAt(l, r, q) ==
  l \in 1..Len(r) /\ Len(q) = Len(r) - 1 /\ \A i \in 1..Len(q) : q[i] = r[Up(l, i)]

(* Without a line there are as many objects less as it has.                  *)
LEMMA LineDeleted ==
  ASSUME NEW S, NEW r \in Seq(Seq(S)), NEW q \in Seq(Seq(S)), NEW l, DeletedAt(l, r, q)
  PROVE  objects(q) = objects(r) - Len(r[l])
<1> DEFINE gone == {l} \X (1..Len(r[l]))
           rest == Places(r) \ gone
           f == [p \in Places(q) |-> <<Up(l, p[1]), p[2]>>]
<1> USE DEF DeletedAt
<1>1. /\ Len(r) \in Nat /\ Widths(r) \in [1..Len(r) -> Nat]
      /\ Len(q) \in Nat /\ Widths(q) \in [1..Len(q) -> Nat]
      /\ Len(r[l]) \in Nat /\ Widths(r)[l] = Len(r[l])
  BY WidthsType
<1>2. \A i \in 1..Len(q) : Widths(q)[i] = Widths(r)[Up(l, i)]
  <2> SUFFICES ASSUME NEW i \in 1..Len(q) PROVE Widths(q)[i] = Widths(r)[Up(l, i)]
    OBVIOUS
  <2>1. Up(l, i) \in 1..Len(r)
    BY <1>1 DEF Up
  <2>2. Widths(q)[i] = Len(q[i]) /\ Widths(r)[Up(l, i)] = Len(r[Up(l, i)])
    BY <2>1, WidthsType
  <2> QED  BY <2>2
<1>3. /\ \A i, j : HasPlace(Widths(q), i, j)
           => HasPlace(Widths(r), Up(l, i), j) /\ Up(l, i) # l /\ i \in Int
      /\ \A i, j : HasPlace(Widths(r), i, j) /\ i # l
           => \E h : Up(l, h) = i /\ HasPlace(Widths(q), h, j)
      /\ \A i, h \in Int : Up(l, i) = Up(l, h) => i = h
  <2>1. Shifted(l, Len(r), Widths(r), Len(q), Widths(q))
    BY <1>1, <1>2 DEF Shifted
  <2> QED  BY <2>1, Moved, Zenon
<1>4. \A i, j : <<i, j>> \in gone <=> i = l /\ HasPlace(Widths(r), i, j)
  BY <1>1 DEF HasPlace
<1>5. gone \subseteq Places(r)
  <2>1. \A p \in gone : \E i, j : p = <<i, j>>
    OBVIOUS
  <2> HIDE DEF gone
  <2> QED  BY <1>4, <2>1, PlaceOf
<1> HIDE DEF gone
<1>6. \A i, j : <<i, j>> \in rest <=> i # l /\ HasPlace(Widths(r), i, j)
  BY <1>4, PlaceOf
<1>7. \A p \in rest : \E i, j : p = <<i, j>>
  BY PlaceOf
<1>8. ASSUME NEW p \in Places(q) PROVE f[p] \in rest
  <2>1. PICK i, j : p = <<i, j>> /\ HasPlace(Widths(q), i, j)
    BY PlaceOf
  <2>2. f[p] = <<Up(l, i), j>>
    BY <2>1
  <2> HIDE DEF f, rest
  <2> QED  BY <1>3, <1>6, <2>1, <2>2
<1>9. ASSUME NEW p \in rest PROVE \E o \in Places(q) : f[o] = p
  <2>1. PICK i, j : p = <<i, j>> /\ i # l /\ HasPlace(Widths(r), i, j)
    BY <1>6, <1>7
  <2>2. PICK h : Up(l, h) = i /\ HasPlace(Widths(q), h, j)
    BY <1>3, <2>1
  <2>3. <<h, j>> \in Places(q)
    BY <2>2, PlaceOf
  <2>4. f[<<h, j>>] = <<Up(l, h), j>>
    BY <2>3
  <2> QED  BY <2>1, <2>2, <2>3, <2>4
<1>10. ASSUME NEW p \in Places(q), NEW o \in Places(q), f[p] = f[o] PROVE p = o
  <2>1. PICK i, j : p = <<i, j>> /\ HasPlace(Widths(q), i, j)
    BY PlaceOf
  <2>2. PICK h, k : o = <<h, k>> /\ HasPlace(Widths(q), h, k)
    BY PlaceOf
  <2>3. f[p] = <<Up(l, i), j>> /\ f[o] = <<Up(l, h), k>>
    BY <2>1, <2>2
  <2>4. Up(l, i) = Up(l, h) /\ j = k
    BY <1>10, <2>3
  <2> QED  BY <1>3, <2>1, <2>2, <2>4
<1>11. IsFiniteSet(Places(q)) /\ IsFiniteSet(Places(r)) /\ objects(r) \in Nat
  BY AmountIsNat
<1>12. Cardinality(rest) = Cardinality(Places(q))
  <2>1. f \in [Places(q) -> rest]
    BY <1>8
  <2> HIDE DEF f, rest
  <2>2. f \in Bijection(Places(q), rest)
    <3>1. f \in Injection(Places(q), rest)
      BY <1>10, <2>1 DEF Injection, IsInjective
    <3>2. f \in Surjection(Places(q), rest)
      BY <1>9, <2>1 DEF Surjection
    <3> QED  BY <3>1, <3>2 DEF Bijection
  <2>3. ExistsBijection(Places(q), rest)
    BY <2>2 DEF ExistsBijection
  <2> QED  BY <1>11, <2>3, FS_Bijection
<1>13. Cardinality(gone) = Len(r[l])
  <2>1. IsFiniteSet({l}) /\ Cardinality({l}) = 1
    BY FS_Singleton
  <2>2. IsFiniteSet(1..Len(r[l])) /\ Cardinality(1..Len(r[l])) = Len(r[l])
    <3>1. 1 \in Int /\ Len(r[l]) \in Int
      BY <1>1
    <3>2. /\ IsFiniteSet(1..Len(r[l]))
          /\ Cardinality(1..Len(r[l])) = IF 1 > Len(r[l]) THEN 0 ELSE Len(r[l]) - 1 + 1
      BY <3>1, FS_Interval
    <3>3. (IF 1 > Len(r[l]) THEN 0 ELSE Len(r[l]) - 1 + 1) = Len(r[l])
      BY <1>1
    <3> QED  BY <3>2, <3>3
  <2>3. Cardinality(gone) = Cardinality({l}) * Cardinality(1..Len(r[l]))
    BY <2>1, <2>2, FS_Product DEF gone
  <2> QED  BY <1>1, <2>1, <2>2, <2>3
<1>14. Cardinality(rest) = Cardinality(Places(r)) - Cardinality(gone)
  <2>1. Places(r) \cap gone = gone
    BY <1>5
  <2>2. Cardinality(Places(r) \ gone) = Cardinality(Places(r)) - Cardinality(Places(r) \cap gone)
    BY <1>11, FS_Difference
  <2> QED  BY <2>1, <2>2
<1> QED  BY <1>12, <1>13, <1>14 DEF objects

(* A sequence without its i-th element. *)
LEMMA Removed ==
  ASSUME NEW E, NEW s \in Seq(E), NEW i \in 1..Len(s)
  PROVE  /\ RemoveAt(s, i) \in Seq(E)
         /\ Len(RemoveAt(s, i)) = Len(s) - 1
         /\ \A j \in 1..Len(s) - 1 : RemoveAt(s, i)[j] = s[Up(i, j)] /\ Up(i, j) \in 1..Len(s)
<1>1. Len(s) \in Nat /\ \A j \in 1..Len(s) : s[j] \in E
  OBVIOUS
<1>2. PICK n \in Nat, a \in Nat, b \in Nat : n = Len(s) /\ a = i - 1 /\ b = i + 1
  BY <1>1
<1>3. /\ SubSeq(s, 1, a) \in Seq(E) /\ Len(SubSeq(s, 1, a)) = a
      /\ \A j \in 1..a : SubSeq(s, 1, a)[j] = s[j]
  BY <1>1, <1>2
<1>4. /\ SubSeq(s, b, n) \in Seq(E) /\ Len(SubSeq(s, b, n)) = n - i
      /\ \A j \in 1..n - i : SubSeq(s, b, n)[j] = s[j + i]
  BY <1>1, <1>2
<1>5. PICK f \in Seq(E), g \in Seq(E) : f = SubSeq(s, 1, a) /\ g = SubSeq(s, b, n)
  BY <1>3, <1>4
<1>6. RemoveAt(s, i) = f \o g
  BY <1>2, <1>5 DEF RemoveAt
<1>7. /\ f \o g \in Seq(E) /\ Len(f \o g) = Len(s) - 1
      /\ \A j \in 1..a : (f \o g)[j] = f[j]
      /\ \A j \in i..n - 1 : (f \o g)[j] = g[j - a]
  <2>1. Len(f) = a /\ Len(g) = n - i /\ a + (n - i) = n - 1 /\ a + 1 = i
    BY <1>1, <1>2, <1>3, <1>4, <1>5
  <2>2. /\ f \o g \in Seq(E) /\ Len(f \o g) = Len(f) + Len(g)
        /\ \A j \in 1..Len(f) : (f \o g)[j] = f[j]
        /\ \A j \in Len(f) + 1 .. Len(f) + Len(g) : (f \o g)[j] = g[j - Len(f)]
    BY <1>5
  <2> QED  BY <1>2, <2>1, <2>2
<1>8. ASSUME NEW j \in 1..Len(s) - 1
      PROVE  (f \o g)[j] = s[Up(i, j)] /\ Up(i, j) \in 1..Len(s)
  <2>1. CASE j < i
    <3>1. j \in 1..a /\ j \in 1..Len(s)
      BY <1>1, <1>2, <2>1
    <3> QED  BY <1>3, <1>5, <1>7, <2>1, <3>1 DEF Up
  <2>2. CASE ~ (j < i)
    <3>1. j \in i..n - 1 /\ j - a \in 1..n - i /\ (j - a) + i = j + 1 /\ j + 1 \in 1..Len(s)
      BY <1>1, <1>2, <2>2
    <3> QED  BY <1>4, <1>5, <1>7, <2>2, <3>1 DEF Up
  <2> QED  BY <2>1, <2>2
<1> QED  BY <1>6, <1>7, <1>8
-----------------------------------------------------------------------------
(* Lines in memory *)

Tags == {o[1] : o \in Data}

\* Lines of objects of their types, as many as a file may have.
WellFormed(types, rows) ==
  /\ types \in Seq(Tags) /\ rows \in Seq(Seq(Data))
  /\ Len(types) = Len(rows) /\ Len(rows) <= MaxLines
  /\ \A i \in 1..Len(rows) : \A j \in 1..Len(rows[i]) : rows[i][j][1] = types[i]

(* Such lines are what a save writes, unless one is too long. *)
LEMMA SheetsAreWellFormed ==
  ASSUME MaxLines \in Nat, MaxItems \in Nat, NEW types, NEW rows
  PROVE  [types |-> types, rows |-> rows] \in Sheets
           <=> WellFormed(types, rows) /\ \A i \in 1..Len(rows) : Len(rows[i]) <= MaxItems
<1>1. ASSUME NEW E, NEW n \in Nat, NEW s
      PROVE  s \in BoundedSeq(E, n) <=> s \in Seq(E) /\ Len(s) <= n
  <2>1. ASSUME s \in BoundedSeq(E, n) PROVE s \in Seq(E) /\ Len(s) <= n
    <3>1. PICK m \in 0..n : s \in [1..m -> E]
      BY <2>1 DEF BoundedSeq, SeqOf
    <3> QED  BY <3>1
  <2>2. ASSUME s \in Seq(E), Len(s) <= n PROVE s \in BoundedSeq(E, n)
    <3>1. Len(s) \in 0..n /\ s \in [1..Len(s) -> E]
      BY <2>2
    <3> QED  BY <3>1 DEF BoundedSeq, SeqOf
  <2> QED  BY <2>1, <2>2
<1> DEFINE Row(s) == s \in Seq(Data) /\ Len(s) <= MaxItems
<1>2. ASSUME rows \in Seq(BoundedSeq(Data, MaxItems))
      PROVE  rows \in Seq(Seq(Data)) /\ \A i \in 1..Len(rows) : Len(rows[i]) <= MaxItems
  <2>1. \A i \in 1..Len(rows) : Row(rows[i])
    BY <1>1, <1>2
  <2>2. rows \in [1..Len(rows) -> Seq(Data)] /\ Len(rows) \in Nat
    BY <1>2, <2>1
  <2> QED  BY <2>1, <2>2
<1>3. ASSUME rows \in Seq(Seq(Data)), \A i \in 1..Len(rows) : Len(rows[i]) <= MaxItems
      PROVE  rows \in Seq(BoundedSeq(Data, MaxItems))
  <2>1. \A i \in 1..Len(rows) : rows[i] \in BoundedSeq(Data, MaxItems)
    BY <1>1, <1>3
  <2>2. rows \in [1..Len(rows) -> BoundedSeq(Data, MaxItems)] /\ Len(rows) \in Nat
    BY <1>3, <2>1
  <2> QED  BY <2>2
<1>4. [types |-> types, rows |-> rows] \in Sheets
        <=> /\ types \in BoundedSeq(Tags, MaxLines)
            /\ rows \in BoundedSeq(BoundedSeq(Data, MaxItems), MaxLines)
            /\ Len(types) = Len(rows)
            /\ \A i \in DOMAIN rows : \A j \in DOMAIN rows[i] : rows[i][j][1] = types[i]
  BY DEF Sheets, Tags
<1>5. rows \in Seq(Seq(Data)) =>
        DOMAIN rows = 1..Len(rows) /\ \A i \in 1..Len(rows) : DOMAIN rows[i] = 1..Len(rows[i])
  OBVIOUS
<1>6. /\ types \in BoundedSeq(Tags, MaxLines) <=> types \in Seq(Tags) /\ Len(types) <= MaxLines
      /\ rows \in BoundedSeq(BoundedSeq(Data, MaxItems), MaxLines)
           <=> rows \in Seq(BoundedSeq(Data, MaxItems)) /\ Len(rows) <= MaxLines
  BY <1>1
<1> QED  BY <1>2, <1>3, <1>4, <1>5, <1>6 DEF WellFormed

\* In the lines q, line l is replaced by a row of its type.
Fits(types, rows, l, row, q) ==
  /\ q = [rows EXCEPT ![l] = row]
  /\ l \in 1..Len(rows) /\ row \in Seq(Data)
  /\ \A j \in 1..Len(row) : row[j][1] = types[l]

(* A line is replaced by one of the same type. *)
LEMMA LineEdited ==
  ASSUME NEW types, NEW rows, NEW l, NEW row, NEW q, WellFormed(types, rows),
         Fits(types, rows, l, row, q)
  PROVE  WellFormed(types, q) /\ Widths(q) = [Widths(rows) EXCEPT ![l] = Len(row)]
<1>1. /\ q \in Seq(Seq(Data)) /\ Len(q) = Len(rows)
      /\ \A i \in 1..Len(rows) : q[i] = IF i = l THEN row ELSE rows[i]
  <2>1. /\ rows \in Seq(Seq(Data)) /\ l \in 1..Len(rows) /\ row \in Seq(Data)
        /\ q = [rows EXCEPT ![l] = row]
    BY DEF WellFormed, Fits
  <2> QED  BY <2>1
<1>2. WellFormed(types, q)
  BY <1>1 DEF WellFormed, Fits
<1>3. Widths(q) = [Widths(rows) EXCEPT ![l] = Len(row)]
  BY <1>1 DEF Widths
<1> QED  BY <1>2, <1>3

-----------------------------------------------------------------------------
(* A file is opened, edited and saved *)

\* A binFile in memory.
InMemory(f) ==
  /\ f \in [types : Seq(Tags), rows : Seq(Seq(Data)), amount : Int, dirty : BOOLEAN]
  /\ WellFormed(f.types, f.rows)
  /\ f.amount = objects(f.rows)

Lines == [types |-> file.types, rows |-> file.rows]

\* A file whose lines are known: they are read from it, and if its data is not
\* on the medium it is a file that a save wrote.
Known(f) ==
  /\ f.durable \in BOOLEAN
  /\ f.saved = Corrupt \/ f.saved \in Sheets
  /\ (IF f.disk = Absent THEN Empty ELSE load(f.disk)) = f.saved
  /\ ~f.durable => f.saved \in Sheets /\ f.disk = Image(f.saved.types, f.saved.rows)

\* The file under the name, and the one that a power cut may bring back, are known.
FileInv ==
  /\ \A f \in old : Known(f)
  /\ stage \in {"closed", "open", "encoded", "writing", "flushed"} /\ after \in {"closed", "open"}
  /\ durable \in BOOLEAN
  /\ saved = Corrupt \/ saved \in Sheets
  /\ Found = saved
  /\ ~durable => saved \in Sheets /\ disk = Image(saved.types, saved.rows)
  /\ stage # "closed" => InMemory(file) /\ (~file.dirty => saved = Lines)
  /\ stage \in {"encoded", "writing", "flushed"} => Lines \in Sheets
  /\ stage = "flushed" => temp = Image(file.types, file.rows)

(* An edit that leaves lines of objects of their types, and their amount.    *)
LEMMA EditKeeps ==
  ASSUME FileInv, stage = "open", NEW types, NEW rows, NEW amount, Edit(types, rows, amount),
         WellFormed(types, rows), amount = objects(rows)
  PROVE  FileInv'
<1>1. objects(rows) \in Int
  BY AmountIsNat DEF WellFormed
<1>2. file' = [types |-> types, rows |-> rows, amount |-> amount, dirty |-> TRUE]
  BY DEF Edit
<1>3. InMemory(file')
  BY <1>1, <1>2 DEF InMemory, WellFormed
<1>4. UNCHANGED <<disk, temp, stage, after, saved, durable, old>> /\ file'.dirty = TRUE
  BY <1>2 DEF Edit
<1> QED  BY <1>3, <1>4 DEF FileInv, Found

LEMMA PushKeeps ==
  ASSUME FileInv, NEW line \in 1..MaxLines, NEW o \in Data, push(line, o)
  PROVE  FileInv'
<1> DEFINE row == Append(file.rows[line], o)
           rows == [file.rows EXCEPT ![line] = row]
<1>1. stage = "open" /\ whatIsTypeAt(line) = o[1] /\ Edit(file.types, rows, file.amount + 1)
  BY DEF push
<1>2. WellFormed(file.types, file.rows) /\ file.amount = objects(file.rows)
  BY <1>1 DEF FileInv, InMemory
<1>3. line \in 1..Len(file.rows) /\ file.types[line] = o[1]
  <2>1. o[1] # none
    BY FileAssumption, ObjectReads, Codes
  <2>2. line \in DOMAIN file.types /\ file.types[line] = o[1]
    BY <1>1, <2>1 DEF whatIsTypeAt
  <2>3. DOMAIN file.types = 1..Len(file.rows)
    BY <1>2 DEF WellFormed
  <2> QED  BY <2>2, <2>3
<1>4. /\ row \in Seq(Data) /\ Len(row) = Len(file.rows[line]) + 1
      /\ \A j \in 1..Len(row) : row[j][1] = file.types[line]
  <2>1. PICK r \in Seq(Data) : r = file.rows[line]
    BY <1>2, <1>3 DEF WellFormed
  <2>2. \A j \in 1..Len(r) : r[j][1] = o[1]
    BY <1>2, <1>3, <2>1 DEF WellFormed
  <2>3. /\ Append(r, o) \in Seq(Data) /\ Len(Append(r, o)) = Len(r) + 1
        /\ \A j \in 1..Len(r) + 1 : \/ j \in 1..Len(r) /\ Append(r, o)[j] = r[j]
                                    \/ Append(r, o)[j] = o
    OBVIOUS
  <2> QED  BY <1>3, <2>1, <2>2, <2>3
<1> HIDE DEF row, rows
<1>5. WellFormed(file.types, rows) /\ Widths(rows) = [Widths(file.rows) EXCEPT ![line] = Len(row)]
  <2>1. Fits(file.types, file.rows, line, row, rows)
    BY <1>3, <1>4 DEF Fits, rows
  <2> QED  BY <1>2, <2>1, LineEdited
<1>6. objects(rows) = objects(file.rows) + 1
  <2>1. file.rows \in Seq(Seq(Data)) /\ rows \in Seq(Seq(Data))
    BY <1>2, <1>5 DEF WellFormed
  <2>2. Widths(file.rows)[line] = Len(file.rows[line])
    BY <1>3, <2>1, WidthsType
  <2>3. LongerAt(line, file.rows, rows)
    BY <1>4, <1>5, <2>2 DEF LongerAt
  <2> QED  BY <1>3, <2>1, <2>3, Longer
<1> QED  BY <1>1, <1>2, <1>5, <1>6, EditKeeps

LEMMA PushNewLineKeeps ==
  ASSUME FileInv, NEW o \in Data, pushNewLine(o)
  PROVE  FileInv'
<1> DEFINE types == Append(file.types, o[1])
           rows == Append(file.rows, <<o>>)
           n == Len(file.rows)
<1>1. stage = "open" /\ n < MaxLines /\ Edit(types, rows, file.amount + 1)
  BY DEF pushNewLine
<1>2. WellFormed(file.types, file.rows) /\ file.amount = objects(file.rows)
  BY <1>1 DEF FileInv, InMemory
<1>3. /\ file.types \in Seq(Tags) /\ file.rows \in Seq(Seq(Data)) /\ n \in Nat
      /\ Len(file.types) = n /\ MaxLines \in Nat /\ o[1] \in Tags
  BY <1>2, FileAssumption DEF WellFormed, Tags
<1>4. /\ types \in Seq(Tags) /\ Len(types) = n + 1 /\ types[n + 1] = o[1]
      /\ \A i \in 1..n : types[i] = file.types[i]
  BY <1>3
<1>5. /\ rows \in Seq(Seq(Data)) /\ Len(rows) = n + 1 /\ rows[n + 1] = <<o>>
      /\ \A i \in 1..n : rows[i] = file.rows[i]
  BY <1>3
<1> HIDE DEF types, rows
<1>6. WellFormed(types, rows)
  <2>1. ASSUME NEW i \in 1..n + 1, NEW j \in 1..Len(rows[i]) PROVE rows[i][j][1] = types[i]
    <3>1. CASE i \in 1..n
      <4>1. j \in 1..Len(file.rows[i]) /\ rows[i] = file.rows[i] /\ types[i] = file.types[i]
        BY <1>4, <1>5, <3>1
      <4> QED  BY <1>2, <3>1, <4>1 DEF WellFormed
    <3>2. CASE i = n + 1
      BY <1>4, <1>5, <3>2
    <3>3. i \in 1..n \/ i = n + 1
      BY <1>3
    <3> QED  BY <3>1, <3>2, <3>3
  <2> QED  BY <1>1, <1>3, <1>4, <1>5, <2>1 DEF WellFormed
<1>7. objects(rows) = objects(file.rows) + 1
  <2>1. Len(rows[n + 1]) = 1
    BY <1>5
  <2> HIDE DEF n
  <2> QED  BY <1>3, <1>5, <2>1, OneLineMore DEF n
<1> QED  BY <1>1, <1>2, <1>6, <1>7, EditKeeps

LEMMA ReplaceObjectKeeps ==
  ASSUME FileInv, NEW line \in 1..MaxLines, NEW i \in Nat, NEW o \in Data,
         replaceObject(line, i, o)
  PROVE  FileInv'
<1> DEFINE row == [file.rows[line] EXCEPT ![i] = o]
           rows == [file.rows EXCEPT ![line][i] = o]
<1>1. /\ stage = "open" /\ whatIsTypeAt(line) = o[1] /\ i \in DOMAIN file.rows[line]
      /\ Edit(file.types, rows, file.amount)
  BY DEF replaceObject
<1>2. WellFormed(file.types, file.rows) /\ file.amount = objects(file.rows)
  BY <1>1 DEF FileInv, InMemory
<1>3. line \in 1..Len(file.rows) /\ file.types[line] = o[1]
  <2>1. o[1] # none
    BY FileAssumption, ObjectReads, Codes
  <2>2. line \in DOMAIN file.types /\ file.types[line] = o[1]
    BY <1>1, <2>1 DEF whatIsTypeAt
  <2>3. DOMAIN file.types = 1..Len(file.rows)
    BY <1>2 DEF WellFormed
  <2> QED  BY <2>2, <2>3
<1>4. /\ row \in Seq(Data) /\ Len(row) = Len(file.rows[line])
      /\ \A j \in 1..Len(row) : row[j][1] = file.types[line]
  <2>1. PICK r \in Seq(Data) : r = file.rows[line]
    BY <1>2, <1>3 DEF WellFormed
  <2>2. \A j \in 1..Len(r) : r[j][1] = o[1]
    BY <1>2, <1>3, <2>1 DEF WellFormed
  <2>3. i \in 1..Len(r)
    BY <1>1, <2>1
  <2>4. /\ [r EXCEPT ![i] = o] \in Seq(Data) /\ Len([r EXCEPT ![i] = o]) = Len(r)
        /\ \A j \in 1..Len(r) : [r EXCEPT ![i] = o][j] = IF j = i THEN o ELSE r[j]
    BY <2>3
  <2> QED  BY <1>3, <2>1, <2>2, <2>4
<1>5. rows = [file.rows EXCEPT ![line] = row]
  OBVIOUS
<1> HIDE DEF row, rows
<1>6. WellFormed(file.types, rows) /\ Widths(rows) = [Widths(file.rows) EXCEPT ![line] = Len(row)]
  <2>1. Fits(file.types, file.rows, line, row, rows)
    BY <1>3, <1>4, <1>5 DEF Fits
  <2> QED  BY <1>2, <2>1, LineEdited
<1>7. objects(rows) = objects(file.rows)
  <2>1. file.rows \in Seq(Seq(Data)) /\ rows \in Seq(Seq(Data))
    BY <1>2, <1>6 DEF WellFormed
  <2>2. /\ Widths(file.rows) \in [1..Len(file.rows) -> Nat]
        /\ Widths(file.rows)[line] = Len(file.rows[line])
    BY <1>3, <2>1, WidthsType
  <2>3. Widths(rows) = Widths(file.rows)
    BY <1>4, <1>6, <2>2
  <2> QED  BY <2>1, <2>3, SameShape
<1> QED  BY <1>1, <1>2, <1>6, <1>7, EditKeeps

LEMMA RemoveObjectKeeps ==
  ASSUME FileInv, NEW line \in 1..MaxLines, NEW i \in Nat, removeObject(line, i)
  PROVE  FileInv'
<1> DEFINE row == RemoveAt(file.rows[line], i)
           rows == [file.rows EXCEPT ![line] = row]
<1>1. /\ stage = "open" /\ line \in DOMAIN file.rows /\ i \in DOMAIN file.rows[line]
      /\ Edit(file.types, rows, file.amount - 1)
  BY DEF removeObject
<1>2. WellFormed(file.types, file.rows) /\ file.amount = objects(file.rows)
  BY <1>1 DEF FileInv, InMemory
<1>3. line \in 1..Len(file.rows)
  BY <1>1, <1>2 DEF WellFormed
<1>4. /\ row \in Seq(Data) /\ Len(row) \in Nat /\ Len(row) + 1 = Len(file.rows[line])
      /\ \A j \in 1..Len(row) : row[j][1] = file.types[line]
  <2>1. PICK r \in Seq(Data) : r = file.rows[line]
    BY <1>2, <1>3 DEF WellFormed
  <2>2. \A j \in 1..Len(r) : r[j][1] = file.types[line]
    BY <1>2, <1>3, <2>1 DEF WellFormed
  <2>3. i \in 1..Len(r) /\ Len(r) \in Nat
    BY <1>1, <2>1
  <2>4. PICK s : s = RemoveAt(r, i)
    OBVIOUS
  <2>5. /\ s \in Seq(Data) /\ Len(s) = Len(r) - 1
        /\ \A j \in 1..Len(r) - 1 : s[j] = r[Up(i, j)] /\ Up(i, j) \in 1..Len(r)
    BY <2>3, <2>4, Removed
  <2>6. \A j \in 1..Len(s) : s[j][1] = file.types[line]
    BY <2>2, <2>5
  <2>7. s = row
    BY <2>1, <2>4
  <2> HIDE DEF row
  <2>8. Len(s) + 1 = Len(file.rows[line])
    BY <2>1, <2>3, <2>5
  <2> QED  BY <2>5, <2>6, <2>7, <2>8
<1> HIDE DEF row, rows
<1>5. WellFormed(file.types, rows) /\ Widths(rows) = [Widths(file.rows) EXCEPT ![line] = Len(row)]
  <2>1. Fits(file.types, file.rows, line, row, rows)
    BY <1>3, <1>4 DEF Fits, rows
  <2> QED  BY <1>2, <2>1, LineEdited
<1>6. objects(rows) = objects(file.rows) - 1
  <2>1. /\ file.rows \in Seq(Seq(Data)) /\ rows \in Seq(Seq(Data))
    BY <1>2, <1>5 DEF WellFormed
  <2>2. /\ Widths(file.rows) \in [1..Len(file.rows) -> Nat]
        /\ Widths(file.rows)[line] = Len(file.rows[line])
    BY <1>3, <2>1, WidthsType
  <2>3. line \in 1..Len(rows)
    BY <1>2, <1>3, <1>5 DEF WellFormed
  <2>4. LongerAt(line, rows, file.rows)
    BY <1>3, <1>4, <1>5, <2>2 DEF LongerAt
  <2>5. objects(file.rows) = objects(rows) + 1
    BY <2>1, <2>3, <2>4, Longer
  <2>6. objects(rows) \in Nat
    BY <2>1, AmountIsNat
  <2> QED  BY <2>5, <2>6
<1> QED  BY <1>1, <1>2, <1>5, <1>6, EditKeeps

LEMMA DeleteLineKeeps ==
  ASSUME FileInv, NEW line \in 1..MaxLines, deleteLine(line)
  PROVE  FileInv'
<1> DEFINE types == RemoveAt(file.types, line)
           rows == RemoveAt(file.rows, line)
           n == Len(file.rows)
<1>1. /\ stage = "open" /\ line \in DOMAIN file.rows
      /\ Edit(types, rows, file.amount - Len(file.rows[line]))
  BY DEF deleteLine
<1>2. WellFormed(file.types, file.rows) /\ file.amount = objects(file.rows)
  BY <1>1 DEF FileInv, InMemory
<1>3. /\ file.types \in Seq(Tags) /\ file.rows \in Seq(Seq(Data)) /\ n \in Nat
      /\ Len(file.types) = n /\ n <= MaxLines /\ MaxLines \in Nat /\ line \in 1..n
  BY <1>1, <1>2, FileAssumption DEF WellFormed
<1>4. /\ types \in Seq(Tags) /\ Len(types) = n - 1
      /\ \A j \in 1..n - 1 : types[j] = file.types[Up(line, j)]
  <2>1. line \in 1..Len(file.types)
    BY <1>3
  <2>2. /\ types \in Seq(Tags) /\ Len(types) = Len(file.types) - 1
        /\ \A j \in 1..Len(file.types) - 1 : types[j] = file.types[Up(line, j)]
    BY <1>3, <2>1, Removed
  <2> HIDE DEF types
  <2> QED  BY <1>3, <2>2
<1>5. /\ rows \in Seq(Seq(Data)) /\ Len(rows) = n - 1
      /\ \A j \in 1..n - 1 : rows[j] = file.rows[Up(line, j)] /\ Up(line, j) \in 1..n
  BY <1>3, Removed
<1> HIDE DEF types, rows
<1>6. WellFormed(types, rows)
  <2>1. ASSUME NEW i \in 1..n - 1, NEW j \in 1..Len(rows[i]) PROVE rows[i][j][1] = types[i]
    <3>1. types[i] = file.types[Up(line, i)] /\ rows[i] = file.rows[Up(line, i)]
          /\ Up(line, i) \in 1..n
      BY <1>4, <1>5
    <3>2. j \in 1..Len(file.rows[Up(line, i)])
      BY <3>1
    <3> QED  BY <1>2, <3>1, <3>2 DEF WellFormed
  <2>2. n - 1 <= MaxLines
    BY <1>3
  <2> HIDE DEF n
  <2> QED  BY <1>4, <1>5, <2>1, <2>2 DEF WellFormed
<1>7. objects(rows) = objects(file.rows) - Len(file.rows[line])
  <2>1. DeletedAt(line, file.rows, rows)
    BY <1>3, <1>5 DEF DeletedAt
  <2> QED  BY <1>3, <1>5, <2>1, LineDeleted
<1> QED  BY <1>1, <1>2, <1>6, <1>7, EditKeeps

-----------------------------------------------------------------------------
(* Images *)

Sheet(s) == s = [types |-> s.types, rows |-> s.rows]

LEMMA SheetShape ==
  /\ \A s \in Sheets : Sheet(s)
  /\ Corrupt \notin Sheets
  /\ MaxLines \in Nat => Empty \in Sheets
<1>1. \A s \in Sheets : Sheet(s) /\ Len(s.types) = Len(s.rows)
  BY DEF Sheets, Sheet
<1>2. Len(Corrupt.types) = 1 /\ Len(Corrupt.rows) = 0
  BY DEF Corrupt
<1>3. ASSUME MaxLines \in Nat PROVE Empty \in Sheets
  <2>1. ASSUME NEW E PROVE <<>> \in BoundedSeq(E, MaxLines)
    <3>1. 0 \in 0..MaxLines /\ <<>> \in [1..0 -> E]
      BY <1>3
    <3> QED  BY <3>1 DEF BoundedSeq, SeqOf
  <2>2. DOMAIN <<>> = {} /\ Len(<<>>) = 0
    OBVIOUS
  <2> QED  BY <2>1, <2>2 DEF Sheets, Empty
<1>4. Corrupt \notin Sheets
  BY <1>1, <1>2
<1> QED  BY <1>1, <1>3, <1>4

(* An image is a file, and so is what is left of one.                        *)
LEMMA ImageIsFile ==
  ASSUME NEW types, NEW rows, NEW n
  PROVE  Image(types, rows) # Absent
         /\ (n \in Nat => Cut(Image(types, rows), n) # Absent)
<1> DEFINE b == Padded(Body(types, rows))
           f == [head |-> Header, body |-> b]
<1>1. Image(types, rows) = f
  BY DEF Image
<1> HIDE DEF b
<1>2. Header # <<-1>>
  BY DEF Header
<1>3. f # Absent
  <2>1. f.head # Absent.head
    BY <1>2 DEF Absent
  <2> QED  BY <2>1
<1>4. ASSUME n \in Nat PROVE Cut(f, n).head # <<-1>>
  <2>1. CASE n < 4
    <3>1. Cut(f, n).head = SubSeq(Header, 1, n)
      BY <2>1 DEF Cut, Header
    <3>2. n = 0 \/ n = 1 \/ n = 2 \/ n = 3
      BY <1>4, <2>1
    <3>3. SubSeq(Header, 1, n) # <<-1>>
      <4>1. n >= 1 => SubSeq(Header, 1, n)[1] = 241
        BY <3>2 DEF Header
      <4>2. n = 0 => SubSeq(Header, 1, n) = <<>>
        BY DEF Header
      <4>3. n = 0 \/ n >= 1
        BY <3>2
      <4>4. <<-1>>[1] # 241 /\ <<-1>> # <<>>
        OBVIOUS
      <4> QED  BY <4>1, <4>2, <4>3, <4>4
    <3> QED  BY <3>1, <3>3
  <2>2. CASE ~ (n < 4)
    <3>1. Cut(f, n).head = Header
      BY <2>2 DEF Cut, Header
    <3> QED  BY <3>1, <1>2
  <2> QED  BY <2>1, <2>2
<1>5. ASSUME n \in Nat PROVE Cut(f, n) # Absent
  BY <1>4, <1>5 DEF Absent
<1> QED  BY <1>1, <1>3, <1>5

-----------------------------------------------------------------------------
(* The steps of opening, saving and failing *)

(* The lines that a save writes can be written, as the codec reads them.     *)
LEMMA SheetIsWritable ==
  ASSUME NEW s \in Sheets
  PROVE  Writable(s.types, s.rows) /\ s = [types |-> s.types, rows |-> s.rows]
<1> DEFINE types == s.types
           rows == s.rows
<1>1. s = [types |-> types, rows |-> rows]
  BY SheetShape DEF Sheet
<1> HIDE DEF types, rows
<1>2. MaxLines \in Nat /\ MaxItems \in Nat /\ Countable(MaxItems) /\ \A o \in Data : IsObject(o)
  BY FileAssumption
<1>3. /\ types \in Seq(Tags) /\ rows \in Seq(Seq(Data)) /\ Len(types) = Len(rows)
      /\ \A i \in 1..Len(rows) : /\ Len(rows[i]) <= MaxItems
                                 /\ \A j \in 1..Len(rows[i]) : rows[i][j][1] = types[i]
  <2>1. [types |-> types, rows |-> rows] \in Sheets
    BY <1>1
  <2>2. WellFormed(types, rows) /\ \A i \in 1..Len(rows) : Len(rows[i]) <= MaxItems
    BY <1>2, <2>1, SheetsAreWellFormed
  <2> QED  BY <2>2 DEF WellFormed
<1>4. types \in Seq(Objects)
  <2>1. Tags \subseteq Objects
    BY <1>2, ObjectReads DEF Tags
  <2> QED  BY <1>3, <2>1
<1>5. ASSUME NEW i \in 1..Len(rows) PROVE IsRow(rows[i], types[i])
  <2> DEFINE row == rows[i]
  <2>1. row \in Seq(Data) /\ Len(row) \in Nat /\ Len(row) <= MaxItems
    BY <1>3
  <2>2. \A j \in 1..Len(row) : row[j][1] = types[i]
    BY <1>3
  <2> HIDE DEF row
  <2>3. row \in Seq(ToSet(row)) /\ \A j \in 1..Len(row) : row[j] \in Data
    BY <2>1, SeqOfItself
  <2>4. Countable(Len(row))
    <3>1. mask(CountBits) \in Nat
      BY WidthsAreNat, MaskFacts
    <3> QED  BY <1>2, <2>1, <3>1 DEF Countable
  <2> QED  BY <1>2, <2>2, <2>3, <2>4 DEF IsRow, row
<1>6. rows \in Seq(ToSet(rows))
  BY <1>3, SeqOfItself
<1> QED  BY <1>1, <1>3, <1>4, <1>5, <1>6 DEF Writable, types, rows

(* What a save writes is read back as the lines it was given, and no part of *)
(* it that a power cut can leave is read as anything: for any objects, any   *)
(* widths of bytes, payloads, chars and counts.                              *)
THEOREM CodecIsSound == CodecSound
<1>1. ASSUME NEW s \in Sheets
      PROVE  LET f == Image(s.types, s.rows) IN
             /\ load(f) = s
             /\ \A n \in 0..(Len(f.head) + Len(f.body) \div ByteBits - 1) : load(Cut(f, n)) = Corrupt
  <2>1. Writable(s.types, s.rows) /\ s = [types |-> s.types, rows |-> s.rows]
    BY SheetIsWritable
  <2> QED  BY <2>1, ImageReads, CutIsRefused
<1> QED  BY <1>1 DEF CodecSound

\* The lines in memory, as long as none is too long to be written, make a sheet.
LEMMA SavableIsSheet ==
  ASSUME InMemory(file), ~\E row \in ToSet(file.rows) : Len(row) > MaxItems
  PROVE  Lines \in Sheets
<1>1. WellFormed(file.types, file.rows) /\ MaxLines \in Nat /\ MaxItems \in Nat
  BY FileAssumption DEF InMemory
<1>2. ASSUME NEW i \in 1..Len(file.rows) PROVE Len(file.rows[i]) <= MaxItems
  <2>1. file.rows[i] \in ToSet(file.rows)
    BY <1>1 DEF WellFormed, ToSet
  <2>2. Len(file.rows[i]) \in Nat
    BY <1>1 DEF WellFormed
  <2> QED  BY <1>1, <2>1, <2>2
<1> QED  BY <1>1, <1>2, SheetsAreWellFormed DEF Lines

LEMMA OpenKeeps ==
  ASSUME FileInv, OpenFile
  PROVE  FileInv'
<1>1. saved \in Sheets /\ Sheet(saved) /\ Found = saved
  BY SheetShape DEF OpenFile, FileInv
<1>2. /\ file' = [types |-> saved.types, rows |-> saved.rows,
                  amount |-> objects(saved.rows), dirty |-> FALSE]
      /\ stage' = "open" /\ UNCHANGED <<disk, temp, after, saved, durable, old>>
  BY <1>1 DEF OpenFile
<1>3. WellFormed(saved.types, saved.rows)
  BY <1>1, SheetsAreWellFormed, FileAssumption DEF Sheet
<1>4. objects(saved.rows) \in Int
  BY <1>3, AmountIsNat DEF WellFormed
<1>5. InMemory(file')
  BY <1>2, <1>3, <1>4 DEF InMemory, WellFormed
<1>6. Lines' = saved'
  BY <1>1, <1>2 DEF Sheet, Lines
<1> QED  BY <1>2, <1>5, <1>6 DEF FileInv, Found

LEMMA SaveKeeps ==
  ASSUME FileInv, NEW next \in {"open", "closed"}, Save(next)
  PROVE  FileInv'
<1>1. /\ stage = "open" /\ after' \in {"open", "closed"} /\ UNCHANGED <<disk, temp, saved, durable, old>>
      /\ file' = IF stage' = "closed" THEN Closed ELSE file
      /\ stage' = IF next = "closed" /\ ~file.dirty THEN "closed"
               ELSE IF \E row \in ToSet(file.rows) : Len(row) > MaxItems THEN next ELSE "encoded"
  BY DEF Save
<1>2. InMemory(file)
  BY <1>1 DEF FileInv
<1>3. CASE stage' = "closed"
  BY <1>1, <1>3 DEF FileInv, Found
<1>4. CASE stage' # "closed"
  <2>1. file' = file /\ stage' \in {"open", "encoded"} /\ (stage' = "encoded" => Lines \in Sheets)
    BY <1>1, <1>2, <1>4, SavableIsSheet
  <2> QED  BY <1>1, <2>1 DEF FileInv, Found, Lines
<1> QED  BY <1>3, <1>4

LEMMA ReturnKeeps ==
  ASSUME FileInv, stage \in {"encoded", "writing", "flushed"}, Return
  PROVE  FileInv'
<1>1. /\ stage' = after /\ after' = "open" /\ UNCHANGED <<disk, saved, durable, old>>
      /\ file' = IF after = "closed" THEN Closed ELSE file
  BY DEF Return
<1>2. CASE after = "closed"
  BY <1>1, <1>2 DEF FileInv, Found
<1>3. CASE after = "open"
  BY <1>1, <1>3 DEF FileInv, Found, Lines
<1> QED  BY <1>2, <1>3 DEF FileInv

LEMMA WriteTempKeeps ==
  ASSUME FileInv, WriteTemp
  PROVE  FileInv'
<1>1. PICK written : /\ stage = "encoded" /\ temp' = written
                     /\ stage' = IF written = Image(file.types, file.rows)
                              THEN "flushed" ELSE "writing"
                     /\ UNCHANGED <<file, disk, after, saved, durable, old>>
  BY DEF WriteTemp
<1> QED  BY <1>1 DEF FileInv, Found, Lines

(* The file under the name is known, and so is what a power cut may bring    *)
(* back when the name is taken from it.                                      *)
LEMMA UnlinkedIsKnown ==
  ASSUME FileInv
  PROVE  /\ Known([disk |-> disk, saved |-> saved, durable |-> durable])
         /\ Unlinked => \A f \in old' : Known(f)
<1>1. Known([disk |-> disk, saved |-> saved, durable |-> durable])
  BY DEF FileInv, Found, Known
<1> QED  BY <1>1 DEF FileInv, Unlinked

LEMMA RenameKeeps ==
  ASSUME FileInv, RenameTemp
  PROVE  FileInv'
<1>1. /\ stage = "flushed" /\ disk' = temp /\ saved' = Lines /\ durable' = FALSE
      /\ stage' = after /\ after' = "open" /\ Unlinked
      /\ file' = IF after = "closed" THEN Closed ELSE [file EXCEPT !.dirty = FALSE]
  BY DEF RenameTemp, Lines
<1>2. InMemory(file) /\ Lines \in Sheets /\ temp = Image(file.types, file.rows)
  BY <1>1 DEF FileInv
<1>3. Lines.types = file.types /\ Lines.rows = file.rows
  BY DEF Lines
<1>4. disk' # Absent /\ load(disk') = Lines /\ disk' = Image(saved'.types, saved'.rows)
  BY <1>1, <1>2, <1>3, ImageIsFile, CodecIsSound DEF CodecSound
<1>5. Found' = saved'
  BY <1>1, <1>4 DEF Found
<1>6. after = "open" => InMemory(file') /\ saved' = Lines'
  BY <1>1, <1>2 DEF InMemory, Lines
<1>7. \A f \in old' : Known(f)
  BY <1>1, UnlinkedIsKnown
<1> QED  BY <1>1, <1>2, <1>4, <1>5, <1>6, <1>7 DEF FileInv

(* What is left of a known file of which not all was written back is refused. *)
LEMMA ShortenedIsCorrupt ==
  ASSUME NEW f, Known(f), ~f.durable, Shortened(f.disk)
  PROVE  saved' = Corrupt /\ disk' # Absent /\ load(disk') = Corrupt
<1>1. PICK n \in 0..(Len(f.disk.head) + Len(f.disk.body) \div ByteBits - 1) :
        disk' = Cut(f.disk, n) /\ saved' = Corrupt
  BY DEF Shortened
<1>2. f.saved \in Sheets /\ f.disk = Image(f.saved.types, f.saved.rows)
  BY DEF Known
<1> QED  BY <1>1, <1>2, ImageIsFile, CodecIsSound DEF CodecSound

(* A power cut brings back a known file, or leaves a part of one. *)
LEMMA PowerCutKeeps ==
  ASSUME FileInv, FilePowerCut
  PROVE  FileInv'
<1>1. /\ durable' = TRUE /\ old' = {} /\ stage' = "closed" /\ after' = "open"
  BY DEF FilePowerCut
<1>2. (saved' = Corrupt \/ saved' \in Sheets) /\ Found' = saved'
  <2>1. ASSUME NEW f \in old, disk' = f.disk, saved' = f.saved
        PROVE  (saved' = Corrupt \/ saved' \in Sheets) /\ Found' = saved'
    BY <2>1 DEF FileInv, Known, Found
  <2>2. ASSUME NEW f \in old, ~f.durable, Shortened(f.disk)
        PROVE  saved' = Corrupt /\ Found' = saved'
    <3>1. Known(f)
      BY DEF FileInv
    <3> QED  BY <2>2, <3>1, ShortenedIsCorrupt DEF Found
  <2>3. ASSUME ~durable, Shortened(disk) PROVE saved' = Corrupt /\ Found' = saved'
    <3> DEFINE f == [disk |-> disk, saved |-> saved, durable |-> durable]
    <3>1. Known(f) /\ ~f.durable /\ Shortened(f.disk)
      BY <2>3, UnlinkedIsKnown
    <3> HIDE DEF f
    <3> QED  BY <3>1, ShortenedIsCorrupt DEF Found
  <2> QED  BY <2>1, <2>2, <2>3 DEF FilePowerCut
<1> QED  BY <1>1, <1>2 DEF FileInv

LEMMA DiscardKeeps ==
  ASSUME FileInv, Discard
  PROVE  FileInv'
<1>1. /\ stage = "closed" /\ disk' = Absent /\ saved' = Empty /\ durable' = durable /\ Unlinked
      /\ UNCHANGED <<file, temp, stage, after>>
  BY DEF Discard
<1>2. durable
  BY SheetShape DEF Discard, FileInv
<1>3. Found' = Empty /\ Empty \in Sheets
  BY <1>1, SheetShape, FileAssumption DEF Found
<1>4. \A f \in old' : Known(f)
  BY <1>1, UnlinkedIsKnown
<1> QED  BY <1>1, <1>2, <1>3, <1>4 DEF FileInv

LEMMA FileInvNext ==
  ASSUME FileInv, [FileNext]_fileVars
  PROVE  FileInv'
<1>1. CASE OpenFile
  BY <1>1, OpenKeeps
<1>2. ASSUME NEW o \in Data, pushNewLine(o) PROVE FileInv'
  BY <1>2, PushNewLineKeeps
<1>3. ASSUME NEW o \in Data, NEW line \in 1..MaxLines, push(line, o) PROVE FileInv'
  BY <1>3, PushKeeps
<1>4. ASSUME NEW o \in Data, NEW line \in 1..MaxLines, NEW i \in 1..MaxObjects,
             replaceObject(line, i, o)
      PROVE  FileInv'
  <2>1. i \in Nat
    OBVIOUS
  <2> QED  BY <1>4, <2>1, ReplaceObjectKeeps
<1>5. ASSUME NEW line \in 1..MaxLines, deleteLine(line) PROVE FileInv'
  BY <1>5, DeleteLineKeeps
<1>6. ASSUME NEW line \in 1..MaxLines, NEW i \in 1..MaxObjects, removeObject(line, i)
      PROVE  FileInv'
  <2>1. i \in Nat
    OBVIOUS
  <2> QED  BY <1>6, <2>1, RemoveObjectKeeps
<1>7. ASSUME NEW next \in {"open", "closed"}, Save(next) PROVE FileInv'
  BY <1>7, SaveKeeps
<1>8. CASE TempFails \/ FlushFails \/ RenameTempFails
  BY <1>8, ReturnKeeps DEF TempFails, FlushFails, RenameTempFails
<1>9. CASE WriteTemp
  BY <1>9, WriteTempKeeps
<1>10. CASE Flush
  BY <1>10 DEF Flush, FileInv, Found, Lines
<1>11. CASE RenameTemp
  BY <1>11, RenameKeeps
<1>12. CASE FileCrash
  BY <1>12 DEF FileCrash, FileInv, Found
<1>13. CASE WriteBack
  BY <1>13 DEF WriteBack, FileInv, Found, Lines
<1>17. CASE WriteBackEntry
  BY <1>17 DEF WriteBackEntry, FileInv, Found, Lines
<1>14. CASE FilePowerCut
  BY <1>14, PowerCutKeeps
<1>15. CASE Discard
  BY <1>15, DiscardKeeps
<1>16. CASE UNCHANGED fileVars
  BY <1>16 DEF fileVars, FileInv, Found, Lines
<1> QED
  BY <1>1, <1>2, <1>3, <1>4, <1>5, <1>6, <1>7, <1>8, <1>9, <1>10, <1>11, <1>12, <1>13, <1>14,
     <1>15, <1>16, <1>17 DEF FileNext

(* For any objects the classes can hold, any widths and any bounds, the      *)
(* invariant holds through every edit, save, failure, kill and power cut.    *)
THEOREM FileInvariant == FileSpec => []FileInv
<1>1. FileInit => FileInv
  <2>1. Empty \in Sheets
    BY SheetShape, FileAssumption
  <2> QED  BY <2>1 DEF FileInit, FileInv, Found
<1>2. FileInv /\ [FileNext]_fileVars => FileInv'
  BY FileInvNext
<1> QED  BY <1>1, <1>2, PTL DEF FileSpec

(* Whatever failed, the name leads to the lines of the last save that got as *)
(* far as the rename; after a power cut, which may undo a rename that was    *)
(* never synced, perhaps to those of an earlier one, or to a part of a file, *)
(* which is refused.                                                         *)
THEOREM FileIsSavedOrRefused == FileSpec => []SavedOrRefused
<1>1. FileInv => SavedOrRefused
  BY DEF FileInv, SavedOrRefused
<1> QED  BY <1>1, FileInvariant, PTL

(* An open file without unsaved changes is the file on disk, and reports the *)
(* amount of its objects.                                                    *)
THEOREM CleanFileIsSaved == FileSpec => []CleanMeansSaved
<1>1. FileInv => CleanMeansSaved
  BY DEF FileInv, InMemory, Lines, CleanMeansSaved
<1> QED  BY <1>1, FileInvariant, PTL
-----------------------------------------------------------------------------
(* An object in memory *)

\* Distinct keys, one entry each.
OneEach(S) == \A e, f \in S : e[1] = f[1] => e = f

LEMMA ItemIsObject == ASSUME NEW v, IsItem(v) PROVE IsObject(v) /\ v[1] \in Items
BY ItemBits, AlternativeIs

LEMMA ObjectIs ==
  ASSUME NEW o, IsObject(o)
  PROVE  /\ o[1] = STR => IsString(o)
         /\ o[1] = VEC => IsVec(o)
         /\ o[1] = MAP => IsMap(o)
<1>1. ASSUME o[1] = STR PROVE IsString(o)
  <2>1. o[1] \in Items /\ STR # PAIR
    BY <1>1, Codes
  <2>2. IsItem(o)
    BY <2>1, AlternativeIs
  <2> QED  BY <1>1, <2>1, <2>2 DEF IsItem, IsLeaf
<1> QED  BY <1>1, AlternativeIs

LEMMA StringMade ==
  ASSUME NEW s \in Seq(Unsigned(CharBits)), Countable(Len(s))
  PROVE  IsObject(<<STR, s>>)
<1> DEFINE o == <<STR, s>>
<1>1. o[1] = STR /\ o[2] = s /\ o = <<STR, o[2]>>
  OBVIOUS
<1> HIDE DEF o
<1>2. o[1] # PAIR /\ o[1] \in Items
  BY <1>1, Codes
<1>3. IsItem(o)
  BY <1>1, <1>2 DEF IsItem, IsLeaf, IsString
<1> QED  BY <1>3, ItemIsObject DEF o

LEMMA VecMade ==
  ASSUME NEW t, NEW s, s \in Seq(ToSet(s)), Countable(Len(s)),
         t \in Items \/ (t = none /\ s = <<>>), AllItems(s, t)
  PROVE  IsObject(<<VEC, t, s>>)
<1> DEFINE o == <<VEC, t, s>>
<1>1. o[1] = VEC /\ o[2] = t /\ o[3] = s /\ o = <<VEC, o[2], o[3]>>
  OBVIOUS
<1> HIDE DEF o
<1>2. DOMAIN s = 1..Len(s)
  OBVIOUS
<1>3. IsVec(o)
  BY <1>1, <1>2 DEF IsVec, AllItems
<1> QED  BY <1>1, <1>3, AlternativeIs DEF o

LEMMA MapMade ==
  ASSUME NEW kt, NEW vt, NEW S, IsFiniteSet(S), Countable(Cardinality(S)),
         (kt \in Leaves /\ vt \in Items) \/ (kt = none /\ vt = none /\ S = {}),
         \A e \in S : IsEntry(e, kt, vt), OneEach(S)
  PROVE  IsObject(<<MAP, kt, vt, S>>)
<1> DEFINE o == <<MAP, kt, vt, S>>
<1>1. o[1] = MAP /\ o[2] = kt /\ o[3] = vt /\ o[4] = S /\ o = <<MAP, o[2], o[3], o[4]>>
  OBVIOUS
<1> HIDE DEF o
<1>2. IsMap(o)
  BY <1>1 DEF IsMap, IsEntry, OneEach
<1> QED  BY <1>1, <1>2, AlternativeIs DEF o

\* What can be counted.
LEMMA Counted ==
  /\ Countable(0)
  /\ \A n \in Nat : n <= MaxLength => Countable(n)
  /\ \A m, n \in Nat : Countable(n) /\ m <= n => Countable(m)
<1>1. mask(CountBits) \in Nat /\ mask(CountBits) > 0
  BY WidthsAreNat, MaskFacts
<1>2. MaxLength \in Nat /\ MaxLength < mask(CountBits)
  BY ObjectAssumption DEF Countable
<1> QED  BY <1>1, <1>2 DEF Countable

(* The empty objects are objects. *)
LEMMA EmptyObjects == IsObject(EmptyString) /\ IsObject(EmptyVec) /\ IsObject(EmptyMap)
<1>1. <<>> \in Seq(Unsigned(CharBits)) /\ <<>> \in Seq(ToSet(<<>>)) /\ Len(<<>>) = 0
  OBVIOUS
<1>2. IsObject(EmptyString)
  BY <1>1, Counted, StringMade DEF EmptyString
<1>3. AllItems(<<>>, none)
  BY <1>1 DEF AllItems
<1>4. IsObject(EmptyVec)
  BY <1>1, <1>3, Counted, VecMade DEF EmptyVec
<1>5. IsFiniteSet({}) /\ Cardinality({}) = 0 /\ OneEach({})
  BY FS_EmptySet DEF OneEach
<1>6. IsObject(EmptyMap)
  BY <1>5, Counted, MapMade DEF EmptyMap
<1> QED  BY <1>2, <1>4, <1>6

(* The operations of a string, in one: its chars are given chars, or some of *)
(* its own, and not more than can be counted.                                *)
LEMMA StringSteps ==
  ASSUME IsObject(object), ObjectNext,
         (\E c \in Chars : PushChar(c)) \/ PushSelf \/ (\E i \in 1..MaxLength : RemoveChar(i))
  PROVE  IsObject(object')
<1> DEFINE s == object[2]
           n == Len(s)
<1>1. object[1] = STR
  BY DEF PushChar, PushSelf, RemoveChar
<1>2. s \in Seq(Unsigned(CharBits)) /\ Countable(n)
  BY <1>1, ObjectIs DEF IsString
<1>3. n \in Nat /\ DOMAIN s = 1..n /\ MaxLength \in Nat
  BY <1>2, ObjectAssumption
<1>4. ASSUME NEW c \in Chars, PushChar(c) PROVE IsObject(object')
  <2>1. n < MaxLength /\ object' = <<STR, Append(s, c)>> /\ c \in Unsigned(CharBits)
    BY <1>4, ObjectAssumption DEF PushChar
  <2>2. Append(s, c) \in Seq(Unsigned(CharBits)) /\ Len(Append(s, c)) = n + 1
    BY <1>2, <2>1
  <2> HIDE DEF n, s
  <2>3. n + 1 \in Nat /\ n + 1 <= MaxLength
    BY <1>3, <2>1
  <2>4. Countable(Len(Append(s, c)))
    BY <2>2, <2>3, Counted
  <2> QED  BY <2>1, <2>2, <2>4, StringMade
<1>5. CASE PushSelf
  <2>1. 2 * n <= MaxLength /\ object' = <<STR, s \o s>>
    BY <1>5 DEF PushSelf
  <2>2. s \o s \in Seq(Unsigned(CharBits)) /\ Len(s \o s) = n + n
    BY <1>2
  <2> HIDE DEF n, s
  <2>3. n + n \in Nat /\ n + n <= MaxLength
    BY <1>3, <2>1
  <2>4. Countable(Len(s \o s))
    BY <2>2, <2>3, Counted
  <2> QED  BY <2>1, <2>2, <2>4, StringMade
<1>6. ASSUME NEW i \in 1..MaxLength, RemoveChar(i) PROVE IsObject(object')
  <2>1. i \in 1..n /\ object' = <<STR, RemoveAt(s, i)>>
    BY <1>3, <1>6 DEF RemoveChar
  <2>2. RemoveAt(s, i) \in Seq(Unsigned(CharBits)) /\ Len(RemoveAt(s, i)) = n - 1
    BY <1>2, <2>1, Removed
  <2> HIDE DEF n, s
  <2>3. n - 1 \in Nat /\ n - 1 <= n
    BY <1>3, <2>1
  <2>4. Countable(Len(RemoveAt(s, i)))
    BY <1>2, <1>3, <2>2, <2>3, Counted
  <2> QED  BY <2>1, <2>2, <2>4, StringMade
<1> QED  BY <1>4, <1>5, <1>6

(* An element of the vec's type is appended. *)
LEMMA VecPushKeeps ==
  ASSUME IsObject(object), NEW v, IsItem(v), VecPush(v)
  PROVE  IsObject(object')
<1> DEFINE s == object[3]
           n == Len(s)
           t == v[1]
           q == Append(s, v)
<1>1. object[1] = VEC /\ n < MaxLength /\ object[2] \in {none, t} /\ object' = <<VEC, t, q>>
  BY DEF VecPush
<1>2. /\ s \in Seq(ToSet(s)) /\ (object[2] \in Items \/ (object[2] = none /\ s = <<>>))
      /\ \A i \in DOMAIN s : IsItem(s[i]) /\ s[i][1] = object[2]
  BY <1>1, ObjectIs DEF IsVec
<1>3. n \in Nat /\ DOMAIN s = 1..n /\ MaxLength \in Nat /\ t \in Items /\ none \notin Items
  <2>1. t \in Items /\ none \notin Items
    BY Codes, ItemIsObject
  <2> QED  BY <1>2, <2>1, ObjectAssumption
<1>4. \A i \in 1..n : IsItem(s[i]) /\ s[i][1] = t
  <2>1. ASSUME NEW i \in 1..n PROVE object[2] = t
    <3>1. s # <<>>
      BY <1>3
    <3> QED  BY <1>1, <1>2, <1>3, <3>1
  <2> QED  BY <1>2, <1>3, <2>1
<1> HIDE DEF t
<1>5. /\ q \in Seq(ToSet(s) \cup {v}) /\ Len(q) = n + 1
      /\ \A i \in 1..n : q[i] = s[i]
      /\ q[n + 1] = v
  BY <1>2
<1> HIDE DEF q
<1>6. AllItems(q, t)
  <2> SUFFICES ASSUME NEW i \in 1..(n + 1) PROVE IsItem(q[i]) /\ q[i][1] = t
    BY <1>5 DEF AllItems
  <2> HIDE DEF n, s
  <2>1. i \in 1..n \/ i = n + 1
    BY <1>3
  <2> QED  BY <1>4, <1>5, <2>1 DEF t
<1> HIDE DEF n, s
<1>7. Countable(Len(q))
  <2>1. n + 1 \in Nat /\ n + 1 <= MaxLength
    BY <1>1, <1>3
  <2> QED  BY <1>5, <2>1, Counted
<1>8. q \in Seq(ToSet(q))
  BY <1>5, SeqOfItself
<1> QED  BY <1>1, <1>3, <1>6, <1>7, <1>8, VecMade

LEMMA VecRemoveKeeps ==
  ASSUME IsObject(object), NEW i \in 1..MaxLength, VecRemove(i)
  PROVE  IsObject(object')
<1> DEFINE s == object[3]
           n == Len(s)
           t == object[2]
           q == RemoveAt(s, i)
<1>1. object[1] = VEC /\ i \in DOMAIN s /\ object' = <<VEC, t, q>>
  BY DEF VecRemove
<1>2. /\ s \in Seq(ToSet(s)) /\ Countable(n) /\ (t \in Items \/ (t = none /\ s = <<>>))
      /\ \A j \in DOMAIN s : IsItem(s[j]) /\ s[j][1] = t
  BY <1>1, ObjectIs DEF IsVec
<1>3. n \in Nat /\ DOMAIN s = 1..n /\ i \in 1..n
  BY <1>1, <1>2
<1>4. t \in Items
  BY <1>2, <1>3
<1>5. /\ q \in Seq(ToSet(s)) /\ Len(q) = n - 1
      /\ \A j \in 1..(n - 1) : q[j] = s[Up(i, j)] /\ Up(i, j) \in 1..n
  BY <1>2, <1>3, Removed
<1> HIDE DEF q, n, s, t
<1>6. AllItems(q, t)
  BY <1>2, <1>3, <1>5 DEF AllItems
<1>7. Countable(Len(q))
  <2>1. n - 1 \in Nat /\ n - 1 <= n
    BY <1>3
  <2> QED  BY <1>2, <1>3, <1>5, <2>1, Counted
<1>8. q \in Seq(ToSet(q))
  BY <1>5, SeqOfItself
<1> QED  BY <1>1, <1>4, <1>6, <1>7, <1>8, VecMade

(* An entry is added, or takes the place of the one with its key.            *)
LEMMA MapInsertKeeps ==
  ASSUME IsObject(object), NEW k, IsItem(k), k[1] \in Leaves, NEW v, IsItem(v),
         NEW assign, MapInsert(k, v, assign)
  PROVE  IsObject(object')
<1> DEFINE S == object[4]
           replaced == {e \in S : e[1] = k}
           T == (S \ replaced) \cup {<<k, v>>}
           kt == k[1]
           vt == v[1]
<1>1. /\ object[1] = MAP /\ object[2] \in {none, kt} /\ object[3] \in {none, vt}
      /\ replaced = {} => Cardinality(S) < MaxLength
      /\ object' = <<MAP, kt, vt, T>>
  BY DEF MapInsert, typesMatch
<1>2. /\ IsFiniteSet(S) /\ Countable(Cardinality(S)) /\ OneEach(S)
      /\ \/ object[2] \in Leaves /\ object[3] \in Items
         \/ object[2] = none /\ object[3] = none /\ S = {}
      /\ \A e \in S : IsEntry(e, object[2], object[3])
  BY <1>1, ObjectIs DEF IsMap, IsEntry, OneEach
<1>3. kt \in Leaves /\ vt \in Items /\ none \notin Leaves /\ none \notin Items
  BY Codes, ItemIsObject
<1>4. IsEntry(<<k, v>>, kt, vt)
  <2>1. IsLeaf(k)
    BY Codes DEF IsItem
  <2> QED  BY <2>1 DEF IsEntry
<1>5. \A e \in S : IsEntry(e, kt, vt)
  <2>1. ASSUME NEW e \in S PROVE object[2] = kt /\ object[3] = vt
    BY <1>1, <1>2, <1>3
  <2> QED  BY <1>2, <2>1
<1> HIDE DEF S, kt, vt
<1>6. \A e \in T : IsEntry(e, kt, vt)
  BY <1>4, <1>5
<1>7. OneEach(T)
  <2> SUFFICES ASSUME NEW e \in T, NEW f \in T, e[1] = f[1] PROVE e = f
    BY DEF OneEach
  <2>1. <<k, v>>[1] = k
    OBVIOUS
  <2>2. \A g \in S \ replaced : g[1] # k
    OBVIOUS
  <2>3. CASE e = <<k, v>>
    BY <2>1, <2>2, <2>3
  <2>4. CASE e # <<k, v>>
    <3>1. e \in S /\ e[1] # k
      BY <2>2, <2>4
    <3>2. f \in S
      BY <2>1, <3>1
    <3> QED  BY <1>2, <3>1, <3>2 DEF OneEach
  <2> QED  BY <2>3, <2>4
<1>8. IsFiniteSet(T) /\ Countable(Cardinality(T))
  <2>1. Cardinality(S) \in Nat /\ MaxLength \in Nat
    BY <1>2, FS_CardinalityType, ObjectAssumption
  <2>2. CASE replaced = {}
    <3>1. T = S \cup {<<k, v>>}
      BY <2>2
    <3>2. /\ IsFiniteSet(T) /\ Cardinality(T) \in Nat
          /\ Cardinality(T) = Cardinality(S) \/ Cardinality(T) = Cardinality(S) + 1
      BY <1>2, <3>1, FS_AddElement, FS_CardinalityType
    <3>3. Cardinality(T) <= MaxLength
      BY <1>1, <2>1, <2>2, <3>2
    <3> QED  BY <3>2, <3>3, Counted
  <2>3. CASE replaced # {}
    <3>1. PICK e \in S : e[1] = k
      BY <2>3
    <3> DEFINE U == S \ {e}
               V == U \cup {<<k, v>>}
    <3>2. IsFiniteSet(U) /\ Cardinality(U) = Cardinality(S) - 1
      BY <1>2, <3>1, FS_RemoveElement
    <3> HIDE DEF U
    <3>3. IsFiniteSet(V) /\ (Cardinality(V) = Cardinality(U) \/ Cardinality(V) = Cardinality(U) + 1)
      BY <3>2, FS_AddElement
    <3>4. T \subseteq V
      BY <3>1 DEF U
    <3> HIDE DEF V, T
    <3>5. IsFiniteSet(T) /\ Cardinality(T) <= Cardinality(V) /\ Cardinality(T) \in Nat
      BY <3>3, <3>4, FS_Subset, FS_CardinalityType
    <3>6. Cardinality(T) <= Cardinality(S)
      BY <2>1, <3>2, <3>3, <3>5
    <3> QED  BY <1>2, <2>1, <3>5, <3>6, Counted
  <2> QED  BY <2>2, <2>3
<1> HIDE DEF T
<1> QED  BY <1>1, <1>3, <1>6, <1>7, <1>8, MapMade

LEMMA MapRemoveKeeps ==
  ASSUME IsObject(object), NEW k, MapRemove(k)
  PROVE  IsObject(object')
<1> DEFINE S == object[4]
           T == {e \in S : e[1] # k}
           kt == object[2]
           vt == object[3]
<1>1. object[1] = MAP /\ object' = <<MAP, kt, vt, T>>
  BY DEF MapRemove
<1>2. /\ IsFiniteSet(S) /\ Countable(Cardinality(S)) /\ OneEach(S)
      /\ (kt \in Leaves /\ vt \in Items) \/ (kt = none /\ vt = none /\ S = {})
      /\ \A e \in S : IsEntry(e, kt, vt)
  BY <1>1, ObjectIs DEF IsMap, IsEntry, OneEach
<1> HIDE DEF S, kt, vt
<1>3. T \subseteq S
  OBVIOUS
<1> HIDE DEF T
<1>4. IsFiniteSet(T) /\ Cardinality(T) \in Nat /\ Cardinality(S) \in Nat /\ Cardinality(T) <= Cardinality(S)
  BY <1>2, <1>3, FS_Subset, FS_CardinalityType
<1>5. Countable(Cardinality(T))
  BY <1>2, <1>4, Counted
<1>6. OneEach(T) /\ (S = {} => T = {}) /\ \A e \in T : IsEntry(e, kt, vt)
  BY <1>2, <1>3 DEF OneEach
<1> QED  BY <1>1, <1>2, <1>4, <1>5, <1>6, MapMade

(* What a reader accepts from any bits is an object. *)
LEMMA ReadAnyKeeps ==
  ASSUME NEW t \in Objects, ReadAny(t)
  PROVE  IsObject(object')
<1>1. PICK p \in Openings, n \in 0..MaxBits :
        \E in \in [1..n -> {0, 1}] :
          Some(readAlternative(t, p \o in, 0)) /\ object' = readAlternative(t, p \o in, 0)[2]
  BY DEF ReadAny
<1>2. PICK in \in [1..n -> {0, 1}] :
        Some(readAlternative(t, p \o in, 0)) /\ object' = readAlternative(t, p \o in, 0)[2]
  BY <1>1
<1>3. p \in Seq(Bit) /\ in \in Seq(Bit)
  <2>1. n \in Nat
    OBVIOUS
  <2> QED  BY <2>1, ObjectAssumption DEF Bit
<1> DEFINE all == p \o in
<1>4. all \in Seq(Bit) /\ Len(all) \in Nat
  BY <1>3
<1> HIDE DEF all
<1> DEFINE r == readAlternative(t, all, 0)
<1>5. Some(r) /\ object' = r[2]
  BY <1>2 DEF all
<1>6. Begins(all, all) /\ 0 \in 0..Len(all)
  BY <1>4, SameBegins
<1> HIDE DEF r
<1>7. IsObject(r[2])
  BY <1>5, <1>6, ObjectSettles DEF r
<1> QED  BY <1>5, <1>7

\* What every operation keeps: the object is one of its class.
ObjectInv == IsObject(object)

LEMMA ObjectInvNext ==
  ASSUME ObjectInv, [ObjectNext]_object
  PROVE  ObjectInv'
<1> USE DEF ObjectInv
<1>1. \A v \in Given : IsItem(v)
  BY ObjectAssumption
<1>2. ASSUME NEW v \in Given, AssignString(v) PROVE ObjectInv'
  BY <1>1, <1>2, ItemIsObject DEF AssignString
<1>3. ASSUME NEW i \in 1..MaxLength, VecRemove(i) PROVE ObjectInv'
  BY <1>3, VecRemoveKeeps
<1>4. ASSUME NEW v \in Given, VecPush(v) PROVE ObjectInv'
  BY <1>1, <1>4, VecPushKeeps
<1>5. ASSUME NEW k \in Given, NEW v \in Given, NEW assign \in BOOLEAN,
             k[1] \in Leaves, MapInsert(k, v, assign)
      PROVE  ObjectInv'
  BY <1>1, <1>5, MapInsertKeeps
<1>6. ASSUME NEW k \in Given, MapRemove(k) PROVE ObjectInv'
  BY <1>6, MapRemoveKeeps
<1>7. CASE ClearObject
  BY <1>7, EmptyObjects DEF ClearObject
<1>8. ASSUME NEW t \in Objects, ReadAny(t) PROVE ObjectInv'
  BY <1>8, ReadAnyKeeps
<1>9. CASE object' = object
  BY <1>9
<1>10. ASSUME NEW c \in Chars, PushChar(c) PROVE ObjectInv'
  BY <1>10, StringSteps
<1>11. CASE PushSelf
  BY <1>11, StringSteps
<1>12. ASSUME NEW i \in 1..MaxLength, RemoveChar(i) PROVE ObjectInv'
  BY <1>12, StringSteps
<1> QED
  BY <1>2, <1>3, <1>4, <1>5, <1>6, <1>7, <1>8, <1>9, <1>10, <1>11, <1>12 DEF ObjectNext

(* An object of its class is uniform and reads back from what it writes,     *)
(* whatever follows.                                                         *)
LEMMA ObjectReadsBack == ASSUME ObjectInv PROVE ReadsBack
<1> DEFINE bits == writeAlternative(object)
<1>1. IsObject(object)
  BY DEF ObjectInv
<1>2. Uniform
  <2>1. ASSUME object[1] = VEC
        PROVE  \A i \in DOMAIN object[3] : object[3][i][1] = object[2]
    BY <1>1, <2>1, ObjectIs DEF IsVec
  <2>2. ASSUME object[1] = MAP
        PROVE  /\ \A e \in object[4] : e[1][1] = object[2] /\ e[2][1] = object[3]
               /\ \A e, f \in object[4] : e[1] = f[1] => e = f
    BY <1>1, <2>2, ObjectIs DEF IsMap
  <2> QED  BY <2>1, <2>2 DEF Uniform
<1>3. bits \in Seq(Bit) /\ Len(bits) >= minBits(object[1])
  BY <1>1, ObjectReads
<1> HIDE DEF bits
<1>4. ASSUME NEW rest \in Seq(Bit)
      PROVE  readAlternative(object[1], bits \o rest, 0) = <<Len(bits), object>>
  <2> DEFINE in == bits \o rest
  <2>1. /\ in \in Seq(Bit) /\ Len(bits) \in Nat /\ Len(rest) \in Nat
        /\ Len(in) = Len(bits) + Len(rest) /\ \A i \in 1..Len(bits) : in[i] = bits[i]
    BY <1>3, ConcatIs
  <2> HIDE DEF in
  <2>2. Ahead(in, 0, bits)
    <3>1. 0 \in Nat /\ 0 + Len(bits) <= Len(in) /\ \A i \in 1..Len(bits) : 0 + i = i
      BY <2>1
    <3> QED  BY <2>1, <3>1 DEF Ahead
  <2>3. readAlternative(object[1], in, 0) = <<0 + Len(bits), object>>
    <3>1. 0 \in Nat
      OBVIOUS
    <3> QED  BY <1>1, <2>1, <2>2, <3>1, ObjectReads DEF bits
  <2>4. 0 + Len(bits) = Len(bits)
    BY <2>1
  <2> QED  BY <2>3, <2>4 DEF in
<1>5. {<<>>, <<1, 1>>} \subseteq Seq(Bit)
  BY DEF Bit
<1> QED  BY <1>2, <1>3, <1>4, <1>5 DEF ReadsBack, bits

(* Every object that the operations build, from any chars and items and of   *)
(* any lengths that can be counted, and every object that a reader accepts   *)
(* from any bits, is uniform and reads back as itself, for all widths of     *)
(* payloads, chars and counts.                                               *)
THEOREM ObjectsReadBack == ObjectSpec => []ReadsBack
<1>1. ObjectInit => ObjectInv
  BY EmptyObjects, ItemIsObject, ObjectAssumption DEF ObjectInit, ObjectInv
<1>2. ObjectInv /\ [ObjectNext]_object => ObjectInv'
  BY ObjectInvNext
<1>3. ObjectInv => ReadsBack
  BY ObjectReadsBack
<1> QED  BY <1>1, <1>2, <1>3, PTL DEF ObjectSpec
=============================================================================
