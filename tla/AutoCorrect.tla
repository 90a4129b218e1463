---------------------------- MODULE AutoCorrect ----------------------------
(***************************************************************************)
(* autoCorrectFilter (C_Plus_Plus/form/autoCorrect.hpp): a dictionary in   *)
(* buckets by length, and the greedy comparison by which a string is       *)
(* replaced by the nearest of its words.                                   *)
(***************************************************************************)
EXTENDS Integers, Sequences, SequencesExt

CONSTANTS
  lookupGrid,      \* lower-case letter -> the same -> how far apart their keys are
  Symbols,         \* the characters of words and strings: letters of either case and others
  tolower,         \* std::tolower, character -> character
  DictionaryWords, \* the words added to the dictionary
  Strings,         \* the strings to fix
  Sensitivities,
  MaxWords         \* bound: words of one length in the dictionary

ASSUME CorrectAssumption ==
  /\ \A x, y \in DOMAIN lookupGrid : lookupGrid[x][y] \in Nat /\ (lookupGrid[x][y] = 0 <=> x = y)
  /\ tolower \in [Symbols -> Symbols]
  /\ DictionaryWords \subseteq Seq(Symbols)
  /\ Strings \subseteq Seq(Symbols)
  /\ Sensitivities \subseteq Nat

VARIABLES
  sensitivity,  \* _sensitivity
  dictionary,   \* length -> the words of that length, in the order added
  asked,        \* the string last given to fix since the dictionary changed ...
  answer        \* ... and what it returned

correctVars == <<sensitivity, dictionary, asked, answer>>

kMaxDistance == 255
kSwapCost == 1
kGapCost == 2

findLetterDistance(x, y) ==
  LET a == tolower[x]  b == tolower[y] IN
  IF a \in DOMAIN lookupGrid /\ b \in DOMAIN lookupGrid THEN lookupGrid[a][b] ELSE kMaxDistance
same(x, y) == findLetterDistance(x, y) = 0

\* Faulty variant: only letters left over in the word are charged.
TailOfWord(left, wordLeft) == kGapCost * wordLeft
\* What is left on either side is letters inserted or deleted.
TailCost(left, wordLeft) == kGapCost * (left + wordLeft)

\* One turn of fixHelper's loop: i letters of s and j of w are behind the cursors.
Turn(s, w, at) ==
  LET i == at.i + 1  j == at.j + 1
      left == Len(s) - at.i  wordLeft == Len(w) - at.j
      Move(di, dj, cost) == [i |-> at.i + di, j |-> at.j + dj, total |-> at.total + cost]
  IN
  IF left = 0 \/ wordLeft = 0 THEN at
  ELSE IF same(s[i], w[j]) THEN Move(1, 1, 0)
  ELSE IF left > 1 /\ wordLeft > 1 /\ same(s[i], w[j + 1]) /\ same(s[i + 1], w[j])
  THEN Move(2, 2, kSwapCost)
  ELSE IF wordLeft > left /\ same(s[i], w[j + 1]) THEN Move(0, 1, kGapCost)
  ELSE IF left > wordLeft /\ same(s[i + 1], w[j]) THEN Move(1, 0, kGapCost)
  ELSE Move(1, 1, findLetterDistance(s[i], w[j]))

\* fixHelper: every turn passes a letter, so there are no more turns than letters.
Cost(s, w) ==
  LET turn[k \in 0..(Len(s) + Len(w))] ==
        IF k = 0 THEN [i |-> 0, j |-> 0, total |-> 0] ELSE Turn(s, w, turn[k - 1])
      end == turn[Len(s) + Len(w)]
  IN  end.total + TailCost(Len(s) - end.i, Len(w) - end.j)

Bucket(len) == IF len \in DOMAIN dictionary THEN dictionary[len] ELSE <<>>

\* The candidates: words whose length is within the sensitivity, shorter first.
Pool(s) ==
  LET least == IF Len(s) > sensitivity THEN Len(s) - sensitivity ELSE 0
      lengths == Len(s) + sensitivity - least + 1
      pool[k \in 0..lengths] ==
        IF k = 0 THEN <<>> ELSE pool[k - 1] \o Bucket(least + k - 1)
  IN  pool[lengths]

\* The better of the best so far and a word: the cheaper, then the longer.
Better(s, best, w) ==
  LET cost == Cost(s, w) IN
  IF /\ cost <= sensitivity
     /\ best.cost = -1 \/ cost < best.cost \/ (cost = best.cost /\ Len(w) > Len(best.word))
  THEN [word |-> w, cost |-> cost] ELSE best

\* The cost -1 is that of the string itself, which any candidate replaces.
BestMatch(s) ==
  LET pool == Pool(s)
      best[k \in 0..Len(pool)] ==
        IF k = 0 THEN [word |-> s, cost |-> -1] ELSE Better(s, best[k - 1], pool[k])
  IN  best[Len(pool)].word
-----------------------------------------------------------------------------
CorrectInit ==
  /\ sensitivity \in Sensitivities
  /\ dictionary = <<>>
  /\ asked = <<>> /\ answer = <<>>

InDictionary == UNION {ToSet(dictionary[len]) : len \in DOMAIN dictionary}

addToDictionary(w) ==
  /\ Len(Bucket(Len(w))) < MaxWords
  /\ dictionary' = [len \in DOMAIN dictionary \cup {Len(w)} |->
                      IF len = Len(w) THEN Append(Bucket(len), w) ELSE dictionary[len]]
  /\ asked' = <<>> /\ answer' = <<>>
  /\ UNCHANGED sensitivity

fix(s) ==
  /\ asked' = s
  /\ answer' = BestMatch(s)
  /\ UNCHANGED <<sensitivity, dictionary>>

CorrectNext == (\E w \in DictionaryWords : addToDictionary(w)) \/ (\E s \in Strings : fix(s))

CorrectSpec == CorrectInit /\ [][CorrectNext]_correctVars
-----------------------------------------------------------------------------
\* Where one edit leads: i letters of s have become j of w at a cost.  A letter
\* is kept or replaced, left out, put in, or two neighbours are swapped.
EditsFrom(s, w, p) ==
  LET i == p[1] + 1  j == p[2] + 1 IN
    {<<i, j - 1, p[3] + kGapCost>>, <<i - 1, j, p[3] + kGapCost>>}
      \cup (IF i <= Len(s) /\ j <= Len(w)
            THEN {<<i, j, p[3] + findLetterDistance(s[i], w[j])>>} ELSE {})
      \cup (IF i < Len(s) /\ j < Len(w) /\ same(s[i], w[j + 1]) /\ same(s[i + 1], w[j])
            THEN {<<i + 1, j + 1, p[3] + kSwapCost>>} ELSE {})

\* Edits, one or more letters each, make w of s within a budget.
CanBecome(s, w, budget) ==
  LET places == (0..Len(s)) \X (0..Len(w)) \X (0..budget)
      reached[k \in 0..(Len(s) + Len(w))] ==
        IF k = 0 THEN {<<0, 0, 0>>}
        ELSE reached[k - 1] \cup {q \in UNION {EditsFrom(s, w, p) : p \in reached[k - 1]} : q \in places}
  IN  \E cost \in 0..budget : <<Len(s), Len(w), cost>> \in reached[Len(s) + Len(w)]

Lower(s) == [i \in DOMAIN s |-> tolower[s[i]]]
AllLetters(s) == ToSet(Lower(s)) \subseteq DOMAIN lookupGrid

(* fix changes a string only into a word of the dictionary that really is    *)
(* within the sensitivity - the greedy walk never counts fewer edits than    *)
(* it takes - and, of all such words it could count, the nearest, the        *)
(* candidates' window leaving none out.  A string of letters that is a word  *)
(* of the dictionary in some spelling is replaced by a spelling of that      *)
(* word, not by another: the spellings cost nothing, and the first added     *)
(* wins, so a word of the dictionary may change its case.                    *)
FixIsHonest ==
  LET within == {w \in InDictionary : Cost(asked, w) <= sensitivity} IN
  asked # <<>> =>
    /\ within = {} => answer = asked
    /\ within # {} =>
         /\ answer \in within
         /\ CanBecome(asked, answer, sensitivity)
         /\ \A w \in within : \/ Cost(asked, answer) < Cost(asked, w)
                              \/ Cost(asked, answer) = Cost(asked, w) /\ Len(answer) >= Len(w)
    /\ AllLetters(asked) /\ (\E w \in InDictionary : Lower(w) = Lower(asked)) =>
         Lower(answer) = Lower(asked)
=============================================================================
